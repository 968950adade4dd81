--------------------------- MODULE WalletThreads ---------------------------
(***************************************************************************)
(* Threads calling the wallet (LWWallet.c).  Every public call takes       *)
(* wallet->lock on entry; a locked section is one atomic step, which is    *)
(* sound because the sections exclude each other.  What a call does after  *)
(* unlocking is a step of its own:                                         *)
(*   - LWWalletRegisterTransaction (693-735) extends the external chain,   *)
(*     then the internal one, each by a call of LWWalletUnusedAddrs that   *)
(*     takes the lock again;                                               *)
(*   - LWWalletRemoveTransaction (737-805), when the tx has dependents,    *)
(*     unlocks, calls itself on each dependent, then on the tx again.      *)
(* The callbacks and the reads of the notification tail change no wallet   *)
(* state and are left out.  LWWalletUpdateTransactions and                 *)
(* LWWalletSetTxUnconfirmedAfter are one locked section each.              *)
(*                                                                         *)
(* Each thread runs a finite script of calls, chosen in the initial state. *)
(***************************************************************************)
EXTENDS Wallet

CONSTANTS
  Threads,    \* the threads calling the wallet
  Scripts     \* Scripts[th]: the call sequences thread th may make

VARIABLES
  script,     \* script[th]: the calls th has not started yet
  stage,      \* stage[th]: "idle", or the chain Register extends next
  frames      \* frames[th]: the Remove calls th is in, innermost first

tvars == <<script, stage, frames>>
allVars == <<vars, tvars>>

\* a Remove call waiting in its unlocked loop: tx is its argument, todo the
\* dependents it has still to remove
Frame == [tx : TxIds, todo : Seq(TxIds)]

Idle(th) == stage[th] = "idle" /\ frames[th] = <<>>

\* th is between calls and its next call is of kind op
Calling(th, op) == Idle(th) /\ script[th] # <<>> /\ Head(script[th]).op = op

Pop(th) == script' = [script EXCEPT ![th] = Tail(@)]

-----------------------------------------------------------------------------

\* LWWalletRegisterTransaction, the locked section: a wallet tx is added and
\* the chains are extended after unlocking; an unconfirmed other tx is kept
\* in allTx; a known tx, or a confirmed other tx, changes nothing
RegisterCall(th) ==
  /\ Calling(th, "register")
  /\ LET t == Head(script[th]).tx IN
       \/ RegisterLocked(t) /\ stage' = [stage EXCEPT ![th] = "external"]
       \/ RegisterOtherTx(t) /\ UNCHANGED stage
       \/ /\ \/ t \in allTx
             \/ ~ContainsTxIn(allTx, t) /\ txBlockHeight[t] # TX_UNCONFIRMED
          /\ UNCHANGED <<vars, stage>>
  /\ Pop(th)
  /\ UNCHANGED frames

\* LWWalletRegisterTransaction after unlocking: LWWalletUnusedAddrs on the
\* external chain, then on the internal chain
RegisterExtend(th) ==
  /\ \/ /\ stage[th] = "external"
        /\ UnusedAddrsCall(SEQUENCE_EXTERNAL_CHAIN, SEQUENCE_GAP_LIMIT_EXTERNAL)
        /\ stage' = [stage EXCEPT ![th] = "internal"]
     \/ /\ stage[th] = "internal"
        /\ UnusedAddrsCall(SEQUENCE_INTERNAL_CHAIN, SEQUENCE_GAP_LIMIT_INTERNAL)
        /\ stage' = [stage EXCEPT ![th] = "idle"]
  /\ UNCHANGED <<script, frames>>

\* the locked section of a call LWWalletRemoveTransaction(t) by th, whose
\* callers wait in the frames below: an unknown hash returns; a tx with
\* dependents unlocks into the loop over them; a tx without removes itself,
\* recomputes and returns
RemoveSection(th, t, below) ==
  \/ /\ t \notin allTx
     /\ frames' = [frames EXCEPT ![th] = below]
     /\ UNCHANGED vars
  \/ /\ t \in allTx
     /\ DependentSeq(t) # <<>>
     /\ frames' = [frames EXCEPT ![th] = <<[tx |-> t, todo |-> DependentSeq(t)]>> \o below]
     /\ UNCHANGED vars
  \/ /\ t \in allTx
     /\ DependentSeq(t) = <<>>
     /\ RemoveGone({t})
     /\ frames' = [frames EXCEPT ![th] = below]

RemoveCall(th) ==
  /\ Calling(th, "remove")
  /\ RemoveSection(th, Head(script[th]).tx, <<>>)
  /\ Pop(th)
  /\ UNCHANGED stage

\* the unlocked loop: the dependents are removed in the order of
\* wallet->transactions (hashes[count - 1] first), then the tx itself by a
\* last call, after which the caller only returns (its frame is replaced)
RemoveNext(th) ==
  /\ frames[th] # <<>>
  /\ LET f == Head(frames[th]) IN
       \/ f.todo # <<>> /\ RemoveSection(th, Head(f.todo),
                                          <<[f EXCEPT !.todo = Tail(@)]>> \o Tail(frames[th]))
       \/ f.todo = <<>> /\ RemoveSection(th, f.tx, Tail(frames[th]))
  /\ UNCHANGED <<script, stage>>

\* LWWalletUpdateTransactions on one hash, as a peer reports it: a report
\* the chain cannot produce (see ChainUpdate) is not made
UpdateCall(th) ==
  /\ Calling(th, "update")
  /\ LET c == Head(script[th]) IN
       \/ ChainUpdate(<<c.tx>>, c.h) /\ UpdateTransactions(<<c.tx>>, c.h, c.ts)
       \/ ~ChainUpdate(<<c.tx>>, c.h) /\ UNCHANGED vars
  /\ Pop(th)
  /\ UNCHANGED <<stage, frames>>

\* LWWalletSetTxUnconfirmedAfter, made on a reorganisation below the tip
UnconfirmCall(th) ==
  /\ Calling(th, "unconfirm")
  /\ LET h == Head(script[th]).h IN
       \/ h < blockHeight /\ SetTxUnconfirmedAfter(h)
       \/ h >= blockHeight /\ UNCHANGED vars
  /\ Pop(th)
  /\ UNCHANGED <<stage, frames>>

-----------------------------------------------------------------------------

ThreadInit ==
  /\ Init
  /\ script \in {s \in [Threads -> UNION {Scripts[th] : th \in Threads}] :
                   \A th \in Threads : s[th] \in Scripts[th]}
  /\ stage = [th \in Threads |-> "idle"]
  /\ frames = [th \in Threads |-> <<>>]

ThreadStep(th) ==
  \/ RegisterCall(th)
  \/ RegisterExtend(th)
  \/ RemoveCall(th)
  \/ RemoveNext(th)
  \/ UpdateCall(th)
  \/ UnconfirmCall(th)

Finished == \A th \in Threads : Idle(th) /\ script[th] = <<>>

\* every script done: the program has nothing left to call
Terminating == Finished /\ UNCHANGED allVars

ThreadNext == (\E th \in Threads : ThreadStep(th)) \/ Terminating

\* a thread that can take a step takes one: no locked section blocks, since
\* the lock holder finishes its section in one step
ThreadSpec == ThreadInit /\ [][ThreadNext]_allVars /\ \A th \in Threads : WF_allVars(ThreadStep(th))

-----------------------------------------------------------------------------
(* Properties.                                                             *)

\* Every call a thread starts returns, Register after extending both chains
\* and Remove after its unlocked recursion over the dependents, however the
\* other threads' calls interleave with the recursion.
CallsReturn == \A th \in Threads : ~Idle(th) ~> Idle(th)
=============================================================================
