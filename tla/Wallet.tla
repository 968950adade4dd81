------------------------------- MODULE Wallet -------------------------------
(***************************************************************************)
(* The wallet state engine of src/LWWallet.c: the transaction list kept in *)
(* order by an insertion sort, the derived state (UTXOs, spent outputs,    *)
(* invalid and pending sets, balance history, totals) recomputed by        *)
(* _LWWalletUpdateBalance, and the two BIP32 address chains grown by       *)
(* LWWalletUnusedAddrs.                                                    *)
(*                                                                         *)
(* Every public operation holds wallet->lock for its whole state change,   *)
(* so each is one atomic action here.  Register's calls to                 *)
(* LWWalletUnusedAddrs, made after it unlocks, are part of its action.     *)
(*                                                                         *)
(* Transactions are a fixed universe TxIds.  An input is a record          *)
(* [prev, n, sequence]: the hash of the tx it spends, the (1-based) index  *)
(* of the output, and its sequence number.  An output is a record          *)
(* [address, amount].  A wallet address is <<chain, index>> with chain 0   *)
(* (SEQUENCE_EXTERNAL_CHAIN) or 1 (SEQUENCE_INTERNAL_CHAIN).  tx->blockHeight *)
(* and tx->timestamp are the only mutable fields of a tx and are kept in   *)
(* txBlockHeight and txTimestamp.                                          *)
(***************************************************************************)
EXTENDS Integers, Sequences, SequencesExt, FiniteSets, FiniteSetsExt

CONSTANTS
  TxIds,            \* hashes of the transactions that can reach the wallet
  Ins,              \* Ins[t]: tx->inputs
  Outs,             \* Outs[t]: tx->outputs
  LockTime,         \* LockTime[t]: tx->lockTime, a block height
  Oversize,         \* txs with LWTransactionSize(tx) > TX_MAX_SIZE
  Heights,          \* block heights at which a tx can be confirmed
  Timestamps,       \* tx timestamps
  NoAddress,        \* address of an output with a non-standard script
  TX_UNCONFIRMED,   \* INT32_MAX: above every height and lockTime
  UINT32_MAX,       \* the final input sequence number
  TX_MIN_OUTPUT_AMOUNT,
  TX_MAX_LOCK_HEIGHT,
  SEQUENCE_GAP_LIMIT_EXTERNAL,
  SEQUENCE_GAP_LIMIT_INTERNAL

ASSUME TX_UNCONFIRMED > TX_MAX_LOCK_HEIGHT + 1
ASSUME \A h \in Heights : 0 < h /\ h < TX_MAX_LOCK_HEIGHT
ASSUME \A t \in TxIds : LockTime[t] < TX_MAX_LOCK_HEIGHT

VARIABLES
  allTx, transactions, txBlockHeight, txTimestamp, blockHeight,
  externalChain, internalChain, allAddrs,
  usedAddrs, utxos, balanceHist, spentOutputs, invalidTx, pendingTx,
  balance, totalSent, totalReceived

derived == <<usedAddrs, utxos, balanceHist, spentOutputs, invalidTx, pendingTx,
             balance, totalSent, totalReceived>>
vars == <<allTx, transactions, txBlockHeight, txTimestamp, blockHeight,
          externalChain, internalChain, allAddrs, derived>>

SEQUENCE_EXTERNAL_CHAIN == 0
SEQUENCE_INTERNAL_CHAIN == 1
SIZE_MAX == -1                        \* _txChainIndex: "not in chain"

-----------------------------------------------------------------------------
(* Transaction structure.                                                  *)

Outpoint(t, i) == <<Ins[t][i].prev, Ins[t][i].n>>
InputOutpoints(t) == {Outpoint(t, i) : i \in DOMAIN Ins[t]}
Parents(t) == {Ins[t][i].prev : i \in DOMAIN Ins[t]}
Amount(o) == Outs[o[1]][o[2]].amount
SumAmounts(seq) == FoldLeft(LAMBDA a, o : a + Amount(o), 0, seq)

\* _LWWalletContainsTx: an output pays a wallet address, or an input spends
\* a wallet output of a tx in at (the state of wallet->allTx)
ContainsTxAt(at, addrs, t) ==
  \/ \E j \in DOMAIN Outs[t] : Outs[t][j].address \in addrs
  \/ \E i \in DOMAIN Ins[t] :
       LET p == Ins[t][i].prev  n == Ins[t][i].n
       IN  /\ p \in at
           /\ n \in DOMAIN Outs[p]
           /\ Outs[p][n].address \in addrs

ContainsTxIn(at, t) == ContainsTxAt(at, allAddrs, t)

-----------------------------------------------------------------------------
(* Ordering of wallet->transactions (insertion sort, LWWallet.c 40-99).    *)
(* h is the current map of tx->blockHeight.                                *)

\* _LWWalletTxIsAscending: tx1 sorts after tx2
RECURSIVE IsAscending(_, _, _, _)
IsAscending(at, h, t1, t2) ==
  IF h[t1] # h[t2] THEN h[t1] > h[t2]
  ELSE IF t2 \in Parents(t1) THEN TRUE
  ELSE IF t1 \in Parents(t2) THEN FALSE
  ELSE \E p \in Parents(t1) \cap at : IsAscending(at, h, p, t2)

\* _txChainIndex: index of the last chain address some output pays
TxChainIndex(t, chain) ==
  LET hits == {k \in 1..Len(chain) :
                 \E j \in DOMAIN Outs[t] : Outs[t][j].address = chain[k]}
  IN  IF hits = {} THEN SIZE_MAX ELSE Max(hits) - 1

\* _LWWalletTxCompare, with wallet->internalChain ic and externalChain ec
TxCompare(at, h, ic, ec, t1, t2) ==
  IF IsAscending(at, h, t1, t2) THEN 1
  ELSE IF IsAscending(at, h, t2, t1) THEN -1
  ELSE LET i0 == TxChainIndex(t1, ic)
           j  == TxChainIndex(t2, IF i0 = SIZE_MAX THEN ec ELSE ic)
           i  == IF i0 = SIZE_MAX /\ j # SIZE_MAX
                 THEN TxChainIndex(t1, ec) ELSE i0
       IN  IF i # SIZE_MAX /\ j # SIZE_MAX /\ i # j
           THEN (IF i > j THEN 1 ELSE -1) ELSE 0

\* _LWWalletInsertTx: sift t in from the tail while the entry before it
\* compares greater
RECURSIVE InsertPos(_, _, _, _, _, _, _)
InsertPos(at, h, ic, ec, seq, t, i) ==
  IF i > 0 /\ TxCompare(at, h, ic, ec, seq[i], t) > 0
  THEN InsertPos(at, h, ic, ec, seq, t, i - 1) ELSE i

\* mutant: the tx is appended without the sift
InsertTxAppend(at, h, ic, ec, seq, t) == Append(seq, t)

InsertTx(at, h, ic, ec, seq, t) == InsertAt(seq, InsertPos(at, h, ic, ec, seq, t, Len(seq)) + 1, t)

-----------------------------------------------------------------------------
(* _LWWalletUpdateBalance (LWWallet.c 131-225): a left fold over the       *)
(* ordered transactions.  wh is wallet->blockHeight.  The epoch-time       *)
(* lockTime test (lockTime > now) never holds for height lockTimes, which  *)
(* are the only kind modelled.                                             *)

NoDerived == [usedAddrs |-> {}, utxos |-> <<>>, balanceHist |-> <<>>,
              spentOutputs |-> {}, invalidTx |-> {}, pendingTx |-> {},
              balance |-> 0, prevBalance |-> 0, totalSent |-> 0,
              totalReceived |-> 0]

\* the pending test of the fold, against the pending set built so far
PendingIn(t, wh, pending) ==
  \/ t \in Oversize
  \/ \E j \in DOMAIN Outs[t] : Outs[t][j].amount < TX_MIN_OUTPUT_AMOUNT
  \/ \E i \in DOMAIN Ins[t] :
       \/ Ins[t][i].sequence < UINT32_MAX - 1
       \/ /\ Ins[t][i].sequence < UINT32_MAX
          /\ LockTime[t] < TX_MAX_LOCK_HEIGHT
          /\ LockTime[t] > wh + 1
       \/ Ins[t][i].prev \in pending

\* the outputs of t that pay a wallet address, in output order
WalletOutputs(t, addrs) ==
  SelectSeq([j \in DOMAIN Outs[t] |-> <<t, j>>],
            LAMBDA o : Outs[t][o[2]].address \in addrs)

\* mutant: the invalid test only looks at invalid parents
InvalidInNoSpent(t, h, s) ==
  /\ h[t] = TX_UNCONFIRMED
  /\ \E i \in DOMAIN Ins[t] : Ins[t][i].prev \in s.invalidTx

\* the invalid test of the fold: an unconfirmed tx with an input already
\* spent by an earlier tx of the list, or spending an invalid tx
InvalidIn(t, h, s) ==
  /\ h[t] = TX_UNCONFIRMED
  /\ \E i \in DOMAIN Ins[t] : \/ Outpoint(t, i) \in s.spentOutputs
                              \/ Ins[t][i].prev \in s.invalidTx

\* mutant: the backward scan removes nothing
ScanUtxosNone(us, spent) == us

\* the backward scan over wallet->utxos: the outpoints not in spent remain
ScanUtxos(us, spent) == SelectSeq(us, LAMBDA o : o \notin spent)

\* mutant: the scan removes outpoints without subtracting their amounts
ScanBalanceNoSub(bal, us, spent) == bal

\* the balance after the scan subtracted the amount of each removed outpoint
ScanBalance(bal, us, spent) ==
  bal - SumAmounts(SelectSeq(us, LAMBDA o : o \in spent))

UpdateStep(s, t, h, wh, addrs) ==
  IF InvalidIn(t, h, s)
  THEN [s EXCEPT !.invalidTx = @ \cup {t},
                 !.balanceHist = Append(@, s.balance)]
  ELSE
  LET spent == s.spentOutputs \cup InputOutpoints(t) IN
  IF h[t] = TX_UNCONFIRMED /\ PendingIn(t, wh, s.pendingTx)
  THEN [s EXCEPT !.spentOutputs = spent, !.pendingTx = @ \cup {t},
                 !.balanceHist = Append(@, s.balance)]
  ELSE
  LET added == s.utxos \o WalletOutputs(t, addrs)
      bal   == ScanBalance(s.balance + SumAmounts(WalletOutputs(t, addrs)), added, spent)
  IN  [s EXCEPT
        !.spentOutputs = spent,
        !.usedAddrs = (@ \cup {Outs[t][j].address : j \in DOMAIN Outs[t]}) \ {NoAddress},
        !.utxos = ScanUtxos(added, spent),
        !.balance = bal,
        !.totalReceived = @ + (IF s.prevBalance < bal THEN bal - s.prevBalance ELSE 0),
        !.totalSent = @ + (IF bal < s.prevBalance THEN s.prevBalance - bal ELSE 0),
        !.balanceHist = Append(@, bal),
        !.prevBalance = bal]

UpdateBalance(seq, h, wh, addrs) ==
  FoldLeft(LAMBDA s, t : UpdateStep(s, t, h, wh, addrs), NoDerived, seq)

SetDerived(d) ==
  /\ usedAddrs' = d.usedAddrs
  /\ utxos' = d.utxos
  /\ balanceHist' = d.balanceHist
  /\ spentOutputs' = d.spentOutputs
  /\ invalidTx' = d.invalidTx
  /\ pendingTx' = d.pendingTx
  /\ balance' = d.balance
  /\ totalSent' = d.totalSent
  /\ totalReceived' = d.totalReceived

\* a call of _LWWalletUpdateBalance over the list seq
Recompute(seq, h, wh, addrs) == \E d \in {UpdateBalance(seq, h, wh, addrs)} : SetDerived(d)

-----------------------------------------------------------------------------
(* Address chains (LWWalletUnusedAddrs, LWWallet.c 303-359).  The k-th     *)
(* address of chain c is <<c, k>>; BIP32 derivation failure, which needs a *)
(* key outside the curve order, is not modelled.                           *)

\* extend chain until gap addresses follow the last used one (i); a newly
\* derived address that is already used moves i past it
RECURSIVE GrowChain(_, _, _, _, _)
GrowChain(chain, i, used, gap, c) ==
  IF i + gap > Len(chain)
  THEN LET a == <<c, Len(chain)>>
       IN  GrowChain(Append(chain, a), IF a \in used THEN Len(chain) + 1 ELSE i,
                     used, gap, c)
  ELSE chain

UnusedAddrs(chain, used, gap, c) ==
  GrowChain(chain, Max({0} \cup {k \in 1..Len(chain) : chain[k] \in used}),
            used, gap, c)

-----------------------------------------------------------------------------
(* Operations.                                                             *)

ChainOf(c) == IF c = SEQUENCE_INTERNAL_CHAIN THEN internalChain ELSE externalChain

\* one call of LWWalletUnusedAddrs: lock, grow chain c to gap unused
\* addresses past the last used one, add the new addresses to allAddrs
UnusedAddrsCall(c, gap) ==
  LET grown == UnusedAddrs(ChainOf(c), usedAddrs, gap, c)
  IN  /\ IF c = SEQUENCE_INTERNAL_CHAIN
         THEN internalChain' = grown /\ UNCHANGED externalChain
         ELSE externalChain' = grown /\ UNCHANGED internalChain
      /\ allAddrs' = allAddrs \cup ToSet(grown)
      /\ UNCHANGED <<allTx, transactions, txBlockHeight, txTimestamp, blockHeight,
                     derived>>

\* LWWalletUnusedAddrs called by itself (LWWalletReceiveAddress, the change
\* address of LWWalletCreateTxForOutputs, a peer manager filter update); a
\* call that derives nothing is a stuttering step
GenerateAddrs(c, gap) ==
  /\ UnusedAddrs(ChainOf(c), usedAddrs, gap, c) # ChainOf(c)
  /\ UnusedAddrsCall(c, gap)

\* LWWalletReceiveAddress: the first unused external address, found by
\* LWWalletUnusedAddrs with gap limit 1
ReceiveAddress == GenerateAddrs(SEQUENCE_EXTERNAL_CHAIN, 1)

\* LWWalletRegisterTransaction, a tx of the wallet: insert, recompute, then
\* (after unlocking) extend both chains by their gap limits
RegisterWalletTx(t) ==
  /\ t \notin allTx
  /\ ContainsTxIn(allTx, t)
  /\ LET at  == allTx \cup {t}
         seq == InsertTx(at, txBlockHeight, internalChain, externalChain, transactions, t)
         d   == UpdateBalance(seq, txBlockHeight, blockHeight, allAddrs)
         ext == UnusedAddrs(externalChain, d.usedAddrs,
                            SEQUENCE_GAP_LIMIT_EXTERNAL, SEQUENCE_EXTERNAL_CHAIN)
         int == UnusedAddrs(internalChain, d.usedAddrs,
                            SEQUENCE_GAP_LIMIT_INTERNAL, SEQUENCE_INTERNAL_CHAIN)
     IN  /\ allTx' = at
         /\ transactions' = seq
         /\ SetDerived(d)
         /\ externalChain' = ext
         /\ internalChain' = int
         /\ allAddrs' = allAddrs \cup ToSet(ext) \cup ToSet(int)
  /\ UNCHANGED <<txBlockHeight, txTimestamp, blockHeight>>

\* the locked section of LWWalletRegisterTransaction for a tx of the wallet:
\* add to allTx, insert, recompute; the chains are extended after unlocking
RegisterLocked(t) ==
  /\ t \notin allTx
  /\ ContainsTxIn(allTx, t)
  /\ allTx' = allTx \cup {t}
  /\ transactions' = InsertTx(allTx \cup {t}, txBlockHeight, internalChain, externalChain, transactions, t)
  /\ Recompute(transactions', txBlockHeight, blockHeight, allAddrs)
  /\ UNCHANGED <<txBlockHeight, txTimestamp, blockHeight, externalChain,
                 internalChain, allAddrs>>

\* LWWalletRegisterTransaction, a tx not of the wallet: an unconfirmed one is
\* kept in allTx only
RegisterOtherTx(t) ==
  /\ t \notin allTx
  /\ ~ContainsTxIn(allTx, t)
  /\ txBlockHeight[t] = TX_UNCONFIRMED
  /\ allTx' = allTx \cup {t}
  /\ UNCHANGED <<transactions, txBlockHeight, txTimestamp, blockHeight,
                 externalChain, internalChain, allAddrs, derived>>

\* LWWalletRegisterTransaction: a tx already in allTx changes nothing
RegisterTransaction(t) ==
  /\ t \notin allTx
  /\ \/ RegisterWalletTx(t)
     \/ RegisterOtherTx(t)

\* the dependents LWWalletRemoveTransaction collects: scanning
\* wallet->transactions from the tail until a lower block height, the txs
\* with an input spending t, in the order of wallet->transactions
DependentSeq(t) ==
  LET stop == Max({0} \cup {k \in 1..Len(transactions) :
                              txBlockHeight[transactions[k]] < txBlockHeight[t]})
  IN  SelectSeq(SubSeq(transactions, stop + 1, Len(transactions)),
                LAMBDA u : u # t /\ t \in Parents(u))

Dependents(t) == ToSet(DependentSeq(t))

\* the txs the recursion of LWWalletRemoveTransaction removes
RECURSIVE Removed(_)
Removed(t) == {t} \cup UNION {Removed(u) : u \in Dependents(t)}

\* mutant: the removed tx is left in wallet->transactions
WithoutTxsKeep(seq, gone) == seq

\* the array_rm of each removed tx from wallet->transactions
WithoutTxs(seq, gone) == SelectSeq(seq, LAMBDA u : u \notin gone)

\* LWWalletRemoveTransaction: each removal recomputes the derived state, so
\* only the last recomputation is visible; a removed tx is freed, and a later
\* registration of the same hash is a fresh, unconfirmed object
RemoveGone(gone) ==
  LET seq == WithoutTxs(transactions, gone)
  IN  /\ allTx' = allTx \ gone
      /\ transactions' = seq
      /\ txBlockHeight' = [u \in TxIds |->
                             IF u \in gone THEN TX_UNCONFIRMED ELSE txBlockHeight[u]]
      /\ txTimestamp' = [u \in TxIds |-> IF u \in gone THEN 0 ELSE txTimestamp[u]]
      /\ Recompute(seq, txBlockHeight, blockHeight, allAddrs)
      /\ UNCHANGED <<blockHeight, externalChain, internalChain, allAddrs>>

\* LWWalletRemoveTransaction called with no other call running
RemoveTransaction(t) == t \in allTx /\ RemoveGone(Removed(t))

\* one iteration of the loop of LWWalletUpdateTransactions over txHashes, on
\* [allTx, transactions, height, timestamp, needsUpdate]; h and ts are the
\* blockHeight and timestamp arguments
UpdateTxStep(s, x, h, ts) ==
  IF x \notin s.allTx \/ (s.height[x] = h /\ s.timestamp[x] = ts) THEN s
  ELSE
  LET hh == [s.height EXCEPT ![x] = h]
      tt == [s.timestamp EXCEPT ![x] = ts]
  IN  IF ContainsTxIn(s.allTx, x)
      THEN [s EXCEPT
              !.height = hh, !.timestamp = tt,
              !.transactions = IF x \in ToSet(@)
                               THEN InsertTx(s.allTx, hh, internalChain, externalChain, RemoveFirst(@, x), x)
                               ELSE @,
              !.needsUpdate = @ \/ x \in pendingTx \/ x \in invalidTx]
      ELSE IF h # TX_UNCONFIRMED     \* a confirmed non-wallet tx is freed
      THEN [s EXCEPT !.allTx = @ \ {x},
                     !.height = [hh EXCEPT ![x] = TX_UNCONFIRMED],
                     !.timestamp = [tt EXCEPT ![x] = 0]]
      ELSE [s EXCEPT !.height = hh, !.timestamp = tt]

\* LWWalletUpdateTransactions
UpdateTransactions(hashes, h, ts) ==
  LET wh == IF h > blockHeight THEN h ELSE blockHeight
  IN  \E s \in {FoldLeft(LAMBDA a, x : UpdateTxStep(a, x, h, ts),
                          [allTx |-> allTx, transactions |-> transactions,
                           height |-> txBlockHeight, timestamp |-> txTimestamp,
                           needsUpdate |-> FALSE],
                          hashes)} :
      /\ blockHeight' = wh
      /\ allTx' = s.allTx
      /\ transactions' = s.transactions
      /\ txBlockHeight' = s.height
      /\ txTimestamp' = s.timestamp
      /\ IF s.needsUpdate
         THEN Recompute(s.transactions, s.height, wh, allAddrs)
         ELSE UNCHANGED derived
      /\ UNCHANGED <<externalChain, internalChain, allAddrs>>

\* LWWalletSetTxUnconfirmedAfter: the tail of wallet->transactions above h
\* becomes unconfirmed
SetTxUnconfirmedAfter(h) ==
  LET i     == Max({0} \cup {k \in 1..Len(transactions) :
                               txBlockHeight[transactions[k]] <= h})
      moved == {transactions[k] : k \in (i + 1)..Len(transactions)}
      hh    == [u \in TxIds |-> IF u \in moved THEN TX_UNCONFIRMED
                                               ELSE txBlockHeight[u]]
  IN  /\ blockHeight' = h
      /\ txBlockHeight' = hh
      /\ IF moved # {} THEN Recompute(transactions, hh, h, allAddrs)
                       ELSE UNCHANGED derived
      /\ UNCHANGED <<allTx, transactions, txTimestamp, externalChain,
                     internalChain, allAddrs>>

\* LWWalletNew with the transactions the app stored through txAdded,
\* txUpdated and txDeleted, loaded in any order: each is added to allTx and
\* inserted, while both chains are still empty, so that the chain
\* indexes of _LWWalletTxCompare decide nothing; the chains are grown over
\* the addresses of every output; the recomputation runs with
\* wallet->blockHeight 0 (calloc).  The wallet is NULL, and the restart
\* fails, when the first tx loaded is not recognised.
\* Txs not stored (kept in allTx only) are gone; a peer relays them afresh.
Restart ==
  \E stored \in SetToSeqs(ToSet(transactions)) :
    LET load  == FoldLeft(LAMBDA a, t :
                            [at |-> a.at \cup {t},
                             seq |-> InsertTx(a.at \cup {t}, txBlockHeight, <<>>, <<>>, a.seq, t)],
                          [at |-> {}, seq |-> <<>>], stored)
        used  == UNION {{Outs[t][j].address : j \in DOMAIN Outs[t]} : t \in ToSet(stored)}
                   \ {NoAddress}
        ext   == UnusedAddrs(<<>>, used, SEQUENCE_GAP_LIMIT_EXTERNAL, SEQUENCE_EXTERNAL_CHAIN)
        int   == UnusedAddrs(<<>>, used, SEQUENCE_GAP_LIMIT_INTERNAL, SEQUENCE_INTERNAL_CHAIN)
        addrs == ToSet(ext) \cup ToSet(int)
    IN  /\ stored # <<>> => ContainsTxAt(load.at, addrs, stored[1])
        /\ allTx' = load.at
        /\ transactions' = load.seq
        /\ blockHeight' = 0
        /\ externalChain' = ext
        /\ internalChain' = int
        /\ allAddrs' = addrs
        /\ Recompute(load.seq, txBlockHeight, 0, addrs)
        /\ txBlockHeight' = [u \in TxIds |-> IF u \in load.at THEN txBlockHeight[u]
                                                         ELSE TX_UNCONFIRMED]
        /\ txTimestamp' = [u \in TxIds |-> IF u \in load.at THEN txTimestamp[u] ELSE 0]

-----------------------------------------------------------------------------
(* The classification queries (LWWallet.c 819-911).  Each reads the wallet *)
(* state under the lock and recurses on the inputs' txs found in allTx.    *)

\* LWWalletTransactionIsValid
RECURSIVE IsValid(_)
IsValid(t) ==
  \/ txBlockHeight[t] # TX_UNCONFIRMED
  \/ /\ IF t \notin allTx THEN InputOutpoints(t) \cap spentOutputs = {}
                          ELSE t \notin invalidTx
     /\ \A p \in Parents(t) \cap allTx : IsValid(p)

\* LWWalletTransactionIsPending: the tests of the fold, with
\* wallet->blockHeight, and the inputs' txs asked recursively
RECURSIVE IsPending(_)
IsPending(t) ==
  /\ txBlockHeight[t] = TX_UNCONFIRMED
  /\ PendingIn(t, blockHeight, {p \in Parents(t) \cap allTx : IsPending(p)})

\* LWWalletTransactionIsVerified
RECURSIVE IsVerified(_)
IsVerified(t) ==
  \/ txBlockHeight[t] # TX_UNCONFIRMED
  \/ /\ txTimestamp[t] # 0
     /\ IsValid(t)
     /\ ~IsPending(t)
     /\ \A p \in Parents(t) \cap allTx : IsVerified(p)

\* LWWalletTxUnconfirmedBefore: the longest tail of transactions whose
\* block heights are all at least h
TxUnconfirmedBefore(h) ==
  LET total == Len(transactions)
      n     == Max({k \in 0..total :
                     \A j \in (total - k + 1)..total : txBlockHeight[transactions[j]] >= h})
  IN  SubSeq(transactions, total - n + 1, total)

-----------------------------------------------------------------------------
(* The environment: what the peer manager passes to the wallet.            *)

\* txHashes arguments of LWWalletUpdateTransactions: one or two distinct txs
Batches == {<<x>> : x \in TxIds} \cup {p \in TxIds \X TxIds : p[1] # p[2]}

\* a batch the chain can produce: only unconfirmed txs get a height; a
\* confirmation at height h confirms each parent at or below h and never
\* two txs spending the same output
ChainUpdate(hashes, h) ==
  LET B == ToSet(hashes) IN
  /\ \A x \in B : txBlockHeight[x] = TX_UNCONFIRMED
  /\ h # TX_UNCONFIRMED =>
       \A x \in B :
         /\ \A p \in Parents(x) \cap TxIds : p \in B \/ txBlockHeight[p] <= h
         /\ \A y \in TxIds \ {x} :
              InputOutpoints(x) \cap InputOutpoints(y) # {} =>
                y \notin B /\ txBlockHeight[y] = TX_UNCONFIRMED

-----------------------------------------------------------------------------
(* LWWalletNew with no transactions: both chains grown to their gap limit. *)

Init ==
  LET ext == UnusedAddrs(<<>>, {}, SEQUENCE_GAP_LIMIT_EXTERNAL, SEQUENCE_EXTERNAL_CHAIN)
      int == UnusedAddrs(<<>>, {}, SEQUENCE_GAP_LIMIT_INTERNAL, SEQUENCE_INTERNAL_CHAIN)
  IN  /\ allTx = {}
      /\ transactions = <<>>
      /\ txBlockHeight = [t \in TxIds |-> TX_UNCONFIRMED]
      /\ txTimestamp = [t \in TxIds |-> 0]
      /\ blockHeight = 0
      /\ externalChain = ext
      /\ internalChain = int
      /\ allAddrs = ToSet(ext) \cup ToSet(int)
      /\ usedAddrs = NoDerived.usedAddrs
      /\ utxos = NoDerived.utxos
      /\ balanceHist = NoDerived.balanceHist
      /\ spentOutputs = NoDerived.spentOutputs
      /\ invalidTx = NoDerived.invalidTx
      /\ pendingTx = NoDerived.pendingTx
      /\ balance = NoDerived.balance
      /\ totalSent = NoDerived.totalSent
      /\ totalReceived = NoDerived.totalReceived

Next ==
  \/ \E t \in TxIds : RegisterTransaction(t)
  \/ \E t \in TxIds : RemoveTransaction(t)
  \/ Restart
  \/ \E hashes \in Batches, h \in Heights \cup {TX_UNCONFIRMED}, ts \in Timestamps :
       ChainUpdate(hashes, h) /\ UpdateTransactions(hashes, h, ts)
  \/ \E h \in {0} \cup Heights : h < blockHeight /\ SetTxUnconfirmedAfter(h)
  \/ ReceiveAddress
  \/ GenerateAddrs(SEQUENCE_EXTERNAL_CHAIN, SEQUENCE_GAP_LIMIT_EXTERNAL)
  \/ \E g \in {1, SEQUENCE_GAP_LIMIT_INTERNAL} : GenerateAddrs(SEQUENCE_INTERNAL_CHAIN, g)

Spec == Init /\ [][Next]_vars

-----------------------------------------------------------------------------
(* Properties.                                                             *)

TypeOK ==
  /\ allTx \subseteq TxIds
  /\ transactions \in Seq(allTx)
  /\ txBlockHeight \in [TxIds -> Heights \cup {TX_UNCONFIRMED}]
  /\ txTimestamp \in [TxIds -> Timestamps \cup {0}]
  /\ blockHeight \in {0} \cup Heights \cup {TX_UNCONFIRMED}
  /\ utxos \in Seq(TxIds \X Nat)
  /\ invalidTx \cup pendingTx \subseteq ToSet(transactions)
  /\ balance \in Nat /\ totalSent \in Nat /\ totalReceived \in Nat

\* the listed txs _LWWalletUpdateBalance counts: neither invalid nor pending
Counted == ToSet(transactions) \ (invalidTx \cup pendingTx)

\* every outpoint in wallet->utxos is an output, paying a wallet address,
\* of a listed tx that _LWWalletUpdateBalance counted, no counted tx spends
\* it, and none is listed twice: the backward scan over utxos must catch an
\* output spent by a counted tx listed before or after its owner
UtxoSound ==
  /\ IsInjective(utxos)
  /\ \A k \in DOMAIN utxos :
       /\ utxos[k][1] \in Counted
       /\ utxos[k][2] \in DOMAIN Outs[utxos[k][1]]
       /\ Outs[utxos[k][1]][utxos[k][2]].address \in allAddrs
       /\ \A x \in Counted : utxos[k] \notin InputOutpoints(x)

\* P1, P2 and I9 in the state they leave: one balanceHist entry per listed
\* tx, the last equal to wallet->balance, balance the sum of the UTXO
\* amounts, and received minus sent equal to balance
Accounting ==
  /\ Len(balanceHist) = Len(transactions)
  /\ balanceHist # <<>> => balanceHist[Len(balanceHist)] = balance
  /\ balance = SumAmounts(utxos)
  /\ totalReceived - totalSent = balance

\* of two listed txs spending the same output, at most one is valid: the
\* invalid test of _LWWalletUpdateBalance, against spentOutputs built so far
\* in list order, must reject the later one whatever order the txs arrived,
\* were confirmed and were reorganised in
ConflictFree ==
  \A x, y \in ToSet(transactions) \ invalidTx :
    x # y => InputOutpoints(x) \cap InputOutpoints(y) = {}

\* P4/I2: a tx is listed after every listed tx it spends from, whatever
\* order the txs arrived in (the insertion sort of _LWWalletInsertTx stops at
\* the first entry that does not compare greater)
TopoOrder ==
  \A i, j \in DOMAIN transactions :
    transactions[i] \in Parents(transactions[j]) => i < j

\* I1, I3, I6 and I9: the derived state is that of a scan of
\* wallet->transactions in its current order, at the current heights and
\* wallet->blockHeight, also after LWWalletUpdateTransactions re-sorts txs
\* and raises blockHeight without recomputing
DerivedFresh ==
  LET d == UpdateBalance(transactions, txBlockHeight, blockHeight, allAddrs)
  IN  /\ balanceHist = d.balanceHist
      /\ totalSent = d.totalSent
      /\ totalReceived = d.totalReceived
      /\ utxos = d.utxos
      /\ pendingTx = d.pendingTx
      /\ invalidTx = d.invalidTx

\* LWWalletTxUnconfirmedBefore(TX_UNCONFIRMED), which the peer manager uses to
\* find the txs to publish again, returns every listed unconfirmed tx: the
\* unconfirmed txs form the tail of wallet->transactions after every
\* insertion, re-insertion on confirmation, reorg and removal
UnconfirmedTail ==
  ToSet(TxUnconfirmedBefore(TX_UNCONFIRMED))
    = {t \in ToSet(transactions) : txBlockHeight[t] = TX_UNCONFIRMED}

=============================================================================
