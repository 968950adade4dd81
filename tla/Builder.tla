------------------------------ MODULE Builder -------------------------------
(***************************************************************************)
(* The transaction builder of src/LWWallet.c: _txFee, the coin selection   *)
(* and restart of LWWalletCreateTxForOutputs, LWWalletMinOutputAmount,     *)
(* LWWalletMaxOutputAmount, LWWalletFeeForTx and LWWalletFeeForTxAmount.   *)
(*                                                                         *)
(* The wallet is seen through what the builder reads: wallet->utxos as a   *)
(* sequence of amounts (every UTXO is an output of a tx in allTx, so the   *)
(* lookup of the loop never skips one), wallet->balance, which is their    *)
(* sum, and wallet->feePerKb.  Every output pays a P2PKH script, so a tx   *)
(* is described by its number of inputs and its output amounts.  uint64_t  *)
(* arithmetic is arithmetic modulo WORD, a scaled 2^64 far above every     *)
(* amount, so that a subtraction that underflows wraps as in the code.     *)
(***************************************************************************)
EXTENDS Integers, Sequences, SequencesExt, Functions

CONSTANTS
  TX_FEE_PER_KB, MIN_FEE_PER_KB, DEFAULT_FEE_PER_KB,
  TX_MIN_OUTPUT_AMOUNT,
  TX_INPUT_SIZE, TX_OUTPUT_SIZE, TX_MAX_SIZE,
  WORD,          \* 2^64, scaled
  MAX_DEPTH,     \* restarts followed before the model gives up
  UtxoSeqs,      \* the contents of wallet->utxos the runs start from
  FeeRates,      \* the arguments of LWWalletSetFeePerKb
  OutputSeqs,    \* the output amounts passed to LWWalletCreateTxForOutputs
  Amounts        \* the amounts passed to LWWalletCreateTransaction

ASSUME \A u \in UtxoSeqs : 4 * SumFunction(u) < WORD /\ WORD <= 2^28

VARIABLES utxos, feePerKb,
  requested,     \* the outputs of the last LWWalletCreateTxForOutputs
  created        \* its result

vars == <<utxos, feePerKb, requested, created>>

U64(x) == x % WORD

-----------------------------------------------------------------------------
(* LWTransactionSize of an unsigned tx with nIn inputs and the P2PKH       *)
(* outputs outs (8 bytes of version and lockTime, one-byte var-ints).      *)

TxSize(nIn, nOut) == 8 + 1 + nIn * TX_INPUT_SIZE + 1 + nOut * TX_OUTPUT_SIZE

\* _txFee: the larger of the per-kb standard fee and the feePerKb fee
\* rounded up to 100 satoshi
TxFee(rate, size) ==
  LET standardFee == ((size + 999) \div 1000) * TX_FEE_PER_KB
      fee         == ((((size * rate) \div 1000) + 99) \div 100) * 100
  IN  IF fee > standardFee THEN fee ELSE standardFee

WalletBalance == SumFunction(utxos)

\* LWWalletMinOutputAmount
MinOutputAmount(rate) ==
  LET amount == (TX_MIN_OUTPUT_AMOUNT * rate + MIN_FEE_PER_KB - 1) \div MIN_FEE_PER_KB
  IN  IF amount > TX_MIN_OUTPUT_AMOUNT THEN amount ELSE TX_MIN_OUTPUT_AMOUNT

\* LWWalletMaxOutputAmount: all UTXOs to one output and change
MaxOutputAmount(rate) ==
  LET fee == TxFee(rate, TxSize(Len(utxos), 2))
  IN  IF WalletBalance > fee THEN WalletBalance - fee ELSE 0

-----------------------------------------------------------------------------
(* LWWalletCreateTxForOutputs.  A result is [end, nIn, outs, change,     *)
(* depth, rate].  end is "tx" for a created tx, "null" for NULL, "ub" for  *)
(* a restart with no outputs left (the code then reads outputs[-1]) and    *)
(* "deep" past MAX_DEPTH restarts.  The first nIn UTXOs are the inputs,    *)
(* outs the paid amounts, change the change output (0 for none; where the  *)
(* shuffle puts it does not matter here), depth the number of restarts and *)
(* rate the wallet->feePerKb it was built with.                           *)

End(rate, e, d) == [end |-> e, nIn |-> 0, outs |-> <<>>, change |-> 0, depth |-> d,
                    rate |-> rate]

\* the selection loop from the (i+1)-th UTXO, with balance and feeAmount
\* so far: stop when the tx would grow beyond TX_MAX_SIZE (a restart), when
\* the UTXOs run out, or when they cover amount and fee exactly or with
\* room for a change output
RECURSIVE Select(_, _, _, _, _, _, _)

\* mutant: the fee leaves out the change output
SelectFeeNoChange(rate, nOut, amount, minAmount, i, balance, fee) ==
  IF i = Len(utxos) THEN [restart |-> FALSE, nIn |-> i, balance |-> balance, fee |-> fee]
  ELSE IF TxSize(i + 1, nOut) + TX_OUTPUT_SIZE > TX_MAX_SIZE
  THEN [restart |-> TRUE, nIn |-> i, balance |-> balance, fee |-> fee]
  ELSE
  LET b  == U64(balance + utxos[i + 1])
      f0 == TxFee(rate, TxSize(i + 1, nOut))
      f  == IF WalletBalance > U64(amount + f0)
            THEN U64(f0 + ((WalletBalance - U64(amount + f0)) % 100)) ELSE f0
  IN  IF b = U64(amount + f) \/ b >= U64(amount + f + minAmount)
      THEN [restart |-> FALSE, nIn |-> i + 1, balance |-> b, fee |-> f]
      ELSE Select(rate, nOut, amount, minAmount, i + 1, b, f)

\* mutant: the size check leaves out the change output
SelectSizeNoChange(rate, nOut, amount, minAmount, i, balance, fee) ==
  IF i = Len(utxos) THEN [restart |-> FALSE, nIn |-> i, balance |-> balance, fee |-> fee]
  ELSE IF TxSize(i + 1, nOut) > TX_MAX_SIZE
  THEN [restart |-> TRUE, nIn |-> i, balance |-> balance, fee |-> fee]
  ELSE
  LET b  == U64(balance + utxos[i + 1])
      f0 == TxFee(rate, TxSize(i + 1, nOut) + TX_OUTPUT_SIZE)
      f  == IF WalletBalance > U64(amount + f0)
            THEN U64(f0 + ((WalletBalance - U64(amount + f0)) % 100)) ELSE f0
  IN  IF b = U64(amount + f) \/ b >= U64(amount + f + minAmount)
      THEN [restart |-> FALSE, nIn |-> i + 1, balance |-> b, fee |-> f]
      ELSE Select(rate, nOut, amount, minAmount, i + 1, b, f)

Select(rate, nOut, amount, minAmount, i, balance, fee) ==
  IF i = Len(utxos) THEN [restart |-> FALSE, nIn |-> i, balance |-> balance, fee |-> fee]
  ELSE IF TxSize(i + 1, nOut) + TX_OUTPUT_SIZE > TX_MAX_SIZE
  THEN [restart |-> TRUE, nIn |-> i, balance |-> balance, fee |-> fee]
  ELSE
  LET b  == U64(balance + utxos[i + 1])
      f0 == TxFee(rate, TxSize(i + 1, nOut) + TX_OUTPUT_SIZE)
      f  == IF WalletBalance > U64(amount + f0)
            THEN U64(f0 + ((WalletBalance - U64(amount + f0)) % 100)) ELSE f0
  IN  IF b = U64(amount + f) \/ b >= U64(amount + f + minAmount)
      THEN [restart |-> FALSE, nIn |-> i + 1, balance |-> b, fee |-> f]
      ELSE Select(rate, nOut, amount, minAmount, i + 1, b, f)

\* mutant: the shortfall is subtracted as a signed number
ShrunkSigned(outs, amount, minAmount, r) ==
  LET n == Len(outs) IN
  IF outs[n] > U64(amount + r.fee + minAmount - r.balance)
  THEN [outs EXCEPT ![n] = @ - U64(amount + r.fee - r.balance)]
  ELSE SubSeq(outs, 1, n - 1)

\* the restart: the last output is reduced by the shortfall if it exceeds
\* amount + fee + minAmount - balance, else it is dropped
Shrunk(outs, amount, minAmount, r) ==
  LET n == Len(outs) IN
  IF outs[n] > U64(amount + r.fee + minAmount - r.balance)
  THEN [outs EXCEPT ![n] = U64(@ - U64(amount + r.fee - r.balance))]
  ELSE SubSeq(outs, 1, n - 1)

RECURSIVE CreateTx(_, _, _)
CreateTx(rate, outs, depth) ==
  LET amount    == U64(SumFunction(outs))
      minAmount == MinOutputAmount(rate)
      r         == Select(rate, Len(outs), amount, minAmount, 0, 0,
                          TxFee(rate, TxSize(0, Len(outs)) + TX_OUTPUT_SIZE))
      change    == U64(r.balance - U64(amount + r.fee))
  IN  IF r.restart
      THEN IF WalletBalance < U64(amount + TxFee(rate, 10 + Len(utxos) * TX_INPUT_SIZE
                                                      + (Len(outs) + 1) * TX_OUTPUT_SIZE))
           THEN End(rate, "null", depth)
           ELSE IF outs = <<>> THEN End(rate, "ub", depth)
           ELSE IF depth = MAX_DEPTH THEN End(rate, "deep", depth)
           ELSE CreateTx(rate, Shrunk(outs, amount, minAmount, r), depth + 1)
      ELSE IF outs = <<>> \/ r.balance < U64(amount + r.fee) THEN End(rate, "null", depth)
      ELSE [end |-> "tx", nIn |-> r.nIn, outs |-> outs, depth |-> depth,
            change |-> IF change > minAmount THEN change ELSE 0, rate |-> rate]

\* LWWalletFeeForTx of a created tx: its inputs are wallet UTXOs, so the fee
\* is the sum of their amounts less the outputs
FeeForTx(tx) == U64(SumFunction(SubSeq(utxos, 1, tx.nIn)) - SumFunction(tx.outs) - tx.change)

\* the number of outputs of a created tx
OutCount(tx) == Len(tx.outs) + (IF tx.change > 0 THEN 1 ELSE 0)

\* LWWalletFeeForTxAmount: the fee of a tx paying min(amount, max) to one
\* address, or 0 if none can be created
FeeForTxAmount(rate, amount) ==
  LET tx == CreateTx(rate, <<IF amount < MaxOutputAmount(rate) THEN amount ELSE MaxOutputAmount(rate)>>, 0)
  IN  IF tx.end = "tx" THEN FeeForTx(tx) ELSE 0

-----------------------------------------------------------------------------
(* The wallet seen by the builder: LWWalletNew sets DEFAULT_FEE_PER_KB.    *)

Init ==
  /\ utxos \in UtxoSeqs
  /\ feePerKb = DEFAULT_FEE_PER_KB
  /\ requested = <<>>
  /\ created = End(feePerKb, "null", 0)

\* LWWalletSetFeePerKb
SetFeePerKb(rate) ==
  /\ feePerKb' = rate
  /\ UNCHANGED <<utxos, requested, created>>

\* LWWalletCreateTxForOutputs (the change address it derives is an
\* address-chain step of Wallet)
CreateTxForOutputs(outs) ==
  /\ requested' = outs
  /\ created' = CreateTx(feePerKb, outs, 0)
  /\ UNCHANGED <<utxos, feePerKb>>

\* LWWalletCreateTransaction: one output of the amount (asserted > 0)
CreateTransaction(amount) ==
  /\ amount > 0
  /\ CreateTxForOutputs(<<amount>>)

Next ==
  \/ \E rate \in FeeRates : SetFeePerKb(rate)
  \/ \E outs \in OutputSeqs : CreateTxForOutputs(outs)
  \/ \E amount \in Amounts : CreateTransaction(amount)

Spec == Init /\ [][Next]_vars

-----------------------------------------------------------------------------
(* Properties.                                                             *)

TypeOK ==
  /\ utxos \in UtxoSeqs
  /\ feePerKb \in FeeRates \cup {DEFAULT_FEE_PER_KB}
  /\ created.end \in {"tx", "null", "ub", "deep"}
  /\ created.nIn \in 0..Len(utxos)
  /\ created.outs \in Seq(0..(WORD - 1))
  /\ created.change \in 0..(WORD - 1)

\* a created tx pays its outputs and at least the fee _txFee asks for its
\* final size (change output included) at the rate it was built with
FeeCovers ==
  created.end = "tx" =>
    /\ SumFunction(SubSeq(utxos, 1, created.nIn)) >= SumFunction(created.outs) + created.change
    /\ FeeForTx(created) >= TxFee(created.rate, TxSize(created.nIn, OutCount(created)))

\* a created tx is no larger than TX_MAX_SIZE
SizeBound == created.end = "tx" => TxSize(created.nIn, OutCount(created)) <= TX_MAX_SIZE

\* the restart recursion ends within outCount + 1 levels, never with no
\* outputs left (spec.md, fee loop recursion)
RestartBounded == created.end \in {"tx", "null"}

\* a created tx pays each requested output at most the requested amount:
\* the restart reduces the last output by the shortfall and never raises it
\* (the shortfall amount + feeAmount - balance is a uint64_t subtraction)
NoOverpay ==
  created.end = "tx" =>
    \A k \in DOMAIN created.outs : created.outs[k] <= requested[k]

=============================================================================
