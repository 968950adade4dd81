------------------------------ MODULE MCWallet ------------------------------
(***************************************************************************)
(* A universe of five transactions for Wallet:                             *)
(*   A  receives 10 at external address 0 from a foreign tx X;            *)
(*   C  spends A, pays 6 away and 3 change to internal address 0;         *)
(*   D  double-spends A, pays 8 away and dust change (1) to internal 1;   *)
(*   R  receives 5 at external address 1 with a replaceable input (RBF);  *)
(*   K  spends R and pays 4 back to external address 0;                   *)
(*   L  receives 5 at external address 1, locked until height 4 with a    *)
(*      non-final sequence number (UINT32_MAX - 1).                        *)
(* C and D conflict; K depends on a pending parent.  Sequence numbers are *)
(* scaled: UINT32_MAX is 3, so 2 is UINT32_MAX - 1 and 0 signals RBF.      *)
(***************************************************************************)
EXTENDS Wallet

Foreign == <<2, 0>>          \* an address of someone else
MCNoAddress == <<3, 0>>

In(p, n, sq) == [prev |-> p, n |-> n, sequence |-> sq]
Out(a, v) == [address |-> a, amount |-> v]

MCTxIds == {"A", "C", "D", "R", "K", "L"}

\* the universes of the runs
ConflictIds == {"A", "C", "D"}
PendingIds == {"A", "R", "K"}
LockIds == {"A", "L"}

MCIns == [t \in MCTxIds |->
            CASE t = "A" -> <<In("X", 1, 3)>>
              [] t = "C" -> <<In("A", 1, 3)>>
              [] t = "D" -> <<In("A", 1, 3)>>
              [] t = "R" -> <<In("Y", 1, 0)>>
              [] t = "K" -> <<In("R", 1, 3)>>
              [] t = "L" -> <<In("Z", 1, 2)>>]

MCOuts == [t \in MCTxIds |->
             CASE t = "A" -> <<Out(<<0, 0>>, 10)>>
               [] t = "C" -> <<Out(Foreign, 6), Out(<<1, 0>>, 3)>>
               [] t = "D" -> <<Out(Foreign, 8), Out(<<1, 1>>, 1)>>
               [] t = "R" -> <<Out(<<0, 1>>, 5)>>
               [] t = "K" -> <<Out(<<0, 0>>, 4)>>
               [] t = "L" -> <<Out(<<0, 1>>, 5)>>]

MCLockTime == [t \in MCTxIds |-> IF t = "L" THEN 4 ELSE 0]
=============================================================================
