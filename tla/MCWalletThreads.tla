--------------------------- MODULE MCWalletThreads ---------------------------
(***************************************************************************)
(* Two threads over the universe PendingIds of MCWallet (A; R, replaceable *)
(* and so pending; K spending R): a peer thread that registers and         *)
(* confirms, an app thread that removes.                                   *)
(***************************************************************************)
EXTENDS MCWallet, WalletThreads

Reg(t) == [op |-> "register", tx |-> t]
Rem(t) == [op |-> "remove", tx |-> t]
Upd(t, h) == [op |-> "update", tx |-> t, h |-> h, ts |-> 1]
Unc(h) == [op |-> "unconfirm", h |-> h]

MCThreads == {"peer", "app"}

MCScripts ==
  [th \in MCThreads |->
     IF th = "peer"
     THEN {<<Reg("R"), Reg("K"), Upd("R", 1)>>,
           <<Reg("A"), Reg("K"), Reg("R"), Upd("R", 1), Unc(0)>>}
     ELSE {<<Rem("R")>>, <<Reg("K"), Rem("R")>>}]
=============================================================================
