----------------------------- MODULE MCBuilder ------------------------------
(***************************************************************************)
(* Wallets and payments for Builder.  Sizes are the real ones (148-byte    *)
(* inputs, 34-byte outputs); TX_MAX_SIZE is scaled from 100000 to 500 so   *)
(* that the third input makes a tx too large and the restart happens.      *)
(***************************************************************************)
EXTENDS Builder

MCUtxoSeqs == {<<4000, 3000, 2550>>, <<1000, 1000, 9000>>, <<2500, 2500, 2500, 2500>>, <<3000, 3000, 3000>>}

MCOutputSeqs == {<<3000, 3000>>, <<1000, 6000>>}

MCAmounts == {2000, 5000, 7000}
=============================================================================
