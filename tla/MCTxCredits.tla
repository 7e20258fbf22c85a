----------------------------- MODULE MCTxCredits -----------------------------
(* TLC instance of TxCredits.                                              *)
EXTENDS TxCredits
=============================================================================
