----------------------------- MODULE MCAttServer -----------------------------
(* TLC instance of AttServer.                                              *)
EXTENDS AttServer
=============================================================================
