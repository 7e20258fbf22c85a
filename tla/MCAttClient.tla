----------------------------- MODULE MCAttClient -----------------------------
(* TLC instance of AttClient.                                              *)
EXTENDS AttClient
=============================================================================
