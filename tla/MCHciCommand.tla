----------------------------- MODULE MCHciCommand -----------------------------
(* TLC instance of HciCommand.                                             *)
EXTENDS HciCommand
=============================================================================
