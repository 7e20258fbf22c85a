----------------------------- MODULE MCAdvReports -----------------------------
(* TLC instance of AdvReports.                                             *)
EXTENDS AdvReports
=============================================================================
