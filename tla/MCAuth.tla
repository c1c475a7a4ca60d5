------------------------------- MODULE MCAuth -------------------------------
(* Auth for TLC: its constants get their values in the .cfg files.         *)
EXTENDS Auth, TLC
=============================================================================
