------------------------------- MODULE MCChat -------------------------------
(* Chat for TLC: its constants get their values in the .cfg files.         *)
EXTENDS Chat
=============================================================================
