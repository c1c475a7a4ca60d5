------------------------------ MODULE MCAIGate ------------------------------
(* AIGate for TLC: its constants get their values in the .cfg files.       *)
EXTENDS AIGate, TLC
=============================================================================
