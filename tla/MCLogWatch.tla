------------------------------ MODULE MCLogWatch ------------------------------
(* LogWatch for TLC.                                                       *)
EXTENDS LogWatch

Both == {"log", "exit"}
=============================================================================
