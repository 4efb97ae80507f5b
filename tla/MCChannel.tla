------------------------------ MODULE MCChannel ------------------------------
(* Channel for TLC.                                                        *)
EXTENDS Channel
=============================================================================
