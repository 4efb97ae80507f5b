-------------------------------- MODULE MCJob --------------------------------
(* Job for TLC.                                                            *)
EXTENDS Job
=============================================================================
