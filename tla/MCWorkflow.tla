------------------------------ MODULE MCWorkflow -----------------------------
(* Module Workflow under TLC: every constant is a number.                   *)
EXTENDS Workflow
=============================================================================
