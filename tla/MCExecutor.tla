------------------------------ MODULE MCExecutor -----------------------------
(* Module Executor under TLC: every constant is a small set or a number,    *)
(* and MaxServes bounds how many processes run over one journal.  The       *)
(* theorems of ExecutorProofs remove these bounds.                          *)
EXTENDS Executor
=============================================================================
