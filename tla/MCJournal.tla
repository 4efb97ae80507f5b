------------------------------ MODULE MCJournal ------------------------------
(* Modules Journal and JournalLedger under TLC: every constant is a small   *)
(* set or a number, and MaxEpoch and the size of Instances bound how often  *)
(* the file is taken over.  The theorems of JournalProofs remove these      *)
(* bounds.                                                                  *)
EXTENDS JournalLedger
=============================================================================
