---------------------------- MODULE JournalLedger ----------------------------
(***************************************************************************)
(* Module Journal with one history variable, through which it implements   *)
(* module Ledger: known is the ledger as the process that has the journal  *)
(* open knows it or, when none has, as the last one that had knew it.      *)
(*                                                                         *)
(* known has no counterpart in the code.  It restricts no step of Journal  *)
(* by its form: Know gives it one next value in every step of Next,        *)
(* whatever its value, and no other conjunct of HNext mentions it.         *)
(***************************************************************************)
EXTENDS Journal

VARIABLE known

(* What a Journal in memory says of the operations.                        *)
View(j) ==
  [ intents |-> {k \in Keys : j.request[k] # None},
    receipt |-> j.receipt,
    acked   |-> j.acknowledged ]

Know == known' = IF phase' \in {"open", "compact"} THEN View(journal') ELSE known

HInit == Init /\ known = View(EmptyLedger)
HNext == Next /\ Know
HSpec == HInit /\ [][HNext]_<<vars, known>>

(* Between two processes and within each, what the journal says of the     *)
(* operations changes one record at a time and nothing of it is lost: a    *)
(* crash, a torn or unsynced line, a failed append, a compaction and a     *)
(* power loss leave either a file the next process refuses, or one that    *)
(* reads back all the last one knew.                                       *)
L == INSTANCE Ledger WITH intents <- known.intents,
                          receipt <- known.receipt,
                          acked   <- known.acked
KeepsLedger == L!LedgerSpec
=============================================================================
