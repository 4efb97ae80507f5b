------------------------------- MODULE Ledger -------------------------------
(***************************************************************************)
(* What the executor's journal promises the task that uses it: a map that  *)
(* changes one record at a time.  An operation gets one intent, then one   *)
(* receipt, then acknowledgements; nothing recorded is ever taken back or  *)
(* replaced, whatever happens to the process and its file.                 *)
(*                                                                         *)
(* A process that takes the journal over from a crashed one reads back all *)
(* that one knew, and may find records whose writing that one saw fail:    *)
(* receipts and acknowledgements, never an intent, for a journal with an   *)
(* intent in doubt is not opened.                                          *)
(***************************************************************************)
CONSTANTS
  Keys,      \* operation identities, "run_id/tool_call_id"
  Receipts,  \* receipts an operation can end with
  None       \* no receipt

VARIABLES
  intents,   \* operations with an intent
  receipt,   \* receipt[k], or None
  acked      \* operations with an acknowledged receipt

ledgerVars == <<intents, receipt, acked>>

LedgerInit ==
  /\ intents = {}
  /\ receipt = [k \in Keys |-> None]
  /\ acked = {}

TakeIntent(k) ==
  /\ k \notin intents
  /\ intents' = intents \cup {k}
  /\ UNCHANGED <<receipt, acked>>

TakeReceipt(k, r) ==
  /\ k \in intents
  /\ receipt[k] = None
  /\ receipt' = [receipt EXCEPT ![k] = r]
  /\ UNCHANGED <<intents, acked>>

TakeAck(k) ==
  /\ receipt[k] # None
  /\ acked' = acked \cup {k}
  /\ UNCHANGED <<intents, receipt>>

TakeOver ==
  /\ receipt' \in [Keys -> Receipts \cup {None}]
  /\ \A k \in Keys :
       /\ receipt[k] # None => receipt'[k] = receipt[k]
       /\ receipt'[k] # None => k \in intents
  /\ acked \subseteq acked'
  /\ \A k \in acked' : receipt'[k] # None
  /\ UNCHANGED intents

LedgerNext ==
  \/ \E k \in Keys : TakeIntent(k) \/ TakeAck(k)
  \/ \E k \in Keys, r \in Receipts : TakeReceipt(k, r)
  \/ TakeOver

LedgerSpec == LedgerInit /\ [][LedgerNext]_ledgerVars
=============================================================================
