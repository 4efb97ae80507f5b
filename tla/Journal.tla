------------------------------- MODULE Journal -------------------------------
(***************************************************************************)
(* The fsynced intent/receipt ledger of the native executor                *)
(* (cli/sikaru/compute_journal.rs) and the one thread that calls it.       *)
(*                                                                         *)
(* The file is represented by what restore_records would rebuild from its  *)
(* complete lines (its ledger) and by whether it can be read at all: a     *)
(* torn last line, or a line glued to one, makes every later open fail.    *)
(* stream is the file as this machine reads it now, synced what is left of *)
(* it after a power loss.  journal is the Journal value in memory.         *)
(*                                                                         *)
(* A definition whose name starts with Bug is a broken variant of the one  *)
(* it precedes; no specification uses it, and a property that would not    *)
(* catch it would say nothing about the code.                              *)
(***************************************************************************)
EXTENDS Naturals, FiniteSets

CONSTANTS
  Keys,         \* operation identities, "run_id/tool_call_id"
  Requests,     \* digests of complete operations
  Receipts,     \* receipts an operation can end with
  Handles,      \* process handle identities
  Identities,   \* a Binding without owner_epoch and credential_id
  Instances,    \* executor instance identities; bounds the restarts
  MaxEpoch,     \* bound on owner epochs
  None,         \* Option::None
  TeardownVerified   \* open_verified's argument: TRUE in serve_with_options,
                     \* FALSE in the Journal::open the tests use

VARIABLES
  phase,     \* how far the process holding the lock has got
  journal,   \* the Journal in memory
  stream,    \* journal.jsonl as it can be read now
  synced,    \* journal.jsonl as it is after losing power
  caller,    \* caller[k]: how far this process has taken operation k
  jobs,      \* handles of the processes this executor process owns
  spawned,   \* history: instances that ever opened the file
  owned,     \* history: owned[e]: instances that finished opening at epoch e
  effects,   \* history: effects[k]: how many times k's effect happened
  answers    \* history: answers[k]: receipts the service was handed for k

durable == <<stream, synced>>
history == <<spawned, owned, effects, answers>>
vars == <<phase, journal, stream, synced, caller, jobs,
          spawned, owned, effects, answers>>

Epochs == 1..MaxEpoch

(* A Binding and the instance that holds it.                               *)
Owners == [owner_epoch : Epochs, identity : Identities, instance : Instances]

ASSUME JournalAssumption ==
  /\ None \notin Requests \cup Receipts \cup Owners
  /\ MaxEpoch \in Nat
  /\ TeardownVerified \in BOOLEAN

HandleStates == {"none", "running", "ended"}

(* The fields of Journal: Entry is spread over three functions on keys; an *)
(* entry exists when its request is not None.                              *)
Ledgers ==
  [ owner        : Owners \cup {None},
    request      : [Keys -> Requests \cup {None}],
    receipt      : [Keys -> Receipts \cup {None}],
    acknowledged : SUBSET Keys,
    handles      : [Handles -> HandleStates],
    clean        : BOOLEAN ]

EmptyLedger ==
  [ owner |-> None,
    request |-> [k \in Keys |-> None],
    receipt |-> [k \in Keys |-> None],
    acknowledged |-> {},
    handles |-> [h \in Handles |-> "none"],
    clean |-> FALSE ]

Files == [state : {"whole", "torn", "corrupt"}, ledger : Ledgers]

Running(l) == {h \in Handles : l.handles[h] = "running"}

HasUncertainEffects(l) ==
  \E k \in Keys : l.request[k] # None /\ l.receipt[k] = None

-----------------------------------------------------------------------------
(* Records, and what reading each of them back does to a ledger.           *)

Header(o)          == [kind |-> "header", owner |-> o]
IntentRecord(k, q)  == [kind |-> "intent", key |-> k, request |-> q]
ReceiptRecord(k, r) == [kind |-> "receipt", key |-> k, receipt |-> r]
AckRecord(k)        == [kind |-> "ack", key |-> k]
(* Bug: a status the reader of the line does not know.                     *)
BugUnknownStatus(h, s) ==
  [kind |-> "handle", id |-> h,
   status |-> IF s = "ended" THEN "exited" ELSE s]
HandleRecord(h, s)  == [kind |-> "handle", id |-> h, status |-> s]
CleanRecord         == [kind |-> "clean"]

Restore(l, record) ==
  CASE record.kind = "header" ->
         [l EXCEPT !.owner = record.owner, !.clean = FALSE]
    [] record.kind = "intent" ->
         [l EXCEPT !.request[record.key] = record.request,
                   !.receipt[record.key] = None,
                   !.acknowledged = @ \ {record.key}]
    [] record.kind = "receipt" ->
         [l EXCEPT !.receipt[record.key] = record.receipt]
    [] record.kind = "ack" ->
         [l EXCEPT !.acknowledged = @ \cup {record.key}]
    [] record.kind = "handle" ->
         [l EXCEPT !.handles[record.id] = record.status]
    [] record.kind = "clean" ->
         [l EXCEPT !.clean = TRUE]

(* One more complete line.  After a torn line it is glued to that line and *)
(* neither parses.                                                         *)
Line(file, record) ==
  IF file.state = "whole"
    THEN [file EXCEPT !.ledger = Restore(@, record)]
    ELSE [file EXCEPT !.state = "corrupt"]

(* Part of a line, its newline missing.                                    *)
Torn(file) ==
  [file EXCEPT !.state = IF @ = "whole" THEN "torn" ELSE @]

(* Bug: the snapshot leaves the acknowledgements out.                      *)
BugSnapshotWithoutAcks(j) ==
  [state |-> "whole", ledger |-> [j EXCEPT !.acknowledged = {}]]

(* The file write_snapshot leaves: a header, every entry, every handle and *)
(* the clean mark.                                                         *)
Snapshot(j) == [state |-> "whole", ledger |-> j]

-----------------------------------------------------------------------------
(* Journal::append: verify, write, fsync, fsync the directory.             *)

(* Bug: the line is written and not fsynced.                               *)
BugNoSync(record) ==
  /\ stream' = Line(stream, record)
  /\ UNCHANGED synced

Appended(record) ==
  /\ stream' = Line(stream, record)
  /\ synced' = Line(stream, record)

(* It fails, or the machine stops: before the write, within it, or before  *)
(* all that was written is durable.                                        *)
AppendFailed(record) ==
  \/ UNCHANGED durable
  \/ /\ stream' \in {Torn(stream), Line(stream, record)}
     /\ synced' \in {synced, Torn(synced), stream, Torn(stream), stream'}

(* Bug: memory is updated before the append is known to have succeeded.    *)
BugMemoryFirst(record, value) ==
  /\ Appended(record) \/ AppendFailed(record)
  /\ journal' = value

(* append(record)?; self.field = value: memory follows a durable line.     *)
Append(record, value) ==
  \/ Appended(record) /\ journal' = value
  \/ AppendFailed(record) /\ UNCHANGED journal

(* The process is gone, and with it all it held in memory.                 *)
Drop ==
  /\ phase' = "down"
  /\ journal' = EmptyLedger
  /\ caller' = [k \in Keys |-> "idle"]
  /\ jobs' = {}

-----------------------------------------------------------------------------
Init ==
  /\ phase = "down"
  /\ journal = EmptyLedger
  /\ stream = [state |-> "whole", ledger |-> EmptyLedger]
  /\ synced = [state |-> "whole", ledger |-> EmptyLedger]
  /\ caller = [k \in Keys |-> "idle"]
  /\ jobs = {}
  /\ spawned = {}
  /\ owned = [e \in Epochs |-> {}]
  /\ effects = [k \in Keys |-> 0]
  /\ answers = [k \in Keys |-> {}]

(* Bug: the owner epoch may be used twice.                                 *)
BugSameEpoch(l, o) ==
  /\ l.owner.owner_epoch <= o.owner_epoch
  /\ l.owner.identity = o.identity
  /\ l.clean \/ TeardownVerified
  /\ ~HasUncertainEffects(l)

(* validate_restart: a newer epoch of the same identity, cleaned up or torn*)
(* down from outside, nothing uncertain.  (same_process never holds: every *)
(* serve draws a fresh 128-bit instance.)                                  *)
RestartAllowed(l, o) ==
  /\ l.owner.owner_epoch < o.owner_epoch
  /\ l.owner.identity = o.identity
  /\ l.clean \/ TeardownVerified
  /\ ~HasUncertainEffects(l)

(* open_verified up to its first write: lock, read, validate.  Every       *)
(* failure leaves the process down and the file as it was.                 *)
Open(o) ==
  /\ phase = "down"
  /\ stream.state = "whole"
  /\ o.instance \notin spawned
  /\ stream.ledger.owner # None => RestartAllowed(stream.ledger, o)
  /\ phase' = "validated"
  /\ journal' = [stream.ledger EXCEPT !.owner = o]
  /\ spawned' = spawned \cup {o.instance}
  /\ UNCHANGED <<stream, synced, caller, jobs, owned, effects, answers>>

(* One turn of the loop of record_external_teardown.                       *)
RecordExternalTeardown(h) ==
  /\ phase = "validated" /\ TeardownVerified
  /\ h \in Running(journal)
  /\ \/ /\ Appended(HandleRecord(h, "ended"))
        /\ journal' = [journal EXCEPT !.handles[h] = "ended"]
        /\ UNCHANGED <<phase, caller, jobs>>
     \/ AppendFailed(HandleRecord(h, "ended")) /\ Drop
  /\ UNCHANGED history

(* The header that makes this process the owner.  A journal beyond 64 MiB  *)
(* is compacted before open_verified returns.                              *)
WriteHeader ==
  /\ phase = "validated"
  /\ TeardownVerified => Running(journal) = {}
  /\ \/ /\ Appended(Header(journal.owner))
        /\ journal' = [journal EXCEPT !.clean = FALSE]
        /\ phase' \in IF stream.ledger.owner = None
                         THEN {"open"} ELSE {"open", "compact"}
        /\ owned' = [owned EXCEPT ![journal.owner.owner_epoch] =
                                    @ \cup {journal.owner.instance}]
        /\ UNCHANGED <<caller, jobs>>
     \/ AppendFailed(Header(journal.owner)) /\ Drop /\ UNCHANGED owned
  /\ UNCHANGED <<spawned, effects, answers>>

(* Journal::compact: the snapshot is complete and synced under another     *)
(* name before the rename; only the directory's fsync can fail after it.   *)
Compact ==
  /\ phase = "compact"
  /\ \/ /\ stream' = Snapshot(journal)
        /\ synced' = Snapshot(journal)
        /\ phase' = "open"
        /\ UNCHANGED <<journal, caller, jobs>>
     \/ /\ stream' \in {stream, Snapshot(journal)}
        /\ synced' \in {synced, stream'}
        /\ Drop
  /\ UNCHANGED history

-----------------------------------------------------------------------------
(* The operations of an open journal, and the executor's use of them.      *)

(* Bug: an operation with an intent and no receipt is started again.       *)
BugReplayUncertain(k, q) ==
  /\ phase = "open"
  /\ journal.receipt[k] = None
  /\ Appended(IntentRecord(k, q))
  /\ journal' = Restore(journal, IntentRecord(k, q))
  /\ caller' = [caller EXCEPT ![k] = "granted"]
  /\ UNCHANGED <<phase, jobs, history>>

(* Journal::intent for an operation the ledger does not hold: Ok(None),    *)
(* the caller may start the effect.  For one it holds, intent writes       *)
(* nothing: it returns the receipt (see Deliver) or refuses.               *)
Intent(k, q) ==
  /\ phase = "open"
  /\ journal.request[k] = None
  /\ \/ /\ Appended(IntentRecord(k, q))
        /\ journal' = Restore(journal, IntentRecord(k, q))
        /\ caller' = [caller EXCEPT ![k] = "granted"]
     \/ AppendFailed(IntentRecord(k, q)) /\ UNCHANGED <<journal, caller>>
  /\ UNCHANGED <<phase, jobs, history>>

(* The effect itself (Processes::begin), between the two records.          *)
RunEffect(k) ==
  /\ phase = "open"
  /\ caller[k] = "granted"
  /\ caller' = [caller EXCEPT ![k] = "ran"]
  /\ effects' = [effects EXCEPT ![k] = @ + 1]
  /\ UNCHANGED <<phase, journal, stream, synced, jobs,
                 spawned, owned, answers>>

(* Journal::receipt, for an operation that ran.                            *)
Receipt(k, r) ==
  /\ phase = "open"
  /\ caller[k] = "ran"
  /\ journal.request[k] # None
  /\ journal.receipt[k] = None
  /\ \/ /\ Appended(ReceiptRecord(k, r))
        /\ journal' = [journal EXCEPT !.receipt[k] = r]
        /\ caller' = [caller EXCEPT ![k] = "idle"]
     \/ AppendFailed(ReceiptRecord(k, r)) /\ UNCHANGED <<journal, caller>>
  /\ UNCHANGED <<phase, jobs, history>>

(* The service is handed a receipt the ledger holds: just recorded, asked  *)
(* for again by a repeat (intent returns it), or replayed by a reconnect.  *)
Deliver(k) ==
  /\ phase = "open"
  /\ journal.receipt[k] # None
  /\ answers' = [answers EXCEPT ![k] = @ \cup {journal.receipt[k]}]
  /\ caller' = [caller EXCEPT ![k] = "delivered"]
  /\ UNCHANGED <<phase, journal, stream, synced, jobs,
                 spawned, owned, effects>>

(* Journal::ack, once the service has settled the delivery.                *)
Ack(k) ==
  /\ phase = "open"
  /\ caller[k] = "delivered"
  /\ IF k \in journal.acknowledged
       THEN UNCHANGED <<journal, stream, synced>>
       ELSE Append(AckRecord(k), [journal EXCEPT !.acknowledged = @ \cup {k}])
  /\ caller' = [caller EXCEPT ![k] = "idle"]
  /\ UNCHANGED <<phase, jobs, history>>

(* Processes::start: the job is owned before its handle is journalled.     *)
StartProcess(h) ==
  /\ phase = "open"
  /\ \E k \in Keys : caller[k] = "ran"
  /\ h \notin jobs /\ journal.handles[h] = "none"
  /\ stream.ledger.handles[h] = "none"      \* identities are fresh
  /\ jobs' = jobs \cup {h}
  /\ Append(HandleRecord(h, "running"),
            [journal EXCEPT !.handles[h] = "running"])
  /\ UNCHANGED <<phase, caller, history>>

(* A job that exited, was cancelled or cleaned up is journalled as such.   *)
EndProcess(h) ==
  /\ phase = "open"
  /\ h \in jobs
  /\ journal.handles[h] # "ended"
  /\ Append(HandleRecord(h, "ended"), [journal EXCEPT !.handles[h] = "ended"])
  /\ UNCHANGED <<phase, caller, jobs, history>>

(* Bug: the clean mark is written with an effect still uncertain.          *)
BugCleanWhileUncertain ==
  /\ phase = "open"
  /\ \A h \in jobs : journal.handles[h] = "ended"
  /\ Running(journal) = {}
  /\ Appended(CleanRecord)
  /\ Drop
  /\ UNCHANGED history

(* The end of finish: every process this executor owned is confirmed gone, *)
(* none was lost by an earlier owner, nothing is uncertain.  The process   *)
(* ends whether or not the mark could be written.                          *)
MarkClean ==
  /\ phase = "open"
  /\ \A h \in jobs : journal.handles[h] = "ended"
  /\ Running(journal) = {}
  /\ ~HasUncertainEffects(journal)
  /\ Appended(CleanRecord) \/ AppendFailed(CleanRecord)
  /\ Drop
  /\ UNCHANGED history

(* The process ends without it: an error, a signal, a crash.               *)
Exit ==
  /\ phase # "down"
  /\ Drop
  /\ UNCHANGED <<stream, synced, history>>

(* The machine stops: what was not fsynced may be gone.                    *)
PowerLoss ==
  /\ stream # synced
  /\ stream' = synced
  /\ Drop
  /\ UNCHANGED <<synced, history>>

Next ==
  \/ \E o \in Owners : Open(o)
  \/ \E h \in Handles : RecordExternalTeardown(h)
  \/ WriteHeader
  \/ Compact
  \/ \E k \in Keys, q \in Requests : Intent(k, q)
  \/ \E k \in Keys : RunEffect(k) \/ Deliver(k) \/ Ack(k)
  \/ \E k \in Keys, r \in Receipts : Receipt(k, r)
  \/ \E h \in Handles : StartProcess(h) \/ EndProcess(h)
  \/ MarkClean
  \/ Exit
  \/ PowerLoss

Spec == Init /\ [][Next]_vars

-----------------------------------------------------------------------------
TypeOK ==
  /\ phase \in {"down", "validated", "compact", "open"}
  /\ journal \in Ledgers
  /\ stream \in Files
  /\ synced \in Files
  /\ caller \in [Keys -> {"idle", "granted", "ran", "delivered"}]
  /\ jobs \subseteq Handles
  /\ spawned \subseteq Instances
  /\ owned \in [Epochs -> SUBSET Instances]
  /\ effects \in [Keys -> Nat]
  /\ answers \in [Keys -> SUBSET Receipts]

(* Write-ahead: whatever a crash leaves, either the file cannot be opened, *)
(* or it holds the intent of every effect that ever happened and, for an   *)
(* operation the service was answered about, exactly that answer.          *)
CrashSafe ==
  \A file \in {stream, synced} : file.state = "whole" =>
    \A k \in Keys :
      /\ effects[k] > 0 => file.ledger.request[k] # None
      /\ answers[k] # {} => file.ledger.receipt[k] \in answers[k]

(* Memory is never ahead of the disk: what an open journal holds about an  *)
(* operation is what a readable file would restore, however many writes    *)
(* failed on the way.                                                      *)
MemoryIsDurable ==
  phase \in {"open", "compact"} /\ synced.state = "whole" =>
    \A k \in Keys :
      /\ journal.request[k] # None =>
           synced.ledger.request[k] = journal.request[k]
      /\ journal.receipt[k] # None =>
           synced.ledger.receipt[k] = journal.receipt[k]
      /\ k \in journal.acknowledged => k \in synced.ledger.acknowledged

(* Taking over: a process that has the journal open is the only one that   *)
(* ever had it open at its epoch, and none ever had it at a later one.     *)
LatestOwner ==
  phase \in {"open", "compact"} =>
    /\ owned[journal.owner.owner_epoch] = {journal.owner.instance}
    /\ \A e \in Epochs : e > journal.owner.owner_epoch => owned[e] = {}

(* A clean mark on disk is never stale: every effect that happened has its *)
(* receipt there and no process is journalled as running.  (An intent whose*)
(* fsync failed may stand uncertain beside it: its effect never started.)  *)
CleanMeansQuiet ==
  \A file \in {stream, synced} :
    file.state = "whole" /\ file.ledger.clean =>
      /\ \A k \in Keys : effects[k] > 0 => file.ledger.receipt[k] # None
      /\ Running(file.ledger) = {}

(* Across every crash and restart the journal gives the executor what the  *)
(* service is promised: one effect and one answer per operation.           *)
Ops == INSTANCE Operations WITH effects <- effects, answers <- answers
Implements == Ops!OpSpec
=============================================================================
