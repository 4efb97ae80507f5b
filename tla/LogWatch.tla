------------------------------- MODULE LogWatch -------------------------------
(***************************************************************************)
(* bash.wait_for on the log and the exit of one process (Processes of      *)
(* cli/sikaru/compute_process.rs: wait_for, watch_until_fired, watch_log,  *)
(* LogScanner).                                                            *)
(*                                                                         *)
(* The output thread copies what the process writes to the artifact,       *)
(* counts each copy (activity) and announces the exit; module Job is about *)
(* that thread.  The wait polls its watchers in one task: the log's scans  *)
(* the artifact while the thread goes on.                                  *)
(*                                                                         *)
(* The output is bytes 1, 2, ...; the pattern matches bytes first..last    *)
(* and nothing else.                                                       *)
(*                                                                         *)
(* A definition whose name starts with Bug is a broken variant of the one  *)
(* it precedes; no specification uses it.                                  *)
(***************************************************************************)
EXTENDS Naturals

CONSTANTS
  Watchers,  \* the conditions: "log", "exit" or both
  Bytes,     \* bound on the output
  Chunk,     \* bytes of one read of the scanner (64 KiB)
  Carry,     \* CARRY_BYTES
  None       \* Option::None

ASSUME LogWatchAssumption ==
  /\ Watchers \subseteq {"log", "exit"} /\ Watchers # {}
  /\ Bytes \in Nat /\ Chunk \in Nat \ {0} /\ Carry \in Nat
  /\ None \notin {"hit", "exited", "error"}

VARIABLES
  first, last,       \* the match
  written, running,  \* the process: bytes written, whether it runs
  copied,            \* bytes in the artifact
  exit, exitSeen,    \* the exit event, and whether the log's watcher saw it
  fresh,             \* activity the log's watcher has not seen
  owed,              \* watchers a change of an event has still to wake
  closed,            \* the job was finished by the task
  atExit,            \* bytes in the artifact when the exit was announced
  pc,                \* where the log's watcher is
  finished,          \* the exit as it sampled it
  offset, carry,     \* LogScanner
  awake,             \* watchers woken since they were last polled
  due,               \* those the sweep after a watcher's end has to poll
  outcome,           \* per watcher: None, "hit", "exited" or "error"
  wait               \* waiting, draining, over

process == <<first, last, written, running>>
thread  == <<copied, exit, owed, closed, atExit>>
scanner == <<pc, finished, offset, carry, exitSeen, fresh>>
waiter  == <<awake, due, outcome, wait>>
vars    == <<process, thread, scanner, waiter>>

(* No longer than what an overlap of Carry bytes lets span two reads.      *)
Matches == {m \in (1..Bytes) \X (1..Bytes) :
              m[1] <= m[2] /\ m[2] - m[1] <= Carry}

(* The wait begins at some time in the life of the process.                *)
Init ==
  /\ \E m \in Matches : first = m[1] /\ last = m[2]
  /\ written \in 0..Bytes /\ copied \in 0..written
  /\ running \in BOOLEAN
  /\ exit \in IF running \/ copied < written THEN {FALSE} ELSE BOOLEAN
  /\ atExit = IF exit THEN copied ELSE 0
  /\ closed = FALSE /\ owed = {}
  /\ exitSeen = FALSE /\ fresh = FALSE
  /\ pc = "sample" /\ finished = FALSE
  /\ offset = 0 /\ carry = 0
  /\ awake = Watchers /\ due = {}
  /\ outcome = [w \in Watchers |-> None]
  /\ wait = "waiting"

-----------------------------------------------------------------------------
(* The process and the output thread.                                      *)

Write ==
  /\ running /\ written < Bytes
  /\ written' = written + 1
  /\ UNCHANGED <<first, last, running, thread, scanner, waiter>>

Exit ==
  /\ running
  /\ running' = FALSE
  /\ UNCHANGED <<first, last, written, thread, scanner, waiter>>

(* copy_available and the change of activity, which wakes the log's        *)
(* watcher before the thread reads again.                                  *)
Copy ==
  /\ ~closed /\ copied < written /\ owed = {}
  /\ copied' \in copied + 1..written
  /\ fresh' = TRUE
  /\ owed' = owed \cup (Watchers \cap {"log"})
  /\ UNCHANGED <<process, exit, closed, atExit, pc, finished, offset, carry,
                 exitSeen, waiter>>

(* announce_exit, after a read that found nothing.                         *)
Announce ==
  /\ ~closed /\ ~running /\ copied = written /\ ~exit /\ owed = {}
  /\ exit' = TRUE /\ atExit' = copied
  /\ owed' = Watchers
  /\ UNCHANGED <<process, copied, closed, scanner, waiter>>

(* The task is not within a poll of the log's watcher.                     *)
Polling == wait # "over" /\ pc \in {"sample", "parked"}

(* Job::finish, in the maintenance of another operation: the thread is     *)
(* joined, whatever it had not read is gone, and the exit is set again.    *)
Close ==
  /\ ~closed /\ ~running /\ owed = {} /\ Polling
  /\ closed' = TRUE
  /\ exit' = TRUE /\ atExit' = (IF exit THEN atExit ELSE copied)
  /\ owed' = Watchers /\ exitSeen' = FALSE
  /\ UNCHANGED <<process, copied, pc, finished, offset, carry, fresh, waiter>>

(* A changed event wakes its waiters one after the other.                  *)
Notify(w) ==
  /\ w \in owed
  /\ owed' = owed \ {w}
  /\ awake' = IF outcome[w] = None THEN awake \cup {w} ELSE awake
  /\ UNCHANGED <<process, copied, exit, closed, atExit, scanner, due,
                 outcome, wait>>

-----------------------------------------------------------------------------
(* The log's watcher.                                                      *)

End(w, what) ==
  /\ outcome' = [outcome EXCEPT ![w] = what]
  /\ awake' = awake \ {w} /\ due' = awake \ {w}
  /\ wait' = "draining"
Park(w) ==
  /\ awake' = awake \ {w} /\ due' = due \ {w}
  /\ UNCHANGED <<outcome, wait>>

(* watch_log: the exit is sampled before the scan.                         *)
Sample ==
  /\ "log" \in awake /\ wait # "over" /\ pc = "sample"
  /\ finished' = exit /\ exitSeen' = exit
  /\ fresh' = FALSE
  /\ pc' = "scan"
  /\ UNCHANGED <<process, thread, offset, carry, waiter>>

(* The end of the searched text that the next read starts with.            *)
Kept(n) == IF n < Carry THEN n ELSE Carry

(* Bug: a match must lie in one read.                                      *)
BugScan ==
  /\ pc = "scan" /\ offset < copied
  /\ \E count \in 1..Chunk :
       /\ count <= copied - offset
       /\ offset' = offset + count
       /\ IF first > offset /\ last <= offset + count
            THEN End("log", "hit") /\ carry' = 0 /\ pc' = "parked"
            ELSE carry' = 0 /\ UNCHANGED <<pc, waiter>>
  /\ UNCHANGED <<process, thread, finished, exitSeen, fresh>>

(* scan: one read, searched with the overlap.                              *)
Scan ==
  /\ pc = "scan" /\ offset < copied
  /\ \E count \in 1..Chunk :
       /\ count <= copied - offset
       /\ offset' = offset + count
       /\ IF first > offset - carry /\ last <= offset + count
            THEN End("log", "hit") /\ carry' = 0 /\ pc' = "parked"
            ELSE carry' = Kept(carry + count) /\ UNCHANGED <<pc, waiter>>
  /\ UNCHANGED <<process, thread, finished, exitSeen, fresh>>

(* A read fails: log_result ends the watch with an error, whatever of the  *)
(* log is still to be read.                                                *)
ReadFails ==
  /\ pc = "scan"
  /\ End("log", "error") /\ pc' = "parked"
  /\ UNCHANGED <<process, thread, finished, offset, carry, exitSeen, fresh>>

(* The read that finds nothing.                                            *)
ScanEnd ==
  /\ pc = "scan" /\ offset = copied
  /\ pc' = "scanned"
  /\ UNCHANGED <<process, thread, finished, offset, carry, exitSeen, fresh,
                 waiter>>

(* Bug: the exit is sampled after the scan.                                *)
BugScanned ==
  /\ pc = "scanned"
  /\ IF exit
       THEN End("log", "exited") /\ pc' = "parked"
       ELSE IF fresh
         THEN pc' = "sample" /\ UNCHANGED waiter
         ELSE pc' = "parked" /\ Park("log")
  /\ UNCHANGED <<process, thread, finished, offset, carry, exitSeen, fresh>>

(* scan's end, log_result; an event that changed during the scan starts    *)
(* the next one at once.                                                   *)
Scanned ==
  /\ pc = "scanned"
  /\ IF finished
       THEN End("log", "exited") /\ pc' = "parked"
       ELSE IF fresh \/ (exit /\ ~exitSeen)
         THEN pc' = "sample" /\ UNCHANGED waiter
         ELSE pc' = "parked" /\ Park("log")
  /\ UNCHANGED <<process, thread, finished, offset, carry, exitSeen, fresh>>

(* The select of watch_log returns; RECHECK wakes it too.                  *)
Wake ==
  /\ pc = "parked" /\ "log" \in awake /\ wait # "over"
  /\ IF fresh \/ (exit /\ ~exitSeen)
       THEN pc' = "sample" /\ UNCHANGED waiter
       ELSE Park("log") /\ UNCHANGED pc
  /\ UNCHANGED <<process, thread, finished, offset, carry, exitSeen, fresh>>
Recheck ==
  /\ pc = "parked" /\ "log" \in Watchers /\ outcome["log"] = None
  /\ wait # "over"
  /\ pc' = "sample" /\ awake' = awake \cup {"log"}
  /\ UNCHANGED <<process, thread, finished, offset, carry, exitSeen, fresh,
                 due, outcome, wait>>

(* exit_watcher; it is polled while the log's does not run.                *)
PollExit ==
  /\ Polling /\ "exit" \in awake
  /\ IF exit THEN End("exit", "hit")
     ELSE Park("exit")
  /\ UNCHANGED <<process, thread, scanner>>

-----------------------------------------------------------------------------
(* watch_until_fired.                                                      *)

Fired == \E w \in Watchers : outcome[w] = "hit"

(* Bug: the first condition that fires ends the wait.                      *)
BugDrained ==
  /\ wait = "draining" /\ Polling
  /\ wait' = IF Fired \/ \A w \in Watchers : outcome[w] # None
             THEN "over" ELSE "waiting"
  /\ UNCHANGED <<process, thread, scanner, awake, due, outcome>>

(* Every watcher that was awake is polled once before the wait ends.       *)
Drained ==
  /\ wait = "draining" /\ Polling /\ due = {}
  /\ wait' = IF Fired \/ \A w \in Watchers : outcome[w] # None
             THEN "over" ELSE "waiting"
  /\ UNCHANGED <<process, thread, scanner, awake, due, outcome>>

Deadline ==
  /\ wait = "waiting" /\ Polling
  /\ wait' = "over"
  /\ UNCHANGED <<process, thread, scanner, awake, due, outcome>>

Next ==
  \/ Write \/ Exit \/ Copy \/ Announce \/ Close
  \/ \E w \in Watchers : Notify(w)
  \/ Sample \/ Scan \/ ReadFails \/ ScanEnd \/ Scanned \/ Wake \/ Recheck
  \/ PollExit \/ Drained \/ Deadline

Spec == Init /\ [][Next]_vars

(* The thread and the task are scheduled.  Nothing is assumed of the       *)
(* process, nor of the deadline.                                           *)
Fairness ==
  /\ WF_vars(Copy) /\ WF_vars(\E w \in Watchers : Notify(w))
  /\ WF_vars(Sample) /\ WF_vars(Scan \/ ScanEnd) /\ WF_vars(Scanned)
  /\ WF_vars(Wake) /\ WF_vars(PollExit) /\ WF_vars(Drained)
FairSpec == Spec /\ Fairness

-----------------------------------------------------------------------------
(* A log condition is given up as exited only if what the process had      *)
(* logged when its exit was announced does not match, in whatever pieces   *)
(* it was copied and read.                                                 *)
NoMissedMatch ==
  "log" \in Watchers /\ outcome["log"] = "exited" => last > atExit

(* A wait that ends because the process exited reports the match it logged *)
(* before, although the exit was noticed first: list order breaks ties.    *)
(* If not, the result says that the log could not be read.                 *)
TieKept ==
  wait = "over" /\ Watchers = {"log", "exit"} /\ outcome["exit"] = "hit"
    => last > atExit \/ outcome["log"] \in {"hit", "error"}

(* A match that is in the artifact ends the wait, also when the process    *)
(* runs on and logs nothing more, unless the log could not be read: then   *)
(* the wait goes on for the exit.                                          *)
MatchEnds ==
  "log" \in Watchers /\ last <= copied
    ~> wait = "over" \/ outcome["log"] = "error"
=============================================================================
