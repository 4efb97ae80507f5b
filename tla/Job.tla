--------------------------------- MODULE Job ---------------------------------
(***************************************************************************)
(* One process the executor owns (struct Job of                            *)
(* cli/sikaru/compute_process.rs) and the three parties that share it:     *)
(*                                                                         *)
(* - its process group, which writes to the output pipe, forks, and dies;  *)
(* - the output thread (copy_output, Supervisor), which moves the pipe     *)
(*   into the artifact, kills the group when its leader has exited or its  *)
(*   time is up, and announces the exit;                                   *)
(* - the task (Processes), which maintains, waits for, cancels and cleans  *)
(*   up the job, reaps its leader and journals how it ended.               *)
(*                                                                         *)
(* Thread and task share a mutex over the process id (group), and flags.   *)
(* One job stands for all: the registry handles each of them alike.        *)
(*                                                                         *)
(* A definition whose name starts with Bug is a broken variant of the one  *)
(* it precedes; no specification uses it.                                  *)
(***************************************************************************)
EXTENDS Naturals

CONSTANTS
  Leader,   \* the shell that was started, which leads the group
  Members,  \* processes it and its descendants may fork, each once
  PipeCap,  \* chunks of output the pipe holds
  Limit,    \* ARTIFACT_LIMIT, in chunks
  Escapes   \* whether a descendant may leave the group with the pipe open

VARIABLES
  \* The operating system.
  group,     \* live processes of the group
  born,      \* members that were ever forked
  doomed,    \* live processes that were sent SIGKILL
  leader,    \* none, live, zombie (exited, not reaped) or reaped
  escaped,   \* a process outside the group holds the pipe
  pipe,      \* chunks in the pipe
  leaderAt,  \* place in the pipe of the leader's last chunk; 0: all are read
  late,      \* the deadline has passed
  \* Shared between the output thread and the task.
  owned,     \* Job.group is Some
  lock,      \* who holds its mutex
  stop,      \* reader_stop
  truncated,
  timedOut,
  exit,      \* the exit event
  \* The output thread.
  thread,    \* where it is
  saw,       \* its tick found the leader exited
  kept,      \* chunks in the artifact
  \* The task.
  pc,        \* where it is: idle, or in Job::finish
  call,      \* who called finish, and with what
  held,      \* the job is in Processes.jobs
  closed,
  cleanupFailed,
  state,     \* Job.state
  wait,      \* a bash.wait: none, waiting, or what it returned
  cleaned,   \* what Processes::cleanup returned
  ledger     \* the handle's status in the journal, or none

os     == <<group, born, doomed, leader, escaped, pipe, leaderAt, late>>
shared == <<owned, lock, stop, truncated, timedOut, exit>>
output == <<thread, saw, kept>>
job    == <<held, closed, cleanupFailed, state>>
caller == <<pc, call, wait, cleaned, ledger>>
vars   == <<os, shared, output, job, caller>>

ASSUME JobAssumption ==
  /\ Leader \notin Members
  /\ PipeCap \in Nat \ {0}
  /\ Limit \in Nat
  /\ Escapes \in BOOLEAN

Statuses == {"running", "exited", "cancelled"}
Callers  == {"operation", "subscribe", "wait", "cancel", "cleanup", "drop"}
Call(who, cancelled, overdue) ==
  [who |-> who, cancelled |-> cancelled, timedOut |-> overdue]

Init ==
  /\ group = {} /\ born = {} /\ doomed = {}
  /\ leader = "none" /\ escaped = FALSE
  /\ pipe = 0 /\ leaderAt = 0 /\ late = FALSE
  /\ owned = FALSE /\ lock = "free"
  /\ stop = FALSE /\ truncated = FALSE /\ timedOut = FALSE /\ exit = FALSE
  /\ thread = "none" /\ saw = FALSE /\ kept = 0
  /\ pc = "idle" /\ call = Call("operation", FALSE, FALSE)
  /\ held = FALSE /\ closed = FALSE /\ cleanupFailed = FALSE
  /\ state = [status |-> "running", truncated |-> FALSE, timedOut |-> FALSE]
  /\ wait = "none" /\ cleaned = "no" /\ ledger = "none"

-----------------------------------------------------------------------------
(* The process group.                                                      *)

Write ==
  /\ pipe < PipeCap
  /\ pipe' = pipe + 1
  /\ \/ leader = "live" /\ leaderAt' = pipe + 1
     \/ (escaped \/ group \ {Leader} # {}) /\ UNCHANGED leaderAt
  /\ UNCHANGED <<group, born, doomed, leader, escaped, late,
                 shared, output, job, caller>>

(* A fork joins the group, unsignalled, even while its parent is dying.    *)
Fork(m) ==
  /\ group # {} /\ m \notin born
  /\ group' = group \cup {m}
  /\ born' = born \cup {m}
  /\ UNCHANGED <<doomed, leader, escaped, pipe, leaderAt, late,
                 shared, output, job, caller>>

(* A process exits, or dies of the signal it was sent.                     *)
Die(p) ==
  /\ p \in group
  /\ group' = group \ {p}
  /\ doomed' = doomed \ {p}
  /\ leader' = IF p = Leader THEN "zombie" ELSE leader
  /\ UNCHANGED <<born, escaped, pipe, leaderAt, late,
                 shared, output, job, caller>>

Escape(m) ==
  /\ Escapes
  /\ m \in group \ doomed
  /\ group' = group \ {m}
  /\ escaped' = TRUE
  /\ UNCHANGED <<born, doomed, leader, pipe, leaderAt, late,
                 shared, output, job, caller>>

Expire ==
  /\ leader # "none" /\ ~late
  /\ late' = TRUE
  /\ UNCHANGED <<group, born, doomed, leader, escaped, pipe, leaderAt,
                 shared, output, job, caller>>

-----------------------------------------------------------------------------
(* The output thread.                                                      *)

(* signal_owned_group: SIGKILL to every process of the group.              *)
Signal ==
  /\ doomed' = group
  /\ UNCHANGED <<group, born, leader, escaped, pipe, leaderAt, late>>

(* Bug: the thread does not take the mutex.                                *)
BugTickUnlocked ==
  /\ thread = "tick" /\ owned
  /\ saw' = (leader = "zombie")
  /\ timedOut' = (timedOut \/ (late /\ leader = "live"))
  /\ thread' = IF leader = "zombie" \/ late \/ truncated THEN "signal" ELSE "copy"
  /\ UNCHANGED <<os, owned, lock, stop, truncated, exit, kept, job, caller>>

(* Bug: a leader that has exited still runs out of time.                   *)
BugTickLate ==
  /\ thread = "tick" /\ lock = "free"
  /\ owned
  /\ saw' = (leader = "zombie")
  /\ timedOut' = (timedOut \/ late)
  /\ thread' = "signal" /\ lock' = "thread"
  /\ UNCHANGED <<os, owned, stop, truncated, exit, kept, job, caller>>

(* Bug: the deadline is left to the task.                                  *)
BugTickTimeless ==
  /\ thread = "tick" /\ lock = "free"
  /\ IF owned /\ (leader = "zombie" \/ truncated)
       THEN lock' = "thread" /\ thread' = "signal"
       ELSE UNCHANGED lock /\ thread' = "copy"
  /\ saw' = (owned /\ leader = "zombie")
  /\ UNCHANGED <<os, owned, stop, truncated, timedOut, exit, kept,
                 job, caller>>

(* Supervisor::tick: look at the leader and the clock under the mutex, and *)
(* keep it to signal a group that must stop.                               *)
Tick ==
  /\ thread = "tick" /\ lock = "free"
  /\ LET exited  == owned /\ leader = "zombie"
         expired == owned /\ late /\ ~exited
     IN /\ saw' = exited
        /\ timedOut' = (timedOut \/ expired)
        /\ IF exited \/ expired \/ (owned /\ truncated)
             THEN lock' = "thread" /\ thread' = "signal"
             ELSE UNCHANGED lock /\ thread' = "copy"
  /\ UNCHANGED <<os, owned, stop, truncated, exit, kept, job, caller>>

TickSignals ==
  /\ thread = "signal"
  /\ Signal
  /\ lock' = "free"
  /\ thread' = "copy"
  /\ UNCHANGED <<owned, stop, truncated, timedOut, exit, saw, kept,
                 job, caller>>

(* copy_available: some of the pipe goes to the artifact, up to its limit. *)
Copy ==
  /\ thread = "copy"
  /\ \E n \in 1..pipe :
       /\ pipe' = pipe - n
       /\ leaderAt' = IF leaderAt > n THEN leaderAt - n ELSE 0
       /\ kept' = IF kept + n > Limit THEN Limit ELSE kept + n
       /\ truncated' = (truncated \/ kept + n > Limit)
  /\ thread' = "tick"
  /\ UNCHANGED <<group, born, doomed, leader, escaped, late,
                 owned, lock, stop, timedOut, exit, saw, job, caller>>

(* The read finds nothing.                                                 *)
Quiet ==
  /\ thread = "copy" /\ pipe = 0
  /\ thread' = "quiet"
  /\ UNCHANGED <<os, shared, saw, kept, job, caller>>

(* Bug: the leader is looked at after the read.                            *)
BugSettleFresh ==
  /\ thread = "quiet"
  /\ exit' = (exit \/ leader = "zombie")
  /\ thread' = IF stop THEN "done" ELSE "tick"
  /\ UNCHANGED <<os, owned, lock, stop, truncated, timedOut, saw, kept,
                 job, caller>>

(* announce_exit, if this tick saw the leader exited; then stop is looked  *)
(* at.                                                                     *)
Settle ==
  /\ thread = "quiet"
  /\ exit' = (exit \/ saw)
  /\ thread' = IF stop THEN "done" ELSE "tick"
  /\ UNCHANGED <<os, owned, lock, stop, truncated, timedOut, saw, kept,
                 job, caller>>

(* A tick, a write to the artifact or its last sync fails: the thread ends.*)
ThreadFails ==
  /\ thread \in {"tick", "signal", "copy"} \/ (thread = "quiet" /\ stop)
  /\ thread' = "failed"
  /\ lock' = IF thread = "signal" THEN "free" ELSE lock
  /\ UNCHANGED <<os, owned, stop, truncated, timedOut, exit, saw, kept,
                 job, caller>>

-----------------------------------------------------------------------------
(* The task.                                                               *)

(* The wait under way is dropped with the work task, before the cleanup.   *)
Dropped(who) == IF who = "cleanup" THEN "none" ELSE wait

(* An operation, or the call of finish in it, returns to who called it.    *)
Return(who, ok) ==
  /\ pc' = CASE who = "cleanup"        -> "cleaned"
             [] who = "drop" /\ held   -> "over"
             [] OTHER                  -> "idle"
  /\ wait' = CASE who = "subscribe" /\ ok -> "waiting"
               [] who = "wait" /\ ~ok     -> "error"
               [] who = "wait" /\ ok      ->
                    IF state.status = "running" THEN "running" ELSE "ended"
               [] OTHER                   -> Dropped(who)
  /\ cleaned' = IF who = "cleanup" THEN IF ok THEN "ok" ELSE "failed"
                                   ELSE cleaned

Finish(who, cancelled, overdue) ==
  /\ pc' = "lock"
  /\ call' = Call(who, cancelled, overdue)
  /\ wait' = Dropped(who)
  /\ UNCHANGED cleaned

(* Job::spawn.  If its thread cannot be started the job is dropped at once *)
(* and best effort: Drop ignores what finish returns.                      *)
Spawn ==
  /\ pc = "idle" /\ leader = "none"
  /\ leader' = "live" /\ group' = {Leader}
  /\ owned' = TRUE
  /\ \/ /\ thread' = "tick" /\ held' = TRUE
        /\ pc' = "spawned"
        /\ UNCHANGED <<call, wait, cleaned>>
     \/ /\ UNCHANGED <<thread, held>>
        /\ Finish("drop", TRUE, FALSE)
  /\ UNCHANGED <<born, doomed, escaped, pipe, leaderAt, late, lock, stop,
                 truncated, timedOut, exit, saw, kept, closed, cleanupFailed,
                 state, ledger>>

(* The rest of start: the handle is journalled, or that fails.             *)
Started ==
  /\ pc = "spawned"
  /\ ledger' \in {ledger, "running"}
  /\ pc' = "idle"
  /\ UNCHANGED <<os, shared, output, job, call, wait, cleaned>>

(* Bug: only the clock and a full artifact end a job.                      *)
BugDueNoExit == truncated \/ timedOut \/ late

Due == leader = "zombie" \/ truncated \/ timedOut \/ late

(* maintenance, by any operation or between them (operation), before a     *)
(* wait (subscribe), and after it (wait), which the exit event or the      *)
(* wait's own deadline ends.  It fails when another job's finish does.     *)
Maintain(who) ==
  /\ pc = "idle" /\ held
  /\ who = "subscribe" => wait # "waiting"
  /\ who = "wait" => wait = "waiting"
  /\ IF ~closed /\ Due
       THEN Finish(who, FALSE, timedOut \/ (late /\ leader # "zombie"))
       ELSE UNCHANGED call /\ \E ok \in BOOLEAN : Return(who, ok)
  /\ UNCHANGED <<os, shared, output, job, ledger>>

(* Bug: a closed job is taken to be journalled.                            *)
BugClosedIsDone(who) ==
  /\ held
  /\ pc = IF who = "drop" THEN "cleaned" ELSE "idle"
  /\ IF closed THEN UNCHANGED call /\ Return(who, ~cleanupFailed)
               ELSE Finish(who, TRUE, FALSE)
  /\ UNCHANGED <<os, shared, output, job, ledger>>

(* cancel, cleanup, and the drop of the registry after it.  finish refuses *)
(* a job whose output was not confirmed, and leaves a closed one alone,    *)
(* whose handle is journalled again.                                       *)
Stop(who) ==
  /\ held
  /\ pc = IF who = "drop" THEN "cleaned" ELSE "idle"
  /\ \/ ~closed /\ Finish(who, TRUE, FALSE)
     \/ /\ closed /\ (cleanupFailed \/ who = "drop")
        /\ Return(who, ~cleanupFailed) /\ UNCHANGED call
     \/ /\ closed /\ ~cleanupFailed /\ who # "drop"
        /\ pc' = "journal" /\ call' = Call(who, TRUE, FALSE)
        /\ wait' = Dropped(who) /\ UNCHANGED cleaned
  /\ UNCHANGED <<os, shared, output, job, ledger>>

(* finish, under the mutex: signal, and again until no process is left.    *)
Seize ==
  /\ pc = "lock" /\ lock = "free"
  /\ lock' = "task"
  /\ Signal
  /\ pc' = "confirm"
  /\ UNCHANGED <<owned, stop, truncated, timedOut, exit, output, job,
                 call, wait, cleaned, ledger>>

SignalAgain ==
  /\ pc = "confirm"
  /\ Signal
  /\ UNCHANGED <<shared, output, job, caller>>

(* Bug: one signal is taken to be enough.                                  *)
BugConfirmUnseen ==
  /\ pc = "confirm" /\ leader = "zombie"
  /\ owned' = FALSE
  /\ lock' = "free"
  /\ pc' = "reap"
  /\ UNCHANGED <<os, stop, truncated, timedOut, exit, output, job,
                 call, wait, cleaned, ledger>>

(* confirm_group_exit: the process id is given up before it is reaped.     *)
Confirm ==
  /\ pc = "confirm" /\ group = {}
  /\ owned' = FALSE
  /\ lock' = "free"
  /\ pc' = "reap"
  /\ UNCHANGED <<os, stop, truncated, timedOut, exit, output, job,
                 call, wait, cleaned, ledger>>

(* The group outlives its two seconds, or cannot be signalled or observed. *)
Unconfirmed ==
  /\ pc = "confirm"
  /\ lock' = "free"
  /\ Return(call.who, FALSE)
  /\ UNCHANGED <<os, owned, stop, truncated, timedOut, exit, output, job,
                 call, ledger>>

(* Bug: the output thread is not asked to stop.                            *)
BugReapNoStop ==
  /\ pc = "reap"
  /\ leader' = "reaped"
  /\ closed' = TRUE /\ cleanupFailed' = TRUE
  /\ pc' = "join"
  /\ UNCHANGED <<group, born, doomed, escaped, pipe, leaderAt, late,
                 shared, output, held, state, call, wait, cleaned, ledger>>

Reap ==
  /\ pc = "reap"
  /\ leader' = "reaped"
  /\ closed' = TRUE /\ cleanupFailed' = TRUE
  /\ stop' = TRUE
  /\ pc' = "join"
  /\ UNCHANGED <<group, born, doomed, escaped, pipe, leaderAt, late,
                 owned, lock, truncated, timedOut, exit, output, held, state,
                 call, wait, cleaned, ledger>>

(* close_output, record_exit and the exit event.                           *)
Join ==
  /\ pc = "join"
  /\ thread \in {"done", "none"}
  /\ cleanupFailed' = FALSE
  /\ state' = [status    |-> IF call.cancelled THEN "cancelled" ELSE "exited",
               truncated |-> truncated,
               timedOut  |-> call.timedOut \/ timedOut]
  /\ exit' = TRUE
  /\ IF call.who = "drop"
       THEN Return("drop", TRUE)
       ELSE pc' = "journal" /\ UNCHANGED <<wait, cleaned>>
  /\ UNCHANGED <<os, owned, lock, stop, truncated, timedOut, output, held,
                 closed, call, ledger>>

(* The thread failed, or the artifact cannot be synced.                    *)
JoinFails ==
  /\ pc = "join"
  /\ thread \in {"done", "none", "failed"}
  /\ Return(call.who, FALSE)
  /\ UNCHANGED <<os, shared, output, job, call, ledger>>

(* journal.handle; the operation returns.                                  *)
Journal ==
  /\ pc = "journal"
  /\ \/ ledger' = state.status /\ Return(call.who, TRUE)
     \/ UNCHANGED ledger /\ Return(call.who, FALSE)
  /\ UNCHANGED <<os, shared, output, job, call>>

(* The executor dies; the group lives on.                                  *)
Crash ==
  /\ leader # "none" /\ pc # "crashed"
  /\ pc' = "crashed"
  /\ thread' = "dead"
  /\ lock' = "free"
  /\ wait' = "none"
  /\ UNCHANGED <<os, owned, stop, truncated, timedOut, exit, saw, kept, job,
                 call, cleaned, ledger>>

Next ==
  \/ Write \/ Expire
  \/ \E m \in Members : Fork(m) \/ Escape(m)
  \/ \E p \in Members \cup {Leader} : Die(p)
  \/ Tick \/ TickSignals \/ Copy \/ Quiet \/ Settle \/ ThreadFails
  \/ Spawn \/ Started
  \/ \E who \in {"operation", "subscribe", "wait"} : Maintain(who)
  \/ \E who \in {"cancel", "cleanup", "drop"} : Stop(who)
  \/ Seize \/ SignalAgain \/ Confirm \/ Unconfirmed \/ Reap
  \/ Join \/ JoinFails \/ Journal
  \/ Crash

Spec == Init /\ [][Next]_vars

(* Killed processes die, time passes, both threads are scheduled and get   *)
(* the mutex, and a wait has a deadline.  Nothing makes the task maintain  *)
(* or clean up a job.                                                      *)
Fairness ==
  /\ \A p \in Members \cup {Leader} : WF_vars(p \in doomed /\ Die(p))
  /\ WF_vars(Expire)
  /\ WF_vars(Tick) /\ WF_vars(TickSignals)
  /\ WF_vars(Copy) /\ WF_vars(Quiet) /\ WF_vars(Settle)
  /\ SF_vars(Maintain("wait"))
  /\ SF_vars(Seize) /\ WF_vars(SignalAgain) /\ WF_vars(Confirm)
  /\ WF_vars(Reap) /\ WF_vars(Join \/ JoinFails) /\ WF_vars(Journal)

FairSpec == Spec /\ Fairness

-----------------------------------------------------------------------------
(* The group is signalled only under the mutex and while its leader is not *)
(* reaped, so its process id cannot have been given to anyone else, however*)
(* the output thread's tick and the task's finish interleave.              *)
SignalsOwnGroup ==
  /\ thread = "signal" => lock = "thread" /\ leader \in {"live", "zombie"}
  /\ pc = "confirm" => lock = "task" /\ leader \in {"live", "zombie"}

(* A job that is reported as ended has no process left, forks that joined  *)
(* during the kill included, and nothing more will be in its artifact; the *)
(* journal says so only of such a job, also after a crash.                 *)
EndedIsOver ==
  /\ state.status # "running" =>
       /\ group = {} /\ leader = "reaped"
       /\ thread \in {"none", "done", "dead"}
       /\ state.truncated = truncated
  /\ ledger \in {"exited", "cancelled"} =>
       group = {} /\ leader = "reaped" /\ ledger = state.status

(* The exit event of a job that is not closed yet means what its comment   *)
(* says: the leader exited and all it wrote is in the artifact.            *)
ExitIsDrained ==
  exit /\ ~closed => leader = "zombie" /\ leaderAt = 0

(* A job whose exit was announced in time does not time out later, however *)
(* late the task gets to it.                                               *)
SeenExitIsNoTimeout ==
  [][exit /\ ~timedOut =>
       /\ ~timedOut'
       /\ pc = "idle" /\ pc' = "lock" => ~call'.timedOut]_vars

(* A wait that ends after the exit was announced does not report a running *)
(* process, unless an earlier cleanup of the job failed.                   *)
WaitSeesExit ==
  [][wait = "waiting" /\ wait' = "running" => ~exit \/ cleanupFailed]_vars

(* A cleanup that is confirmed leaves no process and an accurate journal,  *)
(* whatever failed before it: a kill, a write, a journal entry.            *)
CleanedIsGone ==
  held /\ cleaned = "ok" =>
    group = {} /\ leader = "reaped" /\ ledger = state.status
           /\ ledger # "running"

(* The deadline stops the group although nobody maintains the job, as long *)
(* as the job has its output thread.                                       *)
DeadlineKills ==
  late /\ group # {} ~> (group = {} \/ thread \in {"none", "failed", "dead"})

(* A wait returns, whatever the job and the calls before it do, unless a   *)
(* descendant left the group with the pipe open.                           *)
WaitReturns == wait = "waiting" ~> (wait # "waiting" \/ escaped)

(* What the README says of bash.wait and bash.run: they return when the    *)
(* process exits, fails or reaches its timeout.                            *)
BashReturns == wait = "waiting" ~> wait # "waiting"

(* The artifact of a command that exited in time and below the limit has   *)
(* everything its shell wrote.                                             *)
OutputKept ==
  state.status = "exited" /\ ~state.timedOut /\ ~state.truncated => leaderAt = 0
=============================================================================
