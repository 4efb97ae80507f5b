------------------------------ MODULE JobProofs ------------------------------
(***************************************************************************)
(* What a job guarantees for every set of processes its command forks, and *)
(* every size of the pipe and the artifact.                                *)
(***************************************************************************)
EXTENDS Job, TLAPS

Types ==
  /\ group \subseteq Members \cup {Leader}
  /\ leader \in {"none", "live", "zombie", "reaped"}
  /\ pipe \in Nat /\ leaderAt \in Nat /\ leaderAt <= pipe
  /\ lock \in {"free", "thread", "task"}
  /\ state.status \in Statuses
  /\ ledger \in Statuses \cup {"none"}

(* Before the job is started there is nothing.                             *)
NothingYet ==
  leader = "none" =>
    /\ group = {} /\ pc = "idle" /\ thread = "none"
    /\ ~held /\ ~closed /\ ~owned /\ ~exit
    /\ cleaned = "no" /\ ledger = "none"

(* The leader leads: it is in the group as long as it lives, and a group   *)
(* whose leader is reaped is empty.                                        *)
GroupOK ==
  /\ leader = "live" <=> Leader \in group
  /\ leader = "reaped" => group = {}

(* The mutex, and the process id it protects.                              *)
LockOK ==
  /\ lock = "thread" <=> thread = "signal"
  /\ lock = "task" <=> pc = "confirm"
  /\ owned => leader \in {"live", "zombie"}
  /\ thread = "signal" \/ pc = "confirm" => owned
  /\ ~closed /\ leader # "none"
       /\ pc \in {"idle", "spawned", "lock", "confirm", "cleaned"} => owned

(* Where the task is in finish.                                            *)
TaskOK ==
  /\ pc = "reap" => ~owned /\ leader = "zombie" /\ group = {} /\ ~closed
  /\ pc \in {"lock", "confirm"} => ~closed
  /\ pc = "join" => closed /\ cleanupFailed
  /\ pc = "journal" => closed /\ ~cleanupFailed
  /\ pc = "spawned" => ledger = "none"

(* A closed job is over once its output is confirmed.                      *)
ClosedOK ==
  /\ closed <=> leader = "reaped"
  /\ cleanupFailed => closed
  /\ state.status # "running" <=> closed /\ ~cleanupFailed
  /\ state.status # "running" =>
       thread \in {"none", "done", "dead"} /\ state.truncated = truncated

(* What the journal says of a job that is over.                            *)
LedgerOK ==
  /\ ledger \in {"exited", "cancelled"} => ledger = state.status
  /\ held /\ cleaned = "ok" => ledger \in {"exited", "cancelled"}

(* What the thread saw and announced of the leader's exit.                 *)
ExitOK ==
  /\ saw \/ exit => leader \in {"zombie", "reaped"}
  /\ saw /\ thread = "quiet" => leaderAt = 0
  /\ exit /\ ~closed => leaderAt = 0

(* The inductive invariant.                                                *)
IInv ==
  /\ Types /\ NothingYet /\ GroupOK /\ LockOK /\ TaskOK
  /\ ClosedOK /\ LedgerOK /\ ExitOK

-----------------------------------------------------------------------------
LEMMA InitIInv == Init => IInv
BY JobAssumption DEF Init, Call, Callers, Statuses, IInv, Types, NothingYet, GroupOK,
   LockOK, TaskOK, ClosedOK, LedgerOK, ExitOK

LEMMA NextIInv == IInv /\ [Next]_vars => IInv'
<1> SUFFICES ASSUME IInv, [Next]_vars PROVE IInv'
  OBVIOUS
<1> USE JobAssumption
    DEF IInv, Types, NothingYet, GroupOK, LockOK, TaskOK, ClosedOK, LedgerOK,
        ExitOK, Statuses, Callers, os, shared, output, job, caller
<1>1. CASE Write
  BY <1>1 DEF Write
<1>2. CASE Expire
  BY <1>2 DEF Expire
<1>3. CASE Tick
  BY <1>3 DEF Tick
<1>4. CASE TickSignals
  BY <1>4 DEF TickSignals, Signal
<1>5. CASE Copy
  BY <1>5 DEF Copy
<1>6. CASE Quiet
  BY <1>6 DEF Quiet
<1>7. CASE Settle
  BY <1>7 DEF Settle
<1>8. CASE ThreadFails
  BY <1>8 DEF ThreadFails
<1>9. CASE Spawn
  BY <1>9 DEF Spawn, Finish, Dropped, Call
<1>10. CASE Started
  BY <1>10 DEF Started
<1>11. CASE Seize
  BY <1>11 DEF Seize, Signal
<1>12. CASE SignalAgain
  BY <1>12 DEF SignalAgain, Signal
<1>13. CASE Confirm
  BY <1>13 DEF Confirm
<1>14. CASE Unconfirmed
  BY <1>14 DEF Unconfirmed, Return, Dropped
<1>15. CASE Reap
  BY <1>15 DEF Reap
<1>16. CASE Join
  BY <1>16 DEF Join, Return, Dropped
<1>17. CASE JoinFails
  BY <1>17 DEF JoinFails, Return, Dropped
<1>18. CASE Journal
  BY <1>18 DEF Journal, Return, Dropped
<1>19. CASE Crash
  BY <1>19 DEF Crash
<1>20. ASSUME NEW m \in Members, Fork(m) PROVE IInv'
  BY <1>20 DEF Fork
<1>21. ASSUME NEW m \in Members, Escape(m) PROVE IInv'
  BY <1>21 DEF Escape
<1>22. ASSUME NEW p \in Members \cup {Leader}, Die(p) PROVE IInv'
  BY <1>22 DEF Die
<1>23. ASSUME NEW who \in {"operation", "subscribe", "wait"}, Maintain(who) PROVE IInv'
  <2>1. Types'
    BY <1>23 DEF Maintain, Return, Finish, Dropped, Call
  <2>2. NothingYet'
    BY <1>23 DEF Maintain, Return, Finish, Dropped, Call
  <2>3. GroupOK'
    BY <1>23 DEF Maintain, Return, Finish, Dropped, Call
  <2>4. LockOK'
    BY <1>23 DEF Maintain, Return, Finish, Dropped, Call
  <2>5. TaskOK'
    BY <1>23 DEF Maintain, Return, Finish, Dropped, Call
  <2>6. ClosedOK'
    BY <1>23 DEF Maintain, Return, Finish, Dropped, Call
  <2>7. LedgerOK'
    BY <1>23 DEF Maintain, Return, Finish, Dropped, Call
  <2>8. ExitOK'
    BY <1>23 DEF Maintain, Return, Finish, Dropped, Call
  <2> QED
    BY <2>1, <2>2, <2>3, <2>4, <2>5, <2>6, <2>7, <2>8
<1>24. ASSUME NEW who \in {"cancel", "cleanup", "drop"}, Stop(who) PROVE IInv'
  <2>1. Types'
    BY <1>24 DEF Stop, Return, Finish, Dropped, Call
  <2>2. NothingYet'
    BY <1>24 DEF Stop, Return, Finish, Dropped, Call
  <2>3. GroupOK'
    BY <1>24 DEF Stop, Return, Finish, Dropped, Call
  <2>4. LockOK'
    BY <1>24 DEF Stop, Return, Finish, Dropped, Call
  <2>5. TaskOK'
    BY <1>24 DEF Stop, Return, Finish, Dropped, Call
  <2>6. ClosedOK'
    BY <1>24 DEF Stop, Return, Finish, Dropped, Call
  <2>7. LedgerOK'
    BY <1>24 DEF Stop, Return, Finish, Dropped, Call
  <2>8. ExitOK'
    BY <1>24 DEF Stop, Return, Finish, Dropped, Call
  <2> QED
    BY <2>1, <2>2, <2>3, <2>4, <2>5, <2>6, <2>7, <2>8
<1>25. CASE UNCHANGED vars
  BY <1>25 DEF vars
<1> QED
  BY <1>1, <1>2, <1>3, <1>4, <1>5, <1>6, <1>7, <1>8, <1>9, <1>10, <1>11,
     <1>12, <1>13, <1>14, <1>15, <1>16, <1>17, <1>18, <1>19, <1>20,
     <1>21, <1>22, <1>23, <1>24, <1>25 DEF Next

(* The inductive invariant holds in every reachable state, whatever fails  *)
(* and whenever the executor dies.                                         *)
THEOREM JobInvariant == Spec => []IInv
BY InitIInv, NextIInv, PTL DEF Spec

(* The group is signalled only under the mutex and before its leader is    *)
(* reaped (tick, finish, signal_owned_group): its process id cannot belong *)
(* to anyone else.                                                         *)
THEOREM JobSignalsOwnGroup == Spec => []SignalsOwnGroup
<1>1. IInv => SignalsOwnGroup
  BY DEF IInv, Types, LockOK, SignalsOwnGroup
<1> QED
  BY <1>1, JobInvariant, PTL

(* A job that finish reports as ended, or the journal records as ended,    *)
(* has no process left, and its output is settled.                         *)
THEOREM JobEndedIsOver == Spec => []EndedIsOver
<1>1. IInv => EndedIsOver
  BY DEF IInv, Types, GroupOK, ClosedOK, LedgerOK, EndedIsOver
<1> QED
  BY <1>1, JobInvariant, PTL

(* The exit event announces a leader that exited and whose output is in    *)
(* the artifact (copy_output, announce_exit).                              *)
THEOREM JobExitIsDrained == Spec => []ExitIsDrained
<1>1. IInv => ExitIsDrained
  BY DEF IInv, Types, ClosedOK, ExitOK, ExitIsDrained
<1> QED
  BY <1>1, JobInvariant, PTL

(* A cleanup that returns without an error leaves no process and an        *)
(* accurate journal (Processes::cleanup).                                  *)
THEOREM JobCleanedIsGone == Spec => []CleanedIsGone
<1>1. IInv => CleanedIsGone
  BY DEF IInv, Types, GroupOK, ClosedOK, LedgerOK, CleanedIsGone
<1> QED
  BY <1>1, JobInvariant, PTL

(* A job whose exit was announced in time never times out, however late    *)
(* maintain gets to it.                                                    *)
THEOREM JobSeenExitIsNoTimeout == Spec => SeenExitIsNoTimeout
<1> DEFINE A == exit /\ ~timedOut =>
                  /\ ~timedOut'
                  /\ pc = "idle" /\ pc' = "lock" => ~call'.timedOut
<1>1. IInv /\ [Next]_vars => A
  <2> SUFFICES ASSUME IInv, [Next]_vars, exit, ~timedOut
               PROVE  /\ ~timedOut'
                      /\ pc = "idle" /\ pc' = "lock" => ~call'.timedOut
    OBVIOUS
  <2>1. /\ leader \in {"zombie", "reaped"}
        /\ ~closed => leader = "zombie"
        /\ owned => leader = "zombie"
    BY DEF IInv, Types, LockOK, ClosedOK, ExitOK
  <2> USE DEF os, shared, output, job, caller
  <2>2. ASSUME NEW who \in {"operation", "subscribe", "wait"}, Maintain(who)
        PROVE  A
    <3>1. CASE ~closed /\ Due
      <4> DEFINE overdue == timedOut \/ (late /\ leader # "zombie")
      <4>1. ~overdue
        BY <2>1, <3>1
      <4>2. overdue = FALSE
        BY <4>1
      <4>3. call' = [who |-> who, cancelled |-> FALSE, timedOut |-> overdue]
        BY <2>2, <3>1 DEF Maintain, Finish, Call
      <4>4. call'.timedOut = FALSE
        BY <4>2, <4>3
      <4> QED
        BY <4>4, <2>2 DEF Maintain
    <3>2. CASE ~(~closed /\ Due)
      BY <2>2, <3>2 DEF Maintain, Return
    <3> QED
      BY <3>1, <3>2
  <2>3. ASSUME NEW who \in {"cancel", "cleanup", "drop"}, Stop(who)
        PROVE  A
    BY <2>1, <2>3 DEF Stop, Finish, Return, Dropped, Call
  <2>4. CASE Spawn
    BY <2>1, <2>4 DEF Spawn
  <2>5. CASE Tick
    BY <2>1, <2>5 DEF Tick
  <2>6. CASE \/ Write \/ Expire \/ TickSignals \/ Copy \/ Quiet \/ Settle
             \/ ThreadFails \/ Started
             \/ \E m \in Members : Fork(m) \/ Escape(m)
             \/ \E p \in Members \cup {Leader} : Die(p)
    <3>1. timedOut' = timedOut /\ (pc' = pc \/ pc' = "idle")
      BY <2>6 DEF Write, Expire, TickSignals, Signal, Copy, Quiet, Settle,
                  ThreadFails, Started, Fork, Escape, Die
    <3> QED
      BY <3>1
  <2>7. CASE \/ Seize \/ SignalAgain \/ Confirm \/ Unconfirmed \/ Reap
             \/ Join \/ JoinFails \/ Journal \/ Crash
    <3>1. timedOut' = timedOut /\ pc' # "lock"
      BY <2>7 DEF Seize, SignalAgain, Confirm, Unconfirmed, Reap, Join,
                  JoinFails, Journal, Crash, Return
    <3> QED
      BY <3>1
  <2>8. CASE UNCHANGED vars
    BY <2>8 DEF vars
  <2> QED
    BY <2>2, <2>3, <2>4, <2>5, <2>6, <2>7, <2>8 DEF Next
<1> QED
  BY <1>1, JobInvariant, PTL DEF Spec, SeenExitIsNoTimeout

(* A wait that ends after the exit was announced reports the end, unless   *)
(* an earlier cleanup of the job failed (Processes::wait).                 *)
THEOREM JobWaitSeesExit == Spec => WaitSeesExit
<1> DEFINE A == wait = "waiting" /\ wait' = "running" => ~exit \/ cleanupFailed
<1>1. IInv /\ [Next]_vars => A
  <2> SUFFICES ASSUME IInv, [Next]_vars, exit, ~cleanupFailed,
                      wait = "waiting", wait' = "running"
               PROVE  FALSE
    OBVIOUS
  <2>1. /\ closed => state.status # "running"
        /\ ~closed => leader = "zombie"
        /\ pc = "journal" => closed
    BY DEF IInv, Types, TaskOK, ClosedOK, ExitOK
  <2> USE DEF os, shared, output, job, caller
  <2>2. ASSUME NEW who \in {"operation", "subscribe", "wait"}, Maintain(who)
        PROVE  FALSE
    BY <2>1, <2>2 DEF Maintain, Due, Finish, Return, Dropped
  <2>3. ASSUME NEW who \in {"cancel", "cleanup", "drop"}, Stop(who)
        PROVE  FALSE
    BY <2>1, <2>3 DEF Stop, Finish, Return, Dropped
  <2>4. CASE Spawn
    BY <2>1, <2>4 DEF Spawn, Finish, Dropped
  <2>5. CASE \/ Write \/ Expire \/ Tick \/ TickSignals \/ Copy \/ Quiet
             \/ Settle \/ ThreadFails \/ Started
             \/ \E m \in Members : Fork(m) \/ Escape(m)
             \/ \E p \in Members \cup {Leader} : Die(p)
    BY <2>5 DEF Write, Expire, Tick, TickSignals, Signal, Copy, Quiet, Settle,
                ThreadFails, Started, Fork, Escape, Die
  <2>6. CASE \/ Seize \/ SignalAgain \/ Confirm \/ Unconfirmed \/ Reap
             \/ Join \/ JoinFails \/ Journal \/ Crash
    BY <2>1, <2>6 DEF Seize, SignalAgain, Confirm, Unconfirmed, Reap, Join,
                      JoinFails, Journal, Crash, Return, Dropped
  <2>7. CASE UNCHANGED vars
    BY <2>7 DEF vars
  <2> QED
    BY <2>2, <2>3, <2>4, <2>5, <2>6, <2>7 DEF Next
<1> QED
  BY <1>1, JobInvariant, PTL DEF Spec, WaitSeesExit
=============================================================================
