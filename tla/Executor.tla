------------------------------ MODULE Executor ------------------------------
(***************************************************************************)
(* The native executor's work task (cli/sikaru/compute_runtime.rs): it     *)
(* establishes authority, takes the operations the service issues, runs    *)
(* at most MaxInFlight of them at once, journals and delivers a receipt    *)
(* for each, reconnects when the connection is lost, and ends.             *)
(*                                                                         *)
(* One task drives everything (struct Work), so its position is one value, *)
(* mode; beside it move the waits of the running operations, the service,  *)
(* and whatever ends the run: the select! in run may drop the task at any  *)
(* of its awaits.  The ledger is here a durable map that changes one       *)
(* record at a time; module Journal is shown to be one (module Ledger).    *)
(*                                                                         *)
(* Left out: delays, and the local lease.  A lease that expires ends the   *)
(* run as End does: the heartbeat, ensure_lease and lease_expiry agree.    *)
(*                                                                         *)
(* A definition whose name starts with Bug is a broken variant of the one  *)
(* it precedes; no specification uses it.                                  *)
(***************************************************************************)
EXTENDS Naturals, Sequences, FiniteSets, Functions

CONSTANTS
  Keys,         \* operation identities, "run_id/tool_call_id"
  Receipts,     \* receipts an operation can end with
  MaxInFlight,  \* MAX_IN_FLIGHT
  MaxRefusals,  \* MAX_REFUSALS
  MaxServes,    \* bound on executor processes over one journal
  None          \* Option::None

VARIABLES
  mode,      \* where the work task is
  goal,      \* why it drains or re-establishes authority
  page,      \* operations (or receipts to replay) of the page still in hand
  sending,   \* the delivery in progress, or None
  completing,\* complete: "no"; "deliver", its own delivery; then how that
             \* was settled, while the queue is looked at
  link,      \* the channel of a channel session: open, lost or ended
  running,   \* keys of Work.running
  joined,    \* those of them a repeat delivery joined
  finished,  \* those of them whose wait is over
  queue,     \* Work.queued
  refusals,  \* Work.refusals
  doubt,     \* operations a reconciliation reports as uncertain
  intents,   \* ledger: operations with an intent
  receipt,   \* ledger: receipt[k], or None
  acked,     \* ledger: operations with an acknowledged receipt
  issued,    \* service: operations it has put in a work page
  outcome,   \* result of the run that ended last
  serves,    \* history: executor processes started
  owed,      \* history: owed[k]: answers the service still waits for
  effects,   \* history: effects[k]: times the effect of k happened
  answers    \* history: answers[k]: receipts the service was handed for k

work    == <<running, joined, finished, queue, refusals>>
ledger  == <<intents, receipt, acked>>
history == <<issued, serves, effects, answers>>
loop    == <<completing, link>>
vars    == <<mode, goal, page, sending, loop, work, doubt,
             ledger, history, outcome, owed>>

Serving   == {"poll", "page", "idle", "channel", "pushed", "drain"}
Authority == {"connect", "survey", "replay", "report", "ready"}
Modes     == {"down", "ended"} \cup Serving \cup Authority
Goals     == {"prepare", "work", "done", "recover", "capture", "recapture"}
Outcomes  == {"none", "done", "cancelled", "recovery_required"}

(* A delivery: the receipt's key, the route, whether this attempt reached  *)
(* the service, and whether the receipt is delivered once more after it.   *)
Deliveries ==
  [key : Keys, via : {"channel", "http"}, got : BOOLEAN, again : BOOLEAN]

ASSUME ExecutorAssumption ==
  /\ MaxInFlight \in Nat \ {0}
  /\ MaxRefusals \in Nat \ {0}
  /\ MaxServes \in Nat
  /\ None \notin Receipts \cup Deliveries

Delivery(k, again) ==
  [key |-> k, via |-> IF mode \in {"channel", "pushed"} /\ link = "open"
                        THEN "channel" ELSE "http",
   got |-> FALSE, again |-> again]

(* The task is in its own loop: no delivery, no completion in progress.     *)
AtLoop == sending = None /\ completing = "no"

(* Bug: one operation more than the bound.                                 *)
BugOneMore == Cardinality(running) <= MaxInFlight

HasRoom == Cardinality(running) < MaxInFlight

Uncertain == {k \in intents : receipt[k] = None}

(* The future is dropped: nothing of the task's state outlives it.         *)
Forget ==
  /\ page' = {} /\ doubt' = {}
  /\ sending' = None
  /\ completing' = "no"
  /\ link' = "ended"
  /\ running' = {} /\ joined' = {} /\ finished' = {}
  /\ queue' = <<>>
  /\ refusals' = [k \in Keys |-> 0]
  /\ owed' = [k \in Keys |-> 0]

-----------------------------------------------------------------------------
Init ==
  /\ mode = "down" /\ goal = "prepare"
  /\ page = {} /\ doubt = {}
  /\ sending = None
  /\ completing = "no"
  /\ link = "ended"
  /\ running = {} /\ joined = {} /\ finished = {}
  /\ queue = <<>>
  /\ refusals = [k \in Keys |-> 0]
  /\ intents = {}
  /\ receipt = [k \in Keys |-> None]
  /\ acked = {}
  /\ issued = {}
  /\ outcome = "none"
  /\ serves = 0
  /\ owed = [k \in Keys |-> 0]
  /\ effects = [k \in Keys |-> 0]
  /\ answers = [k \in Keys |-> {}]

(* serve_with_options up to prepare: Journal::open_verified refuses a      *)
(* ledger with an uncertain effect.                                        *)
Serve ==
  /\ mode = "down"
  /\ serves < MaxServes
  /\ Uncertain = {}
  /\ mode' = "connect" /\ goal' = "prepare"
  /\ serves' = serves + 1
  /\ outcome' = "none"
  /\ Forget
  /\ UNCHANGED <<ledger, issued, effects, answers>>

-----------------------------------------------------------------------------
(* prepare, reconnect and the reconciliation of a capture.                 *)

Connect ==
  /\ mode = "connect"
  /\ mode' = "survey"
  /\ UNCHANGED <<goal, page, sending, loop, work, doubt, ledger,
                 history, outcome, owed>>

(* Bug: only receipts of issued operations are replayed.                   *)
BugReplayIssuedOnly ==
  /\ mode = "survey"
  /\ \E listed \in SUBSET issued :
       /\ doubt' = {k \in listed : receipt[k] = None}
       /\ page' = {k \in listed : receipt[k] # None}
  /\ mode' = "replay"
  /\ UNCHANGED <<goal, sending, loop, work, ledger,
                 history, outcome, owed>>

(* The page reconcile polls: listed are its issued_operations.  Those      *)
(* without a receipt are uncertain; receipts not acknowledged, and those   *)
(* of listed operations, are to be replayed.                               *)
Survey ==
  /\ mode = "survey"
  /\ \E listed \in SUBSET issued :
       /\ doubt' = {k \in listed : receipt[k] = None}
       /\ page' = {k \in Keys : /\ receipt[k] # None
                                /\ k \notin acked \/ k \in listed}
  /\ mode' = "replay"
  /\ UNCHANGED <<goal, sending, loop, work, ledger,
                 history, outcome, owed>>

Replay(k) ==
  /\ mode = "replay" /\ sending = None
  /\ k \in page
  /\ sending' = Delivery(k, FALSE)
  /\ UNCHANGED <<mode, goal, page, loop, work, doubt, ledger,
                 history, outcome, owed>>

(* transport.submit answers, Recorded or Refused: both are acknowledged.   *)
Replayed ==
  /\ mode = "replay" /\ sending # None
  /\ sending.got
  /\ acked' = acked \cup {sending.key}
  /\ page' = page \ {sending.key}
  /\ sending' = None
  /\ UNCHANGED <<mode, goal, loop, work, doubt, intents, receipt,
                 history, outcome, owed>>

AllReplayed ==
  /\ mode = "replay" /\ sending = None
  /\ page = {}
  /\ mode' = "report"
  /\ UNCHANGED <<goal, page, sending, loop, work, doubt, ledger,
                 history, outcome, owed>>

(* The service has the report; it held no doubt and no lost process.       *)
Report ==
  /\ mode = "report"
  /\ doubt = {}
  /\ mode' = IF goal \in {"capture", "recapture"} THEN "ended" ELSE "ready"
  /\ UNCHANGED <<goal, page, sending, loop, work, doubt, ledger,
                 history, outcome, owed>>

Ready ==
  /\ mode = "ready"
  /\ mode' = "poll" /\ goal' = "work"
  /\ UNCHANGED <<page, sending, loop, work, doubt, ledger,
                 history, outcome, owed>>

(* recover: a transient failure of any of these calls starts them over.    *)
Retry ==
  /\ mode \in Authority /\ goal = "recover"
  /\ mode' = "connect"
  /\ page' = {} /\ doubt' = {}
  /\ sending' = None
  /\ UNCHANGED <<goal, loop, work, ledger, history, outcome, owed>>

(* A capture only tries to reconcile: a failure, an operation in doubt or  *)
(* the end of its time is ignored.                                         *)
CaptureGivesUp ==
  /\ mode \in Authority /\ goal \in {"capture", "recapture"}
  /\ mode' = "ended"
  /\ Forget
  /\ UNCHANGED <<goal, ledger, history, outcome>>
-----------------------------------------------------------------------------
(* The work loop and the service.                                          *)

(* The service puts an operation in a page, which may be lost or replaced  *)
(* by a newer one before the task sees it.                                 *)
Issue(k) ==
  /\ mode \in Serving \cup Authority
  /\ k \notin issued
  /\ issued' = issued \cup {k}
  /\ UNCHANGED <<mode, goal, page, sending, loop, work, doubt, ledger,
                 serves, outcome, owed, effects, answers>>

(* A page with these operations, each issued now or again, is in hand.     *)
TakePage(ops) ==
  /\ page' = ops
  /\ owed' = [k \in Keys |->
       IF k \notin ops \/ k \in Range(queue) \/ owed[k] = 2
         THEN owed[k] ELSE owed[k] + 1]

(* poll: a page of a running turn.                                         *)
PollPage ==
  /\ mode = "poll"
  /\ \E ops \in SUBSET issued : TakePage(ops)
  /\ mode' = "page"
  /\ UNCHANGED <<goal, sending, loop, work, doubt, ledger,
                 history, outcome>>

(* poll: a page that completes the run (completion_after_wait).            *)
PollDone ==
  /\ mode = "poll"
  /\ mode' = "drain" /\ goal' = "done"
  /\ UNCHANGED <<page, sending, loop, work, doubt, ledger,
                 history, outcome, owed>>

(* Bug: authority is re-established before running operations are done.    *)
BugRecoverAtOnce ==
  /\ mode = "poll"
  /\ mode' = "connect" /\ goal' = "recover"
  /\ UNCHANGED <<page, sending, loop, work, doubt, ledger,
                 history, outcome, owed>>

(* poll: the call fails, in whatever way.                                  *)
PollFails ==
  /\ mode = "poll"
  /\ mode' = "drain" /\ goal' = "recover"
  /\ UNCHANGED <<page, sending, loop, work, doubt, ledger,
                 history, outcome, owed>>

(* The page is dispatched.  The channel, if the page selects it: it opens, *)
(* or fails (poll), or is declined in the handshake (idle).  If not, poll  *)
(* at once when receipts were answered and none refused, else idle.        *)
PageServed ==
  /\ mode = "page" /\ AtLoop
  /\ page = {}
  /\ \/ mode' \in {"poll", "idle"} /\ UNCHANGED link
     \/ mode' = "channel" /\ link' = "open"
  /\ UNCHANGED <<goal, page, sending, completing, work, doubt, ledger,
                 history, outcome, owed>>

IdleEnds ==
  /\ mode = "idle" /\ AtLoop
  /\ mode' = "poll"
  /\ UNCHANGED <<goal, page, sending, loop, work, doubt, ledger,
                 history, outcome, owed>>

(* A page pushed over the channel, and the end of its dispatch.            *)
PushedPage ==
  /\ mode = "channel" /\ AtLoop
  /\ link = "open"
  /\ \E ops \in SUBSET issued : TakePage(ops)
  /\ mode' = "pushed"
  /\ UNCHANGED <<goal, sending, loop, work, doubt, ledger,
                 history, outcome>>

PushedServed ==
  /\ mode = "pushed" /\ AtLoop
  /\ page = {}
  /\ mode' = "channel"
  /\ UNCHANGED <<goal, page, sending, completing, link, work, doubt, ledger,
                 history, outcome, owed>>

(* The reader, the writer or the service ends the channel.                 *)
LinkEnds ==
  /\ mode \in {"channel", "pushed"}
  /\ link = "open"
  /\ link' \in {"lost", "ended"}
  /\ UNCHANGED <<mode, goal, page, sending, completing, work, doubt,
                 ledger, history, outcome, owed>>

(* channel_session: a lost channel is recovered from, any other polls.     *)
LeaveChannel ==
  /\ mode = "channel" /\ AtLoop
  /\ link # "open"
  /\ IF link = "lost"
       THEN mode' = "drain" /\ goal' = "recover"
       ELSE mode' = "poll" /\ UNCHANGED goal
  /\ link' = "ended"
  /\ UNCHANGED <<page, sending, completing, work, doubt, ledger,
                 history, outcome, owed>>

(* drain: inflight is empty.                                               *)
Drained ==
  /\ mode = "drain" /\ AtLoop
  /\ running = {}
  /\ IF goal = "done"
       THEN mode' = "ended" /\ outcome' = "done"
       ELSE mode' = "connect" /\ UNCHANGED outcome
  /\ UNCHANGED <<goal, page, sending, loop, work, doubt, ledger,
                 history, owed>>

-----------------------------------------------------------------------------
(* One operation: dispatch, its wait, its receipt, its delivery.           *)

(* Bug: the journal is not asked whether the operation already ran.        *)
BugRunsAgain(k, rest) ==
  /\ k \notin running /\ HasRoom
  /\ intents' = intents \cup {k}
  /\ running' = running \cup {k}
  /\ effects' = [effects EXCEPT ![k] = @ + 1]
  /\ queue' = rest
  /\ UNCHANGED <<joined, sending>>

(* Bug: a repeat of a running operation is dropped.                        *)
BugRepeatDropped(k, rest) ==
  \/ /\ k \in running
     /\ queue' = rest
     /\ UNCHANGED <<running, joined, intents, effects, sending>>
  \/ /\ k \notin running /\ HasRoom
     /\ k \notin intents
     /\ intents' = intents \cup {k}
     /\ running' = running \cup {k}
     /\ effects' = [effects EXCEPT ![k] = @ + 1]
     /\ queue' = rest
     /\ UNCHANGED <<joined, sending>>

(* dispatch and admit, with rest what is left of the queue: a repeat joins *)
(* the running operation, an operation beyond the bound waits, a new one   *)
(* starts behind its intent, one with a receipt is answered from it.  An   *)
(* intent without a receipt would be refused: UncertainIsRunning says that *)
(* there is none here.                                                     *)
Dispatch(k, rest) ==
  \/ /\ k \in running
     /\ joined' = joined \cup {k}
     /\ queue' = rest
     /\ UNCHANGED <<running, intents, effects, sending>>
  \/ /\ k \notin running /\ ~HasRoom
     /\ queue' = IF k \in Range(rest) THEN rest ELSE Append(rest, k)
     /\ UNCHANGED <<running, joined, intents, effects, sending>>
  \/ /\ k \notin running /\ HasRoom
     /\ k \notin intents
     /\ intents' = intents \cup {k}
     /\ running' = running \cup {k}
     /\ effects' = [effects EXCEPT ![k] = @ + 1]
     /\ queue' = rest
     /\ UNCHANGED <<joined, sending>>
  \/ /\ k \notin running /\ HasRoom
     /\ receipt[k] # None
     /\ sending' = Delivery(k, FALSE)
     /\ queue' = rest
     /\ UNCHANGED <<running, joined, intents, effects>>

DispatchPage(k) ==
  /\ mode \in {"page", "pushed"} /\ AtLoop
  /\ k \in page
  /\ page' = page \ {k}
  /\ Dispatch(k, queue)
  /\ UNCHANGED <<mode, goal, loop, finished, refusals, doubt, receipt,
                 acked, issued, serves, outcome, owed, answers>>

(* complete's last loop: the free slots are filled from the queue.         *)
DispatchQueued ==
  /\ completing \in {"recorded", "refused"} /\ sending = None
  /\ queue # <<>> /\ HasRoom
  /\ Dispatch(Head(queue), Tail(queue))
  /\ UNCHANGED <<mode, goal, page, loop, finished, refusals, doubt,
                 receipt, acked, issued, serves, outcome, owed, answers>>

(* The end of complete.  A recorded receipt ends the idle wait.            *)
Filled ==
  /\ completing \in {"recorded", "refused"} /\ sending = None
  /\ queue = <<>> \/ ~HasRoom
  /\ mode' = IF mode = "idle" /\ completing = "recorded" THEN "poll" ELSE mode
  /\ completing' = "no"
  /\ UNCHANGED <<goal, page, sending, link, work, doubt, ledger,
                 history, outcome, owed>>

(* The wait of a running operation is over.                                *)
Finish(k) ==
  /\ k \in running \ finished
  /\ finished' = finished \cup {k}
  /\ UNCHANGED <<mode, goal, page, sending, loop, running, joined,
                 queue, refusals, doubt, ledger, history, outcome, owed>>

(* Bug: the drain does not look at finished operations.                    *)
BugNotInDrain == mode \in {"idle", "channel"} /\ AtLoop

(* Where the loops complete finished operations.                           *)
Completing == mode \in {"idle", "channel", "drain"} /\ AtLoop

(* Bug: a receipt that could not be recorded is delivered all the same.    *)
BugDeliversUnrecorded(k, r) ==
  /\ Completing
  /\ k \in finished
  /\ running' = running \ {k}
  /\ joined' = joined \ {k}
  /\ finished' = finished \ {k}
  /\ sending' = Delivery(k, k \in joined)
  /\ completing' = "deliver"
  /\ UNCHANGED <<mode, goal, page, link, queue, refusals, doubt, ledger,
                 history, outcome, owed>>

(* complete: record the receipt, free the slot, deliver.                   *)
Complete(k, r) ==
  /\ Completing
  /\ k \in finished
  /\ receipt' = [receipt EXCEPT ![k] = r]
  /\ running' = running \ {k}
  /\ joined' = joined \ {k}
  /\ finished' = finished \ {k}
  /\ sending' = Delivery(k, k \in joined)
  /\ completing' = "deliver"
  /\ UNCHANGED <<mode, goal, page, link, queue, refusals, doubt, intents,
                 acked, history, outcome, owed>>

(* complete remembers how its own delivery was settled; the answer to an   *)
(* operation dispatched from a page or the queue changes no state of it.   *)
Settle(submitted) ==
  completing' = IF completing = "deliver" THEN submitted ELSE completing

(* The service receives the receipt; its answer is still to come.          *)
HandOver ==
  /\ sending # None
  /\ ~sending.got
  /\ sending.via = "channel" => link = "open"
  /\ answers' = [answers EXCEPT ![sending.key] = @ \cup {receipt[sending.key]}]
  /\ sending' = [sending EXCEPT !.got = TRUE]
  /\ UNCHANGED <<mode, goal, page, loop, work, doubt, ledger,
                 issued, serves, outcome, owed, effects>>

(* deliver: the receipt is recorded, and acknowledged.  A joined repeat is *)
(* answered by delivering it once more.                                    *)
Recorded ==
  /\ mode \in Serving /\ sending # None
  /\ sending.got
  /\ sending.via = "channel" => link = "open"
  /\ acked' = acked \cup {sending.key}
  /\ refusals' = [refusals EXCEPT ![sending.key] = 0]
  /\ owed' = [owed EXCEPT ![sending.key] = @ - 1]
  /\ IF sending.again
       THEN sending' = Delivery(sending.key, FALSE) /\ UNCHANGED completing
       ELSE sending' = None /\ Settle("recorded")
  /\ UNCHANGED <<mode, goal, page, link, running, joined, finished,
                 queue, doubt, intents, receipt, history, outcome>>

(* A conflict: the service will never record this receipt.  It is settled, *)
(* and counted: settle tolerates fewer than MaxRefusals of them in a row.  *)
Refused ==
  /\ mode \in Serving /\ sending # None
  /\ sending.via = "http" /\ sending.got
  /\ refusals[sending.key] + 1 < MaxRefusals
  /\ acked' = acked \cup {sending.key}
  /\ refusals' = [refusals EXCEPT ![sending.key] = @ + 1]
  /\ owed' = [owed EXCEPT ![sending.key] = 0]
  /\ sending' = None
  /\ Settle("refused")
  /\ UNCHANGED <<mode, goal, page, link, running, joined, finished,
                 queue, doubt, intents, receipt, history, outcome>>

(* The last of MaxRefusals: settle fails the run, after the acknowledgement.*)
RefusedOnceMore ==
  /\ mode \in Serving /\ sending # None
  /\ sending.via = "http" /\ sending.got
  /\ refusals[sending.key] + 1 = MaxRefusals
  /\ acked' = acked \cup {sending.key}
  /\ mode' = "ended"
  /\ outcome' = "recovery_required"
  /\ Forget
  /\ UNCHANGED <<goal, intents, receipt, history>>

(* Not accepted over the channel, which may have ended: the HTTP route.    *)
NotAccepted ==
  /\ sending # None
  /\ sending.via = "channel"
  /\ link' \in IF link = "open" THEN {"open", "lost"} ELSE {link}
  /\ sending' = [sending EXCEPT !.via = "http", !.got = FALSE]
  /\ UNCHANGED <<mode, goal, page, completing, work, doubt, ledger,
                 history, outcome, owed>>

(* deliver_receipt: a transient failure, with the receipt handed over or   *)
(* not.  The replay of a receipt does not try again (see Retry).           *)
Resubmit ==
  /\ mode \in Serving /\ sending # None
  /\ sending.via = "http" /\ sending.got
  /\ sending' = [sending EXCEPT !.got = FALSE]
  /\ UNCHANGED <<mode, goal, page, loop, work, doubt, ledger,
                 history, outcome, owed>>

-----------------------------------------------------------------------------
(* The end of a run.                                                       *)

(* prepare fails, or run's select! drops the task at an await: a signal,   *)
(* the controller or the deadline cancel it; the lease is lost, a receipt  *)
(* cannot be recorded or delivered, authority cannot be re-established.    *)
(* Owned processes are killed (Processes::cleanup).                        *)
End(result) ==
  /\ mode \in Serving \cup Authority
  /\ goal \notin {"capture", "recapture"}
  /\ result \in {"cancelled", "recovery_required"}
  /\ goal = "prepare" => result = "recovery_required"
  /\ mode' = "ended"
  /\ outcome' = result
  /\ Forget
  /\ UNCHANGED <<goal, ledger, history>>

(* run reconciles before it captures the workspace of a completed turn,    *)
(* checkpoint's record once when the service is not quiescent.             *)
Capture ==
  /\ mode = "ended"
  /\ goal \notin {"prepare", "recapture"}
  /\ goal = "capture" => outcome = "done"
  /\ mode' = "survey"
  /\ goal' = IF goal = "capture" THEN "recapture" ELSE "capture"
  /\ UNCHANGED <<page, sending, loop, work, doubt, ledger,
                 history, outcome, owed>>

(* finish and cleanup_outcome: uncertain effects, or a cleanup that either *)
(* side could not confirm, require recovery.                               *)
Close ==
  /\ mode = "ended"
  /\ mode' = "down"
  /\ outcome' \in IF Uncertain = {} THEN {outcome, "recovery_required"}
                                   ELSE {"recovery_required"}
  /\ Forget
  /\ UNCHANGED <<goal, ledger, history>>

Crash ==
  /\ mode # "down"
  /\ mode' = "down"
  /\ outcome' = "none"
  /\ Forget
  /\ UNCHANGED <<goal, ledger, history>>

Next ==
  \/ Serve
  \/ Connect \/ Survey \/ Replayed \/ AllReplayed \/ Report \/ Ready
  \/ Retry \/ CaptureGivesUp
  \/ PollPage \/ PollDone \/ PollFails \/ PageServed \/ IdleEnds
  \/ PushedPage \/ PushedServed \/ LinkEnds \/ LeaveChannel \/ Drained
  \/ DispatchQueued \/ Filled
  \/ HandOver \/ Recorded \/ Refused \/ RefusedOnceMore
  \/ NotAccepted \/ Resubmit
  \/ \E k \in Keys : Issue(k) \/ Replay(k) \/ DispatchPage(k) \/ Finish(k)
  \/ \E k \in Keys, r \in Receipts : Complete(k, r)
  \/ \E result \in Outcomes : End(result)
  \/ Capture \/ Close \/ Crash

Spec == Init /\ [][Next]_vars

(* What liveness rests on.  Waits end (every one has a deadline); the task *)
(* is scheduled; its select! is fair between a timer, the channel and a    *)
(* finished operation.  Of the service: it sooner or later answers a       *)
(* receipt it is handed again and again, and does not keep the task from   *)
(* idling by issuing operations already answered.                          *)
Fairness ==
  /\ \A k \in Keys : WF_vars(Finish(k)) /\ WF_vars(DispatchPage(k))
  /\ \A k \in Keys : SF_vars(\E r \in Receipts : Complete(k, r))
  /\ WF_vars(DispatchQueued) /\ WF_vars(Filled) /\ WF_vars(Drained)
  /\ WF_vars(HandOver) /\ WF_vars(NotAccepted)
  /\ SF_vars(Recorded \/ RefusedOnceMore)
  /\ WF_vars(PollPage \/ PollDone \/ PollFails)
  /\ SF_vars(PageServed /\ mode' # "poll")
  /\ WF_vars(PageServed) /\ WF_vars(PushedServed)

FairSpec == Spec /\ Fairness

-----------------------------------------------------------------------------
Ones(condition) == IF condition THEN 1 ELSE 0

(* The answers still to come for operation k, from what the task holds.    *)
InHand(k) ==
  Ones(mode \in {"page", "pushed"} /\ k \in page)
  + Ones(k \in Range(queue))
  + Ones(k \in running) + Ones(k \in joined)
  + (IF sending # None /\ sending.key = k THEN 1 + Ones(sending.again) ELSE 0)

(* Nothing is dropped: for every time the service issued an operation and  *)
(* waits for its answer (a repeat of a running one counts once more), the  *)
(* task still holds an answer to give, whatever route, queue or repeat the *)
(* operation went through.                                                 *)
EveryIssueInHand == mode \in Serving => \A k \in Keys : owed[k] <= InHand(k)

(* Work in hand waits only for the bound: whenever the task is back in its *)
(* loop, a waiting operation means MAX_IN_FLIGHT operations are running.   *)
QueueOnlyWhenFull ==
  /\ Cardinality(running) <= MaxInFlight
  /\ mode \in Serving /\ AtLoop /\ queue # <<>> =>
       Cardinality(running) = MaxInFlight

(* An effect without a receipt belongs to a running operation for as long  *)
(* as the executor serves, so that intent never has an uncertain entry to  *)
(* refuse; only the end of a run leaves one behind.                        *)
UncertainIsRunning ==
  mode \in Serving \cup Authority /\ goal \notin {"capture", "recapture"} =>
    Uncertain \subseteq running

(* To start or to resume, the executor reports an issued operation as      *)
(* uncertain only if it never ran: the drain before a reconnect and the    *)
(* check at open leave no running or half-done operation to report.        *)
DoubtNeverStarted ==
  mode \in Authority /\ goal \in {"prepare", "recover"} =>
    \A k \in doubt : effects[k] = 0

(* A run reported done has left nothing open: every operation the ledger   *)
(* ever took, of this executor or of one that crashed before it, has its   *)
(* receipt, the service was handed it, and that is acknowledged.           *)
DoneIsSettled ==
  outcome = "done" =>
    /\ Uncertain = {} /\ intents \subseteq acked
    /\ \A k \in intents : answers[k] = {receipt[k]}

(* Across reconnects, repeats, refusals and crashes: one effect and one    *)
(* answer per operation.                                                   *)
Ops == INSTANCE Operations WITH effects <- effects, answers <- answers
Implements == Ops!OpSpec

(* The task uses the ledger as module Ledger lets it: whatever route an    *)
(* operation takes, its intent comes before its receipt, a receipt is      *)
(* recorded once, and only a recorded one is acknowledged.                 *)
L == INSTANCE Ledger
KeepsLedger == L!LedgerSpec

(* Every operation the service issued to a serving executor is answered,   *)
(* or the executor stops serving.                                          *)
IssuesAnswered ==
  \A k \in Keys : owed[k] > 0 ~> (owed[k] = 0 \/ mode \notin Serving)

(* A run that is to end, or to re-establish authority, gets there: running *)
(* operations finish, deliver and fill their slots until none is left.     *)
DrainEnds == mode = "drain" ~> mode # "drain"
=============================================================================
