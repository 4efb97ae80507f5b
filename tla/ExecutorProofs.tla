---------------------------- MODULE ExecutorProofs ---------------------------
(***************************************************************************)
(* What the work task guarantees for every set of operations and receipts  *)
(* and every bound.                                                        *)
(***************************************************************************)
EXTENDS Executor, Integers, FiniteSetTheorems, SequenceTheorems, TLAPS

Captures == {"capture", "recapture"}

Types ==
  /\ mode \in Modes /\ goal \in Goals /\ outcome \in Outcomes
  /\ page \subseteq Keys /\ doubt \subseteq Keys
  /\ sending \in Deliveries \cup {None}
  /\ running \subseteq Keys /\ finished \subseteq running
  /\ queue \in Seq(Keys)
  /\ intents \subseteq Keys /\ acked \subseteq Keys
  /\ receipt \in [Keys -> Receipts \cup {None}]
  /\ issued \subseteq Keys
  /\ effects \in [Keys -> Nat]
  /\ answers \in [Keys -> SUBSET Receipts]

(* The ledger knows every effect and every answer.                         *)
LedgerOK ==
  \A k \in Keys :
    /\ effects[k] = IF k \in intents THEN 1 ELSE 0
    /\ receipt[k] # None => k \in intents
    /\ answers[k] \subseteq {receipt[k]}
    /\ k \in acked => receipt[k] # None /\ answers[k] # {}

(* What the task has in hand, against the ledger.                          *)
HandsOK ==
  /\ \A k \in running : k \in intents /\ receipt[k] = None
  /\ mode \notin Serving => running = {} /\ completing = "no"
  /\ sending # None => /\ receipt[sending.key] # None
                       /\ sending.got => answers[sending.key] # {}

(* For what the task may be where it is.                                   *)
GoalOK ==
  /\ mode \in Serving \ {"drain"} => goal = "work"
  /\ mode = "drain" => goal \in {"done", "recover"}
  /\ mode \in {"connect", "ready"} => goal \in {"prepare", "recover"}
  /\ mode \in {"survey", "replay", "report"} =>
       goal \in {"prepare", "recover"} \cup Captures

(* What a reconciliation is about to report and to replay.                 *)
SurveyOK ==
  /\ mode \notin {"replay", "report"} => doubt = {}
  /\ goal \notin Captures => doubt \cap intents = {}
  /\ mode = "replay" => \A k \in page : receipt[k] # None

(* A receipt that is not acknowledged is on its way.                       *)
SettledOK ==
  \A k \in Keys : receipt[k] # None /\ k \notin acked =>
    /\ mode \in Serving => sending # None /\ sending.key = k
    /\ mode = "replay" => k \in page
    /\ mode \notin {"report", "ready"}

DoneOK ==
  outcome = "done" =>
    /\ mode \notin Serving
    /\ mode \in Authority => goal \in Captures
    /\ Uncertain = {} /\ intents \subseteq acked

(* The inductive invariant.                                                *)
IInv ==
  /\ Types /\ LedgerOK /\ HandsOK /\ GoalOK
  /\ UncertainIsRunning
  /\ SurveyOK /\ SettledOK /\ DoneOK

-----------------------------------------------------------------------------
LEMMA InitIInv == Init => IInv
BY ExecutorAssumption DEF Init, IInv, Types, LedgerOK, HandsOK, GoalOK, SurveyOK,
   SettledOK, DoneOK, UncertainIsRunning, Uncertain, Modes, Goals, Outcomes,
   Serving, Authority, Captures, Deliveries

(* A new delivery of operation k has not reached the service.              *)
LEMMA DeliveryFacts ==
  ASSUME NEW k \in Keys, NEW again \in BOOLEAN
  PROVE  /\ Delivery(k, again) \in Deliveries /\ Delivery(k, again) # None
         /\ Delivery(k, again).key = k /\ Delivery(k, again).got = FALSE
<1>1. PICK v \in {"channel", "http"} :
        Delivery(k, again) = [key |-> k, via |-> v, got |-> FALSE, again |-> again]
  BY DEF Delivery
<1>2. [key |-> k, via |-> v, got |-> FALSE, again |-> again] \in Deliveries
  BY DEF Deliveries
<1>3. Delivery(k, again) \in Deliveries
  BY <1>1, <1>2
<1>4. Delivery(k, again) # None
  BY <1>3, ExecutorAssumption
<1>5. Delivery(k, again).key = k /\ Delivery(k, again).got = FALSE
  BY <1>1
<1> QED
  BY <1>3, <1>4, <1>5

(* A delivery that did or did not reach the service is the same delivery.  *)
LEMMA DeliveryMoves ==
  ASSUME NEW d \in Deliveries, NEW got \in BOOLEAN, NEW via \in {"channel", "http"}
  PROVE  /\ d # None /\ d.key \in Keys
         /\ [d EXCEPT !.got = got] \in Deliveries
         /\ [d EXCEPT !.got = got].key = d.key
         /\ [d EXCEPT !.got = got].got = got
         /\ [d EXCEPT !.via = via, !.got = got] \in Deliveries
         /\ [d EXCEPT !.via = via, !.got = got].key = d.key
         /\ [d EXCEPT !.via = via, !.got = got].got = got
<1>1. PICK k \in Keys, v \in {"channel", "http"}, g \in BOOLEAN, a \in BOOLEAN :
        d = [key |-> k, via |-> v, got |-> g, again |-> a]
  BY DEF Deliveries
<1>2. [d EXCEPT !.got = got] = [key |-> k, via |-> v, got |-> got, again |-> a]
  BY <1>1
<1>3. [d EXCEPT !.via = via, !.got = got]
        = [key |-> k, via |-> via, got |-> got, again |-> a]
  <2>1. [d EXCEPT !.via = via] = [key |-> k, via |-> via, got |-> g, again |-> a]
    BY <1>1
  <2>2. [d EXCEPT !.via = via, !.got = got]
          = [[d EXCEPT !.via = via] EXCEPT !.got = got]
    OBVIOUS
  <2>3. ASSUME NEW e, e = [key |-> k, via |-> via, got |-> g, again |-> a]
        PROVE  [e EXCEPT !.got = got]
                 = [key |-> k, via |-> via, got |-> got, again |-> a]
    BY <2>3
  <2> QED
    BY <2>1, <2>2, <2>3, Zenon
<1>4. /\ [d EXCEPT !.got = got] \in Deliveries
      /\ [d EXCEPT !.via = via, !.got = got] \in Deliveries
  <2>1. [key |-> k, via |-> v, got |-> got, again |-> a] \in Deliveries
    BY DEF Deliveries
  <2>2. [key |-> k, via |-> via, got |-> got, again |-> a] \in Deliveries
    BY DEF Deliveries
  <2> QED
    BY <1>2, <1>3, <2>1, <2>2
<1>5. d # None
  BY ExecutorAssumption
<1>6. d.key \in Keys
  BY <1>1
<1>7. /\ [d EXCEPT !.got = got].key = d.key
      /\ [d EXCEPT !.got = got].got = got
  BY <1>1, <1>2
<1>8. /\ [d EXCEPT !.via = via, !.got = got].key = d.key
      /\ [d EXCEPT !.via = via, !.got = got].got = got
  BY <1>1, <1>3
<1> QED
  BY <1>4, <1>5, <1>6, <1>7, <1>8

(* What dispatching operation k changes, from a page or from the queue.    *)
Dispatched(k) ==
  \/ /\ UNCHANGED <<running, intents, effects>>
     /\ \/ sending' = None
        \/ /\ sending' \in Deliveries /\ sending' # None
           /\ sending'.key = k /\ sending'.got = FALSE
           /\ receipt[k] # None
  \/ /\ k \notin intents
     /\ intents' = intents \cup {k}
     /\ running' = running \cup {k}
     /\ effects' = [effects EXCEPT ![k] = @ + 1]
     /\ sending' = None

LEMMA DispatchChanges ==
  ASSUME NEW k \in Keys, NEW rest \in Seq(Keys), sending = None, Dispatch(k, rest)
  PROVE  queue' \in Seq(Keys) /\ Dispatched(k)
<1>1. /\ Delivery(k, FALSE) \in Deliveries /\ Delivery(k, FALSE) # None
      /\ Delivery(k, FALSE).key = k /\ Delivery(k, FALSE).got = FALSE
  BY DeliveryFacts, FALSE \in BOOLEAN
<1>2. queue' \in Seq(Keys)
  <2>1. Append(rest, k) \in Seq(Keys)
    OBVIOUS
  <2>2. queue' = rest \/ queue' = Append(rest, k)
    BY Zenon DEF Dispatch
  <2> QED
    BY <2>1, <2>2
<1>3. Dispatched(k)
  BY <1>1 DEF Dispatch, Dispatched
<1> QED
  BY <1>2, <1>3

LEMMA NextIInv == IInv /\ [Next]_vars => IInv'
<1> SUFFICES ASSUME IInv, [Next]_vars PROVE IInv'
  OBVIOUS
<1> USE ExecutorAssumption
    DEF IInv, Types, LedgerOK, HandsOK, GoalOK, SurveyOK, SettledOK, DoneOK,
        UncertainIsRunning, Uncertain, Modes, Goals, Outcomes, Serving,
        Authority, Captures, ledger, history, work, loop
<1>1. CASE Serve
  BY <1>1 DEF Serve, Forget
<1>2. CASE Connect
  BY <1>2 DEF Connect
<1>3. CASE Survey
  BY <1>3 DEF Survey
<1>4. CASE Replayed
  BY <1>4 DEF Replayed, Deliveries
<1>5. CASE AllReplayed
  BY <1>5 DEF AllReplayed
<1>6. CASE Report
  BY <1>6 DEF Report
<1>7. CASE Ready
  BY <1>7 DEF Ready
<1>8. CASE Retry
  BY <1>8 DEF Retry
<1>9. CASE CaptureGivesUp
  BY <1>9 DEF CaptureGivesUp, Forget
<1>10. CASE PollPage
  BY <1>10 DEF PollPage, TakePage
<1>11. CASE PollDone
  BY <1>11 DEF PollDone
<1>12. CASE PollFails
  BY <1>12 DEF PollFails
<1>13. CASE PageServed
  BY <1>13 DEF PageServed, AtLoop
<1>14. CASE IdleEnds
  BY <1>14 DEF IdleEnds, AtLoop
<1>15. CASE PushedPage
  BY <1>15 DEF PushedPage, TakePage
<1>16. CASE PushedServed
  BY <1>16 DEF PushedServed, AtLoop
<1>17. CASE LinkEnds
  BY <1>17 DEF LinkEnds
<1>18. CASE LeaveChannel
  BY <1>18 DEF LeaveChannel, AtLoop
<1>19. CASE Drained
  BY <1>19 DEF Drained, AtLoop
<1>20. CASE DispatchQueued
  <2> DEFINE k == Head(queue)
             rest == Tail(queue)
  <2>1. sending = None /\ mode \in Serving /\ Dispatch(k, rest)
    BY <1>20 DEF DispatchQueued
  <2>12. k \in Keys /\ rest \in Seq(Keys)
    BY <1>20 DEF DispatchQueued
  <2> HIDE DEF k, rest
  <2>2. UNCHANGED <<mode, goal, page, finished, doubt, receipt, acked, issued, outcome, answers>>
    BY <1>20 DEF DispatchQueued
  <2>3. queue' \in Seq(Keys) /\ Dispatched(k)
    BY <2>1, <2>2, <2>12, DispatchChanges
  <2>4. Types'
    BY <2>1, <2>2, <2>12, <2>3 DEF Dispatched
  <2>5. LedgerOK'
    BY <2>1, <2>2, <2>12, <2>3 DEF Dispatched
  <2>6. HandsOK'
    BY <2>1, <2>2, <2>12, <2>3 DEF Dispatched
  <2>7. GoalOK'
    BY <2>1, <2>2, <2>12, <2>3 DEF Dispatched
  <2>8. UncertainIsRunning'
    BY <2>1, <2>2, <2>12, <2>3 DEF Dispatched
  <2>9. SurveyOK'
    BY <2>1, <2>2, <2>12, <2>3 DEF Dispatched
  <2>10. SettledOK'
    BY <2>1, <2>2, <2>12, <2>3 DEF Dispatched
  <2>11. DoneOK'
    BY <2>1, <2>2, <2>12, <2>3 DEF Dispatched
  <2> QED
    BY <2>4, <2>5, <2>6, <2>7, <2>8, <2>9, <2>10, <2>11
<1>21. CASE Filled
  BY <1>21 DEF Filled
<1>22. CASE HandOver
  <2>1. sending # None /\ sending \in Deliveries /\ sending.key \in Keys
    BY <1>22, DeliveryMoves DEF HandOver
  <2>2. /\ sending' \in Deliveries /\ sending' # None
        /\ sending'.key = sending.key /\ sending'.got = TRUE
    <3>1. sending' = [sending EXCEPT !.got = TRUE]
      BY <1>22 DEF HandOver
    <3>2. sending' \in Deliveries /\ sending'.key = sending.key /\ sending'.got = TRUE
      BY <2>1, <3>1, DeliveryMoves
    <3> QED
      BY <3>2, DeliveryMoves
  <2>3. Types'
    BY <1>22, <2>1, <2>2 DEF HandOver
  <2>4. LedgerOK'
    BY <1>22, <2>1, <2>2 DEF HandOver
  <2>5. HandsOK'
    BY <1>22, <2>1, <2>2 DEF HandOver
  <2>6. GoalOK'
    BY <1>22, <2>1, <2>2 DEF HandOver
  <2>7. UncertainIsRunning'
    BY <1>22, <2>1, <2>2 DEF HandOver
  <2>8. SurveyOK'
    BY <1>22, <2>1, <2>2 DEF HandOver
  <2>9. SettledOK'
    BY <1>22, <2>1, <2>2 DEF HandOver
  <2>10. DoneOK'
    BY <1>22, <2>1, <2>2 DEF HandOver
  <2> QED
    BY <2>3, <2>4, <2>5, <2>6, <2>7, <2>8, <2>9, <2>10
<1>23. CASE Recorded
  <2>1. sending # None /\ sending \in Deliveries /\ sending.key \in Keys
    BY <1>23 DEF Recorded, Deliveries
  <2>0. /\ Delivery(sending.key, FALSE) \in Deliveries
        /\ Delivery(sending.key, FALSE) # None
        /\ Delivery(sending.key, FALSE).key = sending.key
        /\ Delivery(sending.key, FALSE).got = FALSE
    BY <2>1, DeliveryFacts, FALSE \in BOOLEAN
  <2>2. \/ sending' = None
        \/ /\ sending' \in Deliveries /\ sending' # None
           /\ sending'.key = sending.key /\ sending'.got = FALSE
    BY <1>23, <2>1, <2>0 DEF Recorded
  <2>3. Types'
    BY <1>23, <2>1, <2>2 DEF Recorded
  <2>4. LedgerOK'
    BY <1>23, <2>1, <2>2 DEF Recorded
  <2>5. HandsOK'
    BY <1>23, <2>1, <2>2 DEF Recorded
  <2>6. GoalOK'
    BY <1>23, <2>1, <2>2 DEF Recorded
  <2>7. UncertainIsRunning'
    BY <1>23, <2>1, <2>2 DEF Recorded
  <2>8. SurveyOK'
    BY <1>23, <2>1, <2>2 DEF Recorded
  <2>9. SettledOK'
    BY <1>23, <2>1, <2>2 DEF Recorded
  <2>10. DoneOK'
    BY <1>23, <2>1, <2>2 DEF Recorded
  <2> QED
    BY <2>3, <2>4, <2>5, <2>6, <2>7, <2>8, <2>9, <2>10
<1>24. CASE Refused
  BY <1>24 DEF Refused, Deliveries, Settle
<1>25. CASE RefusedOnceMore
  BY <1>25 DEF RefusedOnceMore, Forget, Deliveries
<1>26. CASE NotAccepted
  <2>1. sending # None /\ sending \in Deliveries /\ sending.key \in Keys
    BY <1>26, DeliveryMoves DEF NotAccepted
  <2>2. /\ sending' \in Deliveries /\ sending' # None
        /\ sending'.key = sending.key /\ sending'.got = FALSE
    <3>1. sending' = [sending EXCEPT !.via = "http", !.got = FALSE]
      BY <1>26 DEF NotAccepted
    <3>2. sending' \in Deliveries /\ sending'.key = sending.key /\ sending'.got = FALSE
      BY <2>1, <3>1, DeliveryMoves
    <3> QED
      BY <3>2, DeliveryMoves
  <2>3. Types'
    BY <1>26, <2>1, <2>2 DEF NotAccepted
  <2>4. LedgerOK'
    BY <1>26, <2>1, <2>2 DEF NotAccepted
  <2>5. HandsOK'
    BY <1>26, <2>1, <2>2 DEF NotAccepted
  <2>6. GoalOK'
    BY <1>26, <2>1, <2>2 DEF NotAccepted
  <2>7. UncertainIsRunning'
    BY <1>26, <2>1, <2>2 DEF NotAccepted
  <2>8. SurveyOK'
    BY <1>26, <2>1, <2>2 DEF NotAccepted
  <2>9. SettledOK'
    BY <1>26, <2>1, <2>2 DEF NotAccepted
  <2>10. DoneOK'
    BY <1>26, <2>1, <2>2 DEF NotAccepted
  <2> QED
    BY <2>3, <2>4, <2>5, <2>6, <2>7, <2>8, <2>9, <2>10
<1>27. CASE Resubmit
  <2>1. sending # None /\ sending \in Deliveries /\ sending.key \in Keys
    BY <1>27, DeliveryMoves DEF Resubmit
  <2>2. /\ sending' \in Deliveries /\ sending' # None
        /\ sending'.key = sending.key /\ sending'.got = FALSE
    <3>1. sending' = [sending EXCEPT !.got = FALSE]
      BY <1>27 DEF Resubmit
    <3>2. sending' \in Deliveries /\ sending'.key = sending.key /\ sending'.got = FALSE
      BY <2>1, <3>1, DeliveryMoves
    <3> QED
      BY <3>2, DeliveryMoves
  <2>3. Types'
    BY <1>27, <2>1, <2>2 DEF Resubmit
  <2>4. LedgerOK'
    BY <1>27, <2>1, <2>2 DEF Resubmit
  <2>5. HandsOK'
    BY <1>27, <2>1, <2>2 DEF Resubmit
  <2>6. GoalOK'
    BY <1>27, <2>1, <2>2 DEF Resubmit
  <2>7. UncertainIsRunning'
    BY <1>27, <2>1, <2>2 DEF Resubmit
  <2>8. SurveyOK'
    BY <1>27, <2>1, <2>2 DEF Resubmit
  <2>9. SettledOK'
    BY <1>27, <2>1, <2>2 DEF Resubmit
  <2>10. DoneOK'
    BY <1>27, <2>1, <2>2 DEF Resubmit
  <2> QED
    BY <2>3, <2>4, <2>5, <2>6, <2>7, <2>8, <2>9, <2>10
<1>28. CASE Capture
  BY <1>28 DEF Capture
<1>29. CASE Close
  BY <1>29 DEF Close, Forget
<1>30. CASE Crash
  BY <1>30 DEF Crash, Forget
<1>31. ASSUME NEW k \in Keys, Issue(k) PROVE IInv'
  BY <1>31 DEF Issue
<1>32. ASSUME NEW k \in Keys, Replay(k) PROVE IInv'
  BY <1>32 DEF Replay, Delivery, Deliveries
<1>33. ASSUME NEW k \in Keys, DispatchPage(k) PROVE IInv'
  <2>1. sending = None /\ Dispatch(k, queue) /\ mode \in Serving
    BY <1>33 DEF DispatchPage, AtLoop
  <2>2. UNCHANGED <<mode, goal, finished, doubt, receipt, acked, issued, outcome, answers>>
        /\ page' \subseteq page
    BY <1>33 DEF DispatchPage
  <2>3. queue' \in Seq(Keys) /\ Dispatched(k)
    BY <2>1, <2>2, DispatchChanges
  <2>4. Types'
    BY <2>1, <2>2, <2>3 DEF Dispatched
  <2>5. LedgerOK'
    BY <2>1, <2>2, <2>3 DEF Dispatched
  <2>6. HandsOK'
    BY <2>1, <2>2, <2>3 DEF Dispatched
  <2>7. GoalOK'
    BY <2>1, <2>2, <2>3 DEF Dispatched
  <2>8. UncertainIsRunning'
    BY <2>1, <2>2, <2>3 DEF Dispatched
  <2>9. SurveyOK'
    BY <2>1, <2>2, <2>3 DEF Dispatched
  <2>10. SettledOK'
    BY <2>1, <2>2, <2>3 DEF Dispatched
  <2>11. DoneOK'
    BY <2>1, <2>2, <2>3 DEF Dispatched
  <2> QED
    BY <2>4, <2>5, <2>6, <2>7, <2>8, <2>9, <2>10, <2>11
<1>34. ASSUME NEW k \in Keys, Finish(k) PROVE IInv'
  BY <1>34 DEF Finish
<1>35. ASSUME NEW k \in Keys, NEW r \in Receipts, Complete(k, r) PROVE IInv'
  <2>1. /\ sending = None /\ mode \in Serving /\ k \in running
        /\ receipt[k] = None /\ r # None
    BY <1>35 DEF Complete, Completing, AtLoop
  <2>12. (k \in joined) = TRUE \/ (k \in joined) = FALSE
    BY SMT
  <2>13. sending' = Delivery(k, k \in joined)
    BY <1>35, Zenon DEF Complete
  <2>0. PICK again \in BOOLEAN : sending' = Delivery(k, again)
    BY <2>12, <2>13, Zenon
  <2>2. /\ sending' \in Deliveries /\ sending' # None
        /\ sending'.key = k /\ sending'.got = FALSE
    BY <2>0, DeliveryFacts
  <2>3. Types'
    BY <1>35, <2>1, <2>2 DEF Complete
  <2>4. LedgerOK'
    BY <1>35, <2>1, <2>2 DEF Complete
  <2>5. HandsOK'
    BY <1>35, <2>1, <2>2 DEF Complete
  <2>6. GoalOK'
    BY <1>35, <2>1, <2>2 DEF Complete
  <2>7. UncertainIsRunning'
    BY <1>35, <2>1, <2>2 DEF Complete
  <2>8. SurveyOK'
    BY <1>35, <2>1, <2>2 DEF Complete
  <2>9. SettledOK'
    BY <1>35, <2>1, <2>2 DEF Complete
  <2>10. DoneOK'
    BY <1>35, <2>1, <2>2 DEF Complete
  <2> QED
    BY <2>3, <2>4, <2>5, <2>6, <2>7, <2>8, <2>9, <2>10
<1>36. ASSUME NEW result \in Outcomes, End(result) PROVE IInv'
  BY <1>36 DEF End, Forget
<1>37. CASE UNCHANGED vars
  BY <1>37 DEF vars
<1> QED
  BY <1>1, <1>2, <1>3, <1>4, <1>5, <1>6, <1>7, <1>8, <1>9, <1>10, <1>11, <1>12, <1>13, <1>14, <1>15, <1>16, <1>17, <1>18, <1>19, <1>20, <1>21, <1>22, <1>23, <1>24, <1>25, <1>26, <1>27, <1>28, <1>29, <1>30, <1>31, <1>32, <1>33, <1>34, <1>35, <1>36, <1>37 DEF Next

(* The executor's inductive invariant holds in every reachable state, for   *)
(* any operations, receipts and bounds, whatever ends or crashes a run.    *)
THEOREM ExecutorInvariant == Spec => []IInv
BY InitIInv, NextIInv, PTL DEF Spec

(* While the executor serves, an effect without a receipt belongs to an    *)
(* operation it is still running (dispatch, admit, complete): a reconnect  *)
(* or a repeat never meets an intent nobody answers for.                   *)
THEOREM ExecutorUncertainIsRunning == Spec => []UncertainIsRunning
<1>1. IInv => UncertainIsRunning
  BY DEF IInv
<1> QED
  BY <1>1, ExecutorInvariant, PTL

(* An executor that starts or resumes reports an issued operation as       *)
(* uncertain (reconcile) only if its effect never happened.                *)
THEOREM ExecutorDoubtNeverStarted == Spec => []DoubtNeverStarted
<1>1. IInv => DoubtNeverStarted
  <2> SUFFICES ASSUME IInv, mode \in Authority, goal \in {"prepare", "recover"},
                      NEW k \in doubt
               PROVE  effects[k] = 0
    BY DEF DoubtNeverStarted
  <2>1. k \in Keys /\ k \notin intents
    BY DEF IInv, Types, SurveyOK, Captures
  <2> QED
    BY <2>1 DEF IInv, LedgerOK
<1> QED
  BY <1>1, ExecutorInvariant, PTL

(* A run that ends done leaves nothing open in the ledger: every intent,   *)
(* of this executor or an earlier one, has a receipt that the service was  *)
(* handed and that is acknowledged (drain, replay_receipts, finish).       *)
THEOREM ExecutorDoneIsSettled == Spec => []DoneIsSettled
<1>1. IInv => DoneIsSettled
  <2> SUFFICES ASSUME IInv, outcome = "done" PROVE DoneIsSettled
    BY DEF DoneIsSettled
  <2>1. Uncertain = {} /\ intents \subseteq acked
    BY DEF IInv, DoneOK
  <2>2. ASSUME NEW k \in intents PROVE answers[k] = {receipt[k]}
    <3>1. k \in Keys /\ k \in acked
      BY <2>1 DEF IInv, Types
    <3>2. answers[k] \subseteq {receipt[k]} /\ answers[k] # {}
      BY <3>1 DEF IInv, LedgerOK
    <3> QED
      BY <3>2
  <2> QED
    BY <2>1, <2>2 DEF DoneIsSettled
<1> QED
  BY <1>1, ExecutorInvariant, PTL

-----------------------------------------------------------------------------
(* Dispatching an operation executes it for the first time, or has no      *)
(* effect the outside world sees.                                          *)
LEMMA DispatchOps ==
  ASSUME IInv, NEW k \in Keys, Dispatched(k), answers' = answers,
         ~UNCHANGED <<effects, answers>>
  PROVE  Ops!OpNext
<1>1. k \notin intents /\ effects' = [effects EXCEPT ![k] = @ + 1]
  BY DEF Dispatched
<1>2. effects[k] = 0
  BY <1>1 DEF IInv, LedgerOK
<1>3. effects' = [effects EXCEPT ![k] = 1]
  BY <1>1, <1>2 DEF IInv, Types
<1>4. Ops!Execute(k)
  BY <1>2, <1>3 DEF Ops!Execute
<1> QED
  BY <1>4 DEF Ops!OpNext

(* A step of the executor is a step of module Operations or changes        *)
(* nothing the outside world sees.                                         *)
LEMMA NextOps == IInv /\ [Next]_vars => [Ops!OpNext]_<<effects, answers>>
<1>1. SUFFICES ASSUME IInv, [Next]_vars,
                      ~UNCHANGED <<effects, answers>>
               PROVE  Ops!OpNext
  OBVIOUS
<1>2. DispatchQueued \/ HandOver \/ \E k \in Keys : DispatchPage(k)
  BY <1>1 DEF Next, vars, history, Serve, Connect, Survey, Replay, Replayed,
       AllReplayed, Report, Ready, Retry, CaptureGivesUp, Issue, PollPage,
       PollDone, PollFails, PageServed, IdleEnds, PushedPage, PushedServed,
       LinkEnds, LeaveChannel, Drained, Filled, Finish, Complete, Recorded,
       Refused, RefusedOnceMore, NotAccepted, Resubmit, End, Capture, Close,
       Crash
<1>3. CASE DispatchQueued
  <2> DEFINE k == Head(queue)
             rest == Tail(queue)
  <2>1. sending = None /\ Dispatch(k, rest) /\ answers' = answers
    BY <1>3 DEF DispatchQueued
  <2>2. k \in Keys /\ rest \in Seq(Keys)
    BY <1>1, <1>3 DEF DispatchQueued, IInv, Types
  <2> HIDE DEF k, rest
  <2>3. Dispatched(k)
    BY <2>1, <2>2, DispatchChanges
  <2> QED
    BY <1>1, <2>1, <2>2, <2>3, DispatchOps
<1>4. CASE HandOver
  <2> DEFINE k == sending.key
  <2>1. sending # None /\ k \in Keys
    BY <1>1, <1>4 DEF HandOver, IInv, Types, Deliveries
  <2>2. /\ answers' = [answers EXCEPT ![k] = @ \cup {receipt[k]}]
        /\ UNCHANGED effects
    BY <1>4 DEF HandOver
  <2>3. receipt[k] # None /\ receipt[k] \in Receipts
    BY <1>1, <2>1 DEF IInv, Types, HandsOK
  <2>4. effects[k] = 1 /\ answers[k] \subseteq {receipt[k]}
    BY <1>1, <2>1, <2>3 DEF IInv, LedgerOK
  <2>5. answers' = [answers EXCEPT ![k] = {receipt[k]}]
    BY <2>2, <2>4
  <2>6. Ops!Answer(k, receipt[k])
    BY <2>2, <2>4, <2>5 DEF Ops!Answer
  <2> QED
    BY <2>1, <2>3, <2>6 DEF Ops!OpNext
<1>5. ASSUME NEW k \in Keys, DispatchPage(k) PROVE Ops!OpNext
  <2>1. /\ sending = None /\ Dispatch(k, queue) /\ answers' = answers
        /\ queue \in Seq(Keys)
    BY <1>1, <1>5 DEF DispatchPage, AtLoop, IInv, Types
  <2>2. Dispatched(k)
    BY <2>1, DispatchChanges
  <2> QED
    BY <1>1, <2>1, <2>2, DispatchOps
<1> QED
  BY <1>2, <1>3, <1>4, <1>5

(* The executor keeps the promise of module Operations across reconnects,  *)
(* repeats, refusals and crashes: one effect and one answer for each       *)
(* operation.                                                              *)
THEOREM ExecutorImplements == Spec => Implements
<1>1. Init => Ops!OpInit
  BY DEF Init, Ops!OpInit
<1> QED
  BY <1>1, NextOps, ExecutorInvariant, PTL
     DEF Spec, Implements, Ops!OpSpec, Ops!opVars

-----------------------------------------------------------------------------
(* Nothing the service waits for is dropped, and nothing waits but for the *)
(* bound.                                                                  *)

(* What the task holds of operation k besides the page.                    *)
Rest(k) ==
  Ones(k \in Range(queue)) + Ones(k \in running) + Ones(k \in joined)
  + (IF sending # None /\ sending.key = k THEN 1 + Ones(sending.again) ELSE 0)
Paged(k) == mode \in {"page", "pushed"} /\ k \in page

HandTypes ==
  /\ owed \in [Keys -> Int] /\ \A k \in Keys : owed[k] <= 2
  /\ joined \subseteq running /\ IsFiniteSet(running)
  /\ completing \in {"no", "deliver", "recorded", "refused"}

(* Where the task may be when it delivers or completes, and that it leaves *)
(* its loop with empty hands.                                              *)
LoopOK ==
  /\ sending # None => mode \in (Serving \ {"poll"}) \cup {"replay"}
  /\ completing # "no" => mode \in {"idle", "channel", "drain"}
  /\ mode \notin Serving => queue = <<>> /\ \A k \in Keys : owed[k] <= 0

(* The queue is empty or the bound is reached, also while the answer to an *)
(* operation of the page is delivered.                                     *)
BoundOK ==
  /\ Cardinality(running) <= MaxInFlight
  /\ mode \in Serving /\ completing = "no" /\ queue # <<>> =>
       Cardinality(running) = MaxInFlight

(* A repeat of a waiting operation is not counted, for it will be dropped. *)
CoverOK ==
  \A k \in Keys :
    /\ mode \in Serving => owed[k] <= Ones(Paged(k)) + Rest(k)
    /\ Paged(k) /\ k \in Range(queue) => owed[k] <= Rest(k)

HInv == HandTypes /\ LoopOK /\ BoundOK /\ CoverOK

LEMMA InitHInv == Init => HInv
<1> SUFFICES ASSUME Init PROVE HInv
  OBVIOUS
<1>1. /\ queue = <<>> /\ running = {} /\ joined = {} /\ mode = "down"
      /\ sending = None /\ completing = "no" /\ owed = [k \in Keys |-> 0]
  BY DEF Init
<1>2. IsFiniteSet(running) /\ Cardinality(running) = 0
  BY <1>1, FS_EmptySet
<1> QED
  BY <1>1, <1>2, ExecutorAssumption
  DEF HInv, HandTypes, LoopOK, BoundOK, CoverOK, Paged, Serving

(* What is in hand is on the page, or it is not.                           *)
LEMMA InHandIs ==
  ASSUME NEW k
  PROVE  /\ InHand(k) = Ones(Paged(k)) + Rest(k)
         /\ Rest(k) \in Nat /\ Ones(Paged(k)) \in {0, 1}
BY DEF InHand, Rest, Paged, Ones

LEMMA OnesFacts == Ones(TRUE) = 1 /\ Ones(FALSE) = 0
BY DEF Ones

(* The queue under its two operations.                                     *)
LEMMA QueueRange ==
  ASSUME NEW q \in Seq(Keys), NEW k \in Keys
  PROVE  /\ Range(Append(q, k)) = Range(q) \cup {k}
         /\ q # <<>> => Range(q) = Range(Tail(q)) \cup {Head(q)}
         /\ q = <<>> => Range(q) = {}
<1>1. Range(Append(q, k)) = Range(q) \cup {k}
  <2>1. /\ DOMAIN Append(q, k) = 1..(Len(q) + 1) /\ DOMAIN q = 1..Len(q)
        /\ Len(q) \in Nat /\ Append(q, k)[Len(q) + 1] = k
        /\ \A i \in 1..Len(q) : Append(q, k)[i] = q[i]
    BY AppendProperties, LenProperties
  <2>2. \A i \in 1..(Len(q) + 1) : i \in 1..Len(q) \/ i = Len(q) + 1
    BY <2>1
  <2>3. 1..Len(q) \subseteq 1..(Len(q) + 1) /\ Len(q) + 1 \in 1..(Len(q) + 1)
    BY <2>1
  <2> QED BY <2>1, <2>2, <2>3, Zenon DEF Range
<1>2. ASSUME q # <<>> PROVE Range(q) = Range(Tail(q)) \cup {Head(q)}
  <2>1. /\ DOMAIN q = 1..Len(q) /\ Len(q) \in Nat \ {0} /\ Head(q) = q[1]
        /\ DOMAIN Tail(q) = 1..(Len(q) - 1)
        /\ \A i \in 1..(Len(q) - 1) : Tail(q)[i] = q[i + 1]
    BY <1>2, HeadTailProperties, EmptySeq, LenProperties
  <2>2. ASSUME NEW x \in Range(q) PROVE x \in Range(Tail(q)) \cup {Head(q)}
    <3>1. PICK i \in 1..Len(q) : x = q[i]
      BY <2>1 DEF Range
    <3>2. CASE i = 1
      BY <2>1, <3>1, <3>2
    <3>3. CASE i # 1
      <4>1. i - 1 \in 1..(Len(q) - 1) /\ (i - 1) + 1 = i
        BY <2>1, <3>3
      <4>2. Tail(q)[i - 1] = q[(i - 1) + 1]
        BY <2>1, <4>1
      <4>3. Tail(q)[i - 1] = q[i]
        BY <4>1, <4>2
      <4> QED BY <2>1, <3>1, <4>1, <4>3 DEF Range
    <3> QED BY <3>2, <3>3
  <2>3. ASSUME NEW x \in Range(Tail(q)) PROVE x \in Range(q)
    <3>1. PICK i \in 1..(Len(q) - 1) : x = Tail(q)[i]
      BY <2>1 DEF Range
    <3>2. x = q[i + 1] /\ i + 1 \in 1..Len(q)
      BY <2>1, <3>1
    <3> QED BY <2>1, <3>2 DEF Range
  <2>4. Head(q) \in Range(q)
    BY <2>1 DEF Range
  <2> QED BY <2>2, <2>3, <2>4
<1>3. q = <<>> => Range(q) = {}
  BY DEF Range
<1> QED BY <1>1, <1>2, <1>3

(* The task drops everything, and its state is that of an executor to be.  *)
LEMMA ForgetHInv ==
  ASSUME IInv', Forget, mode' \notin Serving
  PROVE  HInv'
<1>1. /\ queue' = <<>> /\ running' = {} /\ joined' = {}
      /\ sending' = None /\ completing' = "no"
      /\ owed' = [k \in Keys |-> 0]
  BY DEF Forget
<1>2. IsFiniteSet(running') /\ Cardinality(running') = 0
  BY <1>1, FS_EmptySet
<1> QED
  BY <1>1, <1>2, ExecutorAssumption
  DEF HInv, HandTypes, LoopOK, BoundOK, CoverOK, Paged, Serving

(* A step that does not serve: nothing is in hand.                         *)
LEMMA OutsideHInv ==
  ASSUME IInv, HInv, mode \notin Serving, mode' \notin Serving,
         UNCHANGED <<owed, queue, running, joined, completing>>,
         sending' = None \/ mode' = "replay"
  PROVE  HInv'
BY DEF IInv, HandsOK, HInv, HandTypes, LoopOK, BoundOK, CoverOK, Paged,
       Serving

(* A step that takes nothing in hand, and answers nothing.                 *)
LEMMA InsideHInv ==
  ASSUME IInv, HInv, mode \in Serving, mode' \in Serving,
         UNCHANGED <<owed, queue, running, joined, sending>>,
         \A k \in Keys : Paged(k)' <=> Paged(k),
         sending' # None => mode' # "poll",
         completing' # "no" => mode' \in {"idle", "channel", "drain"},
         \/ completing' = completing
         \/ completing' = "no" /\ (queue = <<>> \/ ~HasRoom)
  PROVE  HInv'
<1>1. \A k \in Keys : Rest(k)' = Rest(k) /\ Ones(Paged(k))' = Ones(Paged(k))
  BY DEF Rest, Ones
<1>2. CoverOK'
  BY <1>1 DEF HInv, CoverOK
<1>3. BoundOK'
  <2>1. Cardinality(running) \in Nat
    BY FS_CardinalityType DEF HInv, HandTypes
  <2> QED BY <2>1, ExecutorAssumption DEF HInv, BoundOK, HasRoom
<1>4. HandTypes' /\ LoopOK'
  BY DEF HInv, HandTypes, LoopOK, Serving
<1> QED BY <1>2, <1>3, <1>4 DEF HInv

(* A page in hand: an operation counts once more, unless it waits already  *)
(* or a repeat has joined it.                                              *)
LEMMA TakePageHInv ==
  ASSUME IInv, HInv, mode \in {"poll", "channel"}, AtLoop,
         NEW ops \in SUBSET issued, TakePage(ops),
         mode' \in {"page", "pushed"},
         UNCHANGED <<queue, running, joined, sending, completing>>
  PROVE  HInv'
<1>1. /\ page' = ops /\ ops \subseteq Keys /\ owed \in [Keys -> Int]
      /\ sending = None /\ completing = "no"
  BY DEF TakePage, IInv, Types, HInv, HandTypes, AtLoop
<1>2. owed' \in [Keys -> Int]
  BY <1>1 DEF TakePage
<1>3. ASSUME NEW k \in Keys
      PROVE  /\ owed'[k] <= 2
             /\ owed'[k] <= Ones(Paged(k)') + Rest(k)
             /\ Paged(k)' /\ k \in Range(queue) => owed'[k] <= Rest(k)
  <2>1. ~Paged(k) /\ owed[k] <= 2 /\ owed[k] \in Int
    BY <1>1 DEF Paged, HInv, HandTypes
  <2>2. owed[k] <= Rest(k) /\ Rest(k) \in Nat
    BY <2>1, InHandIs DEF HInv, CoverOK, Serving, Ones
  <2>3. Paged(k)' <=> k \in ops
    BY <1>1 DEF Paged
  <2>4. CASE k \notin ops \/ k \in Range(queue) \/ owed[k] = 2
    <3>1. owed'[k] = owed[k]
      BY <2>4 DEF TakePage
    <3> QED BY <2>1, <2>2, <3>1 DEF Ones
  <2>5. CASE ~(k \notin ops \/ k \in Range(queue) \/ owed[k] = 2)
    <3>1. owed'[k] = owed[k] + 1
      BY <2>5 DEF TakePage
    <3>2. Ones(Paged(k)') = 1
      BY <2>3, <2>5 DEF Ones
    <3> QED BY <2>1, <2>2, <2>5, <3>1, <3>2
  <2> QED BY <2>4, <2>5
<1>4. \A k \in Keys : Rest(k)' = Rest(k)
  BY DEF Rest, Ones
<1>5. CoverOK'
  BY <1>3, <1>4 DEF CoverOK, Ones
<1>6. HandTypes' /\ LoopOK' /\ BoundOK'
  BY <1>1, <1>2, <1>3 DEF HInv, HandTypes, LoopOK, BoundOK, Serving
<1> QED BY <1>5, <1>6 DEF HInv

(* The run starts serving, or its loop is drained, with empty hands.       *)
LEMMA EmptyHInv ==
  ASSUME IInv, HInv, sending = None, completing = "no", queue = <<>>,
         running = {}, ~(mode \in {"page", "pushed"}), mode' \notin {"page", "pushed"},
         UNCHANGED <<owed, queue, running, joined, completing, sending>>
  PROVE  HInv'
<1>1. joined = {} /\ Cardinality(running) = 0
  BY FS_EmptySet DEF HInv, HandTypes
<1>2. ASSUME NEW k \in Keys
      PROVE  owed[k] <= 0 /\ owed[k] \in Int /\ Rest(k) = 0 /\ Rest(k)' = 0
  <2>0. Range(queue) = {} /\ Range(queue') = {}
    BY QueueRange DEF IInv, Types
  <2>1. Rest(k) = 0 /\ Rest(k)' = 0
    BY <1>1, <2>0 DEF Rest, Ones
  <2>2. Ones(Paged(k)) = 0
    BY DEF Paged, Ones
  <2>3. mode \in Serving => owed[k] <= 0
    BY <2>1, <2>2 DEF HInv, CoverOK
  <2> QED BY <2>1, <2>3 DEF HInv, HandTypes, LoopOK
<1>3. CoverOK'
  BY <1>2 DEF CoverOK, Paged, Ones
<1>4. HandTypes' /\ BoundOK'
  BY DEF HInv, HandTypes, BoundOK
<1>5. LoopOK'
  BY <1>2 DEF HInv, LoopOK
<1> QED BY <1>3, <1>4, <1>5 DEF HInv

(* A dispatched operation joins a running one, waits, starts, or is        *)
(* answered: it is in hand as before.                                      *)
LEMMA DispatchHInv ==
  ASSUME IInv, HInv, NEW k \in Keys, NEW rest \in Seq(Keys), Dispatch(k, rest),
         sending = None, UNCHANGED <<mode, completing, owed>>,
         \/ /\ Paged(k) /\ completing = "no"
            /\ rest = queue /\ page' = page \ {k}
         \/ /\ mode \in {"idle", "channel", "drain"} /\ completing # "no"
            /\ HasRoom /\ queue # <<>> /\ page' = page
            /\ k = Head(queue) /\ rest = Tail(queue)
  PROVE  HInv'
<1> DEFINE S == Cardinality(running)
<1>0. /\ mode \in Serving /\ mode # "poll" /\ mode' = mode
      /\ queue \in Seq(Keys) /\ S \in Nat /\ S <= MaxInFlight
      /\ MaxInFlight \in Nat
      /\ joined \subseteq running
      /\ IsFiniteSet(running)
  BY FS_CardinalityType, ExecutorAssumption
     DEF Serving, Paged, IInv, Types, HInv, HandTypes, BoundOK
<1>q. /\ queue # <<>> => Range(queue) = Range(Tail(queue)) \cup {Head(queue)}
      /\ queue = <<>> => Range(queue) = {}
      /\ Range(Append(rest, k)) = Range(rest) \cup {k}
  BY <1>0, QueueRange
<1>1. ASSUME NEW j \in Keys, j # k
      PROVE  /\ j \in Range(rest) <=> j \in Range(queue)
             /\ Paged(j)' <=> Paged(j)
  <2>1. j \in Range(rest) <=> j \in Range(queue)
    BY <1>q, <1>1, Zenon
  <2>2. j \in page' <=> j \in page
    BY <1>1
  <2> QED BY <1>0, <2>1, <2>2 DEF Paged
<1>2. ~Paged(k)'
  BY <1>0 DEF Paged
<1>3. /\ owed[k] \in Int /\ owed[k] <= 2
      /\ owed[k] <= Ones(Paged(k)) + Rest(k)
      /\ Paged(k) /\ k \in Range(queue) => owed[k] <= Rest(k)
      /\ Rest(k) = Ones(k \in Range(queue)) + Ones(k \in running) + Ones(k \in joined)
  <2>1. owed[k] \in Int /\ owed[k] <= 2
    BY DEF HInv, HandTypes
  <2>2. /\ owed[k] <= Ones(Paged(k)) + Rest(k)
        /\ Paged(k) /\ k \in Range(queue) => owed[k] <= Rest(k)
    BY <1>0 DEF HInv, CoverOK
  <2>3. Rest(k) = Ones(k \in Range(queue)) + Ones(k \in running) + Ones(k \in joined)
    BY DEF Rest, Ones
  <2> QED BY <2>1, <2>2, <2>3
<1>4. \/ Ones(Paged(k)) + Ones(k \in Range(queue)) <= Ones(k \in Range(rest)) + 1
      \/ Paged(k) /\ k \in Range(queue) /\ rest = queue
  <2> DEFINE x == Ones(Paged(k))
             y == Ones(k \in Range(queue))
             z == Ones(k \in Range(rest))
  <2>0. /\ x \in {0, 1} /\ y \in {0, 1} /\ z \in {0, 1}
        /\ ~Paged(k) => x = 0
        /\ k \notin Range(queue) => y = 0
    BY DEF Ones
  <2>1. (Paged(k) /\ rest = queue) \/ ~Paged(k)
    BY DEF Paged
  <2>2. CASE Paged(k) /\ rest = queue /\ k \in Range(queue)
    BY <2>2
  <2>3. CASE ~Paged(k) \/ k \notin Range(queue)
    <3>1. x = 0 \/ y = 0
      BY <2>0, <2>3
    <3> HIDE DEF x, y, z
    <3>2. x + y <= z + 1
      BY <2>0, <3>1
    <3> QED BY <3>2, Zenon DEF x, y, z
  <2> QED BY <2>1, <2>2, <2>3
<1>5. ASSUME \A j \in Keys : j # k => Rest(j)' = Rest(j),
             owed[k] <= Rest(k)'
      PROVE  CoverOK'
  <2> SUFFICES ASSUME NEW j \in Keys
               PROVE  /\ mode' \in Serving => owed'[j] <= Ones(Paged(j)') + Rest(j)'
                      /\ Paged(j)' /\ j \in Range(queue') => owed'[j] <= Rest(j)'
    BY DEF CoverOK, Ones
  <2>1. CASE j = k
    <3>1. Ones(Paged(j)') = 0
      BY <1>2, <2>1 DEF Ones
    <3>2. Rest(j)' \in Nat
      BY DEF Rest, Ones
    <3> QED BY <1>2, <1>5, <2>1, <3>1, <3>2
  <2>2. CASE j # k
    <3>1. Paged(j) /\ j \in Range(queue') => j \in Range(queue)
      <4>1. queue' = rest \/ queue' = Append(rest, k)
        BY Zenon DEF Dispatch
      <4>2. j \in Range(Append(rest, k)) => j \in Range(rest)
        BY <1>q, <2>2, Zenon
      <4> QED BY <1>1, <2>2, <4>1, <4>2, Zenon
    <3> QED BY <1>0, <1>1, <1>5, <2>2, <3>1 DEF HInv, CoverOK, Ones
  <2> QED BY <2>1, <2>2
<1>6. LoopOK'
  BY <1>0 DEF HInv, LoopOK, Paged, Serving
<1>7. CASE k \in running /\ joined' = joined \cup {k} /\ queue' = rest
           /\ UNCHANGED <<running, sending>>
  <2>1. \A j \in Keys : j # k => Rest(j)' = Rest(j)
    BY <1>1, <1>7 DEF Rest, Ones
  <2>2. Rest(k)' = Ones(k \in Range(rest)) + 2
    BY <1>7 DEF Rest, Ones
  <2>3. owed[k] <= Rest(k)'
    BY <1>3, <2>2 DEF Ones
  <2>4. HandTypes'
    BY <1>7 DEF HInv, HandTypes
  <2>5. BoundOK'
    BY <1>7 DEF HInv, BoundOK
  <2> QED BY <1>5, <1>6, <2>1, <2>3, <2>4, <2>5 DEF HInv
<1>8. CASE /\ k \notin running /\ ~HasRoom
           /\ queue' = IF k \in Range(rest) THEN rest ELSE Append(rest, k)
           /\ UNCHANGED <<running, joined, sending>>
  <2>1. rest = queue /\ Paged(k)
    BY <1>8
  <2>2. Range(queue') = Range(queue) \cup {k}
    BY <1>0, <1>8, <2>1, QueueRange
  <2>3. \A j \in Keys : j # k => Rest(j)' = Rest(j)
    BY <1>8, <2>2 DEF Rest, Ones
  <2>4. Rest(k)' = 1 + Ones(k \in running) + Ones(k \in joined)
    BY <1>8, <2>2 DEF Rest, Ones
  <2>5. owed[k] <= Rest(k)'
    BY <1>3, <2>1, <2>4 DEF Ones
  <2>6. HandTypes'
    BY <1>8 DEF HInv, HandTypes
  <2>7. BoundOK'
    BY <1>0, <1>8 DEF HInv, BoundOK, HasRoom
  <2> QED BY <1>5, <1>6, <2>3, <2>5, <2>6, <2>7 DEF HInv
<1>9. ASSUME HasRoom, Paged(k)
      PROVE  rest = <<>> /\ queue = <<>>
  BY <1>0, <1>9 DEF HInv, BoundOK, HasRoom, Paged
<1>10. HasRoom => Ones(Paged(k)) + Ones(k \in Range(queue)) <= Ones(k \in Range(rest)) + 1
  BY <1>0, <1>4, <1>9, QueueRange
<1>11. HasRoom /\ completing = "no" => rest = <<>>
  BY <1>0, <1>9
<1>12. CASE /\ k \notin running /\ HasRoom
            /\ running' = running \cup {k} /\ queue' = rest
            /\ UNCHANGED <<joined, sending>>
  <2>1. \A j \in Keys : j # k => Rest(j)' = Rest(j)
    BY <1>1, <1>12 DEF Rest, Ones
  <2>2. Rest(k)' = Ones(k \in Range(rest)) + 1 + Ones(k \in joined)
    BY <1>12 DEF Rest, Ones
  <2>3. owed[k] <= Rest(k)'
    BY <1>3, <1>10, <1>12, <2>2 DEF Ones
  <2>4. IsFiniteSet(running') /\ Cardinality(running') = S + 1
    BY <1>0, <1>12, FS_AddElement
  <2>5. HandTypes'
    BY <1>12, <2>4 DEF HInv, HandTypes
  <2>6. BoundOK'
    BY <1>0, <1>11, <1>12, <2>4 DEF HInv, BoundOK, HasRoom
  <2> QED BY <1>5, <1>6, <2>1, <2>3, <2>5, <2>6 DEF HInv
<1>13. CASE /\ k \notin running /\ HasRoom
            /\ sending' = Delivery(k, FALSE) /\ queue' = rest
            /\ UNCHANGED <<running, joined>>
  <2>1. sending' # None /\ sending'.key = k
    BY <1>13, DeliveryFacts, FALSE \in BOOLEAN
  <2>2. \A j \in Keys : j # k => Rest(j)' = Rest(j)
    BY <1>1, <1>13, <2>1 DEF Rest, Ones
  <2>3. Rest(k)' >= Ones(k \in Range(rest)) + 1 + Ones(k \in running) + Ones(k \in joined)
    <3>1. Ones(sending'.again) \in Nat
      BY DEF Ones
    <3>2. Rest(k)' = Ones(k \in Range(rest)) + Ones(k \in running)
                      + Ones(k \in joined) + (1 + Ones(sending'.again))
      BY <1>13, <2>1, Zenon DEF Rest
    <3> QED BY <3>1, <3>2 DEF Ones
  <2>4. Rest(k)' \in Nat
    BY DEF Rest, Ones
  <2>5. owed[k] <= Rest(k)'
    BY <1>3, <1>10, <1>13, <2>3, <2>4 DEF Ones
  <2>6. HandTypes'
    BY <1>13 DEF HInv, HandTypes
  <2>7. BoundOK'
    BY <1>0, <1>11, <1>13 DEF HInv, BoundOK, HasRoom
  <2> QED BY <1>5, <1>6, <2>2, <2>5, <2>6, <2>7 DEF HInv
<1> QED BY <1>7, <1>8, <1>12, <1>13 DEF Dispatch

(* What a delivery counts for: one answer, or two if it is made once more. *)
LEMMA DeliveryCounts ==
  ASSUME NEW k \in Keys, NEW again \in BOOLEAN
  PROVE  Ones(Delivery(k, again).again) = Ones(again)
<1>1. PICK v \in {"channel", "http"} :
        Delivery(k, again) = [key |-> k, via |-> v, got |-> FALSE, again |-> again]
  BY DEF Delivery
<1>2. [key |-> k, via |-> v, got |-> FALSE, again |-> again].again = again
  BY Zenon
<1> QED BY <1>1, <1>2, Zenon DEF Ones

(* A finished operation gives its place to the delivery of its receipt,    *)
(* which also answers the repeat that joined it: as much is in hand.       *)
LEMMA CompleteRest ==
  ASSUME IInv, NEW k \in Keys, NEW r \in Receipts, Complete(k, r)
  PROVE  \A j \in Keys : Rest(j)' = Rest(j)
<1>1. /\ running' = running \ {k} /\ joined' = joined \ {k}
      /\ sending = None /\ sending' = Delivery(k, k \in joined)
      /\ queue' = queue
  BY DEF Complete, Completing, AtLoop, history, ledger, work, loop
<1>2. k \in running
  BY DEF Complete, IInv, Types
<1>3. sending' # None /\ sending'.key = k
  BY <1>1, DeliveryFacts, (k \in joined) \in BOOLEAN
<1>4. Ones(sending'.again) = Ones(k \in joined)
  BY <1>1, DeliveryCounts, (k \in joined) \in BOOLEAN
<1>5. ASSUME NEW j \in Keys PROVE Rest(j)' = Rest(j)
  <2>1. CASE j = k
    <3>1. Rest(j) = Ones(k \in Range(queue)) + 1 + Ones(k \in joined)
      BY <1>1, <1>2, <2>1 DEF Rest, Ones
    <3>2. Rest(j)' = Ones(k \in Range(queue)) + Ones(k \in running')
                      + Ones(k \in joined') + (1 + Ones(sending'.again))
      BY <1>1, <1>3, <2>1, Zenon DEF Rest
    <3>3. Ones(k \in running') = 0 /\ Ones(k \in joined') = 0
      BY <1>1 DEF Ones
    <3>4. Ones(k \in Range(queue)) \in Nat /\ Ones(k \in joined) \in Nat
      BY DEF Ones
    <3> QED BY <1>4, <3>1, <3>2, <3>3, <3>4
  <2>2. CASE j # k
    BY <1>1, <1>3, <2>2 DEF Rest, Ones
  <2> QED BY <2>1, <2>2
<1> QED BY <1>5

LEMMA CompleteHInv ==
  ASSUME IInv, HInv, NEW k \in Keys, NEW r \in Receipts, Complete(k, r)
  PROVE  HInv'
<1>1. /\ mode \in {"idle", "channel", "drain"} /\ mode' = mode
      /\ sending = None /\ completing = "no" /\ completing' = "deliver"
      /\ running' = running \ {k} /\ joined' = joined \ {k}
      /\ sending' = Delivery(k, k \in joined)
      /\ queue' = queue /\ owed' = owed
  BY DEF Complete, Completing, AtLoop, history, ledger, work, loop
<1>2. k \in running
  BY DEF Complete, IInv, Types
<1>5. \A j \in Keys : Rest(j)' = Rest(j)
  BY CompleteRest
<1>6. \A j \in Keys : ~Paged(j) /\ ~Paged(j)'
  BY <1>1 DEF Paged
<1>7. CoverOK'
  BY <1>1, <1>5, <1>6 DEF HInv, CoverOK, Ones
<1>8. /\ IsFiniteSet(running') /\ Cardinality(running) \in Nat
      /\ Cardinality(running') = Cardinality(running) - 1
  BY <1>1, <1>2, FS_RemoveElement, FS_CardinalityType DEF HInv, HandTypes
<1>9. HandTypes'
  BY <1>1, <1>8 DEF HInv, HandTypes
<1>10. BoundOK'
  BY <1>1, <1>8, ExecutorAssumption DEF HInv, BoundOK
<1>11. LoopOK'
  BY <1>1 DEF HInv, LoopOK, Serving
<1> QED BY <1>7, <1>9, <1>10, <1>11 DEF HInv

(* A step of the delivery in progress: its operation is owed no more than  *)
(* before, for what is in hand, or it is owed nothing.                     *)
LEMMA DeliveredHInv ==
  ASSUME IInv, HInv, NEW k \in Keys, sending # None, sending.key = k,
         mode \in Serving, UNCHANGED <<mode, page, queue, running, joined>>,
         sending' # None => sending'.key = k,
         \/ completing' = completing
         \/ completing = "deliver" /\ completing' \in {"recorded", "refused"},
         owed' \in [Keys -> Int],
         \A j \in Keys : j # k => owed'[j] = owed[j],
         \/ owed'[k] = 0
         \/ owed'[k] = owed[k] /\ Rest(k)' = Rest(k)
         \/ owed'[k] = owed[k] - 1 /\ Rest(k)' = Rest(k) - 1
  PROVE  HInv'
<1>1. \A j \in Keys : Paged(j)' <=> Paged(j)
  BY DEF Paged
<1>2. \A j \in Keys : j # k => Rest(j)' = Rest(j)
  BY DEF Rest, Ones
<1>3. ASSUME NEW j \in Keys
      PROVE  /\ owed'[j] <= 2
             /\ mode \in Serving => owed'[j] <= Ones(Paged(j)) + Rest(j)'
             /\ Paged(j) /\ j \in Range(queue) => owed'[j] <= Rest(j)'
  <2>1. /\ owed[j] \in Int /\ owed[j] <= 2
        /\ owed[j] <= Ones(Paged(j)) + Rest(j)
        /\ Paged(j) /\ j \in Range(queue) => owed[j] <= Rest(j)
    BY DEF HInv, HandTypes, CoverOK
  <2>2. Ones(Paged(j)) \in Nat /\ Rest(j) \in Nat /\ Rest(j)' \in Nat
    BY DEF Ones, Rest
  <2>3. \/ owed'[j] = 0
        \/ owed'[j] = owed[j] /\ Rest(j)' = Rest(j)
        \/ owed'[j] = owed[j] - 1 /\ Rest(j)' = Rest(j) - 1
    BY <1>2
  <2> QED BY <2>1, <2>2, <2>3
<1>4. CoverOK'
  <2>1. \A j \in Keys : Ones(Paged(j))' = Ones(Paged(j))
    BY <1>1 DEF Ones
  <2> QED BY <1>1, <1>3, <2>1 DEF CoverOK
<1>5. HandTypes'
  BY <1>3 DEF HInv, HandTypes
<1>6. LoopOK' /\ BoundOK'
  BY DEF HInv, LoopOK, BoundOK, Serving
<1> QED BY <1>4, <1>5, <1>6 DEF HInv

(* The delivery goes another way, or its answer is awaited: as much is in  *)
(* hand as before.                                                         *)
LEMMA SendingRest ==
  ASSUME IInv, NEW v \in {"channel", "http"}, NEW g \in BOOLEAN,
         sending # None,
         \/ sending' = [sending EXCEPT !.got = g]
         \/ sending' = [sending EXCEPT !.via = v, !.got = g],
         UNCHANGED <<queue, running, joined>>
  PROVE  /\ sending' # None /\ sending'.key = sending.key /\ sending.key \in Keys
         /\ \A j \in Keys : Rest(j)' = Rest(j)
<1>1. sending \in Deliveries
  BY DEF IInv, Types
<1>2. /\ sending' # None /\ sending'.key = sending.key /\ sending.key \in Keys
  <2>1. ASSUME NEW d \in Deliveries PROVE d # None
    BY DeliveryMoves
  <2>2. CASE sending' = [sending EXCEPT !.got = g]
    BY <1>1, <2>1, <2>2, DeliveryMoves, Zenon
  <2>3. CASE sending' = [sending EXCEPT !.via = v, !.got = g]
    BY <1>1, <2>1, <2>3, DeliveryMoves, Zenon
  <2> QED BY <2>2, <2>3
<1>3. sending'.again = sending.again
  BY <1>1, Zenon DEF Deliveries
<1>4. \A j \in Keys : Rest(j)' = Rest(j)
  BY <1>2, <1>3, Zenon DEF Rest
<1> QED BY <1>2, <1>4

LEMMA SendingHInv ==
  ASSUME IInv, HInv, NEW v \in {"channel", "http"}, NEW g \in BOOLEAN,
         sending # None,
         \/ sending' = [sending EXCEPT !.got = g]
         \/ sending' = [sending EXCEPT !.via = v, !.got = g],
         UNCHANGED <<mode, page, queue, running, joined, completing, owed>>
  PROVE  HInv'
<1>1. /\ sending' # None /\ sending'.key = sending.key /\ sending.key \in Keys
      /\ \A j \in Keys : Rest(j)' = Rest(j)
  BY SendingRest
<1> PICK k \in Keys : k = sending.key
  BY <1>1
<1>5. CASE mode \in Serving
  <2>1. owed' \in [Keys -> Int]
    BY DEF HInv, HandTypes
  <2> QED BY <1>1, <1>5, <2>1, DeliveredHInv
<1>6. CASE mode \notin Serving
  <2>1. mode' = "replay"
    BY <1>6 DEF HInv, LoopOK, Serving
  <2> QED BY <1>6, <2>1, OutsideHInv DEF Serving
<1> QED BY <1>5, <1>6

(* A recorded receipt leaves the hands of the task.                        *)
LEMMA RecordedRest ==
  ASSUME IInv, NEW k \in Keys, sending.key = k, Recorded
  PROVE  Rest(k)' = Rest(k) - 1
<1>1. sending # None /\ sending.again \in BOOLEAN
  BY DEF Recorded, IInv, Types, Deliveries
<1>2. UNCHANGED <<queue, running, joined>>
  BY DEF Recorded
<1> DEFINE R == Ones(k \in Range(queue)) + Ones(k \in running) + Ones(k \in joined)
<1>3. Rest(k) = R + (1 + Ones(sending.again)) /\ R \in Nat
  <2>1. Rest(k) = R + (1 + Ones(sending.again))
    BY <1>1, Zenon DEF Rest
  <2>2. R \in Nat
    BY DEF Ones
  <2> QED BY <2>1, <2>2
<1>4. CASE sending.again
  <2>1. sending' = Delivery(k, FALSE)
    BY <1>4 DEF Recorded
  <2>2. sending' # None /\ sending'.key = k
    BY <2>1, DeliveryFacts, FALSE \in BOOLEAN
  <2>3. Ones(sending'.again) = 0 /\ Ones(sending.again) = 1
    BY <1>1, <1>4, <2>1, DeliveryCounts, FALSE \in BOOLEAN DEF Ones
  <2>4. Rest(k)' = R + (1 + Ones(sending'.again))
    BY <1>2, <2>2, Zenon DEF Rest
  <2> HIDE DEF R
  <2> QED BY <1>3, <2>3, <2>4
<1>5. CASE ~sending.again
  <2>1. sending' = None
    BY <1>5 DEF Recorded
  <2>2. Ones(sending.again) = 0
    BY <1>5, Zenon DEF Ones
  <2>3. Rest(k)' = R + 0
    BY <1>2, <2>1 DEF Rest, Ones
  <2> HIDE DEF R
  <2> QED BY <1>3, <2>2, <2>3
<1> QED BY <1>4, <1>5

LEMMA RecordedHInv ==
  ASSUME IInv, HInv, Recorded
  PROVE  HInv'
<1>1. sending # None /\ sending.key \in Keys
  BY DeliveryMoves DEF Recorded, IInv, Types
<1> PICK k \in Keys : k = sending.key
  BY <1>1
<1>2. /\ mode \in Serving /\ UNCHANGED <<mode, page, queue, running, joined>>
      /\ owed' = [owed EXCEPT ![k] = @ - 1]
  BY DEF Recorded
<1>3. owed \in [Keys -> Int] /\ owed' \in [Keys -> Int] /\ owed'[k] = owed[k] - 1
  BY <1>2 DEF HInv, HandTypes
<1>4. Rest(k)' = Rest(k) - 1
  BY RecordedRest
<1>5. sending' # None => sending'.key = k
  BY DeliveryFacts, FALSE \in BOOLEAN DEF Recorded
<1>6. \/ completing' = completing
      \/ completing = "deliver" /\ completing' \in {"recorded", "refused"}
  BY DEF Recorded, Settle
<1> QED BY <1>1, <1>2, <1>3, <1>4, <1>5, <1>6, DeliveredHInv

LEMMA RefusedHInv ==
  ASSUME IInv, HInv, Refused
  PROVE  HInv'
<1>0. sending # None /\ sending.key \in Keys
  BY DeliveryMoves DEF Refused, IInv, Types
<1> PICK k \in Keys : k = sending.key
  BY <1>0
<1>1. sending # None /\ sending.key = k
  BY <1>0
<1>2. /\ mode \in Serving /\ UNCHANGED <<mode, page, queue, running, joined>>
      /\ owed' = [owed EXCEPT ![k] = 0] /\ sending' = None
      /\ completing' = IF completing = "deliver" THEN "refused" ELSE completing
  BY DEF Refused, Settle
<1>3. owed' \in [Keys -> Int] /\ owed'[k] = 0
  BY <1>1, <1>2 DEF HInv, HandTypes
<1> QED BY <1>1, <1>2, <1>3, DeliveredHInv

LEMMA NextHInv == IInv /\ IInv' /\ HInv /\ [Next]_vars => HInv'
<1> SUFFICES ASSUME IInv, IInv', HInv, [Next]_vars PROVE HInv'
  OBVIOUS
<1> USE DEF work, loop
<1>1. mode \notin Serving => completing = "no" /\ queue = <<>> /\ running = {}
  BY DEF IInv, HandsOK, HInv, LoopOK
<1>2. CASE Serve \/ CaptureGivesUp \/ RefusedOnceMore \/ Close \/ Crash
  BY <1>2, ForgetHInv
     DEF Serve, CaptureGivesUp, RefusedOnceMore, Close, Crash, Serving
<1>3. ASSUME NEW result \in Outcomes, End(result) PROVE HInv'
  BY <1>3, ForgetHInv DEF End, Serving
<1>4. CASE Connect \/ Survey \/ Replayed \/ AllReplayed \/ Report \/ Retry
  <2>1. /\ mode \in Authority /\ mode' \in Authority \cup {"ended"}
        /\ UNCHANGED <<owed, queue, running, joined, completing>>
    BY <1>4 DEF Connect, Survey, Replayed, AllReplayed, Report, Retry, Authority
  <2>2. sending' = None \/ mode' = "replay"
    BY <1>4 DEF Connect, Survey, Replayed, AllReplayed, Report, Retry,
                HInv, LoopOK, Serving
  <2> QED BY <2>1, <2>2, OutsideHInv DEF Authority, Serving
<1>5. CASE Ready
  BY <1>1, <1>5, EmptyHInv DEF Ready, HInv, LoopOK, Serving
<1>6. CASE PollPage
  <2>1. AtLoop
    BY <1>6 DEF PollPage, AtLoop, HInv, LoopOK
  <2> QED BY <1>6, <2>1, TakePageHInv DEF PollPage
<1>7. CASE PushedPage
  BY <1>7, TakePageHInv DEF PushedPage
<1>8. CASE PollDone \/ PollFails \/ IdleEnds
  BY <1>8, InsideHInv
     DEF PollDone, PollFails, IdleEnds, AtLoop, Serving, Paged, HInv, LoopOK
<1>9. CASE PageServed \/ PushedServed
  BY <1>9, InsideHInv DEF PageServed, PushedServed, AtLoop, Serving, Paged
<1>10. CASE LinkEnds \/ LeaveChannel
  BY <1>10, InsideHInv
     DEF LinkEnds, LeaveChannel, AtLoop, Serving, Paged, HInv, LoopOK
<1>11. CASE Drained
  <2>1. queue = <<>>
    <3>1. Cardinality(running) = 0
      BY <1>11, FS_EmptySet DEF Drained
    <3> QED BY <1>11, <3>1, ExecutorAssumption
            DEF Drained, AtLoop, HInv, BoundOK, Serving
  <2> QED BY <1>11, <2>1, EmptyHInv DEF Drained, AtLoop
<1>12. CASE DispatchQueued
  <2>1. completing # "no" /\ mode \in {"idle", "channel", "drain"}
    BY <1>12 DEF DispatchQueued, HInv, LoopOK
  <2>2. Head(queue) \in Keys /\ Tail(queue) \in Seq(Keys)
    BY <1>12 DEF DispatchQueued, IInv, Types
  <2> QED BY <1>12, <2>1, <2>2, DispatchHInv DEF DispatchQueued
<1>13. CASE Filled
  <2>1. /\ completing # "no" /\ sending = None
        /\ completing' = "no" /\ (queue = <<>> \/ ~HasRoom)
        /\ UNCHANGED <<owed, queue, running, joined, sending>>
    BY <1>13 DEF Filled
  <2>2. mode \in {"idle", "channel", "drain"}
    BY <2>1 DEF HInv, LoopOK
  <2>3. mode' \in {"idle", "channel", "drain", "poll"}
    BY <1>13, <2>2 DEF Filled
  <2> QED BY <2>1, <2>2, <2>3, InsideHInv DEF Serving, Paged
<1>14. CASE HandOver \/ NotAccepted \/ Resubmit
  BY <1>14, SendingHInv, TRUE \in BOOLEAN, FALSE \in BOOLEAN
     DEF HandOver, NotAccepted, Resubmit
<1>15. CASE Recorded
  BY <1>15, RecordedHInv
<1>16. CASE Refused
  BY <1>16, RefusedHInv
<1>17. ASSUME NEW k \in Keys, Issue(k) \/ Finish(k) PROVE HInv'
  <2>1. UNCHANGED <<mode, page, owed, queue, running, joined, completing, sending>>
    BY <1>17 DEF Issue, Finish
  <2> QED BY <2>1 DEF HInv, HandTypes, LoopOK, BoundOK, CoverOK, Rest, Paged
<1>18. ASSUME NEW k \in Keys, Replay(k) PROVE HInv'
  BY <1>18, OutsideHInv DEF Replay, Serving
<1>19. ASSUME NEW k \in Keys, DispatchPage(k) PROVE HInv'
  <2>1. Paged(k) /\ sending = None /\ completing = "no" /\ queue \in Seq(Keys)
    BY <1>19 DEF DispatchPage, Paged, AtLoop, IInv, Types
  <2> QED BY <1>19, <2>1, DispatchHInv DEF DispatchPage
<1>20. ASSUME NEW k \in Keys, NEW r \in Receipts, Complete(k, r) PROVE HInv'
  BY <1>20, CompleteHInv
<1>21. CASE Capture
  <2>1. sending = None
    BY <1>21 DEF Capture, HInv, LoopOK, Serving
  <2> QED BY <1>21, <2>1, OutsideHInv DEF Capture, Serving
<1>22. CASE UNCHANGED vars
  BY <1>22 DEF vars, HInv, HandTypes, LoopOK, BoundOK, CoverOK, Rest, Paged
<1> QED
  BY <1>2, <1>3, <1>4, <1>5, <1>6, <1>7, <1>8, <1>9, <1>10, <1>11, <1>12,
     <1>13, <1>14, <1>15, <1>16, <1>17, <1>18, <1>19, <1>20, <1>21, <1>22
  DEF Next

THEOREM ExecutorHandsInvariant == Spec => []HInv
<1>1. IInv /\ HInv /\ [Next]_vars => HInv'
  BY NextIInv, NextHInv
<1> QED
  BY <1>1, InitHInv, ExecutorInvariant, PTL DEF Spec

(* No answer the service waits for is dropped: for every time it issued an *)
(* operation to a serving executor, the task holds an answer to give, on   *)
(* the page, in the queue, in the running operation, in the repeat that    *)
(* joined it, or in the delivery, whatever MAX_IN_FLIGHT is.               *)
THEOREM ExecutorEveryIssueInHand == Spec => []EveryIssueInHand
<1>1. HInv => EveryIssueInHand
  BY InHandIs, Zenon DEF HInv, CoverOK, EveryIssueInHand
<1> QED
  BY <1>1, ExecutorHandsInvariant, PTL

(* No more than MAX_IN_FLIGHT operations run at once, and one that waits   *)
(* while the task is back in its loop waits for a full set of them: admit, *)
(* complete and its refilling loop leave no slot unused.                   *)
THEOREM ExecutorQueueOnlyWhenFull == Spec => []QueueOnlyWhenFull
<1>1. HInv => QueueOnlyWhenFull
  BY DEF HInv, BoundOK, QueueOnlyWhenFull, AtLoop
<1> QED
  BY <1>1, ExecutorHandsInvariant, PTL

-----------------------------------------------------------------------------
(* The task's use of the ledger is that of module Ledger.                  *)

LEMMA AckLedger ==
  ASSUME IInv, sending # None, acked' = acked \cup {sending.key},
         UNCHANGED <<intents, receipt>>
  PROVE  L!LedgerNext
<1>1. sending.key \in Keys /\ receipt[sending.key] # None
  BY DEF IInv, Types, Deliveries, HandsOK
<1>2. L!TakeAck(sending.key)
  BY <1>1 DEF L!TakeAck
<1> QED
  BY <1>1, <1>2 DEF L!LedgerNext

LEMMA DispatchLedger ==
  ASSUME NEW k \in Keys, Dispatched(k), UNCHANGED <<receipt, acked>>,
         ~UNCHANGED intents
  PROVE  L!LedgerNext
<1>1. k \notin intents /\ intents' = intents \cup {k}
  BY DEF Dispatched
<1>2. L!TakeIntent(k)
  BY <1>1 DEF L!TakeIntent
<1> QED
  BY <1>2 DEF L!LedgerNext

LEMMA CompleteLedger ==
  ASSUME IInv, NEW k \in Keys, NEW r \in Receipts, Complete(k, r)
  PROVE  L!LedgerNext
<1>1. k \in running
  BY DEF Complete, IInv, Types
<1>2. k \in intents /\ receipt[k] = None
  BY <1>1 DEF IInv, HandsOK
<1>3. /\ receipt' = [receipt EXCEPT ![k] = r]
      /\ UNCHANGED <<intents, acked>>
  BY DEF Complete
<1>4. L!TakeReceipt(k, r)
  BY <1>2, <1>3 DEF L!TakeReceipt
<1> QED
  BY <1>4 DEF L!LedgerNext

LEMMA NextLedger == IInv /\ [Next]_vars => [L!LedgerNext]_(L!ledgerVars)
<1>1. SUFFICES ASSUME IInv, [Next]_vars, ~UNCHANGED ledger
               PROVE  L!LedgerNext
  BY DEF L!ledgerVars, ledger
<1>2. \/ DispatchQueued \/ Replayed \/ Recorded \/ Refused \/ RefusedOnceMore
      \/ \E k \in Keys : DispatchPage(k)
      \/ \E k \in Keys, r \in Receipts : Complete(k, r)
  BY <1>1 DEF Next, vars, ledger, Serve, Connect, Survey, Replay,
       AllReplayed, Report, Ready, Retry, CaptureGivesUp, Issue, PollPage,
       PollDone, PollFails, PageServed, IdleEnds, PushedPage, PushedServed,
       LinkEnds, LeaveChannel, Drained, Filled, Finish, HandOver,
       NotAccepted, Resubmit, End, Capture, Close, Crash
<1>3. CASE DispatchQueued
  <2> DEFINE k == Head(queue)
             rest == Tail(queue)
  <2>1. sending = None /\ Dispatch(k, rest) /\ UNCHANGED <<receipt, acked>>
    BY <1>3 DEF DispatchQueued
  <2>2. k \in Keys /\ rest \in Seq(Keys)
    BY <1>1, <1>3 DEF DispatchQueued, IInv, Types
  <2> HIDE DEF k, rest
  <2>3. Dispatched(k)
    BY <2>1, <2>2, DispatchChanges
  <2> QED
    BY <1>1, <2>1, <2>2, <2>3, DispatchLedger DEF ledger
<1>4. ASSUME NEW k \in Keys, DispatchPage(k) PROVE L!LedgerNext
  <2>1. /\ sending = None /\ Dispatch(k, queue) /\ UNCHANGED <<receipt, acked>>
        /\ queue \in Seq(Keys)
    BY <1>1, <1>4 DEF DispatchPage, AtLoop, IInv, Types
  <2>2. Dispatched(k)
    BY <2>1, DispatchChanges
  <2> QED
    BY <1>1, <2>1, <2>2, DispatchLedger DEF ledger
<1>5. CASE Replayed \/ Recorded \/ Refused \/ RefusedOnceMore
  <2>1. /\ sending # None /\ acked' = acked \cup {sending.key}
        /\ UNCHANGED <<intents, receipt>>
    BY <1>5 DEF Replayed, Recorded, Refused, RefusedOnceMore
  <2> QED
    BY <1>1, <2>1, AckLedger
<1>6. ASSUME NEW k \in Keys, NEW r \in Receipts, Complete(k, r)
      PROVE  L!LedgerNext
  BY <1>1, <1>6, CompleteLedger
<1> QED
  BY <1>2, <1>3, <1>4, <1>5, <1>6

(* For any operations, slots, processes and crashes, the executor records  *)
(* an intent, then one receipt, then acknowledges it, and asks nothing     *)
(* else of the journal.                                                    *)
THEOREM ExecutorKeepsLedger == Spec => KeepsLedger
<1>1. Init => L!LedgerInit
  BY DEF Init, L!LedgerInit
<1> QED
  BY <1>1, NextLedger, ExecutorInvariant, PTL
     DEF Spec, KeepsLedger, L!LedgerSpec

-----------------------------------------------------------------------------
(* A drain takes no work: the executor that is to end a run, or to         *)
(* re-establish authority, has less and less to do.                        *)

(* A queue that holds no operation twice, under its two operations.        *)
LEMMA QueueOnce ==
  ASSUME NEW q \in Seq(Keys), NEW k \in Keys, IsInjective(q)
  PROVE  /\ k \notin Range(q) => IsInjective(Append(q, k))
         /\ q # <<>> => IsInjective(Tail(q)) /\ Head(q) \notin Range(Tail(q))
<1>1. ASSUME k \notin Range(q) PROVE IsInjective(Append(q, k))
  <2>1. /\ DOMAIN Append(q, k) = 1..(Len(q) + 1) /\ DOMAIN q = 1..Len(q)
        /\ Len(q) \in Nat /\ Append(q, k)[Len(q) + 1] = k
        /\ \A i \in 1..Len(q) : Append(q, k)[i] = q[i]
    BY AppendProperties, LenProperties
  <2>2. \A i \in 1..(Len(q) + 1) : i \in 1..Len(q) \/ i = Len(q) + 1
    BY <2>1
  <2>3. \A i \in 1..Len(q) : q[i] # k
    BY <1>1, <2>1 DEF Range
  <2>4. \A i, j \in 1..Len(q) : q[i] = q[j] => i = j
    BY <2>1 DEF IsInjective
  <2> QED BY <2>1, <2>2, <2>3, <2>4, Zenon DEF IsInjective
<1>2. ASSUME q # <<>>
      PROVE  IsInjective(Tail(q)) /\ Head(q) \notin Range(Tail(q))
  <2>1. /\ DOMAIN q = 1..Len(q) /\ Len(q) \in Nat \ {0} /\ Head(q) = q[1]
        /\ DOMAIN Tail(q) = 1..(Len(q) - 1)
        /\ \A i \in 1..(Len(q) - 1) : Tail(q)[i] = q[i + 1]
    BY <1>2, HeadTailProperties, EmptySeq, LenProperties
  <2>2. \A i, j \in 1..Len(q) : q[i] = q[j] => i = j
    BY <2>1 DEF IsInjective
  <2>3. ASSUME NEW i \in 1..(Len(q) - 1), NEW j \in 1..(Len(q) - 1),
               Tail(q)[i] = Tail(q)[j]
        PROVE  i = j
    <3>1. q[i + 1] = q[j + 1] /\ i + 1 \in 1..Len(q) /\ j + 1 \in 1..Len(q)
      BY <2>1, <2>3
    <3>2. i + 1 = j + 1
      BY <2>2, <3>1
    <3> QED BY <2>1, <3>2
  <2>4. ASSUME NEW i \in 1..(Len(q) - 1) PROVE Tail(q)[i] # Head(q)
    <3>1. i + 1 \in 1..Len(q) /\ 1 \in 1..Len(q) /\ i + 1 # 1
      BY <2>1
    <3>2. q[i + 1] # q[1]
      BY <2>2, <3>1
    <3> QED BY <2>1, <3>2
  <2> QED BY <2>1, <2>3, <2>4 DEF IsInjective, Range
<1> QED BY <1>1, <1>2

QueuedOnce == IsInjective(queue)

LEMMA NoneQueued ==
  ASSUME queue' = <<>>
  PROVE  QueuedOnce'
BY DEF QueuedOnce, IsInjective

LEMMA DispatchQueuedOnce ==
  ASSUME NEW k \in Keys, NEW rest \in Seq(Keys), IsInjective(rest),
         Dispatch(k, rest)
  PROVE  QueuedOnce'
<1>1. \/ queue' = rest
      \/ k \notin Range(rest) /\ queue' = Append(rest, k)
  BY Zenon DEF Dispatch
<1> QED BY <1>1, QueueOnce DEF QueuedOnce

LEMMA NextQueuedOnce == IInv /\ QueuedOnce /\ [Next]_vars => QueuedOnce'
<1> SUFFICES ASSUME IInv, QueuedOnce, [Next]_vars PROVE QueuedOnce'
  OBVIOUS
<1> USE DEF work, loop
<1>1. queue \in Seq(Keys)
  BY DEF IInv, Types
<1>2. CASE Serve \/ CaptureGivesUp \/ RefusedOnceMore \/ Close \/ Crash
  BY <1>2, NoneQueued
     DEF Serve, CaptureGivesUp, RefusedOnceMore, Close, Crash, Forget
<1>3. ASSUME NEW result \in Outcomes, End(result) PROVE QueuedOnce'
  BY <1>3, NoneQueued DEF End, Forget
<1>4. CASE queue' = queue
  BY <1>4 DEF QueuedOnce, IsInjective
<1>5. CASE \/ Connect \/ Survey \/ Replayed \/ AllReplayed \/ Report \/ Ready
           \/ Retry \/ PollPage \/ PollDone \/ PollFails \/ PageServed
           \/ IdleEnds \/ PushedPage \/ PushedServed \/ LinkEnds
           \/ LeaveChannel \/ Drained \/ Filled \/ HandOver \/ Recorded
           \/ Refused \/ NotAccepted \/ Resubmit \/ Capture
  <2>1. CASE Connect \/ Survey \/ Replayed \/ AllReplayed \/ Report \/ Ready
    BY <1>4, <2>1 DEF Connect, Survey, Replayed, AllReplayed, Report, Ready
  <2>2. CASE Retry \/ PollPage \/ PollDone \/ PollFails \/ PageServed \/ IdleEnds
    BY <1>4, <2>2 DEF Retry, PollPage, PollDone, PollFails, PageServed, IdleEnds
  <2>3. CASE PushedPage \/ PushedServed \/ LinkEnds \/ LeaveChannel \/ Drained
    BY <1>4, <2>3 DEF PushedPage, PushedServed, LinkEnds, LeaveChannel, Drained
  <2>4. CASE Filled \/ HandOver \/ Recorded \/ Refused \/ NotAccepted
             \/ Resubmit \/ Capture
    BY <1>4, <2>4 DEF Filled, HandOver, Recorded, Refused, NotAccepted,
                      Resubmit, Capture
  <2> QED BY <1>5, <2>1, <2>2, <2>3, <2>4
<1>6. CASE DispatchQueued
  <2>1. /\ Head(queue) \in Keys /\ Tail(queue) \in Seq(Keys)
        /\ Dispatch(Head(queue), Tail(queue)) /\ queue # <<>>
    BY <1>1, <1>6 DEF DispatchQueued
  <2>2. IsInjective(Tail(queue))
    BY <1>1, <2>1, QueueOnce DEF QueuedOnce
  <2> QED BY <2>1, <2>2, DispatchQueuedOnce
<1>7. ASSUME NEW k \in Keys, Issue(k) \/ Replay(k) \/ Finish(k) PROVE QueuedOnce'
  BY <1>4, <1>7 DEF Issue, Replay, Finish
<1>8. ASSUME NEW k \in Keys, DispatchPage(k) PROVE QueuedOnce'
  BY <1>1, <1>8, DispatchQueuedOnce DEF DispatchPage, QueuedOnce
<1>9. ASSUME NEW k \in Keys, NEW r \in Receipts, Complete(k, r) PROVE QueuedOnce'
  BY <1>4, <1>9 DEF Complete
<1>10. CASE UNCHANGED vars
  BY <1>4, <1>10 DEF vars
<1> QED
  BY <1>2, <1>3, <1>5, <1>6, <1>7, <1>8, <1>9, <1>10 DEF Next

(* An operation dispatched from the queue leaves it: as much is in hand,   *)
(* or less when it repeats a repeat that joined already.                   *)
LEMMA DispatchRest ==
  ASSUME IInv, QueuedOnce, DispatchQueued, NEW j \in Keys
  PROVE  Rest(j)' <= Rest(j)
<1> DEFINE k    == Head(queue)
           rest == Tail(queue)
<1>1. /\ queue \in Seq(Keys) /\ queue # <<>> /\ k \in Keys
      /\ sending = None /\ HasRoom
  BY DEF DispatchQueued, IInv, Types
<1>2. /\ Range(queue) = Range(rest) \cup {k} /\ k \notin Range(rest)
  BY <1>1, QueueRange, QueueOnce DEF QueuedOnce
<1>3. \/ /\ k \in running /\ joined' = joined \cup {k} /\ queue' = rest
         /\ UNCHANGED <<running, sending>>
      \/ /\ k \notin running /\ running' = running \cup {k} /\ queue' = rest
         /\ UNCHANGED <<joined, sending>>
      \/ /\ k \notin running /\ sending' = Delivery(k, FALSE) /\ queue' = rest
         /\ UNCHANGED <<running, joined>>
  BY <1>1, Zenon DEF DispatchQueued, Dispatch
<1>4. Rest(j) = Ones(j \in Range(queue)) + Ones(j \in running) + Ones(j \in joined)
  BY <1>1 DEF Rest, Ones
<1>5. sending' = None \/ /\ sending' = Delivery(k, FALSE)
                         /\ sending' # None /\ sending'.key = k
  BY <1>1, <1>3, DeliveryFacts, FALSE \in BOOLEAN
<1> HIDE DEF k, rest
<1>6. CASE j # k
  <2>1. /\ j \in Range(queue') <=> j \in Range(queue)
        /\ j \in running' <=> j \in running
        /\ j \in joined' <=> j \in joined
    BY <1>2, <1>3, <1>6, Zenon
  <2>2. Rest(j)' = Ones(j \in Range(queue')) + Ones(j \in running')
                    + Ones(j \in joined')
    <3>1. ~(sending' # None /\ sending'.key = j)
      BY <1>5, <1>6, Zenon
    <3>2. Rest(j)' = Ones(j \in Range(queue')) + Ones(j \in running')
                      + Ones(j \in joined') + 0
      BY <3>1, Zenon DEF Rest
    <3> QED BY <3>2 DEF Ones
  <2>3. /\ Ones(j \in Range(queue')) = Ones(j \in Range(queue))
        /\ Ones(j \in running') = Ones(j \in running)
        /\ Ones(j \in joined') = Ones(j \in joined)
    BY <2>1, Zenon DEF Ones
  <2>4. Rest(j)' = Rest(j) /\ Rest(j) \in Nat
    BY <1>4, <2>2, <2>3 DEF Rest, Ones
  <2> QED BY <2>4
<1>7. CASE j = k
  <2>1. /\ Ones(j \in Range(queue)) = 1 /\ queue' = rest
        /\ Ones(j \in Range(queue')) = 0
    BY <1>2, <1>3, <1>7 DEF Ones
  <2>2. CASE sending' = None
    <3>1. Rest(j)' = Ones(j \in running') + Ones(j \in joined')
      BY <2>1, <2>2 DEF Rest, Ones
    <3>2. \/ /\ j \in running /\ j \in running' /\ j \in joined'
          \/ /\ j \notin running /\ j \in running'
             /\ j \in joined' <=> j \in joined
      BY <1>1, <1>3, <1>5, <1>7, <2>2, DeliveryFacts, FALSE \in BOOLEAN, Zenon
    <3> QED BY <1>4, <2>1, <3>1, <3>2 DEF Ones
  <2>3. CASE sending' # None
    <3>1. /\ sending' = Delivery(k, FALSE) /\ sending'.key = j
          /\ UNCHANGED <<running, joined>>
      BY <1>1, <1>3, <1>5, <1>7, <2>3
    <3>2. Ones(sending'.again) = 0
      BY <1>1, <3>1, DeliveryCounts, FALSE \in BOOLEAN DEF Ones
    <3>3. Rest(j)' = Ones(j \in Range(queue')) + Ones(j \in running')
                      + Ones(j \in joined') + (1 + Ones(sending'.again))
      BY <2>3, <3>1, Zenon DEF Rest
    <3>4. /\ Ones(j \in running') = Ones(j \in running)
          /\ Ones(j \in joined') = Ones(j \in joined)
      BY <3>1
    <3>5. Ones(j \in running) \in Nat /\ Ones(j \in joined) \in Nat
      BY DEF Ones
    <3> QED BY <1>4, <2>1, <3>2, <3>3, <3>4, <3>5
  <2> QED BY <2>2, <2>3
<1> QED BY <1>6, <1>7

(* What the drain does to one operation.                                   *)
Shrinks(k) ==
  /\ Rest(k)' <= Rest(k)
  /\ owed'[k] # owed[k] => Rest(k)' < Rest(k)

(* A settled receipt leaves the hands of the task, refused or recorded.    *)
LEMMA SettledShrinks ==
  ASSUME IInv, HInv, Recorded \/ Refused, NEW j \in Keys
  PROVE  Shrinks(j)
<1>1. sending # None /\ sending.key \in Keys /\ sending.again \in BOOLEAN
  <2>1. sending # None
    BY DEF Recorded, Refused
  <2>2. sending \in Deliveries
    BY <2>1 DEF IInv, Types
  <2> QED BY <2>1, <2>2 DEF Deliveries
<1> PICK k \in Keys : k = sending.key
  BY <1>1
<1>2. /\ UNCHANGED <<queue, running, joined>>
      /\ sending' = None \/ sending' = Delivery(k, FALSE)
  BY DEF Recorded, Refused
<1>3. sending' # None => sending'.key = k
  BY <1>2, DeliveryFacts, FALSE \in BOOLEAN
<1>4. CASE j # k
  <2>1. Rest(j)' = Rest(j) /\ Rest(j) \in Nat
    BY <1>2, <1>3, <1>4 DEF Rest, Ones
  <2>2. owed'[j] = owed[j]
    BY <1>4 DEF Recorded, Refused, HInv, HandTypes
  <2> QED BY <2>1, <2>2 DEF Shrinks
<1>5. CASE j = k
  <2>1. Rest(k) \in Nat
    BY DEF Rest, Ones
  <2>2. Rest(k)' < Rest(k)
    <3>1. CASE Recorded
      <4>1. Rest(k)' = Rest(k) - 1
        BY <3>1, RecordedRest
      <4> QED BY <2>1, <4>1
    <3>2. CASE Refused
      <4> DEFINE R == Ones(k \in Range(queue)) + Ones(k \in running)
                        + Ones(k \in joined)
      <4>1. Rest(k) = R + (1 + Ones(sending.again))
        BY <1>1, Zenon DEF Rest
      <4>2. sending' = None
        BY <3>2 DEF Refused
      <4>3. Rest(k)' = R
        BY <1>2, <4>2 DEF Rest, Ones
      <4>4. R \in Nat /\ Ones(sending.again) \in Nat
        BY DEF Ones
      <4> HIDE DEF R
      <4> QED BY <4>1, <4>3, <4>4
    <3> QED BY <3>1, <3>2
  <2>3. Rest(k)' <= Rest(k)
    <3>1. Rest(k)' \in Nat
      BY DEF Rest, Ones
    <3> QED BY <2>1, <2>2, <3>1
  <2> QED BY <1>5, <2>2, <2>3 DEF Shrinks
<1> QED BY <1>4, <1>5

LEMMA NextShrinks ==
  ASSUME IInv, HInv, QueuedOnce, [Next]_vars,
         mode = "drain", mode' = "drain", NEW j \in Keys
  PROVE  Shrinks(j)
<1> USE DEF work, loop
<1>1. Rest(j) \in Nat
  BY DEF Rest, Ones
<1>2. ASSUME owed' = owed, Rest(j)' = Rest(j) PROVE Shrinks(j)
  BY <1>1, <1>2 DEF Shrinks
<1>3. ASSUME UNCHANGED <<owed, queue, running, joined, sending>> PROVE Shrinks(j)
  BY <1>2, <1>3 DEF Rest, Ones
<1>4. CASE DispatchQueued
  <2>1. owed' = owed
    BY <1>4 DEF DispatchQueued
  <2> QED BY <1>4, <2>1, DispatchRest DEF Shrinks
<1>5. CASE Filled
  BY <1>3, <1>5 DEF Filled
<1>6. CASE HandOver \/ NotAccepted \/ Resubmit
  <2>0. sending # None /\ UNCHANGED <<queue, running, joined>>
    BY <1>6 DEF HandOver, NotAccepted, Resubmit
  <2>1. \E g \in BOOLEAN, v \in {"channel", "http"} :
          \/ sending' = [sending EXCEPT !.got = g]
          \/ sending' = [sending EXCEPT !.via = v, !.got = g]
    BY <1>6, Zenon DEF HandOver, NotAccepted, Resubmit
  <2>3. Rest(j)' = Rest(j)
    BY <2>0, <2>1, SendingRest
  <2>2. owed' = owed
    BY <1>6 DEF HandOver, NotAccepted, Resubmit
  <2> QED BY <1>2, <2>2, <2>3
<1>7. CASE Recorded \/ Refused
  BY <1>7, SettledShrinks
<1>8. ASSUME NEW k \in Keys, Issue(k) \/ Finish(k) PROVE Shrinks(j)
  BY <1>3, <1>8 DEF Issue, Finish
<1>9. ASSUME NEW k \in Keys, NEW r \in Receipts, Complete(k, r) PROVE Shrinks(j)
  BY <1>2, <1>9, CompleteRest DEF Complete
<1>10. CASE UNCHANGED vars
  BY <1>3, <1>10 DEF vars
<1>11. /\ ~(Serve \/ Connect \/ Survey \/ Replayed \/ AllReplayed \/ Report)
       /\ ~(Ready \/ Retry \/ CaptureGivesUp \/ PollPage \/ PollDone)
       /\ ~(PollFails \/ PageServed \/ IdleEnds \/ PushedPage)
       /\ ~(PushedServed \/ LinkEnds \/ LeaveChannel \/ Drained)
       /\ ~(RefusedOnceMore \/ Capture \/ Close \/ Crash)
       /\ \A k \in Keys : ~Replay(k) /\ ~DispatchPage(k)
       /\ \A result \in Outcomes : ~End(result)
  BY DEF Serve, Connect, Survey, Replayed, AllReplayed, Report, Ready, Retry,
         CaptureGivesUp, PollPage, PollDone, PollFails, PageServed, IdleEnds,
         PushedPage, PushedServed, LinkEnds, LeaveChannel, Drained,
         RefusedOnceMore, Capture, Close, Crash, Replay, DispatchPage, End,
         Authority
<1> QED
  BY <1>4, <1>5, <1>6, <1>7, <1>8, <1>9, <1>10, <1>11 DEF Next

(* While the executor drains, no operation gets more answers to give, and  *)
(* an answer given, recorded or refused, is one less in hand.              *)
DrainShrinks ==
  [][mode = "drain" /\ mode' = "drain" =>
       \A k \in Keys : /\ InHand(k)' <= InHand(k)
                       /\ owed'[k] # owed[k] => InHand(k)' < InHand(k)]_vars

(* A drain takes no new work, whatever the service issues meanwhile and    *)
(* however complete refills the slots from the queue: the safety half of   *)
(* DrainEnds, for every bound and number of operations.                    *)
THEOREM ExecutorDrainShrinks == Spec => DrainShrinks
<1>1. Init => QueuedOnce
  BY DEF Init, QueuedOnce, IsInjective
<1>2. IInv /\ HInv /\ QueuedOnce /\ [Next]_vars =>
        [mode = "drain" /\ mode' = "drain" =>
           \A k \in Keys : /\ InHand(k)' <= InHand(k)
                           /\ owed'[k] # owed[k] => InHand(k)' < InHand(k)]_vars
  <2> SUFFICES ASSUME IInv, HInv, QueuedOnce, [Next]_vars,
                      mode = "drain", mode' = "drain", NEW k \in Keys
               PROVE  /\ InHand(k)' <= InHand(k)
                      /\ owed'[k] # owed[k] => InHand(k)' < InHand(k)
    OBVIOUS
  <2>1. InHand(k) = Rest(k) /\ InHand(k)' = Rest(k)'
    BY DEF InHand, Rest, Ones
  <2>2. Shrinks(k)
    BY NextShrinks
  <2> QED BY <2>1, <2>2 DEF Shrinks
<1>3. Spec => []QueuedOnce
  BY <1>1, NextQueuedOnce, ExecutorInvariant, PTL DEF Spec
<1> QED
  BY <1>2, <1>3, ExecutorInvariant, ExecutorHandsInvariant, PTL
  DEF Spec, DrainShrinks
=============================================================================
