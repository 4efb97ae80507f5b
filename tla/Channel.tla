------------------------------- MODULE Channel -------------------------------
(***************************************************************************)
(* One push channel of the native executor, from its handshake to its end  *)
(* (struct Channel of cli/sikaru/compute_transport.rs, and the session of  *)
(* the work task in compute_runtime.rs that holds it).                     *)
(*                                                                         *)
(* Four parties: the service; the read pump, which turns frames into       *)
(* events; the write pump, which sends receipts; and the work task, which  *)
(* serves pages and delivers receipts, one after the other.  They share    *)
(* bounded queues: each waits when the one it fills is full.               *)
(*                                                                         *)
(* Time is a choice: a timer may always fire.  Heartbeats are left out: a  *)
(* write pump blocked on one is a write pump blocked on a receipt.         *)
(*                                                                         *)
(* A definition whose name starts with Bug is a broken variant of the one  *)
(* it precedes; no specification uses it.                                  *)
(***************************************************************************)
EXTENDS Naturals, Sequences, FiniteSets, Functions

CONSTANTS
  Tools,          \* tool call identities
  Runs,           \* runs: a receipt is that of a tool call of a run
  EventCap,       \* capacity of the event queue (64)
  OutCap,         \* capacity of the outbound queue (8)
  NetCap,         \* frames the network holds in each direction
  MaxPages,       \* bound on pages the service pushes
  MaxDeliveries,  \* bound on deliveries over this channel
  None            \* Option::None

VARIABLES
  \* The connection and the service.
  broken,    \* the connection failed
  up,        \* receipts on their way to the service
  down,      \* frames on their way to the executor
  closing,   \* the service sent its last frame
  pushed,    \* pages the service has sent; the last is the current one
  recorded,  \* receipts the service has recorded, over any route
  \* The pumps.
  reader, rheld,     \* where the read pump is, and the event it holds
  writer, wheld,     \* where the write pump is, and the receipt it holds
  outbound, events,  \* the two queues
  \* struct Channel and the work task.
  page,       \* Channel.page
  ended,      \* Channel.ended
  task,       \* where the work task is
  back,       \* where its delivery returns to
  key,        \* the receipt it delivers
  inHand,     \* the page it serves, or served last
  deliveries, \* deliveries so far
  told        \* receipts deliver reported as accepted

service == <<closing, pushed, recorded>>
network == <<broken, up, down>>
readPump  == <<reader, rheld>>
writePump == <<writer, wheld>>
channel == <<page, ended>>
session == <<task, back, key, inHand, deliveries, told>>
vars == <<service, network, readPump, writePump, outbound, events,
          channel, session>>

Receipts == Runs \X Tools
Ends     == {"poll", "fenced", "lost"}
Frame(type, what) == [type |-> type, what |-> what]
Events ==
  [type : {"page"}, what : 1..MaxPages] \cup [type : {"accepted"}, what : Tools]
  \cup [type : {"rejected"}, what : Tools \cup {None}]
  \cup [type : {"ended"}, what : Ends]

ASSUME ChannelAssumption ==
  /\ EventCap \in Nat \ {0} /\ OutCap \in Nat \ {0} /\ NetCap \in Nat \ {0}
  /\ MaxPages \in Nat /\ MaxDeliveries \in Nat
  /\ None \notin Tools \cup Receipts \cup Events \cup Ends \cup Nat

Tool(receipt) == receipt[2]

Init ==
  /\ broken = FALSE /\ up = <<>> /\ down = <<>>
  /\ closing = FALSE /\ pushed = 0 /\ recorded = {}
  /\ reader = "read" /\ rheld = None
  /\ writer = "take" /\ wheld = None
  /\ outbound = <<>> /\ events = <<>>
  /\ page = 0 /\ ended = None
  /\ task = "wake" /\ back = "wake" /\ key = None
  /\ inHand = 0 /\ deliveries = 0 /\ told = {}

-----------------------------------------------------------------------------
(* The service and the connection.                                         *)

Send(frame) ==
  /\ ~broken /\ ~closing
  /\ Len(down) < NetCap
  /\ down' = Append(down, frame)

(* Each page is the full current work page.                                *)
PushPage ==
  /\ pushed < MaxPages
  /\ Send(Frame("page", pushed + 1))
  /\ pushed' = pushed + 1
  /\ UNCHANGED <<closing, recorded, broken, up, readPump, writePump, outbound,
                 events, channel, session>>

(* A receipt frame is answered once: recorded, or refused with or without  *)
(* the tool call's name.                                                   *)
AnswerReceipt ==
  /\ up # <<>>
  /\ up' = Tail(up)
  /\ \/ /\ Send(Frame("accepted", Tool(Head(up))))
        /\ recorded' = recorded \cup {Head(up)}
     \/ /\ \E who \in {None, Tool(Head(up))} : Send(Frame("rejected", who))
        /\ UNCHANGED recorded
  /\ UNCHANGED <<closing, pushed, broken, readPump, writePump, outbound,
                 events, channel, session>>

(* A close frame, whose reason says what the executor is to do next.       *)
ServiceCloses ==
  /\ \E end \in Ends : Send(Frame("ended", end))
  /\ closing' = TRUE
  /\ UNCHANGED <<pushed, recorded, broken, up, readPump, writePump, outbound,
                 events, channel, session>>

(* The connection fails; what is under way is lost.                        *)
Break ==
  /\ ~broken
  /\ broken' = TRUE
  /\ up' = <<>> /\ down' = <<>>
  /\ UNCHANGED <<service, readPump, writePump, outbound, events, channel,
                 session>>

-----------------------------------------------------------------------------
(* The pumps.                                                              *)

(* read_pump: a frame becomes an event, a close frame its last one.        *)
Read ==
  /\ reader = "read" /\ down # <<>>
  /\ down' = Tail(down)
  /\ rheld' = Head(down)
  /\ reader' = IF Head(down).type = "ended" THEN "last" ELSE "put"
  /\ UNCHANGED <<service, broken, up, writePump, outbound, events, channel,
                 session>>

(* The connection failed, or was silent for too long.                      *)
ReadLost ==
  /\ reader = "read"
  /\ rheld' = Frame("ended", "lost")
  /\ reader' = "last"
  /\ UNCHANGED <<service, network, writePump, outbound, events, channel,
                 session>>

PutEvent ==
  /\ reader \in {"put", "last"}
  /\ Len(events) < EventCap
  /\ events' = Append(events, rheld)
  /\ rheld' = None
  /\ reader' = IF reader = "last" THEN "done" ELSE "read"
  /\ UNCHANGED <<service, network, writePump, outbound, channel, session>>

(* write_pump: the next receipt; the queue's end closes the socket.        *)
TakeReceipt ==
  /\ writer = "take" /\ outbound # <<>>
  /\ wheld' = Head(outbound)
  /\ outbound' = Tail(outbound)
  /\ writer' = "write"
  /\ UNCHANGED <<service, network, readPump, events, channel, session>>

Write ==
  /\ writer = "write"
  /\ ~broken /\ Len(up) < NetCap
  /\ up' = Append(up, wheld)
  /\ wheld' = None
  /\ writer' = "take"
  /\ UNCHANGED <<service, broken, down, readPump, outbound, events, channel,
                 session>>

(* A receipt or a heartbeat cannot be written.                             *)
WriteFails ==
  /\ writer \in {"take", "write"}
  /\ broken
  /\ wheld' = None
  /\ writer' = "fail"
  /\ UNCHANGED <<service, network, readPump, outbound, events, channel, session>>

PutLost ==
  /\ writer = "fail"
  /\ Len(events) < EventCap
  /\ events' = Append(events, Frame("ended", "lost"))
  /\ writer' = "done"
  /\ UNCHANGED <<service, network, readPump, wheld, outbound, channel, session>>

-----------------------------------------------------------------------------
(* The work task: next and serve_channel.                                  *)

Event == Head(events)
Keep(p) == page' = p /\ UNCHANGED ended
Finish(end) == ended' = end /\ UNCHANGED page

(* Channel::recv in next: pages are kept, answers nobody waits for are     *)
(* dropped.                                                                *)
NextEvent ==
  /\ task = "wake"
  /\ page = 0 /\ ended = None
  /\ events # <<>>
  /\ events' = Tail(events)
  /\ \/ Event.type = "page" /\ Keep(Event.what)
     \/ Event.type = "ended" /\ Finish(Event.what)
     \/ Event.type \notin {"page", "ended"} /\ UNCHANGED channel
  /\ UNCHANGED <<service, network, readPump, writePump, outbound, session>>

(* Bug: an end that newest or deliver noticed is waited for again.         *)
BugTakePage ==
  /\ task = "wake"
  /\ page # 0
  /\ task' = "newest" /\ inHand' = page /\ page' = 0
  /\ UNCHANGED <<service, network, readPump, writePump, outbound, events,
                 ended, back, key, deliveries, told>>

(* next: a page first, then the end.                                       *)
TakePage ==
  /\ task = "wake"
  /\ page # 0 \/ ended # None
  /\ IF page # 0
       THEN task' = "newest" /\ inHand' = page /\ page' = 0
       ELSE task' = "close" /\ UNCHANGED <<page, inHand>>
  /\ UNCHANGED <<service, network, readPump, writePump, outbound, events,
                 ended, back, key, deliveries, told>>

(* Bug: only the first of the waiting events is looked at.                 *)
BugNewest ==
  /\ task = "newest"
  /\ task' = "serve"
  /\ IF events = <<>>
       THEN UNCHANGED <<events, inHand, ended>>
       ELSE /\ events' = <<>>
            /\ inHand' = IF Event.type = "page" THEN Event.what ELSE inHand
            /\ ended' = IF Event.type = "ended" THEN Event.what ELSE ended
  /\ UNCHANGED <<service, network, readPump, writePump, outbound,
                 page, back, key, deliveries, told>>

(* newest: a page already waiting supersedes the one in hand.              *)
Newest ==
  /\ task = "newest"
  /\ IF events = <<>>
       THEN task' = "serve" /\ UNCHANGED <<events, inHand, ended>>
       ELSE /\ events' = Tail(events)
            /\ inHand' = IF Event.type = "page" THEN Event.what ELSE inHand
            /\ ended' = IF Event.type = "ended" THEN Event.what ELSE ended
            /\ UNCHANGED task
  /\ UNCHANGED <<service, network, readPump, writePump, outbound,
                 page, back, key, deliveries, told>>

(* serve_pushed: a page for the HTTP route, or one of another attachment,  *)
(* ends the session; so does a channel that ended while it was dispatched. *)
Served ==
  /\ task = "serve"
  /\ task' \in IF ended # None THEN {"close"} ELSE {"wake", "close"}
  /\ UNCHANGED <<service, network, readPump, writePump, outbound, events,
                 channel, back, key, inHand, deliveries, told>>

-----------------------------------------------------------------------------
(* Channel::deliver, for a finished operation or one of the page.          *)

(* Bug: a channel that ended still takes receipts.                         *)
BugDeliver(receipt) ==
  /\ task \in {"wake", "serve"}
  /\ deliveries < MaxDeliveries
  /\ deliveries' = deliveries + 1
  /\ key' = receipt /\ back' = task
  /\ task' = "send"
  /\ UNCHANGED <<service, network, readPump, writePump, outbound, events,
                 channel, inHand, told>>

Deliver(receipt) ==
  /\ task \in {"wake", "serve"}
  /\ deliveries < MaxDeliveries
  /\ deliveries' = deliveries + 1
  /\ key' = receipt /\ back' = task
  /\ task' = IF ended = None THEN "send" ELSE "http"
  /\ UNCHANGED <<service, network, readPump, writePump, outbound, events,
                 channel, inHand, told>>

(* send_receipt waits for room in the queue.  The write pump is gone when  *)
(* its receiver is.                                                        *)
SendReceipt ==
  /\ task = "send"
  /\ IF writer = "done"
       THEN task' = "http" /\ ended' = "lost" /\ UNCHANGED outbound
       ELSE /\ Len(outbound) < OutCap
            /\ outbound' = Append(outbound, key)
            /\ task' = "answer" /\ UNCHANGED ended
  /\ UNCHANGED <<service, network, readPump, writePump, events, page, back,
                 key, inHand, deliveries, told>>

(* The events that come before the answer: a page is kept for next, and    *)
(* another receipt's answer is dropped.                                    *)
Answered ==
  /\ task = "answer" /\ events # <<>>
  /\ events' = Tail(events)
  /\ \/ /\ Event = Frame("accepted", Tool(key))
        /\ task' = back /\ told' = told \cup {key} /\ UNCHANGED channel
     \/ /\ Event.type = "rejected" /\ Event.what \in {None, Tool(key)}
        /\ task' = "http" /\ UNCHANGED <<channel, told>>
     \/ /\ Event.type = "ended"
        /\ task' = "http" /\ Finish(Event.what) /\ UNCHANGED told
     \/ /\ Event.type = "page"
        /\ Keep(Event.what) /\ UNCHANGED <<task, told>>
     \/ /\ \/ Event.type = "accepted" /\ Event.what # Tool(key)
           \/ Event.type = "rejected" /\ Event.what \notin {None, Tool(key)}
        /\ UNCHANGED <<task, told, channel>>
  /\ UNCHANGED <<service, network, readPump, writePump, outbound, back, key,
                 inHand, deliveries>>

(* Bug: the channel is used on after an answer that did not come.          *)
BugAnswerLate ==
  /\ task = "answer"
  /\ task' = "http"
  /\ UNCHANGED <<service, network, readPump, writePump, outbound, events,
                 channel, back, key, inHand, deliveries, told>>

(* RECEIPT_ACK_TIMEOUT, or the lease's deadline.                           *)
AnswerLate ==
  /\ task = "answer"
  /\ ended' = "lost"
  /\ task' = "http"
  /\ UNCHANGED <<service, network, readPump, writePump, outbound, events,
                 page, back, key, inHand, deliveries, told>>

(* deliver_receipt: the HTTP route records the receipt, or refuses it.     *)
Http ==
  /\ task = "http"
  /\ recorded' \in {recorded, recorded \cup {key}}
  /\ task' = back
  /\ UNCHANGED <<closing, pushed, network, readPump, writePump, outbound,
                 events, channel, back, key, inHand, deliveries, told>>

-----------------------------------------------------------------------------
(* Drop: both pumps are aborted.                                           *)
Drop ==
  /\ task' = "gone"
  /\ reader' = "done" /\ rheld' = None
  /\ writer' = "done" /\ wheld' = None
  /\ UNCHANGED <<service, network, outbound, events, channel, back, key,
                 inHand, deliveries, told>>

(* close: the write pump has a second to empty its queue.                  *)
Close == task = "close" /\ Drop

(* The run ends: run drops the work task at an await.                      *)
RunEnds == task \notin {"gone", "close"} /\ Drop

Next ==
  \/ PushPage \/ AnswerReceipt \/ ServiceCloses \/ Break
  \/ Read \/ ReadLost \/ PutEvent
  \/ TakeReceipt \/ Write \/ WriteFails \/ PutLost
  \/ NextEvent \/ TakePage \/ Newest \/ Served
  \/ \E receipt \in Receipts : Deliver(receipt)
  \/ SendReceipt \/ Answered \/ AnswerLate \/ Http
  \/ Close \/ RunEnds

Spec == Init /\ [][Next]_vars

(* The executor's tasks are scheduled and its timers fire.  Nothing is     *)
(* assumed of the service or the connection.                               *)
Fairness ==
  /\ WF_vars(Read) /\ WF_vars(PutEvent)
  /\ WF_vars(TakeReceipt) /\ WF_vars(Write)
  /\ WF_vars(WriteFails) /\ WF_vars(PutLost)
  /\ WF_vars(NextEvent) /\ WF_vars(TakePage) /\ WF_vars(Newest)
  /\ WF_vars(Served) /\ WF_vars(SendReceipt)
  /\ WF_vars(AnswerLate) /\ WF_vars(Http) /\ WF_vars(Close)

FairSpec == Spec /\ Fairness

-----------------------------------------------------------------------------
(* What is on its way between the two ends of the channel.                 *)
Coming == [i \in 1..(Len(events) + 1 + Len(down)) |->
             IF i <= Len(events) THEN events[i]
             ELSE IF i = Len(events) + 1 THEN rheld
             ELSE down[i - Len(events) - 1]]
Answers == {i \in DOMAIN Coming :
              Coming[i] # None /\ Coming[i].type \in {"accepted", "rejected"}}
Outstanding == Len(outbound) + (IF wheld = None THEN 0 ELSE 1) + Len(up)
                 + Cardinality(Answers)

(* Acceptances name a tool call and not its run, so a late one could       *)
(* settle another run's receipt.  It does not: a receipt is reported as    *)
(* accepted only if the service recorded that very one.                    *)
AcceptedIsRecorded == told \subseteq recorded

(* Why: on a channel that has not ended, at most one receipt or answer is  *)
(* anywhere between the two ends, and none unless the task waits for it.   *)
(* This is also why send_receipt never waits for room.                     *)
OneOutstanding ==
  task # "gone" /\ ended = None =>
    /\ Outstanding <= 1
    /\ Outstanding = 1 => task = "answer"

(* The newest page that left the network is not lost to the session: it is *)
(* in hand, or on its way through the queues, however deliveries consume   *)
(* the events in between.                                                  *)
NewestPage ==
  task \notin {"close", "gone"} /\ ~broken /\ reader # "done" /\ pushed > 0 =>
    \/ pushed \in {inHand, page}
    \/ \E i \in DOMAIN Coming : Coming[i] = Frame("page", pushed)

(* The session ends once its channel has.                                  *)
EndedCloses == ended # None ~> task = "gone"

(* A delivery ends, whatever the service and the connection do.            *)
DeliveryEnds ==
  task \in {"send", "answer", "http"} ~> task \notin {"send", "answer", "http"}
=============================================================================
