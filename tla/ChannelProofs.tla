---------------------------- MODULE ChannelProofs ----------------------------
(***************************************************************************)
(* What a push channel guarantees for every set of runs and tools, every   *)
(* capacity of its queues, and every number of pages and deliveries.       *)
(***************************************************************************)
EXTENDS Channel, SequenceTheorems, FiniteSetTheorems, TLAPS

Tasks  == {"wake", "newest", "serve", "send", "answer", "http", "close", "gone"}
Places == {"nowhere", "outbound", "writer", "up", "down", "reader", "events"}

Types ==
  /\ up \in Seq(Receipts) /\ outbound \in Seq(Receipts)
  /\ down \in Seq(Events) /\ events \in Seq(Events)
  /\ pushed \in 0..MaxPages /\ page \in 0..MaxPages /\ inHand \in 0..MaxPages
  /\ rheld \in Events \cup {None} /\ wheld \in Receipts \cup {None}
  /\ reader \in {"read", "put", "last", "done"}
  /\ reader \in {"put", "last"} <=> rheld # None
  /\ writer \in {"take", "write", "fail", "done"}
  /\ writer = "write" <=> wheld # None
  /\ ended \in Ends \cup {None}
  /\ task \in Tasks /\ back \in {"wake", "serve"}
  /\ task \in {"send", "answer", "http"} => key \in Receipts
  /\ task = "newest" => page = 0

(* The frames and events on their way to the work task.                    *)
OnTheWay == Range(events) \cup {rheld} \cup Range(down)

IsAnswer(e) == e # None /\ e.type \in {"accepted", "rejected"}
NoAnswer(s) == \A e \in Range(s) : ~IsAnswer(e)
Lone(s) ==
  \A i, j \in DOMAIN s : IsAnswer(s[i]) /\ IsAnswer(s[j]) => i = j

(* No receipt, and no answer to one, is anywhere but at place w, and there *)
(* is one at most.                                                         *)
OneAt(w) ==
  /\ outbound # <<>> => w = "outbound"
  /\ Len(outbound) <= 1
  /\ wheld # None => w = "writer"
  /\ up # <<>> => w = "up"
  /\ Len(up) <= 1
  /\ w # "down" => NoAnswer(down)
  /\ Lone(down)
  /\ IsAnswer(rheld) => w = "reader"
  /\ w # "events" => NoAnswer(events)
  /\ Lone(events)

FlightOK ==
  task # "gone" /\ ended = None =>
    \E w \in Places : OneAt(w) /\ (task # "answer" => w = "nowhere")

(* What is on its way while the task waits is the receipt it waits for, or *)
(* the answer to it.                                                       *)
WaitOK ==
  /\ task \in {"send", "answer"} => ended = None
  /\ task = "answer" =>
       /\ Range(outbound) \subseteq {key} /\ Range(up) \subseteq {key}
       /\ wheld \in {key, None}
       /\ \A e \in OnTheWay : e # None /\ e.type = "accepted" => key \in recorded

(* The page of an event, or 0; and that it is newer than page n.           *)
PageOf(e) == IF e # None /\ e.type = "page" THEN e.what ELSE 0
After(n, e) == PageOf(e) # 0 => n < PageOf(e)
Sorted(s) == \A i, j \in DOMAIN s : i < j => After(PageOf(s[i]), s[j])

(* The pages of the session and those on their way are in the order of the *)
(* service.                                                                *)
OrderOK ==
  /\ page # 0 => inHand < page
  /\ page <= pushed /\ inHand <= pushed
  /\ \A e \in OnTheWay : After(inHand, e) /\ After(page, e) /\ PageOf(e) <= pushed
  /\ Sorted(events) /\ Sorted(down)
  /\ \A e \in Range(events) : After(PageOf(e), rheld)
  /\ \A e \in Range(events) \cup {rheld}, f \in Range(down) : After(PageOf(e), f)

NewestOK ==
  task \notin {"close", "gone"} /\ ~broken /\ reader # "done" /\ pushed > 0 =>
    \/ pushed = inHand \/ pushed = page
    \/ \E e \in OnTheWay : PageOf(e) = pushed

(* The inductive invariant.                                                *)
IInv ==
  /\ Types /\ FlightOK /\ WaitOK /\ OrderOK /\ NewestOK
  /\ AcceptedIsRecorded

-----------------------------------------------------------------------------
(* Queues of events.                                                       *)

LEMMA TailFacts ==
  ASSUME NEW S, NEW q \in Seq(S), q # <<>>
  PROVE  /\ Head(q) \in S /\ Tail(q) \in Seq(S) /\ Len(q) \in Nat \ {0}
         /\ Head(q) = q[1] /\ 1 \in DOMAIN q /\ Len(Tail(q)) = Len(q) - 1
         /\ DOMAIN q = 1..Len(q) /\ DOMAIN Tail(q) = 1..(Len(q) - 1)
         /\ \A i \in DOMAIN Tail(q) : i + 1 \in DOMAIN q /\ Tail(q)[i] = q[i + 1]
BY HeadTailProperties, EmptySeq, LenProperties

LEMMA AppendFacts ==
  ASSUME NEW S, NEW q \in Seq(S), NEW x \in S
  PROVE  /\ Append(q, x) \in Seq(S) /\ Len(q) \in Nat
         /\ DOMAIN q = 1..Len(q) /\ DOMAIN Append(q, x) = 1..(Len(q) + 1)
         /\ Len(Append(q, x)) = Len(q) + 1 /\ Append(q, x)[Len(q) + 1] = x
         /\ \A i \in 1..Len(q) : Append(q, x)[i] = q[i]
         /\ Append(q, x) # <<>>
BY AppendProperties, LenProperties

LEMMA LastOne ==
  ASSUME NEW S, NEW q \in Seq(S), q # <<>>, Len(q) <= 1
  PROVE  Tail(q) = <<>> /\ Len(Tail(q)) = 0
<1>1. Tail(q) \in Seq(S) /\ Len(q) \in Nat \ {0} /\ Len(Tail(q)) = Len(q) - 1
  BY TailFacts
<1>2. Len(Tail(q)) = 0
  BY <1>1
<1> QED BY <1>1, <1>2, EmptySeq

LEMMA RangeFacts ==
  ASSUME NEW S, NEW q \in Seq(S)
  PROVE  /\ q = <<>> => Range(q) = {}
         /\ q # <<>> => Range(q) = {Head(q)} \cup Range(Tail(q))
         /\ \A x \in S : Range(Append(q, x)) = Range(q) \cup {x}
         /\ Range(q) \subseteq S
<1>1. q = <<>> => Range(q) = {}
  BY DEF Range
<1>2. ASSUME q # <<>> PROVE Range(q) = {Head(q)} \cup Range(Tail(q))
  <2> USE TailFacts, <1>2
  <2>1. ASSUME NEW i \in DOMAIN q PROVE q[i] \in {Head(q)} \cup Range(Tail(q))
    <3>1. CASE i = 1
      BY <3>1
    <3>2. CASE i # 1
      <4>1. i - 1 \in DOMAIN Tail(q) /\ (i - 1) + 1 = i
        BY <2>1, <3>2
      <4>2. Tail(q)[i - 1] = q[(i - 1) + 1]
        BY <4>1
      <4>3. Tail(q)[i - 1] = q[i]
        BY <4>1, <4>2
      <4> QED BY <4>1, <4>3 DEF Range
    <3> QED BY <3>1, <3>2
  <2>2. Head(q) \in Range(q)
    BY DEF Range
  <2>3. ASSUME NEW i \in DOMAIN Tail(q) PROVE Tail(q)[i] \in Range(q)
    BY DEF Range
  <2> QED BY <2>1, <2>2, <2>3 DEF Range
<1>3. ASSUME NEW x \in S PROVE Range(Append(q, x)) = Range(q) \cup {x}
  <2>0. Len(q) \in Nat
    BY AppendFacts
  <2>1. \A i \in 1..(Len(q) + 1) : i \in 1..Len(q) \/ i = Len(q) + 1
    BY <2>0
  <2>2. 1..Len(q) \subseteq 1..(Len(q) + 1) /\ Len(q) + 1 \in 1..(Len(q) + 1)
    BY <2>0
  <2>3. /\ DOMAIN q = 1..Len(q) /\ DOMAIN Append(q, x) = 1..(Len(q) + 1)
        /\ Append(q, x)[Len(q) + 1] = x
        /\ \A i \in 1..Len(q) : Append(q, x)[i] = q[i]
    BY AppendFacts
  <2> QED BY <2>1, <2>2, <2>3, Zenon DEF Range
<1>4. Range(q) \subseteq S
  <2>1. \A i \in DOMAIN q : q[i] \in S
    BY ElementOfSeq, LenProperties
  <2> QED BY <2>1 DEF Range
<1> QED BY <1>1, <1>2, <1>3, <1>4

(* What an event is.                                                       *)
LEMMA EventFacts ==
  ASSUME NEW e \in Events
  PROVE  /\ e # None
         /\ e.type \in {"page", "accepted", "rejected", "ended"}
         /\ e.type = "page" => e.what \in 1..MaxPages /\ e = Frame("page", e.what)
         /\ e.type = "ended" => e.what \in Ends /\ e.what # None
<1>1. e # None
  BY ChannelAssumption
<1> USE DEF Frame
<1>2. CASE e \in [type : {"page"}, what : 1..MaxPages]
  BY <1>1, <1>2
<1>3. CASE e \in [type : {"accepted"}, what : Tools]
  BY <1>1, <1>3
<1>4. CASE e \in [type : {"rejected"}, what : Tools \cup {None}]
  BY <1>1, <1>4
<1>5. CASE e \in [type : {"ended"}, what : Ends]
  BY <1>1, <1>5, ChannelAssumption
<1> QED BY <1>2, <1>3, <1>4, <1>5 DEF Events

LEMMA FrameFacts ==
  /\ \A p \in 1..MaxPages :
       LET f == Frame("page", p)
       IN  f \in Events /\ ~IsAnswer(f) /\ PageOf(f) = p
  /\ \A t \in Tools :
       LET f == Frame("accepted", t) IN f \in Events /\ PageOf(f) = 0
  /\ \A t \in Tools \cup {None} :
       LET f == Frame("rejected", t)
       IN  f \in Events /\ PageOf(f) = 0 /\ f.type # "accepted"
  /\ \A end \in Ends :
       LET f == Frame("ended", end)
       IN  f \in Events /\ ~IsAnswer(f) /\ PageOf(f) = 0
<1> USE DEF Frame, IsAnswer, PageOf
<1>1. ASSUME NEW p \in 1..MaxPages
      PROVE  LET f == Frame("page", p)
             IN  f \in Events /\ ~IsAnswer(f) /\ PageOf(f) = p
  <2>1. Frame("page", p) \in Events
    BY DEF Events
  <2> QED BY <2>1, EventFacts
<1>2. ASSUME NEW t \in Tools
      PROVE  LET f == Frame("accepted", t) IN f \in Events /\ PageOf(f) = 0
  BY DEF Events
<1>3. ASSUME NEW t \in Tools \cup {None}
      PROVE  LET f == Frame("rejected", t)
             IN  f \in Events /\ PageOf(f) = 0 /\ f.type # "accepted"
  BY DEF Events
<1>4. ASSUME NEW end \in Ends
      PROVE  LET f == Frame("ended", end)
             IN  f \in Events /\ ~IsAnswer(f) /\ PageOf(f) = 0
  BY DEF Events
<1> QED BY <1>1, <1>2, <1>3, <1>4

LEMMA PageOfFacts ==
  /\ \A e \in Events : PageOf(e) \in 0..MaxPages
  /\ \A e \in Events : PageOf(e) # 0 <=> e.type = "page"
  /\ PageOf(None) = 0 /\ ~IsAnswer(None)
BY EventFacts, ChannelAssumption DEF PageOf, IsAnswer

(* An answer that leaves a queue leaves none behind; one that enters it    *)
(* must find none.                                                         *)
LEMMA LoneFacts ==
  ASSUME NEW q \in Seq(Events)
  PROVE  /\ NoAnswer(<<>>) /\ Lone(<<>>)
         /\ NoAnswer(q) => Lone(q)
         /\ q # <<>> /\ Lone(q) =>
              Lone(Tail(q)) /\ (IsAnswer(Head(q)) => NoAnswer(Tail(q)))
         /\ q # <<>> /\ NoAnswer(q) => NoAnswer(Tail(q)) /\ ~IsAnswer(Head(q))
         /\ \A e \in Events : NoAnswer(q) => Lone(Append(q, e))
         /\ \A e \in Events : ~IsAnswer(e) /\ Lone(q) => Lone(Append(q, e))
         /\ \A e \in Events : ~IsAnswer(e) /\ NoAnswer(q) => NoAnswer(Append(q, e))
<1>1. NoAnswer(<<>>) /\ Lone(<<>>)
  BY DEF NoAnswer, Lone, Range
<1>2. NoAnswer(q) => Lone(q)
  BY DEF NoAnswer, Lone, Range
<1>3. ASSUME q # <<>>, Lone(q)
      PROVE  Lone(Tail(q)) /\ (IsAnswer(Head(q)) => NoAnswer(Tail(q)))
  <2>1. ASSUME NEW i \in DOMAIN Tail(q), NEW j \in DOMAIN Tail(q),
               IsAnswer(Tail(q)[i]), IsAnswer(Tail(q)[j])
        PROVE  i = j
    <3>1. /\ i + 1 \in DOMAIN q /\ Tail(q)[i] = q[i + 1]
          /\ j + 1 \in DOMAIN q /\ Tail(q)[j] = q[j + 1]
          /\ i \in Nat /\ j \in Nat
      BY <1>3, TailFacts
    <3>2. i + 1 = j + 1
      BY <1>3, <2>1, <3>1 DEF Lone
    <3> QED BY <3>1, <3>2
  <2>2. ASSUME IsAnswer(Head(q)), NEW i \in DOMAIN Tail(q)
        PROVE  ~IsAnswer(Tail(q)[i])
    <3>1. /\ i + 1 \in DOMAIN q /\ Tail(q)[i] = q[i + 1] /\ i \in 1..(Len(q) - 1)
          /\ 1 \in DOMAIN q /\ Head(q) = q[1]
      BY <1>3, TailFacts
    <3>2. 1 # i + 1
      BY <3>1
    <3> QED BY <1>3, <2>2, <3>1, <3>2 DEF Lone
  <2> QED BY <2>1, <2>2 DEF Lone, NoAnswer, Range
<1>4. q # <<>> /\ NoAnswer(q) => NoAnswer(Tail(q)) /\ ~IsAnswer(Head(q))
  BY RangeFacts DEF NoAnswer
<1>5. ASSUME NEW e \in Events, Lone(q), NoAnswer(q) \/ ~IsAnswer(e)
      PROVE  Lone(Append(q, e))
  <2> SUFFICES ASSUME NEW i \in 1..(Len(q) + 1), NEW j \in 1..(Len(q) + 1),
                      IsAnswer(Append(q, e)[i]), IsAnswer(Append(q, e)[j])
               PROVE  i = j
    BY AppendFacts DEF Lone
  <2>1. /\ DOMAIN q = 1..Len(q) /\ Len(q) \in Nat
        /\ Append(q, e)[Len(q) + 1] = e
        /\ \A n \in 1..Len(q) : Append(q, e)[n] = q[n]
    BY AppendFacts
  <2>2. CASE NoAnswer(q)
    <3>1. \A n \in 1..Len(q) : ~IsAnswer(q[n])
      BY <2>1, <2>2 DEF NoAnswer, Range
    <3> QED BY <2>1, <3>1
  <2>3. CASE ~IsAnswer(e)
    <3>1. i \in 1..Len(q) /\ j \in 1..Len(q)
      BY <2>1, <2>3
    <3> QED BY <1>5, <2>1, <3>1 DEF Lone
  <2> QED BY <1>5, <2>2, <2>3
<1>6. \A e \in Events : ~IsAnswer(e) /\ NoAnswer(q) => NoAnswer(Append(q, e))
  BY RangeFacts DEF NoAnswer
<1> QED BY <1>1, <1>2, <1>3, <1>4, <1>5, <1>6

(* Pages in order stay so.                                                 *)
LEMMA SortedFacts ==
  ASSUME NEW q \in Seq(Events)
  PROVE  /\ Sorted(<<>>)
         /\ q # <<>> /\ Sorted(q) =>
              /\ Sorted(Tail(q))
              /\ \A f \in Range(Tail(q)) : After(PageOf(Head(q)), f)
         /\ \A e \in Events :
              Sorted(q) /\ (\A f \in Range(q) : After(PageOf(f), e)) =>
                Sorted(Append(q, e))
<1>1. Sorted(<<>>)
  BY DEF Sorted
<1>2. ASSUME q # <<>>, Sorted(q)
      PROVE  /\ Sorted(Tail(q))
             /\ \A f \in Range(Tail(q)) : After(PageOf(Head(q)), f)
  <2>1. ASSUME NEW i \in DOMAIN Tail(q), NEW j \in DOMAIN Tail(q), i < j
        PROVE  After(PageOf(Tail(q)[i]), Tail(q)[j])
    <3>1. /\ i + 1 \in DOMAIN q /\ Tail(q)[i] = q[i + 1]
          /\ j + 1 \in DOMAIN q /\ Tail(q)[j] = q[j + 1]
          /\ i + 1 < j + 1
      BY <1>2, <2>1, TailFacts
    <3> QED BY <1>2, <3>1 DEF Sorted
  <2>2. ASSUME NEW j \in DOMAIN Tail(q)
        PROVE  After(PageOf(Head(q)), Tail(q)[j])
    <3>1. /\ j + 1 \in DOMAIN q /\ Tail(q)[j] = q[j + 1]
          /\ 1 \in DOMAIN q /\ Head(q) = q[1] /\ 1 < j + 1
      BY <1>2, TailFacts
    <3> QED BY <1>2, <3>1 DEF Sorted
  <2> QED BY <2>1, <2>2 DEF Sorted, Range
<1>3. ASSUME NEW e \in Events, Sorted(q), \A f \in Range(q) : After(PageOf(f), e)
      PROVE  Sorted(Append(q, e))
  <2> SUFFICES ASSUME NEW i \in 1..(Len(q) + 1), NEW j \in 1..(Len(q) + 1), i < j
               PROVE  After(PageOf(Append(q, e)[i]), Append(q, e)[j])
    BY AppendFacts DEF Sorted
  <2>1. /\ DOMAIN q = 1..Len(q) /\ Len(q) \in Nat
        /\ Append(q, e)[Len(q) + 1] = e
        /\ \A n \in 1..Len(q) : Append(q, e)[n] = q[n]
    BY AppendFacts
  <2>2. CASE j = Len(q) + 1
    <3>1. i \in 1..Len(q)
      BY <2>1, <2>2
    <3>2. q[i] \in Range(q) /\ Append(q, e)[i] = q[i] /\ Append(q, e)[j] = e
      BY <2>1, <2>2, <3>1 DEF Range
    <3> QED BY <1>3, <3>2
  <2>3. CASE j # Len(q) + 1
    <3>1. i \in 1..Len(q) /\ j \in 1..Len(q)
      BY <2>1, <2>3
    <3> QED BY <1>3, <2>1, <3>1 DEF Sorted
  <2> QED BY <2>2, <2>3
<1> QED BY <1>1, <1>2, <1>3

-----------------------------------------------------------------------------
(* The invariant holds initially; then, part by part, after every step.    *)

LEMMA InitIInv == Init => IInv
<1> SUFFICES ASSUME Init PROVE IInv
  OBVIOUS
<1> USE DEF Init
<1>1. Types
  <2>1. <<>> \in Seq(Receipts) /\ <<>> \in Seq(Events)
    OBVIOUS
  <2> QED BY <2>1, ChannelAssumption DEF Types, Tasks
<1>2. Range(events) = {} /\ Range(down) = {} /\ ~IsAnswer(rheld) /\ PageOf(rheld) = 0
  BY PageOfFacts DEF Range
<1>3. OneAt("nowhere")
  BY <1>2 DEF OneAt, NoAnswer, Lone
<1>4. FlightOK
  BY <1>3 DEF FlightOK, Places
<1>5. OrderOK
  BY <1>2, SortedFacts DEF OrderOK, OnTheWay, After, Sorted
<1> QED
  BY <1>1, <1>4, <1>5 DEF IInv, WaitOK, NewestOK, AcceptedIsRecorded

(* What the work task does with an event, by its kind.                     *)
LEMMA NextEventIs ==
  ASSUME Types, NextEvent
  PROVE  /\ events # <<>> /\ Event \in Events
         /\ \/ Event.type = "page" /\ page' = Event.what /\ UNCHANGED ended
            \/ Event.type = "ended" /\ ended' = Event.what /\ UNCHANGED page
            \/ Event.type \in {"accepted", "rejected"} /\ UNCHANGED channel
<1>1. events # <<>> /\ Event \in Events
  BY TailFacts DEF NextEvent, Types, Event
<1>2. Event.type \in {"page", "accepted", "rejected", "ended"}
  BY <1>1, EventFacts
<1>3. CASE Event.type = "page"
  BY <1>1, <1>3 DEF channel, NextEvent, Keep
<1>4. CASE Event.type = "ended"
  BY <1>1, <1>4 DEF channel, NextEvent, Finish
<1>5. CASE Event.type \in {"accepted", "rejected"}
  BY <1>1, <1>5 DEF channel, NextEvent
<1> QED BY <1>1, <1>2, <1>3, <1>4, <1>5

LEMMA AnsweredIs ==
  ASSUME Types, Answered
  PROVE  /\ events # <<>> /\ Event \in Events
         /\ \/ /\ Event = Frame("accepted", Tool(key)) /\ Event.type = "accepted"
               /\ task' = back /\ told' = told \cup {key} /\ UNCHANGED channel
            \/ /\ Event.type = "rejected"
               /\ task' = "http" /\ UNCHANGED <<channel, told>>
            \/ /\ Event.type = "ended"
               /\ task' = "http" /\ ended' = Event.what /\ UNCHANGED <<page, told>>
            \/ /\ Event.type = "page"
               /\ page' = Event.what /\ UNCHANGED <<ended, task, told>>
            \/ /\ Event.type \in {"accepted", "rejected"}
               /\ UNCHANGED <<task, told, channel>>
<1>1. events # <<>> /\ Event \in Events
  BY TailFacts DEF Answered, Types, Event
<1>2. Event.type \in {"page", "accepted", "rejected", "ended"}
  BY <1>1, EventFacts
<1>3. /\ Frame("accepted", Tool(key)).type = "accepted"
      /\ Frame("accepted", Tool(key)).what = Tool(key)
  BY DEF Frame
<1>4. CASE Event.type = "page"
  BY <1>1, <1>3, <1>4 DEF Answered, Keep
<1>5. CASE Event.type = "ended"
  BY <1>1, <1>3, <1>5 DEF Answered, Finish
<1>6. CASE Event.type = "accepted"
  BY <1>1, <1>3, <1>6 DEF Answered
<1>7. CASE Event.type = "rejected"
  BY <1>1, <1>3, <1>7 DEF Answered
<1> QED BY <1>1, <1>2, <1>4, <1>5, <1>6, <1>7

(* A frame the service sends.                                              *)
Sent(f) == f \in Events /\ down' = Append(down, f)

LEMMA SentIs ==
  ASSUME Types
  PROVE  /\ PushPage => /\ pushed' = pushed + 1 /\ pushed + 1 \in 1..MaxPages
                        /\ Sent(Frame("page", pushed + 1))
         /\ AnswerReceipt =>
              /\ up # <<>> /\ Head(up) \in Receipts /\ up' = Tail(up)
              /\ \E f \in Events :
                   /\ Sent(f) /\ PageOf(f) = 0
                   /\ \/ f.type = "accepted" /\ recorded' = recorded \cup {Head(up)}
                      \/ f.type # "accepted" /\ recorded' = recorded
         /\ ServiceCloses =>
              \E f \in Events : Sent(f) /\ ~IsAnswer(f) /\ PageOf(f) = 0
<1>1. ASSUME PushPage
      PROVE  /\ pushed' = pushed + 1 /\ pushed + 1 \in 1..MaxPages
             /\ Sent(Frame("page", pushed + 1))
  <2>1. pushed + 1 \in 1..MaxPages
    BY <1>1, ChannelAssumption DEF PushPage, Types
  <2> QED BY <1>1, <2>1, FrameFacts DEF PushPage, Send, Sent
<1>2. ASSUME AnswerReceipt
      PROVE  /\ up # <<>> /\ Head(up) \in Receipts /\ up' = Tail(up)
             /\ \E f \in Events :
                  /\ Sent(f) /\ PageOf(f) = 0
                  /\ \/ f.type = "accepted" /\ recorded' = recorded \cup {Head(up)}
                     \/ f.type # "accepted" /\ recorded' = recorded
  <2>1. up # <<>> /\ Head(up) \in Receipts /\ up' = Tail(up)
    BY <1>2, TailFacts DEF AnswerReceipt, Types
  <2>2. Tool(Head(up)) \in Tools
    BY <2>1 DEF Receipts, Tool
  <2>3. CASE /\ Send(Frame("accepted", Tool(Head(up))))
             /\ recorded' = recorded \cup {Head(up)}
    <3>1. Frame("accepted", Tool(Head(up))).type = "accepted"
      BY DEF Frame
    <3> QED BY <2>1, <2>2, <2>3, <3>1, FrameFacts DEF Send, Sent
  <2>4. CASE /\ \E who \in {None, Tool(Head(up))} : Send(Frame("rejected", who))
             /\ UNCHANGED recorded
    <3>1. PICK who \in Tools \cup {None} : Send(Frame("rejected", who))
      BY <2>2, <2>4
    <3> QED BY <2>1, <2>4, <3>1, FrameFacts DEF Send, Sent
  <2> QED BY <1>2, <2>3, <2>4 DEF AnswerReceipt
<1>3. ASSUME ServiceCloses
      PROVE  \E f \in Events : Sent(f) /\ ~IsAnswer(f) /\ PageOf(f) = 0
  <2>1. PICK end \in Ends : Send(Frame("ended", end))
    BY <1>3 DEF ServiceCloses
  <2> QED BY <2>1, FrameFacts DEF Send, Sent
<1> QED BY <1>1, <1>2, <1>3

LEMMA NextTypes ==
  ASSUME Types, [Next]_vars
  PROVE  Types'
<1> USE DEF session, channel, readPump, writePump, network, service, Tasks
<1>1. CASE PushPage \/ AnswerReceipt \/ ServiceCloses
  <2>1. down' \in Seq(Events) /\ pushed' \in 0..MaxPages /\ up' \in Seq(Receipts)
    <3>1. \A f \in Events : Append(down, f) \in Seq(Events)
      BY DEF Types
    <3>2. up # <<>> => Tail(up) \in Seq(Receipts)
      BY TailFacts DEF Types
    <3>3. down' \in Seq(Events)
      BY <1>1, <3>1, SentIs DEF Sent
    <3>4. pushed' \in 0..MaxPages
      <4>1. CASE PushPage
        BY <4>1, SentIs, ChannelAssumption DEF Types
      <4>2. CASE AnswerReceipt \/ ServiceCloses
        BY <4>2 DEF Types, AnswerReceipt, ServiceCloses
      <4> QED BY <1>1, <4>1, <4>2
    <3>5. up' \in Seq(Receipts)
      BY <1>1, <3>2 DEF Types, PushPage, AnswerReceipt, ServiceCloses
    <3> QED BY <3>3, <3>4, <3>5
  <2> QED BY <1>1, <2>1 DEF Types, PushPage, AnswerReceipt, ServiceCloses
<1>2. CASE Break
  <2>1. <<>> \in Seq(Receipts) /\ <<>> \in Seq(Events)
    OBVIOUS
  <2> QED BY <1>2, <2>1 DEF Break, Types
<1>3. CASE Read
  <2>1. Head(down) \in Events /\ Head(down) # None /\ Tail(down) \in Seq(Events)
    BY <1>3, TailFacts, EventFacts DEF Read, Types
  <2> QED BY <1>3, <2>1 DEF Read, Types
<1>4. CASE ReadLost
  <2>1. Frame("ended", "lost") \in Events /\ Frame("ended", "lost") # None
    BY FrameFacts, EventFacts DEF Ends
  <2> QED BY <1>4, <2>1 DEF ReadLost, Types
<1>5. CASE PutEvent
  <2>1. rheld \in Events
    BY <1>5 DEF PutEvent, Types
  <2>2. Append(events, rheld) \in Seq(Events)
    BY <2>1 DEF Types
  <2> QED BY <1>5, <2>2 DEF PutEvent, Types
<1>6. CASE TakeReceipt
  <2>1. Head(outbound) \in Receipts /\ Tail(outbound) \in Seq(Receipts)
    BY <1>6, TailFacts DEF TakeReceipt, Types
  <2>2. Head(outbound) # None
    BY <2>1, ChannelAssumption
  <2> QED BY <1>6, <2>1, <2>2 DEF TakeReceipt, Types
<1>7. CASE Write
  <2>1. wheld \in Receipts
    BY <1>7 DEF Write, Types
  <2>2. Append(up, wheld) \in Seq(Receipts)
    BY <2>1 DEF Types
  <2> QED BY <1>7, <2>2 DEF Write, Types
<1>8. CASE WriteFails
  BY <1>8 DEF WriteFails, Types
<1>9. CASE PutLost
  <2>1. Append(events, Frame("ended", "lost")) \in Seq(Events)
    BY FrameFacts DEF Types, Ends
  <2> QED BY <1>9, <2>1 DEF PutLost, Types
<1>10. CASE NextEvent
  <2>1. Tail(events) \in Seq(Events)
    BY <1>10, TailFacts DEF NextEvent, Types
  <2>2. page' \in 0..MaxPages /\ ended' \in Ends \cup {None}
    BY <1>10, NextEventIs, EventFacts DEF Types
  <2> QED BY <1>10, <2>1, <2>2 DEF NextEvent, Types
<1>11. CASE TakePage
  BY <1>11, ChannelAssumption DEF TakePage, Types
<1>12. CASE Newest
  <2>1. CASE events = <<>>
    BY <1>12, <2>1 DEF Newest, Types
  <2>2. CASE events # <<>>
    <3>1. Tail(events) \in Seq(Events) /\ Event \in Events
      BY <2>2, TailFacts DEF Types, Event
    <3>2. inHand' \in 0..MaxPages /\ ended' \in Ends \cup {None}
      BY <1>12, <2>2, <3>1, EventFacts DEF Newest, Types
    <3> QED BY <1>12, <2>2, <3>1, <3>2 DEF Newest, Types
  <2> QED BY <2>1, <2>2
<1>13. CASE Served
  BY <1>13 DEF Served, Types
<1>14. ASSUME NEW receipt \in Receipts, Deliver(receipt) PROVE Types'
  BY <1>14 DEF Deliver, Types
<1>15. CASE SendReceipt
  <2>1. Append(outbound, key) \in Seq(Receipts)
    BY <1>15 DEF SendReceipt, Types
  <2> QED BY <1>15, <2>1 DEF SendReceipt, Types, Ends
<1>16. CASE Answered
  <2>1. Tail(events) \in Seq(Events)
    BY <1>16, TailFacts DEF Answered, Types
  <2>2. /\ page' \in 0..MaxPages /\ ended' \in Ends \cup {None}
        /\ task' \in Tasks
    BY <1>16, AnsweredIs, EventFacts DEF Types
  <2> QED BY <1>16, <2>1, <2>2 DEF Answered, Types
<1>17. CASE AnswerLate
  BY <1>17 DEF AnswerLate, Types, Ends
<1>18. CASE Http
  BY <1>18 DEF Http, Types
<1>19. CASE Close \/ RunEnds
  BY <1>19 DEF Close, RunEnds, Drop, Types
<1>20. CASE UNCHANGED vars
  BY <1>20 DEF vars, Types
<1> QED
  BY <1>1, <1>2, <1>3, <1>4, <1>5, <1>6, <1>7, <1>8, <1>9, <1>10, <1>11,
     <1>12, <1>13, <1>14, <1>15, <1>16, <1>17, <1>18, <1>19, <1>20 DEF Next

(* An end is not forgotten, and a channel that is gone is gone.            *)
LEMMA EndStays ==
  ASSUME Types, [Next]_vars
  PROVE  (ended # None => ended' # None) /\ (task = "gone" => task' = "gone")
<1> USE DEF session, channel
<1>1. CASE NextEvent
  BY <1>1, NextEventIs DEF NextEvent
<1>2. CASE Newest
  <2>1. events # <<>> => Event \in Events
    BY TailFacts DEF Types, Event
  <2> QED BY <1>2, <2>1, EventFacts DEF Newest
<1>3. CASE Answered
  BY <1>3, AnsweredIs, EventFacts DEF Answered
<1>4. CASE SendReceipt \/ AnswerLate
  BY <1>4, ChannelAssumption DEF SendReceipt, AnswerLate, Ends
<1>5. ASSUME NEW receipt \in Receipts, Deliver(receipt)
      PROVE  (ended # None => ended' # None) /\ task # "gone"
  BY <1>5 DEF Deliver
<1>6. CASE Close \/ RunEnds
  BY <1>6 DEF Close, RunEnds, Drop
<1>7. CASE PushPage \/ AnswerReceipt \/ ServiceCloses \/ Break
  BY <1>7 DEF PushPage, AnswerReceipt, ServiceCloses, Break
<1>8. CASE Read \/ ReadLost \/ PutEvent
  BY <1>8 DEF Read, ReadLost, PutEvent
<1>9. CASE TakeReceipt \/ Write \/ WriteFails \/ PutLost
  BY <1>9 DEF TakeReceipt, Write, WriteFails, PutLost
<1>10. CASE TakePage \/ Served \/ Http
  BY <1>10 DEF TakePage, Served, Http
<1>11. CASE UNCHANGED vars
  BY <1>11 DEF vars
<1> QED
  BY <1>1, <1>2, <1>3, <1>4, <1>5, <1>6, <1>7, <1>8, <1>9, <1>10, <1>11 DEF Next

(* The one receipt, or the answer to it, goes from place to place.         *)
LEMMA NextFlight ==
  ASSUME Types, FlightOK, WaitOK, [Next]_vars
  PROVE  FlightOK'
<1> USE DEF session, channel, readPump, writePump, network, service
<1> DEFINE Goal == \E u \in Places : OneAt(u)' /\ (task' # "answer" => u = "nowhere")
<1> SUFFICES ASSUME task' # "gone", ended' = None
             PROVE  Goal
  BY DEF FlightOK
<1>0. task # "gone" /\ ended = None
  BY EndStays
<1> PICK w \in Places : OneAt(w) /\ (task # "answer" => w = "nowhere")
  BY <1>0 DEF FlightOK
<1>a. /\ up \in Seq(Receipts) /\ outbound \in Seq(Receipts)
      /\ down \in Seq(Events) /\ events \in Seq(Events)
  BY DEF Types
<1>1. CASE PushPage \/ ServiceCloses
  <2>1. PICK f \in Events : down' = Append(down, f) /\ ~IsAnswer(f)
    BY <1>1, SentIs, FrameFacts DEF Sent
  <2>2. /\ Lone(down) => Lone(down')
        /\ NoAnswer(down) => NoAnswer(down')
    BY <1>a, <2>1, LoneFacts
  <2>3. UNCHANGED <<outbound, wheld, up, rheld, events, task>>
    BY <1>1 DEF PushPage, ServiceCloses
  <2>4. OneAt(w)'
    BY <2>2, <2>3 DEF OneAt
  <2> QED BY <2>3, <2>4
<1>2. CASE AnswerReceipt
  <2>1. PICK f \in Events : down' = Append(down, f)
    BY <1>2, SentIs DEF Sent
  <2>2. w = "up" /\ Len(up) <= 1 /\ up # <<>> /\ up' = Tail(up)
    BY <1>2 DEF AnswerReceipt, OneAt
  <2>3. Len(up') = 0 /\ up' = <<>>
    BY <1>a, <2>2, LastOne
  <2>4. Lone(down')
    BY <1>a, <2>1, <2>2, LoneFacts DEF OneAt
  <2>5. UNCHANGED <<outbound, wheld, rheld, events, task>>
    BY <1>2 DEF AnswerReceipt
  <2>6. OneAt("down")'
    BY <2>2, <2>3, <2>4, <2>5 DEF OneAt
  <2> QED BY <2>2, <2>5, <2>6 DEF Places
<1>3. CASE Break
  <2>1. /\ up' = <<>> /\ down' = <<>> /\ Len(up') = 0
        /\ UNCHANGED <<outbound, wheld, rheld, events, task>>
    BY <1>3 DEF Break
  <2>2. NoAnswer(down') /\ Lone(down')
    BY <1>a, <2>1, LoneFacts
  <2>3. OneAt(w)'
    BY <2>1, <2>2 DEF OneAt
  <2> QED BY <2>1, <2>3
<1>4. CASE Read
  <2>1. /\ down # <<>> /\ down' = Tail(down) /\ rheld' = Head(down)
        /\ UNCHANGED <<outbound, wheld, up, events, task>>
    BY <1>4 DEF Read
  <2>2. /\ Lone(down')
        /\ IsAnswer(rheld') => NoAnswer(down')
        /\ NoAnswer(down) => NoAnswer(down') /\ ~IsAnswer(rheld')
    BY <1>a, <2>1, LoneFacts DEF OneAt
  <2>3. CASE IsAnswer(rheld')
    <3>1. w = "down"
      BY <2>2, <2>3 DEF OneAt
    <3>2. OneAt("reader")'
      BY <2>1, <2>2, <2>3, <3>1 DEF OneAt
    <3> QED BY <2>1, <3>1, <3>2 DEF Places
  <2>4. CASE ~IsAnswer(rheld')
    <3>1. OneAt(w)'
      BY <2>1, <2>2, <2>4 DEF OneAt
    <3> QED BY <2>1, <3>1
  <2> QED BY <2>3, <2>4
<1>5. CASE ReadLost
  <2>1. /\ ~IsAnswer(rheld')
        /\ UNCHANGED <<outbound, wheld, up, down, events, task>>
    BY <1>5, FrameFacts DEF ReadLost, Ends
  <2>2. OneAt(w)'
    BY <2>1 DEF OneAt
  <2> QED BY <2>1, <2>2
<1>6. CASE PutEvent
  <2>1. /\ rheld \in Events /\ events' = Append(events, rheld) /\ rheld' = None
        /\ UNCHANGED <<outbound, wheld, up, down, task>>
    BY <1>6 DEF PutEvent, Types
  <2>2. ~IsAnswer(rheld')
    BY <2>1, PageOfFacts
  <2>3. CASE IsAnswer(rheld)
    <3>1. w = "reader" /\ NoAnswer(events)
      BY <2>3 DEF OneAt
    <3>2. Lone(events')
      BY <1>a, <2>1, <3>1, LoneFacts
    <3>3. OneAt("events")'
      BY <2>1, <2>2, <3>1, <3>2 DEF OneAt
    <3> QED BY <2>1, <3>1, <3>3 DEF Places
  <2>4. CASE ~IsAnswer(rheld)
    <3>1. Lone(events') /\ (NoAnswer(events) => NoAnswer(events'))
      BY <1>a, <2>1, <2>4, LoneFacts DEF OneAt
    <3>2. OneAt(w)'
      BY <2>1, <2>2, <3>1 DEF OneAt
    <3> QED BY <2>1, <3>2
  <2> QED BY <2>3, <2>4
<1>7. CASE TakeReceipt
  <2>1. /\ w = "outbound" /\ outbound' = Tail(outbound)
        /\ outbound # <<>> /\ Len(outbound) <= 1
        /\ UNCHANGED <<up, down, rheld, events, task>>
    BY <1>7 DEF TakeReceipt, OneAt
  <2>2. Len(outbound') = 0 /\ outbound' = <<>>
    BY <1>a, <2>1, LastOne
  <2>3. OneAt("writer")'
    BY <2>1, <2>2 DEF OneAt
  <2> QED BY <2>1, <2>3 DEF Places
<1>8. CASE Write
  <2>1. /\ wheld \in Receipts /\ wheld # None /\ wheld' = None
        /\ up' = Append(up, wheld)
        /\ UNCHANGED <<outbound, down, rheld, events, task>>
    BY <1>8 DEF Write, Types
  <2>2. w = "writer" /\ up = <<>>
    BY <2>1 DEF OneAt
  <2>3. Len(up') = 1
    BY <1>a, <2>1, <2>2, AppendFacts
  <2>4. OneAt("up")'
    BY <2>1, <2>2, <2>3 DEF OneAt
  <2> QED BY <2>1, <2>2, <2>4 DEF Places
<1>9. CASE WriteFails
  <2>1. wheld' = None /\ UNCHANGED <<outbound, up, down, rheld, events, task>>
    BY <1>9 DEF WriteFails
  <2>2. OneAt(w)'
    BY <2>1 DEF OneAt
  <2> QED BY <2>1, <2>2
<1>10. CASE PutLost
  <2>1. /\ events' = Append(events, Frame("ended", "lost"))
        /\ UNCHANGED <<outbound, wheld, up, down, rheld, task>>
    BY <1>10 DEF PutLost
  <2>2. Lone(events') /\ (NoAnswer(events) => NoAnswer(events'))
    BY <1>a, <2>1, LoneFacts, FrameFacts DEF OneAt, Ends
  <2>3. OneAt(w)'
    BY <2>1, <2>2 DEF OneAt
  <2> QED BY <2>1, <2>3
<1>11. CASE NextEvent \/ (Newest /\ events # <<>>)
  <2>1. /\ events # <<>> /\ events' = Tail(events)
        /\ task # "answer" /\ task' = task
        /\ UNCHANGED <<outbound, wheld, up, down, rheld>>
    BY <1>11 DEF NextEvent, Newest
  <2>2. NoAnswer(events') /\ Lone(events')
    BY <1>a, <2>1, LoneFacts DEF OneAt
  <2>3. OneAt(w)'
    BY <2>1, <2>2 DEF OneAt
  <2> QED BY <2>1, <2>3
<1>12. CASE TakePage \/ (Newest /\ events = <<>>) \/ Served \/ Http
  <2>1. UNCHANGED <<outbound, wheld, up, down, rheld, events>> /\ task # "answer"
    BY <1>12 DEF TakePage, Newest, Served, Http
  <2>2. OneAt(w)'
    BY <2>1 DEF OneAt
  <2> QED BY <2>1, <2>2
<1>13. ASSUME NEW receipt \in Receipts, Deliver(receipt) PROVE Goal
  <2>1. UNCHANGED <<outbound, wheld, up, down, rheld, events>> /\ task # "answer"
    BY <1>13 DEF Deliver
  <2>2. OneAt(w)'
    BY <2>1 DEF OneAt
  <2> QED BY <2>1, <2>2
<1>14. CASE SendReceipt
  <2>1. /\ key \in Receipts /\ w = "nowhere" /\ outbound = <<>>
        /\ outbound' = Append(outbound, key) /\ task' = "answer"
        /\ UNCHANGED <<wheld, up, down, rheld, events>>
    BY <1>14, ChannelAssumption DEF SendReceipt, Types, OneAt, Ends
  <2>2. Len(outbound') = 1
    BY <1>a, <2>1, AppendFacts
  <2>3. OneAt("outbound")'
    BY <2>1, <2>2 DEF OneAt
  <2> QED BY <2>1, <2>3 DEF Places
<1>15. CASE Answered
  <2>1. /\ events # <<>> /\ events' = Tail(events) /\ Event = Head(events)
        /\ Event \in Events /\ task = "answer"
        /\ UNCHANGED <<outbound, wheld, up, down, rheld>>
    BY <1>15, AnsweredIs DEF Answered, Event
  <2>2. CASE Event.type \in {"accepted", "rejected"}
    <3>1. IsAnswer(Head(events))
      BY <2>1, <2>2, EventFacts DEF IsAnswer
    <3>2. w = "events"
      BY <1>a, <2>1, <3>1, LoneFacts DEF OneAt
    <3>3. NoAnswer(events') /\ Lone(events')
      BY <1>a, <2>1, <3>1, LoneFacts DEF OneAt
    <3>4. OneAt("nowhere")'
      BY <2>1, <3>2, <3>3 DEF OneAt
    <3> QED BY <3>4 DEF Places
  <2>3. CASE Event.type = "page"
    <3>1. Lone(events') /\ (NoAnswer(events) => NoAnswer(events'))
      BY <1>a, <2>1, LoneFacts DEF OneAt
    <3>2. OneAt(w)'
      BY <2>1, <3>1 DEF OneAt
    <3>3. task' = task
      BY <1>15, <2>3, AnsweredIs, EventFacts
    <3> QED BY <3>2, <3>3
  <2>4. Event.type # "ended"
    BY <1>15, <2>1, AnsweredIs, EventFacts
  <2> QED BY <2>1, <2>2, <2>3, <2>4, EventFacts
<1>16. CASE AnswerLate
  BY <1>16, ChannelAssumption DEF AnswerLate, Ends
<1>17. CASE Close \/ RunEnds
  BY <1>17 DEF Close, RunEnds, Drop
<1>18. CASE UNCHANGED vars
  <2>1. UNCHANGED <<outbound, wheld, up, down, rheld, events, task>>
    BY <1>18 DEF vars
  <2>2. OneAt(w)'
    BY <2>1 DEF OneAt
  <2> QED BY <2>1, <2>2
<1> HIDE DEF Goal
<1> QED
  BY <1>1, <1>2, <1>3, <1>4, <1>5, <1>6, <1>7, <1>8, <1>9, <1>10, <1>11,
     <1>12, <1>13, <1>14, <1>15, <1>16, <1>17, <1>18 DEF Next

(* What is on its way to the work task, after each kind of step.           *)
LEMMA SentFlow ==
  ASSUME Types, NEW f \in Events, Sent(f), UNCHANGED <<events, rheld>>
  PROVE  OnTheWay' = OnTheWay \cup {f} /\ Range(down') = Range(down) \cup {f}
<1>1. Range(down') = Range(down) \cup {f}
  BY RangeFacts DEF Types, Sent
<1> QED BY <1>1 DEF OnTheWay

LEMMA PumpFlow ==
  ASSUME Types, Read \/ ReadLost \/ PutEvent \/ PutLost
  PROVE  /\ OnTheWay' \subseteq OnTheWay \cup {None, Frame("ended", "lost")}
         /\ OnTheWay \ {None} \subseteq OnTheWay'
<1> USE DEF network
<1>1. CASE Read
  <2>1. /\ Range(down) = {rheld'} \cup Range(down') /\ events' = events /\ rheld = None
    BY <1>1, RangeFacts DEF Types, Read
  <2> QED BY <2>1 DEF OnTheWay
<1>2. CASE ReadLost
  BY <1>2 DEF ReadLost, OnTheWay, Types
<1>3. CASE PutEvent
  <2>1. rheld \in Events /\ events' = Append(events, rheld) /\ rheld' = None /\ down' = down
    BY <1>3 DEF PutEvent, Types
  <2>2. Range(events') = Range(events) \cup {rheld}
    BY <2>1, RangeFacts DEF Types
  <2> QED BY <2>1, <2>2 DEF OnTheWay
<1>4. CASE PutLost
  <2>1. Range(events') = Range(events) \cup {Frame("ended", "lost")}
    BY <1>4, RangeFacts, FrameFacts DEF PutLost, Types, Ends
  <2> QED BY <1>4, <2>1 DEF PutLost, readPump, OnTheWay
<1> QED BY <1>1, <1>2, <1>3, <1>4

LEMMA TakenFlow ==
  ASSUME Types, events # <<>>, events' = Tail(events), UNCHANGED <<rheld, down>>
  PROVE  /\ OnTheWay = OnTheWay' \cup {Event} /\ Event \in Events
         /\ Range(events) = Range(events') \cup {Event}
<1>1. Range(events) = {Event} \cup Range(events') /\ Event \in Events
  BY RangeFacts, TailFacts DEF Types, Event
<1> QED BY <1>1 DEF OnTheWay

LEMMA NextWait ==
  ASSUME Types, FlightOK, WaitOK, [Next]_vars
  PROVE  WaitOK'
<1> USE DEF session, channel, readPump, writePump, network, service
<1> DEFINE Answer ==
      task = "answer" =>
       /\ Range(outbound) \subseteq {key} /\ Range(up) \subseteq {key}
       /\ wheld \in {key, None}
       /\ \A e \in OnTheWay : e # None /\ e.type = "accepted" => key \in recorded
<1>a. WaitOK <=> (task \in {"send", "answer"} => ended = None) /\ Answer
  BY DEF WaitOK
<1>b. WaitOK' <=> (task' \in {"send", "answer"} => ended' = None) /\ Answer'
  BY DEF WaitOK
<1>c. /\ up \in Seq(Receipts) /\ outbound \in Seq(Receipts)
      /\ down \in Seq(Events) /\ events \in Seq(Events)
  BY DEF Types
<1>d. /\ Frame("ended", "lost") # None /\ Frame("ended", "lost").type # "accepted"
  BY FrameFacts, EventFacts DEF Ends, Frame
<1>1. CASE PushPage \/ ServiceCloses
  <2>1. PICK f \in Events : Sent(f) /\ ~IsAnswer(f)
    BY <1>1, SentIs, FrameFacts
  <2>2. UNCHANGED <<outbound, wheld, up, rheld, events, task, ended, key, recorded>>
    BY <1>1 DEF PushPage, ServiceCloses
  <2>3. OnTheWay' = OnTheWay \cup {f}
    BY <2>1, <2>2, SentFlow
  <2>4. Answer'
    BY <1>a, <2>1, <2>2, <2>3 DEF IsAnswer
  <2> QED BY <1>a, <1>b, <2>2, <2>4
<1>2. CASE AnswerReceipt
  <2>1. PICK f \in Events :
          /\ Sent(f)
          /\ \/ f.type = "accepted" /\ recorded' = recorded \cup {Head(up)}
             \/ f.type # "accepted" /\ recorded' = recorded
    BY <1>2, SentIs
  <2>2. /\ up # <<>> /\ up' = Tail(up)
        /\ UNCHANGED <<outbound, wheld, rheld, events, task, ended, key>>
    BY <1>2 DEF AnswerReceipt
  <2>3. OnTheWay' = OnTheWay \cup {f}
    BY <2>1, <2>2, SentFlow
  <2>4. Head(up) \in Range(up) /\ Range(up') \subseteq Range(up)
    BY <1>c, <2>2, RangeFacts
  <2>5. Answer'
    BY <1>a, <2>1, <2>2, <2>3, <2>4
  <2> QED BY <1>a, <1>b, <2>2, <2>5
<1>3. CASE Break
  <2>1. /\ up' = <<>> /\ down' = <<>>
        /\ UNCHANGED <<outbound, wheld, rheld, events, task, ended, key, recorded>>
    BY <1>3 DEF Break
  <2>2. Range(up') = {} /\ Range(down') = {}
    BY <2>1 DEF Range
  <2>3. Answer'
    BY <1>a, <2>1, <2>2 DEF OnTheWay
  <2> QED BY <1>a, <1>b, <2>1, <2>3
<1>4. CASE Read \/ ReadLost \/ PutEvent \/ PutLost
  <2>1. UNCHANGED <<outbound, wheld, up, task, ended, key, recorded>>
    BY <1>4 DEF Read, ReadLost, PutEvent, PutLost
  <2>2. OnTheWay' \subseteq OnTheWay \cup {None, Frame("ended", "lost")}
    BY <1>4, PumpFlow
  <2>3. Answer'
    BY <1>a, <1>d, <2>1, <2>2
  <2> QED BY <1>a, <1>b, <2>1, <2>3
<1>5. CASE TakeReceipt
  <2>1. /\ outbound # <<>> /\ outbound' = Tail(outbound) /\ wheld' = Head(outbound)
        /\ UNCHANGED <<up, down, rheld, events, task, ended, key, recorded>>
    BY <1>5 DEF TakeReceipt
  <2>2. Range(outbound) = {wheld'} \cup Range(outbound')
    BY <1>c, <2>1, RangeFacts
  <2>3. Answer'
    BY <1>a, <2>1, <2>2 DEF OnTheWay
  <2> QED BY <1>a, <1>b, <2>1, <2>3
<1>6. CASE Write
  <2>1. /\ wheld \in Receipts /\ wheld' = None /\ up' = Append(up, wheld)
        /\ UNCHANGED <<outbound, down, rheld, events, task, ended, key, recorded>>
    BY <1>6 DEF Write, Types
  <2>2. Range(up') = Range(up) \cup {wheld} /\ wheld # None
    BY <1>c, <2>1, RangeFacts, ChannelAssumption
  <2>3. Answer'
    BY <1>a, <2>1, <2>2 DEF OnTheWay
  <2> QED BY <1>a, <1>b, <2>1, <2>3
<1>7. CASE WriteFails
  <2>1. /\ wheld' = None
        /\ UNCHANGED <<outbound, up, down, rheld, events, task, ended, key, recorded>>
    BY <1>7 DEF WriteFails
  <2>2. Answer'
    BY <1>a, <2>1 DEF OnTheWay
  <2> QED BY <1>a, <1>b, <2>1, <2>2
<1>8. CASE NextEvent \/ TakePage \/ Newest \/ Served \/ Http \/ Close \/ RunEnds
  <2>1. task' \notin {"send", "answer"}
    BY <1>8 DEF NextEvent, TakePage, Newest, Served, Http, Close, RunEnds, Drop, Types
  <2> QED BY <1>b, <2>1
<1>9. ASSUME NEW receipt \in Receipts, Deliver(receipt) PROVE WaitOK'
  <2>1. task' # "answer" /\ (task' = "send" => ended' = None)
    BY <1>9 DEF Deliver
  <2> QED BY <1>b, <2>1
<1>10. CASE SendReceipt
  <2>1. CASE writer = "done"
    BY <1>b, <1>10, <2>1 DEF SendReceipt
  <2>2. CASE writer # "done"
    <3>1. /\ ended = None /\ ended' = None /\ task = "send" /\ task' = "answer"
          /\ outbound' = Append(outbound, key) /\ key \in Receipts
          /\ UNCHANGED <<wheld, up, down, rheld, events, key>>
      BY <1>a, <1>10, <2>2 DEF SendReceipt, Types
    <3>2. OneAt("nowhere")
      BY <3>1 DEF FlightOK
    <3>3. /\ outbound = <<>> /\ up = <<>> /\ wheld = None
          /\ \A e \in OnTheWay : ~IsAnswer(e)
      BY <3>2 DEF OneAt, OnTheWay, NoAnswer
    <3>4. Range(outbound') = {key} /\ Range(up) = {}
      <4>1. Range(outbound) = {} /\ Range(up) = {}
        BY <1>c, <3>3, RangeFacts
      <4>2. Range(outbound') = Range(outbound) \cup {key}
        BY <1>c, <3>1, RangeFacts
      <4> QED BY <4>1, <4>2
    <3>5. Answer'
      BY <3>1, <3>3, <3>4 DEF OnTheWay, IsAnswer
    <3> QED BY <1>b, <3>1, <3>5
  <2> QED BY <2>1, <2>2
<1>11. CASE Answered
  <2>1. /\ events # <<>> /\ events' = Tail(events) /\ task = "answer"
        /\ UNCHANGED <<outbound, wheld, up, down, rheld, key, recorded>>
    BY <1>11 DEF Answered
  <2>2. OnTheWay' \subseteq OnTheWay
    BY <2>1, TakenFlow
  <2>3. Answer'
    BY <1>a, <2>1, <2>2
  <2>4. task' \in {"send", "answer"} => ended' = ended
    BY <1>11, <2>1, AnsweredIs DEF Types
  <2> QED BY <1>a, <1>b, <2>1, <2>3, <2>4
<1>12. CASE AnswerLate
  BY <1>b, <1>12 DEF AnswerLate
<1>13. CASE UNCHANGED vars
  BY <1>13 DEF vars, WaitOK, OnTheWay
<1> QED
  BY <1>1, <1>2, <1>3, <1>4, <1>5, <1>6, <1>7, <1>8, <1>9, <1>10, <1>11,
     <1>12, <1>13 DEF Next

(* The answer the task takes for its own says that the service has the     *)
(* receipt.                                                                *)
LEMMA NextAccepted ==
  ASSUME Types, WaitOK, AcceptedIsRecorded, [Next]_vars
  PROVE  AcceptedIsRecorded'
<1> USE DEF session, service
<1>1. recorded \subseteq recorded'
  BY DEF Next, vars, PushPage, AnswerReceipt, ServiceCloses, Break, Read, ReadLost,
         PutEvent, TakeReceipt, Write, WriteFails, PutLost, NextEvent, TakePage,
         Newest, Served, Deliver, SendReceipt, Answered, AnswerLate, Http,
         Close, RunEnds, Drop
<1>2. CASE Answered
  <2>1. task = "answer" /\ events # <<>> /\ Event \in Events /\ recorded' = recorded
    BY <1>2, AnsweredIs DEF Answered
  <2>2. Event \in OnTheWay /\ Event # None
    BY <2>1, RangeFacts, EventFacts DEF Types, OnTheWay, Event
  <2>3. Event.type = "accepted" => key \in recorded
    BY <2>1, <2>2 DEF WaitOK
  <2>4. told' \subseteq told \cup {key} /\ (Event.type # "accepted" => told' = told)
    BY <1>2, AnsweredIs
  <2>5. told' \subseteq recorded'
    BY <2>1, <2>3, <2>4 DEF AcceptedIsRecorded
  <2> QED BY <2>5 DEF AcceptedIsRecorded
<1>3. CASE ~Answered
  <2>1. told' = told
    BY <1>3
    DEF Next, vars, PushPage, AnswerReceipt, ServiceCloses, Break, Read, ReadLost,
        PutEvent, TakeReceipt, Write, WriteFails, PutLost, NextEvent, TakePage,
        Newest, Served, Deliver, SendReceipt, AnswerLate, Http,
        Close, RunEnds, Drop
  <2> QED BY <1>1, <2>1 DEF AcceptedIsRecorded
<1> QED BY <1>2, <1>3

(* Pages are served in the order of the service.                           *)
LEMMA NextOrder ==
  ASSUME Types, OrderOK, [Next]_vars
  PROVE  OrderOK'
<1> USE DEF session, channel, readPump, writePump, network, service
<1>a. /\ down \in Seq(Events) /\ events \in Seq(Events) /\ rheld \in Events \cup {None}
      /\ pushed \in Nat /\ page \in Nat /\ inHand \in Nat
      /\ Range(down) \subseteq Events /\ Range(events) \subseteq Events
  BY RangeFacts, ChannelAssumption DEF Types
<1>b. \A e \in OnTheWay : PageOf(e) \in Nat /\ e \in Events \cup {None}
  BY <1>a, PageOfFacts, ChannelAssumption DEF OnTheWay
<1>c. Sorted(<<>>)
  BY SortedFacts, <1>a
<1>1. ASSUME NEW f \in Events, Sent(f), UNCHANGED <<events, rheld, page, inHand>>,
             pushed' \in Nat, pushed <= pushed', PageOf(f) \in {0, pushed'},
             PageOf(f) # 0 => pushed < pushed'
      PROVE  OrderOK'
  <2>1. Range(down') = Range(down) \cup {f} /\ OnTheWay' = OnTheWay \cup {f}
    BY <1>1, SentFlow
  <2>2. \A e \in OnTheWay : PageOf(e) <= pushed /\ After(PageOf(e), f)
    BY <1>1, <1>a, <1>b DEF OrderOK, After
  <2>3. After(inHand, f) /\ After(page, f)
    BY <1>1, <1>a DEF OrderOK, After
  <2>4. Sorted(down')
    BY <1>1, <1>a, <2>2, SortedFacts DEF Sent, OrderOK, OnTheWay
  <2>5. page' <= pushed' /\ inHand' <= pushed'
    BY <1>1, <1>a DEF OrderOK
  <2>6. \A e \in OnTheWay' : After(inHand', e) /\ After(page', e) /\ PageOf(e) <= pushed'
    BY <1>1, <1>a, <1>b, <2>1, <2>2, <2>3 DEF OrderOK
  <2>7. \A e \in Range(events') \cup {rheld'}, g \in Range(down') : After(PageOf(e), g)
    BY <1>1, <2>1, <2>2 DEF OrderOK, OnTheWay
  <2> QED BY <1>1, <2>4, <2>5, <2>6, <2>7 DEF OrderOK
<1>2. CASE PushPage
  <2>1. /\ pushed' = pushed + 1 /\ pushed + 1 \in 1..MaxPages
        /\ Sent(Frame("page", pushed + 1))
    BY <1>2, SentIs
  <2>2. Frame("page", pushed + 1) \in Events /\ PageOf(Frame("page", pushed + 1)) = pushed'
    BY <2>1, FrameFacts
  <2>3. UNCHANGED <<events, rheld, page, inHand>>
    BY <1>2 DEF PushPage
  <2>4. pushed' \in Nat /\ pushed < pushed'
    BY <1>a, <2>1
  <2> QED BY <1>1, <1>a, <2>1, <2>2, <2>3, <2>4
<1>3. CASE AnswerReceipt \/ ServiceCloses
  <2>1. PICK f \in Events : Sent(f) /\ PageOf(f) = 0
    BY <1>3, SentIs
  <2>2. UNCHANGED <<events, rheld, page, inHand, pushed>>
    BY <1>3 DEF AnswerReceipt, ServiceCloses
  <2> QED BY <1>1, <1>a, <2>1, <2>2
<1>4. CASE Break
  <2>1. down' = <<>> /\ UNCHANGED <<events, rheld, page, inHand, pushed>>
    BY <1>4 DEF Break
  <2>2. Range(down') = {}
    BY <2>1 DEF Range
  <2> QED BY <1>c, <2>1, <2>2 DEF OrderOK, OnTheWay
<1>5. CASE Read
  <2>1. /\ down # <<>> /\ down' = Tail(down) /\ rheld' = Head(down)
        /\ UNCHANGED <<events, page, inHand, pushed>>
    BY <1>5 DEF Read
  <2>2. Range(down) = {rheld'} \cup Range(down')
    BY <1>a, <2>1, RangeFacts
  <2>3. Sorted(down') /\ \A f \in Range(down') : After(PageOf(rheld'), f)
    BY <1>a, <2>1, SortedFacts DEF OrderOK
  <2> QED BY <2>1, <2>2, <2>3 DEF OrderOK, OnTheWay
<1>6. CASE ReadLost
  <2>1. PageOf(rheld') = 0 /\ UNCHANGED <<events, down, page, inHand, pushed>>
    BY <1>6, FrameFacts DEF ReadLost, Ends
  <2>2. \A f \in Range(down) : After(0, f)
    <3>1. \A f \in Range(down) : PageOf(f) \in Nat
      BY <1>a, PageOfFacts, ChannelAssumption
    <3> QED BY <3>1 DEF After
  <2> QED BY <1>a, <2>1, <2>2 DEF OrderOK, OnTheWay, After
<1>7. CASE PutEvent
  <2>1. /\ rheld \in Events /\ events' = Append(events, rheld) /\ rheld' = None
        /\ UNCHANGED <<down, page, inHand, pushed>>
    BY <1>7 DEF PutEvent, Types
  <2>2. Range(events') = Range(events) \cup {rheld}
    BY <1>a, <2>1, RangeFacts
  <2>3. Sorted(events')
    BY <1>a, <2>1, SortedFacts DEF OrderOK
  <2>4. PageOf(rheld') = 0
    BY <2>1, PageOfFacts
  <2>5. \A f \in Range(down) : After(0, f)
    <3>1. \A f \in Range(down) : PageOf(f) \in Nat
      BY <1>a, PageOfFacts, ChannelAssumption
    <3> QED BY <3>1 DEF After
  <2> QED BY <1>a, <2>1, <2>2, <2>3, <2>4, <2>5 DEF OrderOK, OnTheWay, After
<1>8. CASE PutLost
  <2> DEFINE f == Frame("ended", "lost")
  <2>1. /\ events' = Append(events, f) /\ f \in Events /\ PageOf(f) = 0
        /\ UNCHANGED <<rheld, down, page, inHand, pushed>>
    BY <1>8, FrameFacts DEF PutLost, Ends
  <2> HIDE DEF f
  <2>2. Range(events') = Range(events) \cup {f}
    BY <1>a, <2>1, RangeFacts
  <2>3. \A e \in Range(events) : After(PageOf(e), f)
    BY <2>1 DEF After
  <2>4. Sorted(events')
    BY <1>a, <2>1, <2>3, SortedFacts DEF OrderOK
  <2>5. \A e \in OnTheWay : After(0, e)
    BY <1>b DEF After
  <2>6. After(PageOf(f), rheld) /\ \A g \in Range(down) : After(PageOf(f), g)
    BY <2>1, <2>5 DEF OnTheWay
  <2>7. PageOf(f) <= pushed /\ After(inHand, f) /\ After(page, f)
    BY <1>a, <2>1 DEF After
  <2> QED BY <2>1, <2>2, <2>4, <2>6, <2>7 DEF OrderOK, OnTheWay
<1>9. ASSUME events # <<>>, events' = Tail(events), UNCHANGED <<rheld, down, pushed>>
      PROVE  /\ Sorted(events') /\ Event \in OnTheWay /\ Event \in Events
             /\ OnTheWay' \subseteq OnTheWay /\ Range(events') \subseteq Range(events)
             /\ \A f \in OnTheWay' : After(PageOf(Event), f)
  <2>1. /\ OnTheWay = OnTheWay' \cup {Event} /\ Event \in Events
        /\ Range(events) = Range(events') \cup {Event}
    BY <1>9, TakenFlow
  <2>2. Sorted(events') /\ \A f \in Range(events') : After(PageOf(Event), f)
    BY <1>9, <1>a, SortedFacts DEF OrderOK, Event
  <2>3. After(PageOf(Event), rheld') /\ \A f \in Range(down') : After(PageOf(Event), f)
    BY <1>9, <2>1 DEF OrderOK
  <2> QED BY <2>1, <2>2, <2>3 DEF OnTheWay
<1>10. ASSUME events # <<>>, events' = Tail(events), UNCHANGED <<rheld, down, pushed>>,
              \/ UNCHANGED <<page, inHand>>
              \/ Event.type = "page" /\ page' = Event.what /\ inHand' = inHand
              \/ Event.type = "page" /\ inHand' = Event.what /\ page' = page /\ page = 0
       PROVE  OrderOK'
  <2>1. /\ Sorted(events') /\ Event \in OnTheWay /\ Event \in Events
        /\ OnTheWay' \subseteq OnTheWay /\ Range(events') \subseteq Range(events)
        /\ \A f \in OnTheWay' : After(PageOf(Event), f)
    BY <1>9, <1>10
  <2>2. Event.type = "page" => /\ PageOf(Event) = Event.what /\ Event.what # 0
                               /\ inHand < Event.what /\ Event.what <= pushed
    BY <1>a, <2>1, EventFacts DEF PageOf, OrderOK, After
  <2>3. /\ page' # 0 => inHand' < page'
        /\ page' <= pushed' /\ inHand' <= pushed'
    BY <1>10, <2>2 DEF OrderOK
  <2>4. \A e \in OnTheWay' : After(inHand', e) /\ After(page', e) /\ PageOf(e) <= pushed'
    BY <1>10, <2>1, <2>2 DEF OrderOK
  <2> QED BY <1>10, <2>1, <2>3, <2>4 DEF OrderOK
<1>11. CASE NextEvent
  BY <1>10, <1>11, NextEventIs DEF NextEvent
<1>12. CASE Answered
  BY <1>10, <1>12, AnsweredIs DEF Answered
<1>13. CASE Newest
  <2>1. CASE events = <<>>
    BY <1>13, <2>1 DEF Newest, OrderOK, OnTheWay
  <2>2. CASE events # <<>>
    BY <1>10, <1>13, <2>2 DEF Newest, Types
  <2> QED BY <2>1, <2>2
<1>14. CASE TakePage
  <2>1. CASE page # 0
    <3>1. inHand' = page /\ page' = 0 /\ UNCHANGED <<events, rheld, down, pushed>>
      BY <1>14, <2>1 DEF TakePage
    <3>2. \A e \in OnTheWay : After(0, e)
      BY <1>b DEF After
    <3> QED BY <1>a, <3>1, <3>2 DEF OrderOK, OnTheWay
  <2>2. CASE page = 0
    BY <1>14, <2>2 DEF TakePage, OrderOK, OnTheWay
  <2> QED BY <2>1, <2>2
<1>15. CASE Close \/ RunEnds
  <2>1. rheld' = None /\ UNCHANGED <<events, down, page, inHand, pushed>>
    BY <1>15 DEF Close, RunEnds, Drop
  <2>2. PageOf(rheld') = 0
    BY <2>1, PageOfFacts
  <2>3. \A f \in Range(down) : After(0, f)
    <3>1. \A f \in Range(down) : PageOf(f) \in Nat
      BY <1>a, PageOfFacts, ChannelAssumption
    <3> QED BY <3>1 DEF After
  <2> QED BY <1>a, <2>1, <2>2, <2>3 DEF OrderOK, OnTheWay, After
<1>16. ASSUME UNCHANGED <<events, rheld, down, page, inHand, pushed>>
       PROVE  OrderOK'
  BY <1>16 DEF OrderOK, OnTheWay
<1>17. CASE TakeReceipt \/ Write \/ WriteFails \/ Served \/ SendReceipt
            \/ AnswerLate \/ Http \/ UNCHANGED vars
  BY <1>16, <1>17 DEF TakeReceipt, Write, WriteFails, Served, SendReceipt,
                      AnswerLate, Http, vars
<1>18. ASSUME NEW receipt \in Receipts, Deliver(receipt) PROVE OrderOK'
  BY <1>16, <1>18 DEF Deliver
<1> QED
  BY <1>2, <1>3, <1>4, <1>5, <1>6, <1>7, <1>8, <1>11, <1>12, <1>13, <1>14,
     <1>15, <1>17, <1>18 DEF Next

(* A page of the service is taken only for a newer one.                    *)
LEMMA NextNewest ==
  ASSUME Types, OrderOK, NewestOK, [Next]_vars
  PROVE  NewestOK'
<1> USE DEF session, channel, readPump, writePump, network, service
<1> DEFINE Live == task \notin {"close", "gone"} /\ ~broken /\ reader # "done"
           Kept == \/ pushed = inHand \/ pushed = page
                   \/ \E e \in OnTheWay : PageOf(e) = pushed
<1> SUFFICES ASSUME Live', pushed' > 0 PROVE Kept'
  BY DEF NewestOK
<1>a. /\ pushed \in Nat /\ page \in Nat /\ inHand \in Nat
      /\ PageOf(None) = 0 /\ rheld \in Events \cup {None}
  BY PageOfFacts, ChannelAssumption DEF Types
<1>1. CASE PushPage
  <2>1. /\ pushed' = pushed + 1 /\ pushed + 1 \in 1..MaxPages
        /\ Sent(Frame("page", pushed + 1))
    BY <1>1, SentIs
  <2>2. Frame("page", pushed + 1) \in Events /\ PageOf(Frame("page", pushed + 1)) = pushed'
    BY <2>1, FrameFacts
  <2>3. UNCHANGED <<events, rheld>>
    BY <1>1 DEF PushPage
  <2>4. Frame("page", pushed + 1) \in OnTheWay'
    BY <2>1, <2>2, <2>3, SentFlow
  <2> QED BY <2>2, <2>4
<1>b. ASSUME Live, pushed' = pushed PROVE Kept
  BY <1>b DEF NewestOK
<1>c. ASSUME Live, UNCHANGED <<pushed, inHand, page>>, OnTheWay \ {None} \subseteq OnTheWay'
      PROVE  Kept'
  <2>1. Kept
    BY <1>b, <1>c
  <2>2. ASSUME NEW e \in OnTheWay, PageOf(e) = pushed PROVE e \in OnTheWay'
    BY <1>a, <1>c, <2>2
  <2> QED BY <1>c, <2>1, <2>2
<1>2. CASE AnswerReceipt \/ ServiceCloses
  <2>1. PICK f \in Events : Sent(f)
    BY <1>2, SentIs
  <2>2. UNCHANGED <<events, rheld, page, inHand, pushed, task, broken, reader>>
    BY <1>2 DEF AnswerReceipt, ServiceCloses
  <2>3. OnTheWay' = OnTheWay \cup {f}
    BY <2>1, <2>2, SentFlow
  <2> QED BY <1>c, <2>2, <2>3
<1>3. CASE Break
  BY <1>3 DEF Break
<1>4. CASE Read \/ ReadLost \/ PutEvent \/ PutLost
  <2>1. /\ UNCHANGED <<page, inHand, pushed, task, broken>> /\ reader # "done"
    BY <1>4 DEF Read, ReadLost, PutEvent, PutLost
  <2> QED BY <1>4, <1>c, <2>1, PumpFlow
<1>5. ASSUME Live, events # <<>>, events' = Tail(events), UNCHANGED <<rheld, down, pushed>>,
             \/ Event.type # "page" /\ UNCHANGED <<page, inHand>>
             \/ Event.type = "page" /\ page' = Event.what /\ inHand' = inHand
             \/ Event.type = "page" /\ inHand' = Event.what /\ page' = page
      PROVE  Kept'
  <2>1. OnTheWay = OnTheWay' \cup {Event} /\ Event \in Events
    BY <1>5, TakenFlow
  <2>2. Kept
    BY <1>b, <1>5
  <2>3. CASE Event.type # "page"
    <3>1. PageOf(Event) = 0
      BY <2>1, <2>3, PageOfFacts
    <3> QED BY <1>a, <1>5, <2>1, <2>2, <2>3, <3>1
  <2>4. CASE Event.type = "page"
    <3>1. /\ PageOf(Event) = Event.what /\ Event.what \in Nat
          /\ inHand < Event.what /\ page < Event.what /\ Event.what <= pushed
      BY <1>a, <2>1, <2>4, EventFacts, ChannelAssumption DEF PageOf, OrderOK, After
    <3>2. \E e \in OnTheWay : PageOf(e) = pushed
      BY <1>a, <2>2, <3>1
    <3>3. PICK e \in OnTheWay : PageOf(e) = pushed
      BY <3>2
    <3>4. CASE e = Event
      BY <1>5, <2>4, <3>1, <3>3, <3>4
    <3>5. CASE e # Event
      BY <1>5, <2>1, <3>3, <3>5
    <3> QED BY <3>4, <3>5
  <2> QED BY <2>3, <2>4
<1>6. CASE NextEvent
  <2>1. UNCHANGED <<rheld, down, pushed, inHand, task, broken, reader>>
    BY <1>6 DEF NextEvent
  <2>2. events # <<>> /\ events' = Tail(events)
    BY <1>6 DEF NextEvent
  <2>3. \/ Event.type = "page" /\ page' = Event.what
        \/ Event.type # "page" /\ page' = page
    BY <1>6, NextEventIs
  <2> QED BY <1>5, <2>1, <2>2, <2>3
<1>7. CASE Answered
  <2>1. /\ UNCHANGED <<rheld, down, pushed, inHand, broken, reader>>
        /\ task = "answer" /\ events # <<>> /\ events' = Tail(events)
    BY <1>7 DEF Answered
  <2>2. \/ Event.type = "page" /\ page' = Event.what
        \/ Event.type # "page" /\ page' = page
    BY <1>7, AnsweredIs
  <2> QED BY <1>5, <2>1, <2>2
<1>8. CASE Newest
  <2>1. UNCHANGED <<rheld, down, pushed, page, broken, reader>> /\ task = "newest"
    BY <1>8 DEF Newest
  <2>2. CASE events = <<>>
    <3>1. UNCHANGED <<events, inHand>>
      BY <1>8, <2>2 DEF Newest
    <3> QED BY <1>c, <2>1, <3>1 DEF OnTheWay
  <2>3. CASE events # <<>>
    <3>1. /\ events' = Tail(events)
          /\ inHand' = IF Event.type = "page" THEN Event.what ELSE inHand
      BY <1>8, <2>3 DEF Newest
    <3> QED BY <1>5, <2>1, <2>3, <3>1
  <2> QED BY <2>2, <2>3
<1>9. CASE TakePage
  <2>1. /\ page # 0 /\ inHand' = page /\ task = "wake"
        /\ UNCHANGED <<events, rheld, down, pushed, broken, reader>>
    BY <1>9 DEF TakePage
  <2>2. inHand < page /\ page <= pushed
    BY <2>1 DEF OrderOK
  <2>3. Kept
    BY <1>b, <2>1
  <2>4. pushed = page \/ \E e \in OnTheWay : PageOf(e) = pushed
    BY <1>a, <2>2, <2>3
  <2> QED BY <2>1, <2>4 DEF OnTheWay
<1>10. CASE Close \/ RunEnds
  BY <1>10 DEF Close, RunEnds, Drop
<1>11. ASSUME NEW receipt \in Receipts, Deliver(receipt) PROVE Kept'
  <2>1. UNCHANGED <<events, rheld, down, pushed, inHand, page, broken, reader>> /\ Live
    BY <1>11 DEF Deliver
  <2> QED BY <1>c, <2>1 DEF OnTheWay
<1>12. CASE TakeReceipt \/ Write \/ WriteFails \/ Served \/ SendReceipt
            \/ AnswerLate \/ Http \/ UNCHANGED vars
  <2>1. UNCHANGED <<events, rheld, down, pushed, inHand, page, broken, reader>> /\ Live
    BY <1>12 DEF TakeReceipt, Write, WriteFails, Served, SendReceipt, AnswerLate,
                 Http, vars
  <2> QED BY <1>c, <2>1 DEF OnTheWay
<1> HIDE DEF Kept, Live
<1> QED
  BY <1>1, <1>2, <1>3, <1>4, <1>6, <1>7, <1>8, <1>9, <1>10, <1>11, <1>12 DEF Next

-----------------------------------------------------------------------------
(* The theorems.                                                           *)

(* The inductive invariant of the channel: one receipt or answer at a time *)
(* is anywhere between its ends, and pages keep the service's order.       *)
THEOREM ChannelInvariant == Spec => []IInv
<1>1. IInv /\ [Next]_vars => IInv'
  BY NextTypes, NextFlight, NextWait, NextOrder, NextNewest, NextAccepted DEF IInv
<1> QED BY InitIInv, <1>1, PTL DEF Spec

(* A receipt deliver reports as accepted is one the service recorded, even *)
(* though an acceptance names the tool call and not its run.               *)
THEOREM ChannelAcceptedIsRecorded == Spec => []AcceptedIsRecorded
<1>1. IInv => AcceptedIsRecorded
  BY DEF IInv
<1> QED BY ChannelInvariant, <1>1, PTL

(* Until the channel ends, at most one receipt or answer is anywhere in    *)
(* the two queues, the two pumps and the network, and none is unless       *)
(* deliver waits for it: send_receipt always finds room.                   *)
THEOREM ChannelOneOutstanding == Spec => []OneOutstanding
<1>1. ASSUME Types, FlightOK, task # "gone", ended = None
      PROVE  Outstanding <= 1 /\ (Outstanding = 1 => task = "answer")
  <2> DEFINE n == Len(events)
  <2>1. PICK w \in Places : OneAt(w) /\ (task # "answer" => w = "nowhere")
    BY <1>1 DEF FlightOK
  <2>2. /\ n \in Nat /\ DOMAIN events = 1..n
        /\ Len(down) \in Nat /\ DOMAIN down = 1..Len(down)
    BY <1>1, LenProperties DEF Types
  <2>3. ASSUME NEW i \in Answers
        PROVE  /\ i \in 1..(n + 1 + Len(down)) /\ i \in Nat
               /\ i <= n => i \in DOMAIN events /\ IsAnswer(events[i])
               /\ i = n + 1 => IsAnswer(rheld)
               /\ i > n + 1 => i - n - 1 \in DOMAIN down /\ IsAnswer(down[i - n - 1])
    <3>1. i \in DOMAIN Coming /\ IsAnswer(Coming[i])
      BY <2>3 DEF Answers, IsAnswer
    <3>2. i \in 1..(n + 1 + Len(down))
      BY <3>1 DEF Coming
    <3>3. Coming[i] = IF i <= n THEN events[i]
                      ELSE IF i = n + 1 THEN rheld ELSE down[i - n - 1]
      BY <3>2 DEF Coming
    <3> QED BY <2>2, <3>1, <3>2, <3>3
  <2>4. ASSUME NEW i \in Answers
        PROVE  /\ i <= n => w = "events"
               /\ i = n + 1 => w = "reader"
               /\ i > n + 1 => w = "down"
    BY <2>1, <2>3 DEF OneAt, NoAnswer, Range
  <2>5. ASSUME NEW i \in Answers, NEW j \in Answers PROVE i = j
    <3>1. CASE i <= n
      <4>1. j <= n
        BY <2>2, <2>3, <2>4, <3>1
      <4> QED BY <2>1, <2>3, <3>1, <4>1 DEF OneAt, Lone
    <3>2. CASE i = n + 1
      BY <2>2, <2>3, <2>4, <3>2
    <3>3. CASE i > n + 1
      <4>1. j > n + 1
        BY <2>2, <2>3, <2>4, <3>3
      <4>2. i - n - 1 = j - n - 1
        BY <2>1, <2>3, <3>3, <4>1 DEF OneAt, Lone
      <4> QED BY <2>2, <2>3, <4>2
    <3> QED BY <2>2, <2>3, <3>1, <3>2, <3>3
  <2>6. \/ Cardinality(Answers) = 0
        \/ Cardinality(Answers) = 1 /\ w \in {"events", "reader", "down"}
    <3>1. CASE Answers = {}
      BY <3>1, FS_EmptySet
    <3>2. CASE Answers # {}
      <4>1. PICK i : i \in Answers
        BY <3>2
      <4>2. Answers = {i}
        BY <2>5, <4>1
      <4>3. w \in {"events", "reader", "down"}
        BY <2>2, <2>3, <2>4, <4>1
      <4>4. Cardinality(Answers) = 1
        BY <4>2, FS_Singleton
      <4> QED BY <4>3, <4>4
    <3> QED BY <3>1, <3>2
  <2>7. /\ Len(outbound) = 0 \/ (Len(outbound) = 1 /\ w = "outbound")
        /\ Len(up) = 0 \/ (Len(up) = 1 /\ w = "up")
    <3>1. Len(outbound) \in Nat /\ Len(up) \in Nat
      BY <1>1, LenProperties DEF Types
    <3>2. /\ Len(outbound) # 0 => outbound # <<>>
          /\ Len(up) # 0 => up # <<>>
      BY <1>1, EmptySeq DEF Types
    <3>3. Len(outbound) <= 1 /\ Len(up) <= 1
      BY <2>1 DEF OneAt
    <3>4. ASSUME NEW k \in Nat, k <= 1 PROVE k = 0 \/ k = 1
      BY <3>4
    <3>5. /\ Len(outbound) = 0 \/ Len(outbound) = 1
          /\ Len(up) = 0 \/ Len(up) = 1
      BY <3>1, <3>3, <3>4, Zenon
    <3>6. /\ outbound # <<>> => w = "outbound"
          /\ up # <<>> => w = "up"
      BY <2>1 DEF OneAt
    <3> QED BY <3>2, <3>5, <3>6
  <2>8. wheld # None => w = "writer"
    BY <2>1 DEF OneAt
  <2> DEFINE held == IF wheld = None THEN 0 ELSE 1
             a == Cardinality(Answers)
             o == Len(outbound)
             u == Len(up)
  <2>9. Outstanding = o + held + u + a
    BY DEF Outstanding
  <2>10. held = 0 \/ (held = 1 /\ w = "writer")
    BY <2>8
  <2>11. /\ o = 0 \/ (o = 1 /\ w = "outbound")
         /\ u = 0 \/ (u = 1 /\ w = "up")
         /\ a = 0 \/ (a = 1 /\ w \in {"events", "reader", "down"})
    BY <2>6, <2>7
  <2> HIDE DEF held, a, n, o, u
  <2>12. Outstanding = 0 \/ (Outstanding = 1 /\ w # "nowhere")
    BY <2>9, <2>10, <2>11
  <2> QED BY <2>1, <2>12
<1>2. IInv => OneOutstanding
  BY <1>1 DEF IInv, OneOutstanding
<1> QED BY ChannelInvariant, <1>2, PTL

(* The queue of receipts has room whenever deliver has one to send, so the *)
(* wait of send_receipt is no link in a circle of waiting pumps.           *)
THEOREM ChannelSendsAtOnce == Spec => [](task = "send" => Len(outbound) < OutCap)
<1>1. ASSUME IInv, task = "send" PROVE Len(outbound) < OutCap
  <2>1. OneAt("nowhere")
    BY <1>1 DEF IInv, WaitOK, FlightOK
  <2>2. outbound = <<>>
    BY <2>1 DEF OneAt
  <2> QED BY <2>2, ChannelAssumption
<1> QED BY ChannelInvariant, <1>1, PTL

(* The newest page of the service is in hand or still on its way, however  *)
(* next, newest and deliver share the events between them.                 *)
THEOREM ChannelNewestPage == Spec => []NewestPage
<1>1. ASSUME Types, NEW e \in OnTheWay, PageOf(e) = pushed, pushed > 0
      PROVE  \E i \in DOMAIN Coming : Coming[i] = Frame("page", pushed)
  <2>1. /\ Len(events) \in Nat /\ DOMAIN events = 1..Len(events)
        /\ Len(down) \in Nat /\ DOMAIN down = 1..Len(down)
    BY <1>1, LenProperties DEF Types
  <2>2. e \in Events
    <3>1. Range(events) \subseteq Events /\ Range(down) \subseteq Events
      BY <1>1, RangeFacts DEF Types
    <3>2. e # None
      BY <1>1, PageOfFacts
    <3> QED BY <1>1, <3>1, <3>2 DEF OnTheWay, Types
  <2>3. e = Frame("page", pushed)
    BY <1>1, <2>2, EventFacts, PageOfFacts DEF PageOf
  <2>4. \E i \in DOMAIN Coming : Coming[i] = e
    <3>1. CASE e \in Range(events)
      <4>1. PICK i \in DOMAIN events : events[i] = e
        BY <3>1 DEF Range
      <4>2. i \in DOMAIN Coming /\ Coming[i] = e
        BY <2>1, <4>1 DEF Coming
      <4> QED BY <4>2
    <3>2. CASE e = rheld
      <4>1. /\ Len(events) + 1 \in DOMAIN Coming
            /\ Coming[Len(events) + 1] = e
        BY <2>1, <3>2 DEF Coming
      <4> QED BY <4>1
    <3>3. CASE e \in Range(down)
      <4>1. PICK i \in DOMAIN down : down[i] = e
        BY <3>3 DEF Range
      <4> DEFINE j == i + Len(events) + 1
      <4>2. j \in 1..(Len(events) + 1 + Len(down)) /\ j > Len(events) + 1
            /\ j - Len(events) - 1 = i
        BY <2>1, <4>1
      <4>3. j \in DOMAIN Coming /\ Coming[j] = e
        BY <2>1, <4>1, <4>2 DEF Coming
      <4> QED BY <4>3
    <3> QED BY <1>1, <3>1, <3>2, <3>3 DEF OnTheWay
  <2> QED BY <2>3, <2>4
<1>2. IInv => NewestPage
  BY <1>1 DEF IInv, NewestOK, NewestPage
<1> QED BY ChannelInvariant, <1>2, PTL

(* The session never goes back to an older page: the page it serves is     *)
(* replaced only by one the service pushed later.                          *)
THEOREM ChannelPagesForward == Spec => [][inHand' >= inHand]_vars
<1>1. ASSUME Types, OrderOK, [Next]_vars PROVE inHand' >= inHand
  <2>a. page \in Nat /\ inHand \in Nat
    BY <1>1, ChannelAssumption DEF Types
  <2>1. CASE TakePage
    BY <1>1, <2>a, <2>1 DEF TakePage, OrderOK
  <2>2. CASE Newest
    <3>1. CASE events # <<>> /\ Event.type = "page"
      <4>1. Event \in Events /\ Event \in Range(events)
        BY <1>1, <3>1, TailFacts, RangeFacts DEF Types, Event
      <4>2. PageOf(Event) = Event.what /\ Event.what \in Nat /\ Event.what # 0
        BY <3>1, <4>1, EventFacts, ChannelAssumption DEF PageOf
      <4>3. inHand < Event.what
        BY <1>1, <4>1, <4>2 DEF OrderOK, OnTheWay, After
      <4>4. inHand' = Event.what
        BY <2>2, <3>1 DEF Newest
      <4> QED BY <2>a, <4>2, <4>3, <4>4
    <3>2. CASE ~(events # <<>> /\ Event.type = "page")
      BY <2>a, <2>2, <3>2 DEF Newest
    <3> QED BY <3>1, <3>2
  <2>3. CASE ~TakePage /\ ~Newest
    <3>1. inHand' = inHand
      BY <1>1, <2>3
      DEF Next, vars, session, PushPage, AnswerReceipt, ServiceCloses, Break, Read,
          ReadLost, PutEvent, TakeReceipt, Write, WriteFails, PutLost, NextEvent,
          Served, Deliver, SendReceipt, Answered, AnswerLate, Http, Close, RunEnds, Drop
    <3> QED BY <2>a, <3>1
  <2> QED BY <2>1, <2>2, <2>3
<1>2. IInv /\ [Next]_vars => [inHand' >= inHand]_vars
  BY <1>1 DEF IInv
<1> QED BY ChannelInvariant, <1>2, PTL DEF Spec
=============================================================================
