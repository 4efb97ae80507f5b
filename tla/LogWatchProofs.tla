---------------------------- MODULE LogWatchProofs ----------------------------
(***************************************************************************)
(* What a wait on a log and an exit reports, for outputs, reads and        *)
(* overlaps of every size, and every set of conditions.                    *)
(***************************************************************************)
EXTENDS LogWatch, TLAPS

Types ==
  /\ first \in 1..Bytes /\ last \in first..Bytes /\ last - first <= Carry
  /\ written \in Nat /\ copied \in 0..written /\ offset \in 0..copied
  /\ carry \in Nat /\ atExit \in Nat
  /\ running \in BOOLEAN /\ exit \in BOOLEAN /\ exitSeen \in BOOLEAN
  /\ fresh \in BOOLEAN /\ closed \in BOOLEAN /\ finished \in BOOLEAN
  /\ owed \subseteq Watchers /\ due \subseteq Watchers
  /\ pc \in {"sample", "scan", "scanned", "parked"}
  /\ outcome \in [Watchers -> {None, "hit", "exited", "error"}]
  /\ wait \in {"waiting", "draining", "over"}

(* A watcher that has ended is not polled again.                           *)
AwakeOK == awake \subseteq {w \in Watchers : outcome[w] = None}

(* Nothing is copied once the exit is announced, and who saw it saw it     *)
(* announced.                                                              *)
ExitOK ==
  /\ exit => ~running /\ (closed \/ copied = written) /\ atExit = copied
  /\ closed => exit
  /\ finished => exit
  /\ "log" \in Watchers /\ outcome["log"] = "exited" => exit

(* The log's watcher is there and has not ended.                           *)
Searching == "log" \in Watchers /\ outcome["log"] = None

(* The scanner read everything up to offset and found no match there: the  *)
(* text it kept is long enough for one that ends after offset.             *)
ScannerOK == Searching => last > offset /\ carry = Kept(offset)

(* What the watcher has seen where it is.                                  *)
WatcherOK ==
  /\ pc # "sample" => "log" \in Watchers
  /\ pc \in {"scan", "scanned"} => Searching /\ "log" \in awake /\ wait # "over"
  /\ pc = "scanned" /\ finished => offset = copied
  /\ pc \in {"scanned", "parked"} /\ ~fresh /\ Searching => offset = copied
  /\ exitSeen /\ Searching => pc \in {"scan", "scanned"} /\ finished

(* A match in the artifact that is not yet found is looked for: the        *)
(* watcher is awake, or about to be woken; awake, if the exit is known.    *)
FoundNext ==
  Searching /\ last <= copied => "log" \in awake \/ (~exit /\ "log" \in owed)

(* An exit that was noticed first waits for the watcher to look.           *)
TieOK ==
  "exit" \in Watchers /\ outcome["exit"] = "hit" =>
    /\ exit /\ wait # "waiting"
    /\ Searching /\ last <= atExit => "log" \in due /\ wait = "draining"

(* The inductive invariant.                                                *)
IInv ==
  /\ Types /\ AwakeOK /\ ExitOK /\ ScannerOK /\ WatcherOK /\ FoundNext
  /\ TieOK /\ NoMissedMatch

-----------------------------------------------------------------------------
LEMMA InitIInv == Init => IInv
<1> SUFFICES ASSUME Init PROVE IInv
  OBVIOUS
<1> USE LogWatchAssumption DEF Init, Searching
<1>1. Types
  <2>1. PICK m \in Matches : first = m[1] /\ last = m[2]
    OBVIOUS
  <2>2. first \in 1..Bytes /\ last \in first..Bytes /\ last - first <= Carry
    BY <2>1 DEF Matches
  <2>3. written \in Nat /\ copied \in 0..written /\ copied \in Nat
    OBVIOUS
  <2>4. exit \in BOOLEAN
    BY Zenon
  <2>5. atExit \in Nat
    BY <2>3
  <2>6. offset \in 0..copied
    BY <2>3
  <2>7. outcome \in [Watchers -> {None, "hit", "exited", "error"}]
    OBVIOUS
  <2> QED BY <2>2, <2>3, <2>4, <2>5, <2>6, <2>7 DEF Types
<1>2. AwakeOK
  BY DEF AwakeOK
<1>3. ExitOK
  <2>1. written \in Nat /\ copied \in 0..written /\ copied \in Nat
    OBVIOUS
  <2>2. CASE running \/ copied < written
    BY <2>2 DEF ExitOK
  <2>3. CASE ~running /\ ~(copied < written)
    BY <2>1, <2>3 DEF ExitOK
  <2> QED BY <2>2, <2>3
<1>4. ScannerOK
  BY DEF ScannerOK, Matches, Kept
<1>5. WatcherOK /\ FoundNext /\ TieOK /\ NoMissedMatch
  BY DEF WatcherOK, FoundNext, TieOK, NoMissedMatch
<1> QED BY <1>1, <1>2, <1>3, <1>4, <1>5 DEF IInv

(* The overlap never loses a match: a read that reaches its end finds it.  *)
LEMMA ReadFinds ==
  ASSUME Types, NEW count \in Nat, last > offset, carry = Kept(offset),
         last <= offset + count
  PROVE  first > offset - carry
BY LogWatchAssumption DEF Types, Kept

(* The text kept after a read depends on where it ended only.              *)
LEMMA KeptAfter ==
  ASSUME NEW n \in Nat, NEW count \in Nat
  PROVE  Kept(Kept(n) + count) = Kept(n + count)
BY LogWatchAssumption DEF Kept

LEMMA NextIInv == IInv /\ [Next]_vars => IInv'
<1> SUFFICES ASSUME IInv, [Next]_vars PROVE IInv'
  OBVIOUS
<1> USE LogWatchAssumption
    DEF IInv, Types, AwakeOK, ExitOK, Searching, ScannerOK, WatcherOK,
        FoundNext, TieOK, NoMissedMatch, process, thread, scanner, waiter
<1>1. CASE Write
  BY <1>1 DEF Write
<1>2. CASE Exit
  BY <1>2 DEF Exit
<1>3. CASE Copy
  BY <1>3 DEF Copy
<1>4. CASE Announce
  <2>1. Types'
    BY <1>4 DEF Announce
  <2>2. AwakeOK'
    BY <1>4 DEF Announce
  <2>3. ExitOK'
    BY <1>4 DEF Announce
  <2>4. ScannerOK'
    BY <1>4 DEF Announce
  <2>5. WatcherOK'
    BY <1>4 DEF Announce
  <2>6. FoundNext'
    BY <1>4 DEF Announce
  <2>7. TieOK'
    BY <1>4 DEF Announce
  <2>8. NoMissedMatch'
    BY <1>4 DEF Announce
  <2> QED BY <2>1, <2>2, <2>3, <2>4, <2>5, <2>6, <2>7, <2>8
<1>5. CASE Close
  <2>1. Types'
    <3>1. atExit' \in Nat
      <4>1. CASE exit
        BY <1>5, <4>1 DEF Close
      <4>2. CASE ~exit
        BY <1>5, <4>2 DEF Close
      <4> QED BY <4>1, <4>2
    <3> QED BY <1>5, <3>1 DEF Close
  <2>2. AwakeOK'
    BY <1>5 DEF Close, Polling
  <2>3. ExitOK'
    BY <1>5 DEF Close, Polling
  <2>4. ScannerOK'
    BY <1>5 DEF Close, Polling
  <2>5. WatcherOK'
    BY <1>5 DEF Close, Polling
  <2>6. FoundNext'
    BY <1>5 DEF Close, Polling
  <2>7. TieOK'
    BY <1>5 DEF Close, Polling
  <2>8. NoMissedMatch'
    BY <1>5 DEF Close
  <2> QED BY <2>1, <2>2, <2>3, <2>4, <2>5, <2>6, <2>7, <2>8
<1>6. ASSUME NEW w \in Watchers, Notify(w) PROVE IInv'
  BY <1>6 DEF Notify
<1>7. CASE Sample
  BY <1>7 DEF Sample
<1>8. CASE Scan
  <2>1. PICK count \in 1..Chunk :
          /\ count <= copied - offset
          /\ offset' = offset + count
          /\ IF first > offset - carry /\ last <= offset + count
               THEN End("log", "hit") /\ carry' = 0 /\ pc' = "parked"
               ELSE carry' = Kept(carry + count) /\ UNCHANGED <<pc, waiter>>
    BY <1>8 DEF Scan
  <2>2. UNCHANGED <<process, thread, finished, exitSeen, fresh>>
        /\ pc = "scan" /\ offset < copied
    BY <1>8 DEF Scan
  <2>3. CASE first > offset - carry /\ last <= offset + count
    <3>1. Types'
      <4>1. offset' \in 0..copied' /\ carry' \in Nat
        BY <2>1, <2>2, <2>3
      <4>2. outcome' \in [Watchers -> {None, "hit", "exited", "error"}]
        BY <2>1, <2>2, <2>3 DEF End
      <4>3. due' \subseteq Watchers /\ wait' = "draining" /\ pc' = "parked"
        BY <2>1, <2>2, <2>3 DEF End
      <4> QED BY <2>2, <4>1, <4>2, <4>3
    <3>2. AwakeOK'
      <4>1. /\ awake' = awake \ {"log"}
            /\ \A w \in Watchers \ {"log"} : outcome'[w] = outcome[w]
        BY <2>1, <2>3 DEF End
      <4>2. AwakeOK
        OBVIOUS
      <4> HIDE DEF IInv, AwakeOK
      <4> QED BY <4>1, <4>2, Zenon DEF AwakeOK
    <3>3. ExitOK'
      BY <2>1, <2>2, <2>3 DEF End
    <3>4. ScannerOK'
      BY <2>1, <2>2, <2>3 DEF End
    <3>5. WatcherOK'
      BY <2>1, <2>2, <2>3 DEF End
    <3>6. FoundNext'
      BY <2>1, <2>2, <2>3 DEF End
    <3>7. TieOK'
      BY <2>1, <2>2, <2>3 DEF End
    <3>8. NoMissedMatch'
      BY <2>1, <2>2, <2>3 DEF End
    <3> QED BY <3>1, <3>2, <3>3, <3>4, <3>5, <3>6, <3>7, <3>8
  <2>4. CASE ~(first > offset - carry /\ last <= offset + count)
    <3>1. last > offset + count
      BY <2>1, <2>2, <2>4, ReadFinds
    <3>2. carry' = Kept(offset') /\ carry' \in Nat
      BY <2>1, <2>2, <2>4, KeptAfter DEF Kept
    <3>3. Types'
      <4>1. offset' \in 0..copied'
        BY <2>1, <2>2
      <4>2. UNCHANGED <<pc, waiter>>
        BY <2>1, <2>4
      <4> QED BY <2>2, <3>2, <4>1, <4>2
    <3>4. AwakeOK'
      BY <2>1, <2>2, <2>4, <3>1, <3>2
    <3>5. ExitOK'
      BY <2>1, <2>2, <2>4, <3>1, <3>2
    <3>6. ScannerOK'
      BY <2>1, <2>2, <2>4, <3>1, <3>2
    <3>7. WatcherOK'
      BY <2>1, <2>2, <2>4, <3>1, <3>2
    <3>8. FoundNext'
      BY <2>1, <2>2, <2>4, <3>1, <3>2
    <3>9. TieOK'
      BY <2>1, <2>2, <2>4, <3>1, <3>2
    <3>10. NoMissedMatch'
      BY <2>1, <2>2, <2>4, <3>1, <3>2
    <3> QED BY <3>3, <3>4, <3>5, <3>6, <3>7, <3>8, <3>9, <3>10
  <2> QED BY <2>3, <2>4
<1>9. CASE ScanEnd
  BY <1>9 DEF ScanEnd
<1>10. CASE Scanned
  <2>1. Types'
    BY <1>10 DEF Scanned, End, Park
  <2>2. AwakeOK'
    <3>1. \A w \in Watchers \ {"log"} : outcome'[w] = outcome[w]
      BY <1>10 DEF Scanned, End, Park
    <3>2. \/ awake' = awake \ {"log"}
          \/ UNCHANGED <<awake, outcome>>
      BY <1>10 DEF Scanned, End, Park
    <3>3. AwakeOK
      OBVIOUS
    <3> HIDE DEF IInv, AwakeOK
    <3> QED BY <3>1, <3>2, <3>3, Zenon DEF AwakeOK
  <2>3. ExitOK'
    BY <1>10 DEF Scanned, End, Park
  <2>4. ScannerOK'
    BY <1>10 DEF Scanned, End, Park
  <2>5. WatcherOK'
    BY <1>10 DEF Scanned, End, Park
  <2>6. FoundNext'
    BY <1>10 DEF Scanned, End, Park
  <2>7. TieOK'
    BY <1>10 DEF Scanned, End, Park
  <2>8. NoMissedMatch'
    BY <1>10 DEF Scanned, End, Park
  <2> QED BY <2>1, <2>2, <2>3, <2>4, <2>5, <2>6, <2>7, <2>8
<1>11. CASE Wake
  <2>1. Types'
    BY <1>11 DEF Wake, Park
  <2>2. AwakeOK'
    BY <1>11 DEF Wake, Park
  <2>3. ExitOK'
    BY <1>11 DEF Wake, Park
  <2>4. ScannerOK'
    BY <1>11 DEF Wake, Park
  <2>5. WatcherOK'
    BY <1>11 DEF Wake, Park
  <2>6. FoundNext'
    BY <1>11 DEF Wake, Park
  <2>7. TieOK'
    BY <1>11 DEF Wake, Park
  <2>8. NoMissedMatch'
    BY <1>11 DEF Wake, Park
  <2> QED BY <2>1, <2>2, <2>3, <2>4, <2>5, <2>6, <2>7, <2>8
<1>12. CASE Recheck
  BY <1>12 DEF Recheck
<1>13. CASE PollExit
  <2>1. Types'
    BY <1>13 DEF PollExit, Polling, End, Park
  <2>2. AwakeOK'
    <3>1. \A w \in Watchers \ {"exit"} : outcome'[w] = outcome[w]
      BY <1>13 DEF PollExit, End, Park
    <3>2. awake' = awake \ {"exit"}
      BY <1>13 DEF PollExit, End, Park
    <3>3. AwakeOK
      OBVIOUS
    <3> HIDE DEF IInv, AwakeOK
    <3> QED BY <3>1, <3>2, <3>3, Zenon DEF AwakeOK
  <2>3. ExitOK'
    BY <1>13 DEF PollExit, Polling, End, Park
  <2>4. ScannerOK'
    BY <1>13 DEF PollExit, Polling, End, Park
  <2>5. WatcherOK'
    BY <1>13 DEF PollExit, Polling, End, Park
  <2>6. FoundNext'
    BY <1>13 DEF PollExit, Polling, End, Park
  <2>7. TieOK'
    BY <1>13 DEF PollExit, Polling, End, Park
  <2>8. NoMissedMatch'
    BY <1>13 DEF PollExit, Polling, End, Park
  <2> QED BY <2>1, <2>2, <2>3, <2>4, <2>5, <2>6, <2>7, <2>8
<1>14. CASE Drained
  BY <1>14 DEF Drained, Polling, Fired
<1>15. CASE Deadline
  BY <1>15 DEF Deadline, Polling
<1>16. CASE ReadFails
  <2>1. /\ pc = "scan" /\ pc' = "parked"
        /\ outcome' = [outcome EXCEPT !["log"] = "error"]
        /\ awake' = awake \ {"log"} /\ due' = awake \ {"log"}
        /\ wait' = "draining"
        /\ UNCHANGED <<process, thread, finished, offset, carry, exitSeen, fresh>>
    BY <1>16 DEF ReadFails, End
  <2>2. Types'
    BY <2>1
  <2>3. AwakeOK'
    <3>1. \A w \in Watchers \ {"log"} : outcome'[w] = outcome[w]
      BY <2>1
    <3>2. AwakeOK
      OBVIOUS
    <3> HIDE DEF IInv, AwakeOK
    <3> QED BY <2>1, <3>1, <3>2, Zenon DEF AwakeOK
  <2>4. ExitOK'
    BY <2>1
  <2>5. ~Searching'
    BY <2>1
  <2>6. ScannerOK' /\ FoundNext'
    BY <2>5
  <2>7. WatcherOK'
    BY <2>1, <2>5
  <2>8. TieOK'
    BY <2>1, <2>5
  <2>9. NoMissedMatch'
    BY <2>1
  <2> QED BY <2>2, <2>3, <2>4, <2>6, <2>7, <2>8, <2>9
<1>17. CASE UNCHANGED vars
  BY <1>17 DEF vars, Kept
<1> QED
  BY <1>1, <1>2, <1>3, <1>4, <1>5, <1>6, <1>7, <1>8, <1>9, <1>10, <1>11,
     <1>12, <1>13, <1>14, <1>15, <1>16, <1>17 DEF Next

LEMMA SpecIInv == Spec => []IInv
BY InitIInv, NextIInv, PTL DEF Spec

(* A log condition is given up as exited only if what was logged before    *)
(* the exit was announced does not match (watch_log, LogScanner).          *)
THEOREM LogWatchNoMissedMatch == Spec => []NoMissedMatch
<1>1. IInv => NoMissedMatch
  BY DEF IInv
<1> QED BY <1>1, SpecIInv, PTL

(* A wait the exit ended reports the match that was logged before it, or   *)
(* that the log could not be read (watch_until_fired).                     *)
THEOREM LogWatchTieKept == Spec => []TieKept
<1>1. IInv => TieKept
  BY DEF IInv, Types, TieOK, Searching, NoMissedMatch, TieKept
<1> QED BY <1>1, SpecIInv, PTL
===============================================================================
