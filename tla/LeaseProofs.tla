----------------------------- MODULE LeaseProofs -----------------------------
(***************************************************************************)
(* Theorems about the lease, for every choice of its times.                *)
(***************************************************************************)
EXTENDS Lease, TLAPS

(* What the ends of lease and credential, and answers on their way, are    *)
(* bounded by.                                                             *)
Ends ==
  /\ local["lease"] <= now + Ttl
  /\ at["lease"] = "call" => local["lease"] <= sent["lease"] + Ttl
  /\ \A l \in Loops :
       /\ local[l] <= remote[l] /\ remote[l] <= now + Life(l)
       /\ sent[l] <= now
       /\ flight[l] # "none" => at[l] = "call"
       /\ flight[l] = "answered" =>
            sent[l] + Life(l) <= remote[l] /\ answer[l] <= remote[l]

(* Where the operation is, and since when: a synchronous step began at     *)
(* now - blocked.                                                          *)
Operation ==
  /\ phase # "on" => op = "none" /\ blocked = -1
  /\ op = "checked" => blocked >= 0 /\ now - blocked < local["lease"]
  /\ op = "running" /\ blocked = -1 =>
       now <= local["lease"] \/ now < local["lease"] + MaxBlock
  /\ op = "running" /\ blocked >= 0 =>
       \/ now - blocked <= local["lease"]
       \/ now - blocked < local["lease"] + MaxBlock

(* How far the heartbeat's timer can be behind the lease.                  *)
Timer ==
  phase = "on" =>
    /\ at["lease"] \in {"sleep", "call"} =>
         /\ wake["lease"] <= local["lease"]
         /\ blocked = -1 => now <= local["lease"] + MaxBlock
    /\ at["lease"] = "retry" =>
         wake["lease"] <= local["lease"] + MaxBlock + Retry
    /\ blocked = -1 => now <= local["lease"] + MaxBlock + Retry
    /\ blocked >= 0 =>
         /\ at["lease"] \in {"sleep", "call", "retry"}
         /\ now - blocked < wake["lease"]

IInv == TypeOK /\ Ends /\ Operation /\ Timer

-----------------------------------------------------------------------------
LEMMA LoopsAre == Loops = {"lease", "credential"} /\ "lease" # "credential"
BY DEF Loops

(* A nap is over before what it is a third of.                             *)
LEMMA NapBound ==
  ASSUME NEW l \in Loops, NEW end \in Nat, now \in Nat, now <= end
  PROVE  Nap(l, end) \in Nat /\ now + Nap(l, end) <= end
<1>1. /\ (end - now) \div 3 \in Nat
      /\ (end - now) \div 3 <= end - now
  OBVIOUS
<1>2. MaxSleep \in Nat /\ CredSleep \in Nat
  BY LeaseAssumption
<1> QED
  BY <1>1, <1>2 DEF Nap, Least

LEMMA InitIInv == Init => IInv
<1> SUFFICES ASSUME Init PROVE IInv
  OBVIOUS
<1> USE LeaseAssumption
<1>1. now \in Nat /\ now <= CallTime /\ now < Ttl
  BY DEF Init
<1>2. PICK received \in 0..now :
        remote = [lease |-> received + Ttl, credential |-> received + CredTtl]
  BY DEF Init
<1>3. Ttl - now \in Nat /\ (Ttl - now) \div 3 \in Nat
      /\ (Ttl - now) \div 3 <= Ttl - now
  BY <1>1
<1>4. /\ wake["lease"] \in Nat /\ wake["lease"] <= Ttl /\ wake["lease"] >= now
      /\ wake["credential"] = now
      /\ wake = [lease |-> wake["lease"], credential |-> wake["credential"]]
  BY <1>1, <1>3 DEF Init, Least
<1>5. TypeOK
  <2>1. remote \in [Loops -> Nat] /\ wake \in [Loops -> Nat]
    BY <1>1, <1>2, <1>4 DEF Loops
  <2> QED
    BY <2>1, <1>1 DEF Init, TypeOK, Loops
<1>6. Ends
  BY <1>1, <1>2 DEF Init, Ends, Loops, Life
<1>7. Operation /\ Timer
  BY <1>1, <1>4 DEF Init, Operation, Timer, Loops
<1> QED
  BY <1>5, <1>6, <1>7 DEF IInv

LEMMA NextIInv == IInv /\ [Next]_vars => IInv'
<1> SUFFICES ASSUME IInv, [Next]_vars PROVE IInv'
  OBVIOUS
<1> USE LeaseAssumption DEF IInv
<1>t. /\ now \in Nat /\ Ttl \in Nat /\ CredTtl \in Nat /\ Retry \in Nat
      /\ MaxBlock \in Nat /\ blocked \in Int /\ CallTime \in Nat
      /\ MaxDown \in Nat /\ MaxOutages \in Nat
      /\ \A l \in Loops : /\ local[l] \in Nat /\ remote[l] \in Nat
                           /\ wake[l] \in Nat /\ sent[l] \in Nat
                           /\ answer[l] \in Nat /\ Life(l) \in Nat
  BY DEF TypeOK, Life
<1>1. ASSUME NEW l \in Loops, ~Lost, Call(l)
      PROVE  IInv'
  <2>1. TypeOK'
    BY <1>t, <1>1 DEF Call, Polled, Deadline, Least, Lost, TypeOK, Loops, loops, link, task
  <2>2. Ends'
    BY <1>t, <1>1 DEF Call, Polled, Deadline, Least, Lost, TypeOK, Ends, Loops, Life, loops, link, task
  <2>3. Operation'
    BY <1>t, <1>1 DEF Call, Polled, Deadline, Least, Lost, TypeOK, Ends, Operation, Loops, loops, link, task
  <2>4. Timer'
    BY <1>t, <1>1 DEF Call, Polled, Deadline, Least, Lost, TypeOK, Ends, Operation, Timer, Loops, loops, link, task
  <2> QED
    BY <2>1, <2>2, <2>3, <2>4
<1>2. ASSUME NEW l \in Loops, ~Lost, Answered(l)
      PROVE  IInv'
  <2>0. End(l) \in Nat /\ (End(l) > now => /\ Nap(l, End(l)) \in Nat
                                          /\ now + Nap(l, End(l)) <= End(l))
    BY <1>t, NapBound DEF End
  <2>1. TypeOK'
    BY <1>t, <1>2, <2>0 DEF Answered, Polled, CallOver, Stop, Sleep, End, Lost, TypeOK, Loops, loops, link, task
  <2>2. Ends'
    BY <1>t, <1>2 DEF Answered, Polled, CallOver, Stop, Sleep, End, Lost, TypeOK, Ends, Loops, Life, loops, link, task
  <2>3. Operation'
    BY <1>t, <1>2 DEF Answered, Polled, CallOver, Stop, Sleep, End, Lost, TypeOK, Ends, Operation, Loops, loops, link, task
  <2>4. Timer'
    BY <1>t, <1>2, <2>0 DEF Answered, Polled, CallOver, Stop, Sleep, End, Lost, TypeOK, Ends, Operation, Timer, Loops, loops, link, task
  <2> QED
    BY <2>1, <2>2, <2>3, <2>4
<1>3. ASSUME NEW l \in Loops, ~Lost, Refused(l)
      PROVE  IInv'
  <2>1. TypeOK'
    BY <1>t, <1>3 DEF Refused, Polled, CallOver, Stop, Lost, TypeOK, Loops, loops, link, task
  <2>2. Ends'
    BY <1>t, <1>3 DEF Refused, Polled, CallOver, Stop, Lost, TypeOK, Ends, Loops, Life, loops, link, task
  <2>3. Operation'
    BY <1>t, <1>3 DEF Refused, Polled, CallOver, Stop, Lost, TypeOK, Ends, Operation, Loops, loops, link, task
  <2>4. Timer'
    BY <1>t, <1>3 DEF Refused, Polled, CallOver, Stop, Lost, TypeOK, Ends, Operation, Timer, Loops, loops, link, task
  <2> QED
    BY <2>1, <2>2, <2>3, <2>4
<1>4. ASSUME NEW l \in Loops, ~Lost, Failed(l)
      PROVE  IInv'
  <2>1. TypeOK'
    <3>1. /\ sent' \in [Loops -> 0..MaxNow] /\ answer' \in [Loops -> Nat]
          /\ flight' \in [Loops -> {"none", "asked", "answered"}]
          /\ stray' \subseteq Loops
      BY <1>t, <1>4 DEF Failed, CallOver, TypeOK
    <3>2. CASE l = "lease"
      BY <1>t, <1>4, <3>1, <3>2 DEF Failed, Polled, CallOver, Sleep, Least, Lost, TypeOK, Loops, loops, link, task
    <3>3. CASE l = "credential"
      <4>1. PICK pause \in Retry..MaxBackoff :
              Sleep(l, Least(now + pause, local[l]))
        BY <1>4, <3>3 DEF Failed
      <4>2. Least(now + pause, local[l]) \in Nat
        BY <1>t, <4>1 DEF Least
      <4> QED
        BY <1>t, <1>4, <3>1, <3>3, <4>1, <4>2 DEF Failed, Sleep, TypeOK, Loops, loops, link, task
    <3> QED
      BY <3>2, <3>3 DEF Loops
  <2>2. Ends'
    BY <1>t, <1>4 DEF Failed, Polled, CallOver, Sleep, Least, Lost, TypeOK, Ends, Loops, Life, loops, link, task
  <2>3. Operation'
    BY <1>t, <1>4 DEF Failed, Polled, CallOver, Sleep, Least, Lost, TypeOK, Ends, Operation, Loops, loops, link, task
  <2>4. Timer'
    BY <1>t, <1>4 DEF Failed, Polled, CallOver, Sleep, Least, Lost, TypeOK, Ends, Operation, Timer, Loops, loops, link, task
  <2> QED
    BY <2>1, <2>2, <2>3, <2>4
<1>5. ASSUME ~Lost, CredentialOver
      PROVE  IInv'
  <2>1. TypeOK'
    BY <1>t, <1>5 DEF CredentialOver, Polled, Stop, Lost, TypeOK, Loops, loops, link, task
  <2>2. Ends'
    BY <1>t, <1>5 DEF CredentialOver, Polled, Stop, Lost, TypeOK, Ends, Loops, Life, loops, link, task
  <2>3. Operation'
    BY <1>t, <1>5 DEF CredentialOver, Polled, Stop, Lost, TypeOK, Ends, Operation, Loops, loops, link, task
  <2>4. Timer'
    BY <1>t, <1>5 DEF CredentialOver, Polled, Stop, Lost, TypeOK, Ends, Operation, Timer, Loops, loops, link, task
  <2> QED
    BY <2>1, <2>2, <2>3, <2>4
<1>6. ASSUME ~Lost, Retried
      PROVE  IInv'
  <2>0. now < local["lease"] =>
          /\ Nap("lease", local["lease"]) \in Nat
          /\ now + Nap("lease", local["lease"]) <= local["lease"]
    BY <1>t, NapBound DEF Loops
  <2>1. TypeOK'
    BY <1>t, <1>6, <2>0 DEF Retried, Polled, Stop, Sleep, Lost, TypeOK, Loops, loops, link, task
  <2>2. Ends'
    BY <1>t, <1>6 DEF Retried, Polled, Stop, Sleep, Lost, TypeOK, Ends, Loops, Life, loops, link, task
  <2>3. Operation'
    BY <1>t, <1>6 DEF Retried, Polled, Stop, Sleep, Lost, TypeOK, Ends, Operation, Loops, loops, link, task
  <2>4. Timer'
    BY <1>t, <1>6, <2>0 DEF Retried, Polled, Stop, Sleep, Lost, TypeOK, Ends, Operation, Timer, Loops, loops, link, task
  <2> QED
    BY <2>1, <2>2, <2>3, <2>4
<1>7. ASSUME NEW l \in Loops, Renew(l)
      PROVE  IInv'
  <2>1. TypeOK'
    BY <1>t, <1>7 DEF Renew, TypeOK, Loops, loops, link, task
  <2>2. Ends'
    BY <1>t, <1>7 DEF Renew, TypeOK, Ends, Loops, Life, loops, link, task
  <2>3. Operation'
    BY <1>t, <1>7 DEF Renew, TypeOK, Ends, Operation, Loops, loops, link, task
  <2>4. Timer'
    BY <1>t, <1>7 DEF Renew, TypeOK, Ends, Operation, Timer, Loops, loops, link, task
  <2> QED
    BY <2>1, <2>2, <2>3, <2>4
<1>8. ASSUME NEW l \in Loops, RenewLate(l)
      PROVE  IInv'
  <2>1. TypeOK'
    BY <1>t, <1>8 DEF RenewLate, TypeOK, Loops, loops, link, task
  <2>2. Ends'
    BY <1>t, <1>8 DEF RenewLate, TypeOK, Ends, Loops, Life, loops, link, task
  <2>3. Operation'
    BY <1>t, <1>8 DEF RenewLate, TypeOK, Ends, Operation, Loops, loops, link, task
  <2>4. Timer'
    BY <1>t, <1>8 DEF RenewLate, TypeOK, Ends, Operation, Timer, Loops, loops, link, task
  <2> QED
    BY <2>1, <2>2, <2>3, <2>4
<1>9. ASSUME Reconnect
      PROVE  IInv'
  <2>1. TypeOK'
    BY <1>t, <1>9 DEF Reconnect, TypeOK, Loops, loops, link, task
  <2>2. Ends'
    BY <1>t, <1>9 DEF Reconnect, TypeOK, Ends, Loops, Life, loops, link, task
  <2>3. Operation'
    BY <1>t, <1>9 DEF Reconnect, TypeOK, Ends, Operation, Loops, loops, link, task
  <2>4. Timer'
    BY <1>t, <1>9 DEF Reconnect, TypeOK, Ends, Operation, Timer, Loops, loops, link, task
  <2> QED
    BY <2>1, <2>2, <2>3, <2>4
<1>10. ASSUME Dispatch \/ Finish \/ Busy
      PROVE  IInv'
  <2>1. TypeOK'
    <3>1. blocked' \in -1..MaxBlock /\ op' \in {"none", "checked", "running"}
      BY <1>t, <1>10 DEF Dispatch, Finish, Busy, Block, TypeOK
    <3> QED
      BY <1>t, <1>10, <3>1 DEF Dispatch, Finish, Busy, Block, TypeOK, loops, link, task
  <2>2. Ends'
    BY <1>t, <1>10 DEF Dispatch, Finish, Busy, Block, LoopDue, Lost, TypeOK, Ends, Loops, Life, loops, link, task
  <2>3. Operation'
    BY <1>t, <1>10 DEF Dispatch, Finish, Busy, Block, LoopDue, Lost, TypeOK, Ends, Operation, Loops, loops, link, task
  <2>4. Timer'
    BY <1>t, <1>10 DEF Dispatch, Finish, Busy, Block, LoopDue, Lost, TypeOK, Ends, Operation, Timer, Loops, loops, link, task
  <2> QED
    BY <2>1, <2>2, <2>3, <2>4
<1>11. ASSUME Unblock
      PROVE  IInv'
  <2>1. TypeOK'
    BY <1>t, <1>11 DEF Unblock, TypeOK, Loops, loops, link, task
  <2>2. Ends'
    BY <1>t, <1>11 DEF Unblock, TypeOK, Ends, Loops, Life, loops, link, task
  <2>3. Operation'
    BY <1>t, <1>11 DEF Unblock, TypeOK, Ends, Operation, Loops, loops, link, task
  <2>4. Timer'
    BY <1>t, <1>11 DEF Unblock, TypeOK, Ends, Operation, Timer, Loops, loops, link, task
  <2> QED
    BY <2>1, <2>2, <2>3, <2>4
<1>12. ASSUME WorkEnds \/ CaptureEnds
      PROVE  IInv'
  <2>1. TypeOK'
    BY <1>t, <1>12 DEF WorkEnds, CaptureEnds, TypeOK, Loops, loops, link, task
  <2>2. Ends'
    BY <1>t, <1>12 DEF WorkEnds, CaptureEnds, TypeOK, Ends, Loops, Life, loops, link, task
  <2>3. Operation'
    BY <1>t, <1>12 DEF WorkEnds, CaptureEnds, TypeOK, Ends, Operation, Loops, loops, link, task
  <2>4. Timer'
    BY <1>t, <1>12 DEF WorkEnds, CaptureEnds, TypeOK, Ends, Operation, Timer, Loops, loops, link, task
  <2> QED
    BY <2>1, <2>2, <2>3, <2>4
<1>13. ASSUME LinkDown \/ LinkUp
      PROVE  IInv'
  <2>1. TypeOK'
    <3>1. /\ up' \in BOOLEAN /\ down' \in 0..MaxDown
          /\ outages' \in 0..MaxOutages
      <4>1. CASE LinkDown
        <5>1. down' = down + 1 /\ down < MaxDown
          BY <4>1 DEF LinkDown
        <5>2. outages' = outages + 1 /\ outages < MaxOutages
          BY <4>1 DEF LinkDown
        <5>3. up' = FALSE
          BY <4>1 DEF LinkDown
        <5>4. down \in 0..MaxDown /\ outages \in 0..MaxOutages
          BY DEF TypeOK
        <5>5. down' \in 0..MaxDown
          BY <1>t, <5>1, <5>4
        <5>6. outages' \in 0..MaxOutages
          BY <1>t, <5>2, <5>4
        <5> QED
          BY <5>3, <5>5, <5>6
      <4>2. CASE LinkUp
        BY <4>2 DEF LinkUp, TypeOK
      <4> QED
        BY <1>13, <4>1, <4>2
    <3>2. /\ stray' \subseteq Loops /\ answer' \in [Loops -> Nat]
          /\ flight' \in [Loops -> {"none", "asked", "answered"}]
      BY <1>t, <1>13 DEF LinkDown, LinkUp, TypeOK, loops
    <3> QED
      BY <1>t, <1>13, <3>1, <3>2 DEF LinkDown, LinkUp, TypeOK, loops, link, task
  <2>2. Ends'
    BY <1>t, <1>13 DEF LinkDown, LinkUp, TypeOK, Ends, Loops, Life, loops, link, task
  <2>3. Operation'
    BY <1>t, <1>13 DEF LinkDown, LinkUp, TypeOK, Ends, Operation, Loops, loops, link, task
  <2>4. Timer'
    BY <1>t, <1>13 DEF LinkDown, LinkUp, TypeOK, Ends, Operation, Timer, Loops, loops, link, task
  <2> QED
    BY <2>1, <2>2, <2>3, <2>4
<1>14. ASSUME Tick
      PROVE  IInv'
  <2>1. TypeOK'
    BY <1>t, <1>14 DEF Tick, Due, LoopDue, Expired, Lost, TypeOK, Loops, loops, link, task
  <2>2. Ends'
    BY <1>t, <1>14 DEF Tick, Due, LoopDue, Expired, Lost, TypeOK, Ends, Loops, Life, loops, link, task
  <2>3. Operation'
    BY <1>t, <1>14 DEF Tick, Due, LoopDue, Expired, Lost, TypeOK, Ends, Operation, Loops, loops, link, task
  <2>4. Timer'
    BY <1>t, <1>14 DEF Tick, Due, LoopDue, Expired, Lost, TypeOK, Ends, Operation, Timer, Loops, loops, link, task
  <2> QED
    BY <2>1, <2>2, <2>3, <2>4
<1>15. ASSUME UNCHANGED vars
      PROVE  IInv'
  <2>1. TypeOK'
    BY <1>t, <1>15 DEF vars, TypeOK, Loops, loops, link, task
  <2>2. Ends'
    BY <1>t, <1>15 DEF vars, TypeOK, Ends, Loops, Life, loops, link, task
  <2>3. Operation'
    BY <1>t, <1>15 DEF vars, TypeOK, Ends, Operation, Loops, loops, link, task
  <2>4. Timer'
    BY <1>t, <1>15 DEF vars, TypeOK, Ends, Operation, Timer, Loops, loops, link, task
  <2> QED
    BY <2>1, <2>2, <2>3, <2>4
<1> QED
  BY <1>1, <1>2, <1>3, <1>4, <1>5, <1>6, <1>7, <1>8, <1>9, <1>10, <1>11, <1>12, <1>13, <1>14, <1>15 DEF Next

THEOREM LeaseInvariant == Spec => []IInv
BY InitIInv, NextIInv, PTL DEF Spec

-----------------------------------------------------------------------------
(* Every variable keeps its type.                                          *)
THEOREM LeaseTypes == Spec => []TypeOK
BY LeaseInvariant, PTL DEF IInv

(* The executor never takes its lease or credential to last longer than    *)
(* the service does (renewal_deadline counts from the call).               *)
THEOREM LeaseLocalWithin == Spec => []LocalWithin
<1>1. IInv => LocalWithin
  BY DEF IInv, Ends, LocalWithin
<1> QED
  BY <1>1, LeaseInvariant, PTL

(* No operation outlives the lease by more than two synchronous steps      *)
(* (ensure_lease in dispatch, lease_expiry in start).                      *)
THEOREM LeaseNoLateOperation == Spec => []NoLateOperation
<1>1. IInv => NoLateOperation
  BY LeaseAssumption DEF IInv, TypeOK, Operation, NoLateOperation, Loops
<1> QED
  BY <1>1, LeaseInvariant, PTL

(* A run notices the end of its lease (maintain_heartbeats, run).          *)
THEOREM LeaseEndsInTime == Spec => []EndsInTime
<1>1. IInv => EndsInTime
  BY LeaseAssumption DEF IInv, TypeOK, Timer, Operation, EndsInTime, Loops
<1> QED
  BY <1>1, LeaseInvariant, PTL
=============================================================================
