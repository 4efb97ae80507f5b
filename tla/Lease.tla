-------------------------------- MODULE Lease --------------------------------
(***************************************************************************)
(* The executor's lease and its credential against time: the two renewal   *)
(* loops of cli/sikaru/compute_transport.rs (maintain_lease), which `run`  *)
(* of compute_runtime.rs polls beside the work task, and the lease checks  *)
(* of that task.                                                           *)
(*                                                                         *)
(* Time passes in ticks, at both ends alike.  A timer that is due fires    *)
(* before the next tick, unless the task is blocked: the loops and the     *)
(* work task share one task, and a synchronous step of the work task (an   *)
(* fsync, a join) keeps the loops from being polled.                       *)
(*                                                                         *)
(* A definition whose name starts with Bug is a broken variant of the one  *)
(* it precedes; no specification uses it.                                  *)
(***************************************************************************)
EXTENDS Integers

CONSTANTS
  Ttl,        \* lease_ttl_seconds, the same in every answer
  CredTtl,    \* life of a renewed credential
  MaxSleep,   \* longest sleep between heartbeats (10 s)
  CredSleep,  \* longest sleep between credential renewals (30 s)
  CallTime,   \* bound on one call (5 s)
  Retry,      \* pause after a failed heartbeat (100 ms)
  MaxBackoff, \* longest pause after a failed credential renewal
  MaxBlock,   \* longest synchronous step of the work task
  Latency,    \* longest answer while the service can be reached
  MaxDown,    \* ticks, in all, in which the service cannot be reached
  MaxOutages, \* how often it is lost
  MaxNow      \* bound on time

ASSUME LeaseAssumption ==
  /\ {Ttl, CredTtl, MaxSleep, CredSleep, CallTime, Retry} \subseteq Nat \ {0}
  /\ {MaxBackoff, MaxBlock, Latency, MaxDown, MaxOutages, MaxNow}
       \subseteq Nat
  /\ Retry <= MaxBackoff /\ CallTime < Ttl /\ Ttl <= CredTtl
  /\ CallTime <= MaxNow

VARIABLES
  now,
  remote,   \* when the service ends the lease and the credential
  local,    \* what the executor takes for it: the watch and `expires`
  at,       \* where each loop is
  wake,     \* when its timer fires
  sent,     \* when its call began
  flight,   \* its call: none, asked, answered
  answer,   \* the end the answer names
  stray,    \* calls given up that may still reach the service
  up,       \* the service can be reached
  down,     \* ticks without it so far, begun ones too
  outages,  \* how often it was lost
  blocked,  \* ticks of the synchronous step, or -1
  op,       \* an operation of the work task
  phase     \* run: on, in the capture that follows, over

loops == <<at, wake, sent, flight, answer>>
link  == <<up, down, outages>>
task  == <<blocked, op, phase>>
vars  == <<now, remote, local, loops, stray, link, task>>

Loops == {"lease", "credential"}
Least(a, b) == IF a <= b THEN a ELSE b
Life(l) == IF l = "lease" THEN Ttl ELSE CredTtl

(* The two loops are polled by run, then by the capture.                   *)
Polled == phase \in {"on", "capture"} /\ blocked = -1
Deadline(l) == IF l = "lease" THEN local["lease"]
               ELSE Least(local["lease"], local["credential"])

(* Ready was answered at some tick since it was sent at 0.                 *)
Init ==
  /\ now \in 0..CallTime
  /\ \E received \in 0..now :
       remote = [lease |-> received + Ttl, credential |-> received + CredTtl]
  /\ local = [l \in Loops |-> Ttl]
  /\ at = [l \in Loops |-> "sleep"]
  /\ wake = [lease |-> now + Least((Ttl - now) \div 3, MaxSleep),
             credential |-> now]
  /\ sent = [l \in Loops |-> 0]
  /\ flight = [l \in Loops |-> "none"]
  /\ answer = [l \in Loops |-> 0]
  /\ stray = {}
  /\ up = TRUE /\ down = 0 /\ outages = 0
  /\ blocked = -1 /\ op = "none" /\ phase = "on"

-----------------------------------------------------------------------------
(* The loops.                                                              *)

(* The next heartbeat, from the top of maintain_heartbeats; the next       *)
(* credential renewal after a success.                                     *)
Nap(l, end) ==
  Least((end - now) \div 3, IF l = "lease" THEN MaxSleep ELSE CredSleep)
Sleep(l, until) ==
  /\ at' = [at EXCEPT ![l] = "sleep"]
  /\ wake' = [wake EXCEPT ![l] = until]
Stop(l, why) ==
  /\ at' = [at EXCEPT ![l] = why]
  /\ wake' = [wake EXCEPT ![l] = 0]
CallOver(l) ==
  /\ sent' = [sent EXCEPT ![l] = 0]
  /\ flight' = [flight EXCEPT ![l] = "none"]
  /\ answer' = [answer EXCEPT ![l] = 0]

(* A call begins; what the service does not get now it may get later.      *)
Call(l) ==
  /\ Polled /\ at[l] = "sleep" /\ now >= wake[l]
  /\ ~(l = "credential" /\ now >= Deadline(l))
  /\ at' = [at EXCEPT ![l] = "call"]
  /\ wake' = [wake EXCEPT ![l] = Least(Deadline(l), now + CallTime)]
  /\ sent' = [sent EXCEPT ![l] = now]
  /\ flight' = [flight EXCEPT ![l] = IF up THEN "asked" ELSE "none"]
  /\ stray' = IF up THEN stray ELSE stray \cup {l}
  /\ UNCHANGED <<now, remote, local, answer, link, task>>

(* maintain_credentials, top of the loop.                                  *)
CredentialOver ==
  /\ Polled /\ at["credential"] = "sleep" /\ now >= wake["credential"]
  /\ now >= Deadline("credential")
  /\ Stop("credential", "expired")
  /\ UNCHANGED <<now, remote, local, sent, flight, answer, stray, link, task>>

(* The service renews on receipt.                                          *)
Renew(l) ==
  /\ flight[l] = "asked" /\ phase # "over"
  /\ remote' = [remote EXCEPT ![l] = now + Life(l)]
  /\ answer' = [answer EXCEPT ![l] = now + Life(l)]
  /\ flight' = [flight EXCEPT ![l] = "answered"]
  /\ UNCHANGED <<now, local, at, wake, sent, stray, link, task>>

RenewLate(l) ==
  /\ l \in stray /\ phase # "over"
  /\ stray' = stray \ {l}
  /\ remote' = [remote EXCEPT ![l] = now + Life(l)]
  /\ UNCHANGED <<now, local, loops, link, task>>

(* Bug: the lease runs from the answer.                                    *)
BugEnd(l) == IF l = "lease" THEN now + Ttl ELSE answer[l]

(* renewal_deadline counts from the call; credential_deadline takes the    *)
(* time that the service names, the two wall clocks being equal.           *)
End(l) == IF l = "lease" THEN sent[l] + Ttl ELSE answer[l]

Answered(l) ==
  /\ Polled /\ at[l] = "call" /\ flight[l] = "answered"
  /\ CallOver(l)
  /\ IF End(l) <= now
       THEN Stop(l, "expired") /\ UNCHANGED local
       ELSE /\ local' = [local EXCEPT ![l] = End(l)]
            /\ Sleep(l, now + Nap(l, End(l)))
  /\ UNCHANGED <<now, remote, stray, link, task>>

(* An answer that is no renewal ends the loop.                             *)
Refused(l) ==
  /\ Polled /\ at[l] = "call" /\ flight[l] = "asked"
  /\ CallOver(l)
  /\ Stop(l, "refused")
  /\ UNCHANGED <<now, remote, local, stray, link, task>>

(* Transient: the call timed out, broke, or was answered 429 or 5xx, at    *)
(* any time and whether the service renewed or not.                        *)
Failed(l) ==
  /\ Polled /\ at[l] = "call"
  /\ CallOver(l)
  /\ stray' = IF flight[l] = "asked" THEN stray \cup {l} ELSE stray
  /\ IF l = "lease"
       THEN /\ at' = [at EXCEPT ![l] = "retry"]
            /\ wake' = [wake EXCEPT ![l] = now + Retry]
       ELSE \E pause \in Retry..MaxBackoff :
              Sleep(l, Least(now + pause, local[l]))
  /\ UNCHANGED <<now, remote, local, link, task>>

(* Bug: a lease that ran out is not noticed.                               *)
BugRetried ==
  /\ Polled /\ at["lease"] = "retry" /\ now >= wake["lease"]
  /\ Sleep("lease", now + 1 + Nap("lease", now))
  /\ UNCHANGED <<now, remote, local, sent, flight, answer, stray, link, task>>

(* maintain_heartbeats, back at the top of the loop.                       *)
Retried ==
  /\ Polled /\ at["lease"] = "retry" /\ now >= wake["lease"]
  /\ IF now >= local["lease"]
       THEN Stop("lease", "expired")
       ELSE Sleep("lease", now + Nap("lease", local["lease"]))
  /\ UNCHANGED <<now, remote, local, sent, flight, answer, stray, link, task>>

-----------------------------------------------------------------------------
(* The work task.                                                          *)

(* reconnect: ready renews the service's lease; the local one is kept      *)
(* until the heartbeat renews it.                                          *)
Reconnect ==
  /\ phase = "on" /\ blocked = -1 /\ op # "checked"
  /\ up /\ now < local["lease"]
  /\ remote' = [remote EXCEPT !["lease"] = now + Ttl]
  /\ UNCHANGED <<now, local, loops, stray, link, task>>

Lost == \E l \in Loops : at[l] \in {"expired", "refused"}
Expired == op = "running" /\ now >= local["lease"]
LoopDue ==
  /\ phase \in {"on", "capture"} /\ ~Lost
  /\ \E l \in Loops :
       \/ at[l] \in {"sleep", "call", "retry"} /\ now >= wake[l]
       \/ at[l] = "call" /\ flight[l] # "none" /\ now >= sent[l] + Latency

(* A synchronous step begins: run polls its loops before the work task.    *)
Block ==
  /\ phase = "on" /\ blocked = -1 /\ ~Lost /\ ~LoopDue
  /\ blocked' = 0
  /\ UNCHANGED <<now, remote, local, loops, stray, link, phase>>

(* dispatch: the lease is checked, then the intent is synced.              *)
Dispatch == op = "none" /\ now < local["lease"] /\ Block /\ op' = "checked"

(* The operation finished, and its receipt is synced; or any other step.   *)
Finish == op = "running" /\ Block /\ op' = "none"
Busy == op # "checked" /\ Block /\ UNCHANGED op

(* The step ends, that of a dispatch with the operation's start.  One that *)
(* began without a lease is the last: what follows it (deliver, pause)     *)
(* checks.                                                                 *)
Unblock ==
  /\ blocked >= 0
  /\ blocked' = -1
  /\ IF now - blocked < local["lease"]
       THEN /\ op' = IF op = "checked" THEN "running" ELSE op
            /\ UNCHANGED phase
       ELSE phase' = "capture" /\ op' = "none"
  /\ UNCHANGED <<now, remote, local, loops, stray, link>>

(* The work task ends the run, for one on the lease_expiry of its          *)
(* operation, or run sees a loop end.                                      *)
WorkEnds ==
  /\ phase = "on" /\ blocked = -1
  /\ phase' = "capture" /\ op' = "none"
  /\ UNCHANGED <<now, remote, local, loops, stray, link, blocked>>
CaptureEnds ==
  /\ phase = "capture"
  /\ phase' = "over"
  /\ UNCHANGED <<now, remote, local, loops, stray, link, blocked, op>>

-----------------------------------------------------------------------------
(* The link and the clock.                                                 *)

(* What is on its way when the service is lost may arrive late or never.   *)
LinkDown ==
  /\ up /\ down < MaxDown /\ outages < MaxOutages
  /\ up' = FALSE /\ down' = down + 1 /\ outages' = outages + 1
  /\ stray' = stray \cup {l \in Loops : flight[l] = "asked"}
  /\ flight' = [l \in Loops |-> "none"]
  /\ answer' = [l \in Loops |-> 0]
  /\ UNCHANGED <<now, remote, local, at, wake, sent, task>>
LinkUp ==
  /\ ~up
  /\ up' = TRUE
  /\ UNCHANGED <<now, remote, local, loops, stray, down, outages, task>>

(* Bug: nothing but the loops ends a run.                                  *)
BugDue == blocked = -1 /\ (LoopDue \/ (phase = "on" /\ Lost))

(* Something happens before the next tick: a timer, an answer that took    *)
(* its longest, an end that run or the operation sees.                     *)
Due == blocked = -1 /\ (LoopDue \/ (phase = "on" /\ (Lost \/ Expired)))
Tick ==
  /\ now < MaxNow /\ phase # "over"
  /\ ~Due
  /\ blocked < MaxBlock
  /\ up \/ down < MaxDown
  /\ now' = now + 1
  /\ blocked' = IF blocked = -1 THEN -1 ELSE blocked + 1
  /\ down' = IF up THEN down ELSE down + 1
  /\ UNCHANGED <<remote, local, loops, stray, up, outages, op, phase>>

Next ==
  \/ \E l \in Loops :
       ~Lost /\ (Call(l) \/ Answered(l) \/ Refused(l) \/ Failed(l))
  \/ ~Lost /\ (CredentialOver \/ Retried)
  \/ \E l \in Loops : Renew(l) \/ RenewLate(l)
  \/ Reconnect \/ Dispatch \/ Finish \/ Busy \/ Unblock
  \/ WorkEnds \/ CaptureEnds
  \/ LinkDown \/ LinkUp \/ Tick

Spec == Init /\ [][Next]_vars

-----------------------------------------------------------------------------
TypeOK ==
  /\ now \in 0..MaxNow
  /\ remote \in [Loops -> Nat] /\ local \in [Loops -> Nat]
  /\ at \in [lease : {"sleep", "call", "retry", "expired", "refused"},
             credential : {"sleep", "call", "expired", "refused"}]
  /\ wake \in [Loops -> Nat] /\ sent \in [Loops -> 0..MaxNow]
  /\ flight \in [Loops -> {"none", "asked", "answered"}]
  /\ answer \in [Loops -> Nat]
  /\ stray \subseteq Loops
  /\ up \in BOOLEAN /\ down \in 0..MaxDown
  /\ outages \in 0..MaxOutages
  /\ blocked \in -1..MaxBlock
  /\ op \in {"none", "checked", "running"}
  /\ phase \in {"on", "capture", "over"}

(* The executor never takes its lease or its credential to last longer     *)
(* than the service does, however calls and answers are delayed, given up  *)
(* and repeated.                                                           *)
LocalWithin == \A l \in Loops : local[l] <= remote[l]

(* Once the lease ran out an operation is stopped, within the synchronous  *)
(* step under way and one more; the check before a dispatch is enough.     *)
NoLateOperation ==
  op = "running" => \/ now <= local["lease"]
                    \/ now < local["lease"] + 2 * MaxBlock

(* A run is over soon after its lease is, though no operation runs and     *)
(* whatever call is under way.                                             *)
EndsInTime == phase = "on" => now <= local["lease"] + Retry + 2 * MaxBlock

=============================================================================
