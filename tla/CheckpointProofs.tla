--------------------------- MODULE CheckpointProofs ---------------------------
(***************************************************************************)
(* Proofs about Checkpoint: whenever a checkpoint is given up, and however *)
(* long its thread lives on, the permit keeps one thread at a time in the  *)
(* repository, and what the service recorded was uploaded before.          *)
(***************************************************************************)
EXTENDS Checkpoint, TLAPS

Rules == Policies \cup {None}

(* The positions of a thread that has the permit.                          *)
Inside == {"open", "exclude", "stage", "good", "bad"}

(* The phases in which a thread is awaited, and those with a manifest.     *)
Awaiting == {"prepare", "snapshot", "read"}
Uploading == {"blobs", "read", "upload"}
Recording == {"record", "reconcile"}
Early == {"start", "prepare", "running", "policy", "snapshot"}

Types ==
  /\ run \in Runs
  /\ phase \in Early \cup Uploading \cup Recording \cup {"over"}
  /\ thread \in [Workers -> Inside \cup {"free", "spawned", "send", "refused"}]
  /\ job \in [Workers ->
                [kind : {"none", "prepare", "snapshot", "blob"}, rules : Rules]]
  /\ exclude \in Rules /\ policy \in Rules
  /\ DOMAIN report = Runs

(* The permit is with the one thread that is inside.                       *)
PermitOK ==
  /\ permit # None => permit \in Workers /\ thread[permit] \in Inside
  /\ \A w \in Workers : thread[w] \in Inside => permit = w

(* A thread that lives is awaited, or its wait was dropped.                *)
WaitOK ==
  /\ \A w \in Workers : thread[w] # "free" => w = current \/ w \in cancelled
  /\ current # None => current \in Workers /\ phase \in Awaiting
  /\ answer # None => current # None /\ thread[current] = "free"

(* Until a manifest is staged the awaited thread has this checkpoint's     *)
(* rules, from the call to the answer; while it stages, so has the disk.   *)
RulesOK ==
  phase = "snapshot" =>
    /\ current \in Workers => job[current] = [kind |-> "snapshot", rules |-> policy]
    /\ current \in Workers /\ thread[current] = "stage" => exclude = policy
    /\ answer # None => answer.rules = policy

SnapshotOK ==
  /\ phase \in Early => snapshot = None
  /\ SavedUnderPolicy

(* What is not uploaded yet is still to be uploaded.                       *)
UploadOK ==
  /\ phase \in Uploading
       => BlobsOf(snapshot) \subseteq
            stored \cup todo \cup (IF phase = "blobs" THEN {} ELSE {blob})
  /\ phase \in Recording => snapshot \in listed /\ BlobsOf(snapshot) \subseteq stored

IInv ==
  /\ Types /\ PermitOK /\ WaitOK /\ RulesOK /\ SnapshotOK /\ UploadOK
  /\ SavedIsWhole

-----------------------------------------------------------------------------
LEMMA InitIInv == Init => IInv
<1> SUFFICES ASSUME Init PROVE IInv
  OBVIOUS
<1> USE CheckpointAssumption
<1>1. Types
  BY DEF Init, Types, Rules, Runs, Early, Idle
<1>2. PermitOK /\ WaitOK
  BY DEF Init, PermitOK, WaitOK, Inside
<1>3. RulesOK /\ SnapshotOK /\ UploadOK /\ SavedIsWhole
  BY DEF Init, RulesOK, SnapshotOK, SavedUnderPolicy, UploadOK, SavedIsWhole,
         Uploading, Recording, Runs
<1> QED BY <1>1, <1>2, <1>3 DEF IInv

-----------------------------------------------------------------------------
(* The threads.                                                            *)

WorkerStep(w) ==
  Acquire(w) \/ Open(w) \/ WriteExclude(w) \/ Stage(w) \/ Release(w) \/ Send(w)

LEMMA WorkerIInv ==
  ASSUME IInv, NEW w \in Workers, WorkerStep(w)
  PROVE  IInv'
<1> USE CheckpointAssumption
<1>1. UNCHANGED <<run, phase, policy, snapshot, todo, blob, report, current,
                  stored, listed, recorded>>
  BY DEF WorkerStep, Acquire, Open, WriteExclude, Stage, Release, Send, task,
         service
<1>2. Types
  BY DEF IInv
<1>3. /\ thread[w] # "free"
      /\ \E at \in Inside \cup {"free", "send", "refused"} :
           thread' = [thread EXCEPT ![w] = at]
  BY DEF WorkerStep, Acquire, Open, WriteExclude, Stage, Release, Send, Step,
         Inside
<1>4. /\ thread' \in [Workers -> Inside \cup {"free", "spawned", "send", "refused"}]
      /\ \A v \in Workers \ {w} : thread'[v] = thread[v]
  BY <1>2, <1>3 DEF Types
<1>5. Types'
  <2>1. exclude' \in Rules
    BY <1>2
    DEF WorkerStep, Acquire, Open, WriteExclude, Stage, Release, Send, Types
  <2>2. job' \in [Workers ->
                   [kind : {"none", "prepare", "snapshot", "blob"}, rules : Rules]]
    BY <1>2
    DEF WorkerStep, Acquire, Open, WriteExclude, Stage, Release, Send, Types
  <2> QED BY <1>1, <1>2, <1>4, <2>1, <2>2 DEF Types
<1>6. PermitOK'
  <2>1. CASE Acquire(w)
    BY <1>2, <2>1 DEF Acquire, IInv, PermitOK, Types, Inside
  <2>2. CASE Open(w)
    BY <1>2, <2>2 DEF Open, Step, IInv, PermitOK, Types, Inside
  <2>3. CASE WriteExclude(w)
    BY <1>2, <2>3 DEF WriteExclude, Step, IInv, PermitOK, Types, Inside
  <2>4. CASE Stage(w)
    BY <1>2, <2>4 DEF Stage, Step, IInv, PermitOK, Types, Inside
  <2>5. CASE Release(w)
    BY <1>2, <2>5 DEF Release, Step, IInv, PermitOK, Types, Inside
  <2>6. CASE Send(w)
    BY <1>2, <2>6 DEF Send, Step, IInv, PermitOK, Types, Inside
  <2> QED BY <2>1, <2>2, <2>3, <2>4, <2>5, <2>6 DEF WorkerStep
<1>7. WaitOK'
  <2>1. CASE Send(w)
    <3>1. /\ thread'[w] = "free" /\ cancelled' = cancelled \ {w}
          /\ w # current => answer' = answer
      BY <1>2, <2>1 DEF Send, Step, Types
    <3> QED BY <1>1, <1>4, <3>1 DEF IInv, WaitOK
  <2>2. CASE ~Send(w)
    <3>1. UNCHANGED <<answer, cancelled>>
      BY <2>2 DEF WorkerStep, Acquire, Open, WriteExclude, Stage, Release
    <3>2. thread'[w] # "free"
      BY <1>2, <2>2
      DEF WorkerStep, Acquire, Open, WriteExclude, Stage, Release, Step, Types
    <3> QED BY <1>1, <1>3, <1>4, <3>1, <3>2 DEF IInv, WaitOK
  <2> QED BY <2>1, <2>2
<1>8. RulesOK'
  <2> SUFFICES ASSUME phase = "snapshot" PROVE RulesOK'
    BY <1>1 DEF RulesOK
  <2>1. CASE w = current
    <3>1. job[w] = [kind |-> "snapshot", rules |-> policy]
      BY <2>1 DEF IInv, RulesOK
    <3>2. thread[w] = "stage" => exclude = policy
      BY <2>1 DEF IInv, RulesOK
    <3>3. job'[w] = [kind |-> "snapshot", rules |-> policy]
      BY <1>2, <3>1, <3>2
      DEF WorkerStep, Acquire, Open, WriteExclude, Stage, Release, Send, Types
    <3>4. thread'[w] = "stage" => exclude' = policy
      BY <1>2, <3>1
      DEF WorkerStep, Acquire, Open, WriteExclude, Stage, Release, Send, Step,
          Types, Inside
    <3>5. answer' # None => answer'.rules = policy
      BY <2>1, <3>1
      DEF WorkerStep, Acquire, Open, WriteExclude, Stage, Release, Send, IInv,
          RulesOK
    <3> QED BY <1>1, <2>1, <3>3, <3>4, <3>5 DEF RulesOK
  <2>2. CASE w # current
    <3>1. answer' = answer
      BY <2>2
      DEF WorkerStep, Acquire, Open, WriteExclude, Stage, Release, Send
    <3>2. current \in Workers => job'[current] = job[current]
      BY <1>2, <2>2
      DEF WorkerStep, Acquire, Open, WriteExclude, Stage, Release, Send, Types
    <3>3. current \in Workers /\ thread[current] = "stage" => exclude' = exclude
      BY <2>2
      DEF WorkerStep, Acquire, Open, WriteExclude, Stage, Release, Send, IInv,
          PermitOK, Inside
    <3> QED BY <1>1, <1>4, <2>2, <3>1, <3>2, <3>3 DEF IInv, RulesOK
  <2> QED BY <2>1, <2>2
<1> QED
  BY <1>1, <1>5, <1>6, <1>7, <1>8
  DEF IInv, SnapshotOK, SavedUnderPolicy, UploadOK, SavedIsWhole, BlobsOf

-----------------------------------------------------------------------------
(* The task.                                                               *)

Kinds == {"prepare", "snapshot", "blob"}

LEMMA BlockingStarts ==
  ASSUME IInv, NEW kind \in Kinds, NEW rules \in Rules, Blocking(kind, rules),
         phase \notin Awaiting, phase' \in Awaiting
  PROVE  /\ thread' \in [Workers -> Inside \cup {"free", "spawned", "send", "refused"}]
         /\ job' \in [Workers ->
                         [kind : {"none", "prepare", "snapshot", "blob"}, rules : Rules]]
         /\ exclude' = exclude /\ PermitOK' /\ WaitOK' /\ answer' = None
         /\ job'[current'] = [kind |-> kind, rules |-> rules]
         /\ thread'[current'] = "spawned"
<1> USE CheckpointAssumption
<1>1. PICK w \in Workers :
        /\ thread[w] = "free" /\ thread' = [thread EXCEPT ![w] = "spawned"]
        /\ job' = [job EXCEPT ![w] = [kind |-> kind, rules |-> rules]]
        /\ current' = w
        /\ UNCHANGED <<answer, cancelled, permit, exclude>>
  BY DEF Blocking
<1>2. Types /\ PermitOK /\ WaitOK
  BY DEF IInv
<1>3. answer = None /\ current = None
  BY <1>2 DEF WaitOK
<1>4. /\ thread' \in [Workers -> Inside \cup {"free", "spawned", "send", "refused"}]
      /\ thread'[w] = "spawned"
      /\ \A v \in Workers \ {w} : thread'[v] = thread[v]
  BY <1>1, <1>2 DEF Types
<1>5. /\ job' \in [Workers ->
                      [kind : {"none", "prepare", "snapshot", "blob"}, rules : Rules]]
      /\ job'[w] = [kind |-> kind, rules |-> rules]
  BY <1>1, <1>2 DEF Types, Kinds
<1>6. PermitOK'
  BY <1>1, <1>2, <1>4 DEF PermitOK, Inside
<1>7. WaitOK'
  BY <1>1, <1>2, <1>3, <1>4 DEF WaitOK
<1> QED BY <1>1, <1>3, <1>4, <1>5, <1>6, <1>7

LEMMA ReturnedEnds ==
  ASSUME IInv, NEW ok, Returned(ok), phase' \notin Awaiting
  PROVE  /\ UNCHANGED <<thread, job, exclude>>
         /\ PermitOK' /\ WaitOK' /\ answer' = None /\ current' = None
BY DEF Returned, IInv, PermitOK, WaitOK

(* A step of the task that leaves the threads alone, while none is         *)
(* awaited.                                                                *)
LEMMA ThreadsStay ==
  ASSUME IInv, UNCHANGED workers, phase \notin Awaiting, phase' \notin Awaiting
  PROVE  /\ UNCHANGED <<thread, job, exclude>>
         /\ PermitOK' /\ WaitOK'
BY DEF IInv, workers, PermitOK, WaitOK

(* What the service recorded stays whole: it forgets nothing.              *)
LEMMA StaysWhole ==
  ASSUME SavedIsWhole, stored \subseteq stored', listed \subseteq listed',
         recorded' = recorded,
         \A r \in Runs : report'[r] = "pushed" => report[r] = "pushed"
  PROVE  SavedIsWhole'
BY DEF SavedIsWhole, BlobsOf

LEMMA ReportFailed ==
  ASSUME IInv, Report("failed")
  PROVE  /\ DOMAIN report' = Runs
         /\ \A r \in Runs : report'[r] = "pushed" => report[r] = "pushed"
BY DEF Report, IInv, Types

(* An attempt that ends without a record.                                  *)
LEMMA FailedIInv ==
  ASSUME IInv, Report("failed"), PermitOK', WaitOK',
         UNCHANGED <<thread, job, exclude>>,
         stored \subseteq stored', listed \subseteq listed',
         recorded' \in {recorded, recorded \cup {Entry}},
         recorded' # recorded => phase = "record"
  PROVE  IInv'
<1>1. /\ phase' = "over"
      /\ UNCHANGED <<run, clean, policy, snapshot, todo, blob>>
  BY DEF Report
<1>2. Types'
  BY <1>1, ReportFailed DEF IInv, Types
<1>3. RulesOK' /\ SnapshotOK' /\ UploadOK'
  BY <1>1
  DEF IInv, RulesOK, SnapshotOK, UploadOK, SavedUnderPolicy, Early, Uploading,
      Recording
<1>4. SavedIsWhole'
  <2>1. CASE recorded' = recorded
    BY <2>1, StaysWhole, ReportFailed DEF IInv
  <2>2. CASE recorded' = recorded \cup {Entry} /\ phase = "record"
    <3>1. snapshot \in listed /\ BlobsOf(snapshot) \subseteq stored
      BY <2>2 DEF IInv, UploadOK, Recording
    <3>2. Entry.manifest = snapshot
      BY DEF Entry
    <3> QED
      BY <2>2, <3>1, <3>2, ReportFailed DEF IInv, SavedIsWhole, BlobsOf
  <2> QED BY <2>1, <2>2
<1> QED BY <1>2, <1>3, <1>4 DEF IInv

LEMMA TurnIInv ==
  ASSUME IInv, Prepare \/ Prepared \/ RunEnds \/ NextRun
  PROVE  IInv'
<1> USE CheckpointAssumption
<1>1. CASE Prepare
  <2>1. /\ phase = "start" /\ phase' = "prepare"
        /\ Blocking("prepare", None)
        /\ UNCHANGED <<run, policy, snapshot, report, service>>
    BY <1>1 DEF Prepare, Goto
  <2>2. /\ thread' \in [Workers -> Inside \cup {"free", "spawned", "send", "refused"}]
        /\ job' \in [Workers ->
                        [kind : {"none", "prepare", "snapshot", "blob"}, rules : Rules]]
        /\ exclude' = exclude /\ PermitOK' /\ WaitOK'
    BY <2>1, BlockingStarts DEF Kinds, Rules, Awaiting
  <2> QED
    BY <2>1, <2>2
    DEF IInv, Types, RulesOK, SnapshotOK, SavedUnderPolicy, UploadOK,
        SavedIsWhole, Early, Uploading, Recording, service
<1>2. CASE Prepared
  <2>1. /\ phase = "prepare" /\ phase' \in {"running", "over"}
        /\ \E ok \in BOOLEAN : Returned(ok)
        /\ UNCHANGED <<run, policy, snapshot, report, service>>
    BY <1>2 DEF Prepared, Goto
  <2>2. UNCHANGED <<thread, job, exclude>> /\ PermitOK' /\ WaitOK'
    BY <2>1, ReturnedEnds DEF Awaiting
  <2> QED
    BY <2>1, <2>2
    DEF IInv, Types, RulesOK, SnapshotOK, SavedUnderPolicy, UploadOK,
        SavedIsWhole, Early, Uploading, Recording, service
<1>3. CASE RunEnds
  <2>1. /\ phase = "running" /\ phase' = "policy"
        /\ UNCHANGED <<run, policy, snapshot, report, workers, service>>
    BY <1>3 DEF RunEnds
  <2>2. UNCHANGED <<thread, job, exclude>> /\ PermitOK' /\ WaitOK'
    BY <2>1, ThreadsStay DEF Awaiting
  <2> QED
    BY <2>1, <2>2
    DEF IInv, Types, RulesOK, SnapshotOK, SavedUnderPolicy, UploadOK,
        SavedIsWhole, Early, Uploading, Recording, service
<1>4. CASE NextRun
  <2>1. /\ phase = "over" /\ phase' = "start" /\ run' \in Runs
        /\ policy' = None /\ snapshot' = None
        /\ UNCHANGED <<report, workers, service>>
    BY <1>4 DEF NextRun, IInv, Types, Runs
  <2>2. UNCHANGED <<thread, job, exclude>> /\ PermitOK' /\ WaitOK'
    BY <2>1, ThreadsStay DEF Awaiting
  <2> QED
    BY <2>1, <2>2
    DEF IInv, Types, RulesOK, SnapshotOK, SavedUnderPolicy, UploadOK,
        SavedIsWhole, Early, Uploading, Recording, service, Rules
<1> QED BY <1>1, <1>2, <1>3, <1>4

LEMMA StagingIInv ==
  ASSUME IInv, Policy \/ Snapshot \/ GiveUp
  PROVE  IInv'
<1> USE CheckpointAssumption
<1>1. CASE GiveUp
  <2>1. /\ Report("failed") /\ current' = None /\ answer' = None
        /\ cancelled' = IF current # None /\ answer = None
                        THEN cancelled \cup {current} ELSE cancelled
        /\ UNCHANGED <<thread, job, permit, exclude, stored, listed, recorded>>
    BY <1>1 DEF GiveUp, service
  <2>2. PermitOK' /\ WaitOK'
    BY <2>1 DEF IInv, PermitOK, WaitOK
  <2> QED BY <2>1, <2>2, FailedIInv
<1>2. CASE Policy /\ phase' # "over"
  <2>1. /\ phase = "policy" /\ phase' = "snapshot" /\ policy' \in Rules
        /\ Blocking("snapshot", policy')
        /\ UNCHANGED <<run, snapshot, report, service>>
    BY <1>2 DEF Policy, Report, Rules
  <2>2. /\ thread' \in [Workers -> Inside \cup {"free", "spawned", "send", "refused"}]
        /\ job' \in [Workers ->
                        [kind : {"none", "prepare", "snapshot", "blob"}, rules : Rules]]
        /\ exclude' = exclude /\ PermitOK' /\ WaitOK' /\ answer' = None
        /\ job'[current'] = [kind |-> "snapshot", rules |-> policy']
        /\ thread'[current'] = "spawned"
    BY <2>1, BlockingStarts DEF Kinds, Awaiting
  <2>3. RulesOK'
    BY <2>2 DEF RulesOK
  <2> QED
    BY <2>1, <2>2, <2>3
    DEF IInv, Types, SnapshotOK, SavedUnderPolicy, UploadOK, SavedIsWhole,
        Early, Uploading, Recording, service
<1>3. CASE Policy /\ phase' = "over"
  <2>1. /\ phase = "policy" /\ Report("failed") /\ UNCHANGED <<workers, service>>
    BY <1>3 DEF Policy
  <2>2. UNCHANGED <<thread, job, exclude>> /\ PermitOK' /\ WaitOK'
    BY <2>1, <1>3, ThreadsStay DEF Awaiting
  <2> QED BY <2>1, <2>2, FailedIInv DEF service
<1>4. CASE Snapshot /\ phase' # "over"
  <2>1. /\ phase = "snapshot" /\ phase' = "blobs" /\ Returned(TRUE)
        /\ answer # None
        /\ snapshot' = [content |-> run, ignored |-> answer.rules]
        /\ todo' = BlobsOf(snapshot')
        /\ UNCHANGED <<run, policy, report, service>>
    BY <1>4 DEF Snapshot, Report, Returned
  <2>2. UNCHANGED <<thread, job, exclude>> /\ PermitOK' /\ WaitOK'
    BY <2>1, ReturnedEnds DEF Awaiting
  <2>3. SavedUnderPolicy'
    BY <2>1 DEF IInv, RulesOK, SavedUnderPolicy
  <2> QED
    BY <2>1, <2>2, <2>3
    DEF IInv, Types, RulesOK, SnapshotOK, UploadOK, SavedIsWhole, Early,
        Uploading, Recording, service
<1>5. CASE Snapshot /\ phase' = "over"
  <2>1. Report("failed") /\ Returned(FALSE) /\ UNCHANGED service
    BY <1>5 DEF Snapshot
  <2>2. UNCHANGED <<thread, job, exclude>> /\ PermitOK' /\ WaitOK'
    BY <2>1, <1>5, ReturnedEnds DEF Awaiting
  <2> QED BY <2>1, <2>2, FailedIInv DEF service
<1> QED BY <1>1, <1>2, <1>3, <1>4, <1>5

LEMMA UploadIInv ==
  ASSUME IInv, ReadBlob \/ BlobRead \/ Upload \/ UploadManifest
  PROVE  IInv'
<1> USE CheckpointAssumption
<1>1. CASE ReadBlob
  <2>1. /\ phase = "blobs" /\ phase' = "read"
        /\ blob' \in todo /\ todo' = todo \ {blob'}
        /\ Blocking("blob", None)
        /\ UNCHANGED <<run, policy, snapshot, report, service>>
    BY <1>1 DEF ReadBlob
  <2>2. /\ thread' \in [Workers -> Inside \cup {"free", "spawned", "send", "refused"}]
        /\ job' \in [Workers ->
                        [kind : {"none", "prepare", "snapshot", "blob"}, rules : Rules]]
        /\ exclude' = exclude /\ PermitOK' /\ WaitOK'
    BY <2>1, BlockingStarts DEF Kinds, Rules, Awaiting
  <2>3. UploadOK'
    BY <2>1 DEF IInv, UploadOK, Uploading, Recording, service, BlobsOf
  <2> QED
    BY <2>1, <2>2, <2>3
    DEF IInv, Types, RulesOK, SnapshotOK, SavedUnderPolicy, SavedIsWhole,
        Early, Uploading, service
<1>2. CASE BlobRead /\ phase' # "over"
  <2>1. /\ phase = "read" /\ phase' = "upload" /\ Returned(TRUE)
        /\ UNCHANGED <<run, policy, snapshot, todo, blob, report, service>>
    BY <1>2 DEF BlobRead, Goto, Report
  <2>2. UNCHANGED <<thread, job, exclude>> /\ PermitOK' /\ WaitOK'
    BY <2>1, ReturnedEnds DEF Awaiting
  <2>3. UploadOK'
    BY <2>1 DEF IInv, UploadOK, Uploading, Recording, service, BlobsOf
  <2> QED
    BY <2>1, <2>2, <2>3
    DEF IInv, Types, RulesOK, SnapshotOK, SavedUnderPolicy, SavedIsWhole,
        Early, Uploading, service
<1>3. CASE BlobRead /\ phase' = "over"
  <2>1. Report("failed") /\ Returned(FALSE) /\ UNCHANGED service
    BY <1>3 DEF BlobRead, Goto
  <2>2. UNCHANGED <<thread, job, exclude>> /\ PermitOK' /\ WaitOK'
    BY <2>1, <1>3, ReturnedEnds DEF Awaiting
  <2> QED BY <2>1, <2>2, FailedIInv DEF service
<1>4. CASE Upload /\ phase' # "over"
  <2>1. /\ phase = "upload" /\ phase' = "blobs"
        /\ stored' = stored \cup {blob}
        /\ UNCHANGED <<run, policy, snapshot, todo, report, workers, listed,
                       recorded>>
    BY <1>4 DEF Upload, Goto, Report
  <2>2. UNCHANGED <<thread, job, exclude>> /\ PermitOK' /\ WaitOK'
    BY <2>1, ThreadsStay DEF Awaiting
  <2>3. UploadOK'
    BY <2>1 DEF IInv, UploadOK, Uploading, Recording, BlobsOf
  <2>4. SavedIsWhole'
    BY <2>1, StaysWhole DEF IInv
  <2> QED
    BY <2>1, <2>2, <2>3, <2>4
    DEF IInv, Types, RulesOK, SnapshotOK, SavedUnderPolicy, Early, Uploading
<1>5. CASE (Upload \/ UploadManifest) /\ phase' = "over"
  <2>1. /\ Report("failed") /\ phase \notin Awaiting
        /\ stored \subseteq stored' /\ listed \subseteq listed'
        /\ UNCHANGED <<workers, recorded>>
    BY <1>5 DEF Upload, UploadManifest, Goto, Awaiting
  <2>2. UNCHANGED <<thread, job, exclude>> /\ PermitOK' /\ WaitOK'
    BY <2>1, <1>5, ThreadsStay DEF Awaiting
  <2> QED BY <2>1, <2>2, FailedIInv
<1>6. CASE UploadManifest /\ phase' # "over"
  <2>1. /\ phase = "blobs" /\ todo = {} /\ phase' = "record"
        /\ listed' = listed \cup {snapshot}
        /\ UNCHANGED <<run, policy, snapshot, report, workers, stored,
                       recorded>>
    BY <1>6 DEF UploadManifest, Goto, Report
  <2>2. UNCHANGED <<thread, job, exclude>> /\ PermitOK' /\ WaitOK'
    BY <2>1, ThreadsStay DEF Awaiting
  <2>3. UploadOK'
    BY <2>1 DEF IInv, UploadOK, Uploading, Recording, BlobsOf
  <2>4. SavedIsWhole'
    BY <2>1, StaysWhole DEF IInv
  <2> QED
    BY <2>1, <2>2, <2>3, <2>4
    DEF IInv, Types, RulesOK, SnapshotOK, SavedUnderPolicy, Early, Recording
<1> QED BY <1>1, <1>2, <1>3, <1>4, <1>5, <1>6

(* Only what is whole is recorded, as often as the record is repeated.     *)
LEMMA RecordIInv ==
  ASSUME IInv,
         Record \/ NotQuiescent \/ RecordLost \/ RecordFails \/ Reconcile
  PROVE  IInv'
<1> USE CheckpointAssumption
<1>1. /\ phase \in Recording
      /\ UNCHANGED <<run, policy, snapshot, workers, stored, listed>>
      /\ recorded' \in {recorded, recorded \cup {Entry}}
  BY DEF Record, NotQuiescent, RecordLost, RecordFails, Reconcile, Report,
         Goto, Recording, service
<1>2. phase \notin Awaiting
  BY <1>1 DEF Recording, Awaiting
<1>3. CASE phase' # "over"
  <2>1. phase' \in Recording /\ report' = report
    BY <1>1, <1>3
    DEF Record, NotQuiescent, RecordLost, RecordFails, Reconcile, Report, Goto,
        Recording
  <2>2. UNCHANGED <<thread, job, exclude>> /\ PermitOK' /\ WaitOK'
    BY <1>1, <1>2, <2>1, ThreadsStay DEF Awaiting, Recording
  <2>3. snapshot \in listed /\ BlobsOf(snapshot) \subseteq stored
        /\ Entry.manifest = snapshot
    BY <1>1 DEF IInv, UploadOK, Entry
  <2>4. SavedIsWhole'
    BY <1>1, <2>1, <2>3 DEF IInv, SavedIsWhole, BlobsOf
  <2>5. Types' /\ RulesOK' /\ SnapshotOK'
    BY <1>1, <2>1, <2>2
    DEF IInv, Types, RulesOK, SnapshotOK, SavedUnderPolicy, Early, Recording
  <2>6. UploadOK'
    BY <1>1, <2>1, <2>3 DEF UploadOK, Uploading, Recording, BlobsOf
  <2> QED BY <2>2, <2>4, <2>5, <2>6 DEF IInv
<1>4. CASE phase' = "over" /\ Report("failed")
  <2>1. recorded' # recorded => phase = "record"
    BY DEF Record, NotQuiescent, RecordLost, RecordFails, Reconcile, service
  <2>2. UNCHANGED <<thread, job, exclude>> /\ PermitOK' /\ WaitOK'
    BY <1>1, <1>2, <1>4, ThreadsStay DEF Awaiting
  <2> QED BY <1>1, <1>4, <2>1, <2>2, FailedIInv
<1>5. CASE phase' = "over" /\ ~Report("failed")
  <2>1. /\ phase = "record" /\ Report("pushed")
        /\ recorded' = recorded \cup {Entry}
    BY <1>1, <1>5
    DEF Record, NotQuiescent, RecordLost, RecordFails, Reconcile, Goto,
        Recording
  <2>2. UNCHANGED <<thread, job, exclude>> /\ PermitOK' /\ WaitOK'
    BY <1>1, <1>2, <1>5, ThreadsStay DEF Awaiting
  <2>3. /\ DOMAIN report' = Runs
        /\ \A r \in Runs \ {run} : report'[r] = report[r]
    BY <2>1 DEF Report, IInv, Types
  <2>4. /\ snapshot \in listed /\ BlobsOf(snapshot) \subseteq stored
        /\ Entry.manifest = snapshot /\ Entry.run = run
    BY <2>1 DEF IInv, UploadOK, Recording, Entry
  <2>5. SavedIsWhole'
    <3>1. \A e \in recorded' :
            e.manifest \in listed' /\ BlobsOf(e.manifest) \subseteq stored'
      BY <1>1, <2>1, <2>4 DEF IInv, SavedIsWhole, BlobsOf
    <3>2. \A r \in Runs :
            report'[r] = "pushed" => \E e \in recorded' : e.run = r
      BY <2>1, <2>3, <2>4 DEF IInv, SavedIsWhole
    <3> QED BY <3>1, <3>2 DEF SavedIsWhole, BlobsOf
  <2>6. Types' /\ RulesOK' /\ SnapshotOK' /\ UploadOK'
    BY <1>1, <1>5, <2>2, <2>3
    DEF IInv, Types, RulesOK, SnapshotOK, SavedUnderPolicy, UploadOK, Early,
        Uploading, Recording
  <2> QED BY <2>2, <2>5, <2>6 DEF IInv
<1> QED BY <1>3, <1>4, <1>5

LEMMA NextIInv == IInv /\ [Next]_vars => IInv'
<1> SUFFICES ASSUME IInv, [Next]_vars PROVE IInv'
  OBVIOUS
<1>1. ASSUME NEW w \in Workers, WorkerStep(w) PROVE IInv'
  BY <1>1, WorkerIInv
<1>2. CASE Prepare \/ Prepared \/ RunEnds \/ NextRun
  BY <1>2, TurnIInv
<1>3. CASE Policy \/ Snapshot \/ GiveUp
  BY <1>3, StagingIInv
<1>4. CASE ReadBlob \/ BlobRead \/ Upload \/ UploadManifest
  BY <1>4, UploadIInv
<1>5. CASE Record \/ NotQuiescent \/ RecordLost \/ RecordFails \/ Reconcile
  BY <1>5, RecordIInv
<1>6. CASE UNCHANGED vars
  BY <1>6
  DEF vars, task, workers, service, IInv, Types, PermitOK, WaitOK, RulesOK,
      SnapshotOK, SavedUnderPolicy, UploadOK, SavedIsWhole, BlobsOf
<1> QED
  BY <1>1, <1>2, <1>3, <1>4, <1>5, <1>6 DEF Next, WorkerStep

LEMMA CheckpointInvariant == Spec => []IInv
<1> QED BY InitIInv, NextIInv, PTL DEF Spec

-----------------------------------------------------------------------------
(* What the service recorded was uploaded before, and a checkpoint that is *)
(* reported as saved is recorded (attempt and record).                     *)
THEOREM CheckpointSavedIsWhole == Spec => []SavedIsWhole
<1>1. IInv => SavedIsWhole
  BY DEF IInv
<1> QED BY <1>1, CheckpointInvariant, PTL

(* A manifest leaves out what this checkpoint's policy says: no thread     *)
(* left by an earlier one writes its rules in between (WorkerPermit).      *)
THEOREM CheckpointSavedUnderPolicy == Spec => []SavedUnderPolicy
<1>1. IInv => SavedUnderPolicy
  BY DEF IInv, SnapshotOK
<1> QED BY <1>1, CheckpointInvariant, PTL

(* The permit turns a thread away only for one that was given up.          *)
THEOREM CheckpointRefusedByStale == Spec => RefusedByStale
<1>1. IInv /\ [Next]_vars
        => [\A w \in Workers :
              w = current /\ thread[w] = "spawned" /\ thread'[w] = "refused"
                => permit \in cancelled]_vars
  <2> SUFFICES ASSUME IInv, [Next]_vars, NEW w \in Workers, w = current,
                      thread[w] = "spawned", thread'[w] = "refused"
               PROVE  permit \in cancelled
    OBVIOUS
  <2>1. Acquire(w)
    <3>1. CASE \E v \in Workers : WorkerStep(v)
      <4>1. PICK v \in Workers : WorkerStep(v)
        BY <3>1
      <4>2. v = w
        BY <4>1
        DEF WorkerStep, Acquire, Open, WriteExclude, Stage, Release, Send,
            Step, IInv, Types
      <4> QED
        BY <4>1, <4>2
        DEF WorkerStep, Acquire, Open, WriteExclude, Stage, Release, Send
    <3>2. CASE \E kind \in Kinds : \E rules : Blocking(kind, rules)
      BY <3>2 DEF Blocking, IInv, Types
    <3>3. CASE thread' = thread
      BY <3>3
    <3> QED
      BY <3>1, <3>2, <3>3
      DEF Next, WorkerStep, vars, workers, Prepare, Prepared, RunEnds, NextRun,
          GiveUp, Policy, Snapshot, ReadBlob, BlobRead, Upload, UploadManifest,
          Record, NotQuiescent, RecordLost, RecordFails, Reconcile, Returned,
          Kinds
  <2>2. permit # None
    BY <2>1 DEF Acquire, IInv, Types
  <2> QED
    BY <2>2 DEF IInv, PermitOK, WaitOK, Inside
<1> QED BY <1>1, CheckpointInvariant, PTL DEF Spec, RefusedByStale
=============================================================================
