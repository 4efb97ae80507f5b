------------------------------ MODULE Checkpoint ------------------------------
(***************************************************************************)
(* Workspace checkpoints (cli/sikaru/compute_checkpoint.rs, the private    *)
(* repository of compute_checkpoint_repo.rs, and the end of a run in       *)
(* compute_runtime.rs).                                                    *)
(*                                                                         *)
(* A conversation runs several turns in one process over one state         *)
(* directory, each with a checkpoint at its end.  The repository is worked *)
(* on by threads of its own (blocking): a checkpoint that is given up      *)
(* leaves its thread inside a filesystem call.  What such a thread and the *)
(* next turn share are the permit and the exclude file.                    *)
(*                                                                         *)
(* A definition whose name starts with Bug is a broken variant of the one  *)
(* it precedes; no specification uses it.                                  *)
(***************************************************************************)
EXTENDS Naturals, FiniteSets

CONSTANTS
  Files,     \* paths in the workspace
  Policies,  \* ignore rules the service may send: sets of files
  Workers,   \* threads that exist at once, one at most refused for its want
  MaxRuns,   \* bound on the turns of one process
  MaxTries,  \* transient failures of the record that are repeated (2)
  None       \* Option::None

ASSUME CheckpointAssumption ==
  /\ Policies \subseteq SUBSET Files /\ Policies # {}
  /\ MaxRuns \in Nat \ {0} /\ MaxTries \in Nat
  /\ None \notin Workers /\ None # "pushed"

Runs == 1..MaxRuns
(* What a file held at the end of a run.                                   *)
Blobs == Runs \X Files
(* A manifest names the content under the rules it was staged with.        *)
Manifests == [content : Runs, ignored : Policies]
BlobsOf(m) == {m.content} \X (Files \ m.ignored)

VARIABLES
  run,        \* the turn, and what the workspace holds at its end
  phase,      \* where serve_with_options, run and attempt are
  clean,      \* cleanup was confirmed (local_clean)
  policy,     \* the rules this checkpoint was given
  snapshot,   \* the manifest it staged
  todo, blob, \* blobs to upload, and the one in hand
  tries, reconciled,  \* locals of record
  report,     \* per run: None, "pushed" or "failed"
  thread,     \* per worker: where it is
  job,        \* per worker: its closure
  current,    \* the worker that is awaited
  answer,     \* what it sent
  cancelled,  \* workers whose wait was dropped
  permit,     \* the worker that holds it (ACTIVE_WORKERS)
  exclude,    \* the rules in info/exclude
  stored,     \* blobs the service has
  listed,     \* manifests it has
  recorded    \* checkpoints it recorded: run, manifest

task    == <<run, phase, clean, policy, snapshot, todo, blob, tries,
             reconciled, report>>
workers == <<thread, job, current, answer, cancelled, permit, exclude>>
service == <<stored, listed, recorded>>
vars    == <<task, workers, service>>

Idle == [kind |-> "none", rules |-> None]

Init ==
  /\ run = 1 /\ phase = "start" /\ clean = TRUE
  /\ policy = None /\ snapshot = None /\ todo = {} /\ blob = None
  /\ tries = 0 /\ reconciled = FALSE
  /\ report = [r \in Runs |-> None]
  /\ thread = [w \in Workers |-> "free"] /\ job = [w \in Workers |-> Idle]
  /\ current = None /\ answer = None /\ cancelled = {}
  /\ permit = None /\ exclude = None
  /\ stored = {} /\ listed = {} /\ recorded = {}

-----------------------------------------------------------------------------
(* blocking: a thread is spawned and awaited.                              *)

Blocking(kind, rules) ==
  \E w \in Workers :
    /\ thread[w] = "free"
    /\ thread' = [thread EXCEPT ![w] = "spawned"]
    /\ job' = [job EXCEPT ![w] = [kind |-> kind, rules |-> rules]]
    /\ current' = w
    /\ UNCHANGED <<answer, cancelled, permit, exclude>>

(* Bug: whoever comes last has the permit.                                 *)
BugAcquire(w) ==
  /\ thread[w] = "spawned"
  /\ permit' = w /\ thread' = [thread EXCEPT ![w] = "open"]
  /\ UNCHANGED <<task, job, current, answer, cancelled, exclude, service>>

(* WorkerPermit::acquire.                                                  *)
Acquire(w) ==
  /\ thread[w] = "spawned"
  /\ IF permit = None
       THEN permit' = w /\ thread' = [thread EXCEPT ![w] = "open"]
       ELSE thread' = [thread EXCEPT ![w] = "refused"] /\ UNCHANGED permit
  /\ UNCHANGED <<task, job, current, answer, cancelled, exclude, service>>

Step(w, at) == thread' = [thread EXCEPT ![w] = at]

(* open_or_init_cancellable; it and every later step looks at the          *)
(* cancellation first, and may fail.                                       *)
Open(w) ==
  /\ thread[w] = "open"
  /\ \/ /\ w \notin cancelled
        /\ Step(w, IF job[w].kind = "snapshot" THEN "exclude" ELSE "good")
     \/ Step(w, "bad")
  /\ UNCHANGED <<task, job, current, answer, cancelled, permit, exclude,
                 service>>

(* write_exclude, after its check.                                         *)
WriteExclude(w) ==
  /\ thread[w] = "exclude"
  /\ exclude' = job[w].rules
  /\ \/ w \notin cancelled /\ Step(w, "stage")
     \/ Step(w, "bad")
  /\ UNCHANGED <<task, job, current, answer, cancelled, permit, service>>

(* stage and snapshot: the workspace through the rules on disk.            *)
Stage(w) ==
  /\ thread[w] = "stage"
  /\ \/ /\ Step(w, "good")
        /\ job' = [job EXCEPT ![w].rules = exclude]
     \/ Step(w, "bad") /\ UNCHANGED job
  /\ UNCHANGED <<task, current, answer, cancelled, permit, exclude, service>>

(* The closure returns: the permit is dropped, and then the result sent.   *)
Release(w) ==
  /\ thread[w] \in {"good", "bad"}
  /\ permit' = None
  /\ Step(w, IF thread[w] = "good" THEN "send" ELSE "refused")
  /\ UNCHANGED <<task, job, current, answer, cancelled, exclude, service>>

(* Bug: the result is sent with the permit still held.                     *)
BugSend(w) ==
  /\ thread[w] \in {"good", "bad", "refused"}
  /\ answer' = IF w = current
               THEN [ok |-> thread[w] = "good", rules |-> job[w].rules]
               ELSE answer
  /\ IF thread[w] = "refused"
       THEN Step(w, "free") /\ cancelled' = cancelled \ {w}
       ELSE Step(w, "bad") /\ UNCHANGED cancelled
  /\ UNCHANGED <<task, job, current, permit, exclude, service>>

Send(w) ==
  /\ thread[w] \in {"send", "refused"}
  /\ answer' = IF w = current
               THEN [ok |-> thread[w] = "send", rules |-> job[w].rules]
               ELSE answer
  /\ Step(w, "free") /\ cancelled' = cancelled \ {w}
  /\ UNCHANGED <<task, job, current, permit, exclude, service>>

(* The await in blocking returns.                                          *)
Returned(ok) ==
  /\ answer # None /\ answer.ok = ok
  /\ answer' = None /\ current' = None
  /\ UNCHANGED <<thread, job, cancelled, permit, exclude>>

-----------------------------------------------------------------------------
(* A turn: serve_with_options, run.                                        *)

Goto(next) ==
  /\ phase' = next
  /\ UNCHANGED <<run, clean, policy, snapshot, todo, blob, tries, reconciled,
                 report>>

(* checkpoint_repository: without a repository the run has no checkpoint.  *)
Prepare == phase = "start" /\ Blocking("prepare", None) /\ Goto("prepare")
             /\ UNCHANGED service
Prepared ==
  /\ phase = "prepare"
  /\ \/ Returned(TRUE) /\ Goto("running")
     \/ Returned(FALSE) /\ Goto("over")
  /\ UNCHANGED service

(* The run ends and its processes are cleaned up.  A turn that ended well  *)
(* is reconciled first; how that ends does not matter.                     *)
RunEnds ==
  /\ phase = "running"
  /\ clean' \in BOOLEAN
  /\ phase' = "policy"
  /\ UNCHANGED <<run, policy, snapshot, todo, blob, tries, reconciled, report,
                 workers, service>>

(* The next turn of the conversation, in the same process.                 *)
NextRun ==
  /\ phase = "over" /\ run < MaxRuns
  /\ run' = run + 1 /\ phase' = "start"
  /\ policy' = None /\ snapshot' = None /\ todo' = {} /\ blob' = None
  /\ tries' = 0 /\ reconciled' = FALSE
  /\ UNCHANGED <<clean, report, workers, service>>

-----------------------------------------------------------------------------
(* checkpoint and attempt.                                                 *)

Saving == phase \in {"policy", "snapshot", "blobs", "read", "upload",
                     "manifest", "record", "reconcile"}
Report(what) ==
  /\ phase' = "over"
  /\ report' = [report EXCEPT ![run] = what]
  /\ UNCHANGED <<run, clean, policy, snapshot, todo, blob, tries, reconciled>>

(* The deadline, or the grace after a signal: the attempt is dropped, and  *)
(* with it the wait for a worker (CancelOnDrop).                           *)
GiveUp ==
  /\ Saving
  /\ Report("failed")
  /\ cancelled' = IF current # None /\ answer = None
                  THEN cancelled \cup {current} ELSE cancelled
  /\ current' = None /\ answer' = None
  /\ UNCHANGED <<thread, job, permit, exclude, service>>

Policy ==
  /\ phase = "policy"
  /\ \/ /\ policy' \in Policies
        /\ Blocking("snapshot", policy')
        /\ phase' = "snapshot"
        /\ UNCHANGED <<run, clean, snapshot, todo, blob, tries, reconciled,
                       report>>
     \/ Report("failed") /\ UNCHANGED workers
  /\ UNCHANGED service

Snapshot ==
  /\ phase = "snapshot"
  /\ \/ /\ Returned(TRUE)
        /\ snapshot' = [content |-> run, ignored |-> answer.rules]
        /\ todo' = BlobsOf(snapshot')
        /\ phase' = "blobs"
        /\ UNCHANGED <<run, clean, policy, blob, tries, reconciled, report>>
     \/ Returned(FALSE) /\ Report("failed")
  /\ UNCHANGED service

ReadBlob ==
  /\ phase = "blobs" /\ todo # {}
  /\ \E b \in todo : blob' = b /\ todo' = todo \ {b}
  /\ Blocking("blob", None)
  /\ phase' = "read"
  /\ UNCHANGED <<run, clean, policy, snapshot, tries, reconciled, report,
                 service>>
BlobRead ==
  /\ phase = "read"
  /\ \/ Returned(TRUE) /\ Goto("upload")
     \/ Returned(FALSE) /\ Report("failed")
  /\ UNCHANGED service

(* Bug: an upload that failed is passed over.                              *)
BugUpload ==
  /\ phase = "upload"
  /\ Goto("blobs")
  /\ stored' \in {stored, stored \cup {blob}}
  /\ UNCHANGED <<workers, listed, recorded>>

(* upload: a failure, or an answer for other content, ends the attempt;    *)
(* the content may have arrived all the same.                              *)
Upload ==
  /\ phase = "upload"
  /\ \/ stored' = stored \cup {blob} /\ Goto("blobs")
     \/ stored' \in {stored, stored \cup {blob}} /\ Report("failed")
  /\ UNCHANGED <<workers, listed, recorded>>

UploadManifest ==
  /\ phase = "blobs" /\ todo = {}
  /\ \/ listed' = listed \cup {snapshot} /\ Goto("record")
     \/ listed' \in {listed, listed \cup {snapshot}} /\ Report("failed")
  /\ UNCHANGED <<workers, stored, recorded>>

(* record: the call, and what the loop does with its answer.  The service  *)
(* may have recorded the checkpoint although the answer is lost.           *)
Entry == [run |-> run, manifest |-> snapshot]
Record ==
  /\ phase = "record"
  /\ recorded' = recorded \cup {Entry}
  /\ Report("pushed")
  /\ UNCHANGED <<workers, stored, listed>>
NotQuiescent ==
  /\ phase = "record" /\ ~reconciled
  /\ reconciled' = TRUE /\ phase' = "reconcile"
  /\ UNCHANGED <<run, clean, policy, snapshot, todo, blob, tries, report,
                 workers, service>>
RecordLost ==
  /\ phase = "record" /\ tries < MaxTries
  /\ tries' = tries + 1
  /\ recorded' \in {recorded, recorded \cup {Entry}}
  /\ UNCHANGED <<run, phase, clean, policy, snapshot, todo, blob, reconciled,
                 report, workers, stored, listed>>
RecordFails ==
  /\ phase = "record"
  /\ recorded' \in {recorded, recorded \cup {Entry}}
  /\ Report("failed")
  /\ UNCHANGED <<workers, stored, listed>>

(* The closure of run: not without a confirmed cleanup.                    *)
Reconcile ==
  /\ phase = "reconcile"
  /\ \/ clean /\ Goto("record")
     \/ Report("failed")
  /\ UNCHANGED <<workers, service>>

Next ==
  \/ \E w \in Workers : \/ Acquire(w) \/ Open(w) \/ WriteExclude(w)
                        \/ Stage(w) \/ Release(w) \/ Send(w)
  \/ Prepare \/ Prepared \/ RunEnds \/ NextRun
  \/ GiveUp \/ Policy \/ Snapshot \/ ReadBlob \/ BlobRead
  \/ Upload \/ UploadManifest
  \/ Record \/ NotQuiescent \/ RecordLost \/ RecordFails \/ Reconcile

Spec == Init /\ [][Next]_vars

-----------------------------------------------------------------------------
(* What the service recorded can be restored: all its content was uploaded *)
(* before, whatever failed on the way.  And a checkpoint reported as saved *)
(* is recorded.                                                            *)
SavedIsWhole ==
  /\ \A e \in recorded :
       e.manifest \in listed /\ BlobsOf(e.manifest) \subseteq stored
  /\ \A r \in Runs : report[r] = "pushed" => \E e \in recorded : e.run = r

(* A checkpoint leaves out what the service asked this one to leave out: a *)
(* thread of an earlier turn that is still stopping does not put its rules *)
(* in their place.                                                         *)
SavedUnderPolicy ==
  snapshot # None => snapshot.ignored = policy

(* The permit turns away a worker only for one that was given up, never    *)
(* for the one before it in the same checkpoint.                           *)
RefusedByStale ==
  [][\A w \in Workers :
       w = current /\ thread[w] = "spawned" /\ thread'[w] = "refused"
         => permit \in cancelled
    ]_vars
=============================================================================
