------------------------------- MODULE Workflow -------------------------------
(***************************************************************************)
(* A local agent run over one state directory (compute_workflow.rs), its   *)
(* snapshot file (compute_state.rs), and the user who resumes it, or the   *)
(* conversation that does so for each of its messages (compute_chat.rs).   *)
(*                                                                         *)
(* A process opens or resumes the directory, claims the attachment, serves *)
(* the executor and, beside it, submits the user's turn.  Every process    *)
(* may be killed anywhere; every call and every save may fail.             *)
(*                                                                         *)
(* A definition whose name starts with Bug is a broken variant of the one  *)
(* it precedes; no specification uses it.                                  *)
(***************************************************************************)
EXTENDS Naturals, FiniteSets

CONSTANTS
  MaxPrompts,   \* tasks the user has, in order
  MaxProcesses, \* bound on the processes over the directory
  MaxFailures,  \* bound on the saves that fail
  MaxCrashes,   \* bound on the processes that are killed
  None,         \* Option::None; no file
  Empty         \* a file without a line

(* Session, environment and attachment: each is created under the key of   *)
(* the directory, so creating it again returns the same one.               *)
Provisioned == 3

(* What a line of the file may say (Saved).                                *)
Identities == Nat \cup {None}
Snapshots == [made : 0..Provisioned, claimKey : Identities,
              claim : Identities, started : BOOLEAN, clean : BOOLEAN,
              turnKey : Identities, run : Identities]

ASSUME WorkflowAssumption ==
  /\ {MaxPrompts, MaxProcesses, MaxFailures, MaxCrashes} \subseteq Nat
  /\ None \notin Nat /\ {None, Empty} \cap Snapshots = {}

VARIABLES
  file,      \* workflow.jsonl: None, Empty or a Saved
  saved,     \* State::value of the process
  pc,        \* where execute is
  text,      \* the prompt of this process, or None
  cleanup,   \* what its result says of the cleanup is "confirmed"
  serving, submission,  \* the two futures run_attached joins
  keys,      \* identities drawn so far
  flight,    \* turns sent that the service may still receive
  turns,     \* turns the service has: key, prompt
  executor,  \* of the last executor that started: "none", "running",
             \* "clean", or "left" with processes nobody confirmed gone
  owners,    \* claims under which an executor started
  journal,   \* executor/journal.jsonl exists
  asked, told, seen,  \* the user's task, whether a run answers it, runs shown
  processes, failures, crashes

process == <<saved, pc, text, cleanup, serving, submission>>
service == <<flight, turns>>
local   == <<executor, owners, journal>>
user    == <<asked, told, seen>>
bounds  == <<processes, failures, crashes>>
vars    == <<file, process, keys, service, local, user, bounds>>

Initial == [made |-> 0, claimKey |-> None, claim |-> None, started |-> FALSE,
            clean |-> FALSE, turnKey |-> None, run |-> None]

Init ==
  /\ file = None /\ saved = None /\ pc = "down" /\ text = None
  /\ cleanup = FALSE /\ serving = "no" /\ submission = "no"
  /\ keys = 0 /\ flight = {} /\ turns = {}
  /\ executor = "none" /\ owners = {} /\ journal = FALSE
  /\ asked = 1 /\ told = FALSE /\ seen = {}
  /\ processes = 0 /\ failures = 0 /\ crashes = 0

-----------------------------------------------------------------------------
(* State: the snapshot.                                                    *)

(* save: the staged file replaces the old one whole.  A save that fails    *)
(* may have done so already (the directory's fsync comes after).           *)
Save ==
  file' = saved' /\ UNCHANGED bounds
SaveFails ==
  /\ failures < MaxFailures
  /\ failures' = failures + 1
  /\ file' \in {file, saved'}
  /\ UNCHANGED <<processes, crashes>>

(* A process begins.                                                       *)
Begin(t) ==
  /\ pc = "down" /\ processes < MaxProcesses
  /\ processes' = processes + 1
  /\ text' = t
  /\ cleanup' = FALSE /\ serving' = "no" /\ submission' = "no"
  /\ UNCHANGED <<keys, service, local, user, failures, crashes>>

(* open_state without --resume: the file is created, empty, and only if    *)
(* there is none.                                                          *)
Create ==
  /\ file = None
  /\ Begin(asked)
  /\ file' = Empty /\ saved' = Initial /\ pc' = "create"

(* The first save of State::open.  An error here is returned at once.      *)
Created ==
  /\ pc = "create" /\ UNCHANGED saved
  /\ \/ Save /\ pc' = "provision"
     \/ SaveFails /\ pc' = "down"
  /\ UNCHANGED <<text, cleanup, serving, submission, keys, service, local,
                 user>>

(* Bug: a resume does not ask how the last executor ended.                 *)
BugResumable(s) == TRUE

(* validate_resume.                                                        *)
Resumable(s) == s.started => s.clean /\ journal

(* resume_state: the snapshot is read, written back, and validated.  An    *)
(* empty one cannot be read.                                               *)
Resume(t) ==
  /\ file \notin {None, Empty} /\ Resumable(file)
  /\ Begin(t)
  /\ saved' = file /\ pc' = "provision"
  /\ UNCHANGED file

-----------------------------------------------------------------------------
(* execute and execute_saved.                                              *)

(* The error of execute_saved: diagnostics::failure knows of no cleanup.   *)
Failed == pc' = "final" /\ cleanup' = FALSE

Goto(next) == pc' = next /\ UNCHANGED cleanup

(* One step whose answer is written into the snapshot.                     *)
Keep(next) ==
  \/ Save /\ Goto(next)
  \/ SaveFails /\ Failed

(* Only an execution that had an executor can go on without a prompt.      *)
NoPrompt == ~saved.started /\ text = None

(* Bug: an executor that ended clean is succeeded under its own claim.     *)
BugUnclaimed == saved.claimKey = None

(* What acquire_claim asks first.                                          *)
Unclaimed == saved.claimKey = None \/ saved.clean

(* Every call before the executor is served may fail.                      *)
CallFails ==
  /\ \/ pc = "provision" /\ (NoPrompt \/ saved.made < Provisioned)
     \/ pc = "claim" /\ ~Unclaimed /\ saved.claim = None
     \/ pc \in {"validate", "credential"}
  /\ Failed
  /\ UNCHANGED <<file, saved, text, serving, submission, keys, service, local,
                 user, bounds>>

Provision ==
  /\ pc = "provision" /\ ~NoPrompt
  /\ IF saved.made = Provisioned
       THEN Goto("validate") /\ UNCHANGED <<file, saved, bounds>>
       ELSE /\ saved' = [saved EXCEPT !.made = @ + 1]
            /\ Keep("provision")
  /\ UNCHANGED <<text, serving, submission, keys, service, local, user>>

(* validate_remote.                                                        *)
Validate ==
  /\ pc = "validate" /\ Goto("claim")
  /\ UNCHANGED <<file, saved, text, serving, submission, keys, service, local,
                 user, bounds>>

(* acquire_claim: a new key, saved before it is used.                      *)
Renew ==
  /\ pc = "claim" /\ Unclaimed
  /\ keys' = keys + 1
  /\ saved' = [saved EXCEPT !.claimKey = keys', !.claim = None,
                            !.started = FALSE, !.clean = FALSE]
  /\ Keep("claim")
  /\ UNCHANGED <<text, serving, submission, service, local, user>>

(* The claim of a key is the same however often it is asked for.           *)
Claim ==
  /\ pc = "claim" /\ ~Unclaimed
  /\ IF saved.claim # None
       THEN Goto("credential") /\ UNCHANGED <<file, saved, bounds>>
       ELSE saved' = [saved EXCEPT !.claim = saved.claimKey] /\ Keep("claim")
  /\ UNCHANGED <<text, keys, serving, submission, service, local, user>>

(* acquire_bootstrap: from here on the snapshot says that an executor      *)
(* started and was not cleaned up.  Without a prompt nothing is submitted. *)
Credential ==
  /\ pc = "credential"
  /\ saved' = [saved EXCEPT !.clean = FALSE, !.started = TRUE]
  /\ \/ /\ Save /\ Goto("attached")
        /\ serving' = "starting"
        /\ submission' = IF text = None THEN "done" ELSE "waiting"
     \/ SaveFails /\ Failed /\ UNCHANGED <<serving, submission>>
  /\ UNCHANGED <<text, keys, service, local, user>>

-----------------------------------------------------------------------------
(* run_attached: serving and submission.                                   *)

Attached ==
  /\ pc = "attached"
  /\ UNCHANGED <<pc, text>>

(* serve_with_options up to open_verified, which may fail having created   *)
(* the journal.                                                            *)
StartFails ==
  /\ Attached /\ serving = "starting"
  /\ serving' = "over"
  /\ journal' \in {journal, TRUE}
  /\ UNCHANGED <<file, saved, cleanup, submission, keys, service, executor,
                 owners, user, bounds>>
Start ==
  /\ Attached /\ serving = "starting"
  /\ serving' = "up"
  /\ executor' = "running" /\ journal' = TRUE
  /\ owners' = owners \cup {saved.claim}
  /\ UNCHANGED <<file, saved, cleanup, submission, keys, service, user,
                 bounds>>

(* The run ends, or is stopped; its processes are confirmed gone or not.   *)
ServeEnds ==
  /\ Attached /\ serving = "up"
  /\ serving' = "over"
  /\ cleanup' \in BOOLEAN
  /\ executor' = IF cleanup' THEN "clean" ELSE "left"
  /\ UNCHANGED <<file, saved, submission, keys, service, owners, journal,
                 user, bounds>>

(* wait_ready: the executor stopped, a call failed, or time is up.         *)
NotReady ==
  /\ Attached /\ submission = "waiting"
  /\ submission' = "failed"
  /\ UNCHANGED <<file, saved, cleanup, serving, keys, service, local, user,
                 bounds>>

(* Bug: every attempt draws a key of its own.                              *)
BugSubmit ==
  /\ Attached /\ submission = "waiting"
  /\ keys' = keys + 1
  /\ saved' = [saved EXCEPT !.turnKey = keys', !.run = None]
  /\ Save /\ submission' = "keyed"
  /\ UNCHANGED <<cleanup, serving, service, local, user>>

(* submit, when the service says that the executor is ready: the turn's    *)
(* key is drawn once the last one has its run, and saved before it is      *)
(* used.                                                                   *)
Submit ==
  /\ Attached /\ submission = "waiting"
  /\ IF saved.turnKey = None \/ saved.run # None
       THEN /\ keys' = keys + 1
            /\ saved' = [saved EXCEPT !.turnKey = keys', !.run = None]
            /\ \/ Save /\ submission' = "keyed"
               \/ SaveFails /\ submission' = "failed"
       ELSE /\ submission' = "keyed"
            /\ UNCHANGED <<file, saved, keys, bounds>>
  /\ UNCHANGED <<cleanup, serving, service, local, user>>

Append ==
  /\ Attached /\ submission = "keyed"
  /\ flight' = flight \cup {[key |-> saved.turnKey, prompt |-> text]}
  /\ submission' = "sent"
  /\ UNCHANGED <<file, saved, cleanup, serving, keys, turns, local, user,
                 bounds>>

(* The service receives a turn, however late: one per key.                 *)
Receive ==
  /\ \E t \in flight :
       /\ flight' = flight \ {t}
       /\ turns' = IF \E u \in turns : u.key = t.key
                   THEN turns ELSE turns \cup {t}
  /\ UNCHANGED <<file, process, keys, local, user, bounds>>

(* Its answer: the run, named like the key.  The user is told when it is   *)
(* saved.                                                                  *)
Appended ==
  /\ Attached /\ submission = "sent"
  /\ \E t \in turns : t.key = saved.turnKey
  /\ saved' = [saved EXCEPT !.run = saved.turnKey]
  /\ \/ /\ Save /\ submission' = "done"
        /\ told' = TRUE /\ seen' = seen \cup {saved'.run}
     \/ SaveFails /\ submission' = "failed" /\ UNCHANGED <<told, seen>>
  /\ UNCHANGED <<cleanup, serving, keys, service, local, asked>>

(* No answer in ten seconds, or an error.                                  *)
NotAppended ==
  /\ Attached /\ submission = "sent"
  /\ submission' = "failed"
  /\ UNCHANGED <<file, saved, cleanup, serving, keys, service, local, user,
                 bounds>>

Joined ==
  /\ pc = "attached" /\ serving = "over" /\ submission \in {"done", "failed"}
  /\ Goto("final")
  /\ UNCHANGED <<file, saved, text, serving, submission, keys, service, local,
                 user, bounds>>

-----------------------------------------------------------------------------
(* The end of a process, and the user.                                     *)

(* What the result may name: nothing but the run on record, or, when there *)
(* is none, the run the executor answered the pending turn with, if it did. *)
Shown ==
  IF serving = "no" THEN {None}
  ELSE IF saved.run # None \/ saved.claim \notin owners THEN {saved.run}
  ELSE {None} \cup {t.key : t \in {u \in turns : u.key = saved.turnKey}}

(* The last save of execute, before the result is printed.                 *)
Final ==
  /\ pc = "final" /\ pc' = "down"
  /\ saved' = [saved EXCEPT !.clean = cleanup]
  /\ \/ /\ Save
        /\ \E run \in Shown : seen' = seen \cup ({run} \ {None})
        /\ told' = (told \/ seen' # seen)
     \/ SaveFails /\ UNCHANGED <<told, seen>>
  /\ UNCHANGED <<text, cleanup, serving, submission, keys, service, local,
                 asked>>

(* The process is killed; its executor's processes may be left.            *)
Crash ==
  /\ pc # "down" /\ crashes < MaxCrashes
  /\ crashes' = crashes + 1
  /\ pc' = "down"
  /\ executor' = IF executor = "running" THEN "left" ELSE executor
  /\ UNCHANGED <<file, saved, text, cleanup, serving, submission, keys,
                 service, owners, journal, user, processes, failures>>

(* The user repeats a task until a run that answers it is shown.           *)
NextTask ==
  /\ told /\ pc = "down" /\ asked < MaxPrompts
  /\ asked' = asked + 1 /\ told' = FALSE
  /\ UNCHANGED <<file, process, keys, service, local, seen, bounds>>

Next ==
  \/ Create \/ Created
  \/ Resume(None) \/ (~told /\ Resume(asked))
  \/ CallFails \/ Provision \/ Validate \/ Renew \/ Claim \/ Credential
  \/ StartFails \/ Start \/ ServeEnds
  \/ NotReady \/ Submit \/ Append \/ Receive \/ Appended \/ NotAppended
  \/ Joined \/ Final \/ Crash \/ NextTask

Spec == Init /\ [][Next]_vars

-----------------------------------------------------------------------------
(* A task is submitted once, whatever is lost: the reply to the turn, the  *)
(* turn itself until a later process has sent it again, a save, a process. *)
OneTurnPerPrompt ==
  \A t, u \in turns : t.prompt = u.prompt => t = u

(* An executor starts only when none before it may have left a process in  *)
(* the workspace.                                                          *)
NoStartOverLeftovers ==
  [][serving = "starting" /\ serving' = "up"
       => executor \in {"none", "clean"}]_vars

(* No two executors own the attachment under one claim, whose epoch is     *)
(* what the ledger and the service tell them apart by.                     *)
OwnClaim ==
  [][serving = "starting" /\ serving' = "up"
       => saved.claim \notin owners]_vars

(* README.md:126-127: "Setup interrupted before the executor starts can    *)
(* resume idempotently with the original prompt."                          *)
SetupResumes ==
  pc = "down" /\ file # None /\ executor \in {"none", "clean"}
    => file # Empty /\ Resumable(file)
=============================================================================
