---------------------------- MODULE WorkflowProofs ----------------------------
(***************************************************************************)
(* Proofs about Workflow: however often processes over one directory are   *)
(* killed, and whatever calls and saves fail, no executor starts where an  *)
(* earlier one may have left a process, and none under a used claim.       *)
(***************************************************************************)
EXTENDS Workflow, TLAPS

Quiet == executor \in {"none", "clean"}

SetUp == {"create", "provision", "validate", "claim", "credential"}

Types ==
  /\ keys \in Nat /\ owners \subseteq 1..keys
  /\ pc \in SetUp \cup {"down", "attached", "final"}
  /\ executor \in {"none", "running", "clean", "left"}
  /\ cleanup \in BOOLEAN
  /\ file \in Snapshots \cup {None, Empty}
  /\ pc # "down" => saved \in Snapshots

(* What holds of a snapshot, in the file or in the process: its claim is   *)
(* its key's, an executor under it is on record, and a snapshot that can   *)
(* be resumed has nothing left behind it.                                  *)
Good(s) ==
  /\ s.claimKey # None => s.claimKey \in 1..keys
  /\ s.claim # None => s.claim = s.claimKey
  /\ s.claimKey \in owners => s.started
  /\ ~s.started \/ s.clean => Quiet

FileOK ==
  /\ file \in Snapshots => Good(file)
  /\ file \notin Snapshots => Quiet

SavedOK == pc # "down" => Good(saved)

(* A process that sets up resumed nothing unclean, and before it asks for  *)
(* the credential it has a claim no executor has used.                     *)
SetUpOK ==
  /\ pc \in SetUp => Quiet /\ serving = "no"
  /\ pc \in SetUp /\ saved.started => saved.clean /\ pc # "credential"
  /\ pc = "credential" => saved.claim = saved.claimKey /\ saved.claim # None

Dirty(s) == s.started /\ ~s.clean

(* From the credential to the last save, file and process both say that    *)
(* an executor started.                                                    *)
AttachedOK ==
  pc = "attached" =>
    /\ file \in Snapshots /\ Dirty(file) /\ Dirty(saved)
    /\ saved.claim = saved.claimKey /\ saved.claim # None
    /\ serving = "starting" => Quiet /\ saved.claim \notin owners

CleanupOK == cleanup => executor = "clean" /\ serving = "over"

IInv == Types /\ FileOK /\ SavedOK /\ SetUpOK /\ AttachedOK /\ CleanupOK

-----------------------------------------------------------------------------
LEMMA InitIInv == Init => IInv
<1> SUFFICES ASSUME Init PROVE IInv
  OBVIOUS
<1>1. file \notin Snapshots
  BY WorkflowAssumption DEF Init
<1>2. Types
  BY DEF Init, Types, process
<1> QED
  BY <1>1, <1>2
  DEF Init, IInv, FileOK, SavedOK, SetUpOK, AttachedOK, CleanupOK, Quiet,
      SetUp

(* A save leaves in the file what it held, or what is saved.               *)
LEMMA Saves ==
  Save \/ SaveFails => file' \in {file, saved'}
  BY DEF Save, SaveFails

(* A step that leaves the executor, the claims and both snapshots alone    *)
(* keeps what is said of them.                                             *)
LEMMA SameSnapshots ==
  ASSUME IInv, UNCHANGED <<file, saved, keys, executor, owners>>
  PROVE  /\ FileOK'
         /\ Quiet' <=> Quiet
         /\ pc # "down" => Good(saved)'
  BY DEF IInv, FileOK, SavedOK, Good, Quiet

(* A step that writes the process's snapshot, and neither starts an        *)
(* executor nor ends one.                                                  *)
LEMMA NewSnapshot ==
  ASSUME IInv, saved' \in Snapshots, Good(saved)', file' \in {file, saved'},
         UNCHANGED <<executor, owners>>, keys' \in Nat, keys' >= keys
  PROVE  /\ FileOK'
         /\ Quiet' <=> Quiet
         /\ keys' \in Nat /\ owners' \subseteq 1..keys'
         /\ file' \in Snapshots \cup {None, Empty}
<1>1. owners' \subseteq 1..keys'
  BY DEF IInv, Types
<1>2. file' \in Snapshots \cup {None, Empty}
  BY DEF IInv, Types
<1>3. Quiet' <=> Quiet
  BY DEF Quiet
<1>4. file \in Snapshots => Good(file)'
  BY <1>3 DEF IInv, Types, FileOK, Good
<1>5. FileOK'
  BY <1>3, <1>4 DEF IInv, FileOK
<1> QED BY <1>1, <1>2, <1>3, <1>5

LEMMA SetUpIInv ==
  ASSUME IInv,
         Create \/ Created \/ Resume(None) \/ Resume(asked) \/ CallFails
           \/ Provision \/ Validate
  PROVE  IInv'
<1> USE WorkflowAssumption
<1>1. CASE Create
  <2>1. Initial \in Snapshots
    BY DEF Initial, Snapshots, Identities, Provisioned
  <2>2. Quiet' /\ Quiet
    BY <1>1 DEF IInv, FileOK, Create, Begin, local, Quiet
  <2>3. Types'
    BY <1>1, <2>1 DEF IInv, Types, Create, Begin, local, SetUp
  <2>4. Good(saved)'
    <3>1. saved' = Initial /\ owners' = owners
      BY <1>1 DEF Create, Begin, local
    <3>2. None \notin owners
      <4>1. owners \subseteq Nat
        BY DEF IInv, Types
      <4>2. None \notin Nat
        OBVIOUS
      <4> QED BY <4>1, <4>2
    <3> QED BY <2>2, <3>1, <3>2 DEF Good, Initial
  <2>5. FileOK'
    BY <1>1, <2>2, <2>4 DEF Create, FileOK
  <2> QED
    BY <1>1, <2>2, <2>3, <2>4, <2>5
    DEF IInv, SavedOK, SetUpOK, AttachedOK, CleanupOK, Create, Begin, Initial,
        SetUp
<1>2. CASE Created
  <2>1. /\ UNCHANGED <<executor, owners, keys, saved, serving, cleanup>>
        /\ pc = "create" /\ pc' \in {"provision", "down"}
        /\ file' \in {file, saved'} /\ saved \in Snapshots /\ Good(saved)
    BY <1>2, Saves DEF Created, local, IInv, Types, SavedOK
  <2>2. Good(saved)'
    BY <2>1 DEF Good, Quiet
  <2>3. /\ FileOK' /\ (Quiet' <=> Quiet)
        /\ file' \in Snapshots \cup {None, Empty}
    BY <2>1, <2>2, NewSnapshot DEF IInv, Types
  <2> QED
    BY <2>1, <2>2, <2>3
    DEF IInv, Types, SavedOK, SetUpOK, AttachedOK, CleanupOK, SetUp
<1>3. CASE \E t \in {None, asked} : Resume(t)
  <2>1. /\ UNCHANGED <<executor, owners, keys, file>> /\ saved' = file
        /\ pc' = "provision" /\ serving' = "no" /\ cleanup' = FALSE
        /\ file \in Snapshots /\ Resumable(file)
    BY <1>3 DEF Resume, Begin, local, IInv, Types
  <2>2. Good(file) /\ Good(file)' /\ Good(saved)'
    BY <2>1 DEF IInv, FileOK, Good, Quiet
  <2>3. Quiet /\ Quiet'
    BY <2>1, <2>2 DEF Resumable, Good, Quiet
  <2> QED
    BY <2>1, <2>2, <2>3
    DEF IInv, Types, FileOK, SavedOK, SetUpOK, AttachedOK, CleanupOK, SetUp,
        Resumable
<1>4. CASE CallFails
  <2>1. /\ UNCHANGED <<file, saved, keys, executor, owners, serving>>
        /\ pc # "down" /\ pc' = "final" /\ cleanup' = FALSE
    BY <1>4 DEF CallFails, Failed, local
  <2> QED
    BY <2>1, SameSnapshots
    DEF IInv, Types, SavedOK, SetUpOK, AttachedOK, CleanupOK, SetUp
<1>5. CASE Provision
  <2>1. /\ UNCHANGED <<keys, executor, owners, serving>>
        /\ pc = "provision" /\ pc' \in {"provision", "validate", "final"}
        /\ cleanup' \in {cleanup, FALSE}
        /\ file' \in {file, saved'}
        /\ saved' \in {saved, [saved EXCEPT !.made = @ + 1]}
        /\ saved # saved' => saved.made # Provisioned
    BY <1>5, Saves DEF Provision, Keep, Goto, Failed, local
  <2>2. saved \in Snapshots /\ Good(saved)
    BY <2>1 DEF IInv, Types, SavedOK
  <2>3. /\ saved' \in Snapshots
        /\ saved'.claimKey = saved.claimKey /\ saved'.claim = saved.claim
        /\ saved'.started = saved.started /\ saved'.clean = saved.clean
    BY <2>1, <2>2 DEF Snapshots, Provisioned
  <2>4. Good(saved)'
    BY <2>1, <2>2, <2>3 DEF Good, Quiet
  <2>5. /\ FileOK' /\ (Quiet' <=> Quiet)
        /\ file' \in Snapshots \cup {None, Empty}
    BY <2>1, <2>3, <2>4, NewSnapshot DEF IInv, Types
  <2>6. SetUpOK'
    BY <2>1, <2>3, <2>5 DEF IInv, SetUpOK, SetUp
  <2>7. AttachedOK' /\ CleanupOK'
    <3>1. AttachedOK'
      BY <2>1 DEF AttachedOK
    <3>2. cleanup' => cleanup
      BY <2>1, Zenon
    <3> QED BY <2>1, <3>1, <3>2 DEF IInv, CleanupOK
  <2> QED
    BY <2>1, <2>3, <2>4, <2>5, <2>6, <2>7 DEF IInv, Types, SavedOK, SetUp
<1>6. CASE Validate
  <2>1. /\ UNCHANGED <<file, saved, keys, executor, owners, serving, cleanup>>
        /\ pc = "validate" /\ pc' = "claim"
    BY <1>6 DEF Validate, Goto, local
  <2> QED
    BY <2>1, SameSnapshots
    DEF IInv, Types, SavedOK, SetUpOK, AttachedOK, CleanupOK, SetUp
<1> QED BY <1>1, <1>2, <1>3, <1>4, <1>5, <1>6

(* The claim: a new key is no key an executor started under.               *)
LEMMA ClaimIInv ==
  ASSUME IInv, Renew \/ Claim \/ Credential
  PROVE  IInv'
<1> USE WorkflowAssumption
<1>1. CASE Renew
  <2>1. /\ UNCHANGED <<executor, owners, serving>>
        /\ pc = "claim" /\ pc' \in {"claim", "final"}
        /\ cleanup' \in {cleanup, FALSE}
        /\ file' \in {file, saved'}
        /\ keys' = keys + 1
        /\ saved' = [saved EXCEPT !.claimKey = keys', !.claim = None,
                                  !.started = FALSE, !.clean = FALSE]
    BY <1>1, Saves DEF Renew, Keep, Goto, Failed, local
  <2>2. saved \in Snapshots /\ keys \in Nat /\ owners \subseteq 1..keys
        /\ Quiet
    BY <2>1 DEF IInv, Types, SetUpOK, SetUp
  <2>8. keys' \in Identities /\ None \in Identities
    BY <2>1, <2>2 DEF Identities
  <2>3. /\ saved' \in Snapshots
        /\ saved'.claimKey = keys + 1 /\ saved'.claim = None
        /\ saved'.started = FALSE /\ saved'.clean = FALSE
    BY <2>1, <2>2, <2>8 DEF Snapshots
  <2>4. Good(saved)'
    BY <2>1, <2>2, <2>3 DEF Good, Quiet
  <2>5. /\ FileOK' /\ (Quiet' <=> Quiet)
        /\ keys' \in Nat /\ owners' \subseteq 1..keys'
        /\ file' \in Snapshots \cup {None, Empty}
    BY <2>1, <2>2, <2>3, <2>4, NewSnapshot
  <2>6. SetUpOK'
    BY <2>1, <2>3, <2>5 DEF IInv, SetUpOK, SetUp
  <2>7. AttachedOK' /\ CleanupOK'
    <3>1. AttachedOK'
      BY <2>1 DEF AttachedOK
    <3>2. cleanup' => cleanup
      BY <2>1, Zenon
    <3> QED BY <2>1, <3>1, <3>2 DEF IInv, CleanupOK
  <2> QED
    BY <2>1, <2>3, <2>4, <2>5, <2>6, <2>7 DEF IInv, Types, SavedOK, SetUp
<1>2. CASE Claim
  <2>1. /\ UNCHANGED <<keys, executor, owners, serving>>
        /\ pc = "claim" /\ pc' \in {"claim", "credential", "final"}
        /\ cleanup' \in {cleanup, FALSE}
        /\ file' \in {file, saved'}
        /\ saved' \in {saved, [saved EXCEPT !.claim = saved.claimKey]}
        /\ pc' = "credential" => saved' = saved /\ saved.claim # None
        /\ saved.claimKey # None /\ ~saved.clean
    BY <1>2, Saves DEF Claim, Keep, Goto, Failed, local, Unclaimed
  <2>2. saved \in Snapshots /\ Good(saved) /\ ~saved.started
    BY <2>1 DEF IInv, Types, SavedOK, SetUpOK, SetUp, Snapshots
  <2>3. /\ saved' \in Snapshots
        /\ saved'.claimKey = saved.claimKey
        /\ saved'.claim \in {saved.claim, saved.claimKey}
        /\ saved'.started = saved.started /\ saved'.clean = saved.clean
    BY <2>1, <2>2 DEF Snapshots
  <2>4. Good(saved)'
    BY <2>1, <2>2, <2>3 DEF Good, Quiet
  <2>5. /\ FileOK' /\ (Quiet' <=> Quiet)
        /\ file' \in Snapshots \cup {None, Empty}
    BY <2>1, <2>3, <2>4, NewSnapshot DEF IInv, Types
  <2>6. SetUpOK'
    BY <2>1, <2>2, <2>3, <2>5 DEF IInv, SetUpOK, SetUp, Good
  <2>7. AttachedOK' /\ CleanupOK'
    <3>1. AttachedOK'
      BY <2>1 DEF AttachedOK
    <3>2. cleanup' => cleanup
      BY <2>1, Zenon
    <3> QED BY <2>1, <3>1, <3>2 DEF IInv, CleanupOK
  <2> QED
    BY <2>1, <2>3, <2>4, <2>5, <2>6, <2>7 DEF IInv, Types, SavedOK, SetUp
<1>3. CASE Credential
  <2>1. /\ UNCHANGED <<keys, executor, owners>>
        /\ pc = "credential"
        /\ saved' = [saved EXCEPT !.clean = FALSE, !.started = TRUE]
        /\ file' \in {file, saved'}
        /\ \/ /\ pc' = "attached" /\ serving' = "starting"
              /\ cleanup' = cleanup /\ file' = saved'
           \/ pc' = "final" /\ cleanup' = FALSE /\ serving' = serving
    BY <1>3, Saves DEF Credential, Save, Goto, Failed, local
  <2>2. /\ saved \in Snapshots /\ Good(saved) /\ ~saved.started /\ Quiet
        /\ saved.claim = saved.claimKey /\ saved.claim # None
        /\ cleanup = FALSE
    BY <2>1 DEF IInv, Types, SavedOK, SetUpOK, SetUp, Snapshots, CleanupOK
  <2>3. /\ saved' \in Snapshots /\ Dirty(saved')
        /\ saved'.claimKey = saved.claimKey /\ saved'.claim = saved.claim
    BY <2>1, <2>2 DEF Snapshots, Dirty
  <2>4. Good(saved)'
    BY <2>1, <2>2, <2>3 DEF Good, Quiet, Dirty
  <2>5. /\ FileOK' /\ (Quiet' <=> Quiet)
        /\ file' \in Snapshots \cup {None, Empty}
    BY <2>1, <2>3, <2>4, NewSnapshot DEF IInv, Types
  <2>6. AttachedOK'
    BY <2>1, <2>2, <2>3, <2>5 DEF AttachedOK, Good
  <2> QED
    BY <2>1, <2>2, <2>3, <2>4, <2>5, <2>6
    DEF IInv, Types, SavedOK, SetUpOK, CleanupOK, SetUp
<1> QED BY <1>1, <1>2, <1>3

(* The two futures of run_attached.                                        *)
LEMMA ServingIInv ==
  ASSUME IInv, StartFails \/ Start \/ ServeEnds
  PROVE  IInv'
<1>1. /\ UNCHANGED <<file, saved, pc, keys>> /\ pc = "attached"
      /\ saved \in Snapshots /\ file \in Snapshots
      /\ Dirty(saved) /\ Dirty(file) /\ Good(saved) /\ Good(file)
      /\ keys \in Nat /\ owners \subseteq 1..keys
      /\ saved.claim = saved.claimKey /\ saved.claim # None
  BY DEF StartFails, Start, ServeEnds, Attached, IInv, Types, SavedOK, FileOK,
         AttachedOK
<1>2. \/ /\ StartFails /\ UNCHANGED <<executor, owners, cleanup>>
         /\ serving' = "over"
      \/ /\ Start /\ serving = "starting" /\ serving' = "up"
         /\ executor' = "running" /\ owners' = owners \cup {saved.claim}
         /\ cleanup' = cleanup
      \/ /\ ServeEnds /\ serving = "up" /\ serving' = "over"
         /\ cleanup' \in BOOLEAN /\ owners' = owners
         /\ executor' = IF cleanup' THEN "clean" ELSE "left"
  BY DEF StartFails, Start, ServeEnds, local
<1>3. owners' \subseteq 1..keys
  BY <1>1, <1>2 DEF Good
<1>4. Good(saved)' /\ Good(file)'
  BY <1>1, <1>2 DEF Good, Dirty
<1>5. Types'
  BY <1>1, <1>2, <1>3 DEF IInv, Types
<1>6. CleanupOK'
  BY <1>1, <1>2 DEF IInv, CleanupOK
<1> QED
  BY <1>1, <1>2, <1>4, <1>5, <1>6
  DEF IInv, FileOK, SavedOK, SetUpOK, AttachedOK, SetUp

LEMMA SubmissionIInv ==
  ASSUME IInv, NotReady \/ Submit \/ Append \/ Appended \/ NotAppended
  PROVE  IInv'
<1>1. /\ UNCHANGED <<pc, serving, cleanup, executor, owners>>
      /\ pc = "attached" /\ keys' \in {keys, keys + 1}
      /\ file' \in {file, saved'}
      /\ \/ saved' = saved
         \/ saved' = [saved EXCEPT !.turnKey = keys', !.run = None]
         \/ saved' = [saved EXCEPT !.run = saved.turnKey]
  BY Saves
  DEF NotReady, Submit, Append, Appended, NotAppended, Attached, local
<1>2. /\ saved \in Snapshots /\ Good(saved) /\ Dirty(saved)
      /\ file \in Snapshots /\ Dirty(file) /\ keys \in Nat
  BY <1>1 DEF IInv, Types, SavedOK, AttachedOK
<1>3. /\ saved' \in Snapshots
      /\ saved'.claimKey = saved.claimKey /\ saved'.claim = saved.claim
      /\ saved'.started = saved.started /\ saved'.clean = saved.clean
  <2>1. keys' \in Identities /\ None \in Identities
    BY <1>1, <1>2 DEF Identities
  <2>2. CASE saved' = saved
    BY <1>2, <2>2
  <2>3. CASE saved' = [saved EXCEPT !.turnKey = keys', !.run = None]
    BY <1>2, <2>1, <2>3 DEF Snapshots
  <2>4. CASE saved' = [saved EXCEPT !.run = saved.turnKey]
    BY <1>2, <2>4 DEF Snapshots
  <2> QED BY <1>1, <2>2, <2>3, <2>4
<1>4. Good(saved)'
  BY <1>1, <1>2, <1>3 DEF Good, Quiet
<1>5. /\ FileOK' /\ (Quiet' <=> Quiet)
      /\ keys' \in Nat /\ owners' \subseteq 1..keys'
  <2>1. keys' \in Nat /\ keys' >= keys
    BY <1>1, <1>2
  <2> QED BY <1>1, <1>3, <1>4, <2>1, NewSnapshot
<1>6. file' \in Snapshots /\ Dirty(file') /\ Dirty(saved')
  BY <1>1, <1>2, <1>3 DEF Dirty
<1> QED
  BY <1>1, <1>2, <1>3, <1>4, <1>5, <1>6
  DEF IInv, Types, SavedOK, SetUpOK, AttachedOK, CleanupOK, SetUp

(* A snapshot saved as clean is that of an executor that ended clean.      *)
LEMMA FinalIInv ==
  ASSUME IInv, Final
  PROVE  IInv'
<1>1. /\ UNCHANGED <<serving, cleanup, executor, owners, keys>>
      /\ pc = "final" /\ pc' = "down"
      /\ file' \in {file, saved'}
      /\ saved' = [saved EXCEPT !.clean = cleanup]
  BY Saves DEF Final, local
<1>2. saved \in Snapshots /\ Good(saved) /\ keys \in Nat /\ cleanup \in BOOLEAN
  BY <1>1 DEF IInv, Types, SavedOK
<1>3. /\ saved' \in Snapshots
      /\ saved'.claimKey = saved.claimKey /\ saved'.claim = saved.claim
      /\ saved'.started = saved.started /\ saved'.clean = cleanup
  BY <1>1, <1>2 DEF Snapshots
<1>4. cleanup => Quiet
  BY DEF IInv, CleanupOK, Quiet
<1>5. Good(saved)'
  BY <1>1, <1>2, <1>3, <1>4 DEF Good, Quiet
<1>6. FileOK' /\ file' \in Snapshots \cup {None, Empty}
  BY <1>1, <1>2, <1>3, <1>5, NewSnapshot
<1> QED
  BY <1>1, <1>2, <1>6
  DEF IInv, Types, SavedOK, SetUpOK, AttachedOK, CleanupOK, SetUp

(* A crash turns a running executor into one that may have left processes; *)
(* the file has said so since the credential.                              *)
LEMMA CrashIInv ==
  ASSUME IInv, Crash
  PROVE  IInv'
<1>1. /\ UNCHANGED <<file, saved, serving, cleanup, owners, keys>>
      /\ pc' = "down"
      /\ executor' = IF executor = "running" THEN "left" ELSE executor
  BY DEF Crash
<1>2. (Quiet' <=> Quiet) /\ (executor = "clean" => executor' = "clean")
  BY <1>1 DEF Quiet, IInv, Types
<1> QED
  BY <1>1, <1>2
  DEF IInv, Types, FileOK, SavedOK, SetUpOK, AttachedOK, CleanupOK, SetUp,
      Good

LEMMA NextIInv == IInv /\ [Next]_vars => IInv'
<1> SUFFICES ASSUME IInv, [Next]_vars PROVE IInv'
  OBVIOUS
<1>1. CASE Create \/ Created \/ Resume(None) \/ Resume(asked) \/ CallFails
             \/ Provision \/ Validate
  BY <1>1, SetUpIInv
<1>2. CASE Renew \/ Claim \/ Credential
  BY <1>2, ClaimIInv
<1>3. CASE StartFails \/ Start \/ ServeEnds
  BY <1>3, ServingIInv
<1>4. CASE NotReady \/ Submit \/ Append \/ Appended \/ NotAppended
  BY <1>4, SubmissionIInv
<1>5. CASE Receive \/ NextTask \/ UNCHANGED vars
  <2>1. UNCHANGED <<file, saved, pc, cleanup, serving, keys, executor, owners>>
    BY <1>5 DEF Receive, NextTask, vars, process, local
  <2> QED
    BY <2>1, SameSnapshots
    DEF IInv, Types, SavedOK, SetUpOK, AttachedOK, CleanupOK
<1>6. CASE Joined
  <2>1. /\ UNCHANGED <<file, saved, cleanup, serving, keys, executor, owners>>
        /\ pc = "attached" /\ pc' = "final"
    BY <1>6 DEF Joined, Goto, local
  <2> QED
    BY <2>1, SameSnapshots
    DEF IInv, Types, SavedOK, SetUpOK, AttachedOK, CleanupOK, SetUp
<1>7. CASE Final
  BY <1>7, FinalIInv
<1>8. CASE Crash
  BY <1>8, CrashIInv
<1> QED
  BY <1>1, <1>2, <1>3, <1>4, <1>5, <1>6, <1>7, <1>8 DEF Next

(* The invariant holds in every behaviour of the directory.                *)
THEOREM WorkflowInvariant == Spec => []IInv
<1> QED BY InitIInv, NextIInv, PTL DEF Spec

-----------------------------------------------------------------------------
(* An executor starts only when none before it may have left a process in  *)
(* the workspace (validate_resume, and the order in which acquire_claim,   *)
(* acquire_bootstrap and execute write the snapshot).                      *)
THEOREM WorkflowNoStartOverLeftovers == Spec => NoStartOverLeftovers
<1>1. IInv /\ [Next]_vars
        => [serving = "starting" /\ serving' = "up"
              => executor \in {"none", "clean"}]_vars
  <2> SUFFICES ASSUME IInv, [Next]_vars, serving = "starting", serving' = "up"
               PROVE  executor \in {"none", "clean"}
    OBVIOUS
  <2>1. Start
    BY DEF Next, vars, process, Create, Begin, Created, Resume, CallFails,
           Provision, Validate, Renew, Claim, Credential, StartFails,
           ServeEnds, NotReady, Submit, Append, Receive, Appended,
           NotAppended, Joined, Final, Crash, NextTask
  <2> QED
    BY <2>1 DEF Start, Attached, IInv, AttachedOK, Quiet
<1> QED BY <1>1, WorkflowInvariant, PTL DEF Spec, NoStartOverLeftovers

(* No two executors own the attachment under one claim: acquire_claim      *)
(* draws a new key after every executor that ended clean, and no other is  *)
(* succeeded.                                                              *)
THEOREM WorkflowOwnClaim == Spec => OwnClaim
<1>1. IInv /\ [Next]_vars
        => [serving = "starting" /\ serving' = "up"
              => saved.claim \notin owners]_vars
  <2> SUFFICES ASSUME IInv, [Next]_vars, serving = "starting", serving' = "up"
               PROVE  saved.claim \notin owners
    OBVIOUS
  <2>1. Start
    BY DEF Next, vars, process, Create, Begin, Created, Resume, CallFails,
           Provision, Validate, Renew, Claim, Credential, StartFails,
           ServeEnds, NotReady, Submit, Append, Receive, Appended,
           NotAppended, Joined, Final, Crash, NextTask
  <2> QED
    BY <2>1 DEF Start, Attached, IInv, AttachedOK
<1> QED BY <1>1, WorkflowInvariant, PTL DEF Spec, OwnClaim

-----------------------------------------------------------------------------
(* One turn per prompt.  The key of a turn is saved before it is sent, and *)
(* a new one is drawn only once the last has its run; what remains to be   *)
(* shown is that no turn under an earlier key is still on its way, and     *)
(* that a run on record is one the user was told.                          *)

Received(k) == \E u \in turns : u.key = k

(* Turns that are, or may become, the service's turn for the user's task.  *)
Open == {t \in flight : ~Received(t.key)} \cup {t \in turns : t.prompt = asked}

TurnTypes ==
  /\ asked \in Nat \ {0} /\ failures \in Nat /\ told \in BOOLEAN
  /\ turns \subseteq [key : 1..keys, prompt : 1..asked]
  /\ flight \subseteq [key : 1..keys, prompt : 1..asked]

TurnsOK ==
  /\ \A t, u \in turns : t.key = u.key => t = u
  /\ \A t, u \in Open : t.prompt = asked /\ t.key = u.key
  /\ told => \A t \in flight : Received(t.key)

(* A run that was shown answers an earlier task, or the user was told.     *)
SeenOK ==
  /\ \A k \in seen : Received(k)
  /\ \A t \in turns : t.prompt = asked /\ t.key \in seen => told

(* What a snapshot knows of the turns.                                     *)
Recorded(s) == s.run # None => s.run = s.turnKey /\ Received(s.turnKey)
Keyed(s) == ~told => \A t \in Open : t.key = s.turnKey
Unanswered(s) == ~told /\ Open # {} => s.run = None

(* The answer came, and could not be saved: the last save shows it.        *)
Unsaved ==
  /\ pc \in {"attached", "final"} /\ serving # "no"
  /\ submission = "failed" /\ failures >= 1

KeyOK ==
  /\ pc # "down" => saved.turnKey \in 1..keys \cup {None}
  /\ file \in Snapshots => file.turnKey \in 1..keys \cup {None}

ProcessOK ==
  pc # "down" =>
    /\ Recorded(saved) /\ Keyed(saved)
    /\ Unanswered(saved) \/ Unsaved

(* A process that sends a turn sends the user's task, under a saved key.   *)
SubmissionOK ==
  /\ pc \in SetUp /\ text # None => text = asked /\ ~told
  /\ pc = "attached" => serving # "no"
  /\ pc = "attached" /\ submission \in {"waiting", "keyed", "sent"} =>
       text = asked /\ ~told
  /\ pc = "attached" /\ submission \in {"keyed", "sent"} =>
       saved.turnKey \in Nat /\ saved.run = None

(* What a process killed now leaves to the next one.                       *)
DiskOK ==
  /\ pc = "down" /\ file \in Snapshots /\ ~Dirty(file) =>
       Recorded(file) /\ Keyed(file) /\ Unanswered(file)
  /\ pc \in SetUp \ {"create"} \/ (pc = "final" /\ serving = "no") =>
       /\ file \in Snapshots
       /\ file.turnKey = saved.turnKey /\ file.run = saved.run
  /\ pc = "final" /\ serving # "no" => file \in Snapshots /\ Dirty(file)
  /\ pc = "create" => file = Empty /\ saved = Initial
  /\ file \notin Snapshots => turns = {} /\ flight = {} /\ ~told

TInv ==
  /\ TurnTypes /\ TurnsOK /\ SeenOK /\ KeyOK /\ ProcessOK /\ SubmissionOK
  /\ DiskOK /\ OneTurnPerPrompt

LEMMA InitTInv == Init => TInv
<1> SUFFICES ASSUME Init PROVE TInv
  OBVIOUS
<1>1. file \notin Snapshots
  BY WorkflowAssumption DEF Init
<1>2. /\ turns = {} /\ flight = {} /\ ~told /\ seen = {} /\ pc = "down"
      /\ asked = 1 /\ failures = 0 /\ told = FALSE
  BY DEF Init
<1>3. Open = {}
  BY <1>2 DEF Open
<1>4. TurnTypes
  <2>1. told \in BOOLEAN
    BY <1>2, Zenon
  <2>2. asked \in Nat \ {0} /\ failures \in Nat
    BY <1>2
  <2> QED BY <1>2, <2>1, <2>2, Zenon DEF TurnTypes
<1>5. KeyOK
  BY <1>1, <1>2 DEF KeyOK
<1> QED
  BY <1>1, <1>2, <1>3, <1>4, <1>5
  DEF TInv, TurnsOK, SeenOK, ProcessOK, SubmissionOK, DiskOK,
      OneTurnPerPrompt, SetUp

(* A step of neither the service nor the user.                             *)
LEMMA SameTurns ==
  ASSUME TInv, UNCHANGED <<turns, flight, asked, told, seen>>,
         keys \in Nat, keys' \in Nat, keys' >= keys, failures' \in Nat
  PROVE  /\ TurnTypes' /\ TurnsOK' /\ SeenOK' /\ OneTurnPerPrompt'
         /\ Open' = Open
         /\ \A k : Received(k)' <=> Received(k)
<1>1. Open' = Open /\ \A k : Received(k)' <=> Received(k)
  BY DEF Open, Received
<1>2. TurnTypes'
  BY DEF TInv, TurnTypes
<1>3. TurnsOK'
  BY <1>1 DEF TInv, TurnsOK
<1>4. SeenOK' /\ OneTurnPerPrompt'
  BY <1>1 DEF TInv, SeenOK, OneTurnPerPrompt
<1> QED BY <1>1, <1>2, <1>3, <1>4

(* A process begins, with the file's snapshot or a new one.                *)
LEMMA BeginTInv ==
  ASSUME IInv, TInv,
         Create \/ Resume(None) \/ (~told /\ Resume(asked))
  PROVE  TInv'
<1> USE WorkflowAssumption
<1>1. CASE Create
  <2>1. /\ UNCHANGED <<turns, flight, asked, told, seen, keys, failures>>
        /\ pc' = "create" /\ text' = asked /\ saved' = Initial
        /\ file' = Empty /\ file \notin Snapshots
    BY <1>1 DEF Create, Begin, service, user
  <2>2. turns = {} /\ flight = {} /\ ~told
    BY <2>1 DEF TInv, DiskOK
  <2>3. Open = {}
    BY <2>2 DEF Open
  <2>4. TurnTypes' /\ TurnsOK' /\ SeenOK' /\ OneTurnPerPrompt' /\ Open' = Open
    BY <2>1, SameTurns DEF IInv, Types, TInv, TurnTypes
  <2>5. ProcessOK'
    BY <2>1, <2>3, <2>4
    DEF ProcessOK, Recorded, Keyed, Unanswered, Initial
  <2>6. SubmissionOK' /\ DiskOK'
    BY <2>1, <2>2 DEF SubmissionOK, DiskOK, SetUp
  <2>7. KeyOK'
    BY <2>1 DEF KeyOK, Initial
  <2> QED BY <2>4, <2>5, <2>6, <2>7 DEF TInv
<1>2. ASSUME NEW t \in {None, asked}, Resume(t), t # None => ~told
      PROVE  TInv'
  <2>1. /\ UNCHANGED <<turns, flight, asked, told, seen, keys, failures, file>>
        /\ pc = "down" /\ pc' = "provision" /\ text' = t /\ saved' = file
        /\ file \in Snapshots /\ Resumable(file)
    BY <1>2 DEF Resume, Begin, service, user, IInv, Types
  <2>2. Recorded(file) /\ Keyed(file) /\ Unanswered(file)
    BY <2>1 DEF TInv, DiskOK, Dirty, Resumable
  <2>3. /\ TurnTypes' /\ TurnsOK' /\ SeenOK' /\ OneTurnPerPrompt'
        /\ Open' = Open /\ \A k : Received(k)' <=> Received(k)
    BY <2>1, SameTurns DEF IInv, Types, TInv, TurnTypes
  <2>4. Recorded(saved)' /\ Keyed(saved)' /\ Unanswered(saved)'
    BY <2>1, <2>2, <2>3 DEF Recorded, Keyed, Unanswered
  <2>5. ProcessOK'
    BY <2>4 DEF ProcessOK
  <2>6. SubmissionOK' /\ DiskOK'
    BY <1>2, <2>1 DEF SubmissionOK, DiskOK, SetUp
  <2>7. KeyOK'
    BY <2>1 DEF TInv, KeyOK
  <2> QED BY <2>3, <2>5, <2>6, <2>7 DEF TInv
<1> QED BY <1>1, <1>2

(* Setting up leaves the key and the run of the last turn alone.           *)
LEMMA SetUpTInv ==
  ASSUME IInv, TInv,
         Created \/ CallFails \/ Provision \/ Validate \/ Renew \/ Claim
           \/ Credential
  PROVE  TInv'
<1> USE WorkflowAssumption
<1>1. /\ UNCHANGED <<turns, flight, asked, told, seen, text>>
      /\ keys' \in {keys, keys + 1} /\ failures' \in {failures, failures + 1}
      /\ pc \in SetUp
  BY DEF Created, CallFails, Provision, Validate, Renew, Claim, Credential,
         Keep, Goto, Failed, Save, SaveFails, service, user, bounds, SetUp
<1>2. saved \in Snapshots /\ keys \in Nat /\ failures \in Nat
      /\ serving = "no"
  BY <1>1 DEF IInv, Types, TInv, TurnTypes, SetUp, SetUpOK
<1>3. /\ saved' \in Snapshots
      /\ saved'.turnKey = saved.turnKey /\ saved'.run = saved.run
  <2>1. IInv'
    BY SetUpIInv, ClaimIInv
  <2>2. \/ saved' = saved
        \/ saved' = [saved EXCEPT !.made = @ + 1]
        \/ saved' = [saved EXCEPT !.claimKey = keys', !.claim = None,
                                  !.started = FALSE, !.clean = FALSE]
        \/ saved' = [saved EXCEPT !.claim = saved.claimKey]
        \/ saved' = [saved EXCEPT !.clean = FALSE, !.started = TRUE]
    BY DEF Created, CallFails, Provision, Validate, Renew, Claim, Credential,
           Goto
  <2>3. saved'.turnKey = saved.turnKey /\ saved'.run = saved.run
    BY <1>2, <2>2 DEF Snapshots
  <2>4. saved' \in Snapshots
    <3>1. CASE saved' = saved
      BY <1>2, <3>1
    <3>2. CASE saved' = [saved EXCEPT !.clean = FALSE, !.started = TRUE]
      BY <1>2, <3>2 DEF Snapshots
    <3>3. CASE saved' = [saved EXCEPT !.claim = saved.claimKey]
      BY <1>2, <3>3 DEF Snapshots
    <3>4. CASE pc' # "down"
      BY <2>1, <3>4 DEF IInv, Types
    <3>5. pc' = "down" => saved' = saved
      BY DEF Created, CallFails, Provision, Validate, Renew, Claim,
             Credential, Keep, Goto, Failed
    <3> QED BY <3>1, <3>4, <3>5
  <2> QED BY <2>3, <2>4
<1>4. /\ TurnTypes' /\ TurnsOK' /\ SeenOK' /\ OneTurnPerPrompt'
      /\ Open' = Open /\ \A k : Received(k)' <=> Received(k)
  BY <1>1, <1>2, SameTurns
<1>5. Recorded(saved)' /\ Keyed(saved)' /\ Unanswered(saved)'
  <2>1. Recorded(saved) /\ Keyed(saved) /\ Unanswered(saved)
    BY <1>1, <1>2 DEF TInv, ProcessOK, Unsaved, SetUp
  <2> QED BY <1>1, <1>3, <1>4, <2>1 DEF Recorded, Keyed, Unanswered
<1>6. ProcessOK'
  BY <1>5 DEF ProcessOK
<1>7. /\ \/ pc' \in SetUp \ {"create"} /\ serving' = "no"
         \/ pc' = "final" /\ serving' = "no"
         \/ /\ pc' = "attached" /\ serving' = "starting"
            /\ submission' = IF text = None THEN "done" ELSE "waiting"
         \/ pc = "create" /\ pc' = "down" /\ saved' = saved
      /\ \/ file' = file /\ pc # "create"
         \/ file' = saved'
         \/ file' = file /\ pc = "create" /\ pc' = "down"
  BY <1>1, <1>2
  DEF Created, CallFails, Provision, Validate, Renew, Claim, Credential,
      Keep, Goto, Failed, Save, SaveFails, SetUp
<1>8. SubmissionOK'
  BY <1>1, <1>7 DEF TInv, SubmissionOK, SetUp
<1>9. DiskOK'
  <2>1. pc # "create" => /\ file \in Snapshots
                         /\ file.turnKey = saved.turnKey
                         /\ file.run = saved.run
    BY <1>1 DEF TInv, DiskOK
  <2>2. pc = "create" => file = Empty /\ file \notin Snapshots
    BY DEF TInv, DiskOK
  <2>3. pc = "down" \/ pc' # "create"
    BY <1>7 DEF SetUp
  <2>4. file' \in Snapshots =>
          /\ file'.turnKey = saved.turnKey /\ file'.run = saved.run
    BY <1>3, <1>7, <2>1, <2>2
  <2>5. file' \notin Snapshots =>
          /\ pc' = "down" /\ turns = {} /\ flight = {} /\ ~told
    BY <1>1, <1>3, <1>7, <2>1, <2>2 DEF TInv, DiskOK
  <2>6. file' \in Snapshots =>
          Recorded(file)' /\ Keyed(file)' /\ Unanswered(file)'
    BY <1>3, <1>5, <2>4 DEF Recorded, Keyed, Unanswered
  <2> QED
    BY <1>1, <1>3, <1>7, <2>3, <2>4, <2>5, <2>6 DEF DiskOK, SetUp
<1>10. KeyOK'
  <2>1. saved.turnKey \in 1..keys' \cup {None}
    BY <1>1, <1>2 DEF TInv, KeyOK, SetUp
  <2>2. file \in Snapshots => file.turnKey \in 1..keys' \cup {None}
    BY <1>1, <1>2 DEF TInv, KeyOK
  <2> QED BY <1>3, <1>7, <2>1, <2>2 DEF KeyOK
<1> QED BY <1>4, <1>6, <1>8, <1>9, <1>10 DEF TInv

(* The future that serves, one that gives the submission up, and the end   *)
(* of both change nothing that the next process sees.                      *)
LEMMA ServingTInv ==
  ASSUME IInv, TInv,
         StartFails \/ Start \/ ServeEnds \/ NotReady \/ NotAppended \/ Joined
  PROVE  TInv'
<1>1. /\ UNCHANGED <<turns, flight, asked, told, seen, text, file, saved, keys,
                     failures>>
      /\ pc = "attached" /\ pc' \in {"attached", "final"}
      /\ submission' \in {submission, "failed"} /\ serving # "no"
      /\ serving' # "no"
      /\ pc' = "final" => submission \in {"done", "failed"}
  BY DEF StartFails, Start, ServeEnds, NotReady, NotAppended, Joined,
         Attached, Goto, service, user, bounds, process, local, TInv,
         SubmissionOK
<1>2. /\ file \in Snapshots /\ Dirty(file) /\ keys \in Nat /\ failures \in Nat
  BY <1>1 DEF IInv, Types, AttachedOK, TInv, TurnTypes
<1>3. /\ TurnTypes' /\ TurnsOK' /\ SeenOK' /\ OneTurnPerPrompt'
      /\ Open' = Open /\ \A k : Received(k)' <=> Received(k)
  BY <1>1, <1>2, SameTurns
<1>4. Recorded(saved)' /\ Keyed(saved)'
  BY <1>1, <1>3 DEF TInv, ProcessOK, Recorded, Keyed
<1>5. Unanswered(saved)' \/ Unsaved'
  <2>1. CASE Unanswered(saved)
    BY <1>1, <1>3, <2>1 DEF Unanswered
  <2>2. CASE Unsaved
    BY <1>1, <2>2 DEF Unsaved
  <2> QED BY <1>1, <2>1, <2>2 DEF TInv, ProcessOK
<1>6. ProcessOK'
  BY <1>4, <1>5 DEF ProcessOK
<1>7. SubmissionOK'
  BY <1>1 DEF TInv, SubmissionOK, SetUp
<1>8. DiskOK'
  BY <1>1, <1>2 DEF DiskOK, SetUp, Dirty
<1>9. KeyOK'
  BY <1>1 DEF TInv, KeyOK
<1> QED BY <1>3, <1>6, <1>7, <1>8, <1>9 DEF TInv

(* A new key is drawn when no turn is open.                                *)
LEMMA SubmitTInv ==
  ASSUME IInv, TInv, Submit
  PROVE  TInv'
<1> USE WorkflowAssumption
<1>1. /\ UNCHANGED <<turns, flight, asked, told, seen, text, pc, serving>>
      /\ pc = "attached" /\ submission = "waiting"
      /\ submission' \in {"keyed", "failed"}
      /\ keys' \in {keys, keys + 1} /\ failures' \in {failures, failures + 1}
      /\ file' \in {file, saved'}
      /\ \/ /\ saved.turnKey = None \/ saved.run # None
            /\ saved' = [saved EXCEPT !.turnKey = keys', !.run = None]
            /\ keys' = keys + 1
         \/ /\ saved.turnKey # None /\ saved.run = None
            /\ saved' = saved
  BY DEF Submit, Attached, Save, SaveFails, service, user, bounds
<1>2. /\ saved \in Snapshots /\ Dirty(saved) /\ file \in Snapshots
      /\ Dirty(file) /\ keys \in Nat /\ failures \in Nat
      /\ text = asked /\ ~told /\ serving # "no"
      /\ Recorded(saved) /\ Keyed(saved) /\ Unanswered(saved)
  BY <1>1
  DEF IInv, Types, AttachedOK, TInv, TurnTypes, SubmissionOK, ProcessOK,
      Unsaved
<1>3. /\ TurnTypes' /\ TurnsOK' /\ SeenOK' /\ OneTurnPerPrompt'
      /\ Open' = Open /\ \A k : Received(k)' <=> Received(k)
  BY <1>1, <1>2, SameTurns
<1>4. saved.turnKey = None \/ saved.run # None => Open = {}
  <2>1. \A t \in Open : t.key \in Nat
    BY <1>2 DEF TInv, TurnTypes, Open
  <2>2. ~told => \A t \in Open : t.key = saved.turnKey
    BY <1>2 DEF Keyed
  <2> QED BY <1>2, <2>1, <2>2 DEF Unanswered
<1>5. /\ saved' \in Snapshots /\ saved'.turnKey \in Nat /\ saved'.run = None
      /\ Dirty(saved')
  <2>1. keys' \in Nat /\ keys' \in Identities /\ None \in Identities
    BY <1>1, <1>2 DEF Identities
  <2> QED BY <1>1, <1>2, <2>1 DEF Snapshots, Identities, Dirty
<1>6. Recorded(saved)' /\ Keyed(saved)' /\ Unanswered(saved)'
  BY <1>1, <1>2, <1>3, <1>4, <1>5 DEF Recorded, Keyed, Unanswered
<1>7. ProcessOK' /\ SubmissionOK'
  BY <1>1, <1>2, <1>5, <1>6 DEF ProcessOK, SubmissionOK, SetUp
<1>8. DiskOK'
  BY <1>1, <1>2, <1>5 DEF DiskOK, SetUp
<1>9. KeyOK'
  <2>1. saved'.turnKey \in 1..keys' \cup {None}
    <3>1. CASE saved' = saved
      BY <1>1, <1>2, <3>1 DEF TInv, KeyOK
    <3>2. CASE saved'.turnKey = keys' /\ keys' = keys + 1
      BY <1>2, <3>2
    <3>3. saved' = saved \/ (saved'.turnKey = keys' /\ keys' = keys + 1)
      BY <1>1, <1>2 DEF Snapshots
    <3> QED BY <3>1, <3>2, <3>3
  <2>2. file.turnKey \in 1..keys' \cup {None}
    BY <1>1, <1>2 DEF TInv, KeyOK
  <2> QED BY <1>1, <1>2, <2>1, <2>2 DEF KeyOK
<1> QED BY <1>3, <1>7, <1>8, <1>9 DEF TInv

(* The turn is sent, under the key of every open turn.                     *)
LEMMA AppendTInv ==
  ASSUME IInv, TInv, Append
  PROVE  TInv'
<1> USE WorkflowAssumption
<1> DEFINE turn == [key |-> saved.turnKey, prompt |-> text]
<1>1. /\ UNCHANGED <<turns, asked, told, seen, text, pc, serving, file, saved,
                     keys, failures>>
      /\ pc = "attached" /\ submission = "keyed" /\ submission' = "sent"
      /\ flight' = flight \cup {turn}
  BY DEF Append, Attached, user, bounds
<1>2. /\ text = asked /\ ~told /\ serving # "no"
      /\ saved.turnKey \in Nat /\ saved.run = None
      /\ Keyed(saved) /\ file \in Snapshots /\ Dirty(file)
  BY <1>1
  DEF IInv, Types, AttachedOK, TInv, SubmissionOK, ProcessOK
<1>3. \A k : Received(k)' <=> Received(k)
  BY <1>1 DEF Received
<1>4. Open' \subseteq Open \cup {turn}
  BY <1>1, <1>3 DEF Open
<1>5. turn.key = saved.turnKey /\ turn.prompt = asked
  BY <1>2
<1>6. \A t \in Open' : t.prompt = asked /\ t.key = saved.turnKey
  BY <1>2, <1>4, <1>5 DEF Keyed, TInv, TurnsOK
<1>7. TurnsOK'
  BY <1>1, <1>2, <1>6 DEF TInv, TurnsOK
<1>8. TurnTypes'
  <2>1. saved.turnKey \in 1..keys
    BY <1>1, <1>2 DEF TInv, KeyOK
  <2>2. asked \in 1..asked
    BY DEF TInv, TurnTypes
  <2> QED BY <1>1, <1>2, <2>1, <2>2 DEF TInv, TurnTypes
<1>9. SeenOK' /\ OneTurnPerPrompt'
  BY <1>1, <1>3 DEF TInv, SeenOK, OneTurnPerPrompt
<1>10. Recorded(saved)' /\ Keyed(saved)' /\ Unanswered(saved)'
  BY <1>1, <1>2, <1>6 DEF Recorded, Keyed, Unanswered
<1>11. ProcessOK' /\ SubmissionOK' /\ DiskOK'
  BY <1>1, <1>2, <1>10 DEF ProcessOK, SubmissionOK, DiskOK, SetUp, Dirty
<1>12. KeyOK'
  BY <1>1 DEF TInv, KeyOK
<1> QED BY <1>7, <1>8, <1>9, <1>11, <1>12 DEF TInv

(* The service has the turn: it is the one for the user's task, and no     *)
(* other turn for it was received, for its key would have been the same.   *)
LEMMA ReceiveTInv ==
  ASSUME IInv, TInv, Receive
  PROVE  TInv'
<1>1. PICK t \in flight :
        /\ flight' = flight \ {t}
        /\ turns' = IF \E u \in turns : u.key = t.key
                    THEN turns ELSE turns \cup {t}
  BY DEF Receive
<1>2. UNCHANGED <<asked, told, seen, text, pc, serving, submission, file,
                  saved, keys, failures>>
  BY DEF Receive, process, user, bounds
<1>3. CASE Received(t.key)
  <2>1. turns' = turns /\ \A k : Received(k)' <=> Received(k)
    BY <1>1, <1>3 DEF Received
  <2>2. Open' = Open
    BY <1>1, <1>2, <1>3, <2>1 DEF Open
  <2>3. TurnTypes' /\ SeenOK' /\ OneTurnPerPrompt' /\ KeyOK'
    BY <1>1, <1>2, <2>1
    DEF TInv, TurnTypes, SeenOK, OneTurnPerPrompt, KeyOK
  <2>4. TurnsOK'
    BY <1>1, <1>2, <2>1, <2>2 DEF TInv, TurnsOK
  <2>5. ProcessOK'
    BY <1>2, <2>1, <2>2
    DEF TInv, ProcessOK, Recorded, Keyed, Unanswered, Unsaved
  <2>6. SubmissionOK'
    BY <1>2 DEF TInv, SubmissionOK
  <2>7. DiskOK'
    BY <1>1, <1>2, <2>1, <2>2
    DEF TInv, DiskOK, Recorded, Keyed, Unanswered, Dirty
  <2> QED BY <2>3, <2>4, <2>5, <2>6, <2>7 DEF TInv
<1>4. CASE ~Received(t.key)
  <2>1. /\ turns' = turns \cup {t}
        /\ \A k : Received(k)' <=> (Received(k) \/ k = t.key)
    BY <1>1, <1>4 DEF Received
  <2>2. t \in Open /\ ~told /\ t.prompt = asked
    BY <1>4 DEF Open, TInv, TurnsOK
  <2>3. Open' \subseteq Open
    BY <1>1, <1>2, <2>1, <2>2 DEF Open
  <2>4. \A u \in turns : u.key # t.key /\ u.prompt # t.prompt
    <3>1. \A u \in turns : u.key # t.key
      BY <1>4 DEF Received
    <3> QED BY <2>2, <3>1 DEF TInv, TurnsOK, Open
  <2>5. TurnTypes' /\ KeyOK' /\ SubmissionOK'
    BY <1>1, <1>2, <2>1 DEF TInv, TurnTypes, KeyOK, SubmissionOK
  <2>6. SeenOK'
    <3>1. t.key \notin seen
      BY <1>4 DEF TInv, SeenOK
    <3> QED BY <1>2, <2>1, <3>1 DEF TInv, SeenOK
  <2>7. OneTurnPerPrompt'
    BY <2>1, <2>4 DEF TInv, OneTurnPerPrompt
  <2>8. TurnsOK'
    BY <1>2, <2>1, <2>2, <2>3, <2>4 DEF TInv, TurnsOK
  <2>9. ProcessOK'
    BY <1>2, <2>1, <2>2, <2>3
    DEF TInv, ProcessOK, Recorded, Keyed, Unanswered, Unsaved
  <2>10. DiskOK'
    BY <1>1, <1>2, <2>1, <2>2, <2>3
    DEF TInv, DiskOK, Recorded, Keyed, Unanswered, Dirty
  <2> QED BY <2>5, <2>6, <2>7, <2>8, <2>9, <2>10 DEF TInv
<1> QED BY <1>3, <1>4

(* The run is saved and shown; or it is not, and the last save shows it.   *)
LEMMA AppendedTInv ==
  ASSUME IInv, TInv, Appended
  PROVE  TInv'
<1> USE WorkflowAssumption
<1>1. /\ UNCHANGED <<turns, flight, asked, text, pc, serving, keys>>
      /\ pc = "attached" /\ submission = "sent" /\ Received(saved.turnKey)
      /\ saved' = [saved EXCEPT !.run = saved.turnKey]
      /\ file' \in {file, saved'}
      /\ \/ /\ submission' = "done" /\ told' = TRUE
            /\ seen' = seen \cup {saved'.run} /\ failures' = failures
         \/ /\ submission' = "failed" /\ UNCHANGED <<told, seen>>
            /\ failures' = failures + 1
  BY DEF Appended, Attached, Save, SaveFails, service, bounds, Received
<1>2. /\ saved \in Snapshots /\ Dirty(saved) /\ file \in Snapshots
      /\ Dirty(file) /\ keys \in Nat /\ failures \in Nat
      /\ text = asked /\ ~told /\ serving # "no"
      /\ saved.turnKey \in Nat /\ Keyed(saved)
  BY <1>1
  DEF IInv, Types, AttachedOK, TInv, TurnTypes, SubmissionOK, ProcessOK
<1>3. /\ saved' \in Snapshots /\ Dirty(saved')
      /\ saved'.turnKey = saved.turnKey /\ saved'.run = saved.turnKey
  BY <1>1, <1>2 DEF Snapshots, Dirty
<1>4. (\A k : Received(k)' <=> Received(k)) /\ Open' = Open
  BY <1>1 DEF Received, Open
<1>5. TurnTypes' /\ OneTurnPerPrompt'
  <2>1. told' \in BOOLEAN
    BY <1>1, Zenon DEF TInv, TurnTypes
  <2>2. failures' \in Nat
    BY <1>1, <1>2
  <2> QED BY <1>1, <2>1, <2>2 DEF TInv, TurnTypes, OneTurnPerPrompt
<1>6. TurnsOK'
  <2>1. \A t \in flight : Received(t.key)
    BY <1>1, <1>2 DEF Keyed, Open
  <2> QED BY <1>1, <1>4, <2>1 DEF TInv, TurnsOK
<1>7. SeenOK'
  BY <1>1, <1>3, <1>4 DEF TInv, SeenOK
<1>8. KeyOK'
  BY <1>1, <1>3 DEF TInv, KeyOK
<1>9. ProcessOK'
  BY <1>1, <1>2, <1>3, <1>4
  DEF ProcessOK, Recorded, Keyed, Unanswered, Unsaved
<1>10. SubmissionOK' /\ DiskOK'
  BY <1>1, <1>2, <1>3 DEF SubmissionOK, DiskOK, SetUp
<1> QED BY <1>5, <1>6, <1>7, <1>8, <1>9, <1>10 DEF TInv

(* The last save.  A run on record is shown now, unless it was before: so  *)
(* either the user is told, or no open turn has its run on record.         *)
LEMMA FinalTInv ==
  ASSUME IInv, TInv, Final, MaxFailures <= 1
  PROVE  TInv'
<1> USE WorkflowAssumption
<1>1. /\ UNCHANGED <<turns, flight, asked, text, serving, keys>>
      /\ pc = "final" /\ pc' = "down" /\ file' \in {file, saved'}
      /\ saved' = [saved EXCEPT !.clean = cleanup]
      /\ \/ /\ file' = saved' /\ failures' = failures
            /\ \E run \in Shown : seen' = seen \cup ({run} \ {None})
            /\ told' = (told \/ seen' # seen)
         \/ /\ UNCHANGED <<told, seen>>
            /\ failures < 1 /\ failures' = failures + 1
  BY MaxFailures <= 1, MaxFailures \in Nat
  DEF Final, Save, SaveFails, service, bounds, TInv, TurnTypes
<1>2. /\ saved \in Snapshots /\ keys \in Nat /\ failures \in Nat
      /\ cleanup \in BOOLEAN /\ Recorded(saved) /\ Keyed(saved)
      /\ file \in Snapshots
  BY <1>1 DEF IInv, Types, TInv, TurnTypes, ProcessOK, DiskOK, SetUp
<1>3. /\ saved' \in Snapshots
      /\ saved'.turnKey = saved.turnKey /\ saved'.run = saved.run
  BY <1>1, <1>2 DEF Snapshots
<1>4. (\A k : Received(k)' <=> Received(k)) /\ Open' = Open
  BY <1>1 DEF Received, Open
<1>5. \A run \in Shown \ {None} : Received(run) /\ run = saved.turnKey
  BY <1>2 DEF Shown, Recorded, Received
<1>6. told' \in BOOLEAN /\ failures' \in Nat
  <2>1. told' \in BOOLEAN
    BY <1>1, Zenon DEF TInv, TurnTypes
  <2> QED BY <1>1, <1>2, <2>1
<1>7. told => told'
  BY <1>1, Zenon
<1>8. TurnTypes' /\ OneTurnPerPrompt'
  BY <1>1, <1>6 DEF TInv, TurnTypes, OneTurnPerPrompt
<1>9. told' /\ ~told => \A t \in flight : Received(t.key)
  <2> SUFFICES ASSUME told', ~told PROVE \A t \in flight : Received(t.key)
    OBVIOUS
  <2>1. PICK run \in Shown : run # None
    BY <1>1
  <2> QED BY <1>2, <1>5, <2>1 DEF Keyed, Open
<1>10. TurnsOK'
  BY <1>1, <1>4, <1>9 DEF TInv, TurnsOK
<1>11. SeenOK'
  <2>1. \A k \in seen' : Received(k)
    BY <1>1, <1>5 DEF TInv, SeenOK
  <2>2. ASSUME NEW t \in turns, t.prompt = asked, t.key \in seen' PROVE told'
    <3>1. CASE t.key \in seen
      BY <1>7, <2>2, <3>1 DEF TInv, SeenOK
    <3>2. CASE t.key \notin seen
      BY <1>1, <2>2, <3>2
    <3> QED BY <3>1, <3>2
  <2> QED BY <1>1, <1>4, <2>1, <2>2 DEF SeenOK
<1>12. KeyOK'
  BY <1>1, <1>3 DEF TInv, KeyOK
<1>13. Unanswered(saved)'
  <2> SUFFICES ASSUME ~told', Open # {}, saved.run # None PROVE FALSE
    BY <1>3, <1>4 DEF Unanswered
  <2>1. ~told /\ Unsaved
    BY <1>1, <1>7 DEF TInv, ProcessOK, Unanswered
  <2>2. /\ file' = saved' /\ told' = (told \/ seen' # seen)
        /\ \E run \in Shown : seen' = seen \cup ({run} \ {None})
    BY <1>1, <1>2, <2>1 DEF Unsaved
  <2>3. Shown = {saved.run} /\ saved.run \in seen
    BY <2>1, <2>2 DEF Shown, Unsaved
  <2>4. PICK t \in Open : t.key = saved.turnKey
    BY <1>2, <2>1 DEF Keyed
  <2>5. t \in turns /\ t.prompt = asked /\ t.key \in seen
    BY <1>2, <2>3, <2>4 DEF Open, Recorded
  <2> QED BY <2>1, <2>5 DEF TInv, SeenOK
<1>14. DiskOK'
  <2>1. Recorded(saved)' /\ Keyed(saved)'
    BY <1>2, <1>3, <1>4, <1>7 DEF Recorded, Keyed
  <2>2. file' = saved' \/ (file' = file /\ failures < 1 /\ told' = told)
    BY <1>1
  <2>3. CASE file' = saved'
    BY <1>1, <1>3, <1>13, <2>1, <2>3 DEF DiskOK, SetUp
  <2>4. CASE file' = file /\ failures < 1 /\ told' = told /\ serving # "no"
    BY <1>1, <1>2, <2>4 DEF TInv, DiskOK, SetUp, Dirty
  <2>5. CASE file' = file /\ failures < 1 /\ told' = told /\ serving = "no"
    <3>1. file.turnKey = saved.turnKey /\ file.run = saved.run
      BY <1>1, <2>5 DEF TInv, DiskOK
    <3>2. Recorded(file)' /\ Keyed(file)' /\ Unanswered(file)'
      BY <1>3, <1>13, <2>1, <2>5, <3>1 DEF Recorded, Keyed, Unanswered
    <3> QED BY <1>1, <1>2, <2>5, <3>2 DEF DiskOK, SetUp
  <2> QED BY <2>2, <2>3, <2>4, <2>5
<1>15. ProcessOK' /\ SubmissionOK'
  BY <1>1 DEF ProcessOK, SubmissionOK, SetUp
<1> QED BY <1>8, <1>10, <1>11, <1>12, <1>14, <1>15 DEF TInv

(* A process killed while it serves leaves a file nobody resumes; before   *)
(* that, and after, the file knows the turn as the process does.           *)
LEMMA CrashTInv ==
  ASSUME IInv, TInv, Crash
  PROVE  TInv'
<1>1. /\ UNCHANGED <<turns, flight, asked, told, seen, text, serving,
                     submission, file, saved, keys, failures>>
      /\ pc # "down" /\ pc' = "down"
  BY DEF Crash, service, user
<1>2. keys \in Nat /\ failures \in Nat
  BY DEF IInv, Types, TInv, TurnTypes
<1>3. /\ TurnTypes' /\ TurnsOK' /\ SeenOK' /\ OneTurnPerPrompt'
      /\ Open' = Open /\ \A k : Received(k)' <=> Received(k)
  BY <1>1, <1>2, SameTurns
<1>4. KeyOK' /\ ProcessOK' /\ SubmissionOK'
  BY <1>1 DEF TInv, KeyOK, ProcessOK, SubmissionOK, SetUp
<1>5. CASE file \in Snapshots /\ ~Dirty(file)
  <2>1. /\ pc \in SetUp \ {"create"} \/ pc = "final"
        /\ pc = "final" => serving = "no"
        /\ file.turnKey = saved.turnKey /\ file.run = saved.run
    BY <1>1, <1>5, WorkflowAssumption
    DEF IInv, Types, AttachedOK, TInv, DiskOK, SetUp
  <2>2. Recorded(saved) /\ Keyed(saved) /\ Unanswered(saved)
    <3>1. serving = "no"
      BY <2>1 DEF IInv, SetUpOK
    <3> QED BY <1>1, <3>1 DEF TInv, ProcessOK, Unsaved
  <2>3. Recorded(file)' /\ Keyed(file)' /\ Unanswered(file)'
    BY <1>1, <1>3, <2>1, <2>2 DEF Recorded, Keyed, Unanswered
  <2> QED BY <1>1, <1>3, <1>4, <1>5, <2>3 DEF TInv, DiskOK, SetUp
<1>6. CASE ~(file \in Snapshots /\ ~Dirty(file))
  BY <1>1, <1>3, <1>4, <1>6 DEF TInv, DiskOK, SetUp, Dirty
<1> QED BY <1>5, <1>6

(* The next task: no turn is for it, and none is on its way.               *)
LEMMA NextTaskTInv ==
  ASSUME IInv, TInv, NextTask
  PROVE  TInv'
<1>1. /\ UNCHANGED <<turns, flight, seen, text, serving, submission, file,
                     saved, keys, failures, pc>>
      /\ told /\ pc = "down" /\ asked' = asked + 1 /\ told' = FALSE
  BY DEF NextTask, service, process, bounds
<1>2. /\ \A t \in flight : Received(t.key)
      /\ turns \subseteq [key : 1..keys, prompt : 1..asked]
      /\ flight \subseteq [key : 1..keys, prompt : 1..asked]
      /\ asked \in Nat \ {0} /\ failures \in Nat /\ keys \in Nat
  BY <1>1 DEF TInv, TurnTypes, TurnsOK, IInv, Types
<1>3. \A k : Received(k)' <=> Received(k)
  BY <1>1 DEF Received
<1>4. Open' = {}
  BY <1>1, <1>2, <1>3 DEF Open
<1>5. TurnTypes'
  <2>1. told' \in BOOLEAN
    BY <1>1, Zenon
  <2>2. 1..asked \subseteq 1..asked'
    BY <1>1, <1>2
  <2> QED BY <1>1, <1>2, <2>1, <2>2 DEF TurnTypes
<1>6. TurnsOK' /\ OneTurnPerPrompt' /\ KeyOK'
  BY <1>1, <1>4 DEF TInv, TurnsOK, OneTurnPerPrompt, KeyOK
<1>7. SeenOK'
  BY <1>1, <1>2, <1>3 DEF TInv, SeenOK
<1>8. ProcessOK' /\ SubmissionOK'
  BY <1>1 DEF ProcessOK, SubmissionOK, SetUp
<1>9. file \in Snapshots
  BY <1>1 DEF TInv, DiskOK
<1>10. DiskOK'
  <2>1. ~Dirty(file) =>
          Recorded(file)' /\ Keyed(file)' /\ Unanswered(file)'
    BY <1>1, <1>3, <1>4, <1>9
    DEF TInv, DiskOK, Recorded, Keyed, Unanswered
  <2> QED BY <1>1, <1>9, <2>1 DEF DiskOK, SetUp, Dirty
<1> QED BY <1>5, <1>6, <1>7, <1>8, <1>10 DEF TInv

LEMMA NextTInv ==
  ASSUME MaxFailures <= 1
  PROVE  IInv /\ TInv /\ [Next]_vars => TInv'
<1> SUFFICES ASSUME IInv, TInv, [Next]_vars PROVE TInv'
  OBVIOUS
<1>1. CASE Create \/ Resume(None) \/ (~told /\ Resume(asked))
  BY <1>1, BeginTInv
<1>2. CASE Created \/ CallFails \/ Provision \/ Validate \/ Renew \/ Claim
             \/ Credential
  BY <1>2, SetUpTInv
<1>3. CASE StartFails \/ Start \/ ServeEnds \/ NotReady \/ NotAppended
             \/ Joined
  BY <1>3, ServingTInv
<1>4. CASE Submit
  BY <1>4, SubmitTInv
<1>5. CASE Append
  BY <1>5, AppendTInv
<1>6. CASE Receive
  BY <1>6, ReceiveTInv
<1>7. CASE Appended
  BY <1>7, AppendedTInv
<1>8. CASE Final
  BY <1>8, FinalTInv, MaxFailures <= 1
<1>9. CASE Crash
  BY <1>9, CrashTInv
<1>10. CASE NextTask
  BY <1>10, NextTaskTInv
<1>11. CASE UNCHANGED vars
  <2>1. UNCHANGED <<turns, flight, asked, told, seen, text, serving,
                    submission, file, saved, keys, failures, pc>>
    BY <1>11 DEF vars, service, user, process, bounds
  <2> QED
    BY <2>1
    DEF TInv, TurnTypes, TurnsOK, SeenOK, KeyOK, ProcessOK, SubmissionOK,
        DiskOK, OneTurnPerPrompt, Recorded, Keyed, Unanswered, Unsaved, Open,
        Received, Dirty
<1> QED
  BY <1>1, <1>2, <1>3, <1>4, <1>5, <1>6, <1>7, <1>8, <1>9, <1>10, <1>11
  DEF Next

(* A task is submitted once, whatever is lost, as long as no more than one *)
(* save fails: with a second, the answer's save and the last one may both  *)
(* fail, and the run be in the file although the user was told of none     *)
(* (submit, execute).                                                      *)
THEOREM WorkflowOneTurnPerPrompt ==
  ASSUME MaxFailures <= 1
  PROVE  Spec => []OneTurnPerPrompt
<1>1. Init => TInv
  BY InitTInv
<1>2. IInv /\ TInv /\ [Next]_vars => TInv'
  BY NextTInv, MaxFailures <= 1
<1>3. TInv => OneTurnPerPrompt
  BY DEF TInv
<1> QED BY <1>1, <1>2, <1>3, WorkflowInvariant, PTL DEF Spec
=============================================================================
