# A TLA+ model of the sikaru native executor

`sikaru` is a command-line client for a hosted agent service. Most of its
source is generated from the service's API. The part with logic of its own is
the *native executor*: `sikaru` attaches a local workspace to a session, takes
the operations the service issues (shell commands, file edits), runs them, and
answers each with an immutable receipt, through lost connections, crashes and
restarts. This directory holds TLA+ modules of that executor, TLC runs on small
instances of them, and theorems about them that TLAPS checks.

## 1. The system

| Component | Source (`src/cli/sikaru/`) | State it keeps | Operations | Hard behaviour |
|---|---|---|---|---|
| Ledger | `compute_journal.rs` | `journal.jsonl`, its copy in memory, a lock | open, restart checks, external teardown, compaction, intent, receipt, ack, handle, mark clean | torn lines, failed fsync, power loss, two owners |
| Executor | `compute_runtime.rs` | running, joined, queued operations, refusals | serve, prepare, reconcile, poll, dispatch, complete, deliver, recover, drain, finish | repeats, the bound on running operations, lost replies, cancellation at any await |
| Transport | `compute_transport.rs` | the lease, the channel's two queues | submit, connect, ready, heartbeat, channel open, deliver, pumps | timeouts racing answers, full queues, the lease's two clocks |
| Processes | `compute_process.rs` | jobs, their process groups, output files, terminal states | start, run, wait, wait for a condition, read, cancel, cleanup | supervisor thread against the task; exit against output |
| Workflow | `compute_workflow.rs`, `compute_state.rs`, `compute_chat.rs`, `agent_run.rs` | a snapshot file of the run | provision, attach, submit, resume, revoke | crashes between a remote step and its save |
| Checkpoint | `compute_checkpoint.rs`, `compute_checkpoint_repo.rs` | a private git index, worker permits | prepare, snapshot, upload, record | timed-out workers, a service that is not quiescent |
| Agent streams | `agent.rs`, `inference.rs` | the last event seen | follow, resume | broken streams |
| Sign-in | `user_auth.rs`, `src/auth/` | tokens, keyring chunks | login, refresh, store | concurrent refresh, torn chunks |
| Thin commands, generated client | the rest | none between steps | one request each | none |

How they interact: *Workflow* provisions an attachment and calls
`serve_with_options` of the *Executor*. The executor opens the *Ledger* (one
process at a time, by a lock on its directory), connects through the
*Transport*, reconciles, and then drives *Processes* with the operations of the
pages it polls or is pushed. Only its one task (`struct Work`) touches the
ledger and the process registry; the waits of running operations, the heartbeat
and the channel's two pump tasks run beside it, and a `select!` in `run` may
drop the task at any of its awaits. When the run has ended, processes are
cleaned up, *Checkpoint* captures the workspace, and `finish` writes the
ledger's clean mark if nothing is left uncertain.

What makes each correct:

* Ledger: whatever a crash leaves is either unreadable or complete for
  everything that happened; memory is never ahead of it; one owner per epoch;
  a clean mark is never stale.
* Executor: no operation runs twice, none is answered twice differently, none
  the service issued is dropped, at most `MAX_IN_FLIGHT` run, a run reported as
  done has left nothing open.
* Transport: the local lease never outlives the service's; the channel never
  deadlocks on its queues; a delivery is accepted only for its own receipt.
* Processes: a job reported ended has no process left in its group; output is
  complete when an exit is reported; a log watch misses no line.
* Workflow: a turn is submitted at most once; a resumed run continues the one
  it resumes; credentials are revoked only after cleanup.
* Checkpoint: a recorded manifest's content was uploaded before; two workers
  never use one index.

## 2. The modules

| Module | What it is |
|---|---|
| `Operations` | the abstract promise: per operation at most one effect and at most one answer |
| `Ledger` | the abstract ledger between the two: what the journal promises the task, and what the task asks of it |
| `Journal` | the ledger, its file under failed writes and power loss, its owners |
| `JournalLedger` | `Journal` with a history variable, through which it implements `Ledger` |
| `MCJournal` | `Journal` and `JournalLedger` for TLC |
| `JournalProofs` | the theorems about `Journal` and `JournalLedger` |
| `Executor` | the work task, the service and the channel, over a durable ledger |
| `MCExecutor` | `Executor` for TLC |
| `ExecutorProofs` | the theorems about `Executor` |
| `Job` | one process: its group, its output thread, and the task that reaps and journals it |
| `MCJob` | `Job` for TLC |
| `JobProofs` | the theorems about `Job` |
| `Channel` | one push channel: two pumps, two bounded queues, the task's session |
| `MCChannel` | `Channel` for TLC |
| `ChannelProofs` | the theorems about `Channel` |
| `Lease` | lease and credential against time: the renewal loops and the checks of the work task |
| `MCLease` | `Lease` for TLC |
| `LeaseProofs` | the theorems about `Lease` |
| `LogWatch` | a wait on the log and the exit of one process, against its output thread |
| `MCLogWatch` | `LogWatch` for TLC |
| `LogWatchProofs` | the theorems about `LogWatch` |
| `Workflow` | the processes over one state directory, their snapshot file, the user who resumes them |
| `MCWorkflow` | `Workflow` for TLC |
| `WorkflowProofs` | the theorems about `Workflow` |
| `Checkpoint` | the checkpoints of a conversation's turns: threads, permit, private repository, service |
| `MCCheckpoint` | `Checkpoint` for TLC |
| `CheckpointProofs` | the theorems about `Checkpoint` |
| `Keyring` | one credential split over several entries of the system's store |
| `MCKeyring` | `Keyring` for TLC |

### Journal

The file is not a sequence of lines but what `restore_records` would build from
them (`ledger`) and whether it can be read (`state`): whole, torn (the last line
has no newline) or corrupt (a line glued to a torn one). `stream` is the file
as the running system sees it, `synced` what a power loss would leave of it.
`journal` is the `Journal` value in memory. An append either succeeds on both,
or fails anywhere between (`AppendFailed`): nothing written, part of the line, all of
it, and any of that durable or not. The program does not stop at a failed
append, so neither does the model.

`phase` follows `open_verified`: down, validated (the checks of
`validate_restart` passed, the header not yet written), compact (the ledger is
too long and is rewritten under another name), open. `caller[k]` is the
executor's own position with operation `k` (idle, granted by `intent`, ran,
delivered); `jobs` the processes it owns.

`same_process`, the branch that lets an instance reopen its own file, is left
out: `serve_with_options` draws a fresh 128-bit instance for every open. Two
things the model makes visible are not disagreements with any document but are
worth knowing: an intent whose fsync fails may be in the file although its
effect never started, so the ledger is uncertain for good and every later open
refuses it; and an append that succeeds after a short write leaves a glued line,
which makes the file unreadable. Both fail closed.

`JournalLedger` adds `known`: the ledger as the process that has the journal open
knows it, or, between two of them, as the last one knew it. It follows memory while
the journal is open and stays when the process is gone, so a step from `validated` to
`open` takes it from what the last owner knew to what the new one read. `Ledger`
says what that may be (`TakeOver`): everything the last one knew, and at most a receipt
or an acknowledgement whose writing the last one saw fail. An intent never appears
that way, because a file with an intent in doubt is refused.

### Executor

`mode` is where the task is: in its loop (`poll`, `page`, `idle`, `channel`,
`pushed`), in a `drain`, or on the way through `connect`, `survey`, `replay`,
`report`, `ready`, the calls of `prepare` and `reconnect`; `goal` says what for.
`sending` is a delivery: the route, whether this attempt reached the service,
whether the receipt is to be delivered once more for a repeat. `completing` is
the position inside `complete`: delivering its own receipt, and then, while the
free slots are filled from the queue, how that delivery was settled (only a
recorded receipt ends the idle wait). A reply that is lost is a delivery that reached the
service (`HandOver`) and is then cancelled, crashed or submitted again. The
ledger is atomic here: three variables that change one record at a time. What
justifies that is module `Ledger`, which both sides implement (`KeepsLedger` in
each). A failed append is an `End` or a `Crash`: before the record if nothing of it
is durable, right after it if the next process finds it in the file.

The service is external: it issues any operation at any time, again and again,
answers a receipt as recorded or refused, lists any operation it issued in
`issued_operations`, and ends the turn when it likes. `owed[k]` is the one
history variable a property needs: how many answers the service still waits for
(a repeat of a running operation is one more; a repeat of a waiting one is not).

The model shows what `issued_operations` means to a starting or resuming
executor (`DoubtNeverStarted`): an operation reported there as uncertain never
ran. It was issued in a page that never reached the task.

### Job

`Processes` treats each of its jobs alike, so one job stands for all. Three
parties run against each other. The process group writes, forks and dies on its
own; `doomed` are the processes that were sent SIGKILL and have not died yet, so
a fork that joins the group during the kill is live and unsignalled. The output
thread is at `thread`: before a tick, holding the mutex with a signal to send,
before a read, or after a read that found nothing. The task is at `pc`: between
operations, or inside `finish` (waiting for the mutex, confirming the group's
exit while it holds it, reaping, joining the thread, journalling). The code
reads its flags one at a time, and so does the model: what a tick saw is used
after the read (`saw`), `stop` is looked at after that.

The job's `deadline` and the supervisor's are one Instant. `maintain` runs in
any operation, before a wait and after it (`Maintain`); what ends a wait is the
exit event or the wait's own deadline, so `Maintain("wait")` is always possible
while one waits. A `cleanup` drops the work task first, and with it the wait.
What may fail: starting the thread (the job is dropped best effort, and was
never in the registry, which is what `held` says), every journal entry, the
thread itself, the confirmation of the group's exit, the join. A crash ends the
task and the thread and leaves the group alone; what the next executor makes
of it is `Journal`.

Left out: reading and writing files, the text of the output, the conditions of
`wait_for`, `Processes::new` and a failing `wait4` of an own child. `Members`
are forked once each, so a group that forks faster than it is killed is not in
the model: `Unconfirmed` is what the code makes of it.

### Channel

Four parties: the service and the connection (external), the read pump, the
write pump, and the work task in its session (`serve_channel`, `next`,
`deliver`). Each pump has a position and the event or receipt it holds while it
waits for room; `events` and `outbound` are the two `mpsc` queues. The task's
`deliver` is four positions: put the receipt into the queue, wait for the
answer, fall back to HTTP, go back to where it was called from (a finished
operation, or an operation of the page in hand). Time is a choice: the answer
may always be late, the connection silent. The acknowledgement names a tool
call and not its run, so a receipt is a pair of the two.

Heartbeat frames are left out: the service's are skipped, and a write pump that
is blocked on its own is one that is blocked on a receipt. Opening the channel
is the `Executor`'s. External: the service answers a receipt frame at most once.

### Lease

Time is `now`, the same at both ends; a timer that is due fires before the next
tick. The heartbeat and the credential renewal are one loop with two
parameters: `at` is where each is (asleep, in a call, in the pause after a
failed heartbeat), `sent`, `flight` and `answer` are the locals of its call.
`remote` is when the service ends what it granted, `local` what the executor
takes for that end. A call given up on its timeout may still reach the service
later (`stray`). A call may also fail at any tick while the service answers others
(429, 5xx, a broken connection): `Failed`.

`run` polls the loops and the work task in one `select!`, so a synchronous step
of the work task (an fsync, a join of an output thread) stops the loops from
being polled. `blocked` counts the ticks of such a step; when it ends, what came
due is polled first (`biased`). One step may begin after the lease's end, since a
finished operation is recorded before its delivery finds that the lease is gone.
`MaxBlock` bounds a step: it is the one assumption that the code itself does
not enforce.

External: the service's lease has the same length in every answer
(`lease_ttl_seconds`), the wall clocks agree (`credential_deadline` subtracts the
local one from the service's), a renewal counts from its receipt.

### LogWatch

The output thread of `Job` is reduced to what a wait sees of it: bytes copied to
the artifact, the change of `activity` with each copy, and the exit it announces
after a read that found nothing. A change wakes the watchers one after the other
(`owed`), before the thread goes on. The output is bytes 1, 2, ... and the
pattern matches one interval of them (`first`..`last`), so that what a read
finds is arithmetic: the match must end in it and begin in it or in the overlap
kept from before (`carry`).

`pc` is the log's watcher, an asynchronous function that does not yield while
it scans: it samples the exit, reads the artifact chunk by chunk until a read is
empty, looks at the sample. The thread interleaves with each of these. A read may fail
(`ReadFails`), which ends the log's condition with an error and leaves the exit's alone.
`FuturesUnordered` is `awake`, the watchers woken since they were polled, and
`due`, those the sweep after the first result still has to poll.

Left out: conditions on paths, ports and URLs, which poll what is outside; a match
longer than the overlap of 4096 bytes, which the code may miss.

### Workflow

One state directory and the processes over it, one after the other. `pc` is where
`execute` is; `serving` and `submission` are the two futures `run_attached` joins.
`saved` is `State::value`, `file` the snapshot on disk: `State::save` replaces it
whole, and a failed save may have done so already. Every call may fail, every
process may be killed anywhere. `executor` is history: how the last executor that
started came to its end, which is what `clean` in the snapshot claims to know.

The turn is sent under a key that is saved before it is used, and the service
takes one turn per key, however late it arrives (`flight`). The user repeats a task
until a run that answers it is shown; that rule is the model's, and
`OneTurnPerPrompt` depends on it. Two things it brings out: a second failing save in
the same submission can submit a task twice, so the run allows one
(`MaxFailures = 1`); and a resume with another task after an unconfirmed
submission sends that task under the unanswered key, so the service may answer
with the earlier task's run. `Shown` is the run the final result names: the one on
record, or, when a lost reply left none, the run of the executor's own result,
which can only be the pending turn's. When a run is on record the model takes it to
be the one the executor finished; that an executor still finishes an earlier turn
of the session, and names that, is left out.

Left out: the checks of project, workspace, agent and model; the revocation of the
credential, whose outcome changes nothing the program keeps; the managed run of
`agent_run.rs`, which keeps no state.

### Checkpoint

A conversation runs its turns in one process, each with a checkpoint at its end,
and libgit2 is called on threads of their own (`blocking`). A checkpoint that is given up
(its deadline, a signal) drops the wait and leaves the thread inside a filesystem
call. What such a thread shares with the next turn is the permit
(`ACTIVE_WORKERS`) and the `info/exclude` file of the private repository; `thread[w]`
is where the closure is, and cancellation is looked at before each of its steps, as
in the code. The last step shows why the order in `blocking` matters: the permit is
dropped with the closure, before its result is sent, so that a checkpoint's own
next thread is never turned away (`RefusedByStale`).

`record` may be repeated and may lose its answer, so a checkpoint that is reported
as not saved may be recorded all the same; the other way round is excluded
(`SavedIsWhole`). Left out: libgit2 and which files it admits, the reported
reasons, and how long the time limits are.

### Keyring

`ChunkedKeyringStore` writes a value that does not fit into one entry of the
operating system's store as several, and then a marker with their number and the total
length; only the Windows build does (`chunk_writes`). `todo` are the entries an
operation has still to write, and it may be torn between any two. Chunks that a torn
`delete` leaves behind are never read again, and not modelled as a loss.

### Not modelled

* `agent.rs` (following a run's events) keeps one number, the last event it
  printed, and asks for what comes after it; `inference.rs` prints one response.
* The login flows, the refresh of an expired token and the caches of it. One hazard
  there is listed without a property: two processes may refresh with one refresh
  token, and the one that is refused deletes the credential.
* HTTP retries: one loop without shared state.
* The rest of the source, by far the largest part of it: the generated client and
  its types, the OpenAPI, AsyncAPI and GraphQL front ends that turn a description
  of an API into commands and arguments into requests, help, completion, output.
  These are transformations of data that keep no state between steps; what can be
  wrong in them is a field or a string, which a model that abstracts data would not
  tell apart. The modules here cover the part of the program that has states,
  interleavings and failures; measured in lines it is a few percent of the
  repository.

## 3. The runs

| Run | Bounds | What it shows |
|---|---|---|
| `journal` | 1 operation, 2 requests, 2 receipts, 1 handle, 2 identities, 3 instances, 3 epochs | the ledger's safety and its refinement of `Operations` and of `Ledger`, teardown verified from outside |
| `executor` | 3 operations, 2 slots, 1 receipt, 2 refusals, 2 processes, fair | the work task: nothing dropped, nothing twice, done means settled; it uses its ledger as `Ledger` allows; every issue is answered or the run ends; drains end |
| `job` | 1 member besides the leader, a pipe of 2 chunks, an artifact of 1, descendants may leave the group, fair | the three parties under every interleaving, failure and crash; the deadline stops a group nobody maintains; a wait returns |
| `job_output` | a pipe of 1, nobody leaves the group; expects a violation | output of a command that exited in time can be lost |
| `job_escaped` | a pipe of 1, fair; expects a violation | a descendant that left the group can keep a wait from returning |
| `channel` | 1 tool call in 2 runs, event queue of 2, outbound queue of 1, 1 frame in flight each way, 2 pages, 2 deliveries, fair | an acceptance settles its own receipt; the newest page is never lost; pumps and task never wait for each other in a circle |
| `lease` | lease 3, credential 18, calls 2, retry 2, steps 1, one outage of 2 ticks, 8 ticks | the executor never trusts its lease longer than the service does, and stops in time |
| `log_watch` | 4 bytes, reads and overlap of 2, every match that fits, fair | no match logged before the exit is missed, a tie with the exit keeps it, a logged match ends the wait without the timer, all but a read of the log that fails, which is reported |
| `checkpoint` | 2 files, 2 sets of rules, 3 threads, 2 turns, 2 retries | what is recorded was uploaded, under its own rules; the permit turns away only what follows an abandoned thread |
| `workflow` | 3 tasks, 5 processes, 2 killed, 1 failing save | no task is submitted twice, no executor starts over leftovers, none under a used claim |
| `workflow_setup` | 2 processes, no crash, no failing save; expects a violation | a set-up that fails before the executor starts may refuse every resume |
| `keyring_torn` | 4 values of 1 to 3 entries; expects a violation | a torn write can yield a mix of two values of the recorded length |

Why the bounds are enough: in the ledger, records of different operations never
touch each other, so one operation shows what one line does to another; three
instances allow an owner, a failed takeover and a successor. In the executor two
slots and three operations give two running ones with one waiting, one of them
repeated; `MaxRefusals = 2` lets one refusal pass and the next end the run, as three
does. In a job, one member lets a process fork while its parent dies, and a pipe larger
than the artifact lets a read be cut by the limit. In the channel two runs with one
tool call are the two receipts an acceptance can confuse, and an outbound queue
smaller than what the task sends makes it wait while the pumps wait for it. For the
lease, eight ticks cover an end that is slept, called, retried and blocked through, and
the bound of `EndsInTime` after it. A match of three bytes in reads of two straddles
one boundary or two. In a checkpoint three threads are an abandoned one, one that is
turned away for it and one that follows. In the workflow
five processes leave room for two that are killed, one whose save fails and those
that resume after them; three tasks let a late turn of one meet the next two.

The runs of the ledger, the executor and the workflow stop when their processes
are used up, and a job, a lease, a wait and a conversation stop when they are over;
`Keyring` may rest. That is why deadlock is not checked; what must not wait for
ever is a liveness property instead.

Fairness (`FairSpec`): the task's own steps are weakly fair, since the runtime
schedules it; a running operation's wait ends, since each has a deadline
(`run_bounds`, `wait_deadline`, the command timeout); a finished operation is
strongly fair because `select!` picks a ready branch at random. Two assumptions
are about the service: it answers a receipt it is handed again and again, and it
does not keep the task from idling by issuing operations it has recorded
already. The second is needed: after a page that was answered `work_loop` polls
again at once and does not look at finished operations in between.

In `Job`, killed processes die, time passes and both threads are scheduled
(weak fairness). The task's attempt at the mutex is strongly fair, since the
thread releases it in every round; a wait's own branch of `select!` is strongly
fair, since `select!` polls every branch. Nothing makes the task maintain or clean
up a job otherwise, and nothing in the model needs it to: the deadline is the
output thread's. `WaitReturns` excepts a job with a descendant outside the group;
`job_escaped` is about that one.

In `Channel`, the pumps and the task are scheduled and the task's timers fire;
nothing is assumed of the service or the connection, which may fall silent.

In `LogWatch`, the thread and the watchers are scheduled; the process, the
deadline and the timer of `RECHECK` are not, so a wait that ends does so by
its wakes.

The four expected violations are disagreements of the code with the repository's
documentation:

* `job_output`: `copy_output` looks at `stop` after a read that found nothing. What
  the shell writes between the two is lost if another operation's maintenance
  closes the job in that time, and the job is reported as exited and not
  truncated (README, "Output artifacts retain up to 1 MiB per process").
* `job_escaped`: it does not look at `stop` at all while reads find something, so a
  descendant outside the group that keeps writing keeps `close_output` in its join
  ("`bash.wait` and `bash.run` return when the process exits, fails or reaches its
  timeout").
* `workflow_setup`: `acquire_bootstrap` saves `executor_started` before the executor
  has made its first call. When that call fails, nothing was run, and the directory
  refuses every resume ("Setup interrupted before the executor starts can resume
  idempotently with the original prompt").
* `keyring_torn`: the recorded length is that of the whole value. New chunks and
  old ones can add up to it when the two values differ in length by less than a
  chunk, and then `get` returns the mix (the comment in `keyring_store.rs` says that such a
  torn write "is detected on read instead of yielding a corrupt value").

Every property of a passing run has a mutant: a definition whose name starts with `Bug`, beside
the one it would break, describing a plausible mistake at that place.

## 4. What is proved

`JournalProofs` proves for all sets of operations, requests, receipts, handles,
identities and instances and every number of epochs, from `JournalAssumption`
alone (`None` is not a value, the bound is a number, the flag is a Boolean):

* `JournalTypes`, `JournalCrashSafe`, `JournalMemoryIsDurable`, `JournalLatestOwner`:
  invariants of the run `journal`;
* `JournalImplements`: the ledger refines `Operations`;
* `JournalCleanMeansQuiet`, the last invariant of that run;
* `JournalKeepsLedger`: with its history variable, the ledger refines `Ledger`. That
  every behavior of `Journal` has one with the variable holds by the form of
  `JournalLedger`, in which `Know` gives `known` a next value in every step; as a
  formula it needs the temporal existential quantifier, which the prover does not have,
  so it is no theorem here.

The argument is one inductive invariant, `IInv`. `CrashSafe` alone is not
inductive: that a file holds the intent of every effect survives an intent only
if the caller was granted the effect after that intent was durable. So `IInv`
says what memory and file know of each other (`Agrees`), what the caller's
position implies for the ledger (`CallerOK`), what validation established before
the header is written (`ValidatedOK`, `OpenedOK`), and that either image of the file,
if readable, is complete (`GoodFile`). Every action is a lemma; the fact used
most is how one line, whole or torn, changes a file.

The clean mark has an invariant of its own, `QInv`, on top of `IInv`. A mark is
never stale because no file of an open journal bears one: `validate_restart` writes
a header, which takes it away, before anything else can happen. So a marked file is
the work of `MarkClean`, which looks at memory, and the question is what the file may
hold that memory does not know. A process whose record was written by a failed
append is such a thing; `HandlesOK` says that it is then owned and not known as ended,
and `MarkClean` demands that every owned process is known as ended.

The refinement of `Ledger` rests on a third, `KInv`: a file that can be read holds all
that is known (`ReadsBack`), has no receipt of an operation that is not, and holds no
operation at all before it has an owner; and what was read for taking over has a
receipt for every intent. The last two are what `TakeOver` needs. A
record written by a failed append is in the file and not known, so the file may be
ahead of `known` at any time, and in both images differently; each kind of record has a
lemma that it takes nothing known away (`KnownHeader` to `KnownClean`, and inside the
lemmas of intents, receipts and acknowledgements), `AppendKnown` carries that
to both images of the file, and `KStepInv` turns a new owner's memory into what is
known. Every action is then one step of `Ledger` or none (`HNextKInv`).

`ExecutorProofs` proves for all sets of operations and receipts and every
bound, from `ExecutorAssumption` alone (the bounds are numbers, `None` is not a
value):

* `ExecutorDoubtNeverStarted`, `ExecutorDoneIsSettled`: two invariants of the run
  `executor`, and `ExecutorUncertainIsRunning`, which they rest on;
* `ExecutorImplements`: the executor refines `Operations`;
* `ExecutorKeepsLedger`: it refines `Ledger`, so it asks nothing of the journal that
  `JournalKeepsLedger` does not provide;
* `ExecutorEveryIssueInHand`, `ExecutorQueueOnlyWhenFull`: its other two invariants,
  which count;
* `ExecutorDrainShrinks`: in a drain no operation gets more answers to give, and each
  answer given is one less in hand.

One inductive invariant, `IInv`, carries the first five. That a `done` run has
acknowledged everything holds at the end only because, at every step before, a
receipt that is not acknowledged is the one being delivered or is still in the
page to replay (`SettledOK`); that in turn rests on a running operation having an
intent and no receipt (`HandsOK`), on nothing running outside the loop, and on
what each position may be for (`GoalOK`). `LedgerOK` ties the ledger to the
world: an effect happened exactly when there is an intent, and whatever the
service was handed is the receipt on record. `NextIInv` has one step per action.

The next two rest on `HInv` (`ExecutorHandsInvariant`). `EveryIssueInHand` bounds the
answers owed for an operation by what the task holds of it, but a page may repeat an
operation that already waits in the queue: the repeat is then in hand twice and will
be dropped as one. `CoverOK` therefore says that such an operation is covered without
the page; with the page alone it is not inductive. `BoundOK` counts the running
operations at every position, also in the middle of `complete`, where one has left
`running` and its slot is not yet filled; `LoopOK` says where the task can be while
it delivers, and that it leaves its loop owing nothing it still holds. What the sets
and queues add up to is in the lemmas `DeliveryCounts` and `DispatchHInv`.

`ExecutorDrainShrinks` is the safety half of `DrainEnds`: what a drain still has to do
only gets less, whatever the service issues meanwhile. It needs that no operation waits
twice (`QueuedOnce`): the operation `complete` takes out of the queue then leaves it, and
has gained at most what it lost there, a slot, a place behind a running one or a
delivery (`DispatchRest`). That the rest is worked off at all stays with the run.

`JobProofs` proves for all sets of processes and all sizes of the pipe and the
artifact, from `JobAssumption` alone (the leader is no member, the sizes are
numbers):

* `JobSignalsOwnGroup`, `JobEndedIsOver`, `JobExitIsDrained`, `JobCleanedIsGone`:
  four invariants of the run `job`;
* `JobSeenExitIsNoTimeout`, `JobWaitSeesExit`: its two action properties.

That a job is over when it says so rests on the order in `finish`: the process
id is given up (`LockOK`) only when the group was seen empty under the mutex, so
whoever holds the id signals a group whose leader is not reaped, and what is
reaped is empty (`GroupOK`, `TaskOK`). `cleanup_failed` is raised with `closed`
and lowered only after the join (`ClosedOK`), which is what makes a closed job
with a finished thread the only one that reports a status. `ExitOK` carries what a
tick saw to the announcement: once the leader is gone nothing it wrote can enter
the pipe, so an empty read after that tick means all of it was copied.

`ChannelProofs` proves for all runs and tools, every capacity of the queues and the
network, and every number of pages and deliveries, from `ChannelAssumption` alone
(capacities are at least one, `None` is not a value):

* `ChannelAcceptedIsRecorded`, `ChannelOneOutstanding`, `ChannelNewestPage`: the
  invariants of the run `channel`;
* `ChannelSendsAtOnce`: the queue of receipts has room whenever `deliver` has one to
  send, so the work task never waits for the write pump; the run has a queue of one,
  which shows it for that size only;
* `ChannelPagesForward`: the page in hand is replaced only by a newer one.

The invariant says where the one receipt, or the answer to it, is (`OneAt`): in the
outbound queue, with the write pump, in the network up or down, with the read pump, in
the event queue, or nowhere; while the task does not wait it is nowhere
(`FlightOK`). Each step of the pumps moves it one place on. That holds only until the
channel ends, for a late answer may still be under way then, which is why
`AnswerLate` ends the channel. `WaitOK` adds that the receipt is that of the waiting
delivery, so an acceptance that comes can be for no other one. Pages need an order
(`OrderOK`): page numbers grow from the page in hand, over the page kept by `deliver`,
the event queue and the read pump to the network. With it, a page taken out of the
queue supersedes only older ones, so the newest is not lost (`NewestOK`). The lemmas about
queues (`TailFacts` to `SortedFacts`) say what taking and appending do to these
three notions.

`LogWatchProofs` proves for outputs, reads and overlaps of every size and every set of
conditions, from `LogWatchAssumption` alone (the conditions are of the two kinds,
sizes are numbers, a read is not empty):

* `LogWatchNoMissedMatch`, `LogWatchTieKept`: the invariants of the run `log_watch`.

The arithmetic is `ScannerOK`: what was scanned contains no whole match, and the text
kept from it is the whole of it or as long as the overlap, so a match that ends in the
next read begins in it or in what was kept. `WatcherOK` carries the sampled exit to the
read that finds nothing: the artifact was complete when the exit was sampled, so a
watcher that gives up has read all of it. For ties `TieOK` keeps the log's watcher due
for the sweep if the exit fired first and a match is there, and `FoundNext` says that
a match not yet found has the watcher awake or about to be woken.

`LeaseProofs` proves for all times and bounds, from `LeaseAssumption` (they are
numbers, a call is shorter than a lease, a credential lives at least as long as
a lease):

* `LeaseLocalWithin`, `LeaseNoLateOperation`, `LeaseEndsInTime`: the invariants of
  the run `lease`, and `LeaseTypes`.

`Ends` says what an answer under way may still promise: its call began before
the service renewed. `Operation` and `Timer` measure from the moment a synchronous
step began (`now - blocked`): that moment was before the loop's timer was due,
and the timer is never set beyond the lease.

`WorkflowProofs` proves for every number of tasks, processes, crashes and failing
saves, from `WorkflowAssumption` alone (the bounds are numbers, neither `None`
nor `Empty` is a snapshot):

* `WorkflowNoStartOverLeftovers`, `WorkflowOwnClaim`: two properties of the run
  `workflow`;
* `WorkflowOneTurnPerPrompt`: its third, under the hypothesis that at most one save
  fails (`MaxFailures <= 1`), which is the bound of the run.

The invariant is about two snapshots, the file's and the process's, since a failed
save leaves either in the file. Both know their claim's key (`Good`), and one that
can be resumed has nothing behind it. From the credential to the last save both say
that an executor started (`AttachedOK`), which is what makes a crash harmless; before
it the process rests on what it resumed (`SetUpOK`).

One turn per prompt needs another invariant, `TInv`, about what the service has
received. `Open` are the turns it has for the task the user asks, and those under way
to it: all have one key (`TurnsOK`), and until the user is told of the turn it is the
key in the snapshot (`Keyed`), because a key is saved before it is sent and a repeat
under it is the same turn. An open turn's run is not in the snapshot (`Unanswered`),
for a snapshot with a run takes a new key for what is asked next; a process whose save
of the answer failed is the exception (`Unsaved`), and its last save shows the user
the run. The hypothesis is where the statement ends. With two failing saves TLC finds
the case: the save of the answer fails and so does the last one, which reaches the
file all the same; the run is in the file, the user saw only errors and asks again, and the
task is a second turn.

`CheckpointProofs` proves for all files, rules, threads, turns and retries, from
`CheckpointAssumption` alone (there are rules and a turn, `None` is no thread):

* `CheckpointSavedIsWhole`, `CheckpointSavedUnderPolicy`,
  `CheckpointRefusedByStale`: the properties of the run `checkpoint`.

One thread at a time is inside the repository (`PermitOK`), so the rules on disk are
the awaited thread's own from the moment it has written them to the moment it has
staged (`RulesOK`); a thread that lives is awaited or abandoned (`WaitOK`). What is
not yet uploaded is still to be uploaded (`UploadOK`), and a step that ends the attempt
changes nothing else (`FailedIInv`).

Only model-checked: the liveness properties `IssuesAnswered` and `DrainEnds` of
`Executor`, `DeadlineKills` and `WaitReturns` of `Job`, `EndedCloses` and `DeliveryEnds`
of `Channel` and `MatchEnds` of `LogWatch`, since liveness under fairness is outside the
prover's reach, as is `ENABLED`. Every invariant and every action property of a passing
run is a theorem. `Keyring` has an expected violation and nothing proved.

## 5. The plan

1. Proofs: which of the liveness properties rest on a measure that a theorem can state
   step by step besides a drain's (a delivery's place); what a `get` of
   `Keyring` returns when no write was torn.
2. The refresh of a sign-in by two processes, over the store of `Keyring`.
3. What a new process registry makes of the handles of an earlier one, composed with
   `Journal`.

Not planned: the generated client and commands, formatting and help, and the
commands that send one request and print the answer.
