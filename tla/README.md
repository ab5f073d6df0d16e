# TLA+ models of zcode-plugin-codex

The plugin lets a Codex session delegate reviews, transfers and *rescues* (tasks that
write to the workspace) to the ZCode engine. It has no server: hooks, companion
commands, detached runners and a broker are separate processes that die at any time
and meet only in files under the plugin's data directory and on the broker's socket.
What can go wrong is therefore mostly one kind of thing: two of these processes
interleave, or one stops halfway, and the files say something that is not so. These
modules model the part where that costs most: the life of a rescue, from its admission
and reservation over its execution and cancellation to the settlement of the session
that owned it, with the broker that serves its turns and the notice of its end.

| file | what it is |
| --- | --- |
| `WritableJobs.tla` | the promise: the abstract life of the writable jobs of a workspace |
| `EpochReceipts.tla` | the promise of the hooks: what an epoch owes, and its receipt |
| `JobStore.tla` | the durable store of jobs and bindings, one step per durable write |
| `MCJobStore.tla`, `MCJobStore_*.cfg` | its instances for TLC |
| `JobStoreProofs.tla`, `BindingProofs.tla` | theorems about it, checked by TLAPS: the records; the bindings, the index and the settlement |
| `EndedRescue.tla`, `EndedRescue_*.cfg` | a detached rescue, its engine, and the passes that settle it once its session ended |
| `HostLifecycle.tla`, `HostLifecycle_*.cfg` | the epochs of a session: its record, its receipts, its identity ledger, and the hooks that use them |
| `CancelElection.tla`, `CancelElection_*.cfg` | concurrent cancel commands over the attempt journal |
| `ExecutionAdmission.tla`, `ExecutionAdmission_admission.cfg` | the admission of a background job by its execution capability |
| `Notifications.tla`, `Notifications_notices.cfg` | the completion notices of jobs |
| `Broker.tla`, `Broker_broker.cfg` | the owner broker: clients, requests, turns, and generations of the engine |
| `EndedRescueProofs.tla`, `HostLifecycleProofs.tla`, `CancelElectionProofs.tla`, `ExecutionAdmissionProofs.tla`, `NotificationsProofs.tla`, `BrokerProofs.tla` | theorems about them, checked by TLAPS |
| `PROJECT.json` | components, runs, mutants, the map from definitions to source lines, findings, hazards, theorems |

Words are those of `src/CONTEXT.md`: a *Rescue Child* is the executor agent, a
*Detached Rescue Runner* the process that executes a background job, a *SessionEnd
Receipt* the durable record that a session (one *Host Lifecycle Epoch* of it) ended.

## 1. Inventory

Paths are below `src/scripts/lib/` unless they say otherwise.

| component | state it keeps | operations | what makes it correct |
| --- | --- | --- | --- |
| **Job and binding state store** (`state.mjs`, `rescue-binding.mjs`, `fs.mjs`) | `jobs/<id>.json`, the owner index with its marker, one partition of Rescue bindings per session, the lock `.state.lock` | reserve (generic, fresh, continuation), list, commit, fence, claim, start, persist a stop, cancel, finish, roll back, close, repair, collect | one unfinished writable job per workspace; terminal records are final; a stop decision is never lost; a binding always leads to work that exists; no record is unreadable or beyond every settlement; all of it wherever a process dies |
| **Job cancellation** (`job-control.mjs`, `cancel-attempt.mjs`) | the job's cancellation lock, its worker lease, the elected cancel attempt | cancel, wait for another's cancel, kill and sweep the runner's tree, publish without a report | one canceller at a time; `cancelled` only over a stopped turn and a dead tree |
| **Orphan recovery** (`recovery.mjs`) | none of its own | settle an ended session's rescue, settle a selected orphan, delegate a stop | a turn that may still write keeps its job unfinished; a receipt is discharged only over decided work |
| **Ended-owner reconciler** (`rescue-lifecycle.mjs`) | none: ports | decide, persist the intent, stop, reread, clean up, publish | remote control only after the durable decision; publication only after the cleanup |
| **Job executor** (`scripts/zcode-companion.mjs`, `review.mjs`, `rescue-runner.mjs`, `background-worker.mjs`) | a process, its lease, its client session | claim, start, admit, send, record the boundary, observe, publish, give up | nothing is sent after the session ended or the job was stopped; a turn that may exist is stopped or kept |
| **Host lifecycle receipts and epochs** (`src/hooks/lib/hook-state.mjs`, `host-lifecycle.mjs`, `src/hooks/*`) | epoch ledger, receipts with a compare-and-set token, the session record | publish, merge hints, settle, prune; SessionStart, compensation of a missed SessionEnd | every ended epoch gets a receipt and every receipt is settled; no workspace hint is dropped; no claim or send of an ended epoch |
| **Forwarding turns and notifications** (`hook-state.mjs`, `subagent-hook.mjs`, `user-prompt-hook.mjs`, `stop-review-gate-hook.mjs`) | notification records with their claims, forwarding marks | claim, finalise, release, show | each completion is shown once |
| **Host identity and admission capabilities** (`identity.mjs`, `invocation.mjs`, `rescue-execution-input.mjs`) | identity records, execution capabilities, a monotonic timestamp | issue, reserve, commit, revoke | one capability starts one job, across a crash |
| **Owner broker and client** (`scripts/zcode-broker.mjs`, `zcode-client.mjs`, `zcode-protocol.mjs`) | the owner identity, the protocol generation (an engine child), sessions, subscriptions, admissions | admit, create and resume sessions, send, stop, retire and rebuild a generation, drain | one engine generation per answer; an acknowledgement says which generation gave it; drain ends |
| **Rescue preparation and routing** (`rescue-preparation.mjs`, `rescue-route-planner.mjs`, `rescue-migration.mjs`) | preparation ids | prepare, consume, plan a route | an id is consumed once |
| **Rescue child reconciliation** (`rescue-child-reconciliation.mjs`, `managed-agent-role.mjs`) | none | find an agent's thread | a child is taken for one session's only |
| **Process control** (`process.mjs`, `signals.mjs`, `tool-launch.mjs`) | none | spawn, signal, sweep a tree | only the process whose identity was recorded is signalled |
| **Current-turn evidence** (`turn-terminal.mjs`) | none | select the accepted turn's messages | another turn's end is never taken for this one's |
| **Read-only transfer** (`transfer.mjs`) | a job of the read-only class | reserve, claim, settle | as for the store |
| progress and job log, rendering and arguments, discovery and configuration, build tools | reporting, text, configuration files | | no decision of another component depends on them |

### How they interact

* **Shared files.** All components meet in the store. Every store method takes
  `.state.lock`, re-reads what it decides on and publishes by single-file atomic
  replacements. Several replacements are several moments a crash can fall between.
* **The cancellation lock** of one job serialises settlement with the executor's send
  and result. The executor's give-up, the delegation of a stop by a pass that was not
  granted the lock, and every read before the lock do not take it.
* **The worker lease** is an OS lock the runner holds while it works. A free lease
  proves the recorded runner let go; it proves nothing about the runner's descendants.
* **The broker's socket.** A pass and a runner talk to the same broker, which may replace the
  engine behind the socket between two calls; generation stamps tell.
* **Receipts.** SessionEnd publishes the receipt first. From then on claims and sends of the
  epoch are refused, and the hook, then every later prompt of the session, works its
  obligations off.

### What is hard

Crashes between two durable writes (store, receipts, capabilities); decisions made on a
read that is stale when used (pass against runner, index marker against files); the
order of *decide, stop, clean up, publish*; answers that never come (a send that may
have been accepted); an engine that is replaced between two calls; wall-clock milliseconds used
as generations and tokens; and the duty of somebody, eventually, to settle what an ended
session left. `PROJECT.json` lists each hazard at its line with the properties that cover it,
or the reason why none does.

## 2. The modules and the code

### WritableJobs: what is promised

A workspace has at most one unfinished writable job; a job goes through
queued, running, cancelling to one of three ends, once; a durable stop decision on a
job that has not started ends it as cancelled. There are no files or processes in it.
Both detailed modules implement it, under a mapping each states at its end.

### JobStore: the store

| variable | in the code |
| --- | --- |
| `jobs` | `jobs/<id>.json`: owner, class, Host ownership, status, the execution reservation (`fence`), the claimed worker lease, the continuation's private proof of the binding it advanced from (`origin`), whether the session was accepted, the stop intent |
| `bindings`, `authority`, `partitions` | each session's partition of Rescue bindings and its authority file |
| `tuples`, `marker` | `job-owners/<owner>/<id>.json` and `job-owners/index.json` |
| `txn` | the method that holds `.state.lock` and has writes left to do |
| `clock` | `Date.now()` |

Actions are named for the methods. A method that replaces one file is one action. One
that replaces several plans them under the lock (`Begin`, or directly for rollback and
cancellation) and each further action is one durable write, in the code's order: index
repair (`RewriteOwnerTuples`, `UnlinkStrayTuples`, `PublishRepairedMarker`), then
authority, collection, binding, tuple, job, marker for a fresh rescue, and tuple, job,
marker, binding for a continuation. `Crash` drops the plan at any point and frees the lock.

A method is enabled for any caller the source lets reach it. Where a caller adds something
the method relies on, a comment at the action says so: that a current continuation
fails by its rollback and not by the generic failure, that an attempt does not start
after its own rollback, whatever happens to the binding it restored (`MovedBack`), that only the read-only transfer uses the unclassified claim.

Abstractions: job ids and leases are drawn fresh, as the random digests they are;
spec payloads, progress, turn boundary, artifacts and error texts are dropped, as no
store decision but their own shape check depends on them; the clock stands still while
a method holds the lock; `Reach` lets the clock catch up with a generation that a rollback
pushed past it, unless `ClockMayLag`.

### EndedRescue: the end of a session

One bound, Host-owned job with a detached, marked runner.

| variable | in the code |
| --- | --- |
| `job` | the stored record: status, stop intent, claim, turn boundary, and whether it was failed for lack of evidence |
| `runner`, `strays` | the step of the runner process, and whether descendants of it live |
| `turn`, `acked`, `replaced` | the remote turn; who acknowledged a stop, the engine that ran it or a later one; whether the broker rebuilt its engine |
| `lock` | the job's cancellation lock |
| `pass` | each settlement pass: its step, the record it selected, its last reading, the answer to its stop, its plan, the race it lost, and whether it is the fence's second round |
| `receipt` | the SessionEnd receipt |

*Runner*: `TakeLease`, `ClaimExecution`, `StartJob`, `Admit` (the last check, under the
cancellation lock), `Send`, `RecordBoundary`, then `PublishResult` or `ObserveFailure`
and `GiveUp`. Each way of failing is an action: setup, interruption, admission wait,
a send refused or unanswered, the boundary write, the observation, its own stop, a crash.

*Pass*: `BeginPass` selects, with three outcomes (terminal record, lock granted, lock
contended). Then `ReadRemote`, `PersistQueued` or `PersistStarted`, `Decide`,
`Precheck`, `Stop`, `Reread`, `Redecide` follow `settleRemoteEvidence`; every exit goes
through `Kill` and `Sweep`, the marked-runner duty, before `Publish`. `Report`,
`Delegate`, `Recheck` are what the callers do with the outcome; `DischargeFence` is the
hook's second look, which prompts do not have. Reads, remote calls, and store mutations are
each a step of their own, so anything of the runner, the engine or another pass can
come between them.

*Environment*: turns end by themselves or because of a stop, with or without a report
(`idle`); the engine may be replaced once after the send; descendants come and go.

Constants: `Passes` may run side by side; those in `Hooks` are the hook's own, the
others are prompts' reconciliations. The Host may deliver SessionEnd again, so a hook's
pass may run more than once. `MaxFaults` bounds failed calls, deaths, expired budgets and engine
replacements together in one behaviour.

Abstractions: one receipt with one obligation; binding-generation checks of the
selected record (they compare with the same record); receipt tokens; broker-owner
release after the passes; the late delivery of a send whose answer was lost; the
platform-specific evidence of process trees. An `acked` of "other" is a stop that a rebuilt
engine acknowledged, the old one being gone with its turn; `archived` is a job whose evidence
channel was lost. `ExclusionHeld` names both as its exceptions.

### HostLifecycle: the epochs of a session

An epoch is one stay of a host in a session, numbered by the place of its SessionStart in
time. A job is in `open` from its reservation until it is settled or durably delegated; how
that happens is the business of `JobStore` and `EndedRescue`.

| variable | in the code |
| --- | --- |
| `live`, `started` | whether a host serves the session, and the last epoch that started |
| `record` | the SessionStart record, which anchors the current epoch |
| `ledger` | the identity ledger: its epoch, the workspaces it knows, whether it ended |
| `receipts` | per epoch: state, workspace hints, compare-and-set token, boundary (`endedAt`) |
| `open` | the jobs owed, as pairs of an epoch and a workspace |
| `child` | a Rescue child: `SubagentStart`, `PersistClaim`, then the admission fence (`FenceScan`, `FenceAnchor`, `FenceOwn`) and `PersistReservation`, the last three under the job lock |
| `start` | `recordSession` of a resume: `ReadReceipt`, `EnumerateScope`, `MergeScope`, `ScanScope`, `PublishCompensation`, `CleanupIdentity`, then the same again under the job locks of what the scan covered (`LockWorkspace`, `CompensateFenced`), then `WriteRecord` |
| `pass` | the SessionEnd hook, stage by stage, and the prompt hook: `reconcilePriorEpochReceipts`, then `beginCallerTurn` |

What both settling hooks do is shared: discover under the job locks, settle or retain each
obligation, settle the receipt with the token of the scope they proved. Any read, write or
hook may fail (`MaxFaults`); the host may exit, which runs its hook, or be killed, which
does not.

Three switches separate what the Host may do. `Overlaps`: a prompt hook of an epoch overlaps the
SessionEnd hook of the same epoch. `EndsLate`: a resume records its epoch before the
SessionEnd hook published. `LinksLate`: a child of the old host links a workspace during the resume.
With each of them on, one of the statements of the design fails (see *Disagreements* below). The runs
have `Overlaps` and `LinksLate` off, and `host_epochs` has `EndsLate` on.

That a prompt goes on with its turn after its reconciliation failed is no switch: it is what
`user-prompt-hook.mjs:36-42` does of every failure but that of the ledger's reading and merging
(`ListPending` and `ReconciliationFails`). Its turn then replaces the ended ledger, and `ScopeKept` says
that what the ledger knew is in the receipt by then. With one failure that is so; with two it is
not, and the settled receipt may leave a job behind.

`EpochReceipts` is what the module promises to the rest of the system, without hooks, locks, ledgers,
hints or failures: an epoch takes work on while it is the recorded one and has no receipt; it
is left behind, by the end of the session or by a resume, only with a receipt or with nothing owed; a
receipt is opened for the recorded epoch, settled once nothing is owed, and forgotten only then. Where
`EndsLate` lets a resume overtake the SessionEnd hook, a receipt may also be opened late, for an
epoch that owes nothing.
A job counts as owed from the last look of its child's admission fence on, before it is written (`Owing`).

Abstractions: one hook of each kind, one child and one resume at a time; settlement of an
obligation is a step that leaves it open or not; retention is `PruneReceipt`, whose 512
newer receipts or 30 days are longer than any start or reservation takes; records without an epoch,
written by older versions, are left out.

### CancelElection: concurrent cancel commands

| variable | in the code |
| --- | --- |
| `job`, `runner`, `strays`, `turn`, `lock` | as in `EndedRescue`, reduced to what a command looks at |
| `journal` | the attempt journal: number and status of the attempt |
| `caller` | per command: its step, the journal it saw before the lock, the status it last read, its attempt, its answer |

A command observes the journal (`ObserveJournal`), takes the cancellation lock or waits for
it, reads the record, runs one pass of the shared reconciler (`PersistSharedStop`,
`ShareQueued`, `SharedSettles`, `SharedRetains`, `SharedRaced`: one step each, as
`EndedRescue` has the inside), and elects: it adopts the attempt in the journal, the failure of it, or
begins its own. Then `performCancellation`: the queued path, or `ReadBeforeStop`, `SendStop`,
`CleanRunner`, `ObserveStop`, `Retain`, `RecordCancelled`, `Release`. `CallerDies` at any step
leaves the journal to the next command.

The job is a Host-owned rescue with a detached, marked runner; read-only and foreground jobs
are left out. The branches over a binding gone stale, or a record changed under the stop, have no case here,
which is what `GuardIsHeld` says. `JournalAccepts` has one oddity: when between the leader's
two last writes (`failed-pending-release`, `failed`) a follower adopts the failure and a new attempt
begins, the leader answers that the journal is corrupt, although its own outcome was recorded.

### ExecutionAdmission: one capability, one execution

| variable | in the code |
| --- | --- |
| `job` | the record: status, claimed lease, execution reservation |
| `cap` | the capability in the identity store: issued, revoked, reserved for a lease, committed to a lease |
| `spec`, `creator` | the sealed specification, and the process that dispatches the job |
| `worker` | every process given the token: fence, reserve, claim, commit, start, or compensate |
| `canceller`, `cleaner` | a cancellation that has read no effective lease; who is between the two writes of a cleanup |

The two stores have a lock each and nothing across them. Any process may die between two
writes; recovery (`RecoverQueued`, `CleanTerminal`) probes the effective lease and cleans up.
Left out: what runs after the start, stop intents, the specification format of older versions,
validity and expiry, and the inspection digests. `BeginWorker` merges reads that nothing can
come between. One leak is tolerated because nothing is run twice or stranded by it: a job ended
between a worker's fence and its reserve is cleaned while the capability is not reserved yet, and the
reservation that follows is released by nobody.

### Notifications: who tells the user

`marker` is the session's marker: what is notified, and what is claimed. `carrier` is each
companion and prompt: claim, verify, deliver, then finalize or release. A claim
lapses after a minute whatever its holder does, and neither `finalize` nor `release` asks
whose the claim is, so the interesting steps are those of a holder that was overtaken.
`CleanupSession` is the sweep of SessionEnd (`hook-state.mjs:1227-1270`): it removes the marker of the
session while companions and prompts are on their way, and a session that is resumed starts from an
empty one. What it forgets may be told again, so the property takes those jobs out (`lapsed`); that
nothing is suppressed by it is `EndIsAnnounced`. A sweep that is cut short, or that spares a marker
written after the end it proves, removes nothing, and is the run without that step. Left
out: the 500 entries a marker keeps, beyond which the oldest notices are forgotten and repeated too,
the 500 names a scan takes, and
`markJobNotified`, `markJobsNotified` and `peekUnreadJobs`, which have no caller in `src`. When a prompt gave its notice
and its bookkeeping failed, the claim lapses and the notice is given again;
`user-prompt-hook.mjs:82` says that the next prompt retries the bookkeeping.

### Broker: one session behind a socket

The broker is one thread; what it does between two awaits is one action.

| variable | in the code |
| --- | --- |
| `engine` | each generation of the engine process: unborn, live, gone |
| `protocol`, `starting`, `retired` | `this.protocol`, a pending `protocolPromise`, `retiredProtocolGeneration` |
| `slot`, `won` | `activeSessionSockets` and `activeSessions` of the session, and the protocol's own turn; turns whose terminal was recorded |
| `permission` | the entry of `permissionPending` |
| `turns`, `notices`, `wire` | external: what the engine runs, terminals on their way, requests that timed out before it took them |
| `req`, `client` | one request per client with the await it is at; is the client connected, and which turn it waits for |
| `owned`, `timer`, `phase` | the owner store lists the session; the idle timer; the broker process |

A request is admitted (`Submit`: leases of the session are exclusive for send, stop and
releases), reloads the owner store, acquires a generation, goes upstream (`Forward`,
`BeginTurn`), is taken and answered by the engine, or times out, or loses its connection
(`RequestFails`), and gives its lease back. A generation fails (`ConnectionFails`, `LateAnswer`: an answer
that nobody waits for kills the connection), is retired with everything of it,
and is replaced once its process is confirmed gone.

Facts worth knowing when reading it. A spawn may begin while the broker is closing and is closed by
its initializer. A generation that fails to close stays retired, for ever, and with it the
broker, without idle shutdown. A broker nobody ever connected to has no idle timer. The refusal in
`settleAcknowledgedStop` has no reachable case because leases are exclusive. Left out:
conversations, creation and listing of sessions, other sessions and owners, tombstones, and the deadline of
an owner release. One request per client at a time: two requests of one client differ from those
of two clients only in the exact release, which is the client's own.

## 3. Runs

Deadlock is checked in `notices`, where prompts go on for ever. The other systems may really
stop (`CHECK_DEADLOCK FALSE`): ids and leases are finite and drawn once; a receipt is
settled, its runner gone and its faults spent; every command is answered; the broker is closed.

| run | instance | distinct states | what it shows |
| --- | --- | --- | --- |
| `core` | 3 jobs of one agent, 2 leases, a closing reason, a crash after any write | 419 thousand | exclusion, currency of what runs, revocation, claims, stop decisions, rollback |
| `index` | 2 jobs of every class, 2 sessions, crashes and lost tuples | 1.2 million | the index is complete whenever a reservation publishes; the store implements `WritableJobs` |
| `maintenance` | 3 jobs, 2 agents, a clock that moves, closing, collecting, repairing | 1.6 million | no work is lost, nothing is beyond settlement |
| `settlement` | a hook pass and a prompt pass, 2 faults, fair | 0.75 million | no live turn loses its exclusion, no false cancellation or result, no end over a living tree, no receipt over undecided work or (by the hook) over a living runner; implements `WritableJobs`; the receipt is settled |
| `discharge_over_runner` | one prompt pass, 1 fault | | a finding, below |
| `host_epochs` | 2 workspaces, 2 epochs, 1 fault, `EndsLate` | 2.0 million | a settled receipt leaves nothing owed, what is owed is discoverable and has a receipt, an owner's release spares the successor, no turn forgets what only the ledger knew |
| `host_settles` | 1 workspace, 2 epochs, 1 fault, fair | 51 thousand | a prior epoch's receipt is settled; the end of an epoch spares the record of the next; the files implement `EpochReceipts` |
| `commands` | 3 commands, 3 faults | 0.76 million | answers are durable, the journal is backed by the record, the record is held while it is stopped, no cancellation over a living tree or turn |
| `pre_stop_read` | 1 command, 1 fault | | a finding, below |
| `admission` | 3 workers, 3 faults, fair | 221 thousand | who runs is admitted, a terminal job's reservation can be released, every attempt ends and is cleaned |
| `notices` | 2 jobs, 2 prompts, one notice per prompt, 3 faults, one end of the session, fair | 660 thousand | a notice is repeated only after a claim lapsed or the session's end removed the marker, and every end is announced |
| `broker` | 2 clients (one releases exactly), 2 turns, 2 generations, 1 fault, fair | 387 thousand | one engine at a time, a running turn keeps its slot, stops are real, every request ends |

The type invariants of all these modules are theorems (section 4), so no run repeats them.

Why these bounds are enough to be interesting. Three jobs are the fewest with a first
job, a continuation and a job that comes after a rollback, which is what bindings,
rollback and repair are about; two are enough for exclusion and the index. Two leases let a
second attempt meet the first one's claim. One clock step suffices to age a closed binding
(`GcAge` is 0) and to separate two generations, and restored generations reach one past it.
Two passes are the fewest that contend; two faults let a pass die and
its successor lose its stop. All safety properties of `settlement` are proved for any number
of passes and faults; they were also model-checked with three (1.7 million states).
Two epochs and two workspaces are the fewest with a successor and a linked workspace. The bounds of the
`host` runs are also where their properties end. With a third epoch `EndsLate` refutes
`ReplacedIsReceipted` and, with two workspaces, `OwedIsDiscoverable`, without any failure: the hook of
the first epoch removes the record of the second. With a second failure `ScopeKept`, `OwedIsDiscoverable` and
`SettledIsDischarged` fail, with a third `ReplacedIsReceipted`. With all switches off and one failure every
safety property of the module was also checked together (two workspaces and two epochs, 1.7
million states; three epochs, 0.5 million), and is proved for any number of epochs and workspaces
(`OneFailureIsSafe`). Three commands are the fewest with a leader, a follower, and one that finds what
both left; three workers let one reserve, one claim and one come after a crash. Two
generations and two turns are the fewest with a replacement and a stale turn; the safety
properties of `broker` were also checked with two faults (1.1 million states) and with three
generations and faults (3.4 million).
Job ids, leases and children are symmetric where no action distinguishes them; the
symmetry sets are used in runs with safety properties only. Times, generations, epochs,
turns and faults are the only counters; `MaxTime`, `MaxEpoch`, `MaxTurns`, `MaxGenerations` and
`MaxFaults` bound them, by name.

### Fairness

Fairness is asked of processes that run: whoever is at a step goes on to the next, or dies of a
fault. The bound on faults says that failures stop some day, without which no retry
succeeds. Nothing is asked of the engine's turns, of spawning, of descendants, or of users,
except as follows.

* `EndedRescue`: the runner and each pass go on. A pass that ended without settling the receipt is followed
  by another, because every later prompt of the session reconciles its pending
  receipts (`user-prompt-hook.mjs`). A session that is never prompted again keeps its receipt
  pending: the property is about sessions that are used, as the code's scheduling is.
* `HostLifecycle`: hooks, children and resumes go on once begun, and the user prompts again. What is
  within reach of ever new passes (a job lock, an obligation, the settlement of a receipt) is
  reached by one of them: strong fairness, because each single pass may be cut short.
* `ExecutionAdmission`: the creator and the workers go on, and later commands of the workspace recover
  queued jobs and clean terminal ones, as every command does that lists jobs.
* `Notifications`: claims lapse by the clock, prompts keep coming, and whoever delivered does its bookkeeping.
* `Broker`: its own steps go on, and a spawn, the end of a process and a forwarded request have an
  outcome because each has a deadline in the code; the idle timer fires.

### Mutants

Each property of a passing run is paired in `PROJECT.json` with a faulty variant of one
definition (named `D_Fault`, or after what it forgets), placed just before it. With
the variant in its place the run must fail on that property.

### Findings

Two runs show a statement of the repository's own documents that the code does not keep.

* `discharge_over_runner`: a prompt's pass loses its stop intent to the runner's own
  terminal write and settles the receipt on that winner without the cleanup duty, while
  the runner or its descendants live. The hook's fence repairs this for its own passes
  (`HookDischargesOverGoneTree`).
* `pre_stop_read`: when the shared pass of a cancel command keeps a cancelling record, the
  election reads the session once more before its stop and, over a failed turn, publishes
  `failed` at once (`job-control.mjs:1216-1235`), without the runner duty that
  `job-control.mjs:1412-1415` demands of every end.

### Disagreements met, whose runs are not kept

Each of these is a definition of its module that TLC refutes with the constants named.

| property | constants | what happens |
| --- | --- | --- |
| `StoppedBoundIsSettleable` (`JobStore`) | `JobIds = {j1, j2}`, one session and child, two leases, `Kinds = {"bound"}`, `Causes = {"user"}`, `CloseReasons = {}`, `MaxTime = 0`, `MayCrash` | The rollback of a continuation writes the restored binding, then the failed job. A crash between the two, then a stop decision on the queued job, makes the retried rollback refuse (`state.mjs:1269`) and the cancellation it defers to unable to classify the job: it stays queued and holds the writable slot. The rollback design says every such seam is classifiable and retryable (`docs/superpowers/specs/2026-08-29-rescue-continuation-rollback-design.md:104-106`). |
| `RecordsReadable` (`JobStore`) | `core` with `MayCrash = FALSE`, `ClockMayLag = TRUE` | A reservation takes its time from the wall clock (`state.mjs:1544`) while a rollback pushes the restored binding's generation past it. With the clock behind that generation the next continuation is stored in a shape the store's own validator rejects, and every later read of all jobs fails. |
| `FailedContinuationRestores` (`JobStore`) | two jobs, `MayCrash = FALSE` | The compensation of a failed claim (`state.mjs:985`) fails a current continuation by the generic transition, without restoring the binding it advanced from, which lines 39-43 of the same design demand. |
| `ReplacedIsReceipted` (`HostLifecycle`) | two workspaces, `MaxEpoch = 2`, `MaxFaults = 0`, `LinksLate` | The resume fence locks the workspaces of its first scan (`hook-state.mjs:121-131`). A child that links another one after the enumeration reserves under a lock the fence does not hold, and the record is replaced with no receipt. `hook-state.mjs:118-120` says such a reservation "can never slip through unrecorded". |
| `SuccessorRecordKept` (`HostLifecycle`) | one workspace, `MaxEpoch = 2`, `MaxFaults = 0`, `EndsLate` | The hook reads the record, then takes `endedAt` at its publication (`session-end-hook.mjs:79`). A resume in between wrote a record that looks older than the boundary, and `cleanupSession` unlinks it, against the comment at `hook-state.mjs:1231-1236`. |
| `LedgerIsCurrent` (`HostLifecycle`) | one workspace, `MaxEpoch = 2`, `MaxFaults = 0`, `Overlaps` | `beginCallerTurn` installs a ledger for the epoch its hook resolved at its start (`identity.mjs:167`), also when that epoch has ended since; the next prompt is refused, which `hook-state.mjs:93-97` means to rule out. With `Overlaps` and two workspaces, `OwedIsDiscoverable` and `SettledIsDischarged` fail too. No run has `Overlaps` on, so that none checks this property. |
| `SettledIsDischarged` (`HostLifecycle`) | two workspaces, `MaxEpoch = 2`, `MaxFaults = 2`, all switches off | A listing of pending receipts that fails lets the prompt go on (`user-prompt-hook.mjs:41`) and forget the ended ledger, against `ScopeKept`; where the merge before had failed too, the receipt settles over the ambient workspace while a linked one still owes a job. `user-prompt-hook.mjs:37-40` says the prompt fails safely then. `OwedIsDiscoverable` fails the same way, and `ReplacedIsReceipted` with one failure more. |

One more is about `Broker` and has no property: a client with `exactTurnRelease` that dies after the terminal of
its turn was observed and before it released it leaves the slot armed. Nothing clears it
but a stop, the release of the owner or the death of the engine: no idle shutdown, and every
send answers `ZCODE_TURN_ACTIVE`. `tests/zcode-client.test.mjs:1948` ("a disconnected active turn
keeps its exact terminal metadata and permits idle reap") covers the death before the terminal only.

Two observations are about `EndedRescue` and `JobStore`. A stop delegated without the lock
between the runner's send and its boundary write leaves a cancelling job without a
boundary: every later pass then reads the turn as foreign, never stops it, and the
job keeps its slot. It is safe (`ExclusionHeld`), and the turn's end is not seen. And
a crash that leaves a session's authority file without its partition is refused by
every route but a fresh reservation, which repairs it.

## 4. Proofs

`JobStoreProofs` proves, for any constants that satisfy the named assumptions
(`None` and `Unleased` differ from every value; kinds, causes, reasons and switches
are in their sets):

| theorem | states |
| --- | --- |
| `TypeCorrectness` | `[]TypeOK` |
| `Exclusion` | `[]WritableExclusion`: never two unfinished writable jobs |
| `PublicationSoundness` | `[]PublicationSound`: what a method read under the lock still holds at each of its later writes |
| `Finality` | `TerminalIsFinal` |
| `StopAuthority` | `StopDecisionHolds` |
| `Refinement` | `ImplementsWritableJobs`: the store implements the abstract life |

The inductive invariant is
`Inv == TypeOK /\ PublicationSound /\ IntentsAreHosted /\ WritableExclusion`.
`WritableExclusion` alone is not inductive: `WriteJob` makes a job visible several
steps after the reservation looked, so `PublicationSound` carries what the plan
decided (its id is absent, and a writable one is alone) across the writes.
`IntentsAreHosted` is what keeps a replayed stop intent a stop intent.

The argument goes by the kind of step rather than by method. Every attempt and
settlement method either rewrites one record within `Legal`, the transitions the life
cycle allows (`AttemptRewrites`, `SettlementRewritesOrPlans`), or plans a publication
under the lock (`Plans`); reservations begin one (`ReservationPreserves`); each
publication step does one write (`PublicationPreserves`). `RecordsStep` then says
what any step does to the records, and the three theorems about steps follow from that: a
terminal record is `Legal`-final, a decision is kept, and each change of a record is a
step of `WritableJobs` or none (`ChangeIsAbstract`, `AppearanceIsAbstract`).

`BindingProofs` goes on from there, and with it every invariant and every action property
that the runs of `JobStore` check is a theorem for any sets of jobs, sessions, children and
leases, any bound on time, and any kinds, causes and reasons:

| theorem | states | under |
| --- | --- | --- |
| `Leases_Agree` | `[]LeaseAgreement` | |
| `RunningHeld` | `[]RunningIsCurrent`: a started rescue is held by a binding | |
| `CancelledRevoked` | `[]CancelledRevokesBinding` | |
| `BindingsGrounded` | `[]BindingsAreGrounded` | |
| `RollbackRestores` | `RollbackRestoresPrior` | |
| `NeverRewinds` | `NeverRewindsPastWork` | |
| `IndexCompleteness` | `[]IndexComplete`: whatever crashes and losses left of the index, a reservation publishes over a complete one | |
| `Readability` | `[]RecordsReadable` | `~ ClockMayLag` |
| `Settleability` | `[]ActiveIsSettleable` | `Orderly`: no process dies, no tuple is lost, the clock does not lag |

The two hypotheses are needed: with a lagging clock, and with a crash inside a rollback, TLC refutes
the statements (*Disagreements* above). The others hold across crashes after any write.

A binding, the job it names and the proof inside a continuation's record refer to each other, and
a method changes them in two writes with anybody's work between two methods. `BindInv` says
what they may count on, in three layers. *The records*: what a binding or a proof says of
jobs is about finished ones, and `Evolves` is what every step keeps of those, so that
`GroundedEvolves` and `PriorEvolves` carry it over any change of a record (`RecordChange`) and
any new one (`RecordAppears`). *The slots*: a binding changes in one slot at a time, and
`Fits` says which new binding a slot may take, so `SlotWrite` is proved once; each writer only
shows that its binding fits. *The publication*: `TxnInv` says, per method and write still
ahead, that the slot and the record it was planned from are as they were, and
`PendingInv` what the record it will write looks like. Two parts of it are less obvious. A queued
continuation that was claimed is at its own job, unless its own rollback took it back
(`OriginInv`); without the claim in that clause a crash between reservation and claim
refutes it. And every first job is held by a binding from its reservation on (`HeldInv`),
although the binding is written before the job.

`IndexInv` follows the repair: once its tuples are rewritten the index has every job, once
the strays are gone nothing else. `ClockInv` says no generation is ahead of the clock.
`Settleability` needs more than its statement: that a queued job can be ended depends on where its
binding is, so `FirstInv` gives a queued first job exactly one binding that starts with it, and
`StandingInv` places every queued continuation: its slot is the advanced binding, perhaps
closed since, except while its own publication or rollback is between two writes. With a
crash in that window nobody would finish it, which is why `Orderly` is assumed.
Each of these invariants was checked by TLC before its proof was tried, and twice TLC's
counterexample changed it. One attempt failed for a good reason and changed the model:
`RunningIsCurrent` was not preserved when a rolled-back attempt started after a maintenance command had
closed its restored binding, because the guard compared with the restored binding itself;
the guard is now `MovedBack`, and `core` closes bindings too.

`EndedRescueProofs` proves, for any set of passes, of the hook or of prompts, any natural
number of faults, and nothing else assumed (`PassesAssumption`, `FaultsAssumption`):

| theorem | states |
| --- | --- |
| `TypeCorrectness` | `[]TypeOK` |
| `Exclusion` | `[]ExclusionHeld`: a turn that runs unstopped keeps its job unfinished |
| `HonestCancellation`, `HonestResult` | `[]CancelledIsStopped`, `[]ResultIsReal` |
| `Settlement` | `[]SettledIsDecided`: no receipt is settled over undecided work |
| `StopDiscipline` | `StopsOnlyDecided`: under the lock, after the durable decision |
| `CleanPublication` | `PublishesOverGoneTree` |
| `Refinement` | `ImplementsWritableJobs` |
| `FencedDischarge` | `HookDischargesOverGoneTree`: no pass of the hook settles the receipt over a living tree |

None of the safety properties is inductive: between a pass's reading of the record, the
session or its own stop's answer and the write it bases on them, everybody else may
move. `Inv` adds three things. `JobInv` relates the status of the record to the stop
decision, the runner and the turn (a running job carries no decision; before the start
there is no turn). `RunnerInv` says the runner sends under the cancellation lock, and
gives its turn up only once that turn ended or was stopped. `PassInv(p)` says, per step
of pass `p`, what it may count on: it holds the lock up to its cleanup; while it controls
the engine the job is `cancelling`; a terminal reading, a qualified acknowledgement and the plan it
made of them are still true when it publishes.

The argument is one of rely and guarantee, so that the number of passes does not matter.
`Elsewhere(p)` lists what no step of another process does to `p`: it does not take or
release `p`'s lock, undo a decision, revive an ended turn, or let a cleaned tree grow
again. Each step of the runner, its faults, the environment (`OthersElsewhere`) and every other
pass (`ThinkingPreserves`, `ActingElsewhere`) satisfies it; `Stable` shows that `PassInv(p)`
survives any such step; `ActingOwn` and `ThinkingPreserves` show that a step of `p` establishes
it again. The `...Moves` lemmas bring the actions of a pass to one common form, the record it
goes to, which keeps the case analysis short.

The fence needs a second invariant, `FenceInv`: a hook's pass in its second round looks at
a job that is already decided, and leaves an ended one only with the cleanup done, still
ahead of it, or reported as undone. It rests on `NextEndsClean`: a `cancelling` job of a
claimed runner ends over a tree that is gone, because only a pass may end it. Of a prompt's
pass, which has no fence, the statement is false, as `discharge_over_runner` shows. Both
invariants were model-checked before they were proved.

`HostLifecycleProofs`, for any workspaces, epochs, faults and switches (`LifecycleAssumption`):

| theorem | states | under |
| --- | --- | --- |
| `HostTypes` | `[]TypeOK` | |
| `OwnersSpareSuccessors` | `[]ReleaseSparesSuccessor` | |
| `EndSparesSuccessor` | `SuccessorRecordKept` | `~ EndsLate` |
| `OneFailureKeepsScope` | `ScopeKept` | `Orderly`, `MaxFaults <= 1`, and `SuccessorRecordKept` if `EndsLate` |
| `SettledOwesNothing` | `[]SettledIsDischarged` | `Orderly`, `Undisturbed` |
| `OwedIsFound` | `[]OwedIsDiscoverable` | `Orderly`, `Undisturbed` |
| `ReplacementIsReceipted` | `[]ReplacedIsReceipted` | `Orderly`, `Undisturbed` |
| `KeepsReceipts` | `ImplementsEpochReceipts` | `Orderly`, `Undisturbed` |
| `OneFailureIsSafe` | all of these | `Orderly`, `~ EndsLate`, `MaxFaults <= 1` |

`Orderly` is `~ Overlaps /\ ~ LinksLate`: what the Host does, not what the hooks do. A prompt that goes
on after a failed reconciliation is in all of these theorems. `Undisturbed` is a
hypothesis about the run, where the code gives no guarantee: with `EndsLate`, that the hook of an ended
epoch leaves the record of the next alone (`SuccessorRecordKept`), and with more than one failure, that no
turn replaces a ledger that knows more than the receipt (`ScopeKept`). Without `EndsLate`, or with
at most one failure, that half of it is empty, because `EndSparesSuccessor` and `OneFailureKeepsScope`
prove it. So the theorems say that these two and the two switches of `Orderly` are all that can go
wrong, with any number of failures; and `OneFailureIsSafe` says what holds of every run. Each
of the hypotheses is needed: TLC refutes a statement without it (*Disagreements* above).

`HostInv` adds to the types that the record is that of the last start (`StartInv`), that each hook
keeps to its own steps and works for an epoch that has started (`PassInv`), that while an owner is
released no child is past the job lock of its workspace and nothing foreign is open there
(`ReleaseInv`), and that the boundary of a receipt is its own epoch (`BoundaryInv`, which is where
`EndsLate` is needed). The lemmas `HookStep`, `QuietStep` and `PublishingStep` say once what a
step of a settling hook keeps when its new state is a good one; each action then only shows that it is.

The four invariants about the jobs of an ended epoch hold together or not at all, and `OrderInv` says what
each process contributes to them, in eleven parts. *Who serves*: no host serves the session while a resume
is recorded, and a prompt belongs to the recorded epoch (`ServingInv`). *The ledger*: a live one is that of the
recorded epoch and has ended before either moves on (`LedgerInv`); a child that claimed has its
workspace in it (`ClaimInv`). *The resume*: it locks all the workspaces of the ledger and looks again under
the locks (`FencingInv`), so that it writes the record over a receipt or over nothing owed
(`CompensatedInv`). *What is owed*: it has a receipt once its epoch is not recorded any more
(`ReceiptedInv`), it is in the ledger of its epoch or else in the hints (`OwedInv`), and not under a
settled receipt (`SettledInv`). *The hooks*: their scope has all that is owed as long as their token is
that of the receipt (`ScopeInv`, `TokenInv`), and what they visited they found (`VisitInv`). A job counts as owed
already when its child has passed the last look of its fence and has not written it yet; without
that, none of this is inductive. Summary lemmas say what any step does to the receipts
(`ReceiptsEvolve`), to what is owed (`OwingEvolves`), to the ledger and the record, and which
fields of which hook it moves (`EndMoves`, `PromptMoves`, `ResumeMoves`, `ChildMoves`); each part then has
one lemma over those summaries.

`OneFailureKeepsScope` rests on `TellingInv`, which follows what only the ledger knows to where the receipt is told:
the SessionEnd hook ends the ledger only if its merge was done (`KnowingInv`, `EndTells`); a
resume without a failure told the receipt, or found nothing owed under its locks (`StartTells`);
so before the first failure the receipt of an epoch that is not recorded any more has it all
(`LedgerTells`), and when a prompt is about to replace the ledger its own reconciliation has told the
receipt, or was itself the one failure (`ReplaceInv`).

For the refinement `OpeningInv` adds that a receipt is opened for the recorded epoch only: what a prompt has listed
may be settled by the hook of that epoch meanwhile but not be pruned. Then a step that writes a receipt
changes nothing else of the abstract life (`ReceiptsAlone`) and turns one receipt one way
(`ReceiptTurns`), and every other step reserves, discharges, or moves the record.

TLC checked `OrderInv` and `OpeningInv` on instances before their proofs were tried (two workspaces, two epochs and
two faults, without the steps that `Undisturbed` rules out, 3.8 million states), and `TellingInv` with one fault
(the same, 2.0 million; three epochs and one workspace, 1.2 million). Writing them down
corrected the model in one place: `FenceObligation` marked a pass as not clean for an obligation that its epoch did
not owe.

`CancelElectionProofs`, for any finite set of commands and any number of faults
(`CancelAssumption`): all safety properties of the module.

| theorem | states |
| --- | --- |
| `CancelTypes` | `[]TypeOK` |
| `StopHoldsRecord` | `[]GuardIsHeld` |
| `AnswersAreDurable` | `AnsweredIsDurable` |
| `JournalIsTrue` | `[]JournalIsBacked` |
| `CleanCancellation` | `[]CancelledIsClean` |

A command holds the record it read because everybody else leaves a cancelling record, and a
queued one with a decision, alone: the runner gives up under the lock only, and a delegated stop decides nothing twice.
A tree that is gone stays gone once the record cannot be claimed any more; terminal records do not
move. `CallerInv(c)` says per step what a command may count on, in the manner of `EndedRescueProofs`. The
attempt number stays within the number of commands because an attempt begins only with a command that
passes its election (`Elected`), counted by cardinality.

`ExecutionAdmissionProofs`, for any set of workers and number of faults (`AdmissionAssumption`):
`AdmissionTypes` (`[]TypeOK`), `SingleAdmission` (`[]RunnerIsAdmitted`), `OneRunner` (at most one worker
executes), and `ReservationReleasable` (`[]TerminalIsReleasable`). The invariant adds that before the publication nothing is claimed or committed
(`Unpublished`), that claim, reservation and commitment name one lease (`OneLease`), and what
each step of a worker has already written (`StepLease`).

`NotificationsProofs`, for any jobs, prompts, limit and number of faults and of ends of the session (`NoticeAssumption`): `NoticeTypes` (`[]TypeOK`) and `NoticeOnce`
(`[]RepeatedOnlyAfterLapse`). As long as no claim of a job lapsed and no end of the session forgot it at most one process carries it, it
carries a held claim, and it was shown at most by that process (`Exclusive`).

`BrokerProofs`, for any clients, turns, generations and faults (`ClientsAssumption`,
`BoundsAssumption`): all safety properties of the module.

| theorem | states |
| --- | --- |
| `BrokerTypes` | `[]TypeOK` |
| `EnginesAreOne` | `[]OneEngine` |
| `PermissionsAreTracked` | `[]PermissionIsTracked`: a pending permission is of the tracked turn and its connected client |
| `IdleTimer` | `[]IdleIsTimed`: a broker that ever had a connection is idle only with its timer armed; no run repeats it |
| `StopsEndTurns` | `StopsAreReal` |
| `RunningTurnKeepsSlot` | `RunningKeepsSlot` |

The module has many actions and few ways to move what matters, so the proof first sums up how
a step moves the generations, the requests, the turns, the wire and the slot, and each
conjunct of `BrokerInv` is shown over those summaries: at most one live engine, which is the
current, the starting or the retired one (`EngineInv`); a request sent to a generation waits
there (`SentInv`, `ReqInv`); leases exclude each other (`LeaseInv`), from which a stop finds no send beside
it (`StopInv`); a release waits for the permissions of its turn (`DrainInv`, `PermissionInv`); nothing idle
without a timer (`IdleIsTimed`); a send is fresh and its early terminal is not lost (`FreshInv`, `EarlyInv`), from which
a running turn keeps its slot.

Every safety property of a passing run is a theorem. Only model-checked: liveness (`ReceiptSettles`,
`PriorEpochSettles`, `AttemptConverges`, `EndIsAnnounced`, `RequestsEnd`), because fairness and ENABLED
are beyond the prover, and the two properties of the runs that show a violation. No module
declares a recursive operator, so none is closed to proof.

## 5. What is not modelled, and why

* *Process control, rendering, discovery, progress, build*: no state another component decides
  on, or pure input and output. `EndedRescue` has the outcomes of kill and sweep.
* *Records of older formats* (`rescue-migration.mjs`, the migration rollback,
  candidate adoption, receipts without an epoch): a one-off conversion the current methods do not produce.
* *The capacity limit of a partition*, the spec payload and artifacts in the store.
* *Attached foreground runs*, and the stop of an orphan's remote turn outside an ended session
  (`reconcileOrphan`).
* *Forwarding routes of subagents and the stop-review gate*; *Rescue preparation and
  routing*, whose ids are consumed under one lock, and whose planner is a pure function.
* *The broker's conversations, session creation and several owners.*

The mapped lines are a small share of the repository, and this is why. Most of its code is not the program's
own logic: the probes and drivers under `src/tools/` that qualify host releases, the copy of the
plugin under `src/marketplace/` that the build produces, and the build itself. Of what is left, formatting, parsing,
validation of shapes and platform-specific process inspection take most lines, and decide nothing two processes
can disagree about.

## 6. Plan

1. The forwarding routes (`subagent-hook.mjs`) and the stop-review gate
   (`stop-review-gate-hook.mjs`): one executor per route, the gate's baseline against the turn that ends.
2. The attached foreground runner and `reconcileOrphan`, beside `EndedRescue`.
3. `Broker`: several sessions of one owner with creation, and the owner store's failures; a refinement that
   gives `EndedRescue` its `replaced` and `acked`.
4. Proofs: what of the theorems of `HostLifecycle` is left with `Overlaps` or `LinksLate` on; with
   every extension above, its invariants.
