------------------------------ MODULE JobStore ------------------------------
(***************************************************************************)
(* The durable job and Rescue-binding store of one workspace               *)
(* (scripts/lib/state.mjs).                                                *)
(*                                                                         *)
(* Every method takes the workspace lock `.state.lock`, re-reads the       *)
(* records it decides on, and publishes its decision as a sequence of      *)
(* single-file atomic replacements.  The order of those replacements is    *)
(* what a crash can observe, so a method that replaces several files is    *)
(* several steps here: it fills the variable `txn` under the lock and      *)
(* each later step is one durable write.  A method that replaces one file  *)
(* is one step.                                                            *)
(*                                                                         *)
(* A method is enabled for ANY caller the source lets reach it; what the   *)
(* callers (executors, cancellation, recovery) add is not assumed, except  *)
(* where a comment says so.                                                *)
(*                                                                         *)
(* A definition named D_Fault is a faulty variant of D: putting it in the  *)
(* place of D must violate a property, which shows what the property is    *)
(* sensitive to.  Nothing else refers to it.                               *)
(***************************************************************************)
EXTENDS Naturals, FiniteSets

CONSTANTS
    JobIds,         \* digests makeReservedJob may draw, never drawn twice
    Sessions,       \* parent sessions: the owners of jobs and partitions
    Children,       \* executor agents: one binding slot per session and child
    Leases,         \* worker lease digests, one per execution attempt
    None,           \* an absent field or record
    Unleased,       \* an execution reservation published without its lease
    Kinds,          \* the classes of job in play
    Causes,         \* the stop causes in play
    CloseReasons,   \* reasons given to closeRescueBindingForChild
    MaxTime,        \* bound on the clock and on restored generations
    GcAge,          \* RESCUE_BINDING_CLOSED_GC_MS
    MayCrash,       \* a process may die between two durable writes
    MayLoseTuples,  \* an owner tuple may be deleted behind the index marker
    ClockMayLag     \* the wall clock may be behind a stored generation

\* Reviews and transfers are read-only; a rescue writes, bound to an executor agent
\* or standing alone.
Classes    == {"readonly", "unbound", "bound"}
StopCauses == {"user", "session-end", "host-coordination-loss"}

ASSUME InPlayAssumption == Kinds \subseteq Classes /\ Causes \subseteq StopCauses
ASSUME CloseReasonsAssumption ==
    CloseReasons \subseteq {"session-ended", "invalidated", "cancel"}
ASSUME TimeAssumption == MaxTime \in Nat /\ GcAge \in Nat
ASSUME SwitchAssumption ==
    MayCrash \in BOOLEAN /\ MayLoseTuples \in BOOLEAN /\ ClockMayLag \in BOOLEAN
ASSUME NoneAssumption ==
    /\ None \notin JobIds \cup Sessions \cup Children \cup Leases
                  \cup StopCauses \cup {Unleased}
    /\ Unleased \notin Leases

VARIABLES
    jobs,       \* jobs/<id>.json: one record per stored job
    bindings,   \* the Rescue binding records of each session's partition
    authority,  \* sessions whose partition authority file exists
    partitions, \* sessions whose partition file exists
    tuples,     \* job-owners/<owner>/<id>.json: the owner index
    marker,     \* the ids job-owners/index.json vouches for
    txn,        \* the multi-file publication in progress under the lock
    clock       \* Date.now()

vars == <<jobs, bindings, authority, partitions, tuples, marker, txn, clock>>

-----------------------------------------------------------------------------
(* Records.                                                                *)

Statuses == {"queued", "running", "cancelling", "succeeded", "failed", "cancelled"}
Terminal == {"succeeded", "failed", "cancelled"}
Active   == {"queued", "running", "cancelling"}

Binding == [state : {"active", "closed"}, anchor : JobIds, current : JobIds,
            updatedAt : Nat, reason : CloseReasons \cup {"cancel", None}]
Origin  == [child : Children, prior : Binding]
Job     == [owner : Sessions, class : Classes, host : BOOLEAN, status : Statuses,
            created : Nat, fence : Leases \cup {None, Unleased},
            lease : Leases \cup {None}, origin : Origin \cup {None},
            session : BOOLEAN, stop : StopCauses \cup {None}]

ASSUME AbsenceAssumption == None \notin Job /\ None \notin Origin /\ None \notin Binding

Steps  == {"idle", "tuples", "strays", "repaired", "authority", "gc", "binding",
           "tuple", "job", "marker"}
Routes == {"none", "generic", "fresh", "continuation", "listing", "rollback", "cancel"}
Txn    == [step : Steps, route : Routes, id : JobIds \cup {None},
           job : Job \cup {None}, owner : Sessions \cup {None},
           child : Children \cup {None}, binding : Binding \cup {None}]

Idle == [step |-> "idle", route |-> "none", id |-> None, job |-> None,
         owner |-> None, child |-> None, binding |-> None]

Larger(m, n) == IF m >= n THEN m ELSE n

-----------------------------------------------------------------------------
(* What the locked reads decide.                                           *)

Stored     == {j \in JobIds : jobs[j] # None}
Writable(j) == jobs[j].class # "readonly"

\* validateJobRecord: a queued continuation is no older than the binding it
\* advanced from; any other shape is rejected before it is written.
Readable(j) == jobs[j].origin # None => jobs[j].created >= jobs[j].origin.prior.updatedAt

\* isActiveWritableJob
ActiveWritable(j) == Writable(j) /\ jobs[j].status \in Active

Resumable_WithoutSession(j) == jobs[j].host

\* resumableHostOwnedCancellation
Resumable(j) == jobs[j].host /\ jobs[j].session

\* validateAnchorJob and validateCurrentJob
ValidAnchor(j) ==
    /\ j \in Stored /\ Readable(j) /\ jobs[j].session
    /\ \/ jobs[j].status \in {"running", "succeeded", "failed"}
       \/ jobs[j].status = "cancelled" /\ Resumable(j)
ValidCurrent(j) ==
    /\ j \in Stored /\ Readable(j)
    /\ jobs[j].status = "cancelled" => Resumable(j)

\* readBindingPartitionSnapshot accepts a missing pair and a complete pair; only
\* the fresh route accepts the authority file alone.
PartitionReadable(s) == s \in authority => s \in partitions

Slot(s, c)   == bindings[s][c]
Holds(s, c, j) == Slot(s, c) # None /\ Slot(s, c).current = j
Holders(j)   == {c \in Children : Holds(jobs[j].owner, c, j)}

ClosedAs_SwapsFields(b, reason) == [b EXCEPT !.state = reason, !.reason = "closed"]

\* The record a continuation advances `prior` to, and that record once closed.
AdvancedTo(prior, j, time) == [prior EXCEPT !.current = j, !.updatedAt = time]
ClosedAs(b, reason)  == [b EXCEPT !.state = "closed", !.reason = reason]

\* isRestoredActiveContinuationBinding
Restored(b, prior) ==
    b # None /\ b.updatedAt > prior.updatedAt /\ b = [prior EXCEPT !.updatedAt = b.updatedAt]

\* classifyQueuedRescueTransitionLocked, for queued jobs of the current format.
Classify(j) ==
    LET job == jobs[j] IN
    IF ~ Writable(j) THEN "unbound"
    ELSE IF j \notin tuples \/ ~ PartitionReadable(job.owner)
            \/ Cardinality(Holders(j)) > 1 THEN "invalid"
    ELSE IF Holders(j) = {}
    THEN IF job.origin = None
         THEN IF job.class = "unbound" THEN "unbound" ELSE "invalid"
         ELSE IF /\ Slot(job.owner, job.origin.child) = job.origin.prior
                 /\ ValidAnchor(job.origin.prior.anchor)
              THEN "unadvanced" ELSE "invalid"
    ELSE LET b == Slot(job.owner, CHOOSE c \in Holders(j) : TRUE)
             expected == IF job.origin = None THEN [b EXCEPT !.state = "active", !.reason = None]
                         ELSE AdvancedTo(job.origin.prior, j, b.updatedAt)
         IN IF \/ job.class = "unbound"
               \/ job.origin = None /\ b.anchor # j THEN "invalid"
            ELSE IF b = expected THEN "current"
            ELSE IF b.state = "closed" /\ b = ClosedAs(expected, b.reason) THEN "revoked"
            ELSE "invalid"

Runnable_Unadvanced(j) == Classify(j) \in {"unbound", "current", "unadvanced"}

\* validateRunnableExecutionClassification
Runnable(j) == Classify(j) \in {"unbound", "current"}

MarkerCurrent_TrustsFiles == marker # None /\ marker = tuples

\* The index marker vouches for exactly the files present.
MarkerCurrent == marker # None /\ marker = Stored /\ marker = tuples

\* A lease digest is drawn for one attempt at one job.
LeaseFor(l, j) ==
    \A i \in Stored \ {j} : jobs[i].lease # l /\ jobs[i].fence # l

\* Ids are random digests: a new one names nothing that exists.
FreshId(j) ==
    /\ j \notin Stored \cup tuples
    /\ \A s \in Sessions, c \in Children :
          Slot(s, c) # None => j # Slot(s, c).current /\ j # Slot(s, c).anchor

Unlocked == txn.step = "idle"

-----------------------------------------------------------------------------
(* The ordered publication of one reservation, listing or settlement.      *)

GcEligible(b) ==
    b # None /\ b.state = "closed" /\ b.reason # "session-ended"
    /\ b.updatedAt + GcAge < clock

AfterIndex_BindingFirst(route, s) ==
    CASE route = "listing" -> "idle"
      [] route = "fresh" /\ s \notin authority -> "authority"
      [] route = "fresh" /\ \E c \in Children : GcEligible(Slot(s, c)) -> "gc"
      [] route \in {"fresh", "continuation"} -> "binding"
      [] OTHER -> "tuple"

\* ensureOwnerIndex is the first write of a reservation or listing, when the
\* marker does not already match the files.
AfterIndex(route, s) ==
    CASE route = "listing" -> "idle"
      [] route = "fresh" /\ s \notin authority -> "authority"
      [] route = "fresh" /\ \E c \in Children : GcEligible(Slot(s, c)) -> "gc"
      [] route = "fresh" -> "binding"
      [] OTHER -> "tuple"

\* publishRescueReservation: binding first when fresh, last in a continuation.
AfterBinding(route) == CASE route = "fresh" -> "tuple"
                         [] route = "continuation" -> "idle"
                         [] OTHER -> "job"
AfterMarker(route)  == IF route = "continuation" THEN "binding" ELSE "idle"

MoveTo(step) == txn' = IF step = "idle" THEN Idle ELSE [txn EXCEPT !.step = step]

Begin(record) ==
    txn' = LET step == IF MarkerCurrent THEN AfterIndex(record.route, record.owner)
                       ELSE "tuples"
           IN IF step = "idle" THEN Idle ELSE [record EXCEPT !.step = step]

RewriteOwnerTuples ==
    /\ txn.step = "tuples"
    /\ IF Stored \subseteq tuples
       THEN /\ MoveTo("strays")
            /\ UNCHANGED tuples
       ELSE /\ \E j \in Stored \ tuples : tuples' = tuples \cup {j}
            /\ UNCHANGED txn
    /\ UNCHANGED <<jobs, bindings, authority, partitions, marker, clock>>

UnlinkStrayTuples ==
    /\ txn.step = "strays"
    /\ IF tuples \subseteq Stored
       THEN /\ MoveTo("repaired")
            /\ UNCHANGED tuples
       ELSE /\ \E j \in tuples \ Stored : tuples' = tuples \ {j}
            /\ UNCHANGED txn
    /\ UNCHANGED <<jobs, bindings, authority, partitions, marker, clock>>

PublishRepairedMarker ==
    /\ txn.step = "repaired"
    /\ marker' = tuples
    /\ MoveTo(AfterIndex(txn.route, txn.owner))
    /\ UNCHANGED <<jobs, bindings, authority, partitions, tuples, clock>>

\* prepareBindingSlot: the authority file precedes the first partition file, and
\* old closed records are collected in a write of their own.
WriteAuthority ==
    /\ txn.step = "authority"
    /\ authority' = authority \cup {txn.owner}
    /\ MoveTo("binding")
    /\ UNCHANGED <<jobs, bindings, partitions, tuples, marker, clock>>

CollectClosedBindings ==
    /\ txn.step = "gc"
    /\ bindings' = [bindings EXCEPT ![txn.owner] =
                      [c \in Children |-> IF GcEligible(@[c]) THEN None ELSE @[c]]]
    /\ MoveTo("binding")
    /\ UNCHANGED <<jobs, authority, partitions, tuples, marker, clock>>

\* Unless the clock may lag, the millisecond a generation was pushed to has passed
\* by the time the lock is released.
Reach(time) == clock' = IF ClockMayLag THEN clock ELSE Larger(clock, time)

\* writeBindingPartitionGuarded
WriteBinding ==
    /\ txn.step = "binding"
    /\ bindings' = [bindings EXCEPT ![txn.owner][txn.child] = txn.binding]
    /\ partitions' = partitions \cup {txn.owner}
    /\ Reach(txn.binding.updatedAt)
    /\ MoveTo(AfterBinding(txn.route))
    /\ UNCHANGED <<jobs, authority, tuples, marker>>

WriteOwnerTuple ==
    /\ txn.step = "tuple"
    /\ tuples' = tuples \cup {txn.id}
    /\ MoveTo("job")
    /\ UNCHANGED <<jobs, bindings, authority, partitions, marker, clock>>

WriteJob ==
    /\ txn.step = "job"
    /\ jobs' = [jobs EXCEPT ![txn.id] = txn.job]
    /\ MoveTo(IF txn.route \in {"rollback", "cancel"} THEN "idle" ELSE "marker")
    /\ UNCHANGED <<bindings, authority, partitions, tuples, marker, clock>>

\* publishOwnerIndexMarker refuses an index that misses a stored job.
PublishMarker ==
    /\ txn.step = "marker"
    /\ tuples = Stored
    /\ marker' = tuples
    /\ MoveTo(AfterMarker(txn.route))
    /\ UNCHANGED <<jobs, bindings, authority, partitions, tuples, clock>>

\* The process holding the lock dies: what it wrote stays, the rest is lost, and
\* the advisory lock is released with it.
Crash ==
    /\ MayCrash
    /\ ~ Unlocked
    /\ txn' = Idle
    /\ UNCHANGED <<jobs, bindings, authority, partitions, tuples, marker, clock>>
-----------------------------------------------------------------------------
(* Reservations.                                                           *)

MayReserve_ForgetsCancelling(j, class) ==
    /\ Unlocked
    /\ FreshId(j)
    /\ \A i \in Stored : Readable(i)
    /\ class # "readonly" =>
         \A i \in Stored : ~ (Writable(i) /\ jobs[i].status \in {"queued", "running"})

\* makeReservedJob: every stored record is read, and a writable job excludes
\* every other writable job of the workspace.
MayReserve(j, class) ==
    /\ Unlocked
    /\ FreshId(j)
    /\ \A i \in Stored : Readable(i)
    /\ class # "readonly" => \A i \in Stored : ~ ActiveWritable(i)

ReservedJob(s, class, host, origin) ==
    [owner |-> s, class |-> class, host |-> host, status |-> "queued",
     created |-> clock, fence |-> None, lease |-> None, origin |-> origin,
     session |-> FALSE, stop |-> None]

\* reserveJob: reviews and transfers are read-only, a standalone rescue is not
\* bound to a child.
ReserveJob(j, s, class) ==
    /\ class # "bound"
    /\ MayReserve(j, class)
    /\ Begin([Idle EXCEPT !.route = "generic", !.id = j, !.owner = s,
                          !.job = ReservedJob(s, class, FALSE, None)])
    /\ UNCHANGED <<jobs, bindings, authority, partitions, tuples, marker, clock>>

\* reserveFreshRescueJob
ReserveFreshRescueJob(j, s, c, host) ==
    /\ "bound" \in Kinds /\ MayReserve(j, "bound")
    /\ s \in partitions => s \in authority
    /\ Slot(s, c) = None
    /\ Begin([step |-> "idle", route |-> "fresh", id |-> j, owner |-> s, child |-> c,
              job |-> ReservedJob(s, "bound", host, None),
              binding |-> [state |-> "active", anchor |-> j, current |-> j,
                           updatedAt |-> clock, reason |-> None]])
    /\ UNCHANGED <<jobs, bindings, authority, partitions, tuples, marker, clock>>

\* reserveBoundRescueContinuation, resolving the binding under the same lock.
ReserveBoundRescueContinuation(j, s, c, host) ==
    /\ "bound" \in Kinds /\ MayReserve(j, "bound")
    /\ PartitionReadable(s)
    /\ LET prior == Slot(s, c) IN
       /\ prior # None
       /\ prior.state = "active"
       /\ ValidAnchor(prior.anchor)
       /\ ValidCurrent(prior.current)
       /\ Begin([step |-> "idle", route |-> "continuation", id |-> j, owner |-> s, child |-> c,
                 job |-> ReservedJob(s, "bound", host, [child |-> c, prior |-> prior]),
                 binding |-> AdvancedTo(prior, j, Larger(clock, prior.updatedAt))])
    /\ UNCHANGED <<jobs, bindings, authority, partitions, tuples, marker, clock>>

\* listOwnedJobs repairs the index before it reads it.
ListOwnedJobs ==
    /\ Unlocked
    /\ ~ MarkerCurrent
    /\ \A j \in Stored : Readable(j)
    /\ Begin([Idle EXCEPT !.route = "listing"])
    /\ UNCHANGED <<jobs, bindings, authority, partitions, tuples, marker, clock>>

-----------------------------------------------------------------------------
(* One execution attempt: commitment, fence, claim, start.                 *)

Replace(j, job) ==
    /\ jobs' = [jobs EXCEPT ![j] = job]
    /\ UNCHANGED <<bindings, authority, partitions, tuples, marker, txn, clock>>

\* The guard shared by every method that changes one stored record.
May(j, statuses) == Unlocked /\ j \in Stored /\ Readable(j) /\ jobs[j].status \in statuses

\* publishJobSpecCommitment
PublishJobSpecCommitment(j) ==
    /\ May(j, {"queued"})
    /\ jobs[j].lease = None /\ jobs[j].fence = None
    /\ Replace(j, [jobs[j] EXCEPT !.fence = Unleased])

\* bindJobExecutionReservationLease
BindJobExecutionReservationLease(j, l) ==
    /\ May(j, {"queued"})
    /\ jobs[j].lease = None /\ jobs[j].fence = Unleased
    /\ LeaseFor(l, j)
    /\ Replace(j, [jobs[j] EXCEPT !.fence = l])

\* fenceJobWorkerExecution: does not look at a stop intent.
FenceJobWorkerExecution(j, l) ==
    /\ May(j, {"queued"})
    /\ jobs[j].lease = None /\ jobs[j].fence \in {None, Unleased}
    /\ LeaseFor(l, j)
    /\ Runnable(j)
    /\ Replace(j, [jobs[j] EXCEPT !.fence = l])

\* claimJobWorker: without authority to classify.  Its one caller is the transfer
\* worker, whose jobs are read-only and get no execution reservation.
ClaimJobWorker(j, l) ==
    /\ May(j, {"queued"})
    /\ ~ Writable(j) /\ jobs[j].fence = None
    /\ jobs[j].lease = None
    /\ LeaseFor(l, j)
    /\ Replace(j, [jobs[j] EXCEPT !.lease = l])

ClaimJobWorkerForExecution_IgnoresFence(j, l) ==
    /\ May(j, {"queued"})
    /\ jobs[j].stop = None
    /\ jobs[j].lease = None
    /\ LeaseFor(l, j)
    /\ Runnable(j)
    /\ Replace(j, [jobs[j] EXCEPT !.lease = l])

\* claimJobWorkerForExecution: loses to a durable stop decision, and to a fence
\* that carries another lease or none.
ClaimJobWorkerForExecution(j, l) ==
    /\ May(j, {"queued"})
    /\ jobs[j].stop = None
    /\ jobs[j].lease = None /\ jobs[j].fence \in {None, l}
    /\ LeaseFor(l, j)
    /\ Runnable(j)
    /\ Replace(j, [jobs[j] EXCEPT !.lease = l])

\* transitionStoredJob drops the private queued proof with the queued status.
Moved(j, status) == [jobs[j] EXCEPT !.status = status, !.origin = None]

\* The binding of a rollback that began, whether or not it has been closed since.
MovedBack(b, prior) ==
    b # None /\ b.current = prior.current /\ b.updatedAt > prior.updatedAt

StartRunning_IgnoresStop(j) ==
    /\ May(j, {"queued"})
    /\ Writable(j) => jobs[j].lease # None
    /\ clock >= jobs[j].created
    /\ Replace(j, [Moved(j, "running") EXCEPT !.session = Writable(j)])

\* queued -> running: a claimed rescue stands on its claim, not on the binding,
\* and starts with its accepted session.  Its caller is the attempt itself, which
\* is over once its rollback began: a rollback is the attempt's own last act, or
\* recovery's after the attempt released its lease.
StartRunning(j) ==
    /\ May(j, {"queued"})
    /\ jobs[j].origin # None =>
         ~ MovedBack(Slot(jobs[j].owner, jobs[j].origin.child), jobs[j].origin.prior)
    /\ jobs[j].stop = None
    /\ Writable(j) => jobs[j].lease # None
    /\ clock >= jobs[j].created
    /\ Replace(j, [Moved(j, "running") EXCEPT !.session = Writable(j)])

-----------------------------------------------------------------------------
(* Stop decisions.  Only Host-owned records carry a stop intent, and an    *)
(* intent once persisted is replayed, never replaced.                      *)

StopIntent(j, cause) ==
    IF ~ jobs[j].host THEN None ELSE IF jobs[j].stop = None THEN cause ELSE jobs[j].stop

\* queued -> queued
PersistQueuedStop(j, cause) ==
    /\ May(j, {"queued"})
    /\ jobs[j].host /\ jobs[j].stop = None
    /\ Replace(j, [jobs[j] EXCEPT !.stop = cause])

\* running -> cancelling
StartCancelling(j, cause) ==
    /\ May(j, {"running"})
    /\ Replace(j, [Moved(j, "cancelling") EXCEPT !.stop = StopIntent(j, cause)])

\* cancelling -> running, with a lastCancelError
StopFailed(j) ==
    /\ May(j, {"cancelling"})
    /\ Replace(j, Moved(j, "running"))

\* correctCoordinationLossStopCause
CorrectCoordinationLossStopCause(j) ==
    /\ May(j, {"queued", "cancelling"})
    /\ jobs[j].stop = "host-coordination-loss"
    /\ Replace(j, [jobs[j] EXCEPT !.stop = "session-end"])

-----------------------------------------------------------------------------
(* Settlement.                                                             *)

\* finishJob from running or cancelling
FinishStarted(j, status) ==
    /\ status \in {"succeeded", "failed"}
    /\ May(j, {"running", "cancelling"})
    /\ Replace(j, Moved(j, status))

FailQueued_IgnoresStop(j) ==
    /\ May(j, {"queued"})
    /\ Classify(j) # "invalid"
    /\ Classify(j) # "current" \/ jobs[j].origin = None
    /\ Replace(j, Moved(j, "failed"))

\* finishJob and finishQueuedJobAfterRecoveryLease, queued -> failed: a durable
\* stop decision is left to cancellation, and (the callers' part, recovery's
\* finishQueuedJobAfterLeaseProbe) a current continuation to its rollback.
FailQueued(j) ==
    /\ May(j, {"queued"})
    /\ jobs[j].stop = None
    /\ Classify(j) # "invalid"
    /\ Classify(j) # "current" \/ jobs[j].origin = None
    /\ Replace(j, Moved(j, "failed"))

\* finishJobAfterExecutionClaimFailure: the attempt that failed to claim settles
\* the job unless another attempt's lease is on it.
FinishJobAfterExecutionClaimFailure(j, l) ==
    /\ May(j, {"queued"})
    /\ jobs[j].stop = None
    /\ jobs[j].lease \in {None, l} /\ jobs[j].fence \in {None, Unleased, l}
    /\ LeaseFor(l, j)
    /\ Classify(j) # "invalid"
    /\ Replace(j, Moved(j, "failed"))

\* queued or cancelling -> cancelled.  A cancellation that is not resumable
\* closes the binding the job holds before it publishes the job.
CancelJob(j, cause) ==
    /\ May(j, {"queued", "cancelling"})
    /\ jobs[j].status = "queued" => Classify(j) # "invalid"
    /\ LET cancelled == [Moved(j, "cancelled") EXCEPT !.stop = StopIntent(j, cause)]
           held == {c \in Holders(j) : Slot(jobs[j].owner, c).state = "active"}
       IN IF Writable(j) /\ ~ Resumable(j) /\ held # {}
          THEN \E c \in held :
                 LET b == Slot(jobs[j].owner, c) IN
                 /\ PartitionReadable(jobs[j].owner)
                 /\ Holders(j) = {c}
                 /\ clock >= b.updatedAt
                 /\ txn' = [step |-> "binding", route |-> "cancel", id |-> j, job |-> cancelled,
                            owner |-> jobs[j].owner, child |-> c,
                            binding |-> [ClosedAs(b, "cancel") EXCEPT !.updatedAt = clock]]
                 /\ UNCHANGED <<jobs, bindings, authority, partitions, tuples, marker, clock>>
          ELSE /\ Writable(j) /\ ~ Resumable(j) => PartitionReadable(jobs[j].owner)
               /\ Replace(j, cancelled)

RestoredAt_SameGeneration(prior, b) == Larger(clock, Larger(prior.updatedAt, b.updatedAt))

RestoredAt(prior, b) == Larger(clock, Larger(prior.updatedAt + 1, b.updatedAt + 1))

\* finishActiveRescueContinuationFailure: restore the binding the continuation
\* advanced from, under a later generation, then publish the failed job.
MayRollBack(j) ==
    /\ jobs[j].status = "queued" /\ jobs[j].origin # None /\ jobs[j].stop = None
    /\ LET b == Slot(jobs[j].owner, jobs[j].origin.child)
       IN \/ Restored(b, jobs[j].origin.prior)
          \/ b # None /\ b = AdvancedTo(jobs[j].origin.prior, j, b.updatedAt)

FinishActiveRescueContinuationFailure(j) ==
    /\ May(j, {"queued"})
    /\ MayRollBack(j)
    /\ LET prior == jobs[j].origin.prior
           b == Slot(jobs[j].owner, jobs[j].origin.child)
           restoredAt == RestoredAt(prior, b)
       IN /\ restoredAt <= MaxTime + 1
          /\ txn' = [step |-> IF Restored(b, prior) THEN "job" ELSE "binding",
                     route |-> "rollback", id |-> j, job |-> Moved(j, "failed"),
                     owner |-> jobs[j].owner, child |-> jobs[j].origin.child,
                     binding |-> [prior EXCEPT !.updatedAt = restoredAt]]
    /\ UNCHANGED <<jobs, bindings, authority, partitions, tuples, marker, clock>>

\* cleanupTerminalExecutionReservation
CleanupTerminalExecutionReservation(j) ==
    /\ May(j, Terminal)
    /\ jobs[j].fence # None
    /\ Replace(j, [jobs[j] EXCEPT !.fence = None])

-----------------------------------------------------------------------------
(* Maintenance and the environment.                                        *)

ReplaceSlot(s, c, b) ==
    /\ bindings' = [bindings EXCEPT ![s][c] = b]
    /\ Reach(b.updatedAt)
    /\ UNCHANGED <<jobs, authority, partitions, tuples, marker, txn>>

\* closeRescueBindingForChild
CloseRescueBindingForChild(s, c, reason) ==
    /\ Unlocked
    /\ PartitionReadable(s)
    /\ Slot(s, c) # None /\ Slot(s, c).state = "active"
    /\ clock >= Slot(s, c).updatedAt
    /\ ReplaceSlot(s, c, [ClosedAs(Slot(s, c), reason) EXCEPT !.updatedAt = clock])

RepairRescueContinuationBinding_AnyFailure(s, c) ==
    /\ Unlocked
    /\ MarkerCurrent
    /\ \A i \in Stored : Readable(i) /\ ~ ActiveWritable(i)
    /\ LET b == Slot(s, c) IN
       /\ b # None /\ b.state = "active" /\ b.anchor # b.current
       /\ {b.anchor, b.current} \subseteq Stored
       /\ jobs[b.anchor].status \in {"succeeded", "failed"} /\ jobs[b.anchor].session
       /\ jobs[b.current].status = "failed"
       /\ b.updatedAt <= MaxTime
       /\ ReplaceSlot(s, c, [b EXCEPT !.current = b.anchor, !.updatedAt = b.updatedAt + 1])

\* repairRescueContinuationBinding: the operator's tool for an operation left on
\* a failed attempt that never ran.
RepairRescueContinuationBinding(s, c) ==
    /\ Unlocked
    /\ MarkerCurrent
    /\ \A i \in Stored : Readable(i) /\ ~ ActiveWritable(i)
    /\ LET b == Slot(s, c) IN
       /\ b # None /\ b.state = "active" /\ b.anchor # b.current
       /\ {b.anchor, b.current} \subseteq Stored
       /\ jobs[b.anchor].status \in {"succeeded", "failed"} /\ jobs[b.anchor].session
       /\ jobs[b.current].status = "failed" /\ ~ jobs[b.current].session
       /\ b.updatedAt <= MaxTime
       /\ ReplaceSlot(s, c, [b EXCEPT !.current = b.anchor, !.updatedAt = b.updatedAt + 1])

\* An owner tuple disappears behind the marker's back.
LoseTuple ==
    /\ MayLoseTuples
    /\ Unlocked
    /\ \E j \in tuples : tuples' = tuples \ {j}
    /\ UNCHANGED <<jobs, bindings, authority, partitions, marker, txn, clock>>

Tick ==
    /\ clock < MaxTime
    /\ clock' = clock + 1
    /\ UNCHANGED <<jobs, bindings, authority, partitions, tuples, marker, txn>>

-----------------------------------------------------------------------------
Init ==
    /\ jobs = [j \in JobIds |-> None]
    /\ bindings = [s \in Sessions |-> [c \in Children |-> None]]
    /\ authority = {}
    /\ partitions = {}
    /\ tuples = {}
    /\ marker = None
    /\ txn = Idle
    /\ clock = 0

Publication ==
    \/ RewriteOwnerTuples \/ UnlinkStrayTuples \/ PublishRepairedMarker
    \/ WriteAuthority \/ CollectClosedBindings \/ WriteBinding
    \/ WriteOwnerTuple \/ WriteJob \/ PublishMarker
    \/ Crash

Reservation(j) ==
    \/ \E s \in Sessions, class \in Kinds : ReserveJob(j, s, class)
    \/ \E s \in Sessions, c \in Children, host \in BOOLEAN :
          \/ ReserveFreshRescueJob(j, s, c, host)
          \/ ReserveBoundRescueContinuation(j, s, c, host)

Attempt(j) ==
    \/ PublishJobSpecCommitment(j)
    \/ StartRunning(j)
    \/ \E l \in Leases :
          \/ BindJobExecutionReservationLease(j, l)
          \/ FenceJobWorkerExecution(j, l)
          \/ ClaimJobWorker(j, l)
          \/ ClaimJobWorkerForExecution(j, l)
          \/ FinishJobAfterExecutionClaimFailure(j, l)

Settlement(j) ==
    \/ StopFailed(j)
    \/ CorrectCoordinationLossStopCause(j)
    \/ FailQueued(j)
    \/ FinishActiveRescueContinuationFailure(j)
    \/ CleanupTerminalExecutionReservation(j)
    \/ \E status \in Terminal : FinishStarted(j, status)
    \/ \E cause \in Causes :
          PersistQueuedStop(j, cause) \/ StartCancelling(j, cause) \/ CancelJob(j, cause)

Maintenance ==
    \/ ListOwnedJobs \/ LoseTuple \/ Tick
    \/ \E s \in Sessions, c \in Children :
          \/ RepairRescueContinuationBinding(s, c)
          \/ \E reason \in CloseReasons : CloseRescueBindingForChild(s, c, reason)

Next ==
    \/ Publication
    \/ \E j \in JobIds : Reservation(j) \/ Attempt(j) \/ Settlement(j)
    \/ Maintenance

Spec == Init /\ [][Next]_vars

-----------------------------------------------------------------------------
(* Invariants.                                                             *)

\* Every record has the shape its validator accepts, and the publication under
\* the lock is one of those the methods build.
TypeOK ==
    /\ jobs \in [JobIds -> Job \cup {None}]
    /\ bindings \in [Sessions -> [Children -> Binding \cup {None}]]
    /\ authority \subseteq Sessions /\ partitions \subseteq Sessions
    /\ tuples \subseteq JobIds
    /\ marker \in (SUBSET JobIds) \cup {None}
    /\ txn \in Txn
    /\ clock \in Nat

\* makeReservedJob: the workspace never holds two unfinished writable jobs, wherever
\* a reservation was cut short and whichever session owns them.
WritableExclusion ==
    \A i, j \in Stored : ActiveWritable(i) /\ ActiveWritable(j) => i = j

\* What each method relies on between its writes: the job it reserves is still absent
\* and, when writable, alone; the job it settles is still the one it read.
PublicationSound ==
    /\ txn.route = "none" <=> txn.step = "idle"
    /\ txn.route = "listing" => txn.step \in {"tuples", "strays", "repaired"}
    /\ txn.route = "generic" => txn.step \notin {"authority", "gc", "binding"}
    /\ txn.route = "continuation" => txn.step \notin {"authority", "gc"}
    /\ txn.route \in {"generic", "fresh", "continuation"} =>
         /\ txn.id \in JobIds /\ txn.owner \in Sessions
         /\ txn.job \in Job /\ txn.job.status = "queued" /\ txn.job.stop = None
         /\ txn.step # "marker" /\ ~ (txn.route = "continuation" /\ txn.step = "binding") =>
              /\ txn.id \notin Stored
              /\ txn.job.class # "readonly" => \A i \in Stored : ~ ActiveWritable(i)
    /\ txn.route \in {"fresh", "continuation", "rollback", "cancel"} =>
         /\ txn.owner \in Sessions /\ txn.child \in Children /\ txn.binding \in Binding
    /\ txn.route \in {"rollback", "cancel"} =>
         /\ txn.step \in {"binding", "job"}
         /\ txn.id \in Stored
         /\ txn.route = "rollback" =>
              /\ jobs[txn.id].status = "queued" /\ jobs[txn.id].stop = None
              /\ txn.job = Moved(txn.id, "failed")
         /\ txn.route = "cancel" =>
              /\ jobs[txn.id].status \in {"queued", "cancelling"}
              /\ \E cause \in Causes :
                    txn.job = [Moved(txn.id, "cancelled") EXCEPT !.stop = StopIntent(txn.id, cause)]

\* Only Host-owned records carry a stop intent.
IntentsAreHosted == \A j \in Stored : jobs[j].stop # None => jobs[j].host

\* A bound rescue runs only as the current job of its own session's binding: no
\* interleaving of claims, stops, rollbacks and crashes starts an attempt that the
\* operation has moved away from.
RunningIsCurrent ==
    \A j \in Stored :
        jobs[j].class = "bound" /\ jobs[j].status \in {"running", "cancelling"}
            => Holders(j) # {}

\* closeCurrentRescueBindingForCancellationLocked: when a cancellation that cannot be
\* resumed is visible, the operation it ends is visibly closed.
CancelledRevokesBinding ==
    \A j \in Stored :
        jobs[j].status = "cancelled" /\ ~ (jobs[j].host /\ jobs[j].session)
            => \A c \in Holders(j) : Slot(jobs[j].owner, c).state = "closed"

\* A job claimed by one lease is never fenced for another, so recovery's comparison
\* of the effective lease has one answer.
LeaseAgreement ==
    \A j \in Stored :
        jobs[j].lease # None /\ jobs[j].fence \in Leases => jobs[j].lease = jobs[j].fence

\* publishRescueReservation: a binding that has moved past its first job names two
\* stored bound jobs of its session, the first with the session to resume.  Only a
\* fresh reservation cut short leaves a binding to a job that was never written.
BindingsAreGrounded ==
    \A s \in Sessions, c \in Children :
        LET b == Slot(s, c) IN
        b # None /\ b.anchor # b.current =>
            /\ {b.anchor, b.current} \subseteq Stored
            /\ ValidAnchor(b.anchor)
            /\ \A j \in {b.anchor, b.current} :
                  jobs[j].owner = s /\ jobs[j].class = "bound"

\* ensureOwnerIndex: from the moment a reservation writes its first own file, the
\* owner index lists exactly the stored jobs (and the one being published), however
\* the index was left by crashes and lost files.
IndexComplete ==
    /\ txn.route \in {"generic", "fresh", "continuation"}
         /\ txn.step \in {"authority", "gc", "binding", "tuple"}
       => tuples = Stored
    /\ txn.step = "job" /\ txn.route \in {"generic", "fresh", "continuation"}
       => tuples = Stored \cup {txn.id}
    /\ txn.step = "marker" => tuples = Stored

\* Some settlement method accepts the job: the started ones finish, a queued one
\* fails, is cancelled or is rolled back.
Settleable(j) ==
    /\ Readable(j)
    /\ jobs[j].status = "queued" => Classify(j) # "invalid" \/ MayRollBack(j)

\* Without crashes no unfinished job is ever beyond every settlement method.
ActiveIsSettleable ==
    \A j \in Stored : jobs[j].status \in Active => Settleable(j)

-----------------------------------------------------------------------------
(* Action properties.                                                      *)

\* TRANSITIONS: a finished job is history.  A settlement computed under the lock never
\* overwrites another one, and only the execution reservation is cleaned up later.
TerminalIsFinal ==
    [][\A j \in Stored : jobs[j].status \in Terminal =>
          jobs'[j] \in {jobs[j], [jobs[j] EXCEPT !.fence = None]}]_vars

\* A stop decision is winning stop authority: once durable it is never dropped, only a
\* coordination loss is corrected (to a session end), and a queued job that carries
\* one ends as cancelled and in no other way.
StopDecisionHolds ==
    [][\A j \in Stored : jobs[j].stop # None =>
          /\ jobs'[j].stop # jobs[j].stop =>
               jobs[j].stop = "host-coordination-loss" /\ jobs'[j].stop = "session-end"
          /\ jobs[j].status = "queued" => jobs'[j].status \in {"queued", "cancelled"}]_vars

\* finishActiveRescueContinuationFailure: when the failed attempt becomes visible the
\* operation is back at exactly the job it was at before, under a later generation.
RollbackRestoresPrior ==
    [][\A j \in Stored :
          txn.route = "rollback" /\ jobs[j].status = "queued" /\ jobs'[j].status = "failed"
             => Restored(Slot(jobs[j].owner, jobs[j].origin.child), jobs[j].origin.prior)]_vars

\* An operation moves off a job either forward, to the continuation reserved from that
\* very binding, or back off an attempt that never reached a session: work a session
\* holds is never lost from the operation.
NeverRewindsPastWork ==
    [][\A s \in Sessions, c \in Children :
          LET b == Slot(s, c)
              n == bindings'[s][c]
          IN b # None /\ n # None /\ n.current # b.current =>
             \/ jobs[n.current].origin # None /\ jobs[n.current].origin.prior = b
             \/ jobs[b.current].status \in {"queued", "failed"} /\ ~ jobs[b.current].session]_vars

-----------------------------------------------------------------------------
(* What the design asks of continuations and the code does not keep: TLC   *)
(* refutes each under the constants the README gives.                      *)

\* Every stored record can be read back: one that cannot stops every reservation and
\* listing of the workspace.
RecordsReadable == \A j \in Stored : Readable(j)

\* A crash at any seam of the rollback of a continuation is classifiable and
\* retryable, also when the rescue is stopped before the retry.
StoppedBoundIsSettleable ==
    \A j \in Stored :
        jobs[j].status \in Active /\ jobs[j].class = "bound" /\ jobs[j].stop # None
            => Settleable(j)

\* The required invariant of continuations: one that fails while queued leaves its
\* failed job as history and the exact prior binding restored.
FailedContinuationRestores ==
    [][\A j \in Stored :
          /\ jobs[j].status = "queued" /\ jobs[j].origin # None
          /\ jobs'[j].status = "failed"
          => LET b == Slot(jobs[j].owner, jobs[j].origin.child)
             IN b = jobs[j].origin.prior \/ Restored(b, jobs[j].origin.prior)]_vars

-----------------------------------------------------------------------------
(* The promise the store keeps, without its files.                         *)

\* A read-only job is not a writable job; a job exists once its record does.
Status(j) == IF j \in Stored /\ Writable(j) THEN jobs[j].status ELSE "unused"
Decided   == {j \in Stored : Writable(j) /\ jobs[j].stop # None}

Promise == INSTANCE WritableJobs WITH
    Ids <- JobIds, status <- [j \in JobIds |-> Status(j)], decided <- Decided

\* Whatever the interleaving and wherever a process dies, the stored records go
\* through the life of WritableJobs.
ImplementsWritableJobs == Promise!Spec
=============================================================================
