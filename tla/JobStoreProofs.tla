--------------------------- MODULE JobStoreProofs ---------------------------
(***************************************************************************)
(* Proofs about the job store, for any number of jobs, sessions, children  *)
(* and leases, with crashes at every write and index files lost behind the *)
(* store's back.                                                           *)
(*                                                                         *)
(* The argument.  Every step either rewrites one stored record in a way    *)
(* the job life cycle allows (Rewrites), begins a publication under the    *)
(* lock, or performs one durable write of the publication in progress.     *)
(* PublicationSound says that what the publication decided when it took    *)
(* the lock is still true at each of its writes.                           *)
(***************************************************************************)
EXTENDS JobStore, TLAPS

\* The inductive invariant: types, the pending publication, who may carry an intent,
\* and the exclusion itself.
Inv == TypeOK /\ PublicationSound /\ IntentsAreHosted /\ WritableExclusion

\* How one stored record may change.
Legal(old, new) ==
    /\ new.owner = old.owner /\ new.class = old.class /\ new.host = old.host
    /\ \/ new.status = old.status
       \/ old.status = "queued" /\ old.stop = None /\ new.status \in {"running", "failed"}
       \/ old.status = "running" /\ new.status \in {"cancelling", "succeeded", "failed"}
       \/ old.status = "cancelling" /\ new.status \in {"running", "succeeded", "failed"}
       \/ old.status \in {"queued", "cancelling"} /\ new.status = "cancelled"
    /\ \/ new.stop = old.stop
       \/ old.stop = None /\ old.host /\ new.stop \in StopCauses
            /\ \/ new.status = "queued"
               \/ new.status \in {"cancelling", "cancelled"} /\ new.status # old.status
       \/ old.stop = "host-coordination-loss" /\ new.stop = "session-end"
            /\ new.status = old.status
    /\ old.status \in Terminal => new \in {old, [old EXCEPT !.fence = None]}

\* A method that replaces the one record of `j`.
Rewrites(j, new) ==
    /\ Unlocked
    /\ j \in Stored
    /\ new \in Job
    /\ Legal(jobs[j], new)
    /\ Replace(j, new)

\* A method that takes the lock and plans the settlement of `j`.
Plans(j) ==
    /\ Unlocked
    /\ j \in Stored
    /\ UNCHANGED <<jobs, bindings, authority, partitions, tuples, marker, clock>>
    /\ txn' \in Txn /\ txn'.id = j /\ txn'.step \in {"binding", "job"}
    /\ txn'.owner \in Sessions /\ txn'.child \in Children /\ txn'.binding \in Binding
    /\ \/ /\ txn'.route = "rollback"
          /\ jobs[j].status = "queued" /\ jobs[j].stop = None
          /\ txn'.job = Moved(j, "failed")
       \/ /\ txn'.route = "cancel"
          /\ jobs[j].status \in {"queued", "cancelling"}
          /\ \E cause \in Causes :
                txn'.job = [Moved(j, "cancelled") EXCEPT !.stop = StopIntent(j, cause)]

-----------------------------------------------------------------------------
(* Records.                                                                *)

\* A stored job is a record, and None is not one.
LEMMA StoredIsJob ==
    ASSUME TypeOK, NEW j \in Stored
    PROVE  j \in JobIds /\ jobs[j] \in Job /\ jobs[j] # None
BY DEF TypeOK, Stored

\* Leaving the queued status keeps a record a record.
LEMMA MovedIsJob ==
    ASSUME TypeOK, NEW j \in Stored, NEW status \in Statuses
    PROVE  /\ Moved(j, status) \in Job
           /\ Moved(j, status).status = status
           /\ Moved(j, status).owner = jobs[j].owner
           /\ Moved(j, status).class = jobs[j].class
           /\ Moved(j, status).host = jobs[j].host
           /\ Moved(j, status).stop = jobs[j].stop
BY StoredIsJob DEF Moved, Job

\* A persisted intent is a cause, and only a Host-owned record gets a new one.
LEMMA StopIntentIsStop ==
    ASSUME TypeOK, IntentsAreHosted, NEW j \in Stored, NEW cause \in Causes
    PROVE  /\ StopIntent(j, cause) \in StopCauses \cup {None}
           /\ jobs[j].stop # None => StopIntent(j, cause) = jobs[j].stop
           /\ StopIntent(j, cause) # None => jobs[j].host
BY StoredIsJob, InPlayAssumption DEF StopIntent, IntentsAreHosted, Job

\* The attempt's methods rewrite one record within the life cycle.
LEMMA AttemptRewrites ==
    ASSUME TypeOK, NEW j \in JobIds, Attempt(j)
    PROVE  \E new \in Job : Rewrites(j, new)
<1>0. Attempt(j) => j \in Stored /\ Unlocked /\ jobs[j].status = "queued"
  BY DEF Attempt, PublishJobSpecCommitment, StartRunning, BindJobExecutionReservationLease,
         FenceJobWorkerExecution, ClaimJobWorker, ClaimJobWorkerForExecution,
         FinishJobAfterExecutionClaimFailure, May
<1>a. j \in Stored /\ Unlocked /\ jobs[j].status = "queued" /\ jobs[j] \in Job
  BY <1>0, StoredIsJob
<1>1. CASE PublishJobSpecCommitment(j)
  <2> DEFINE new == [jobs[j] EXCEPT !.fence = Unleased]
  <2>1. new \in Job /\ Legal(jobs[j], new)
    BY <1>a DEF Job, Legal, Terminal
  <2>2. Replace(j, new)
    BY <1>1 DEF PublishJobSpecCommitment
  <2> QED BY <1>a, <2>1, <2>2 DEF Rewrites
<1>2. CASE StartRunning(j)
  <2> DEFINE new == [Moved(j, "running") EXCEPT !.session = Writable(j)]
  <2>0. jobs[j].stop = None /\ Moved(j, "running") \in Job
    BY <1>a, <1>2, MovedIsJob DEF StartRunning, Statuses
  <2>3. ASSUME NEW old \in Job, NEW w \in BOOLEAN
        PROVE  LET changed == [old EXCEPT !.session = w]
               IN /\ changed \in Job /\ changed.stop = old.stop /\ changed.status = old.status
                  /\ changed.owner = old.owner /\ changed.class = old.class
                  /\ changed.host = old.host
    BY DEF Job
  <2>4. Writable(j) \in BOOLEAN
    BY DEF Writable
  <2>5. LET old == Moved(j, "running")
        IN /\ old.stop = jobs[j].stop /\ old.status = "running"
           /\ old.owner = jobs[j].owner /\ old.class = jobs[j].class /\ old.host = jobs[j].host
    BY <1>a, MovedIsJob DEF Statuses
  <2>6. /\ new \in Job /\ new.stop = jobs[j].stop /\ new.status = "running"
        /\ new.owner = jobs[j].owner /\ new.class = jobs[j].class /\ new.host = jobs[j].host
    BY <2>0, <2>3, <2>4, <2>5, Zenon
  <2>1. new \in Job /\ Legal(jobs[j], new)
    BY <1>a, <2>0, <2>6 DEF Legal, Terminal
  <2>2. Replace(j, new)
    BY <1>2 DEF StartRunning
  <2> QED BY <1>a, <2>1, <2>2 DEF Rewrites
<1>3. ASSUME NEW l \in Leases, BindJobExecutionReservationLease(j, l) \/ FenceJobWorkerExecution(j, l)
      PROVE  \E new \in Job : Rewrites(j, new)
  <2> DEFINE new == [jobs[j] EXCEPT !.fence = l]
  <2>1. new \in Job /\ Legal(jobs[j], new)
    BY <1>a DEF Job, Legal, Terminal
  <2>2. Replace(j, new)
    BY <1>3 DEF BindJobExecutionReservationLease, FenceJobWorkerExecution
  <2> QED BY <1>a, <2>1, <2>2 DEF Rewrites
<1>4. ASSUME NEW l \in Leases, ClaimJobWorker(j, l) \/ ClaimJobWorkerForExecution(j, l)
      PROVE  \E new \in Job : Rewrites(j, new)
  <2> DEFINE new == [jobs[j] EXCEPT !.lease = l]
  <2>1. new \in Job /\ Legal(jobs[j], new)
    BY <1>a DEF Job, Legal, Terminal
  <2>2. Replace(j, new)
    BY <1>4 DEF ClaimJobWorker, ClaimJobWorkerForExecution
  <2> QED BY <1>a, <2>1, <2>2 DEF Rewrites
<1>5. ASSUME NEW l \in Leases, FinishJobAfterExecutionClaimFailure(j, l)
      PROVE  \E new \in Job : Rewrites(j, new)
  <2> DEFINE new == Moved(j, "failed")
  <2>1. new \in Job /\ Legal(jobs[j], new)
    BY <1>a, <1>5, MovedIsJob DEF Legal, Terminal, Statuses, FinishJobAfterExecutionClaimFailure
  <2>2. Replace(j, new)
    BY <1>5 DEF FinishJobAfterExecutionClaimFailure
  <2> QED BY <1>a, <2>1, <2>2 DEF Rewrites
<1> QED BY <1>1, <1>2, <1>3, <1>4, <1>5 DEF Attempt

\* A stop intent replaced on a moved record is the record's stop.
LEMMA StoppedIsJob ==
    ASSUME NEW old \in Job, NEW stop \in StopCauses \cup {None}
    PROVE  LET new == [old EXCEPT !.stop = stop]
           IN /\ new \in Job /\ new.stop = stop /\ new.status = old.status
              /\ new.owner = old.owner /\ new.class = old.class /\ new.host = old.host
BY DEF Job

\* The settlement's methods rewrite one record within the life cycle, or take the
\* lock and plan to.
LEMMA SettlementRewritesOrPlans ==
    ASSUME TypeOK, IntentsAreHosted, NEW j \in JobIds, Settlement(j)
    PROVE  (\E new \in Job : Rewrites(j, new)) \/ Plans(j)
<1>0. Settlement(j) => j \in Stored /\ Unlocked
  BY DEF Settlement, StopFailed, CorrectCoordinationLossStopCause, FailQueued,
         FinishActiveRescueContinuationFailure, CleanupTerminalExecutionReservation,
         FinishStarted, PersistQueuedStop, StartCancelling, CancelJob, May
<1>a. j \in Stored /\ Unlocked /\ jobs[j] \in Job /\ jobs[j] # None
  BY <1>0, StoredIsJob
<1>m. \A status \in Statuses : /\ Moved(j, status) \in Job
                               /\ Moved(j, status).status = status
                               /\ Moved(j, status).owner = jobs[j].owner
                               /\ Moved(j, status).class = jobs[j].class
                               /\ Moved(j, status).host = jobs[j].host
                               /\ Moved(j, status).stop = jobs[j].stop
  BY <1>a, MovedIsJob
<1>s. /\ "running" \in Statuses /\ "cancelling" \in Statuses /\ "succeeded" \in Statuses
      /\ "failed" \in Statuses /\ "cancelled" \in Statuses
  BY DEF Statuses
<1>1. CASE StopFailed(j)
  <2> DEFINE new == Moved(j, "running")
  <2>1. Legal(jobs[j], new)
    BY <1>a, <1>m, <1>s, <1>1 DEF Legal, Terminal, StopFailed, May
  <2>2. Replace(j, new)
    BY <1>1 DEF StopFailed
  <2> QED BY <1>a, <1>m, <1>s, <2>1, <2>2 DEF Rewrites
<1>2. CASE CorrectCoordinationLossStopCause(j)
  <2> DEFINE new == [jobs[j] EXCEPT !.stop = "session-end"]
  <2>1. new \in Job /\ Legal(jobs[j], new)
    BY <1>a, <1>2, StoppedIsJob
       DEF Legal, Terminal, CorrectCoordinationLossStopCause, May, StopCauses
  <2>2. Replace(j, new)
    BY <1>2 DEF CorrectCoordinationLossStopCause
  <2> QED BY <1>a, <2>1, <2>2 DEF Rewrites
<1>3. CASE FailQueued(j)
  <2> DEFINE new == Moved(j, "failed")
  <2>1. Legal(jobs[j], new)
    BY <1>a, <1>m, <1>s, <1>3 DEF Legal, Terminal, FailQueued, May
  <2>2. Replace(j, new)
    BY <1>3 DEF FailQueued
  <2> QED BY <1>a, <1>m, <1>s, <2>1, <2>2 DEF Rewrites
<1>4. CASE FinishActiveRescueContinuationFailure(j)
  <2> DEFINE prior == jobs[j].origin.prior
             b == Slot(jobs[j].owner, jobs[j].origin.child)
  <2>1. jobs[j].origin \in Origin /\ prior \in Binding /\ jobs[j].origin.child \in Children
    <3>1. jobs[j].origin \in Origin
      BY <1>a, <1>4 DEF FinishActiveRescueContinuationFailure, MayRollBack, Job
    <3> QED BY <3>1 DEF Origin
  <2>2. b \in Binding
    <3>1. b \in Binding \cup {None}
      BY <1>a, <2>1 DEF TypeOK, Slot, Job
    <3>2. b # None
      BY <1>4 DEF FinishActiveRescueContinuationFailure, MayRollBack, Restored
    <3> QED BY <3>1, <3>2
  <2>3. RestoredAt(prior, b) \in Nat
    BY <2>1, <2>2 DEF RestoredAt, Larger, Binding, TypeOK
  <2>4. [prior EXCEPT !.updatedAt = RestoredAt(prior, b)] \in Binding
    BY <2>1, <2>3 DEF Binding
  <2>5. jobs[j].status = "queued" /\ jobs[j].stop = None
    BY <1>4 DEF FinishActiveRescueContinuationFailure, MayRollBack
  <2>6. txn' = [step |-> IF Restored(b, prior) THEN "job" ELSE "binding",
                route |-> "rollback", id |-> j, job |-> Moved(j, "failed"),
                owner |-> jobs[j].owner, child |-> jobs[j].origin.child,
                binding |-> [prior EXCEPT !.updatedAt = RestoredAt(prior, b)]]
    BY <1>4 DEF FinishActiveRescueContinuationFailure
  <2>7. jobs[j].owner \in Sessions
    BY <1>a DEF Job
  <2>8. txn' \in Txn
    BY <1>m, <1>s, <2>1, <2>4, <2>6, <2>7 DEF Txn, Steps, Routes
  <2>9. UNCHANGED <<jobs, bindings, authority, partitions, tuples, marker, clock>>
    BY <1>4 DEF FinishActiveRescueContinuationFailure
  <2> QED BY <1>a, <2>1, <2>4, <2>5, <2>6, <2>7, <2>8, <2>9 DEF Plans
<1>5. CASE CleanupTerminalExecutionReservation(j)
  <2> DEFINE new == [jobs[j] EXCEPT !.fence = None]
  <2>1. new \in Job /\ Legal(jobs[j], new)
    BY <1>a DEF Job, Legal
  <2>2. Replace(j, new)
    BY <1>5 DEF CleanupTerminalExecutionReservation
  <2> QED BY <1>a, <2>1, <2>2 DEF Rewrites
<1>6. ASSUME NEW status \in Terminal, FinishStarted(j, status)
      PROVE  \E new \in Job : Rewrites(j, new)
  <2> DEFINE new == Moved(j, status)
  <2>1. Legal(jobs[j], new)
    BY <1>a, <1>m, <1>s, <1>6 DEF Legal, Terminal, FinishStarted, May
  <2>2. Replace(j, new) /\ status \in Statuses
    BY <1>6 DEF FinishStarted, Statuses
  <2> QED BY <1>a, <1>m, <2>1, <2>2 DEF Rewrites
<1>7. ASSUME NEW cause \in Causes, PersistQueuedStop(j, cause)
      PROVE  \E new \in Job : Rewrites(j, new)
  <2> DEFINE new == [jobs[j] EXCEPT !.stop = cause]
  <2>1. new \in Job /\ Legal(jobs[j], new)
    BY <1>a, <1>7, StoppedIsJob, InPlayAssumption DEF Legal, Terminal, PersistQueuedStop, May
  <2>2. Replace(j, new)
    BY <1>7 DEF PersistQueuedStop
  <2> QED BY <1>a, <2>1, <2>2 DEF Rewrites
<1>8. ASSUME NEW cause \in Causes, StartCancelling(j, cause)
      PROVE  \E new \in Job : Rewrites(j, new)
  <2> DEFINE new == [Moved(j, "cancelling") EXCEPT !.stop = StopIntent(j, cause)]
  <2>1. /\ StopIntent(j, cause) \in StopCauses \cup {None}
        /\ jobs[j].stop # None => StopIntent(j, cause) = jobs[j].stop
        /\ StopIntent(j, cause) # None => jobs[j].host
    BY <1>a, StopIntentIsStop
  <2>2. /\ new \in Job /\ new.stop = StopIntent(j, cause) /\ new.status = "cancelling"
        /\ new.owner = jobs[j].owner /\ new.class = jobs[j].class /\ new.host = jobs[j].host
    BY <1>m, <1>s, <2>1, StoppedIsJob
  <2>3. Legal(jobs[j], new)
    BY <1>a, <1>8, <2>1, <2>2 DEF Legal, Terminal, StartCancelling, May
  <2>4. Replace(j, new)
    BY <1>8 DEF StartCancelling
  <2> QED BY <1>a, <2>2, <2>3, <2>4 DEF Rewrites
<1>9. ASSUME NEW cause \in Causes, CancelJob(j, cause)
      PROVE  (\E new \in Job : Rewrites(j, new)) \/ Plans(j)
  <2> DEFINE new == [Moved(j, "cancelled") EXCEPT !.stop = StopIntent(j, cause)]
             held == {c \in Holders(j) : Slot(jobs[j].owner, c).state = "active"}
  <2>1. /\ StopIntent(j, cause) \in StopCauses \cup {None}
        /\ jobs[j].stop # None => StopIntent(j, cause) = jobs[j].stop
        /\ StopIntent(j, cause) # None => jobs[j].host
    BY <1>a, StopIntentIsStop
  <2>2. /\ new \in Job /\ new.stop = StopIntent(j, cause) /\ new.status = "cancelled"
        /\ new.owner = jobs[j].owner /\ new.class = jobs[j].class /\ new.host = jobs[j].host
    BY <1>m, <1>s, <2>1, StoppedIsJob
  <2>3. jobs[j].status \in {"queued", "cancelling"}
    BY <1>9 DEF CancelJob, May
  <2>4. CASE Writable(j) /\ ~ Resumable(j) /\ held # {}
    <3>1. PICK c \in held :
            LET b == Slot(jobs[j].owner, c) IN
            /\ txn' = [step |-> "binding", route |-> "cancel", id |-> j, job |-> new,
                       owner |-> jobs[j].owner, child |-> c,
                       binding |-> [ClosedAs(b, "cancel") EXCEPT !.updatedAt = clock]]
            /\ UNCHANGED <<jobs, bindings, authority, partitions, tuples, marker, clock>>
      BY <1>9, <2>4, Zenon DEF CancelJob
    <3> DEFINE b == Slot(jobs[j].owner, c)
               closed == [ClosedAs(b, "cancel") EXCEPT !.updatedAt = clock]
    <3>2. c \in Children /\ b # None
      BY DEF Holders, Holds, Slot
    <3>3. jobs[j].owner \in Sessions
      BY <1>a DEF Job
    <3>4. b \in Binding
      BY <3>2, <3>3 DEF TypeOK, Slot
    <3>5. closed \in Binding
      BY <3>4 DEF ClosedAs, Binding, TypeOK
    <3>6. txn' \in Txn
      BY <2>2, <3>1, <3>2, <3>3, <3>5 DEF Txn, Steps, Routes
    <3>7. /\ txn'.id = j /\ txn'.step = "binding" /\ txn'.route = "cancel" /\ txn'.job = new
          /\ txn'.owner \in Sessions /\ txn'.child \in Children /\ txn'.binding \in Binding
      BY <3>1, <3>2, <3>3, <3>5
    <3>8. UNCHANGED <<jobs, bindings, authority, partitions, tuples, marker, clock>>
      BY <3>1
    <3> HIDE DEF new
    <3>9. \E cause1 \in Causes :
             txn'.job = [Moved(j, "cancelled") EXCEPT !.stop = StopIntent(j, cause1)]
      BY <3>7 DEF new
    <3> QED BY <1>a, <2>3, <3>6, <3>7, <3>8, <3>9 DEF Plans
  <2>5. CASE ~ (Writable(j) /\ ~ Resumable(j) /\ held # {})
    <3>1. Replace(j, new)
      BY <1>9, <2>5, Zenon DEF CancelJob
    <3>2. Legal(jobs[j], new)
      BY <1>a, <2>1, <2>2, <2>3 DEF Legal, Terminal
    <3> QED BY <1>a, <2>2, <3>1, <3>2 DEF Rewrites
  <2> QED BY <2>4, <2>5
<1> QED BY <1>1, <1>2, <1>3, <1>4, <1>5, <1>6, <1>7, <1>8, <1>9 DEF Settlement

-----------------------------------------------------------------------------
(* The invariant is inductive.                                             *)

\* Nothing is stored, published or held at the start.
LEMMA InitInv == Init => Inv
<1> SUFFICES ASSUME Init PROVE Inv
  OBVIOUS
<1>1. Stored = {}
  BY DEF Init, Stored
<1>2. TypeOK
  BY DEF Init, TypeOK, Txn, Idle, Steps, Routes
<1>3. PublicationSound
  BY DEF Init, PublicationSound, Idle
<1> QED BY <1>1, <1>2, <1>3 DEF Inv, IntentsAreHosted, WritableExclusion

\* What a rewrite does to the stored set and to each record.
LEMMA RewriteEffect ==
    ASSUME TypeOK, NEW j \in JobIds, NEW new \in Job, Rewrites(j, new)
    PROVE  /\ Stored' = Stored
           /\ jobs'[j] = new
           /\ \A i \in JobIds \ {j} : jobs'[i] = jobs[i]
           /\ jobs' \in [JobIds -> Job \cup {None}]
<1>1. new # None
  BY AbsenceAssumption
<1> QED BY <1>1 DEF Rewrites, Replace, TypeOK, Stored

LEMMA RewritePreserves ==
    ASSUME Inv, NEW j \in JobIds, NEW new \in Job, Rewrites(j, new)
    PROVE  Inv'
<1>1. /\ Stored' = Stored /\ jobs'[j] = new
      /\ \A i \in JobIds \ {j} : jobs'[i] = jobs[i]
      /\ jobs' \in [JobIds -> Job \cup {None}]
  BY RewriteEffect DEF Inv
<1>2. j \in Stored /\ Legal(jobs[j], new)
  BY DEF Rewrites
<1>3. UNCHANGED <<bindings, authority, partitions, tuples, marker, txn, clock>>
  BY DEF Rewrites, Replace
<1>4. TypeOK'
  BY <1>1, <1>3 DEF Inv, TypeOK
<1>5. PublicationSound'
  <2>1. txn.step = "idle" /\ txn.route = "none"
    BY DEF Inv, PublicationSound, Rewrites, Unlocked
  <2> QED BY <1>3, <2>1 DEF PublicationSound
<1>6. IntentsAreHosted'
  <2>1. new.stop # None => new.host
    <3>1. jobs[j].stop # None => jobs[j].host
      BY <1>2 DEF Inv, IntentsAreHosted
    <3>2. new.host = jobs[j].host
      BY <1>2 DEF Legal
    <3>3. new.stop # None => jobs[j].host
      BY <1>2, <3>1, NoneAssumption DEF Legal, StopCauses
    <3> QED BY <3>2, <3>3, Zenon
  <2>2. \A i \in Stored : jobs'[i].stop # None => jobs'[i].host
    BY <1>1, <2>1 DEF Inv, IntentsAreHosted, Stored
  <2> QED BY <1>1, <2>2 DEF IntentsAreHosted
<1>7. \A i \in Stored : ActiveWritable(i)' => ActiveWritable(i)
  BY <1>1, <1>2 DEF ActiveWritable, Writable, Active, Legal, Stored
<1>8. WritableExclusion'
  BY <1>1, <1>7 DEF Inv, WritableExclusion
<1> QED BY <1>4, <1>5, <1>6, <1>8 DEF Inv

LEMMA PlanPreserves ==
    ASSUME Inv, NEW j \in JobIds, Plans(j)
    PROVE  Inv'
<1>1. UNCHANGED <<jobs, bindings, authority, partitions, tuples, marker, clock>>
  BY DEF Plans
<1>2. TypeOK'
  BY <1>1 DEF Inv, TypeOK, Plans
<1>3. PublicationSound'
  BY <1>1 DEF PublicationSound, Plans, Stored, Moved, StopIntent
<1> QED BY <1>1, <1>2, <1>3
        DEF Inv, IntentsAreHosted, WritableExclusion, Stored, ActiveWritable, Writable

\* A reservation is a record of the queued job.
LEMMA ReservedIsJob ==
    ASSUME TypeOK, NEW s \in Sessions, NEW class \in Classes, NEW host \in BOOLEAN,
           NEW origin \in Origin \cup {None}
    PROVE  LET job == ReservedJob(s, class, host, origin)
           IN job \in Job /\ job.status = "queued" /\ job.stop = None /\ job.class = class
BY DEF ReservedJob, Job, Statuses, TypeOK

\* Taking the lock for a reservation or a listing.
LEMMA BeginPreserves ==
    ASSUME Inv, Unlocked, NEW record \in Txn, Begin(record),
           UNCHANGED <<jobs, bindings, authority, partitions, tuples, marker, clock>>,
           \/ record.route = "listing" /\ ~ MarkerCurrent
           \/ /\ record.route \in {"generic", "fresh", "continuation"}
              /\ record.id \in JobIds \ Stored /\ record.owner \in Sessions
              /\ record.job \in Job /\ record.job.status = "queued" /\ record.job.stop = None
              /\ record.job.class # "readonly" => \A i \in Stored : ~ ActiveWritable(i)
              /\ record.route # "generic" =>
                    record.child \in Children /\ record.binding \in Binding
    PROVE  Inv'
<1> DEFINE step == IF MarkerCurrent THEN AfterIndex(record.route, record.owner) ELSE "tuples"
<1>1. /\ step \in Steps /\ step # "idle" /\ step \notin {"strays", "repaired", "job", "marker"}
      /\ record.route = "listing" => step = "tuples"
      /\ record.route = "generic" => step \in {"tuples", "tuple"}
      /\ record.route = "continuation" => step \in {"tuples", "tuple"}
  BY DEF AfterIndex, Steps
<1>2. txn' = [record EXCEPT !.step = step]
  BY <1>1 DEF Begin
<1>3. txn' \in Txn /\ txn'.step = step /\ txn'.route = record.route /\ txn'.id = record.id
      /\ txn'.job = record.job /\ txn'.owner = record.owner /\ txn'.child = record.child
      /\ txn'.binding = record.binding
  BY <1>1, <1>2 DEF Txn
<1> HIDE DEF step
<1>4. TypeOK'
  BY <1>3 DEF Inv, TypeOK
<1>5. Stored' = Stored /\ \A i \in Stored : ActiveWritable(i)' = ActiveWritable(i)
  BY DEF Stored, ActiveWritable, Writable
<1>6. PublicationSound'
  BY <1>1, <1>3, <1>5 DEF PublicationSound
<1> QED BY <1>4, <1>5, <1>6 DEF Inv, IntentsAreHosted, WritableExclusion

LEMMA ReservationPreserves ==
    ASSUME Inv, NEW j \in JobIds, Reservation(j)
    PROVE  Inv'
<1>a. TypeOK
  BY DEF Inv
<1>1. ASSUME NEW s \in Sessions, NEW class \in Kinds, ReserveJob(j, s, class)
      PROVE  Inv'
  <2> DEFINE job == ReservedJob(s, class, FALSE, None)
             record == [Idle EXCEPT !.route = "generic", !.id = j, !.owner = s, !.job = job]
  <2>1. job \in Job /\ job.status = "queued" /\ job.stop = None /\ job.class = class
    BY <1>a, ReservedIsJob, InPlayAssumption
  <2> HIDE DEF job
  <2>2. /\ record \in Txn /\ record.route = "generic" /\ record.id = j
        /\ record.owner = s /\ record.job = job
    BY <2>1 DEF Idle, Txn, Steps, Routes
  <2>3. Unlocked /\ j \notin Stored /\ Begin(record)
        /\ (class # "readonly" => \A i \in Stored : ~ ActiveWritable(i))
        /\ UNCHANGED <<jobs, bindings, authority, partitions, tuples, marker, clock>>
    BY <1>1 DEF ReserveJob, MayReserve, FreshId, job
  <2> HIDE DEF record
  <2> QED BY <2>1, <2>2, <2>3, BeginPreserves
<1>2. ASSUME NEW s \in Sessions, NEW c \in Children, NEW host \in BOOLEAN,
             ReserveFreshRescueJob(j, s, c, host)
      PROVE  Inv'
  <2> DEFINE job == ReservedJob(s, "bound", host, None)
             binding == [state |-> "active", anchor |-> j, current |-> j,
                         updatedAt |-> clock, reason |-> None]
             record == [step |-> "idle", route |-> "fresh", id |-> j, owner |-> s, child |-> c,
                        job |-> job, binding |-> binding]
  <2>1. job \in Job /\ job.status = "queued" /\ job.stop = None /\ job.class = "bound"
    BY <1>a, ReservedIsJob DEF Classes
  <2>2. binding \in Binding
    BY <1>a DEF Binding, TypeOK
  <2>3. Unlocked /\ j \notin Stored /\ Begin(record)
        /\ (\A i \in Stored : ~ ActiveWritable(i))
        /\ UNCHANGED <<jobs, bindings, authority, partitions, tuples, marker, clock>>
    BY <1>2 DEF ReserveFreshRescueJob, MayReserve, FreshId
  <2> HIDE DEF job, binding
  <2>4. /\ record \in Txn /\ record.route = "fresh" /\ record.id = j /\ record.owner = s
        /\ record.job = job /\ record.child = c /\ record.binding = binding
    BY <2>1, <2>2 DEF Txn, Steps, Routes
  <2> HIDE DEF record
  <2> QED BY <2>1, <2>2, <2>3, <2>4, BeginPreserves
<1>3. ASSUME NEW s \in Sessions, NEW c \in Children, NEW host \in BOOLEAN,
             ReserveBoundRescueContinuation(j, s, c, host)
      PROVE  Inv'
  <2> DEFINE prior == Slot(s, c)
             origin == [child |-> c, prior |-> prior]
             job == ReservedJob(s, "bound", host, origin)
             binding == AdvancedTo(prior, j, Larger(clock, prior.updatedAt))
             record == [step |-> "idle", route |-> "continuation", id |-> j, owner |-> s,
                        child |-> c, job |-> job, binding |-> binding]
  <2>0. prior \in Binding
    BY <1>a, <1>3 DEF ReserveBoundRescueContinuation, TypeOK, Slot
  <2>1. origin \in Origin
    BY <2>0 DEF Origin
  <2>2. binding \in Binding
    BY <1>a, <2>0 DEF Binding, AdvancedTo, Larger, TypeOK
  <2>3. Unlocked /\ j \notin Stored /\ Begin(record)
        /\ (\A i \in Stored : ~ ActiveWritable(i))
        /\ UNCHANGED <<jobs, bindings, authority, partitions, tuples, marker, clock>>
    BY <1>3 DEF ReserveBoundRescueContinuation, MayReserve, FreshId
  <2> HIDE DEF origin
  <2>4. job \in Job /\ job.status = "queued" /\ job.stop = None /\ job.class = "bound"
    BY <1>a, <2>1, ReservedIsJob DEF Classes
  <2> HIDE DEF job, binding
  <2>5. /\ record \in Txn /\ record.route = "continuation" /\ record.id = j /\ record.owner = s
        /\ record.job = job /\ record.child = c /\ record.binding = binding
    BY <2>2, <2>4 DEF Txn, Steps, Routes
  <2> HIDE DEF record
  <2> QED BY <2>2, <2>3, <2>4, <2>5, BeginPreserves
<1> QED BY <1>1, <1>2, <1>3 DEF Reservation

\* A step that keeps every record and every pending decision keeps the invariant.
LEMMA KeepsRecords ==
    ASSUME Inv, UNCHANGED <<jobs, txn>>, TypeOK'
    PROVE  Inv'
<1>1. Stored' = Stored /\ \A i \in Stored : ActiveWritable(i)' = ActiveWritable(i)
  BY DEF Stored, ActiveWritable, Writable
<1>2. PublicationSound'
  BY <1>1 DEF Inv, PublicationSound, Moved, StopIntent
<1> QED BY <1>1, <1>2 DEF Inv, IntentsAreHosted, WritableExclusion

\* One durable write that leaves the records alone and moves the publication on.
LEMMA MovesOn ==
    ASSUME Inv, UNCHANGED jobs, NEW step \in Steps, MoveTo(step), TypeOK',
           step = "idle" \/
             /\ txn.step # "idle"
             /\ txn.route = "listing" => step \in {"tuples", "strays", "repaired"}
             /\ txn.route = "generic" => step \notin {"authority", "gc", "binding"}
             /\ txn.route = "continuation" => step \notin {"authority", "gc"}
             /\ txn.route \in {"rollback", "cancel"} => step \in {"binding", "job"}
             /\ \/ step = "marker"
                \/ txn.route = "continuation" /\ step = "binding"
                \/ txn.step # "marker" /\ ~ (txn.route = "continuation" /\ txn.step = "binding")
    PROVE  Inv'
<1>1. Stored' = Stored /\ \A i \in Stored : ActiveWritable(i)' = ActiveWritable(i)
  BY DEF Stored, ActiveWritable, Writable
<1>2. PublicationSound'
  <2>1. CASE step = "idle"
    <3>1. txn'.step = "idle" /\ txn'.route = "none"
      BY <2>1 DEF MoveTo, Idle
    <3> QED BY <3>1 DEF PublicationSound
  <2>2. CASE step # "idle"
    <3>1. /\ txn'.step = step /\ txn'.route = txn.route /\ txn'.id = txn.id
          /\ txn'.job = txn.job /\ txn'.owner = txn.owner /\ txn'.child = txn.child
          /\ txn'.binding = txn.binding
      BY <2>2 DEF MoveTo, Inv, TypeOK, Txn
    <3>2. /\ step # "idle" /\ txn.step # "idle" /\ txn.route # "none"
          /\ PublicationSound /\ UNCHANGED jobs
      BY <2>2 DEF Inv, PublicationSound
    <3>3. (txn.route = "none" <=> txn.step = "idle")'
      BY <3>1, <3>2
    <3>4. (txn.route \in {"generic", "fresh", "continuation"} =>
             /\ txn.id \in JobIds /\ txn.owner \in Sessions
             /\ txn.job \in Job /\ txn.job.status = "queued" /\ txn.job.stop = None
             /\ txn.step # "marker" /\ ~ (txn.route = "continuation" /\ txn.step = "binding") =>
                  /\ txn.id \notin Stored
                  /\ txn.job.class # "readonly" => \A i \in Stored : ~ ActiveWritable(i))'
      BY <1>1, <3>1, <3>2 DEF PublicationSound
    <3>5. (txn.route \in {"fresh", "continuation", "rollback", "cancel"} =>
             txn.owner \in Sessions /\ txn.child \in Children /\ txn.binding \in Binding)'
      BY <3>1, <3>2 DEF PublicationSound
    <3>7. (txn.route \in {"rollback", "cancel"} => txn.step \in {"binding", "job"}
                                                  /\ txn.id \in Stored)'
      BY <1>1, <3>1, <3>2 DEF PublicationSound
    <3>8. (txn.route = "rollback" =>
             /\ jobs[txn.id].status = "queued" /\ jobs[txn.id].stop = None
             /\ txn.job = Moved(txn.id, "failed"))'
      BY <3>1, <3>2 DEF PublicationSound, Moved
    <3>9. (txn.route = "cancel" =>
             /\ jobs[txn.id].status \in {"queued", "cancelling"}
             /\ \E cause \in Causes :
                  txn.job = [Moved(txn.id, "cancelled") EXCEPT !.stop = StopIntent(txn.id, cause)])'
      <4>1. txn'.route = txn.route /\ txn'.id = txn.id /\ txn'.job = txn.job /\ jobs' = jobs
        BY <3>1, <3>2
      <4>2. ASSUME txn.route = "cancel"
            PROVE  /\ jobs[txn.id].status \in {"queued", "cancelling"}
                   /\ \E cause \in Causes :
                        txn.job = [Moved(txn.id, "cancelled") EXCEPT !.stop = StopIntent(txn.id, cause)]
        BY <3>2, <4>2, Zenon DEF PublicationSound
      <4>3. Moved(txn.id, "cancelled")' = Moved(txn.id, "cancelled")
        BY <4>1 DEF Moved
      <4>4. \A cause \in Causes : StopIntent(txn.id, cause)' = StopIntent(txn.id, cause)
        BY <4>1 DEF StopIntent
      <4>5. ASSUME txn'.route = "cancel"
            PROVE  (\E cause \in Causes :
                      txn.job = [Moved(txn.id, "cancelled") EXCEPT !.stop = StopIntent(txn.id, cause)])'
        <5>1. PICK cause \in Causes :
                txn.job = [Moved(txn.id, "cancelled") EXCEPT !.stop = StopIntent(txn.id, cause)]
          BY <4>1, <4>2, <4>5
        <5>2. (txn.job = [Moved(txn.id, "cancelled") EXCEPT !.stop = StopIntent(txn.id, cause)])'
          BY <4>1, <4>3, <4>4, <5>1
        <5> QED BY <5>2
      <4> QED BY <4>1, <4>2, <4>5
    <3>10. /\ txn'.route = "listing" => txn'.step \in {"tuples", "strays", "repaired"}
           /\ txn'.route = "generic" => txn'.step \notin {"authority", "gc", "binding"}
           /\ txn'.route = "continuation" => txn'.step \notin {"authority", "gc"}
      BY <3>1, <3>2
    <3> QED BY <3>3, <3>4, <3>5, <3>7, <3>8, <3>9, <3>10, Zenon DEF PublicationSound
  <2> QED BY <2>1, <2>2
<1> QED BY <1>1, <1>2 DEF Inv, IntentsAreHosted, WritableExclusion

\* Moving the publication on keeps its type.
LEMMA MoveToType ==
    ASSUME TypeOK, NEW step \in Steps, MoveTo(step)
    PROVE  txn' \in Txn
BY DEF TypeOK, MoveTo, Txn, Idle, Steps, Routes

\* The step after the index is repaired suits the route.
LEMMA AfterIndexStep ==
    ASSUME NEW route \in Routes, NEW s
    PROVE  /\ AfterIndex(route, s) \in {"idle", "authority", "gc", "binding", "tuple"}
           /\ route \in {"generic", "continuation"} => AfterIndex(route, s) = "tuple"
           /\ route = "listing" => AfterIndex(route, s) = "idle"
BY DEF AfterIndex, Routes

\* The one durable write that publishes a record.
LEMMA WriteJobPreserves ==
    ASSUME Inv, WriteJob
    PROVE  Inv'
<1>a. TypeOK /\ PublicationSound /\ IntentsAreHosted /\ WritableExclusion
  BY DEF Inv
<1>b. txn.step = "job" /\ jobs' = [jobs EXCEPT ![txn.id] = txn.job]
  BY DEF WriteJob
<1>c. UNCHANGED <<bindings, authority, partitions, tuples, marker, clock>>
  BY DEF WriteJob
<1>1. txn.route \in {"generic", "fresh", "continuation", "rollback", "cancel"}
  BY <1>a, <1>b DEF PublicationSound, TypeOK, Txn, Routes
<1>2. txn.id \in JobIds /\ txn.job \in Job /\ txn.job # None
  <2>1. CASE txn.route \in {"generic", "fresh", "continuation"}
    BY <1>a, <2>1, AbsenceAssumption DEF PublicationSound
  <2>2. CASE txn.route = "rollback"
    BY <1>a, <2>2, MovedIsJob, AbsenceAssumption DEF PublicationSound, Stored, Statuses
  <2>3. CASE txn.route = "cancel"
    <3>1. txn.id \in Stored
      BY <1>a, <2>3 DEF PublicationSound
    <3>2. PICK cause \in Causes :
            txn.job = [Moved(txn.id, "cancelled") EXCEPT !.stop = StopIntent(txn.id, cause)]
      BY <1>a, <2>3 DEF PublicationSound
    <3>3. Moved(txn.id, "cancelled") \in Job
      BY <1>a, <3>1, MovedIsJob DEF Statuses
    <3>4. StopIntent(txn.id, cause) \in StopCauses \cup {None}
      BY <1>a, <3>1, StopIntentIsStop
    <3> QED BY <3>1, <3>2, <3>3, <3>4, StoppedIsJob, AbsenceAssumption DEF Stored
  <2> QED BY <1>1, <2>1, <2>2, <2>3
<1>3. /\ Stored' = Stored \cup {txn.id} /\ jobs'[txn.id] = txn.job
      /\ \A i \in JobIds \ {txn.id} : jobs'[i] = jobs[i]
      /\ jobs' \in [JobIds -> Job \cup {None}]
  BY <1>a, <1>b, <1>2 DEF TypeOK, Stored
<1>4. TypeOK'
  <2>1. txn' \in Txn
    BY <1>a, MoveToType DEF WriteJob, Steps
  <2> QED BY <1>a, <1>c, <1>3, <2>1 DEF TypeOK
<1>5. PublicationSound'
  <2>1. CASE txn.route \in {"rollback", "cancel"}
    <3>1. txn'.step = "idle" /\ txn'.route = "none"
      BY <2>1 DEF WriteJob, MoveTo, Idle
    <3> QED BY <3>1 DEF PublicationSound
  <2>2. CASE txn.route \in {"generic", "fresh", "continuation"}
    <3>1. /\ txn'.step = "marker" /\ txn'.route = txn.route /\ txn'.id = txn.id
          /\ txn'.job = txn.job /\ txn'.owner = txn.owner /\ txn'.child = txn.child
          /\ txn'.binding = txn.binding
      BY <1>a, <2>2 DEF WriteJob, MoveTo, TypeOK, Txn
    <3> QED BY <1>a, <2>2, <3>1 DEF PublicationSound
  <2> QED BY <1>1, <2>1, <2>2
<1>6. /\ txn.job.stop # None => txn.job.host
      /\ \A i \in Stored \ {txn.id} :
            txn.job.status \in Active /\ txn.job.class # "readonly" => ~ ActiveWritable(i)
  <2>1. CASE txn.route \in {"generic", "fresh", "continuation"}
    BY <1>a, <1>b, <2>1 DEF PublicationSound
  <2>2. CASE txn.route = "rollback"
    <3>1. txn.id \in Stored /\ txn.job = Moved(txn.id, "failed") /\ jobs[txn.id].stop = None
      BY <1>a, <2>2 DEF PublicationSound
    <3>2. txn.job.status = "failed" /\ txn.job.stop = None
      BY <1>a, <3>1, MovedIsJob DEF Statuses
    <3> QED BY <3>2 DEF Active
  <2>3. CASE txn.route = "cancel"
    <3>1. txn.id \in Stored
      BY <1>a, <2>3 DEF PublicationSound
    <3>2. PICK cause \in Causes :
            txn.job = [Moved(txn.id, "cancelled") EXCEPT !.stop = StopIntent(txn.id, cause)]
      BY <1>a, <2>3 DEF PublicationSound
    <3> DEFINE old == Moved(txn.id, "cancelled")
    <3>3. old \in Job /\ old.status = "cancelled" /\ old.host = jobs[txn.id].host
      BY <1>a, <3>1, MovedIsJob DEF Statuses
    <3>4. /\ StopIntent(txn.id, cause) \in StopCauses \cup {None}
          /\ StopIntent(txn.id, cause) # None => jobs[txn.id].host
      BY <1>a, <3>1, StopIntentIsStop
    <3> HIDE DEF old
    <3>5. /\ txn.job.stop = StopIntent(txn.id, cause)
          /\ txn.job.status = "cancelled" /\ txn.job.host = jobs[txn.id].host
      BY <3>2, <3>3, <3>4, StoppedIsJob DEF old
    <3>6. txn.job.stop # None => txn.job.host
      BY <3>4, <3>5, Zenon
    <3> QED BY <3>5, <3>6 DEF Active
  <2> QED BY <1>1, <2>1, <2>2, <2>3
<1>7. IntentsAreHosted'
  <2>1. \A i \in Stored \cup {txn.id} : jobs'[i].stop # None => jobs'[i].host
    BY <1>a, <1>3, <1>6, Zenon DEF IntentsAreHosted, Stored
  <2> QED BY <1>3, <2>1 DEF IntentsAreHosted
<1>8. WritableExclusion'
  <2>0. PICK k \in JobIds : k = txn.id
    BY <1>2
  <2>1. \A i \in Stored \ {k} : ActiveWritable(i)' = ActiveWritable(i)
    BY <1>3, <2>0 DEF ActiveWritable, Writable, Stored
  <2>2. ActiveWritable(k)' => txn.job.status \in Active /\ txn.job.class # "readonly"
    BY <1>3, <2>0 DEF ActiveWritable, Writable
  <2>3. ActiveWritable(k)' => \A i \in Stored \ {k} : ~ ActiveWritable(i)
    BY <1>6, <2>0, <2>2
  <2> QED BY <1>a, <1>3, <2>0, <2>1, <2>3 DEF WritableExclusion
<1> QED BY <1>4, <1>5, <1>7, <1>8 DEF Inv

LEMMA PublicationPreserves ==
    ASSUME Inv, Publication
    PROVE  Inv'
<1>a. TypeOK /\ PublicationSound
  BY DEF Inv
<1>r. txn.route \in Routes
  BY <1>a DEF TypeOK, Txn
<1>1. CASE RewriteOwnerTuples
  <2>1. TypeOK' /\ UNCHANGED jobs
    BY <1>a, <1>1, MoveToType DEF RewriteOwnerTuples, TypeOK, Stored, Steps
  <2>2. CASE Stored \subseteq tuples
    <3>1. MoveTo("strays") /\ txn.step = "tuples"
      BY <1>1, <2>2 DEF RewriteOwnerTuples
    <3> QED BY <1>a, <2>1, <3>1, MovesOn DEF PublicationSound, Steps
  <2>3. CASE ~ (Stored \subseteq tuples)
    BY <1>1, <2>1, <2>3, KeepsRecords DEF RewriteOwnerTuples
  <2> QED BY <2>2, <2>3
<1>2. CASE UnlinkStrayTuples
  <2>1. TypeOK' /\ UNCHANGED jobs
    BY <1>a, <1>2, MoveToType DEF UnlinkStrayTuples, TypeOK, Steps
  <2>2. CASE tuples \subseteq Stored
    <3>1. MoveTo("repaired") /\ txn.step = "strays"
      BY <1>2, <2>2 DEF UnlinkStrayTuples
    <3> QED BY <1>a, <2>1, <3>1, MovesOn DEF PublicationSound, Steps
  <2>3. CASE ~ (tuples \subseteq Stored)
    BY <1>2, <2>1, <2>3, KeepsRecords DEF UnlinkStrayTuples
  <2> QED BY <2>2, <2>3
<1>3. CASE PublishRepairedMarker
  <2> DEFINE step == AfterIndex(txn.route, txn.owner)
  <2>1. /\ step \in {"idle", "authority", "gc", "binding", "tuple"}
        /\ txn.route \in {"generic", "continuation"} => step = "tuple"
        /\ txn.route = "listing" => step = "idle"
    BY <1>r, AfterIndexStep
  <2>2. MoveTo(step) /\ txn.step = "repaired" /\ UNCHANGED jobs
    BY <1>3 DEF PublishRepairedMarker
  <2> HIDE DEF step
  <2>3. step \in Steps /\ TypeOK'
    BY <1>a, <1>3, <2>1, <2>2, MoveToType DEF PublishRepairedMarker, TypeOK, Steps
  <2> QED BY <1>a, <2>1, <2>2, <2>3, MovesOn DEF PublicationSound
<1>4. CASE WriteAuthority
  <2>1. MoveTo("binding") /\ txn.step = "authority" /\ UNCHANGED jobs /\ "binding" \in Steps
    BY <1>4 DEF WriteAuthority, Steps
  <2>2. txn.route = "fresh"
    BY <1>a, <1>r, <2>1 DEF PublicationSound, Routes
  <2>3. TypeOK'
    BY <1>a, <1>4, <2>1, <2>2, MoveToType DEF WriteAuthority, TypeOK, PublicationSound
  <2> QED BY <1>a, <2>1, <2>2, <2>3, MovesOn
<1>5. CASE CollectClosedBindings
  <2>1. MoveTo("binding") /\ txn.step = "gc" /\ UNCHANGED jobs /\ "binding" \in Steps
    BY <1>5 DEF CollectClosedBindings, Steps
  <2>2. txn.route = "fresh"
    BY <1>a, <1>r, <2>1 DEF PublicationSound, Routes
  <2>3. TypeOK'
    BY <1>a, <1>5, <2>1, MoveToType DEF CollectClosedBindings, TypeOK
  <2> QED BY <1>a, <2>1, <2>2, <2>3, MovesOn
<1>6. CASE WriteBinding
  <2>1. txn.step = "binding" /\ MoveTo(AfterBinding(txn.route)) /\ UNCHANGED jobs
    BY <1>6 DEF WriteBinding
  <2>2. txn.route \in {"fresh", "continuation", "rollback", "cancel"}
    BY <1>a, <1>r, <2>1 DEF PublicationSound, Routes
  <2>3. /\ AfterBinding(txn.route) \in Steps
        /\ txn.route = "fresh" => AfterBinding(txn.route) = "tuple"
        /\ txn.route = "continuation" => AfterBinding(txn.route) = "idle"
        /\ txn.route \in {"rollback", "cancel"} => AfterBinding(txn.route) = "job"
    BY <2>2 DEF AfterBinding, Steps
  <2>4. /\ txn.owner \in Sessions /\ txn.child \in Children
        /\ txn.binding \in Binding /\ txn.binding.updatedAt \in Nat
    BY <1>a, <2>2 DEF PublicationSound, Binding
  <2>5. TypeOK'
    BY <1>a, <1>6, <2>1, <2>3, <2>4, MoveToType DEF WriteBinding, TypeOK, Reach, Larger
  <2> QED BY <1>a, <2>1, <2>2, <2>3, <2>5, MovesOn
<1>7. CASE WriteOwnerTuple
  <2>1. MoveTo("job") /\ txn.step = "tuple" /\ UNCHANGED jobs /\ "job" \in Steps
    BY <1>7 DEF WriteOwnerTuple, Steps
  <2>2. txn.route \in {"generic", "fresh", "continuation"}
    BY <1>a, <1>r, <2>1 DEF PublicationSound, Routes
  <2>3. TypeOK'
    BY <1>a, <1>7, <2>1, <2>2, MoveToType DEF WriteOwnerTuple, TypeOK, PublicationSound
  <2> QED BY <1>a, <2>1, <2>2, <2>3, MovesOn
<1>8. CASE WriteJob
  BY <1>8, WriteJobPreserves
<1>9. CASE PublishMarker
  <2>1. MoveTo(AfterMarker(txn.route)) /\ txn.step = "marker" /\ UNCHANGED jobs
    BY <1>9 DEF PublishMarker
  <2>2. txn.route \in {"generic", "fresh", "continuation"}
    BY <1>a, <1>r, <2>1 DEF PublicationSound, Routes
  <2>3. /\ AfterMarker(txn.route) \in Steps
        /\ AfterMarker(txn.route) = IF txn.route = "continuation" THEN "binding" ELSE "idle"
    BY DEF AfterMarker, Steps
  <2>4. TypeOK'
    BY <1>a, <1>9, <2>1, <2>3, MoveToType DEF PublishMarker, TypeOK
  <2> QED BY <1>a, <2>1, <2>2, <2>3, <2>4, MovesOn
<1>10. CASE Crash
  <2>1. MoveTo("idle") /\ UNCHANGED jobs /\ "idle" \in Steps
    BY <1>10 DEF Crash, MoveTo, Steps
  <2>2. TypeOK'
    BY <1>a, <1>10, <2>1, MoveToType DEF Crash, TypeOK
  <2> QED BY <2>1, <2>2, MovesOn
<1> QED BY <1>1, <1>2, <1>3, <1>4, <1>5, <1>6, <1>7, <1>8, <1>9, <1>10 DEF Publication

LEMMA MaintenancePreserves ==
    ASSUME Inv, Maintenance
    PROVE  Inv'
<1>a. TypeOK
  BY DEF Inv
<1>1. CASE ListOwnedJobs
  <2> DEFINE record == [Idle EXCEPT !.route = "listing"]
  <2>1. record \in Txn /\ record.route = "listing"
    BY DEF Idle, Txn, Steps, Routes
  <2>2. Unlocked /\ ~ MarkerCurrent /\ Begin(record)
        /\ UNCHANGED <<jobs, bindings, authority, partitions, tuples, marker, clock>>
    BY <1>1 DEF ListOwnedJobs
  <2> HIDE DEF record
  <2> QED BY <2>1, <2>2, BeginPreserves
<1>2. CASE LoseTuple
  BY <1>a, <1>2, KeepsRecords DEF LoseTuple, TypeOK
<1>3. CASE Tick
  BY <1>a, <1>3, KeepsRecords DEF Tick, TypeOK
<1>4. ASSUME NEW s \in Sessions, NEW c \in Children, NEW b \in Binding, ReplaceSlot(s, c, b)
      PROVE  Inv'
  <2>1. b.updatedAt \in Nat
    BY DEF Binding
  <2>2. TypeOK'
    BY <1>a, <1>4, <2>1 DEF ReplaceSlot, Reach, Larger, TypeOK
  <2> QED BY <1>4, <2>2, KeepsRecords DEF ReplaceSlot
<1>5. ASSUME NEW s \in Sessions, NEW c \in Children, RepairRescueContinuationBinding(s, c)
      PROVE  Inv'
  <2> DEFINE b == Slot(s, c)
  <2>1. b \in Binding
    BY <1>a, <1>5 DEF RepairRescueContinuationBinding, Slot, TypeOK
  <2>2. ASSUME NEW x \in Binding, NEW anchor \in JobIds, NEW time \in Nat
        PROVE  [x EXCEPT !.current = anchor, !.updatedAt = time] \in Binding
    BY DEF Binding
  <2>4. b.anchor \in JobIds /\ b.updatedAt + 1 \in Nat
    BY <2>1 DEF Binding
  <2> DEFINE repaired == [b EXCEPT !.current = b.anchor, !.updatedAt = b.updatedAt + 1]
  <2>3. ReplaceSlot(s, c, repaired)
    BY <1>5 DEF RepairRescueContinuationBinding
  <2>5. repaired \in Binding
    BY <2>1, <2>2, <2>4, Zenon
  <2> HIDE DEF repaired
  <2> QED BY <1>4, <2>3, <2>5
<1>6. ASSUME NEW s \in Sessions, NEW c \in Children, NEW reason \in CloseReasons,
             CloseRescueBindingForChild(s, c, reason)
      PROVE  Inv'
  <2> DEFINE b == Slot(s, c)
  <2>1. b \in Binding
    BY <1>a, <1>6 DEF CloseRescueBindingForChild, Slot, TypeOK
  <2>2. [ClosedAs(b, reason) EXCEPT !.updatedAt = clock] \in Binding
    BY <1>a, <2>1 DEF Binding, ClosedAs, TypeOK
  <2> QED BY <1>4, <1>6, <2>2 DEF CloseRescueBindingForChild
<1> QED BY <1>1, <1>2, <1>3, <1>5, <1>6 DEF Maintenance

\* Every step of the store keeps the invariant.
LEMMA NextPreserves ==
    ASSUME Inv, [Next]_vars
    PROVE  Inv'
<1>1. CASE Publication
  BY <1>1, PublicationPreserves
<1>2. ASSUME NEW j \in JobIds, Reservation(j)
      PROVE  Inv'
  BY <1>2, ReservationPreserves
<1>3. ASSUME NEW j \in JobIds, Attempt(j)
      PROVE  Inv'
  BY <1>3, AttemptRewrites, RewritePreserves DEF Inv
<1>4. ASSUME NEW j \in JobIds, Settlement(j)
      PROVE  Inv'
  BY <1>4, SettlementRewritesOrPlans, RewritePreserves, PlanPreserves DEF Inv
<1>5. CASE Maintenance
  BY <1>5, MaintenancePreserves
<1>6. CASE UNCHANGED vars
  BY <1>6, KeepsRecords DEF vars, Inv, TypeOK
<1> QED BY <1>1, <1>2, <1>3, <1>4, <1>5, <1>6 DEF Next

\* The invariant, and with it the types of every record.
THEOREM Invariance == Spec => []Inv
<1>1. Init => Inv
  BY InitInv
<1>2. Inv /\ [Next]_vars => Inv'
  BY NextPreserves
<1> QED BY <1>1, <1>2, PTL DEF Spec

\* Every reachable state has the types TypeOK gives it (state.mjs, every validator).
THEOREM TypeCorrectness == Spec => []TypeOK
<1>1. Inv => TypeOK
  BY DEF Inv
<1> QED BY <1>1, Invariance, PTL

\* makeReservedJob: a workspace never holds two unfinished writable jobs, for any number
\* of sessions, children and jobs and with a crash after any write.
THEOREM Exclusion == Spec => []WritableExclusion
<1>1. Inv => WritableExclusion
  BY DEF Inv
<1> QED BY <1>1, Invariance, PTL

\* What a method decided when it took the lock is still true at each of its writes.
THEOREM PublicationSoundness == Spec => []PublicationSound
<1>1. Inv => PublicationSound
  BY DEF Inv
<1> QED BY <1>1, Invariance, PTL

-----------------------------------------------------------------------------
(* What a step may do to the records, and the properties that follow.      *)

OthersKeep(j) == \A i \in JobIds \ {j} : jobs'[i] = jobs[i]

\* A queued record appears, alone if it is writable.
Appears(j) ==
    /\ j \notin Stored
    /\ jobs'[j] \in Job /\ jobs'[j].status = "queued" /\ jobs'[j].stop = None
    /\ jobs'[j].class # "readonly" => \A i \in Stored : ~ ActiveWritable(i)
    /\ OthersKeep(j)

\* A record changes within the life cycle.
Changes(j) ==
    /\ j \in Stored
    /\ jobs'[j] \in Job
    /\ Legal(jobs[j], jobs'[j])
    /\ OthersKeep(j)

\* A publication writes its record within the life cycle, whatever happened to the
\* other records since it was planned.
LEMMA WriteJobChanges ==
    ASSUME Inv, WriteJob
    PROVE  \E j \in JobIds : Appears(j) \/ Changes(j)
<1>a. TypeOK /\ PublicationSound /\ IntentsAreHosted
  BY DEF Inv
<1>b. txn.step = "job" /\ jobs' = [jobs EXCEPT ![txn.id] = txn.job]
  BY DEF WriteJob
<1>1. txn.route \in {"generic", "fresh", "continuation", "rollback", "cancel"}
  BY <1>a, <1>b DEF PublicationSound, TypeOK, Txn, Routes
<1>2. txn.id \in JobIds
  BY <1>a, <1>1 DEF PublicationSound, Stored
<1>3. PICK j \in JobIds : j = txn.id
  BY <1>2
<1>4. jobs'[j] = txn.job /\ OthersKeep(j)
  BY <1>a, <1>b, <1>3 DEF TypeOK, OthersKeep
<1>5. CASE txn.route \in {"generic", "fresh", "continuation"}
  <2>1. Appears(j)
    BY <1>a, <1>b, <1>3, <1>4, <1>5 DEF PublicationSound, Appears
  <2> QED BY <2>1
<1>6. CASE txn.route = "rollback"
  <2>1. j \in Stored /\ jobs[j].status = "queued" /\ jobs[j].stop = None
        /\ txn.job = Moved(j, "failed")
    BY <1>a, <1>3, <1>6 DEF PublicationSound
  <2>2. /\ txn.job \in Job /\ txn.job.status = "failed" /\ txn.job.stop = jobs[j].stop
        /\ txn.job.owner = jobs[j].owner /\ txn.job.class = jobs[j].class
        /\ txn.job.host = jobs[j].host
    BY <1>a, <2>1, MovedIsJob DEF Statuses
  <2>3. Legal(jobs[j], txn.job)
    BY <2>1, <2>2 DEF Legal, Terminal
  <2> QED BY <1>4, <2>1, <2>2, <2>3 DEF Changes
<1>7. CASE txn.route = "cancel"
  <2>1. j \in Stored /\ jobs[j].status \in {"queued", "cancelling"}
    BY <1>a, <1>3, <1>7 DEF PublicationSound
  <2>2. PICK cause \in Causes :
          txn.job = [Moved(j, "cancelled") EXCEPT !.stop = StopIntent(j, cause)]
    BY <1>a, <1>3, <1>7 DEF PublicationSound
  <2> DEFINE old == Moved(j, "cancelled")
             stop == StopIntent(j, cause)
  <2>3. /\ old \in Job /\ old.status = "cancelled" /\ old.owner = jobs[j].owner
        /\ old.class = jobs[j].class /\ old.host = jobs[j].host
    BY <1>a, <2>1, MovedIsJob DEF Statuses
  <2>4. /\ stop \in StopCauses \cup {None}
        /\ jobs[j].stop # None => stop = jobs[j].stop
        /\ stop # None => jobs[j].host
    BY <1>a, <2>1, StopIntentIsStop
  <2>5. txn.job = [old EXCEPT !.stop = stop]
    BY <2>2
  <2> HIDE DEF old, stop
  <2>6. /\ txn.job \in Job /\ txn.job.stop = stop /\ txn.job.status = "cancelled"
        /\ txn.job.owner = jobs[j].owner /\ txn.job.class = jobs[j].class
        /\ txn.job.host = jobs[j].host
    BY <2>3, <2>4, <2>5, StoppedIsJob
  <2>7. Legal(jobs[j], txn.job)
    BY <2>1, <2>4, <2>6 DEF Legal, Terminal
  <2> QED BY <1>4, <2>1, <2>6, <2>7 DEF Changes
<1> QED BY <1>1, <1>5, <1>6, <1>7

\* A method that replaces one record changes it within the life cycle.
LEMMA RewriteChanges ==
    ASSUME TypeOK, NEW j \in JobIds, NEW new \in Job, Rewrites(j, new)
    PROVE  Changes(j)
BY RewriteEffect DEF Rewrites, Changes, OthersKeep

\* No step does anything else to the records.
LEMMA RecordsStep ==
    ASSUME Inv, [Next]_vars
    PROVE  UNCHANGED jobs \/ \E j \in JobIds : Appears(j) \/ Changes(j)
<1>a. TypeOK /\ IntentsAreHosted
  BY DEF Inv
<1>1. CASE Publication
  <2>1. CASE WriteJob
    BY <2>1, WriteJobChanges
  <2>2. CASE ~ WriteJob
    BY <1>1, <2>2 DEF Publication, RewriteOwnerTuples, UnlinkStrayTuples,
       PublishRepairedMarker, WriteAuthority, CollectClosedBindings, WriteBinding,
       WriteOwnerTuple, PublishMarker, Crash
  <2> QED BY <2>1, <2>2
<1>2. ASSUME NEW j \in JobIds, Reservation(j)
      PROVE  UNCHANGED jobs
  BY <1>2 DEF Reservation, ReserveJob, ReserveFreshRescueJob, ReserveBoundRescueContinuation
<1>3. ASSUME NEW j \in JobIds, Attempt(j)
      PROVE  Changes(j)
  BY <1>a, <1>3, AttemptRewrites, RewriteChanges
<1>4. ASSUME NEW j \in JobIds, Settlement(j)
      PROVE  UNCHANGED jobs \/ Changes(j)
  BY <1>a, <1>4, SettlementRewritesOrPlans, RewriteChanges DEF Plans
<1>5. CASE Maintenance
  BY <1>5, ZenonT(60) DEF Maintenance, ListOwnedJobs, LoseTuple, Tick, RepairRescueContinuationBinding,
     CloseRescueBindingForChild, ReplaceSlot
<1>6. CASE UNCHANGED vars
  BY <1>6 DEF vars
<1> QED BY <1>1, <1>2, <1>3, <1>4, <1>5, <1>6 DEF Next

\* A finished job is history: nothing overwrites a settlement (TRANSITIONS).
THEOREM Finality == Spec => TerminalIsFinal
<1>1. ASSUME Inv, [Next]_vars
      PROVE  \A j \in Stored : jobs[j].status \in Terminal =>
                jobs'[j] \in {jobs[j], [jobs[j] EXCEPT !.fence = None]}
  <2> SUFFICES ASSUME NEW j \in Stored, jobs[j].status \in Terminal
               PROVE  jobs'[j] \in {jobs[j], [jobs[j] EXCEPT !.fence = None]}
    OBVIOUS
  <2>1. CASE UNCHANGED jobs
    BY <2>1
  <2>2. ASSUME NEW i \in JobIds, Appears(i) \/ Changes(i)
        PROVE  jobs'[j] \in {jobs[j], [jobs[j] EXCEPT !.fence = None]}
    BY <2>2 DEF Appears, Changes, OthersKeep, Stored, Legal
  <2> QED BY <1>1, <2>1, <2>2, RecordsStep
<1> QED BY <1>1, Invariance, PTL DEF Spec, TerminalIsFinal

\* A durable stop decision is winning stop authority: it is never dropped, and a queued
\* job that carries one can only end as cancelled.
THEOREM StopAuthority == Spec => StopDecisionHolds
<1> DEFINE Final(j) ==
             /\ jobs'[j].stop # jobs[j].stop =>
                  jobs[j].stop = "host-coordination-loss" /\ jobs'[j].stop = "session-end"
             /\ jobs[j].status = "queued" => jobs'[j].status \in {"queued", "cancelled"}
<1>1. ASSUME Inv, [Next]_vars
      PROVE  \A j \in Stored : jobs[j].stop # None => Final(j)
  <2> SUFFICES ASSUME NEW j \in Stored, jobs[j].stop # None
               PROVE  Final(j)
    OBVIOUS
  <2>1. CASE UNCHANGED jobs
    BY <2>1
  <2>2. ASSUME NEW i \in JobIds, Appears(i) \/ Changes(i)
        PROVE  Final(j)
    BY <2>2 DEF Appears, Changes, OthersKeep, Stored, Legal
  <2> QED BY <1>1, <2>1, <2>2, RecordsStep
<1> QED BY <1>1, Invariance, PTL DEF Spec, StopDecisionHolds

-----------------------------------------------------------------------------
(* The store implements the life of a writable job.                        *)

AbstractStatus == [j \in JobIds |-> Status(j)]

\* What a changed record looks like from outside.
LEMMA ChangeIsAbstract ==
    ASSUME Inv, NEW j \in JobIds, Changes(j)
    PROVE  [Promise!Next]_(Promise!vars)
<1> DEFINE old == jobs[j]
           new == jobs'[j]
<1>a. /\ j \in Stored /\ old \in Job /\ new \in Job /\ new # None /\ old # None
      /\ Legal(old, new) /\ OthersKeep(j)
  BY StoredIsJob, AbsenceAssumption DEF Inv, Changes
<1>b. Stored' = Stored
  BY <1>a DEF Stored, OthersKeep
<1>c. \A i \in JobIds \ {j} : Status(i)' = Status(i) /\ (i \in Decided' <=> i \in Decided)
  BY <1>a, <1>b DEF OthersKeep, Status, Decided, Writable
<1>1. CASE old.class = "readonly"
  <2>1. Status(j) = "unused" /\ Status(j)' = "unused" /\ j \notin Decided /\ j \notin Decided'
    BY <1>a, <1>b, <1>1 DEF Status, Decided, Writable, Legal
  <2>2. AbstractStatus' = AbstractStatus /\ Decided' = Decided
    BY <1>c, <2>1 DEF AbstractStatus, Decided, Stored
  <2> QED BY <2>2 DEF Promise!vars, AbstractStatus
<1>2. CASE old.class # "readonly"
  <2>1. /\ Status(j) = old.status /\ Status(j)' = new.status
        /\ j \in Decided <=> old.stop # None
        /\ j \in Decided' <=> new.stop # None
    BY <1>a, <1>b, <1>2 DEF Status, Decided, Writable, Legal
  <2>2. AbstractStatus' = [AbstractStatus EXCEPT ![j] = new.status]
    BY <1>c, <2>1 DEF AbstractStatus
  <2>3. /\ AbstractStatus[j] = old.status
        /\ old.stop # None => new.stop # None
    BY <1>a, <2>1, NoneAssumption DEF AbstractStatus, Legal, StopCauses
  <2>4. Decided' = IF new.stop # None THEN Decided \cup {j} ELSE Decided
    BY <1>c, <2>1, <2>3 DEF Decided, Stored
  <2>5. (old.stop # None <=> new.stop # None) => Decided' = Decided
    BY <2>1, <2>4
  <2>6. old.status = "queued" /\ new.status = "queued" => [Promise!Next]_(Promise!vars)
    <3>1. CASE (old.stop # None <=> new.stop # None) /\ old.status = new.status
      <4>1. AbstractStatus' = AbstractStatus
        BY <2>2, <2>3, <3>1 DEF AbstractStatus
      <4> QED BY <2>5, <3>1, <4>1 DEF Promise!vars, AbstractStatus
    <3>2. CASE old.status = "queued" /\ new.status = "queued" /\ old.stop = None /\ new.stop # None
      <4>1. AbstractStatus' = AbstractStatus
        BY <2>2, <2>3, <3>2 DEF AbstractStatus
      <4>2. Promise!Decide(j)
        BY <2>3, <2>4, <3>2, <4>1 DEF Promise!Decide, AbstractStatus
      <4> QED BY <4>2 DEF Promise!Next
    <3> QED BY <2>3, <3>1, <3>2
  <2>7. old.status = new.status /\ (old.stop # None <=> new.stop # None)
          => [Promise!Next]_(Promise!vars)
    <3> HAVE old.status = new.status /\ (old.stop # None <=> new.stop # None)
    <3>1. AbstractStatus' = AbstractStatus
      BY <2>2, <2>3 DEF AbstractStatus
    <3> QED BY <2>5, <3>1 DEF Promise!vars, AbstractStatus
  <2>8. new.status # old.status /\ old.status = "queued" /\ new.status = "running"
          => Promise!Start(j)
    BY <1>a, <2>1, <2>2, <2>3, <2>4
       DEF Legal, Promise!Start, Promise!Become, Promise!Keep, AbstractStatus
  <2>9. new.status # old.status /\ old.status = "queued" /\ new.status = "failed"
          => Promise!Fail(j)
    BY <1>a, <2>1, <2>2, <2>3, <2>4
       DEF Legal, Promise!Fail, Promise!Become, Promise!Keep, AbstractStatus
  <2>10. old.status = "running" /\ new.status = "cancelling" => Promise!BeginStop(j)
    BY <1>a, <2>2, <2>3, <2>4
       DEF Promise!BeginStop, Promise!Become, Promise!MayDecide, AbstractStatus
  <2>11. old.status = "cancelling" /\ new.status = "running" => Promise!StopFailed(j)
    BY <1>a, <2>2, <2>3, <2>4, <2>5, NoneAssumption
       DEF Legal, Promise!StopFailed, Promise!Become, Promise!Keep, AbstractStatus, StopCauses
  <2>12. old.status \in {"running", "cancelling"} /\ new.status \in {"succeeded", "failed"}
           => Promise!Finish(j)
    BY <1>a, <2>2, <2>3, <2>4, <2>5, NoneAssumption
       DEF Legal, Promise!Finish, Promise!Become, Promise!Keep, AbstractStatus, StopCauses
  <2>13. old.status \in {"queued", "cancelling"} /\ new.status = "cancelled"
           => Promise!Cancel(j)
    BY <1>a, <2>2, <2>3, <2>4
       DEF Promise!Cancel, Promise!Become, Promise!MayDecide, AbstractStatus
  <2>14. \/ old.status = new.status /\ (old.stop # None <=> new.stop # None)
         \/ old.status = "queued" /\ new.status = "queued"
         \/ old.status = "queued" /\ new.status \in {"running", "failed"}
         \/ old.status = "running" /\ new.status = "cancelling"
         \/ old.status = "cancelling" /\ new.status = "running"
         \/ old.status \in {"running", "cancelling"} /\ new.status \in {"succeeded", "failed"}
         \/ old.status \in {"queued", "cancelling"} /\ new.status = "cancelled"
    BY <1>a, NoneAssumption DEF Legal, StopCauses
  <2> QED BY <2>6, <2>7, <2>8, <2>9, <2>10, <2>11, <2>12, <2>13, <2>14 DEF Promise!Next
<1> QED BY <1>1, <1>2

\* What a new record looks like from outside.
LEMMA AppearanceIsAbstract ==
    ASSUME Inv, NEW j \in JobIds, Appears(j)
    PROVE  [Promise!Next]_(Promise!vars)
<1> DEFINE new == jobs'[j]
<1>a. /\ j \notin Stored /\ new \in Job /\ new # None /\ new.status = "queued"
      /\ new.stop = None /\ OthersKeep(j)
  BY AbsenceAssumption DEF Appears
<1>b. Stored' = Stored \cup {j}
  BY <1>a DEF Stored, OthersKeep
<1>c. \A i \in JobIds \ {j} : Status(i)' = Status(i) /\ (i \in Decided' <=> i \in Decided)
  BY <1>a, <1>b DEF OthersKeep, Status, Decided, Writable
<1>d. Decided' = Decided
  BY <1>a, <1>b, <1>c DEF Decided, Stored
<1>1. Status(j) = "unused"
  BY <1>a DEF Status
<1>2. CASE new.class = "readonly"
  <2>1. Status(j)' = "unused"
    BY <1>2 DEF Status, Writable
  <2>2. AbstractStatus' = AbstractStatus
    BY <1>c, <1>1, <2>1 DEF AbstractStatus
  <2> QED BY <1>d, <2>2 DEF Promise!vars, AbstractStatus
<1>3. CASE new.class # "readonly"
  <2>1. Status(j)' = "queued"
    BY <1>a, <1>b, <1>3 DEF Status, Writable
  <2>2. AbstractStatus' = [AbstractStatus EXCEPT ![j] = "queued"]
    BY <1>c, <2>1 DEF AbstractStatus
  <2>3. \A i \in JobIds : AbstractStatus[i] \notin Promise!Unfinished
    BY <1>3 DEF Appears, AbstractStatus, Status, ActiveWritable, Active, Promise!Unfinished
  <2>4. Promise!Reserve(j)
    BY <1>d, <1>1, <2>2, <2>3
       DEF Promise!Reserve, Promise!Become, Promise!Keep, AbstractStatus
  <2> QED BY <2>4 DEF Promise!Next
<1> QED BY <1>2, <1>3

\* Every behaviour of the store is, for someone who sees only the status and the stop
\* decision of the writable jobs, a behaviour of WritableJobs.
THEOREM Refinement == Spec => ImplementsWritableJobs
<1>1. Init => Promise!Init
  <2> SUFFICES ASSUME Init PROVE Promise!Init
    OBVIOUS
  <2>1. Stored = {}
    BY DEF Init, Stored
  <2> QED BY <2>1 DEF Promise!Init, Status, Decided
<1>2. ASSUME Inv, [Next]_vars
      PROVE  [Promise!Next]_(Promise!vars)
  <2>1. CASE UNCHANGED jobs
    <3>1. AbstractStatus' = AbstractStatus /\ Decided' = Decided
      BY <2>1 DEF AbstractStatus, Status, Decided, Stored, Writable
    <3> QED BY <3>1 DEF Promise!vars, AbstractStatus
  <2>2. ASSUME NEW j \in JobIds, Appears(j) \/ Changes(j)
        PROVE  [Promise!Next]_(Promise!vars)
    BY <1>2, <2>2, AppearanceIsAbstract, ChangeIsAbstract
  <2> QED BY <1>2, <2>1, <2>2, RecordsStep
<1> QED BY <1>1, <1>2, Invariance, PTL DEF Spec, ImplementsWritableJobs, Promise!Spec
=============================================================================
