-------------------------- MODULE ExecutionAdmission --------------------------
(***************************************************************************)
(* The admission of a background job by its execution capability.  The     *)
(* creator of the job issues the capability in the identity store, writes  *)
(* its reservation into the job's record, seals the specification and      *)
(* launches a worker.  Whoever holds the token may run `run-reserved-job', *)
(* again after a crash or beside another: of all those workers at most one *)
(* may execute.  The two stores have a lock each and no transaction across *)
(* them: a worker fences the record, reserves the capability, claims the   *)
(* record and commits the capability in four writes, and any process may   *)
(* die between two of them.                                                *)
(*                                                                         *)
(* What runs after the start is one step here.                             *)
(* A definition named D_Fault is a faulty variant of D.                    *)
(***************************************************************************)
EXTENDS Naturals

CONSTANTS
    Workers,       \* the processes that are given the token; each has its worker lease
    MaxFaults      \* how many writes or processes may fail

ASSUME AdmissionAssumption ==
    MaxFaults \in Nat /\ {"none", "unleased", "recovery"} \cap Workers = {}

VARIABLES
    job,        \* the record: status, claim, execution reservation
    cap,        \* the capability: issued, revoked, reserved for and committed to a lease
    spec,       \* is the sealed specification written
    creator,    \* the steps of the process that dispatched the job
    worker,     \* the steps of the workers
    canceller,  \* the effective lease a cancellation has read
    cleaner,    \* who is between the release of the capability and the write of the record
    faults

vars == <<job, cap, spec, creator, worker, canceller, cleaner, faults>>

Ends == {"succeeded", "failed", "cancelled"}
Lease == Workers \cup {"none"}
Reservation == Lease \cup {"unleased"}
CreatorSteps == {"create", "publish", "write", "launch", "delivered", "revoke", "fail", "done"}
WorkerSteps == {"idle", "fence", "reserve", "claim", "commit", "start", "running", "compensate",
                "clean", "gone"}

TypeOK ==
    /\ job \in [status: {"queued", "running"} \cup Ends, claim: Lease, reservation: Reservation]
    /\ cap \in [issued: BOOLEAN, revoked: BOOLEAN, reserved: Lease, committed: Lease]
    /\ spec \in BOOLEAN /\ creator \in CreatorSteps
    /\ worker \in [Workers -> WorkerSteps]
    /\ canceller \in {"idle", "unclaimed"}
    /\ cleaner \in Workers \cup {"none", "recovery"}
    /\ faults \in 0..MaxFaults

Init ==
    /\ job = [status |-> "queued", claim |-> "none", reservation |-> "none"]
    /\ cap = [issued |-> FALSE, revoked |-> FALSE, reserved |-> "none", committed |-> "none"]
    /\ spec = FALSE /\ creator = "create" /\ worker = [w \in Workers |-> "idle"]
    /\ canceller = "idle" /\ cleaner = "none" /\ faults = 0

Fault == faults < MaxFaults /\ faults' = faults + 1
NoFault == UNCHANGED faults

At(w, step) == worker[w] = step
Goes(w, step) == worker' = [worker EXCEPT ![w] = step]

\* The lock of the job store, which a cleanup holds across both its writes.
Unlocked == cleaner = "none"
Finish(status) == job' = [job EXCEPT !.status = status]

\* validateAvailableExecutionCapability: every worker has the one reservation id of the token.
Available == cap.issued /\ ~ cap.revoked /\ cap.committed = "none"

\* The worker lease is a lock that its process holds until it exits.
Holds(w) == worker[w] \notin {"idle", "gone"}
EffectiveLease ==
    IF job.claim # "none" THEN job.claim
    ELSE IF job.reservation = "unleased" THEN "none" ELSE job.reservation

-----------------------------------------------------------------------------
(* The creator.                                                            *)

Creator(from, to) == creator = from /\ creator' = to
CreatorOnly == UNCHANGED <<worker, canceller, cleaner>>

CreateCapability ==
    /\ \/ Creator("create", "publish") /\ cap' = [cap EXCEPT !.issued = TRUE] /\ NoFault
       \/ Creator("create", "fail") /\ UNCHANGED cap /\ Fault
    /\ CreatorOnly /\ UNCHANGED <<job, spec>>

\* publishJobSpecCommitment
PublishReservation ==
    /\ Unlocked
    /\ \/ /\ job.status = "queued" /\ NoFault
          /\ Creator("publish", "write") /\ job' = [job EXCEPT !.reservation = "unleased"]
       \/ /\ (IF job.status = "queued" THEN Fault ELSE NoFault)
          /\ Creator("publish", "revoke") /\ UNCHANGED job
    /\ CreatorOnly /\ UNCHANGED <<cap, spec>>

WriteJobSpec ==
    /\ \/ Creator("write", "launch") /\ spec' = TRUE /\ NoFault
       \/ Creator("write", "revoke") /\ UNCHANGED spec /\ Fault
    /\ CreatorOnly /\ UNCHANGED <<job, cap>>

\* A launch may be reported as failed, now or when its output is not delivered, although
\* the worker runs.
Launch ==
    /\ \/ Creator("launch", "delivered") /\ NoFault
       \/ Creator("launch", "revoke") /\ Fault
       \/ Creator("delivered", "revoke") /\ Fault
    /\ CreatorOnly /\ UNCHANGED <<job, cap, spec>>

\* A capability that a worker has reserved or consumed is not revoked; a refused or failed
\* revocation is ignored.
RevokeCapability ==
    /\ Creator("revoke", "fail")
    /\ \/ /\ cap' = [cap EXCEPT !.revoked = @ \/ (Available /\ cap.reserved = "none")]
          /\ NoFault
       \/ UNCHANGED cap /\ Fault
    /\ CreatorOnly /\ UNCHANGED <<job, spec>>

\* failQueuedJob asks for no lease.
FailQueuedJob ==
    /\ Unlocked /\ Creator("fail", "done")
    /\ IF job.status = "queued" THEN Finish("failed") ELSE UNCHANGED job
    /\ NoFault /\ CreatorOnly /\ UNCHANGED <<cap, spec>>

CreatorDies ==
    /\ creator \notin {"delivered", "done"} /\ creator' = "done"
    /\ Fault /\ CreatorOnly /\ UNCHANGED <<job, cap, spec>>

CreatorStep ==
    CreateCapability \/ PublishReservation \/ WriteJobSpec \/ RevokeCapability \/ FailQueuedJob

-----------------------------------------------------------------------------
(* The cleanup of a terminal job's reservation, under the lock of the job  *)
(* store with that of the identity store inside.                           *)

\* A record that was fenced for a capability not yet reserved proves nothing.
ReleaseAccepted_Fault ==
    CASE cap.committed # "none"         -> job.reservation = cap.committed
      [] cap.committed = "none" /\ cap.revoked -> TRUE
      [] OTHER                          -> cap.reserved = job.reservation

\* releaseExecutionReservation accepts the proof the record gives.
ReleaseAccepted ==
    CASE cap.committed # "none"         -> job.reservation = cap.committed
      [] cap.committed = "none" /\ cap.revoked -> TRUE
      [] OTHER                          -> cap.reserved \in {"none", job.reservation}

MayClean == Unlocked /\ job.status \in Ends /\ job.reservation # "none"

ReleaseCapability(a) ==
    /\ MayClean /\ ReleaseAccepted
    /\ cap' = IF Available THEN [cap EXCEPT !.reserved = "none"] ELSE cap
    /\ cleaner' = a

ClearReservation(a) ==
    /\ cleaner = a /\ cleaner' = "none"
    /\ job' = [job EXCEPT !.reservation = "none"]

-----------------------------------------------------------------------------
(* A worker.                                                               *)

WorkerOnly == UNCHANGED <<spec, creator, canceller>>

\* The record, the specification and the capability are read before the lease is taken;
\* what they allow is tested again at every write.  Nothing makes a worker begin.
BeginWorker(w) ==
    /\ At(w, "idle") /\ spec
    /\ Goes(w, IF ~ Available THEN "gone"
               ELSE IF job.status = "queued" THEN "fence"
               ELSE IF job.status \in Ends THEN "clean" ELSE "gone")
    /\ NoFault /\ WorkerOnly /\ UNCHANGED <<job, cap, cleaner>>

\* The fence takes the record of another attempt.
FenceExecution_Fault(w) ==
    /\ At(w, "fence") /\ Unlocked
    /\ \/ /\ job.status = "queued" /\ job.claim = "none" /\ job.reservation # "none" /\ NoFault
          /\ job' = [job EXCEPT !.reservation = w] /\ Goes(w, "reserve")
       \/ /\ Goes(w, "compensate") /\ UNCHANGED job
          /\ IF job.status = "queued" /\ job.claim = "none" /\ job.reservation \in {"unleased", w}
             THEN Fault ELSE NoFault
    /\ WorkerOnly /\ UNCHANGED <<cap, cleaner>>

\* fenceJobWorkerExecution: the record names the lease of one attempt.
FenceExecution(w) ==
    /\ At(w, "fence") /\ Unlocked
    /\ \/ /\ job.status = "queued" /\ job.claim = "none" /\ job.reservation = "unleased" /\ NoFault
          /\ job' = [job EXCEPT !.reservation = w] /\ Goes(w, "reserve")
       \/ /\ Goes(w, "compensate") /\ UNCHANGED job
          /\ IF job.status = "queued" /\ job.claim = "none" /\ job.reservation = "unleased"
             THEN Fault ELSE NoFault
    /\ WorkerOnly /\ UNCHANGED <<cap, cleaner>>

\* reserveExecutionCapability: it does not look at the job's record.
ReserveCapability(w) ==
    /\ At(w, "reserve")
    /\ \/ /\ Available /\ cap.reserved \in {"none", w} /\ NoFault
          /\ cap' = [cap EXCEPT !.reserved = w] /\ Goes(w, "claim")
       \/ /\ Goes(w, "compensate") /\ UNCHANGED cap
          /\ IF Available /\ cap.reserved \in {"none", w} THEN Fault ELSE NoFault
    /\ WorkerOnly /\ UNCHANGED <<job, cleaner>>

MayClaim(w) == job.status = "queued" /\ job.claim = "none" /\ job.reservation = w

\* claimJobWorkerForExecution
ClaimExecution(w) ==
    /\ At(w, "claim") /\ Unlocked
    /\ \/ MayClaim(w) /\ job' = [job EXCEPT !.claim = w] /\ Goes(w, "commit") /\ NoFault
       \/ Goes(w, "compensate") /\ UNCHANGED job /\ (IF MayClaim(w) THEN Fault ELSE NoFault)
    /\ WorkerOnly /\ UNCHANGED <<cap, cleaner>>

\* The commitment is not written.
CommitCapability_Fault(w) ==
    /\ At(w, "commit")
    /\ \/ /\ Available /\ cap.reserved = w
          /\ cap' = [cap EXCEPT !.committed = "none", !.reserved = "none"]
          /\ (Goes(w, "start") /\ NoFault) \/ (Goes(w, "compensate") /\ Fault)
       \/ /\ Goes(w, "compensate") /\ UNCHANGED cap
          /\ IF Available /\ cap.reserved = w THEN Fault ELSE NoFault
    /\ WorkerOnly /\ UNCHANGED <<job, cleaner>>

\* commitExecutionCapability; the commitment may be durable though the worker is told that
\* it failed.
CommitCapability(w) ==
    /\ At(w, "commit")
    /\ \/ /\ Available /\ cap.reserved = w
          /\ cap' = [cap EXCEPT !.committed = w, !.reserved = "none"]
          /\ (Goes(w, "start") /\ NoFault) \/ (Goes(w, "compensate") /\ Fault)
       \/ /\ Goes(w, "compensate") /\ UNCHANGED cap
          /\ IF Available /\ cap.reserved = w THEN Fault ELSE NoFault
    /\ WorkerOnly /\ UNCHANGED <<job, cleaner>>

\* finishJobAfterExecutionClaimFailure: a failed attempt ends the job unless another one
\* has fenced or claimed it.
Foreign(w) == job.claim \notin {"none", w} \/ job.reservation \notin {"none", "unleased", w}

Compensate(w) ==
    /\ At(w, "compensate") /\ Unlocked
    /\ \/ /\ Goes(w, IF Foreign(w) THEN "gone" ELSE "clean") /\ NoFault
          /\ IF ~ Foreign(w) /\ job.status = "queued" THEN Finish("failed") ELSE UNCHANGED job
       \/ Goes(w, "gone") /\ UNCHANGED job /\ Fault
    /\ WorkerOnly /\ UNCHANGED <<cap, cleaner>>

\* executeJob, from the start of the claimed record to its end.
StartJob(w) ==
    /\ At(w, "start") /\ Unlocked
    /\ \/ job.status = "queued" /\ Finish("running") /\ Goes(w, "running") /\ NoFault
       \/ job.status # "queued" /\ UNCHANGED job /\ Goes(w, "clean") /\ NoFault
       \/ job.status = "queued" /\ Finish("failed") /\ Goes(w, "clean") /\ Fault
    /\ WorkerOnly /\ UNCHANGED <<cap, cleaner>>

EndJob(w) ==
    /\ At(w, "running") /\ Unlocked /\ Goes(w, "clean")
    /\ IF job.status = "running" THEN \E end \in Ends : Finish(end) ELSE UNCHANGED job
    /\ NoFault /\ WorkerOnly /\ UNCHANGED <<cap, cleaner>>

\* A cleanup that is refused, or finds nothing, is left to others.
CleanUp(w) ==
    /\ At(w, "clean")
    /\ \/ ReleaseCapability(w) /\ UNCHANGED <<job, worker>>
       \/ ClearReservation(w) /\ Goes(w, "gone") /\ UNCHANGED cap
       \/ /\ Unlocked /\ ~ (MayClean /\ ReleaseAccepted)
          /\ Goes(w, "gone") /\ UNCHANGED <<job, cap, cleaner>>
    /\ NoFault /\ WorkerOnly

WorkerDies(w) ==
    /\ Holds(w) /\ Goes(w, "gone")
    /\ cleaner' = IF cleaner = w THEN "none" ELSE cleaner
    /\ Fault /\ WorkerOnly /\ UNCHANGED <<job, cap>>

WorkerStep(w) ==
    \/ FenceExecution(w) \/ ReserveCapability(w) \/ ClaimExecution(w) \/ CommitCapability(w)
    \/ Compensate(w) \/ StartJob(w) \/ CleanUp(w)

-----------------------------------------------------------------------------
(* Recovery and cancellation by later commands.                            *)

Elsewhere == UNCHANGED <<spec, creator, worker>>

\* The lease that recovery proves free, or the absence of one once the record is old, is
\* compared with the effective lease of the record it writes.
Orphaned == EffectiveLease \notin {w \in Workers : Holds(w)}

RecoverQueued ==
    /\ Unlocked /\ job.status = "queued" /\ Orphaned
    /\ \E end \in {"failed", "cancelled"} : Finish(end)
    /\ NoFault /\ Elsewhere /\ UNCHANGED <<cap, canceller, cleaner>>

RecoverRunning ==
    /\ Unlocked /\ job.status = "running" /\ ~ Holds(job.claim)
    /\ \E end \in Ends : Finish(end)
    /\ NoFault /\ Elsewhere /\ UNCHANGED <<cap, canceller, cleaner>>

\* A cancellation that has read a record without an effective lease asks for none.
ReadForCancel ==
    /\ canceller = "idle" /\ job.status = "queued" /\ EffectiveLease = "none"
    /\ canceller' = "unclaimed"
    /\ NoFault /\ Elsewhere /\ UNCHANGED <<job, cap, cleaner>>

CancelUnclaimed ==
    /\ canceller = "unclaimed" /\ canceller' = "idle" /\ Unlocked
    /\ IF job.status = "queued" THEN Finish("cancelled") ELSE UNCHANGED job
    /\ NoFault /\ Elsewhere /\ UNCHANGED <<cap, cleaner>>

CancelRunning ==
    /\ Unlocked /\ job.status = "running" /\ Finish("cancelled")
    /\ NoFault /\ Elsewhere /\ UNCHANGED <<cap, canceller, cleaner>>

\* cleanupTerminalReservation
CleanTerminal ==
    /\ \/ ReleaseCapability("recovery") /\ NoFault /\ UNCHANGED job
       \/ ClearReservation("recovery") /\ NoFault /\ UNCHANGED cap
       \/ cleaner = "recovery" /\ cleaner' = "none" /\ Fault /\ UNCHANGED <<job, cap>>
    /\ Elsewhere /\ UNCHANGED canceller

Next ==
    \/ CreatorStep \/ Launch \/ CreatorDies
    \/ \E w \in Workers : BeginWorker(w) \/ WorkerStep(w) \/ EndJob(w) \/ WorkerDies(w)
    \/ RecoverQueued \/ RecoverRunning \/ CleanTerminal
    \/ ReadForCancel \/ CancelUnclaimed \/ CancelRunning

Spec == Init /\ [][Next]_vars

\* Processes that are not killed go on, and later commands of the workspace recover what
\* is orphaned and clean what is terminal.
FairSpec ==
    /\ Spec
    /\ WF_vars(CreatorStep) /\ \A w \in Workers : WF_vars(WorkerStep(w))
    /\ WF_vars(RecoverQueued) /\ WF_vars(CleanTerminal)

-----------------------------------------------------------------------------
(* Properties.                                                             *)

\* Whoever executes the job is the one attempt its record names and its capability is
\* consumed by; a capability that was revoked admits nobody.
RunnerIsAdmitted ==
    /\ \A w \in Workers : worker[w] = "running" => job.claim = w /\ cap.committed = w
    /\ cap.committed # "none" => job.claim = cap.committed /\ ~ cap.revoked

\* Wherever processes died, the record of a terminal job still proves what its capability
\* is reserved for or consumed by, as releaseExecutionReservation demands.
TerminalIsReleasable ==
    job.status \in Ends /\ job.reservation # "none" => ReleaseAccepted

\* Every attempt comes to an end: the queued job starts or ends, and what a terminal job
\* has reserved is given back.
AttemptConverges ==
    /\ job.status = "queued" ~> job.status # "queued"
    /\ job.status \in Ends ~> job.reservation = "none"

=============================================================================
