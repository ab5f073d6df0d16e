------------------------ MODULE ExecutionAdmissionProofs ------------------------
(***************************************************************************)
(* Proofs about ExecutionAdmission, for any set of workers and any number  *)
(* of faults.  The two stores share no transaction, so what ties them is   *)
(* an invariant over both and over the steps of the workers between them:  *)
(* once the record names the lease of one attempt it names no other lease  *)
(* for ever, and everything the capability is reserved for, committed to   *)
(* or executed under is that lease.                                        *)
(***************************************************************************)
EXTENDS ExecutionAdmission, TLAPS

\* Before the creator has published the reservation there is nothing to admit.
Unpublished ==
    creator \in {"create", "publish"} =>
        /\ ~ spec
        /\ job.reservation = "none" /\ job.claim = "none"
        /\ cap.reserved = "none" /\ cap.committed = "none"
        /\ \A w \in Workers : worker[w] = "idle"

\* The record names at most one lease, or has forgotten it; the capability follows it.
OneLease ==
    /\ job.claim # "none" => job.reservation \in {job.claim, "none"}
    /\ cap.reserved # "none" => job.reservation \in {cap.reserved, "none"}
    /\ cap.committed # "none" => job.claim = cap.committed /\ ~ cap.revoked

\* What a worker between two writes knows of the stores.
StepLease ==
    \A w \in Workers :
        /\ worker[w] = "reserve" => job.reservation \in {w, "none"}
        /\ worker[w] = "commit" => job.claim = w
        /\ worker[w] \in {"start", "running"} => job.claim = w /\ cap.committed = w

AdmissionInv == TypeOK /\ Unpublished /\ OneLease /\ StepLease

LEMMA InitAdmission == Init => AdmissionInv
<1> SUFFICES ASSUME Init PROVE AdmissionInv
  OBVIOUS
<1>1. TypeOK
  <2>1. job \in [status: {"queued", "running"} \cup Ends, claim: Lease, reservation: Reservation]
    BY DEF Init, Ends, Lease, Reservation
  <2>2. cap \in [issued: BOOLEAN, revoked: BOOLEAN, reserved: Lease, committed: Lease]
    BY DEF Init, Lease
  <2>3. worker \in [Workers -> WorkerSteps]
    BY DEF Init, WorkerSteps
  <2>4. spec \in BOOLEAN /\ creator \in CreatorSteps /\ canceller \in {"idle", "unclaimed"}
    BY DEF Init, CreatorSteps
  <2>5. cleaner \in Workers \cup {"none", "recovery"} /\ faults \in 0..MaxFaults
    BY AdmissionAssumption DEF Init
  <2> QED
    BY <2>1, <2>2, <2>3, <2>4, <2>5 DEF TypeOK
<1>2. Unpublished /\ OneLease /\ StepLease
  BY DEF Init, Unpublished, OneLease, StepLease
<1> QED
  BY <1>1, <1>2 DEF AdmissionInv

\* The steps of the creator keep the invariant: only the first publication writes a
\* reservation, and a revocation finds no commitment.
LEMMA CreatorKeepsAdmission ==
  ASSUME AdmissionInv, CreatorStep \/ Launch \/ CreatorDies
  PROVE  AdmissionInv'
<1> USE AdmissionAssumption
    DEF AdmissionInv, TypeOK, Unpublished, OneLease, StepLease, Ends, Lease, Reservation,
        CreatorSteps, WorkerSteps, Creator, CreatorOnly, Fault, NoFault
<1>1. CASE CreateCapability
  <2>1. TypeOK'
    <3>1. cap' \in [issued: BOOLEAN, revoked: BOOLEAN, reserved: Lease, committed: Lease]
      BY <1>1 DEF CreateCapability
    <3>2. creator' \in CreatorSteps /\ faults' \in 0..MaxFaults
      BY <1>1 DEF CreateCapability
    <3> QED
      BY <1>1, <3>1, <3>2 DEF CreateCapability
  <2>2. Unpublished'
    BY <1>1 DEF CreateCapability
  <2>3. OneLease'
    BY <1>1 DEF CreateCapability
  <2>4. StepLease'
    BY <1>1 DEF CreateCapability
  <2> QED
    BY <2>1, <2>2, <2>3, <2>4
<1>2. CASE PublishReservation
  <2>1. TypeOK'
    BY <1>2 DEF PublishReservation
  <2>2. Unpublished'
    BY <1>2 DEF PublishReservation
  <2>3. OneLease'
    BY <1>2 DEF PublishReservation
  <2>4. StepLease'
    BY <1>2 DEF PublishReservation
  <2> QED
    BY <2>1, <2>2, <2>3, <2>4
<1>3. CASE WriteJobSpec
  <2>1. TypeOK'
    <3>1. spec' = TRUE \/ spec' = spec
      BY <1>3 DEF WriteJobSpec
    <3>2. creator' \in CreatorSteps /\ faults' \in 0..MaxFaults
      BY <1>3 DEF WriteJobSpec
    <3>3. spec' \in BOOLEAN
      BY <3>1, Zenon
    <3>4. UNCHANGED <<job, cap, worker, canceller, cleaner>>
      BY <1>3 DEF WriteJobSpec
    <3> QED
      BY <3>2, <3>3, <3>4
  <2>2. Unpublished'
    BY <1>3 DEF WriteJobSpec
  <2>3. OneLease'
    BY <1>3 DEF WriteJobSpec
  <2>4. StepLease'
    BY <1>3 DEF WriteJobSpec
  <2> QED
    BY <2>1, <2>2, <2>3, <2>4
<1>4. CASE Launch
  BY <1>4 DEF Launch
<1>5. CASE RevokeCapability
  BY <1>5 DEF RevokeCapability, Available
<1>6. CASE FailQueuedJob
  BY <1>6 DEF FailQueuedJob, Finish
<1>7. CASE CreatorDies
  BY <1>7 DEF CreatorDies
<1> QED
  BY <1>1, <1>2, <1>3, <1>4, <1>5, <1>6, <1>7 DEF CreatorStep

\* The writes by which a worker is admitted keep the invariant.
LEMMA AdmissionKeepsAdmission ==
  ASSUME AdmissionInv, NEW w \in Workers,
         FenceExecution(w) \/ ReserveCapability(w) \/ ClaimExecution(w) \/ CommitCapability(w)
  PROVE  AdmissionInv'
<1> USE AdmissionAssumption
    DEF AdmissionInv, TypeOK, Unpublished, OneLease, StepLease, Ends, Lease, Reservation,
        CreatorSteps, WorkerSteps, WorkerOnly, Fault, NoFault, At, Goes
<1>1. CASE FenceExecution(w)
  <2>1. TypeOK'
    BY <1>1 DEF FenceExecution
  <2>2. Unpublished'
    BY <1>1 DEF FenceExecution
  <2>3. OneLease'
    BY <1>1 DEF FenceExecution
  <2>4. StepLease'
    BY <1>1 DEF FenceExecution
  <2> QED
    BY <2>1, <2>2, <2>3, <2>4
<1>2. CASE ReserveCapability(w)
  BY <1>2 DEF ReserveCapability, Available
<1>3. CASE ClaimExecution(w)
  BY <1>3 DEF ClaimExecution, MayClaim
<1>4. CASE CommitCapability(w)
  <2>0. \/ Goes(w, "start") \/ Goes(w, "compensate")
    BY <1>4 DEF CommitCapability
  <2>1. CASE Available /\ cap' = [cap EXCEPT !.committed = w, !.reserved = "none"]
    <3>1. /\ cap'.issued = cap.issued /\ cap'.revoked = cap.revoked
          /\ cap'.committed = w /\ cap'.reserved = "none"
      BY <2>1
    <3>2. cap.committed = "none" /\ ~ cap.revoked /\ job.claim = w /\ worker[w] = "commit"
      BY <1>4, <2>1 DEF CommitCapability, Available
    <3>3. UNCHANGED <<job, spec, creator, canceller, cleaner>> /\ faults' \in 0..MaxFaults
      BY <1>4 DEF CommitCapability
    <3>4. TypeOK'
      <4>1. cap' \in [issued: BOOLEAN, revoked: BOOLEAN, reserved: Lease, committed: Lease]
        BY <2>1
      <4>2. worker' \in [Workers -> WorkerSteps]
        BY <2>0
      <4> QED
        BY <3>3, <4>1, <4>2
    <3>5. Unpublished' /\ OneLease'
      BY <3>1, <3>2, <3>3
    <3>6. StepLease'
      BY <2>0, <3>1, <3>2, <3>3
    <3> QED
      BY <3>4, <3>5, <3>6
  <2>2. CASE Goes(w, "compensate") /\ UNCHANGED cap
    BY <1>4, <2>2 DEF CommitCapability
  <2> QED
    BY <1>4, <2>1, <2>2 DEF CommitCapability
<1> QED
  BY <1>1, <1>2, <1>3, <1>4

\* The other steps of a worker keep the invariant.
LEMMA WorkerKeepsAdmission ==
  ASSUME AdmissionInv, NEW w \in Workers,
         \/ BeginWorker(w) \/ Compensate(w) \/ StartJob(w) \/ CleanUp(w)
         \/ EndJob(w) \/ WorkerDies(w)
  PROVE  AdmissionInv'
<1> USE AdmissionAssumption
    DEF AdmissionInv, TypeOK, Unpublished, OneLease, StepLease, Ends, Lease, Reservation,
        CreatorSteps, WorkerSteps, WorkerOnly, Fault, NoFault, At, Goes
<1>1. CASE BeginWorker(w)
  <2>1. TypeOK'
    BY <1>1 DEF BeginWorker
  <2>2. Unpublished'
    BY <1>1 DEF BeginWorker
  <2>3. OneLease'
    BY <1>1 DEF BeginWorker
  <2>4. StepLease'
    BY <1>1 DEF BeginWorker
  <2> QED
    BY <2>1, <2>2, <2>3, <2>4
<1>2. CASE Compensate(w)
  BY <1>2 DEF Compensate, Finish
<1>3. CASE StartJob(w)
  BY <1>3 DEF StartJob, Finish
<1>4. CASE CleanUp(w)
  BY <1>4 DEF CleanUp, ReleaseCapability, ClearReservation
<1>5. CASE EndJob(w)
  BY <1>5 DEF EndJob, Finish
<1>6. CASE WorkerDies(w)
  <2>1. TypeOK'
    BY <1>6 DEF WorkerDies, Holds
  <2>2. Unpublished'
    BY <1>6 DEF WorkerDies, Holds
  <2>3. OneLease'
    BY <1>6 DEF WorkerDies, Holds
  <2>4. StepLease'
    BY <1>6 DEF WorkerDies, Holds
  <2> QED
    BY <2>1, <2>2, <2>3, <2>4
<1> QED
  BY <1>1, <1>2, <1>3, <1>4, <1>5, <1>6

\* Recovery, cleanup and cancellation keep the invariant.
LEMMA LaterCommandsKeepAdmission ==
  ASSUME AdmissionInv,
         \/ RecoverQueued \/ RecoverRunning \/ CleanTerminal
         \/ ReadForCancel \/ CancelUnclaimed \/ CancelRunning
  PROVE  AdmissionInv'
<1> USE AdmissionAssumption
    DEF AdmissionInv, TypeOK, Unpublished, OneLease, StepLease, Ends, Lease, Reservation,
        CreatorSteps, WorkerSteps, Elsewhere, Fault, NoFault, Finish
<1>1. CASE RecoverQueued
  BY <1>1 DEF RecoverQueued
<1>2. CASE RecoverRunning
  BY <1>2 DEF RecoverRunning
<1>3. CASE CleanTerminal
  BY <1>3 DEF CleanTerminal, ReleaseCapability, ClearReservation
<1>4. CASE ReadForCancel
  BY <1>4 DEF ReadForCancel
<1>5. CASE CancelUnclaimed
  BY <1>5 DEF CancelUnclaimed
<1>6. CASE CancelRunning
  BY <1>6 DEF CancelRunning
<1> QED
  BY <1>1, <1>2, <1>3, <1>4, <1>5, <1>6

LEMMA NextKeepsAdmission == AdmissionInv /\ [Next]_vars => AdmissionInv'
<1> SUFFICES ASSUME AdmissionInv, [Next]_vars PROVE AdmissionInv'
  OBVIOUS
<1>1. CASE CreatorStep \/ Launch \/ CreatorDies
  BY <1>1, CreatorKeepsAdmission
<1>2. CASE \E w \in Workers : BeginWorker(w) \/ WorkerStep(w) \/ EndJob(w) \/ WorkerDies(w)
  BY <1>2, AdmissionKeepsAdmission, WorkerKeepsAdmission DEF WorkerStep
<1>3. CASE \/ RecoverQueued \/ RecoverRunning \/ CleanTerminal
           \/ ReadForCancel \/ CancelUnclaimed \/ CancelRunning
  BY <1>3, LaterCommandsKeepAdmission
<1>4. CASE UNCHANGED vars
  BY <1>4 DEF vars, AdmissionInv, TypeOK, Unpublished, OneLease, StepLease
<1> QED
  BY <1>1, <1>2, <1>3, <1>4 DEF Next

\* The invariant holds in every reachable state.
LEMMA AdmissionInvariance == Spec => []AdmissionInv
  BY InitAdmission, NextKeepsAdmission, PTL DEF Spec

\* Type correctness of the record, the capability and the processes between their writes.
THEOREM AdmissionTypes == Spec => []TypeOK
<1>1. AdmissionInv => TypeOK
  BY DEF AdmissionInv
<1> QED
  BY <1>1, AdmissionInvariance, PTL

\* However many workers are given the token, and wherever processes die between the four
\* writes, only the attempt that the record names and the capability is consumed by runs.
THEOREM SingleAdmission == Spec => []RunnerIsAdmitted
<1>1. AdmissionInv => RunnerIsAdmitted
  BY DEF AdmissionInv, StepLease, OneLease, RunnerIsAdmitted
<1> QED
  BY <1>1, AdmissionInvariance, PTL

\* Two workers never execute the job side by side.
THEOREM OneRunner ==
  Spec => [](\A v, w \in Workers : worker[v] = "running" /\ worker[w] = "running" => v = w)
<1>1. AdmissionInv
        => \A v, w \in Workers : worker[v] = "running" /\ worker[w] = "running" => v = w
  BY DEF AdmissionInv, StepLease
<1> QED
  BY <1>1, AdmissionInvariance, PTL

\* The record of a terminal job is always accepted as the proof that releases what its
\* capability is reserved for, so no crash leaves a reservation that recovery cannot clear.
THEOREM ReservationReleasable == Spec => []TerminalIsReleasable
<1>1. AdmissionInv => TerminalIsReleasable
  <2> SUFFICES ASSUME AdmissionInv, job.reservation # "none" PROVE ReleaseAccepted
    BY DEF TerminalIsReleasable
  <2>1. CASE cap.committed # "none"
    <3>1. job.reservation = cap.committed
      BY <2>1 DEF AdmissionInv, OneLease
    <3> QED
      BY <2>1, <3>1 DEF ReleaseAccepted
  <2>2. CASE cap.committed = "none"
    <3>1. cap.reserved \in {"none", job.reservation}
      BY DEF AdmissionInv, OneLease
    <3> QED
      BY <2>2, <3>1 DEF ReleaseAccepted
  <2> QED
    BY <2>1, <2>2
<1> QED
  BY <1>1, AdmissionInvariance, PTL

=============================================================================
