---------------------------- MODULE EndedRescue ----------------------------
(***************************************************************************)
(* What becomes of a bound, Host-owned Rescue when its session ends.       *)
(*                                                                         *)
(* A detached, marked runner executes the job: it claims it under a lease  *)
(* it holds until it exits, starts it, sends one turn to the engine and    *)
(* publishes what the turn came to (zcode-companion.mjs, review.mjs).      *)
(* Once SessionEnd has published its receipt, settlement passes work the   *)
(* job off: each persists a stop decision, stops the remote turn, kills    *)
(* the runner's process tree, elects a winner and discharges the receipt,  *)
(* or leaves all of it to a later pass (recovery.mjs,                      *)
(* rescue-lifecycle.mjs, hook-state.mjs).                                  *)
(*                                                                         *)
(* The job is one record: the steps of one store mutation are the subject  *)
(* of JobStore.  Its cancellation lock serializes a pass with the runner's *)
(* send and publication; every read made outside that lock, and every      *)
(* remote call, is a step of its own.                                      *)
(*                                                                         *)
(* A definition named D_Fault is a faulty variant of D: putting it in the  *)
(* place of D must violate a property.  Nothing else refers to it.         *)
(***************************************************************************)
EXTENDS Naturals

CONSTANTS
    Passes,     \* settlement passes that may run side by side
    Hooks,      \* those of SessionEnd itself; the others are those of later prompts
    MaxFaults   \* bound on the faults of one behaviour

ASSUME FaultsAssumption == MaxFaults \in Nat
ASSUME PassesAssumption == Passes \cap {"free", "runner"} = {} /\ Hooks \subseteq Passes

VARIABLES
    job,        \* the stored record
    runner,     \* the step the detached runner is at
    strays,     \* live descendants of the runner, its own death apart
    turn,       \* the remote turn
    acked,      \* who acknowledged a stop of the turn: its own engine or another
    replaced,   \* the broker rebuilt its engine after the turn was sent
    lock,       \* the job's cancellation lock
    pass,       \* the settlement passes
    receipt,    \* the SessionEnd receipt of the job's lifecycle epoch
    faults      \* faults so far

remote == <<turn, acked, replaced>>
tree   == <<runner, strays>>
vars   == <<job, runner, strays, turn, acked, replaced, lock, pass, receipt, faults>>

Started    == {"running", "cancelling"}
Unfinished == {"queued"} \cup Started
Ends       == {"succeeded", "failed", "cancelled"}

\* claim: the record names the runner's pid and lease.  boundary: the accepted
\* turn is recorded.  archived: failed without evidence of the turn.
Jobs == [status : Unfinished \cup Ends \cup {"unused"}, stop : BOOLEAN,
         claim : BOOLEAN, boundary : BOOLEAN, archived : BOOLEAN]
NoJob == [status |-> "unused", stop |-> FALSE, claim |-> FALSE,
          boundary |-> FALSE, archived |-> FALSE]

\* The runner holds the recorded lease while it is at work; the process outlives it.
Working == {"claimed", "running", "admitting", "sent", "observing", "erring",
            "doubting", "failing"}
RunnerSteps == Working \cup {"none", "leased", "exiting", "gone"}

TurnEnds == {"succeeded", "failed", "interrupted"}
Turns    == TurnEnds \cup {"none", "active", "idle"}
Readings == TurnEnds \cup {"none", "active", "idle", "foreign", "unreadable", "unavailable"}

PassSteps == {"idle", "read", "persist", "decide", "precheck", "stop", "reread",
              "redecide", "kill", "sweep", "publish", "report", "delegate", "recheck", "fence"}
Plans == {"none", "queued", "cancelled", "noReport", "succeeded", "failed", "archive",
          "retain", "discharge", "pending", "expired"}

\* A pass: the record it selected, what it last read of the turn, the answer to its
\* stop, whether one engine served its reads, what it means to do once the tree is
\* gone, the record of a race it lost, and whether it is the fence's second round.
PassStates == [step : PassSteps, view : Jobs, reading : Readings,
               reply : {"none", "refused", "acknowledged", "qualified"},
               same : BOOLEAN, plan : Plans, raced : Jobs, fenced : BOOLEAN]
Idle == [step |-> "idle", view |-> NoJob, reading |-> "none", reply |-> "none",
         same |-> FALSE, plan |-> "none", raced |-> NoJob, fenced |-> FALSE]

Init ==
    /\ job = NoJob
    /\ runner = "none" /\ strays = FALSE
    /\ turn = "none" /\ acked = "no" /\ replaced = FALSE
    /\ lock = "free"
    /\ pass = [p \in Passes |-> Idle]
    /\ receipt = "none"
    /\ faults = 0

Fault   == faults < MaxFaults /\ faults' = faults + 1
NoFault == UNCHANGED faults

Move(status) == job' = [job EXCEPT !.status = status]
Cancelled    == [job EXCEPT !.status = "cancelled", !.stop = TRUE]
Cancelling   == [job EXCEPT !.status = "cancelling", !.stop = TRUE]

\* A free lease proves the recorded runner released it.
LeaseHeld == job.claim /\ runner \in Working

-----------------------------------------------------------------------------
(* The runner.  It never waits for a pass except on the cancellation lock. *)

RunnerGoes(from, to) == runner = from /\ runner' = to
RunnerOnly == UNCHANGED <<strays, pass, receipt>>
Offline    == UNCHANGED <<turn, acked, replaced, lock>>

\* reserveFreshRescueJob, fenced by the receipts of its epoch.
Reserve ==
    /\ job = NoJob /\ receipt = "none"
    /\ Move("queued")
    /\ NoFault /\ Offline /\ UNCHANGED <<runner, strays, pass, receipt>>

\* executeWithWorkerLease takes a lease nobody can know of before the claim.
TakeLease ==
    /\ job.status = "queued"
    /\ RunnerGoes("none", "leased")
    /\ NoFault /\ Offline /\ RunnerOnly /\ UNCHANGED job

\* claimJobWorkerForExecution: refused by any receipt, pending or settled, and then
\* the job is left as it is.
ClaimExecution ==
    /\ runner = "leased"
    /\ IF job.status = "queued" /\ ~ job.stop /\ receipt = "none"
       THEN runner' = "claimed" /\ job' = [job EXCEPT !.claim = TRUE]
       ELSE runner' = "exiting" /\ UNCHANGED job
    /\ NoFault /\ Offline /\ RunnerOnly

\* Setup fails before the start: finishJobAfterExecutionClaimFailure.
FailToStart ==
    /\ runner \in {"leased", "claimed"} /\ runner' = "exiting"
    /\ job.status = "queued" /\ ~ job.stop
    /\ Move("failed")
    /\ Fault /\ Offline /\ RunnerOnly

\* cancelClaimedQueuedInterruption.
InterruptQueued ==
    /\ RunnerGoes("claimed", "exiting")
    /\ job.status = "queued" /\ lock = "free"
    /\ job' = Cancelled
    /\ Fault /\ Offline /\ RunnerOnly

StartJob_Fault ==
    /\ runner = "claimed"
    /\ IF job.status = "queued"
       THEN runner' = "running" /\ Move("running")
       ELSE runner' = "exiting" /\ UNCHANGED job
    /\ NoFault /\ Offline /\ RunnerOnly

StartJob ==
    /\ runner = "claimed"
    /\ IF job.status = "queued" /\ ~ job.stop
       THEN runner' = "running" /\ Move("running")
       ELSE runner' = "exiting" /\ UNCHANGED job
    /\ NoFault /\ Offline /\ RunnerOnly

\* Losing the Host child is no reason to stop a detached runner's turn.
Interrupt ==
    /\ runner \in {"running", "observing"} /\ runner' = "exiting"
    /\ Fault /\ Offline /\ RunnerOnly /\ UNCHANGED job

\* Any error before the send, waiting too long for the lock included.
PrepareFails ==
    /\ RunnerGoes("running", "failing")
    /\ Fault /\ Offline /\ RunnerOnly /\ UNCHANGED job

\* The final admission under the cancellation lock; a refusal keeps the record.
Admit ==
    /\ runner = "running" /\ lock = "free"
    /\ IF job.status = "running" /\ receipt = "none"
       THEN runner' = "admitting" /\ lock' = "runner"
       ELSE runner' = "exiting" /\ UNCHANGED lock
    /\ NoFault /\ RunnerOnly /\ UNCHANGED <<job, remote>>

Send ==
    /\ RunnerGoes("admitting", "sent")
    /\ turn' = "active"
    /\ NoFault /\ RunnerOnly /\ UNCHANGED <<job, acked, replaced, lock>>

\* The engine answers that it refuses, or no answer tells what became of the input.
SendFails ==
    /\ runner = "admitting" /\ lock' = "free"
    /\ \/ runner' = "erring" /\ UNCHANGED turn
       \/ runner' = "doubting" /\ turn' \in {"none", "active"}
    /\ Fault /\ RunnerOnly /\ UNCHANGED <<job, acked, replaced>>

\* An acknowledged stop, by the engine that runs the turn or by its replacement.
Acknowledge ==
    acked' = IF turn = "none" \/ acked = "own" THEN acked
             ELSE IF replaced THEN "other" ELSE "own"

\* The accepted turn is recorded before the lock is let go, unless a delegated stop
\* came first.
RecordBoundary ==
    /\ runner = "sent" /\ lock' = "free"
    /\ IF job.status = "running"
       THEN runner' = "observing" /\ job' = [job EXCEPT !.boundary = TRUE]
       ELSE runner' = "exiting" /\ UNCHANGED job
    /\ NoFault /\ RunnerOnly /\ UNCHANGED remote

\* The write fails: one attempt to stop what was sent, and the record is kept.
BoundaryFails ==
    /\ RunnerGoes("sent", "exiting") /\ lock' = "free"
    /\ job.status = "running"
    /\ Acknowledge \/ UNCHANGED acked
    /\ Fault /\ RunnerOnly /\ UNCHANGED <<job, turn, replaced>>

\* publishSuccessfulResult.
PublishResult ==
    /\ RunnerGoes("observing", "exiting") /\ lock = "free"
    /\ turn = "succeeded"
    /\ IF job.status = "running" THEN Move("succeeded") ELSE UNCHANGED job
    /\ NoFault /\ Offline /\ RunnerOnly

\* A failed turn, and an interrupted one once settleRemoteInterruption has declined it.
ObserveFailure ==
    /\ RunnerGoes("observing", "failing")
    /\ turn = "failed" \/ (turn = "interrupted" /\ lock = "free")
    /\ NoFault /\ Offline /\ RunnerOnly /\ UNCHANGED job

\* The observation itself fails, or the result of a turn that succeeded does.
ObserverFails ==
    /\ runner = "observing"
    /\ runner' = IF turn \in TurnEnds THEN "failing" ELSE "erring"
    /\ Fault /\ Offline /\ RunnerOnly /\ UNCHANGED job

\* The runner stops its own turn before it gives the job up as failed.
StopOwnTurn ==
    /\ runner \in {"erring", "doubting"}
    /\ IF job.status = "running"
       THEN Acknowledge /\ runner' = IF runner = "erring" THEN "failing" ELSE "exiting"
       ELSE UNCHANGED acked /\ runner' = "exiting"
    /\ NoFault /\ RunnerOnly /\ UNCHANGED <<job, turn, replaced, lock>>

OwnStopFails_Fault ==
    /\ runner \in {"erring", "doubting"} /\ runner' = "failing"
    /\ job.status = "running"
    /\ Fault /\ Offline /\ RunnerOnly /\ UNCHANGED job

OwnStopFails ==
    /\ runner \in {"erring", "doubting"} /\ runner' = "exiting"
    /\ job.status = "running"
    /\ Fault /\ Offline /\ RunnerOnly /\ UNCHANGED job

GiveUp ==
    /\ RunnerGoes("failing", "exiting")
    /\ IF job.status = "running" THEN Move("failed") ELSE UNCHANGED job
    /\ NoFault /\ Offline /\ RunnerOnly

Exit ==
    /\ RunnerGoes("exiting", "gone")
    /\ NoFault /\ Offline /\ RunnerOnly /\ UNCHANGED job

\* The locks of a dead process are free for the taking.
Unlock(holder) == lock' = IF lock = holder THEN "free" ELSE lock

Crash ==
    /\ runner \notin {"none", "gone"} /\ runner' = "gone"
    /\ Unlock("runner")
    /\ Fault /\ RunnerOnly /\ UNCHANGED <<job, remote>>

\* Descendants come from a runner at work; they may leave by themselves.
Descendants ==
    /\ strays' = ~ strays /\ (strays \/ runner \in Working)
    /\ NoFault /\ Offline /\ UNCHANGED <<job, runner, pass, receipt>>

-----------------------------------------------------------------------------
(* The engine and the Host.                                                *)

\* A turn ends on its own or because of a stop; one without a report is idle.
TurnEnded ==
    /\ turn = "active"
    /\ turn' \in TurnEnds \cup {"idle"}
    /\ NoFault /\ UNCHANGED <<job, tree, acked, replaced, lock, pass, receipt>>

\* clearProtocolGeneration and the lazy rebuild behind the same client socket.
ReplaceEngine ==
    /\ turn # "none" /\ ~ replaced
    /\ replaced' = TRUE
    /\ Fault /\ UNCHANGED <<job, tree, turn, acked, lock, pass, receipt>>

SessionEnds ==
    /\ job # NoJob /\ receipt = "none"
    /\ receipt' = "pending"
    /\ NoFault /\ Offline /\ UNCHANGED <<job, tree, pass>>

-----------------------------------------------------------------------------
(* A settlement pass: the obligation of one receipt, worked off once.      *)

At(p, step)  == pass[p].step = step
Goes(p, new) == pass' = [pass EXCEPT ![p] = new]
StepsTo(p, step) == Goes(p, [pass[p] EXCEPT !.step = step])

\* Every exit from remote control cleans up the runner's tree before `plan`.
CleanThen(p, plan) == Goes(p, [pass[p] EXCEPT !.step = "kill", !.plan = plan])

\* Ends the pass's control with the record of the race it lost.
LosesTo(p, winner) == Goes(p, [pass[p] EXCEPT !.step = "report", !.raced = winner])

PassOnly == UNCHANGED <<tree, remote, lock, receipt>>

\* settleEndedRescueJob: a terminal record owes its cleanup without the lock; a
\* contended lock leaves the job to its holder.
BeginPass(p) ==
    /\ receipt = "pending" /\ At(p, "idle")
    /\ \/ /\ job.status \in Ends
          /\ IF job.claim THEN CleanThen(p, "discharge") ELSE StepsTo(p, "report")
          /\ UNCHANGED lock
       \/ /\ job.status \in Unfinished /\ lock = "free"
          /\ lock' = p
          /\ Goes(p, [pass[p] EXCEPT !.view = job,
                                     !.step = IF job.status = "queued" THEN "persist" ELSE "read"])
       \/ /\ job.status \in Unfinished /\ lock # "free"
          /\ StepsTo(p, "report") /\ UNCHANGED lock
    /\ NoFault /\ UNCHANGED <<job, tree, remote, receipt>>

\* What a session read shows of the turn.  Without the recorded boundary nothing is
\* this turn's; nor is the unfinished state an engine rebuilt from storage shows, nor
\* a turn whose input the snapshot does not hold yet.
Readable ==
    IF ~ job.boundary \/ (replaced /\ turn \notin TurnEnds) THEN {"foreign"}
    ELSE IF replaced \/ turn = "active" THEN {turn, "foreign"}
    ELSE {turn}

\* loadEndedRescueJoinedState, after the binding guard has seen the selected record.
ReadRemote(p) ==
    /\ At(p, "read")
    /\ LET next == IF pass[p].view.stop THEN "decide" ELSE "persist"
           Reads(r) == Goes(p, [pass[p] EXCEPT !.reading = r, !.step = next])
       IN IF job.status # pass[p].view.status
          THEN LosesTo(p, job) /\ NoFault
          ELSE \/ NoFault /\ \E r \in Readable : Reads(r)
               \/ Fault /\ \E r \in {"unreadable", "unavailable"} : Reads(r)
    /\ PassOnly /\ UNCHANGED job

\* persistEndedStopIntent for a queued job.  The record stays queued: a claimed one
\* carries the decision, an unclaimed one is settled by the cancellation itself.
PersistQueued_Fault(p) ==
    /\ At(p, "persist") /\ pass[p].view.status = "queued"
    /\ IF ~ pass[p].view.claim
       THEN StepsTo(p, "report") /\ UNCHANGED job
       ELSE IF pass[p].view.stop \/ job.status = "queued"
       THEN /\ CleanThen(p, "queued")
            /\ job' = IF pass[p].view.stop THEN job ELSE [job EXCEPT !.stop = TRUE]
       ELSE LosesTo(p, job) /\ UNCHANGED job
    /\ NoFault /\ PassOnly

PersistQueued(p) ==
    /\ At(p, "persist") /\ pass[p].view.status = "queued"
    /\ IF ~ pass[p].view.claim
       THEN Goes(p, [pass[p] EXCEPT !.step = "publish", !.plan = "queued"]) /\ UNCHANGED job
       ELSE IF pass[p].view.stop \/ job.status = "queued"
       THEN /\ CleanThen(p, "queued")
            /\ job' = IF pass[p].view.stop THEN job ELSE [job EXCEPT !.stop = TRUE]
       ELSE LosesTo(p, job) /\ UNCHANGED job
    /\ NoFault /\ PassOnly

\* persistEndedStopIntent for a started job: no remote control before this write.
PersistStarted(p) ==
    /\ At(p, "persist") /\ pass[p].view.status \in Started
    /\ IF job.status \in Ends
       THEN LosesTo(p, job) /\ UNCHANGED job
       ELSE StepsTo(p, "decide") /\ job' = Cancelling
    /\ NoFault /\ PassOnly

\* settleRemoteEvidence before any stop.
Decide_Fault(p) ==
    /\ At(p, "decide")
    /\ LET r == pass[p].reading IN
       CASE r = "unavailable" -> CleanThen(p, "archive")
         [] r \in {"succeeded", "idle"} -> CleanThen(p, "succeeded")
         [] r = "failed" -> CleanThen(p, r)
         [] r = "interrupted" -> CleanThen(p, "cancelled")
         [] r = "foreign" -> CleanThen(p, "retain")
         [] OTHER -> StepsTo(p, "precheck")
    /\ NoFault /\ PassOnly /\ UNCHANGED job

Decide(p) ==
    /\ At(p, "decide")
    /\ LET r == pass[p].reading IN
       CASE r = "unavailable" -> CleanThen(p, "archive")
         [] r \in {"succeeded", "failed"} -> CleanThen(p, r)
         [] r = "interrupted" -> CleanThen(p, "cancelled")
         [] r = "foreign" -> CleanThen(p, "retain")
         [] OTHER -> StepsTo(p, "precheck")
    /\ NoFault /\ PassOnly /\ UNCHANGED job

\* The read at the stop site: a turn that ended by itself keeps its own end, and
\* `same` says whether one engine has served the reads so far.
Precheck(p) ==
    /\ At(p, "precheck")
    /\ \/ /\ \E r \in Readable :
               IF r \in {"succeeded", "failed"} THEN CleanThen(p, r)
               ELSE Goes(p, [pass[p] EXCEPT !.step = "stop",
                      !.same = pass[p].reading \in {"active", "idle"}
                               /\ ~ replaced /\ r # "foreign"])
          /\ NoFault
       \/ /\ Goes(p, [pass[p] EXCEPT !.step = "stop",
                                     !.same = pass[p].reading \in {"active", "idle"}])
          /\ Fault
    /\ PassOnly /\ UNCHANGED job

\* stopExactTurn.  Only the engine that served the attributable read may qualify.
Stop(p) ==
    /\ At(p, "stop")
    /\ \/ /\ Acknowledge /\ NoFault
          /\ Goes(p, [pass[p] EXCEPT !.step = "reread",
                 !.reply = IF pass[p].same /\ ~ replaced THEN "qualified" ELSE "acknowledged"])
       \/ /\ UNCHANGED acked /\ Fault
          /\ Goes(p, [pass[p] EXCEPT !.step = "reread", !.reply = "refused"])
    /\ UNCHANGED <<job, tree, turn, replaced, lock, receipt>>

\* rereadRemote: a failed read may still say which engine failed it.
Reread(p) ==
    /\ At(p, "reread")
    /\ \/ /\ \E r \in Readable :
               Goes(p, [pass[p] EXCEPT !.step = "redecide", !.reading = r, !.same = ~ replaced])
          /\ NoFault
       \/ /\ \E known \in BOOLEAN :
               Goes(p, [pass[p] EXCEPT !.step = "redecide", !.reading = "unreadable",
                                       !.same = known /\ ~ replaced])
          /\ Fault
    /\ PassOnly /\ UNCHANGED job

\* settleRemoteEvidence after the stop.
Redecide_Fault(p) ==
    /\ At(p, "redecide")
    /\ LET r == pass[p].reading
           reply == pass[p].reply
       IN CASE r = "succeeded" -> CleanThen(p, r)
            [] r = "interrupted" -> CleanThen(p, "cancelled")
            [] r = "failed" /\ reply # "refused" -> CleanThen(p, "cancelled")
            [] r \in {"idle", "unreadable"} -> CleanThen(p, "noReport")
            [] OTHER -> CleanThen(p, "retain")
    /\ NoFault /\ PassOnly /\ UNCHANGED job

Redecide(p) ==
    /\ At(p, "redecide")
    /\ LET r == pass[p].reading
           reply == pass[p].reply
       IN CASE r = "succeeded" -> CleanThen(p, r)
            [] r = "interrupted" -> CleanThen(p, "cancelled")
            [] r = "failed" /\ reply # "refused" -> CleanThen(p, "cancelled")
            [] r \in {"idle", "unreadable"} /\ reply = "qualified" -> CleanThen(p, "noReport")
            [] OTHER -> CleanThen(p, "retain")
    /\ NoFault /\ PassOnly /\ UNCHANGED job

\* The control budget runs out after the decision is durable: only the cleanup is
\* left to do.
Expire(p) ==
    /\ pass[p].step \in {"decide", "precheck", "stop", "reread", "redecide"}
    /\ CleanThen(p, "expired")
    /\ Fault /\ PassOnly /\ UNCHANGED job

\* A duty that did not end in a clean sweep settles nothing.
Unsettled(p) == Goes(p, [pass[p] EXCEPT !.step = "report",
                             !.plan = IF @ = "discharge" THEN "pending" ELSE @])

KillRunner == runner' = "gone" /\ Unlock("runner")

\* terminateLeasedProcessTree: only the holder of the recorded lease is signalled.
\* The budget may run out before the signal, or halfway through the tree.
Kill(p) ==
    /\ At(p, "kill")
    /\ \/ /\ IF LeaseHeld THEN KillRunner /\ strays' \in {FALSE, strays}
             ELSE UNCHANGED <<tree, lock>>
          /\ StepsTo(p, "sweep") /\ NoFault
       \/ /\ (UNCHANGED <<tree, lock>>) \/ (LeaseHeld /\ KillRunner /\ UNCHANGED strays)
          /\ Unsettled(p) /\ Fault
    /\ UNCHANGED <<job, remote, receipt>>

\* sweepDeadRootForDuty: clean when the root is dead and nothing is left to signal.
Sweep_Fault(p) ==
    /\ At(p, "sweep")
    /\ strays' = FALSE
    /\ StepsTo(p, IF pass[p].plan \in {"retain", "discharge", "expired"} THEN "report" ELSE "publish")
    /\ NoFault /\ UNCHANGED <<job, runner, remote, lock, receipt>>

Sweep(p) ==
    /\ At(p, "sweep")
    /\ \/ /\ IF runner \notin {"none", "gone"} THEN Unsettled(p) /\ UNCHANGED strays
             ELSE IF strays THEN Unsettled(p) /\ strays' = FALSE
             ELSE /\ StepsTo(p, IF pass[p].plan \in {"retain", "discharge", "expired"}
                                THEN "report" ELSE "publish")
                  /\ UNCHANGED strays
          /\ NoFault
       \/ Unsettled(p) /\ UNCHANGED strays /\ Fault
    /\ UNCHANGED <<job, runner, remote, lock, receipt>>

\* The record the plan may publish now, by the store's own compare-and-set.
Published(p) ==
    CASE pass[p].plan = "queued" /\ job.status = "queued" /\ ~ LeaseHeld -> Cancelled
      [] pass[p].plan = "cancelled" /\ job.status = "cancelling" -> Cancelled
      [] /\ pass[p].plan = "noReport" /\ pass[p].same
         /\ job.status = "cancelling" /\ job.stop /\ ~ LeaseHeld -> Cancelled
      [] pass[p].plan \in {"succeeded", "failed"} /\ job.status \in Started ->
             [job EXCEPT !.status = pass[p].plan]
      [] /\ pass[p].plan = "archive" /\ job.boundary
         /\ job.status \in Started /\ ~ LeaseHeld ->
             [job EXCEPT !.status = "failed", !.archived = TRUE]
      [] OTHER -> job

\* publishEndedWinner and failEndedUnavailableJob.
Publish(p) ==
    /\ At(p, "publish")
    /\ job' = Published(p)
    /\ StepsTo(p, "report")
    /\ NoFault /\ PassOnly

\* endedObligationSettled: an end, or a stop decision that outlives the receipt.
Discharges(j) == j.status \in Ends \/ (j.status = "cancelling" /\ j.stop)

SettleReceipt == receipt' = IF receipt = "pending" THEN "settled" ELSE receipt

\* The obligation is discharged: a prompt settles the receipt, unless another
\* obligation keeps it pending; the hook first has its fence look again.
Discharged(p) ==
    IF p \in Hooks /\ ~ pass[p].fenced
    THEN StepsTo(p, "fence") /\ UNCHANGED receipt /\ NoFault
    ELSE Goes(p, Idle) /\ ((SettleReceipt /\ NoFault) \/ (UNCHANGED receipt /\ Fault))

GivesUp(p) == Goes(p, Idle) /\ UNCHANGED receipt /\ NoFault

\* What the two callers of settleEndedRescueJob do with its outcome; the fence has no
\* second delegation.
Report(p) ==
    /\ At(p, "report") /\ Unlock(p)
    /\ LET plan == pass[p].plan
           winner == IF pass[p].raced # NoJob THEN pass[p].raced ELSE job
       IN IF plan = "expired" THEN GivesUp(p)
          ELSE IF plan # "pending" /\ Discharges(winner) THEN Discharged(p)
          ELSE IF pass[p].fenced THEN GivesUp(p)
          ELSE StepsTo(p, "delegate") /\ UNCHANGED receipt /\ NoFault
    /\ UNCHANGED <<job, tree, remote>>

\* delegateEndedStopIntent, without the cancellation lock.
Delegation == IF job.status = "running" THEN Cancelling
              ELSE IF job.status = "queued" /\ job.claim THEN [job EXCEPT !.stop = TRUE]
              ELSE job

Delegate(p) ==
    /\ At(p, "delegate")
    /\ job' = Delegation
    /\ StepsTo(p, "recheck")
    /\ NoFault /\ PassOnly

\* What was delegated discharges the obligation too, except an end whose runner's
\* cleanup nothing proves.
Recheck_Fault(p) ==
    /\ At(p, "recheck")
    /\ IF job.stop /\ ~ (job.status \in Ends /\ job.claim) THEN Discharged(p) ELSE GivesUp(p)
    /\ UNCHANGED <<job, tree, remote, lock>>

Recheck(p) ==
    /\ At(p, "recheck")
    /\ IF Discharges(job) /\ ~ (job.status \in Ends /\ job.claim)
       THEN Discharged(p) ELSE GivesUp(p)
    /\ UNCHANGED <<job, tree, remote, lock>>

\* runSessionEndDischargeFence: what is still an obligation is delegated once more,
\* and a record with a runner's claim is settled once more whatever its status.
DischargeFence_Fault(p) ==
    /\ At(p, "fence")
    /\ job' = Delegation
    /\ IF Discharges(job')
       THEN Goes(p, Idle) /\ SettleReceipt
       ELSE Goes(p, [Idle EXCEPT !.fenced = TRUE]) /\ UNCHANGED receipt
    /\ NoFault /\ UNCHANGED <<tree, remote, lock>>

DischargeFence(p) ==
    /\ At(p, "fence")
    /\ job' = Delegation
    /\ IF Discharges(job') /\ ~ job'.claim
       THEN Goes(p, Idle) /\ SettleReceipt
       ELSE Goes(p, [Idle EXCEPT !.fenced = TRUE]) /\ UNCHANGED receipt
    /\ NoFault /\ UNCHANGED <<tree, remote, lock>>

PassDies(p) ==
    /\ pass[p] # Idle /\ Goes(p, Idle) /\ Unlock(p)
    /\ Fault /\ UNCHANGED <<job, tree, remote, receipt>>

-----------------------------------------------------------------------------
RunnerStep ==
    \/ ClaimExecution \/ StartJob \/ Admit \/ Send \/ RecordBoundary \/ PublishResult
    \/ ObserveFailure \/ StopOwnTurn \/ GiveUp \/ Exit

RunnerFault ==
    \/ FailToStart \/ InterruptQueued \/ Interrupt \/ PrepareFails \/ SendFails
    \/ BoundaryFails \/ ObserverFails \/ OwnStopFails \/ Crash

PassStep(p) ==
    \/ BeginPass(p) \/ ReadRemote(p) \/ PersistQueued(p) \/ PersistStarted(p) \/ Decide(p)
    \/ Precheck(p) \/ Stop(p) \/ Reread(p) \/ Redecide(p) \/ Kill(p) \/ Sweep(p)
    \/ Publish(p) \/ Report(p) \/ Delegate(p) \/ Recheck(p) \/ DischargeFence(p)

Environment ==
    \/ Reserve \/ TakeLease \/ Descendants \/ TurnEnded \/ ReplaceEngine \/ SessionEnds

Next ==
    \/ RunnerStep \/ RunnerFault \/ Environment
    \/ \E p \in Passes : PassStep(p) \/ Expire(p) \/ PassDies(p)

Spec == Init /\ [][Next]_vars

\* Processes that are not killed go on, and every later prompt of the session begins
\* another pass while the receipt is pending.  Nothing is asked of the engine.
FairSpec ==
    /\ Spec
    /\ WF_vars(RunnerStep)
    /\ \A p \in Passes : WF_vars(PassStep(p))

-----------------------------------------------------------------------------
(* Properties.                                                             *)

TypeOK ==
    /\ job \in Jobs
    /\ runner \in RunnerSteps
    /\ strays \in BOOLEAN /\ replaced \in BOOLEAN
    /\ turn \in Turns
    /\ acked \in {"no", "other", "own"}
    /\ lock \in Passes \cup {"free", "runner"}
    /\ pass \in [Passes -> PassStates]
    /\ receipt \in {"none", "pending", "settled"}
    /\ faults \in 0 .. MaxFaults

\* A turn that runs and that nobody has stopped still holds the writable slot: its
\* job is unfinished, unless its channel was lost and the job was archived for that.
ExclusionHeld ==
    turn = "active" /\ acked = "no" => job.status \in Unfinished \/ job.archived

\* A cancelled job has no turn, or one its own engine was told to stop, or one that
\* was seen to have failed or to have been interrupted.
CancelledIsStopped ==
    job.status = "cancelled" =>
        turn \in {"none", "failed", "interrupted"} \/ acked = "own"

\* A published result is the turn's.
ResultIsReal == job.status = "succeeded" => turn = "succeeded"

\* Discharging the receipt never drops work: the job has ended, or the decision to
\* stop it is durable and stays so.
SettledIsDecided ==
    receipt = "settled" => job.status \in Ends \/ (job.status = "cancelling" /\ job.stop)

\* A pass ends a job that its runner had claimed only once the runner and all its
\* descendants are gone.
PublishesOverGoneTree ==
    [][\A p \in Passes :
          /\ At(p, "publish") /\ pass'[p] # pass[p]
          /\ job.claim /\ job.status \notin Ends /\ job'.status \in Ends
          => runner = "gone" /\ ~ strays]_vars

\* A pass stops a turn only under the lock and after its decision is durable.
StopsOnlyDecided ==
    [][\A p \in Passes :
          At(p, "stop") /\ pass'[p].step = "reread" =>
              lock = p /\ job.status = "cancelling" /\ job.stop]_vars

\* The comment on settleTerminalRunnerDuty: a terminal job with a marked runner claim
\* settles only over a tree proven gone.
DischargedOverGoneTree ==
    [][receipt = "pending" /\ receipt' = "settled" /\ job.status \in Ends /\ job.claim
          => runner = "gone" /\ ~ strays]_vars

\* What the discharge fence is for: of the hook's own passes that comment is true, also
\* while passes of prompts run beside them.
HookDischargesOverGoneTree ==
    [][receipt = "pending" /\ receipt' = "settled" /\ job.status \in Ends /\ job.claim
       /\ (\E p \in Hooks : pass'[p] # pass[p])
          => runner = "gone" /\ ~ strays]_vars

\* However the runner, the engine and the passes interleave, the receipt is settled.
ReceiptSettles == receipt = "pending" ~> receipt = "settled"

\* The job goes through its life as WritableJobs has it.
Writable == INSTANCE WritableJobs
    WITH Ids <- {"job"},
         status <- [i \in {"job"} |-> job.status],
         decided <- IF job.stop THEN {"job"} ELSE {}

ImplementsWritableJobs == Writable!Spec
=============================================================================
