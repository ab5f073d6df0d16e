---------------------------- MODULE CancelElection ----------------------------
(***************************************************************************)
(* The cancel command of a writable Rescue.  Commands of one owner run in  *)
(* several processes.  Each looks at the attempt journal, takes the        *)
(* cancellation lock or waits for it, lets the shared reconciler persist   *)
(* the stop and converge, and only then elects: it adopts the attempt the  *)
(* journal holds, or the failure of it, or starts an attempt of its own.   *)
(* What the journal keeps of an attempt outlives the lock and the command. *)
(*                                                                         *)
(* The detached runner, its turn and a delegated stop of an ending session *)
(* go on meanwhile.  A pass of the shared reconciler is one step here;     *)
(* EndedRescue has its inside.                                             *)
(* A definition named D_Fault is a faulty variant of D.                    *)
(***************************************************************************)
EXTENDS Naturals, FiniteSets

CONSTANTS
    Callers,       \* the cancel commands
    MaxFaults      \* how many stops, kills, writes or processes may fail

ASSUME CancelAssumption ==
    /\ IsFiniteSet(Callers) /\ MaxFaults \in Nat
    /\ {"free", "runner"} \cap Callers = {}

VARIABLES
    job,        \* the record: its status, its stop decision, its claim, its turn boundary
    runner,     \* the detached runner
    strays,     \* do descendants of the runner live
    turn,       \* the remote turn
    lock,       \* who holds the cancellation lock
    journal,    \* the attempt journal: the number of the attempt and its status
    caller,     \* the commands
    faults

process == <<runner, strays>>
vars == <<job, process, turn, lock, journal, caller, faults>>

Ends == {"succeeded", "failed", "cancelled"}
Statuses == {"queued", "running", "cancelling"} \cup Ends
Working == {"claimed", "running", "sent", "observing"}
RunnerSteps == {"none", "exiting", "gone"} \cup Working
Turns == {"none", "active", "succeeded", "failed", "interrupted"}

AttemptStatuses == {"active", "failed-pending-release", "failed", "finalize-pending", "succeeded"}
Attempts == 1..Cardinality(Callers)
NoAttempt == [id |-> 0, status |-> "none"]
Journal == [id: Attempts, status: AttemptStatuses] \cup {NoAttempt}

Steps == {"idle", "lock", "read", "share", "converge", "elect", "act", "queued", "stop", "clean",
          "observe", "retain", "record", "release"}
Answers == {"none", "refused", "error", "corrupt", "dead"} \cup Statuses

\* A command: the journal it saw before the lock, the status it last read, the attempt it
\* works for and whether that one is to be finalised, whether the shared pass has stopped.
Caller == [step: Steps, seen: Journal, view: Statuses, attempt: {0} \cup Attempts,
           final: BOOLEAN, shared: BOOLEAN, answer: Answers]
IdleCaller == [step |-> "idle", seen |-> NoAttempt, view |-> "queued", attempt |-> 0,
               final |-> FALSE, shared |-> FALSE, answer |-> "none"]

TypeOK ==
    /\ job \in [status: Statuses, intent: BOOLEAN, claim: BOOLEAN, boundary: BOOLEAN]
    /\ runner \in RunnerSteps /\ strays \in BOOLEAN /\ turn \in Turns
    /\ lock \in {"free", "runner"} \cup Callers
    /\ journal \in Journal
    /\ caller \in [Callers -> Caller]
    /\ faults \in 0..MaxFaults

Init ==
    /\ job = [status |-> "queued", intent |-> FALSE, claim |-> FALSE, boundary |-> FALSE]
    /\ runner = "none" /\ strays = FALSE /\ turn = "none"
    /\ lock = "free" /\ journal = NoAttempt
    /\ caller = [c \in Callers |-> IdleCaller]
    /\ faults = 0

Fault == faults < MaxFaults /\ faults' = faults + 1
NoFault == UNCHANGED faults

TreeGone == runner \in {"none", "gone"} /\ ~ strays

\* finishJob and transitionJob: a move from the statuses the caller expects.
Move(status) == job' = [job EXCEPT !.status = status]

-----------------------------------------------------------------------------
(* The runner, its turn and the ending session.                            *)

RunnerOnly == UNCHANGED <<journal, caller>>
RunnerGoes(from, to) == runner = from /\ runner' = to /\ UNCHANGED strays

\* A stop decision refuses the claim and the start.
Claim ==
    /\ job.status = "queued" /\ ~ job.intent
    /\ RunnerGoes("none", "claimed") /\ job' = [job EXCEPT !.claim = TRUE]
    /\ NoFault /\ RunnerOnly /\ UNCHANGED <<turn, lock>>

StartJob ==
    /\ IF job.status = "queued" /\ ~ job.intent
       THEN RunnerGoes("claimed", "running") /\ Move("running")
       ELSE RunnerGoes("claimed", "exiting") /\ UNCHANGED job
    /\ NoFault /\ RunnerOnly /\ UNCHANGED <<turn, lock>>

\* Under the cancellation lock the input is sent and its boundary recorded.
Send ==
    /\ runner = "running" /\ lock = "free"
    /\ IF job.status = "running"
       THEN RunnerGoes("running", "sent") /\ turn' = "active" /\ lock' = "runner"
       ELSE RunnerGoes("running", "exiting") /\ UNCHANGED <<turn, lock>>
    /\ NoFault /\ RunnerOnly /\ UNCHANGED job

RecordBoundary ==
    /\ IF job.status = "running"
       THEN RunnerGoes("sent", "observing") /\ job' = [job EXCEPT !.boundary = TRUE]
       ELSE RunnerGoes("sent", "exiting") /\ UNCHANGED job
    /\ lock' = "free"
    /\ NoFault /\ RunnerOnly /\ UNCHANGED turn

PublishResult ==
    /\ RunnerGoes("observing", "exiting") /\ turn = "succeeded" /\ lock = "free"
    /\ IF job.status = "running" THEN Move("succeeded") ELSE UNCHANGED job
    /\ NoFault /\ RunnerOnly /\ UNCHANGED <<turn, lock>>

\* The runner overrides a stop.
GiveUp_Fault ==
    /\ \/ RunnerGoes("observing", "exiting") /\ turn \in {"failed", "interrupted"} /\ NoFault
       \/ RunnerGoes("running", "exiting") /\ Fault
    /\ IF job.status \in {"running", "cancelling"} THEN Move("failed") ELSE UNCHANGED job
    /\ RunnerOnly /\ UNCHANGED <<turn, lock>>

\* A failed turn, or any failure before the send.
GiveUp ==
    /\ \/ RunnerGoes("observing", "exiting") /\ turn \in {"failed", "interrupted"} /\ NoFault
       \/ RunnerGoes("running", "exiting") /\ Fault
    /\ IF job.status = "running" THEN Move("failed") ELSE UNCHANGED job
    /\ RunnerOnly /\ UNCHANGED <<turn, lock>>

RunnerLeaves ==
    /\ \/ RunnerGoes("exiting", "gone") /\ NoFault /\ UNCHANGED lock
       \/ /\ runner \notin {"none", "gone"} /\ runner' = "gone" /\ UNCHANGED strays /\ Fault
          /\ lock' = IF lock = "runner" THEN "free" ELSE lock
    /\ RunnerOnly /\ UNCHANGED <<job, turn>>

Descendants ==
    /\ strays' = ~ strays /\ (strays \/ runner \in Working) /\ UNCHANGED runner
    /\ NoFault /\ RunnerOnly /\ UNCHANGED <<job, turn, lock>>

TurnEnds ==
    /\ turn = "active" /\ turn' \in {"succeeded", "failed", "interrupted"}
    /\ NoFault /\ RunnerOnly /\ UNCHANGED <<job, process, lock>>

\* The hook of an ending session decides a stop without the cancellation lock.
DelegateStop ==
    /\ job.status \in {"queued", "running"} /\ ~ job.intent
    /\ job' = [job EXCEPT !.intent = TRUE,
                          !.status = IF @ = "running" THEN "cancelling" ELSE @]
    /\ NoFault /\ RunnerOnly /\ UNCHANGED <<process, turn, lock>>

Environment ==
    \/ Claim \/ StartJob \/ Send \/ RecordBoundary \/ PublishResult \/ GiveUp \/ RunnerLeaves
    \/ Descendants \/ TurnEnds \/ DelegateStop

-----------------------------------------------------------------------------
(***************************************************************************)
(* A cancel command.  Past its election nobody but the holder of the lock  *)
(* moves a cancelling record, which GuardIsHeld states: the conflicts and  *)
(* the revalidation that expect otherwise have no case of their own.       *)
(***************************************************************************)

At(c, step) == caller[c].step = step
Becomes(c, new) == caller' = [caller EXCEPT ![c] = new]
Goes(c, step) == Becomes(c, [caller[c] EXCEPT !.step = step])

Unlock(c) == lock' = IF lock = c THEN "free" ELSE lock

\* The command is over.
Answer(c, answer) == Unlock(c) /\ Becomes(c, [IdleCaller EXCEPT !.answer = answer])

\* The marked-runner duty: the kill and a completed sweep, or as much as the budget allowed.
Cleaned == runner' = (IF runner = "none" THEN "none" ELSE "gone") /\ strays' = FALSE
PartlyCleaned == runner' \in {runner, IF runner = "none" THEN "none" ELSE "gone"} /\ UNCHANGED strays

\* The look at the journal before the lock.
ObserveJournal(c) ==
    /\ At(c, "idle") /\ caller[c].answer = "none"
    /\ Becomes(c, [caller[c] EXCEPT !.step = "lock", !.seen = journal])
    /\ NoFault /\ UNCHANGED <<job, process, turn, lock, journal>>

\* At once, or as a follower that waits.
AcquireLock(c) ==
    /\ At(c, "lock")
    /\ \/ lock = "free" /\ lock' = c /\ Goes(c, "read") /\ NoFault
       \/ lock # "free" /\ Answer(c, "refused") /\ Fault
    /\ UNCHANGED <<job, process, turn, journal>>

\* A terminal record is the answer of any command.
ReadJob(c) ==
    /\ At(c, "read")
    /\ IF job.status \in Ends THEN Answer(c, job.status)
       ELSE UNCHANGED lock /\ Becomes(c, [caller[c] EXCEPT !.step = "share", !.view = job.status])
    /\ NoFault /\ UNCHANGED <<job, process, turn, journal>>

\* The end of a shared pass: the record is read again, and a terminal one is the answer.
\* The first pass over a running record is followed by another; only the pass over the
\* joined turn counts as a stop of this command.
Shared(c, stopped) ==
    LET again == At(c, "share") /\ caller[c].view = "running" IN
    IF job'.status \in Ends THEN Answer(c, job'.status)
    ELSE /\ UNCHANGED lock
         /\ Becomes(c, [caller[c] EXCEPT !.view = job'.status, !.shared = stopped /\ ~ again,
                           !.step = IF again THEN "converge" ELSE "elect"])

\* The first pass: the decision is made durable before any remote control.
PersistSharedStop(c) ==
    /\ At(c, "share") /\ job.status = "running"
    /\ job' = [job EXCEPT !.status = "cancelling", !.intent = TRUE]
    /\ Shared(c, FALSE)
    /\ NoFault /\ UNCHANGED <<process, turn, journal>>

\* A queued record: an unclaimed one is cancelled, the runner of a claimed one is killed.
ShareQueued(c) ==
    /\ At(c, "share") /\ job.status = "queued"
    /\ \/ Cleaned /\ NoFault /\ (IF job.claim THEN UNCHANGED job ELSE Move("cancelled"))
       \/ PartlyCleaned /\ Fault /\ UNCHANGED job
    /\ Shared(c, FALSE)
    /\ UNCHANGED <<turn, journal>>

Joins(c) == caller[c].step \in {"share", "converge"} /\ job.status = "cancelling"

\* The pass over the joined turn settles it behind a clean tree: with the turn's own end,
\* or as cancelled after a stop.
SharedSettles(c) ==
    /\ Joins(c) /\ job.boundary
    /\ turn' = IF turn = "active" THEN "interrupted" ELSE turn
    /\ Cleaned
    /\ Move(IF turn' = "interrupted" THEN "cancelled" ELSE turn')
    /\ Shared(c, TRUE)
    /\ NoFault /\ UNCHANGED journal

\* It keeps the record: before a stop, over a reading that is not of this turn or a
\* cleanup that is not proven, or after a stop.
SharedRetains(c) ==
    /\ Joins(c) /\ UNCHANGED <<job, journal>>
    /\ \E stopped \in BOOLEAN :
          /\ turn' = IF stopped /\ turn = "active" THEN "interrupted" ELSE turn
          /\ Shared(c, stopped)
    /\ \/ Cleaned /\ NoFault
       \/ PartlyCleaned /\ Fault

\* The record ended before the pass.
SharedRaced(c) ==
    /\ caller[c].step \in {"share", "converge"} /\ job.status \in Ends
    /\ Answer(c, job.status)
    /\ NoFault /\ UNCHANGED <<job, process, turn, journal>>

\* The failure of an attempt is this command's too when the attempt was not over before.
CompletedDuringAcquisition(seen) == seen.id # journal.id \/ seen.status # journal.status

\* The election: a failure that is not handed back yet, or of a concurrent attempt, is
\* adopted; an open attempt is continued; otherwise an attempt is started.
Elect(c) ==
    /\ At(c, "elect")
    /\ LET p == caller[c]
           fails == \/ journal.status = "failed-pending-release"
                    \/ journal.status = "failed" /\ CompletedDuringAcquisition(p.seen)
           continues == journal.status \in {"active", "finalize-pending"}
       IN  \/ /\ fails /\ Unlock(c) /\ UNCHANGED journal
              /\ Becomes(c, [p EXCEPT !.step = "release", !.attempt = journal.id])
           \/ /\ continues /\ UNCHANGED <<lock, journal>>
              /\ Becomes(c, [p EXCEPT !.step = "act", !.attempt = journal.id,
                                !.final = journal.status = "finalize-pending"])
           \/ /\ ~ fails /\ ~ continues /\ UNCHANGED lock
              /\ journal' = [id |-> journal.id + 1, status |-> "active"]
              /\ Becomes(c, [p EXCEPT !.step = "act", !.attempt = journal.id + 1])
    /\ NoFault /\ UNCHANGED <<job, process, turn>>

\* The error leaves the attempt open for the next command.
Throws(c) == Answer(c, "error")

\* The stop of a queued record is durable before any settlement; a record that has
\* started meanwhile refuses it.
PersistQueuedStop(c) ==
    /\ At(c, "act") /\ caller[c].view = "queued"
    /\ IF job.status = "queued"
       THEN job' = [job EXCEPT !.intent = TRUE] /\ Goes(c, "queued") /\ UNCHANGED lock
       ELSE Throws(c) /\ UNCHANGED job
    /\ NoFault /\ UNCHANGED <<process, turn, journal>>

SettleUnclaimed(c) ==
    /\ At(c, "queued") /\ ~ job.claim
    /\ Move("cancelled") /\ Goes(c, "record")
    /\ NoFault /\ UNCHANGED <<process, turn, lock, journal>>

\* A record that is kept is taken for a settled one.
SettleClaimed_Fault(c) ==
    /\ At(c, "queued") /\ job.claim
    /\ \/ /\ Cleaned /\ NoFault
          /\ Move("cancelled")
          /\ Goes(c, "record") /\ UNCHANGED lock
       \/ PartlyCleaned /\ Fault /\ UNCHANGED <<job, lock>> /\ Goes(c, "record")
    /\ UNCHANGED <<turn, journal>>

\* The runner that claimed it is killed and swept; only then its lease is taken and the
\* record cancelled.  Anything less keeps it for the next command.
SettleClaimed(c) ==
    /\ At(c, "queued") /\ job.claim
    /\ \/ /\ Cleaned /\ NoFault
          /\ Move("cancelled")
          /\ Goes(c, "record") /\ UNCHANGED lock
       \/ PartlyCleaned /\ Fault /\ UNCHANGED job /\ Throws(c)
    /\ UNCHANGED <<turn, journal>>

\* A stop that was proven by an earlier command lacks only the record.
FinalizePending(c) ==
    /\ At(c, "act") /\ caller[c].view = "cancelling" /\ caller[c].final /\ job.boundary
    /\ Move("cancelled") /\ Goes(c, "record")
    /\ NoFault /\ UNCHANGED <<process, turn, lock, journal>>

\* Unless the shared pass has stopped the turn, a turn that failed before the stop is
\* recorded as failed.  A reading that fails or shows nothing leads to the stop.
ReadBeforeStop(c) ==
    /\ At(c, "act") /\ caller[c].view = "cancelling" /\ ~ (caller[c].final /\ job.boundary)
    /\ \/ /\ ~ caller[c].shared /\ job.boundary /\ turn = "failed" /\ job.status = "cancelling"
          /\ Move("failed") /\ Goes(c, "record")
       \/ Goes(c, "stop") /\ UNCHANGED job
    /\ NoFault /\ UNCHANGED <<process, turn, lock, journal>>

\* The shared pass has had this command's stop and its duty.
KeepSharedStop(c) ==
    /\ At(c, "stop") /\ caller[c].shared
    /\ Goes(c, "retain")
    /\ NoFault /\ UNCHANGED <<job, process, turn, lock, journal>>

\* A stop that fails still owes the runner's end.
SendStop(c) ==
    /\ At(c, "stop") /\ ~ caller[c].shared
    /\ \/ turn' \in {turn, IF turn = "active" THEN "interrupted" ELSE turn}
          /\ Goes(c, "clean") /\ NoFault /\ UNCHANGED process
       \/ Goes(c, "retain") /\ UNCHANGED turn /\ Fault /\ (Cleaned \/ PartlyCleaned)
    /\ UNCHANGED <<job, lock, journal>>

\* The outcome of the cleanup does not matter.
CleanRunner_Fault(c) ==
    /\ At(c, "clean")
    /\ \/ Cleaned /\ Goes(c, "observe") /\ NoFault
       \/ PartlyCleaned /\ Goes(c, "observe") /\ Fault
    /\ UNCHANGED <<job, turn, lock, journal>>

\* An acknowledged stop is settled only over a tree that is gone.
CleanRunner(c) ==
    /\ At(c, "clean")
    /\ \/ Cleaned /\ Goes(c, "observe") /\ NoFault
       \/ PartlyCleaned /\ Goes(c, "retain") /\ Fault
    /\ UNCHANGED <<job, turn, lock, journal>>

\* The look does not wait for the end of the turn.
ObserveStop_Fault(c) ==
    /\ At(c, "observe")
    /\ \/ ~ job.boundary /\ Goes(c, "retain") /\ NoFault
          /\ UNCHANGED <<job, journal, lock>>
       \/ /\ job.boundary /\ NoFault
          /\ Move(IF turn = "succeeded" THEN "succeeded" ELSE "cancelled")
          /\ Goes(c, "record") /\ UNCHANGED <<journal, lock>>
       \/ /\ job.boundary /\ turn \in {"failed", "interrupted"} /\ Fault
          /\ journal' = [journal EXCEPT !.status = "finalize-pending"]
          /\ Throws(c) /\ UNCHANGED job
    /\ UNCHANGED <<process, turn>>

\* What became of the turn: its success is published, its end by the stop is cancelled, and
\* a turn that is not recorded or not over keeps the record.
ObserveStop(c) ==
    /\ At(c, "observe")
    /\ \/ (job.boundary => turn = "active") /\ Goes(c, "retain") /\ NoFault
          /\ UNCHANGED <<job, journal, lock>>
       \/ /\ job.boundary /\ turn # "active" /\ NoFault
          /\ Move(IF turn = "succeeded" THEN "succeeded" ELSE "cancelled")
          /\ Goes(c, "record") /\ UNCHANGED <<journal, lock>>
       \/ /\ job.boundary /\ turn \in {"failed", "interrupted"} /\ Fault
          /\ journal' = [journal EXCEPT !.status = "finalize-pending"]
          /\ Throws(c) /\ UNCHANGED job
    /\ UNCHANGED <<process, turn>>

\* The stop is unresolved: the record stays, and the failure is handed over outside the
\* lock.
Retain(c) ==
    /\ At(c, "retain")
    /\ Unlock(c) /\ Goes(c, "release")
    /\ journal' = [journal EXCEPT !.status = "failed-pending-release"]
    /\ NoFault /\ UNCHANGED <<job, process, turn>>

\* The attempt succeeded; a journal that cannot say so does not change the answer.
RecordCancelled(c) ==
    /\ At(c, "record")
    /\ journal' = IF journal.id = caller[c].attempt /\ journal.status \in {"active", "finalize-pending"}
                  THEN [journal EXCEPT !.status = "succeeded"] ELSE journal
    /\ Answer(c, job.status)
    /\ NoFault /\ UNCHANGED <<job, process, turn>>

\* The failed attempt is closed by whoever reports it first.  A journal that has moved on
\* to another attempt is reported as corrupt.
Release(c) ==
    /\ At(c, "release")
    /\ LET same == journal.id = caller[c].attempt
                   /\ journal.status \in {"failed-pending-release", "failed"}
       IN  /\ journal' = IF same THEN [journal EXCEPT !.status = "failed"] ELSE journal
           /\ Answer(c, IF same THEN "error" ELSE "corrupt")
    /\ NoFault /\ UNCHANGED <<job, process, turn>>

\* A crash, or an error that leaves the attempt open; the lock of a dead process is free.
CallerDies(c) ==
    /\ ~ At(c, "idle")
    /\ Answer(c, "dead")
    /\ Fault /\ UNCHANGED <<job, process, turn, journal>>

Command(c) ==
    \/ ObserveJournal(c) \/ AcquireLock(c) \/ ReadJob(c) \/ PersistSharedStop(c) \/ ShareQueued(c)
    \/ SharedSettles(c) \/ SharedRetains(c) \/ SharedRaced(c) \/ Elect(c) \/ PersistQueuedStop(c)
    \/ SettleUnclaimed(c) \/ SettleClaimed(c) \/ FinalizePending(c) \/ ReadBeforeStop(c)
    \/ KeepSharedStop(c) \/ SendStop(c) \/ CleanRunner(c) \/ ObserveStop(c)
    \/ Retain(c) \/ RecordCancelled(c) \/ Release(c) \/ CallerDies(c)

Next == Environment \/ \E c \in Callers : Command(c)

Spec == Init /\ [][Next]_vars

-----------------------------------------------------------------------------
(* Properties.                                                             *)

\* The answer to a cancel command that names a record is the record as it will stay.
AnsweredIsDurable ==
    \A c \in Callers : caller[c].answer \in Statuses =>
        caller[c].answer \in Ends /\ job.status = caller[c].answer

\* What the journal promises to the next command is so: a succeeded attempt has a terminal
\* record, and one that is only to be finalised has a stopped turn and no process left.
JournalIsBacked ==
    /\ journal.status = "succeeded" => job.status \in Ends
    /\ journal.status = "finalize-pending" => TreeGone /\ turn # "active"

\* From its election to its publication a command that stops a turn holds the lock and the
\* cancelling record: what it read is what it publishes over.
GuardIsHeld ==
    \A c \in Callers : caller[c].step \in {"stop", "clean", "observe", "retain"} =>
        lock = c /\ job.status = "cancelling" /\ job.intent

\* A job is recorded as cancelled over a turn that has ended and a process tree that is gone.
CancelledIsClean == job.status = "cancelled" /\ job.claim => TreeGone /\ turn # "active"

\* A terminal status that is not the runner's own is published over a gone process tree.
EndsOverGoneTree ==
    [][job.status \notin Ends /\ job'.status \in Ends /\ job.claim =>
          TreeGone' \/ (runner # "exiting" /\ runner' = "exiting")]_vars
=============================================================================
