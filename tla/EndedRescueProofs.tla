-------------------------- MODULE EndedRescueProofs --------------------------
(***************************************************************************)
(* Proofs about the end of a session, for any number of settlement passes, *)
(* of the hook or of prompts, and any number of faults.                    *)
(*                                                                         *)
(* The argument is one of rely and guarantee.  JobInv and RunnerInv relate *)
(* the record, the runner and the turn; PassInv(p) says what pass p may    *)
(* count on at each of its steps.  A step of anybody else keeps what p     *)
(* counts on (Elsewhere(p)), so that PassInv(p) survives it (Stable), and  *)
(* a step of p re-establishes it.                                          *)
(***************************************************************************)
EXTENDS EndedRescue, TLAPS

BeforeSend == {"none", "leased", "claimed", "running", "admitting"}

\* What the status of the record says about its stop decision, its runner and its turn.
JobInv ==
    /\ job.status = "running" => ~ job.stop
    /\ job.status = "cancelling" => job.stop
    /\ job.status \in {"unused", "queued"} =>
          turn = "none" /\ runner \in {"none", "leased", "claimed", "exiting", "gone"}
    /\ job.status \in Started => runner \notin {"none", "leased", "claimed"}
    /\ job.claim => runner \notin {"none", "leased"}

\* The runner sends under the cancellation lock and at most once, and gives up a turn
\* only after that turn ended or somebody acknowledged its stop.
RunnerInv ==
    /\ lock = "runner" <=> runner \in {"admitting", "sent"}
    /\ runner \in {"admitting", "sent"} => job.status \in Started
    /\ runner \in BeforeSend => turn = "none"
    /\ runner = "failing" => turn # "active" \/ acked # "no"

Safe == ExclusionHeld /\ CancelledIsStopped /\ ResultIsReal /\ SettledIsDecided

\* The steps of a pass that control the engine.
Controlled == {"decide", "precheck", "stop", "reread", "redecide"}

\* What a pass knows at its steps: it holds the lock until its tree is clean, it
\* controls the engine only of a job being cancelled, and what it read, was answered
\* and plans is still so.
PassInv(p) ==
    LET s == pass[p] IN
    /\ s.step # "idle" => receipt # "none"
    /\ s.step \in Controlled \cup {"read", "persist", "publish"} => lock = p
    /\ s.step \in {"kill", "sweep"} /\ s.plan # "discharge" => lock = p
    /\ s.step \in {"read", "persist"} => s.view.claim = job.claim
    /\ s.step = "read" => s.view.status \in Started
    /\ s.view.status \in Started => job.status \notin {"unused", "queued"}
    /\ s.view.stop => s.view.status # "running"
    /\ s.step \in Controlled => job.status = "cancelling"
    /\ s.step = "publish" /\ job.claim => runner = "gone" /\ ~ strays
    /\ s.reading \in TurnEnds => turn = s.reading
    /\ s.reading \in {"active", "idle"} => turn # "none"
    /\ s.step = "stop" /\ s.same => turn # "none"
    /\ s.reply = "qualified" => acked = "own"
    /\ s.plan = "noReport" => acked = "own"
    /\ s.plan \in {"succeeded", "failed"} => turn = s.plan
    /\ s.plan = "cancelled" => turn \in {"failed", "interrupted"}
    /\ Discharges(s.raced) => Discharges(job)

Global == TypeOK /\ JobInv /\ RunnerInv /\ Safe

\* The inductive invariant.
Inv == Global /\ \A p \in Passes : PassInv(p)

\* What no step of the runner, of the engine or of another pass does to pass p.
Elsewhere(p) ==
    /\ pass'[p] = pass[p]
    /\ lock = p <=> lock' = p
    /\ receipt # "none" => receipt' # "none" /\ job'.claim = job.claim
    /\ job.status \notin {"unused", "queued"} => job'.status \notin {"unused", "queued"}
    /\ lock = p /\ job.status = "cancelling" => job'.status = "cancelling"
    /\ Discharges(job) => Discharges(job')
    /\ turn # "none" => turn' # "none"
    /\ turn \in TurnEnds => turn' = turn
    /\ acked = "own" => acked' = "own"
    /\ runner = "gone" => runner' = "gone" /\ (~ strays => ~ strays')

-----------------------------------------------------------------------------
(* Records.                                                                *)

\* The edits the actions make to a job record give a job record.
LEMMA JobEdits ==
    ASSUME NEW j \in Jobs
    PROVE  /\ \A status \in Unfinished \cup Ends : [j EXCEPT !.status = status] \in Jobs
           /\ \A status \in Unfinished \cup Ends : [j EXCEPT !.status = status, !.stop = TRUE] \in Jobs
           /\ [j EXCEPT !.stop = TRUE] \in Jobs
           /\ [j EXCEPT !.claim = TRUE] \in Jobs
           /\ [j EXCEPT !.boundary = TRUE] \in Jobs
           /\ [j EXCEPT !.status = "failed", !.archived = TRUE] \in Jobs
BY DEF Jobs, Unfinished, Started, Ends

\* A pass that moves to a new record leaves the other passes alone.
Becomes(p, new) ==
    /\ pass' \in [Passes -> PassStates]
    /\ \A q \in Passes \ {p} : pass'[q] = pass[q]
    /\ pass'[p] = new

\* Going to a record makes it the record of the pass.
LEMMA GoesTo ==
    ASSUME TypeOK, NEW p \in Passes, NEW new \in PassStates, Goes(p, new)
    PROVE  Becomes(p, new)
BY DEF TypeOK, Goes, Becomes

\* What StepsTo, CleanThen and Unsettled have in common.
Moves(p, step, plan) ==
    /\ pass' \in [Passes -> PassStates]
    /\ \A q \in Passes \ {p} : pass'[q] = pass[q]
    /\ pass'[p].step = step /\ pass'[p].plan = plan
    /\ pass'[p].view = pass[p].view /\ pass'[p].reading = pass[p].reading
    /\ pass'[p].reply = pass[p].reply /\ pass'[p].same = pass[p].same
    /\ pass'[p].raced = pass[p].raced /\ pass'[p].fenced = pass[p].fenced

\* A change of step and plan alone.
LEMMA MovesTo ==
    ASSUME TypeOK, NEW p \in Passes, NEW step \in PassSteps, NEW plan \in Plans,
           Goes(p, [pass[p] EXCEPT !.step = step, !.plan = plan])
    PROVE  Moves(p, step, plan)
<1> DEFINE new == [pass[p] EXCEPT !.step = step, !.plan = plan]
<1>1. pass[p] \in PassStates
  BY DEF TypeOK
<1>2. new \in PassStates
  BY <1>1 DEF PassStates
<1>3. Becomes(p, new)
  BY <1>2, GoesTo
<1> QED BY <1>1, <1>3 DEF Becomes, PassStates, Moves

\* The three helpers are such changes.
LEMMA StepsToMoves ==
    ASSUME TypeOK, NEW p \in Passes, NEW step \in PassSteps, StepsTo(p, step)
    PROVE  Moves(p, step, pass[p].plan)
<1>1. pass[p] \in PassStates
  BY DEF TypeOK
<1>2. [pass[p] EXCEPT !.step = step] = [pass[p] EXCEPT !.step = step, !.plan = pass[p].plan]
  BY <1>1 DEF PassStates
<1>3. pass[p].plan \in Plans
  BY <1>1 DEF PassStates
<1> QED BY <1>2, <1>3, MovesTo DEF StepsTo

LEMMA CleanThenMoves ==
    ASSUME TypeOK, NEW p \in Passes, NEW plan \in Plans, CleanThen(p, plan)
    PROVE  Moves(p, "kill", plan)
BY MovesTo DEF CleanThen, PassSteps

LEMMA UnsettledMoves ==
    ASSUME TypeOK, NEW p \in Passes, Unsettled(p)
    PROVE  Moves(p, "report", IF pass[p].plan = "discharge" THEN "pending" ELSE pass[p].plan)
<1>1. pass[p] \in PassStates
  BY DEF TypeOK
<1>2. (IF pass[p].plan = "discharge" THEN "pending" ELSE pass[p].plan) \in Plans
  BY <1>1 DEF PassStates, Plans
<1> QED BY <1>2, MovesTo DEF Unsettled, PassSteps

\* A pass that lost a race remembers the winner.
LEMMA LosesToEffect ==
    ASSUME TypeOK, NEW p \in Passes, LosesTo(p, job)
    PROVE  Becomes(p, [pass[p] EXCEPT !.step = "report", !.raced = job])
<1>1. pass[p] \in PassStates /\ job \in Jobs
  BY DEF TypeOK
<1>2. [pass[p] EXCEPT !.step = "report", !.raced = job] \in PassStates
  BY <1>1 DEF PassStates, PassSteps
<1> QED BY <1>2, GoesTo DEF LosesTo

\* A pass may start, and start over as the second round of the fence.
LEMMA IdleIsPass ==
    Idle \in PassStates /\ [Idle EXCEPT !.fenced = TRUE] \in PassStates
BY DEF Idle, PassStates, PassSteps, Readings, Plans, NoJob, Jobs

-----------------------------------------------------------------------------
(* Initially.                                                              *)

\* A workspace without the job satisfies everything.
LEMMA InitInv == Init => Inv
<1> SUFFICES ASSUME Init
             PROVE  Inv
  OBVIOUS
<1>1. TypeOK
  <2>1. NoJob \in Jobs
    BY DEF NoJob, Jobs
  <2>2. pass \in [Passes -> PassStates]
    BY IdleIsPass DEF Init
  <2>3. 0 \in 0 .. MaxFaults
    BY FaultsAssumption
  <2> QED BY <2>1, <2>2, <2>3 DEF Init, TypeOK, RunnerSteps, Turns
<1>2. JobInv /\ RunnerInv /\ Safe
  BY DEF Init, JobInv, RunnerInv, Safe, ExclusionHeld, CancelledIsStopped, ResultIsReal,
         SettledIsDecided, NoJob, Started
<1>3. ASSUME NEW p \in Passes
      PROVE  PassInv(p)
  BY DEF Init, PassInv, Idle, NoJob, Started, Controlled, TurnEnds, Discharges, Ends
<1> QED BY <1>1, <1>2, <1>3 DEF Inv, Global

-----------------------------------------------------------------------------
(* The runner and the environment.                                         *)

\* Their steps keep the types.
LEMMA OthersKeepTypes ==
    ASSUME TypeOK, RunnerStep \/ RunnerFault \/ Environment
    PROVE  TypeOK'
<1> USE DEF TypeOK, Fault, NoFault, RunnerGoes, RunnerOnly, Offline, Acknowledge, Unlock,
    remote, tree
<1>0. job \in Jobs
  OBVIOUS
<1>1. CASE ClaimExecution
  <2>1. job' \in Jobs
    BY <1>1, <1>0, JobEdits, ZenonT(60) DEF ClaimExecution, Move, Cancelled, Unfinished, Started, Ends
  <2> QED BY <1>1, <2>1, FaultsAssumption DEF ClaimExecution, RunnerSteps, Working
<1>2. CASE StartJob
  <2>1. job' \in Jobs
    <3>1. CASE UNCHANGED job
      BY <3>1, <1>0
    <3>2. CASE Move("running")
      BY <3>2, <1>0, JobEdits, ZenonT(60) DEF Move, Cancelled, Unfinished, Started, Ends
    <3> QED BY <1>2, <3>1, <3>2 DEF StartJob
  <2> QED BY <1>2, <2>1, FaultsAssumption DEF StartJob, RunnerSteps, Working
<1>3. CASE Admit
  BY <1>3, FaultsAssumption DEF Admit, RunnerSteps, Working, Turns, TurnEnds
<1>4. CASE Send
  BY <1>4, FaultsAssumption DEF Send, RunnerSteps, Working, Turns, TurnEnds
<1>5. CASE RecordBoundary
  <2>1. job' \in Jobs
    BY <1>5, <1>0, JobEdits DEF RecordBoundary, Move, Cancelled, Unfinished, Started, Ends
  <2> QED BY <1>5, <2>1, FaultsAssumption DEF RecordBoundary, RunnerSteps, Working
<1>6. CASE PublishResult
  <2>1. job' \in Jobs
    BY <1>6, <1>0, JobEdits DEF PublishResult, Move, Cancelled, Unfinished, Started, Ends
  <2> QED BY <1>6, <2>1, FaultsAssumption DEF PublishResult, RunnerSteps, Working
<1>7. CASE ObserveFailure
  BY <1>7, FaultsAssumption DEF ObserveFailure, RunnerSteps, Working, Turns, TurnEnds
<1>8. CASE StopOwnTurn
  BY <1>8, FaultsAssumption DEF StopOwnTurn, RunnerSteps, Working, Turns, TurnEnds
<1>9. CASE GiveUp
  <2>1. job' \in Jobs
    BY <1>9, <1>0, JobEdits DEF GiveUp, Move, Cancelled, Unfinished, Started, Ends
  <2> QED BY <1>9, <2>1, FaultsAssumption DEF GiveUp, RunnerSteps, Working
<1>10. CASE Exit
  BY <1>10, FaultsAssumption DEF Exit, RunnerSteps, Working, Turns, TurnEnds
<1>11. CASE FailToStart
  <2>1. job' \in Jobs
    BY <1>11, <1>0, JobEdits DEF FailToStart, Move, Cancelled, Unfinished, Started, Ends
  <2> QED BY <1>11, <2>1, FaultsAssumption DEF FailToStart, RunnerSteps, Working
<1>12. CASE InterruptQueued
  <2>1. job' \in Jobs
    BY <1>12, <1>0, JobEdits DEF InterruptQueued, Move, Cancelled, Unfinished, Started, Ends
  <2> QED BY <1>12, <2>1, FaultsAssumption DEF InterruptQueued, RunnerSteps, Working
<1>13. CASE Interrupt
  BY <1>13, FaultsAssumption DEF Interrupt, RunnerSteps, Working, Turns, TurnEnds
<1>14. CASE PrepareFails
  BY <1>14, FaultsAssumption DEF PrepareFails, RunnerSteps, Working, Turns, TurnEnds
<1>15. CASE SendFails
  BY <1>15, FaultsAssumption DEF SendFails, RunnerSteps, Working, Turns, TurnEnds
<1>16. CASE BoundaryFails
  BY <1>16, FaultsAssumption DEF BoundaryFails, RunnerSteps, Working, Turns, TurnEnds
<1>17. CASE ObserverFails
  BY <1>17, FaultsAssumption DEF ObserverFails, RunnerSteps, Working, Turns, TurnEnds
<1>18. CASE OwnStopFails
  BY <1>18, FaultsAssumption DEF OwnStopFails, RunnerSteps, Working, Turns, TurnEnds
<1>19. CASE Crash
  BY <1>19, FaultsAssumption DEF Crash, RunnerSteps, Working, Turns, TurnEnds
<1>20. CASE Reserve
  <2>1. job' \in Jobs
    BY <1>20, <1>0, JobEdits DEF Reserve, Move, Cancelled, Unfinished, Started, Ends
  <2> QED BY <1>20, <2>1, FaultsAssumption DEF Reserve, RunnerSteps, Working
<1>21. CASE TakeLease
  BY <1>21, FaultsAssumption DEF TakeLease, RunnerSteps, Working, Turns, TurnEnds
<1>22. CASE Descendants
  BY <1>22, FaultsAssumption DEF Descendants, RunnerSteps, Working, Turns, TurnEnds
<1>23. CASE TurnEnded
  BY <1>23, FaultsAssumption DEF TurnEnded, RunnerSteps, Working, Turns, TurnEnds
<1>24. CASE ReplaceEngine
  BY <1>24, FaultsAssumption DEF ReplaceEngine, RunnerSteps, Working, Turns, TurnEnds
<1>25. CASE SessionEnds
  BY <1>25, FaultsAssumption DEF SessionEnds, RunnerSteps, Working, Turns, TurnEnds
<1> QED
  BY <1>1, <1>2, <1>3, <1>4, <1>5, <1>6, <1>7, <1>8, <1>9, <1>10, <1>11, <1>12,
     <1>13, <1>14, <1>15, <1>16, <1>17, <1>18, <1>19, <1>20, <1>21, <1>22, <1>23,
     <1>24, <1>25
  DEF RunnerStep, RunnerFault, Environment

\* They keep the record, the runner and the turn in step.
LEMMA OthersKeepGlobal ==
    ASSUME TypeOK, JobInv, RunnerInv, Safe, RunnerStep \/ RunnerFault \/ Environment
    PROVE  (JobInv /\ RunnerInv /\ Safe)'
<1> USE PassesAssumption DEF TypeOK, JobInv, RunnerInv, Safe, ExclusionHeld, CancelledIsStopped,
            ResultIsReal, SettledIsDecided,
            Jobs, Started, Unfinished, Ends, Working, RunnerSteps, TurnEnds, Turns,
            BeforeSend, Discharges, Fault, NoFault, Move, Cancelled, RunnerGoes,
            RunnerOnly, Offline, Acknowledge, Unlock, NoJob, remote, tree
<1>1. CASE ClaimExecution
  BY <1>1, SMTT(30) DEF ClaimExecution
<1>2. CASE StartJob
  BY <1>2, SMTT(30) DEF StartJob
<1>3. CASE Admit
  BY <1>3, SMTT(30) DEF Admit
<1>4. CASE Send
  BY <1>4, SMTT(30) DEF Send
<1>5. CASE RecordBoundary
  BY <1>5, SMTT(30) DEF RecordBoundary
<1>6. CASE PublishResult
  BY <1>6, SMTT(30) DEF PublishResult
<1>7. CASE ObserveFailure
  BY <1>7, SMTT(30) DEF ObserveFailure
<1>8. CASE StopOwnTurn
  BY <1>8, SMTT(30) DEF StopOwnTurn
<1>9. CASE GiveUp
  BY <1>9, SMTT(30) DEF GiveUp
<1>10. CASE Exit
  BY <1>10, SMTT(30) DEF Exit
<1>11. CASE FailToStart
  BY <1>11, SMTT(30) DEF FailToStart
<1>12. CASE InterruptQueued
  BY <1>12, SMTT(30) DEF InterruptQueued
<1>13. CASE Interrupt
  BY <1>13, SMTT(30) DEF Interrupt
<1>14. CASE PrepareFails
  BY <1>14, SMTT(30) DEF PrepareFails
<1>15. CASE SendFails
  BY <1>15, SMTT(30) DEF SendFails
<1>16. CASE BoundaryFails
  BY <1>16, SMTT(30) DEF BoundaryFails
<1>17. CASE ObserverFails
  BY <1>17, SMTT(30) DEF ObserverFails
<1>18. CASE OwnStopFails
  BY <1>18, SMTT(30) DEF OwnStopFails
<1>19. CASE Crash
  BY <1>19, SMTT(30) DEF Crash
<1>20. CASE Reserve
  BY <1>20, SMTT(30) DEF Reserve
<1>21. CASE TakeLease
  BY <1>21, SMTT(30) DEF TakeLease
<1>22. CASE Descendants
  BY <1>22, SMTT(30) DEF Descendants
<1>23. CASE TurnEnded
  BY <1>23, SMTT(30) DEF TurnEnded
<1>24. CASE ReplaceEngine
  BY <1>24, SMTT(30) DEF ReplaceEngine
<1>25. CASE SessionEnds
  BY <1>25, SMTT(30) DEF SessionEnds
<1> QED
  BY <1>1, <1>2, <1>3, <1>4, <1>5, <1>6, <1>7, <1>8, <1>9, <1>10, <1>11, <1>12,
     <1>13, <1>14, <1>15, <1>16, <1>17, <1>18, <1>19, <1>20, <1>21, <1>22, <1>23,
     <1>24, <1>25
  DEF RunnerStep, RunnerFault, Environment

\* They do nothing to a pass that it would have to know of.
LEMMA OthersElsewhere ==
    ASSUME TypeOK, JobInv, RunnerInv, Safe, RunnerStep \/ RunnerFault \/ Environment, NEW p \in Passes
    PROVE  Elsewhere(p)
<1> USE PassesAssumption DEF Elsewhere,
            TypeOK, JobInv, RunnerInv, Safe, ExclusionHeld, CancelledIsStopped,
            ResultIsReal, SettledIsDecided,
            Jobs, Started, Unfinished, Ends, Working, RunnerSteps, TurnEnds, Turns,
            BeforeSend, Discharges, Fault, NoFault, Move, Cancelled, RunnerGoes,
            RunnerOnly, Offline, Acknowledge, Unlock, NoJob, remote, tree
<1>1. CASE ClaimExecution
  BY <1>1 DEF ClaimExecution
<1>2. CASE StartJob
  BY <1>2 DEF StartJob
<1>3. CASE Admit
  BY <1>3 DEF Admit
<1>4. CASE Send
  BY <1>4 DEF Send
<1>5. CASE RecordBoundary
  BY <1>5 DEF RecordBoundary
<1>6. CASE PublishResult
  BY <1>6 DEF PublishResult
<1>7. CASE ObserveFailure
  BY <1>7 DEF ObserveFailure
<1>8. CASE StopOwnTurn
  BY <1>8 DEF StopOwnTurn
<1>9. CASE GiveUp
  BY <1>9 DEF GiveUp
<1>10. CASE Exit
  BY <1>10 DEF Exit
<1>11. CASE FailToStart
  BY <1>11 DEF FailToStart
<1>12. CASE InterruptQueued
  BY <1>12 DEF InterruptQueued
<1>13. CASE Interrupt
  BY <1>13 DEF Interrupt
<1>14. CASE PrepareFails
  BY <1>14 DEF PrepareFails
<1>15. CASE SendFails
  BY <1>15 DEF SendFails
<1>16. CASE BoundaryFails
  BY <1>16 DEF BoundaryFails
<1>17. CASE ObserverFails
  BY <1>17 DEF ObserverFails
<1>18. CASE OwnStopFails
  BY <1>18 DEF OwnStopFails
<1>19. CASE Crash
  BY <1>19 DEF Crash
<1>20. CASE Reserve
  BY <1>20 DEF Reserve
<1>21. CASE TakeLease
  BY <1>21 DEF TakeLease
<1>22. CASE Descendants
  BY <1>22 DEF Descendants
<1>23. CASE TurnEnded
  BY <1>23 DEF TurnEnded
<1>24. CASE ReplaceEngine
  BY <1>24 DEF ReplaceEngine
<1>25. CASE SessionEnds
  BY <1>25 DEF SessionEnds
<1> QED
  BY <1>1, <1>2, <1>3, <1>4, <1>5, <1>6, <1>7, <1>8, <1>9, <1>10, <1>11, <1>12,
     <1>13, <1>14, <1>15, <1>16, <1>17, <1>18, <1>19, <1>20, <1>21, <1>22, <1>23,
     <1>24, <1>25
  DEF RunnerStep, RunnerFault, Environment

\* What a pass knows survives.
LEMMA Stable ==
    ASSUME TypeOK, NEW p \in Passes, PassInv(p), Elsewhere(p)
    PROVE  PassInv(p)'
BY DEF Elsewhere, PassInv, TypeOK, PassStates, Controlled, TurnEnds, Turns

-----------------------------------------------------------------------------
(* The passes.                                                             *)

\* A pass that only reads or decides changes nothing but itself.
Thinks(p) ==
    /\ UNCHANGED <<job, tree, remote, lock, receipt>>
    /\ NoFault \/ Fault
    /\ pass' \in [Passes -> PassStates]
    /\ \A q \in Passes \ {p} : pass'[q] = pass[q]
    /\ pass'[p].fenced = pass[p].fenced /\ pass'[p].step # "fence"

\* Nobody else notices.
LEMMA ThinkingPreserves ==
    ASSUME TypeOK, JobInv, RunnerInv, Safe, NEW p \in Passes, Thinks(p)
    PROVE  /\ (TypeOK /\ JobInv /\ RunnerInv /\ Safe)'
           /\ \A q \in Passes \ {p} : Elsewhere(q)
<1> USE DEF Thinks, tree, remote
<1>1. TypeOK'
  BY FaultsAssumption DEF TypeOK, Fault, NoFault
<1>2. (JobInv /\ RunnerInv /\ Safe)'
  BY DEF JobInv, RunnerInv, Safe, ExclusionHeld, CancelledIsStopped, ResultIsReal,
         SettledIsDecided
<1>3. \A q \in Passes \ {p} : Elsewhere(q)
  BY DEF Elsewhere
<1> QED BY <1>1, <1>2, <1>3

\* Membership is a truth value.
LEMMA BooleanMembership == \A x, S : (x \in S) \in BOOLEAN
OBVIOUS

\* Reading and deciding.
Thinking(p) ==
    \/ ReadRemote(p) \/ Decide(p) \/ Precheck(p) \/ Reread(p) \/ Redecide(p) \/ Expire(p)

\* A pass that reads, decides or runs out of budget only thinks, and keeps what it knows.
LEMMA ThinkingIsThinking ==
    ASSUME TypeOK, JobInv, RunnerInv, NEW p \in Passes, PassInv(p), Thinking(p)
    PROVE  Thinks(p) /\ PassInv(p)'
<1>0. pass[p] \in PassStates /\ job \in Jobs
  BY DEF TypeOK
<1> DEFINE s == pass[p]
<1>1. CASE ReadRemote(p)
  <2> DEFINE next == IF s.view.stop THEN "decide" ELSE "persist"
  <2>1. CASE job.status # s.view.status
    <3>1. Becomes(p, [s EXCEPT !.step = "report", !.raced = job])
      BY <1>1, <2>1, LosesToEffect DEF ReadRemote
    <3> QED BY <1>0, <1>1, <3>1, ZenonT(60)
            DEF ReadRemote, PassOnly, Becomes, Thinks, PassInv, At, Controlled, PassStates,
                tree, remote
  <2>2. CASE job.status = s.view.status
    <3>1. PICK r \in Readings : /\ Goes(p, [s EXCEPT !.reading = r, !.step = next])
                                /\ r \in Readable \cup {"unreadable", "unavailable"}
      BY <1>1, <2>2 DEF ReadRemote, Readings, Readable, TypeOK, Turns
    <3>2. [s EXCEPT !.reading = r, !.step = next] \in PassStates
      BY <1>0, <3>1 DEF PassStates, PassSteps
    <3>3. Becomes(p, [s EXCEPT !.reading = r, !.step = next])
      BY <3>1, <3>2, GoesTo
    <3>4. At(p, "read") /\ (NoFault \/ Fault)
      BY <1>1 DEF ReadRemote
    <3>5. Thinks(p)
      BY <1>0, <1>1, <2>2, <3>3 DEF ReadRemote, PassOnly, Becomes, Thinks, PassStates
    <3>6. UNCHANGED <<job, tree, remote, lock, receipt>> /\ s.step = "read"
      BY <1>1 DEF ReadRemote, PassOnly, At
    <3>7. /\ r \in TurnEnds => turn = r
          /\ r \in {"active", "idle"} => turn # "none"
      BY <3>1 DEF Readable, TurnEnds
    <3>8. s.view.stop => job.status = "cancelling"
      BY <2>2, <3>6, <1>0 DEF PassInv, Started
    <3> QED BY <1>0, <2>2, <3>3, <3>5, <3>6, <3>7, <3>8
            DEF Becomes, PassInv, Controlled, PassStates, tree, remote, TurnEnds
  <2> QED BY <2>1, <2>2
<1>2. CASE Decide(p)
  <2>1. \E plan \in {"archive", "succeeded", "failed", "cancelled", "retain"} :
            /\ Moves(p, "kill", plan)
            /\ plan \in {"succeeded", "failed"} => s.reading = plan
            /\ plan = "cancelled" => s.reading = "interrupted"
        \/ Moves(p, "precheck", s.plan)
    BY <1>2, CleanThenMoves, StepsToMoves DEF Decide, Plans, PassSteps
  <2> QED BY <1>0, <1>2, <2>1 DEF Decide, Moves, Thinks, PassOnly, PassInv, At, Controlled,
                                  TurnEnds, tree, remote
<1>3. CASE Precheck(p)
  <2> USE <1>3 DEF Precheck
  <2>1. CASE \E r \in Readable : r \in {"succeeded", "failed"} /\ CleanThen(p, r)
    <3>1. PICK r \in {"succeeded", "failed"} : turn = r /\ Moves(p, "kill", r)
      BY <2>1, CleanThenMoves DEF Readable, Plans
    <3> QED BY <1>0, <3>1 DEF Moves, Thinks, PassOnly, PassInv, At, Controlled, tree, remote
  <2>2. CASE \E same \in BOOLEAN : /\ Goes(p, [s EXCEPT !.step = "stop", !.same = same])
                                   /\ same => s.reading \in {"active", "idle"}
    <3>1. PICK same \in BOOLEAN : /\ Goes(p, [s EXCEPT !.step = "stop", !.same = same])
                                  /\ same => s.reading \in {"active", "idle"}
      BY <2>2
    <3>2. [s EXCEPT !.step = "stop", !.same = same] \in PassStates
      BY <1>0 DEF PassStates, PassSteps
    <3>3. Becomes(p, [s EXCEPT !.step = "stop", !.same = same])
      BY <3>1, <3>2, GoesTo
    <3> QED BY <1>0, <3>1, <3>3, ZenonT(60)
            DEF Becomes, Thinks, PassOnly, PassInv, At, Controlled, PassStates, tree, remote
  <2> HIDE <1>3 DEF Precheck
  <2>3. ASSUME NEW r \in Readable, r \notin {"succeeded", "failed"},
               Goes(p, [s EXCEPT !.step = "stop", !.same = s.reading \in {"active", "idle"}
                                                           /\ ~ replaced /\ r # "foreign"])
        PROVE  \E same \in BOOLEAN : /\ Goes(p, [s EXCEPT !.step = "stop", !.same = same])
                                     /\ same => s.reading \in {"active", "idle"}
    <3> DEFINE b == s.reading \in {"active", "idle"} /\ ~ replaced /\ r # "foreign"
    <3>1. b \in BOOLEAN /\ (b => s.reading \in {"active", "idle"})
      OBVIOUS
    <3>2. Goes(p, [s EXCEPT !.step = "stop", !.same = b])
      BY <2>3
    <3> QED BY <3>1, <3>2, Zenon
  <2>4. ASSUME Goes(p, [s EXCEPT !.step = "stop", !.same = s.reading \in {"active", "idle"}])
        PROVE  \E same \in BOOLEAN : /\ Goes(p, [s EXCEPT !.step = "stop", !.same = same])
                                     /\ same => s.reading \in {"active", "idle"}
    <3> DEFINE b == s.reading \in {"active", "idle"}
    <3>1. b \in BOOLEAN
      BY BooleanMembership
    <3>2. Goes(p, [s EXCEPT !.step = "stop", !.same = b])
      BY <2>4
    <3> QED BY <3>1, <3>2, Zenon
  <2>5. \/ \E r \in Readable : r \in {"succeeded", "failed"} /\ CleanThen(p, r)
        \/ \E r \in Readable :
              /\ r \notin {"succeeded", "failed"}
              /\ Goes(p, [s EXCEPT !.step = "stop", !.same = s.reading \in {"active", "idle"}
                                                             /\ ~ replaced /\ r # "foreign"])
        \/ Goes(p, [s EXCEPT !.step = "stop", !.same = s.reading \in {"active", "idle"}])
    BY <1>3, Zenon DEF Precheck
  <2> QED BY <2>1, <2>2, <2>3, <2>4, <2>5, Zenon
<1>4. CASE Reread(p)
  <2>1. PICK r \in Readings, same \in BOOLEAN :
            /\ Goes(p, [s EXCEPT !.step = "redecide", !.reading = r, !.same = same])
            /\ r \in Readable \cup {"unreadable"}
    BY <1>4 DEF Reread, Readings, Readable, TypeOK, Turns
  <2>2. [s EXCEPT !.step = "redecide", !.reading = r, !.same = same] \in PassStates
    BY <1>0 DEF PassStates, PassSteps
  <2>3. Becomes(p, [s EXCEPT !.step = "redecide", !.reading = r, !.same = same])
    BY <2>1, <2>2, GoesTo
  <2>4. /\ r \in TurnEnds => turn = r
        /\ r \in {"active", "idle"} => turn # "none"
    BY <2>1 DEF Readable, TurnEnds
  <2> QED BY <1>0, <1>4, <2>3, <2>4, ZenonT(60)
          DEF Reread, Becomes, Thinks, PassOnly, PassInv, At, Controlled, PassStates, tree,
              remote
<1>5. CASE Redecide(p)
  <2>1. \E plan \in {"succeeded", "cancelled", "noReport", "retain"} :
            /\ Moves(p, "kill", plan)
            /\ plan = "succeeded" => s.reading = plan
            /\ plan = "cancelled" => s.reading \in {"interrupted", "failed"}
            /\ plan = "noReport" => s.reply = "qualified"
    BY <1>5, CleanThenMoves DEF Redecide, Plans
  <2> QED BY <1>0, <1>5, <2>1 DEF Redecide, Moves, Thinks, PassOnly, PassInv, At, Controlled,
                                  TurnEnds, tree, remote
<1>6. CASE Expire(p)
  <2>1. Moves(p, "kill", "expired")
    BY <1>6, CleanThenMoves DEF Expire, Plans
  <2> QED BY <1>0, <1>6, <2>1 DEF Expire, Moves, Thinks, PassOnly, PassInv, At, Controlled,
                                  tree, remote
<1> QED BY <1>1, <1>2, <1>3, <1>4, <1>5, <1>6 DEF Thinking

\* The steps that do something to the job, the engine, the tree or the receipt.
Acting(p) ==
    \/ BeginPass(p) \/ PersistQueued(p) \/ PersistStarted(p) \/ Stop(p) \/ Kill(p) \/ Sweep(p)
    \/ Publish(p) \/ Report(p) \/ Delegate(p) \/ Recheck(p) \/ DischargeFence(p) \/ PassDies(p)

\* Where each of them leads the pass.
LEMMA BeginPassMoves ==
    ASSUME TypeOK, NEW p \in Passes, BeginPass(p)
    PROVE  \/ Moves(p, "kill", "discharge") /\ UNCHANGED lock
           \/ Moves(p, "report", pass[p].plan) /\ UNCHANGED lock
           \/ /\ job.status \in Unfinished /\ lock = "free" /\ lock' = p
              /\ Becomes(p, [pass[p] EXCEPT !.view = job,
                                !.step = IF job.status = "queued" THEN "persist" ELSE "read"])
<1>1. CASE \/ CleanThen(p, "discharge") /\ UNCHANGED lock
           \/ StepsTo(p, "report") /\ UNCHANGED lock
  BY <1>1, CleanThenMoves, StepsToMoves DEF Plans, PassSteps
<1>2. CASE /\ job.status \in Unfinished /\ lock = "free" /\ lock' = p
           /\ Goes(p, [pass[p] EXCEPT !.view = job,
                          !.step = IF job.status = "queued" THEN "persist" ELSE "read"])
  <2>1. pass[p] \in PassStates /\ job \in Jobs
    BY DEF TypeOK
  <2>2. (IF job.status = "queued" THEN "persist" ELSE "read") \in PassSteps
    BY DEF PassSteps
  <2>3. [pass[p] EXCEPT !.view = job,
            !.step = IF job.status = "queued" THEN "persist" ELSE "read"] \in PassStates
    BY <2>1, <2>2 DEF PassStates
  <2> QED BY <1>2, <2>3, GoesTo
<1> QED BY <1>1, <1>2 DEF BeginPass

LEMMA PersistQueuedMoves ==
    ASSUME TypeOK, NEW p \in Passes, PersistQueued(p)
    PROVE  \/ Moves(p, "publish", "queued") /\ UNCHANGED job /\ ~ pass[p].view.claim
           \/ Moves(p, "kill", "queued") /\ job' = job
           \/ Moves(p, "kill", "queued") /\ job.status = "queued" /\ job' = [job EXCEPT !.stop = TRUE]
           \/ UNCHANGED job /\ Becomes(p, [pass[p] EXCEPT !.step = "report", !.raced = job])
BY MovesTo, CleanThenMoves, LosesToEffect DEF PersistQueued, Plans, PassSteps

LEMMA PersistStartedMoves ==
    ASSUME TypeOK, NEW p \in Passes, PersistStarted(p)
    PROVE  \/ UNCHANGED job /\ Becomes(p, [pass[p] EXCEPT !.step = "report", !.raced = job])
           \/ Moves(p, "decide", pass[p].plan) /\ job.status \notin Ends /\ job' = Cancelling
BY StepsToMoves, LosesToEffect DEF PersistStarted, PassSteps

LEMMA StopMoves ==
    ASSUME TypeOK, NEW p \in Passes, Stop(p)
    PROVE  \E reply \in {"refused", "acknowledged", "qualified"} :
              /\ Becomes(p, [pass[p] EXCEPT !.step = "reread", !.reply = reply])
              /\ \/ reply = "refused" /\ UNCHANGED acked
                 \/ reply = "acknowledged" /\ Acknowledge
                 \/ reply = "qualified" /\ Acknowledge /\ pass[p].same /\ ~ replaced
<1>1. PICK reply \in {"refused", "acknowledged", "qualified"} :
         /\ Goes(p, [pass[p] EXCEPT !.step = "reread", !.reply = reply])
         /\ \/ reply = "refused" /\ UNCHANGED acked
            \/ reply = "acknowledged" /\ Acknowledge
            \/ reply = "qualified" /\ Acknowledge /\ pass[p].same /\ ~ replaced
  BY DEF Stop
<1>2. [pass[p] EXCEPT !.step = "reread", !.reply = reply] \in PassStates
  <2>1. pass[p] \in PassStates /\ "reread" \in PassSteps
    BY DEF TypeOK, PassSteps
  <2> QED BY <2>1 DEF PassStates
<1>3. Becomes(p, [pass[p] EXCEPT !.step = "reread", !.reply = reply])
  BY <1>1, <1>2, GoesTo
<1> QED BY <1>1, <1>3

\* A duty ends in a report, and in a clean sweep goes on.
LEMMA KillMoves ==
    ASSUME TypeOK, NEW p \in Passes, Kill(p)
    PROVE  \/ Moves(p, "sweep", pass[p].plan)
           \/ Moves(p, "report", IF pass[p].plan = "discharge" THEN "pending" ELSE pass[p].plan)
BY StepsToMoves, UnsettledMoves DEF Kill, PassSteps

\* A kill takes the runner, its lock and some of its descendants, or nothing.
LEMMA KillEffect ==
    ASSUME NEW p \in Passes, Kill(p)
    PROVE  /\ UNCHANGED <<job, remote, receipt>>
           /\ NoFault \/ Fault
           /\ At(p, "kill")
           /\ \/ UNCHANGED <<tree, lock>>
              \/ LeaseHeld /\ KillRunner /\ strays' \in {FALSE, strays}
BY DEF Kill

\* A sweep only ends descendants.
LEMMA SweepEffect ==
    ASSUME NEW p \in Passes, Sweep(p)
    PROVE  /\ UNCHANGED <<job, runner, remote, lock, receipt>>
           /\ NoFault \/ Fault
           /\ At(p, "sweep")
           /\ strays' \in {FALSE, strays}
BY DEF Sweep

\* Faults are counted within their bound.
LEMMA FaultIsBounded ==
    ASSUME TypeOK, NoFault \/ Fault
    PROVE  faults' \in 0 .. MaxFaults
BY FaultsAssumption DEF TypeOK, NoFault, Fault

\* A pass is nobody else who may hold the lock.
LEMMA PassIsNotRunner == \A p \in Passes : p # "free" /\ p # "runner"
BY PassesAssumption

LEMMA SweepMoves ==
    ASSUME TypeOK, NEW p \in Passes, Sweep(p)
    PROVE  \/ Moves(p, "report", IF pass[p].plan = "discharge" THEN "pending" ELSE pass[p].plan)
           \/ /\ runner \in {"none", "gone"} /\ ~ strays /\ UNCHANGED strays
              /\ \/ Moves(p, "report", pass[p].plan)
                 \/ Moves(p, "publish", pass[p].plan) /\ pass[p].plan # "discharge"
BY StepsToMoves, UnsettledMoves DEF Sweep, PassSteps

\* Where the two callers and the fence lead the pass.
LEMMA DischargedMoves ==
    ASSUME TypeOK, NEW p \in Passes, Discharged(p)
    PROVE  \/ Moves(p, "fence", pass[p].plan) /\ UNCHANGED receipt /\ ~ pass[p].fenced
           \/ Becomes(p, Idle) /\ receipt' \in {receipt, "settled"}
                               /\ (receipt' = "none" <=> receipt = "none")
BY StepsToMoves, IdleIsPass, GoesTo DEF Discharged, SettleReceipt, PassSteps

LEMMA ReportMoves ==
    ASSUME TypeOK, NEW p \in Passes, PassInv(p), Report(p)
    PROVE  \/ Moves(p, "fence", pass[p].plan) /\ UNCHANGED receipt
                                              /\ ~ pass[p].fenced /\ Discharges(job)
           \/ Moves(p, "delegate", pass[p].plan) /\ UNCHANGED receipt
           \/ Becomes(p, Idle) /\ receipt' \in {receipt, "settled"} /\ Discharges(job)
                               /\ (receipt' = "none" <=> receipt = "none")
           \/ Becomes(p, Idle) /\ UNCHANGED receipt
<1> DEFINE winner == IF pass[p].raced # NoJob THEN pass[p].raced ELSE job
<1>1. CASE Discharges(winner) /\ Discharged(p)
  BY <1>1, DischargedMoves DEF PassInv
<1>2. CASE GivesUp(p)
  BY <1>2, IdleIsPass, GoesTo DEF GivesUp
<1>3. CASE StepsTo(p, "delegate") /\ UNCHANGED receipt
  BY <1>3, StepsToMoves DEF PassSteps
<1> QED BY <1>1, <1>2, <1>3 DEF Report

LEMMA RecheckMoves ==
    ASSUME TypeOK, NEW p \in Passes, Recheck(p)
    PROVE  \/ Moves(p, "fence", pass[p].plan) /\ UNCHANGED receipt
                                              /\ ~ pass[p].fenced /\ Discharges(job)
           \/ Becomes(p, Idle) /\ receipt' \in {receipt, "settled"} /\ Discharges(job)
                               /\ (receipt' = "none" <=> receipt = "none")
           \/ Becomes(p, Idle) /\ UNCHANGED receipt
BY DischargedMoves, IdleIsPass, GoesTo DEF Recheck, GivesUp

LEMMA DischargeFenceMoves ==
    ASSUME TypeOK, NEW p \in Passes, DischargeFence(p)
    PROVE  \/ /\ Becomes(p, Idle) /\ receipt' \in {receipt, "settled"}
              /\ (receipt' = "none" <=> receipt = "none")
              /\ Discharges(job')
           \/ Becomes(p, [Idle EXCEPT !.fenced = TRUE]) /\ UNCHANGED receipt
BY IdleIsPass, GoesTo DEF DischargeFence, SettleReceipt

\* They keep the types and leave the other passes as they are.
LEMMA ActingTypes ==
    ASSUME TypeOK, NEW p \in Passes, PassInv(p), Acting(p)
    PROVE  TypeOK' /\ \A q \in Passes \ {p} : pass'[q] = pass[q]
<1>0. job \in Jobs
  BY DEF TypeOK
<1> USE DEF Fault, NoFault, PassOnly, Unlock, remote, tree
<1>1. CASE BeginPass(p)
  <2>1. pass' \in [Passes -> PassStates] /\ \A q \in Passes \ {p} : pass'[q] = pass[q]
    BY <1>1, BeginPassMoves DEF BeginPass, Moves, Becomes, PassSteps
  <2> QED BY <1>1, <2>1, FaultsAssumption DEF BeginPass, TypeOK
<1>2. CASE PersistQueued(p)
  <2>1. job' \in Jobs
    BY <1>2, <1>0, JobEdits, PersistQueuedMoves DEF PersistQueued, Started, Ends, Unfinished
  <2>2. pass' \in [Passes -> PassStates] /\ \A q \in Passes \ {p} : pass'[q] = pass[q]
    BY <1>2, PersistQueuedMoves DEF PersistQueued, Moves, Becomes, PassSteps
  <2> QED BY <1>2, <2>1, <2>2, FaultsAssumption DEF PersistQueued, TypeOK, SettleReceipt
<1>3. CASE PersistStarted(p)
  <2>1. job' \in Jobs
    BY <1>3, <1>0, JobEdits DEF PersistStarted, Cancelling, Started, Ends, Unfinished
  <2>2. pass' \in [Passes -> PassStates] /\ \A q \in Passes \ {p} : pass'[q] = pass[q]
    BY <1>3, PersistStartedMoves DEF PersistStarted, Moves, Becomes, PassSteps
  <2> QED BY <1>3, <2>1, <2>2, FaultsAssumption DEF PersistStarted, TypeOK, SettleReceipt
<1>4. CASE Stop(p)
  <2>1. pass' \in [Passes -> PassStates] /\ \A q \in Passes \ {p} : pass'[q] = pass[q]
    BY <1>4, StopMoves DEF Stop, Moves, Becomes, PassSteps
  <2> QED BY <1>4, <2>1, FaultsAssumption DEF Stop, TypeOK, Acknowledge
<1>5. CASE Kill(p)
  <2>1. pass' \in [Passes -> PassStates] /\ \A q \in Passes \ {p} : pass'[q] = pass[q]
    BY <1>5, KillMoves DEF Kill, Moves, Becomes, PassSteps
  <2>2. runner' \in RunnerSteps /\ strays' \in BOOLEAN /\ lock' \in Passes \cup {"free", "runner"}
    BY <1>5, KillEffect DEF TypeOK, KillRunner, RunnerSteps
  <2>3. /\ UNCHANGED <<job, remote, receipt>>
        /\ faults' \in 0 .. MaxFaults
    BY <1>5, KillEffect, FaultIsBounded
  <2> QED BY <2>1, <2>2, <2>3 DEF TypeOK
<1>6. CASE Sweep(p)
  <2>1. pass' \in [Passes -> PassStates] /\ \A q \in Passes \ {p} : pass'[q] = pass[q]
    BY <1>6, SweepMoves DEF Sweep, Moves, Becomes, PassSteps
  <2>2. runner' \in RunnerSteps /\ strays' \in BOOLEAN /\ lock' \in Passes \cup {"free", "runner"}
    BY <1>6, SweepEffect DEF TypeOK, KillRunner, RunnerSteps
  <2>3. /\ UNCHANGED <<job, remote, receipt>>
        /\ faults' \in 0 .. MaxFaults
    BY <1>6, SweepEffect, FaultIsBounded
  <2> QED BY <2>1, <2>2, <2>3 DEF TypeOK
<1>7. CASE Publish(p)
  <2>1. job' \in Jobs
    BY <1>7, <1>0, JobEdits DEF Publish, Published, Cancelled, Started, Ends, Unfinished
  <2>2. pass' \in [Passes -> PassStates] /\ \A q \in Passes \ {p} : pass'[q] = pass[q]
    BY <1>7, StepsToMoves DEF Publish, Moves, Becomes, PassSteps
  <2> QED BY <1>7, <2>1, <2>2, FaultsAssumption DEF Publish, TypeOK, SettleReceipt
<1>8. CASE Report(p)
  <2>1. pass' \in [Passes -> PassStates] /\ \A q \in Passes \ {p} : pass'[q] = pass[q]
    BY <1>8, ReportMoves DEF Report, Moves, Becomes, PassSteps
  <2> QED BY <1>8, <2>1, FaultsAssumption DEF Report, TypeOK, Discharged, GivesUp, SettleReceipt
<1>9. CASE Delegate(p)
  <2>1. job' \in Jobs
    BY <1>9, <1>0, JobEdits DEF Delegate, Delegation, Cancelling, Started, Ends, Unfinished
  <2>2. pass' \in [Passes -> PassStates] /\ \A q \in Passes \ {p} : pass'[q] = pass[q]
    BY <1>9, StepsToMoves DEF Delegate, Moves, Becomes, PassSteps
  <2> QED BY <1>9, <2>1, <2>2, FaultsAssumption DEF Delegate, TypeOK, SettleReceipt
<1>10. CASE Recheck(p)
  <2>1. pass' \in [Passes -> PassStates] /\ \A q \in Passes \ {p} : pass'[q] = pass[q]
    BY <1>10, RecheckMoves DEF Recheck, Moves, Becomes, PassSteps
  <2> QED BY <1>10, <2>1, FaultsAssumption
      DEF Recheck, TypeOK, Discharged, GivesUp, SettleReceipt
<1>11. CASE DischargeFence(p)
  <2>1. job' \in Jobs
    BY <1>11, <1>0, JobEdits
    DEF DischargeFence, Delegation, Cancelling, Started, Ends, Unfinished
  <2>2. pass' \in [Passes -> PassStates] /\ \A q \in Passes \ {p} : pass'[q] = pass[q]
    BY <1>11, DischargeFenceMoves DEF DischargeFence, Moves, Becomes, PassSteps
  <2> QED BY <1>11, <2>1, <2>2, FaultsAssumption DEF DischargeFence, TypeOK, SettleReceipt
<1>12. CASE PassDies(p)
  <2>1. pass' \in [Passes -> PassStates] /\ \A q \in Passes \ {p} : pass'[q] = pass[q]
    BY <1>12, GoesTo, IdleIsPass DEF PassDies, Moves, Becomes, PassSteps
  <2> QED BY <1>12, <2>1, FaultsAssumption DEF PassDies, TypeOK
<1> QED BY <1>1, <1>2, <1>3, <1>4, <1>5, <1>6, <1>7, <1>8, <1>9, <1>10, <1>11, <1>12 DEF Acting

\* What they do to the rest is what the others may count on.
LEMMA ActingGlobal ==
    ASSUME TypeOK, JobInv, RunnerInv, Safe, NEW p \in Passes, PassInv(p), Acting(p)
    PROVE  (JobInv /\ RunnerInv /\ Safe)'
<1> USE PassesAssumption
    DEF JobInv, RunnerInv, Safe, ExclusionHeld, CancelledIsStopped, ResultIsReal,
            SettledIsDecided,
            Started, Unfinished, Ends, Working, TurnEnds, BeforeSend, Discharges, At,
            PassOnly, Unlock, remote, tree
<1>1. CASE BeginPass(p)
  BY <1>1, SMTT(30) DEF BeginPass
<1>2. CASE PersistQueued(p)
  <2>1. UNCHANGED <<runner, strays, turn, acked, replaced, lock, receipt>>
    BY <1>2 DEF PersistQueued
  <2>2. job' = job \/ (job.status = "queued" /\ job' = [job EXCEPT !.stop = TRUE])
    BY <1>2, PersistQueuedMoves
  <2> QED BY <2>1, <2>2, SMTT(30) DEF Jobs, TypeOK
<1>3. CASE PersistStarted(p)
  <2>1. /\ UNCHANGED <<runner, strays, turn, acked, replaced, lock, receipt>>
        /\ job.status \notin {"unused", "queued"} /\ lock = p
    BY <1>3 DEF PersistStarted, PassInv
  <2>2. CASE UNCHANGED job
    BY <2>1, <2>2
  <2>3. CASE job.status \notin Ends /\ job' = Cancelling
    <3>1. /\ job.status \in Started /\ job'.status = "cancelling" /\ job'.stop
          /\ job'.claim = job.claim /\ job'.archived = job.archived
      BY <2>1, <2>3 DEF Cancelling, Jobs, TypeOK
    <3> QED BY <2>1, <3>1, PassIsNotRunner
  <2> QED BY <1>3, <2>2, <2>3, PersistStartedMoves
<1>4. CASE Stop(p)
  BY <1>4, SMTT(30) DEF Stop, Acknowledge
<1>5. CASE Kill(p)
  <2>1. UNCHANGED <<job, remote, receipt>>
    BY <1>5, KillEffect
  <2>2. CASE UNCHANGED <<tree, lock>>
    BY <2>1, <2>2
  <2>3. CASE LeaseHeld /\ KillRunner /\ strays' \in {FALSE, strays}
    <3>1. /\ runner \in Working /\ runner' = "gone"
          /\ IF lock = "runner" THEN lock' = "free" ELSE lock' = lock
      BY <2>3 DEF LeaseHeld, KillRunner
    <3>2. strays' => strays
      BY <2>3, Zenon
    <3> QED BY <2>1, <3>1, <3>2, PassIsNotRunner
  <2> QED BY <1>5, <2>2, <2>3, KillEffect
<1>6. CASE Sweep(p)
  BY <1>6, SMTT(30) DEF Sweep
<1>7. CASE Publish(p)
  BY <1>7, SMTT(30) DEF Publish, Published, Cancelled, LeaseHeld, PassInv, Jobs, TypeOK
<1>8. CASE Report(p)
  BY <1>8, ReportMoves, SMTT(30) DEF Report
<1>9. CASE Delegate(p)
  BY <1>9, SMTT(30) DEF Delegate, Delegation, Cancelling, Jobs, TypeOK
<1>10. CASE Recheck(p)
  BY <1>10, RecheckMoves, SMTT(30) DEF Recheck
<1>11. CASE DischargeFence(p)
  BY <1>11, DischargeFenceMoves, SMTT(30)
  DEF DischargeFence, Delegation, Cancelling, Jobs, TypeOK, SettleReceipt
<1>12. CASE PassDies(p)
  BY <1>12, SMTT(30) DEF PassDies
<1> QED BY <1>1, <1>2, <1>3, <1>4, <1>5, <1>6, <1>7, <1>8, <1>9, <1>10, <1>11, <1>12 DEF Acting

\* To the other passes they do nothing they would have to know of.
LEMMA ActingElsewhere ==
    ASSUME TypeOK, JobInv, RunnerInv, Safe, NEW p \in Passes, PassInv(p), Acting(p),
           NEW q \in Passes \ {p}
    PROVE  Elsewhere(q)
<1>0. pass'[q] = pass[q]
  BY ActingTypes
<1> USE <1>0, PassesAssumption DEF Elsewhere, JobInv, RunnerInv, Started, Unfinished, Ends,
            Working, TurnEnds, Discharges, At, PassOnly, Unlock, remote, tree
<1>1. CASE BeginPass(p)
  BY <1>1, SMTT(30) DEF BeginPass
<1>2. CASE PersistQueued(p)
  <2>1. UNCHANGED <<runner, strays, turn, acked, replaced, lock, receipt>>
    BY <1>2 DEF PersistQueued
  <2>2. job' = job \/ (job.status = "queued" /\ job' = [job EXCEPT !.stop = TRUE])
    BY <1>2, PersistQueuedMoves
  <2> QED BY <2>1, <2>2, SMTT(30) DEF Jobs, TypeOK
<1>3. CASE PersistStarted(p)
  <2>1. /\ UNCHANGED <<runner, strays, turn, acked, replaced, lock, receipt>>
        /\ job.status \notin {"unused", "queued"} /\ lock = p
    BY <1>3 DEF PersistStarted, PassInv
  <2>2. CASE UNCHANGED job
    BY <2>1, <2>2
  <2>3. CASE job.status \notin Ends /\ job' = Cancelling
    <3>1. /\ job.status \in Started /\ job'.status = "cancelling" /\ job'.stop
          /\ job'.claim = job.claim /\ job'.archived = job.archived
      BY <2>1, <2>3 DEF Cancelling, Jobs, TypeOK
    <3> QED BY <2>1, <3>1, PassIsNotRunner
  <2> QED BY <1>3, <2>2, <2>3, PersistStartedMoves
<1>4. CASE Stop(p)
  BY <1>4, SMTT(30) DEF Stop, Acknowledge
<1>5. CASE Kill(p)
  <2>1. UNCHANGED <<job, remote, receipt>>
    BY <1>5, KillEffect
  <2>2. CASE UNCHANGED <<tree, lock>>
    BY <2>1, <2>2
  <2>3. CASE LeaseHeld /\ KillRunner /\ strays' \in {FALSE, strays}
    <3>1. /\ runner \in Working /\ runner' = "gone"
          /\ IF lock = "runner" THEN lock' = "free" ELSE lock' = lock
      BY <2>3 DEF LeaseHeld, KillRunner
    <3>2. strays' => strays
      BY <2>3, Zenon
    <3> QED BY <2>1, <3>1, <3>2, PassIsNotRunner
  <2> QED BY <1>5, <2>2, <2>3, KillEffect
<1>6. CASE Sweep(p)
  BY <1>6, SMTT(30) DEF Sweep
<1>7. CASE Publish(p)
  BY <1>7, SMTT(30) DEF Publish, Published, Cancelled, LeaseHeld, PassInv, Jobs, TypeOK
<1>8. CASE Report(p)
  BY <1>8, ReportMoves, SMTT(30) DEF Report
<1>9. CASE Delegate(p)
  BY <1>9, SMTT(30) DEF Delegate, Delegation, Cancelling, Jobs, TypeOK
<1>10. CASE Recheck(p)
  BY <1>10, RecheckMoves, SMTT(30) DEF Recheck
<1>11. CASE DischargeFence(p)
  BY <1>11, DischargeFenceMoves, SMTT(30)
  DEF DischargeFence, Delegation, Cancelling, Jobs, TypeOK, SettleReceipt
<1>12. CASE PassDies(p)
  BY <1>12, SMTT(30) DEF PassDies
<1> QED BY <1>1, <1>2, <1>3, <1>4, <1>5, <1>6, <1>7, <1>8, <1>9, <1>10, <1>11, <1>12 DEF Acting

\* And the pass itself knows what it has to know at its next step.
LEMMA ActingOwn ==
    ASSUME TypeOK, JobInv, RunnerInv, NEW p \in Passes, PassInv(p), Acting(p)
    PROVE  PassInv(p)'
<1>0. pass[p] \in PassStates
  BY DEF TypeOK
<1> USE <1>0, PassesAssumption
    DEF PassInv, Controlled, TurnEnds, At, PassOnly, Unlock, remote, tree,
            Moves, Becomes
<1>1. CASE BeginPass(p)
  <2>1. /\ UNCHANGED <<job, runner, strays, turn, acked, replaced, receipt>>
        /\ receipt = "pending" /\ pass[p].step = "idle"
    BY <1>1 DEF BeginPass
  <2>2. CASE Moves(p, "kill", "discharge") \/ Moves(p, "report", pass[p].plan)
    BY <2>1, <2>2
  <2>3. CASE /\ job.status \in Unfinished /\ lock = "free" /\ lock' = p
             /\ Becomes(p, [pass[p] EXCEPT !.view = job,
                               !.step = IF job.status = "queued" THEN "persist" ELSE "read"])
    <3>1. /\ pass'[p].view = job
          /\ pass'[p].step = IF job.status = "queued" THEN "persist" ELSE "read"
          /\ pass'[p].reading = pass[p].reading /\ pass'[p].reply = pass[p].reply
          /\ pass'[p].plan = pass[p].plan /\ pass'[p].raced = pass[p].raced
      BY <2>3 DEF PassStates
    <3> QED BY <2>1, <2>3, <3>1 DEF JobInv, Unfinished, Started
  <2> QED BY <1>1, <2>2, <2>3, BeginPassMoves
<1>2. CASE PersistQueued(p)
  <2>1. /\ UNCHANGED <<runner, strays, turn, acked, replaced, lock, receipt>>
        /\ pass[p].step = "persist" /\ pass[p].view.status = "queued"
    BY <1>2 DEF PersistQueued
  <2>2. CASE Moves(p, "publish", "queued") /\ UNCHANGED job /\ ~ pass[p].view.claim
    BY <2>1, <2>2
  <2>3. CASE Moves(p, "kill", "queued") /\ job' = job
    BY <2>1, <2>3
  <2>4. CASE Moves(p, "kill", "queued") /\ job.status = "queued" /\ job' = [job EXCEPT !.stop = TRUE]
    <3>1. job'.status = job.status /\ job'.claim = job.claim
      BY <2>4 DEF TypeOK, Jobs
    <3> QED BY <2>1, <2>4, <3>1 DEF Discharges, Ends
  <2>5. CASE UNCHANGED job /\ Becomes(p, [pass[p] EXCEPT !.step = "report", !.raced = job])
    BY <2>1, <2>5 DEF PassStates
  <2> QED BY <1>2, <2>2, <2>3, <2>4, <2>5, PersistQueuedMoves
<1>3. CASE PersistStarted(p)
  <2>1. /\ UNCHANGED <<runner, strays, turn, acked, replaced, lock, receipt>>
        /\ pass[p].step = "persist" /\ pass[p].view.status \in Started
    BY <1>3 DEF PersistStarted
  <2>2. CASE UNCHANGED job /\ Becomes(p, [pass[p] EXCEPT !.step = "report", !.raced = job])
    BY <2>1, <2>2 DEF PassStates
  <2>3. CASE Moves(p, "decide", pass[p].plan) /\ job.status \notin Ends /\ job' = Cancelling
    <3>1. job'.status = "cancelling" /\ job'.stop /\ job'.claim = job.claim
      BY <2>3 DEF TypeOK, Jobs, Cancelling
    <3> QED BY <2>1, <2>3, <3>1 DEF Discharges
  <2> QED BY <1>3, <2>2, <2>3, PersistStartedMoves
<1>4. CASE Stop(p)
  <2>1. /\ UNCHANGED <<job, runner, strays, turn, replaced, lock, receipt>>
        /\ pass[p].step = "stop"
    BY <1>4 DEF Stop
  <2>2. PICK reply \in {"refused", "acknowledged", "qualified"} :
           /\ Becomes(p, [pass[p] EXCEPT !.step = "reread", !.reply = reply])
           /\ \/ reply = "refused" /\ UNCHANGED acked
              \/ reply = "acknowledged" /\ Acknowledge
              \/ reply = "qualified" /\ Acknowledge /\ pass[p].same /\ ~ replaced
    BY <1>4, StopMoves
  <2>3. /\ acked = "own" => acked' = "own"
        /\ reply = "qualified" => acked' = "own"
    BY <2>1, <2>2 DEF Acknowledge
  <2>4. /\ pass'[p].step = "reread" /\ pass'[p].reply = reply
        /\ pass'[p].view = pass[p].view /\ pass'[p].reading = pass[p].reading
        /\ pass'[p].plan = pass[p].plan /\ pass'[p].raced = pass[p].raced
    BY <2>2 DEF PassStates
  <2> QED BY <2>1, <2>3, <2>4
<1>5. CASE Kill(p)
  <2>1. /\ UNCHANGED <<job, turn, acked, replaced, receipt>>
        /\ pass[p].step = "kill"
    BY <1>5, KillEffect
  <2>2. lock = p => lock' = p
    BY <1>5, KillEffect, PassIsNotRunner DEF KillRunner
  <2>3. \/ Moves(p, "sweep", pass[p].plan)
        \/ Moves(p, "report", IF pass[p].plan = "discharge" THEN "pending" ELSE pass[p].plan)
    BY <1>5, KillMoves
  <2> QED BY <2>1, <2>2, <2>3
<1>6. CASE Sweep(p)
  <2>1. /\ UNCHANGED <<job, runner, turn, acked, replaced, lock, receipt>>
        /\ pass[p].step = "sweep"
    BY <1>6, SweepEffect
  <2>2. CASE Moves(p, "report", IF pass[p].plan = "discharge" THEN "pending" ELSE pass[p].plan)
    BY <2>1, <2>2
  <2>3. CASE /\ runner \in {"none", "gone"} /\ ~ strays /\ UNCHANGED strays
             /\ \/ Moves(p, "report", pass[p].plan)
                \/ Moves(p, "publish", pass[p].plan) /\ pass[p].plan # "discharge"
    BY <2>1, <2>3 DEF JobInv
  <2> QED BY <1>6, <2>2, <2>3, SweepMoves
<1>7. CASE Publish(p)
  BY <1>7, StepsToMoves, SMTT(120)
  DEF Publish, Published, Cancelled, Discharges, Started, Ends, Jobs, TypeOK, PassSteps
<1>8. CASE Report(p)
  BY <1>8, ReportMoves, SMTT(30) DEF Report, Idle, NoJob, Discharges, Started, Ends
<1>9. CASE Delegate(p)
  BY <1>9, StepsToMoves, SMTT(30)
  DEF Delegate, Delegation, Cancelling, Discharges, Started, Ends, Jobs, TypeOK, PassSteps
<1>10. CASE Recheck(p)
  BY <1>10, RecheckMoves, SMTT(30) DEF Recheck, Idle, NoJob, Discharges, Started, Ends
<1>11. CASE DischargeFence(p)
  BY <1>11, DischargeFenceMoves, SMTT(30) DEF DischargeFence, Delegation, Cancelling, Idle,
      NoJob, Discharges, Started, Ends, PassStates
<1>12. CASE PassDies(p)
  BY <1>12, GoesTo, IdleIsPass, SMTT(30) DEF PassDies, Idle, NoJob, Discharges, Started, Ends
<1> QED BY <1>1, <1>2, <1>3, <1>4, <1>5, <1>6, <1>7, <1>8, <1>9, <1>10, <1>11, <1>12 DEF Acting

-----------------------------------------------------------------------------
(* Invariance.                                                             *)

\* The inductive step: who acts, then what everybody knows.
LEMMA NextPreserves == Inv /\ [Next]_vars => Inv'
<1> SUFFICES ASSUME Inv, [Next]_vars
             PROVE  Inv'
  OBVIOUS
<1>0. TypeOK /\ JobInv /\ RunnerInv /\ Safe /\ \A p \in Passes : PassInv(p)
  BY DEF Inv, Global
<1>1. CASE RunnerStep \/ RunnerFault \/ Environment
  <2>1. (TypeOK /\ JobInv /\ RunnerInv /\ Safe)'
    BY <1>0, <1>1, OthersKeepTypes, OthersKeepGlobal
  <2>2. ASSUME NEW p \in Passes
        PROVE  PassInv(p)'
    BY <1>0, <1>1, OthersElsewhere, Stable
  <2> QED BY <2>1, <2>2 DEF Inv, Global
<1>2. ASSUME NEW p \in Passes, Thinking(p)
      PROVE  Inv'
  <2>1. Thinks(p) /\ PassInv(p)'
    BY <1>0, <1>2, ThinkingIsThinking
  <2>2. (TypeOK /\ JobInv /\ RunnerInv /\ Safe)' /\ \A q \in Passes \ {p} : Elsewhere(q)
    BY <1>0, <2>1, ThinkingPreserves
  <2>3. ASSUME NEW q \in Passes
        PROVE  PassInv(q)'
    BY <1>0, <2>1, <2>2, Stable
  <2> QED BY <2>2, <2>3 DEF Inv, Global
<1>3. ASSUME NEW p \in Passes, Acting(p)
      PROVE  Inv'
  <2>1. (TypeOK /\ JobInv /\ RunnerInv /\ Safe)'
    BY <1>0, <1>3, ActingTypes, ActingGlobal
  <2>2. ASSUME NEW q \in Passes
        PROVE  PassInv(q)'
    <3>1. CASE q = p
      BY <1>0, <1>3, <3>1, ActingOwn
    <3>2. CASE q # p
      BY <1>0, <1>3, <3>2, ActingElsewhere, Stable
    <3> QED BY <3>1, <3>2
  <2> QED BY <2>1, <2>2 DEF Inv, Global
<1>4. CASE UNCHANGED vars
  BY <1>0, <1>4
  DEF Inv, Global, vars, TypeOK, JobInv, RunnerInv, Safe, ExclusionHeld, CancelledIsStopped,
      ResultIsReal, SettledIsDecided, PassInv, Discharges
<1> QED BY <1>1, <1>2, <1>3, <1>4 DEF Next, PassStep, Thinking, Acting

\* The inductive invariant holds in every behaviour.
THEOREM Invariance == Spec => []Inv
<1>1. Init => Inv
  BY InitInv
<1>2. Inv /\ [Next]_vars => Inv'
  BY NextPreserves
<1> QED BY <1>1, <1>2, PTL DEF Spec

\* The record, the runner, the turn and the passes are what the module says they are.
THEOREM TypeCorrectness == Spec => []TypeOK
<1>1. Inv => TypeOK
  BY DEF Inv, Global
<1> QED BY <1>1, Invariance, PTL

\* A turn that runs unstopped keeps its job unfinished, and with it the writable slot.
THEOREM Exclusion == Spec => []ExclusionHeld
<1>1. Inv => ExclusionHeld
  BY DEF Inv, Global, Safe
<1> QED BY <1>1, Invariance, PTL

\* No job is recorded as cancelled over a turn nobody stopped.
THEOREM HonestCancellation == Spec => []CancelledIsStopped
<1>1. Inv => CancelledIsStopped
  BY DEF Inv, Global, Safe
<1> QED BY <1>1, Invariance, PTL

\* No result is recorded that the turn did not have.
THEOREM HonestResult == Spec => []ResultIsReal
<1>1. Inv => ResultIsReal
  BY DEF Inv, Global, Safe
<1> QED BY <1>1, Invariance, PTL

\* No receipt is settled over work that nobody decided to stop.
THEOREM Settlement == Spec => []SettledIsDecided
<1>1. Inv => SettledIsDecided
  BY DEF Inv, Global, Safe
<1> QED BY <1>1, Invariance, PTL

\* A pass stops a turn under the lock of its job and after the decision is durable.
THEOREM StopDiscipline == Spec => StopsOnlyDecided
<1>1. Inv => [\A p \in Passes :
                At(p, "stop") /\ pass'[p].step = "reread" =>
                    lock = p /\ job.status = "cancelling" /\ job.stop]_vars
  BY DEF Inv, Global, JobInv, PassInv, Controlled, At
<1> QED BY <1>1, Invariance, PTL DEF StopsOnlyDecided

\* A pass publishes the end of a claimed job only over a tree that is gone.
THEOREM CleanPublication == Spec => PublishesOverGoneTree
<1>1. Inv => [\A p \in Passes :
                /\ At(p, "publish") /\ pass'[p] # pass[p]
                /\ job.claim /\ job.status \notin Ends /\ job'.status \in Ends
                => runner = "gone" /\ ~ strays]_vars
  BY DEF Inv, PassInv, At
<1> QED BY <1>1, Invariance, PTL DEF PublishesOverGoneTree

-----------------------------------------------------------------------------
(* Refinement.                                                             *)

\* How one step may change the record, as far as WritableJobs can see.
Lives ==
    LET old == job.status
        new == job'.status
    IN \/ new = old /\ job'.stop = job.stop
       \/ old = "unused" /\ new = "queued" /\ job'.stop = job.stop
       \/ old = "queued" /\ new = "queued" /\ job'.stop
       \/ old = "queued" /\ ~ job.stop /\ new \in {"running", "failed"} /\ ~ job'.stop
       \/ old = "running" /\ new = "cancelling" /\ job'.stop
       \/ old \in Started /\ new \in {"succeeded", "failed"} /\ job'.stop = job.stop
       \/ old \in {"queued", "cancelling"} /\ new = "cancelled" /\ job'.stop

\* Every step changes the record in one of these ways.
LEMMA NextLives ==
    ASSUME Inv, [Next]_vars
    PROVE  Lives
<1>0. TypeOK /\ JobInv /\ job \in Jobs /\ \A p \in Passes : PassInv(p)
  BY DEF Inv, Global, TypeOK
<1> USE DEF Lives, Jobs
<1>1. CASE RunnerStep
  BY <1>0, <1>1
  DEF RunnerStep, ClaimExecution, StartJob, Admit, Send, RecordBoundary, PublishResult,
      ObserveFailure, StopOwnTurn, GiveUp, Exit, Move, Offline, Started
<1>2. CASE RunnerFault
  BY <1>0, <1>2
  DEF RunnerFault, FailToStart, InterruptQueued, Interrupt, PrepareFails, SendFails,
      BoundaryFails, ObserverFails, OwnStopFails, Crash, Move, Cancelled
<1>3. CASE Environment
  BY <1>0, <1>3 DEF Environment, Reserve, TakeLease, Descendants, TurnEnded, ReplaceEngine,
      SessionEnds, Move, NoJob
<1>4. ASSUME NEW p \in Passes, Thinking(p)
      PROVE  Lives
  <2>1. job' = job
    BY <1>0, <1>4, ThinkingIsThinking DEF Thinks, Inv, Global
  <2> QED BY <2>1
<1>5. ASSUME NEW p \in Passes, Acting(p)
      PROVE  Lives
  <2> USE <1>0
  <2>1. CASE BeginPass(p) \/ Stop(p) \/ Kill(p) \/ Sweep(p) \/ Report(p) \/ Recheck(p) \/ PassDies(p)
    <3>1. job' = job
      BY <2>1 DEF BeginPass, Stop, Kill, Sweep, Report, Recheck, PassDies
    <3> QED BY <3>1
  <2>2. CASE PersistQueued(p)
    BY <2>2, PersistQueuedMoves
  <2>3. CASE PersistStarted(p)
    <3>1. job.status \notin {"unused", "queued"}
      BY <2>3 DEF PersistStarted, PassInv
    <3>2. job' = job \/ (job.status \in Started /\ job' = Cancelling)
      BY <2>3, <3>1, PersistStartedMoves DEF Unfinished, Ends, Started
    <3> QED BY <3>2 DEF Cancelling, JobInv, Started
  <2>4. CASE Publish(p)
    <3>1. job' = Published(p)
      BY <2>4 DEF Publish
    <3> QED BY <3>1 DEF Published, Cancelled, Started
  <2>5. CASE Delegate(p) \/ DischargeFence(p)
    <3>1. job' = Delegation
      BY <2>5 DEF Delegate, DischargeFence
    <3> QED BY <3>1 DEF Delegation, Cancelling
  <2> QED BY <1>5, <2>1, <2>2, <2>3, <2>4, <2>5 DEF Acting
<1>6. CASE UNCHANGED vars
  BY <1>6 DEF vars
<1> QED BY <1>1, <1>2, <1>3, <1>4, <1>5, <1>6 DEF Next, PassStep, Thinking, Acting

\* Each such change is a step of WritableJobs, or none.
LEMMA LivesIsAbstract ==
    ASSUME TypeOK, Lives
    PROVE  [Writable!Next]_(Writable!vars)
<1> DEFINE status == [i \in {"job"} |-> job.status]
           decided == IF job.stop THEN {"job"} ELSE {}
<1>0. job \in Jobs
  BY DEF TypeOK
<1>1. status' = [status EXCEPT !["job"] = job'.status] /\ status["job"] = job.status
  OBVIOUS
<1>2. CASE job'.status = job.status /\ job'.stop = job.stop
  BY <1>2 DEF Writable!vars
<1>3. CASE job.status = "unused" /\ job'.status = "queued" /\ job'.stop = job.stop
  <2>1. Writable!Reserve("job")
    BY <1>1, <1>3 DEF Writable!Reserve, Writable!Become, Writable!Keep, Writable!Unfinished
  <2> QED BY <2>1 DEF Writable!Next
<1>4. CASE job.status = "queued" /\ job'.status = "queued" /\ job'.stop
  <2>1. Writable!Decide("job")
    BY <1>1, <1>4 DEF Writable!Decide
  <2> QED BY <2>1 DEF Writable!Next
<1>5. CASE /\ job.status = "queued" /\ ~ job.stop
           /\ job'.status \in {"running", "failed"} /\ ~ job'.stop
  <2>1. Writable!Start("job") \/ Writable!Fail("job")
    BY <1>1, <1>5 DEF Writable!Start, Writable!Fail, Writable!Become, Writable!Keep
  <2> QED BY <2>1 DEF Writable!Next
<1>6. CASE job.status = "running" /\ job'.status = "cancelling" /\ job'.stop
  <2>1. Writable!BeginStop("job")
    BY <1>1, <1>6 DEF Writable!BeginStop, Writable!Become, Writable!MayDecide
  <2> QED BY <2>1 DEF Writable!Next
<1>7. CASE /\ job.status \in Started /\ job'.status \in {"succeeded", "failed"}
           /\ job'.stop = job.stop
  <2>1. Writable!Finish("job")
    BY <1>1, <1>7 DEF Writable!Finish, Writable!Become, Writable!Keep, Started
  <2> QED BY <2>1 DEF Writable!Next
<1>8. CASE /\ job.status \in {"queued", "cancelling"}
           /\ job'.status = "cancelled" /\ job'.stop
  <2>1. Writable!Cancel("job")
    BY <1>1, <1>8 DEF Writable!Cancel, Writable!Become, Writable!MayDecide
  <2> QED BY <2>1 DEF Writable!Next
<1> QED BY <1>2, <1>3, <1>4, <1>5, <1>6, <1>7, <1>8 DEF Lives

\* The rescue's record goes through the life WritableJobs gives it, whatever the
\* runner, the engine and the passes do.
THEOREM Refinement == Spec => ImplementsWritableJobs
<1>1. Init => Writable!Init
  BY DEF Init, NoJob, Writable!Init
<1>2. Inv /\ [Next]_vars => [Writable!Next]_(Writable!vars)
  BY NextLives, LivesIsAbstract DEF Inv, Global
<1> QED BY <1>1, <1>2, Invariance, PTL DEF Spec, ImplementsWritableJobs, Writable!Spec

-----------------------------------------------------------------------------
(* The discharge fence.                                                    *)

TreeGone == runner = "gone" /\ ~ strays

\* A pass in its second round looks again at a job that is decided, and ends that round
\* with the cleanup duty done, still ahead of it, or reported as not done.
FenceInv(p) ==
    LET s == pass[p] IN
    /\ s.fenced \/ s.step = "fence" => Discharges(job)
    /\ s.fenced /\ s.step \in {"read", "persist"} => job.status = "cancelling"
    /\ s.fenced /\ s.step # "idle" /\ job.status \in Ends /\ job.claim =>
          \/ s.step \in {"kill", "sweep"} /\ s.plan = "discharge"
          \/ s.plan = "pending"
          \/ TreeGone

\* What a cancelling job of a claimed runner ends over.
EndsClean == job.status = "cancelling" /\ job'.status \in Ends /\ job.claim => TreeGone'

\* Only a pass ends a cancelling job, and of a claimed one only over a clean tree.
LEMMA NextEndsClean ==
    ASSUME Inv, [Next]_vars
    PROVE  EndsClean
<1>0. TypeOK /\ job \in Jobs /\ \A p \in Passes : PassInv(p)
  BY DEF Inv, Global, TypeOK
<1> USE DEF EndsClean, Jobs, Ends
<1>1. CASE RunnerStep
  BY <1>0, <1>1
  DEF RunnerStep, ClaimExecution, StartJob, Admit, Send, RecordBoundary, PublishResult,
      ObserveFailure, StopOwnTurn, GiveUp, Exit, Move, Offline
<1>2. CASE RunnerFault
  BY <1>0, <1>2
  DEF RunnerFault, FailToStart, InterruptQueued, Interrupt, PrepareFails, SendFails,
      BoundaryFails, ObserverFails, OwnStopFails, Crash, Move, Cancelled
<1>3. CASE Environment
  BY <1>0, <1>3 DEF Environment, Reserve, TakeLease, Descendants, TurnEnded, ReplaceEngine,
      SessionEnds, Move, NoJob
<1>4. ASSUME NEW p \in Passes, Thinking(p)
      PROVE  EndsClean
  <2>1. job' = job
    BY <1>0, <1>4, ThinkingIsThinking DEF Thinks, Inv, Global
  <2> QED BY <2>1
<1>5. ASSUME NEW p \in Passes, Acting(p)
      PROVE  EndsClean
  <2> USE <1>0
  <2>1. CASE BeginPass(p) \/ Stop(p) \/ Kill(p) \/ Sweep(p) \/ Report(p) \/ Recheck(p) \/ PassDies(p)
    <3>1. job' = job
      BY <2>1 DEF BeginPass, Stop, Kill, Sweep, Report, Recheck, PassDies
    <3> QED BY <3>1
  <2>2. CASE PersistQueued(p)
    BY <2>2, PersistQueuedMoves
  <2>3. CASE PersistStarted(p)
    BY <2>3, PersistStartedMoves DEF Cancelling
  <2>4. CASE Publish(p)
    BY <2>4 DEF Publish, PassInv, At, PassOnly, TreeGone, tree
  <2>5. CASE Delegate(p) \/ DischargeFence(p)
    <3>1. job' = Delegation
      BY <2>5 DEF Delegate, DischargeFence
    <3> QED BY <3>1 DEF Delegation, Cancelling
  <2> QED BY <1>5, <2>1, <2>2, <2>3, <2>4, <2>5 DEF Acting
<1>6. CASE UNCHANGED vars
  BY <1>6 DEF vars
<1> QED BY <1>1, <1>2, <1>3, <1>4, <1>5, <1>6 DEF Next, PassStep, Thinking, Acting

\* The steps of others keep it, as nobody but a pass with a clean tree ends the job.
LEMMA FenceStable ==
    ASSUME TypeOK, NEW p \in Passes, PassInv(p), FenceInv(p), Elsewhere(p), EndsClean
    PROVE  FenceInv(p)'
BY DEF FenceInv, PassInv, Elsewhere, EndsClean, Discharges, TreeGone, TypeOK, Jobs

\* A pass that thinks in its second round has a cancelling job before it.
LEMMA FenceThinking ==
    ASSUME TypeOK, NEW p \in Passes, PassInv(p), FenceInv(p), Thinking(p), Thinks(p)
    PROVE  FenceInv(p)'
<1>1. pass[p].step \in Controlled \cup {"read"}
  BY DEF Thinking, ReadRemote, Decide, Precheck, Reread, Redecide, Expire, At, Controlled
<1>2. pass[p].fenced => job.status = "cancelling"
  BY <1>1 DEF FenceInv, PassInv
<1> QED BY <1>2 DEF Thinks, FenceInv, Discharges, Ends

\* A pass that acts keeps it, step by step.
LEMMA FenceActing ==
    ASSUME TypeOK, JobInv, NEW p \in Passes, PassInv(p), FenceInv(p), Acting(p)
    PROVE  FenceInv(p)'
<1>0. pass[p] \in PassStates /\ job \in Jobs
  BY DEF TypeOK
<1> USE <1>0 DEF FenceInv, Discharges, Ends, TreeGone
<1>1. CASE BeginPass(p)
  <2>1. UNCHANGED <<job, runner, strays>> /\ pass[p].step = "idle"
    BY <1>1 DEF BeginPass, At, tree
  <2>2. \/ job.status \in Unfinished
        \/ job.status \in Ends /\ job.claim /\ CleanThen(p, "discharge")
        \/ job.status \in Ends /\ ~ job.claim
    BY <1>1, Zenon DEF BeginPass
  <2>3. CASE CleanThen(p, "discharge")
    BY <2>1, <2>3, CleanThenMoves DEF Moves, Plans
  <2>4. CASE job.status \in Ends /\ ~ job.claim
    <3>1. pass'[p].fenced = pass[p].fenced /\ pass'[p].step = "report"
      BY <1>1, <2>4, StepsToMoves DEF BeginPass, Moves, PassSteps, Unfinished, Started
    <3> QED BY <2>1, <2>4, <3>1
  <2>5. CASE job.status \in Unfinished
    <3>1. \/ Moves(p, "kill", "discharge") \/ Moves(p, "report", pass[p].plan)
          \/ Becomes(p, [pass[p] EXCEPT !.view = job,
                            !.step = IF job.status = "queued" THEN "persist" ELSE "read"])
      BY <1>1, BeginPassMoves
    <3>2. pass'[p].fenced = pass[p].fenced /\ pass'[p].step # "fence"
      BY <3>1 DEF Moves, Becomes, PassStates
    <3> QED BY <2>1, <2>5, <3>2 DEF Unfinished, Started
  <2> QED BY <2>2, <2>3, <2>4, <2>5
<1>2. CASE PersistQueued(p) \/ PersistStarted(p)
  <2>1. At(p, "persist")
    BY <1>2 DEF PersistQueued, PersistStarted
  <2>2. pass'[p].fenced = pass[p].fenced /\ pass'[p].step \notin {"fence", "read", "persist"}
    <3>1. \/ \E step \in {"publish", "kill", "decide"}, plan \in Plans : Moves(p, step, plan)
          \/ Becomes(p, [pass[p] EXCEPT !.step = "report", !.raced = job])
      <4>1. pass[p].plan \in Plans /\ "queued" \in Plans
        BY <1>0 DEF PassStates, Plans
      <4>2. CASE PersistQueued(p)
        BY <4>1, <4>2, PersistQueuedMoves, ZenonT(60)
      <4>3. CASE PersistStarted(p)
        BY <4>1, <4>3, PersistStartedMoves, ZenonT(60)
      <4> QED BY <1>2, <4>2, <4>3
    <3>2. CASE \E step \in {"publish", "kill", "decide"}, plan \in Plans : Moves(p, step, plan)
      BY <3>2 DEF Moves
    <3>3. CASE Becomes(p, [pass[p] EXCEPT !.step = "report", !.raced = job])
      BY <3>3 DEF Becomes, PassStates
    <3> QED BY <3>1, <3>2, <3>3
  <2>3. job.status = "cancelling" => job' \in {job, Cancelling}
    BY <1>2, PersistQueuedMoves, PersistStartedMoves
  <2>4. pass[p].fenced => job.status = "cancelling" /\ job.stop
    BY <2>1 DEF At
  <2> QED BY <2>2, <2>3, <2>4 DEF Cancelling, Jobs
<1>3. CASE Stop(p)
  <2>1. job' = job /\ job.status = "cancelling"
    BY <1>3 DEF Stop, At, PassInv, Controlled
  <2>2. PICK reply \in {"refused", "acknowledged", "qualified"} :
            Becomes(p, [pass[p] EXCEPT !.step = "reread", !.reply = reply])
    BY <1>3, StopMoves
  <2>3. pass'[p].fenced = pass[p].fenced /\ pass'[p].step = "reread"
    BY <2>2 DEF Becomes, PassStates
  <2> QED BY <2>1, <2>3
<1>4. CASE Kill(p)
  <2>1. UNCHANGED job /\ (TreeGone => TreeGone') /\ At(p, "kill")
    BY <1>4, KillEffect DEF KillRunner, LeaseHeld, Working, tree
  <2> QED BY <1>4, <2>1, KillMoves DEF Moves, At
<1>5. CASE Sweep(p)
  <2>1. UNCHANGED <<job, runner>> /\ (TreeGone => TreeGone') /\ At(p, "sweep")
    BY <1>5, SweepEffect
  <2>2. CASE Moves(p, "report", IF pass[p].plan = "discharge" THEN "pending" ELSE pass[p].plan)
    BY <2>1, <2>2 DEF Moves, At
  <2>3. CASE /\ runner \in {"none", "gone"} /\ ~ strays /\ UNCHANGED strays
             /\ \/ Moves(p, "report", pass[p].plan)
                \/ Moves(p, "publish", pass[p].plan) /\ pass[p].plan # "discharge"
    <3>1. job.claim => TreeGone'
      BY <2>1, <2>3 DEF JobInv
    <3> QED BY <2>1, <2>3, <3>1 DEF Moves
  <2> QED BY <1>5, <2>2, <2>3, SweepMoves
<1>6. CASE Publish(p)
  <2>1. Moves(p, "report", pass[p].plan) /\ UNCHANGED <<runner, strays>> /\ At(p, "publish")
    BY <1>6, StepsToMoves DEF Publish, PassOnly, tree, PassSteps
  <2>2. job'.claim = job.claim /\ (Discharges(job) => Discharges(job'))
    BY <1>6 DEF Publish, Published, Cancelled, Jobs, Started
  <2> QED BY <2>1, <2>2 DEF Moves, PassInv, At
<1>7. CASE Report(p)
  <2>1. UNCHANGED <<job, runner, strays>> /\ At(p, "report")
    BY <1>7 DEF Report, tree
  <2>2. \/ Becomes(p, Idle)
        \/ Moves(p, "fence", pass[p].plan) /\ ~ pass[p].fenced /\ Discharges(job)
        \/ Moves(p, "delegate", pass[p].plan)
    BY <1>7, ReportMoves
  <2> QED BY <2>1, <2>2 DEF Moves, Becomes, Idle, At
<1>8. CASE Delegate(p)
  <2>1. Moves(p, "recheck", pass[p].plan) /\ UNCHANGED <<runner, strays>> /\ At(p, "delegate")
    BY <1>8, StepsToMoves DEF Delegate, PassOnly, tree, PassSteps
  <2>2. /\ Discharges(job) => Discharges(job')
        /\ job'.status \in Ends => job' = job
    BY <1>8 DEF Delegate, Delegation, Cancelling, Jobs
  <2> QED BY <2>1, <2>2 DEF Moves, At
<1>9. CASE Recheck(p)
  <2>1. UNCHANGED <<job, runner, strays>>
    BY <1>9 DEF Recheck, tree
  <2>2. \/ Becomes(p, Idle)
        \/ Moves(p, "fence", pass[p].plan) /\ ~ pass[p].fenced /\ Discharges(job)
    BY <1>9, RecheckMoves DEF Recheck, Moves, GivesUp, Goes
  <2> QED BY <2>1, <2>2 DEF Moves, Becomes, Idle
<1>10. CASE DischargeFence(p)
  <2>1. Discharges(job')
    BY <1>10 DEF DischargeFence, Delegation, At
  <2>2. Becomes(p, Idle) \/ Becomes(p, [Idle EXCEPT !.fenced = TRUE])
    BY <1>10, DischargeFenceMoves
  <2> QED BY <2>1, <2>2 DEF Becomes, Idle
<1>11. CASE PassDies(p)
  <2>1. Becomes(p, Idle)
    BY <1>11, GoesTo, IdleIsPass DEF PassDies
  <2> QED BY <2>1 DEF Becomes, Idle
<1> QED BY <1>1, <1>2, <1>3, <1>4, <1>5, <1>6, <1>7, <1>8, <1>9, <1>10, <1>11 DEF Acting

Fenced == \A p \in Passes : FenceInv(p)

\* So every step keeps it, for every pass.
LEMMA NextFenced ==
    ASSUME Inv, Fenced, [Next]_vars
    PROVE  Fenced'
<1>0. TypeOK /\ JobInv /\ RunnerInv /\ Safe /\ \A p \in Passes : PassInv(p) /\ FenceInv(p)
  BY DEF Inv, Global, Fenced
<1>1. EndsClean
  BY NextEndsClean
<1>2. CASE RunnerStep \/ RunnerFault \/ Environment
  BY <1>0, <1>1, <1>2, OthersElsewhere, FenceStable DEF Fenced
<1>3. ASSUME NEW p \in Passes, Thinking(p)
      PROVE  Fenced'
  <2>1. Thinks(p)
    BY <1>0, <1>3, ThinkingIsThinking
  <2>2. FenceInv(p)' /\ \A q \in Passes \ {p} : FenceInv(q)'
    BY <1>0, <1>1, <1>3, <2>1, ThinkingPreserves, FenceThinking, FenceStable
  <2> QED BY <2>2 DEF Fenced
<1>4. ASSUME NEW p \in Passes, Acting(p)
      PROVE  Fenced'
  <2>1. FenceInv(p)' /\ \A q \in Passes \ {p} : FenceInv(q)'
    BY <1>0, <1>1, <1>4, ActingElsewhere, FenceActing, FenceStable
  <2> QED BY <2>1 DEF Fenced
<1>5. CASE UNCHANGED vars
  BY <1>0, <1>5 DEF vars, Fenced, FenceInv, Discharges, TreeGone
<1> QED BY <1>2, <1>3, <1>4, <1>5 DEF Next, PassStep, Thinking, Acting

\* A pass of the hook, which takes a second look, does not settle the receipt over an ended
\* job whose runner or descendants live, whatever the passes of prompts do beside it.
THEOREM FencedDischarge == Spec => HookDischargesOverGoneTree
<1> DEFINE Settles == receipt = "pending" /\ receipt' = "settled" /\ job.status \in Ends /\ job.claim
           Clean == Settles /\ (\E p \in Hooks : pass'[p] # pass[p]) => TreeGone
<1>1. Init => Fenced
  <2> SUFFICES ASSUME Init, NEW p \in Passes
               PROVE  FenceInv(p)
    BY DEF Fenced
  <2>1. pass[p].step = "idle" /\ pass[p].fenced = FALSE
    BY DEF Init, Idle
  <2> QED BY <2>1 DEF FenceInv
<1>2. Inv /\ Fenced /\ [Next]_vars => Fenced'
  BY NextFenced
<1>3. ASSUME Inv, Fenced, [Next]_vars
      PROVE  [Clean]_vars
  <2>0. TypeOK /\ \A p \in Passes : PassInv(p) /\ FenceInv(p)
    BY <1>3 DEF Inv, Global, Fenced
  <2>1. CASE RunnerStep \/ RunnerFault \/ Environment
    <3>1. receipt' \in {receipt, "pending"}
      BY <2>1
      DEF RunnerStep, RunnerFault, Environment, RunnerOnly, ClaimExecution, StartJob, Admit,
          Send, RecordBoundary, PublishResult, ObserveFailure, StopOwnTurn, GiveUp, Exit, FailToStart,
          InterruptQueued, Interrupt, PrepareFails, SendFails, BoundaryFails, ObserverFails,
          OwnStopFails, Crash, Reserve, TakeLease, Descendants, TurnEnded, ReplaceEngine, SessionEnds
    <3> QED BY <3>1
  <2>2. ASSUME NEW p \in Passes, Thinking(p)
        PROVE  Clean
    <3>1. Thinks(p)
      BY <1>3, <2>0, <2>2, ThinkingIsThinking DEF Inv, Global
    <3> QED BY <3>1 DEF Thinks
  <2>3. ASSUME NEW p \in Passes, Acting(p)
        PROVE  Clean
    <3>1. CASE Report(p)
      <4>1. CASE receipt' = receipt
        BY <4>1
      <4>2. CASE receipt' # receipt
        <5>1. pass[p].step = "report" /\ pass[p].plan # "pending" /\ Discharged(p)
          BY <3>1, <4>2 DEF Report, At, GivesUp
        <5>2. Goes(p, Idle) /\ ~ (p \in Hooks /\ ~ pass[p].fenced)
          BY <4>2, <5>1 DEF Discharged
        <5>3. ASSUME NEW q \in Hooks, pass'[q] # pass[q]
              PROVE  q = p
          BY <2>0, <5>2, <5>3, PassesAssumption DEF Goes, TypeOK
        <5>4. pass[p].fenced \/ ~ \E q \in Hooks : pass'[q] # pass[q]
          BY <5>2, <5>3
        <5> QED BY <2>0, <5>1, <5>4 DEF FenceInv
      <4> QED BY <4>1, <4>2
    <3>2. CASE Recheck(p)
      BY <3>2 DEF Recheck, GivesUp
    <3>3. CASE DischargeFence(p)
      <4>1. job.status \in Ends /\ job.claim => job' = job
        BY <3>3 DEF DischargeFence, Delegation, Ends
      <4> QED BY <3>3, <4>1 DEF DischargeFence
    <3>4. CASE \/ BeginPass(p) \/ PersistQueued(p) \/ PersistStarted(p) \/ Stop(p) \/ Kill(p)
               \/ Sweep(p) \/ Publish(p) \/ Delegate(p) \/ PassDies(p)
      <4>1. UNCHANGED receipt
        BY <3>4
        DEF BeginPass, PersistQueued, PersistStarted, Stop, Kill, Sweep, Publish, Delegate,
            PassDies, PassOnly
      <4> QED BY <4>1
    <3> QED BY <2>3, <3>1, <3>2, <3>3, <3>4 DEF Acting
  <2> QED BY <1>3, <2>1, <2>2, <2>3 DEF Next, PassStep, Thinking, Acting
<1> QED BY <1>1, <1>2, <1>3, Invariance, PTL DEF Spec, HookDischargesOverGoneTree, TreeGone

=============================================================================
