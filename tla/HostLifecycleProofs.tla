-------------------------- MODULE HostLifecycleProofs --------------------------
(***************************************************************************)
(* Proofs about HostLifecycle, for any set of workspaces, any number of    *)
(* epochs and faults, and every setting of the switches, unless a theorem  *)
(* names what it supposes.                                                 *)
(***************************************************************************)
EXTENDS HostLifecycle, TLAPS

\* The record is that of the last start, unless it was removed; a resume that compensates
\* has a record to compensate for.
StartInv ==
    /\ record # None => record = started
    /\ start.step # "idle" => started < MaxEpoch
    /\ start.step \notin {"idle", "write"} => record # None

\* Each hook keeps to its own steps and works for an epoch that has started.
EndWorks == EndSteps \ {"resolve"}
PromptWorks == {"ledger", "merge", "discover", "settle", "receipt"}

PassInv ==
    /\ pass["end"].step \in {"idle"} \cup EndSteps
    /\ pass["prompt"].step \in {"idle"} \cup PromptSteps
    /\ pass["end"].step \in EndWorks => pass["end"].epoch \in 1..started
    /\ pass["prompt"].step # "idle" => pass["prompt"].turn \in Epochs
    /\ pass["prompt"].step \in PromptWorks => pass["prompt"].epoch \in Epochs

\* While an owner is released no child is past the job lock of its workspace, and nothing
\* of another epoch is open there.
ReleaseInv ==
    At("end", "releasing") =>
        /\ child.step \in {"anchor", "own", "persist"} => child.workspace \notin pass["end"].left
        /\ \A w \in pass["end"].left : ~ Foreign(w)

\* Without a resume that overtakes the hook, the boundary of a receipt is its own epoch.
BoundaryInv ==
    ~ EndsLate =>
        /\ \A e \in Epochs : receipts[e].state # "none" => receipts[e].endedAt = e
        /\ pass["end"].step = "publish" => pass["end"].epoch = started
        /\ pass["end"].step \in EndWorks \ {"publish"} => pass["end"].endedAt = pass["end"].epoch
        /\ \A e \in pass["prompt"].todo :
              pass["prompt"].step # "idle" => pass["prompt"].seen[e].endedAt = e
        /\ pass["prompt"].step \in PromptWorks => pass["prompt"].endedAt = pass["prompt"].epoch

\* A child carries the epoch it was started in.
ChildInv == child.step # "idle" => child.epoch \in Epochs

HostInv == TypeOK /\ StartInv /\ PassInv /\ ReleaseInv /\ BoundaryInv /\ ChildInv

-----------------------------------------------------------------------------

LEMMA Idle ==
  /\ Nothing \in Receipt
  /\ IdlePass \in Pass
  /\ IdleStart \in [step: StartSteps, second: BOOLEAN, scope: SUBSET Workspaces,
                    fence: SUBSET Workspaces, fenced: BOOLEAN, held: SUBSET Workspaces]
  /\ IdleChild \in [step: ChildSteps, epoch: 0..MaxEpoch, workspace: Workspaces]
<1> USE LifecycleAssumption
<1>1. Nothing \in Receipt
  BY DEF Nothing, Receipt, ReceiptStates
<1>2. IdlePass \in Pass
  BY <1>1 DEF IdlePass, Pass
<1>3. IdleStart \in [step: StartSteps, second: BOOLEAN, scope: SUBSET Workspaces,
                     fence: SUBSET Workspaces, fenced: BOOLEAN, held: SUBSET Workspaces]
  BY DEF IdleStart, StartSteps
<1>4. IdleChild \in [step: ChildSteps, epoch: 0..MaxEpoch, workspace: Workspaces]
  BY DEF IdleChild, ChildSteps
<1> QED
  BY <1>1, <1>2, <1>3, <1>4

LEMMA InitHost == Init => HostInv
<1> SUFFICES ASSUME Init PROVE HostInv
  OBVIOUS
<1> USE LifecycleAssumption
<1>1. TypeOK
  <2>1. receipts \in [Epochs -> Receipt] /\ pass \in [Hooks -> Pass]
    BY Idle DEF Init
  <2>2. 1 \in Epochs /\ 0 \in 0..MaxFaults
    BY DEF Epochs
  <2>3. open \subseteq Epochs \X Workspaces
    BY DEF Init
  <2> QED
    BY <2>1, <2>2, <2>3, Idle DEF Init, TypeOK
<1>2. StartInv /\ PassInv /\ ReleaseInv /\ ChildInv
  BY DEF Init, ChildInv, IdleChild, StartInv, PassInv, ReleaseInv, At, IdlePass, IdleStart, Hooks,
         EndWorks, EndSteps, PromptWorks, PromptSteps
<1>3. BoundaryInv
  BY DEF Init, BoundaryInv, Nothing, IdlePass, Hooks, EndWorks, EndSteps, PromptWorks
<1> QED
  BY <1>1, <1>2, <1>3 DEF HostInv

\* A publication keeps the receipts in shape, and an older boundary as it is.
LEMMA Publishing ==
  ASSUME TypeOK, NEW e \in Epochs, NEW hints \in SUBSET Workspaces, NEW endedAt \in 0..MaxEpoch
  PROVE  /\ Published(e, hints, endedAt) \in Receipt
         /\ Publish(e, hints, endedAt) => receipts' \in [Epochs -> Receipt]
         /\ Published(e, hints, endedAt).state # "none"
         /\ Published(e, hints, endedAt).endedAt =
               IF receipts[e].state = "none" THEN endedAt ELSE receipts[e].endedAt
         /\ Publish(e, hints, endedAt) =>
               \A d \in Epochs : receipts'[d] = IF d = e THEN Published(e, hints, endedAt)
                                                ELSE receipts[d]
<1> DEFINE old == receipts[e]
<1>1. old \in Receipt /\ old.token + 1 \in Nat
  BY DEF TypeOK, Receipt
<1>2. CASE old.state = "none"
  BY <1>1, <1>2 DEF TypeOK, Published, Publish, Receipt, ReceiptStates
<1>3. CASE old.state # "none" /\ hints \subseteq old.hints
  BY <1>1, <1>3 DEF TypeOK, Published, Publish
<1>4. CASE old.state # "none" /\ ~ hints \subseteq old.hints
  <2>1. Published(e, hints, endedAt) = [old EXCEPT !.hints = @ \cup hints, !.token = @ + 1]
    BY <1>4 DEF Published
  <2>2. [old EXCEPT !.hints = @ \cup hints, !.token = @ + 1] \in Receipt
    BY <1>1 DEF Receipt
  <2>3. /\ Published(e, hints, endedAt).state = old.state
        /\ Published(e, hints, endedAt).endedAt = old.endedAt
    BY <1>1, <2>1 DEF Receipt
  <2> QED
    BY <1>4, <2>1, <2>2, <2>3 DEF TypeOK, Publish
<1> QED
  BY <1>2, <1>3, <1>4
-----------------------------------------------------------------------------
(* The host process, the jobs and the child.                               *)

LEMMA HooksUntouched ==
  ASSUME HostInv, UNCHANGED <<started, record, receipts, start, pass>>
  PROVE  StartInv' /\ PassInv' /\ BoundaryInv'
BY DEF HostInv, StartInv, PassInv, BoundaryInv

Inside == {"anchor", "own", "persist"}

\* A release is not disturbed by a child that is past the job lock of another workspace.
LEMMA ReleaseUntouched ==
  ASSUME HostInv, UNCHANGED pass, open' \subseteq open,
         child'.step \in Inside => child.step \in Inside /\ child'.workspace = child.workspace
  PROVE  ReleaseInv'
BY DEF HostInv, ReleaseInv, At, Foreign, Inside

LEMMA OutsideKeeps ==
  ASSUME HostInv,
         HostExit \/ HostKilled \/ (\E e \in Epochs, w \in Workspaces : JobEnds(e, w))
         \/ \E e \in Epochs : PruneReceipt(e)
  PROVE  HostInv'
<1> USE LifecycleAssumption
<1>1. CASE HostExit
  <2>1. [pass["end"] EXCEPT !.step = "resolve"] \in Pass
    BY DEF HostInv, TypeOK, Hooks, Pass, EndSteps
  <2>2. /\ pass' \in [Hooks -> Pass] /\ pass'["prompt"] = pass["prompt"]
        /\ pass'["end"] = [pass["end"] EXCEPT !.step = "resolve"] /\ pass'["end"].step = "resolve"
        /\ UNCHANGED <<started, record, ledger, receipts, open, child, start, faults>>
        /\ live' = FALSE
    BY <1>1, <2>1 DEF HostExit, HostInv, TypeOK, Hooks, Pass
  <2>3. TypeOK' /\ StartInv' /\ ChildInv'
    BY <2>2 DEF HostInv, TypeOK, StartInv, ChildInv
  <2>4. PassInv' /\ ReleaseInv' /\ BoundaryInv'
    BY <2>2 DEF HostInv, PassInv, ReleaseInv, BoundaryInv, At, EndWorks, EndSteps
  <2> QED
    BY <2>3, <2>4 DEF HostInv
<1>2. CASE HostKilled
  <2>1. /\ pass' \in [Hooks -> Pass] /\ pass'["end"] = pass["end"]
        /\ pass'["prompt"] \in {pass["prompt"], IdlePass}
        /\ UNCHANGED <<started, record, ledger, receipts, open, child, start, faults>>
        /\ live' = FALSE
    BY <1>2, Idle DEF HostKilled, HostInv, TypeOK, Hooks
  <2>2. IdlePass.step = "idle" /\ IdlePass.todo = {}
    BY DEF IdlePass
  <2>3. TypeOK' /\ StartInv' /\ ChildInv'
    BY <2>1 DEF HostInv, TypeOK, StartInv, ChildInv
  <2>4. PassInv' /\ ReleaseInv' /\ BoundaryInv'
    BY <2>1, <2>2 DEF HostInv, PassInv, ReleaseInv, BoundaryInv, At, Foreign, PromptWorks
  <2> QED
    BY <2>3, <2>4 DEF HostInv
<1>3. ASSUME NEW e \in Epochs, NEW w \in Workspaces, JobEnds(e, w) PROVE HostInv'
  <2>1. /\ open' \subseteq open
        /\ UNCHANGED <<live, started, record, ledger, receipts, child, start, pass, faults>>
    BY <1>3 DEF JobEnds
  <2>2. TypeOK' /\ ChildInv'
    BY <2>1 DEF HostInv, TypeOK, ChildInv
  <2> QED
    BY <2>1, <2>2, HooksUntouched, ReleaseUntouched DEF HostInv
<1>4. ASSUME NEW e \in Epochs, PruneReceipt(e) PROVE HostInv'
  <2>1. [Nothing EXCEPT !.token = receipts[e].token] \in Receipt
        /\ [Nothing EXCEPT !.token = receipts[e].token].state = "none"
    BY Idle DEF Receipt, Nothing, HostInv, TypeOK
  <2>2. /\ receipts' \in [Epochs -> Receipt] /\ receipts'[e].state = "none"
        /\ \A d \in Epochs \ {e} : receipts'[d] = receipts[d]
        /\ UNCHANGED <<live, started, record, ledger, open, child, start, pass>>
    BY <1>4, <2>1 DEF PruneReceipt, HostInv, TypeOK
  <2>3. faults' \in 0..MaxFaults
    BY <1>4 DEF PruneReceipt, Fault, HostInv, TypeOK
  <2>4. TypeOK' /\ ChildInv'
    BY <2>2, <2>3 DEF HostInv, TypeOK, ChildInv
  <2>5. StartInv' /\ PassInv' /\ BoundaryInv'
    BY <2>2 DEF HostInv, StartInv, PassInv, BoundaryInv
  <2> QED
    BY <2>2, <2>4, <2>5, ReleaseUntouched DEF HostInv
<1> QED
  BY <1>1, <1>2, <1>3, <1>4

LEMMA ChildKeeps ==
  ASSUME HostInv, Child
  PROVE  HostInv'
<1> DEFINE Shape == [step: ChildSteps, epoch: 0..MaxEpoch, workspace: Workspaces]
<1>0. /\ child \in Shape /\ ledger \in Ledger \cup {None} /\ open \subseteq Epochs \X Workspaces
      /\ record \in Epochs \cup {None} /\ ChildInv /\ IdleChild \in Shape /\ IdleChild.step = "idle"
  BY Idle DEF HostInv, TypeOK, IdleChild
<1>1. ASSUME NEW w \in Workspaces, SubagentStart(w)
      PROVE  /\ ChildOnly /\ UNCHANGED <<ledger, open>>
             /\ child' \in Shape /\ child'.step \notin Inside /\ ChildInv'
  <2>1. record \in 0..MaxEpoch /\ record \in Epochs
    BY <1>0, <1>1, LifecycleAssumption DEF SubagentStart, Epochs
  <2>2. child' = [step |-> "claim", epoch |-> record, workspace |-> w] /\ "claim" \in ChildSteps
    BY <1>1 DEF SubagentStart, ChildSteps
  <2> QED
    BY <1>1, <2>1, <2>2 DEF SubagentStart, Inside, ChildInv
<1>2. CASE PersistClaim
  <2>1. ChildOnly /\ UNCHANGED open /\ child' \in Shape /\ child'.step \notin Inside /\ ChildInv'
    BY <1>0, <1>2 DEF PersistClaim, ChildInv, ChildGoes, ChildSteps, Inside
  <2>2. ledger' \in Ledger \cup {None}
    BY <1>0, <1>2 DEF PersistClaim, Ledger
  <2> QED
    BY <2>1, <2>2, HooksUntouched, ReleaseUntouched DEF HostInv, TypeOK, ChildOnly
<1>3. CASE FenceScan
  <2>1. ChildOnly /\ UNCHANGED <<ledger, open>> /\ child' \in Shape /\ ChildInv'
    BY <1>0, <1>3 DEF ChildInv, FenceScan, ChildGoes, ChildSteps
  <2>2. ReleaseInv'
    BY <1>0, <1>3, <2>1
       DEF FenceScan, ChildGoes, ChildOnly, JobLocked, HostInv, ReleaseInv, At, Foreign
  <2> QED
    BY <2>1, <2>2, HooksUntouched DEF HostInv, TypeOK, ChildOnly
<1>4. CASE FenceAnchor \/ FenceOwn
  <2>1. /\ ChildOnly /\ UNCHANGED <<ledger, open>> /\ child' \in Shape
        /\ child.step \in Inside /\ (child'.step = "idle" \/ child'.workspace = child.workspace)
        /\ ChildInv'
    BY <1>0, <1>4 DEF ChildInv, FenceAnchor, FenceOwn, ChildGoes, ChildSteps, Inside
  <2> QED
    BY <2>1, HooksUntouched, ReleaseUntouched DEF HostInv, TypeOK, ChildOnly, Inside
<1>5. CASE PersistReservation
  <2>1. /\ ChildOnly /\ UNCHANGED ledger /\ child' = IdleChild /\ child.step = "persist"
        /\ open' \subseteq open \cup {<<child.epoch, child.workspace>>}
    BY <1>0, <1>5 DEF PersistReservation
  <2>2. open' \subseteq Epochs \X Workspaces
    <3>1. <<child.epoch, child.workspace>> \in Epochs \X Workspaces
      BY <1>0, <2>1 DEF ChildInv
    <3> QED
      BY <1>0, <2>1, <3>1
  <2>3. ReleaseInv'
    BY <1>0, <2>1 DEF ChildOnly, HostInv, ReleaseInv, At, Foreign
  <2> QED
    BY <1>0, <2>1, <2>2, <2>3, HooksUntouched DEF HostInv, TypeOK, ChildOnly, ChildInv
<1> QED
  <2>1. ASSUME NEW w \in Workspaces, SubagentStart(w) PROVE HostInv'
    BY <1>0, <1>1, <2>1, HooksUntouched, ReleaseUntouched DEF HostInv, TypeOK, ChildOnly
  <2> QED
    BY <1>2, <1>3, <1>4, <1>5, <2>1 DEF Child
-----------------------------------------------------------------------------
(* The SessionStart hook of a resume.                                      *)

StartShape == [step: StartSteps, second: BOOLEAN, scope: SUBSET Workspaces,
               fence: SUBSET Workspaces, fenced: BOOLEAN, held: SUBSET Workspaces]

\* The hook on its way between its durable writes.
LEMMA StartMoves ==
  ASSUME HostInv,
         \/ BeginResume \/ ReadReceipt \/ EnumerateScope \/ ScanScope \/ CompensateFenced
         \/ \E w \in Workspaces : LockWorkspace(w)
  PROVE  /\ start' \in StartShape /\ faults' \in 0..MaxFaults
         /\ started < MaxEpoch
         /\ start'.step \notin {"idle", "write"} => record # None
         /\ UNCHANGED <<live, started, record, ledger, receipts, open, child, pass>>
<1> USE LifecycleAssumption
<1>0. /\ start \in StartShape /\ StartInv /\ record \in Epochs \cup {None}
      /\ faults \in 0..MaxFaults
  BY DEF HostInv, TypeOK, StartShape
<1>1. CASE BeginResume
  BY <1>0, <1>1 DEF BeginResume, StartGoes, StartOnly, NoFault, StartShape, StartSteps, StartInv
<1>2. CASE ReadReceipt
  BY <1>0, <1>2
     DEF ReadReceipt, Compensated, StartGoes, StartOnly, NoFault, StartShape, StartSteps, StartInv
<1>3. CASE EnumerateScope
  <2>1. Known \in SUBSET Workspaces
    BY LifecycleAssumption DEF Known, HostInv, TypeOK, Ledger
  <2>2. \E step \in {"scan", "merge", "write", "cleanup"} :
           \/ start' = [start EXCEPT !.scope = Known, !.step = step]
           \/ start' = [start EXCEPT !.step = step]
    BY <1>3 DEF EnumerateScope, Compensated, StartGoes
  <2>3. start' \in StartShape
    BY <1>0, <2>1, <2>2 DEF StartShape, StartSteps
  <2> QED
    BY <1>0, <1>3, <2>3 DEF EnumerateScope, StartOnly, Fault, NoFault, StartInv
<1>4. CASE ScanScope
  BY <1>0, <1>4 DEF ScanScope, Compensated, StartOnly, NoFault, StartShape, StartSteps, StartInv
<1>5. CASE CompensateFenced
  BY <1>0, <1>5 DEF CompensateFenced, StartOnly, NoFault, StartShape, StartSteps, StartInv
<1>6. CASE \E w \in Workspaces : LockWorkspace(w)
  BY <1>0, <1>6 DEF LockWorkspace, StartOnly, NoFault, StartShape, StartSteps, StartInv
<1> QED
  BY <1>1, <1>2, <1>3, <1>4, <1>5, <1>6

\* Its durable writes: the receipt of the epoch it compensates, ...
LEMMA StartPublishes ==
  ASSUME HostInv, MergeScope \/ PublishCompensation \/ StartFails
  PROVE  HostInv'
<1> USE LifecycleAssumption
<1>0. /\ start \in StartShape /\ StartInv /\ record \in Epochs \cup {None} /\ started \in 0..MaxEpoch
      /\ faults \in 0..MaxFaults /\ IdleStart \in StartShape /\ IdleStart.step = "idle"
  BY Idle DEF HostInv, TypeOK, StartShape, IdleStart, Epochs
<1>1. /\ start' \in StartShape /\ faults' \in 0..MaxFaults /\ live' \in BOOLEAN
      /\ start'.step \in {"idle", "write", "cleanup"}
      /\ start'.step # "idle" => start.step \in {"merge", "publish"}
      /\ \/ UNCHANGED receipts
         \/ start.step \in {"merge", "publish"} /\ Publish(record, start.scope, started)
      /\ UNCHANGED <<started, record, ledger, open, child, pass>>
  <2>1. CASE MergeScope \/ PublishCompensation
    BY <1>0, <2>1 DEF MergeScope, PublishCompensation, Compensated, StartGoes, StartOnly, NoFault,
                      StartShape, StartSteps, HostInv, TypeOK
  <2>2. CASE StartFails
    BY <1>0, <2>2 DEF StartFails, StartOnly, Fault, NoFault
  <2> QED
    BY <2>1, <2>2
<1>2. start.step \in {"merge", "publish"} => record \in Epochs /\ record = started
  BY <1>0 DEF StartInv
<1>3. /\ receipts' \in [Epochs -> Receipt]
      /\ \A e \in Epochs : receipts'[e].state = "none" => receipts[e].state = "none"
      /\ \A e \in Epochs : receipts'[e].state # "none" =>
            \/ receipts'[e].endedAt = receipts[e].endedAt /\ receipts[e].state # "none"
            \/ e = started /\ receipts'[e].endedAt = started
  <2>1. CASE UNCHANGED receipts
    BY <2>1 DEF HostInv, TypeOK
  <2>2. CASE start.step \in {"merge", "publish"} /\ Publish(record, start.scope, started)
    <3>1. record \in Epochs /\ record = started /\ start.scope \in SUBSET Workspaces
      BY <1>0, <1>2, <2>2 DEF StartShape
    <3>2. /\ receipts' \in [Epochs -> Receipt]
          /\ \A e \in Epochs : receipts'[e] = IF e = record
                                              THEN Published(record, start.scope, started)
                                              ELSE receipts[e]
      BY <1>0, <2>2, <3>1, Publishing DEF HostInv
    <3>3. /\ Published(record, start.scope, started).state # "none"
          /\ Published(record, start.scope, started).endedAt =
                IF receipts[record].state = "none" THEN started ELSE receipts[record].endedAt
      BY <1>0, <3>1, Publishing DEF HostInv
    <3> QED
      BY <3>1, <3>2, <3>3
  <2> QED
    BY <1>1, <2>1, <2>2
<1>4. TypeOK' /\ StartInv' /\ PassInv' /\ ReleaseInv' /\ ChildInv'
  <2>1. TypeOK'
    BY <1>1, <1>3 DEF HostInv, TypeOK, StartShape
  <2>2. StartInv'
    BY <1>0, <1>1 DEF StartInv
  <2>3. PassInv' /\ ReleaseInv' /\ ChildInv'
    BY <1>1 DEF HostInv, PassInv, ReleaseInv, ChildInv, At, Foreign
  <2> QED
    BY <2>1, <2>2, <2>3
<1>5. BoundaryInv'
  BY <1>1, <1>3 DEF HostInv, BoundaryInv
<1> QED
  BY <1>4, <1>5 DEF HostInv

\* ... the end of its ledger, and the record of the next epoch.
LEMMA StartKeeps ==
  ASSUME HostInv, SessionStart
  PROVE  HostInv'
<1> USE LifecycleAssumption
<1>0. /\ start \in StartShape /\ StartInv /\ record \in Epochs \cup {None} /\ started \in Epochs
      /\ faults \in 0..MaxFaults /\ IdleStart \in StartShape /\ IdleStart.step = "idle"
  BY Idle DEF HostInv, TypeOK, StartShape, IdleStart
<1>1. ASSUME \/ BeginResume \/ ReadReceipt \/ EnumerateScope \/ ScanScope \/ CompensateFenced
             \/ \E w \in Workspaces : LockWorkspace(w)
      PROVE  HostInv'
  <2>1. /\ start' \in StartShape /\ faults' \in 0..MaxFaults /\ started < MaxEpoch
        /\ start'.step \notin {"idle", "write"} => record # None
        /\ UNCHANGED <<live, started, record, ledger, receipts, open, child, pass>>
    BY <1>1, StartMoves
  <2>2. TypeOK'
    BY <1>0, <2>1 DEF HostInv, TypeOK, StartShape
  <2>3. StartInv' /\ PassInv' /\ ChildInv'
    BY <1>0, <2>1 DEF HostInv, StartInv, PassInv, ChildInv
  <2>4. ReleaseInv' /\ BoundaryInv'
    BY <2>1, ReleaseUntouched DEF HostInv, BoundaryInv
  <2> QED
    BY <2>2, <2>3, <2>4 DEF HostInv
<1>2. CASE CleanupIdentity
  <2>1. /\ start' \in StartShape /\ start'.step \in {"lock", "write"} /\ start.step = "cleanup"
        /\ ledger' \in Ledger \cup {None}
        /\ UNCHANGED <<live, started, record, receipts, open, child, pass, faults>>
    BY <1>0, <1>2
       DEF CleanupIdentity, StartGoes, StartOnly, NoFault, StartShape, StartSteps, HostInv, TypeOK,
           Ledger
  <2>2. TypeOK'
    BY <1>0, <2>1 DEF HostInv, TypeOK, StartShape
  <2>3. StartInv' /\ PassInv' /\ ChildInv'
    BY <1>0, <2>1 DEF HostInv, StartInv, PassInv, ChildInv
  <2>4. ReleaseInv' /\ BoundaryInv'
    BY <2>1, ReleaseUntouched DEF HostInv, BoundaryInv
  <2> QED
    BY <2>2, <2>3, <2>4 DEF HostInv
<1>3. CASE WriteRecord
  <2>1. /\ started' = started + 1 /\ record' = started + 1 /\ live' = TRUE /\ start' = IdleStart
        /\ ~ EndsLate => pass["end"].step \notin {"resolve", "publish"}
        /\ UNCHANGED <<ledger, receipts, open, child, pass, faults>>
    BY <1>3 DEF WriteRecord, StartOnly, NoFault
  <2>2. started + 1 \in Epochs
    BY <1>0, <1>3 DEF WriteRecord, StartInv, Epochs
  <2>3. TypeOK' /\ StartInv' /\ ReleaseInv' /\ ChildInv' /\ BoundaryInv'
    BY <1>0, <2>1, <2>2
       DEF HostInv, TypeOK, StartShape, StartInv, ReleaseInv, BoundaryInv, ChildInv, At, Foreign
  <2>4. PassInv'
    BY <1>0, <2>1, <2>2 DEF HostInv, PassInv, Epochs
  <2> QED
    BY <2>3, <2>4 DEF HostInv
<1> QED
  BY <1>1, <1>2, <1>3, StartPublishes DEF SessionStart
-----------------------------------------------------------------------------
(* What the settling hooks share.                                          *)

LEMMA PassMoves ==
  ASSUME TypeOK, NEW h \in Hooks, NEW new \in Pass, Becomes(h, new)
  PROVE  /\ pass' \in [Hooks -> Pass] /\ pass'[h] = new
         /\ \A g \in Hooks \ {h} : pass'[g] = pass[g]
BY DEF TypeOK, Becomes

\* A step of a hook that writes neither record nor ledger keeps the invariant when the new
\* state of the hook is a good one.
GoodEnd(p) ==
    /\ p.step \in {"idle"} \cup EndSteps
    /\ p.step \in EndWorks => p.epoch \in 1..started
    /\ ~ EndsLate =>
          /\ p.step = "publish" => p.epoch = started
          /\ p.step \in EndWorks \ {"publish"} => p.endedAt = p.epoch

GoodPrompt(p) ==
    /\ p.step \in {"idle"} \cup PromptSteps
    /\ p.step # "idle" => p.turn \in Epochs
    /\ p.step \in PromptWorks => p.epoch \in Epochs
    /\ ~ EndsLate =>
          /\ \A e \in p.todo : p.step # "idle" => p.seen[e].endedAt = e
          /\ p.step \in PromptWorks => p.endedAt = p.epoch

Good(h, p) == IF h = "end" THEN GoodEnd(p) ELSE GoodPrompt(p)

LEMMA GoodNow ==
  ASSUME HostInv, NEW h \in Hooks
  PROVE  Good(h, pass[h]) /\ pass[h] \in Pass
BY DEF HostInv, TypeOK, PassInv, BoundaryInv, Good, GoodEnd, GoodPrompt, Hooks

LEMMA IdleGood ==
  ASSUME NEW h \in Hooks
  PROVE  Good(h, IdlePass)
BY DEF Good, GoodEnd, GoodPrompt, IdlePass, EndWorks, EndSteps, PromptWorks

LEMMA HookStep ==
  ASSUME HostInv, NEW h \in Hooks, NEW new \in Pass, Becomes(h, new), Good(h, new),
         h = "end" /\ new.step = "releasing" =>
            /\ new.epoch = pass["end"].epoch
            /\ \A w \in new.left : ~ Foreign(w) /\ ~ JobLocked(w),
         PassOnly, record' \in {record, None}, ledger' \in Ledger \cup {None},
         record' # record => start.step = "idle",
         receipts' \in [Epochs -> Receipt],
         ~ EndsLate => \A e \in Epochs : receipts'[e].state # "none" =>
                          \/ receipts[e].state # "none"
                             /\ receipts'[e].endedAt = receipts[e].endedAt
                          \/ receipts'[e].endedAt = e,
         open' \subseteq open, faults' \in 0..MaxFaults
  PROVE  HostInv'
<1>1. /\ pass' \in [Hooks -> Pass] /\ pass'[h] = new
      /\ \A g \in Hooks \ {h} : pass'[g] = pass[g]
  BY PassMoves DEF HostInv
<1>2. TypeOK'
  BY <1>1 DEF HostInv, TypeOK, PassOnly
<1>3. StartInv' /\ ChildInv'
  BY DEF HostInv, StartInv, ChildInv, PassOnly
<1>4. \A g \in Hooks : Good(g, pass'[g])
  BY <1>1, GoodNow
<1>5. PassInv'
  BY <1>4 DEF PassOnly, PassInv, Good, GoodEnd, GoodPrompt, Hooks
<1>6. ReleaseInv'
  <2>1. CASE h = "end"
    BY <1>1, <2>1 DEF PassOnly, ReleaseInv, At, Foreign, JobLocked
  <2>2. CASE h = "prompt"
    BY <1>1, <2>2 DEF HostInv, PassOnly, ReleaseInv, At, Foreign, Hooks
  <2> QED
    BY <2>1, <2>2 DEF Hooks
<1>7. BoundaryInv'
  BY <1>4 DEF HostInv, PassOnly, BoundaryInv, Good, GoodEnd, GoodPrompt, Hooks
<1> QED
  BY <1>2, <1>3, <1>5, <1>6, <1>7 DEF HostInv

LEMMA Faulty ==
  ASSUME TypeOK, Fault \/ NoFault
  PROVE  faults' \in 0..MaxFaults
BY LifecycleAssumption DEF TypeOK, Fault, NoFault

\* The same for a step that writes nothing but its faults, ...
LEMMA QuietStep ==
  ASSUME HostInv, NEW h \in Hooks, NEW new \in Pass, Becomes(h, new), Good(h, new),
         ~ (h = "end" /\ new.step = "releasing"),
         PassOnly, UNCHANGED <<record, ledger, receipts>>, open' \subseteq open, Fault \/ NoFault
  PROVE  HostInv'
<1>1. /\ record' \in {record, None} /\ ledger' \in Ledger \cup {None}
      /\ receipts' \in [Epochs -> Receipt] /\ faults' \in 0..MaxFaults
  BY Faulty DEF HostInv, TypeOK
<1> QED
  BY <1>1, HookStep DEF Good

\* ... and for one that publishes the receipt of its epoch with its boundary.
LEMMA PublishingStep ==
  ASSUME HostInv, NEW h \in Hooks, NEW new \in Pass, Becomes(h, new), Good(h, new),
         ~ (h = "end" /\ new.step = "releasing"),
         PassOnly, UNCHANGED <<record, ledger, open>>, Fault \/ NoFault,
         NEW e \in Epochs, NEW hints \in SUBSET Workspaces, NEW endedAt \in 0..MaxEpoch,
         ~ EndsLate => endedAt = e, Publish(e, hints, endedAt) \/ UNCHANGED receipts
  PROVE  HostInv'
<1>1. /\ record' \in {record, None} /\ ledger' \in Ledger \cup {None} /\ open' \subseteq open
      /\ faults' \in 0..MaxFaults
  BY Faulty DEF HostInv, TypeOK
<1>2. /\ receipts' \in [Epochs -> Receipt]
      /\ \A d \in Epochs : receipts'[d].state # "none" =>
            \/ receipts[d].state # "none" /\ receipts'[d].endedAt = receipts[d].endedAt
            \/ d = e /\ receipts'[d].endedAt = endedAt
  <2>1. CASE UNCHANGED receipts
    BY <2>1 DEF HostInv, TypeOK
  <2>2. CASE Publish(e, hints, endedAt)
    BY <2>2, Publishing DEF HostInv
  <2> QED
    BY <2>1, <2>2
<1> QED
  BY <1>1, <1>2, HookStep

LEMMA SettlingKeeps ==
  ASSUME HostInv, Settling
  PROVE  HostInv'
<1> SUFFICES ASSUME NEW h \in Hooks, Working(h) \/ HookKilled(h) PROVE HostInv'
  BY DEF Settling
<1> DEFINE p == pass[h]
<1>0. p \in Pass /\ Good(h, p)
  BY GoodNow
<1>1. ASSUME NEW w \in Workspaces, Discover(h, w) PROVE HostInv'
  <2> DEFINE new == [p EXCEPT !.left = @ \ {w},
                        !.found = IF <<p.epoch, w>> \in open THEN @ \cup {w} ELSE @]
  <2>1. /\ Becomes(h, new) /\ p.step = "discover" /\ PassOnly /\ NoFault
        /\ UNCHANGED <<record, ledger, receipts, open>>
    BY <1>1 DEF Discover, At
  <2>2. new \in Pass
    BY <1>0 DEF Pass
  <2>3. Good(h, new) /\ new.step = "discover"
    BY <1>0, <2>1 DEF Pass, Good, GoodEnd, GoodPrompt
  <2> QED
    BY <2>1, <2>2, <2>3, QuietStep
<1>2. CASE Discovered(h)
  <2> DEFINE new == [p EXCEPT !.step = "settle"]
  <2>1. /\ Becomes(h, new) /\ p.step = "discover" /\ PassOnly /\ NoFault
        /\ UNCHANGED <<record, ledger, receipts, open>>
    BY <1>2 DEF Discovered, At, Goes
  <2>2. new \in Pass
    BY <1>0 DEF Pass, EndSteps
  <2>3. Good(h, new) /\ new.step = "settle"
    BY <1>0, <2>1 DEF Pass, Good, GoodEnd, GoodPrompt, EndWorks, EndSteps, PromptWorks, PromptSteps
  <2> QED
    BY <2>1, <2>2, <2>3, QuietStep
<1>3. ASSUME NEW w \in Workspaces, SettleObligation(h, w) PROVE HostInv'
  <2> DEFINE new == [p EXCEPT !.found = @ \ {w}]
  <2>1. /\ Becomes(h, new) /\ p.step = "settle" /\ PassOnly /\ NoFault
        /\ UNCHANGED <<record, ledger, receipts>> /\ open' \subseteq open
    BY <1>3 DEF SettleObligation, At
  <2>2. new \in Pass
    BY <1>0 DEF Pass
  <2>3. Good(h, new) /\ new.step = "settle"
    BY <1>0, <2>1 DEF Pass, Good, GoodEnd, GoodPrompt
  <2> QED
    BY <2>1, <2>2, <2>3, QuietStep
<1>4. ASSUME NEW w \in Workspaces, RetainObligation(h, w) PROVE HostInv'
  <2> DEFINE new == [p EXCEPT !.found = @ \ {w},
                        !.clean = @ /\ <<p.epoch, w>> \notin open, !.unsafe = @ \cup {w}]
  <2>1. /\ Becomes(h, new) /\ p.step = "settle" /\ PassOnly /\ NoFault
        /\ UNCHANGED <<record, ledger, receipts, open>>
    BY <1>4 DEF RetainObligation, At
  <2>2. new \in Pass
    <3>1. (p.clean /\ <<p.epoch, w>> \notin open) \in BOOLEAN
      OBVIOUS
    <3> QED
      BY <1>0, <3>1 DEF Pass
  <2>3. Good(h, new) /\ new.step = "settle"
    BY <1>0, <2>1 DEF Pass, Good, GoodEnd, GoodPrompt
  <2> QED
    BY <2>1, <2>2, <2>3, QuietStep
<1>5. CASE SettlePass(h)
  <2> DEFINE new == [p EXCEPT !.step = AfterReceipt(h)]
  <2>1. /\ Becomes(h, new) /\ p.step = "receipt" /\ PassOnly /\ (Fault \/ NoFault)
        /\ UNCHANGED <<record, ledger, open>>
        /\ SettleReceipt(p.epoch, p.token) \/ UNCHANGED receipts
    BY <1>5 DEF SettlePass, At, Goes
  <2>2. new \in Pass
    BY <1>0 DEF Pass, AfterReceipt, EndSteps, PromptSteps
  <2>3. Good(h, new) /\ new.step \in {"identity", "next"} /\ p.epoch \in Epochs
    BY <1>0, <2>1, LifecycleAssumption
       DEF HostInv, TypeOK, Epochs, Pass, Good, GoodEnd, GoodPrompt, EndWorks, EndSteps, PromptWorks,
           PromptSteps, AfterReceipt
  <2>4. /\ receipts' \in [Epochs -> Receipt]
        /\ \A e \in Epochs : receipts'[e].state # "none" =>
              receipts[e].state # "none" /\ receipts'[e].endedAt = receipts[e].endedAt
    <3>1. CASE UNCHANGED receipts
      BY <3>1 DEF HostInv, TypeOK
    <3>2. CASE SettleReceipt(p.epoch, p.token) /\ Pending(p.epoch) /\ ~ UNCHANGED receipts
      <4>1. receipts[p.epoch] \in Receipt /\ receipts[p.epoch].token + 1 \in Nat
        BY <2>3 DEF HostInv, TypeOK, Receipt
      <4>2. [receipts[p.epoch] EXCEPT !.state = "settled", !.token = @ + 1] \in Receipt
        BY <4>1 DEF Receipt, ReceiptStates
      <4>3. receipts' = [receipts EXCEPT ![p.epoch] = [receipts[p.epoch] EXCEPT !.state = "settled",
                                                                          !.token = @ + 1]]
        BY <2>3, <3>2, <4>1 DEF SettleReceipt, HostInv, TypeOK, Receipt
      <4> QED
        BY <2>3, <3>2, <4>1, <4>2, <4>3 DEF HostInv, TypeOK, Receipt, Pending
    <3> QED
      BY <2>1, <3>1, <3>2 DEF SettleReceipt
  <2>5. /\ record' \in {record, None} /\ ledger' \in Ledger \cup {None} /\ open' \subseteq open
        /\ faults' \in 0..MaxFaults
    BY <2>1, Faulty DEF HostInv, TypeOK
  <2> QED
    BY <2>1, <2>2, <2>3, <2>4, <2>5, HookStep
<1>6. CASE HookKilled(h)
  <2>1. /\ Becomes(h, IdlePass) /\ PassOnly /\ Fault /\ UNCHANGED <<record, ledger, receipts, open>>
    BY <1>6 DEF HookKilled, Leaves
  <2>2. IdlePass.step = "idle"
    BY DEF IdlePass
  <2> QED
    BY <2>1, <2>2, Idle, IdleGood, QuietStep
<1> QED
  BY <1>1, <1>2, <1>3, <1>4, <1>5, <1>6 DEF Working
\* What such a step leaves in shape, as one formula.
HookMoves(h, new) ==
    /\ h = "end" /\ new.step = "releasing" =>
          /\ new.epoch = pass["end"].epoch
          /\ \A w \in new.left : ~ Foreign(w) /\ ~ JobLocked(w)
    /\ PassOnly /\ UNCHANGED receipts /\ open' \subseteq open /\ faults' \in 0..MaxFaults
    /\ record' \in {record, None} /\ (record' # record => start.step = "idle")
    /\ ledger' \in Ledger \cup {None}

LEMMA HookGoes ==
  ASSUME HostInv, NEW h \in Hooks, NEW new \in Pass, Becomes(h, new), Good(h, new),
         HookMoves(h, new)
  PROVE  HostInv'
<1>1. /\ receipts' \in [Epochs -> Receipt] /\ receipts' = receipts
      /\ PassOnly /\ open' \subseteq open /\ faults' \in 0..MaxFaults
      /\ record' \in {record, None} /\ (record' # record => start.step = "idle")
      /\ ledger' \in Ledger \cup {None}
  BY DEF HostInv, TypeOK, HookMoves
<1>2. h = "end" /\ new.step = "releasing" =>
         /\ new.epoch = pass["end"].epoch
         /\ \A w \in new.left : ~ Foreign(w) /\ ~ JobLocked(w)
  BY DEF HookMoves
<1>3. ~ EndsLate => \A e \in Epochs : receipts'[e].state # "none" =>
         \/ receipts[e].state # "none" /\ receipts'[e].endedAt = receipts[e].endedAt
         \/ receipts'[e].endedAt = e
  BY <1>1
<1> HIDE DEF HookMoves
<1> QED
  BY <1>1, <1>2, <1>3, HookStep

-----------------------------------------------------------------------------
(* The SessionEnd hook.                                                    *)

LEMMA EndKeeps ==
  ASSUME HostInv, SessionEnd
  PROVE  HostInv'
<1> DEFINE p == pass["end"]
<1> USE LifecycleAssumption
<1>0. /\ p \in Pass /\ Good("end", p) /\ "end" \in Hooks /\ started \in Epochs /\ StartInv
      /\ record \in Epochs \cup {None} /\ receipts \in [Epochs -> Receipt]
      /\ ledger \in Ledger \cup {None} /\ open \subseteq Epochs \X Workspaces
      /\ 1..started \subseteq Epochs /\ Epochs \subseteq 0..MaxEpoch
  BY GoodNow DEF HostInv, TypeOK, Hooks, Epochs
<1>1. CASE ResolveEpoch
  <2>1. CASE record = None
    <3>1. /\ Becomes("end", IdlePass) /\ PassOnly /\ NoFault
          /\ UNCHANGED <<record, ledger, receipts, open>>
      BY <1>1, <2>1 DEF ResolveEpoch, Leaves
    <3>2. IdlePass.step = "idle"
      BY DEF IdlePass
    <3> QED
      BY <1>0, <3>1, <3>2, Idle, IdleGood, QuietStep
  <2>2. CASE record # None
    <3> DEFINE new == [p EXCEPT !.step = "publish", !.epoch = record]
    <3>1. /\ Becomes("end", new) /\ PassOnly /\ NoFault /\ record = started
          /\ UNCHANGED <<record, ledger, receipts, open>>
      BY <1>0, <1>1, <2>2 DEF ResolveEpoch, StartInv
    <3>2. /\ record \in 1..started /\ record \in 0..MaxEpoch
      BY <1>0, <3>1 DEF Epochs
    <3>3. new \in Pass
      BY <1>0, <3>2 DEF Pass, EndSteps
    <3>4. Good("end", new) /\ new.step = "publish"
      BY <1>0, <3>1, <3>2 DEF Pass, Good, GoodEnd, EndSteps
    <3> QED
      BY <1>0, <3>1, <3>3, <3>4, QuietStep
  <2> QED
    BY <2>1, <2>2
<1>2. CASE PublishSessionEnd
  <2> DEFINE r == Published(p.epoch, {Origin}, started)
             new == [p EXCEPT !.step = "enumerate", !.token = r.token, !.endedAt = r.endedAt]
  <2>1. /\ p.step = "publish" /\ PassOnly /\ (Fault \/ NoFault)
        /\ UNCHANGED <<record, ledger, open>> /\ Publish(p.epoch, {Origin}, started)
        /\ Becomes("end", new) \/ Becomes("end", IdlePass)
    BY <1>2 DEF PublishSessionEnd, At, Leaves
  <2>2. /\ p.epoch \in Epochs /\ p.epoch \in 1..started /\ {Origin} \in SUBSET Workspaces
        /\ ~ EndsLate => p.epoch = started
        /\ started \in 0..MaxEpoch
    BY <1>0, <2>1 DEF Good, GoodEnd, EndWorks, EndSteps
  <2>3. /\ r \in Receipt
        /\ r.endedAt = IF receipts[p.epoch].state = "none" THEN started
                       ELSE receipts[p.epoch].endedAt
    BY <2>2, Publishing DEF HostInv
  <2>4. ~ EndsLate => r.endedAt = p.epoch
    BY <2>2, <2>3 DEF HostInv, BoundaryInv
  <2>5. new \in Pass
    <3> HIDE DEF r
    <3> QED
      BY <1>0, <2>3 DEF Pass, EndSteps, Receipt
  <2>6. Good("end", new) /\ new.step = "enumerate"
    <3> HIDE DEF r
    <3> QED
      BY <1>0, <2>2, <2>4 DEF Pass, Good, GoodEnd, EndWorks, EndSteps
  <2>7. IdlePass.step = "idle"
    BY DEF IdlePass
  <2> HIDE DEF new
  <2> QED
    BY <1>0, <2>1, <2>2, <2>5, <2>6, <2>7, Idle, IdleGood, PublishingStep
<1>3. CASE EnumerateEnd
  <2>1. Known \in SUBSET Workspaces
    BY <1>0 DEF Known, Ledger
  <2> DEFINE proved == [p EXCEPT !.step = "merge", !.scope = Known]
             partial == [Discovering(p, {Origin}) EXCEPT
                            !.clean = FALSE, !.complete = FALSE, !.unsafe = {Origin}]
  <2>2. /\ p.step = "enumerate" /\ PassOnly /\ (Fault \/ NoFault)
        /\ UNCHANGED <<record, ledger, receipts, open>>
        /\ Becomes("end", proved) \/ Becomes("end", partial)
    BY <1>3 DEF EnumerateEnd, At
  <2>3. proved \in Pass /\ Good("end", proved) /\ proved.step = "merge"
    BY <1>0, <2>1, <2>2 DEF Pass, Good, GoodEnd, EndWorks, EndSteps
  <2>4. partial \in Pass /\ Good("end", partial) /\ partial.step = "discover"
    BY <1>0, <2>2 DEF Discovering, Pass, Good, GoodEnd, EndWorks, EndSteps
  <2> HIDE DEF proved, partial
  <2> QED
    BY <1>0, <2>2, <2>3, <2>4, QuietStep
<1>4. CASE MergeHints
  <2> DEFINE r == Published(p.epoch, p.scope, p.endedAt)
             merged == [Discovering(p, p.scope) EXCEPT !.token = r.token]
             failed == [Discovering(p, p.scope) EXCEPT !.complete = FALSE]
  <2>1. /\ p.step = "merge" /\ PassOnly /\ (Fault \/ NoFault) /\ UNCHANGED <<record, ledger, open>>
        /\ Publish(p.epoch, p.scope, p.endedAt) \/ UNCHANGED receipts
        /\ Becomes("end", merged) \/ Becomes("end", failed)
    BY <1>4 DEF MergeHints, At
  <2>2. /\ p.epoch \in Epochs /\ p.scope \in SUBSET Workspaces /\ p.endedAt \in 0..MaxEpoch
        /\ ~ EndsLate => p.endedAt = p.epoch
    BY <1>0, <2>1 DEF Pass, Good, GoodEnd, EndWorks, EndSteps
  <2>3. r \in Receipt
    BY <2>2, Publishing DEF HostInv
  <2>4. merged \in Pass /\ Good("end", merged) /\ merged.step = "discover"
    <3> HIDE DEF r
    <3> QED
      BY <1>0, <2>1, <2>3 DEF Discovering, Pass, Receipt, Good, GoodEnd, EndWorks, EndSteps
  <2>5. failed \in Pass /\ Good("end", failed) /\ failed.step = "discover"
    BY <1>0, <2>1 DEF Discovering, Pass, Good, GoodEnd, EndWorks, EndSteps
  <2>6. CASE Becomes("end", merged)
    <3> HIDE DEF merged
    <3> QED
      BY <1>0, <2>1, <2>2, <2>4, <2>6, PublishingStep
  <2>7. CASE Becomes("end", failed)
    <3> HIDE DEF failed
    <3> QED
      BY <1>0, <2>1, <2>2, <2>5, <2>7, PublishingStep
  <2> QED
    BY <2>1, <2>6, <2>7
<1>5. CASE BeginFence
  <2> DEFINE fence == [p EXCEPT !.step = "fence", !.left = p.scope]
             skip == [p EXCEPT !.step = "release", !.left = {}]
  <2>1. /\ p.step = "settle" /\ PassOnly /\ NoFault
        /\ UNCHANGED <<record, ledger, receipts, open>>
        /\ Becomes("end", fence) \/ Becomes("end", skip)
    BY <1>5 DEF BeginFence, At
  <2>2. fence \in Pass /\ Good("end", fence) /\ fence.step = "fence"
    BY <1>0, <2>1 DEF Pass, Good, GoodEnd, EndWorks, EndSteps
  <2>3. skip \in Pass /\ Good("end", skip) /\ skip.step = "release"
    BY <1>0, <2>1 DEF Pass, Good, GoodEnd, EndWorks, EndSteps
  <2> HIDE DEF fence, skip
  <2> QED
    BY <1>0, <2>1, <2>2, <2>3, QuietStep
<1>6. ASSUME NEW w \in Workspaces, FenceObligation(w) PROVE HostInv'
  <2>1. PICK discharged \in BOOLEAN :
          LET kept == IF discharged THEN {} ELSE {<<p.epoch, w>>} \cap open
          IN  /\ open' = (open \ {<<p.epoch, w>>}) \cup kept
              /\ Becomes("end", [p EXCEPT !.left = @ \ {w}, !.clean = @ /\ kept = {},
                                    !.unsafe = IF kept = {} THEN @ ELSE @ \cup {w}])
    BY <1>6 DEF FenceObligation
  <2> DEFINE kept == IF discharged THEN {} ELSE {<<p.epoch, w>>} \cap open
             new == [p EXCEPT !.left = @ \ {w}, !.clean = @ /\ kept = {},
                              !.unsafe = IF kept = {} THEN @ ELSE @ \cup {w}]
  <2>2. /\ p.step = "fence" /\ PassOnly /\ NoFault /\ UNCHANGED <<record, ledger, receipts>>
        /\ Becomes("end", new) /\ open' \subseteq open
    BY <1>6, <2>1 DEF FenceObligation, At
  <2>3. new \in Pass
    <3>1. (p.clean /\ kept = {}) \in BOOLEAN
      OBVIOUS
    <3> HIDE DEF kept
    <3> QED
      BY <1>0, <3>1 DEF Pass
  <2>4. Good("end", new) /\ new.step = "fence"
    <3> HIDE DEF kept
    <3> QED
      BY <1>0, <2>2 DEF Pass, Good, GoodEnd, EndWorks, EndSteps
  <2> HIDE DEF new
  <2> QED
    BY <1>0, <2>2, <2>3, <2>4, QuietStep
<1>7. CASE EndFence \/ EndRelease
  <2>1. PICK step \in {"release", "receipt"} :
          /\ Becomes("end", [p EXCEPT !.step = step]) /\ p.step \in {"fence", "release"}
          /\ PassOnly /\ NoFault /\ UNCHANGED <<record, ledger, receipts, open>>
    BY <1>7 DEF EndFence, EndRelease, Goes, At
  <2> DEFINE new == [p EXCEPT !.step = step]
  <2>2. new \in Pass /\ Good("end", new) /\ new.step = step
    BY <1>0, <2>1 DEF Pass, Good, GoodEnd, EndWorks, EndSteps
  <2> HIDE DEF new
  <2> QED
    BY <1>0, <2>1, <2>2, QuietStep DEF new
<1>8. ASSUME NEW w \in Workspaces, CheckForeign(w) PROVE HostInv'
  <2>1. /\ p.step = "release" /\ ~ JobLocked(w) /\ PassOnly /\ NoFault
        /\ UNCHANGED <<record, ledger, receipts, open>>
    BY <1>8 DEF CheckForeign, At
  <2>2. CASE Foreign(w)
    <3> DEFINE new == [p EXCEPT !.unsafe = @ \cup {w}]
    <3>1. Becomes("end", new)
      BY <1>8, <2>2 DEF CheckForeign
    <3>2. new \in Pass /\ Good("end", new) /\ new.step = "release"
      BY <1>0, <2>1 DEF Pass, Good, GoodEnd, EndWorks, EndSteps
    <3> HIDE DEF new
    <3> QED
      BY <1>0, <2>1, <3>1, <3>2, QuietStep
  <2>3. CASE ~ Foreign(w)
    <3> DEFINE new == [p EXCEPT !.step = "releasing", !.left = {w}]
    <3>1. Becomes("end", new)
      BY <1>8, <2>3 DEF CheckForeign
    <3>2. /\ new \in Pass /\ Good("end", new)
          /\ new.epoch = p.epoch /\ new.left = {w}
      BY <1>0, <2>1 DEF Pass, Good, GoodEnd, EndWorks, EndSteps
    <3>3. \A v \in new.left : ~ Foreign(v) /\ ~ JobLocked(v)
      BY <2>1, <2>3, <3>2
    <3>4. faults' \in 0..MaxFaults
      BY <2>1, Faulty DEF HostInv
    <3> HIDE DEF new
    <3>5. HookMoves("end", new)
      BY <1>0, <2>1, <3>2, <3>3, <3>4 DEF HookMoves
    <3> QED
      BY <1>0, <3>1, <3>2, <3>5, HookGoes
  <2> QED
    BY <2>2, <2>3
<1>9. CASE ReleaseOwner
  <2> DEFINE new == [p EXCEPT !.step = "release", !.left = {}, !.unsafe = @ \cup p.left]
  <2>1. /\ p.step = "releasing" /\ PassOnly /\ NoFault /\ UNCHANGED <<record, ledger, receipts>>
        /\ Becomes("end", new) /\ open' \subseteq open
    BY <1>9 DEF ReleaseOwner, At
  <2>2. new \in Pass /\ Good("end", new) /\ new.step = "release"
    BY <1>0, <2>1 DEF Pass, Good, GoodEnd, EndWorks, EndSteps
  <2> HIDE DEF new
  <2> QED
    BY <1>0, <2>1, <2>2, QuietStep
<1>10. CASE EndIdentity
  <2> DEFINE new == [p EXCEPT !.step = "hooks"]
  <2>1. /\ p.step = "identity" /\ PassOnly /\ NoFault /\ UNCHANGED <<record, receipts, open>>
        /\ Becomes("end", new) \/ Becomes("end", IdlePass)
        /\ ledger' \in {ledger, None} \/ (ledger # None /\ ledger' = [ledger EXCEPT !.ended = TRUE])
    BY <1>10 DEF EndIdentity, At, Goes, Leaves
  <2>2. new \in Pass /\ Good("end", new) /\ new.step = "hooks"
    BY <1>0, <2>1 DEF Pass, Good, GoodEnd, EndWorks, EndSteps
  <2>3. ledger' \in Ledger \cup {None}
    BY <1>0, <2>1 DEF Ledger
  <2>4. faults' \in 0..MaxFaults /\ IdlePass.step = "idle"
    BY <2>1, Faulty DEF HostInv, IdlePass
  <2> HIDE DEF new
  <2>5. HookMoves("end", new) /\ HookMoves("end", IdlePass)
    BY <1>0, <2>1, <2>2, <2>3, <2>4 DEF HookMoves
  <2> QED
    BY <1>0, <2>1, <2>2, <2>5, Idle, IdleGood, HookGoes
<1>11. CASE EndHookState
  <2>1. /\ Becomes("end", IdlePass) /\ PassOnly /\ NoFault /\ start.step = "idle"
        /\ record' \in {record, None} /\ UNCHANGED <<ledger, receipts, open>>
    BY <1>11 DEF EndHookState, Leaves
  <2>2. faults' \in 0..MaxFaults /\ IdlePass.step = "idle"
    BY <2>1, Faulty DEF HostInv, IdlePass
  <2>3. HookMoves("end", IdlePass)
    BY <1>0, <2>1, <2>2 DEF HookMoves
  <2> QED
    BY <1>0, <2>1, <2>3, Idle, IdleGood, HookGoes
<1> QED
  BY <1>1, <1>2, <1>3, <1>4, <1>5, <1>6, <1>7, <1>8, <1>9, <1>10, <1>11 DEF SessionEnd
-----------------------------------------------------------------------------
(* The prompt hook.                                                        *)

LEMMA PromptKeeps ==
  ASSUME HostInv, Prompt
  PROVE  HostInv'
<1> DEFINE p == pass["prompt"]
<1> USE LifecycleAssumption
<1>0. /\ p \in Pass /\ Good("prompt", p) /\ "prompt" \in Hooks
      /\ record \in Epochs \cup {None} /\ receipts \in [Epochs -> Receipt]
      /\ ledger \in Ledger \cup {None} /\ Epochs \subseteq 0..MaxEpoch
  BY GoodNow DEF HostInv, TypeOK, Hooks, Epochs
<1>1. CASE BeginPrompt
  <2> DEFINE new == [IdlePass EXCEPT !.step = "list", !.turn = record]
  <2>1. /\ record \in Epochs /\ PassOnly /\ NoFault /\ Becomes("prompt", new)
        /\ UNCHANGED <<record, ledger, receipts, open>>
    BY <1>0, <1>1 DEF BeginPrompt
  <2>2. new \in Pass
    BY <1>0, <2>1, Idle DEF Pass, PromptSteps
  <2>3. Good("prompt", new)
    BY <1>0, <2>1 DEF IdlePass, Good, GoodPrompt, PromptWorks, PromptSteps
  <2> HIDE DEF new
  <2> QED
    BY <1>0, <2>1, <2>2, <2>3, QuietStep
<1>2. CASE ListPending
  <2> DEFINE prior == {e \in Epochs \ {p.turn} : Pending(e)}
             seen == [e \in Epochs |-> IF e \in prior THEN receipts[e] ELSE Nothing]
             listed == [p EXCEPT !.step = "next", !.todo = prior, !.seen = seen]
             begin == [p EXCEPT !.step = "begin"]
  <2>1. /\ p.step = "list" /\ PassOnly /\ (Fault \/ NoFault)
        /\ UNCHANGED <<record, ledger, receipts, open>>
        /\ Becomes("prompt", listed) \/ Becomes("prompt", begin)
    BY <1>2 DEF ListPending, At, Goes
  <2>2. seen \in [Epochs -> Receipt] /\ prior \in SUBSET Epochs
    BY <1>0, Idle
  <2>3. ~ EndsLate => \A e \in prior : seen[e].endedAt = e
    BY DEF HostInv, BoundaryInv, Pending
  <2>4. listed \in Pass /\ Good("prompt", listed)
    <3> HIDE DEF seen, prior
    <3> QED
      BY <1>0, <2>1, <2>2, <2>3 DEF Pass, Good, GoodPrompt, PromptWorks, PromptSteps
  <2>5. begin \in Pass /\ Good("prompt", begin)
    BY <1>0, <2>1 DEF Pass, Good, GoodPrompt, PromptWorks, PromptSteps
  <2> HIDE DEF listed, begin
  <2> QED
    BY <1>0, <2>1, <2>4, <2>5, QuietStep
<1>3. CASE NextReceipt
  <2>1. /\ p.step = "next" /\ PassOnly /\ NoFault /\ UNCHANGED <<record, ledger, receipts, open>>
    BY <1>3 DEF NextReceipt, At
  <2>2. ASSUME NEW e \in p.todo,
               Becomes("prompt", [p EXCEPT !.step = "ledger", !.epoch = e, !.clean = TRUE,
                                     !.token = p.seen[e].token, !.endedAt = p.seen[e].endedAt,
                                     !.todo = @ \ {e}, !.unsafe = {}])
        PROVE  HostInv'
    <3> DEFINE r == p.seen[e]
               new == [p EXCEPT !.step = "ledger", !.epoch = e, !.clean = TRUE,
                                !.token = r.token, !.endedAt = r.endedAt,
                                !.todo = @ \ {e}, !.unsafe = {}]
    <3>1. /\ e \in Epochs /\ r \in Receipt
          /\ ~ EndsLate => r.endedAt = e
      BY <1>0, <2>1 DEF Pass, Good, GoodPrompt
    <3>2. /\ r.token \in Nat /\ r.endedAt \in 0..MaxEpoch /\ e \in 0..MaxEpoch
      BY <1>0, <3>1 DEF Receipt
    <3>3. new \in Pass
      <4> HIDE DEF r
      <4> QED
        BY <1>0, <3>2 DEF Pass, PromptSteps
    <3>4. Good("prompt", new)
      <4> HIDE DEF r
      <4> QED
        BY <1>0, <2>1, <3>1 DEF Pass, Good, GoodPrompt, PromptWorks, PromptSteps
    <3>5. Becomes("prompt", new)
      BY <2>2
    <3> HIDE DEF new
    <3> QED
      BY <1>0, <2>1, <3>3, <3>4, <3>5, QuietStep
  <2>3. CASE Goes("prompt", "begin")
    <3> DEFINE new == [p EXCEPT !.step = "begin"]
    <3>1. new \in Pass /\ Good("prompt", new) /\ Becomes("prompt", new)
      BY <1>0, <2>1, <2>3 DEF Goes, Pass, Good, GoodPrompt, PromptWorks, PromptSteps
    <3> HIDE DEF new
    <3> QED
      BY <1>0, <2>1, <3>1, QuietStep
  <2> QED
    BY <1>3, <2>2, <2>3 DEF NextReceipt
<1>4. CASE ReadLedger
  <2> DEFINE hinted == {Origin} \cup p.seen[p.epoch].hints
             merging == [p EXCEPT !.step = "merge", !.scope = hinted \cup ledger.known]
             going == Discovering(p, hinted)
  <2>1. /\ p.step = "ledger" /\ PassOnly /\ (Fault \/ NoFault)
        /\ UNCHANGED <<record, ledger, receipts, open>>
        /\ \/ Becomes("prompt", merging) /\ ledger # None
           \/ Becomes("prompt", going)
           \/ Becomes("prompt", IdlePass)
    BY <1>4 DEF ReadLedger, At, Leaves
  <2>2. hinted \in SUBSET Workspaces
    BY <1>0, <2>1 DEF Pass, Good, GoodPrompt, PromptWorks, Receipt
  <2>3. ledger # None => hinted \cup ledger.known \in SUBSET Workspaces
    BY <1>0, <2>2 DEF Ledger
  <2>4. ledger # None => merging \in Pass /\ Good("prompt", merging)
    <3> HIDE DEF hinted
    <3> QED
      BY <1>0, <2>1, <2>3 DEF Pass, Good, GoodPrompt, PromptWorks, PromptSteps
  <2>5. going \in Pass /\ Good("prompt", going)
    <3> HIDE DEF hinted
    <3> QED
      BY <1>0, <2>1, <2>2 DEF Discovering, Pass, Good, GoodPrompt, PromptWorks, PromptSteps
  <2> HIDE DEF merging, going
  <2> QED
    BY <1>0, <2>1, <2>4, <2>5, Idle, IdleGood, QuietStep
<1>5. CASE PersistScope
  <2> DEFINE r == Published(p.epoch, p.scope, p.endedAt)
             going == [Discovering(p, p.scope) EXCEPT !.token = r.token]
  <2>1. /\ p.step = "merge" /\ PassOnly /\ (Fault \/ NoFault) /\ UNCHANGED <<record, ledger, open>>
        /\ Publish(p.epoch, p.scope, p.endedAt) \/ UNCHANGED receipts
        /\ Becomes("prompt", going) \/ Becomes("prompt", IdlePass)
    BY <1>5 DEF PersistScope, At, Leaves
  <2>2. /\ p.epoch \in Epochs /\ p.scope \in SUBSET Workspaces /\ p.endedAt \in 0..MaxEpoch
        /\ ~ EndsLate => p.endedAt = p.epoch
    BY <1>0, <2>1 DEF Pass, Good, GoodPrompt, PromptWorks
  <2>3. r \in Receipt
    BY <2>2, Publishing DEF HostInv
  <2>4. going \in Pass /\ Good("prompt", going)
    <3> HIDE DEF r
    <3> QED
      BY <1>0, <2>1, <2>3 DEF Discovering, Pass, Receipt, Good, GoodPrompt, PromptWorks, PromptSteps
  <2> HIDE DEF going
  <2>5. CASE Becomes("prompt", going)
    BY <1>0, <2>1, <2>2, <2>4, <2>5, PublishingStep
  <2>6. CASE Becomes("prompt", IdlePass)
    BY <1>0, <2>1, <2>2, <2>6, Idle, IdleGood, PublishingStep
  <2> QED
    BY <2>1, <2>5, <2>6
<1>6. CASE PromptSettled \/ ReconciliationFails
  <2>1. PICK step \in {"receipt", "begin"} :
          /\ Becomes("prompt", [p EXCEPT !.step = step]) /\ PassOnly /\ (Fault \/ NoFault)
          /\ p.step = "settle" \/ (step = "begin" /\ p.step \in {"next", "discover", "settle"})
          /\ UNCHANGED <<record, ledger, receipts, open>>
    BY <1>6 DEF PromptSettled, ReconciliationFails, Goes, At
  <2> DEFINE new == [p EXCEPT !.step = step]
  <2>2. new \in Pass /\ Good("prompt", new)
    BY <1>0, <2>1 DEF Pass, Good, GoodPrompt, PromptWorks, PromptSteps
  <2> HIDE DEF new
  <2> QED
    BY <1>0, <2>1, <2>2, QuietStep DEF new
<1>7. CASE BeginCallerTurn
  <2> DEFINE kept == IF ledger = None \/ ledger.ended THEN {} ELSE ledger.known
             begun == [epoch |-> p.turn, known |-> kept \cup {Origin}, ended |-> FALSE]
  <2>1. /\ p.step = "begin" /\ Becomes("prompt", IdlePass) /\ PassOnly /\ NoFault
        /\ UNCHANGED <<record, receipts, open>> /\ ledger' \in {ledger, begun}
    BY <1>7 DEF BeginCallerTurn, At, Leaves
  <2>2. begun \in Ledger
    BY <1>0, <2>1 DEF Good, GoodPrompt, PromptSteps, Ledger
  <2>3. faults' \in 0..MaxFaults
    BY <2>1, Faulty DEF HostInv
  <2> HIDE DEF begun
  <2>4. HookMoves("prompt", IdlePass)
    BY <1>0, <2>1, <2>2, <2>3 DEF HookMoves
  <2> QED
    BY <1>0, <2>1, <2>4, Idle, IdleGood, HookGoes
<1> QED
  BY <1>1, <1>2, <1>3, <1>4, <1>5, <1>6, <1>7 DEF Prompt
-----------------------------------------------------------------------------
(* The theorems.                                                           *)

\* Only a start and the end of an epoch move the record.
LEMMA RecordMoves ==
  ASSUME HostInv, [Next]_vars, record' = None
  PROVE  UNCHANGED record \/ EndHookState
<1>1. CASE UNCHANGED vars
  BY <1>1 DEF vars
<1>2. CASE SessionStart
  <2>1. started + 1 # None
    BY LifecycleAssumption DEF HostInv, TypeOK, Epochs
  <2> QED
    BY <1>2, <2>1 DEF SessionStart, BeginResume, ReadReceipt, EnumerateScope, MergeScope, ScanScope,
       PublishCompensation, CleanupIdentity, LockWorkspace, CompensateFenced, WriteRecord, StartFails
<1>3. CASE Child
  BY <1>3 DEF Child, ChildOnly, SubagentStart, PersistClaim, FenceScan, FenceAnchor, FenceOwn,
              PersistReservation
<1>4. CASE Settling
  BY <1>4 DEF Settling, Working, Discover, SettleObligation, RetainObligation, Discovered, SettlePass,
              HookKilled
<1>5. CASE SessionEnd
  BY <1>5 DEF SessionEnd, ResolveEpoch, PublishSessionEnd, EnumerateEnd, MergeHints, BeginFence,
              FenceObligation, CheckForeign, EndFence, ReleaseOwner, EndRelease, EndIdentity
<1>6. CASE Prompt
  BY <1>6 DEF Prompt, BeginPrompt, ListPending, NextReceipt, ReadLedger, PersistScope, PromptSettled,
              ReconciliationFails, BeginCallerTurn
<1> QED
  BY <1>1, <1>2, <1>3, <1>4, <1>5, <1>6
     DEF Next, HostExit, HostKilled, JobEnds, PruneReceipt

LEMMA HostInvariant == Spec => []HostInv
<1>1. HostInv /\ [Next]_vars => HostInv'
  <2> SUFFICES ASSUME HostInv, [Next]_vars PROVE HostInv'
    OBVIOUS
  <2>1. CASE UNCHANGED vars
    <3>1. TypeOK' /\ StartInv' /\ PassInv' /\ ChildInv'
      BY <2>1 DEF vars, HostInv, TypeOK, StartInv, PassInv, ChildInv
    <3>2. ReleaseInv'
      BY <2>1, ReleaseUntouched DEF vars
    <3>3. BoundaryInv'
      BY <2>1 DEF vars, HostInv, BoundaryInv
    <3> QED
      BY <3>1, <3>2, <3>3 DEF HostInv
  <2>2. CASE Next
    BY <2>2, OutsideKeeps, ChildKeeps, StartKeeps, SettlingKeeps, EndKeeps, PromptKeeps DEF Next
  <2> QED
    BY <2>1, <2>2
<1> QED
  BY InitHost, <1>1, PTL DEF Spec

\* The types of the lifecycle of a session, whatever its hooks, children and faults do.
THEOREM HostTypes == Spec => []TypeOK
<1>1. HostInv => TypeOK
  BY DEF HostInv
<1> QED
  BY HostInvariant, <1>1, PTL

\* The owner that a SessionEnd hook releases runs no job of another epoch: the look for such
\* jobs and the release are under one job lock, which a reservation needs too.
THEOREM OwnersSpareSuccessors == Spec => []ReleaseSparesSuccessor
<1>1. HostInv => ReleaseSparesSuccessor
  BY DEF HostInv, ReleaseInv, ReleaseSparesSuccessor
<1> QED
  BY HostInvariant, <1>1, PTL

\* The end of an epoch removes the record of that epoch only, unless a resume recorded its
\* successor before the hook took the boundary of its receipt.
THEOREM EndSparesSuccessor == ~ EndsLate => (Spec => SuccessorRecordKept)
<1> SUFFICES ASSUME ~ EndsLate PROVE Spec => SuccessorRecordKept
  OBVIOUS
<1>1. ASSUME HostInv, [Next]_vars, record' = None
      PROVE  record \in {None, pass["end"].epoch}
  <2>1. UNCHANGED record \/ EndHookState
    BY <1>1, RecordMoves
  <2>2. CASE UNCHANGED record
    BY <1>1, <2>2
  <2>3. CASE EndHookState
    <3>1. /\ pass["end"].step = "hooks"
          /\ record # None => record <= pass["end"].endedAt
      BY <1>1, <2>3 DEF EndHookState, At
    <3>2. pass["end"].endedAt = pass["end"].epoch /\ pass["end"].epoch \in 1..started
      BY <1>1, <3>1 DEF HostInv, BoundaryInv, PassInv, EndWorks, EndSteps
    <3> QED
      BY <1>1, <3>1, <3>2 DEF HostInv, TypeOK, StartInv, Epochs
  <2> QED
    BY <2>1, <2>2, <2>3
<1>2. HostInv /\ [Next]_vars => (record' = None => record \in {None, pass["end"].epoch})
  BY <1>1
<1> QED
  BY HostInvariant, <1>2, PTL DEF Spec, SuccessorRecordKept

-----------------------------------------------------------------------------
(***************************************************************************)
(* Who owes what, and who can find it.  The four invariants about the jobs *)
(* of an ended epoch hold together or not at all: a settled receipt owes   *)
(* nothing because the scope of the pass had everything, the scope had     *)
(* everything because the ledger or the hints did, and the ledger did      *)
(* because no child reserves in a workspace it did not claim.  OrderInv    *)
(* says what each of the four processes contributes.                       *)
(***************************************************************************)

\* What the theorems suppose of the Host: no prompt hook overlaps the SessionEnd hook of its
\* epoch, and no child links a workspace during a resume.
Orderly == ~ Overlaps /\ ~ LinksLate

\* What else they suppose of a run, unless it cannot be otherwise: where a resume may record
\* its epoch before the SessionEnd hook published, the hook leaves that record alone; where more
\* than one read, write or hook may fail, no turn replaces a ledger that knows more than the
\* receipt of its epoch.  Both are what the code may fail to do.
Undisturbed ==
    /\ EndsLate => SuccessorRecordKept
    /\ MaxFaults <= 1 \/ ScopeKept

\* The same of a step: RecordSpared and ~ ScopeForgotten.
RecordSpared == record' = None => record \in {None, pass["end"].epoch}

Receipted(e)  == receipts[e].state # "none"
Hinted(e, w)  == w \in receipts[e].hints \cup {Origin}
LedgerOf(e)   == ledger # None /\ ledger.epoch = e
Lives         == ledger # None /\ ~ ledger.ended

\* A child that is past its fence, and one that may still be refused by its own receipt.
Reserving(e, w) == child.step = "persist" /\ child.epoch = e /\ child.workspace = w
Coming(e, w)    == child.step = "own" /\ child.epoch = e /\ child.workspace = w
Owed(e, w)      == <<e, w>> \in open \/ Reserving(e, w)

\* While a resume is recorded no host serves the session.  A prompt is one of the recorded
\* epoch, and the SessionEnd hook does not work for that epoch then.
ServingInv ==
    /\ start.step # "idle" => ~ live
    /\ pass["prompt"].step # "idle" =>
          /\ live /\ record = pass["prompt"].turn
          /\ pass["end"].step \in EndWorks => pass["end"].epoch # record
    /\ pass["prompt"].turn \notin pass["prompt"].todo
    /\ pass["prompt"].step \in PromptWorks => pass["prompt"].epoch # pass["prompt"].turn

\* A live ledger is that of the recorded epoch, and has ended before either moves on.
LedgerInv ==
    /\ ledger # None => ledger.epoch <= started
    /\ Lives => ledger.epoch = started /\ record = started
    /\ At("end", "hooks") /\ Lives => ledger.epoch # pass["end"].epoch
    /\ start.step \in {"lock", "write"} \/ start.second => ~ Lives

\* The workspace of a child of the current epoch is in the ledger once it claimed it.
ClaimInv ==
    /\ child.step # "idle" => child.epoch <= started /\ ledger # None
    /\ child.step \in {"scan"} \cup Inside /\ child.epoch = started =>
          LedgerOf(started) /\ child.workspace \in ledger.known

\* The resume locks the workspaces of the ledger, and looks again under the locks.
FencingInv ==
    /\ start.step = "idle" => start = IdleStart
    /\ start.fenced => start.fence = Known /\ record # None
    /\ start.step \in {"merge", "scan", "publish"} => start.scope = Known
    /\ start.step = "lock" => start.fenced
    /\ start.second => start.fenced /\ start.held = start.fence /\ start.step \notin {"cleanup", "lock"}
    /\ child.step \in Inside => child.workspace \notin start.held

\* What it knows of the epoch it compensates before it writes the record of the next.
CompensatedInv ==
    /\ start.step \in {"cleanup", "write"} /\ ~ start.fenced /\ record # None => Receipted(record)
    /\ start.step = "write" /\ start.fenced =>
          start.second /\ (Receipted(record) \/ \A w \in Workspaces : <<record, w>> \notin open)

\* An epoch that is not recorded any more owes nothing without a receipt.
ReceiptedInv ==
    /\ \A e \in Epochs, w \in Workspaces :
          (Owed(e, w) \/ Coming(e, w)) /\ record # e => Receipted(e)
    /\ pass["end"].step \in EndWorks \ {"publish"} => Receipted(pass["end"].epoch)

\* What is owed is in the ledger of its epoch, or else in the hints of its receipt.
OwedInv ==
    \A e \in Epochs, w \in Workspaces : Owed(e, w) =>
        /\ ledger # None /\ e <= started /\ (e = started => LedgerOf(e))
        /\ IF LedgerOf(e) THEN w \in ledger.known ELSE Hinted(e, w)

SettledInv ==
    \A e \in Epochs, w \in Workspaces : receipts[e].state = "settled" => ~ Owed(e, w)

\* The scope of a pass has whatever its epoch owes, as long as its token is good.
Visiting == {"discover", "settle", "fence", "release", "releasing", "receipt"}

ScopeInv ==
    /\ pass["end"].step \in {"merge"} \cup Visiting /\ pass["end"].clean =>
          \A w \in Workspaces : Owed(pass["end"].epoch, w) => w \in pass["end"].scope
    /\ pass["prompt"].step = "merge" =>
          LedgerOf(pass["prompt"].epoch) /\ ledger.known \subseteq pass["prompt"].scope
    /\ pass["prompt"].step \in Visiting =>
          LET p == pass["prompt"]
              r == receipts[p.epoch]
          IN  /\ p.token <= r.token
              /\ r.state = "pending" /\ p.token = r.token =>
                    \A w \in Workspaces : Owed(p.epoch, w) => w \in p.scope

\* The token of a listed receipt stands for the hints it was listed with.
Listed(p) == p.todo \cup (IF p.step = "ledger" THEN {p.epoch} ELSE {})
TokenInv ==
    LET p == pass["prompt"]
    IN  /\ \A e \in Listed(p) :
              /\ p.seen[e].token <= receipts[e].token
              /\ Pending(e) /\ p.seen[e].token = receipts[e].token =>
                    p.seen[e].hints = receipts[e].hints
        /\ p.step = "ledger" => p.token = p.seen[p.epoch].token

\* Where a pass has been, it found what is still owed.
Visited(p) ==
    p.step \in Visiting =>
        /\ \A w \in p.scope \ (IF p.step = "discover" THEN p.left ELSE {}) :
              /\ ~ Reserving(p.epoch, w)
              /\ p.clean /\ <<p.epoch, w>> \in open => w \in p.found
        /\ p.step \notin {"discover", "settle"} => p.found = {}

VisitInv == \A h \in Hooks : Visited(pass[h])

OrderInv == /\ ServingInv /\ LedgerInv /\ ClaimInv /\ FencingInv /\ CompensatedInv /\ ReceiptedInv
            /\ OwedInv /\ SettledInv /\ ScopeInv /\ TokenInv /\ VisitInv

-----------------------------------------------------------------------------
(* What any step does to the receipts, the ledger, the record and the jobs. *)

\* A token stands for the receipt it was given with, hints are only added, and only a
\* settled receipt is pruned.
Evolves(e) ==
    /\ receipts[e].token <= receipts'[e].token
    /\ receipts'[e].state # "none" /\ receipts'[e].token = receipts[e].token =>
          receipts'[e] = receipts[e]
    /\ receipts[e].state # "none" /\ receipts'[e].state # "none" =>
          receipts[e].hints \subseteq receipts'[e].hints
    /\ receipts[e].state # "none" /\ receipts'[e].state = "none" => PruneReceipt(e)
    /\ receipts'[e].state = "settled" /\ receipts[e].state # "settled" =>
          \E h \in Hooks : /\ SettlePass(h) /\ e = pass[h].epoch /\ pass[h].clean
                           /\ Pending(e) /\ receipts[e].token = pass[h].token

\* A publication adds hints, and a token with them; the receipt it finds stays in its state.
LEMMA PublishedIs ==
  ASSUME TypeOK, NEW e \in Epochs, NEW hints \in SUBSET Workspaces, NEW endedAt \in 0..MaxEpoch
  PROVE  LET old == receipts[e]
             new == Published(e, hints, endedAt)
         IN  /\ new.state = IF old.state = "none" THEN "pending" ELSE old.state
             /\ hints \subseteq new.hints
             /\ old.state # "none" => old.hints \subseteq new.hints
             /\ new = old \/ new.token = old.token + 1
             /\ new = old => old.state # "none"
<1> DEFINE old == receipts[e]
<1>1. old \in Receipt /\ old.token \in Nat
  BY DEF TypeOK, Receipt
<1>2. CASE old.state = "none"
  BY <1>1, <1>2 DEF Published
<1>3. CASE old.state # "none" /\ hints \subseteq old.hints
  BY <1>1, <1>3 DEF Published
<1>4. CASE old.state # "none" /\ ~ hints \subseteq old.hints
  <2>1. Published(e, hints, endedAt) = [old EXCEPT !.hints = @ \cup hints, !.token = @ + 1]
    BY <1>4 DEF Published
  <2>2. LET new == [old EXCEPT !.hints = @ \cup hints, !.token = @ + 1]
        IN  /\ new.state = old.state /\ new.hints = old.hints \cup hints
            /\ new.token = old.token + 1
    BY <1>1 DEF Receipt
  <2> QED
    BY <1>1, <1>4, <2>1, <2>2
<1> QED
  BY <1>2, <1>3, <1>4

\* Who writes receipts.
LEMMA ReceiptWrites ==
  ASSUME HostInv, [Next]_vars
  PROVE  \/ UNCHANGED receipts
         \/ \E e \in Epochs, hints \in SUBSET Workspaces, at \in 0..MaxEpoch : Publish(e, hints, at)
         \/ \E h \in Hooks : SettlePass(h) /\ pass[h].clean
                             /\ SettleReceipt(pass[h].epoch, pass[h].token)
         \/ \E e \in Epochs : PruneReceipt(e)
<1> USE LifecycleAssumption
<1>0. /\ started \in 0..MaxEpoch /\ Epochs \subseteq 0..MaxEpoch /\ start.scope \in SUBSET Workspaces
      /\ Origin \in Workspaces
      /\ \A h \in Hooks : /\ pass[h].scope \in SUBSET Workspaces
                          /\ pass[h].endedAt \in 0..MaxEpoch
  BY DEF HostInv, TypeOK, Epochs, Pass
<1>1. CASE UNCHANGED vars
  BY <1>1 DEF vars
<1>2. CASE SessionStart
  <2>1. CASE MergeScope \/ PublishCompensation \/ StartFails
    <3>1. \/ UNCHANGED receipts
          \/ start.step \in {"merge", "publish"} /\ Publish(record, start.scope, started)
      BY <2>1 DEF MergeScope, PublishCompensation, StartFails
    <3>2. start.step \in {"merge", "publish"} => record \in Epochs
      BY DEF HostInv, TypeOK, StartInv
    <3> QED
      BY <1>0, <3>1, <3>2
  <2> QED
    BY <1>2, <2>1 DEF SessionStart, BeginResume, ReadReceipt, EnumerateScope, ScanScope,
       CleanupIdentity, LockWorkspace, CompensateFenced, WriteRecord
<1>3. CASE Child
  BY <1>3 DEF Child, ChildOnly, SubagentStart, PersistClaim, FenceScan, FenceAnchor, FenceOwn,
              PersistReservation
<1>4. CASE Settling
  BY <1>4 DEF Settling, Working, Discover, SettleObligation, RetainObligation, Discovered, SettlePass,
              HookKilled
<1>5. CASE SessionEnd
  <2>1. CASE PublishSessionEnd \/ MergeHints
    <3>1. pass["end"].step \in EndWorks => pass["end"].epoch \in Epochs
      BY DEF HostInv, TypeOK, PassInv, Epochs
    <3>2. pass["end"].step \in EndWorks
      BY <2>1 DEF PublishSessionEnd, MergeHints, At, EndWorks, EndSteps
    <3>3. \/ UNCHANGED receipts
          \/ Publish(pass["end"].epoch, {Origin}, started)
          \/ Publish(pass["end"].epoch, pass["end"].scope, pass["end"].endedAt)
      BY <2>1 DEF PublishSessionEnd, MergeHints
    <3>4. {Origin} \in SUBSET Workspaces /\ "end" \in Hooks
      BY <1>0 DEF Hooks
    <3> QED
      BY <1>0, <3>1, <3>2, <3>3, <3>4
  <2> QED
    BY <1>5, <2>1
       DEF SessionEnd, ResolveEpoch, EnumerateEnd, BeginFence, FenceObligation, CheckForeign,
           EndFence, ReleaseOwner, EndRelease, EndIdentity, EndHookState
<1>6. CASE Prompt
  <2>1. CASE PersistScope
    <3>1. pass["prompt"].epoch \in Epochs /\ "prompt" \in Hooks
      BY <2>1 DEF HostInv, PassInv, PersistScope, At, PromptWorks, Hooks
    <3>2. \/ UNCHANGED receipts
          \/ Publish(pass["prompt"].epoch, pass["prompt"].scope, pass["prompt"].endedAt)
      BY <2>1 DEF PersistScope
    <3> QED
      BY <1>0, <3>1, <3>2
  <2> QED
    BY <1>6, <2>1 DEF Prompt, BeginPrompt, ListPending, NextReceipt, ReadLedger, PromptSettled,
              ReconciliationFails, BeginCallerTurn
<1>7. CASE HostExit \/ HostKilled \/ \E e \in Epochs, w \in Workspaces : JobEnds(e, w)
  BY <1>7 DEF HostExit, HostKilled, JobEnds
<1> QED
  BY <1>1, <1>2, <1>3, <1>4, <1>5, <1>6, <1>7 DEF Next

\* Whoever writes it, a receipt goes one way only.
LEMMA ReceiptsEvolve ==
  ASSUME HostInv, [Next]_vars, NEW e \in Epochs
  PROVE  Evolves(e)
<1>0. /\ TypeOK /\ receipts \in [Epochs -> Receipt] /\ receipts[e] \in Receipt
      /\ receipts[e].token \in Nat
  BY DEF HostInv, TypeOK, Receipt
<1>1. CASE UNCHANGED receipts
  BY <1>0, <1>1 DEF Evolves
<1>2. ASSUME NEW d \in Epochs, NEW hints \in SUBSET Workspaces, NEW at \in 0..MaxEpoch,
             Publish(d, hints, at)
      PROVE  Evolves(e)
  <2>1. receipts'[e] = IF e = d THEN Published(d, hints, at) ELSE receipts[e]
    BY <1>0, <1>2 DEF Publish
  <2>2. CASE e # d
    BY <1>0, <2>1, <2>2 DEF Evolves
  <2>3. CASE e = d
    <3> DEFINE new == Published(e, hints, at)
    <3>1. receipts'[e] = new
      BY <2>1, <2>3
    <3>2. /\ new.state = IF receipts[e].state = "none" THEN "pending" ELSE receipts[e].state
          /\ receipts[e].state # "none" => receipts[e].hints \subseteq new.hints
          /\ new = receipts[e] \/ new.token = receipts[e].token + 1
      BY <1>0, PublishedIs
    <3> HIDE DEF new
    <3> QED
      BY <1>0, <3>1, <3>2 DEF Evolves
  <2> QED
    BY <2>2, <2>3
<1>3. ASSUME NEW h \in Hooks, SettlePass(h), pass[h].clean,
             SettleReceipt(pass[h].epoch, pass[h].token)
      PROVE  Evolves(e)
  <2>1. CASE e = pass[h].epoch /\ Pending(e) /\ receipts[e].token = pass[h].token
    <3>1. receipts'[e] = [receipts[e] EXCEPT !.state = "settled", !.token = @ + 1]
      BY <1>0, <1>3, <2>1 DEF SettleReceipt, Receipt
    <3>2. /\ receipts'[e].state = "settled" /\ receipts'[e].token = receipts[e].token + 1
          /\ receipts'[e].hints = receipts[e].hints
      BY <1>0, <3>1 DEF Receipt
    <3> QED
      BY <1>0, <1>3, <2>1, <3>2 DEF Evolves
  <2>2. CASE ~ (e = pass[h].epoch /\ Pending(e) /\ receipts[e].token = pass[h].token)
    <3>1. receipts'[e] = receipts[e]
      BY <1>0, <1>3, <2>2 DEF SettleReceipt
    <3> QED
      BY <1>0, <3>1 DEF Evolves
  <2> QED
    BY <2>1, <2>2
<1>4. ASSUME NEW d \in Epochs, PruneReceipt(d)
      PROVE  Evolves(e)
  <2>1. receipts'[e] = IF e = d THEN [Nothing EXCEPT !.token = receipts[d].token] ELSE receipts[e]
    BY <1>0, <1>4 DEF PruneReceipt
  <2>2. CASE e # d
    BY <1>0, <2>1, <2>2 DEF Evolves
  <2>3. CASE e = d
    <3>1. receipts'[e].token = receipts[e].token /\ receipts'[e].state = "none"
      BY <2>1, <2>3 DEF Nothing
    <3> QED
      BY <1>0, <1>4, <2>3, <3>1 DEF Evolves
  <2> QED
    BY <2>2, <2>3
<1> QED
  BY <1>1, <1>2, <1>3, <1>4, ReceiptWrites

\* Nothing more is owed than before.
OwesLess ==
    \A e \in Epochs, w \in Workspaces :
        /\ Reserving(e, w)' => Reserving(e, w)
        /\ <<e, w>> \in open' => Owed(e, w)

\* Only the last look of the fence lets a child in.
Enters == FenceOwn /\ ~ Receipted(child.epoch) /\ child' = [child EXCEPT !.step = "persist"]

\* A job is owed from the last look of its child's fence on.
LEMMA OwingEvolves ==
  ASSUME HostInv, [Next]_vars
  PROVE  OwesLess \/ Enters
<1> SUFFICES ASSUME ~ Enters PROVE OwesLess
  OBVIOUS
<1>0. child \in [step: ChildSteps, epoch: 0..MaxEpoch, workspace: Workspaces]
  BY DEF HostInv, TypeOK
<1>1. ASSUME open' \subseteq open, UNCHANGED child \/ child'.step # "persist"
      PROVE  OwesLess
  BY <1>1 DEF OwesLess, Reserving, Owed
<1>2. CASE UNCHANGED vars
  BY <1>1, <1>2 DEF vars
<1>3. CASE SessionStart
  BY <1>1, <1>3 DEF SessionStart, BeginResume, ReadReceipt, EnumerateScope, MergeScope, ScanScope,
       PublishCompensation, CleanupIdentity, LockWorkspace, CompensateFenced, WriteRecord, StartFails,
       StartOnly
<1>4. CASE Child
  <2>1. CASE PersistReservation
    <3>1. child' = IdleChild /\ child.step = "persist"
          /\ open' \subseteq open \cup {<<child.epoch, child.workspace>>}
      BY <2>1 DEF PersistReservation
    <3> QED
      BY <3>1 DEF OwesLess, Reserving, Owed, IdleChild
  <2>2. ASSUME NEW w \in Workspaces, SubagentStart(w) PROVE OwesLess
    BY <1>1, <2>2 DEF SubagentStart
  <2>3. CASE PersistClaim \/ FenceScan \/ FenceAnchor
    <3>1. UNCHANGED open /\ child'.step # "persist"
      BY <1>0, <2>3 DEF PersistClaim, FenceScan, FenceAnchor, ChildGoes, IdleChild
    <3> QED
      BY <1>1, <3>1
  <2>4. CASE FenceOwn
    <3>1. UNCHANGED open /\ child' = IdleChild
      BY <2>4 DEF FenceOwn, ChildGoes, Enters, Receipted
    <3> QED
      BY <1>1, <3>1 DEF IdleChild
  <2> QED
    BY <1>4, <2>1, <2>2, <2>3, <2>4 DEF Child
<1>5. CASE Settling
  BY <1>1, <1>5 DEF Settling, Working, Discover, SettleObligation, RetainObligation, Discovered,
              SettlePass, HookKilled, PassOnly
<1>6. CASE SessionEnd
  <2>1. ASSUME NEW w \in Workspaces, FenceObligation(w) PROVE open' \subseteq open
    BY <2>1 DEF FenceObligation
  <2> QED
    BY <1>1, <1>6, <2>1
       DEF SessionEnd, ResolveEpoch, PublishSessionEnd, EnumerateEnd, MergeHints, BeginFence,
           FenceObligation, CheckForeign, EndFence, ReleaseOwner, EndRelease, EndIdentity,
           EndHookState, PassOnly
<1>7. CASE Prompt
  BY <1>1, <1>7 DEF Prompt, BeginPrompt, ListPending, NextReceipt, ReadLedger, PersistScope,
       PromptSettled, ReconciliationFails, BeginCallerTurn, PassOnly
<1>8. CASE HostExit \/ HostKilled \/ \E e \in Epochs, w \in Workspaces : JobEnds(e, w)
  BY <1>1, <1>8 DEF HostExit, HostKilled, JobEnds
<1>9. CASE \E e \in Epochs : PruneReceipt(e)
  BY <1>1, <1>9 DEF PruneReceipt
<1> QED
  BY <1>2, <1>3, <1>4, <1>5, <1>6, <1>7, <1>8, <1>9 DEF Next

\* The ledger stays that of its epoch, knows no less, and is not brought back to life.
KeepsLedger ==
    /\ ledger' = None <=> ledger = None
    /\ ledger # None => /\ ledger'.epoch = ledger.epoch
                        /\ ledger.known \subseteq ledger'.known
                        /\ ledger.ended => ledger'.ended

\* Only the turn of a caller replaces the ledger, and only a claim adds to it.
LEMMA LedgerEvolves ==
  ASSUME HostInv, [Next]_vars
  PROVE  /\ KeepsLedger \/ BeginCallerTurn
         /\ PersistClaim \/ BeginCallerTurn \/ Known' = Known
<1>0. ledger \in Ledger \cup {None} /\ None \notin Ledger
  <2>1. None \notin Ledger
    BY LifecycleAssumption DEF Ledger, Epochs
  <2> QED
    BY <2>1 DEF HostInv, TypeOK
<1>1. ASSUME UNCHANGED ledger PROVE KeepsLedger /\ Known' = Known
  BY <1>1 DEF KeepsLedger, Known
<1>2. ASSUME ledger' = IF ledger = None THEN None ELSE [ledger EXCEPT !.ended = TRUE]
      PROVE  KeepsLedger /\ Known' = Known
  <2>1. ledger # None => /\ [ledger EXCEPT !.ended = TRUE] \in Ledger
                         /\ ledger'.epoch = ledger.epoch /\ ledger'.known = ledger.known
                         /\ ledger'.ended
    BY <1>0, <1>2 DEF Ledger
  <2> QED
    BY <1>0, <1>2, <2>1 DEF KeepsLedger, Known
<1>3. CASE UNCHANGED vars
  BY <1>1, <1>3 DEF vars
<1>4. CASE SessionStart
  BY <1>1, <1>2, <1>4
     DEF SessionStart, BeginResume, ReadReceipt, EnumerateScope, MergeScope, ScanScope,
         PublishCompensation, CleanupIdentity, LockWorkspace, CompensateFenced, WriteRecord, StartFails
<1>5. CASE Child
  <2>1. CASE PersistClaim
    <3>1. CASE UNCHANGED ledger
      BY <1>1, <2>1, <3>1
    <3>2. CASE ledger # None /\ ledger' = [ledger EXCEPT !.known = @ \cup {child.workspace}]
      <4>1. /\ ledger' \in Ledger
        BY <1>0, <3>2 DEF Ledger, HostInv, TypeOK
      <4>2. /\ ledger'.epoch = ledger.epoch /\ ledger'.ended = ledger.ended
            /\ ledger'.known = ledger.known \cup {child.workspace}
        BY <1>0, <3>2 DEF Ledger
      <4> QED
        BY <1>0, <2>1, <3>2, <4>1, <4>2 DEF KeepsLedger
    <3> QED
      BY <2>1, <3>1, <3>2 DEF PersistClaim
  <2> QED
    BY <1>1, <1>5, <2>1 DEF Child, SubagentStart, FenceScan, FenceAnchor, FenceOwn, PersistReservation
<1>6. CASE Settling
  BY <1>1, <1>6 DEF Settling, Working, Discover, SettleObligation, RetainObligation, Discovered,
              SettlePass, HookKilled
<1>7. CASE SessionEnd
  <2>1. CASE EndIdentity
    BY <1>1, <1>2, <2>1 DEF EndIdentity
  <2> QED
    BY <1>1, <1>7, <2>1
       DEF SessionEnd, ResolveEpoch, PublishSessionEnd, EnumerateEnd, MergeHints, BeginFence,
           FenceObligation, CheckForeign, EndFence, ReleaseOwner, EndRelease, EndHookState
<1>8. CASE Prompt
  BY <1>1, <1>8 DEF Prompt, BeginPrompt, ListPending, NextReceipt, ReadLedger, PersistScope,
       PromptSettled, ReconciliationFails
<1>9. CASE HostExit \/ HostKilled \/ (\E e \in Epochs, w \in Workspaces : JobEnds(e, w))
           \/ \E e \in Epochs : PruneReceipt(e)
  BY <1>1, <1>9 DEF HostExit, HostKilled, JobEnds, PruneReceipt
<1> QED
  BY <1>3, <1>4, <1>5, <1>6, <1>7, <1>8, <1>9 DEF Next

\* The record moves with a start, or goes with the end of an epoch.
LEMMA RecordEvolves ==
  ASSUME HostInv, [Next]_vars
  PROVE  \/ UNCHANGED <<started, record>>
         \/ WriteRecord
         \/ EndHookState /\ record' = None /\ started' = started
<1>1. CASE UNCHANGED vars
  BY <1>1 DEF vars
<1>2. CASE SessionStart
  BY <1>2
     DEF SessionStart, BeginResume, ReadReceipt, EnumerateScope, MergeScope, ScanScope,
         PublishCompensation, CleanupIdentity, LockWorkspace, CompensateFenced, StartFails
<1>3. CASE Child
  BY <1>3 DEF Child, ChildOnly, SubagentStart, PersistClaim, FenceScan, FenceAnchor, FenceOwn,
              PersistReservation
<1>4. CASE Settling
  BY <1>4 DEF Settling, Working, Discover, SettleObligation, RetainObligation, Discovered, SettlePass,
              HookKilled, PassOnly
<1>5. CASE SessionEnd
  BY <1>5 DEF SessionEnd, ResolveEpoch, PublishSessionEnd, EnumerateEnd, MergeHints, BeginFence,
              FenceObligation, CheckForeign, EndFence, ReleaseOwner, EndRelease, EndIdentity,
              EndHookState, PassOnly
<1>6. CASE Prompt
  BY <1>6 DEF Prompt, BeginPrompt, ListPending, NextReceipt, ReadLedger, PersistScope, PromptSettled,
              ReconciliationFails, BeginCallerTurn, PassOnly
<1>7. CASE HostExit \/ HostKilled \/ (\E e \in Epochs, w \in Workspaces : JobEnds(e, w))
           \/ \E e \in Epochs : PruneReceipt(e)
  BY <1>7 DEF HostExit, HostKilled, JobEnds, PruneReceipt
<1> QED
  BY <1>1, <1>2, <1>3, <1>4, <1>5, <1>6, <1>7 DEF Next

-----------------------------------------------------------------------------
(* Who moves a hook, and where.                                            *)

\* What a hook becomes, and that the other stays.
LEMMA PassIs ==
  ASSUME HostInv, NEW h \in Hooks, NEW new, Becomes(h, new)
  PROVE  pass'[h] = new /\ \A g \in Hooks \ {h} : pass'[g] = pass[g]
BY DEF HostInv, TypeOK, Becomes

EndActs    == SessionEnd \/ Working("end") \/ HookKilled("end")
PromptActs == Prompt \/ Working("prompt") \/ HookKilled("prompt")

\* Which hook a step moves.
LEMMA HooksMove ==
  ASSUME HostInv, [Next]_vars
  PROVE  \/ UNCHANGED pass
         \/ HostExit /\ pass'["prompt"] = pass["prompt"] /\ pass'["end"].step = "resolve"
         \/ HostKilled /\ pass'["end"] = pass["end"] /\ pass'["prompt"] \in {pass["prompt"], IdlePass}
         \/ EndActs /\ pass'["prompt"] = pass["prompt"] /\ PassOnly
         \/ PromptActs /\ pass'["end"] = pass["end"] /\ PassOnly
<1>0. pass["end"] \in Pass /\ pass["prompt"] \in Pass /\ "end" \in Hooks /\ "prompt" \in Hooks
      /\ pass \in [Hooks -> Pass] /\ "end" # "prompt"
  BY DEF HostInv, TypeOK, Hooks
<1>1. CASE UNCHANGED vars
  BY <1>1 DEF vars
<1>2. CASE SessionStart
  BY <1>2 DEF SessionStart, BeginResume, ReadReceipt, EnumerateScope, MergeScope, ScanScope,
       PublishCompensation, CleanupIdentity, LockWorkspace, CompensateFenced, WriteRecord, StartFails,
       StartOnly
<1>3. CASE Child
  BY <1>3 DEF Child, ChildOnly, SubagentStart, PersistClaim, FenceScan, FenceAnchor, FenceOwn,
              PersistReservation
<1>4. ASSUME NEW h \in Hooks, Working(h) \/ HookKilled(h)
      PROVE  PassOnly /\ \A g \in Hooks \ {h} : pass'[g] = pass[g]
  BY <1>0, <1>4 DEF Working, Discover, SettleObligation, RetainObligation, Discovered,
              SettlePass, HookKilled, Becomes, Goes, Leaves
<1>5. CASE SessionEnd
  <2>1. ASSUME NEW w \in Workspaces, FenceObligation(w)
        PROVE  PassOnly /\ pass'["prompt"] = pass["prompt"]
    BY <1>0, <2>1 DEF FenceObligation, Becomes
  <2>2. PassOnly /\ pass'["prompt"] = pass["prompt"]
    BY <1>0, <1>5, <2>1
       DEF SessionEnd, ResolveEpoch, PublishSessionEnd, EnumerateEnd, MergeHints, BeginFence,
           CheckForeign, EndFence, ReleaseOwner, EndRelease, EndIdentity,
           EndHookState, Becomes, Goes, Leaves
  <2> QED
    BY <1>5, <2>2 DEF EndActs
<1>6. CASE Prompt
  <2>1. PassOnly /\ pass'["end"] = pass["end"]
    BY <1>0, <1>6 DEF Prompt, BeginPrompt, ListPending, NextReceipt, ReadLedger, PersistScope,
         PromptSettled, ReconciliationFails, BeginCallerTurn, Becomes, Goes, Leaves
  <2> QED
    BY <1>6, <2>1 DEF PromptActs
<1>7. CASE HostExit
  <2>1. [pass["end"] EXCEPT !.step = "resolve"].step = "resolve"
    BY <1>0 DEF Pass
  <2> QED
    BY <1>0, <1>7, <2>1 DEF HostExit
<1>8. CASE HostKilled
  BY <1>0, <1>8 DEF HostKilled
<1>9. CASE (\E e \in Epochs, w \in Workspaces : JobEnds(e, w)) \/ \E e \in Epochs : PruneReceipt(e)
  BY <1>9 DEF JobEnds, PruneReceipt
<1>10. CASE Settling
  <2>1. PICK h \in Hooks : Working(h) \/ HookKilled(h)
    BY <1>10 DEF Settling
  <2> QED
    BY <1>0, <1>4, <2>1 DEF EndActs, PromptActs, Hooks
<1> QED
  BY <1>1, <1>2, <1>3, <1>5, <1>6, <1>7, <1>8, <1>9, <1>10 DEF Next


\* What the host process takes with it.
LEMMA HooksMoveOut ==
  ASSUME HostInv, ~ Overlaps
  PROVE  /\ HostExit => /\ pass'["prompt"] = pass["prompt"] /\ pass["prompt"].step = "idle"
                        /\ pass'["end"].step = "resolve"
         /\ HostKilled => pass'["prompt"] = IdlePass /\ pass'["end"] = pass["end"]
<1>0. pass["end"] \in Pass /\ "end" \in Hooks /\ "prompt" \in Hooks
      /\ pass \in [Hooks -> Pass] /\ "end" # "prompt"
  BY DEF HostInv, TypeOK, Hooks
<1>1. [pass["end"] EXCEPT !.step = "resolve"].step = "resolve"
  BY <1>0 DEF Pass
<1> QED
  BY <1>0, <1>1 DEF HostExit, HostKilled, At
-----------------------------------------------------------------------------
(* The moves of a hook, field by field.                                    *)

Onward(p, q) == q.epoch = p.epoch /\ q.turn = p.turn /\ q.todo = p.todo /\ q.seen = p.seen
Proved(p, q) == q.token = p.token /\ q.scope = p.scope
Still        == PassOnly /\ UNCHANGED <<record, ledger, receipts, open>>

\* The hooks and their states.
LEMMA PassTypes ==
  ASSUME HostInv
  PROVE  /\ "end" \in Hooks /\ "prompt" \in Hooks /\ "end" # "prompt"
         /\ pass \in [Hooks -> Pass] /\ pass["end"] \in Pass /\ pass["prompt"] \in Pass
BY DEF HostInv, TypeOK, Hooks

\* The steps that both hooks share.
LEMMA SettlingMoves ==
  ASSUME HostInv, NEW h \in Hooks, Working(h) \/ HookKilled(h)
  PROVE  LET p == pass[h]
             q == pass'[h]
         IN  /\ PassOnly /\ UNCHANGED <<record, ledger>>
             /\ \/ \E w \in Workspaces :
                      /\ Still /\ Onward(p, q) /\ Proved(p, q)
                      /\ p.step = "discover" /\ q.step = "discover" /\ w \in p.left /\ ~ JobLocked(w)
                      /\ q.clean = p.clean /\ q.left = p.left \ {w}
                      /\ q.found = IF <<p.epoch, w>> \in open THEN p.found \cup {w} ELSE p.found
                \/ /\ Still /\ Onward(p, q) /\ Proved(p, q)
                   /\ p.step = "discover" /\ q.step = "settle" /\ p.left = {} /\ q.left = {}
                   /\ q.clean = p.clean /\ q.found = p.found
                \/ \E w \in Workspaces :
                      /\ open' \subseteq open /\ UNCHANGED receipts /\ Onward(p, q) /\ Proved(p, q)
                      /\ p.step = "settle" /\ q.step = "settle" /\ q.found = p.found \ {w}
                      /\ \/ open' = open \ {<<p.epoch, w>>} /\ q.clean = p.clean
                         \/ open' = open /\ (q.clean <=> p.clean /\ <<p.epoch, w>> \notin open)
                \/ /\ SettlePass(h) /\ UNCHANGED open /\ Onward(p, q) /\ Proved(p, q)
                   /\ p.step = "receipt" /\ q.step = IF h = "end" THEN "identity" ELSE "next"
                \/ Still /\ q = IdlePass
<1> DEFINE p == pass[h]
           q == pass'[h]
<1>0. p \in Pass
  BY DEF HostInv, TypeOK
<1>1. ASSUME NEW w \in Workspaces, Discover(h, w)
      PROVE  /\ Still /\ Onward(p, q) /\ Proved(p, q)
             /\ p.step = "discover" /\ q.step = "discover" /\ w \in p.left /\ ~ JobLocked(w)
             /\ q.clean = p.clean /\ q.left = p.left \ {w}
             /\ q.found = IF <<p.epoch, w>> \in open THEN p.found \cup {w} ELSE p.found
  <2> DEFINE f == IF <<p.epoch, w>> \in open THEN p.found \cup {w} ELSE p.found
  <2>1. /\ q = [p EXCEPT !.left = @ \ {w}, !.found = f]
        /\ Still /\ p.step = "discover" /\ w \in p.left /\ ~ JobLocked(w)
    BY <1>1, PassIs DEF Discover, Still, At
  <2> HIDE DEF f
  <2>2. /\ Onward(p, q) /\ Proved(p, q) /\ q.step = p.step /\ q.clean = p.clean
        /\ q.left = p.left \ {w} /\ q.found = f
    BY <1>0, <2>1 DEF Pass, Onward, Proved
  <2> QED
    BY <2>1, <2>2 DEF f
<1>2. ASSUME Discovered(h)
      PROVE  /\ Still /\ Onward(p, q) /\ Proved(p, q)
             /\ p.step = "discover" /\ q.step = "settle" /\ p.left = {} /\ q.left = {}
             /\ q.clean = p.clean /\ q.found = p.found
  <2>1. q = [p EXCEPT !.step = "settle"] /\ Still /\ p.step = "discover" /\ p.left = {}
    BY <1>2, PassIs DEF Discovered, Still, At, Goes
  <2> QED
    BY <1>0, <2>1 DEF Pass, Onward, Proved
<1>3. ASSUME NEW w \in Workspaces, SettleObligation(h, w)
      PROVE  /\ UNCHANGED <<record, ledger, receipts>> /\ PassOnly /\ Onward(p, q) /\ Proved(p, q)
             /\ p.step = "settle" /\ q.step = "settle" /\ q.found = p.found \ {w}
             /\ open' = open \ {<<p.epoch, w>>} /\ q.clean = p.clean
  <2>1. /\ q = [p EXCEPT !.found = @ \ {w}] /\ UNCHANGED <<record, ledger, receipts>> /\ PassOnly
        /\ p.step = "settle" /\ open' = open \ {<<p.epoch, w>>}
    BY <1>3, PassIs DEF SettleObligation, At
  <2> QED
    BY <1>0, <2>1 DEF Pass, Onward, Proved
<1>4. ASSUME NEW w \in Workspaces, RetainObligation(h, w)
      PROVE  /\ Still /\ Onward(p, q) /\ Proved(p, q)
             /\ p.step = "settle" /\ q.step = "settle" /\ q.found = p.found \ {w}
             /\ q.clean <=> p.clean /\ <<p.epoch, w>> \notin open
  <2> DEFINE c == p.clean /\ <<p.epoch, w>> \notin open
  <2>1. /\ q = [p EXCEPT !.found = @ \ {w}, !.clean = c, !.unsafe = @ \cup {w}]
        /\ Still /\ p.step = "settle"
    BY <1>4, PassIs DEF RetainObligation, Still, At
  <2> HIDE DEF c
  <2>2. /\ Onward(p, q) /\ Proved(p, q) /\ q.step = p.step /\ q.clean = c
        /\ q.found = p.found \ {w}
    BY <1>0, <2>1 DEF Pass, Onward, Proved
  <2> QED
    BY <2>1, <2>2 DEF c
<1>5. ASSUME SettlePass(h)
      PROVE  /\ PassOnly /\ UNCHANGED <<record, ledger, open>> /\ Onward(p, q) /\ Proved(p, q)
             /\ p.step = "receipt" /\ q.step = IF h = "end" THEN "identity" ELSE "next"
  <2>1. /\ q = [p EXCEPT !.step = AfterReceipt(h)] /\ PassOnly /\ UNCHANGED <<record, ledger, open>>
        /\ p.step = "receipt"
    BY <1>5, PassIs DEF SettlePass, At, Goes
  <2> QED
    BY <1>0, <2>1 DEF Pass, Onward, Proved, AfterReceipt
<1>6. ASSUME HookKilled(h)
      PROVE  Still /\ q = IdlePass
  BY <1>6, PassIs DEF HookKilled, Leaves, Still
<1>7. ASSUME Still PROVE PassOnly /\ UNCHANGED <<record, ledger, receipts, open>>
  BY <1>7 DEF Still
<1> HIDE DEF p, q
<1>8. CASE \E w \in Workspaces : Discover(h, w)
  BY <1>1, <1>7, <1>8 DEF p, q
<1>9. CASE \E w \in Workspaces : SettleObligation(h, w)
  BY <1>3, <1>9 DEF p, q
<1>10. CASE \E w \in Workspaces : RetainObligation(h, w)
  BY <1>4, <1>7, <1>10 DEF p, q
<1>11. CASE Discovered(h)
  BY <1>2, <1>7, <1>11 DEF p, q
<1>12. CASE SettlePass(h)
  BY <1>5, <1>12 DEF p, q
<1>13. CASE HookKilled(h)
  BY <1>6, <1>7, <1>13 DEF p, q
<1> QED
  BY <1>8, <1>9, <1>10, <1>11, <1>12, <1>13 DEF Working

\* The SessionEnd hook goes through its scope with what it knows of it.
Walks(p, q) ==
    /\ open' \subseteq open /\ UNCHANGED <<record, ledger, receipts>>
    /\ q.epoch = p.epoch /\ q.scope = p.scope /\ q.found = p.found /\ (q.clean => p.clean)
    /\ p.step \in {"settle", "fence", "release", "releasing"}
    /\ q.step \in {"fence", "release", "releasing", "receipt"}
    /\ p.step = "settle" => p.found = {}

\* The steps of the SessionEnd hook.
LEMMA EndMoves ==
  ASSUME HostInv, SessionEnd
  PROVE  LET p == pass["end"]
             q == pass'["end"]
         IN  /\ PassOnly
             /\ \/ /\ Still /\ p.step = "resolve" /\ (~ Overlaps => pass["prompt"].turn # record)
                   /\ q = IdlePass \/ (record # None /\ q.step = "publish" /\ q.epoch = record)
                \/ /\ UNCHANGED <<record, ledger, open>> /\ p.step = "publish"
                   /\ Publish(p.epoch, {Origin}, started)
                   /\ q = IdlePass \/ (q.step = "enumerate" /\ q.epoch = p.epoch)
                \/ /\ Still /\ p.step = "enumerate" /\ q.epoch = p.epoch
                   /\ \/ /\ ledger # None => ledger.epoch = p.epoch
                         /\ q.step = "merge" /\ q.scope = Known
                      \/ q.step = "discover" /\ ~ q.clean /\ q.left = q.scope
                \/ /\ UNCHANGED <<record, ledger, open>> /\ p.step = "merge" /\ q.step = "discover"
                   /\ Publish(p.epoch, p.scope, p.endedAt) \/ UNCHANGED receipts
                   /\ q.epoch = p.epoch /\ q.scope = p.scope /\ q.left = p.scope /\ q.clean = p.clean
                \/ Walks(p, q)
                \/ /\ UNCHANGED <<record, receipts, open>> /\ p.step = "identity"
                   /\ \/ q = IdlePass /\ UNCHANGED ledger
                      \/ /\ q.step = "hooks" /\ q.epoch = p.epoch
                         /\ ledger' = IF ledger = None THEN None ELSE [ledger EXCEPT !.ended = TRUE]
                \/ EndHookState /\ p.step = "hooks" /\ q = IdlePass
<1> USE PassTypes
<1> DEFINE p == pass["end"]
           q == pass'["end"]
<1>0. ASSUME Still PROVE PassOnly /\ UNCHANGED <<record, ledger, receipts, open>>
  BY <1>0 DEF Still
<1>1. ASSUME ResolveEpoch
      PROVE  /\ Still /\ p.step = "resolve" /\ (~ Overlaps => pass["prompt"].turn # record)
             /\ q = IdlePass \/ (record # None /\ q.step = "publish" /\ q.epoch = record)
  <2>1. /\ Still /\ p.step = "resolve" /\ (~ Overlaps => pass["prompt"].turn # record)
        /\ \/ q = IdlePass
           \/ record # None /\ q = [p EXCEPT !.step = "publish", !.epoch = record]
    BY <1>1, PassIs DEF ResolveEpoch, Still, At, Leaves
  <2> QED
    BY <2>1 DEF Pass
<1>2. ASSUME PublishSessionEnd
      PROVE  /\ PassOnly /\ UNCHANGED <<record, ledger, open>> /\ p.step = "publish"
             /\ Publish(p.epoch, {Origin}, started)
             /\ q = IdlePass \/ (q.step = "enumerate" /\ q.epoch = p.epoch)
  <2> DEFINE r == Published(p.epoch, {Origin}, started)
  <2>1. /\ PassOnly /\ UNCHANGED <<record, ledger, open>> /\ p.step = "publish"
        /\ Publish(p.epoch, {Origin}, started)
        /\ \/ q = IdlePass
           \/ q = [p EXCEPT !.step = "enumerate", !.token = r.token, !.endedAt = r.endedAt]
    BY <1>2, PassIs DEF PublishSessionEnd, At, Leaves
  <2> HIDE DEF r
  <2> QED
    BY <2>1 DEF Pass
<1>3. ASSUME EnumerateEnd
      PROVE  /\ Still /\ p.step = "enumerate" /\ q.epoch = p.epoch
             /\ \/ /\ ledger # None => ledger.epoch = p.epoch
                   /\ q.step = "merge" /\ q.scope = Known
                \/ q.step = "discover" /\ ~ q.clean /\ q.left = q.scope
  <2> DEFINE d == [p EXCEPT !.step = "discover", !.scope = {Origin}, !.left = {Origin}]
             n == [d EXCEPT !.clean = FALSE, !.complete = FALSE, !.unsafe = {Origin}]
  <2>1. /\ Still /\ p.step = "enumerate"
        /\ \/ /\ ledger # None => ledger.epoch = p.epoch
              /\ q = [p EXCEPT !.step = "merge", !.scope = Known]
           \/ q = n
    BY <1>3, PassIs DEF EnumerateEnd, Still, At, Discovering
  <2>2. /\ n.step = "discover" /\ ~ n.clean /\ n.left = n.scope /\ n.epoch = p.epoch
    BY DEF Pass
  <2> HIDE DEF n
  <2> QED
    BY <2>1, <2>2 DEF Pass
<1>4. ASSUME MergeHints
      PROVE  /\ PassOnly /\ UNCHANGED <<record, ledger, open>>
             /\ p.step = "merge" /\ q.step = "discover"
             /\ Publish(p.epoch, p.scope, p.endedAt) \/ UNCHANGED receipts
             /\ q.epoch = p.epoch /\ q.scope = p.scope /\ q.left = p.scope /\ q.clean = p.clean
  <2> DEFINE r == Published(p.epoch, p.scope, p.endedAt)
             d == [p EXCEPT !.step = "discover", !.scope = p.scope, !.left = p.scope]
             n == [d EXCEPT !.token = r.token]
             m == [d EXCEPT !.complete = FALSE]
  <2>1. /\ PassOnly /\ UNCHANGED <<record, ledger, open>> /\ p.step = "merge"
        /\ Publish(p.epoch, p.scope, p.endedAt) \/ UNCHANGED receipts
        /\ q = n \/ q = m
    BY <1>4, PassIs DEF MergeHints, At, Discovering
  <2> HIDE DEF r
  <2>2. \A k \in {n, m} : /\ k.step = "discover" /\ k.epoch = p.epoch /\ k.scope = p.scope
                          /\ k.left = p.scope /\ k.clean = p.clean
    BY DEF Pass
  <2> HIDE DEF n, m
  <2> QED
    BY <2>1, <2>2
<1>5. ASSUME BeginFence \/ EndFence \/ EndRelease \/ \E w \in Workspaces : CheckForeign(w)
      PROVE  PassOnly /\ Walks(p, q)
  <2>1. CASE BeginFence
    <3>1. /\ PassOnly /\ UNCHANGED <<record, ledger, receipts, open>>
          /\ p.step = "settle" /\ p.found = {}
          /\ \/ q = [p EXCEPT !.step = "fence", !.left = p.scope]
             \/ q = [p EXCEPT !.step = "release", !.left = {}]
      BY <2>1, PassIs DEF BeginFence, At
    <3> QED
      BY <3>1 DEF Pass, Walks
  <2>2. CASE EndFence \/ EndRelease
    <3>1. /\ PassOnly /\ UNCHANGED <<record, ledger, receipts, open>>
          /\ p.step \in {"fence", "release"}
          /\ q = [p EXCEPT !.step = "release"] \/ q = [p EXCEPT !.step = "receipt"]
      BY <2>2, PassIs DEF EndFence, EndRelease, Goes, At
    <3> QED
      BY <3>1 DEF Pass, Walks
  <2>3. ASSUME NEW w \in Workspaces, CheckForeign(w) PROVE PassOnly /\ Walks(p, q)
    <3>1. /\ PassOnly /\ UNCHANGED <<record, ledger, receipts, open>> /\ p.step = "release"
          /\ \/ q = [p EXCEPT !.unsafe = @ \cup {w}]
             \/ q = [p EXCEPT !.step = "releasing", !.left = {w}]
      BY <2>3, PassIs DEF CheckForeign, At
    <3> QED
      BY <3>1 DEF Pass, Walks
  <2> QED
    BY <1>5, <2>1, <2>2, <2>3
<1>6. ASSUME NEW w \in Workspaces, FenceObligation(w) PROVE PassOnly /\ Walks(p, q)
  <2>1. PICK discharged \in BOOLEAN :
          LET kept == IF discharged THEN {} ELSE {<<p.epoch, w>>} \cap open
          IN  /\ open' = (open \ {<<p.epoch, w>>}) \cup kept
              /\ Becomes("end", [p EXCEPT !.left = @ \ {w}, !.clean = @ /\ kept = {},
                                    !.unsafe = IF kept = {} THEN @ ELSE @ \cup {w}])
    BY <1>6 DEF FenceObligation
  <2> DEFINE kept == IF discharged THEN {} ELSE {<<p.epoch, w>>} \cap open
             c == p.clean /\ kept = {}
             u == IF kept = {} THEN p.unsafe ELSE p.unsafe \cup {w}
  <2>2. Becomes("end", [p EXCEPT !.left = @ \ {w}, !.clean = c, !.unsafe = u])
    BY <2>1
  <2>3. /\ PassOnly /\ UNCHANGED <<record, ledger, receipts>> /\ p.step = "fence"
        /\ open' \subseteq open
    BY <1>6, <2>1 DEF FenceObligation, At
  <2>4. c => p.clean
    OBVIOUS
  <2> HIDE DEF kept, c, u
  <2>5. q = [p EXCEPT !.left = @ \ {w}, !.clean = c, !.unsafe = u]
    BY <2>2, PassIs
  <2> QED
    BY <2>3, <2>4, <2>5 DEF Pass, Walks
<1>7. ASSUME ReleaseOwner PROVE PassOnly /\ Walks(p, q)
  <2>1. /\ PassOnly /\ UNCHANGED <<record, ledger, receipts>> /\ p.step = "releasing"
        /\ open' \subseteq open
        /\ q = [p EXCEPT !.step = "release", !.left = {}, !.unsafe = @ \cup p.left]
    BY <1>7, PassIs DEF ReleaseOwner, At
  <2> QED
    BY <2>1 DEF Pass, Walks
<1>8. ASSUME EndIdentity
      PROVE  /\ PassOnly /\ UNCHANGED <<record, receipts, open>> /\ p.step = "identity"
             /\ \/ q = IdlePass /\ UNCHANGED ledger
                \/ /\ q.step = "hooks" /\ q.epoch = p.epoch
                   /\ ledger' = IF ledger = None THEN None ELSE [ledger EXCEPT !.ended = TRUE]
  <2>1. /\ PassOnly /\ UNCHANGED <<record, receipts, open>> /\ p.step = "identity"
        /\ \/ q = IdlePass /\ UNCHANGED ledger
           \/ /\ q = [p EXCEPT !.step = "hooks"]
              /\ ledger' = IF ledger = None THEN None ELSE [ledger EXCEPT !.ended = TRUE]
    BY <1>8, PassIs DEF EndIdentity, Leaves, Goes, At
  <2> QED
    BY <2>1 DEF Pass
<1>9. ASSUME EndHookState PROVE PassOnly /\ p.step = "hooks" /\ q = IdlePass
  BY <1>9, PassIs DEF EndHookState, Leaves, At
<1> HIDE DEF p, q
<1>10. CASE ResolveEpoch
  BY <1>0, <1>1, <1>10 DEF p, q
<1>11. CASE PublishSessionEnd
  BY <1>2, <1>11 DEF p, q
<1>12. CASE EnumerateEnd
  BY <1>0, <1>3, <1>12 DEF p, q
<1>13. CASE MergeHints
  BY <1>4, <1>13 DEF p, q
<1>14. CASE BeginFence \/ EndFence \/ EndRelease \/ ReleaseOwner
            \/ \E w \in Workspaces : CheckForeign(w) \/ FenceObligation(w)
  BY <1>5, <1>6, <1>7, <1>14 DEF p, q
<1>15. CASE EndIdentity
  BY <1>8, <1>15 DEF p, q
<1>16. CASE EndHookState
  BY <1>9, <1>16 DEF p, q
<1> QED
  BY <1>10, <1>11, <1>12, <1>13, <1>14, <1>15, <1>16 DEF SessionEnd

\* The prompt goes on with its turn after a reconciliation that failed.
GivesUp(p, q) ==
    /\ Still /\ Fault /\ p.step \in {"list", "next", "discover", "settle"} /\ q.step = "begin"
    /\ Onward(p, q)

\* The steps of the prompt hook.
LEMMA PromptMoves ==
  ASSUME HostInv, Prompt
  PROVE  LET p == pass["prompt"]
             q == pass'["prompt"]
             hinted == {Origin} \cup p.seen[p.epoch].hints
         IN  /\ PassOnly
             /\ \/ /\ Still /\ p.step = "idle" /\ q.step = "list" /\ q.turn = record /\ q.todo = {}
                   /\ live /\ record # None /\ (~ Overlaps => pass["end"].epoch # record)
                \/ /\ Still /\ p.step = "list" /\ q.step = "next" /\ q.turn = p.turn
                   /\ q.todo = {e \in Epochs \ {p.turn} : Pending(e)}
                   /\ \A e \in q.todo : q.seen[e] = receipts[e]
                \/ /\ Still /\ p.step = "next" /\ q.turn = p.turn /\ q.seen = p.seen
                   /\ \/ \E e \in p.todo : /\ q.step = "ledger" /\ q.epoch = e
                                           /\ q.token = p.seen[e].token /\ q.todo = p.todo \ {e}
                      \/ q.step = "begin" /\ p.todo = {} /\ q.todo = {}
                \/ /\ Still /\ p.step = "ledger"
                   /\ \/ /\ ledger # None /\ ledger.epoch = p.epoch /\ Onward(p, q)
                         /\ q.step = "merge" /\ q.scope = hinted \cup ledger.known
                      \/ /\ ledger # None => ledger.epoch # p.epoch
                         /\ Onward(p, q) /\ q.step = "discover" /\ q.scope = hinted
                         /\ q.left = hinted /\ q.token = p.token
                      \/ q = IdlePass
                \/ /\ UNCHANGED <<record, ledger, open>> /\ p.step = "merge"
                   /\ \/ /\ Publish(p.epoch, p.scope, p.endedAt)
                         /\ Onward(p, q) /\ q.step = "discover" /\ q.scope = p.scope /\ q.left = p.scope
                         /\ q.token = Published(p.epoch, p.scope, p.endedAt).token
                      \/ q = IdlePass
                \/ /\ Still /\ p.step = "settle" /\ q.step = "receipt" /\ p.found = {} /\ q.found = {}
                   /\ Onward(p, q) /\ Proved(p, q) /\ q.clean = p.clean
                \/ GivesUp(p, q)
                \/ /\ BeginCallerTurn /\ p.step = "begin" /\ q = IdlePass
                   /\ UNCHANGED <<record, receipts, open>>
<1> USE PassTypes, LifecycleAssumption
<1> DEFINE p == pass["prompt"]
           q == pass'["prompt"]
           hinted == {Origin} \cup p.seen[p.epoch].hints
<1>0. ASSUME Still PROVE PassOnly /\ UNCHANGED <<record, ledger, receipts, open>>
  BY <1>0 DEF Still
<1>1. ASSUME BeginPrompt
      PROVE  /\ Still /\ p.step = "idle" /\ q.step = "list" /\ q.turn = record /\ q.todo = {}
             /\ live /\ record # None /\ (~ Overlaps => pass["end"].epoch # record)
  <2>1. /\ Still /\ p.step = "idle" /\ live /\ record # None
        /\ (~ Overlaps => pass["end"].epoch # record)
        /\ q = [IdlePass EXCEPT !.step = "list", !.turn = record]
    BY <1>1, PassIs DEF BeginPrompt, Still, At
  <2> QED
    BY <2>1 DEF IdlePass
<1>2. ASSUME ListPending
      PROVE  \/ /\ Still /\ p.step = "list" /\ q.step = "next" /\ q.turn = p.turn
                /\ q.todo = {e \in Epochs \ {p.turn} : Pending(e)}
                /\ \A e \in q.todo : q.seen[e] = receipts[e]
             \/ GivesUp(p, q)
  <2> DEFINE prior == {e \in Epochs \ {p.turn} : Pending(e)}
             seen == [e \in Epochs |-> IF e \in prior THEN receipts[e] ELSE Nothing]
  <2>1. /\ Still /\ p.step = "list"
        /\ \/ q = [p EXCEPT !.step = "next", !.todo = prior, !.seen = seen]
           \/ Fault /\ q = [p EXCEPT !.step = "begin"]
    BY <1>2, PassIs DEF ListPending, Still, At, Goes
  <2>2. \A e \in prior : seen[e] = receipts[e]
    OBVIOUS
  <2> HIDE DEF prior, seen
  <2>3. CASE q = [p EXCEPT !.step = "next", !.todo = prior, !.seen = seen]
    <3>1. q.step = "next" /\ q.turn = p.turn /\ q.todo = prior /\ q.seen = seen
      BY <2>3 DEF Pass
    <3> QED
      BY <2>1, <2>2, <3>1 DEF prior
  <2>4. CASE Fault /\ q = [p EXCEPT !.step = "begin"]
    <3>1. q.step = "begin" /\ Onward(p, q)
      BY <2>4 DEF Pass, Onward
    <3> QED
      BY <2>1, <2>4, <3>1 DEF GivesUp
  <2> QED
    BY <2>1, <2>3, <2>4
<1>3. ASSUME NextReceipt
      PROVE  /\ Still /\ p.step = "next" /\ q.turn = p.turn /\ q.seen = p.seen
             /\ \/ \E e \in p.todo : /\ q.step = "ledger" /\ q.epoch = e
                                     /\ q.token = p.seen[e].token /\ q.todo = p.todo \ {e}
                \/ q.step = "begin" /\ p.todo = {} /\ q.todo = {}
  <2>1. Still /\ p.step = "next"
    BY <1>3 DEF NextReceipt, Still, At
  <2>2. ASSUME NEW e \in p.todo,
               Becomes("prompt", [p EXCEPT !.step = "ledger", !.epoch = e, !.clean = TRUE,
                                   !.token = p.seen[e].token, !.endedAt = p.seen[e].endedAt,
                                   !.todo = @ \ {e}, !.unsafe = {}])
        PROVE  /\ q.turn = p.turn /\ q.seen = p.seen
               /\ q.step = "ledger" /\ q.epoch = e
               /\ q.token = p.seen[e].token /\ q.todo = p.todo \ {e}
    <3> DEFINE t == p.seen[e].token
               d == p.seen[e].endedAt
    <3>1. q = [p EXCEPT !.step = "ledger", !.epoch = e, !.clean = TRUE, !.token = t, !.endedAt = d,
                        !.todo = @ \ {e}, !.unsafe = {}]
      BY <2>2, PassIs
    <3> HIDE DEF t, d
    <3>2. /\ q.turn = p.turn /\ q.seen = p.seen /\ q.step = "ledger" /\ q.epoch = e
          /\ q.token = t /\ q.todo = p.todo \ {e}
      BY <3>1 DEF Pass
    <3> QED
      BY <3>2 DEF t
  <2>3. ASSUME p.todo = {}, Goes("prompt", "begin")
        PROVE  q.turn = p.turn /\ q.seen = p.seen /\ q.step = "begin" /\ q.todo = {}
    <3>1. q = [p EXCEPT !.step = "begin"]
      BY <2>3, PassIs DEF Goes
    <3> QED
      BY <2>3, <3>1 DEF Pass
  <2> QED
    BY <1>3, <2>1, <2>2, <2>3 DEF NextReceipt
<1>4. ASSUME ReadLedger
      PROVE  /\ Still /\ p.step = "ledger"
             /\ \/ /\ ledger # None /\ ledger.epoch = p.epoch /\ Onward(p, q)
                   /\ q.step = "merge" /\ q.scope = hinted \cup ledger.known
                \/ /\ ledger # None => ledger.epoch # p.epoch
                   /\ Onward(p, q) /\ q.step = "discover" /\ q.scope = hinted
                   /\ q.left = hinted /\ q.token = p.token
                \/ q = IdlePass
  <2> DEFINE n == [p EXCEPT !.step = "merge", !.scope = hinted \cup ledger.known]
             m == [p EXCEPT !.step = "discover", !.scope = hinted, !.left = hinted]
  <2>1. /\ Still /\ p.step = "ledger"
        /\ \/ ledger # None /\ ledger.epoch = p.epoch /\ q = n
           \/ (ledger # None => ledger.epoch # p.epoch) /\ q = m
           \/ q = IdlePass
    BY <1>4, PassIs DEF ReadLedger, Still, At, Leaves, Discovering
  <2> HIDE DEF hinted
  <2>2. Onward(p, n) /\ n.step = "merge" /\ n.scope = hinted \cup ledger.known
    BY DEF Pass, Onward
  <2>3. Onward(p, m) /\ m.step = "discover" /\ m.scope = hinted /\ m.left = hinted /\ m.token = p.token
    BY DEF Pass, Onward
  <2> HIDE DEF n, m
  <2> QED
    BY <2>1, <2>2, <2>3
<1>5. ASSUME PersistScope
      PROVE  /\ PassOnly /\ UNCHANGED <<record, ledger, open>> /\ p.step = "merge"
             /\ \/ /\ Publish(p.epoch, p.scope, p.endedAt)
                   /\ Onward(p, q) /\ q.step = "discover" /\ q.scope = p.scope /\ q.left = p.scope
                   /\ q.token = Published(p.epoch, p.scope, p.endedAt).token
                \/ q = IdlePass
  <2> DEFINE t == Published(p.epoch, p.scope, p.endedAt).token
             d == [p EXCEPT !.step = "discover", !.scope = p.scope, !.left = p.scope]
             n == [d EXCEPT !.token = t]
  <2>1. /\ PassOnly /\ UNCHANGED <<record, ledger, open>> /\ p.step = "merge"
        /\ \/ Publish(p.epoch, p.scope, p.endedAt) /\ q = n
           \/ q = IdlePass
    BY <1>5, PassIs DEF PersistScope, At, Leaves, Discovering
  <2> HIDE DEF t
  <2>2. Onward(p, n) /\ n.step = "discover" /\ n.scope = p.scope /\ n.left = p.scope /\ n.token = t
    BY DEF Pass, Onward
  <2> HIDE DEF n
  <2> QED
    BY <2>1, <2>2 DEF t
<1>6. ASSUME PromptSettled
      PROVE  /\ Still /\ p.step = "settle" /\ q.step = "receipt" /\ p.found = {} /\ q.found = {}
             /\ Onward(p, q) /\ Proved(p, q) /\ q.clean = p.clean
  <2>1. Still /\ p.step = "settle" /\ p.found = {} /\ q = [p EXCEPT !.step = "receipt"]
    BY <1>6, PassIs DEF PromptSettled, Still, At, Goes
  <2> QED
    BY <2>1 DEF Pass, Onward, Proved
<1>7. ASSUME BeginCallerTurn
      PROVE  PassOnly /\ p.step = "begin" /\ q = IdlePass /\ UNCHANGED <<record, receipts, open>>
  BY <1>7, PassIs DEF BeginCallerTurn, At, Leaves
<1>15. ASSUME ReconciliationFails
       PROVE  GivesUp(p, q)
  <2>1. Still /\ Fault /\ p.step \in {"next", "discover", "settle"} /\ q = [p EXCEPT !.step = "begin"]
    BY <1>15, PassIs DEF ReconciliationFails, Still, Goes
  <2>2. q.step = "begin" /\ Onward(p, q)
    BY <2>1 DEF Pass, Onward
  <2> QED
    BY <2>1, <2>2 DEF GivesUp
<1>16. ASSUME GivesUp(p, q) PROVE PassOnly
  BY <1>16 DEF GivesUp, Still
<1> HIDE DEF p, q
<1>8. CASE BeginPrompt
  BY <1>0, <1>1, <1>8 DEF p, q
<1>9. CASE ListPending
  BY <1>0, <1>2, <1>9, <1>16 DEF p, q
<1>10. CASE NextReceipt
  BY <1>0, <1>3, <1>10 DEF p, q
<1>17. CASE ReconciliationFails
  BY <1>15, <1>16, <1>17 DEF p, q
<1>11. CASE ReadLedger
  BY <1>0, <1>4, <1>11 DEF p, q
<1>12. CASE PersistScope
  BY <1>5, <1>12 DEF p, q
<1>13. CASE PromptSettled
  BY <1>0, <1>6, <1>13 DEF p, q
<1>14. CASE BeginCallerTurn
  BY <1>7, <1>14 DEF p, q
<1> QED
  BY <1>8, <1>9, <1>10, <1>11, <1>12, <1>13, <1>14, <1>17 DEF Prompt

\* The resume goes on with what it has.
Carries(s, t) ==
    /\ t.second = s.second /\ t.scope = s.scope /\ t.fence = s.fence /\ t.fenced = s.fenced
    /\ t.held = s.held

StartStill == UNCHANGED <<live, started, record, ledger, receipts>>

\* The steps of the SessionStart hook.
LEMMA ResumeMoves ==
  ASSUME HostInv, SessionStart
  PROVE  LET s == start
             t == start'
         IN  /\ UNCHANGED <<open, child, pass>>
             /\ \/ /\ StartStill /\ Carries(s, t) /\ s.step = "idle" /\ ~ live
                   /\ t.step = IF record = None THEN "write" ELSE "compensate"
                \/ /\ StartStill /\ Carries(s, t) /\ s.step = "compensate"
                   /\ t.step = "enumerate" \/ (Receipted(record) /\ t.step = Compensated)
                \/ /\ StartStill /\ s.step = "enumerate"
                   /\ \/ Receipted(record) /\ Carries(s, t) /\ t.step = Compensated
                      \/ /\ t.step \in {"scan", "merge"} /\ t.scope = Known
                         /\ t.second = s.second /\ t.fence = s.fence /\ t.fenced = s.fenced
                         /\ t.held = s.held
                \/ /\ UNCHANGED <<live, started, record, ledger>> /\ Carries(s, t)
                   /\ s.step \in {"merge", "publish"} /\ t.step = Compensated
                   /\ Publish(record, s.scope, started)
                \/ /\ StartStill /\ s.step = "scan" /\ t.second = s.second /\ t.scope = s.scope
                   /\ t.held = s.held
                   /\ IF s.second THEN t.fence = s.fence /\ t.fenced = s.fenced
                                  ELSE t.fence = s.scope /\ t.fenced
                   /\ \/ t.step = "publish"
                      \/ t.step = Compensated /\ \A w \in s.scope : <<record, w>> \notin open
                \/ /\ UNCHANGED <<live, started, record, receipts>> /\ Carries(s, t)
                   /\ ledger' = IF ledger = None THEN None ELSE [ledger EXCEPT !.ended = TRUE]
                   /\ s.step = "cleanup" /\ t.step = IF s.fenced THEN "lock" ELSE "write"
                \/ \E w \in Workspaces :
                      /\ StartStill /\ s.step = "lock" /\ t.step = "lock" /\ ~ JobLocked(w)
                      /\ t.held = s.held \cup {w} /\ t.second = s.second /\ t.scope = s.scope
                      /\ t.fence = s.fence /\ t.fenced = s.fenced
                \/ /\ StartStill /\ s.step = "lock" /\ t.step = "compensate" /\ t.second
                   /\ s.held = s.fence /\ t.scope = s.scope /\ t.fence = s.fence /\ t.fenced = s.fenced
                   /\ t.held = s.held
                \/ WriteRecord /\ s.step = "write" /\ t = IdleStart /\ live'
                   /\ UNCHANGED <<ledger, receipts>>
                \/ /\ StartFails /\ s.step # "idle" /\ t = IdleStart /\ live'
                   /\ UNCHANGED <<started, record, ledger>>
<1> USE LifecycleAssumption
<1> DEFINE s == start
           t == start'
<1>0. s \in StartShape
  BY DEF HostInv, TypeOK, StartShape
<1>1. ASSUME BeginResume
      PROVE  /\ StartStill /\ StartOnly /\ Carries(s, t) /\ s.step = "idle" /\ ~ live
             /\ t.step = IF record = None THEN "write" ELSE "compensate"
  BY <1>0, <1>1 DEF BeginResume, StartGoes, StartShape, Carries, StartStill
<1>2. ASSUME ReadReceipt
      PROVE  /\ StartStill /\ StartOnly /\ Carries(s, t) /\ s.step = "compensate"
             /\ t.step = "enumerate" \/ (Receipted(record) /\ t.step = Compensated)
  BY <1>0, <1>2 DEF ReadReceipt, StartGoes, StartShape, Carries, StartStill, Receipted
<1>3. ASSUME EnumerateScope
      PROVE  /\ StartStill /\ StartOnly /\ s.step = "enumerate"
             /\ \/ Receipted(record) /\ Carries(s, t) /\ t.step = Compensated
                \/ /\ t.step \in {"scan", "merge"} /\ t.scope = Known
                   /\ t.second = s.second /\ t.fence = s.fence /\ t.fenced = s.fenced
                   /\ t.held = s.held
  <2>1. /\ StartStill /\ StartOnly /\ s.step = "enumerate"
        /\ \/ Receipted(record) /\ t = [s EXCEPT !.step = Compensated]
           \/ \E step \in {"scan", "merge"} : t = [s EXCEPT !.scope = Known, !.step = step]
    BY <1>3 DEF EnumerateScope, StartStill, StartGoes, Receipted
  <2> QED
    BY <1>0, <2>1 DEF StartShape, Carries
<1>4. ASSUME MergeScope \/ PublishCompensation
      PROVE  /\ UNCHANGED <<live, started, record, ledger>> /\ StartOnly /\ Carries(s, t)
             /\ s.step \in {"merge", "publish"} /\ t.step = Compensated
             /\ Publish(record, s.scope, started)
  BY <1>0, <1>4 DEF MergeScope, PublishCompensation, StartGoes, StartShape, Carries
<1>5. ASSUME ScanScope
      PROVE  /\ StartStill /\ StartOnly /\ s.step = "scan" /\ t.second = s.second /\ t.scope = s.scope
             /\ t.held = s.held
             /\ IF s.second THEN t.fence = s.fence /\ t.fenced = s.fenced
                            ELSE t.fence = s.scope /\ t.fenced
             /\ \/ t.step = "publish"
                \/ t.step = Compensated /\ \A w \in s.scope : <<record, w>> \notin open
  <2> DEFINE next == IF \E w \in s.scope : <<record, w>> \in open THEN "publish" ELSE Compensated
  <2>1. /\ StartStill /\ StartOnly /\ s.step = "scan"
        /\ t = IF s.second THEN [s EXCEPT !.step = next]
               ELSE [s EXCEPT !.step = next, !.fence = s.scope, !.fenced = TRUE]
    BY <1>5 DEF ScanScope, StartStill
  <2>2. next = "publish" \/ (next = Compensated /\ \A w \in s.scope : <<record, w>> \notin open)
    OBVIOUS
  <2> HIDE DEF next
  <2> QED
    BY <1>0, <2>1, <2>2 DEF StartShape
<1>6. ASSUME CleanupIdentity
      PROVE  /\ UNCHANGED <<live, started, record, receipts>> /\ StartOnly /\ Carries(s, t)
             /\ ledger' = IF ledger = None THEN None ELSE [ledger EXCEPT !.ended = TRUE]
             /\ s.step = "cleanup" /\ t.step = IF s.fenced THEN "lock" ELSE "write"
  BY <1>0, <1>6 DEF CleanupIdentity, StartGoes, StartShape, Carries
<1>7. ASSUME NEW w \in Workspaces, LockWorkspace(w)
      PROVE  /\ StartStill /\ StartOnly /\ s.step = "lock" /\ t.step = "lock" /\ ~ JobLocked(w)
             /\ t.held = s.held \cup {w} /\ t.second = s.second /\ t.scope = s.scope
             /\ t.fence = s.fence /\ t.fenced = s.fenced
  <2>1. /\ StartStill /\ StartOnly /\ s.step = "lock" /\ ~ JobLocked(w)
        /\ t = [s EXCEPT !.held = @ \cup {w}]
    BY <1>7 DEF LockWorkspace, StartStill
  <2> QED
    BY <1>0, <2>1 DEF StartShape
<1>8. ASSUME CompensateFenced
      PROVE  /\ StartStill /\ StartOnly /\ s.step = "lock" /\ t.step = "compensate" /\ t.second
             /\ s.held = s.fence /\ t.scope = s.scope /\ t.fence = s.fence /\ t.fenced = s.fenced
             /\ t.held = s.held
  BY <1>0, <1>8 DEF CompensateFenced, StartShape, StartStill
<1>9. ASSUME WriteRecord
      PROVE  StartOnly /\ s.step = "write" /\ t = IdleStart /\ live' /\ UNCHANGED <<ledger, receipts>>
  BY <1>9 DEF WriteRecord
<1>10. ASSUME StartFails
       PROVE  /\ StartOnly /\ s.step # "idle" /\ t = IdleStart /\ live'
              /\ UNCHANGED <<started, record, ledger>>
  BY <1>10 DEF StartFails
<1>11. ASSUME StartOnly PROVE UNCHANGED <<open, child, pass>>
  BY <1>11 DEF StartOnly
<1> HIDE DEF s, t
<1>12. CASE BeginResume
  BY <1>1, <1>11, <1>12 DEF s, t
<1>13. CASE ReadReceipt
  BY <1>2, <1>11, <1>13 DEF s, t
<1>14. CASE EnumerateScope
  BY <1>3, <1>11, <1>14 DEF s, t
<1>15. CASE MergeScope \/ PublishCompensation
  BY <1>4, <1>11, <1>15 DEF s, t
<1>16. CASE ScanScope
  BY <1>5, <1>11, <1>16 DEF s, t
<1>17. CASE CleanupIdentity
  BY <1>6, <1>11, <1>17 DEF s, t
<1>18. CASE \E w \in Workspaces : LockWorkspace(w)
  BY <1>7, <1>11, <1>18 DEF s, t
<1>19. CASE CompensateFenced
  BY <1>8, <1>11, <1>19 DEF s, t
<1>20. CASE WriteRecord
  BY <1>9, <1>11, <1>20 DEF s, t
<1>21. CASE StartFails
  BY <1>10, <1>11, <1>21 DEF s, t
<1> QED
  BY <1>12, <1>13, <1>14, <1>15, <1>16, <1>17, <1>18, <1>19, <1>20, <1>21 DEF SessionStart

\* The steps of a child.
LEMMA ChildMoves ==
  ASSUME HostInv, Child
  PROVE  LET c == child
             d == child'
         IN  /\ ChildOnly
             /\ \/ /\ UNCHANGED <<ledger, open>> /\ c.step = "idle" /\ d.step = "claim"
                   /\ d.epoch = record /\ record # None /\ Lives
                \/ /\ PersistClaim /\ UNCHANGED open /\ c.step = "claim" /\ d.step = "scan"
                   /\ d.epoch = c.epoch /\ d.workspace = c.workspace
                   /\ Lives /\ ledger' # None /\ ledger'.epoch = ledger.epoch
                   /\ ledger'.known = ledger.known \cup {c.workspace}
                \/ UNCHANGED <<ledger, open>> /\ d = IdleChild
                \/ /\ UNCHANGED <<ledger, open>> /\ d.epoch = c.epoch /\ d.workspace = c.workspace
                   /\ \/ c.step = "scan" /\ d.step = "anchor" /\ ~ JobLocked(c.workspace)
                      \/ c.step = "anchor" /\ d.step = "own" /\ record = c.epoch
                      \/ c.step = "own" /\ d.step = "persist" /\ Enters
                \/ /\ UNCHANGED ledger /\ c.step = "persist" /\ d = IdleChild
                   /\ open' \subseteq open \cup {<<c.epoch, c.workspace>>}
<1> DEFINE c == child
           d == child'
<1>0. c \in [step: ChildSteps, epoch: 0..MaxEpoch, workspace: Workspaces]
  BY DEF HostInv, TypeOK
<1>1. ASSUME NEW w \in Workspaces, SubagentStart(w)
      PROVE  /\ ChildOnly /\ UNCHANGED <<ledger, open>> /\ c.step = "idle" /\ d.step = "claim"
             /\ d.epoch = record /\ record # None /\ Lives
  BY <1>1 DEF SubagentStart, Lives
<1>2. ASSUME PersistClaim
      PROVE  /\ ChildOnly /\ UNCHANGED open
             /\ \/ /\ c.step = "claim" /\ d.step = "scan"
                   /\ d.epoch = c.epoch /\ d.workspace = c.workspace
                   /\ Lives /\ ledger' # None /\ ledger'.epoch = ledger.epoch
                   /\ ledger'.known = ledger.known \cup {c.workspace}
                \/ UNCHANGED ledger /\ d = IdleChild
  <2>1. /\ ChildOnly /\ UNCHANGED open /\ c.step = "claim"
        /\ \/ /\ Lives /\ ledger' = [ledger EXCEPT !.known = @ \cup {c.workspace}]
              /\ d = [c EXCEPT !.step = "scan"]
           \/ UNCHANGED ledger /\ d = IdleChild
    BY <1>2 DEF PersistClaim, ChildGoes, Lives
  <2>2. Lives => ledger \in Ledger
    BY DEF HostInv, TypeOK, Lives
  <2>3. Lives => LET l == [ledger EXCEPT !.known = @ \cup {c.workspace}]
                 IN  l \in Ledger /\ l.epoch = ledger.epoch /\ l.known = ledger.known \cup {c.workspace}
    BY <1>0, <2>2 DEF Ledger
  <2>4. None \notin Ledger
    BY LifecycleAssumption DEF Ledger, Epochs
  <2> QED
    BY <1>0, <2>1, <2>3, <2>4
<1>3. ASSUME FenceScan \/ FenceAnchor \/ FenceOwn
      PROVE  /\ ChildOnly /\ UNCHANGED <<ledger, open>>
             /\ \/ d = IdleChild
                \/ /\ d.epoch = c.epoch /\ d.workspace = c.workspace
                   /\ \/ c.step = "scan" /\ d.step = "anchor" /\ ~ JobLocked(c.workspace)
                      \/ c.step = "anchor" /\ d.step = "own" /\ record = c.epoch
                      \/ c.step = "own" /\ d.step = "persist" /\ Enters
  <2>1. /\ ChildOnly /\ UNCHANGED <<ledger, open>>
        /\ \/ d = IdleChild
           \/ c.step = "scan" /\ d = [c EXCEPT !.step = "anchor"] /\ ~ JobLocked(c.workspace)
           \/ c.step = "anchor" /\ d = [c EXCEPT !.step = "own"] /\ record = c.epoch
           \/ c.step = "own" /\ d = [c EXCEPT !.step = "persist"] /\ Enters
    BY <1>3 DEF FenceScan, FenceAnchor, FenceOwn, ChildGoes, Enters, Receipted
  <2> QED
    BY <1>0, <2>1
<1>4. ASSUME PersistReservation
      PROVE  /\ ChildOnly /\ UNCHANGED ledger /\ c.step = "persist" /\ d = IdleChild
             /\ open' \subseteq open \cup {<<c.epoch, c.workspace>>}
  BY <1>4 DEF PersistReservation
<1> HIDE DEF c, d
<1>5. CASE \E w \in Workspaces : SubagentStart(w)
  BY <1>1, <1>5 DEF c, d
<1>6. CASE PersistClaim
  BY <1>2, <1>6 DEF c, d
<1>7. CASE FenceScan \/ FenceAnchor \/ FenceOwn
  BY <1>3, <1>7 DEF c, d
<1>8. CASE PersistReservation
  BY <1>4, <1>8 DEF c, d
<1> QED
  BY <1>5, <1>6, <1>7, <1>8 DEF Child

\* Who moves the host process, the resume and the child.
LEMMA Movers ==
  ASSUME HostInv, [Next]_vars
  PROVE  /\ \/ UNCHANGED <<live, start>>
            \/ SessionStart
            \/ (HostExit \/ HostKilled) /\ UNCHANGED start /\ ~ live'
         /\ UNCHANGED child \/ Child
         /\ open' \subseteq open \/ Child
<1>1. CASE UNCHANGED vars
  BY <1>1 DEF vars
<1>2. CASE SessionStart
  BY <1>2, ResumeMoves
<1>3. CASE Child
  BY <1>3, ChildMoves DEF ChildOnly
<1>4. CASE HostExit \/ HostKilled
  BY <1>4 DEF HostExit, HostKilled
<1>5. CASE Settling
  <2>1. PICK h \in Hooks : Working(h) \/ HookKilled(h)
    BY <1>5 DEF Settling
  <2>2. PassOnly
    BY <2>1, SettlingMoves
  <2>3. open' \subseteq open
    BY <2>1 DEF Working, Discover, SettleObligation, RetainObligation, Discovered, SettlePass,
                HookKilled
  <2> QED
    BY <2>2, <2>3 DEF PassOnly
<1>6. CASE SessionEnd
  <2>1. PassOnly
    BY <1>6, EndMoves
  <2>2. open' \subseteq open
    BY <1>6, EndMoves DEF Still, Walks, EndHookState
  <2> QED
    BY <2>1, <2>2 DEF PassOnly
<1>7. CASE Prompt
  BY <1>7 DEF Prompt, BeginPrompt, ListPending, NextReceipt, ReadLedger, PersistScope, PromptSettled,
              ReconciliationFails, BeginCallerTurn, PassOnly
<1>8. CASE (\E e \in Epochs, w \in Workspaces : JobEnds(e, w)) \/ \E e \in Epochs : PruneReceipt(e)
  BY <1>8 DEF JobEnds, PruneReceipt
<1> QED
  BY <1>1, <1>2, <1>3, <1>4, <1>5, <1>6, <1>7, <1>8 DEF Next

-----------------------------------------------------------------------------
(* One lemma for each part of the invariant.                               *)

\* The turn begins with a ledger of the recorded epoch.
LEMMA TurnBegins ==
  ASSUME HostInv, ServingInv, BeginCallerTurn
  PROVE  /\ record = started /\ live /\ start.step = "idle" /\ pass["prompt"].turn = started
         /\ At("prompt", "begin")
         /\ pass["end"].step \in EndWorks => pass["end"].epoch # started
         /\ PassOnly /\ UNCHANGED <<record, receipts, open>> /\ pass'["end"] = pass["end"]
         /\ \/ UNCHANGED ledger
            \/ /\ ledger' # None /\ ledger'.epoch = started
               /\ \/ ledger = None
                  \/ ledger # None /\ ledger.ended /\ ledger.epoch < started
                  \/ Lives /\ ledger.epoch = started /\ ledger.known \subseteq ledger'.known
<1> DEFINE e == pass["prompt"].turn
           kept == IF ledger = None \/ ledger.ended THEN {} ELSE ledger.known
           new == [epoch |-> e, known |-> kept \cup {Origin}, ended |-> FALSE]
<1>1. /\ At("prompt", "begin") /\ PassOnly /\ UNCHANGED <<record, receipts, open>>
      /\ pass'["end"] = pass["end"]
  BY PassIs, PassTypes DEF BeginCallerTurn, Leaves
<1>2. /\ record = e /\ live /\ start.step = "idle"
      /\ pass["end"].step \in EndWorks => pass["end"].epoch # record
  BY <1>1 DEF ServingInv, At
<1>3. e \in Epochs /\ record = started
  BY <1>1, <1>2, LifecycleAssumption DEF HostInv, PassInv, At, StartInv, Epochs
<1>4. \/ UNCHANGED ledger
      \/ /\ ledger' = new
         /\ \/ ledger = None
            \/ ledger # None /\ ledger.ended /\ ledger.epoch < e
            \/ ledger # None /\ ~ ledger.ended /\ ledger.epoch = e
  BY DEF BeginCallerTurn
<1>5. new.epoch = e /\ new.known = kept \cup {Origin}
  OBVIOUS
<1>6. ledger' = new => ledger' # None
  <2>1. kept \in SUBSET Workspaces
    BY DEF HostInv, TypeOK, Ledger
  <2>2. new \in [epoch: 1..MaxEpoch, known: SUBSET Workspaces, ended: BOOLEAN]
    BY <1>3, <2>1, LifecycleAssumption DEF Epochs
  <2> QED
    BY <2>2, LifecycleAssumption
<1>7. ledger # None /\ ~ ledger.ended => kept = ledger.known
  OBVIOUS
<1> HIDE DEF new, kept
<1> QED
  BY <1>1, <1>2, <1>3, <1>4, <1>5, <1>6, <1>7 DEF Lives

\* The end of an epoch removes the record of that epoch.
LEMMA RecordGoes ==
  ASSUME HostInv, RecordSpared, EndHookState, record' # record
  PROVE  /\ record = pass["end"].epoch /\ record = started /\ start.step = "idle"
         /\ At("end", "hooks") /\ record' = None
         /\ UNCHANGED <<started, ledger, receipts, open, child, start>>
<1>1. /\ At("end", "hooks") /\ start.step = "idle" /\ record' = None
      /\ record # None
      /\ UNCHANGED <<started, ledger, receipts, open, child, start>>
  BY DEF EndHookState, PassOnly
<1>2. record = started /\ record = pass["end"].epoch
  BY <1>1 DEF HostInv, StartInv, RecordSpared
<1> QED
  BY <1>1, <1>2

\* A child past its claim has its workspace in the ledger, which no turn replaces under it.
LEMMA NextKeepsClaim ==
  ASSUME Orderly, HostInv, HostInv', OrderInv, [Next]_vars
  PROVE  ClaimInv'
<1>0. /\ started \in Nat /\ started' \in Nat /\ child.epoch \in Nat
      /\ record # None => record = started
      /\ ledger \in Ledger \cup {None} /\ ClaimInv /\ LedgerInv /\ ServingInv
      /\ Lives => ledger.epoch = started
  BY DEF HostInv, TypeOK, StartInv, Epochs, OrderInv, LedgerInv
<1>1. CASE Child
  <2>1. UNCHANGED <<started, record>>
    BY <1>1, ChildMoves DEF ChildOnly
  <2>2. CASE UNCHANGED ledger
    BY <1>0, <1>1, <2>1, <2>2, ChildMoves DEF ClaimInv, Inside, LedgerOf, Lives, IdleChild
  <2>3. CASE /\ child.step = "claim" /\ child'.step = "scan"
             /\ child'.epoch = child.epoch /\ child'.workspace = child.workspace
             /\ Lives /\ ledger' # None /\ ledger'.epoch = ledger.epoch
             /\ ledger'.known = ledger.known \cup {child.workspace}
    BY <1>0, <2>1, <2>3 DEF ClaimInv, Inside, LedgerOf
  <2> QED
    BY <1>1, <2>2, <2>3, ChildMoves
<1>2. CASE UNCHANGED child /\ ~ BeginCallerTurn
  <2>1. KeepsLedger
    BY <1>2, LedgerEvolves
  <2>2. started' = started \/ started' = started + 1
    BY RecordEvolves DEF WriteRecord
  <2>3. child'.step # "idle" => child'.epoch <= started' /\ ledger' # None
    BY <1>0, <1>2, <2>1, <2>2 DEF ClaimInv, KeepsLedger
  <2>4. ASSUME child'.step \in {"scan"} \cup Inside, child'.epoch = started'
        PROVE  LedgerOf(started)' /\ child'.workspace \in ledger'.known
    <3>1. child.step \in {"scan"} \cup Inside /\ child.epoch = started /\ started' = started
      BY <1>0, <1>2, <2>2, <2>4 DEF ClaimInv, Inside
    <3>2. ledger # None /\ ledger.epoch = started /\ child.workspace \in ledger.known
      BY <1>0, <3>1 DEF ClaimInv, LedgerOf
    <3> QED
      BY <1>2, <2>1, <3>1, <3>2 DEF KeepsLedger, LedgerOf
  <2> QED
    BY <2>3, <2>4 DEF ClaimInv
<1>3. CASE BeginCallerTurn
  <2>1. UNCHANGED <<child, started>>
    BY <1>0, <1>3, TurnBegins DEF PassOnly
  <2> QED
    BY <1>0, <1>3, <2>1, TurnBegins DEF ClaimInv, LedgerOf
<1> QED
  BY <1>1, <1>2, <1>3, Movers

\* The record stays while a prompt runs, and a resume has no host beside it.
LEMMA NextKeepsServing ==
  ASSUME Orderly, HostInv, HostInv', OrderInv, [Next]_vars, RecordSpared
  PROVE  ServingInv'
<1> DEFINE p == pass["prompt"]
           q == pass'["prompt"]
<1>0. /\ ServingInv /\ PassInv /\ ~ Overlaps
  BY DEF OrderInv, Orderly, HostInv
<1>1. ServingInv <=> /\ start.step # "idle" => ~ live
                     /\ p.step # "idle" =>
                           /\ live /\ record = p.turn
                           /\ pass["end"].step \in EndWorks => pass["end"].epoch # record
                     /\ p.turn \notin p.todo
                     /\ p.step \in PromptWorks => p.epoch # p.turn
  BY DEF ServingInv
<1>2. ServingInv' <=> /\ start'.step # "idle" => ~ live'
                      /\ q.step # "idle" =>
                            /\ live' /\ record' = q.turn
                            /\ pass'["end"].step \in EndWorks => pass'["end"].epoch # record'
                      /\ q.turn \notin q.todo
                      /\ q.step \in PromptWorks => q.epoch # q.turn
  BY DEF ServingInv
<1>3. /\ IdlePass.step = "idle" /\ IdlePass.turn = 0 /\ IdlePass.todo = {}
      /\ IdleStart.step = "idle"
      /\ "idle" \notin PromptWorks /\ "begin" \notin PromptWorks /\ "resolve" \notin EndWorks
      /\ "list" \notin PromptWorks /\ "next" \notin PromptWorks /\ "idle" \notin EndWorks
      /\ "list" # "begin"
  BY DEF IdlePass, IdleStart, PromptWorks, EndWorks, EndSteps
\* The record stays while a prompt runs, and the resume has no host beside it.
<1>4. p.step # "idle" => record' = record
  <2>1. CASE WriteRecord
    <3>1. start.step # "idle"
      BY <2>1 DEF WriteRecord
    <3> QED
      BY <1>0, <1>1, <3>1
  <2>2. CASE EndHookState /\ record' # record
    <3>1. record = pass["end"].epoch /\ pass["end"].step = "hooks"
      BY <1>0, <2>2, RecordGoes DEF At
    <3>2. "hooks" \in EndWorks
      BY DEF EndWorks, EndSteps
    <3> QED
      BY <1>0, <1>1, <3>1, <3>2
  <2> QED
    BY <2>1, <2>2, RecordEvolves
<1>5. start'.step # "idle" => ~ live'
  <2>1. CASE SessionStart
    <3>1. start'.step # "idle" => live' = live
      BY <1>3, <2>1, ResumeMoves DEF StartStill
    <3>2. start'.step # "idle" => ~ live
      BY <1>0, <1>1, <1>3, <2>1, ResumeMoves
    <3> QED
      BY <3>1, <3>2
  <2> QED
    BY <1>0, <1>1, <2>1, Movers
<1>6. CASE UNCHANGED pass
  <2>1. p.step # "idle" => live'
    <3>1. CASE SessionStart
      <4>1. start.step = "idle" => ~ live
        BY <3>1, ResumeMoves DEF StartStill, WriteRecord, StartFails
      <4> QED
        BY <1>0, <1>1, <3>1, <4>1, ResumeMoves
    <3>2. CASE HostExit \/ HostKilled
      <4>1. HostKilled => pass' = [pass EXCEPT !["prompt"] = IdlePass]
        BY <1>0 DEF HostKilled
      <4>2. HostKilled => q = IdlePass
        BY <4>1, PassTypes
      <4> QED
        BY <1>0, <1>3, <1>6, <3>2, <4>2 DEF HostExit, At
    <3> QED
      BY <1>0, <1>1, <3>1, <3>2, Movers
  <2> QED
    BY <1>0, <1>1, <1>2, <1>4, <1>5, <1>6, <2>1
<1>7. CASE HostExit
  <2>1. q = p /\ p.step = "idle"
    BY <1>0, <1>7, HooksMoveOut
  <2> QED
    BY <1>0, <1>1, <1>2, <1>3, <1>5, <2>1
<1>8. CASE HostKilled
  <2>1. q = IdlePass
    BY <1>0, <1>8, HooksMoveOut
  <2> QED
    BY <1>2, <1>3, <1>5, <2>1
<1>9. CASE EndActs /\ q = p /\ PassOnly
  <2>1. live' = live
    BY <1>9 DEF PassOnly
  <2>2. p.step # "idle" /\ pass'["end"].step \in EndWorks => pass'["end"].epoch # record
    <3>1. CASE Working("end") \/ HookKilled("end")
      <4>1. pass'["end"].step \in EndWorks =>
               pass["end"].step \in EndWorks /\ pass'["end"].epoch = pass["end"].epoch
        BY <1>3, <3>1, SettlingMoves, PassTypes DEF Onward, EndWorks, EndSteps
      <4> QED
        BY <1>0, <1>1, <4>1
    <3>2. CASE SessionEnd
      <4>1. CASE pass["end"].step = "resolve"
        <5>1. pass["prompt"].turn # record
          BY <1>0, <3>2, <4>1, EndMoves DEF Walks
        <5> QED
          BY <1>0, <1>1, <5>1
      <4>2. CASE pass["end"].step # "resolve"
        <5>1. pass'["end"].step \in EndWorks =>
                 pass["end"].step \in EndWorks /\ pass'["end"].epoch = pass["end"].epoch
          BY <1>3, <3>2, <4>2, EndMoves DEF Walks, EndWorks, EndSteps
        <5> QED
          BY <1>0, <1>1, <5>1
      <4> QED
        BY <4>1, <4>2
    <3> QED
      BY <1>9, <3>1, <3>2 DEF EndActs
  <2> QED
    BY <1>0, <1>1, <1>2, <1>4, <1>5, <1>9, <2>1, <2>2
<1>10. CASE PromptActs /\ pass'["end"] = pass["end"] /\ PassOnly
  <2>1. live' = live
    BY <1>10 DEF PassOnly
  <2>2. CASE Working("prompt") \/ HookKilled("prompt")
    <3>1. \/ q = IdlePass
          \/ /\ q.epoch = p.epoch /\ q.turn = p.turn /\ q.todo = p.todo
             /\ p.step \in PromptWorks /\ q.step \in PromptWorks \cup {"next"}
      BY <2>2, SettlingMoves, PassTypes DEF Onward, PromptWorks
    <3> QED
      BY <1>0, <1>1, <1>2, <1>3, <1>4, <1>5, <1>10, <2>1, <3>1
  <2>3. CASE Prompt
    <3>1. \/ q = IdlePass
          \/ /\ q.turn = record /\ q.todo = {} /\ q.step = "list" /\ record' = record
             /\ live /\ pass["end"].epoch # record
          \/ /\ q.step = "next" /\ q.turn = p.turn /\ q.todo = {e \in Epochs \ {p.turn} : Pending(e)}
             /\ p.step = "list"
          \/ /\ q.turn = p.turn /\ p.step = "next"
             /\ \/ q.step = "ledger" /\ q.epoch \in p.todo /\ q.todo \subseteq p.todo
                \/ q.step = "begin" /\ q.todo = {}
          \/ /\ q.epoch = p.epoch /\ q.turn = p.turn /\ q.todo = p.todo
             /\ p.step \in {"list", "next"} \cup PromptWorks
             /\ q.step = "begin" \/ (p.step \in PromptWorks /\ q.step \in PromptWorks)
      BY <1>0, <2>3, PromptMoves DEF Onward, PromptWorks, Still, GivesUp
    <3>2. CASE q = IdlePass
      BY <1>2, <1>3, <1>5, <3>2
    <3>3. CASE /\ q.turn = record /\ q.todo = {} /\ q.step = "list" /\ record' = record
               /\ live /\ pass["end"].epoch # record
      BY <1>2, <1>3, <1>5, <1>10, <2>1, <3>3
    <3>4. CASE /\ q.step = "next" /\ q.turn = p.turn
               /\ q.todo = {e \in Epochs \ {p.turn} : Pending(e)} /\ p.step = "list"
      <4>1. q.turn \notin q.todo
        BY <3>4
      <4> QED
        BY <1>0, <1>1, <1>2, <1>3, <1>4, <1>5, <1>10, <2>1, <3>4, <4>1
    <3>5. CASE /\ q.turn = p.turn /\ p.step = "next"
               /\ \/ q.step = "ledger" /\ q.epoch \in p.todo /\ q.todo \subseteq p.todo
                  \/ q.step = "begin" /\ q.todo = {}
      BY <1>0, <1>1, <1>2, <1>3, <1>4, <1>5, <1>10, <2>1, <3>5
    <3>6. CASE /\ q.epoch = p.epoch /\ q.turn = p.turn /\ q.todo = p.todo
               /\ p.step \in {"list", "next"} \cup PromptWorks
               /\ q.step = "begin" \/ (p.step \in PromptWorks /\ q.step \in PromptWorks)
      BY <1>0, <1>1, <1>2, <1>3, <1>4, <1>5, <1>10, <2>1, <3>6
    <3> QED
      BY <3>1, <3>2, <3>3, <3>4, <3>5, <3>6
  <2> QED
    BY <1>10, <2>2, <2>3 DEF PromptActs
<1> QED
  BY <1>6, <1>7, <1>8, <1>9, <1>10, HooksMove

\* The ledger ends before its epoch does.
LEMMA NextKeepsLedger ==
  ASSUME Orderly, HostInv, HostInv', OrderInv, [Next]_vars, RecordSpared
  PROVE  LedgerInv'
<1>0. /\ started \in Nat /\ started' \in Nat /\ LedgerInv /\ ServingInv /\ FencingInv
      /\ record # None => record = started
      /\ ledger \in Ledger \cup {None}
      /\ pass["end"].step \in EndWorks => pass["end"].epoch \in 1..started
  BY DEF HostInv, TypeOK, StartInv, Epochs, OrderInv, Orderly, PassInv
\* Without a turn that begins, a ledger that lives has lived before.
<1>1. CASE ~ BeginCallerTurn
  <2>1. KeepsLedger
    BY <1>1, LedgerEvolves
  <2>2. (Lives' => Lives) /\ (ledger' # None => ledger # None /\ ledger'.epoch = ledger.epoch)
    BY <2>1 DEF KeepsLedger, Lives
  <2>3. (ledger # None => ledger.epoch <= started)'
    <3>1. started' = started \/ started' = started + 1
      BY RecordEvolves DEF WriteRecord
    <3>2. ledger # None => ledger.epoch \in Nat
      BY <1>0 DEF Ledger, Epochs
    <3> QED
      BY <1>0, <2>2, <3>1, <3>2 DEF LedgerInv
  <2>4. Lives' => UNCHANGED <<started, record>>
    <3>1. CASE WriteRecord
      BY <1>0, <2>2, <3>1 DEF WriteRecord, LedgerInv
    <3>2. CASE EndHookState /\ record' # record
      BY <1>0, <2>2, <3>2, RecordGoes DEF LedgerInv, Lives
    <3> QED
      BY <3>1, <3>2, RecordEvolves
  <2>5. (Lives => ledger.epoch = started /\ record = started)'
    BY <1>0, <2>2, <2>4 DEF LedgerInv, Lives
  <2>6. (At("end", "hooks") /\ Lives => ledger.epoch # pass["end"].epoch)'
    <3>1. CASE pass'["end"] = pass["end"]
      BY <1>0, <2>2, <3>1 DEF LedgerInv, At, Lives
    <3>2. CASE pass'["end"].step = "resolve"
      BY <3>2 DEF At
    <3>3. CASE Working("end") \/ HookKilled("end")
      <4>1. "end" \in Hooks
        BY DEF Hooks
      <4>2. IdlePass.step = "idle"
        BY DEF IdlePass
      <4>3. pass'["end"].step \in {"discover", "settle", "identity", "idle"}
        BY <3>3, <4>1, <4>2, SettlingMoves
      <4> QED
        BY <4>3 DEF At
    <3>4. CASE SessionEnd
      <4>1. CASE pass'["end"].step # "hooks"
        BY <4>1 DEF At
      <4>2. CASE ledger' = IF ledger = None THEN None ELSE [ledger EXCEPT !.ended = TRUE]
        <5>1. ~ Lives'
          BY <1>0, <4>2 DEF Lives, Ledger
        <5> QED
          BY <5>1
      <4> QED
        BY <3>4, <4>1, <4>2, EndMoves DEF Walks, IdlePass
    <3> QED
      BY <3>1, <3>2, <3>3, <3>4, HooksMove DEF EndActs
  <2>7. (start.step \in {"lock", "write"} \/ start.second => ~ Lives)'
    <3>1. CASE UNCHANGED start
      BY <1>0, <2>2, <3>1 DEF LedgerInv
    <3>2. CASE SessionStart
      <4>1. CASE ledger' = IF ledger = None THEN None ELSE [ledger EXCEPT !.ended = TRUE]
        BY <1>0, <4>1 DEF Lives, Ledger
      <4>2. CASE start'.step \in {"lock", "write"} \/ start'.second =>
                    start.step \in {"lock", "write"} \/ start.second
        BY <1>0, <2>2, <4>2 DEF LedgerInv
      <4>3. CASE start'.step = "write" /\ record = None
        BY <1>0, <2>2, <4>3, LifecycleAssumption DEF LedgerInv, HostInv, TypeOK, Epochs
      <4>4. IdleStart.step = "idle" /\ ~ IdleStart.second
        BY DEF IdleStart
      <4> QED
        BY <1>0, <3>2, <4>1, <4>2, <4>3, <4>4, ResumeMoves DEF Carries, Compensated, FencingInv
    <3> QED
      BY <3>1, <3>2, Movers
  <2> QED
    BY <2>3, <2>5, <2>6, <2>7 DEF LedgerInv
<1>2. CASE BeginCallerTurn
  <2>1. /\ record = started /\ start.step = "idle" /\ UNCHANGED <<started, record, start>>
        /\ pass["end"].step \in EndWorks => pass["end"].epoch # started
        /\ pass'["end"] = pass["end"]
    BY <1>0, <1>2, TurnBegins DEF PassOnly
  <2>2. UNCHANGED ledger \/ (ledger' # None /\ ledger'.epoch = started)
    BY <1>0, <1>2, TurnBegins
  <2>3. ~ start.second
    BY <1>0, <2>1 DEF FencingInv, IdleStart
  <2>4. "hooks" \in EndWorks
    BY DEF EndWorks, EndSteps
  <2> QED
    BY <1>0, <2>1, <2>2, <2>3, <2>4 DEF LedgerInv, Lives, At
<1> QED
  BY <1>1, <1>2

\* The ledger stays as the resume read it, and no child is under the locks it holds.
LEMMA NextKeepsFencing ==
  ASSUME Orderly, HostInv, HostInv', OrderInv, [Next]_vars
  PROVE  FencingInv'
<1>0. /\ FencingInv /\ ServingInv /\ ~ LinksLate
      /\ IdleStart.step = "idle" /\ ~ IdleStart.second /\ ~ IdleStart.fenced /\ IdleStart.held = {}
      /\ IdleChild.step = "idle" /\ "idle" \notin Inside
      /\ start.step \notin {"idle", "write"} => record # None
  BY DEF OrderInv, Orderly, IdleStart, IdleChild, Inside, HostInv, StartInv
\* While a resume runs, the scope of the ledger and the record it compensates stay.
<1>1. start.step # "idle" /\ start'.step # "idle" => Known' = Known /\ record' = record
  <2>1. PersistClaim => start.step = "idle"
    BY <1>0 DEF PersistClaim
  <2>2. BeginCallerTurn => start.step = "idle"
    BY TurnBegins, <1>0
  <2>3. EndHookState => start.step = "idle"
    BY DEF EndHookState
  <2>4. WriteRecord => start'.step = "idle"
    BY <1>0 DEF WriteRecord
  <2> QED
    BY <2>1, <2>2, <2>3, <2>4, LedgerEvolves, RecordEvolves
<1>2. CASE UNCHANGED start
  <2>1. child'.step \in Inside => child'.workspace \notin start.held
    <3>1. CASE Child
      BY <1>0, <3>1, ChildMoves DEF FencingInv, Inside, JobLocked
    <3> QED
      BY <1>0, <3>1, Movers DEF FencingInv
  <2>2. CASE start.step = "idle"
    <3>1. start = IdleStart
      BY <1>0, <2>2 DEF FencingInv
    <3> QED
      BY <1>0, <1>2, <3>1 DEF FencingInv
  <2>3. CASE start.step # "idle"
    <3>1. Known' = Known /\ record' = record
      BY <1>1, <1>2, <2>3
    <3> QED
      BY <1>0, <1>2, <2>1, <2>3, <3>1 DEF FencingInv
  <2> QED
    BY <2>2, <2>3
<1>3. CASE SessionStart
  <2>1. UNCHANGED child
    BY <1>3, ResumeMoves
  <2>2. CASE start' = IdleStart
    BY <1>0, <2>2 DEF FencingInv
  <2>3. CASE start.step = "idle" /\ start'.step # "idle"
    <3>1. /\ Carries(start, start') /\ start'.step \in {"write", "compensate"}
          /\ start = IdleStart
      BY <1>0, <1>3, <2>3, ResumeMoves DEF FencingInv
    <3> QED
      BY <1>0, <2>1, <3>1 DEF FencingInv, Carries
  <2>4. CASE start.step # "idle" /\ start' # IdleStart
    <3>1. start'.step # "idle"
      BY <1>0, <1>3, <2>4, ResumeMoves DEF Compensated
    <3>2. Known' = Known /\ record' = record
      BY <1>1, <2>4, <3>1
    <3>3. (start.fenced => start.fence = Known /\ record # None)'
      BY <1>0, <1>3, <2>4, <3>2, ResumeMoves DEF FencingInv, Carries
    <3>4. (start.step \in {"merge", "scan", "publish"} => start.scope = Known)'
      BY <1>0, <1>3, <2>4, <3>2, ResumeMoves DEF FencingInv, Carries, Compensated
    <3>5. (start.step = "lock" => start.fenced)'
      BY <1>0, <1>3, <2>4, <3>2, ResumeMoves DEF FencingInv, Carries, Compensated
    <3>6. (start.second => /\ start.fenced /\ start.held = start.fence
                           /\ start.step \notin {"cleanup", "lock"})'
      BY <1>0, <1>3, <2>4, <3>2, ResumeMoves DEF FencingInv, Carries, Compensated
    <3>7. (child.step \in Inside => child.workspace \notin start.held)'
      BY <1>0, <1>3, <2>1, <2>4, ResumeMoves DEF FencingInv, Carries, JobLocked, Inside
    <3> QED
      BY <3>1, <3>3, <3>4, <3>5, <3>6, <3>7 DEF FencingInv
  <2>5. start' # IdleStart /\ start.step = "idle" => start'.step # "idle"
    BY <1>3, ResumeMoves
  <2> QED
    BY <2>2, <2>3, <2>4, <2>5
<1> QED
  BY <1>2, <1>3, Movers

\* An epoch that has its receipt, or is not recorded, comes to owe nothing new.
LEMMA OwedBefore ==
  ASSUME HostInv, ReceiptedInv, [Next]_vars, NEW e \in Epochs, NEW w \in Workspaces,
         Receipted(e) \/ record # e
  PROVE  (Owed(e, w)' => Owed(e, w)) /\ (Reserving(e, w)' => Reserving(e, w))
<1>1. CASE OwesLess
  BY <1>1 DEF OwesLess, Owed
<1>2. CASE Enters
  <2>1. /\ child.step = "own" /\ child'.step = "persist" /\ child'.epoch = child.epoch
        /\ child'.workspace = child.workspace /\ UNCHANGED open
    <3>1. child \in [step: ChildSteps, epoch: 0..MaxEpoch, workspace: Workspaces]
      BY DEF HostInv, TypeOK
    <3> QED
      BY <1>2, <3>1 DEF Enters, FenceOwn
  <2>2. ~ Reserving(e, w)'
    <3> SUFFICES ASSUME Reserving(e, w)' PROVE FALSE
      OBVIOUS
    <3>1. Coming(e, w) /\ child.epoch = e
      BY <2>1 DEF Reserving, Coming
    <3>2. Receipted(e)
      BY <3>1 DEF ReceiptedInv
    <3> QED
      BY <1>2, <3>1, <3>2 DEF Enters
  <2> QED
    BY <2>1, <2>2 DEF Owed
<1> QED
  BY <1>1, <1>2, OwingEvolves

\* The receipt of an epoch that owes something stays, and so do its hints; so does the
\* receipt that a hook or a child is at work for.
LEMMA ReceiptStays ==
  ASSUME HostInv, SettledInv, [Next]_vars, NEW e \in Epochs, Receipted(e),
         \/ \E w \in Workspaces : Owed(e, w)
         \/ child.step # "idle" \/ start.step # "idle" \/ pass["end"].epoch = e
  PROVE  /\ receipts'[e].state # "none"
         /\ \A w \in Workspaces : Hinted(e, w) => Hinted(e, w)'
<1>1. Evolves(e)
  BY ReceiptsEvolve
<1>2. ~ PruneReceipt(e)
  <2> SUFFICES ASSUME PruneReceipt(e) PROVE FALSE
    OBVIOUS
  <2>1. /\ start.step = "idle" /\ child.step = "idle" /\ receipts[e].state = "settled"
        /\ e # pass["end"].epoch
    BY DEF PruneReceipt
  <2>2. \A w \in Workspaces : ~ Owed(e, w)
    BY <2>1 DEF SettledInv
  <2> QED
    BY <2>1, <2>2
<1> QED
  BY <1>1, <1>2 DEF Evolves, Receipted, Hinted

\* The second scan, under the locks, leaves nothing that a child could still add to.
LEMMA NextKeepsCompensated ==
  ASSUME Orderly, HostInv, HostInv', OrderInv, [Next]_vars
  PROVE  CompensatedInv'
<1>0. /\ CompensatedInv /\ FencingInv /\ ClaimInv /\ OwedInv /\ SettledInv /\ LedgerInv
      /\ IdleStart.step = "idle"
      /\ record # None => record = started /\ record \in Epochs
      /\ start.step \notin {"idle", "write"} => record # None
      /\ None \notin Epochs
  BY LifecycleAssumption DEF OrderInv, HostInv, StartInv, TypeOK, IdleStart, Epochs
<1>1. start.step # "idle" /\ record # None /\ Receipted(record) => receipts'[record].state # "none"
  BY <1>0, ReceiptStays
\* Under the fence the current epoch does not come to owe anything.
<1>2. ASSUME start.second, record # None
      PROVE  \A w \in Workspaces : <<record, w>> \in open' => <<record, w>> \in open
  <2> SUFFICES ASSUME NEW w \in Workspaces, <<record, w>> \in open', <<record, w>> \notin open
               PROVE  FALSE
    OBVIOUS
  <2>1. Child
    BY Movers
  <2>2. child.step = "persist" /\ child.epoch = record /\ child.workspace = w
    BY <2>1, ChildMoves
  <2>3. child.workspace \in ledger.known /\ ledger # None
    BY <1>0, <1>2, <2>2 DEF ClaimInv, Inside, LedgerOf
  <2>4. start.held = ledger.known
    BY <1>0, <1>2, <2>3 DEF FencingInv, Known
  <2> QED
    BY <1>0, <2>2, <2>3, <2>4 DEF FencingInv, Inside
\* A scan of the whole scope that finds nothing finds all there is.
<1>3. ASSUME start.step = "scan", \A w \in start.scope : <<record, w>> \notin open
      PROVE  \A w \in Workspaces : <<record, w>> \notin open
  <2> SUFFICES ASSUME NEW w \in Workspaces, <<record, w>> \in open PROVE FALSE
    OBVIOUS
  <2>1. record = started /\ record \in Epochs
    BY <1>0, <1>3
  <2>2. LedgerOf(record) /\ w \in ledger.known
    BY <1>0, <2>1 DEF OwedInv, Owed
  <2>3. start.scope = ledger.known
    BY <1>0, <1>3, <2>2 DEF FencingInv, Known, LedgerOf
  <2> QED
    BY <1>3, <2>2, <2>3
<1>4. CASE UNCHANGED start
  <2>1. start.step # "idle" => record' = record
    BY <1>0, <1>4, RecordEvolves DEF WriteRecord, EndHookState
  <2>2. ASSUME start.step \in {"cleanup", "write"}, ~ start.fenced, record # None
        PROVE  receipts'[record].state # "none"
    BY <1>0, <1>1, <2>2 DEF CompensatedInv
  <2>3. ASSUME start.step = "write", start.fenced
        PROVE  /\ start.second
               /\ \/ receipts'[record].state # "none"
                  \/ \A w \in Workspaces : <<record, w>> \notin open'
    <3>1. start.second /\ (Receipted(record) \/ \A w \in Workspaces : <<record, w>> \notin open)
      BY <1>0, <2>3 DEF CompensatedInv
    <3>2. record # None
      BY <1>0, <2>3 DEF FencingInv
    <3> QED
      BY <1>1, <1>2, <2>3, <3>1, <3>2
  <2>4. start.step \in {"cleanup", "write"} => start.step # "idle"
    OBVIOUS
  <2> QED
    BY <1>4, <2>1, <2>2, <2>3, <2>4 DEF CompensatedInv, Receipted
<1>5. CASE SessionStart
  <2>1. UNCHANGED open
    BY <1>5, ResumeMoves
  <2>2. CASE start'.step \notin {"cleanup", "write"}
    BY <2>2 DEF CompensatedInv
  <2>3. CASE /\ start'.step = Compensated /\ Carries(start, start')
             /\ UNCHANGED record /\ start.step \notin {"idle", "write"}
             /\ receipts'[record].state # "none"
    <3>1. start'.step = "write" => start.second
      BY <2>3 DEF Compensated
    <3> QED
      BY <1>0, <2>1, <2>3, <3>1 DEF CompensatedInv, Carries, FencingInv, Receipted
  <2>4. CASE start.step = "idle" /\ Carries(start, start')
    <3>1. ~ start'.fenced /\ (start'.step \in {"cleanup", "write"} => record' = None)
      BY <1>0, <1>5, <2>4, ResumeMoves DEF FencingInv, IdleStart, Carries, StartStill, Compensated
    <3> QED
      BY <3>1 DEF CompensatedInv
  <2>5. CASE start.step \in {"compensate", "enumerate"} /\ start'.step \in {"cleanup", "write"}
    <3>1. /\ start'.step = Compensated /\ Carries(start, start') /\ StartStill
          /\ Receipted(record)
      BY <1>0, <1>5, <2>5, ResumeMoves DEF Compensated
    <3> QED
      BY <2>3, <2>5, <3>1 DEF StartStill, Receipted
  <2>6. CASE start.step \in {"merge", "publish"} /\ start'.step \in {"cleanup", "write"}
    <3>1. /\ start'.step = Compensated /\ Carries(start, start') /\ UNCHANGED record
          /\ Publish(record, start.scope, started)
      BY <1>0, <1>5, <2>6, ResumeMoves
    <3>2. record \in Epochs /\ start.scope \in SUBSET Workspaces /\ started \in 0..MaxEpoch /\ TypeOK
      BY <1>0, <2>6, LifecycleAssumption DEF HostInv, TypeOK, Epochs
    <3>3. receipts'[record].state # "none"
      BY <3>1, <3>2, Publishing
    <3> QED
      BY <2>3, <2>6, <3>1, <3>3
  <2>7. CASE start.step = "scan" /\ start'.step \in {"cleanup", "write"}
    <3>1. /\ start'.step = Compensated /\ UNCHANGED <<record, receipts>>
          /\ \A w \in start.scope : <<record, w>> \notin open
          /\ start'.second = start.second /\ start'.fenced /\ (start.second => start.fenced)
      BY <1>0, <1>5, <2>7, ResumeMoves DEF StartStill, FencingInv
    <3>2. \A w \in Workspaces : <<record, w>> \notin open
      BY <1>3, <2>7, <3>1
    <3> QED
      BY <2>1, <3>1, <3>2 DEF CompensatedInv, Compensated
  <2>8. CASE start.step = "cleanup" /\ start'.step \in {"cleanup", "write"}
    <3>1. /\ Carries(start, start') /\ UNCHANGED <<record, receipts>>
          /\ start'.step = IF start.fenced THEN "lock" ELSE "write"
      BY <1>0, <1>5, <2>8, ResumeMoves
    <3> QED
      BY <1>0, <2>8, <3>1 DEF CompensatedInv, Carries, Receipted
  <2>9. start'.step \in {"cleanup", "write"} =>
           \/ start.step = "idle" /\ Carries(start, start')
           \/ start.step \in {"compensate", "enumerate", "merge", "publish", "scan", "cleanup"}
    BY <1>0, <1>5, ResumeMoves
  <2> QED
    BY <2>2, <2>4, <2>5, <2>6, <2>7, <2>8, <2>9
<1> QED
  BY <1>4, <1>5, Movers

\* The record leaves an epoch only with its receipt, or when it owes nothing.
LEMMA NextKeepsReceipted ==
  ASSUME Orderly, HostInv, HostInv', OrderInv, [Next]_vars, RecordSpared
  PROVE  ReceiptedInv'
<1>0. /\ ReceiptedInv /\ CompensatedInv /\ FencingInv /\ ClaimInv /\ SettledInv
      /\ record # None => record = started /\ record \in Epochs
      /\ pass["end"].step \in EndWorks => pass["end"].epoch \in Epochs
      /\ None \notin Epochs /\ IdleChild.step = "idle"
      /\ IdlePass.step = "idle" /\ "idle" \notin EndWorks
  BY LifecycleAssumption DEF OrderInv, Orderly, HostInv, StartInv, PassInv, TypeOK, IdleChild, Epochs,
     IdlePass, EndWorks, EndSteps
<1>1. ASSUME NEW e \in Epochs, NEW w \in Workspaces, (Owed(e, w) \/ Coming(e, w))', record' # e
      PROVE  receipts'[e].state # "none"
\* What is owed now was owed before, or its child was on its way ...
  <2>1. Owed(e, w) \/ Coming(e, w) \/ (record = e /\ UNCHANGED record)
    <3>1. CASE Child
      BY <1>0, <1>1, <3>1, ChildMoves DEF Owed, Reserving, Coming, ChildOnly
    <3>2. CASE UNCHANGED child /\ open' \subseteq open
      BY <1>1, <3>2 DEF Owed, Reserving, Coming
    <3> QED
      BY <3>1, <3>2, Movers
\* ... and has a receipt, or else the record leaves its epoch now.
  <2>2. CASE Receipted(e)
    <3>1. (\E x \in Workspaces : Owed(e, x)) \/ child.step # "idle"
      BY <1>1, <2>1 DEF Coming
    <3> QED
      BY <1>0, <2>2, <3>1, ReceiptStays
  <2>3. CASE ~ Receipted(e)
    <3>1. record = e /\ record' # record
      BY <1>0, <1>1, <2>1, <2>3 DEF ReceiptedInv
    <3>2. CASE WriteRecord
      <4>1. start.step = "write" /\ UNCHANGED <<open, child>>
        BY <3>2 DEF WriteRecord, StartOnly
      <4>2. start.fenced /\ start.second /\ \A x \in Workspaces : <<record, x>> \notin open
        BY <1>0, <2>3, <3>1, <4>1 DEF CompensatedInv
      <4>3. child.step \in Inside /\ child.epoch = started /\ child.workspace = w
        BY <1>0, <2>1, <3>1, <4>2 DEF Owed, Reserving, Coming, Inside
      <4>4. ledger # None /\ w \in ledger.known
        BY <1>0, <4>3 DEF ClaimInv, LedgerOf
      <4>5. start.held = ledger.known
        BY <1>0, <4>2, <4>4 DEF FencingInv, Known
      <4> QED
        BY <1>0, <4>3, <4>4, <4>5 DEF FencingInv
    <3>3. CASE EndHookState
      <4>1. record = pass["end"].epoch /\ At("end", "hooks")
        BY <1>0, <3>1, <3>3, RecordGoes
      <4> QED
        BY <1>0, <2>3, <3>1, <4>1 DEF ReceiptedInv, At, EndWorks, EndSteps
    <3> QED
      BY <3>1, <3>2, <3>3, RecordEvolves
  <2> QED
    BY <2>2, <2>3
<1>2. ASSUME pass'["end"].step \in EndWorks \ {"publish"}
      PROVE  receipts'[pass'["end"].epoch].state # "none"
  <2>1. CASE pass["end"].step \in EndWorks \ {"publish"} /\ pass'["end"].epoch = pass["end"].epoch
    BY <1>0, <2>1, ReceiptStays DEF ReceiptedInv
  <2>2. CASE Publish(pass["end"].epoch, {Origin}, started)
             /\ pass["end"].step = "publish" /\ pass'["end"].epoch = pass["end"].epoch
    <3>1. /\ pass["end"].epoch \in Epochs /\ {Origin} \in SUBSET Workspaces
          /\ started \in 0..MaxEpoch /\ TypeOK
      BY <1>0, <2>2, LifecycleAssumption DEF HostInv, TypeOK, Epochs, EndWorks, EndSteps
    <3> QED
      BY <2>2, <3>1, Publishing
  <2>3. \/ /\ pass["end"].step \in EndWorks \ {"publish"}
           /\ pass'["end"].epoch = pass["end"].epoch
        \/ /\ Publish(pass["end"].epoch, {Origin}, started)
           /\ pass["end"].step = "publish" /\ pass'["end"].epoch = pass["end"].epoch
    <3>1. CASE pass'["end"] = pass["end"]
      BY <1>2, <3>1
    <3>2. CASE Working("end") \/ HookKilled("end")
      <4>1. "end" \in Hooks
        BY DEF Hooks
      <4>2. pass'["end"] # IdlePass
        BY <1>0, <1>2
      <4>3. /\ pass["end"].step \in {"discover", "settle", "receipt"}
            /\ pass'["end"].epoch = pass["end"].epoch
        BY <3>2, <4>1, <4>2, SettlingMoves DEF Onward
      <4> QED
        BY <4>3 DEF EndWorks, EndSteps
    <3>3. CASE SessionEnd
      <4>1. pass'["end"] # IdlePass /\ pass'["end"].step # "publish"
        BY <1>0, <1>2
      <4> QED
        BY <3>3, <4>1, EndMoves DEF Walks, EndWorks, EndSteps
    <3>4. CASE pass'["end"].step = "resolve"
      BY <1>2, <3>4 DEF EndWorks
    <3> QED
      BY <3>1, <3>2, <3>3, <3>4, HooksMove DEF EndActs
  <2> QED
    BY <2>1, <2>2, <2>3
<1> QED
  BY <1>1, <1>2 DEF ReceiptedInv, Receipted

\* A hook settles a receipt only when it found and settled all that its epoch owes.
LEMMA NextKeepsSettled ==
  ASSUME Orderly, HostInv, HostInv', OrderInv, [Next]_vars
  PROVE  SettledInv'
<1>0. SettledInv /\ ScopeInv /\ VisitInv /\ ReceiptedInv
  BY DEF OrderInv
<1> SUFFICES ASSUME NEW e \in Epochs, NEW w \in Workspaces, receipts'[e].state = "settled",
                    Owed(e, w)'
             PROVE  FALSE
  BY DEF SettledInv
<1>1. CASE receipts[e].state = "settled"
  <2>1. Owed(e, w)
    BY <1>0, <1>1, OwedBefore DEF Receipted
  <2> QED
    BY <1>0, <1>1, <2>1 DEF SettledInv
<1>2. CASE receipts[e].state # "settled"
  <2>1. PICK h \in Hooks : /\ SettlePass(h) /\ e = pass[h].epoch /\ pass[h].clean
                           /\ Pending(e) /\ receipts[e].token = pass[h].token
    BY <1>2, ReceiptsEvolve DEF Evolves
  <2>2. Owed(e, w)
    BY <1>0, <2>1, OwedBefore DEF Receipted, Pending
  <2>3. pass[h].step = "receipt"
    BY <2>1 DEF SettlePass, At
  <2>4. w \in pass[h].scope
    BY <1>0, <2>1, <2>2, <2>3 DEF ScopeInv, Visiting, Pending, Hooks
  <2>5. ~ Reserving(e, w) /\ (<<e, w>> \in open => w \in pass[h].found) /\ pass[h].found = {}
    BY <1>0, <2>1, <2>3, <2>4 DEF VisitInv, Visited, Visiting
  <2> QED
    BY <2>2, <2>5 DEF Owed
<1> QED
  BY <1>1, <1>2

\* What is owed stays in the ledger of its epoch, or goes on in the hints.
LEMMA NextKeepsOwed ==
  ASSUME Orderly, HostInv, HostInv', OrderInv, [Next]_vars, ~ ScopeForgotten
  PROVE  OwedInv'
<1>0. /\ OwedInv /\ ReceiptedInv /\ SettledInv /\ ClaimInv /\ LedgerInv /\ ServingInv
      /\ started \in Nat /\ ledger \in Ledger \cup {None}
      /\ record # None => record = started
      /\ None \notin Epochs
  BY LifecycleAssumption DEF OrderInv, HostInv, TypeOK, StartInv, Epochs
<1> SUFFICES ASSUME NEW e \in Epochs, NEW w \in Workspaces, Owed(e, w)'
             PROVE  /\ ledger' # None /\ e <= started' /\ (e = started' => LedgerOf(e)')
                    /\ IF LedgerOf(e)' THEN w \in ledger'.known ELSE Hinted(e, w)'
  BY DEF OwedInv
<1>9. e \in Nat
  BY DEF Epochs
<1>1. CASE Owed(e, w)
  <2>0. /\ ledger # None /\ e <= started /\ (e = started => LedgerOf(e))
        /\ IF LedgerOf(e) THEN w \in ledger.known ELSE Hinted(e, w)
    BY <1>0, <1>1 DEF OwedInv
\* What the ledger of another epoch does not tell, a receipt does, and goes on to.
  <2>1. ~ LedgerOf(e) => Receipted(e) /\ Hinted(e, w)'
    <3>1. ~ LedgerOf(e) => record # e
      BY <1>0, <2>0
    <3>2. ~ LedgerOf(e) => Receipted(e)
      BY <1>0, <1>1, <3>1 DEF ReceiptedInv
    <3> QED
      BY <1>0, <1>1, <2>0, <3>2, ReceiptStays
  <2>2. started' = started \/ (started' = started + 1 /\ started' # e)
    <3>1. started' = started \/ started' = started + 1
      BY RecordEvolves DEF WriteRecord
    <3> QED
      BY <1>0, <1>9, <2>0, <3>1
  <2>3. CASE ~ BeginCallerTurn
    <3>1. KeepsLedger
      BY <2>3, LedgerEvolves
    <3>2. /\ ledger' # None /\ (LedgerOf(e)' <=> LedgerOf(e))
          /\ LedgerOf(e) => ledger.known \subseteq ledger'.known
      BY <2>0, <3>1 DEF KeepsLedger, LedgerOf
    <3> QED
      BY <1>0, <1>9, <2>0, <2>1, <2>2, <3>2
  <2>4. CASE BeginCallerTurn
    <3>1. record = started /\ UNCHANGED <<started, receipts>>
      BY <1>0, <2>4, TurnBegins DEF PassOnly
    <3>2. CASE UNCHANGED ledger
      BY <2>0, <2>1, <3>1, <3>2 DEF LedgerOf
    <3>3. CASE /\ ledger' # None /\ ledger'.epoch = started
               /\ Lives /\ ledger.epoch = started /\ ledger.known \subseteq ledger'.known
      BY <2>0, <2>1, <3>1, <3>3 DEF LedgerOf
    <3>4. CASE ledger' # None /\ ledger'.epoch = started /\ ledger.ended /\ ledger.epoch < started
      <4>1. e # started
        BY <1>0, <2>0, <3>4 DEF LedgerOf
      <4>2. LedgerOf(e) => Hinted(e, w)
        BY <1>1, <3>4, <4>1 DEF ScopeForgotten, Owing, Owed, Reserving, LedgerOf, Hinted
      <4>3. Hinted(e, w)'
        BY <2>0, <3>1, <4>2 DEF Hinted
      <4> QED
        BY <1>0, <2>0, <3>1, <3>4, <4>1, <4>3 DEF LedgerOf
    <3> QED
      BY <1>0, <2>0, <2>4, <3>2, <3>3, <3>4, TurnBegins
  <2> QED
    BY <2>3, <2>4
\* A child that is let in serves the recorded epoch, and its workspace is in the ledger.
<1>2. CASE ~ Owed(e, w)
  <2>1. ~ Receipted(e) /\ record = e
    BY <1>0, <1>2, OwedBefore
  <2>2. Enters
    BY <1>2, OwingEvolves DEF OwesLess, Owed
  <2>3. UNCHANGED <<started, ledger, open, receipts>> /\ child.step = "own"
        /\ child' = [child EXCEPT !.step = "persist"]
    BY <2>2 DEF Enters, FenceOwn, ChildOnly
  <2>4. child.epoch = e /\ child.workspace = w
    <3>1. child \in [step: ChildSteps, epoch: 0..MaxEpoch, workspace: Workspaces]
      BY DEF HostInv, TypeOK
    <3> QED
      BY <1>2, <2>3, <3>1 DEF Owed, Reserving
  <2>5. e = started /\ LedgerOf(started) /\ w \in ledger.known
    BY <1>0, <2>1, <2>3, <2>4, LifecycleAssumption DEF ClaimInv, Inside, Epochs
  <2> QED
    BY <1>0, <2>3, <2>5 DEF LedgerOf
<1> QED
  BY <1>1, <1>2

\* A token that still is that of a receipt stands for the same receipt.
LEMMA TokenStands ==
  ASSUME HostInv, HostInv', [Next]_vars, NEW e \in Epochs, NEW t \in Nat, t <= receipts[e].token
  PROVE  /\ t <= receipts'[e].token
         /\ receipts'[e].state = "pending" /\ t = receipts'[e].token =>
               t = receipts[e].token /\ receipts'[e] = receipts[e]
<1>1. Evolves(e)
  BY ReceiptsEvolve
<1>2. receipts[e].token \in Nat /\ receipts'[e].token \in Nat
  <2>1. receipts[e] \in Receipt /\ receipts'[e] \in Receipt
    BY DEF HostInv, TypeOK
  <2> QED
    BY <2>1 DEF Receipt
<1> QED
  BY <1>1, <1>2 DEF Evolves


\* A listed receipt that kept its token kept its hints.
LEMMA NextKeepsToken ==
  ASSUME Orderly, HostInv, HostInv', OrderInv, [Next]_vars
  PROVE  TokenInv'
<1> DEFINE p == pass["prompt"]
           q == pass'["prompt"]
           Stands(o, e) ==
             /\ o.seen[e].token <= receipts'[e].token
             /\ receipts'[e].state = "pending" /\ o.seen[e].token = receipts'[e].token =>
                   o.seen[e].hints = receipts'[e].hints
<1>0. /\ TokenInv /\ ~ Overlaps /\ p \in Pass /\ q \in Pass
      /\ p.todo \subseteq Epochs /\ q.todo \subseteq Epochs
      /\ \A e \in Epochs : /\ p.seen[e].token \in Nat /\ receipts'[e].token \in Nat
      /\ p.step = "ledger" => p.epoch \in Epochs
      /\ IdlePass.step = "idle" /\ IdlePass.todo = {}
  <2>1. p \in Pass /\ q \in Pass
    BY DEF HostInv, TypeOK, Hooks
  <2>2. \A e \in Epochs : p.seen[e] \in Receipt /\ receipts'[e] \in Receipt
    BY <2>1 DEF Pass, HostInv, TypeOK
  <2> QED
    BY <2>1, <2>2 DEF OrderInv, Orderly, Pass, Receipt, HostInv, PassInv, PromptWorks, IdlePass
<1>1. ASSUME NEW e \in Epochs, e \in Listed(p) PROVE Stands(p, e)
  <2>1. /\ p.seen[e].token <= receipts[e].token
        /\ Pending(e) /\ p.seen[e].token = receipts[e].token => p.seen[e].hints = receipts[e].hints
    BY <1>0, <1>1 DEF TokenInv
  <2>2. /\ p.seen[e].token <= receipts'[e].token
        /\ receipts'[e].state = "pending" /\ p.seen[e].token = receipts'[e].token =>
              p.seen[e].token = receipts[e].token /\ receipts'[e] = receipts[e]
    BY <1>0, <2>1, TokenStands
  <2> QED
    BY <2>1, <2>2 DEF Pending
<1>2. Listed(p) \subseteq Epochs /\ (q.step = "ledger" => q.epoch \in Epochs)
  BY <1>0 DEF Listed, HostInv, PassInv, PromptWorks
<1>3. ASSUME \A e \in Listed(q) : Stands(q, e), q.step = "ledger" => q.token = q.seen[q.epoch].token
      PROVE  TokenInv'
  BY <1>3 DEF TokenInv, Pending, Listed
<1>4. CASE q = p
  BY <1>0, <1>1, <1>2, <1>3, <1>4 DEF TokenInv
<1>5. CASE q = IdlePass
  <2>1. Listed(q) = {} /\ q.step # "ledger"
    BY <1>0, <1>5 DEF Listed
  <2> QED
    BY <1>3, <2>1
<1>6. CASE Onward(p, q) /\ p.step \in PromptWorks /\ q.step # "ledger"
  <2>1. Listed(q) \subseteq Listed(p) /\ q.seen = p.seen
    BY <1>6 DEF Listed, Onward
  <2> QED
    BY <1>1, <1>2, <1>3, <1>6, <2>1
<1>7. CASE Working("prompt") \/ HookKilled("prompt")
  <2>1. "prompt" \in Hooks /\ "prompt" # "end"
    BY DEF Hooks
  <2>2. q = IdlePass \/ (Onward(p, q) /\ p.step \in PromptWorks /\ q.step # "ledger")
    BY <1>7, <2>1, SettlingMoves DEF PromptWorks
  <2> QED
    BY <1>5, <1>6, <2>2
<1>8. CASE Prompt
  <2>1. CASE /\ q.step = "next" /\ q.todo = {e \in Epochs \ {p.turn} : Pending(e)}
             /\ \A e \in q.todo : q.seen[e] = receipts[e]
             /\ UNCHANGED receipts
    <3>1. Listed(q) = q.todo
      BY <2>1 DEF Listed
    <3>2. ASSUME NEW e \in q.todo PROVE Stands(q, e)
      BY <1>0, <2>1, <3>2
    <3> QED
      BY <1>3, <2>1, <3>1, <3>2
  <2>2. CASE /\ q.step = "ledger" /\ q.epoch \in p.todo /\ q.token = p.seen[q.epoch].token
             /\ q.todo = p.todo \ {q.epoch} /\ q.seen = p.seen
    <3>1. Listed(q) \subseteq Listed(p)
      BY <2>2 DEF Listed
    <3> QED
      BY <1>1, <1>2, <1>3, <2>2, <3>1
  <2>3. CASE q.todo = {} /\ q.step # "ledger"
    <3>1. Listed(q) = {}
      BY <2>3 DEF Listed
    <3> QED
      BY <1>3, <2>3, <3>1
  <2>4. CASE Onward(p, q) /\ q.step = "begin"
    <3>1. Listed(q) \subseteq Listed(p) /\ q.seen = p.seen
      BY <2>4 DEF Listed, Onward
    <3> QED
      BY <1>1, <1>2, <1>3, <2>4, <3>1
  <2> QED
    BY <1>0, <1>5, <1>6, <1>8, <2>1, <2>2, <2>3, <2>4, PromptMoves DEF Still, PromptWorks, GivesUp
<1> QED
  BY <1>0, <1>4, <1>5, <1>7, <1>8, HooksMove, HooksMoveOut DEF PromptActs

\* What is owed after the step, of an epoch of this state.
OwedNext(e, w) ==
    <<e, w>> \in open' \/ (child'.step = "persist" /\ child'.epoch = e /\ child'.workspace = w)

\* The same, for the epoch a hook works for.
LEMMA OwedNextBefore ==
  ASSUME HostInv, ReceiptedInv, [Next]_vars, NEW e \in Epochs, NEW w \in Workspaces,
         Receipted(e) \/ record # e, OwedNext(e, w)
  PROVE  Owed(e, w)
<1>1. Owed(e, w)'
  BY DEF OwedNext, Owed, Reserving
<1> QED
  BY <1>1, OwedBefore

\* The scope of the SessionEnd hook.
LEMMA NextKeepsEndScope ==
  ASSUME Orderly, HostInv, HostInv', OrderInv, [Next]_vars,
         pass'["end"].step \in {"merge"} \cup Visiting, pass'["end"].clean,
         NEW w \in Workspaces, OwedNext(pass'["end"].epoch, w)
  PROVE  w \in pass'["end"].scope
<1> DEFINE p == pass["end"]
           q == pass'["end"]
<1>0. /\ ScopeInv /\ OwedInv /\ ReceiptedInv /\ "end" \in Hooks
      /\ p.step \in EndWorks => p.epoch \in Epochs
      /\ IdlePass.step = "idle" /\ "idle" \notin {"merge"} \cup Visiting
      /\ ledger \in Ledger \cup {None}
  BY LifecycleAssumption DEF OrderInv, Hooks, HostInv, PassInv, TypeOK, Epochs, IdlePass, Visiting
<1>1. \/ /\ p.step \in {"merge"} \cup Visiting /\ p.clean /\ q.epoch = p.epoch /\ q.scope = p.scope
      \/ /\ p.step = "enumerate" /\ q.epoch = p.epoch /\ q.scope = Known
         /\ ledger # None => ledger.epoch = p.epoch
  <2>1. CASE q = p
    BY <2>1
  <2>2. CASE Working("end") \/ HookKilled("end")
    <3>1. q # IdlePass
      BY <1>0
    <3>2. q.step \notin {"identity"}
      BY DEF Visiting
    <3>3. p.step \in {"discover", "settle"} /\ (q.clean => p.clean) /\ Onward(p, q) /\ Proved(p, q)
      BY <1>0, <2>2, <3>1, <3>2, SettlingMoves
    <3> QED
      BY <3>3 DEF Onward, Proved, Visiting
  <2>3. CASE SessionEnd
    <3>1. q # IdlePass /\ q.step \notin {"publish", "enumerate", "hooks"}
      BY <1>0 DEF Visiting
    <3> QED
      BY <2>3, <3>1, EndMoves DEF Walks, Visiting
  <2>4. CASE q.step = "resolve"
    BY <2>4 DEF Visiting
  <2> QED
    BY <2>1, <2>2, <2>3, <2>4, HooksMove DEF EndActs
<1>2. p.epoch \in Epochs /\ Receipted(p.epoch) /\ q.epoch = p.epoch
  <2>1. p.step \in EndWorks \ {"publish"}
    BY <1>1 DEF Visiting, EndWorks, EndSteps
  <2> QED
    BY <1>0, <1>1, <2>1 DEF ReceiptedInv
<1>3. Owed(p.epoch, w)
  <2>1. OwedNext(p.epoch, w)
    BY <1>2
  <2> QED
    BY <1>0, <1>2, <2>1, OwedNextBefore
<1>4. CASE p.step \in {"merge"} \cup Visiting /\ p.clean /\ q.scope = p.scope
  BY <1>0, <1>2, <1>3, <1>4 DEF ScopeInv
<1>5. CASE q.scope = Known /\ (ledger # None => ledger.epoch = p.epoch)
  <2>1. LedgerOf(p.epoch) /\ w \in ledger.known
    BY <1>0, <1>2, <1>3, <1>5 DEF OwedInv, LedgerOf
  <2> QED
    BY <1>5, <2>1 DEF Known, LedgerOf
<1> QED
  BY <1>1, <1>4, <1>5

\* The scope of the prompt hook before it is persisted ...
LEMMA NextKeepsMergeScope ==
  ASSUME Orderly, HostInv, HostInv', OrderInv, [Next]_vars,
         pass'["prompt"].step = "merge"
  PROVE  /\ ledger' # None /\ ledger'.epoch = pass'["prompt"].epoch
         /\ ledger'.known \subseteq pass'["prompt"].scope
<1> DEFINE p == pass["prompt"]
           q == pass'["prompt"]
<1>0. /\ ScopeInv /\ LedgerInv /\ ServingInv /\ ~ Overlaps /\ "prompt" \in Hooks
      /\ IdlePass.step = "idle" /\ "prompt" # "end"
  BY DEF OrderInv, Orderly, Hooks, IdlePass
<1>1. \/ q = p /\ p.step = "merge"
      \/ /\ Still /\ ledger # None /\ ledger.epoch = p.epoch /\ q.epoch = p.epoch
         /\ ledger.known \subseteq q.scope
  <2>1. CASE Working("prompt") \/ HookKilled("prompt")
    <3>1. q.step \in {"discover", "settle", "next", "idle"}
      BY <1>0, <2>1, SettlingMoves
    <3> QED
      BY <3>1
  <2>2. CASE Prompt
    BY <1>0, <2>2, PromptMoves DEF Onward, GivesUp
  <2>3. q # IdlePass
    BY <1>0
  <2> QED
    BY <1>0, <2>1, <2>2, <2>3, HooksMove, HooksMoveOut DEF PromptActs
<1>2. CASE q = p /\ p.step = "merge"
  <2>1. LedgerOf(p.epoch) /\ ledger.known \subseteq p.scope
    BY <1>0, <1>2 DEF ScopeInv
  <2>2. live /\ record = p.turn /\ p.epoch # p.turn
    BY <1>0, <1>2 DEF ServingInv, PromptWorks
  <2>3. ~ Lives
    BY <1>0, <2>1, <2>2 DEF LedgerInv, LedgerOf
  <2>4. ~ BeginCallerTurn
    BY <1>2 DEF BeginCallerTurn, At
  <2>5. KeepsLedger
    BY <2>4, LedgerEvolves
  <2>6. ledger'.known = ledger.known
    <3>1. CASE PersistClaim
      BY <2>3, <3>1 DEF PersistClaim, Lives
    <3>2. CASE Known' = Known
      BY <2>1, <2>5, <3>2 DEF Known, KeepsLedger, LedgerOf
    <3> QED
      BY <2>4, <3>1, <3>2, LedgerEvolves
  <2> QED
    BY <1>2, <2>1, <2>5, <2>6 DEF KeepsLedger, LedgerOf
<1>3. CASE /\ Still /\ ledger # None /\ ledger.epoch = p.epoch /\ q.epoch = p.epoch
           /\ ledger.known \subseteq q.scope
  BY <1>3 DEF Still
<1> QED
  BY <1>1, <1>2, <1>3

\* ... and since.
LEMMA NextKeepsPromptScope ==
  ASSUME Orderly, HostInv, HostInv', OrderInv, [Next]_vars,
         pass'["prompt"].step \in Visiting
  PROVE  LET q == pass'["prompt"]
             r == receipts'[q.epoch]
         IN  /\ q.token <= r.token
             /\ r.state = "pending" /\ q.token = r.token =>
                   \A w \in Workspaces : OwedNext(q.epoch, w) => w \in q.scope
<1> DEFINE p == pass["prompt"]
           q == pass'["prompt"]
           e == p.epoch
<1>0. /\ ScopeInv /\ TokenInv /\ OwedInv /\ ReceiptedInv /\ ServingInv /\ ~ Overlaps
      /\ "prompt" \in Hooks /\ "prompt" # "end"
      /\ IdlePass.step = "idle" /\ "idle" \notin Visiting /\ "list" \notin Visiting
      /\ "next" \notin Visiting /\ "ledger" \notin Visiting /\ "merge" \notin Visiting
      /\ "begin" \notin Visiting
      /\ p.token \in Nat /\ q.token \in Nat
      /\ p.step \in PromptWorks => e \in Epochs
  BY DEF OrderInv, Orderly, Hooks, IdlePass, Visiting, HostInv, TypeOK, Pass, PassInv
<1>1. \/ /\ p.step \in Visiting \cap PromptWorks /\ q.epoch = e /\ Proved(p, q)
      \/ /\ Still /\ p.step = "ledger" /\ (ledger # None => ledger.epoch # e)
         /\ q.epoch = e /\ q.token = p.token /\ q.scope = {Origin} \cup p.seen[e].hints
      \/ /\ p.step = "merge" /\ Publish(e, p.scope, p.endedAt) /\ q.scope = p.scope
         /\ q.epoch = e /\ q.token = Published(e, p.scope, p.endedAt).token
  <2>0. q # IdlePass
    BY <1>0
  <2>1. CASE Working("prompt") \/ HookKilled("prompt")
    <3>1. p.step \in {"discover", "settle", "receipt"} /\ Onward(p, q) /\ Proved(p, q)
      BY <1>0, <2>0, <2>1, SettlingMoves
    <3> QED
      BY <3>1 DEF Onward, Visiting, PromptWorks
  <2>2. CASE Prompt
    <3>1. "settle" \in Visiting \cap PromptWorks
      BY DEF Visiting, PromptWorks
    <3> QED
      BY <1>0, <2>0, <2>2, <3>1, PromptMoves DEF Onward, GivesUp
  <2>3. CASE q = p
    <3>1. p.step \in PromptWorks
      <4>1. p.step \in {"idle"} \cup PromptSteps
        BY DEF HostInv, PassInv
      <4> QED
        BY <2>3, <4>1 DEF Visiting, PromptWorks, PromptSteps
    <3> QED
      BY <2>3, <3>1 DEF Proved
  <2> QED
    BY <1>0, <2>0, <2>1, <2>2, <2>3, HooksMove, HooksMoveOut DEF PromptActs
<1>2. e \in Epochs /\ q.epoch = e /\ e \in 0..MaxEpoch
  BY <1>0, <1>1 DEF PromptWorks, Epochs
<1>3. \A w \in Workspaces : OwedNext(e, w) => Owed(e, w)
  <2>1. record # e
    BY <1>0, <1>1 DEF ServingInv, PromptWorks
  <2> QED
    BY <1>0, <1>2, <2>1, OwedNextBefore
<1>4. \A w \in Workspaces : OwedNext(q.epoch, w) => OwedNext(e, w)
  BY <1>2
<1>5. CASE p.step \in Visiting /\ Proved(p, q)
  <2>1. /\ p.token <= receipts[e].token
        /\ receipts[e].state = "pending" /\ p.token = receipts[e].token =>
              \A w \in Workspaces : Owed(e, w) => w \in p.scope
    BY <1>0, <1>5 DEF ScopeInv
  <2>2. /\ p.token <= receipts'[e].token
        /\ receipts'[e].state = "pending" /\ p.token = receipts'[e].token =>
              p.token = receipts[e].token /\ receipts'[e] = receipts[e]
    BY <1>0, <1>2, <2>1, TokenStands
  <2> QED
    BY <1>2, <1>3, <1>4, <1>5, <2>1, <2>2 DEF Proved
\* The ledger is not of the epoch, so that the hints of the listed receipt are the scope.
<1>6. CASE /\ Still /\ p.step = "ledger" /\ (ledger # None => ledger.epoch # e)
           /\ q.token = p.token /\ q.scope = {Origin} \cup p.seen[e].hints
  <2>1. /\ p.token = p.seen[e].token /\ p.seen[e].token <= receipts[e].token
        /\ Pending(e) /\ p.seen[e].token = receipts[e].token => p.seen[e].hints = receipts[e].hints
    BY <1>0, <1>6 DEF TokenInv, Listed
  <2>2. receipts' = receipts
    BY <1>6 DEF Still
  <2>3. \A w \in Workspaces : Owed(e, w) => Hinted(e, w)
    BY <1>0, <1>2, <1>6 DEF OwedInv, LedgerOf
  <2> QED
    BY <1>2, <1>3, <1>4, <1>6, <2>1, <2>2, <2>3 DEF Pending, Hinted
<1>7. CASE /\ p.step = "merge" /\ Publish(e, p.scope, p.endedAt) /\ q.scope = p.scope
           /\ q.token = Published(e, p.scope, p.endedAt).token
  <2>1. receipts'[e] = Published(e, p.scope, p.endedAt)
    BY <1>2, <1>7 DEF Publish, HostInv, TypeOK
  <2>2. q.token = receipts'[e].token /\ receipts'[e].token \in Nat
    BY <1>0, <1>7, <2>1
  <2>3. LedgerOf(e) /\ ledger.known \subseteq p.scope
    BY <1>0, <1>7 DEF ScopeInv
  <2>4. \A w \in Workspaces : Owed(e, w) => w \in p.scope
    BY <1>0, <1>2, <2>3 DEF OwedInv
  <2> QED
    BY <1>2, <1>3, <1>4, <1>7, <2>2, <2>4
<1> QED
  BY <1>1, <1>5, <1>6, <1>7

\* The three parts of the scopes.
LEMMA NextKeepsScope ==
  ASSUME Orderly, HostInv, HostInv', OrderInv, [Next]_vars
  PROVE  ScopeInv'
<1>1. ASSUME (pass["end"].step \in {"merge"} \cup Visiting /\ pass["end"].clean)'
      PROVE  (\A w \in Workspaces : Owed(pass["end"].epoch, w) => w \in pass["end"].scope)'
  <2> SUFFICES ASSUME NEW w \in Workspaces, Owed(pass["end"].epoch, w)'
               PROVE  w \in pass'["end"].scope
    OBVIOUS
  <2>1. pass'["end"].step \in {"merge"} \cup Visiting /\ pass'["end"].clean
    BY <1>1 DEF Visiting
  <2>2. OwedNext(pass'["end"].epoch, w)
    BY DEF OwedNext, Owed, Reserving
  <2> QED
    BY <2>1, <2>2, NextKeepsEndScope
<1>2. ASSUME (pass["prompt"].step = "merge")'
      PROVE  (LedgerOf(pass["prompt"].epoch) /\ ledger.known \subseteq pass["prompt"].scope)'
  BY <1>2, NextKeepsMergeScope DEF LedgerOf
<1> QED
  BY <1>1, <1>2, NextKeepsPromptScope DEF ScopeInv, OwedNext, Owed, Reserving, Visiting

\* Where a hook has been, with what it knows of the next state.
LEMMA NextKeepsVisit ==
  ASSUME Orderly, HostInv, HostInv', OrderInv, [Next]_vars
  PROVE  VisitInv'
<1> SUFFICES ASSUME NEW h \in Hooks PROVE Visited(pass[h])'
  BY DEF VisitInv
<1> DEFINE p == pass[h]
           q == pass'[h]
           e == p.epoch
           seen(o) == o.scope \ (IF o.step = "discover" THEN o.left ELSE {})
<1>0. /\ Visited(p) /\ ReceiptedInv /\ ServingInv /\ ~ Overlaps
      /\ IdlePass.step = "idle"
      /\ {"idle", "identity", "next", "list", "ledger", "merge", "begin", "resolve", "publish",
          "enumerate", "hooks"} \cap Visiting = {}
      /\ Hooks = {"end", "prompt"}
  BY DEF OrderInv, Orderly, VisitInv, IdlePass, Visiting, Hooks
<1>1. Visited(pass[h])' <=>
        (q.step \in Visiting =>
           /\ \A w \in seen(q) :
                 /\ ~ (child'.step = "persist" /\ child'.epoch = q.epoch /\ child'.workspace = w)
                 /\ q.clean /\ <<q.epoch, w>> \in open' => w \in q.found
           /\ q.step \notin {"discover", "settle"} => q.found = {})
  BY DEF Visited, Visiting, Reserving
<1>2. Visited(p) <=>
        (p.step \in Visiting =>
           /\ \A w \in seen(p) :
                 /\ ~ Reserving(e, w)
                 /\ p.clean /\ <<e, w>> \in open => w \in p.found
           /\ p.step \notin {"discover", "settle"} => p.found = {})
  BY DEF Visited
\* The epoch of a hook that has been somewhere does not come to owe anything new there.
<1>3. ASSUME p.step \in Visiting, NEW w \in Workspaces
      PROVE  /\ child'.step = "persist" /\ child'.epoch = e /\ child'.workspace = w => Reserving(e, w)
             /\ <<e, w>> \in open' => Owed(e, w)
  <2>1. e \in Epochs /\ (Receipted(e) \/ record # e)
    <3>1. CASE h = "end"
      <4>1. p.step \in EndWorks \ {"publish"}
        BY <1>3, <3>1 DEF Visiting, EndWorks, EndSteps
      <4>2. e \in 1..started /\ started \in Epochs
        BY <3>1, <4>1 DEF HostInv, PassInv, TypeOK
      <4>3. e \in Epochs
        BY <4>2, LifecycleAssumption DEF Epochs
      <4>4. Receipted(e)
        BY <1>0, <3>1, <4>1 DEF ReceiptedInv
      <4> QED
        BY <4>3, <4>4
    <3>2. CASE h = "prompt"
      <4>1. p.step \in PromptWorks
        <5>1. p.step \in {"idle"} \cup PromptSteps
          BY <3>2 DEF HostInv, PassInv
        <5> QED
          BY <1>3, <5>1 DEF Visiting, PromptWorks, PromptSteps
      <4>2. "idle" \notin PromptWorks
        BY DEF PromptWorks
      <4> QED
        BY <1>0, <3>2, <4>1, <4>2 DEF ServingInv, HostInv, PassInv
    <3> QED
      BY <1>0, <3>1, <3>2
  <2>2. OwedNext(e, w) => Owed(e, w)
    BY <1>0, <2>1, OwedNextBefore
  <2>3. child'.step = "persist" /\ child'.epoch = e /\ child'.workspace = w => Reserving(e, w)
    BY <1>0, <2>1, OwedBefore DEF Reserving
  <2> QED
    BY <2>2, <2>3 DEF OwedNext
<1>4. /\ seen(p) \subseteq Workspaces /\ seen(q) \subseteq Workspaces
  <2>1. p \in Pass /\ q \in Pass
    BY DEF HostInv, TypeOK
  <2> QED
    BY <2>1 DEF Pass
<1> HIDE DEF seen
\* A hook that goes on with less to look for, or with a look behind it.
<1>5. ASSUME p.step \in Visiting, q.epoch = e, seen(q) \subseteq seen(p), q.clean => p.clean,
             p.found \subseteq q.found, q.step \notin {"discover", "settle"} => q.found = {}
      PROVE  Visited(pass[h])'
  <2> SUFFICES ASSUME NEW w \in seen(q)
               PROVE  /\ ~ (child'.step = "persist" /\ child'.epoch = e /\ child'.workspace = w)
                      /\ q.clean /\ <<e, w>> \in open' => w \in q.found
    BY <1>1, <1>5
  <2>1. ~ Reserving(e, w) /\ (p.clean /\ <<e, w>> \in open => w \in p.found)
    BY <1>0, <1>2, <1>5
  <2>2. /\ child'.step = "persist" /\ child'.epoch = e /\ child'.workspace = w => Reserving(e, w)
        /\ <<e, w>> \in open' => Owed(e, w)
    BY <1>3, <1>4, <1>5
  <2> QED
    BY <1>5, <2>1, <2>2 DEF Owed
<1>6. CASE q.step \notin Visiting
  BY <1>1, <1>6
<1>7. CASE q.step = "discover" /\ q.left = q.scope
  <2>1. seen(q) = {}
    BY <1>7 DEF seen
  <2> QED
    BY <1>1, <1>7, <2>1
<1>8. CASE q = p
  BY <1>0, <1>2, <1>5, <1>6, <1>8
<1>9. CASE Working(h) \/ HookKilled(h)
  <2>1. CASE \E w \in Workspaces :
                /\ Still /\ Onward(p, q) /\ Proved(p, q)
                /\ p.step = "discover" /\ q.step = "discover" /\ w \in p.left /\ ~ JobLocked(w)
                /\ q.clean = p.clean /\ q.left = p.left \ {w}
                /\ q.found = IF <<p.epoch, w>> \in open THEN p.found \cup {w} ELSE p.found
    <3>1. PICK w \in Workspaces :
                /\ Still /\ Onward(p, q) /\ Proved(p, q)
                /\ p.step = "discover" /\ q.step = "discover" /\ w \in p.left /\ ~ JobLocked(w)
                /\ q.clean = p.clean /\ q.left = p.left \ {w}
                /\ q.found = IF <<p.epoch, w>> \in open THEN p.found \cup {w} ELSE p.found
      BY <2>1
    <3>2. UNCHANGED <<open, child>>
      BY <3>1 DEF Still, PassOnly
    <3>3. q.epoch = e /\ p.step \in Visiting
      BY <3>1 DEF Onward, Visiting
    <3>4. child.step # "persist" \/ child.workspace # w
      BY <3>1 DEF JobLocked
    <3>5. seen(q) \subseteq seen(p) \cup {w}
      BY <3>1 DEF seen, Proved
    <3>6. \A x \in seen(q) : /\ ~ (child.step = "persist" /\ child.epoch = e /\ child.workspace = x)
                             /\ q.clean /\ <<e, x>> \in open => x \in q.found
      BY <1>0, <1>2, <3>1, <3>3, <3>4, <3>5 DEF Reserving
    <3> QED
      BY <1>1, <3>1, <3>2, <3>3, <3>6
  <2>2. CASE /\ Still /\ Onward(p, q) /\ Proved(p, q)
             /\ p.step = "discover" /\ q.step = "settle" /\ p.left = {} /\ q.left = {}
             /\ q.clean = p.clean /\ q.found = p.found
    <3>1. seen(q) \subseteq seen(p)
      BY <2>2 DEF seen, Proved
    <3> QED
      BY <1>5, <2>2, <3>1 DEF Onward, Visiting
  <2>3. CASE \E w \in Workspaces :
                /\ open' \subseteq open /\ UNCHANGED receipts /\ Onward(p, q) /\ Proved(p, q)
                /\ p.step = "settle" /\ q.step = "settle" /\ q.found = p.found \ {w}
                /\ \/ open' = open \ {<<p.epoch, w>>} /\ q.clean = p.clean
                   \/ open' = open /\ (q.clean <=> p.clean /\ <<p.epoch, w>> \notin open)
    <3>1. PICK w \in Workspaces :
                /\ open' \subseteq open /\ UNCHANGED receipts /\ Onward(p, q) /\ Proved(p, q)
                /\ p.step = "settle" /\ q.step = "settle" /\ q.found = p.found \ {w}
                /\ \/ open' = open \ {<<p.epoch, w>>} /\ q.clean = p.clean
                   \/ open' = open /\ (q.clean <=> p.clean /\ <<p.epoch, w>> \notin open)
      BY <2>3
    <3>2. q.epoch = e /\ p.step \in Visiting /\ seen(q) = seen(p)
      BY <3>1 DEF Onward, Visiting, seen, Proved
    <3>3. ASSUME NEW x \in seen(q), q.clean, <<e, x>> \in open' PROVE x \in q.found
      <4>1. p.clean /\ <<e, x>> \in open /\ x # w
        BY <3>1, <3>3
      <4> QED
        BY <1>0, <1>2, <3>1, <3>2, <3>3, <4>1
    <3>4. ASSUME NEW x \in seen(q)
          PROVE  ~ (child'.step = "persist" /\ child'.epoch = e /\ child'.workspace = x)
      BY <1>0, <1>2, <1>3, <1>4, <3>2, <3>4
    <3> QED
      BY <1>1, <3>1, <3>2, <3>3, <3>4
  <2>4. CASE q.step = IF h = "end" THEN "identity" ELSE "next"
    BY <1>0, <1>6, <2>4
  <2>5. CASE q = IdlePass
    BY <1>0, <1>6, <2>5
  <2> QED
    BY <1>9, <2>1, <2>2, <2>3, <2>4, <2>5, SettlingMoves
<1>10. CASE h = "end" /\ SessionEnd
  <2>1. CASE Walks(p, q)
    <3>1. /\ q.epoch = e /\ q.scope = p.scope /\ q.found = p.found /\ (q.clean => p.clean)
          /\ p.step \in Visiting /\ q.step \notin {"discover", "settle"}
          /\ p.step # "discover" /\ (p.step = "settle" => p.found = {})
      BY <2>1 DEF Walks, Visiting
    <3>2. seen(q) \subseteq seen(p) /\ q.found = {}
      BY <1>0, <1>2, <3>1 DEF seen
    <3> QED
      BY <1>5, <3>1, <3>2
  <2> QED
    BY <1>0, <1>6, <1>7, <1>10, <2>1, EndMoves
<1>11. CASE h = "prompt" /\ Prompt
  <2>1. CASE /\ p.step = "settle" /\ q.step = "receipt" /\ p.found = {} /\ q.found = {}
             /\ Onward(p, q) /\ Proved(p, q) /\ q.clean = p.clean
    <3>1. seen(q) \subseteq seen(p)
      BY <2>1 DEF seen, Proved
    <3> QED
      BY <1>5, <2>1, <3>1 DEF Onward, Visiting
  <2> QED
    BY <1>0, <1>6, <1>7, <1>11, <2>1, PromptMoves DEF GivesUp
<1>12. CASE q.step = "resolve"
  BY <1>0, <1>6, <1>12
<1>13. CASE q = IdlePass
  BY <1>0, <1>6, <1>13
<1> QED
  BY <1>0, <1>8, <1>9, <1>10, <1>11, <1>12, <1>13, HooksMove, HooksMoveOut DEF EndActs, PromptActs

\* A first host process owes nothing yet.
LEMMA InitOrder == Init => OrderInv
<1> SUFFICES ASSUME Init PROVE OrderInv
  OBVIOUS
<1>1. /\ ServingInv /\ LedgerInv /\ ClaimInv /\ CompensatedInv /\ ReceiptedInv /\ OwedInv
      /\ SettledInv /\ ScopeInv /\ FencingInv
  BY LifecycleAssumption
     DEF Init, IdleChild, IdleStart, IdlePass, Hooks, ServingInv, LedgerInv, ClaimInv, FencingInv,
         CompensatedInv, ReceiptedInv, OwedInv, SettledInv, ScopeInv, Owed, Coming,
         Reserving, Lives, LedgerOf, At, Inside, EndWorks, EndSteps, PromptWorks, Visiting, Nothing
<1>2. TokenInv /\ VisitInv
  BY DEF Init, IdlePass, Hooks, TokenInv, Listed, VisitInv, Visited, Visiting
<1> QED
  BY <1>1, <1>2 DEF OrderInv

\* The eleven parts together are inductive, as long as the end of an epoch leaves the record of
\* its successor alone and no turn replaces a ledger that knows more than the receipt.
LEMMA OrderStep ==
  ASSUME Orderly, HostInv, HostInv', OrderInv, [Next]_vars, RecordSpared, ~ ScopeForgotten
  PROVE  OrderInv'
BY NextKeepsServing, NextKeepsLedger, NextKeepsClaim, NextKeepsFencing, NextKeepsCompensated,
   NextKeepsReceipted, NextKeepsOwed, NextKeepsSettled, NextKeepsScope, NextKeepsToken,
   NextKeepsVisit DEF OrderInv

LEMMA OrderInvariant == Orderly => (Spec /\ SuccessorRecordKept /\ ScopeKept => []OrderInv)
<1> SUFFICES ASSUME Orderly PROVE Spec /\ SuccessorRecordKept /\ ScopeKept => []OrderInv
  OBVIOUS
<1>1. HostInv /\ HostInv' /\ OrderInv /\ [Next]_vars /\ [RecordSpared]_vars
        /\ [~ ScopeForgotten]_vars => OrderInv'
  <2>1. UNCHANGED vars => RecordSpared /\ ~ ScopeForgotten
    BY DEF vars, RecordSpared, ScopeForgotten
  <2> QED
    BY <2>1, OrderStep
<1>2. SuccessorRecordKept <=> [][RecordSpared]_vars
  BY DEF SuccessorRecordKept, RecordSpared
<1> QED
  BY HostInvariant, InitOrder, <1>1, <1>2, PTL DEF Spec, ScopeKept

\* What the invariant says of the receipts.
LEMMA OrderShows ==
  ASSUME HostInv, OrderInv
  PROVE  SettledIsDischarged /\ OwedIsDiscoverable /\ ReplacedIsReceipted
<1>1. SettledIsDischarged
  BY DEF OrderInv, SettledInv, Owed, SettledIsDischarged
<1>2. OwedIsDiscoverable
  BY DEF OrderInv, OwedInv, Owed, Hinted, LedgerOf, OwedIsDiscoverable
<1>3. ReplacedIsReceipted
  <2> SUFFICES ASSUME NEW e \in Epochs, NEW w \in Workspaces,
                      record # None, e < record, <<e, w>> \in open
               PROVE  receipts[e].state # "none"
    BY DEF ReplacedIsReceipted
  <2>1. record # e
    BY DEF HostInv, TypeOK, Epochs
  <2> QED
    BY <2>1 DEF OrderInv, ReceiptedInv, Owed, Receipted
<1> QED
  BY <1>1, <1>2, <1>3

-----------------------------------------------------------------------------
(***************************************************************************)
(* At most one failure.  The turn of a prompt replaces the ledger of a     *)
(* prior epoch, whether the reconciliation before it was done or failed.   *)
(* A reconciliation that fails is the one failure, so that the epoch had   *)
(* gone without: its SessionEnd hook, or the resume that followed it, has  *)
(* told the receipt what the ledger knew.  TellingInv says where.          *)
(***************************************************************************)

TellsAll(e) == \A w \in Workspaces : Owed(e, w) => Hinted(e, w)

\* The SessionEnd hook knows whether its receipt was told, and ends the ledger only then.
Early == {"idle", "resolve", "publish", "enumerate", "merge"}
KnowingInv ==
    /\ pass["end"].step \in Early => pass["end"].clean
    /\ At("end", "hooks") => pass["end"].complete

EndTells == pass["end"].complete /\ pass["end"].step \notin Early => TellsAll(pass["end"].epoch)

StartTells ==
    faults = 0 /\ record # None
    /\ (start.step = "write" \/ (start.step = "cleanup" /\ ~ start.fenced)) => TellsAll(record)

LedgerTells == faults = 0 /\ ledger # None /\ ledger.epoch # record => TellsAll(ledger.epoch)

\* Before a prompt replaces the ledger, what it knows of its epoch is in the hints.
ReplaceInv ==
    LET p == pass["prompt"]
    IN  p.step \notin {"idle", "list"} /\ ledger # None /\ ledger.epoch # p.turn
        /\ (p.step = "begin" \/ ledger.epoch \notin p.todo)
        /\ ~ (p.step \in {"ledger", "merge"} /\ p.epoch = ledger.epoch) =>
           TellsAll(ledger.epoch)

TellingInv == KnowingInv /\ EndTells /\ StartTells /\ LedgerTells /\ ReplaceInv

\* Faults are counted one by one.
LEMMA FaultsGrow ==
  ASSUME HostInv, [Next]_vars
  PROVE  Fault \/ UNCHANGED faults
<1>1. CASE UNCHANGED vars
  BY <1>1 DEF vars
<1>2. CASE SessionStart
  BY <1>2 DEF SessionStart, BeginResume, ReadReceipt, EnumerateScope, MergeScope, ScanScope,
       PublishCompensation, CleanupIdentity, LockWorkspace, CompensateFenced, WriteRecord, StartFails,
       NoFault
<1>3. CASE Child
  BY <1>3 DEF Child, ChildOnly, SubagentStart, PersistClaim, FenceScan, FenceAnchor, FenceOwn,
              PersistReservation, NoFault
<1>4. CASE Settling
  BY <1>4 DEF Settling, Working, Discover, SettleObligation, RetainObligation, Discovered, SettlePass,
              HookKilled, NoFault
<1>5. CASE SessionEnd
  BY <1>5 DEF SessionEnd, ResolveEpoch, PublishSessionEnd, EnumerateEnd, MergeHints, BeginFence,
              FenceObligation, CheckForeign, EndFence, ReleaseOwner, EndRelease, EndIdentity,
              EndHookState, NoFault
<1>6. CASE Prompt
  BY <1>6 DEF Prompt, BeginPrompt, ListPending, NextReceipt, ReadLedger, PersistScope, PromptSettled,
              ReconciliationFails, BeginCallerTurn, NoFault
<1>7. CASE HostExit \/ HostKilled \/ (\E e \in Epochs, w \in Workspaces : JobEnds(e, w))
           \/ \E e \in Epochs : PruneReceipt(e)
  BY <1>7 DEF HostExit, HostKilled, JobEnds, PruneReceipt
<1> QED
  BY <1>1, <1>2, <1>3, <1>4, <1>5, <1>6, <1>7 DEF Next

\* Before its merge the SessionEnd hook is clean; the merge tells the receipt or is known to
\* have failed, and the ledger ends only if it told.
LEMMA EndKnows ==
  ASSUME HostInv, [Next]_vars
  PROVE  LET p == pass["end"]
             q == pass'["end"]
         IN  \/ q = IdlePass
             \/ q.clean = p.clean /\ p.step \in Early /\ q.step \in Early
             \/ q.step = "discover" /\ ~ q.complete
             \/ /\ p.step = "merge" /\ q.step = "discover" /\ q.epoch = p.epoch
                /\ Publish(p.epoch, p.scope, p.endedAt)
             \/ /\ q.complete = p.complete /\ q.epoch = p.epoch
                /\ p.step \notin Early /\ q.step \notin Early
                /\ q.step = "hooks" => p.step = "hooks" \/ p.complete
<1> USE PassTypes
<1> DEFINE p == pass["end"]
           q == pass'["end"]
           Later == /\ q.complete = p.complete /\ q.epoch = p.epoch
                    /\ p.step \notin Early /\ q.step \notin Early
                    /\ q.step = "hooks" => p.step = "hooks" \/ p.complete
           Sooner == q.clean = p.clean /\ p.step \in Early /\ q.step \in Early
<1>1. CASE q = p
  BY <1>1 DEF Early
<1>2. CASE HostExit
  <2>1. q = [p EXCEPT !.step = "resolve"] /\ p.step = "idle"
    BY <1>2 DEF HostExit, At
  <2> QED
    BY <2>1 DEF Pass, Early
<1>3. CASE Working("end") \/ HookKilled("end")
  <2>1. ASSUME NEW w \in Workspaces, Discover("end", w) PROVE Later
    <3> DEFINE f == IF <<p.epoch, w>> \in open THEN p.found \cup {w} ELSE p.found
    <3>1. p.step = "discover" /\ q = [p EXCEPT !.left = @ \ {w}, !.found = f]
      BY <2>1, PassIs DEF Discover, At
    <3> HIDE DEF f
    <3> QED
      BY <3>1 DEF Pass, Early
  <2>2. ASSUME NEW w \in Workspaces, SettleObligation("end", w) PROVE Later
    <3>1. p.step = "settle" /\ q = [p EXCEPT !.found = @ \ {w}]
      BY <2>2, PassIs DEF SettleObligation, At
    <3> QED
      BY <3>1 DEF Pass, Early
  <2>3. ASSUME NEW w \in Workspaces, RetainObligation("end", w) PROVE Later
    <3> DEFINE c == p.clean /\ <<p.epoch, w>> \notin open
    <3>1. p.step = "settle" /\ q = [p EXCEPT !.found = @ \ {w}, !.clean = c, !.unsafe = @ \cup {w}]
      BY <2>3, PassIs DEF RetainObligation, At
    <3> HIDE DEF c
    <3> QED
      BY <3>1 DEF Pass, Early
  <2>4. ASSUME Discovered("end") PROVE Later
    <3>1. p.step = "discover" /\ q = [p EXCEPT !.step = "settle"]
      BY <2>4, PassIs DEF Discovered, At, Goes
    <3> QED
      BY <3>1 DEF Pass, Early
  <2>5. ASSUME SettlePass("end") PROVE Later
    <3>1. p.step = "receipt" /\ q = [p EXCEPT !.step = "identity"]
      BY <2>5, PassIs DEF SettlePass, At, Goes, AfterReceipt
    <3> QED
      BY <3>1 DEF Pass, Early
  <2>6. CASE HookKilled("end")
    BY <2>6, PassIs DEF HookKilled, Leaves
  <2> QED
    BY <1>3, <2>1, <2>2, <2>3, <2>4, <2>5, <2>6 DEF Working
<1>4. CASE SessionEnd
  <2>1. ASSUME ResolveEpoch PROVE q = IdlePass \/ Sooner
    <3>1. p.step = "resolve" /\ (q = IdlePass \/ q = [p EXCEPT !.step = "publish", !.epoch = record])
      BY <2>1, PassIs DEF ResolveEpoch, At, Leaves
    <3> QED
      BY <3>1 DEF Pass, Early
  <2>2. ASSUME PublishSessionEnd PROVE q = IdlePass \/ Sooner
    <3> DEFINE r == Published(p.epoch, {Origin}, started)
               t == r.token
               d == r.endedAt
    <3>1. /\ p.step = "publish"
          /\ q = IdlePass \/ q = [p EXCEPT !.step = "enumerate", !.token = t, !.endedAt = d]
      BY <2>2, PassIs DEF PublishSessionEnd, At, Leaves
    <3> HIDE DEF t, d
    <3> QED
      BY <3>1 DEF Pass, Early
  <2>3. ASSUME EnumerateEnd PROVE Sooner \/ (q.step = "discover" /\ ~ q.complete)
    <3> DEFINE d == [p EXCEPT !.step = "discover", !.scope = {Origin}, !.left = {Origin}]
               n == [d EXCEPT !.clean = FALSE, !.complete = FALSE, !.unsafe = {Origin}]
    <3>1. p.step = "enumerate" /\ (q = [p EXCEPT !.step = "merge", !.scope = Known] \/ q = n)
      BY <2>3, PassIs DEF EnumerateEnd, At, Discovering
    <3>2. n.step = "discover" /\ ~ n.complete
      BY DEF Pass
    <3> HIDE DEF n
    <3> QED
      BY <3>1, <3>2 DEF Pass, Early
  <2>4. ASSUME MergeHints
        PROVE  \/ q.step = "discover" /\ ~ q.complete
               \/ /\ p.step = "merge" /\ q.step = "discover" /\ q.epoch = p.epoch
                  /\ Publish(p.epoch, p.scope, p.endedAt)
    <3> DEFINE t == Published(p.epoch, p.scope, p.endedAt).token
               d == Discovering(p, p.scope)
    <3>1. /\ p.step = "merge"
          /\ \/ q = [d EXCEPT !.token = t] /\ Publish(p.epoch, p.scope, p.endedAt)
             \/ q = [d EXCEPT !.complete = FALSE]
      BY <2>4, PassIs DEF MergeHints, At
    <3>2. d = [p EXCEPT !.step = "discover", !.scope = p.scope, !.left = p.scope]
      BY DEF Discovering
    <3> HIDE DEF d, t
    <3> QED
      BY <3>1, <3>2 DEF Pass
  <2>5. ASSUME BeginFence PROVE Later
    <3>1. /\ p.step = "settle"
          /\ \/ q = [p EXCEPT !.step = "fence", !.left = p.scope]
             \/ q = [p EXCEPT !.step = "release", !.left = {}]
      BY <2>5, PassIs DEF BeginFence, At
    <3> QED
      BY <3>1 DEF Pass, Early
  <2>6. ASSUME NEW w \in Workspaces, FenceObligation(w) PROVE Later
    <3>1. PICK discharged \in BOOLEAN :
             LET kept == IF discharged THEN {} ELSE {<<p.epoch, w>>} \cap open
             IN  Becomes("end", [p EXCEPT !.left = @ \ {w}, !.clean = @ /\ kept = {},
                                    !.unsafe = IF kept = {} THEN @ ELSE @ \cup {w}])
      BY <2>6 DEF FenceObligation
    <3> DEFINE kept == IF discharged THEN {} ELSE {<<p.epoch, w>>} \cap open
               c == p.clean /\ kept = {}
               u == IF kept = {} THEN p.unsafe ELSE p.unsafe \cup {w}
    <3>2. p.step = "fence" /\ q = [p EXCEPT !.left = @ \ {w}, !.clean = c, !.unsafe = u]
      BY <2>6, <3>1, PassIs DEF FenceObligation, At
    <3> HIDE DEF c, u
    <3> QED
      BY <3>2 DEF Pass, Early
  <2>7. ASSUME EndFence \/ EndRelease PROVE Later
    <3>1. p.step \in {"fence", "release"} /\ \E s \in {"release", "receipt"} : q = [p EXCEPT !.step = s]
      BY <2>7, PassIs DEF EndFence, EndRelease, At, Goes
    <3> QED
      BY <3>1 DEF Pass, Early
  <2>8. ASSUME NEW w \in Workspaces, CheckForeign(w) PROVE Later
    <3>1. /\ p.step = "release"
          /\ \/ q = [p EXCEPT !.unsafe = @ \cup {w}]
             \/ q = [p EXCEPT !.step = "releasing", !.left = {w}]
      BY <2>8, PassIs DEF CheckForeign, At
    <3> QED
      BY <3>1 DEF Pass, Early
  <2>9. ASSUME ReleaseOwner PROVE Later
    <3>1. /\ p.step = "releasing"
          /\ q = [p EXCEPT !.step = "release", !.left = {}, !.unsafe = @ \cup p.left]
      BY <2>9, PassIs DEF ReleaseOwner, At
    <3> QED
      BY <3>1 DEF Pass, Early
  <2>10. ASSUME EndIdentity PROVE q = IdlePass \/ Later
    <3>1. p.step = "identity" /\ (q = IdlePass \/ (p.complete /\ q = [p EXCEPT !.step = "hooks"]))
      BY <2>10, PassIs DEF EndIdentity, At, Goes, Leaves
    <3> QED
      BY <3>1 DEF Pass, Early
  <2>11. ASSUME EndHookState PROVE q = IdlePass
    BY <2>11, PassIs DEF EndHookState, Leaves
  <2> HIDE DEF Later, Sooner
  <2>12. \/ q = IdlePass \/ Later \/ Sooner
         \/ q.step = "discover" /\ ~ q.complete
         \/ /\ p.step = "merge" /\ q.step = "discover" /\ q.epoch = p.epoch
            /\ Publish(p.epoch, p.scope, p.endedAt)
    BY <1>4, <2>1, <2>2, <2>3, <2>4, <2>5, <2>6, <2>7, <2>8, <2>9, <2>10, <2>11 DEF SessionEnd
  <2> QED
    BY <2>12 DEF Later, Sooner
<1> QED
  BY <1>1, <1>2, <1>3, <1>4, HooksMove DEF EndActs

LEMMA NextKeepsKnowing ==
  ASSUME HostInv, KnowingInv, [Next]_vars
  PROVE  KnowingInv'
<1>1. IdlePass.step = "idle" /\ IdlePass.clean
  BY DEF IdlePass
<1> QED
  BY <1>1, EndKnows DEF KnowingInv, Early, At

\* What the merge told stays told, and the scope of a clean pass had all there was to tell.
LEMMA NextKeepsEndTells ==
  ASSUME HostInv, OrderInv, KnowingInv, EndTells, [Next]_vars
  PROVE  EndTells'
<1> DEFINE p == pass["end"]
           q == pass'["end"]
           e == p.epoch
<1>0. /\ ReceiptedInv /\ SettledInv /\ ScopeInv /\ IdlePass.step = "idle"
      /\ "idle" \in Early /\ "discover" \notin Early /\ "merge" \in Early
  BY DEF OrderInv, IdlePass, Early
<1> SUFFICES ASSUME q.complete, q.step \notin Early, NEW w \in Workspaces, OwedNext(q.epoch, w)
             PROVE  w \in receipts'[q.epoch].hints \cup {Origin}
  BY DEF EndTells, TellsAll, OwedNext, Owed, Reserving, Hinted
<1>1. /\ q.epoch = e /\ q # IdlePass
      /\ \/ p.complete /\ p.step \notin Early
         \/ p.step = "merge" /\ Publish(e, p.scope, p.endedAt)
  BY <1>0, EndKnows
<1>2. p.step \in EndWorks \ {"publish"}
  BY <1>1 DEF HostInv, PassInv, EndWorks, EndSteps, Early
<1>3. e \in Epochs /\ p.scope \in SUBSET Workspaces /\ p.endedAt \in 0..MaxEpoch /\ TypeOK
  BY <1>2, PassTypes, LifecycleAssumption DEF HostInv, TypeOK, PassInv, Pass, Epochs
<1>4. Receipted(e)
  BY <1>0, <1>2 DEF ReceiptedInv
<1>5. Owed(e, w)
  BY <1>0, <1>1, <1>3, <1>4, OwedNextBefore
<1>6. CASE p.complete /\ p.step \notin Early
  <2>1. Hinted(e, w)
    BY <1>5, <1>6 DEF EndTells, TellsAll
  <2>2. w \in receipts'[e].hints \cup {Origin}
    BY <1>0, <1>3, <1>4, <1>5, <2>1, ReceiptStays DEF Hinted
  <2> QED
    BY <1>1, <2>2
<1>7. CASE p.step = "merge" /\ Publish(e, p.scope, p.endedAt)
  <2>1. w \in p.scope
    BY <1>0, <1>5, <1>7 DEF KnowingInv, ScopeInv
  <2>2. p.scope \subseteq Published(e, p.scope, p.endedAt).hints
    BY <1>3, PublishedIs
  <2>3. receipts'[e] = Published(e, p.scope, p.endedAt)
    BY <1>3, <1>7 DEF Publish, TypeOK
  <2> QED
    BY <1>1, <2>1, <2>2, <2>3
<1> QED
  BY <1>1, <1>6, <1>7

\* The resume goes on to its record without the scope of the ledger only if nothing is owed
\* in it, or if something failed.
LEMMA ScopePassed ==
  ASSUME HostInv, SessionStart, start.step \in {"compensate", "enumerate"},
         start'.step \in {"cleanup", "write"}
  PROVE  receipts[record].state = "settled" \/ ledger = None \/ Fault
<1>0. start \in StartShape
  BY DEF HostInv, TypeOK, StartShape
<1>1. CASE ReadReceipt
  <2>1. receipts[record].state # "settled" => start' = [start EXCEPT !.step = "enumerate"]
    BY <1>1 DEF ReadReceipt, StartGoes
  <2> QED
    BY <1>0, <2>1 DEF StartShape
<1>2. CASE EnumerateScope
  <2>1. \/ \E step \in {"scan", "merge"} : start' = [start EXCEPT !.scope = Known, !.step = step]
        \/ ledger = None \/ Fault
    BY <1>2 DEF EnumerateScope
  <2> QED
    BY <1>0, <2>1 DEF StartShape
<1>3. CASE StartFails
  BY <1>3 DEF StartFails, IdleStart
<1> QED
  BY <1>1, <1>2, <1>3 DEF SessionStart, BeginResume, MergeScope, ScanScope, PublishCompensation,
     CleanupIdentity, LockWorkspace, CompensateFenced, WriteRecord

\* A resume that goes on to its record without a failure told the receipt, or found that
\* nothing is owed and holds the locks that keep it so.
LEMMA NextKeepsStartTells ==
  ASSUME Orderly, HostInv, HostInv', OrderInv, StartTells, [Next]_vars
  PROVE  StartTells'
<1> DEFINE s == start
           t == start'
           Telling(u) == u.step = "write" \/ (u.step = "cleanup" /\ ~ u.fenced)
<1>0. /\ CompensatedInv /\ FencingInv /\ ClaimInv /\ OwedInv /\ SettledInv /\ ReceiptedInv
      /\ record # None => record = started /\ record \in Epochs
      /\ s.step \notin {"idle", "write"} => record # None
      /\ None \notin Epochs /\ IdleStart.step = "idle"
      /\ faults \in Nat /\ faults' \in Nat
  BY LifecycleAssumption DEF OrderInv, HostInv, StartInv, TypeOK, IdleStart, Epochs
<1> SUFFICES ASSUME faults' = 0, record' # None, Telling(t), NEW w \in Workspaces,
                    OwedNext(record', w)
             PROVE  w \in receipts'[record'].hints \cup {Origin}
  BY DEF StartTells, TellsAll, OwedNext, Owed, Reserving, Hinted
<1>1. faults = 0 /\ ~ Fault
  BY <1>0, FaultsGrow DEF Fault
\* Under the locks of the fence nothing is owed that a scan did not find.
<1>2. ASSUME s.second, \A x \in Workspaces : <<record, x>> \notin open, record # None
      PROVE  \A x \in Workspaces : ~ Owed(record, x)
  <2> SUFFICES ASSUME NEW x \in Workspaces, Reserving(record, x) PROVE FALSE
    BY <1>2 DEF Owed
  <2>1. child.step \in Inside /\ child.epoch = started /\ child.workspace = x
    BY <1>0, <1>2 DEF Reserving, Inside
  <2>2. ledger # None /\ x \in ledger.known
    BY <1>0, <2>1 DEF ClaimInv, LedgerOf
  <2>3. s.held = ledger.known
    BY <1>0, <1>2, <2>2 DEF FencingInv, Known
  <2> QED
    BY <1>0, <2>1, <2>2, <2>3 DEF FencingInv
<1>3. CASE UNCHANGED start
  <2>1. record' = record /\ record \in Epochs /\ record # None
    <3>1. ~ WriteRecord
      BY <1>0, <1>3 DEF WriteRecord
    <3>2. record' = record
      BY <3>1, RecordEvolves
    <3> QED
      BY <1>0, <3>2
  <2>2. CASE Receipted(record)
    <3>1. Owed(record, w)
      BY <1>0, <2>1, <2>2, OwedNextBefore
    <3>2. Hinted(record, w)
      BY <1>1, <1>3, <2>1, <3>1 DEF StartTells, TellsAll
    <3>3. w \in receipts'[record].hints \cup {Origin}
      BY <1>0, <2>1, <2>2, <3>1, <3>2, ReceiptStays DEF Hinted
    <3> QED
      BY <2>1, <3>3
  <2>3. CASE ~ Receipted(record)
    <3>1. s.step = "write" /\ s.second /\ \A x \in Workspaces : <<record, x>> \notin open
      BY <1>0, <1>3, <2>1, <2>3 DEF CompensatedInv
    <3>2. ~ Owed(record, w)
      BY <1>2, <2>1, <3>1
    <3>3. OwedNext(record, w)
      BY <2>1
    <3>4. Enters
      <4>1. OwesLess => Owed(record, w)
        BY <2>1, <3>3 DEF OwesLess, Owed, Reserving, OwedNext
      <4> QED
        BY <3>2, <4>1, OwingEvolves
    <3>5. child.step = "own" /\ UNCHANGED open /\ child' = [child EXCEPT !.step = "persist"]
          /\ child \in [step: ChildSteps, epoch: 0..MaxEpoch, workspace: Workspaces]
      BY <3>4 DEF Enters, FenceOwn, HostInv, TypeOK
    <3>6. child.epoch = started /\ child.workspace = w /\ child.step \in Inside
      BY <1>0, <2>1, <3>1, <3>3, <3>5 DEF OwedNext, Inside
    <3>7. ledger # None /\ w \in ledger.known
      BY <1>0, <3>6 DEF ClaimInv, LedgerOf
    <3>8. s.held = ledger.known
      BY <1>0, <2>1, <3>1, <3>7 DEF FencingInv, Known
    <3> QED
      BY <1>0, <3>6, <3>7, <3>8 DEF FencingInv
  <2> QED
    BY <2>2, <2>3
<1>4. CASE SessionStart
  <2>0. UNCHANGED <<open, child>> /\ t.step # "idle" /\ t # IdleStart
    BY <1>0, <1>4, ResumeMoves
  <2>1. record' = record /\ record \in Epochs /\ record # None
    <3>1. ~ WriteRecord
      BY <2>0 DEF WriteRecord
    <3>2. record' = record
      BY <3>1, RecordEvolves
    <3> QED
      BY <1>0, <3>2
  <2>2. Owed(record, w)
    BY <2>0, <2>1 DEF OwedNext, Owed, Reserving
  <2>3. CASE s.step \in {"compensate", "enumerate"}
    <3>1. receipts[record].state = "settled" \/ ledger = None
      BY <1>1, <1>4, <2>3, ScopePassed
    <3> QED
      BY <1>0, <2>1, <2>2, <3>1 DEF SettledInv, OwedInv
  <2>4. CASE Publish(record, s.scope, started) /\ s.step \in {"merge", "publish"}
    <3>1. s.scope = ledger.known /\ w \in ledger.known
      BY <1>0, <2>1, <2>2, <2>4 DEF FencingInv, Known, OwedInv, LedgerOf
    <3>2. s.scope \in SUBSET Workspaces /\ started \in 0..MaxEpoch /\ TypeOK
      BY LifecycleAssumption DEF HostInv, TypeOK, Epochs
    <3>3. s.scope \subseteq Published(record, s.scope, started).hints
      BY <2>1, <3>2, PublishedIs
    <3>4. receipts'[record] = Published(record, s.scope, started)
      BY <2>1, <2>4, <3>2 DEF Publish, TypeOK
    <3> QED
      BY <2>1, <3>1, <3>3, <3>4
  <2>5. CASE s.step = "scan" /\ t.step = Compensated /\ \A x \in s.scope : <<record, x>> \notin open
    <3>1. s.second
      BY <1>0, <1>4, <2>5, ResumeMoves DEF Compensated
    <3>2. \A x \in Workspaces : <<record, x>> \in open => x \in ledger.known /\ ledger # None
      BY <1>0, <2>1 DEF OwedInv, Owed, LedgerOf
    <3>3. \A x \in Workspaces : <<record, x>> \notin open
      BY <1>0, <2>5, <3>2 DEF FencingInv, Known
    <3> QED
      BY <1>2, <2>1, <2>2, <3>1, <3>3
  <2>6. CASE s.step = "cleanup" /\ t.step = (IF s.fenced THEN "lock" ELSE "write")
             /\ UNCHANGED receipts
    <3>1. ~ s.fenced
      BY <2>6
    <3> QED
      BY <1>1, <2>1, <2>2, <2>6, <3>1 DEF StartTells, TellsAll, Hinted
  <2>7. \/ s.step \in {"compensate", "enumerate"}
        \/ Publish(record, s.scope, started) /\ s.step \in {"merge", "publish"}
        \/ s.step = "scan" /\ t.step = Compensated /\ \A x \in s.scope : <<record, x>> \notin open
        \/ /\ s.step = "cleanup" /\ t.step = (IF s.fenced THEN "lock" ELSE "write")
           /\ UNCHANGED receipts
    BY <1>0, <1>4, <2>0, <2>1, ResumeMoves
  <2> QED
    BY <2>3, <2>4, <2>5, <2>6, <2>7
<1> QED
  BY <1>3, <1>4, Movers

\* The record leaves its epoch once the receipt was told what the ledger knows.
LEMMA NextKeepsLedgerTells ==
  ASSUME Orderly, HostInv, HostInv', OrderInv, KnowingInv, EndTells, StartTells, LedgerTells,
         [Next]_vars, RecordSpared
  PROVE  LedgerTells'
<1> DEFINE e == ledger.epoch
<1>0. /\ ServingInv /\ ReceiptedInv /\ SettledInv
      /\ record # None => record \in Epochs
      /\ ledger \in Ledger \cup {None} /\ (ledger # None => e \in Epochs)
      /\ faults \in Nat /\ faults' \in Nat
      /\ "hooks" \notin Early
  BY DEF OrderInv, HostInv, TypeOK, Ledger, Early
<1> SUFFICES ASSUME faults' = 0, ledger' # None, ledger'.epoch # record', NEW w \in Workspaces,
                    OwedNext(ledger'.epoch, w)
             PROVE  w \in receipts'[ledger'.epoch].hints \cup {Origin}
  BY DEF LedgerTells, TellsAll, OwedNext, Owed, Reserving, Hinted
<1>1. faults = 0
  BY <1>0, FaultsGrow DEF Fault
<1>2. ledger # None /\ ledger'.epoch = e
  <2>1. CASE BeginCallerTurn
    BY <1>0, <2>1, TurnBegins
  <2>2. CASE KeepsLedger
    BY <2>2 DEF KeepsLedger
  <2> QED
    BY <2>1, <2>2, LedgerEvolves
<1>3. CASE record # e
  <2>1. Owed(e, w) /\ e \in Epochs
    BY <1>0, <1>2, <1>3, OwedNextBefore
  <2>2. Hinted(e, w) /\ Receipted(e)
    BY <1>0, <1>1, <1>2, <1>3, <2>1 DEF LedgerTells, TellsAll, ReceiptedInv
  <2>3. w \in receipts'[e].hints \cup {Origin}
    BY <1>0, <2>1, <2>2, ReceiptStays DEF Hinted
  <2> QED
    BY <1>2, <2>3
<1>4. CASE record = e
  <2>1. record # None /\ record' # record
    BY <1>0, <1>2, <1>4, LifecycleAssumption DEF Epochs
  <2>2. CASE WriteRecord
    <3>1. start.step = "write" /\ UNCHANGED <<open, child, receipts>>
      BY <2>2 DEF WriteRecord, StartOnly
    <3>2. TellsAll(record)
      BY <1>1, <2>1, <3>1 DEF StartTells
    <3> QED
      BY <1>2, <1>4, <3>1, <3>2 DEF TellsAll, OwedNext, Owed, Reserving, Hinted
  <2>3. CASE EndHookState
    <3>1. record = pass["end"].epoch /\ At("end", "hooks") /\ UNCHANGED <<open, child, receipts>>
      BY <2>1, <2>3, RecordGoes
    <3>2. TellsAll(record)
      BY <1>0, <3>1 DEF KnowingInv, EndTells, At
    <3> QED
      BY <1>2, <1>4, <3>1, <3>2 DEF TellsAll, OwedNext, Owed, Reserving, Hinted
  <2> QED
    BY <2>1, <2>2, <2>3, RecordEvolves
<1> QED
  BY <1>3, <1>4

\* When a turn replaces the ledger, the receipt was told, or the reconciliation told it, or
\* found it settled.
LEMMA NextKeepsReplace ==
  ASSUME Orderly, MaxFaults <= 1, HostInv, HostInv', OrderInv, LedgerTells, ReplaceInv, [Next]_vars
  PROVE  ReplaceInv'
<1> DEFINE p == pass["prompt"]
           q == pass'["prompt"]
           e == ledger.epoch
           owing(o) == /\ o.step \notin {"idle", "list"} /\ e # o.turn
                       /\ (o.step = "begin" \/ e \notin o.todo)
                       /\ ~ (o.step \in {"ledger", "merge"} /\ o.epoch = e)
<1>0. /\ ReceiptedInv /\ ServingInv /\ SettledInv /\ OwedInv /\ ScopeInv
      /\ ~ Overlaps /\ (Fault => faults = 0)
      /\ "prompt" \in Hooks /\ "prompt" # "end"
      /\ IdlePass.step = "idle" /\ TypeOK
      /\ ledger \in Ledger \cup {None} /\ (ledger # None => e \in Epochs)
      /\ p.step \in PromptWorks => p.epoch \in Epochs
  BY LifecycleAssumption DEF OrderInv, Orderly, Hooks, IdlePass, HostInv, TypeOK, Ledger, PassInv, Fault
\* Only the last step of the hook replaces the ledger.
<1>1. CASE q.step \in {"idle", "list"}
  BY <1>1 DEF ReplaceInv
<1>2. CASE q.step \notin {"idle", "list"}
  <2>1. KeepsLedger
    <3>1. ~ BeginCallerTurn
      BY <1>0, <1>2, PassIs DEF BeginCallerTurn, Leaves
    <3> QED
      BY <3>1, LedgerEvolves
  <2> SUFFICES ASSUME ledger # None, owing(q), NEW w \in Workspaces, OwedNext(e, w)
               PROVE  w \in receipts'[e].hints \cup {Origin}
    <3>1. ledger' # None => ledger # None /\ ledger'.epoch = e
      BY <2>1 DEF KeepsLedger
    <3>2. SUFFICES ASSUME ledger' # None, owing(q) PROVE TellsAll(e)'
      BY <3>1 DEF ReplaceInv
    <3>3. SUFFICES ASSUME NEW w \in Workspaces, OwedNext(e, w)
                   PROVE  w \in receipts'[e].hints \cup {Origin}
      BY <3>1, <3>2 DEF TellsAll, OwedNext, Owed, Reserving, Hinted
    <3> QED
      BY <3>1, <3>2, <3>3
\* The epoch of the ledger is a prior one, so that what it owes has a receipt.
  <2>2. p.step # "idle" /\ p.turn = q.turn /\ e \in Epochs
    <3>1. CASE Working("prompt") \/ HookKilled("prompt")
      BY <1>0, <1>2, <3>1, SettlingMoves DEF Onward
    <3>2. CASE Prompt
      BY <1>0, <1>2, <3>2, PromptMoves DEF Onward, GivesUp
    <3> QED
      BY <1>0, <1>2, <3>1, <3>2, HooksMove, HooksMoveOut DEF PromptActs
  <2>3. record # e
    BY <1>0, <2>2 DEF ServingInv
  <2>4. Owed(e, w) /\ Receipted(e)
    <3>1. Owed(e, w)
      BY <1>0, <2>2, <2>3, OwedNextBefore
    <3> QED
      BY <1>0, <2>2, <2>3, <3>1 DEF ReceiptedInv
  <2>5. Hinted(e, w) => w \in receipts'[e].hints \cup {Origin}
    BY <1>0, <2>2, <2>4, ReceiptStays DEF Hinted
  <2>6. CASE owing(p)
    BY <1>0, <2>4, <2>5, <2>6 DEF ReplaceInv, TellsAll
\* A listing without the epoch found its receipt settled.
  <2>7. CASE p.step = "list" /\ q.step = "next"
             /\ q.todo = {d \in Epochs \ {p.turn} : Pending(d)}
    <3>1. e \notin {d \in Epochs \ {p.turn} : Pending(d)}
      BY <1>2, <2>7
    <3>4. ~ Pending(e)
      BY <2>2, <3>1
    <3>2. receipts[e].state = "settled"
      BY <1>0, <2>2, <2>4, <3>4 DEF Pending, Receipted, TypeOK, Receipt, ReceiptStates
    <3> QED
      BY <1>0, <2>2, <2>4, <3>2 DEF SettledInv
\* The scope of the ledger is persisted before the hook goes on.
  <2>8. CASE /\ p.step = "merge" /\ p.epoch = e /\ Publish(p.epoch, p.scope, p.endedAt)
    <3>1. w \in p.scope
      BY <1>0, <2>2, <2>4, <2>8 DEF OwedInv, ScopeInv, LedgerOf
    <3>2. p.scope \in SUBSET Workspaces /\ p.endedAt \in 0..MaxEpoch
      BY <1>0 DEF TypeOK, Pass
    <3>3. p.scope \subseteq Published(e, p.scope, p.endedAt).hints
      BY <1>0, <2>2, <3>2, PublishedIs
    <3>4. receipts'[e] = Published(e, p.scope, p.endedAt)
      BY <1>0, <2>2, <2>8 DEF Publish, TypeOK
    <3> QED
      BY <3>1, <3>3, <3>4
\* A reconciliation that failed is the first failure there is.
  <2>10. CASE GivesUp(p, q)
    <3>1. Hinted(e, w)
      BY <1>0, <2>3, <2>4, <2>10 DEF GivesUp, LedgerTells, TellsAll
    <3> QED
      BY <2>5, <3>1
  <2>9. \/ owing(p)
        \/ GivesUp(p, q)
        \/ p.step = "list" /\ q.step = "next" /\ q.todo = {d \in Epochs \ {p.turn} : Pending(d)}
        \/ p.step = "merge" /\ p.epoch = e /\ Publish(p.epoch, p.scope, p.endedAt)
    <3>0. q # IdlePass
      BY <1>0, <1>2
    <3>1. CASE q = p
      BY <3>1
    <3>2. CASE Working("prompt") \/ HookKilled("prompt")
      <4>1. p.step \in {"discover", "settle", "receipt"} /\ Onward(p, q) /\ q.step # "begin"
        BY <1>0, <3>0, <3>2, SettlingMoves
      <4> QED
        BY <4>1 DEF Onward
    <3>3. CASE Prompt
      <4>1. \/ q.step = "list"
            \/ GivesUp(p, q)
            \/ p.step = "list" /\ q.step = "next" /\ q.todo = {d \in Epochs \ {p.turn} : Pending(d)}
            \/ /\ p.step = "next" /\ q.turn = p.turn
               /\ \/ q.step = "ledger" /\ q.todo = p.todo \ {q.epoch}
                  \/ p.todo = {}
            \/ /\ p.step = "ledger" /\ Onward(p, q) /\ q.step # "begin"
               /\ \/ q.step = "merge"
                  \/ ledger # None => ledger.epoch # p.epoch
            \/ /\ p.step = "merge" /\ Onward(p, q) /\ q.step # "begin"
               /\ Publish(p.epoch, p.scope, p.endedAt)
            \/ p.step = "settle" /\ Onward(p, q) /\ q.step # "begin"
        BY <1>0, <3>0, <3>3, PromptMoves
      <4> QED
        BY <1>2, <4>1 DEF Onward
    <3> QED
      BY <1>0, <3>0, <3>1, <3>2, <3>3, HooksMove, HooksMoveOut DEF PromptActs
  <2> QED
    BY <2>6, <2>7, <2>8, <2>9, <2>10
<1> QED
  BY <1>1, <1>2

\* Without a second failure, no step leaves the invariants, and no turn forgets a scope.
LEMMA TellingStep ==
  ASSUME Orderly, MaxFaults <= 1, HostInv, HostInv', OrderInv, TellingInv, [Next]_vars, RecordSpared
  PROVE  ~ ScopeForgotten /\ OrderInv' /\ TellingInv'
<1>1. ~ ScopeForgotten
  <2> SUFFICES ASSUME ScopeForgotten PROVE FALSE
    OBVIOUS
  <2>1. /\ ledger # None /\ ledger' # None /\ ledger'.epoch # ledger.epoch
        /\ \E w \in Workspaces : Owed(ledger.epoch, w) /\ ~ Hinted(ledger.epoch, w)
    BY DEF ScopeForgotten, Owing, Owed, Reserving, Hinted
  <2>2. BeginCallerTurn
    BY <2>1, LedgerEvolves DEF KeepsLedger
  <2>3. pass["prompt"].step = "begin" /\ pass["prompt"].turn # ledger.epoch
    BY <2>1, <2>2, TurnBegins DEF OrderInv, At
  <2>4. TellsAll(ledger.epoch)
    BY <2>1, <2>3 DEF TellingInv, ReplaceInv
  <2> QED
    BY <2>1, <2>4 DEF TellsAll
<1>2. OrderInv'
  BY <1>1, OrderStep
<1>3. TellingInv'
  BY NextKeepsKnowing, NextKeepsEndTells, NextKeepsStartTells, NextKeepsLedgerTells,
     NextKeepsReplace DEF TellingInv
<1> QED
  BY <1>1, <1>2, <1>3

LEMMA InitTelling == Init => TellingInv
BY LifecycleAssumption
   DEF Init, TellingInv, KnowingInv, EndTells, StartTells, LedgerTells, ReplaceInv, IdlePass,
       IdleStart, Hooks, At, Early

\* With at most one failure, a prompt that goes on after a failed reconciliation replaces no
\* ledger that knows more than the receipt of its epoch.
THEOREM OneFailureKeepsScope ==
  Orderly /\ MaxFaults <= 1 => (Spec /\ SuccessorRecordKept => ScopeKept)
<1> SUFFICES ASSUME Orderly, MaxFaults <= 1 PROVE Spec /\ SuccessorRecordKept => ScopeKept
  OBVIOUS
<1>1. HostInv /\ HostInv' /\ OrderInv /\ TellingInv /\ [Next]_vars /\ [RecordSpared]_vars
        => [~ ScopeForgotten]_vars /\ OrderInv' /\ TellingInv'
  <2>1. UNCHANGED vars => RecordSpared
    BY DEF vars, RecordSpared
  <2> QED
    BY <2>1, TellingStep
<1>2. SuccessorRecordKept <=> [][RecordSpared]_vars
  BY DEF SuccessorRecordKept, RecordSpared
<1> QED
  BY HostInvariant, InitOrder, InitTelling, <1>1, <1>2, PTL DEF Spec, ScopeKept

\* The invariant holds of every run that is undisturbed.
LEMMA Ordered == Orderly => (Spec /\ Undisturbed => SuccessorRecordKept /\ []OrderInv)
<1> SUFFICES ASSUME Orderly PROVE Spec /\ Undisturbed => SuccessorRecordKept /\ []OrderInv
  OBVIOUS
<1>1. Spec /\ Undisturbed => SuccessorRecordKept
  BY EndSparesSuccessor, PTL DEF Undisturbed
<1>2. Spec /\ Undisturbed => ScopeKept
  BY <1>1, OneFailureKeepsScope, PTL DEF Undisturbed
<1> QED
  BY <1>1, <1>2, OrderInvariant, PTL

\* A settled receipt stands for an epoch that owes nothing: a hook settles only a receipt
\* whose token still is the one its scope was proved with, and a child that passed the last
\* look of its fence is found in the workspace it locks.
THEOREM SettledOwesNothing ==
  Orderly => (Spec /\ Undisturbed => []SettledIsDischarged)
<1>1. HostInv /\ OrderInv => SettledIsDischarged
  BY OrderShows
<1> QED
  BY HostInvariant, Ordered, <1>1, PTL

\* What an ended epoch owes is in the hints of its receipt or in its ledger.
THEOREM OwedIsFound ==
  Orderly => (Spec /\ Undisturbed => []OwedIsDiscoverable)
<1>1. HostInv /\ OrderInv => OwedIsDiscoverable
  BY OrderShows
<1> QED
  BY HostInvariant, Ordered, <1>1, PTL

\* No newer epoch is recorded over one that still owes something and has no receipt, whether
\* the SessionEnd hook ran, was killed, or never started: the resume compensates, and looks
\* again under the job locks.
THEOREM ReplacementIsReceipted ==
  Orderly => (Spec /\ Undisturbed => []ReplacedIsReceipted)
<1>1. HostInv /\ OrderInv => ReplacedIsReceipted
  BY OrderShows
<1> QED
  BY HostInvariant, Ordered, <1>1, PTL

-----------------------------------------------------------------------------
(***************************************************************************)
(* The abstract life of the epochs.  For it one more part is needed: a     *)
(* receipt is opened for the recorded epoch only.                          *)
(***************************************************************************)

\* The receipts that a prompt hook has listed and may still publish.
Handled(p) == (IF p.step \in {"next"} \cup PromptWorks THEN p.todo ELSE {})
              \cup (IF p.step \in {"ledger", "merge"} THEN {p.epoch} ELSE {})

\* A receipt is opened for the recorded epoch only: the SessionEnd hook has not removed the
\* record yet, and what a prompt has listed can be settled by the hook of that epoch but not
\* be pruned meanwhile.
OpeningInv ==
    /\ At("end", "publish") => record # None
    /\ pass["prompt"].step \in PromptWorks => pass["prompt"].epoch \notin pass["prompt"].todo
    /\ \A e \in Handled(pass["prompt"]) :
          \/ Pending(e)
          \/ /\ receipts[e].state = "settled"
             /\ pass["end"].step \in EndWorks => pass["end"].epoch = e

\* Part by part: the record outlives the publication, and what a prompt has listed it finds.
LEMMA NextKeepsOpening ==
  ASSUME Orderly, HostInv, HostInv', OrderInv, OpeningInv, [Next]_vars
  PROVE  OpeningInv'
<1> DEFINE p == pass["prompt"]
           q == pass'["prompt"]
           Fine(e) == \/ Pending(e)
                      \/ /\ receipts[e].state = "settled"
                         /\ pass["end"].step \in EndWorks => pass["end"].epoch = e
           FineNext(e) == \/ receipts'[e].state = "pending"
                          \/ /\ receipts'[e].state = "settled"
                             /\ pass'["end"].step \in EndWorks => pass'["end"].epoch = e
<1>0. /\ ~ Overlaps /\ ServingInv /\ "end" \in Hooks /\ "prompt" \in Hooks
      /\ IdlePass.step = "idle" /\ Hooks = {"end", "prompt"}
      /\ Handled(p) \subseteq Epochs
  <2>1. p.todo \subseteq Epochs /\ (p.step \in PromptWorks => p.epoch \in Epochs)
    BY DEF HostInv, TypeOK, PassInv, Pass, Hooks
  <2> QED
    BY <2>1 DEF Orderly, OrderInv, Hooks, IdlePass, Handled, PromptWorks
<1>1. pass'["end"].step = "publish" => record' # None
  <2> SUFFICES ASSUME pass'["end"].step = "publish" PROVE record' # None
    OBVIOUS
  <2>1. CASE pass'["end"] = pass["end"]
    <3>1. At("end", "publish") /\ record # None
      BY <2>1 DEF At, OpeningInv
    <3> QED
      BY <3>1, RecordMoves DEF At, EndHookState
  <2>2. CASE Working("end") \/ HookKilled("end")
    BY <1>0, <2>2, SettlingMoves
  <2>3. CASE SessionEnd
    BY <1>0, <2>3, EndMoves DEF Still, Walks
  <2> QED
    BY <1>0, <2>1, <2>2, <2>3, HooksMove DEF EndActs
<1>2. ASSUME NEW e, p.step # "idle", pass["end"].step \in EndWorks => pass["end"].epoch = e
      PROVE  pass'["end"].step \in EndWorks => pass'["end"].epoch = e
  <2>1. p.turn = record
    BY <1>0, <1>2 DEF ServingInv
  <2>2. CASE Working("end") \/ HookKilled("end")
    BY <1>0, <1>2, <2>2, SettlingMoves DEF Onward, EndWorks, EndSteps
  <2>3. CASE SessionEnd
    BY <1>0, <1>2, <2>1, <2>3, EndMoves DEF Walks, EndWorks, EndSteps
  <2> QED
    BY <1>2, <2>2, <2>3, HooksMove DEF EndActs, EndWorks
<1>3. ASSUME NEW e \in Handled(p) PROVE FineNext(e)
  <2>1. /\ e \in Epochs /\ Fine(e) /\ p.step # "idle" /\ ~ (p.step = "receipt" /\ e = p.epoch)
        /\ Evolves(e)
    BY <1>0, ReceiptsEvolve DEF OpeningInv, Handled, PromptWorks
  <2>2. receipts'[e].state \in {"none", "pending", "settled"}
    BY <2>1 DEF HostInv, TypeOK, Receipt, ReceiptStates
  <2>3. CASE receipts'[e].state = "none"
    <3>1. PruneReceipt(e)
      BY <2>1, <2>3 DEF Evolves, Pending
    <3> QED
      BY <2>1, <3>1 DEF PruneReceipt, Pending, EndWorks, EndSteps
  <2>4. CASE receipts'[e].state = "settled" /\ Pending(e)
    <3>1. PICK h \in Hooks : SettlePass(h) /\ e = pass[h].epoch
      BY <2>1, <2>4 DEF Evolves, Pending
    <3>2. SettlePass("end") /\ e = pass["end"].epoch
      BY <1>0, <2>1, <3>1 DEF SettlePass, At
    <3> QED
      BY <1>2, <2>1, <2>4, <3>2
  <2>5. CASE receipts'[e].state = "settled" /\ ~ Pending(e)
    BY <1>2, <2>1, <2>5
  <2> QED
    BY <2>2, <2>3, <2>4, <2>5
<1>4. ASSUME Handled(q) \subseteq Handled(p) \/ \A e \in Handled(q) : receipts'[e].state = "pending",
             q.step \in PromptWorks => q.epoch \notin q.todo
      PROVE  OpeningInv'
  BY <1>1, <1>3, <1>4 DEF OpeningInv, Handled, At, Pending
<1>5. CASE q = p
  BY <1>4, <1>5 DEF OpeningInv
<1>6. CASE q = IdlePass
  BY <1>0, <1>4, <1>6 DEF Handled, PromptWorks
<1>7. CASE Onward(p, q) /\ p.step \in PromptWorks
           /\ q.step \in {"next", "discover", "settle", "receipt"}
                        \cup (IF p.step = "ledger" THEN {"merge"} ELSE {})
  BY <1>4, <1>7 DEF Onward, Handled, PromptWorks, OpeningInv
<1>8. CASE Working("prompt") \/ HookKilled("prompt")
  <2>1. q = IdlePass \/ (Onward(p, q) /\ p.step \in PromptWorks
                         /\ q.step \in {"next", "discover", "settle", "receipt"})
    BY <1>0, <1>8, SettlingMoves DEF PromptWorks
  <2> QED
    BY <1>6, <1>7, <2>1
<1>9. CASE Prompt
  <2>1. CASE q.step = "list" \/ q.step = "begin"
    BY <1>4, <2>1 DEF Handled, PromptWorks
  <2>2. CASE /\ q.step = "next" /\ q.todo = {e \in Epochs \ {p.turn} : Pending(e)}
             /\ UNCHANGED receipts
    BY <1>4, <2>2 DEF Handled, PromptWorks, Pending
  <2>3. CASE p.step = "next" /\ q.step = "ledger" /\ q.epoch \in p.todo /\ q.todo = p.todo \ {q.epoch}
    BY <1>4, <2>3 DEF Handled, PromptWorks
  <2>4. CASE q = IdlePass \/ (Onward(p, q) /\ p.step \in PromptWorks
             /\ q.step \in {"discover", "receipt"} \cup (IF p.step = "ledger" THEN {"merge"} ELSE {}))
    BY <1>6, <1>7, <2>4
  <2> QED
    BY <1>0, <1>9, <2>1, <2>2, <2>3, <2>4, PromptMoves DEF Still, PromptWorks, GivesUp
<1> QED
  BY <1>0, <1>5, <1>6, <1>8, <1>9, HooksMove, HooksMoveOut DEF PromptActs

LEMMA OpeningInvariant ==
  Orderly => (Spec /\ Undisturbed => []OpeningInv)
<1> SUFFICES ASSUME Orderly PROVE Spec /\ Undisturbed => []OpeningInv
  OBVIOUS
<1>1. Init => OpeningInv
  BY DEF Init, OpeningInv, Handled, IdlePass, Hooks, At, PromptWorks
<1>2. HostInv /\ HostInv' /\ OrderInv /\ OpeningInv /\ [Next]_vars => OpeningInv'
  BY NextKeepsOpening
<1> QED
  BY HostInvariant, Ordered, <1>1, <1>2, PTL DEF Spec

-----------------------------------------------------------------------------
(* The promise of EpochReceipts.                                           *)

\* What the abstract life counts as owed is what is owed here, before a step and after it.
LEMMA OwingIsOwed ==
  ASSUME HostInv, HostInv'
  PROVE  /\ Owing \subseteq Epochs \X Workspaces /\ Owing' \subseteq Epochs \X Workspaces
         /\ \A e \in Epochs, w \in Workspaces : /\ <<e, w>> \in Owing <=> Owed(e, w)
                                                /\ <<e, w>> \in Owing' <=> Owed(e, w)'
<1>1. /\ open \subseteq Epochs \X Workspaces /\ open' \subseteq Epochs \X Workspaces
      /\ child.step = "persist" => <<child.epoch, child.workspace>> \in Epochs \X Workspaces
      /\ child'.step = "persist" => <<child'.epoch, child'.workspace>> \in Epochs \X Workspaces
  BY DEF HostInv, TypeOK, ChildInv
<1> QED
  BY <1>1 DEF Owing, Owed, Reserving

\* Nobody writes a receipt and moves something else of the abstract life.
LEMMA ReceiptsAlone ==
  ASSUME HostInv, [Next]_vars, receipts' # receipts
  PROVE  UNCHANGED <<open, child, record, started>>
<1>1. CASE SessionStart
  BY <1>1, ResumeMoves DEF StartStill
<1>2. CASE SessionEnd
  BY <1>2, EndMoves DEF Still, Walks, PassOnly, EndHookState
<1>3. ASSUME NEW h \in Hooks, Working(h) \/ HookKilled(h)
      PROVE  UNCHANGED <<open, child, record, started>>
  BY <1>3 DEF Working, Discover, SettleObligation, RetainObligation, Discovered, SettlePass,
              HookKilled, PassOnly
<1>4. CASE Prompt
  BY <1>4 DEF Prompt, BeginPrompt, ListPending, NextReceipt, ReadLedger, PersistScope,
       PromptSettled, ReconciliationFails, BeginCallerTurn, PassOnly
<1>5. CASE Child
  BY <1>5, ChildMoves DEF ChildOnly
<1>6. CASE HostExit \/ HostKilled \/ (\E e \in Epochs, w \in Workspaces : JobEnds(e, w))
           \/ \E e \in Epochs : PruneReceipt(e)
  BY <1>6 DEF HostExit, HostKilled, JobEnds, PruneReceipt
<1>7. CASE UNCHANGED vars
  BY <1>7 DEF vars
<1> QED
  BY <1>1, <1>2, <1>3, <1>4, <1>5, <1>6, <1>7 DEF Next, Settling

\* Only the recorded epoch gets a new receipt, if no resume overtakes the publication.
LEMMA ReceiptOpens ==
  ASSUME Orderly, HostInv, OrderInv, OpeningInv, [Next]_vars,
         NEW e \in Epochs, ~ Receipted(e), receipts'[e].state = "pending"
  PROVE  ~ EndsLate => record = e
<1> SUFFICES ASSUME ~ EndsLate PROVE record = e
  OBVIOUS
<1>0. /\ ReceiptedInv /\ TypeOK /\ receipts \in [Epochs -> Receipt]
      /\ receipts' # receipts
  BY DEF Orderly, OrderInv, HostInv, TypeOK, Receipted
<1>1. ASSUME NEW d, NEW hints, NEW at, Publish(d, hints, at)
      PROVE  d = e
  BY <1>0, <1>1 DEF Publish, Receipted
<1>2. CASE SessionStart
  BY <1>0, <1>1, <1>2, ResumeMoves DEF StartStill, StartFails
<1>3. CASE SessionEnd
  <2>1. PICK hints, at : Publish(pass["end"].epoch, hints, at) /\ pass["end"].step \in {"publish", "merge"}
    BY <1>0, <1>3, EndMoves DEF Still, Walks, EndHookState
  <2>2. pass["end"].epoch = e
    BY <1>1, <2>1
  <2>3. At("end", "publish")
    BY <1>0, <2>1, <2>2 DEF ReceiptedInv, EndWorks, EndSteps, At
  <2> QED
    BY <1>0, <2>2, <2>3 DEF HostInv, BoundaryInv, StartInv, OpeningInv, At
<1>4. CASE Prompt
  <2>1. PICK hints, at : Publish(pass["prompt"].epoch, hints, at) /\ pass["prompt"].step = "merge"
    <3>1. PersistScope
      BY <1>0, <1>4 DEF Prompt, BeginPrompt, ListPending, NextReceipt, ReadLedger, PromptSettled,
                        ReconciliationFails, BeginCallerTurn
    <3> QED
      BY <1>0, <3>1 DEF PersistScope, At
  <2>2. e \in Handled(pass["prompt"])
    BY <1>1, <2>1 DEF Handled
  <2> QED
    BY <2>2 DEF OpeningInv, Pending, Receipted
<1>5. CASE Settling
  <2>1. PICK h \in Hooks : SettleReceipt(pass[h].epoch, pass[h].token)
    BY <1>0, <1>5 DEF Settling, Working, Discover, SettleObligation, RetainObligation, Discovered,
                      SettlePass, HookKilled
  <2> QED
    BY <1>0, <2>1 DEF SettleReceipt, Receipted, Pending, Receipt
<1>6. CASE \E d \in Epochs : PruneReceipt(d)
  BY <1>0, <1>6 DEF PruneReceipt, Receipted, Nothing
<1>7. CASE Child \/ HostExit \/ HostKilled \/ (\E d \in Epochs, w \in Workspaces : JobEnds(d, w))
  BY <1>0, <1>7, ChildMoves DEF ChildOnly, HostExit, HostKilled, JobEnds
<1> QED
  BY <1>0, <1>2, <1>3, <1>4, <1>5, <1>6, <1>7 DEF Next, vars

\* One receipt at a time goes one way.
LEMMA ReceiptTurns ==
  ASSUME HostInv, HostInv', [Next]_vars
  PROVE  \E e \in Epochs :
            /\ \A d \in Epochs \ {e} : receipts'[d] = receipts[d]
            /\ \/ receipts'[e].state = receipts[e].state
               \/ receipts[e].state = "none" /\ receipts'[e].state = "pending"
               \/ receipts[e].state = "pending" /\ receipts'[e].state = "settled"
               \/ receipts[e].state = "settled" /\ receipts'[e].state = "none"
<1>0. /\ TypeOK /\ receipts \in [Epochs -> Receipt] /\ started \in Epochs
      /\ \A h \in Hooks : pass[h].epoch \in 0..MaxEpoch
  BY DEF HostInv, TypeOK, Pass
<1>1. CASE UNCHANGED receipts
  BY <1>0, <1>1
<1>2. ASSUME NEW e \in Epochs, NEW hints \in SUBSET Workspaces, NEW at \in 0..MaxEpoch,
             Publish(e, hints, at)
      PROVE  /\ \A d \in Epochs \ {e} : receipts'[d] = receipts[d]
             /\ receipts'[e].state = IF receipts[e].state = "none" THEN "pending" ELSE receipts[e].state
  BY <1>0, <1>2, PublishedIs DEF Publish
<1>3. ASSUME NEW h \in Hooks, SettleReceipt(pass[h].epoch, pass[h].token), receipts' # receipts
      PROVE  /\ pass[h].epoch \in Epochs
             /\ \A d \in Epochs \ {pass[h].epoch} : receipts'[d] = receipts[d]
             /\ receipts[pass[h].epoch].state = "pending" /\ receipts'[pass[h].epoch].state = "settled"
  <2> DEFINE e == pass[h].epoch
             new == [receipts[e] EXCEPT !.state = "settled", !.token = @ + 1]
  <2>1. Pending(e) /\ receipts' = [receipts EXCEPT ![e] = new]
    BY <1>3 DEF SettleReceipt
  <2>2. e \in Epochs
    BY <1>0, <1>3, <2>1
  <2>3. new.state = "settled"
    BY <1>0, <2>2 DEF Receipt
  <2> HIDE DEF new
  <2> QED
    BY <1>0, <2>1, <2>2, <2>3 DEF Pending
<1>4. ASSUME NEW e \in Epochs, PruneReceipt(e)
      PROVE  /\ \A d \in Epochs \ {e} : receipts'[d] = receipts[d]
             /\ receipts[e].state = "settled" /\ receipts'[e].state = "none"
  BY <1>0, <1>4 DEF PruneReceipt, Nothing
<1> QED
  BY <1>1, <1>2, <1>3, <1>4, ReceiptWrites

\* The step of a child, a hook or a resume is a step of EpochReceipts, or none.
LEMMA StepIsAbstract ==
  ASSUME Orderly, HostInv, HostInv', OrderInv, OrderInv', OpeningInv, [Next]_vars, RecordSpared
  PROVE  [EpochLife!Next]_(EpochLife!vars)
<1> DEFINE states == [e \in Epochs |-> receipts[e].state]
<1>0. /\ record \in Epochs \cup {None} /\ None \notin Epochs /\ ReceiptedInv /\ ReceiptedInv'
  BY LifecycleAssumption DEF HostInv, TypeOK, OrderInv, Orderly, Epochs
<1>1. CASE receipts' # receipts
  <2>0. UNCHANGED <<open, child, record, started>> /\ Owing' = Owing
    BY <1>1, ReceiptsAlone DEF Owing
  <2>1. PICK e \in Epochs :
          /\ \A d \in Epochs \ {e} : receipts'[d] = receipts[d]
          /\ \/ receipts'[e].state = receipts[e].state
             \/ receipts[e].state = "none" /\ receipts'[e].state = "pending"
             \/ receipts[e].state = "pending" /\ receipts'[e].state = "settled"
             \/ receipts[e].state = "settled" /\ receipts'[e].state = "none"
    BY ReceiptTurns
  <2>2. states' = [states EXCEPT ![e] = receipts'[e].state]
    BY <2>1
  <2>3. states[e] = receipts[e].state
    OBVIOUS
  <2>4. CASE receipts'[e].state = receipts[e].state
    <3>1. states' = states
      BY <2>1, <2>4
    <3> QED
      BY <2>0, <3>1 DEF EpochLife!vars
  <2>5. CASE receipts[e].state = "none" /\ receipts'[e].state = "pending"
    <3>1. ~ EndsLate => record = e
      BY <2>5, ReceiptOpens DEF Receipted
    <3>2. record # e => \A w \in Workspaces : <<e, w>> \notin Owing
      BY <1>0, <2>5, OwingIsOwed DEF ReceiptedInv, Receipted
    <3>3. EpochLife!Publish(e)
      BY <2>0, <2>2, <2>3, <2>5, <3>1, <3>2
         DEF EpochLife!Publish, EpochLife!Turns, EpochLife!Owes
    <3> QED
      BY <3>3 DEF EpochLife!Next
  <2>6. CASE receipts[e].state = "pending" /\ receipts'[e].state = "settled"
    <3>1. \A w \in Workspaces : <<e, w>> \notin Owing
      BY <2>0, <2>6, OwingIsOwed DEF OrderInv, SettledInv
    <3>2. EpochLife!Settle(e)
      BY <2>0, <2>2, <2>3, <2>6, <3>1 DEF EpochLife!Settle, EpochLife!Turns, EpochLife!Owes
    <3> QED
      BY <3>2 DEF EpochLife!Next
  <2>7. CASE receipts[e].state = "settled" /\ receipts'[e].state = "none"
    <3>1. EpochLife!Forget(e)
      BY <2>0, <2>2, <2>3, <2>7 DEF EpochLife!Forget, EpochLife!Turns
    <3> QED
      BY <3>1 DEF EpochLife!Next
  <2> QED
    BY <2>1, <2>4, <2>5, <2>6, <2>7
<1>2. CASE receipts' = receipts /\ UNCHANGED <<started, record>>
  <2>1. CASE Enters
    <3> DEFINE e == child.epoch
               w == child.workspace
    <3>1. /\ child.step = "own" /\ ~ Receipted(e) /\ UNCHANGED open /\ e \in Epochs /\ w \in Workspaces
          /\ child' = [child EXCEPT !.step = "persist"]
      BY <2>1 DEF Enters, FenceOwn, HostInv, TypeOK, ChildInv
    <3>2. record = e
      BY <1>0, <3>1 DEF ReceiptedInv, Coming
    <3>3. Owing' = Owing \cup {<<e, w>>}
      <4>1. child'.step = "persist" /\ child'.epoch = e /\ child'.workspace = w
        BY <3>1 DEF HostInv, TypeOK
      <4> QED
        BY <3>1, <4>1 DEF Owing
    <3>4. EpochLife!Reserve(e, w)
      BY <1>2, <3>1, <3>2, <3>3 DEF EpochLife!Reserve, Receipted
    <3> QED
      BY <3>1, <3>4 DEF EpochLife!Next
  <2>2. CASE OwesLess
    <3>1. Owing' \subseteq Owing
      BY <2>2, OwingIsOwed DEF OwesLess, Owed
    <3>2. EpochLife!Discharge
      BY <1>2, <3>1 DEF EpochLife!Discharge
    <3> QED
      BY <3>2 DEF EpochLife!Next
  <2> QED
    BY <2>1, <2>2, OwingEvolves
<1>3. CASE WriteRecord
  <2>1. /\ record' = started + 1 /\ started' = started + 1 /\ UNCHANGED <<receipts, open, child>>
    BY <1>3 DEF WriteRecord, StartOnly
  <2>2. Owing' = Owing /\ states' = states
    BY <2>1 DEF Owing
  <2>3. started + 1 \in Epochs /\ record # started + 1
    BY <2>1, LifecycleAssumption DEF HostInv, TypeOK, StartInv, Epochs
  <2>4. ASSUME NEW e \in Epochs, e = record, states[e] = "none", NEW w \in Workspaces,
               <<e, w>> \in Owing
        PROVE  FALSE
    <3>1. Owed(e, w)'
      BY <2>2, <2>4, OwingIsOwed
    <3>2. receipts'[e].state # "none"
      BY <1>0, <2>1, <2>3, <2>4, <3>1 DEF ReceiptedInv, Receipted
    <3> QED
      BY <2>1, <2>4, <3>2
  <2>5. EpochLife!Start
    BY <1>0, <2>1, <2>2, <2>3, <2>4 DEF EpochLife!Start, EpochLife!Owes
  <2> QED
    BY <2>5 DEF EpochLife!Next
<1>4. CASE EndHookState /\ record' = None /\ started' = started /\ record' # record
  <2>1. /\ record = pass["end"].epoch /\ At("end", "hooks")
        /\ UNCHANGED <<receipts, open, child>>
    BY <1>0, <1>4, RecordGoes
  <2>2. receipts[record].state # "none" /\ record \in Epochs /\ record # None
    BY <1>0, <1>4, <2>1 DEF ReceiptedInv, Receipted, At, EndWorks, EndSteps
  <2>3. Owing' = Owing /\ states' = states
    BY <2>1 DEF Owing
  <2>4. EpochLife!End
    BY <1>4, <2>2, <2>3 DEF EpochLife!End
  <2> QED
    BY <2>4 DEF EpochLife!Next
<1>5. CASE receipts' = receipts
  BY <1>2, <1>3, <1>4, <1>5, RecordEvolves
<1> QED
  BY <1>1, <1>5

\* The hooks, children and resumes together keep the promise of EpochReceipts: work is taken
\* on for the recorded epoch before it has a receipt, no epoch is left behind that owes
\* something without one, and a receipt is settled once nothing is owed.
THEOREM KeepsReceipts ==
  Orderly => (Spec /\ Undisturbed => ImplementsEpochReceipts)
<1> SUFFICES ASSUME Orderly PROVE Spec /\ Undisturbed => ImplementsEpochReceipts
  OBVIOUS
<1>1. Init => EpochLife!Init
  BY LifecycleAssumption DEF Init, EpochLife!Init, Owing, IdleChild, Nothing, Epochs
<1>2. HostInv /\ HostInv' /\ OrderInv /\ OrderInv' /\ OpeningInv /\ [Next]_vars
        /\ [RecordSpared]_vars => [EpochLife!Next]_(EpochLife!vars)
  <2>1. UNCHANGED vars => RecordSpared
    BY DEF vars, RecordSpared
  <2> QED
    BY <2>1, StepIsAbstract
<1>3. SuccessorRecordKept <=> [][RecordSpared]_vars
  BY DEF SuccessorRecordKept, RecordSpared
<1> QED
  BY HostInvariant, Ordered, OpeningInvariant, <1>1, <1>2, <1>3, PTL
     DEF Spec, ImplementsEpochReceipts, EpochLife!Spec

\* With at most one failure, and when no resume overtakes the publication of the SessionEnd
\* hook, nothing is supposed of what the hooks do: every run has all of these properties.
THEOREM OneFailureIsSafe ==
  Orderly /\ ~ EndsLate /\ MaxFaults <= 1 =>
     (Spec => /\ []SettledIsDischarged /\ []OwedIsDiscoverable /\ []ReplacedIsReceipted
              /\ SuccessorRecordKept /\ ScopeKept /\ ImplementsEpochReceipts)
BY EndSparesSuccessor, OneFailureKeepsScope, SettledOwesNothing, OwedIsFound,
   ReplacementIsReceipted, KeepsReceipts, PTL DEF Undisturbed
=============================================================================
