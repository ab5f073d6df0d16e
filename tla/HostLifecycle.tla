---------------------------- MODULE HostLifecycle ----------------------------
(***************************************************************************)
(* The lifecycle epochs of one host session: the SessionStart record that  *)
(* anchors the current epoch, the receipts that stand for the obligations  *)
(* of ended epochs, and the identity ledger that knows the workspaces.     *)
(*                                                                         *)
(* Four processes share these files.  The SessionStart hook of a resume    *)
(* compensates an epoch that ended without a receipt and replaces the      *)
(* record.  The SessionEnd hook publishes the receipt, settles the         *)
(* obligations it discovers, settles the receipt and removes what the      *)
(* session left.  The prompt hook retries the receipts of prior epochs and *)
(* then begins a caller turn, which replaces the ledger.  A child reserves *)
(* jobs behind an admission fence that runs under the job lock of its      *)
(* workspace.                                                              *)
(*                                                                         *)
(* An epoch is a number, the place of its SessionStart in time.  A job is  *)
(* in "open" from its reservation until it is settled or durably           *)
(* delegated, which is the business of JobStore and EndedRescue.           *)
(* A definition named D_Fault is a faulty variant of D.                    *)
(***************************************************************************)
EXTENDS Naturals, FiniteSets

CONSTANTS
    Workspaces,    \* the workspaces a session may link
    Origin,        \* the one it was started in
    MaxEpoch,      \* how many times the session may start
    MaxFaults,     \* how many reads, writes or hooks may fail
    Overlaps,      \* may a prompt hook of an epoch overlap the SessionEnd hook of that epoch
    EndsLate,      \* may a resume record the next epoch before the SessionEnd hook published
    LinksLate,     \* may a child of the old host link a workspace during a resume
    None

ASSUME LifecycleAssumption ==
    /\ Origin \in Workspaces /\ MaxEpoch \in Nat \ {0} /\ MaxFaults \in Nat
    /\ {Overlaps, EndsLate, LinksLate} \subseteq BOOLEAN
    /\ None \notin Nat /\ None \notin Workspaces
    /\ None \notin [epoch: 1..MaxEpoch, known: SUBSET Workspaces, ended: BOOLEAN]

Epochs == 1..MaxEpoch

VARIABLES
    live,       \* is a host process serving the session
    started,    \* the last epoch that started
    record,     \* the recorded SessionStart: an epoch or None
    ledger,     \* the identity ledger: its epoch, its known workspaces, whether it ended
    receipts,   \* the receipt of each epoch
    open,       \* the jobs still owed, as pairs of an epoch and a workspace
    child,      \* a Rescue child on its way to a reservation
    start,      \* the SessionStart hook of a resume
    pass,       \* the hooks that settle: SessionEnd and prompt
    faults

vars == <<live, started, record, ledger, receipts, open, child, start, pass, faults>>

Hooks == {"end", "prompt"}

ReceiptStates == {"none", "pending", "settled"}
Receipt == [state: ReceiptStates, hints: SUBSET Workspaces, token: Nat, endedAt: 0..MaxEpoch]
Ledger == [epoch: Epochs, known: SUBSET Workspaces, ended: BOOLEAN]

ChildSteps == {"idle", "claim", "scan", "anchor", "own", "persist"}
StartSteps == {"idle", "compensate", "enumerate", "merge", "scan", "publish", "cleanup", "lock",
               "write"}
EndSteps == {"resolve", "publish", "enumerate", "merge", "discover", "settle", "fence", "release",
             "releasing", "receipt", "identity", "hooks"}
PromptSteps == {"list", "next", "ledger", "merge", "discover", "settle", "receipt", "begin"}

\* A settling hook: the epoch it works for, the token of its receipt, the workspaces it
\* proved, those it has yet to visit, the obligations it found and could not settle yet.
Pass == [step: {"idle"} \cup EndSteps \cup PromptSteps, epoch: 0..MaxEpoch, token: Nat,
         scope: SUBSET Workspaces, left: SUBSET Workspaces, found: SUBSET Workspaces,
         unsafe: SUBSET Workspaces, clean: BOOLEAN, complete: BOOLEAN, endedAt: 0..MaxEpoch,
         todo: SUBSET Epochs, seen: [Epochs -> Receipt], turn: 0..MaxEpoch]

Nothing == [state |-> "none", hints |-> {}, token |-> 0, endedAt |-> 0]

IdlePass == [step |-> "idle", epoch |-> 0, token |-> 0, scope |-> {}, left |-> {}, found |-> {},
             unsafe |-> {}, clean |-> TRUE, complete |-> TRUE, endedAt |-> 0, todo |-> {},
             seen |-> [e \in Epochs |-> Nothing], turn |-> 0]
IdleStart == [step |-> "idle", second |-> FALSE, scope |-> {}, fence |-> {}, fenced |-> FALSE,
              held |-> {}]
IdleChild == [step |-> "idle", epoch |-> 0, workspace |-> Origin]

TypeOK ==
    /\ live \in BOOLEAN /\ started \in Epochs
    /\ record \in Epochs \cup {None}
    /\ ledger \in Ledger \cup {None}
    /\ receipts \in [Epochs -> Receipt]
    /\ open \subseteq Epochs \X Workspaces
    /\ child \in [step: ChildSteps, epoch: 0..MaxEpoch, workspace: Workspaces]
    /\ start \in [step: StartSteps, second: BOOLEAN, scope: SUBSET Workspaces,
                  fence: SUBSET Workspaces, fenced: BOOLEAN, held: SUBSET Workspaces]
    /\ pass \in [Hooks -> Pass]
    /\ faults \in 0..MaxFaults

\* A first host process recorded its start and the user has not prompted yet.
Init ==
    /\ live = TRUE /\ started = 1 /\ record = 1 /\ ledger = None
    /\ receipts = [e \in Epochs |-> Nothing]
    /\ open = {} /\ child = IdleChild /\ start = IdleStart
    /\ pass = [h \in Hooks |-> IdlePass]
    /\ faults = 0

\* A read times out, a write fails, a hook is killed.
Fault == faults < MaxFaults /\ faults' = faults + 1
NoFault == UNCHANGED faults

Pending(e) == receipts[e].state = "pending"

\* The workspaces the ledger enumerates; no ledger is the legacy shape of one workspace.
Known == IF ledger = None THEN {Origin} ELSE ledger.known

\* The owner is released outside the job lock.
JobLocked_Fault(w) ==
    \/ child.step \in {"anchor", "own", "persist"} /\ child.workspace = w
    \/ w \in start.held

\* Who holds the job lock of a workspace.
JobLocked(w) ==
    \/ child.step \in {"anchor", "own", "persist"} /\ child.workspace = w
    \/ w \in start.held
    \/ pass["end"].step = "releasing" /\ w \in pass["end"].left

(***************************************************************************)
(* The receipt store.                                                      *)
(***************************************************************************)

\* The first writer creates the receipt; the next only add hints, and only added hints
\* advance the token.  A settled receipt stays settled.
Published(e, hints, endedAt) ==
    LET old == receipts[e] IN
    CASE old.state = "none" ->
           [state |-> "pending", hints |-> hints, token |-> old.token + 1, endedAt |-> endedAt]
      [] old.state # "none" /\ hints \subseteq old.hints -> old
      [] OTHER -> [old EXCEPT !.hints = @ \cup hints, !.token = @ + 1]

Publish(e, hints, endedAt) ==
    receipts' = [receipts EXCEPT ![e] = Published(e, hints, endedAt)]

\* Settling compares the token and takes the receipt once.
SettleReceipt(e, token) ==
    receipts' = IF Pending(e) /\ receipts[e].token = token
                THEN [receipts EXCEPT ![e].state = "settled", ![e].token = @ + 1]
                ELSE receipts

\* Retention: a settled receipt goes, when 512 newer ones or 30 days have passed, which is
\* more than any start or reservation takes.  Its token is a time and does not come back.
PruneReceipt(e) ==
    /\ pass["end"].step = "identity" /\ start.step = "idle" /\ child.step = "idle"
    /\ receipts[e].state = "settled" /\ e # pass["end"].epoch
    /\ receipts' = [receipts EXCEPT ![e] = [Nothing EXCEPT !.token = receipts[e].token]]
    /\ Fault
    /\ UNCHANGED <<live, started, record, ledger, open, child, start, pass>>

(***************************************************************************)
(* The host process and the jobs.                                          *)
(***************************************************************************)

\* The host closes the session and runs its SessionEnd hook.
HostExit ==
    /\ live /\ pass["end"].step = "idle"
    /\ ~ Overlaps => pass["prompt"].step = "idle"
    /\ live' = FALSE
    /\ pass' = [pass EXCEPT !["end"].step = "resolve"]
    /\ UNCHANGED <<started, record, ledger, receipts, open, child, start, faults>>

\* The host dies and runs no hook.
HostKilled ==
    /\ live
    /\ live' = FALSE
    /\ pass' = IF Overlaps THEN pass ELSE [pass EXCEPT !["prompt"] = IdlePass]
    /\ UNCHANGED <<started, record, ledger, receipts, open, child, start, faults>>

\* A job ends by itself.
JobEnds(e, w) ==
    /\ <<e, w>> \in open
    /\ open' = open \ {<<e, w>>}
    /\ UNCHANGED <<live, started, record, ledger, receipts, child, start, pass, faults>>

(***************************************************************************)
(* A Rescue child.  Its executor record carries the epoch of its start.    *)
(***************************************************************************)

ChildGoes(step) == child' = [child EXCEPT !.step = step]
ChildOnly == UNCHANGED <<live, started, record, receipts, start, pass, faults>>

SubagentStart(w) ==
    /\ live /\ child.step = "idle" /\ record # None /\ ledger # None /\ ~ ledger.ended
    /\ child' = [step |-> "claim", epoch |-> record, workspace |-> w]
    /\ UNCHANGED <<ledger, open>> /\ ChildOnly

\* The child's workspace enters the ledger of the live turn, or the claim is refused.
PersistClaim ==
    /\ child.step = "claim"
    /\ ~ LinksLate => start.step = "idle"
    /\ \/ /\ ledger # None /\ ~ ledger.ended
          /\ ledger' = [ledger EXCEPT !.known = @ \cup {child.workspace}]
          /\ ChildGoes("scan")
       \/ (ledger # None => ledger.ended) /\ child' = IdleChild /\ UNCHANGED ledger
    /\ UNCHANGED open /\ ChildOnly

\* The fence, under the job lock: no pending receipt of the session at all, ...
FenceScan ==
    /\ child.step = "scan" /\ ~ JobLocked(child.workspace)
    /\ IF \E e \in Epochs : Pending(e) THEN child' = IdleChild ELSE ChildGoes("anchor")
    /\ UNCHANGED <<ledger, open>> /\ ChildOnly

\* ... the record is still the one the child started under, ...
FenceAnchor ==
    /\ child.step = "anchor"
    /\ IF record = child.epoch THEN ChildGoes("own") ELSE child' = IdleChild
    /\ UNCHANGED <<ledger, open>> /\ ChildOnly

\* A settled receipt does not fence its epoch.
FenceOwn_Fault ==
    /\ child.step = "own"
    /\ IF ~ Pending(child.epoch) THEN ChildGoes("persist") ELSE child' = IdleChild
    /\ UNCHANGED <<ledger, open>> /\ ChildOnly

\* ... and its epoch has no receipt in any state.
FenceOwn ==
    /\ child.step = "own"
    /\ IF receipts[child.epoch].state = "none" THEN ChildGoes("persist") ELSE child' = IdleChild
    /\ UNCHANGED <<ledger, open>> /\ ChildOnly

PersistReservation ==
    /\ child.step = "persist"
    /\ open' = IF \E e \in Epochs : <<e, child.workspace>> \in open THEN open
               ELSE open \cup {<<child.epoch, child.workspace>>}
    /\ child' = IdleChild
    /\ UNCHANGED ledger /\ ChildOnly

Child ==
    \/ \E w \in Workspaces : SubagentStart(w)
    \/ PersistClaim \/ FenceScan \/ FenceAnchor \/ FenceOwn \/ PersistReservation

(***************************************************************************)
(* The SessionStart hook of a resume: recordSession.  It holds the lock of *)
(* the hook state from its first step to its last.                         *)
(***************************************************************************)

StartOnly == UNCHANGED <<open, child, pass>>
StartGoes(step) == start' = [start EXCEPT !.step = step]

\* The compensation is over: the first goes on to the cleanup, the one under the fence
\* to the record.
Compensated == IF start.second THEN "write" ELSE "cleanup"

BeginResume ==
    /\ start.step = "idle" /\ ~ live /\ started < MaxEpoch
    /\ StartGoes(IF record = None THEN "write" ELSE "compensate")
    /\ StartOnly /\ NoFault /\ UNCHANGED <<live, started, record, ledger, receipts>>

\* A settled receipt is complete; a pending one still takes the scope of the ledger.
ReadReceipt ==
    /\ start.step = "compensate"
    /\ StartGoes(IF receipts[record].state = "settled" THEN Compensated ELSE "enumerate")
    /\ StartOnly /\ NoFault /\ UNCHANGED <<live, started, record, ledger, receipts>>

\* The scope of the ledger.  Beside a pending receipt an unreadable ledger is passed over.
EnumerateScope ==
    /\ start.step = "enumerate"
    /\ \/ /\ receipts[record].state = "none" \/ ledger # None
          /\ start' = [start EXCEPT !.scope = Known,
                          !.step = IF receipts[record].state = "none" THEN "scan" ELSE "merge"]
          /\ NoFault
       \/ /\ receipts[record].state # "none" /\ ledger = None
          /\ StartGoes(Compensated) /\ NoFault
       \/ receipts[record].state # "none" /\ StartGoes(Compensated) /\ Fault
    /\ StartOnly /\ UNCHANGED <<live, started, record, ledger, receipts>>

MergeScope ==
    /\ start.step = "merge"
    /\ Publish(record, start.scope, started)
    /\ StartGoes(Compensated)
    /\ StartOnly /\ NoFault /\ UNCHANGED <<live, started, record, ledger>>

\* The scan takes no lock.  What it covers is what the fence will lock.
ScanScope ==
    /\ start.step = "scan"
    /\ LET owed == \E w \in start.scope : <<record, w>> \in open
           next == IF owed THEN "publish" ELSE Compensated
       IN  start' = IF start.second THEN [start EXCEPT !.step = next]
                    ELSE [start EXCEPT !.step = next, !.fence = start.scope, !.fenced = TRUE]
    /\ StartOnly /\ NoFault /\ UNCHANGED <<live, started, record, ledger, receipts>>

PublishCompensation ==
    /\ start.step = "publish"
    /\ Publish(record, start.scope, started)
    /\ StartGoes(Compensated)
    /\ StartOnly /\ NoFault /\ UNCHANGED <<live, started, record, ledger>>

\* The ledger is live and of another epoch than the recorded one.
CleanupRefused == start.step = "cleanup" /\ ledger # None /\ ~ ledger.ended /\ ledger.epoch # record

\* The ledger of the previous epoch ends; a live ledger of another epoch fails the start.
CleanupIdentity ==
    /\ start.step = "cleanup" /\ ~ CleanupRefused
    /\ ledger' = IF ledger = None THEN None ELSE [ledger EXCEPT !.ended = TRUE]
    /\ StartGoes(IF start.fenced THEN "lock" ELSE "write")
    /\ StartOnly /\ NoFault /\ UNCHANGED <<live, started, record, receipts>>

\* The job locks are taken nested and stay held.
LockWorkspace(w) ==
    /\ start.step = "lock" /\ w \in start.fence \ start.held /\ ~ JobLocked(w)
    /\ start' = [start EXCEPT !.held = @ \cup {w}]
    /\ StartOnly /\ NoFault /\ UNCHANGED <<live, started, record, ledger, receipts>>

\* The scan is not repeated under the locks.
CompensateFenced_Fault ==
    /\ start.step = "lock" /\ start.held = start.fence
    /\ start' = [start EXCEPT !.step = "write", !.second = TRUE]
    /\ StartOnly /\ NoFault /\ UNCHANGED <<live, started, record, ledger, receipts>>

CompensateFenced ==
    /\ start.step = "lock" /\ start.held = start.fence
    /\ start' = [start EXCEPT !.step = "compensate", !.second = TRUE]
    /\ StartOnly /\ NoFault /\ UNCHANGED <<live, started, record, ledger, receipts>>

WriteRecord ==
    /\ start.step = "write"
    /\ ~ EndsLate => pass["end"].step \notin {"resolve", "publish"}
    /\ started' = started + 1 /\ record' = started + 1 /\ live' = TRUE
    /\ start' = IdleStart
    /\ StartOnly /\ NoFault /\ UNCHANGED <<ledger, receipts>>

\* A failed start leaves the record; the host serves the session all the same.  A
\* publication that outlived its deadline may have landed.
StartFails ==
    /\ start.step # "idle"
    /\ start' = IdleStart /\ live' = TRUE
    /\ \/ UNCHANGED receipts
       \/ start.step \in {"merge", "publish"} /\ Publish(record, start.scope, started)
    /\ IF CleanupRefused THEN NoFault ELSE Fault
    /\ StartOnly /\ UNCHANGED <<started, record, ledger>>

SessionStart ==
    \/ BeginResume \/ ReadReceipt \/ EnumerateScope \/ MergeScope \/ ScanScope
    \/ PublishCompensation \/ CleanupIdentity \/ \E w \in Workspaces : LockWorkspace(w)
    \/ CompensateFenced \/ WriteRecord \/ StartFails

(***************************************************************************)
(* What the settling hooks share: discover under the job locks, settle     *)
(* what was found, settle the receipt with the token of the scope.         *)
(***************************************************************************)

At(h, step) == pass[h].step = step
Becomes(h, new) == pass' = [pass EXCEPT ![h] = new]
Goes(h, step) == Becomes(h, [pass[h] EXCEPT !.step = step])
Leaves(h) == Becomes(h, IdlePass)
PassOnly == UNCHANGED <<live, started, child, start>>

\* The pass has proved a scope and goes to look for the obligations in it.
Discovering(p, scope) == [p EXCEPT !.step = "discover", !.scope = scope, !.left = scope]

Discover(h, w) ==
    /\ At(h, "discover") /\ w \in pass[h].left /\ ~ JobLocked(w)
    /\ Becomes(h, [pass[h] EXCEPT !.left = @ \ {w},
                      !.found = IF <<pass[h].epoch, w>> \in open THEN @ \cup {w} ELSE @])
    /\ PassOnly /\ NoFault /\ UNCHANGED <<record, ledger, receipts, open>>

Discovered(h) ==
    /\ At(h, "discover") /\ pass[h].left = {}
    /\ Goes(h, "settle")
    /\ PassOnly /\ NoFault /\ UNCHANGED <<record, ledger, receipts, open>>

\* One obligation is settled or delegated, ...
SettleObligation(h, w) ==
    /\ At(h, "settle") /\ w \in pass[h].found
    /\ open' = open \ {<<pass[h].epoch, w>>}
    /\ Becomes(h, [pass[h] EXCEPT !.found = @ \ {w}])
    /\ PassOnly /\ NoFault /\ UNCHANGED <<record, ledger, receipts>>

\* ... or stays owed: the pass is not clean and does not touch its owner.
RetainObligation(h, w) ==
    /\ At(h, "settle") /\ w \in pass[h].found
    /\ Becomes(h, [pass[h] EXCEPT !.found = @ \ {w},
                      !.clean = @ /\ <<pass[h].epoch, w>> \notin open, !.unsafe = @ \cup {w}])
    /\ PassOnly /\ NoFault /\ UNCHANGED <<record, ledger, receipts, open>>

\* After its receipt the SessionEnd hook cleans up; the prompt hook takes the next one.
AfterReceipt(h) == IF h = "end" THEN "identity" ELSE "next"

SettlePass(h) ==
    /\ At(h, "receipt")
    /\ Goes(h, AfterReceipt(h))
    /\ \/ /\ IF pass[h].clean THEN SettleReceipt(pass[h].epoch, pass[h].token)
             ELSE UNCHANGED receipts
          /\ NoFault
       \/ UNCHANGED receipts /\ Fault
    /\ PassOnly /\ UNCHANGED <<record, ledger, open>>

\* A hook is killed, or gives up at its deadline.
HookKilled(h) ==
    /\ ~ At(h, "idle")
    /\ Leaves(h)
    /\ PassOnly /\ Fault /\ UNCHANGED <<record, ledger, receipts, open>>

Working(h) ==
    \/ \E w \in Workspaces : Discover(h, w) \/ SettleObligation(h, w) \/ RetainObligation(h, w)
    \/ Discovered(h) \/ SettlePass(h)

Settling == \E h \in Hooks : Working(h) \/ HookKilled(h)

(***************************************************************************)
(* The SessionEnd hook.                                                    *)
(***************************************************************************)

\* The record names the epoch that ends.  Without one there is no receipt to publish.
ResolveEpoch ==
    /\ At("end", "resolve")
    /\ ~ Overlaps => pass["prompt"].turn # record
    /\ IF record = None THEN Leaves("end")
       ELSE Becomes("end", [pass["end"] EXCEPT !.step = "publish", !.epoch = record])
    /\ PassOnly /\ NoFault /\ UNCHANGED <<record, ledger, receipts, open>>

\* The first durable write.  The boundary is the time of the publication.
PublishSessionEnd ==
    /\ At("end", "publish")
    /\ LET e == pass["end"].epoch
           r == Published(e, {Origin}, started)
       IN  /\ Publish(e, {Origin}, started)
           /\ \/ /\ Becomes("end", [pass["end"] EXCEPT !.step = "enumerate",
                                       !.token = r.token, !.endedAt = r.endedAt])
                 /\ NoFault
              \/ Leaves("end") /\ Fault
    /\ PassOnly /\ UNCHANGED <<record, ledger, open>>

\* Only a ledger of this epoch, or none at all, proves the scope.
EnumerateEnd ==
    /\ At("end", "enumerate")
    /\ LET p == pass["end"] IN
       \/ /\ ledger # None => ledger.epoch = p.epoch
          /\ Becomes("end", [p EXCEPT !.step = "merge", !.scope = Known])
          /\ NoFault
       \/ /\ \/ ledger # None /\ ledger.epoch # p.epoch /\ NoFault
             \/ Fault
          /\ Becomes("end", [Discovering(p, {Origin}) EXCEPT
                                !.clean = FALSE, !.complete = FALSE, !.unsafe = {Origin}])
    /\ PassOnly /\ UNCHANGED <<record, ledger, receipts, open>>

\* The scope goes into the receipt and the pass adopts the new token; when that fails,
\* the write may have landed or not, and the ledger must outlive the pass.
MergeHints ==
    /\ At("end", "merge")
    /\ LET p == pass["end"]
           r == Published(p.epoch, p.scope, p.endedAt)
       IN  \/ /\ Publish(p.epoch, p.scope, p.endedAt)
              /\ Becomes("end", [Discovering(p, p.scope) EXCEPT !.token = r.token])
              /\ NoFault
           \/ /\ Publish(p.epoch, p.scope, p.endedAt) \/ UNCHANGED receipts
              /\ Becomes("end", [Discovering(p, p.scope) EXCEPT !.complete = FALSE])
              /\ Fault
    /\ PassOnly /\ UNCHANGED <<record, ledger, open>>

\* The last scan before the owners go, only of a clean pass.
BeginFence ==
    /\ At("end", "settle") /\ pass["end"].found = {}
    /\ LET p == pass["end"] IN
       Becomes("end", IF p.clean THEN [p EXCEPT !.step = "fence", !.left = p.scope]
                      ELSE [p EXCEPT !.step = "release", !.left = {}])
    /\ PassOnly /\ NoFault /\ UNCHANGED <<record, ledger, receipts, open>>

FenceObligation(w) ==
    /\ At("end", "fence") /\ w \in pass["end"].left /\ ~ JobLocked(w)
    /\ \E discharged \in BOOLEAN :
          LET p == pass["end"]
              kept == IF discharged THEN {} ELSE {<<p.epoch, w>>} \cap open
          IN  /\ open' = (open \ {<<p.epoch, w>>}) \cup kept
              /\ Becomes("end", [p EXCEPT !.left = @ \ {w}, !.clean = @ /\ kept = {},
                                    !.unsafe = IF kept = {} THEN @ ELSE @ \cup {w}])
    /\ PassOnly /\ NoFault /\ UNCHANGED <<record, ledger, receipts>>

EndFence ==
    /\ At("end", "fence") /\ pass["end"].left = {}
    /\ Goes("end", "release")
    /\ PassOnly /\ NoFault /\ UNCHANGED <<record, ledger, receipts, open>>

\* Jobs of another epoch use the same owner.
Foreign(w) == \E e \in Epochs \ {pass["end"].epoch} : <<e, w>> \in open

\* The owner of a workspace is released under its job lock, after a look for such jobs.
CheckForeign(w) ==
    /\ At("end", "release") /\ w \in pass["end"].scope \ pass["end"].unsafe /\ ~ JobLocked(w)
    /\ Becomes("end", IF Foreign(w) THEN [pass["end"] EXCEPT !.unsafe = @ \cup {w}]
                      ELSE [pass["end"] EXCEPT !.step = "releasing", !.left = {w}])
    /\ PassOnly /\ NoFault /\ UNCHANGED <<record, ledger, receipts, open>>

\* Releasing an owner stops its sessions: what the owner ran in the workspace ends.
ReleaseOwner ==
    /\ At("end", "releasing")
    /\ open' = open \ (Epochs \X pass["end"].left)
    /\ Becomes("end", [pass["end"] EXCEPT !.step = "release", !.left = {},
                          !.unsafe = @ \cup pass["end"].left])
    /\ PassOnly /\ NoFault /\ UNCHANGED <<record, ledger, receipts>>

\* Whatever was not released is deferred.
EndRelease ==
    /\ At("end", "release")
    /\ Goes("end", "receipt")
    /\ PassOnly /\ NoFault /\ UNCHANGED <<record, ledger, receipts, open>>

\* The ledger ends last, and only if the receipt has its scope and it is not a successor's.
EndIdentity ==
    /\ At("end", "identity")
    /\ LET p == pass["end"]
           successor == ledger # None /\ ~ ledger.ended /\ ledger.epoch # p.epoch
       IN  IF p.complete /\ ~ successor
           THEN /\ ledger' = IF ledger = None THEN None ELSE [ledger EXCEPT !.ended = TRUE]
                /\ Goes("end", "hooks")
           ELSE Leaves("end") /\ UNCHANGED ledger
    /\ PassOnly /\ NoFault /\ UNCHANGED <<record, receipts, open>>

\* The boundary is not compared.
EndHookState_Fault ==
    /\ At("end", "hooks") /\ start.step = "idle"
    /\ record' = IF record # None THEN None ELSE record
    /\ Leaves("end")
    /\ PassOnly /\ NoFault /\ UNCHANGED <<ledger, receipts, open>>

\* The record goes unless it was written at or after the boundary.
EndHookState ==
    /\ At("end", "hooks") /\ start.step = "idle"
    /\ record' = IF record # None /\ record <= pass["end"].endedAt THEN None ELSE record
    /\ Leaves("end")
    /\ PassOnly /\ NoFault /\ UNCHANGED <<ledger, receipts, open>>

SessionEnd ==
    \/ ResolveEpoch \/ PublishSessionEnd \/ EnumerateEnd \/ MergeHints \/ BeginFence
    \/ \E w \in Workspaces : FenceObligation(w) \/ CheckForeign(w)
    \/ EndFence \/ ReleaseOwner \/ EndRelease \/ EndIdentity \/ EndHookState

(***************************************************************************)
(* The prompt hook: reconcilePriorEpochReceipts, then beginCallerTurn.     *)
(***************************************************************************)

BeginPrompt ==
    /\ At("prompt", "idle") /\ live /\ record # None
    /\ ~ Overlaps => pass["end"].epoch # record
    /\ Becomes("prompt", [IdlePass EXCEPT !.step = "list", !.turn = record])
    /\ PassOnly /\ NoFault /\ UNCHANGED <<record, ledger, receipts, open>>

\* The listing filters the prior epochs out.
ListPending_Fault ==
    /\ At("prompt", "list")
    /\ LET prior == {e \in Epochs \ {pass["prompt"].turn} : FALSE} IN
       \/ /\ Becomes("prompt", [pass["prompt"] EXCEPT !.step = "next", !.todo = prior,
                          !.seen = [e \in Epochs |-> IF e \in prior THEN receipts[e] ELSE Nothing]])
          /\ NoFault
       \/ Goes("prompt", "begin") /\ Fault
    /\ PassOnly /\ UNCHANGED <<record, ledger, receipts, open>>

\* The receipts as listed.  A listing that fails does not fail the prompt.
ListPending ==
    /\ At("prompt", "list")
    /\ LET prior == {e \in Epochs \ {pass["prompt"].turn} : Pending(e)} IN
       \/ /\ Becomes("prompt", [pass["prompt"] EXCEPT !.step = "next", !.todo = prior,
                          !.seen = [e \in Epochs |-> IF e \in prior THEN receipts[e] ELSE Nothing]])
          /\ NoFault
       \/ Goes("prompt", "begin") /\ Fault
    /\ PassOnly /\ UNCHANGED <<record, ledger, receipts, open>>

NextReceipt ==
    /\ At("prompt", "next")
    /\ LET p == pass["prompt"] IN
       \/ \E e \in p.todo :
             Becomes("prompt", [p EXCEPT !.step = "ledger", !.epoch = e, !.clean = TRUE,
                                   !.token = p.seen[e].token, !.endedAt = p.seen[e].endedAt,
                                   !.todo = @ \ {e}, !.unsafe = {}])
       \/ p.todo = {} /\ Goes("prompt", "begin")
    /\ PassOnly /\ NoFault /\ UNCHANGED <<record, ledger, receipts, open>>

\* The scope of the retained ledger is not merged.
ReadLedger_Fault ==
    /\ At("prompt", "ledger")
    /\ LET p == pass["prompt"]
           hinted == {Origin} \cup p.seen[p.epoch].hints
       IN  \/ /\ IF FALSE
                 THEN Becomes("prompt", [p EXCEPT !.step = "merge",
                                                  !.scope = hinted \cup ledger.known])
                 ELSE Becomes("prompt", Discovering(p, hinted))
              /\ NoFault
           \/ Leaves("prompt") /\ Fault
    /\ PassOnly /\ UNCHANGED <<record, ledger, receipts, open>>

\* The scope is proved anew.  An unreadable ledger fails the prompt.
ReadLedger ==
    /\ At("prompt", "ledger")
    /\ LET p == pass["prompt"]
           hinted == {Origin} \cup p.seen[p.epoch].hints
       IN  \/ /\ IF ledger # None /\ ledger.epoch = p.epoch
                 THEN Becomes("prompt", [p EXCEPT !.step = "merge",
                                                  !.scope = hinted \cup ledger.known])
                 ELSE Becomes("prompt", Discovering(p, hinted))
              /\ NoFault
           \/ Leaves("prompt") /\ Fault
    /\ PassOnly /\ UNCHANGED <<record, ledger, receipts, open>>

\* It is persisted before it is used.  A failed merge fails the prompt.
PersistScope ==
    /\ At("prompt", "merge")
    /\ LET p == pass["prompt"]
           r == Published(p.epoch, p.scope, p.endedAt)
       IN  \/ /\ Publish(p.epoch, p.scope, p.endedAt)
              /\ Becomes("prompt", [Discovering(p, p.scope) EXCEPT !.token = r.token])
              /\ NoFault
           \/ /\ Publish(p.epoch, p.scope, p.endedAt) \/ UNCHANGED receipts
              /\ Leaves("prompt") /\ Fault
    /\ PassOnly /\ UNCHANGED <<record, ledger, open>>

PromptSettled ==
    /\ At("prompt", "settle") /\ pass["prompt"].found = {}
    /\ Goes("prompt", "receipt")
    /\ PassOnly /\ NoFault /\ UNCHANGED <<record, ledger, receipts, open>>

\* Any other failure of the reconciliation is advisory.
ReconciliationFails ==
    /\ pass["prompt"].step \in {"next", "discover", "settle"}
    /\ Goes("prompt", "begin")
    /\ PassOnly /\ Fault /\ UNCHANGED <<record, ledger, receipts, open>>

\* A live ledger must be of this epoch and an ended one of an earlier epoch; the scope of
\* an ended ledger is forgotten.
BeginCallerTurn ==
    /\ At("prompt", "begin")
    /\ LET e == pass["prompt"].turn
           begins == \/ ledger = None
                     \/ ledger.ended /\ ledger.epoch < e
                     \/ ~ ledger.ended /\ ledger.epoch = e
           kept == IF ledger = None \/ ledger.ended THEN {} ELSE ledger.known
       IN  ledger' = IF begins
                     THEN [epoch |-> e, known |-> kept \cup {Origin}, ended |-> FALSE]
                     ELSE ledger
    /\ Leaves("prompt")
    /\ PassOnly /\ NoFault /\ UNCHANGED <<record, receipts, open>>

Prompt ==
    \/ BeginPrompt \/ ListPending \/ NextReceipt \/ ReadLedger \/ PersistScope \/ PromptSettled
    \/ ReconciliationFails \/ BeginCallerTurn

Next ==
    \/ HostExit \/ HostKilled
    \/ \E e \in Epochs, w \in Workspaces : JobEnds(e, w)
    \/ \E e \in Epochs : PruneReceipt(e)
    \/ Child \/ SessionStart \/ Settling \/ SessionEnd \/ Prompt

Spec == Init /\ [][Next]_vars

\* Hooks and children go on once they run, the user prompts again, and an obligation or a
\* job lock that is within reach of ever new passes is reached by one of them.
FairSpec ==
    /\ Spec
    /\ WF_vars(Child /\ child.step # "idle") /\ WF_vars(SessionStart /\ start.step # "idle")
    /\ WF_vars(SessionEnd \/ Working("end")) /\ WF_vars(Prompt) /\ WF_vars(Discovered("prompt"))
    /\ SF_vars(SettlePass("prompt"))
    /\ \A w \in Workspaces :
          SF_vars(Discover("prompt", w)) /\ SF_vars(SettleObligation("prompt", w))

-----------------------------------------------------------------------------
(* Properties.                                                             *)

\* A settled receipt stands for an epoch that owes nothing, in any workspace, whichever
\* hook settled it and whatever the child did meanwhile.
SettledIsDischarged ==
    \A e \in Epochs : receipts[e].state = "settled" =>
        \A w \in Workspaces : <<e, w>> \notin open

\* Once a newer epoch is recorded, an older one that still owes something has a receipt.
ReplacedIsReceipted ==
    \A e \in Epochs, w \in Workspaces :
        record # None /\ e < record /\ <<e, w>> \in open => receipts[e].state # "none"

\* What an ended epoch owes is where a later pass will look: in the hints of its receipt,
\* or in the ledger of that epoch.
OwedIsDiscoverable ==
    \A e \in Epochs, w \in Workspaces :
        <<e, w>> \in open /\ receipts[e].state # "none" =>
            \/ w \in receipts[e].hints \cup {Origin}
            \/ ledger # None /\ ledger.epoch = e /\ w \in ledger.known

\* The owner that an ended epoch releases runs no job of another epoch.
ReleaseSparesSuccessor == At("end", "releasing") => \A w \in pass["end"].left : ~ Foreign(w)

\* The end of an epoch removes the record of that epoch only.
SuccessorRecordKept == [][record' = None => record \in {None, pass["end"].epoch}]_vars

\* When no hook is at work, a live ledger is the ledger of the recorded epoch, so that a
\* prompt can begin a turn and a resume can end the ledger.  (With Overlaps it is not so.)
LedgerIsCurrent ==
    start.step = "idle" /\ (\A h \in Hooks : At(h, "idle")) /\ ledger # None /\ ~ ledger.ended
       => record \in {None, ledger.epoch}

\* A job counts as owed from the last look of its child's fence on.
Owing == open \cup (IF child.step = "persist" THEN {<<child.epoch, child.workspace>>} ELSE {})

\* The ledger of an epoch gives way to that of another although a workspace owes that epoch
\* a job and its receipt does not name the workspace.
ScopeForgotten ==
    /\ ledger # None /\ ledger' # None /\ ledger'.epoch # ledger.epoch
    /\ \E w \in Workspaces : /\ <<ledger.epoch, w>> \in Owing
                             /\ w \notin receipts[ledger.epoch].hints \cup {Origin}

\* A prompt goes on after a reconciliation that failed, but its turn does not replace the
\* only file that knows where a prior epoch still owes something.
ScopeKept == [][~ ScopeForgotten]_vars

\* Through all hooks, children and resumes the files keep the promise of EpochReceipts.
EpochLife == INSTANCE EpochReceipts WITH
    current <- record, last <- started, owed <- Owing,
    receipt <- [e \in Epochs |-> receipts[e].state]

ImplementsEpochReceipts == EpochLife!Spec

\* While its host serves the recorded session, a prior epoch does not stay pending: some
\* prompt settles it, so that new Rescue work is not refused for ever.
Serving == live /\ record # None
PriorEpochSettles ==
    \A e \in Epochs : (Serving /\ e < record /\ Pending(e)) ~> ~ (Serving /\ Pending(e))
=============================================================================
