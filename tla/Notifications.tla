----------------------------- MODULE Notifications -----------------------------
(***************************************************************************)
(* The completion notices of one session's jobs in one workspace.  A       *)
(* notice is due once a job is terminal.  It is given by the companion     *)
(* that ran the job, or by the hook of any later prompt: either claims the *)
(* job in the session's marker, writes the notice to the Host and then     *)
(* finalizes the claim, or releases it when the write failed.  A claim     *)
(* lapses after a minute, whoever holds it and whatever that process is    *)
(* doing, and neither finalizing nor releasing asks whose the claim is.    *)
(* The session may end and be resumed; its end removes the marker, with    *)
(* what it says of the notices given and of the ones being given.          *)
(*                                                                         *)
(* Every write of the marker is one step under its lock.                   *)
(* A definition named D_Fault is a faulty variant of D.                    *)
(***************************************************************************)
EXTENDS Naturals, FiniteSets

CONSTANTS
    Jobs,          \* the background jobs; a job stands for the companion that ran it, too
    Prompts,       \* the processes that submit prompts, one after the other
    UnreadLimit,   \* the notices one prompt gives at most
    MaxFaults,     \* how many writes or processes may fail
    MaxEnds        \* how often the session ends and is resumed

ASSUME NoticeAssumption ==
    /\ Jobs \cap Prompts = {}
    /\ UnreadLimit \in Nat \ {0} /\ MaxFaults \in Nat /\ MaxEnds \in Nat

VARIABLES
    terminal,   \* the jobs whose end is published
    marker,     \* the session's marker: what is notified, and what is claimed and how long
    carrier,    \* what each companion and prompt is doing, and for which jobs
    shown,      \* how often the Host was given the notice of a job, counted up to 2
    lapsed,     \* the jobs a claim of which ran out, or which an end of the session forgot
    faults,
    ends        \* the ends of the session so far

vars == <<terminal, marker, carrier, shown, lapsed, faults, ends>>

Carriers == Jobs \cup Prompts
Steps == {"idle", "verify", "deliver", "finalize", "release", "gone"}
Claims == {"none", "held", "stale"}

TypeOK ==
    /\ terminal \subseteq Jobs /\ lapsed \subseteq Jobs
    /\ marker \in [notified: SUBSET Jobs, claimed: [Jobs -> Claims]]
    /\ carrier \in [Carriers -> [step: Steps, jobs: SUBSET Jobs]]
    /\ shown \in [Jobs -> 0..2]
    /\ faults \in 0..MaxFaults /\ ends \in 0..MaxEnds

Idle == [step |-> "idle", jobs |-> {}]
Gone == [step |-> "gone", jobs |-> {}]

\* An absent marker reads as an empty one.
NoMarker == [notified |-> {}, claimed |-> [j \in Jobs |-> "none"]]

Init ==
    /\ terminal = {} /\ lapsed = {}
    /\ marker = NoMarker
    /\ carrier = [c \in Carriers |-> Idle]
    /\ shown = [j \in Jobs |-> 0] /\ faults = 0 /\ ends = 0

Fault == faults < MaxFaults /\ faults' = faults + 1
NoFault == UNCHANGED faults

At(c, step) == carrier[c].step = step
Goes(c, step) == carrier' = [carrier EXCEPT ![c].step = step]

\* A prompt's process is followed by that of the next prompt, a companion by none.
Leaves(c) == carrier' = [carrier EXCEPT ![c] = IF c \in Prompts THEN Idle ELSE Gone]
ClaimsAre(jobs, claim) == [j \in Jobs |-> IF j \in jobs THEN claim ELSE marker.claimed[j]]

EndJob(j) ==
    /\ j \notin terminal /\ terminal' = terminal \cup {j}
    /\ UNCHANGED <<marker, carrier, shown, lapsed, faults, ends>>

\* A minute passes over a claim.
Lapse(j) ==
    /\ marker.claimed[j] = "held"
    /\ marker' = [marker EXCEPT !.claimed[j] = "stale"]
    /\ lapsed' = lapsed \cup {j}
    /\ UNCHANGED <<terminal, carrier, shown, faults, ends>>

\* SessionEnd removes the session's marker; companions and hooks on their way go on.
CleanupSession ==
    /\ ends < MaxEnds /\ ends' = ends + 1
    /\ marker' = NoMarker
    /\ lapsed' = lapsed \cup {j \in Jobs : j \in marker.notified \/ marker.claimed[j] # "none"}
    /\ UNCHANGED <<terminal, carrier, shown, faults>>

-----------------------------------------------------------------------------
(* Claiming.                                                               *)

Unread == {j \in terminal \ marker.notified : marker.claimed[j] # "held"}

\* claimNotifications sweeps the stale claims and takes the last of the unread jobs, in the
\* order of the directory.
ClaimNotifications(p) ==
    /\ At(p, "idle")
    /\ \E selected \in SUBSET Unread :
         /\ Cardinality(selected) <= UnreadLimit
         /\ selected = Unread \/ Cardinality(selected) = UnreadLimit
         /\ marker' = [marker EXCEPT
              !.claimed = [j \in Jobs |-> IF j \in selected THEN "held"
                                          ELSE IF @[j] = "stale" THEN "none" ELSE @[j]]]
         /\ carrier' = IF selected = {} THEN carrier
                       ELSE [carrier EXCEPT ![p] = [step |-> "deliver", jobs |-> selected]]
    /\ UNCHANGED <<terminal, shown, lapsed, faults, ends>>

\* The companion claims its job whether or not a prompt delivers it.
ClaimNotificationForJob_Fault(j) ==
    /\ At(j, "idle") /\ j \in terminal
    /\ IF j \in marker.notified
       THEN Leaves(j) /\ UNCHANGED marker
       ELSE /\ marker' = [marker EXCEPT !.claimed[j] = "held"]
            /\ carrier' = [carrier EXCEPT ![j] = [step |-> "verify", jobs |-> {j}]]
    /\ UNCHANGED <<terminal, shown, lapsed, faults, ends>>

\* claimNotificationForJob
ClaimNotificationForJob(j) ==
    /\ At(j, "idle") /\ j \in terminal
    /\ IF j \in marker.notified \/ marker.claimed[j] = "held"
       THEN Leaves(j) /\ UNCHANGED marker
       ELSE /\ marker' = [marker EXCEPT !.claimed[j] = "held"]
            /\ carrier' = [carrier EXCEPT ![j] = [step |-> "verify", jobs |-> {j}]]
    /\ UNCHANGED <<terminal, shown, lapsed, faults, ends>>

\* The companion reads the published end of its job again; the read may fail.
VerifyWinner(j) ==
    /\ At(j, "verify")
    /\ (Goes(j, "deliver") /\ NoFault) \/ (Goes(j, "release") /\ Fault)
    /\ UNCHANGED <<terminal, marker, shown, lapsed, ends>>

-----------------------------------------------------------------------------
(* Delivery and the bookkeeping after it.                                  *)

\* The Host has the notice once the write is confirmed.
Deliver(c) ==
    /\ At(c, "deliver")
    /\ \/ /\ shown' = [j \in Jobs |-> IF j \in carrier[c].jobs /\ shown[j] < 2
                                      THEN shown[j] + 1 ELSE shown[j]]
          /\ Goes(c, "finalize") /\ NoFault
       \/ Goes(c, "release") /\ UNCHANGED shown /\ Fault
    /\ UNCHANGED <<terminal, marker, lapsed, ends>>

\* finalizeNotifications; a failed write of the marker is left at that.
FinalizeNotifications(c) ==
    /\ At(c, "finalize") /\ Leaves(c)
    /\ \/ /\ marker' = [notified |-> marker.notified \cup carrier[c].jobs,
                        claimed |-> ClaimsAre(carrier[c].jobs, "none")]
          /\ NoFault
       \/ UNCHANGED marker /\ Fault
    /\ UNCHANGED <<terminal, shown, lapsed, ends>>

\* The released jobs are marked as notified.
ReleaseNotifications_Fault(c) ==
    /\ At(c, "release") /\ Leaves(c)
    /\ \/ /\ marker' = [notified |-> marker.notified \cup carrier[c].jobs,
                        claimed |-> ClaimsAre(carrier[c].jobs, "none")]
          /\ NoFault
       \/ UNCHANGED marker /\ Fault
    /\ UNCHANGED <<terminal, shown, lapsed, ends>>

\* releaseNotifications
ReleaseNotifications(c) ==
    /\ At(c, "release") /\ Leaves(c)
    /\ \/ marker' = [marker EXCEPT !.claimed = ClaimsAre(carrier[c].jobs, "none")] /\ NoFault
       \/ UNCHANGED marker /\ Fault
    /\ UNCHANGED <<terminal, shown, lapsed, ends>>

Die(c) ==
    /\ carrier[c].step \notin {"idle", "gone"} /\ Leaves(c) /\ Fault
    /\ UNCHANGED <<terminal, marker, shown, lapsed, ends>>

Bookkeeping(c) == Deliver(c) \/ FinalizeNotifications(c) \/ ReleaseNotifications(c)

Next ==
    \/ \E j \in Jobs : EndJob(j) \/ Lapse(j) \/ ClaimNotificationForJob(j) \/ VerifyWinner(j)
    \/ \E p \in Prompts : ClaimNotifications(p)
    \/ \E c \in Carriers : Bookkeeping(c) \/ Die(c)
    \/ CleanupSession

Spec == Init /\ [][Next]_vars

\* Time passes, the user goes on prompting, and a process that is not killed goes on.
FairSpec ==
    /\ Spec
    /\ \A j \in Jobs : WF_vars(Lapse(j)) /\ WF_vars(VerifyWinner(j))
    /\ \A p \in Prompts : WF_vars(ClaimNotifications(p))
    /\ \A c \in Carriers : WF_vars(Bookkeeping(c))

-----------------------------------------------------------------------------
(* Properties.                                                             *)

\* While no claim of the job ran out and no end of the session removed what the marker says
\* of it, the Host is given its notice once, however prompts and the companion overlap,
\* deliveries fail and processes die.
RepeatedOnlyAfterLapse == \A j \in Jobs : shown[j] > 1 => j \in lapsed

\* No notice is suppressed: the Host is given the notice of every job that ends.
EndIsAnnounced == \A j \in Jobs : j \in terminal ~> shown[j] > 0

=============================================================================
