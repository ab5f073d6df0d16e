--------------------------- MODULE NotificationsProofs ---------------------------
(***************************************************************************)
(* Proofs about Notifications, for any jobs, prompts, limit and faults.    *)
(* A claim names no holder, so what makes it exclusive is an invariant     *)
(* over the marker and all carriers: while no claim of a job has run out   *)
(* and no end of the session has forgotten it, the one who carries its     *)
(* notice is alone and the marker says `held'.                             *)
(***************************************************************************)
EXTENDS Notifications, TLAPS

\* Whoever is between two notices carries none.
IdleCarryNothing == \A c \in Carriers : carrier[c].step \in {"idle", "gone"} => carrier[c].jobs = {}

\* The claim of a job whose lease never ran out: one carrier, and no notice before its own.
Exclusive(j) ==
    /\ marker.claimed[j] # "stale"
    /\ \A c, d \in Carriers : j \in carrier[c].jobs /\ j \in carrier[d].jobs => c = d
    /\ \A c \in Carriers : j \in carrier[c].jobs =>
          /\ marker.claimed[j] = "held" /\ j \notin marker.notified
          /\ carrier[c].step # "finalize" => shown[j] = 0
    /\ shown[j] <= 1
    /\ marker.claimed[j] = "none" /\ j \notin marker.notified => shown[j] = 0

NoticeInv == TypeOK /\ IdleCarryNothing /\ \A j \in Jobs \ lapsed : Exclusive(j)

LEMMA InitNotices == Init => NoticeInv
<1> SUFFICES ASSUME Init PROVE NoticeInv
  OBVIOUS
<1>1. TypeOK
  BY NoticeAssumption DEF Init, TypeOK, Idle, Steps, Claims, NoMarker
<1>2. IdleCarryNothing /\ \A j \in Jobs \ lapsed : Exclusive(j)
  BY DEF Init, IdleCarryNothing, Exclusive, Idle, NoMarker
<1> QED
  BY <1>1, <1>2 DEF NoticeInv

\* A job ends, or a claim runs out: the job it is of is exclusive no longer.
LEMMA TimeKeepsNotices ==
  ASSUME NoticeInv, NEW k \in Jobs, EndJob(k) \/ Lapse(k)
  PROVE  NoticeInv'
<1> USE DEF NoticeInv, TypeOK, Claims
<1>1. CASE EndJob(k)
  BY <1>1 DEF EndJob, IdleCarryNothing, Exclusive
<1>2. CASE Lapse(k)
  <2>1. TypeOK'
    BY <1>2 DEF Lapse
  <2>2. IdleCarryNothing'
    BY <1>2 DEF Lapse, IdleCarryNothing
  <2>3. ASSUME NEW j \in Jobs \ lapsed' PROVE Exclusive(j)'
    BY <1>2, <2>3 DEF Lapse, Exclusive
  <2> QED
    BY <2>1, <2>2, <2>3
<1> QED
  BY <1>1, <1>2

\* The end of the session forgets only what it takes off the job's claim: what the marker
\* said nothing about was not told, and nobody is telling it.
LEMMA EndKeepsNotices ==
  ASSUME NoticeInv, CleanupSession
  PROVE  NoticeInv'
<1>1. /\ UNCHANGED <<terminal, carrier, shown, faults>> /\ marker' = NoMarker
      /\ ends' \in 0..MaxEnds
  BY NoticeAssumption DEF CleanupSession, NoticeInv, TypeOK
<1>2. lapsed' = lapsed \cup {j \in Jobs : j \in marker.notified \/ marker.claimed[j] # "none"}
  BY DEF CleanupSession
<1>3. TypeOK'
  BY <1>1, <1>2 DEF NoticeInv, TypeOK, NoMarker, Claims
<1>4. IdleCarryNothing'
  BY <1>1 DEF NoticeInv, IdleCarryNothing
<1>5. ASSUME NEW j \in Jobs \ lapsed' PROVE Exclusive(j)'
  <2>1. Exclusive(j) /\ marker.claimed[j] = "none" /\ j \notin marker.notified
    BY <1>2, <1>5 DEF NoticeInv
  <2>2. \A c \in Carriers : j \notin carrier[c].jobs
    BY <2>1 DEF Exclusive
  <2> QED
    BY <1>1, <1>5, <2>1, <2>2 DEF Exclusive, NoMarker
<1> QED
  BY <1>3, <1>4, <1>5 DEF NoticeInv

\* A prompt claims what no live claim covers, so nobody carries what it takes.
LEMMA PromptKeepsNotices ==
  ASSUME NoticeInv, NEW p \in Prompts, ClaimNotifications(p)
  PROVE  NoticeInv'
<1>1. PICK selected \in SUBSET Unread :
        /\ marker' = [marker EXCEPT
              !.claimed = [j \in Jobs |-> IF j \in selected THEN "held"
                                          ELSE IF @[j] = "stale" THEN "none" ELSE @[j]]]
        /\ carrier' = IF selected = {} THEN carrier
                      ELSE [carrier EXCEPT ![p] = [step |-> "deliver", jobs |-> selected]]
  BY DEF ClaimNotifications
<1>2. UNCHANGED <<terminal, shown, lapsed, faults, ends>> /\ p \in Carriers /\ carrier[p].step = "idle"
  BY DEF ClaimNotifications, At, Carriers
<1>3. /\ marker'.notified = marker.notified
      /\ \A j \in Jobs : marker'.claimed[j] = IF j \in selected THEN "held"
                                              ELSE IF marker.claimed[j] = "stale" THEN "none"
                                              ELSE marker.claimed[j]
  BY <1>1 DEF NoticeInv, TypeOK
<1>4. selected \subseteq Jobs
  BY DEF Unread, NoticeInv, TypeOK
<1>5. /\ carrier'[p].jobs = selected
      /\ carrier'[p].step \in {"idle", "gone"} => selected = {}
      /\ carrier'[p].step # "finalize"
      /\ \A c \in Carriers : c # p => carrier'[c] = carrier[c]
  BY <1>1, <1>2 DEF NoticeInv, TypeOK, IdleCarryNothing
<1>6. TypeOK'
  <2>1. marker' \in [notified: SUBSET Jobs, claimed: [Jobs -> Claims]]
    BY <1>1 DEF NoticeInv, TypeOK, Claims
  <2>2. carrier' \in [Carriers -> [step: Steps, jobs: SUBSET Jobs]]
    BY <1>1, <1>2, <1>4 DEF NoticeInv, TypeOK, Steps
  <2> QED
    BY <1>2, <2>1, <2>2 DEF NoticeInv, TypeOK
<1>7. IdleCarryNothing'
  BY <1>5 DEF NoticeInv, IdleCarryNothing
<1>8. ASSUME NEW j \in Jobs \ lapsed' PROVE Exclusive(j)'
  <2>1. Exclusive(j) /\ j \in Jobs
    BY <1>2, <1>8 DEF NoticeInv
  <2>2. CASE j \in selected
    <3>1. marker.claimed[j] # "held" /\ j \notin marker.notified
      BY <2>2 DEF Unread
    <3>2. \A c \in Carriers : j \notin carrier[c].jobs
      BY <2>1, <3>1 DEF Exclusive
    <3>3. \A c \in Carriers : j \in carrier'[c].jobs => c = p
      BY <1>5, <3>2
    <3>4. marker.claimed[j] = "none" /\ shown[j] = 0
      BY <2>1, <3>1 DEF Exclusive, NoticeInv, TypeOK, Claims
    <3> QED
      BY <1>2, <1>3, <1>5, <2>1, <2>2, <3>1, <3>3, <3>4 DEF Exclusive
  <2>3. CASE j \notin selected
    <3>1. marker'.claimed[j] = marker.claimed[j]
      BY <1>3, <2>1, <2>3 DEF Exclusive
    <3>2. \A c \in Carriers : j \in carrier'[c].jobs => j \in carrier[c].jobs /\ carrier'[c] = carrier[c]
      BY <1>5, <2>3
    <3> QED
      BY <1>2, <1>3, <2>1, <3>1, <3>2 DEF Exclusive
  <2> QED
    BY <2>2, <2>3
<1> QED
  BY <1>6, <1>7, <1>8 DEF NoticeInv

\* The companion claims its job only when no live claim covers it, and reads its end again.
LEMMA CompanionKeepsNotices ==
  ASSUME NoticeInv, NEW k \in Jobs, ClaimNotificationForJob(k) \/ VerifyWinner(k)
  PROVE  NoticeInv'
<1>0. k \in Carriers /\ k \notin Prompts
  BY NoticeAssumption DEF Carriers
<1>1. CASE ClaimNotificationForJob(k)
  <2>0. UNCHANGED <<terminal, shown, lapsed, faults, ends>> /\ carrier[k].jobs = {}
    BY <1>0, <1>1 DEF ClaimNotificationForJob, At, NoticeInv, IdleCarryNothing
  <2>1. CASE Leaves(k) /\ UNCHANGED marker
    <3>1. carrier' = [carrier EXCEPT ![k] = Gone]
      BY <1>0, <2>1 DEF Leaves
    <3>2. /\ carrier'[k].jobs = {}
          /\ \A c \in Carriers : c # k => carrier'[c] = carrier[c]
      BY <1>0, <3>1 DEF Gone, NoticeInv, TypeOK
    <3>3. TypeOK'
      BY <2>0, <2>1, <3>1 DEF Gone, NoticeInv, TypeOK, Steps
    <3>4. IdleCarryNothing'
      BY <3>2 DEF NoticeInv, IdleCarryNothing
    <3>5. ASSUME NEW j \in Jobs \ lapsed' PROVE Exclusive(j)'
      BY <2>0, <2>1, <3>2, <3>5 DEF NoticeInv, Exclusive
    <3> QED
      BY <3>3, <3>4, <3>5 DEF NoticeInv
  <2>2. CASE /\ k \notin marker.notified /\ marker.claimed[k] # "held"
             /\ marker' = [marker EXCEPT !.claimed[k] = "held"]
             /\ carrier' = [carrier EXCEPT ![k] = [step |-> "verify", jobs |-> {k}]]
    <3>1. /\ carrier'[k] = [step |-> "verify", jobs |-> {k}]
          /\ \A c \in Carriers : c # k => carrier'[c] = carrier[c]
      BY <1>0, <2>2 DEF NoticeInv, TypeOK
    <3>2. /\ marker'.notified = marker.notified /\ marker'.claimed[k] = "held"
          /\ \A j \in Jobs : j # k => marker'.claimed[j] = marker.claimed[j]
      BY <2>2 DEF NoticeInv, TypeOK
    <3>3. TypeOK'
      <4>1. marker' \in [notified: SUBSET Jobs, claimed: [Jobs -> Claims]]
        BY <2>2 DEF NoticeInv, TypeOK, Claims
      <4>2. carrier' \in [Carriers -> [step: Steps, jobs: SUBSET Jobs]]
        BY <2>2 DEF NoticeInv, TypeOK, Steps
      <4> QED
        BY <2>0, <4>1, <4>2 DEF NoticeInv, TypeOK
    <3>4. IdleCarryNothing'
      BY <3>1 DEF NoticeInv, IdleCarryNothing
    <3>5. ASSUME NEW j \in Jobs \ lapsed' PROVE Exclusive(j)'
      <4>1. Exclusive(j) /\ j \in Jobs
        BY <2>0, <3>5 DEF NoticeInv
      <4>2. CASE j = k
        <5>1. \A c \in Carriers : j \notin carrier[c].jobs
          BY <2>2, <4>1, <4>2 DEF Exclusive
        <5>2. \A c \in Carriers : j \in carrier'[c].jobs => c = k
          BY <3>1, <5>1
        <5>3. shown[j] = 0
          BY <2>2, <4>1, <4>2 DEF Exclusive, NoticeInv, TypeOK, Claims
        <5> QED
          BY <2>0, <2>2, <3>1, <3>2, <4>1, <4>2, <5>2, <5>3 DEF Exclusive
      <4>3. CASE j # k
        <5>1. \A c \in Carriers : j \in carrier'[c].jobs => j \in carrier[c].jobs /\ carrier'[c] = carrier[c]
          BY <3>1, <4>3
        <5> QED
          BY <2>0, <3>2, <4>1, <4>3, <5>1 DEF Exclusive
      <4> QED
        BY <4>2, <4>3
    <3> QED
      BY <3>3, <3>4, <3>5 DEF NoticeInv
  <2> QED
    BY <1>1, <2>1, <2>2 DEF ClaimNotificationForJob
<1>2. CASE VerifyWinner(k)
  <2>1. /\ UNCHANGED <<terminal, marker, shown, lapsed, ends>> /\ faults' \in 0..MaxFaults
        /\ carrier[k].step = "verify"
    BY <1>2, NoticeAssumption DEF VerifyWinner, At, Fault, NoFault, NoticeInv, TypeOK
  <2>2. PICK s \in {"deliver", "release"} : carrier' = [carrier EXCEPT ![k].step = s]
    BY <1>2 DEF VerifyWinner, Goes
  <2>3. /\ carrier'[k].step = s /\ carrier'[k].jobs = carrier[k].jobs
        /\ \A c \in Carriers : c # k => carrier'[c] = carrier[c]
    BY <1>0, <2>2 DEF NoticeInv, TypeOK
  <2>4. TypeOK'
    <3>1. carrier' \in [Carriers -> [step: Steps, jobs: SUBSET Jobs]]
      BY <1>0, <2>2 DEF NoticeInv, TypeOK, Steps
    <3> QED
      BY <2>1, <3>1 DEF NoticeInv, TypeOK
  <2>5. IdleCarryNothing'
    BY <2>3 DEF NoticeInv, IdleCarryNothing
  <2>6. ASSUME NEW j \in Jobs \ lapsed' PROVE Exclusive(j)'
    BY <2>1, <2>3, <2>6 DEF NoticeInv, Exclusive
  <2> QED
    BY <2>4, <2>5, <2>6 DEF NoticeInv
<1> QED
  BY <1>1, <1>2

\* A delivery shows the notices of whoever carries them, alone while no claim ran out.
LEMMA DeliveryKeepsNotices ==
  ASSUME NoticeInv, NEW c \in Carriers, Deliver(c)
  PROVE  NoticeInv'
<1>1. /\ UNCHANGED <<terminal, marker, lapsed, ends>> /\ faults' \in 0..MaxFaults
      /\ carrier[c].step = "deliver"
  BY NoticeAssumption DEF Deliver, At, Fault, NoFault, NoticeInv, TypeOK
<1>2. PICK s \in {"finalize", "release"} :
        /\ carrier' = [carrier EXCEPT ![c].step = s]
        /\ \/ s = "release" /\ UNCHANGED shown
           \/ /\ s = "finalize"
              /\ shown' = [j \in Jobs |-> IF j \in carrier[c].jobs /\ shown[j] < 2
                                          THEN shown[j] + 1 ELSE shown[j]]
  BY DEF Deliver, Goes
<1>3. /\ carrier'[c].step = s /\ carrier'[c].jobs = carrier[c].jobs
      /\ \A d \in Carriers : d # c => carrier'[d] = carrier[d]
  BY <1>2 DEF NoticeInv, TypeOK
<1>4. TypeOK'
  <2>1. shown' \in [Jobs -> 0..2]
    BY <1>2 DEF NoticeInv, TypeOK
  <2>2. carrier' \in [Carriers -> [step: Steps, jobs: SUBSET Jobs]]
    BY <1>2 DEF NoticeInv, TypeOK, Steps
  <2> QED
    BY <1>1, <2>1, <2>2 DEF NoticeInv, TypeOK
<1>5. IdleCarryNothing'
  BY <1>3 DEF NoticeInv, IdleCarryNothing
<1>6. ASSUME NEW j \in Jobs \ lapsed' PROVE Exclusive(j)'
  <2>1. Exclusive(j) /\ j \in Jobs /\ shown[j] \in 0..2
    BY <1>1, <1>6 DEF NoticeInv, TypeOK
  <2>2. CASE j \in carrier[c].jobs
    <3>1. /\ shown[j] = 0 /\ marker.claimed[j] = "held" /\ j \notin marker.notified
          /\ \A d \in Carriers : j \in carrier[d].jobs => d = c
      BY <1>1, <2>1, <2>2 DEF Exclusive
    <3>2. \A d \in Carriers : j \in carrier'[d].jobs => d = c
      BY <1>3, <3>1
    <3>3. shown'[j] = IF s = "finalize" THEN 1 ELSE 0
      BY <1>2, <2>1, <2>2, <3>1
    <3> QED
      BY <1>1, <1>3, <3>1, <3>2, <3>3 DEF Exclusive
  <2>3. CASE j \notin carrier[c].jobs
    <3>1. shown'[j] = shown[j]
      BY <1>2, <2>1, <2>3
    <3>2. \A d \in Carriers : j \in carrier'[d].jobs => j \in carrier[d].jobs /\ carrier'[d] = carrier[d]
      BY <1>3, <2>3
    <3> QED
      BY <1>1, <2>1, <3>1, <3>2 DEF Exclusive
  <2> QED
    BY <2>2, <2>3
<1> QED
  BY <1>4, <1>5, <1>6 DEF NoticeInv

\* What a carrier leaves behind: its own jobs given up, finalized, released or still claimed.
LEMMA LeavingKeepsNotices ==
  ASSUME NoticeInv, NEW c \in Carriers,
         FinalizeNotifications(c) \/ ReleaseNotifications(c) \/ Die(c)
  PROVE  NoticeInv'
<1>1. /\ UNCHANGED <<terminal, shown, lapsed, ends>> /\ faults' \in 0..MaxFaults
  BY NoticeAssumption
     DEF FinalizeNotifications, ReleaseNotifications, Die, Fault, NoFault, NoticeInv, TypeOK
<1>2. PICK out \in {Idle, Gone} : carrier' = [carrier EXCEPT ![c] = out]
  BY DEF FinalizeNotifications, ReleaseNotifications, Die, Leaves
<1>3. /\ carrier'[c].jobs = {}
      /\ \A d \in Carriers : d # c => carrier'[d] = carrier[d]
  BY <1>2 DEF Idle, Gone, NoticeInv, TypeOK
<1>4. carrier' \in [Carriers -> [step: Steps, jobs: SUBSET Jobs]]
  BY <1>2 DEF Idle, Gone, NoticeInv, TypeOK, Steps
<1>5. IdleCarryNothing'
  BY <1>3 DEF NoticeInv, IdleCarryNothing
<1>6. carrier[c].jobs \in SUBSET Jobs
  BY DEF NoticeInv, TypeOK
<1>7. \/ UNCHANGED marker
      \/ /\ At(c, "finalize")
         /\ marker' = [notified |-> marker.notified \cup carrier[c].jobs,
                       claimed |-> ClaimsAre(carrier[c].jobs, "none")]
      \/ At(c, "release") /\ marker' = [marker EXCEPT !.claimed = ClaimsAre(carrier[c].jobs, "none")]
  BY DEF FinalizeNotifications, ReleaseNotifications, Die
<1>8. ClaimsAre(carrier[c].jobs, "none") \in [Jobs -> Claims]
  BY DEF ClaimsAre, NoticeInv, TypeOK, Claims
<1>9. TypeOK'
  <2>1. marker' \in [notified: SUBSET Jobs, claimed: [Jobs -> Claims]]
    BY <1>6, <1>7, <1>8 DEF NoticeInv, TypeOK
  <2> QED
    BY <1>1, <1>4, <2>1 DEF NoticeInv, TypeOK
<1>10. ASSUME NEW j \in Jobs \ lapsed' PROVE Exclusive(j)'
  <2>1. Exclusive(j) /\ j \in Jobs
    BY <1>1, <1>10 DEF NoticeInv
  <2>2. \A d \in Carriers : j \in carrier'[d].jobs => /\ j \in carrier[d].jobs
                                                      /\ carrier'[d] = carrier[d] /\ d # c
    BY <1>3
  <2>3. CASE UNCHANGED marker
    BY <1>1, <2>1, <2>2, <2>3 DEF Exclusive
  <2>4. CASE /\ ~ UNCHANGED marker /\ j \notin carrier[c].jobs
    <3>1. marker'.claimed[j] = marker.claimed[j] /\ (j \in marker'.notified <=> j \in marker.notified)
      BY <1>7, <2>1, <2>4 DEF ClaimsAre, NoticeInv, TypeOK
    <3> QED
      BY <1>1, <2>1, <2>2, <3>1 DEF Exclusive
  <2>5. CASE /\ ~ UNCHANGED marker /\ j \in carrier[c].jobs
    <3>1. \A d \in Carriers : j \notin carrier'[d].jobs
      BY <2>1, <2>2, <2>5 DEF Exclusive
    <3>2. marker'.claimed[j] = "none"
      BY <1>7, <2>1, <2>5 DEF ClaimsAre, NoticeInv, TypeOK
    <3>3. j \in marker'.notified \/ shown[j] = 0
      <4>1. CASE At(c, "finalize")
        BY <1>7, <2>5, <4>1 DEF At
      <4>2. CASE At(c, "release")
        BY <2>1, <2>5, <4>2 DEF At, Exclusive
      <4> QED
        BY <1>7, <2>5, <4>1, <4>2
    <3> QED
      BY <1>1, <2>1, <3>1, <3>2, <3>3 DEF Exclusive
  <2> QED
    BY <2>3, <2>4, <2>5
<1> QED
  BY <1>5, <1>9, <1>10 DEF NoticeInv

LEMMA NextKeepsNotices == NoticeInv /\ [Next]_vars => NoticeInv'
<1> SUFFICES ASSUME NoticeInv, [Next]_vars PROVE NoticeInv'
  OBVIOUS
<1>1. ASSUME NEW j \in Jobs,
             EndJob(j) \/ Lapse(j) \/ ClaimNotificationForJob(j) \/ VerifyWinner(j)
      PROVE  NoticeInv'
  BY <1>1, TimeKeepsNotices, CompanionKeepsNotices
<1>2. ASSUME NEW p \in Prompts, ClaimNotifications(p) PROVE NoticeInv'
  BY <1>2, PromptKeepsNotices
<1>3. ASSUME NEW c \in Carriers, Bookkeeping(c) \/ Die(c) PROVE NoticeInv'
  BY <1>3, DeliveryKeepsNotices, LeavingKeepsNotices DEF Bookkeeping
<1>4. ASSUME CleanupSession PROVE NoticeInv'
  BY <1>4, EndKeepsNotices
<1>5. CASE UNCHANGED vars
  BY <1>5 DEF vars, NoticeInv, TypeOK, IdleCarryNothing, Exclusive
<1> QED
  BY <1>1, <1>2, <1>3, <1>4, <1>5 DEF Next

\* The invariant holds in every reachable state.
LEMMA NoticeInvariance == Spec => []NoticeInv
  BY InitNotices, NextKeepsNotices, PTL DEF Spec

\* Type correctness of the marker and of the processes that carry notices.
THEOREM NoticeTypes == Spec => []TypeOK
<1>1. NoticeInv => TypeOK
  BY DEF NoticeInv
<1> QED
  BY <1>1, NoticeInvariance, PTL

\* Unless a claim of the job ran out or an end of the session removed what the marker said
\* of it, the Host is given its notice once: claiming is exclusive although a claim names
\* nobody and anyone may finalize or release it.
THEOREM NoticeOnce == Spec => []RepeatedOnlyAfterLapse
<1>1. NoticeInv => RepeatedOnlyAfterLapse
  BY DEF NoticeInv, TypeOK, Exclusive, RepeatedOnlyAfterLapse
<1> QED
  BY <1>1, NoticeInvariance, PTL

=============================================================================
