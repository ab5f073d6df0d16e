---------------------------- MODULE BindingProofs ----------------------------
(***************************************************************************)
(* Proofs about the Rescue bindings of the job store: what a bound rescue  *)
(* may count on while it is reserved, claimed, run, stopped and rolled     *)
(* back, for any number of jobs, sessions, children and leases, with       *)
(* crashes at every write, bindings closed at any time and a clock that    *)
(* may lag.                                                                *)
(*                                                                         *)
(* The argument.  A job changes in ways that keep what a binding or the    *)
(* proof of a continuation says of its finished jobs (Evolves); a binding  *)
(* changes one slot at a time, to a record that is again grounded (Fits);  *)
(* and while the lock is held, the pending publication still matches the   *)
(* slot and the record it was planned from (TxnInv).  On top of that stand *)
(* the repair of the owner index (IndexInv), the generations when the      *)
(* clock does not lag (ClockInv), and, when no process dies either, where  *)
(* every queued job stands in its binding (FilesInv, FirstInv,             *)
(* StandingInv).                                                           *)
(***************************************************************************)
EXTENDS JobStoreProofs, FiniteSetTheorems

Reserving == {"generic", "fresh", "continuation"}

\* A queued job has no session, only a queued bound one carries a continuation proof,
\* and a claim agrees with the fence.
WellFormed(job) ==
    /\ job.status = "queued" => ~ job.session
    /\ job.origin # None => job.status = "queued" /\ job.class = "bound"
    /\ job.lease # None /\ job.fence \in Leases => job.lease = job.fence

BoundOf(j, s) == j \in Stored => jobs[j].owner = s /\ jobs[j].class = "bound"
Past(j)       == j \in Stored /\ jobs[j].status \in Terminal
Names(b, j)   == b # None /\ j \in {b.anchor, b.current}
Unnamed(j)    == \A s \in Sessions, c \in Children : ~ Names(Slot(s, c), j)

\* A binding that has moved on starts from a finished job and names a stored one.
Grounded(b, s) ==
    /\ BoundOf(b.anchor, s) /\ BoundOf(b.current, s)
    /\ b.anchor # b.current => b.current \in Stored /\ Past(b.anchor) /\ ValidAnchor(b.anchor)
    /\ b.state = "active" => b.reason = None

SlotInv == \A s \in Sessions, c \in Children : Slot(s, c) # None => Grounded(Slot(s, c), s)

\* The binding a continuation advances from names two finished jobs, for good.
PriorSound(prior, s) ==
    /\ prior.state = "active"
    /\ Grounded(prior, s)
    /\ Past(prior.anchor) /\ ValidAnchor(prior.anchor)
    /\ Past(prior.current) /\ ValidCurrent(prior.current)

\* The slot of a queued continuation is at it or at the job before it, and once it was
\* claimed only a rollback brings it back there.
OriginInv ==
    \A j \in Stored : jobs[j].origin # None =>
        LET origin == jobs[j].origin
            b == Slot(jobs[j].owner, origin.child)
        IN  /\ PriorSound(origin.prior, jobs[j].owner)
            /\ b # None /\ b.current \in {origin.prior.current, j}
            /\ jobs[j].lease # None /\ b.current # j => MovedBack(b, origin.prior)
            /\ Holders(j) \subseteq {origin.child}

\* A first job is held from its reservation on, and every started one is.
NeedsHolder(j) ==
    /\ j \in Stored /\ jobs[j].class = "bound"
    /\ \/ jobs[j].status \in {"running", "cancelling"}
       \/ jobs[j].status = "queued" /\ jobs[j].origin = None

HeldInv == \A j \in JobIds : NeedsHolder(j) => Holders(j) # {}

Revoking(j) == j \in Stored /\ jobs[j].status = "cancelled" /\ ~ (jobs[j].host /\ jobs[j].session)

-----------------------------------------------------------------------------
(* What each publication may count on between its writes.                  *)

\* The reserved record is written.
Visible == txn.step = "marker" \/ (txn.route = "continuation" /\ txn.step = "binding")

ReservationInv == txn.route \in Reserving /\ Visible => txn.id \in Stored /\ jobs[txn.id] = txn.job

GenericInv ==
    txn.route = "generic" =>
        txn.job.class # "bound" /\ txn.job.origin = None /\ (~ Visible => Unnamed(txn.id))

FreshInv ==
    txn.route = "fresh" =>
        /\ txn.job.class = "bound" /\ txn.job.origin = None
        /\ txn.binding.anchor = txn.id /\ txn.binding.current = txn.id
        /\ txn.binding.state = "active" /\ txn.binding.reason = None
        /\ txn.step \notin {"tuple", "job", "marker"} =>
             Unnamed(txn.id) /\ Slot(txn.owner, txn.child) = None
        /\ txn.step \in {"tuple", "job"} =>
             /\ Slot(txn.owner, txn.child) = txn.binding
             /\ \A s \in Sessions, c \in Children :
                   Names(Slot(s, c), txn.id) => s = txn.owner /\ c = txn.child

ContinuationInv ==
    txn.route = "continuation" =>
        LET prior == Slot(txn.owner, txn.child)
        IN  /\ txn.job.class = "bound"
            /\ prior # None /\ txn.job.origin = [child |-> txn.child, prior |-> prior]
            /\ PriorSound(prior, txn.owner)
            /\ txn.binding = AdvancedTo(prior, txn.id, txn.binding.updatedAt)
            /\ Unnamed(txn.id)

RollbackInv ==
    txn.route = "rollback" =>
        LET b == Slot(txn.owner, txn.child)
            origin == jobs[txn.id].origin
        IN  /\ origin # None
            /\ txn.owner = jobs[txn.id].owner /\ txn.child = origin.child
            /\ Restored(txn.binding, origin.prior)
            /\ txn.step = "binding" => b # None /\ b = AdvancedTo(origin.prior, txn.id, b.updatedAt)
            /\ txn.step = "job" => Restored(b, origin.prior)

CancelInv ==
    txn.route = "cancel" =>
        LET b == Slot(txn.owner, txn.child)
        IN  /\ txn.owner = jobs[txn.id].owner
            /\ txn.step = "binding" =>
                 /\ Holders(txn.id) = {txn.child} /\ b # None
                 /\ txn.binding = [ClosedAs(b, "cancel") EXCEPT !.updatedAt = txn.binding.updatedAt]
                 /\ txn.binding.updatedAt >= b.updatedAt
            /\ txn.step = "job" =>
                 \A c \in Holders(txn.id) : Slot(txn.owner, c).state = "closed"

TxnInv == /\ ReservationInv /\ GenericInv /\ FreshInv /\ ContinuationInv
          /\ RollbackInv /\ CancelInv

AllWellFormed == \A j \in Stored : WellFormed(jobs[j])

RevokedInv ==
    \A j \in JobIds : Revoking(j) =>
        \A c \in Holders(j) : Slot(jobs[j].owner, c).state = "closed"

\* What holds of the records and the bindings in every state.
StoreInv == AllWellFormed /\ SlotInv /\ OriginInv /\ HeldInv /\ RevokedInv

\* The reserved record, as long as it is not written.
PendingInv == txn.route \in Reserving =>
    WellFormed(txn.job) /\ txn.job.lease = None /\ txn.job.owner = txn.owner

BindInv == Inv /\ StoreInv /\ PendingInv /\ TxnInv

-----------------------------------------------------------------------------
(* Records and bindings.                                                   *)

LEMMA SlotIsBinding ==
    ASSUME TypeOK, NEW s \in Sessions, NEW c \in Children
    PROVE  Slot(s, c) \in Binding \cup {None}
BY DEF TypeOK, Slot

\* A binding is a record, and names jobs.
LEMMA BindingNames ==
    ASSUME NEW b \in Binding
    PROVE  b # None /\ b.anchor \in JobIds /\ b.current \in JobIds /\ b.updatedAt \in Nat
BY AbsenceAssumption DEF Binding

\* The proof a continuation carries.
LEMMA OriginIsOrigin ==
    ASSUME TypeOK, NEW j \in Stored, jobs[j].origin # None
    PROVE  /\ jobs[j].origin \in Origin /\ jobs[j].origin.child \in Children
           /\ jobs[j].origin.prior \in Binding /\ jobs[j].owner \in Sessions
<1>1. jobs[j] \in Job
  BY StoredIsJob
<1>2. jobs[j].origin \in Origin /\ jobs[j].owner \in Sessions
  BY <1>1 DEF Job
<1> QED BY <1>2 DEF Origin

\* What a step keeps of the records: who they belong to, and everything that bindings
\* and proofs rely on once they are finished.
Evolves ==
    \A i \in Stored :
        /\ i \in Stored'
        /\ jobs'[i].owner = jobs[i].owner /\ jobs'[i].class = jobs[i].class
        /\ jobs[i].status \in Terminal =>
             /\ jobs'[i].status = jobs[i].status /\ jobs'[i].session = jobs[i].session
             /\ jobs'[i].host = jobs[i].host /\ jobs'[i].origin = jobs[i].origin

LEMMA PastEvolves ==
    ASSUME AllWellFormed, Evolves, NEW j, Past(j)
    PROVE  /\ Past(j)'
           /\ ValidAnchor(j) => ValidAnchor(j)'
           /\ ValidCurrent(j) => ValidCurrent(j)'
<1>1. j \in Stored /\ jobs[j].status \in Terminal /\ j \in Stored'
  BY DEF Past, Evolves
<1>2. jobs[j].origin = None
  BY <1>1 DEF AllWellFormed, WellFormed, Terminal
<1>3. /\ jobs'[j].status = jobs[j].status /\ jobs'[j].session = jobs[j].session
      /\ jobs'[j].host = jobs[j].host /\ jobs'[j].origin = None
  BY <1>1, <1>2 DEF Evolves
<1> QED BY <1>1, <1>3 DEF Past, ValidAnchor, ValidCurrent, Readable, Resumable

\* A binding stays grounded as long as no foreign record appears under a name of it.
LEMMA GroundedEvolves ==
    ASSUME AllWellFormed, Evolves, NEW s, NEW b, Grounded(b, s),
           \A j \in {b.anchor, b.current} \ Stored : BoundOf(j, s)'
    PROVE  Grounded(b, s)'
<1>1. \A j \in {b.anchor, b.current} : BoundOf(j, s)'
  BY DEF Grounded, BoundOf, Evolves
<1>2. b.anchor # b.current => b.current \in Stored' /\ Past(b.anchor)' /\ ValidAnchor(b.anchor)'
  BY PastEvolves DEF Grounded, Evolves
<1>3. b.state = "active" => b.reason = None
  BY DEF Grounded
<1> QED BY <1>1, <1>2, <1>3 DEF Grounded

LEMMA PriorEvolves ==
    ASSUME AllWellFormed, Evolves, NEW s, NEW prior, PriorSound(prior, s)
    PROVE  PriorSound(prior, s)'
<1>1. prior.state = "active" /\ Grounded(prior, s)
      /\ Past(prior.anchor) /\ Past(prior.current)
      /\ ValidAnchor(prior.anchor) /\ ValidCurrent(prior.current)
  BY DEF PriorSound
<1>2. Grounded(prior, s)'
  BY <1>1, GroundedEvolves DEF Past
<1>3. Past(prior.anchor)' /\ ValidAnchor(prior.anchor)'
  BY <1>1, PastEvolves
<1>4. Past(prior.current)' /\ ValidCurrent(prior.current)'
  BY <1>1, PastEvolves
<1> QED BY <1>1, <1>2, <1>3, <1>4 DEF PriorSound

\* A record whose queued proof names a binding is an active writable one.
LEMMA ProofIsActive ==
    ASSUME TypeOK, AllWellFormed, NEW j \in Stored, jobs[j].origin # None
    PROVE  ActiveWritable(j) /\ jobs[j].status = "queued" /\ jobs[j].class = "bound"
BY DEF AllWellFormed, WellFormed, ActiveWritable, Writable, Active

LEMMA HolderIsActive ==
    ASSUME NEW j, NeedsHolder(j)
    PROVE  ActiveWritable(j) /\ j \in Stored
BY DEF NeedsHolder, ActiveWritable, Writable, Active

-----------------------------------------------------------------------------
(* One record changes.                                                     *)

\* What a change of the record of `j` may do, as far as bindings are concerned.
Allowed(j, new) ==
    LET old == jobs[j] IN
    /\ new.owner = old.owner /\ new.class = old.class
    /\ WellFormed(new)
    /\ old.status \in Terminal =>
         /\ new.status = old.status /\ new.session = old.session
         /\ new.host = old.host /\ new.origin = old.origin
    /\ new.origin # None => new.origin = old.origin /\ new.created = old.created
    /\ new.status = "queued" => old.status = "queued" /\ new.origin = old.origin
    /\ new.lease # None => old.lease # None \/ new.class # "bound" \/ Holders(j) # {}
    /\ new.class = "bound" /\ new.status \in {"running", "cancelling"} =>
         old.status \in {"running", "cancelling"} \/ Holders(j) # {}
    /\ new.status = "cancelled" /\ ~ (new.host /\ new.session) =>
         \/ old.status = "cancelled"
         \/ \A c \in Holders(j) : Slot(old.owner, c).state = "closed"

LEMMA RecordChange ==
    ASSUME TypeOK, StoreInv, NEW j \in Stored, NEW new \in Job, Allowed(j, new),
           jobs' = [jobs EXCEPT ![j] = new], UNCHANGED bindings
    PROVE  StoreInv' /\ Evolves
<1>a. AllWellFormed /\ SlotInv /\ OriginInv /\ HeldInv /\ RevokedInv
  BY DEF StoreInv
<1>1. /\ Stored' = Stored /\ jobs'[j] = new
      /\ \A i \in Stored \ {j} : jobs'[i] = jobs[i]
  BY AbsenceAssumption DEF TypeOK, Stored
<1>2. Evolves
  BY <1>1 DEF Evolves, Allowed
<1>3. AllWellFormed'
  BY <1>a, <1>1 DEF AllWellFormed, Allowed
<1>4. \A s, c : Slot(s, c)' = Slot(s, c)
  BY DEF Slot
<1>5. \A i \in Stored : Holders(i)' = Holders(i)
  BY <1>1, <1>4, <1>2 DEF Holders, Holds, Evolves
<1>6. SlotInv'
  <2> SUFFICES ASSUME NEW s \in Sessions, NEW c \in Children, Slot(s, c) # None
               PROVE  Grounded(Slot(s, c), s)'
    BY <1>4 DEF SlotInv
  <2>1. PICK b : b = Slot(s, c)
    OBVIOUS
  <2>2. Grounded(b, s)
    BY <1>a, <2>1 DEF SlotInv
  <2>3. Grounded(b, s)'
    BY <1>a, <1>1, <1>2, <2>2, GroundedEvolves DEF BoundOf
  <2> QED BY <1>4, <2>1, <2>3
<1>7. OriginInv'
  <2> SUFFICES ASSUME NEW i \in Stored, jobs'[i].origin # None
               PROVE  (LET origin == jobs[i].origin
                           b == Slot(jobs[i].owner, origin.child)
                       IN  /\ PriorSound(origin.prior, jobs[i].owner)
                           /\ b # None /\ b.current \in {origin.prior.current, i}
                           /\ jobs[i].lease # None /\ b.current # i => MovedBack(b, origin.prior)
                           /\ Holders(i) \subseteq {origin.child})'
    BY <1>1 DEF OriginInv
  <2>1. jobs'[i].origin = jobs[i].origin /\ jobs'[i].owner = jobs[i].owner
    BY <1>1 DEF Allowed
  <2>2. PICK origin, s, b : origin = jobs[i].origin /\ s = jobs[i].owner /\ b = Slot(s, origin.child)
    OBVIOUS
  <2>3. /\ PriorSound(origin.prior, s)
        /\ b # None /\ b.current \in {origin.prior.current, i}
        /\ jobs[i].lease # None /\ b.current # i => MovedBack(b, origin.prior)
        /\ Holders(i) \subseteq {origin.child}
    BY <1>a, <2>1, <2>2 DEF OriginInv
  <2>4. PriorSound(origin.prior, s)'
    BY <1>a, <1>2, <2>3, PriorEvolves
  <2>5. jobs'[i].lease # None => jobs[i].lease # None \/ Holders(i) # {}
    <3>1. CASE i = j
      <4>1. jobs[i].class = "bound"
        BY <1>a, <2>1, OriginIsOrigin, ProofIsActive
      <4> QED BY <1>1, <3>1, <4>1 DEF Allowed
    <3>2. CASE i # j
      BY <1>1, <3>2
    <3> QED BY <3>1, <3>2
  <2>6. Holders(i) # {} => b.current = i
    BY <2>2, <2>3 DEF Holders, Holds
  <2>7. jobs'[i].lease # None /\ b.current # i => MovedBack(b, origin.prior)
    BY <2>3, <2>5, <2>6
  <2>8. jobs'[i].origin = origin /\ jobs'[i].owner = s /\ Slot(s, origin.child)' = b
    BY <1>4, <2>1, <2>2
  <2>9. MovedBack(b, origin.prior)' <=> MovedBack(b, origin.prior)
    BY DEF MovedBack
  <2>10. Holders(i)' \subseteq {origin.child}
    BY <1>5, <2>3
  <2> QED BY <2>3, <2>4, <2>7, <2>8, <2>10 DEF MovedBack
<1>8. HeldInv'
  <2> SUFFICES ASSUME NEW i \in JobIds, NeedsHolder(i)'
               PROVE  Holders(i) # {}
    BY <1>1, <1>5 DEF HeldInv, NeedsHolder
  <2>1. i \in Stored
    BY <1>1 DEF NeedsHolder
  <2>2. CASE i # j
    BY <1>a, <1>1, <2>1, <2>2 DEF NeedsHolder, HeldInv
  <2>3. CASE i = j
    <3>1. Holders(j) # {} \/ NeedsHolder(j)
      BY <1>1, <2>3 DEF NeedsHolder, Allowed
    <3> QED BY <1>a, <2>3, <3>1 DEF HeldInv
  <2> QED BY <2>2, <2>3
<1>9. RevokedInv'
  <2> SUFFICES ASSUME NEW i \in Stored, Revoking(i)', NEW c \in Holders(i)
               PROVE  Slot(jobs[i].owner, c).state = "closed"
    <3>1. \A i \in Stored : jobs'[i].owner = jobs[i].owner
      BY <1>2 DEF Evolves
    <3> QED BY <1>1, <1>4, <1>5, <3>1 DEF RevokedInv, Revoking
  <2>1. CASE i # j
    BY <1>a, <1>1, <2>1 DEF Revoking, RevokedInv, Stored
  <2>2. CASE i = j
    <3>1. jobs[j].status = "cancelled" => Revoking(j)
      BY <1>1, <2>2 DEF Revoking, Allowed, Terminal
    <3>2. new.status = "cancelled" /\ ~ (new.host /\ new.session)
      BY <1>1, <2>2 DEF Revoking
    <3> QED BY <1>a, <2>2, <3>1, <3>2 DEF Allowed, RevokedInv, Stored
  <2> QED BY <2>1, <2>2
<1> QED BY <1>2, <1>3, <1>6, <1>7, <1>8, <1>9 DEF StoreInv

\* A reserved record appears: alone in its bindings, or as the first job of its own.
LEMMA RecordAppears ==
    ASSUME TypeOK, StoreInv, NEW j \in JobIds \ Stored, NEW new \in Job,
           WellFormed(new), new.status = "queued", new.lease = None,
           jobs' = [jobs EXCEPT ![j] = new], UNCHANGED bindings,
           \A s \in Sessions, c \in Children :
              Names(Slot(s, c), j) => s = new.owner /\ new.class = "bound",
           new.class = "bound" /\ new.origin = None =>
              \E c \in Children : Holds(new.owner, c, j),
           new.origin # None =>
              /\ Unnamed(j)
              /\ Slot(new.owner, new.origin.child) = new.origin.prior
              /\ PriorSound(new.origin.prior, new.owner)
    PROVE  StoreInv' /\ Evolves
<1>a. AllWellFormed /\ SlotInv /\ OriginInv /\ HeldInv /\ RevokedInv
  BY DEF StoreInv
<1>1. /\ Stored' = Stored \cup {j} /\ jobs'[j] = new
      /\ \A i \in Stored : jobs'[i] = jobs[i]
  BY AbsenceAssumption DEF TypeOK, Stored
<1>2. Evolves
  BY <1>1 DEF Evolves
<1>3. AllWellFormed'
  BY <1>a, <1>1 DEF AllWellFormed
<1>4. \A s, c : Slot(s, c)' = Slot(s, c)
  BY DEF Slot
<1>5. \A i \in Stored : Holders(i)' = Holders(i)
  BY <1>1, <1>4 DEF Holders, Holds
<1>6. Holders(j)' = {c \in Children : Holds(new.owner, c, j)}
  BY <1>1, <1>4 DEF Holders, Holds
<1>7. SlotInv'
  <2> SUFFICES ASSUME NEW s \in Sessions, NEW c \in Children, Slot(s, c) # None
               PROVE  Grounded(Slot(s, c), s)'
    BY <1>4 DEF SlotInv
  <2>1. PICK b : b = Slot(s, c)
    OBVIOUS
  <2>2. Grounded(b, s)
    BY <1>a, <2>1 DEF SlotInv
  <2>3. ASSUME NEW i \in {b.anchor, b.current} \ Stored
        PROVE  BoundOf(i, s)'
    <3>1. i = j => Names(Slot(s, c), j)
      BY <2>1 DEF Names
    <3> QED BY <1>1, <3>1 DEF BoundOf
  <2>4. Grounded(b, s)'
    BY <1>a, <1>2, <2>2, <2>3, GroundedEvolves
  <2> QED BY <1>4, <2>1, <2>4
<1>8. OriginInv'
  <2> SUFFICES ASSUME NEW i \in Stored', jobs'[i].origin # None
               PROVE  (LET origin == jobs[i].origin
                           b == Slot(jobs[i].owner, origin.child)
                       IN  /\ PriorSound(origin.prior, jobs[i].owner)
                           /\ b # None /\ b.current \in {origin.prior.current, i}
                           /\ jobs[i].lease # None /\ b.current # i => MovedBack(b, origin.prior)
                           /\ Holders(i) \subseteq {origin.child})'
    BY DEF OriginInv
  <2>1. CASE i \in Stored
    <3>1. PICK origin, s, b : origin = jobs[i].origin /\ s = jobs[i].owner /\ b = Slot(s, origin.child)
      OBVIOUS
    <3>2. jobs'[i] = jobs[i] /\ Holders(i)' = Holders(i)
      BY <1>1, <1>5, <2>1
    <3>3. /\ PriorSound(origin.prior, s)
          /\ b # None /\ b.current \in {origin.prior.current, i}
          /\ jobs[i].lease # None /\ b.current # i => MovedBack(b, origin.prior)
          /\ Holders(i) \subseteq {origin.child}
      BY <1>a, <2>1, <3>1, <3>2 DEF OriginInv
    <3>4. PriorSound(origin.prior, s)'
      BY <1>a, <1>2, <3>3, PriorEvolves
    <3>5. jobs'[i].origin = origin /\ jobs'[i].owner = s /\ Slot(s, origin.child)' = b
      BY <1>4, <3>1, <3>2
    <3> QED BY <3>2, <3>3, <3>4, <3>5 DEF MovedBack
  <2>2. CASE i = j
    <3>1. PICK origin, s, b : origin = new.origin /\ s = new.owner /\ b = origin.prior
      OBVIOUS
    <3>2. b \in Binding /\ origin.child \in Children /\ s \in Sessions
      BY <1>1, <2>2, <3>1 DEF Job, Origin
    <3>3. b # None
      BY <3>2, BindingNames
    <3>4. PriorSound(b, s)'
      BY <1>a, <1>1, <1>2, <2>2, <3>1, PriorEvolves
    <3>5. /\ jobs'[i].origin = origin /\ jobs'[i].owner = s /\ jobs'[i].lease = None
          /\ Slot(s, origin.child)' = b
      BY <1>1, <1>4, <2>2, <3>1
    <3>6. Holders(i)' = {}
      BY <1>1, <1>6, <2>2, <3>2, <3>1 DEF Unnamed, Names, Holds
    <3> QED BY <3>1, <3>3, <3>4, <3>5, <3>6
  <2> QED BY <1>1, <2>1, <2>2
<1>9. HeldInv'
  <2> SUFFICES ASSUME NEW i \in JobIds, NeedsHolder(i)'
               PROVE  Holders(i)' # {}
    BY DEF HeldInv
  <2>1. CASE i \in Stored
    BY <1>a, <1>1, <1>5, <2>1 DEF NeedsHolder, HeldInv
  <2>2. CASE i = j
    <3>1. new.class = "bound" /\ new.origin = None
      BY <1>1, <2>2 DEF NeedsHolder
    <3> QED BY <1>6, <2>2, <3>1
  <2> QED BY <1>1, <2>1, <2>2 DEF NeedsHolder
<1>10. RevokedInv'
  <2> SUFFICES ASSUME NEW i \in JobIds, Revoking(i)', NEW c \in Holders(i)'
               PROVE  Slot(jobs'[i].owner, c).state = "closed"
    BY <1>4 DEF RevokedInv
  <2>1. i \in Stored
    BY <1>1 DEF Revoking
  <2> QED BY <1>a, <1>1, <1>5, <2>1 DEF Revoking, RevokedInv
<1> QED BY <1>2, <1>3, <1>7, <1>8, <1>9, <1>10 DEF StoreInv

-----------------------------------------------------------------------------
(* One slot changes.                                                       *)

\* What a write of `n` into a slot may do, as far as the records are concerned.
Fits(s, c, n) ==
    /\ Grounded(n, s)
    /\ \A j \in Stored : jobs[j].origin # None /\ jobs[j].owner = s =>
          /\ c = jobs[j].origin.child =>
               /\ n.current \in {jobs[j].origin.prior.current, j}
               /\ jobs[j].lease # None /\ n.current # j => MovedBack(n, jobs[j].origin.prior)
          /\ n.current = j => c = jobs[j].origin.child
    /\ Slot(s, c) # None /\ Slot(s, c).current # n.current => ~ NeedsHolder(Slot(s, c).current)
    /\ n.state = "closed" \/ ~ Revoking(n.current)

LEMMA SlotsAfter ==
    ASSUME TypeOK, NEW s \in Sessions, NEW c \in Children, NEW n,
           bindings' = [bindings EXCEPT ![s][c] = n]
    PROVE  /\ Slot(s, c)' = n
           /\ \A t \in Sessions, d \in Children :
                 t # s \/ d # c => Slot(t, d)' = Slot(t, d)
BY DEF TypeOK, Slot

LEMMA SlotWrite ==
    ASSUME TypeOK, StoreInv, NEW s \in Sessions, NEW c \in Children, NEW n \in Binding,
           Fits(s, c, n), bindings' = [bindings EXCEPT ![s][c] = n], UNCHANGED jobs
    PROVE  StoreInv'
<1>a. AllWellFormed /\ SlotInv /\ OriginInv /\ HeldInv /\ RevokedInv
  BY DEF StoreInv
<1>1. Stored' = Stored /\ Evolves
  BY DEF Stored, Evolves
<1>2. AllWellFormed'
  BY <1>a, <1>1 DEF AllWellFormed
<1>3. /\ Slot(s, c)' = n
      /\ \A t \in Sessions, d \in Children : t # s \/ d # c => Slot(t, d)' = Slot(t, d)
  BY SlotsAfter
<1>n. n # None
  BY BindingNames
<1>4. SlotInv'
  <2> SUFFICES ASSUME NEW t \in Sessions, NEW d \in Children, Slot(t, d)' # None
               PROVE  Grounded(Slot(t, d), t)'
    BY DEF SlotInv
  <2>1. PICK b : b = Slot(t, d)'
    OBVIOUS
  <2>2. Grounded(b, t)
    BY <1>a, <1>3, <2>1 DEF SlotInv, Fits
  <2>3. Grounded(b, t)'
    BY <1>a, <1>1, <2>2, GroundedEvolves DEF BoundOf
  <2> QED BY <2>1, <2>3
<1>5. ASSUME NEW i \in Stored
      PROVE  /\ \A d \in Holders(i)' : d \in Holders(i) \/ (jobs[i].owner = s /\ d = c /\ n.current = i)
             /\ \A d \in Holders(i) : d \in Holders(i)' \/ (jobs[i].owner = s /\ d = c /\ n.current # i)
  <2>1. jobs[i].owner \in Sessions
    BY StoredIsJob DEF Job
  <2> QED BY <1>3, <1>n, <2>1 DEF Holders, Holds
<1>6. OriginInv'
  <2> SUFFICES ASSUME NEW i \in Stored, jobs[i].origin # None
               PROVE  (LET origin == jobs[i].origin
                           b == Slot(jobs[i].owner, origin.child)
                       IN  /\ PriorSound(origin.prior, jobs[i].owner)
                           /\ b # None /\ b.current \in {origin.prior.current, i}
                           /\ jobs[i].lease # None /\ b.current # i => MovedBack(b, origin.prior)
                           /\ Holders(i) \subseteq {origin.child})'
    BY <1>1 DEF OriginInv
  <2>1. PICK origin, t, b : /\ origin = jobs[i].origin /\ t = jobs[i].owner
                            /\ b = Slot(t, origin.child)'
    OBVIOUS
  <2>2. t \in Sessions /\ origin.child \in Children
    BY <2>1, OriginIsOrigin
  <2>3. PriorSound(origin.prior, t)
    BY <1>a, <2>1 DEF OriginInv
  <2>4. PriorSound(origin.prior, t)'
    BY <1>a, <1>1, <2>3, PriorEvolves
  <2>5. /\ b # None /\ b.current \in {origin.prior.current, i}
        /\ jobs[i].lease # None /\ b.current # i => MovedBack(b, origin.prior)
    <3>1. CASE t = s /\ origin.child = c
      BY <1>3, <1>n, <2>1, <3>1 DEF Fits
    <3>2. CASE ~ (t = s /\ origin.child = c)
      <4>1. b = Slot(t, origin.child)
        BY <1>3, <2>1, <2>2, <3>2
      <4> QED BY <1>a, <2>1, <4>1 DEF OriginInv
    <3> QED BY <3>1, <3>2
  <2>6. Holders(i)' \subseteq {origin.child}
    BY <1>a, <1>5, <2>1 DEF OriginInv, Fits
  <2>7. jobs'[i].origin = origin /\ jobs'[i].owner = t /\ jobs'[i].lease = jobs[i].lease
    BY <2>1
  <2> QED BY <2>1, <2>4, <2>5, <2>6, <2>7 DEF MovedBack
<1>7. HeldInv'
  <2> SUFFICES ASSUME NEW i \in Stored, NeedsHolder(i)
               PROVE  Holders(i)' # {}
    BY <1>1 DEF HeldInv, NeedsHolder
  <2>1. PICK d \in Children : d \in Holders(i)
    BY <1>a DEF HeldInv, Holders, Stored
  <2>2. CASE jobs[i].owner = s /\ d = c /\ n.current # i
    BY <2>1, <2>2 DEF Fits, Holders, Holds
  <2>3. CASE ~ (jobs[i].owner = s /\ d = c /\ n.current # i)
    BY <1>5, <2>1, <2>3
  <2> QED BY <2>2, <2>3
<1>8. RevokedInv'
  <2> SUFFICES ASSUME NEW i \in Stored, Revoking(i), NEW d \in Holders(i)'
               PROVE  Slot(jobs[i].owner, d)'.state = "closed"
    BY <1>1 DEF RevokedInv, Revoking
  <2>1. CASE jobs[i].owner = s /\ d = c
    <3>1. n.current = i
      BY <1>3, <2>1 DEF Holders, Holds
    <3> QED BY <1>3, <2>1, <3>1 DEF Fits
  <2>2. CASE ~ (jobs[i].owner = s /\ d = c)
    <3>1. d \in Holders(i) /\ d \in Children
      BY <1>5, <2>2 DEF Holders
    <3>2. jobs[i].owner \in Sessions
      BY StoredIsJob DEF Job
    <3>3. Slot(jobs[i].owner, d)' = Slot(jobs[i].owner, d)
      BY <1>3, <2>2, <3>1, <3>2
    <3> QED BY <1>a, <3>1, <3>3 DEF RevokedInv, Stored
  <2> QED BY <2>1, <2>2
<1> QED BY <1>2, <1>4, <1>6, <1>7, <1>8 DEF StoreInv

\* Closing a record, at any time not before its generation.
LEMMA ClosingFits ==
    ASSUME TypeOK, StoreInv, NEW s \in Sessions, NEW c \in Children, Slot(s, c) # None,
           NEW reason \in CloseReasons \cup {"cancel"}, NEW time \in Nat,
           time >= Slot(s, c).updatedAt
    PROVE  Fits(s, c, [ClosedAs(Slot(s, c), reason) EXCEPT !.updatedAt = time])
<1> DEFINE n == [ClosedAs(Slot(s, c), reason) EXCEPT !.updatedAt = time]
<1>a. SlotInv /\ OriginInv
  BY DEF StoreInv
<1>1. PICK b \in Binding : b = Slot(s, c)
  BY SlotIsBinding
<1>2. /\ n.anchor = b.anchor /\ n.current = b.current /\ n.state = "closed"
      /\ n.updatedAt = time
  BY <1>1 DEF ClosedAs, Binding
<1>3. Grounded(b, s)
  BY <1>a, <1>1 DEF SlotInv
<1>4. Grounded(n, s)
  BY <1>2, <1>3 DEF Grounded
<1>n. n # None
  <2>1. n \in Binding
    BY <1>1 DEF ClosedAs, Binding
  <2> QED BY <2>1, BindingNames
<1>5. ASSUME NEW j \in Stored, jobs[j].origin # None, jobs[j].owner = s
      PROVE  /\ c = jobs[j].origin.child =>
                  /\ n.current \in {jobs[j].origin.prior.current, j}
                  /\ jobs[j].lease # None /\ n.current # j => MovedBack(n, jobs[j].origin.prior)
             /\ n.current = j => c = jobs[j].origin.child
  <2>1. ASSUME c = jobs[j].origin.child
        PROVE  /\ n.current \in {jobs[j].origin.prior.current, j}
               /\ jobs[j].lease # None /\ n.current # j => MovedBack(n, jobs[j].origin.prior)
    <3>1. PICK prior \in Binding : prior = jobs[j].origin.prior
      BY <1>5, OriginIsOrigin
    <3>2. /\ b.current \in {prior.current, j}
          /\ jobs[j].lease # None /\ b.current # j => MovedBack(b, prior)
      BY <1>a, <1>5, <1>1, <2>1, <3>1 DEF OriginInv
    <3>3. MovedBack(b, prior) => MovedBack(n, prior)
      BY <1>1, <1>2, <1>n, <3>1, BindingNames DEF MovedBack
    <3> QED BY <1>2, <3>1, <3>2, <3>3
  <2>2. n.current = j => c = jobs[j].origin.child
    BY <1>a, <1>5, <1>1, <1>2 DEF OriginInv, Holders, Holds
  <2> QED BY <2>1, <2>2
<1> QED BY <1>1, <1>2, <1>4, <1>5 DEF Fits

\* Collecting records of a workspace in which nothing is unfinished.
LEMMA Collected ==
    ASSUME TypeOK, StoreInv, \A i \in Stored : ~ ActiveWritable(i), UNCHANGED jobs,
           \A s \in Sessions, c \in Children : Slot(s, c)' \in {Slot(s, c), None}
    PROVE  StoreInv'
<1>a. AllWellFormed /\ SlotInv /\ OriginInv /\ HeldInv /\ RevokedInv
  BY DEF StoreInv
<1>1. Stored' = Stored /\ Evolves
  BY DEF Stored, Evolves
<1>2. AllWellFormed'
  BY <1>a, <1>1 DEF AllWellFormed
<1>3. SlotInv'
  <2> SUFFICES ASSUME NEW s \in Sessions, NEW c \in Children, Slot(s, c)' # None
               PROVE  Grounded(Slot(s, c), s)'
    BY DEF SlotInv
  <2>1. PICK b : b = Slot(s, c)' /\ b = Slot(s, c)
    OBVIOUS
  <2>2. Grounded(b, s)
    BY <1>a, <2>1 DEF SlotInv
  <2>3. Grounded(b, s)'
    BY <1>a, <1>1, <2>2, GroundedEvolves DEF BoundOf
  <2> QED BY <2>1, <2>3
<1>4. OriginInv'
  BY <1>a, <1>1, ProofIsActive DEF OriginInv
<1>5. HeldInv'
  <2>1. \A i \in JobIds : NeedsHolder(i)' => NeedsHolder(i)
    BY <1>1 DEF NeedsHolder
  <2> QED BY <2>1, HolderIsActive DEF HeldInv
<1>6. RevokedInv'
  <2> SUFFICES ASSUME NEW i \in Stored, Revoking(i), NEW d \in Holders(i)'
               PROVE  Slot(jobs[i].owner, d)'.state = "closed"
    BY <1>1 DEF RevokedInv, Revoking
  <2>1. jobs[i].owner \in Sessions /\ d \in Children
    BY StoredIsJob DEF Job, Holders
  <2>2. Slot(jobs[i].owner, d)' = Slot(jobs[i].owner, d) /\ d \in Holders(i)
    BY <2>1 DEF Holders, Holds
  <2> QED BY <1>a, <2>2 DEF RevokedInv, Stored
<1> QED BY <1>2, <1>3, <1>4, <1>5, <1>6 DEF StoreInv

-----------------------------------------------------------------------------
(* Steps that leave the records and the bindings alone.                    *)

LEMMA StoreFrame ==
    ASSUME StoreInv, UNCHANGED <<jobs, bindings>>
    PROVE  StoreInv'
<1>a. AllWellFormed /\ SlotInv /\ OriginInv /\ HeldInv /\ RevokedInv
  BY DEF StoreInv
<1>1. Stored' = Stored /\ Evolves
  BY DEF Stored, Evolves
<1>2. \A s, c : Slot(s, c)' = Slot(s, c)
  BY DEF Slot
<1>3. \A i : Holders(i)' = Holders(i)
  BY <1>2 DEF Holders, Holds
<1>4. AllWellFormed'
  BY <1>a, <1>1 DEF AllWellFormed
<1>5. SlotInv'
  <2> SUFFICES ASSUME NEW s \in Sessions, NEW c \in Children, Slot(s, c) # None
               PROVE  Grounded(Slot(s, c), s)'
    BY <1>2 DEF SlotInv
  <2>1. PICK b : b = Slot(s, c)
    OBVIOUS
  <2>2. Grounded(b, s)
    BY <1>a, <2>1 DEF SlotInv
  <2>3. Grounded(b, s)'
    BY <1>a, <1>1, <2>2, GroundedEvolves DEF BoundOf
  <2> QED BY <1>2, <2>1, <2>3
<1>6. OriginInv'
  <2> SUFFICES ASSUME NEW i \in Stored, jobs[i].origin # None
               PROVE  PriorSound(jobs[i].origin.prior, jobs[i].owner)'
    BY <1>a, <1>1, <1>2, <1>3 DEF OriginInv, MovedBack
  <2>1. PICK prior, s : prior = jobs[i].origin.prior /\ s = jobs[i].owner
    OBVIOUS
  <2>2. PriorSound(prior, s)
    BY <1>a, <2>1 DEF OriginInv
  <2>3. PriorSound(prior, s)'
    BY <1>a, <1>1, <2>2, PriorEvolves
  <2> QED BY <2>1, <2>3
<1>7. HeldInv'
  BY <1>a, <1>1, <1>3 DEF HeldInv, NeedsHolder
<1>8. RevokedInv'
  BY <1>a, <1>1, <1>2, <1>3 DEF RevokedInv, Revoking
<1> QED BY <1>4, <1>5, <1>6, <1>7, <1>8 DEF StoreInv

\* Between two publications nothing is pending.
LEMMA NothingPending ==
    ASSUME txn.route \in {"none", "listing"}
    PROVE  PendingInv /\ TxnInv
BY DEF PendingInv, TxnInv, ReservationInv, GenericInv, FreshInv, ContinuationInv, RollbackInv,
       CancelInv, Reserving

LEMMA IdleIsUnrouted ==
    ASSUME PublicationSound, Unlocked
    PROVE  txn.route = "none"
BY DEF PublicationSound, Unlocked

\* A publication goes on to a step it counts on nothing else for.
LEMMA StepTaken ==
    ASSUME TypeOK, AllWellFormed, PendingInv, TxnInv, UNCHANGED <<jobs, bindings>>,
           NEW step \in Steps, txn' = [txn EXCEPT !.step = step],
           txn.route \notin {"rollback", "cancel"},
           Visible' <=> Visible,
           txn.route = "fresh" =>
              /\ step \in {"tuple", "job"} <=> txn.step \in {"tuple", "job"}
              /\ step = "marker" <=> txn.step = "marker"
    PROVE  PendingInv' /\ TxnInv'
<1>a. /\ ReservationInv /\ GenericInv /\ FreshInv /\ ContinuationInv
      /\ RollbackInv /\ CancelInv
  BY DEF TxnInv
<1>1. /\ txn'.step = step /\ txn'.route = txn.route /\ txn'.id = txn.id /\ txn'.job = txn.job
      /\ txn'.owner = txn.owner /\ txn'.child = txn.child /\ txn'.binding = txn.binding
  BY DEF TypeOK, Txn
<1>2. Stored' = Stored /\ Evolves
  BY DEF Stored, Evolves
<1>3. \A s, c : Slot(s, c)' = Slot(s, c)
  BY DEF Slot
<1>4. \A i : Unnamed(i)' <=> Unnamed(i)
  BY <1>3 DEF Unnamed, Names
<1>5. PendingInv'
  BY <1>1 DEF PendingInv, WellFormed
<1>6. ReservationInv' /\ GenericInv'
  BY <1>a, <1>1, <1>2, <1>4 DEF ReservationInv, GenericInv
<1>7. FreshInv'
  BY <1>a, <1>1, <1>3, <1>4 DEF FreshInv, Names
<1>8. ContinuationInv'
  <2> SUFFICES ASSUME txn.route = "continuation"
               PROVE  PriorSound(Slot(txn.owner, txn.child), txn.owner)'
    BY <1>a, <1>1, <1>3, <1>4 DEF ContinuationInv, AdvancedTo
  <2>1. PICK prior, s : prior = Slot(txn.owner, txn.child) /\ s = txn.owner
    OBVIOUS
  <2>2. PriorSound(prior, s)
    BY <1>a, <2>1 DEF ContinuationInv
  <2>3. PriorSound(prior, s)'
    BY <1>2, <2>2, PriorEvolves
  <2> QED BY <1>1, <1>3, <2>1, <2>3
<1>9. RollbackInv' /\ CancelInv'
  BY <1>1 DEF RollbackInv, CancelInv
<1> QED BY <1>5, <1>6, <1>7, <1>8, <1>9 DEF TxnInv

\* A step of another actor while the lock is held, or no step at all.
LEMMA TxnFrame ==
    ASSUME TypeOK, AllWellFormed, PendingInv, TxnInv, UNCHANGED <<jobs, bindings, txn>>
    PROVE  PendingInv' /\ TxnInv'
<1>a. /\ ReservationInv /\ GenericInv /\ FreshInv /\ ContinuationInv
      /\ RollbackInv /\ CancelInv
  BY DEF TxnInv
<1>1. Stored' = Stored /\ Evolves
  BY DEF Stored, Evolves
<1>2. \A s, c : Slot(s, c)' = Slot(s, c)
  BY DEF Slot
<1>3. \A i : Unnamed(i)' <=> Unnamed(i)
  BY <1>2 DEF Unnamed, Names
<1>4. \A i : Holders(i)' = Holders(i)
  BY <1>2 DEF Holders, Holds
<1>5. PendingInv'
  BY DEF PendingInv, WellFormed
<1>6. ReservationInv' /\ GenericInv'
  BY <1>a, <1>1, <1>3 DEF ReservationInv, GenericInv, Visible
<1>7. FreshInv'
  BY <1>a, <1>2, <1>3 DEF FreshInv, Names
<1>8. ContinuationInv'
  <2> SUFFICES ASSUME txn.route = "continuation"
               PROVE  PriorSound(Slot(txn.owner, txn.child), txn.owner)'
    BY <1>a, <1>2, <1>3 DEF ContinuationInv, AdvancedTo
  <2>1. PICK prior, s : prior = Slot(txn.owner, txn.child) /\ s = txn.owner
    OBVIOUS
  <2>2. PriorSound(prior, s)
    BY <1>a, <2>1 DEF ContinuationInv
  <2>3. PriorSound(prior, s)'
    BY <1>1, <2>2, PriorEvolves
  <2> QED BY <1>2, <2>1, <2>3
<1>9. RollbackInv'
  BY <1>a, <1>2 DEF RollbackInv, Restored, AdvancedTo
<1>10. CancelInv'
  BY <1>a, <1>2, <1>4 DEF CancelInv, ClosedAs
<1> QED BY <1>5, <1>6, <1>7, <1>8, <1>9, <1>10 DEF TxnInv

-----------------------------------------------------------------------------
(* Attempts and settlements replace a record in a way that is allowed.     *)

\* Leaving the queued status drops the proof and nothing else.
LEMMA MovedKeeps ==
    ASSUME TypeOK, NEW j \in Stored, NEW status \in Statuses
    PROVE  LET new == Moved(j, status)
           IN /\ new.origin = None /\ new.session = jobs[j].session
              /\ new.lease = jobs[j].lease /\ new.fence = jobs[j].fence
BY StoredIsJob DEF Moved, Job

LEMMA MovedAllowed ==
    ASSUME TypeOK, StoreInv, NEW j \in Stored, NEW new \in Job,
           jobs[j].status \notin Terminal, new.status # "queued",
           new.owner = jobs[j].owner, new.class = jobs[j].class, new.origin = None,
           new.lease = jobs[j].lease, new.fence = jobs[j].fence,
           new.class = "bound" /\ new.status \in {"running", "cancelling"} =>
             jobs[j].status \in {"running", "cancelling"} \/ Holders(j) # {},
           new.status = "cancelled" /\ ~ (new.host /\ new.session) =>
             \A c \in Holders(j) : Slot(jobs[j].owner, c).state = "closed"
    PROVE  Allowed(j, new)
<1>1. WellFormed(jobs[j])
  BY DEF StoreInv, AllWellFormed
<1> QED BY <1>1 DEF Allowed, WellFormed

\* A job that is runnable is bound by a binding, unless it is not of that class.
LEMMA RunnableIsHeld ==
    ASSUME NEW j \in Stored, Runnable(j), jobs[j].class = "bound"
    PROVE  Holders(j) # {}
BY DEF Runnable, Classify, Writable

\* A binding is of bound jobs.
LEMMA HeldIsBound ==
    ASSUME TypeOK, StoreInv, NEW j \in Stored, Holders(j) # {}
    PROVE  jobs[j].class = "bound"
<1>1. PICK c \in Children : Holds(jobs[j].owner, c, j)
  BY DEF Holders
<1>2. jobs[j].owner \in Sessions
  BY StoredIsJob DEF Job
<1>3. Grounded(Slot(jobs[j].owner, c), jobs[j].owner)
  BY <1>1, <1>2 DEF StoreInv, SlotInv, Holds
<1> QED BY <1>1, <1>3 DEF Grounded, BoundOf, Holds

\* A stop intent is one field.
LEMMA StopKeeps ==
    ASSUME NEW old \in Job, NEW stop \in StopCauses \cup {None}
    PROVE  LET new == [old EXCEPT !.stop = stop]
           IN /\ new \in Job /\ new.status = old.status /\ new.owner = old.owner
              /\ new.class = old.class /\ new.host = old.host /\ new.origin = old.origin
              /\ new.lease = old.lease /\ new.fence = old.fence /\ new.session = old.session
BY DEF Job

LEMMA ReplacedIs ==
    ASSUME TypeOK, NEW j \in Stored, NEW new, Replace(j, new)
    PROVE  jobs'[j] = new /\ jobs' = [jobs EXCEPT ![j] = new] /\ UNCHANGED bindings
BY StoredIsJob DEF Replace, TypeOK

LEMMA AttemptAllowed ==
    ASSUME TypeOK, StoreInv, NEW j \in JobIds, Attempt(j)
    PROVE  j \in Stored /\ Allowed(j, jobs'[j])
<1>0. Attempt(j) => j \in Stored /\ jobs[j].status = "queued"
  BY DEF Attempt, PublishJobSpecCommitment, StartRunning, BindJobExecutionReservationLease,
         FenceJobWorkerExecution, ClaimJobWorker, ClaimJobWorkerForExecution,
         FinishJobAfterExecutionClaimFailure, May
<1>a. j \in Stored /\ jobs[j].status = "queued" /\ jobs[j] \in Job /\ WellFormed(jobs[j])
  BY <1>0, StoredIsJob DEF StoreInv, AllWellFormed
<1>t. \E new \in Job : Replace(j, new)
  BY AttemptRewrites DEF Rewrites
<1>j. jobs'[j] \in Job
  BY <1>a, <1>t, ReplacedIs
<1>1. ASSUME NEW fence \in Leases \cup {Unleased}, jobs[j].lease = None,
             Replace(j, [jobs[j] EXCEPT !.fence = fence])
      PROVE  Allowed(j, jobs'[j])
  <2> DEFINE new == [jobs[j] EXCEPT !.fence = fence]
  <2>1. /\ new.owner = jobs[j].owner /\ new.class = jobs[j].class /\ new.host = jobs[j].host
        /\ new.status = "queued" /\ new.session = jobs[j].session
        /\ new.created = jobs[j].created /\ new.origin = jobs[j].origin /\ new.lease = None
    BY <1>a, <1>1 DEF Job
  <2>2. jobs'[j] = new
    BY <1>a, <1>1, ReplacedIs
  <2> HIDE DEF new
  <2> QED BY <1>a, <2>1, <2>2 DEF Allowed, WellFormed, Terminal
<1>2. ASSUME NEW l \in Leases, jobs[j].fence \in {None, l},
             jobs[j].class = "bound" => Holders(j) # {},
             Replace(j, [jobs[j] EXCEPT !.lease = l])
      PROVE  Allowed(j, jobs'[j])
  <2> DEFINE new == [jobs[j] EXCEPT !.lease = l]
  <2>1. /\ new.owner = jobs[j].owner /\ new.class = jobs[j].class /\ new.host = jobs[j].host
        /\ new.status = "queued" /\ new.session = jobs[j].session
        /\ new.created = jobs[j].created /\ new.origin = jobs[j].origin
        /\ new.lease = l /\ new.fence = jobs[j].fence
    BY <1>a, <1>2 DEF Job
  <2>2. jobs'[j] = new
    BY <1>a, <1>2, ReplacedIs
  <2> HIDE DEF new
  <2> QED BY <1>a, <1>2, <2>1, <2>2, NoneAssumption DEF Allowed, WellFormed, Terminal
<1>3. CASE StartRunning(j)
  <2> DEFINE moved == Moved(j, "running")
             new == [moved EXCEPT !.session = Writable(j)]
  <2>1. /\ moved \in Job /\ moved.status = "running" /\ moved.owner = jobs[j].owner
        /\ moved.class = jobs[j].class /\ moved.origin = None
        /\ moved.lease = jobs[j].lease /\ moved.fence = jobs[j].fence
    BY <1>a, MovedIsJob, MovedKeeps DEF Statuses
  <2>2. \A old \in Job : \A w : LET n == [old EXCEPT !.session = w]
                            IN /\ n.owner = old.owner /\ n.class = old.class
                               /\ n.status = old.status /\ n.origin = old.origin
                               /\ n.lease = old.lease /\ n.fence = old.fence
    BY DEF Job
  <2>3. /\ new.status = "running" /\ new.owner = jobs[j].owner /\ new.class = jobs[j].class
        /\ new.origin = None /\ new.lease = jobs[j].lease /\ new.fence = jobs[j].fence
    BY <2>1, <2>2, Zenon
  <2>4. jobs'[j] = new
    BY <1>a, <1>3, ReplacedIs DEF StartRunning
  <2>5. jobs[j].class = "bound" => Holders(j) # {}
    <3>1. CASE jobs[j].origin = None
      BY <1>a, <3>1 DEF StoreInv, HeldInv, NeedsHolder
    <3>2. CASE jobs[j].origin # None
      <4>1. PICK b : b = Slot(jobs[j].owner, jobs[j].origin.child)
        OBVIOUS
      <4>2. jobs[j].lease # None
        BY <1>a, <1>3, <3>2, ProofIsActive DEF StartRunning, StoreInv, ActiveWritable
      <4>3. b # None /\ b.current = j
        BY <1>a, <1>3, <3>2, <4>1, <4>2 DEF StartRunning, StoreInv, OriginInv
      <4>4. jobs[j].origin.child \in Children
        BY <1>a, <3>2, OriginIsOrigin
      <4> QED BY <4>1, <4>3, <4>4 DEF Holders, Holds
    <3> QED BY <3>1, <3>2
  <2> HIDE DEF new
  <2> QED BY <1>a, <1>j, <2>3, <2>4, <2>5, MovedAllowed DEF Terminal
<1>4. CASE PublishJobSpecCommitment(j)
  <2>1. jobs[j].lease = None /\ Replace(j, [jobs[j] EXCEPT !.fence = Unleased])
    BY <1>4 DEF PublishJobSpecCommitment
  <2>2. Unleased \in Leases \cup {Unleased}
    OBVIOUS
  <2> QED BY <1>a, <1>1, <2>1, <2>2
<1>5. ASSUME NEW l \in Leases, BindJobExecutionReservationLease(j, l) \/ FenceJobWorkerExecution(j, l)
      PROVE  Allowed(j, jobs'[j])
  BY <1>1, <1>5 DEF BindJobExecutionReservationLease, FenceJobWorkerExecution
<1>6. ASSUME NEW l \in Leases, ClaimJobWorker(j, l)
      PROVE  Allowed(j, jobs'[j])
  <2>1. jobs[j].class # "bound" /\ jobs[j].fence = None
    BY <1>6 DEF ClaimJobWorker, Writable
  <2> QED BY <1>2, <1>6, <2>1 DEF ClaimJobWorker
<1>7. ASSUME NEW l \in Leases, ClaimJobWorkerForExecution(j, l)
      PROVE  Allowed(j, jobs'[j])
  BY <1>a, <1>2, <1>7, RunnableIsHeld DEF ClaimJobWorkerForExecution
<1>8. ASSUME NEW l \in Leases, FinishJobAfterExecutionClaimFailure(j, l)
      PROVE  Allowed(j, jobs'[j])
  <2>1. jobs'[j] = Moved(j, "failed")
    BY <1>a, <1>8, ReplacedIs DEF FinishJobAfterExecutionClaimFailure
  <2> QED BY <1>a, <1>j, <2>1, MovedIsJob, MovedKeeps, MovedAllowed DEF Statuses, Terminal
<1> QED BY <1>a, <1>3, <1>4, <1>5, <1>6, <1>7, <1>8 DEF Attempt

\* A settlement changes the record as allowed, or plans it against what it read.
LEMMA SettlementAllowedOrPlanned ==
    ASSUME TypeOK, IntentsAreHosted, StoreInv, NEW j \in JobIds, Settlement(j)
    PROVE  /\ j \in Stored
           /\ \/ (\E new \in Job : Replace(j, new)) /\ Allowed(j, jobs'[j])
              \/ UNCHANGED <<jobs, bindings>> /\ txn'.route \in {"rollback", "cancel"} /\ TxnInv'
<1> DEFINE Done == \/ (\E new \in Job : Replace(j, new)) /\ Allowed(j, jobs'[j])
                   \/ /\ UNCHANGED <<jobs, bindings>>
                      /\ txn'.route \in {"rollback", "cancel"} /\ TxnInv'
<1>0. Settlement(j) => j \in Stored
  BY DEF Settlement, StopFailed, CorrectCoordinationLossStopCause, FailQueued,
         FinishActiveRescueContinuationFailure, CleanupTerminalExecutionReservation,
         FinishStarted, PersistQueuedStop, StartCancelling, CancelJob, May
<1>a. j \in Stored /\ jobs[j] \in Job /\ WellFormed(jobs[j])
  BY <1>0, StoredIsJob DEF StoreInv, AllWellFormed
<1>m. ASSUME NEW status \in Statuses \ {"queued", "cancelled"}, jobs[j].status \notin Terminal,
             status \in {"running", "cancelling"} => jobs[j].status \in {"running", "cancelling"},
             Replace(j, Moved(j, status))
      PROVE  Done
  <2>1. jobs'[j] = Moved(j, status)
    BY <1>a, <1>m, ReplacedIs
  <2>2. Moved(j, status) \in Job
    BY <1>a, <1>m, MovedIsJob
  <2>3. Allowed(j, Moved(j, status))
    BY <1>a, <1>m, <2>2, MovedIsJob, MovedKeeps, MovedAllowed
  <2> QED BY <1>m, <2>1, <2>2, <2>3
<1>s. ASSUME NEW stop \in StopCauses \cup {None}, Replace(j, [jobs[j] EXCEPT !.stop = stop])
      PROVE  Done
  <2> DEFINE new == [jobs[j] EXCEPT !.stop = stop]
  <2>1. /\ new.owner = jobs[j].owner /\ new.class = jobs[j].class /\ new.host = jobs[j].host
        /\ new.status = jobs[j].status /\ new.session = jobs[j].session
        /\ new.created = jobs[j].created /\ new.origin = jobs[j].origin /\ new.lease = jobs[j].lease
        /\ new.fence = jobs[j].fence /\ new \in Job
    BY <1>a DEF Job
  <2>2. jobs'[j] = new
    BY <1>a, <1>s, ReplacedIs
  <2>3. new.status = "cancelled" => jobs[j].status = "cancelled"
    BY <2>1
  <2>4. new.class = "bound" /\ new.status \in {"running", "cancelling"} =>
           jobs[j].status \in {"running", "cancelling"}
    BY <2>1
  <2> HIDE DEF new
  <2>5. Allowed(j, new)
    BY <1>a, <2>1, <2>3, <2>4 DEF Allowed, WellFormed
  <2> QED BY <1>s, <2>1, <2>2, <2>5 DEF new
<1>1. CASE StopFailed(j)
  BY <1>a, <1>m, <1>1 DEF StopFailed, May, Statuses, Terminal
<1>2. CASE CorrectCoordinationLossStopCause(j)
  BY <1>a, <1>s, <1>2 DEF CorrectCoordinationLossStopCause, StopCauses
<1>3. CASE FailQueued(j)
  BY <1>a, <1>m, <1>3 DEF FailQueued, May, Statuses, Terminal
<1>4. CASE FinishActiveRescueContinuationFailure(j)
  <2>1. PICK origin, s, b : origin = jobs[j].origin /\ s = jobs[j].owner /\ b = Slot(s, origin.child)
    OBVIOUS
  <2>2. PICK prior : prior = origin.prior
    OBVIOUS
  <2>3. /\ origin # None
        /\ Restored(b, prior) \/ (b # None /\ b = AdvancedTo(prior, j, b.updatedAt))
        /\ txn' = [step |-> IF Restored(b, prior) THEN "job" ELSE "binding",
                   route |-> "rollback", id |-> j, job |-> Moved(j, "failed"),
                   owner |-> s, child |-> origin.child,
                   binding |-> [prior EXCEPT !.updatedAt = RestoredAt(prior, b)]]
        /\ UNCHANGED <<jobs, bindings>>
    BY <1>4, <2>1, <2>2 DEF FinishActiveRescueContinuationFailure, MayRollBack
  <2>4. origin.child \in Children /\ prior \in Binding /\ s \in Sessions
    BY <1>a, <2>1, <2>2, <2>3, OriginIsOrigin
  <2>5. b \in Binding
    <3>1. b \in Binding \cup {None}
      BY <2>1, <2>4, SlotIsBinding
    <3>2. b # None
      BY <2>3 DEF Restored
    <3> QED BY <3>1, <3>2
  <2>6. Restored([prior EXCEPT !.updatedAt = RestoredAt(prior, b)], prior)
    <3> DEFINE n == [prior EXCEPT !.updatedAt = RestoredAt(prior, b)]
    <3>1. RestoredAt(prior, b) \in Nat /\ RestoredAt(prior, b) > prior.updatedAt
      BY <2>4, <2>5, BindingNames DEF RestoredAt, Larger, TypeOK
    <3>2. n \in Binding /\ n.updatedAt = RestoredAt(prior, b)
      BY <2>4, <3>1 DEF Binding
    <3> QED BY <3>1, <3>2, BindingNames DEF Restored
  <2>7. RollbackInv'
    <3>1. Slot(s, origin.child)' = b /\ jobs'[j].origin = origin /\ jobs'[j].owner = s
      BY <2>1, <2>3 DEF Slot
    <3>2. /\ txn'.id = j /\ txn'.owner = s /\ txn'.child = origin.child
          /\ txn'.binding = [prior EXCEPT !.updatedAt = RestoredAt(prior, b)]
          /\ txn'.step = IF Restored(b, prior) THEN "job" ELSE "binding"
      BY <2>3
    <3>3. Restored(txn'.binding, prior)
      BY <2>6, <3>2
    <3> QED BY <2>2, <2>3, <3>1, <3>2, <3>3 DEF RollbackInv, Restored, AdvancedTo
  <2>8. txn'.route = "rollback"
    BY <2>3
  <2>9. TxnInv'
    BY <2>7, <2>8 DEF TxnInv, ReservationInv, GenericInv, FreshInv, ContinuationInv, CancelInv,
                      Reserving
  <2> QED BY <1>a, <2>3, <2>8, <2>9
<1>5. CASE CleanupTerminalExecutionReservation(j)
  <2> DEFINE new == [jobs[j] EXCEPT !.fence = None]
  <2>1. /\ new.owner = jobs[j].owner /\ new.class = jobs[j].class /\ new.host = jobs[j].host
        /\ new.status = jobs[j].status /\ new.session = jobs[j].session
        /\ new.created = jobs[j].created /\ new.origin = jobs[j].origin /\ new.lease = jobs[j].lease
        /\ new.fence = None /\ new \in Job
    BY <1>a DEF Job
  <2>2. jobs'[j] = new /\ jobs[j].status \in Terminal /\ Replace(j, new)
    BY <1>a, <1>5, ReplacedIs DEF CleanupTerminalExecutionReservation, May
  <2> HIDE DEF new
  <2>5. Allowed(j, new)
    BY <1>a, <2>1, <2>2, NoneAssumption DEF Allowed, WellFormed, Terminal
  <2> QED BY <1>a, <2>1, <2>2, <2>5
<1>6. ASSUME NEW status \in Terminal, FinishStarted(j, status)
      PROVE  Done
  BY <1>m, <1>6 DEF FinishStarted, May, Statuses, Terminal
<1>7. ASSUME NEW cause \in Causes, PersistQueuedStop(j, cause)
      PROVE  Done
  BY <1>s, <1>7, InPlayAssumption DEF PersistQueuedStop
<1>8. ASSUME NEW cause \in Causes, StartCancelling(j, cause)
      PROVE  Done
  <2> DEFINE moved == Moved(j, "cancelling")
             new == [moved EXCEPT !.stop = StopIntent(j, cause)]
  <2>1. /\ moved \in Job /\ moved.status = "cancelling" /\ moved.owner = jobs[j].owner
        /\ moved.class = jobs[j].class /\ moved.origin = None
        /\ moved.lease = jobs[j].lease /\ moved.fence = jobs[j].fence
    BY <1>a, MovedIsJob, MovedKeeps DEF Statuses
  <2>2. StopIntent(j, cause) \in StopCauses \cup {None}
    BY <1>a, StopIntentIsStop
  <2>3. /\ new \in Job /\ new.status = "cancelling" /\ new.owner = jobs[j].owner
        /\ new.class = jobs[j].class /\ new.origin = None
        /\ new.lease = jobs[j].lease /\ new.fence = jobs[j].fence
    BY <2>1, <2>2, StopKeeps
  <2>4. jobs'[j] = new /\ jobs[j].status = "running" /\ Replace(j, new)
    BY <1>a, <1>8, ReplacedIs DEF StartCancelling, May
  <2> HIDE DEF new
  <2>5. Allowed(j, new)
    BY <1>a, <2>3, <2>4, MovedAllowed DEF Terminal
  <2> QED BY <2>3, <2>4, <2>5
<1>9. ASSUME NEW cause \in Causes, CancelJob(j, cause)
      PROVE  Done
  <2> DEFINE moved == Moved(j, "cancelled")
             new == [moved EXCEPT !.stop = StopIntent(j, cause)]
             held == {c \in Holders(j) : Slot(jobs[j].owner, c).state = "active"}
  <2>1. /\ moved \in Job /\ moved.status = "cancelled" /\ moved.owner = jobs[j].owner
        /\ moved.class = jobs[j].class /\ moved.origin = None /\ moved.host = jobs[j].host
        /\ moved.lease = jobs[j].lease /\ moved.fence = jobs[j].fence
        /\ moved.session = jobs[j].session
    BY <1>a, MovedIsJob, MovedKeeps DEF Statuses
  <2>2. StopIntent(j, cause) \in StopCauses \cup {None}
    BY <1>a, StopIntentIsStop
  <2>3. /\ new \in Job /\ new.status = "cancelled" /\ new.owner = jobs[j].owner
        /\ new.class = jobs[j].class /\ new.origin = None /\ new.host = jobs[j].host
        /\ new.lease = jobs[j].lease /\ new.fence = jobs[j].fence
        /\ new.session = jobs[j].session
    BY <2>1, <2>2, StopKeeps
  <2>4. jobs[j].status \in {"queued", "cancelling"}
    BY <1>9 DEF CancelJob, May
  <2>o. jobs[j].owner \in Sessions
    BY <1>a DEF Job
  <2>5. CASE Writable(j) /\ ~ Resumable(j) /\ held # {}
    <3>1. PICK c \in held :
            LET b == Slot(jobs[j].owner, c) IN
            /\ Holders(j) = {c}
            /\ clock >= b.updatedAt
            /\ txn' = [step |-> "binding", route |-> "cancel", id |-> j, job |-> new,
                       owner |-> jobs[j].owner, child |-> c,
                       binding |-> [ClosedAs(b, "cancel") EXCEPT !.updatedAt = clock]]
            /\ UNCHANGED <<jobs, bindings, authority, partitions, tuples, marker, clock>>
      BY <1>9, <2>5, Zenon DEF CancelJob
    <3>2. c \in Children /\ Slot(jobs[j].owner, c) # None
      BY DEF Holders, Holds
    <3>3. PICK b \in Binding : b = Slot(jobs[j].owner, c)
      BY <2>o, <3>2, SlotIsBinding
    <3>4. /\ txn'.route = "cancel" /\ txn'.id = j /\ txn'.step = "binding"
          /\ txn'.owner = jobs[j].owner /\ txn'.child = c
          /\ txn'.binding = [ClosedAs(b, "cancel") EXCEPT !.updatedAt = clock]
          /\ clock >= b.updatedAt /\ Holders(j) = {c}
          /\ UNCHANGED <<jobs, bindings>>
      BY <3>1, <3>3
    <3>5. txn'.binding.updatedAt = clock
      BY <3>3, <3>4 DEF ClosedAs, Binding
    <3>6. Holders(j)' = Holders(j) /\ Slot(jobs[j].owner, c)' = b /\ jobs'[j].owner = jobs[j].owner
      BY <3>3, <3>4 DEF Holders, Holds, Slot
    <3>7. CancelInv'
      <4>1. Slot(txn.owner, txn.child)' = b /\ txn'.owner = jobs'[j].owner
        BY <3>4, <3>6 DEF Slot
      <4> QED BY <3>2, <3>3, <3>4, <3>5, <3>6, <4>1 DEF CancelInv, ClosedAs
    <3>8. TxnInv'
      BY <3>4, <3>7 DEF TxnInv, ReservationInv, GenericInv, FreshInv, ContinuationInv,
                        RollbackInv, Reserving
    <3> QED BY <3>4, <3>8
  <2>6. CASE ~ (Writable(j) /\ ~ Resumable(j) /\ held # {})
    <3>1. Replace(j, new)
      BY <1>9, <2>6, Zenon DEF CancelJob
    <3>2. jobs'[j] = new
      BY <1>a, <3>1, ReplacedIs
    <3>3. ASSUME ~ (new.host /\ new.session), NEW c \in Holders(j)
          PROVE  Slot(jobs[j].owner, c).state = "closed"
      <4>1. ~ Resumable(j)
        BY <2>3, <3>3 DEF Resumable
      <4>2. jobs[j].class = "bound"
        BY <1>a, <3>3, HeldIsBound
      <4>3. Slot(jobs[j].owner, c).state # "active"
        BY <2>6, <3>3, <4>1, <4>2 DEF Writable
      <4>4. c \in Children /\ Slot(jobs[j].owner, c) # None
        BY <3>3 DEF Holders, Holds
      <4>5. Slot(jobs[j].owner, c) \in Binding
        BY <2>o, <4>4, SlotIsBinding
      <4> QED BY <4>3, <4>5 DEF Binding
    <3> HIDE DEF new
    <3>4. Allowed(j, new)
      BY <1>a, <2>3, <2>4, <3>3, MovedAllowed DEF Terminal
    <3> QED BY <2>3, <3>1, <3>2, <3>4
  <2> QED BY <2>5, <2>6
<1> QED BY <1>a, <1>1, <1>2, <1>3, <1>4, <1>5, <1>6, <1>7, <1>8, <1>9 DEF Settlement

-----------------------------------------------------------------------------
(* Reservations are planned against what was read.                         *)

\* A reservation starts at the index or, when that is current, right after it.
LEMMA BeginsAt ==
    ASSUME NEW record \in Txn, Begin(record)
    PROVE  \/ txn' = Idle
           \/ /\ txn'.route = record.route /\ txn'.id = record.id /\ txn'.job = record.job
              /\ txn'.owner = record.owner /\ txn'.child = record.child
              /\ txn'.binding = record.binding
              /\ txn'.step \in {"tuples", AfterIndex(record.route, record.owner)}
BY DEF Begin, Txn

LEMMA ReservedIs ==
    ASSUME TypeOK, NEW s \in Sessions, NEW class \in Classes, NEW host \in BOOLEAN,
           NEW origin \in Origin \cup {None}, origin # None => class = "bound"
    PROVE  LET job == ReservedJob(s, class, host, origin)
           IN /\ job \in Job /\ WellFormed(job)
              /\ job.owner = s /\ job.class = class /\ job.host = host /\ job.origin = origin
              /\ job.lease = None /\ job.status = "queued" /\ job.created = clock
BY DEF ReservedJob, Job, Statuses, TypeOK, WellFormed

\* A new id is no name of a binding.
LEMMA FreshIsUnnamed ==
    ASSUME NEW j, FreshId(j)
    PROVE  Unnamed(j) /\ j \notin Stored
BY DEF FreshId, Unnamed, Names

LEMMA ReservationPlanned ==
    ASSUME TypeOK, StoreInv, NEW j \in JobIds, Reservation(j)
    PROVE  UNCHANGED <<jobs, bindings>> /\ PendingInv' /\ TxnInv'
<1>i. txn' = Idle => PendingInv' /\ TxnInv'
  BY DEF Idle, PendingInv, TxnInv, ReservationInv, GenericInv, FreshInv, ContinuationInv,
         RollbackInv, CancelInv, Reserving
<1>1. ASSUME NEW s \in Sessions, NEW class \in Kinds, ReserveJob(j, s, class)
      PROVE  UNCHANGED <<jobs, bindings>> /\ PendingInv' /\ TxnInv'
  <2> DEFINE job == ReservedJob(s, class, FALSE, None)
             record == [Idle EXCEPT !.route = "generic", !.id = j, !.owner = s, !.job = job]
  <2>1. class \in Classes /\ class # "bound" /\ Unnamed(j)
    BY <1>1, InPlayAssumption, FreshIsUnnamed DEF ReserveJob, MayReserve
  <2>2. /\ job \in Job /\ WellFormed(job) /\ job.owner = s /\ job.class = class
        /\ job.origin = None /\ job.lease = None
    <3>1. \A host \in BOOLEAN :
            LET made == ReservedJob(s, class, host, None)
            IN /\ made \in Job /\ WellFormed(made) /\ made.owner = s /\ made.class = class
               /\ made.origin = None /\ made.lease = None
      BY <2>1, ReservedIs
    <3> QED BY <3>1
  <2> HIDE DEF job
  <2>3. /\ record \in Txn /\ record.route = "generic" /\ record.id = j /\ record.owner = s
        /\ record.job = job
    BY <2>2 DEF Idle, Txn, Steps, Routes
  <2>4. Begin(record) /\ UNCHANGED <<jobs, bindings>>
    BY <1>1 DEF ReserveJob, job
  <2> HIDE DEF record
  <2>5. CASE txn' # Idle
    <3>1. /\ txn'.route = "generic" /\ txn'.id = j /\ txn'.job = job /\ txn'.owner = s
          /\ txn'.step \in {"tuples", "tuple"}
      BY <2>3, <2>4, <2>5, BeginsAt DEF AfterIndex
    <3>2. Unnamed(j)'
      BY <2>1, <2>4 DEF Unnamed, Names, Slot
    <3>3. PendingInv'
      BY <2>2, <3>1 DEF PendingInv, WellFormed
    <3>4. GenericInv' /\ ReservationInv'
      BY <2>1, <2>2, <3>1, <3>2 DEF GenericInv, ReservationInv, Visible
    <3>5. TxnInv'
      BY <3>1, <3>4 DEF TxnInv, FreshInv, ContinuationInv, RollbackInv, CancelInv
    <3> QED BY <2>4, <3>3, <3>5
  <2> QED BY <1>i, <2>4, <2>5
<1>2. ASSUME NEW s \in Sessions, NEW c \in Children, NEW host \in BOOLEAN,
             ReserveFreshRescueJob(j, s, c, host)
      PROVE  UNCHANGED <<jobs, bindings>> /\ PendingInv' /\ TxnInv'
  <2> DEFINE job == ReservedJob(s, "bound", host, None)
             binding == [state |-> "active", anchor |-> j, current |-> j,
                         updatedAt |-> clock, reason |-> None]
             record == [step |-> "idle", route |-> "fresh", id |-> j, owner |-> s, child |-> c,
                        job |-> job, binding |-> binding]
  <2>1. Unnamed(j) /\ Slot(s, c) = None
    BY <1>2, FreshIsUnnamed DEF ReserveFreshRescueJob, MayReserve
  <2>2. /\ job \in Job /\ WellFormed(job) /\ job.owner = s /\ job.class = "bound"
        /\ job.origin = None /\ job.lease = None
    BY ReservedIs DEF Classes
  <2> HIDE DEF job
  <2>b. binding \in Binding
    BY DEF Binding, TypeOK
  <2>3. record \in Txn
    BY <2>2, <2>b DEF Txn, Steps, Routes
  <2>4. Begin(record) /\ UNCHANGED <<jobs, bindings>>
    BY <1>2 DEF ReserveFreshRescueJob, job
  <2>5. CASE txn' # Idle
    <3>1. /\ txn'.route = "fresh" /\ txn'.id = j /\ txn'.job = job /\ txn'.owner = s
          /\ txn'.child = c /\ txn'.binding = binding
          /\ txn'.step \in {"tuples", AfterIndex("fresh", s)}
      BY <2>3, <2>4, <2>5, BeginsAt
    <3>s. txn'.step \notin {"tuple", "job", "marker"}
      BY <3>1 DEF AfterIndex
    <3>2. Unnamed(j)' /\ Slot(s, c)' = None
      BY <2>1, <2>4 DEF Unnamed, Names, Slot
    <3>3. PendingInv'
      BY <2>2, <3>1 DEF PendingInv, WellFormed
    <3>4. FreshInv' /\ ReservationInv'
      BY <2>2, <3>1, <3>s, <3>2 DEF FreshInv, ReservationInv, Visible
    <3>5. TxnInv'
      BY <3>1, <3>4 DEF TxnInv, GenericInv, ContinuationInv, RollbackInv, CancelInv
    <3> QED BY <2>4, <3>3, <3>5
  <2> QED BY <1>i, <2>4, <2>5
<1>3. ASSUME NEW s \in Sessions, NEW c \in Children, NEW host \in BOOLEAN,
             ReserveBoundRescueContinuation(j, s, c, host)
      PROVE  UNCHANGED <<jobs, bindings>> /\ PendingInv' /\ TxnInv'
  <2>0. PICK prior \in Binding : prior = Slot(s, c)
    BY <1>3, SlotIsBinding DEF ReserveBoundRescueContinuation
  <2> DEFINE origin == [child |-> c, prior |-> prior]
             job == ReservedJob(s, "bound", host, origin)
             time == Larger(clock, prior.updatedAt)
             binding == AdvancedTo(prior, j, time)
             record == [step |-> "idle", route |-> "continuation", id |-> j, owner |-> s,
                        child |-> c, job |-> job, binding |-> binding]
  <2>1. /\ Unnamed(j) /\ prior.state = "active" /\ ValidAnchor(prior.anchor)
        /\ ValidCurrent(prior.current) /\ \A i \in Stored : ~ ActiveWritable(i)
    BY <1>3, <2>0, FreshIsUnnamed DEF ReserveBoundRescueContinuation, MayReserve
  <2>o. origin \in Origin /\ origin # None
    BY AbsenceAssumption DEF Origin
  <2>2. /\ job \in Job /\ WellFormed(job) /\ job.owner = s /\ job.class = "bound"
        /\ job.origin = origin /\ job.lease = None
    BY <2>o, ReservedIs DEF Classes
  <2>b. binding \in Binding /\ binding.updatedAt = time
    BY DEF AdvancedTo, Binding, TypeOK, Larger
  <2>4. Begin(record) /\ UNCHANGED <<jobs, bindings>>
    BY <1>3, <2>0 DEF ReserveBoundRescueContinuation
  <2> HIDE DEF job
  <2>3. record \in Txn
    BY <2>2, <2>b DEF Txn, Steps, Routes
  <2>p. PriorSound(prior, s)
    <3>1. Grounded(prior, s)
      BY <2>0, AbsenceAssumption DEF StoreInv, SlotInv
    <3>2. /\ prior.anchor \in Stored /\ jobs[prior.anchor].class = "bound"
          /\ prior.current \in Stored /\ jobs[prior.current].class = "bound"
      BY <2>1, <3>1 DEF Grounded, BoundOf, ValidAnchor, ValidCurrent
    <3>3. \A i \in Stored : jobs[i].class = "bound" => jobs[i].status \in Terminal
      BY <2>1, StoredIsJob DEF ActiveWritable, Writable, Active, Terminal, Statuses, Job
    <3> QED BY <2>1, <3>1, <3>2, <3>3 DEF PriorSound, Past
  <2>5. CASE txn' # Idle
    <3>1. /\ txn'.route = "continuation" /\ txn'.id = j /\ txn'.job = job /\ txn'.owner = s
          /\ txn'.child = c /\ txn'.binding = binding
          /\ txn'.step \in {"tuples", AfterIndex("continuation", s)}
      BY <2>3, <2>4, <2>5, BeginsAt
    <3>s. txn'.step \in {"tuples", "tuple"}
      BY <3>1 DEF AfterIndex
    <3>2. Unnamed(j)' /\ Slot(s, c)' = prior
      BY <2>0, <2>1, <2>4 DEF Unnamed, Names, Slot
    <3>3. PendingInv'
      BY <2>2, <3>1 DEF PendingInv, WellFormed
    <3>e. Evolves
      BY <2>4 DEF Evolves, Stored
    <3>p. PriorSound(prior, s)'
      BY <3>e, <2>p, PriorEvolves DEF StoreInv
    <3>4. ReservationInv'
      BY <3>1, <3>s DEF ReservationInv, Visible
    <3>6. ContinuationInv'
      <4>1. prior # None
        BY AbsenceAssumption
      <4>2. Slot(txn.owner, txn.child)' = prior
        BY <3>1, <3>2 DEF Slot
      <4>3. binding = AdvancedTo(prior, j, binding.updatedAt)
        BY <2>b
      <4> HIDE DEF binding
      <4> QED BY <2>2, <3>1, <3>2, <3>p, <4>1, <4>2, <4>3 DEF ContinuationInv, AdvancedTo
    <3>5. TxnInv'
      BY <3>1, <3>4, <3>6 DEF TxnInv, GenericInv, FreshInv, RollbackInv, CancelInv
    <3> QED BY <2>4, <3>3, <3>5
  <2> QED BY <1>i, <2>4, <2>5
<1> QED BY <1>1, <1>2, <1>3 DEF Reservation

-----------------------------------------------------------------------------
(* The writes of a publication.                                            *)

\* What holds of the fields of a publication that writes a binding or a record.
LEMMA PublicationFields ==
    ASSUME Inv, txn.route \in {"generic", "fresh", "continuation", "rollback", "cancel"}
    PROVE  /\ txn.id \in JobIds /\ txn.owner \in Sessions
           /\ txn.route # "generic" => txn.child \in Children /\ txn.binding \in Binding
           /\ txn.job \in Job
<1>a. TypeOK /\ PublicationSound /\ IntentsAreHosted
  BY DEF Inv
<1>1. CASE txn.route \in {"generic", "fresh", "continuation"}
  BY <1>a, <1>1 DEF PublicationSound
<1>2. CASE txn.route \in {"rollback", "cancel"}
  <2>1. txn.id \in Stored
    BY <1>a, <1>2 DEF PublicationSound
  <2>2. txn.route = "rollback" => txn.job \in Job
    BY <1>a, <2>1, MovedIsJob DEF PublicationSound, Statuses
  <2>3. ASSUME NEW cause \in Causes,
               txn.job = [Moved(txn.id, "cancelled") EXCEPT !.stop = StopIntent(txn.id, cause)]
        PROVE  txn.job \in Job
    BY <1>a, <2>1, <2>3, MovedIsJob, StopIntentIsStop, StopKeeps DEF Statuses
  <2> QED BY <1>a, <1>2, <2>1, <2>2, <2>3 DEF PublicationSound, Stored
<1> QED BY <1>1, <1>2

\* The record of a settlement in progress is an active writable one.
LEMMA SettledIsActive ==
    ASSUME Inv, StoreInv, TxnInv, txn.route = "rollback"
    PROVE  /\ txn.id \in Stored /\ jobs[txn.id].origin # None /\ jobs[txn.id].status = "queued"
           /\ ActiveWritable(txn.id)
           /\ jobs[txn.id].origin \in Origin /\ jobs[txn.id].origin.prior \in Binding
<1>1. txn.id \in Stored /\ jobs[txn.id].origin # None
  BY DEF Inv, PublicationSound, TxnInv, RollbackInv
<1> QED BY <1>1, ProofIsActive, OriginIsOrigin DEF Inv, StoreInv

LEMMA WriteBindingFits ==
    ASSUME Inv, StoreInv, PendingInv, TxnInv, txn.step = "binding"
    PROVE  /\ txn.owner \in Sessions /\ txn.child \in Children /\ txn.binding \in Binding
           /\ Fits(txn.owner, txn.child, txn.binding)
<1>a. TypeOK /\ PublicationSound /\ WritableExclusion
  BY DEF Inv
<1>b. SlotInv /\ OriginInv /\ AllWellFormed
  BY DEF StoreInv
<1>r. txn.route \in {"fresh", "continuation", "rollback", "cancel"}
  BY <1>a DEF PublicationSound, TypeOK, Txn, Routes
<1>t. txn.owner \in Sessions /\ txn.child \in Children /\ txn.binding \in Binding
      /\ txn.id \in JobIds
  BY <1>r, PublicationFields
<1>0. PICK s \in Sessions, c \in Children, n \in Binding, j \in JobIds :
         s = txn.owner /\ c = txn.child /\ n = txn.binding /\ j = txn.id
  BY <1>t
<1>1. CASE txn.route = "fresh"
  <2>1. /\ n.anchor = j /\ n.current = j /\ n.reason = None
        /\ Slot(s, c) = None
    BY <1>0, <1>1 DEF TxnInv, FreshInv
  <2>2. j \notin Stored /\ \A i \in Stored : ~ ActiveWritable(i)
    BY <1>a, <1>0, <1>1 DEF PublicationSound, TxnInv, FreshInv
  <2>3. Grounded(n, s)
    BY <2>1, <2>2 DEF Grounded, BoundOf
  <2>4. \A i \in Stored : jobs[i].origin = None
    BY <1>a, <1>b, <2>2, ProofIsActive
  <2>5. ~ Revoking(n.current)
    BY <2>1, <2>2 DEF Revoking
  <2> QED BY <1>t, <1>0, <2>1, <2>3, <2>4, <2>5 DEF Fits
<1>2. CASE txn.route = "continuation"
  <2>1. PICK prior \in Binding : prior = Slot(s, c)
    BY <1>a, <1>0, <1>2, SlotIsBinding DEF TxnInv, ContinuationInv
  <2>2. /\ txn.job.class = "bound" /\ txn.job.origin = [child |-> c, prior |-> prior]
        /\ PriorSound(prior, s)
        /\ n = AdvancedTo(prior, j, n.updatedAt)
    BY <1>0, <1>2, <2>1 DEF TxnInv, ContinuationInv
  <2>3. j \in Stored /\ jobs[j] = txn.job /\ jobs[j].status = "queued" /\ jobs[j].owner = s
    BY <1>a, <1>0, <1>2 DEF TxnInv, ReservationInv, Visible, Reserving, PendingInv,
                            PublicationSound
  <2>4. /\ n.anchor = prior.anchor /\ n.current = j /\ n.state = "active"
        /\ n.reason = prior.reason
    BY <2>1, <2>2 DEF AdvancedTo, Binding, PriorSound
  <2>5. /\ BoundOf(prior.anchor, s) /\ Past(prior.anchor) /\ ValidAnchor(prior.anchor)
        /\ Past(prior.current) /\ prior.state = "active" /\ prior.reason = None
    BY <2>2 DEF PriorSound, Grounded
  <2>6. BoundOf(j, s)
    BY <2>2, <2>3 DEF BoundOf
  <2>7. Grounded(n, s)
    BY <2>3, <2>4, <2>5, <2>6 DEF Grounded
  <2>8. jobs[j].origin = [child |-> c, prior |-> prior] /\ jobs[j].origin # None
    BY <2>2, <2>3, AbsenceAssumption DEF Origin
  <2>9. \A i \in Stored : jobs[i].origin # None => i = j
    BY <1>a, <1>b, <2>3, <2>8, ProofIsActive DEF WritableExclusion
  <2>10. ~ NeedsHolder(prior.current)
    BY <2>5 DEF NeedsHolder, Past, Terminal
  <2>11. ~ Revoking(j)
    BY <2>3 DEF Revoking
  <2>12. Fits(s, c, n)
    BY <2>1, <2>4, <2>7, <2>8, <2>9, <2>10, <2>11 DEF Fits
  <2> QED BY <1>t, <1>0, <2>12
<1>3. CASE txn.route = "rollback"
  <2>1. /\ j \in Stored /\ jobs[j].origin # None /\ jobs[j].status = "queued"
        /\ ActiveWritable(j)
    BY <1>0, <1>3, SettledIsActive
  <2>2. PICK prior \in Binding : prior = jobs[j].origin.prior
    BY <1>0, <1>3, SettledIsActive
  <2>3. /\ s = jobs[j].owner /\ c = jobs[j].origin.child /\ Restored(n, prior)
        /\ Slot(s, c) # None /\ Slot(s, c) = AdvancedTo(prior, j, Slot(s, c).updatedAt)
    BY <1>0, <1>3, <2>2 DEF TxnInv, RollbackInv
  <2>4. Slot(s, c).current = j
    BY <2>2, <2>3 DEF AdvancedTo, Binding
  <2>5. /\ n.anchor = prior.anchor /\ n.current = prior.current /\ n.state = prior.state
        /\ n.reason = prior.reason /\ n # None /\ MovedBack(n, prior)
    BY <2>2, <2>3 DEF Restored, Binding, MovedBack
  <2>6. PriorSound(prior, s)
    BY <1>b, <2>1, <2>2, <2>3 DEF OriginInv
  <2>7. Grounded(n, s)
    BY <2>5, <2>6 DEF PriorSound, Grounded
  <2>8. \A i \in Stored : jobs[i].origin # None => i = j
    BY <1>a, <1>b, <2>1, ProofIsActive DEF WritableExclusion
  <2>9. ~ NeedsHolder(j)
    BY <2>1 DEF NeedsHolder
  <2>10. ~ Revoking(n.current)
    BY <2>5, <2>6 DEF Revoking, PriorSound, ValidCurrent, Resumable
  <2>11. Fits(s, c, n)
    BY <2>2, <2>3, <2>4, <2>5, <2>7, <2>8, <2>9, <2>10 DEF Fits
  <2> QED BY <1>t, <1>0, <2>11
<1>4. CASE txn.route = "cancel"
  <2>1. PICK b \in Binding : b = Slot(s, c)
    BY <1>a, <1>0, <1>4, SlotIsBinding DEF TxnInv, CancelInv
  <2>2. /\ n = [ClosedAs(b, "cancel") EXCEPT !.updatedAt = n.updatedAt]
        /\ n.updatedAt >= b.updatedAt
    BY <1>0, <1>4, <2>1 DEF TxnInv, CancelInv
  <2>3. n.updatedAt \in Nat /\ b # None
    BY BindingNames
  <2>4. Fits(s, c, [ClosedAs(b, "cancel") EXCEPT !.updatedAt = n.updatedAt])
    <3>1. PICK time \in Nat : time = n.updatedAt
      BY <2>3
    <3>2. Fits(s, c, [ClosedAs(Slot(s, c), "cancel") EXCEPT !.updatedAt = time])
      BY <1>a, <2>1, <2>2, <2>3, <3>1, ClosingFits
    <3> QED BY <2>1, <3>1, <3>2
  <2>5. Fits(s, c, n)
    BY <2>2, <2>4
  <2> QED BY <1>t, <1>0, <2>5
<1> QED BY <1>r, <1>1, <1>2, <1>3, <1>4

LEMMA UnroutedAfterwards ==
    ASSUME txn' = Idle
    PROVE  PendingInv' /\ TxnInv'
BY DEF Idle, PendingInv, TxnInv, ReservationInv, GenericInv, FreshInv, ContinuationInv,
       RollbackInv, CancelInv, Reserving

LEMMA WriteBindingKeeps ==
    ASSUME BindInv, WriteBinding
    PROVE  StoreInv' /\ PendingInv' /\ TxnInv'
<1>a. /\ Inv /\ TypeOK /\ PublicationSound /\ StoreInv /\ PendingInv /\ TxnInv
      /\ txn.step = "binding"
  BY DEF BindInv, Inv, WriteBinding
<1>b. /\ bindings' = [bindings EXCEPT ![txn.owner][txn.child] = txn.binding]
      /\ UNCHANGED jobs /\ MoveTo(AfterBinding(txn.route))
  BY DEF WriteBinding
<1>0. /\ txn.owner \in Sessions /\ txn.child \in Children /\ txn.binding \in Binding
      /\ Fits(txn.owner, txn.child, txn.binding)
  BY <1>a, WriteBindingFits
<1>1. StoreInv'
  BY <1>a, <1>b, <1>0, SlotWrite
<1>2. /\ bindings'[txn.owner][txn.child] = txn.binding
      /\ \A t \in Sessions, d \in Children :
            t # txn.owner \/ d # txn.child => Slot(t, d)' = Slot(t, d)
  BY <1>a, <1>b, <1>0 DEF TypeOK, Slot
<1>r. txn.route \in {"fresh", "continuation", "rollback", "cancel"}
  BY <1>a DEF PublicationSound, TypeOK, Txn, Routes
<1>s. /\ txn.route # "continuation" =>
           /\ txn'.route = txn.route /\ txn'.id = txn.id /\ txn'.job = txn.job
           /\ txn'.owner = txn.owner /\ txn'.child = txn.child /\ txn'.binding = txn.binding
           /\ txn'.step = AfterBinding(txn.route)
      /\ txn.route = "continuation" => txn' = Idle
  BY <1>a, <1>b, <1>r DEF MoveTo, AfterBinding, TypeOK, Txn
<1>p. txn.route # "continuation" => PendingInv'
  BY <1>a, <1>s DEF PendingInv, WellFormed
<1>3. CASE txn.route = "fresh"
  <2>1. txn'.route = "fresh" /\ txn'.step = "tuple"
    BY <1>s, <1>3 DEF AfterBinding
  <2>2. PICK s \in Sessions, c \in Children, n \in Binding, j \in {txn.id} :
           s = txn.owner /\ c = txn.child /\ n = txn.binding /\ j = txn.id
    BY <1>0
  <2>3. /\ txn.job.class = "bound" /\ txn.job.origin = None
        /\ n.anchor = j /\ n.current = j /\ n.state = "active" /\ n.reason = None
        /\ Unnamed(j)
    BY <1>a, <1>3, <2>2 DEF TxnInv, FreshInv
  <2>4. bindings'[s][c] = n
    BY <1>2, <2>2
  <2>5. \A t \in Sessions, d \in Children : Names(Slot(t, d), j)' => t = s /\ d = c
    BY <1>2, <2>2, <2>3 DEF Unnamed, Names
  <2>6. FreshInv'
    BY <1>s, <1>3, <2>1, <2>2, <2>3, <2>4, <2>5 DEF FreshInv, Slot, Names
  <2>7. TxnInv'
    BY <2>1, <2>6 DEF TxnInv, ReservationInv, Visible, GenericInv, ContinuationInv, RollbackInv,
                      CancelInv
  <2> QED BY <1>1, <1>p, <1>3, <2>7
<1>4. CASE txn.route = "continuation"
  BY <1>1, <1>s, <1>4, UnroutedAfterwards
<1>5. CASE txn.route = "rollback"
  <2>1. txn'.route = "rollback" /\ txn'.step = "job"
    BY <1>s, <1>5 DEF AfterBinding
  <2>2. Slot(txn.owner, txn.child)' = txn.binding
    BY <1>2, <1>s, <1>5 DEF Slot
  <2>3. RollbackInv'
    BY <1>a, <1>b, <1>5, <1>s, <2>1, <2>2 DEF RollbackInv, TxnInv, Restored
  <2>4. TxnInv'
    BY <2>1, <2>3 DEF TxnInv, ReservationInv, GenericInv, FreshInv, ContinuationInv, CancelInv,
                      Reserving
  <2> QED BY <1>1, <1>p, <1>5, <2>4
<1>6. CASE txn.route = "cancel"
  <2>1. txn'.route = "cancel" /\ txn'.step = "job"
    BY <1>s, <1>6 DEF AfterBinding
  <2>2. PICK s \in Sessions, c \in Children, n \in Binding, j \in {txn.id},
               b \in {Slot(txn.owner, txn.child)} :
           s = txn.owner /\ c = txn.child /\ n = txn.binding /\ j = txn.id /\ b = Slot(s, c)
    BY <1>0
  <2>3. /\ s = jobs[j].owner /\ Holders(j) = {c}
        /\ n = [ClosedAs(b, "cancel") EXCEPT !.updatedAt = n.updatedAt]
        /\ b # None
    BY <1>a, <1>6, <2>2 DEF TxnInv, CancelInv
  <2>4. b \in Binding
    BY <1>a, <2>2, <2>3, SlotIsBinding
  <2>5. n.state = "closed"
    BY <2>3, <2>4 DEF ClosedAs, Binding
  <2>6. Slot(s, c)' = n
    BY <1>2, <2>2 DEF Slot
  <2>7. \A d \in Children : d # c => Slot(s, d)' = Slot(s, d)
    BY <1>2, <2>2
  <2>8. \A d \in Holders(j)' : d = c
    BY <1>b, <2>2, <2>3, <2>7 DEF Holders, Holds
  <2>9. CancelInv'
    BY <1>b, <1>s, <1>6, <2>1, <2>2, <2>3, <2>5, <2>6, <2>8 DEF CancelInv, Slot
  <2>10. TxnInv'
    BY <2>1, <2>9 DEF TxnInv, ReservationInv, GenericInv, FreshInv, ContinuationInv,
                      RollbackInv, Reserving
  <2> QED BY <1>1, <1>p, <1>6, <2>10
<1> QED BY <1>r, <1>3, <1>4, <1>5, <1>6


\* The record a settlement publishes is allowed.
LEMMA SettledAllowed ==
    ASSUME BindInv, WriteJob, txn.route \in {"rollback", "cancel"}
    PROVE  txn.id \in Stored /\ txn.job \in Job /\ Allowed(txn.id, txn.job)
<1>a. /\ Inv /\ TypeOK /\ PublicationSound /\ IntentsAreHosted /\ StoreInv /\ TxnInv
      /\ txn.step = "job"
  BY DEF BindInv, Inv, WriteJob
<1>0. PICK j, new : j = txn.id /\ new = txn.job
  OBVIOUS
<1>t. j \in Stored /\ new \in Job
  BY <1>a, <1>0, PublicationFields DEF PublicationSound
<1>2. CASE txn.route = "rollback"
  <2>1. jobs[j].status = "queued" /\ new = Moved(j, "failed")
    BY <1>a, <1>0, <1>2 DEF PublicationSound
  <2> QED BY <1>a, <1>0, <1>t, <2>1, MovedIsJob, MovedKeeps, MovedAllowed DEF Statuses, Terminal
<1>3. CASE txn.route = "cancel"
  <2>2. jobs[j].status \in {"queued", "cancelling"}
    BY <1>a, <1>0, <1>3 DEF PublicationSound
  <2>3. PICK cause \in Causes :
           new = [Moved(j, "cancelled") EXCEPT !.stop = StopIntent(j, cause)]
    BY <1>a, <1>0, <1>3 DEF PublicationSound
  <2>4. PICK moved : moved = Moved(j, "cancelled")
    OBVIOUS
  <2>5. /\ moved \in Job /\ moved.status = "cancelled" /\ moved.owner = jobs[j].owner
        /\ moved.class = jobs[j].class /\ moved.origin = None
        /\ moved.lease = jobs[j].lease /\ moved.fence = jobs[j].fence
    BY <1>a, <1>t, <2>4, MovedIsJob, MovedKeeps DEF Statuses
  <2>6. StopIntent(j, cause) \in StopCauses \cup {None}
    BY <1>a, <1>t, StopIntentIsStop
  <2>7. /\ new.status = "cancelled" /\ new.owner = jobs[j].owner
        /\ new.class = jobs[j].class /\ new.origin = None
        /\ new.lease = jobs[j].lease /\ new.fence = jobs[j].fence
    BY <2>3, <2>4, <2>5, <2>6, StopKeeps
  <2>8. \A d \in Holders(j) : Slot(jobs[j].owner, d).state = "closed"
    BY <1>a, <1>0, <1>3 DEF TxnInv, CancelInv
  <2>9. Allowed(j, new)
    BY <1>a, <1>t, <2>2, <2>7, <2>8, MovedAllowed DEF Terminal
  <2> QED BY <1>0, <1>t, <2>9
<1> QED BY <1>2, <1>3

LEMMA WriteJobKeeps ==
    ASSUME BindInv, WriteJob
    PROVE  StoreInv' /\ PendingInv' /\ TxnInv' /\ Evolves
<1>a. /\ Inv /\ TypeOK /\ PublicationSound /\ WritableExclusion /\ IntentsAreHosted /\ StoreInv
      /\ PendingInv /\ TxnInv /\ txn.step = "job"
  BY DEF BindInv, Inv, WriteJob
<1>b. /\ jobs' = [jobs EXCEPT ![txn.id] = txn.job] /\ UNCHANGED bindings
      /\ MoveTo(IF txn.route \in {"rollback", "cancel"} THEN "idle" ELSE "marker")
  BY DEF WriteJob
<1>r. txn.route \in {"generic", "fresh", "continuation", "rollback", "cancel"}
  BY <1>a DEF PublicationSound, TypeOK, Txn, Routes
<1>t. txn.id \in JobIds /\ txn.owner \in Sessions /\ txn.job \in Job
  BY <1>a, <1>r, PublicationFields
<1>0. PICK j \in JobIds, new \in Job, s \in Sessions, c \in {txn.child} :
         j = txn.id /\ new = txn.job /\ s = txn.owner /\ c = txn.child
  BY <1>t
<1>j. jobs' = [jobs EXCEPT ![j] = new] /\ jobs'[j] = new
  BY <1>a, <1>b, <1>0 DEF TypeOK
<1>S. \A t, d : Slot(t, d)' = Slot(t, d)
  BY <1>b DEF Slot
<1>1. CASE txn.route \in Reserving
  <2>1. /\ txn'.route = txn.route /\ txn'.id = j /\ txn'.job = new
        /\ txn'.owner = s /\ txn'.child = c /\ txn'.binding = txn.binding
        /\ txn'.step = "marker"
    BY <1>a, <1>b, <1>0, <1>1 DEF MoveTo, TypeOK, Txn, Reserving
  <2>2. /\ j \notin Stored /\ new.status = "queued" /\ WellFormed(new) /\ new.lease = None
        /\ new.owner = s
    BY <1>a, <1>0, <1>1 DEF PublicationSound, PendingInv, Reserving
  <2>3. PendingInv'
    BY <1>a, <1>0, <2>1 DEF PendingInv, WellFormed
  <2>4. j \in Stored'
    BY <1>j, AbsenceAssumption DEF Stored
  <2>5. ReservationInv'
    BY <1>j, <2>1, <2>4 DEF ReservationInv
  <2>6. CASE txn.route = "generic"
    <3>1. new.class # "bound" /\ new.origin = None /\ Unnamed(j)
      BY <1>a, <1>0, <2>6 DEF TxnInv, GenericInv, Visible
    <3>2. StoreInv' /\ Evolves
      BY <1>a, <1>b, <1>j, <2>2, <3>1, RecordAppears DEF Unnamed
    <3>3. GenericInv'
      BY <2>1, <2>6, <3>1 DEF GenericInv, Visible
    <3>4. TxnInv'
      BY <2>1, <2>5, <2>6, <3>3
         DEF TxnInv, FreshInv, ContinuationInv, RollbackInv, CancelInv
    <3> QED BY <2>3, <3>2, <3>4
  <2>7. CASE txn.route = "fresh"
    <3>1. /\ new.class = "bound" /\ new.origin = None
          /\ Slot(s, c) = txn.binding /\ txn.binding.current = j
          /\ \A t \in Sessions, d \in Children : Names(Slot(t, d), j) => t = s /\ d = c
      BY <1>a, <1>0, <2>7 DEF TxnInv, FreshInv
    <3>2. c \in Children /\ txn.binding \in Binding
      BY <1>a, <1>0, <2>7, PublicationFields
    <3>3. Holds(s, c, j)
      BY <3>1, <3>2, BindingNames DEF Holds
    <3>4. StoreInv' /\ Evolves
      BY <1>a, <1>b, <1>j, <2>2, <3>1, <3>2, <3>3, RecordAppears
    <3>5. FreshInv'
      BY <1>a, <1>0, <2>1, <2>7 DEF TxnInv, FreshInv
    <3>6. TxnInv'
      BY <2>1, <2>5, <2>7, <3>5
         DEF TxnInv, GenericInv, ContinuationInv, RollbackInv, CancelInv
    <3> QED BY <2>3, <3>4, <3>6
  <2>8. CASE txn.route = "continuation"
    <3>1. PICK prior : prior = Slot(s, c)
      OBVIOUS
    <3>2. /\ new.class = "bound" /\ new.origin = [child |-> c, prior |-> prior]
          /\ prior # None /\ PriorSound(prior, s) /\ Unnamed(j)
          /\ txn.binding = AdvancedTo(prior, j, txn.binding.updatedAt)
      BY <1>a, <1>0, <2>8, <3>1 DEF TxnInv, ContinuationInv
    <3>3. new.origin.child = c /\ new.origin.prior = prior
      BY <3>2
    <3>u. \A t \in Sessions, d \in Children : ~ Names(Slot(t, d), j)
      BY <3>2 DEF Unnamed
    <3>o. new.origin # None
      <4>1. c \in Children
        BY <1>a, <1>0, <2>8, PublicationFields
      <4>2. prior \in Binding
        BY <1>a, <3>1, <3>2, <4>1, SlotIsBinding
      <4> QED BY <3>2, <4>1, <4>2, AbsenceAssumption DEF Origin
    <3>4. StoreInv' /\ Evolves
      BY <1>a, <1>b, <1>j, <2>2, <3>1, <3>2, <3>3, <3>u, <3>o, RecordAppears
    <3>5. PriorSound(prior, s)'
      BY <1>a, <3>2, <3>4, PriorEvolves DEF StoreInv
    <3>6. Unnamed(j)' /\ Slot(s, c)' = prior
      BY <1>S, <3>1, <3>2 DEF Unnamed, Names
    <3>7. ContinuationInv'
      <4>1. Slot(txn.owner, txn.child)' = prior
        BY <2>1, <3>6 DEF Slot
      <4> QED BY <2>1, <3>2, <3>5, <3>6, <4>1 DEF ContinuationInv, AdvancedTo
    <3>8. TxnInv'
      BY <2>1, <2>5, <2>8, <3>7 DEF TxnInv, GenericInv, FreshInv, RollbackInv, CancelInv
    <3> QED BY <2>3, <3>4, <3>8
  <2> QED BY <1>1, <2>6, <2>7, <2>8 DEF Reserving
<1>2. CASE txn.route \in {"rollback", "cancel"}
  <2>1. txn' = Idle
    BY <1>b, <1>2 DEF MoveTo
  <2>2. j \in Stored /\ Allowed(j, new)
    BY <1>0, <1>2, SettledAllowed
  <2> QED BY <1>a, <1>b, <1>j, <2>1, <2>2, RecordChange, UnroutedAfterwards
<1> QED BY <1>r, <1>1, <1>2 DEF Reserving

LEMMA PublicationKeeps ==
    ASSUME BindInv, Publication
    PROVE  StoreInv' /\ PendingInv' /\ TxnInv'
<1>a. /\ Inv /\ TypeOK /\ PublicationSound /\ StoreInv /\ AllWellFormed /\ PendingInv /\ TxnInv
  BY DEF BindInv, Inv, StoreInv
<1>r. txn.route \in Routes /\ txn.step \in Steps
  BY <1>a DEF TypeOK, Txn
<1>m. ASSUME UNCHANGED <<jobs, bindings>>, NEW step \in Steps, MoveTo(step),
             txn.route \notin {"rollback", "cancel"},
             step # "idle" =>
               /\ \/ step = "marker" <=> txn.step = "marker"
                  \/ txn.route = "continuation" /\ txn.step = "marker" /\ step = "binding"
               /\ step = "binding" /\ txn.step # "marker" => txn.route # "continuation"
               /\ txn.step # "binding"
               /\ txn.route = "fresh" =>
                    /\ step \in {"tuple", "job"} <=> txn.step \in {"tuple", "job"}
                    /\ step = "marker" <=> txn.step = "marker"
      PROVE  StoreInv' /\ PendingInv' /\ TxnInv'
  <2>1. StoreInv'
    BY <1>a, <1>m, StoreFrame
  <2>2. CASE step = "idle"
    BY <1>m, <2>1, <2>2, UnroutedAfterwards DEF MoveTo
  <2>3. CASE step # "idle"
    <3>1. txn' = [txn EXCEPT !.step = step]
      BY <1>m, <2>3 DEF MoveTo
    <3>2. txn'.step = step /\ txn'.route = txn.route
      BY <1>a, <3>1 DEF TypeOK, Txn
    <3>3. Visible' <=> Visible
      BY <1>m, <2>3, <3>2 DEF Visible
    <3> QED BY <1>a, <1>m, <2>1, <2>3, <3>1, <3>3, StepTaken
  <2> QED BY <2>2, <2>3
<1>u. ASSUME UNCHANGED <<jobs, bindings, txn>>, txn.route \notin {"rollback", "cancel"},
             txn.step # "idle"
      PROVE  StoreInv' /\ PendingInv' /\ TxnInv'
  <2>1. StoreInv'
    BY <1>a, <1>u, StoreFrame
  <2>2. txn' = [txn EXCEPT !.step = txn.step] /\ (Visible' <=> Visible)
    BY <1>a, <1>u DEF TypeOK, Txn, Visible
  <2> QED BY <1>a, <1>r, <1>u, <2>1, <2>2, StepTaken
<1>1. CASE RewriteOwnerTuples
  <2>1. /\ txn.step = "tuples" /\ UNCHANGED <<jobs, bindings>>
        /\ MoveTo("strays") \/ UNCHANGED txn
    BY <1>1 DEF RewriteOwnerTuples
  <2>2. txn.route \notin {"rollback", "cancel"}
    BY <1>a, <2>1 DEF PublicationSound
  <2> QED BY <1>m, <1>u, <2>1, <2>2 DEF Steps
<1>2. CASE UnlinkStrayTuples
  <2>1. /\ txn.step = "strays" /\ UNCHANGED <<jobs, bindings>>
        /\ MoveTo("repaired") \/ UNCHANGED txn
    BY <1>2 DEF UnlinkStrayTuples
  <2>2. txn.route \notin {"rollback", "cancel"}
    BY <1>a, <2>1 DEF PublicationSound
  <2> QED BY <1>m, <1>u, <2>1, <2>2 DEF Steps
<1>3. CASE PublishRepairedMarker
  <2>1. /\ txn.step = "repaired" /\ UNCHANGED <<jobs, bindings>>
        /\ MoveTo(AfterIndex(txn.route, txn.owner))
    BY <1>3 DEF PublishRepairedMarker
  <2>2. txn.route \notin {"rollback", "cancel"}
    BY <1>a, <2>1 DEF PublicationSound
  <2>3. /\ AfterIndex(txn.route, txn.owner) \in {"idle", "authority", "gc", "binding", "tuple"}
        /\ txn.route = "continuation" => AfterIndex(txn.route, txn.owner) = "tuple"
        /\ txn.route = "fresh" => AfterIndex(txn.route, txn.owner) # "tuple"
    BY <1>r, AfterIndexStep DEF AfterIndex
  <2> QED BY <1>m, <2>1, <2>2, <2>3 DEF Steps
<1>4. CASE WriteAuthority
  <2>1. txn.step = "authority" /\ UNCHANGED <<jobs, bindings>> /\ MoveTo("binding")
    BY <1>4 DEF WriteAuthority
  <2>2. txn.route \notin {"rollback", "cancel", "continuation"}
    BY <1>a, <2>1 DEF PublicationSound
  <2> QED BY <1>m, <2>1, <2>2 DEF Steps
<1>5. CASE CollectClosedBindings
  <2>1. txn.step = "gc" /\ UNCHANGED jobs /\ txn' = [txn EXCEPT !.step = "binding"]
    BY <1>5 DEF CollectClosedBindings, MoveTo
  <2>2. txn.route = "fresh"
    BY <1>a, <1>r, <2>1 DEF PublicationSound, Routes
  <2>3. /\ txn'.route = "fresh" /\ txn'.step = "binding" /\ txn'.id = txn.id
        /\ txn'.job = txn.job /\ txn'.owner = txn.owner /\ txn'.child = txn.child
        /\ txn'.binding = txn.binding
    BY <1>a, <2>1, <2>2 DEF TypeOK, Txn
  <2>4. \A i \in Stored : ~ ActiveWritable(i)
    BY <1>a, <2>1, <2>2 DEF PublicationSound, TxnInv, FreshInv
  <2>5. \A s \in Sessions, c \in Children : Slot(s, c)' \in {Slot(s, c), None}
    <3>1. txn.owner \in Sessions
      BY <1>a, <2>2, PublicationFields
    <3> QED BY <1>a, <1>5, <3>1 DEF CollectClosedBindings, TypeOK, Slot
  <2>6. StoreInv'
    BY <1>a, <2>1, <2>4, <2>5, Collected
  <2>7. PendingInv'
    BY <1>a, <2>2, <2>3 DEF PendingInv, WellFormed
  <2>8. FreshInv'
    <3>1. Unnamed(txn.id) /\ Slot(txn.owner, txn.child) = None
      BY <1>a, <2>1, <2>2 DEF TxnInv, FreshInv
    <3>2. txn.owner \in Sessions /\ txn.child \in Children
      BY <1>a, <2>2, PublicationFields
    <3>3. bindings'[txn.owner][txn.child] = None
      BY <2>5, <3>1, <3>2 DEF Slot
    <3>4. \A s \in Sessions, c \in Children : ~ Names(Slot(s, c)', txn.id)
      BY <2>5, <3>1 DEF Unnamed, Names
    <3> QED BY <1>a, <2>2, <2>3, <3>3, <3>4 DEF TxnInv, FreshInv, Unnamed, Names, Slot
  <2>9. TxnInv'
    BY <2>3, <2>8 DEF TxnInv, ReservationInv, Visible, GenericInv, ContinuationInv, RollbackInv,
                      CancelInv
  <2> QED BY <2>6, <2>7, <2>9
<1>6. CASE WriteBinding
  BY <1>6, WriteBindingKeeps
<1>7. CASE WriteOwnerTuple
  <2>1. txn.step = "tuple" /\ UNCHANGED <<jobs, bindings>> /\ MoveTo("job")
    BY <1>7 DEF WriteOwnerTuple
  <2>2. txn.route \notin {"rollback", "cancel"}
    BY <1>a, <2>1 DEF PublicationSound
  <2> QED BY <1>m, <2>1, <2>2 DEF Steps
<1>8. CASE WriteJob
  BY <1>8, WriteJobKeeps
<1>9. CASE PublishMarker
  <2>1. txn.step = "marker" /\ UNCHANGED <<jobs, bindings>> /\ MoveTo(AfterMarker(txn.route))
    BY <1>9 DEF PublishMarker
  <2>2. txn.route \notin {"rollback", "cancel"}
    BY <1>a, <2>1 DEF PublicationSound
  <2>3. /\ txn.route = "continuation" => AfterMarker(txn.route) = "binding"
        /\ txn.route # "continuation" => AfterMarker(txn.route) = "idle"
    BY DEF AfterMarker
  <2>4. AfterMarker(txn.route) \in Steps
    BY DEF AfterMarker, Steps
  <2> QED BY <1>m, <2>1, <2>2, <2>3, <2>4
<1>10. CASE Crash
  <2>1. StoreInv'
    BY <1>a, <1>10, StoreFrame DEF Crash
  <2> QED BY <1>10, <2>1, UnroutedAfterwards DEF Crash
<1> QED BY <1>1, <1>2, <1>3, <1>4, <1>5, <1>6, <1>7, <1>8, <1>9, <1>10 DEF Publication

LEMMA MaintenanceKeeps ==
    ASSUME BindInv, Maintenance
    PROVE  StoreInv' /\ PendingInv' /\ TxnInv'
<1>a. /\ Inv /\ TypeOK /\ PublicationSound /\ StoreInv /\ AllWellFormed /\ SlotInv
      /\ PendingInv /\ TxnInv
  BY DEF BindInv, Inv, StoreInv
<1>u. ASSUME Unlocked, UNCHANGED txn
      PROVE  PendingInv' /\ TxnInv'
  <2>1. txn'.route = "none"
    BY <1>a, <1>u, IdleIsUnrouted
  <2> QED BY <2>1 DEF PendingInv, TxnInv, ReservationInv, GenericInv, FreshInv,
                      ContinuationInv, RollbackInv, CancelInv, Reserving
<1>1. CASE ListOwnedJobs
  <2> DEFINE record == [Idle EXCEPT !.route = "listing"]
  <2>1. record \in Txn /\ record.route = "listing"
    BY DEF Idle, Txn, Steps, Routes
  <2>2. Begin(record) /\ UNCHANGED <<jobs, bindings>>
    BY <1>1 DEF ListOwnedJobs
  <2>3. txn' = Idle \/ txn'.route = "listing"
    BY <2>1, <2>2, BeginsAt
  <2>4. txn'.route \in {"none", "listing"}
    BY <2>3 DEF Idle
  <2>5. PendingInv' /\ TxnInv'
    BY <2>4 DEF PendingInv, TxnInv, ReservationInv, GenericInv, FreshInv,
                ContinuationInv, RollbackInv, CancelInv, Reserving
  <2> QED BY <1>a, <2>2, <2>5, StoreFrame
<1>2. CASE LoseTuple
  BY <1>a, <1>u, <1>2, StoreFrame DEF LoseTuple
<1>3. CASE Tick
  <2>1. StoreInv'
    BY <1>a, <1>3, StoreFrame DEF Tick
  <2>2. PendingInv' /\ TxnInv'
    <3>1. CASE Unlocked
      BY <1>u, <1>3, <3>1 DEF Tick
    <3>2. CASE ~ Unlocked
      <4>1. UNCHANGED <<jobs, bindings, txn>>
        BY <1>3 DEF Tick
      <4> QED BY <1>a, <4>1, TxnFrame
    <3> QED BY <3>1, <3>2
  <2> QED BY <2>1, <2>2
<1>4. ASSUME NEW s \in Sessions, NEW c \in Children, RepairRescueContinuationBinding(s, c)
      PROVE  StoreInv' /\ PendingInv' /\ TxnInv'
  <2>1. PICK b \in Binding : b = Slot(s, c)
    BY <1>a, <1>4, SlotIsBinding DEF RepairRescueContinuationBinding
  <2> DEFINE n == [b EXCEPT !.current = b.anchor, !.updatedAt = b.updatedAt + 1]
  <2>2. /\ Unlocked /\ \A i \in Stored : ~ ActiveWritable(i)
        /\ b.state = "active" /\ b.anchor \in Stored
        /\ jobs[b.anchor].status \in {"succeeded", "failed"}
        /\ bindings' = [bindings EXCEPT ![s][c] = n] /\ UNCHANGED <<jobs, txn>>
    BY <1>4, <2>1 DEF RepairRescueContinuationBinding, ReplaceSlot
  <2>3. /\ n \in Binding /\ n.anchor = b.anchor /\ n.current = b.anchor
        /\ n.state = b.state /\ n.reason = b.reason
    <3>1. b.anchor \in JobIds /\ b.updatedAt + 1 \in Nat
      BY BindingNames
    <3>2. \A a \in JobIds, t \in Nat :
             LET m == [b EXCEPT !.current = a, !.updatedAt = t]
             IN /\ m \in Binding /\ m.anchor = b.anchor /\ m.current = a
                /\ m.state = b.state /\ m.reason = b.reason
      BY DEF Binding
    <3> QED BY <3>1, <3>2
  <2>4. Grounded(b, s)
    BY <1>a, <2>1, BindingNames DEF SlotInv
  <2>5. Grounded(n, s)
    BY <2>3, <2>4 DEF Grounded
  <2>6. \A i \in Stored : jobs[i].origin = None
    BY <1>a, <2>2, ProofIsActive
  <2>7. ~ NeedsHolder(b.current)
    BY <2>2, HolderIsActive
  <2>8. ~ Revoking(n.current)
    BY <2>2, <2>3 DEF Revoking
  <2> HIDE DEF n
  <2>9. Fits(s, c, n)
    BY <2>1, <2>5, <2>6, <2>7, <2>8 DEF Fits
  <2> QED BY <1>a, <1>u, <2>2, <2>3, <2>9, SlotWrite
<1>5. ASSUME NEW s \in Sessions, NEW c \in Children, NEW reason \in CloseReasons,
             CloseRescueBindingForChild(s, c, reason)
      PROVE  StoreInv' /\ PendingInv' /\ TxnInv'
  <2> DEFINE n == [ClosedAs(Slot(s, c), reason) EXCEPT !.updatedAt = clock]
  <2>1. /\ Unlocked /\ Slot(s, c) # None /\ clock >= Slot(s, c).updatedAt /\ clock \in Nat
        /\ bindings' = [bindings EXCEPT ![s][c] = n] /\ UNCHANGED <<jobs, txn>>
    BY <1>a, <1>5 DEF CloseRescueBindingForChild, ReplaceSlot, TypeOK
  <2>2. Fits(s, c, n)
    BY <1>a, <2>1, ClosingFits
  <2>3. n \in Binding
    <3>1. Slot(s, c) \in Binding
      BY <1>a, <2>1, SlotIsBinding
    <3> QED BY <2>1, <3>1 DEF ClosedAs, Binding
  <2> HIDE DEF n
  <2> QED BY <1>a, <1>u, <2>1, <2>2, <2>3, SlotWrite
<1> QED BY <1>1, <1>2, <1>3, <1>4, <1>5 DEF Maintenance

LEMMA InitBindInv == Init => BindInv
<1> SUFFICES ASSUME Init PROVE BindInv
  OBVIOUS
<1>1. Inv /\ Stored = {}
  BY InitInv DEF Init, Stored
<1>2. \A s \in Sessions, c \in Children : Slot(s, c) = None
  BY DEF Init, Slot
<1>3. StoreInv
  BY <1>1, <1>2 DEF StoreInv, AllWellFormed, SlotInv, OriginInv, HeldInv, NeedsHolder, RevokedInv,
                    Revoking
<1>4. PendingInv /\ TxnInv
  <2>1. txn.route = "none"
    BY DEF Init, Idle
  <2> QED BY <2>1, NothingPending
<1> QED BY <1>1, <1>3, <1>4 DEF BindInv

LEMMA NextKeepsBindInv ==
    ASSUME BindInv, [Next]_vars
    PROVE  BindInv' /\ Evolves
<1>a. /\ Inv /\ TypeOK /\ IntentsAreHosted /\ PublicationSound /\ StoreInv /\ AllWellFormed
      /\ PendingInv /\ TxnInv
  BY DEF BindInv, Inv, StoreInv
<1>i. Inv'
  BY <1>a, NextPreserves
<1>u. ASSUME Unlocked, UNCHANGED txn
      PROVE  PendingInv' /\ TxnInv'
  <2>1. txn'.route = "none"
    BY <1>a, <1>u, IdleIsUnrouted
  <2> QED BY <2>1 DEF PendingInv, TxnInv, ReservationInv, GenericInv, FreshInv,
                      ContinuationInv, RollbackInv, CancelInv, Reserving
<1>e. UNCHANGED jobs => Evolves
  BY DEF Evolves, Stored
<1>r. ASSUME NEW j \in Stored, Unlocked, \E new \in Job : Replace(j, new), Allowed(j, jobs'[j])
      PROVE  StoreInv' /\ PendingInv' /\ TxnInv' /\ Evolves
  <2>1. PICK new \in Job : Replace(j, new)
    BY <1>r
  <2>2. jobs'[j] = new /\ jobs' = [jobs EXCEPT ![j] = new] /\ UNCHANGED bindings
    BY <1>a, <2>1, ReplacedIs
  <2>3. UNCHANGED txn
    BY <2>1 DEF Replace
  <2> QED BY <1>a, <1>u, <1>r, <2>2, <2>3, RecordChange
<1>1. CASE Publication
  <2>1. StoreInv' /\ PendingInv' /\ TxnInv'
    BY <1>1, PublicationKeeps
  <2>2. UNCHANGED jobs \/ WriteJob
    BY <1>1 DEF Publication, RewriteOwnerTuples, UnlinkStrayTuples, PublishRepairedMarker,
                WriteAuthority, CollectClosedBindings, WriteBinding, WriteOwnerTuple,
                PublishMarker, Crash
  <2> QED BY <1>i, <1>e, <2>1, <2>2, WriteJobKeeps DEF BindInv
<1>2. ASSUME NEW j \in JobIds, Reservation(j)
      PROVE  BindInv' /\ Evolves
  <2>1. UNCHANGED <<jobs, bindings>> /\ PendingInv' /\ TxnInv'
    BY <1>a, <1>2, ReservationPlanned
  <2> QED BY <1>a, <1>i, <1>e, <2>1, StoreFrame DEF BindInv
<1>3. ASSUME NEW j \in JobIds, Attempt(j)
      PROVE  BindInv' /\ Evolves
  <2>1. Unlocked /\ \E new \in Job : Replace(j, new)
    BY <1>a, <1>3, AttemptRewrites DEF Rewrites
  <2> QED BY <1>a, <1>i, <1>r, <1>3, <2>1, AttemptAllowed DEF BindInv
<1>4. ASSUME NEW j \in JobIds, Settlement(j)
      PROVE  BindInv' /\ Evolves
  <2>1. Unlocked
    BY <1>a, <1>4, SettlementRewritesOrPlans DEF Rewrites, Plans
  <2>2. CASE UNCHANGED <<jobs, bindings>> /\ txn'.route \in {"rollback", "cancel"} /\ TxnInv'
    <3>1. PendingInv'
      BY <2>2 DEF PendingInv, Reserving
    <3> QED BY <1>a, <1>i, <1>e, <2>2, <3>1, StoreFrame DEF BindInv
  <2>3. CASE (\E new \in Job : Replace(j, new)) /\ Allowed(j, jobs'[j])
    <3>1. j \in Stored
      BY <1>a, <1>4, SettlementAllowedOrPlanned
    <3> QED BY <1>i, <1>r, <2>1, <2>3, <3>1 DEF BindInv
  <2> QED BY <1>a, <1>4, <2>2, <2>3, SettlementAllowedOrPlanned
<1>5. CASE Maintenance
  <2>1. StoreInv' /\ PendingInv' /\ TxnInv'
    BY <1>5, MaintenanceKeeps
  <2>2. UNCHANGED jobs
    BY <1>5 DEF Maintenance, ListOwnedJobs, LoseTuple, Tick, RepairRescueContinuationBinding,
                CloseRescueBindingForChild, ReplaceSlot
  <2> QED BY <1>i, <1>e, <2>1, <2>2 DEF BindInv
<1>6. CASE UNCHANGED vars
  <2>1. UNCHANGED <<jobs, bindings, txn>>
    BY <1>6 DEF vars
  <2> QED BY <1>a, <1>i, <1>e, <2>1, StoreFrame, TxnFrame DEF BindInv
<1> QED BY <1>1, <1>2, <1>3, <1>4, <1>5, <1>6 DEF Next

\* The records, the bindings and the publication under the lock (publishRescueReservation,
\* finishActiveRescueContinuationFailureLocked, closeCurrentRescueBindingForCancellation-
\* Locked) stay in step in every behaviour, also one that crashes between two writes.
THEOREM BindingInvariance == Spec => []BindInv
<1>1. BindInv /\ [Next]_vars => BindInv'
  BY NextKeepsBindInv
<1> QED BY <1>1, InitBindInv, PTL DEF Spec

-----------------------------------------------------------------------------
(* What a step may change.                                                 *)

\* The records change by a publication's own write or by one replacement under the lock.
LEMMA RecordCases ==
    ASSUME BindInv, [Next]_vars
    PROVE  \/ UNCHANGED jobs
           \/ WriteJob /\ txn.route \in Reserving
           \/ \E j \in Stored, new \in Job :
                 /\ Allowed(j, new) /\ jobs' = [jobs EXCEPT ![j] = new] /\ UNCHANGED bindings
                 /\ \/ Unlocked /\ UNCHANGED txn
                    \/ WriteJob /\ txn.id = j /\ txn' = Idle
<1>a. Inv /\ TypeOK /\ PublicationSound /\ IntentsAreHosted /\ StoreInv
  BY DEF BindInv, Inv
<1>1. CASE WriteJob
  <2>1. txn.step = "job" /\ txn.route \in Routes
    BY <1>a, <1>1 DEF WriteJob, TypeOK, Txn
  <2>2. txn.route \in Reserving \cup {"rollback", "cancel"}
    BY <1>a, <2>1 DEF PublicationSound, Routes, Reserving
  <2>3. CASE txn.route \in {"rollback", "cancel"}
    <3>1. txn.id \in Stored /\ txn.job \in Job /\ Allowed(txn.id, txn.job)
      BY <1>1, <2>3, SettledAllowed
    <3>2. /\ jobs' = [jobs EXCEPT ![txn.id] = txn.job] /\ UNCHANGED bindings
          /\ txn' = Idle
      BY <1>1, <2>3 DEF WriteJob, MoveTo
    <3> QED BY <1>1, <3>1, <3>2
  <2> QED BY <1>1, <2>2, <2>3
<1>2. ASSUME Publication, ~ WriteJob
      PROVE  UNCHANGED jobs
  BY <1>2 DEF Publication, RewriteOwnerTuples, UnlinkStrayTuples, PublishRepairedMarker,
              WriteAuthority, CollectClosedBindings, WriteBinding, WriteOwnerTuple,
              PublishMarker, Crash
<1>3. ASSUME NEW j \in JobIds, Reservation(j)
      PROVE  UNCHANGED jobs
  BY <1>a, <1>3, ReservationPlanned
<1>r. ASSUME NEW j \in Stored, Unlocked, \E new \in Job : Replace(j, new), Allowed(j, jobs'[j])
      PROVE  \E new \in Job :
                /\ Allowed(j, new) /\ jobs' = [jobs EXCEPT ![j] = new]
                /\ UNCHANGED <<bindings, txn>>
  <2>1. PICK new \in Job : Replace(j, new)
    BY <1>r
  <2>2. jobs'[j] = new /\ jobs' = [jobs EXCEPT ![j] = new]
    BY <1>a, <2>1, ReplacedIs
  <2> QED BY <1>r, <2>1, <2>2 DEF Replace
<1>4. ASSUME NEW j \in JobIds, Attempt(j)
      PROVE  \E new \in Job :
                /\ j \in Stored /\ Unlocked
                /\ Allowed(j, new) /\ jobs' = [jobs EXCEPT ![j] = new]
                /\ UNCHANGED <<bindings, txn>>
  <2>1. Unlocked /\ \E new \in Job : Replace(j, new)
    BY <1>a, <1>4, AttemptRewrites DEF Rewrites
  <2> QED BY <1>a, <1>r, <1>4, <2>1, AttemptAllowed
<1>5. ASSUME NEW j \in JobIds, Settlement(j), ~ UNCHANGED jobs
      PROVE  \E new \in Job :
                /\ j \in Stored /\ Unlocked
                /\ Allowed(j, new) /\ jobs' = [jobs EXCEPT ![j] = new]
                /\ UNCHANGED <<bindings, txn>>
  <2>1. Unlocked
    BY <1>a, <1>5, SettlementRewritesOrPlans DEF Rewrites, Plans
  <2> QED BY <1>a, <1>r, <1>5, <2>1, SettlementAllowedOrPlanned
<1>6. Maintenance => UNCHANGED jobs
  BY DEF Maintenance, ListOwnedJobs, LoseTuple, Tick, RepairRescueContinuationBinding,
         CloseRescueBindingForChild, ReplaceSlot
<1> QED BY <1>1, <1>2, <1>3, <1>4, <1>5, <1>6 DEF Next, vars

\* The bindings change by a publication's own write or by maintenance, and the clock moves
\* with such a write or ticks.
LEMMA BindingCases ==
    ASSUME BindInv, [Next]_vars
    PROVE  \/ UNCHANGED bindings /\ clock' \in {clock, clock + 1}
           \/ CollectClosedBindings
           \/ WriteBinding
           \/ \E s \in Sessions, c \in Children :
                 \/ RepairRescueContinuationBinding(s, c)
                 \/ \E reason \in CloseReasons : CloseRescueBindingForChild(s, c, reason)
<1>a. Inv /\ TypeOK /\ IntentsAreHosted /\ StoreInv
  BY DEF BindInv, Inv
<1>1. Publication =>
        UNCHANGED <<bindings, clock>> \/ CollectClosedBindings \/ WriteBinding
  BY DEF Publication, RewriteOwnerTuples, UnlinkStrayTuples, PublishRepairedMarker,
         WriteAuthority, WriteOwnerTuple, WriteJob, PublishMarker, Crash
<1>2. ASSUME NEW j \in JobIds, Reservation(j) \/ Attempt(j) \/ Settlement(j)
      PROVE  UNCHANGED <<bindings, clock>>
  <2>1. \A s, class : ReserveJob(j, s, class) => UNCHANGED <<bindings, clock>>
    BY DEF ReserveJob
  <2>2. \A s, c, host : ReserveFreshRescueJob(j, s, c, host) => UNCHANGED <<bindings, clock>>
    BY DEF ReserveFreshRescueJob
  <2>3. \A s, c, host :
           ReserveBoundRescueContinuation(j, s, c, host) => UNCHANGED <<bindings, clock>>
    BY DEF ReserveBoundRescueContinuation
  <2>4. Attempt(j) => UNCHANGED <<bindings, clock>>
    BY <1>a, AttemptRewrites DEF Rewrites, Replace
  <2>5. Settlement(j) => UNCHANGED <<bindings, clock>>
    BY <1>a, SettlementRewritesOrPlans DEF Rewrites, Replace, Plans
  <2> QED BY <1>2, <2>1, <2>2, <2>3, <2>4, <2>5 DEF Reservation
<1>3. Maintenance =>
        \/ UNCHANGED bindings /\ clock' \in {clock, clock + 1}
        \/ \E s \in Sessions, c \in Children :
              \/ RepairRescueContinuationBinding(s, c)
              \/ \E reason \in CloseReasons : CloseRescueBindingForChild(s, c, reason)
  BY DEF Maintenance, ListOwnedJobs, LoseTuple, Tick
<1> QED BY <1>1, <1>2, <1>3 DEF Next, vars

-----------------------------------------------------------------------------
(* The properties.                                                         *)

\* A job claimed by one lease is never fenced for another: recovery's comparison of the
\* effective lease has one answer (state.mjs, claimJobWorkerForExecution).
THEOREM Leases_Agree == Spec => []LeaseAgreement
<1>1. BindInv => LeaseAgreement
  BY DEF BindInv, StoreInv, AllWellFormed, WellFormed, LeaseAgreement
<1> QED BY <1>1, BindingInvariance, PTL

\* No interleaving of claims, stops, rollbacks, closings and crashes runs a bound rescue
\* that its session's binding has moved away from.
THEOREM RunningHeld == Spec => []RunningIsCurrent
<1>1. BindInv => RunningIsCurrent
  BY DEF BindInv, StoreInv, HeldInv, NeedsHolder, RunningIsCurrent, Stored
<1> QED BY <1>1, BindingInvariance, PTL

\* closeCurrentRescueBindingForCancellationLocked: whenever a cancellation that cannot be
\* resumed is visible, every binding at that job is visibly closed, also after a crash
\* between the two writes.
THEOREM CancelledRevoked == Spec => []CancelledRevokesBinding
<1>1. BindInv => CancelledRevokesBinding
  BY DEF BindInv, StoreInv, RevokedInv, Revoking, CancelledRevokesBinding, Stored
<1> QED BY <1>1, BindingInvariance, PTL

\* A binding past its first job names two stored bound jobs of its own session, the first
\* with the session to resume.
THEOREM BindingsGrounded == Spec => []BindingsAreGrounded
<1>1. ASSUME BindInv
      PROVE  BindingsAreGrounded
  <2> SUFFICES ASSUME NEW s \in Sessions, NEW c \in Children, Slot(s, c) # None,
                      Slot(s, c).anchor # Slot(s, c).current
               PROVE  LET b == Slot(s, c) IN
                      /\ {b.anchor, b.current} \subseteq Stored
                      /\ ValidAnchor(b.anchor)
                      /\ \A j \in {b.anchor, b.current} :
                            jobs[j].owner = s /\ jobs[j].class = "bound"
    BY DEF BindingsAreGrounded
  <2>1. PICK b : b = Slot(s, c)
    OBVIOUS
  <2>2. Grounded(b, s)
    BY <1>1, <2>1 DEF BindInv, StoreInv, SlotInv
  <2> QED BY <2>1, <2>2 DEF Grounded, BoundOf, Past
<1> QED BY <1>1, BindingInvariance, PTL

\* finishActiveRescueContinuationFailure: when the failed attempt becomes visible, the
\* binding is back at exactly the job it was at before, under a later generation, wherever
\* an earlier rollback of it was cut short.
THEOREM RollbackRestores == Spec => RollbackRestoresPrior
<1>1. ASSUME BindInv, [Next]_vars
      PROVE  \A j \in Stored :
                txn.route = "rollback" /\ jobs[j].status = "queued" /\ jobs'[j].status = "failed"
                  => Restored(Slot(jobs[j].owner, jobs[j].origin.child), jobs[j].origin.prior)
  <2> SUFFICES ASSUME NEW j \in Stored, txn.route = "rollback", jobs[j].status = "queued",
                      jobs'[j].status = "failed"
               PROVE  Restored(Slot(jobs[j].owner, jobs[j].origin.child), jobs[j].origin.prior)
    OBVIOUS
  <2>a. TypeOK /\ PublicationSound /\ RollbackInv
    BY <1>1 DEF BindInv, Inv, TxnInv
  <2>1. ~ Unlocked /\ txn.route \notin Reserving
    BY <2>a DEF PublicationSound, Unlocked, Reserving
  <2>2. ~ UNCHANGED jobs
    OBVIOUS
  <2>3. WriteJob
    BY <1>1, <2>1, <2>2, RecordCases
  <2>4. txn.id = j /\ txn.step = "job"
    BY <2>2, <2>3, <2>a, StoredIsJob DEF WriteJob, TypeOK
  <2> QED BY <2>a, <2>4 DEF RollbackInv
<1> QED BY <1>1, BindingInvariance, PTL DEF Spec, RollbackRestoresPrior

\* An operation moves off a job either forward, to the continuation reserved from that
\* very binding, or back off an attempt that never reached a session: work a session
\* holds is never lost from the operation.
THEOREM NeverRewinds == Spec => NeverRewindsPastWork
<1>1. ASSUME BindInv, [Next]_vars
      PROVE  \A s \in Sessions, c \in Children :
                LET b == Slot(s, c)
                    n == bindings'[s][c]
                IN b # None /\ n # None /\ n.current # b.current =>
                   \/ jobs[n.current].origin # None /\ jobs[n.current].origin.prior = b
                   \/ jobs[b.current].status \in {"queued", "failed"} /\ ~ jobs[b.current].session
  <2> SUFFICES ASSUME NEW s \in Sessions, NEW c \in Children,
                      Slot(s, c) # None, bindings'[s][c] # None,
                      bindings'[s][c].current # Slot(s, c).current
               PROVE  \/ /\ jobs[bindings'[s][c].current].origin # None
                         /\ jobs[bindings'[s][c].current].origin.prior = Slot(s, c)
                      \/ /\ jobs[Slot(s, c).current].status \in {"queued", "failed"}
                         /\ ~ jobs[Slot(s, c).current].session
    OBVIOUS
  <2>a. /\ Inv /\ TypeOK /\ PublicationSound /\ StoreInv /\ AllWellFormed /\ PendingInv /\ TxnInv
    BY <1>1 DEF BindInv, Inv, StoreInv
  <2>0. PICK b \in Binding, n \in {bindings'[s][c]} : b = Slot(s, c) /\ n = bindings'[s][c]
    BY <2>a, SlotIsBinding
  <2>1. n.current # b.current /\ n # None /\ bindings'[s][c] # bindings[s][c]
    BY <2>0 DEF Slot
  <2>2. CASE WriteBinding
    <3>1. /\ txn.owner \in Sessions /\ txn.child \in Children /\ txn.binding \in Binding
          /\ txn.step = "binding"
      BY <2>2, <2>a, WriteBindingFits DEF WriteBinding
    <3>2. s = txn.owner /\ c = txn.child /\ n = txn.binding
      BY <2>a, <2>0, <2>1, <2>2, <3>1 DEF WriteBinding, TypeOK
    <3>3. txn.route \in {"fresh", "continuation", "rollback", "cancel"}
      BY <2>a, <3>1 DEF PublicationSound, TypeOK, Txn, Routes
    <3>4. CASE txn.route = "fresh"
      BY <2>a, <2>0, <3>1, <3>2, <3>4 DEF TxnInv, FreshInv
    <3>5. CASE txn.route = "continuation"
      <4>1. /\ txn.job.origin = [child |-> c, prior |-> b]
            /\ n = AdvancedTo(b, txn.id, n.updatedAt)
        BY <2>a, <2>0, <3>2, <3>5 DEF TxnInv, ContinuationInv
      <4>2. n.current = txn.id
        BY <4>1 DEF AdvancedTo, Binding
      <4>3. jobs[txn.id] = txn.job
        BY <2>a, <3>1, <3>5 DEF TxnInv, ReservationInv, Visible, Reserving
      <4>4. [child |-> c, prior |-> b] # None
        BY AbsenceAssumption DEF Origin
      <4> QED BY <2>0, <4>1, <4>2, <4>3, <4>4
    <3>6. CASE txn.route = "rollback"
      <4>1. /\ txn.id \in Stored /\ jobs[txn.id].status = "queued"
            /\ jobs[txn.id].origin \in Origin
        BY <2>a, <3>6, SettledIsActive
      <4>2. b = AdvancedTo(jobs[txn.id].origin.prior, txn.id, b.updatedAt)
        BY <2>a, <2>0, <3>1, <3>2, <3>6 DEF TxnInv, RollbackInv
      <4>3. b.current = txn.id
        BY <4>1, <4>2 DEF AdvancedTo, Origin, Binding
      <4>4. ~ jobs[txn.id].session
        BY <2>a, <4>1 DEF AllWellFormed, WellFormed
      <4> QED BY <2>0, <4>1, <4>3, <4>4
    <3>7. CASE txn.route = "cancel"
      <4>1. n = [ClosedAs(b, "cancel") EXCEPT !.updatedAt = n.updatedAt]
        BY <2>a, <2>0, <3>1, <3>2, <3>7 DEF TxnInv, CancelInv
      <4>2. [ClosedAs(b, "cancel") EXCEPT !.updatedAt = n.updatedAt].current = b.current
        BY DEF ClosedAs, Binding
      <4> QED BY <2>1, <4>1, <4>2
    <3> QED BY <3>3, <3>4, <3>5, <3>6, <3>7
  <2>3. ASSUME NEW t \in Sessions, NEW d \in Children, RepairRescueContinuationBinding(t, d)
        PROVE  jobs[b.current].status \in {"queued", "failed"} /\ ~ jobs[b.current].session
    <3>1. t = s /\ d = c
      BY <2>a, <2>1, <2>3 DEF RepairRescueContinuationBinding, ReplaceSlot, TypeOK
    <3> QED BY <2>0, <2>3, <3>1 DEF RepairRescueContinuationBinding
  <2>4. ASSUME NEW t \in Sessions, NEW d \in Children, NEW reason \in CloseReasons,
               CloseRescueBindingForChild(t, d, reason)
        PROVE  FALSE
    <3>1. bindings' = [bindings EXCEPT ![t][d] =
                         [ClosedAs(Slot(t, d), reason) EXCEPT !.updatedAt = clock]]
      BY <2>4 DEF CloseRescueBindingForChild, ReplaceSlot
    <3>2. t = s /\ d = c
      BY <2>a, <2>1, <3>1 DEF TypeOK
    <3>3. n = [ClosedAs(b, reason) EXCEPT !.updatedAt = clock]
      BY <2>a, <2>0, <3>1, <3>2 DEF TypeOK
    <3>4. [ClosedAs(b, reason) EXCEPT !.updatedAt = clock].current = b.current
      BY DEF ClosedAs, Binding
    <3> QED BY <2>1, <3>3, <3>4
  <2>5. ~ CollectClosedBindings
    <3>1. ASSUME CollectClosedBindings
          PROVE  n \in {b, None}
      BY <2>a, <2>0, <3>1 DEF CollectClosedBindings, TypeOK, Slot
    <3> QED BY <2>1, <3>1
  <2> QED BY <1>1, <2>0, <2>1, <2>2, <2>3, <2>4, <2>5, BindingCases
<1> QED BY <1>1, BindingInvariance, PTL DEF Spec, NeverRewindsPastWork

-----------------------------------------------------------------------------
(* The owner index.                                                        *)

\* What the repair of the index has reached, and what the publication finds.
IndexInv ==
    /\ txn.step = "strays" => Stored \subseteq tuples
    /\ txn.step = "repaired" => tuples = Stored
    /\ IndexComplete

\* A step that leaves the records and the tuples alone and goes on behind the repair.
LEMMA IndexStep ==
    ASSUME UNCHANGED <<jobs, tuples>>,
           \/ txn'.step \in {"idle", "tuples"}
           \/ tuples = Stored /\ txn'.step \in {"authority", "gc", "binding", "tuple"}
    PROVE  IndexInv'
<1>1. Stored' = Stored
  BY DEF Stored
<1> QED BY <1>1 DEF IndexInv, IndexComplete

LEMMA IndexBegins ==
    ASSUME NEW record \in Txn, Begin(record), UNCHANGED <<jobs, tuples>>,
           record.route \in {"generic", "fresh", "continuation", "listing"}
    PROVE  IndexInv'
<1>1. AfterIndex(record.route, record.owner) \in {"idle", "authority", "gc", "binding", "tuple"}
  BY AfterIndexStep DEF Routes
<1>2. txn'.step \in {"idle", "tuples", "authority", "gc", "binding", "tuple"}
  BY <1>1 DEF Begin, Idle, Txn
<1>3. txn'.step \in {"authority", "gc", "binding", "tuple"} => tuples = Stored
  BY <1>2 DEF Begin, Idle, Txn, MarkerCurrent
<1>4. \/ txn'.step \in {"idle", "tuples"}
      \/ tuples = Stored /\ txn'.step \in {"authority", "gc", "binding", "tuple"}
  BY <1>2, <1>3
<1> QED BY <1>4, IndexStep

LEMMA PublicationKeepsIndex ==
    ASSUME Inv, IndexInv, Publication
    PROVE  IndexInv'
<1>a. TypeOK /\ PublicationSound
  BY DEF Inv
<1>r. txn \in Txn /\ txn.route \in Routes /\ txn.step \in Steps
  BY <1>a DEF TypeOK, Txn
<1>m. ASSUME NEW step \in Steps, MoveTo(step)
      PROVE  txn'.step = step /\ (step # "idle" => txn'.route = txn.route /\ txn'.id = txn.id)
  BY <1>r, <1>m DEF MoveTo, Idle, Txn
<1>1. CASE RewriteOwnerTuples
  <2>0. UNCHANGED jobs /\ Stored' = Stored
    BY <1>1 DEF RewriteOwnerTuples, Stored
  <2>1. CASE Stored \subseteq tuples
    <3>1. txn'.step = "strays" /\ tuples' = tuples
      BY <1>1, <1>m, <2>1 DEF RewriteOwnerTuples, Steps
    <3> QED BY <2>0, <2>1, <3>1 DEF IndexInv, IndexComplete
  <2>2. CASE ~ (Stored \subseteq tuples)
    <3>1. txn'.step = "tuples"
      BY <1>1, <2>2 DEF RewriteOwnerTuples
    <3> QED BY <3>1 DEF IndexInv, IndexComplete
  <2> QED BY <2>1, <2>2
<1>2. CASE UnlinkStrayTuples
  <2>0. txn.step = "strays" /\ Stored \subseteq tuples /\ Stored' = Stored
    BY <1>2 DEF UnlinkStrayTuples, IndexInv, Stored
  <2>1. CASE tuples \subseteq Stored
    <3>1. txn'.step = "repaired" /\ tuples' = tuples
      BY <1>2, <1>m, <2>1 DEF UnlinkStrayTuples, Steps
    <3> QED BY <2>0, <2>1, <3>1 DEF IndexInv, IndexComplete
  <2>2. CASE ~ (tuples \subseteq Stored)
    <3>1. txn'.step = "strays" /\ \E j \in tuples \ Stored : tuples' = tuples \ {j}
      BY <1>2, <2>2, <2>0 DEF UnlinkStrayTuples
    <3> QED BY <2>0, <3>1 DEF IndexInv, IndexComplete
  <2> QED BY <2>1, <2>2
<1>3. CASE PublishRepairedMarker
  <2>1. AfterIndex(txn.route, txn.owner) \in {"idle", "authority", "gc", "binding", "tuple"}
    BY <1>r, AfterIndexStep
  <2>2. txn'.step = AfterIndex(txn.route, txn.owner)
    BY <1>3, <1>m, <2>1 DEF PublishRepairedMarker, Steps
  <2>3. UNCHANGED <<jobs, tuples>> /\ tuples = Stored
    BY <1>3 DEF PublishRepairedMarker, IndexInv
  <2>4. \/ txn'.step \in {"idle", "tuples"}
        \/ tuples = Stored /\ txn'.step \in {"authority", "gc", "binding", "tuple"}
    BY <2>1, <2>2, <2>3
  <2> QED BY <2>3, <2>4, IndexStep
<1>4. CASE WriteAuthority
  <2>1. txn'.step = "binding" /\ txn.step = "authority" /\ UNCHANGED <<jobs, tuples>>
    BY <1>4, <1>m DEF WriteAuthority, Steps
  <2>2. txn.route = "fresh"
    BY <1>a, <1>r, <2>1 DEF PublicationSound, Routes
  <2> QED BY <2>1, <2>2, IndexStep DEF IndexInv, IndexComplete
<1>5. CASE CollectClosedBindings
  <2>1. txn'.step = "binding" /\ txn.step = "gc" /\ UNCHANGED <<jobs, tuples>>
    BY <1>5, <1>m DEF CollectClosedBindings, Steps
  <2>2. txn.route = "fresh"
    BY <1>a, <1>r, <2>1 DEF PublicationSound, Routes
  <2> QED BY <2>1, <2>2, IndexStep DEF IndexInv, IndexComplete
<1>6. CASE WriteBinding
  <2>1. txn.step = "binding" /\ UNCHANGED <<jobs, tuples>> /\ MoveTo(AfterBinding(txn.route))
    BY <1>6 DEF WriteBinding
  <2>2. /\ txn.route \in {"fresh", "continuation", "rollback", "cancel"}
        /\ Stored' = Stored
    BY <1>a, <1>r, <2>1 DEF PublicationSound, Routes, Stored
  <2>3. CASE txn.route \in {"fresh", "continuation"}
    <3>1. txn'.step \in {"tuple", "idle"}
      BY <1>m, <2>1, <2>3 DEF AfterBinding, Steps
    <3>2. tuples = Stored
      BY <2>1, <2>3 DEF IndexInv, IndexComplete
    <3>3. \/ txn'.step \in {"idle", "tuples"}
          \/ tuples = Stored /\ txn'.step \in {"authority", "gc", "binding", "tuple"}
      BY <3>1, <3>2
    <3> QED BY <2>1, <3>3, IndexStep
  <2>4. CASE txn.route \in {"rollback", "cancel"}
    <3>1. txn'.step = "job" /\ txn'.route = txn.route
      BY <1>m, <2>1, <2>4 DEF AfterBinding, Steps
    <3> QED BY <2>4, <3>1 DEF IndexInv, IndexComplete
  <2> QED BY <2>2, <2>3, <2>4
<1>7. CASE WriteOwnerTuple
  <2>1. /\ txn.step = "tuple" /\ tuples' = tuples \cup {txn.id} /\ Stored' = Stored
        /\ txn'.step = "job" /\ txn'.route = txn.route /\ txn'.id = txn.id
    BY <1>7, <1>m DEF WriteOwnerTuple, Steps, Stored
  <2> QED BY <2>1 DEF IndexInv, IndexComplete
<1>8. CASE WriteJob
  <2>1. /\ txn.step = "job" /\ jobs' = [jobs EXCEPT ![txn.id] = txn.job] /\ UNCHANGED tuples
        /\ MoveTo(IF txn.route \in {"rollback", "cancel"} THEN "idle" ELSE "marker")
    BY <1>8 DEF WriteJob
  <2>2. CASE txn.route \in {"rollback", "cancel"}
    <3>1. txn'.step = "idle"
      BY <1>m, <2>1, <2>2 DEF Steps
    <3> QED BY <3>1 DEF IndexInv, IndexComplete
  <2>3. CASE txn.route \in {"generic", "fresh", "continuation"}
    <3>1. txn'.step = "marker"
      BY <1>m, <2>1, <2>3 DEF Steps
    <3>2. tuples = Stored \cup {txn.id}
      BY <2>1, <2>3 DEF IndexInv, IndexComplete
    <3>3. txn.id \in JobIds /\ txn.job # None
      BY <1>a, <2>3, AbsenceAssumption DEF PublicationSound
    <3>4. Stored' = Stored \cup {txn.id}
      BY <1>a, <2>1, <3>3 DEF TypeOK, Stored
    <3> QED BY <2>1, <3>1, <3>2, <3>4 DEF IndexInv, IndexComplete
  <2> QED BY <1>a, <1>r, <2>1, <2>2, <2>3 DEF PublicationSound, Routes
<1>9. CASE PublishMarker
  <2>1. /\ tuples = Stored /\ UNCHANGED <<jobs, tuples>>
        /\ txn'.step = AfterMarker(txn.route)
    BY <1>9, <1>m DEF PublishMarker, AfterMarker, Steps
  <2>2. txn'.step \in {"idle", "binding"}
    BY <2>1 DEF AfterMarker
  <2>3. \/ txn'.step \in {"idle", "tuples"}
        \/ tuples = Stored /\ txn'.step \in {"authority", "gc", "binding", "tuple"}
    BY <2>1, <2>2
  <2> QED BY <2>1, <2>3, IndexStep
<1>10. CASE Crash
  BY <1>10 DEF Crash, Idle, IndexInv, IndexComplete
<1> QED BY <1>1, <1>2, <1>3, <1>4, <1>5, <1>6, <1>7, <1>8, <1>9, <1>10 DEF Publication

LEMMA NextKeepsIndex ==
    ASSUME Inv, IndexInv, [Next]_vars
    PROVE  IndexInv'
<1>a. TypeOK /\ PublicationSound /\ IntentsAreHosted
  BY DEF Inv
<1>u. ASSUME Unlocked, UNCHANGED txn
      PROVE  IndexInv'
  BY <1>u DEF Unlocked, IndexInv, IndexComplete
<1>1. CASE Publication
  BY <1>1, PublicationKeepsIndex
<1>2. ASSUME NEW j \in JobIds, Reservation(j)
      PROVE  IndexInv'
  <2>1. ASSUME NEW s \in Sessions, NEW class \in Kinds, ReserveJob(j, s, class)
        PROVE  IndexInv'
    <3> DEFINE job == ReservedJob(s, class, FALSE, None)
               record == [Idle EXCEPT !.route = "generic", !.id = j, !.owner = s, !.job = job]
    <3>1. \A host \in BOOLEAN : ReservedJob(s, class, host, None) \in Job
      BY <1>a, InPlayAssumption, ReservedIsJob
    <3>2. job \in Job
      BY <3>1
    <3>3. Begin(record) /\ UNCHANGED <<jobs, tuples>>
      BY <2>1 DEF ReserveJob
    <3> HIDE DEF job
    <3>4. record \in Txn /\ record.route = "generic"
      BY <3>2 DEF Idle, Txn, Steps, Routes
    <3> HIDE DEF record
    <3> QED BY <3>3, <3>4, IndexBegins
  <2>2. ASSUME NEW s \in Sessions, NEW c \in Children, NEW host \in BOOLEAN,
               ReserveFreshRescueJob(j, s, c, host)
        PROVE  IndexInv'
    <3> DEFINE job == ReservedJob(s, "bound", host, None)
               binding == [state |-> "active", anchor |-> j, current |-> j,
                           updatedAt |-> clock, reason |-> None]
               record == [step |-> "idle", route |-> "fresh", id |-> j, owner |-> s,
                          child |-> c, job |-> job, binding |-> binding]
    <3>1. job \in Job
      BY <1>a, ReservedIsJob DEF Classes
    <3>2. binding \in Binding
      BY <1>a DEF Binding, TypeOK
    <3>3. Begin(record) /\ UNCHANGED <<jobs, tuples>>
      BY <2>2 DEF ReserveFreshRescueJob
    <3> HIDE DEF job, binding
    <3>4. record \in Txn /\ record.route = "fresh"
      BY <3>1, <3>2 DEF Txn, Steps, Routes
    <3> HIDE DEF record
    <3> QED BY <3>3, <3>4, IndexBegins
  <2>3. ASSUME NEW s \in Sessions, NEW c \in Children, NEW host \in BOOLEAN,
               ReserveBoundRescueContinuation(j, s, c, host)
        PROVE  IndexInv'
    <3>0. PICK prior \in Binding : prior = Slot(s, c)
      BY <1>a, <2>3 DEF ReserveBoundRescueContinuation, TypeOK, Slot
    <3> DEFINE origin == [child |-> c, prior |-> prior]
               job == ReservedJob(s, "bound", host, origin)
               binding == AdvancedTo(prior, j, Larger(clock, prior.updatedAt))
               record == [step |-> "idle", route |-> "continuation", id |-> j, owner |-> s,
                          child |-> c, job |-> job, binding |-> binding]
    <3>1. job \in Job
      <4>1. origin \in Origin
        BY DEF Origin
      <4> QED BY <1>a, <4>1, ReservedIsJob DEF Classes
    <3>2. binding \in Binding
      BY <1>a DEF AdvancedTo, Binding, TypeOK, Larger
    <3>3. Begin(record) /\ UNCHANGED <<jobs, tuples>>
      BY <2>3, <3>0 DEF ReserveBoundRescueContinuation
    <3> HIDE DEF job, binding
    <3>4. record \in Txn /\ record.route = "continuation"
      BY <3>1, <3>2 DEF Txn, Steps, Routes
    <3> HIDE DEF record
    <3> QED BY <3>3, <3>4, IndexBegins
  <2> QED BY <1>2, <2>1, <2>2, <2>3 DEF Reservation
<1>3. ASSUME NEW j \in JobIds, Attempt(j)
      PROVE  IndexInv'
  BY <1>a, <1>u, <1>3, AttemptRewrites DEF Rewrites, Replace
<1>4. ASSUME NEW j \in JobIds, Settlement(j)
      PROVE  IndexInv'
  <2>1. CASE \E new \in Job : Rewrites(j, new)
    BY <1>u, <2>1 DEF Rewrites, Replace
  <2>2. CASE Plans(j)
    <3>1. txn'.step \in {"binding", "job"} /\ txn'.route \in {"rollback", "cancel"}
      BY <2>2 DEF Plans
    <3> QED BY <3>1 DEF IndexInv, IndexComplete
  <2> QED BY <1>a, <1>4, <2>1, <2>2, SettlementRewritesOrPlans
<1>5. CASE Maintenance
  <2>1. CASE ListOwnedJobs
    <3> DEFINE record == [Idle EXCEPT !.route = "listing"]
    <3>1. record \in Txn /\ record.route = "listing"
      BY DEF Idle, Txn, Steps, Routes
    <3>2. Begin(record) /\ UNCHANGED <<jobs, tuples>>
      BY <2>1 DEF ListOwnedJobs
    <3> HIDE DEF record
    <3> QED BY <3>1, <3>2, IndexBegins
  <2>2. CASE Tick
    BY <2>2 DEF Tick, IndexInv, IndexComplete, Stored
  <2>3. CASE ~ ListOwnedJobs /\ ~ Tick
    <3>1. Unlocked /\ UNCHANGED txn
      BY <1>5, <2>3 DEF Maintenance, LoseTuple, RepairRescueContinuationBinding,
                        CloseRescueBindingForChild, ReplaceSlot
    <3> QED BY <1>u, <3>1
  <2> QED BY <2>1, <2>2, <2>3
<1>6. CASE UNCHANGED vars
  BY <1>6 DEF vars, IndexInv, IndexComplete, Stored
<1> QED BY <1>1, <1>2, <1>3, <1>4, <1>5, <1>6 DEF Next

\* ensureOwnerIndex: from the first file a reservation writes of its own, the owner index
\* lists exactly the stored jobs and the one being published, however crashes and lost
\* files left it.
THEOREM IndexCompleteness == Spec => []IndexComplete
<1>1. Init => IndexInv
  BY DEF Init, Idle, IndexInv, IndexComplete
<1>2. Inv /\ IndexInv /\ [Next]_vars => IndexInv'
  BY NextKeepsIndex
<1>3. IndexInv => IndexComplete
  BY DEF IndexInv
<1> QED BY <1>1, <1>2, <1>3, Invariance, PTL DEF Spec

-----------------------------------------------------------------------------
(* Generations, unless the clock lags.                                     *)

ClockInv ==
    /\ \A s \in Sessions, c \in Children : Slot(s, c) # None => clock >= Slot(s, c).updatedAt
    /\ \A j \in Stored : Readable(j)
    /\ txn.route = "continuation" => txn.job.created >= txn.job.origin.prior.updatedAt

\* The clock never goes back, and reaches every generation that is written.
LEMMA ClockSteps ==
    ASSUME BindInv, [Next]_vars, ~ ClockMayLag
    PROVE  /\ clock' \in Nat /\ clock' >= clock
           /\ \A s \in Sessions, c \in Children :
                 bindings'[s][c] \in {Slot(s, c), None} \/ clock' >= bindings'[s][c].updatedAt
<1>a. Inv /\ TypeOK /\ StoreInv /\ PendingInv /\ TxnInv /\ clock \in Nat /\ TypeOK'
  BY NextPreserves DEF BindInv, Inv, TypeOK
<1>b. clock' \in Nat
  BY <1>a DEF TypeOK
<1>1. ASSUME NEW s \in Sessions, NEW c \in Children, NEW n \in Binding,
             bindings' = [bindings EXCEPT ![s][c] = n], Reach(n.updatedAt)
      PROVE  /\ clock' >= clock
             /\ \A t \in Sessions, d \in Children :
                   bindings'[t][d] \in {Slot(t, d), None} \/ clock' >= bindings'[t][d].updatedAt
  <2>1. n.updatedAt \in Nat
    BY BindingNames
  <2>2. clock' >= clock /\ clock' >= n.updatedAt
    BY <1>a, <1>1, <2>1 DEF Reach, Larger
  <2>3. bindings'[s][c] = n
    BY <1>a, <1>1 DEF TypeOK
  <2>4. \A t \in Sessions, d \in Children : t # s \/ d # c => bindings'[t][d] = Slot(t, d)
    BY <1>a, <1>1 DEF TypeOK, Slot
  <2> QED BY <2>2, <2>3, <2>4
<1>2. CASE UNCHANGED bindings /\ clock' \in {clock, clock + 1}
  BY <1>a, <1>b, <1>2 DEF Slot
<1>3. CASE CollectClosedBindings
  <2>1. clock' >= clock
    BY <1>a, <1>3 DEF CollectClosedBindings
  <2>2. \A s \in Sessions, c \in Children : bindings'[s][c] \in {Slot(s, c), None}
    BY <1>a, <1>3 DEF CollectClosedBindings, TypeOK, Slot
  <2> QED BY <1>b, <2>1, <2>2
<1>4. CASE WriteBinding
  <2>1. /\ txn.owner \in Sessions /\ txn.child \in Children /\ txn.binding \in Binding
    BY <1>4, <1>a, WriteBindingFits DEF WriteBinding
  <2> QED BY <1>b, <1>1, <1>4, <2>1 DEF WriteBinding
<1>5. ASSUME NEW s \in Sessions, NEW c \in Children, RepairRescueContinuationBinding(s, c)
      PROVE  /\ clock' >= clock
             /\ \A t \in Sessions, d \in Children :
                   bindings'[t][d] \in {Slot(t, d), None} \/ clock' >= bindings'[t][d].updatedAt
  <2>1. PICK b \in Binding : b = Slot(s, c)
    BY <1>a, <1>5, SlotIsBinding DEF RepairRescueContinuationBinding
  <2> DEFINE n == [b EXCEPT !.current = b.anchor, !.updatedAt = b.updatedAt + 1]
  <2>2. b.updatedAt + 1 \in Nat /\ b.anchor \in JobIds
    BY BindingNames
  <2>3. \A i \in JobIds, m \in Nat : [b EXCEPT !.current = i, !.updatedAt = m] \in Binding
    BY DEF Binding
  <2>4. n \in Binding
    BY <2>2, <2>3
  <2>5. bindings' = [bindings EXCEPT ![s][c] = n] /\ Reach(n.updatedAt)
    BY <1>5, <2>1 DEF RepairRescueContinuationBinding, ReplaceSlot
  <2> HIDE DEF n
  <2> QED BY <1>1, <2>4, <2>5
<1>6. ASSUME NEW s \in Sessions, NEW c \in Children, NEW reason \in CloseReasons,
             CloseRescueBindingForChild(s, c, reason)
      PROVE  /\ clock' >= clock
             /\ \A t \in Sessions, d \in Children :
                   bindings'[t][d] \in {Slot(t, d), None} \/ clock' >= bindings'[t][d].updatedAt
  <2>1. PICK b \in Binding : b = Slot(s, c)
    BY <1>a, <1>6, SlotIsBinding DEF CloseRescueBindingForChild
  <2> DEFINE n == [ClosedAs(b, reason) EXCEPT !.updatedAt = clock]
  <2>4. n \in Binding
    BY <1>a DEF ClosedAs, Binding
  <2>5. bindings' = [bindings EXCEPT ![s][c] = n] /\ Reach(n.updatedAt)
    BY <1>6, <2>1 DEF CloseRescueBindingForChild, ReplaceSlot
  <2> HIDE DEF n
  <2> QED BY <1>1, <2>4, <2>5
<1> QED BY <1>b, <1>2, <1>3, <1>4, <1>5, <1>6, BindingCases

\* A step that the clock invariant sees.
LEMMA NextKeepsClock ==
    ASSUME BindInv, ClockInv, [Next]_vars, ~ ClockMayLag
    PROVE  ClockInv'
<1>a. Inv /\ TypeOK /\ PublicationSound /\ StoreInv /\ TxnInv /\ clock \in Nat
  BY DEF BindInv, Inv, TypeOK
<1>c. /\ clock' \in Nat /\ clock' >= clock
      /\ \A s \in Sessions, c \in Children :
            bindings'[s][c] \in {Slot(s, c), None} \/ clock' >= bindings'[s][c].updatedAt
  BY ClockSteps
<1>1. \A s \in Sessions, c \in Children : Slot(s, c)' # None => clock' >= Slot(s, c)'.updatedAt
  <2> SUFFICES ASSUME NEW s \in Sessions, NEW c \in Children, bindings'[s][c] # None
               PROVE  clock' >= bindings'[s][c].updatedAt
    BY DEF Slot
  <2>1. CASE bindings'[s][c] = Slot(s, c)
    <3>1. PICK b \in Binding : b = Slot(s, c)
      BY <1>a, <2>1, SlotIsBinding
    <3>2. clock >= b.updatedAt /\ b.updatedAt \in Nat
      BY <2>1, <3>1, BindingNames DEF ClockInv
    <3> QED BY <1>a, <1>c, <2>1, <3>1, <3>2
  <2> QED BY <1>c, <2>1
<1>2. ASSUME NEW i \in Stored', jobs'[i].origin # None
      PROVE  jobs'[i].created >= jobs'[i].origin.prior.updatedAt
  <2>1. CASE UNCHANGED jobs
    BY <1>2, <2>1 DEF ClockInv, Readable, Stored
  <2>2. CASE WriteJob /\ txn.route \in Reserving
    <3>1. jobs' = [jobs EXCEPT ![txn.id] = txn.job] /\ txn.step = "job" /\ txn.id \in JobIds
      BY <1>a, <2>2, PublicationFields DEF WriteJob, Reserving
    <3>2. CASE i = txn.id
      <4>1. jobs'[i] = txn.job
        BY <1>a, <3>1, <3>2 DEF TypeOK
      <4>2. txn.route = "continuation"
        BY <1>a, <1>2, <2>2, <4>1 DEF Reserving, TxnInv, GenericInv, FreshInv
      <4> QED BY <4>1, <4>2 DEF ClockInv
    <3>3. CASE i # txn.id
      BY <1>a, <1>2, <3>1, <3>3 DEF TypeOK, Stored, ClockInv, Readable
    <3> QED BY <3>2, <3>3
  <2>3. ASSUME NEW j \in Stored, NEW new \in Job, Allowed(j, new),
               jobs' = [jobs EXCEPT ![j] = new]
        PROVE  jobs'[i].created >= jobs'[i].origin.prior.updatedAt
    <3>1. /\ i \in Stored /\ jobs'[j] = new
          /\ i # j => jobs'[i] = jobs[i]
      BY <1>a, <1>2, <2>3 DEF TypeOK, Stored
    <3>2. jobs'[i].origin = jobs[i].origin /\ jobs'[i].created = jobs[i].created
      BY <1>2, <2>3, <3>1 DEF Allowed
    <3> QED BY <1>2, <3>1, <3>2 DEF ClockInv, Readable
  <2> QED BY <2>1, <2>2, <2>3, RecordCases
<1>3. ASSUME txn'.route = "continuation"
      PROVE  txn'.job.created >= txn'.job.origin.prior.updatedAt
  <2>1. CASE txn'.route = txn.route /\ txn'.job = txn.job
    BY <1>3, <2>1 DEF ClockInv
  <2>2. ASSUME NEW j \in JobIds, NEW s \in Sessions, NEW c \in Children, NEW host \in BOOLEAN,
               ReserveBoundRescueContinuation(j, s, c, host)
        PROVE  txn'.job.created >= txn'.job.origin.prior.updatedAt
    <3>0. PICK prior \in Binding : prior = Slot(s, c)
      BY <1>a, <2>2, SlotIsBinding DEF ReserveBoundRescueContinuation
    <3>1. txn'.job = ReservedJob(s, "bound", host, [child |-> c, prior |-> prior])
      <4> DEFINE record == [step |-> "idle", route |-> "continuation", id |-> j, owner |-> s,
                            child |-> c,
                            job |-> ReservedJob(s, "bound", host, [child |-> c, prior |-> prior]),
                            binding |-> AdvancedTo(prior, j, Larger(clock, prior.updatedAt))]
      <4>1. Begin(record)
        BY <2>2, <3>0 DEF ReserveBoundRescueContinuation
      <4> QED BY <1>3, <4>1 DEF Begin, Idle
    <3>2. clock >= prior.updatedAt
      BY <3>0, AbsenceAssumption DEF ClockInv
    <3> QED BY <3>1, <3>2 DEF ReservedJob
  <2>3. ASSUME Publication
        PROVE  txn'.route = txn.route /\ txn'.job = txn.job
    <3>1. (\E step : MoveTo(step)) \/ UNCHANGED txn \/ txn' = Idle
      BY <2>3 DEF Publication, RewriteOwnerTuples, UnlinkStrayTuples, PublishRepairedMarker,
                  WriteAuthority, CollectClosedBindings, WriteBinding, WriteOwnerTuple, WriteJob,
                  PublishMarker, Crash
    <3>2. txn' # Idle
      BY <1>3 DEF Idle
    <3> QED BY <1>a, <3>1, <3>2 DEF MoveTo, TypeOK, Txn
  <2>4. ASSUME NEW j \in JobIds, Attempt(j)
        PROVE  txn'.route = txn.route /\ txn'.job = txn.job
    BY <1>a, <2>4, AttemptRewrites DEF Rewrites, Replace
  <2>5. ASSUME NEW j \in JobIds, Settlement(j)
        PROVE  txn'.route = txn.route /\ txn'.job = txn.job
    BY <1>a, <1>3, <2>5, SettlementRewritesOrPlans DEF Inv, Rewrites, Replace, Plans
  <2>6. ASSUME Maintenance
        PROVE  txn'.route = txn.route /\ txn'.job = txn.job
    <3>1. CASE ListOwnedJobs
      <4>1. [Idle EXCEPT !.route = "listing"] \in Txn
        BY DEF Idle, Txn, Steps, Routes
      <4>2. txn' = Idle \/ txn'.route = [Idle EXCEPT !.route = "listing"].route
        BY <3>1, <4>1, BeginsAt DEF ListOwnedJobs
      <4> QED BY <1>3, <4>2 DEF Idle
    <3>2. CASE ~ ListOwnedJobs
      BY <2>6, <3>2 DEF Maintenance, LoseTuple, Tick, RepairRescueContinuationBinding,
                        CloseRescueBindingForChild, ReplaceSlot
    <3> QED BY <3>1, <3>2
  <2>7. ASSUME NEW j \in JobIds, NEW s \in Sessions, NEW class \in Kinds,
               ReserveJob(j, s, class)
        PROVE  FALSE
    <3> DEFINE job == ReservedJob(s, class, FALSE, None)
               record == [Idle EXCEPT !.route = "generic", !.id = j, !.owner = s, !.job = job]
    <3>1. record.route = "generic" /\ Begin(record)
      BY <2>7 DEF ReserveJob, Idle
    <3>2. txn' = Idle \/ txn'.route = "generic"
      BY <3>1 DEF Begin, Idle
    <3> QED BY <1>3, <3>1, <3>2 DEF Idle
  <2>8. ASSUME NEW j \in JobIds, NEW s \in Sessions, NEW c \in Children, NEW host \in BOOLEAN,
               ReserveFreshRescueJob(j, s, c, host)
        PROVE  FALSE
    BY <1>3, <2>8 DEF ReserveFreshRescueJob, Begin, Idle
  <2>9. CASE UNCHANGED vars
    BY <2>1, <2>9 DEF vars
  <2> QED BY <2>1, <2>2, <2>3, <2>4, <2>5, <2>6, <2>7, <2>8, <2>9 DEF Next, Reservation
<1> QED BY <1>1, <1>2, <1>3 DEF ClockInv, Readable

\* Unless the clock lags behind a stored generation, every stored record can be read back:
\* a continuation is never older than the binding it advanced from (validateJobRecord).
THEOREM Readability ==
    ASSUME ~ ClockMayLag
    PROVE  Spec => []RecordsReadable
<1>1. Init => ClockInv
  BY DEF Init, Idle, ClockInv, Slot, Stored
<1>2. BindInv /\ ClockInv /\ [Next]_vars => ClockInv'
  BY NextKeepsClock
<1>3. ClockInv => RecordsReadable
  BY DEF ClockInv, RecordsReadable
<1> QED BY <1>1, <1>2, <1>3, BindingInvariance, PTL DEF Spec

-----------------------------------------------------------------------------
(* Nothing is left behind, when no process dies, no file is lost and the   *)
(* clock does not lag.                                                     *)

Orderly == ~ MayCrash /\ ~ MayLoseTuples /\ ~ ClockMayLag

\* Every stored job is in the owner index, and every partition can be read but the one
\* a first reservation is creating.
FilesInv ==
    /\ Stored \subseteq tuples
    /\ \A s \in Sessions :
          \/ PartitionReadable(s)
          \/ txn.route = "fresh" /\ txn.owner = s /\ txn.step \in {"gc", "binding"}

First(j) == jobs[j].status = "queued" /\ jobs[j].origin = None

\* A queued first job is at no binding but its own.
FirstInv ==
    \A j \in Stored : First(j) =>
        \A c \in Holders(j) : Holders(j) = {c} /\ Slot(jobs[j].owner, c).anchor = j

\* The binding advanced to `j`, perhaps closed since.
Attached(b, prior, j) ==
    \/ b = AdvancedTo(prior, j, b.updatedAt)
    \/ b.state = "closed" /\ b = ClosedAs(AdvancedTo(prior, j, b.updatedAt), b.reason)

\* A queued continuation is attached, unless its own publication has still to do it or
\* its own rollback has just undone it.
Standing(j) ==
    LET origin == jobs[j].origin
        b == Slot(jobs[j].owner, origin.child)
    IN  \/ Attached(b, origin.prior, j)
        \/ b = origin.prior /\ txn.route = "continuation" /\ txn.id = j
        \/ Restored(b, origin.prior) /\ txn.route = "rollback" /\ txn.id = j /\ txn.step = "job"

StandingInv == \A j \in Stored : jobs[j].origin # None => Standing(j)

\* A step that is not a publication's own finds the lock free, or is not about the store.
LEMMA OtherActors ==
    ASSUME BindInv, [Next]_vars
    PROVE  \/ Publication
           \/ /\ Unlocked \/ UNCHANGED <<jobs, bindings, txn>>
              /\ UNCHANGED <<authority, partitions>>
              /\ UNCHANGED tuples \/ LoseTuple
<1>a. TypeOK /\ IntentsAreHosted
  BY DEF BindInv, Inv
<1>1. ASSUME NEW j \in JobIds, Reservation(j)
      PROVE  Unlocked /\ UNCHANGED <<authority, partitions, tuples>>
  <2>1. \A s, class :
           ReserveJob(j, s, class) => Unlocked /\ UNCHANGED <<authority, partitions, tuples>>
    BY DEF ReserveJob, MayReserve
  <2>2. \A s, c, host : ReserveFreshRescueJob(j, s, c, host) =>
                          Unlocked /\ UNCHANGED <<authority, partitions, tuples>>
    BY DEF ReserveFreshRescueJob, MayReserve
  <2>3. \A s, c, host : ReserveBoundRescueContinuation(j, s, c, host) =>
                          Unlocked /\ UNCHANGED <<authority, partitions, tuples>>
    BY DEF ReserveBoundRescueContinuation, MayReserve
  <2> QED BY <1>1, <2>1, <2>2, <2>3 DEF Reservation
<1>2. ASSUME NEW j \in JobIds, Attempt(j)
      PROVE  Unlocked /\ UNCHANGED <<authority, partitions, tuples>>
  BY <1>a, <1>2, AttemptRewrites DEF Rewrites, Replace
<1>3. ASSUME NEW j \in JobIds, Settlement(j)
      PROVE  Unlocked /\ UNCHANGED <<authority, partitions, tuples>>
  BY <1>a, <1>3, SettlementRewritesOrPlans DEF Rewrites, Replace, Plans
<1>4. Maintenance =>
        /\ Unlocked \/ UNCHANGED <<jobs, bindings, txn>>
        /\ UNCHANGED <<authority, partitions>>
        /\ UNCHANGED tuples \/ LoseTuple
  BY DEF Maintenance, ListOwnedJobs, LoseTuple, Tick, RepairRescueContinuationBinding,
         CloseRescueBindingForChild, ReplaceSlot
<1> QED BY <1>1, <1>2, <1>3, <1>4 DEF Next, vars

LEMMA NextKeepsFiles ==
    ASSUME Orderly, BindInv, IndexInv, FilesInv, [Next]_vars
    PROVE  FilesInv'
<1>a. Inv /\ TypeOK /\ PublicationSound
  BY DEF BindInv, Inv
<1>1. Stored' \subseteq tuples'
  <2>1. \/ tuples \subseteq tuples'
        \/ UnlinkStrayTuples
    <3>1. Publication => tuples \subseteq tuples' \/ UnlinkStrayTuples
      BY DEF Publication, RewriteOwnerTuples, PublishRepairedMarker, WriteAuthority,
             CollectClosedBindings, WriteBinding, WriteOwnerTuple, WriteJob, PublishMarker, Crash
    <3>2. ~ LoseTuple
      BY DEF LoseTuple, Orderly
    <3> QED BY <3>1, <3>2, OtherActors
  <2>2. CASE UnlinkStrayTuples
    <3>1. Stored' = Stored /\ (tuples' = tuples \/ \E j \in tuples \ Stored : tuples' = tuples \ {j})
      BY <2>2 DEF UnlinkStrayTuples, Stored
    <3> QED BY <3>1 DEF FilesInv
  <2>3. CASE tuples \subseteq tuples'
    <3>1. CASE WriteJob /\ txn.route \in Reserving
      <4>1. jobs' = [jobs EXCEPT ![txn.id] = txn.job] /\ txn.step = "job" /\ tuples' = tuples
        BY <3>1 DEF WriteJob
      <4>2. tuples = Stored \cup {txn.id}
        BY <3>1, <4>1 DEF IndexInv, IndexComplete, Reserving
      <4> QED BY <1>a, <4>1, <4>2 DEF TypeOK, Stored
    <3>2. CASE UNCHANGED jobs
      BY <2>3, <3>2 DEF FilesInv, Stored
    <3>3. ASSUME NEW j \in Stored, NEW new \in Job, jobs' = [jobs EXCEPT ![j] = new]
          PROVE  Stored' \subseteq tuples'
      BY <1>a, <2>3, <3>3 DEF FilesInv, Stored, TypeOK
    <3> QED BY <3>1, <3>2, <3>3, RecordCases
  <2> QED BY <2>1, <2>2, <2>3
<1>2. ASSUME NEW s \in Sessions
      PROVE  \/ PartitionReadable(s)'
             \/ txn'.route = "fresh" /\ txn'.owner = s /\ txn'.step \in {"gc", "binding"}
  <2> DEFINE Creating == txn.route = "fresh" /\ txn.owner = s /\ txn.step \in {"gc", "binding"}
  <2>0. PartitionReadable(s) \/ Creating
    BY DEF FilesInv
  <2>t. txn \in Txn
    BY <1>a DEF TypeOK
  <2>1. CASE WriteAuthority
    <3>1. txn'.owner = txn.owner /\ txn'.route = txn.route /\ txn'.step = "binding"
      BY <2>t, <2>1 DEF WriteAuthority, MoveTo, Txn
    <3>2. txn.route = "fresh" /\ txn.step = "authority"
      BY <1>a, <2>1, <2>t DEF WriteAuthority, PublicationSound, Txn, Routes
    <3>3. s # txn.owner => PartitionReadable(s)'
      BY <2>0, <2>1, <3>2 DEF WriteAuthority, PartitionReadable
    <3> QED BY <3>1, <3>2, <3>3
  <2>2. CASE CollectClosedBindings
    <3>1. txn'.owner = txn.owner /\ txn'.route = txn.route /\ txn'.step = "binding"
      BY <2>t, <2>2 DEF CollectClosedBindings, MoveTo, Txn
    <3> QED BY <2>0, <2>2, <3>1 DEF CollectClosedBindings, PartitionReadable
  <2>3. CASE WriteBinding
    BY <2>0, <2>3 DEF WriteBinding, PartitionReadable
  <2>4. ASSUME Publication, ~ WriteAuthority, ~ CollectClosedBindings, ~ WriteBinding
        PROVE  UNCHANGED <<authority, partitions>> /\ ~ Creating
    <3>1. UNCHANGED <<authority, partitions>> /\ txn.step \notin {"gc", "binding"}
      BY <2>4 DEF Publication, RewriteOwnerTuples, UnlinkStrayTuples, PublishRepairedMarker,
                  WriteOwnerTuple, WriteJob, PublishMarker, Crash, Orderly
    <3> QED BY <3>1
  <2>5. ASSUME ~ Publication
        PROVE  UNCHANGED <<authority, partitions>> /\ (~ Creating \/ UNCHANGED txn)
    BY <2>5, OtherActors DEF Unlocked
  <2>6. ASSUME UNCHANGED <<authority, partitions>>, ~ Creating \/ UNCHANGED txn
        PROVE  \/ PartitionReadable(s)'
               \/ txn'.route = "fresh" /\ txn'.owner = s /\ txn'.step \in {"gc", "binding"}
    BY <2>0, <2>6 DEF PartitionReadable
  <2> QED BY <2>1, <2>2, <2>3, <2>4, <2>5, <2>6
<1> QED BY <1>1, <1>2 DEF FilesInv

\* A write into a slot brings no first job back there.
LEMMA SlotKeepsFirst ==
    ASSUME TypeOK, FirstInv, NEW s \in Sessions, NEW c \in Children, NEW n,
           UNCHANGED jobs, bindings' = [bindings EXCEPT ![s][c] = n],
           \A j \in Stored : First(j) /\ n # None /\ n.current = j =>
              Slot(s, c) # None /\ Slot(s, c).current = j /\ Slot(s, c).anchor = n.anchor
    PROVE  FirstInv'
<1>1. Stored' = Stored /\ \A j : First(j)' <=> First(j)
  BY DEF Stored, First
<1>2. /\ Slot(s, c)' = n
      /\ \A t \in Sessions, d \in Children : t # s \/ d # c => Slot(t, d)' = Slot(t, d)
  BY SlotsAfter
<1> SUFFICES ASSUME NEW j \in Stored, First(j), NEW d \in Holders(j)'
             PROVE  Holders(j)' = {d} /\ Slot(jobs[j].owner, d)'.anchor = j
  BY <1>1 DEF FirstInv
<1>3. jobs[j].owner \in Sessions
  BY StoredIsJob DEF Job
<1>4. ASSUME NEW e \in Holders(j)'
      PROVE  e \in Holders(j) /\ Slot(jobs[j].owner, e)'.anchor = Slot(jobs[j].owner, e).anchor
  <2>1. e \in Children /\ Slot(jobs[j].owner, e)' # None /\ Slot(jobs[j].owner, e)'.current = j
    BY <1>4 DEF Holders, Holds, Slot
  <2>2. CASE jobs[j].owner = s /\ e = c
    BY <1>2, <2>1, <2>2 DEF Holders, Holds
  <2>3. CASE ~ (jobs[j].owner = s /\ e = c)
    BY <1>2, <1>3, <2>1, <2>3 DEF Holders, Holds
  <2> QED BY <2>2, <2>3
<1>5. Holders(j) = {d} /\ Slot(jobs[j].owner, d).anchor = j
  BY <1>4 DEF FirstInv
<1> QED BY <1>4, <1>5

LEMMA NextKeepsFirst ==
    ASSUME BindInv, FirstInv, [Next]_vars
    PROVE  FirstInv'
<1>a. /\ Inv /\ TypeOK /\ PublicationSound /\ StoreInv /\ AllWellFormed /\ PendingInv /\ TxnInv
  BY DEF BindInv, Inv, StoreInv
<1>r. ASSUME UNCHANGED bindings, NEW j \in Stored', First(j)', j \in Stored, First(j),
             jobs'[j].owner = jobs[j].owner, NEW c \in Holders(j)'
      PROVE  Holders(j)' = {c} /\ Slot(jobs[j].owner, c)'.anchor = j
  <2>1. Holders(j)' = Holders(j) /\ Slot(jobs[j].owner, c)' = Slot(jobs'[j].owner, c)
    BY <1>r DEF Holders, Holds, Slot
  <2>2. Holders(j) = {c} /\ Slot(jobs[j].owner, c).anchor = j
    BY <1>r, <2>1 DEF FirstInv
  <2> QED BY <1>r, <2>1, <2>2 DEF Slot
<1>1. CASE WriteJob /\ txn.route \in Reserving
  <2>1. /\ jobs' = [jobs EXCEPT ![txn.id] = txn.job] /\ txn.step = "job" /\ txn.id \in JobIds
        /\ UNCHANGED bindings
    BY <1>a, <1>1, PublicationFields DEF WriteJob, Reserving
  <2> SUFFICES ASSUME NEW j \in Stored', First(j)', NEW c \in Holders(j)'
               PROVE  Holders(j)' = {c} /\ Slot(jobs[j].owner, c)'.anchor = j
    BY DEF FirstInv
  <2>2. CASE j # txn.id
    <3>1. j \in Stored /\ jobs'[j] = jobs[j]
      BY <1>a, <2>1, <2>2 DEF TypeOK, Stored
    <3> QED BY <1>r, <2>1, <3>1 DEF First
  <2>3. CASE j = txn.id
    <3>1. jobs'[j] = txn.job /\ jobs'[j].owner = txn.owner /\ txn.owner \in Sessions
      BY <1>a, <1>1, <2>1, <2>3, PublicationFields DEF TypeOK, PendingInv, Reserving
    <3>2. c \in Children /\ Names(Slot(txn.owner, c), j)
      BY <2>1, <3>1 DEF Holders, Holds, Names, Slot
    <3>3. CASE txn.route = "generic"
      BY <1>a, <2>1, <2>3, <3>1, <3>2, <3>3 DEF TxnInv, GenericInv, Visible, Unnamed
    <3>4. CASE txn.route = "continuation"
      <4>1. txn.id \in JobIds /\ Unnamed(txn.id)
        BY <1>a, <2>1, <3>4 DEF TxnInv, ContinuationInv
      <4> QED BY <2>3, <3>1, <3>2, <4>1 DEF Unnamed
    <3>5. CASE txn.route = "fresh"
      <4>1. /\ Slot(txn.owner, txn.child) = txn.binding /\ txn.binding.anchor = j
            /\ \A s \in Sessions, d \in Children :
                  Names(Slot(s, d), j) => s = txn.owner /\ d = txn.child
        BY <1>a, <2>1, <2>3, <3>5 DEF TxnInv, FreshInv
      <4>2. \A d \in Holders(j)' : d \in Children /\ Names(Slot(txn.owner, d), j)
        BY <2>1, <3>1 DEF Holders, Holds, Names, Slot
      <4>3. \A d \in Holders(j)' : d = txn.child
        BY <3>1, <4>1, <4>2
      <4>4. Slot(jobs[j].owner, c)' = txn.binding
        BY <2>1, <3>1, <4>1, <4>3 DEF Slot
      <4> QED BY <4>1, <4>3, <4>4
    <3> QED BY <1>1, <3>3, <3>4, <3>5 DEF Reserving
  <2> QED BY <2>2, <2>3
<1>2. ASSUME NEW i \in Stored, NEW new \in Job, Allowed(i, new),
             jobs' = [jobs EXCEPT ![i] = new], UNCHANGED bindings
      PROVE  FirstInv'
  <2> SUFFICES ASSUME NEW j \in Stored', First(j)', NEW c \in Holders(j)'
               PROVE  Holders(j)' = {c} /\ Slot(jobs[j].owner, c)'.anchor = j
    BY DEF FirstInv
  <2>1. j \in Stored /\ jobs'[i] = new /\ (j # i => jobs'[j] = jobs[j])
    BY <1>a, <1>2 DEF TypeOK, Stored
  <2>2. First(j) /\ jobs'[j].owner = jobs[j].owner
    BY <1>2, <2>1 DEF First, Allowed
  <2> QED BY <1>2, <1>r, <2>1, <2>2
<1>3. CASE UNCHANGED jobs
  <2>s. Stored' = Stored /\ \A j : First(j)' <=> First(j)
    BY <1>3 DEF Stored, First
  <2>1. CASE UNCHANGED bindings
    <3> SUFFICES ASSUME NEW j \in Stored', First(j)', NEW c \in Holders(j)'
                 PROVE  Holders(j)' = {c} /\ Slot(jobs[j].owner, c)'.anchor = j
      BY DEF FirstInv
    <3> QED BY <1>3, <1>r, <2>1, <2>s
  <2>2. CASE CollectClosedBindings
    <3>1. \A s \in Sessions, c \in Children : Slot(s, c)' \in {Slot(s, c), None}
      BY <1>a, <2>2 DEF CollectClosedBindings, TypeOK, Slot
    <3> SUFFICES ASSUME NEW j \in Stored, First(j), NEW c \in Holders(j)'
                 PROVE  Holders(j)' = {c} /\ Slot(jobs[j].owner, c)'.anchor = j
      BY <2>s DEF FirstInv
    <3>2. jobs[j].owner \in Sessions /\ jobs'[j].owner = jobs[j].owner
      BY <1>a, <1>3, StoredIsJob DEF Job
    <3>3. \A d \in Holders(j)' : d \in Holders(j) /\ Slot(jobs[j].owner, d)' = Slot(jobs[j].owner, d)
      BY <1>3, <3>1, <3>2 DEF Holders, Holds
    <3> QED BY <3>3 DEF FirstInv
  <2>3. CASE WriteBinding
    <3>1. /\ txn.owner \in Sessions /\ txn.child \in Children /\ txn.binding \in Binding
          /\ txn.step = "binding"
      BY <1>a, <2>3, WriteBindingFits DEF WriteBinding
    <3>2. PICK s \in Sessions, c \in Children, n \in Binding :
             s = txn.owner /\ c = txn.child /\ n = txn.binding
      BY <3>1
    <3>3. bindings' = [bindings EXCEPT ![s][c] = n]
      BY <2>3, <3>2 DEF WriteBinding
    <3>4. ASSUME NEW j \in Stored, First(j), n # None, n.current = j
          PROVE  Slot(s, c) # None /\ Slot(s, c).current = j /\ Slot(s, c).anchor = n.anchor
      <4>1. CASE txn.route = "fresh"
        BY <1>a, <3>1, <3>2, <3>4, <4>1 DEF TxnInv, FreshInv, PublicationSound
      <4>2. CASE txn.route = "continuation"
        <5>1. PICK prior \in Binding : prior = Slot(s, c)
          BY <1>a, <3>2, <4>2, SlotIsBinding DEF TxnInv, ContinuationInv
        <5>2. /\ n = AdvancedTo(prior, txn.id, n.updatedAt)
              /\ txn.job.origin = [child |-> c, prior |-> prior] /\ jobs[txn.id] = txn.job
          BY <1>a, <3>1, <3>2, <4>2, <5>1 DEF TxnInv, ContinuationInv, ReservationInv, Visible, Reserving
        <5>3. n.current = txn.id
          BY <5>1, <5>2 DEF AdvancedTo, Binding
        <5>4. [child |-> c, prior |-> prior] # None
          BY AbsenceAssumption DEF Origin
        <5> QED BY <3>4, <5>2, <5>3, <5>4 DEF First
      <4>3. CASE txn.route = "rollback"
        <5>1. /\ txn.id \in Stored /\ jobs[txn.id].origin # None
              /\ jobs[txn.id].origin.prior \in Binding
          BY <1>a, <4>3, SettledIsActive
        <5>2. PICK prior \in Binding : prior = jobs[txn.id].origin.prior
          BY <5>1
        <5>3. Restored(n, prior)
          BY <1>a, <3>2, <4>3, <5>2 DEF TxnInv, RollbackInv
        <5>4. n.current = prior.current
          BY <5>2, <5>3 DEF Restored, Binding
        <5>5. Past(prior.current)
          BY <1>a, <5>1, <5>2 DEF StoreInv, OriginInv, PriorSound
        <5> QED BY <3>4, <5>4, <5>5 DEF Past, First, Terminal
      <4>4. CASE txn.route = "cancel"
        <5>1. PICK b \in Binding : b = Slot(s, c)
          BY <1>a, <3>1, <3>2, <4>4, SlotIsBinding DEF TxnInv, CancelInv
        <5>2. n = [ClosedAs(b, "cancel") EXCEPT !.updatedAt = n.updatedAt]
          BY <1>a, <3>1, <3>2, <4>4, <5>1 DEF TxnInv, CancelInv
        <5>3. n.current = b.current /\ n.anchor = b.anchor
          BY <5>1, <5>2 DEF ClosedAs, Binding
        <5> QED BY <3>4, <5>1, <5>3, BindingNames
      <4> QED BY <1>a, <3>1, <4>1, <4>2, <4>3, <4>4 DEF PublicationSound, TypeOK, Txn, Routes
    <3>5. \A j \in Stored : First(j) /\ n # None /\ n.current = j =>
             Slot(s, c) # None /\ Slot(s, c).current = j /\ Slot(s, c).anchor = n.anchor
      BY <3>4
    <3> QED BY <1>a, <1>3, <3>3, <3>5, SlotKeepsFirst
  <2>4. ASSUME NEW s \in Sessions, NEW c \in Children, RepairRescueContinuationBinding(s, c)
        PROVE  FirstInv'
    <3>1. PICK b \in Binding : b = Slot(s, c)
      BY <1>a, <2>4, SlotIsBinding DEF RepairRescueContinuationBinding
    <3> DEFINE n == [b EXCEPT !.current = b.anchor, !.updatedAt = b.updatedAt + 1]
    <3>2. /\ bindings' = [bindings EXCEPT ![s][c] = n]
          /\ jobs[b.anchor].status \in {"succeeded", "failed"}
      BY <2>4, <3>1 DEF RepairRescueContinuationBinding, ReplaceSlot
    <3>3. n.current = b.anchor
      BY DEF Binding
    <3> HIDE DEF n
    <3>4. \A j \in Stored : First(j) /\ n # None /\ n.current = j =>
             Slot(s, c) # None /\ Slot(s, c).current = j /\ Slot(s, c).anchor = n.anchor
      BY <3>2, <3>3 DEF First
    <3> QED BY <1>a, <1>3, <3>2, <3>4, SlotKeepsFirst
  <2>5. ASSUME NEW s \in Sessions, NEW c \in Children, NEW reason \in CloseReasons,
               CloseRescueBindingForChild(s, c, reason)
        PROVE  FirstInv'
    <3>1. PICK b \in Binding : b = Slot(s, c)
      BY <1>a, <2>5, SlotIsBinding DEF CloseRescueBindingForChild
    <3> DEFINE n == [ClosedAs(b, reason) EXCEPT !.updatedAt = clock]
    <3>2. bindings' = [bindings EXCEPT ![s][c] = n]
      BY <2>5, <3>1 DEF CloseRescueBindingForChild, ReplaceSlot
    <3>3. n.current = b.current /\ n.anchor = b.anchor
      BY DEF ClosedAs, Binding
    <3> HIDE DEF n
    <3>4. \A j \in Stored : First(j) /\ n # None /\ n.current = j =>
             Slot(s, c) # None /\ Slot(s, c).current = j /\ Slot(s, c).anchor = n.anchor
      BY <3>1, <3>3, BindingNames
    <3> QED BY <1>a, <1>3, <3>2, <3>4, SlotKeepsFirst
  <2> QED BY <2>1, <2>2, <2>3, <2>4, <2>5, BindingCases
<1>4. WriteJob => UNCHANGED bindings
  BY DEF WriteJob
<1> QED BY <1>1, <1>2, <1>3, RecordCases

LEMMA SameBinding ==
    ASSUME NEW a \in Binding, NEW b \in Binding,
           a.state = b.state, a.anchor = b.anchor, a.current = b.current,
           a.updatedAt = b.updatedAt, a.reason = b.reason
    PROVE  a = b
BY DEF Binding

\* What a continuation and a closing make of a binding, field by field.
LEMMA AdvancedIs ==
    ASSUME NEW prior \in Binding, NEW j \in JobIds, NEW time \in Nat
    PROVE  LET n == AdvancedTo(prior, j, time)
           IN /\ n \in Binding /\ n.state = prior.state /\ n.anchor = prior.anchor
              /\ n.current = j /\ n.updatedAt = time /\ n.reason = prior.reason
BY DEF AdvancedTo, Binding

LEMMA ClosedIs ==
    ASSUME NEW b \in Binding, NEW reason \in CloseReasons \cup {"cancel"}
    PROVE  LET n == ClosedAs(b, reason)
           IN /\ n \in Binding /\ n.state = "closed" /\ n.anchor = b.anchor
              /\ n.current = b.current /\ n.updatedAt = b.updatedAt /\ n.reason = reason
BY DEF ClosedAs, Binding

LEMMA RetimedIs ==
    ASSUME NEW b \in Binding, NEW time \in Nat
    PROVE  LET n == [b EXCEPT !.updatedAt = time]
           IN /\ n \in Binding /\ n.state = b.state /\ n.anchor = b.anchor
              /\ n.current = b.current /\ n.updatedAt = time /\ n.reason = b.reason
BY DEF Binding

\* Closing leaves a continuation attached.
LEMMA AttachedClosed ==
    ASSUME NEW b \in Binding, NEW prior \in Binding, NEW j \in JobIds, Attached(b, prior, j),
           NEW reason \in CloseReasons \cup {"cancel"}, NEW time \in Nat
    PROVE  Attached([ClosedAs(b, reason) EXCEPT !.updatedAt = time], prior, j)
<1> DEFINE n == [ClosedAs(b, reason) EXCEPT !.updatedAt = time]
           m == ClosedAs(AdvancedTo(prior, j, time), reason)
<1>1. b.anchor = prior.anchor /\ b.current = j
  <2>1. b.updatedAt \in Nat
    BY BindingNames
  <2>2. PICK a \in Binding : /\ a = AdvancedTo(prior, j, b.updatedAt)
                             /\ a.anchor = prior.anchor /\ a.current = j
    BY <2>1, AdvancedIs
  <2>3. ClosedAs(a, b.reason).anchor = a.anchor /\ ClosedAs(a, b.reason).current = a.current
    BY DEF ClosedAs, Binding
  <2> QED BY <2>2, <2>3 DEF Attached
<1>2. /\ n \in Binding /\ n.state = "closed" /\ n.anchor = b.anchor /\ n.current = b.current
      /\ n.updatedAt = time /\ n.reason = reason
  BY ClosedIs, RetimedIs
<1>3. /\ m \in Binding /\ m.state = "closed" /\ m.anchor = prior.anchor /\ m.current = j
      /\ m.updatedAt = time /\ m.reason = reason
  BY AdvancedIs, ClosedIs
<1> HIDE DEF n, m
<1>4. n = m
  BY <1>1, <1>2, <1>3, SameBinding
<1>5. n = ClosedAs(AdvancedTo(prior, j, n.updatedAt), n.reason)
  BY <1>2, <1>4 DEF m
<1> QED BY <1>2, <1>5 DEF Attached, n

\* A continuation's own publication and its own rollback go on until they are done.
LEMMA PublicationGoesOn ==
    ASSUME Orderly, BindInv, [Next]_vars, UNCHANGED jobs, ~ WriteBinding,
           NEW j \in Stored, jobs[j].origin # None, txn.id = j,
           txn.route = "continuation" \/ (txn.route = "rollback" /\ txn.step = "job")
    PROVE  /\ txn'.route = txn.route /\ txn'.id = txn.id
           /\ txn.route = "rollback" => txn'.step = txn.step
<1>a. /\ Inv /\ TypeOK /\ PublicationSound /\ txn \in Txn
  BY DEF BindInv, Inv, TypeOK
<1>1. CASE txn.route = "continuation"
  <2>1. txn.step \in {"marker", "binding"}
    BY <1>a, <1>1 DEF PublicationSound
  <2>2. Publication => PublishMarker
    BY <2>1 DEF Publication, RewriteOwnerTuples, UnlinkStrayTuples, PublishRepairedMarker,
                WriteAuthority, CollectClosedBindings, WriteOwnerTuple, WriteJob, Crash, Orderly
  <2>3. PublishMarker => txn'.route = txn.route /\ txn'.id = txn.id
    BY <1>1, <1>a DEF PublishMarker, MoveTo, AfterMarker, Txn
  <2>4. ~ Publication => UNCHANGED txn
    BY <2>1, OtherActors DEF Unlocked
  <2> QED BY <1>1, <2>2, <2>3, <2>4
<1>2. CASE txn.route = "rollback" /\ txn.step = "job"
  <2>1. ~ WriteJob
    <3>1. txn.job = Moved(j, "failed") /\ txn.job.origin = None
      BY <1>a, <1>2, MovedKeeps DEF PublicationSound, Statuses
    <3>2. WriteJob => jobs'[j] = txn.job
      BY <1>a DEF WriteJob, TypeOK, Stored
    <3> QED BY <3>1, <3>2
  <2>2. ~ Publication
    BY <1>2, <2>1 DEF Publication, RewriteOwnerTuples, UnlinkStrayTuples, PublishRepairedMarker,
                      WriteAuthority, CollectClosedBindings, WriteOwnerTuple, PublishMarker,
                      WriteBinding, Crash, Orderly
  <2> QED BY <1>2, <2>2, OtherActors DEF Unlocked
<1> QED BY <1>1, <1>2

\* A binding written under the lock leaves every queued continuation where it stands.
LEMMA WriteBindingKeepsStanding ==
    ASSUME BindInv, StandingInv, WriteBinding, NEW j \in Stored, jobs[j].origin # None
    PROVE  Standing(j)'
<1>a. /\ Inv /\ TypeOK /\ WritableExclusion /\ PublicationSound /\ StoreInv /\ AllWellFormed
      /\ OriginInv /\ PendingInv /\ TxnInv /\ txn.step = "binding" /\ txn \in Txn
      /\ UNCHANGED jobs
  BY DEF BindInv, Inv, StoreInv, WriteBinding, TypeOK
<1>j. /\ ActiveWritable(j) /\ j \in JobIds /\ jobs[j].origin.prior \in Binding
      /\ jobs[j].owner \in Sessions /\ jobs[j].origin.child \in Children
  BY <1>a, ProofIsActive, OriginIsOrigin DEF Stored
<1>n. txn.owner \in Sessions /\ txn.child \in Children /\ txn.binding \in Binding
  BY <1>a, WriteBindingFits
<1>0. PICK s \in Sessions, c \in Children, n \in Binding :
         s = txn.owner /\ c = txn.child /\ n = txn.binding
  BY <1>n
<1>1. Slot(s, c)' = n
  BY <1>a, <1>0, SlotsAfter DEF WriteBinding
<1>2. txn.route \in {"continuation", "rollback", "cancel"}
  <2>1. txn.route # "fresh"
    BY <1>a, <1>j DEF PublicationSound, TxnInv, FreshInv
  <2> QED BY <1>a, <2>1 DEF PublicationSound, Txn, Routes
<1>3. CASE txn.route = "continuation"
  <2>1. PICK prior \in Binding : prior = Slot(s, c)
    BY <1>a, <1>0, <1>3, SlotIsBinding DEF TxnInv, ContinuationInv
  <2>2. /\ txn.id \in Stored /\ jobs[txn.id] = txn.job /\ txn.job.owner = s
        /\ txn.job.origin = [child |-> c, prior |-> prior]
        /\ n = AdvancedTo(prior, txn.id, n.updatedAt)
    BY <1>a, <1>0, <1>3, <2>1
       DEF TxnInv, ContinuationInv, ReservationInv, PendingInv, Visible, Reserving
  <2>3. [child |-> c, prior |-> prior] # None
    BY AbsenceAssumption DEF Origin
  <2>4. txn.id = j
    BY <1>a, <1>j, <2>2, <2>3, ProofIsActive DEF WritableExclusion
  <2>5. /\ jobs'[j].owner = s /\ jobs'[j].origin.child = c /\ jobs'[j].origin.prior = prior
    BY <1>a, <2>2, <2>4
  <2> QED BY <1>1, <2>2, <2>4, <2>5 DEF Standing, Attached
<1>4. CASE txn.route = "rollback"
  <2>1. txn.id = j
    BY <1>a, <1>j, <1>4, SettledIsActive DEF WritableExclusion
  <2>2. /\ s = jobs[j].owner /\ c = jobs[j].origin.child /\ Restored(n, jobs[j].origin.prior)
    BY <1>a, <1>0, <1>4, <2>1 DEF TxnInv, RollbackInv
  <2>3. txn'.route = "rollback" /\ txn'.id = j /\ txn'.step = "job"
    BY <1>a, <1>4, <2>1 DEF WriteBinding, MoveTo, AfterBinding, Txn
  <2>4. jobs'[j] = jobs[j]
    BY <1>a
  <2>5. Restored(Slot(s, c), jobs[j].origin.prior)'
    BY <1>1, <2>2, <2>4 DEF Restored
  <2> QED BY <2>2, <2>3, <2>4, <2>5 DEF Standing
<1>5. CASE txn.route = "cancel"
  <2>1. PICK b \in Binding : b = Slot(s, c)
    BY <1>a, <1>0, <1>5, SlotIsBinding DEF TxnInv, CancelInv
  <2>2. /\ txn.id \in Stored /\ s = jobs[txn.id].owner /\ Holders(txn.id) = {c}
        /\ n = [ClosedAs(b, "cancel") EXCEPT !.updatedAt = n.updatedAt]
        /\ jobs[txn.id].status \in {"queued", "cancelling"}
    BY <1>a, <1>0, <1>5, <2>1 DEF TxnInv, CancelInv, PublicationSound
  <2>3. ActiveWritable(txn.id)
    BY <1>a, <2>2, HeldIsBound DEF ActiveWritable, Writable, Active
  <2>4. txn.id = j
    BY <1>a, <1>j, <2>2, <2>3 DEF WritableExclusion
  <2>5. PICK prior \in Binding : prior = jobs[j].origin.prior
    BY <1>j
  <2>6. c = jobs[j].origin.child
    BY <1>a, <2>2, <2>4 DEF OriginInv
  <2>7. Attached(b, prior, j)
    BY <1>5, <2>1, <2>2, <2>4, <2>5, <2>6 DEF StandingInv, Standing
  <2>8. n.updatedAt \in Nat
    BY BindingNames
  <2>9. Attached(n, prior, j)
    BY <1>j, <2>2, <2>7, <2>8, AttachedClosed
  <2>10. jobs'[j].owner = s /\ jobs'[j].origin.child = c /\ jobs'[j].origin.prior = prior
    BY <1>a, <2>2, <2>4, <2>5, <2>6
  <2> QED BY <1>1, <2>9, <2>10 DEF Standing, Attached
<1> QED BY <1>2, <1>3, <1>4, <1>5

\* A binding closed while the lock is free leaves every queued continuation attached.
LEMMA CloseKeepsStanding ==
    ASSUME BindInv, StandingInv, NEW s \in Sessions, NEW c \in Children,
           NEW reason \in CloseReasons, CloseRescueBindingForChild(s, c, reason),
           NEW j \in Stored, jobs[j].origin # None
    PROVE  Standing(j)'
<1>a. /\ Inv /\ TypeOK /\ PublicationSound /\ clock \in Nat /\ UNCHANGED jobs
  BY DEF BindInv, Inv, TypeOK, CloseRescueBindingForChild, ReplaceSlot
<1>j. /\ j \in JobIds /\ jobs[j].origin.prior \in Binding
      /\ jobs[j].owner \in Sessions /\ jobs[j].origin.child \in Children
  BY <1>a, OriginIsOrigin DEF Stored
<1>1. PICK t \in Sessions, d \in Children, prior \in Binding :
         t = jobs[j].owner /\ d = jobs[j].origin.child /\ prior = jobs[j].origin.prior
  BY <1>j
<1>2. txn.route = "none"
  BY <1>a, IdleIsUnrouted DEF CloseRescueBindingForChild
<1>3. Attached(Slot(t, d), prior, j)
  BY <1>1, <1>2 DEF StandingInv, Standing
<1>4. PICK b \in Binding : b = Slot(s, c)
  BY <1>a, SlotIsBinding DEF CloseRescueBindingForChild
<1> DEFINE n == [ClosedAs(b, reason) EXCEPT !.updatedAt = clock]
<1>5. bindings' = [bindings EXCEPT ![s][c] = n]
  BY <1>4 DEF CloseRescueBindingForChild, ReplaceSlot
<1>6. t = s /\ d = c => Attached(n, prior, j)
  BY <1>a, <1>j, <1>3, <1>4, AttachedClosed
<1> HIDE DEF n
<1>7. Slot(s, c)' = n /\ (t # s \/ d # c => Slot(t, d)' = Slot(t, d))
  <2>1. /\ Slot(s, c)' = n
        /\ \A u \in Sessions, e \in Children : u # s \/ e # c => Slot(u, e)' = Slot(u, e)
    BY <1>a, <1>5, SlotsAfter
  <2> QED BY <2>1
<1>8. PICK after : after = Slot(t, d)' /\ Attached(after, prior, j)
  BY <1>3, <1>6, <1>7
<1>9. jobs'[j].owner = t /\ jobs'[j].origin.child = d /\ jobs'[j].origin.prior = prior
  BY <1>a, <1>1
<1> QED BY <1>8, <1>9 DEF Standing, Attached

\* The same job under the same binding, in a publication that goes on or is over.
LEMMA StandingFrame ==
    ASSUME NEW j, Standing(j), UNCHANGED bindings,
           jobs'[j].owner = jobs[j].owner, jobs'[j].origin = jobs[j].origin,
           txn.id = j /\ (txn.route = "continuation" \/ (txn.route = "rollback" /\ txn.step = "job"))
             => /\ txn'.route = txn.route /\ txn'.id = txn.id
                /\ txn.route = "rollback" => txn'.step = txn.step
    PROVE  Standing(j)'
<1>1. PICK origin, s, b : origin = jobs[j].origin /\ s = jobs[j].owner /\ b = Slot(s, origin.child)
  OBVIOUS
<1>2. jobs'[j].origin = origin /\ jobs'[j].owner = s /\ Slot(s, origin.child)' = b
  BY <1>1 DEF Slot
<1>3. CASE Attached(b, origin.prior, j)
  BY <1>2, <1>3 DEF Standing, Attached
<1>4. CASE b = origin.prior /\ txn.route = "continuation" /\ txn.id = j
  BY <1>2, <1>4 DEF Standing
<1>5. CASE /\ Restored(b, origin.prior) /\ txn.route = "rollback" /\ txn.id = j
           /\ txn.step = "job"
  BY <1>2, <1>5 DEF Standing, Restored
<1> QED BY <1>1, <1>3, <1>4, <1>5 DEF Standing

LEMMA NextKeepsStanding ==
    ASSUME Orderly, BindInv, StandingInv, [Next]_vars
    PROVE  StandingInv'
<1>a. /\ Inv /\ TypeOK /\ WritableExclusion /\ PublicationSound /\ StoreInv /\ AllWellFormed
      /\ PendingInv /\ TxnInv /\ txn \in Txn
  BY DEF BindInv, Inv, StoreInv, TypeOK
<1> SUFFICES ASSUME NEW j \in Stored', jobs'[j].origin # None
             PROVE  Standing(j)'
  BY DEF StandingInv
<1>1. CASE WriteJob /\ txn.route \in Reserving
  <2>1. /\ jobs' = [jobs EXCEPT ![txn.id] = txn.job] /\ txn.step = "job" /\ txn.id \in JobIds
        /\ UNCHANGED bindings /\ txn.id \notin Stored
    BY <1>a, <1>1, PublicationFields DEF WriteJob, Reserving, PublicationSound
  <2>2. CASE j # txn.id
    <3>1. j \in Stored /\ jobs'[j] = jobs[j]
      BY <1>a, <2>1, <2>2 DEF TypeOK, Stored
    <3> QED BY <2>1, <2>2, <3>1, StandingFrame DEF StandingInv
  <2>3. CASE j = txn.id
    <3>1. jobs'[j] = txn.job
      BY <1>a, <2>1, <2>3 DEF TypeOK
    <3>2. txn.route = "continuation"
      BY <1>a, <1>1, <3>1 DEF TxnInv, GenericInv, FreshInv, Reserving
    <3>3. PICK s, c, prior : s = txn.owner /\ c = txn.child /\ prior = Slot(s, c)
      OBVIOUS
    <3>4. txn.job.origin = [child |-> c, prior |-> prior] /\ txn.job.owner = s
      BY <1>a, <1>1, <3>2, <3>3 DEF TxnInv, ContinuationInv, PendingInv
    <3>5. Slot(s, c)' = prior
      BY <2>1, <3>3 DEF Slot
    <3>6. txn'.route = "continuation" /\ txn'.id = j
      BY <1>a, <1>1, <2>3, <3>2 DEF WriteJob, MoveTo, Txn
    <3> QED BY <3>1, <3>4, <3>5, <3>6 DEF Standing
  <2> QED BY <2>2, <2>3
<1>2. ASSUME NEW i \in Stored, NEW new \in Job, Allowed(i, new),
             jobs' = [jobs EXCEPT ![i] = new], UNCHANGED bindings,
             \/ Unlocked /\ UNCHANGED txn
             \/ WriteJob /\ txn.id = i /\ txn' = Idle
      PROVE  Standing(j)'
  <2>1. j \in Stored /\ jobs'[i] = new /\ (j # i => jobs'[j] = jobs[j])
    BY <1>a, <1>2 DEF TypeOK, Stored
  <2>2. jobs'[j].owner = jobs[j].owner /\ jobs'[j].origin = jobs[j].origin
    BY <1>2, <2>1 DEF Allowed
  <2>3. CASE Unlocked /\ UNCHANGED txn
    BY <1>2, <2>1, <2>2, <2>3, StandingFrame DEF StandingInv
  <2>4. CASE WriteJob /\ txn.id = i /\ txn' = Idle
    <3>1. txn.step = "job" /\ jobs'[i] = txn.job
      BY <1>a, <2>1, <2>4 DEF WriteJob, TypeOK, Stored
    <3>2. txn.route \in {"rollback", "cancel"}
      BY <1>a, <1>2, <2>4, <3>1 DEF PublicationSound, Txn, Routes
    <3>3. txn.job.origin = None
      <4>1. CASE txn.route = "rollback"
        BY <1>a, <4>1, MovedKeeps DEF PublicationSound, Statuses
      <4>2. CASE txn.route = "cancel"
        <5>1. PICK cause \in Causes :
                 /\ txn.id \in Stored
                 /\ txn.job = [Moved(txn.id, "cancelled") EXCEPT !.stop = StopIntent(txn.id, cause)]
          BY <1>a, <4>2 DEF PublicationSound
        <5>2. /\ Moved(txn.id, "cancelled") \in Job /\ Moved(txn.id, "cancelled").origin = None
              /\ StopIntent(txn.id, cause) \in StopCauses \cup {None}
          BY <1>a, <5>1, MovedIsJob, MovedKeeps, StopIntentIsStop DEF Statuses, Inv
        <5> QED BY <5>1, <5>2, StopKeeps
      <4> QED BY <3>2, <4>1, <4>2
    <3>4. j # txn.id
      BY <2>4, <3>1, <3>3
    <3> QED BY <1>2, <2>1, <2>2, <3>4, StandingFrame DEF StandingInv
  <2> QED BY <1>2, <2>3, <2>4
<1>3. CASE UNCHANGED jobs
  <2>1. j \in Stored /\ jobs[j].origin # None /\ jobs'[j] = jobs[j]
    BY <1>3 DEF Stored
  <2>2. ActiveWritable(j)
    BY <1>a, <2>1, ProofIsActive
  <2>3. CASE WriteBinding
    BY <2>1, <2>3, WriteBindingKeepsStanding
  <2>4. CASE ~ WriteBinding /\ UNCHANGED bindings
    BY <1>3, <2>1, <2>4, PublicationGoesOn, StandingFrame DEF StandingInv
  <2>5. ~ CollectClosedBindings
    BY <1>a, <2>1, <2>2 DEF CollectClosedBindings, PublicationSound, TxnInv, FreshInv, Txn, Routes
  <2>6. ASSUME NEW s \in Sessions, NEW c \in Children
        PROVE  ~ RepairRescueContinuationBinding(s, c)
    BY <2>1, <2>2 DEF RepairRescueContinuationBinding
  <2>7. ASSUME NEW s \in Sessions, NEW c \in Children, NEW reason \in CloseReasons,
               CloseRescueBindingForChild(s, c, reason)
        PROVE  Standing(j)'
    BY <2>1, <2>7, CloseKeepsStanding
  <2> QED BY <2>3, <2>4, <2>5, <2>6, <2>7, BindingCases
<1> QED BY <1>1, <1>2, <1>3, RecordCases

\* What the classification says of a job held nowhere or in one slot.
LEMMA ClassifiedUnheld ==
    ASSUME NEW j \in Stored, Writable(j), j \in tuples, PartitionReadable(jobs[j].owner),
           Holders(j) = {},
           \/ jobs[j].origin = None /\ jobs[j].class = "unbound"
           \/ /\ jobs[j].origin # None
              /\ Slot(jobs[j].owner, jobs[j].origin.child) = jobs[j].origin.prior
              /\ ValidAnchor(jobs[j].origin.prior.anchor)
    PROVE  Classify(j) # "invalid"
<1>1. Cardinality(Holders(j)) = 0
  BY FS_EmptySet
<1> QED BY <1>1 DEF Classify

LEMMA ClassifiedHeld ==
    ASSUME NEW j \in Stored, Writable(j), j \in tuples, PartitionReadable(jobs[j].owner),
           jobs[j].class = "bound", NEW c, Holders(j) = {c}, NEW b, b = Slot(jobs[j].owner, c),
           NEW expected,
           \/ /\ jobs[j].origin = None /\ b.anchor = j
              /\ expected = [b EXCEPT !.state = "active", !.reason = None]
           \/ /\ jobs[j].origin # None
              /\ expected = AdvancedTo(jobs[j].origin.prior, j, b.updatedAt),
           \/ b = expected
           \/ b.state = "closed" /\ b = ClosedAs(expected, b.reason)
    PROVE  Classify(j) # "invalid"
<1>1. Cardinality(Holders(j)) = 1
  BY FS_Singleton
<1>2. (CHOOSE d \in Holders(j) : TRUE) = c
  OBVIOUS
<1>3. Holders(j) # {}
  OBVIOUS
<1>4. CASE jobs[j].origin = None
  <2> DEFINE Verdict(d) ==
         LET opened == [d EXCEPT !.state = "active", !.reason = None]
         IN IF d.anchor # j THEN "invalid"
            ELSE IF d = opened THEN "current"
            ELSE IF d.state = "closed" /\ d = ClosedAs(opened, d.reason) THEN "revoked"
            ELSE "invalid"
  <2>1. Classify(j) = Verdict(Slot(jobs[j].owner, CHOOSE d \in Holders(j) : TRUE))
    BY <1>1, <1>3, <1>4 DEF Classify
  <2>2. Verdict(Slot(jobs[j].owner, CHOOSE d \in Holders(j) : TRUE)) = Verdict(b)
    <3> HIDE DEF Verdict
    <3> QED BY <1>2
  <2>3. Verdict(b) # "invalid"
    BY <1>4
  <2> QED BY <2>1, <2>2, <2>3
<1>5. CASE jobs[j].origin # None
  BY <1>1, <1>2, <1>3, <1>5 DEF Classify
<1> QED BY <1>4, <1>5

SettleInv == BindInv /\ IndexInv /\ ClockInv /\ FilesInv /\ FirstInv /\ StandingInv

LEMMA QueuedIsSettleable ==
    ASSUME SettleInv, NEW j \in Stored, jobs[j].status = "queued"
    PROVE  Classify(j) # "invalid" \/ MayRollBack(j)
<1>a. /\ Inv /\ TypeOK /\ PublicationSound /\ StoreInv /\ AllWellFormed /\ SlotInv /\ OriginInv
      /\ HeldInv /\ TxnInv /\ FilesInv /\ FirstInv /\ StandingInv
  BY DEF SettleInv, BindInv, Inv, StoreInv
<1>j. jobs[j] \in Job /\ jobs[j].owner \in Sessions /\ j \in JobIds
  BY <1>a, StoredIsJob DEF Job, Stored
<1>1. CASE ~ Writable(j)
  BY <1>1 DEF Classify
<1> SUFFICES ASSUME Writable(j)
             PROVE  Classify(j) # "invalid" \/ MayRollBack(j)
  BY <1>1
<1>2. ActiveWritable(j)
  BY DEF ActiveWritable, Active
<1>3. j \in tuples /\ PartitionReadable(jobs[j].owner)
  <2>1. txn.route = "fresh" => txn.step \notin {"gc", "binding"}
    BY <1>a, <1>2 DEF PublicationSound, TxnInv, FreshInv
  <2> QED BY <1>a, <1>j, <2>1 DEF FilesInv
<1>4. CASE jobs[j].origin = None /\ jobs[j].class # "bound"
  <2>1. Holders(j) = {} /\ jobs[j].class = "unbound"
    BY <1>a, <1>j, <1>4, HeldIsBound DEF Writable, Job, Classes
  <2> QED BY <1>3, <1>4, <2>1, ClassifiedUnheld
<1>5. CASE jobs[j].origin = None /\ jobs[j].class = "bound"
  <2>1. Holders(j) # {}
    BY <1>a, <1>j, <1>5 DEF HeldInv, NeedsHolder
  <2>2. PICK c \in Children : /\ Holders(j) = {c} /\ Holds(jobs[j].owner, c, j)
                              /\ Slot(jobs[j].owner, c).anchor = j
    BY <1>a, <1>5, <2>1 DEF FirstInv, First, Holders
  <2>3. PICK b \in Binding : b = Slot(jobs[j].owner, c)
    BY <1>a, <1>j, <2>2, SlotIsBinding DEF Holds
  <2> DEFINE expected == [b EXCEPT !.state = "active", !.reason = None]
  <2>4. CASE b.state = "active"
    <3>1. b.reason = None
      BY <1>a, <1>j, <2>2, <2>3, <2>4, BindingNames DEF SlotInv, Grounded
    <3>2. b = expected
      BY <2>4, <3>1 DEF Binding
    <3> QED BY <1>3, <1>5, <2>2, <2>3, <3>2, ClassifiedHeld
  <2>5. CASE b.state = "closed"
    <3>1. b = ClosedAs(expected, b.reason)
      BY <2>5 DEF ClosedAs, Binding
    <3> QED BY <1>3, <1>5, <2>2, <2>3, <2>5, <3>1, ClassifiedHeld
  <2> QED BY <2>4, <2>5 DEF Binding
<1>6. CASE jobs[j].origin # None
  <2>1. /\ jobs[j].class = "bound" /\ jobs[j].origin.prior \in Binding
        /\ jobs[j].origin.child \in Children
    BY <1>a, <1>6, ProofIsActive, OriginIsOrigin
  <2>2. PICK s \in Sessions, c \in Children, prior \in Binding :
           s = jobs[j].owner /\ c = jobs[j].origin.child /\ prior = jobs[j].origin.prior
    BY <1>j, <2>1
  <2>3. /\ Slot(s, c) # None /\ Holders(j) \subseteq {c}
        /\ ValidAnchor(prior.anchor) /\ Past(prior.current)
    BY <1>a, <1>6, <2>2 DEF OriginInv, PriorSound
  <2>4. PICK b \in Binding : b = Slot(s, c)
    BY <1>a, <2>3, SlotIsBinding
  <2>5. CASE Attached(b, prior, j)
    <3>1. b.current = j
      <4>1. PICK a \in Binding : a = AdvancedTo(prior, j, b.updatedAt) /\ a.current = j
        BY <1>j, AdvancedIs, BindingNames
      <4>2. ClosedAs(a, b.reason).current = a.current
        BY DEF ClosedAs, Binding
      <4> QED BY <2>5, <4>1, <4>2 DEF Attached
    <3>2. Holders(j) = {c}
      BY <2>2, <2>3, <2>4, <3>1 DEF Holders, Holds
    <3> DEFINE expected == AdvancedTo(prior, j, b.updatedAt)
    <3>3. b = expected \/ (b.state = "closed" /\ b = ClosedAs(expected, b.reason))
      BY <2>5 DEF Attached
    <3>4. expected = AdvancedTo(jobs[j].origin.prior, j, b.updatedAt) /\ b = Slot(jobs[j].owner, c)
      BY <2>2, <2>4
    <3> HIDE DEF expected
    <3> QED BY <1>3, <1>6, <2>1, <3>2, <3>3, <3>4, ClassifiedHeld
  <2>6. CASE b = prior
    <3>1. prior.current # j
      BY <2>3 DEF Past, Terminal
    <3>2. Holders(j) = {}
      BY <2>2, <2>3, <2>4, <2>6, <3>1 DEF Holders, Holds
    <3> QED BY <1>3, <1>6, <2>2, <2>3, <2>4, <2>6, <3>2, ClassifiedUnheld
  <2>7. CASE Restored(b, prior) /\ txn.route = "rollback" /\ txn.id = j
    <3>1. jobs[j].stop = None
      BY <1>a, <2>7 DEF PublicationSound
    <3> QED BY <1>6, <2>2, <2>4, <2>7, <3>1 DEF MayRollBack
  <2> QED BY <1>a, <1>6, <2>2, <2>4, <2>5, <2>6, <2>7 DEF StandingInv, Standing
<1> QED BY <1>4, <1>5, <1>6

\* Without crashes, lost files and a lagging clock no unfinished job is ever beyond every
\* settlement method: the started ones finish, and whatever a queued one has been
\* through, some method fails it, cancels it or rolls it back.
THEOREM Settleability ==
    ASSUME Orderly
    PROVE  Spec => []ActiveIsSettleable
<1>1. Init => SettleInv
  <2> SUFFICES ASSUME Init PROVE SettleInv
    OBVIOUS
  <2>1. BindInv /\ Stored = {} /\ tuples = {} /\ authority = {}
    BY InitBindInv DEF Init, Stored
  <2>2. IndexInv /\ ClockInv
    BY DEF Init, Idle, IndexInv, IndexComplete, ClockInv, Slot, Stored
  <2> QED BY <2>1, <2>2 DEF SettleInv, FilesInv, FirstInv, StandingInv, PartitionReadable
<1>2. SettleInv /\ [Next]_vars => SettleInv'
  <2> SUFFICES ASSUME SettleInv, [Next]_vars PROVE SettleInv'
    OBVIOUS
  <2>1. BindInv /\ Inv /\ IndexInv /\ ClockInv /\ FilesInv /\ FirstInv /\ StandingInv
        /\ ~ ClockMayLag
    BY DEF SettleInv, BindInv, Orderly
  <2>2. BindInv' /\ IndexInv' /\ ClockInv'
    BY <2>1, NextKeepsBindInv, NextKeepsIndex, NextKeepsClock
  <2>3. FilesInv' /\ FirstInv' /\ StandingInv'
    BY <2>1, NextKeepsFiles, NextKeepsFirst, NextKeepsStanding
  <2> QED BY <2>2, <2>3 DEF SettleInv
<1>3. SettleInv => ActiveIsSettleable
  BY QueuedIsSettleable DEF SettleInv, ClockInv, ActiveIsSettleable, Settleable
<1> QED BY <1>1, <1>2, <1>3, PTL DEF Spec
=============================================================================
