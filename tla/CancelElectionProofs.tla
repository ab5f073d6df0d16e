-------------------------- MODULE CancelElectionProofs --------------------------
(***************************************************************************)
(* Proofs about CancelElection, for any finite set of cancel commands and  *)
(* any number of faults.  Three facts carry them: the cancellation lock    *)
(* gives a command the record it read, because the runner leaves a         *)
(* cancelling record and a decided queued one alone; a process tree that   *)
(* is gone stays gone once the record cannot be claimed; and a terminal    *)
(* record never moves again.  That the journal needs no more attempts than *)
(* there are commands is a count of the commands that are past their       *)
(* election.                                                               *)
(***************************************************************************)
EXTENDS CancelElection, FiniteSetTheorems, TLAPS

\* The steps under the cancellation lock, and those past the election.
Holding == {"read", "share", "converge", "elect", "act", "queued", "stop", "clean", "observe",
            "retain", "record"}
Past == {"act", "queued", "stop", "clean", "observe", "retain", "record", "release"}

\* The commands that had their election, or are over.
Elected == {c \in Callers : caller[c].step \in Past \/ caller[c].answer # "none"}

\* A stop is decided before the record says so; before the start there is no turn; a
\* boundary is that of a turn; while the runner sends, the lock is its own.
JobInv ==
    /\ job.status = "cancelling" => job.intent
    /\ job.status = "queued" => turn = "none" /\ runner \in {"none", "claimed", "exiting", "gone"}
    /\ job.boundary \/ runner \in {"sent", "observing"} => turn # "none"
    /\ runner = "sent" => lock = "runner"

\* What the journal says of an attempt.
JournalInv ==
    /\ JournalIsBacked
    /\ journal.status = "finalize-pending" => job.status # "queued"
    /\ journal.status # "none" => journal.id # 0

\* What a command knows of the record, the tree and the journal at each of its steps.
CallerInv(c) ==
    LET p == caller[c] IN
    /\ p.step # "idle" => p.answer = "none"
    /\ p.answer \in Statuses => p.answer \in Ends /\ job.status = p.answer
    /\ p.step \in Holding => lock = c
    /\ p.step \in Past => journal.id # 0
    /\ p.step \notin Past => ~ p.final
    /\ p.step \in {"elect", "act"} /\ p.view = "cancelling" => job.status = "cancelling"
    /\ p.step = "queued" => job.status = "queued" /\ job.intent
    /\ p.step \in {"stop", "clean", "observe", "retain"} => job.status = "cancelling"
    /\ p.step = "observe" => TreeGone
    /\ p.step = "record" => job.status \in Ends
    /\ p.step = "act" /\ p.final => journal.status = "finalize-pending"

CancelInv ==
    /\ TypeOK /\ JobInv /\ JournalInv /\ CancelledIsClean
    /\ \A c \in Callers : CallerInv(c)
    /\ journal.id <= Cardinality(Elected)

-----------------------------------------------------------------------------

LEMMA InitCancel == Init => CancelInv
<1> SUFFICES ASSUME Init PROVE CancelInv
  OBVIOUS
<1>1. Cardinality(Callers) \in Nat
  BY FS_CardinalityType, CancelAssumption
<1>2. TypeOK
  <2>1. IdleCaller \in Caller
    BY DEF IdleCaller, Caller, Steps, Journal, Statuses, Ends, Answers
  <2>2. caller \in [Callers -> Caller]
    BY <2>1 DEF Init
  <2>3. job \in [status: Statuses, intent: BOOLEAN, claim: BOOLEAN, boundary: BOOLEAN]
    BY DEF Init, Statuses
  <2>4. runner \in RunnerSteps /\ turn \in Turns /\ faults \in 0..MaxFaults
    BY CancelAssumption DEF Init, RunnerSteps, Turns
  <2> QED
    BY <2>2, <2>3, <2>4 DEF Init, TypeOK, Journal
<1>3. JobInv /\ CancelledIsClean
  BY DEF Init, JobInv, CancelledIsClean
<1>4. JournalInv /\ journal.id <= Cardinality(Elected)
  <2>1. Elected \in SUBSET Callers
    BY DEF Elected
  <2>2. Cardinality(Elected) \in Nat
    BY <2>1, FS_Subset, FS_CardinalityType, CancelAssumption
  <2> QED
    BY <2>2 DEF Init, JournalInv, JournalIsBacked, NoAttempt
<1>5. \A c \in Callers : CallerInv(c)
  BY DEF Init, CallerInv, IdleCaller, Holding, Past, Statuses, Ends
<1> QED
  BY <1>2, <1>3, <1>4, <1>5 DEF CancelInv

-----------------------------------------------------------------------------
(* The runner, its turn and the ending session.                            *)

\* They leave the commands and the journal alone, a terminal and a cancelling record as it
\* is, and a decided queued one queued and decided; once the record cannot be claimed, a
\* tree that is gone stays gone and no turn begins over it.
Outside ==
    /\ UNCHANGED <<journal, caller>>
    /\ job.status \in Ends \cup {"cancelling"} => job'.status = job.status
    /\ job.status = "queued" /\ job.intent => job'.status = "queued" /\ job'.intent
    /\ job.status # "queued" => job'.status # "queued" /\ job'.claim = job.claim
    /\ job'.status = "cancelled" => job.status = "cancelled"
    /\ job.status # "queued" /\ TreeGone => TreeGone'
    /\ turn' = "active" => turn = "active" \/ ~ TreeGone
    /\ \A c \in Callers : lock = c => lock' = c

LEMMA EnvironmentStep ==
  ASSUME CancelInv, Environment
  PROVE  TypeOK' /\ JobInv' /\ Outside
<1> USE CancelAssumption
    DEF CancelInv, TypeOK, JobInv, Outside, Statuses, Ends, RunnerSteps, Working, Turns, TreeGone,
        Fault, NoFault, RunnerOnly, RunnerGoes, Move, process
<1>1. CASE Claim
  BY <1>1 DEF Claim
<1>2. CASE StartJob
  BY <1>2 DEF StartJob
<1>3. CASE Send
  <2>1. TypeOK'
    BY <1>3 DEF Send
  <2>2. JobInv'
    BY <1>3 DEF Send
  <2>3. Outside
    BY <1>3 DEF Send
  <2> QED
    BY <2>1, <2>2, <2>3
<1>4. CASE RecordBoundary
  BY <1>4 DEF RecordBoundary
<1>5. CASE PublishResult
  BY <1>5 DEF PublishResult
<1>6. CASE GiveUp
  BY <1>6 DEF GiveUp
<1>7. CASE RunnerLeaves
  BY <1>7 DEF RunnerLeaves
<1>8. CASE Descendants
  BY <1>8 DEF Descendants
<1>9. CASE TurnEnds
  BY <1>9 DEF TurnEnds
<1>10. CASE DelegateStop
  BY <1>10 DEF DelegateStop
<1> QED
  BY <1>1, <1>2, <1>3, <1>4, <1>5, <1>6, <1>7, <1>8, <1>9, <1>10 DEF Environment

LEMMA EnvironmentKeeps ==
  ASSUME CancelInv, Environment
  PROVE  CancelInv'
<1>1. TypeOK' /\ JobInv' /\ Outside
  BY EnvironmentStep
<1>2. JournalInv' /\ (journal.id <= Cardinality(Elected))'
  BY <1>1 DEF Outside, CancelInv, JournalInv, JournalIsBacked, Elected, TypeOK, Statuses, Ends
<1>3. CancelledIsClean'
  BY <1>1 DEF Outside, CancelInv, CancelledIsClean, Ends
<1>4. \A c \in Callers : CallerInv(c)'
  BY <1>1 DEF Outside, CancelInv, CallerInv, TypeOK, Statuses, Ends, Holding
<1> QED
  BY <1>1, <1>2, <1>3, <1>4 DEF CancelInv
-----------------------------------------------------------------------------
(* A command.                                                              *)

\* What a step of a command leaves to the others: outside the lock it changes neither the
\* record nor the processes nor an attempt that is to be finalised.
Respects(c) ==
    /\ job.status \in Ends => job'.status = job.status
    /\ journal.id # 0 => journal'.id # 0
    /\ lock = c \/ UNCHANGED <<job, process>>
    /\ lock = c \/ journal.status # "finalize-pending" \/ UNCHANGED journal
    /\ \A d \in Callers \ {c} : lock = d => lock' = d
    /\ \E new \in Caller : caller' = [caller EXCEPT ![c] = new]

LEMMA OthersKeep ==
  ASSUME CancelInv, NEW c \in Callers, NEW d \in Callers, d # c, Respects(c)
  PROVE  CallerInv(d)'
<1>1. caller'[d] = caller[d]
  BY DEF Respects, CancelInv, TypeOK
<1>2. CASE lock = d
  <2>1. lock # c
    BY <1>2
  <2>2. UNCHANGED <<job, process>> /\ lock' = lock
    BY <1>2, <2>1 DEF Respects
  <2> QED
    BY <1>1, <2>1, <2>2 DEF Respects, CancelInv, CallerInv, TreeGone, process
<1>3. CASE lock # d
  <2>1. caller[d].step \notin Holding
    BY <1>3 DEF CancelInv, CallerInv
  <2> QED
    BY <1>1, <2>1 DEF Respects, CancelInv, CallerInv, Holding
<1> QED
  BY <1>2, <1>3

\* A command is counted from its election on, which is all that starts an attempt.
Counts(c) ==
    \/ journal'.id = journal.id /\ (c \in Elected => c \in Elected')
    \/ journal'.id = journal.id + 1 /\ c \notin Elected /\ c \in Elected'

\* The step of a command keeps what concerns itself and the stores.
Own(c) ==
    /\ TypeOK' /\ JobInv' /\ JournalInv' /\ CancelledIsClean'
    /\ CallerInv(c)'
    /\ Respects(c) /\ Counts(c)

\* The new state of a command is well formed.
LEMMA Answered ==
  ASSUME NEW answer \in Answers
  PROVE  [IdleCaller EXCEPT !.answer = answer] \in Caller
BY DEF IdleCaller, Caller, Steps, Journal, Statuses, Ends, Answers

\* The new state of a command, its answer included.
LEMMA Moves ==
  ASSUME CancelInv, NEW c \in Callers, NEW new \in Caller, Becomes(c, new)
  PROVE  /\ caller' \in [Callers -> Caller] /\ caller'[c] = new
         /\ \E q \in Caller : caller' = [caller EXCEPT ![c] = q]
BY DEF CancelInv, TypeOK, Becomes

\* A command that has answered knows what it answered.
LEMMA AnswerKnown ==
  ASSUME NEW c \in Callers, NEW answer \in Answers,
         caller'[c] = [IdleCaller EXCEPT !.answer = answer],
         answer \in Statuses => answer \in Ends /\ job'.status = answer
  PROVE  CallerInv(c)'
<1>1. /\ caller'[c].step = "idle" /\ caller'[c].answer = answer /\ caller'[c].final = FALSE
  BY DEF IdleCaller
<1> QED
  BY <1>1 DEF CallerInv, Holding, Past

\* The look at the journal, the lock and the first reading.
\* The marked-runner duty only winds the tree down; its outcome is a gone tree or a fault.
LEMMA Cleaning ==
  ASSUME TypeOK, Cleaned \/ PartlyCleaned
  PROVE  /\ runner' \in RunnerSteps /\ strays' \in BOOLEAN
         /\ runner' \in {runner, "none", "gone"} /\ (runner' = "none" => runner = "none")
         /\ TreeGone => TreeGone'
         /\ Cleaned => TreeGone'
<1>1. runner \in RunnerSteps /\ strays \in BOOLEAN /\ {"none", "gone"} \subseteq RunnerSteps
  BY DEF TypeOK, RunnerSteps
<1>2. CASE Cleaned
  BY <1>1, <1>2 DEF Cleaned, TreeGone
<1>3. CASE PartlyCleaned
  <2>1. runner' \in {runner, "none", "gone"} /\ (runner' = "none" => runner = "none") /\ strays' = strays
    BY <1>3 DEF PartlyCleaned
  <2> QED
    BY <1>1, <1>2, <2>1 DEF TreeGone
<1> QED
  BY <1>2, <1>3

LEMMA Faulty ==
  ASSUME TypeOK, Fault \/ NoFault
  PROVE  faults' \in 0..MaxFaults
BY CancelAssumption DEF TypeOK, Fault, NoFault

\* The look at the journal, the lock and the first reading.
LEMMA BeginsCommand ==
  ASSUME CancelInv, NEW c \in Callers,
         ObserveJournal(c) \/ AcquireLock(c) \/ ReadJob(c)
  PROVE  Own(c)
<1> DEFINE p == caller[c]
<1>0. /\ p \in Caller /\ CallerInv(c) /\ journal \in Journal
      /\ JobInv /\ JournalInv /\ CancelledIsClean
  BY DEF CancelInv, TypeOK
<1> USE CancelAssumption DEF At
<1>1. CASE ObserveJournal(c)
  <2>1. /\ Becomes(c, [p EXCEPT !.step = "lock", !.seen = journal])
        /\ p.step = "idle" /\ p.answer = "none"
        /\ UNCHANGED <<job, process, turn, lock, journal>> /\ NoFault
    BY <1>0, <1>1 DEF ObserveJournal, Goes
  <2>2. [p EXCEPT !.step = "lock", !.seen = journal] \in Caller
    BY <1>0, <2>1 DEF Caller, Steps, JournalInv, Journal, NoAttempt
  <2>3. /\ caller' \in [Callers -> Caller]
        /\ caller'[c] = [p EXCEPT !.step = "lock", !.seen = journal]
        /\ \E q \in Caller : caller' = [caller EXCEPT ![c] = q]
    BY <2>1, <2>2, Moves
  <2>4. TypeOK'
    <3>1. /\ job' \in [status: Statuses, intent: BOOLEAN, claim: BOOLEAN, boundary: BOOLEAN]
          /\ faults' \in 0..MaxFaults /\ journal' \in Journal
      BY <1>0, <2>1, Faulty
         DEF CancelInv, TypeOK, JobInv, JournalInv, CallerInv, Past, Statuses, Ends, Turns,
             Journal, AttemptStatuses, NoAttempt
    <3> QED
      BY <2>1, <2>3, <3>1 DEF CancelInv, TypeOK, Turns, process
  <2>5. JobInv' /\ JournalInv' /\ CancelledIsClean'
    BY <1>0, <2>1
       DEF CancelInv, TypeOK, CallerInv, JobInv, JournalInv, JournalIsBacked, CancelledIsClean,
              TreeGone,
           Past, Statuses, Ends, Turns, process
  <2>6. CallerInv(c)'
    BY <1>0, <2>1, <2>3
       DEF CancelInv, TypeOK, CallerInv, JournalInv, Caller, Holding, Past, Statuses, Ends, Turns,
              TreeGone, process
  <2>7. Respects(c)
    BY <1>0, <2>1, <2>3
       DEF Respects, CallerInv, JobInv, Holding, Past, Ends, Journal, NoAttempt, process
  <2>8. Counts(c)
    BY <1>0, <2>1, <2>3
       DEF Counts, Elected, CallerInv, Caller, IdleCaller, Past, Ends, Journal, NoAttempt
  <2> QED
    BY <2>4, <2>5, <2>6, <2>7, <2>8 DEF Own
<1>2. CASE AcquireLock(c)
  <2>1. CASE lock = "free" /\ lock' = c /\ Goes(c, "read") /\ NoFault
    <3>1. /\ Becomes(c, [p EXCEPT !.step = "read"])
          /\ p.step = "lock" /\ lock = "free" /\ lock' = c
          /\ UNCHANGED <<job, process, turn, journal>> /\ NoFault
      BY <1>0, <1>2, <2>1 DEF AcquireLock, Unlock, Goes
    <3>2. [p EXCEPT !.step = "read"] \in Caller
      BY <1>0, <3>1 DEF Caller, Steps, JournalInv, Journal, NoAttempt
    <3>3. /\ caller' \in [Callers -> Caller] /\ caller'[c] = [p EXCEPT !.step = "read"]
          /\ \E q \in Caller : caller' = [caller EXCEPT ![c] = q]
      BY <3>1, <3>2, Moves
    <3>4. TypeOK'
      <4>1. /\ job' \in [status: Statuses, intent: BOOLEAN, claim: BOOLEAN, boundary: BOOLEAN]
            /\ faults' \in 0..MaxFaults /\ journal' \in Journal
        BY <1>0, <3>1, Faulty
           DEF CancelInv, TypeOK, JobInv, JournalInv, CallerInv, Past, Statuses, Ends, Turns,
               Journal, AttemptStatuses, NoAttempt
      <4> QED
        BY <3>1, <3>3, <4>1 DEF CancelInv, TypeOK, Turns, process
    <3>5. JobInv' /\ JournalInv' /\ CancelledIsClean'
      BY <1>0, <3>1
         DEF CancelInv, TypeOK, CallerInv, JobInv, JournalInv, JournalIsBacked, CancelledIsClean,
                TreeGone,
             Past, Statuses, Ends, Turns, process
    <3>6. CallerInv(c)'
      BY <1>0, <3>1, <3>3
         DEF CancelInv, TypeOK, CallerInv, JournalInv, Caller, Holding, Past, Statuses, Ends,
                Turns, TreeGone, process
    <3>7. Respects(c)
      BY <1>0, <3>1, <3>3
         DEF Respects, CallerInv, JobInv, Holding, Past, Ends, Journal, NoAttempt, process
    <3>8. Counts(c)
      BY <1>0, <3>1, <3>3
         DEF Counts, Elected, CallerInv, Caller, IdleCaller, Past, Ends, Journal, NoAttempt
    <3> QED
      BY <3>4, <3>5, <3>6, <3>7, <3>8 DEF Own
  <2>2. CASE Answer(c, "refused") /\ Fault
    <3>1. /\ Becomes(c, [IdleCaller EXCEPT !.answer = "refused"])
          /\ p.step = "lock" /\ Fault
          /\ UNCHANGED <<job, process, turn, journal>>
          /\ lock' \in {lock, "free"} /\ (lock' # lock => lock = c)
      BY <1>0, <1>2, <2>2 DEF AcquireLock, Unlock, Answer
    <3>2. "refused" \in Answers /\ [IdleCaller EXCEPT !.answer = "refused"] \in Caller
      BY <1>0, <3>1, Answered DEF CancelInv, TypeOK, Answers, Statuses, Ends, CallerInv
    <3>3. /\ caller' \in [Callers -> Caller]
          /\ caller'[c] = [IdleCaller EXCEPT !.answer = "refused"]
          /\ \E q \in Caller : caller' = [caller EXCEPT ![c] = q]
      BY <3>1, <3>2, Moves
    <3>4. TypeOK'
      <4>1. /\ job' \in [status: Statuses, intent: BOOLEAN, claim: BOOLEAN, boundary: BOOLEAN]
            /\ faults' \in 0..MaxFaults /\ journal' \in Journal
        BY <1>0, <3>1, Faulty
           DEF CancelInv, TypeOK, JobInv, JournalInv, CallerInv, Past, Statuses, Ends, Turns,
               Journal, AttemptStatuses, NoAttempt
      <4> QED
        BY <3>1, <3>3, <4>1 DEF CancelInv, TypeOK, Turns, process
    <3>5. JobInv' /\ JournalInv' /\ CancelledIsClean'
      BY <1>0, <3>1
         DEF CancelInv, TypeOK, CallerInv, JobInv, JournalInv, JournalIsBacked, CancelledIsClean,
                TreeGone,
             Past, Statuses, Ends, Turns, process
    <3>6. CallerInv(c)'
      <4>1. "refused" \in Statuses => "refused" \in Ends /\ job'.status = "refused"
        BY <1>0, <3>1 DEF CallerInv, Statuses, Ends
      <4> QED
        BY <3>2, <3>3, <4>1, AnswerKnown
    <3>7. Respects(c)
      BY <1>0, <3>1, <3>3
         DEF Respects, CallerInv, JobInv, Holding, Past, Ends, Journal, NoAttempt, process
    <3>8. Counts(c)
      BY <1>0, <3>1, <3>3
         DEF Counts, Elected, CallerInv, Caller, IdleCaller, Past, Ends, Journal, NoAttempt
    <3> QED
      BY <3>4, <3>5, <3>6, <3>7, <3>8 DEF Own
  <2> QED
    BY <1>0, <1>2, <2>1, <2>2 DEF AcquireLock, Unlock, Throws, Answer, Goes
<1>3. CASE ReadJob(c)
  <2>1. CASE job.status \in Ends
    <3>1. /\ Becomes(c, [IdleCaller EXCEPT !.answer = job.status])
          /\ p.step = "read" /\ job.status \in Ends /\ NoFault
          /\ UNCHANGED <<job, process, turn, journal>>
          /\ lock' \in {lock, "free"} /\ (lock' # lock => lock = c)
      BY <1>0, <1>3, <2>1 DEF ReadJob, Unlock, Answer
    <3>2. job.status \in Answers /\ [IdleCaller EXCEPT !.answer = job.status] \in Caller
      BY <1>0, <3>1, Answered DEF CancelInv, TypeOK, Answers, Statuses, Ends, CallerInv
    <3>3. /\ caller' \in [Callers -> Caller]
          /\ caller'[c] = [IdleCaller EXCEPT !.answer = job.status]
          /\ \E q \in Caller : caller' = [caller EXCEPT ![c] = q]
      BY <3>1, <3>2, Moves
    <3>4. TypeOK'
      <4>1. /\ job' \in [status: Statuses, intent: BOOLEAN, claim: BOOLEAN, boundary: BOOLEAN]
            /\ faults' \in 0..MaxFaults /\ journal' \in Journal
        BY <1>0, <3>1, Faulty
           DEF CancelInv, TypeOK, JobInv, JournalInv, CallerInv, Past, Statuses, Ends, Turns,
               Journal, AttemptStatuses, NoAttempt
      <4> QED
        BY <3>1, <3>3, <4>1 DEF CancelInv, TypeOK, Turns, process
    <3>5. JobInv' /\ JournalInv' /\ CancelledIsClean'
      BY <1>0, <3>1
         DEF CancelInv, TypeOK, CallerInv, JobInv, JournalInv, JournalIsBacked, CancelledIsClean,
                TreeGone,
             Past, Statuses, Ends, Turns, process
    <3>6. CallerInv(c)'
      <4>1. job.status \in Statuses => job.status \in Ends /\ job'.status = job.status
        BY <1>0, <3>1 DEF CallerInv, Statuses, Ends
      <4> QED
        BY <3>2, <3>3, <4>1, AnswerKnown
    <3>7. Respects(c)
      BY <1>0, <3>1, <3>3
         DEF Respects, CallerInv, JobInv, Holding, Past, Ends, Journal, NoAttempt, process
    <3>8. Counts(c)
      BY <1>0, <3>1, <3>3
         DEF Counts, Elected, CallerInv, Caller, IdleCaller, Past, Ends, Journal, NoAttempt
    <3> QED
      BY <3>4, <3>5, <3>6, <3>7, <3>8 DEF Own
  <2>2. CASE job.status \notin Ends
    <3>1. /\ Becomes(c, [p EXCEPT !.step = "share", !.view = job.status])
          /\ p.step = "read" /\ job.status \in Statuses /\ NoFault
          /\ UNCHANGED <<job, process, turn, journal, lock>>
      BY <1>0, <1>3, <2>2 DEF ReadJob, Unlock, Goes, CancelInv, TypeOK
    <3>2. [p EXCEPT !.step = "share", !.view = job.status] \in Caller
      BY <1>0, <3>1 DEF Caller, Steps, JournalInv, Journal, NoAttempt
    <3>3. /\ caller' \in [Callers -> Caller]
          /\ caller'[c] = [p EXCEPT !.step = "share", !.view = job.status]
          /\ \E q \in Caller : caller' = [caller EXCEPT ![c] = q]
      BY <3>1, <3>2, Moves
    <3>4. TypeOK'
      <4>1. /\ job' \in [status: Statuses, intent: BOOLEAN, claim: BOOLEAN, boundary: BOOLEAN]
            /\ faults' \in 0..MaxFaults /\ journal' \in Journal
        BY <1>0, <3>1, Faulty
           DEF CancelInv, TypeOK, JobInv, JournalInv, CallerInv, Past, Statuses, Ends, Turns,
               Journal, AttemptStatuses, NoAttempt
      <4> QED
        BY <3>1, <3>3, <4>1 DEF CancelInv, TypeOK, Turns, process
    <3>5. JobInv' /\ JournalInv' /\ CancelledIsClean'
      BY <1>0, <3>1
         DEF CancelInv, TypeOK, CallerInv, JobInv, JournalInv, JournalIsBacked, CancelledIsClean,
                TreeGone,
             Past, Statuses, Ends, Turns, process
    <3>6. CallerInv(c)'
      BY <1>0, <3>1, <3>3
         DEF CancelInv, TypeOK, CallerInv, JournalInv, Caller, Holding, Past, Statuses, Ends,
                Turns, TreeGone, process
    <3>7. Respects(c)
      BY <1>0, <3>1, <3>3
         DEF Respects, CallerInv, JobInv, Holding, Past, Ends, Journal, NoAttempt, process
    <3>8. Counts(c)
      BY <1>0, <3>1, <3>3
         DEF Counts, Elected, CallerInv, Caller, IdleCaller, Past, Ends, Journal, NoAttempt
    <3> QED
      BY <3>4, <3>5, <3>6, <3>7, <3>8 DEF Own
  <2> QED
    BY <1>0, <1>3, <2>1, <2>2 DEF ReadJob, Unlock, Throws, Answer, Goes
<1> QED
  BY <1>1, <1>2, <1>3

\* The end of a shared pass answers with the record when it is over, and otherwise goes on
\* with what the record is now.
LEMMA SharedKeeps ==
  ASSUME CancelInv, NEW c \in Callers, NEW stopped \in BOOLEAN, Shared(c, stopped),
         caller[c].step \in {"share", "converge"}, job'.status \in Statuses, UNCHANGED journal
  PROVE  /\ caller' \in [Callers -> Caller]
         /\ \E new \in Caller : caller' = [caller EXCEPT ![c] = new]
         /\ CallerInv(c)'
         /\ lock = c /\ lock' \in {c, "free"}
<1> DEFINE p == caller[c]
           again == At(c, "share") /\ p.view = "running"
           next == IF again THEN "converge" ELSE "elect"
<1>1. p \in Caller /\ CallerInv(c) /\ lock = c
  BY DEF CancelInv, TypeOK, CallerInv, Holding
<1>2. CASE job'.status \in Ends
  <2>1. job'.status \in Answers
    BY <1>2 DEF Answers, Statuses
  <2>2. Becomes(c, [IdleCaller EXCEPT !.answer = job'.status]) /\ lock' \in {c, "free"}
    BY <1>1, <1>2 DEF Shared, Answer, Unlock
  <2>3. caller'[c] = [IdleCaller EXCEPT !.answer = job'.status]
    BY <2>1, <2>2, Answered, Moves
  <2>4. CallerInv(c)'
    BY <1>2, <2>1, <2>3, AnswerKnown
  <2> QED
    BY <1>1, <2>1, <2>2, <2>4, Answered, Moves
<1>3. CASE job'.status \notin Ends
  <2> DEFINE new == [p EXCEPT !.view = job'.status, !.shared = stopped /\ ~ again, !.step = next]
  <2>1. Becomes(c, new) /\ lock' = lock
    BY <1>3 DEF Shared
  <2>2. new \in Caller
    <3>1. (stopped /\ ~ again) \in BOOLEAN /\ next \in Steps
      BY DEF Steps
    <3> HIDE DEF again, next
    <3> QED
      BY <1>1, <3>1 DEF Caller
  <2>3. caller'[c] = new
    BY <2>1, <2>2, Moves
  <2>4. /\ new.step \in {"converge", "elect"} /\ new.view = job'.status
        /\ new.answer = p.answer /\ new.final = p.final
    <3>1. next \in {"converge", "elect"}
      OBVIOUS
    <3> HIDE DEF again, next
    <3> QED
      BY <1>1, <3>1 DEF Caller
  <2>5. p.answer = "none" /\ ~ p.final
    BY <1>1 DEF CallerInv, Past
  <2>6. CallerInv(c)'
    <3> HIDE DEF new
    <3> QED
      BY <1>1, <2>1, <2>3, <2>4, <2>5 DEF CallerInv, Holding, Past, Statuses, Ends
  <2> QED
    BY <1>1, <2>1, <2>2, <2>6, Moves
<1> QED
  BY <1>2, <1>3

\* A shared pass keeps what concerns the command and the stores.
LEMMA SharedPass ==
  ASSUME CancelInv, NEW c \in Callers,
         PersistSharedStop(c) \/ ShareQueued(c) \/ SharedSettles(c) \/ SharedRetains(c)
         \/ SharedRaced(c)
  PROVE  Own(c)
<1> DEFINE p == caller[c]
<1>0. p \in Caller /\ CallerInv(c) /\ JobInv /\ JournalInv /\ CancelledIsClean
  BY DEF CancelInv, TypeOK
<1> USE CancelAssumption DEF At
<1>1. CASE PersistSharedStop(c)
  <2>1. /\ p.step = "share" /\ job.status = "running" /\ Shared(c, FALSE)
        /\ job' = [job EXCEPT !.status = "cancelling", !.intent = TRUE]
        /\ UNCHANGED <<process, turn, journal>> /\ NoFault
    BY <1>1 DEF PersistSharedStop
  <2>2. job' \in [status: Statuses, intent: BOOLEAN, claim: BOOLEAN, boundary: BOOLEAN]
        /\ faults' \in 0..MaxFaults
    BY <1>0, <2>1, Faulty DEF CancelInv, TypeOK, JobInv, Statuses, Ends
  <2>3. /\ caller' \in [Callers -> Caller]
        /\ \E new \in Caller : caller' = [caller EXCEPT ![c] = new]
        /\ CallerInv(c)' /\ lock = c /\ lock' \in {c, "free"}
    BY <2>1, <2>2, SharedKeeps DEF CancelInv, TypeOK
  <2>4. TypeOK'
    BY <2>1, <2>2, <2>3 DEF CancelInv, TypeOK, process
  <2>5. JobInv' /\ JournalInv' /\ CancelledIsClean'
    BY <1>0, <2>1, <2>2, <2>3
       DEF CancelInv, TypeOK, JobInv, JournalInv, JournalIsBacked, CancelledIsClean, TreeGone,
              process, Statuses, Ends
  <2>6. Respects(c)
    BY <2>1, <2>2, <2>3 DEF Respects, Ends, process
  <2>7. Counts(c)
    BY <1>0, <2>1 DEF Counts, Elected, CallerInv, Past
  <2> QED
    BY <2>3, <2>4, <2>5, <2>6, <2>7 DEF Own
<1>2. CASE ShareQueued(c)
  <2>1. /\ p.step = "share" /\ job.status = "queued" /\ Shared(c, FALSE)
        /\ UNCHANGED <<turn, journal>> /\ (Cleaned \/ PartlyCleaned) /\ (Fault \/ NoFault)
        /\ job' = job \/ (job' = [job EXCEPT !.status = "cancelled"] /\ ~ job.claim)
    BY <1>2 DEF ShareQueued, Move
  <2>2. job' \in [status: Statuses, intent: BOOLEAN, claim: BOOLEAN, boundary: BOOLEAN]
        /\ faults' \in 0..MaxFaults
    BY <1>0, <2>1, Faulty DEF CancelInv, TypeOK, JobInv, Statuses, Ends
  <2>8. /\ runner' \in RunnerSteps /\ strays' \in BOOLEAN
        /\ runner' \in {runner, "none", "gone"} /\ (runner' = "none" => runner = "none")
        /\ TreeGone => TreeGone'
        /\ Cleaned => TreeGone'
    BY <2>1, Cleaning DEF CancelInv
  <2>3. /\ caller' \in [Callers -> Caller]
        /\ \E new \in Caller : caller' = [caller EXCEPT ![c] = new]
        /\ CallerInv(c)' /\ lock = c /\ lock' \in {c, "free"}
    BY <2>1, <2>2, SharedKeeps DEF CancelInv, TypeOK
  <2>4. TypeOK'
    BY <2>1, <2>2, <2>3, <2>8 DEF CancelInv, TypeOK, process
  <2>5. JobInv' /\ JournalInv' /\ CancelledIsClean'
    BY <1>0, <2>1, <2>2, <2>3, <2>8
       DEF CancelInv, TypeOK, JobInv, JournalInv, JournalIsBacked, CancelledIsClean, TreeGone,
              process, Statuses, Ends
  <2>6. Respects(c)
    BY <2>1, <2>2, <2>3 DEF Respects, Ends, process
  <2>7. Counts(c)
    BY <1>0, <2>1 DEF Counts, Elected, CallerInv, Past
  <2> QED
    BY <2>3, <2>4, <2>5, <2>6, <2>7 DEF Own
<1>3. CASE SharedSettles(c)
  <2>1. /\ p.step \in {"share", "converge"} /\ job.status = "cancelling" /\ Shared(c, TRUE)
        /\ job.boundary /\ turn' = (IF turn = "active" THEN "interrupted" ELSE turn)
        /\ job' = [job EXCEPT !.status = IF turn' = "interrupted" THEN "cancelled" ELSE turn']
        /\ UNCHANGED journal /\ Cleaned /\ NoFault
    BY <1>3 DEF SharedSettles, Joins, Move
  <2>2. job' \in [status: Statuses, intent: BOOLEAN, claim: BOOLEAN, boundary: BOOLEAN]
        /\ faults' \in 0..MaxFaults
    BY <1>0, <2>1, Faulty DEF CancelInv, TypeOK, JobInv, Statuses, Ends, Turns
  <2>8. /\ runner' \in RunnerSteps /\ strays' \in BOOLEAN
        /\ runner' \in {runner, "none", "gone"} /\ (runner' = "none" => runner = "none")
        /\ TreeGone => TreeGone'
        /\ Cleaned => TreeGone'
    BY <2>1, Cleaning DEF CancelInv
  <2>3. /\ caller' \in [Callers -> Caller]
        /\ \E new \in Caller : caller' = [caller EXCEPT ![c] = new]
        /\ CallerInv(c)' /\ lock = c /\ lock' \in {c, "free"}
    BY <2>1, <2>2, SharedKeeps DEF CancelInv, TypeOK
  <2>4. TypeOK'
    BY <2>1, <2>2, <2>3, <2>8 DEF CancelInv, TypeOK, process, Turns
  <2>5. JobInv' /\ JournalInv' /\ CancelledIsClean'
    BY <1>0, <2>1, <2>2, <2>3, <2>8
       DEF CancelInv, TypeOK, JobInv, JournalInv, JournalIsBacked, CancelledIsClean, TreeGone,
              process, Statuses, Ends, Turns
  <2>6. Respects(c)
    BY <2>1, <2>2, <2>3 DEF Respects, Ends, process
  <2>7. Counts(c)
    BY <1>0, <2>1 DEF Counts, Elected, CallerInv, Past
  <2> QED
    BY <2>3, <2>4, <2>5, <2>6, <2>7 DEF Own
<1>4. CASE SharedRetains(c)
  <2>1. /\ p.step \in {"share", "converge"} /\ job.status = "cancelling"
        /\ turn' \in {turn, IF turn = "active" THEN "interrupted" ELSE turn}
        /\ \E stopped \in BOOLEAN : Shared(c, stopped)
        /\ UNCHANGED <<job, journal>> /\ (Cleaned \/ PartlyCleaned) /\ (Fault \/ NoFault)
    BY <1>4 DEF SharedRetains, Joins
  <2>2. job' \in [status: Statuses, intent: BOOLEAN, claim: BOOLEAN, boundary: BOOLEAN]
        /\ faults' \in 0..MaxFaults
    BY <1>0, <2>1, Faulty DEF CancelInv, TypeOK, JobInv, Statuses, Ends
  <2>8. /\ runner' \in RunnerSteps /\ strays' \in BOOLEAN
        /\ runner' \in {runner, "none", "gone"} /\ (runner' = "none" => runner = "none")
        /\ TreeGone => TreeGone'
        /\ Cleaned => TreeGone'
    BY <2>1, Cleaning DEF CancelInv
  <2>3. /\ caller' \in [Callers -> Caller]
        /\ \E new \in Caller : caller' = [caller EXCEPT ![c] = new]
        /\ CallerInv(c)' /\ lock = c /\ lock' \in {c, "free"}
    BY <2>1, <2>2, SharedKeeps DEF CancelInv, TypeOK
  <2>4. TypeOK'
    BY <2>1, <2>2, <2>3, <2>8 DEF CancelInv, TypeOK, process, Turns
  <2>5. JobInv' /\ JournalInv' /\ CancelledIsClean'
    BY <1>0, <2>1, <2>2, <2>3, <2>8
       DEF CancelInv, TypeOK, JobInv, JournalInv, JournalIsBacked, CancelledIsClean, TreeGone,
              process, Statuses, Ends
  <2>6. Respects(c)
    BY <2>1, <2>2, <2>3 DEF Respects, Ends, process
  <2>7. Counts(c)
    BY <1>0, <2>1 DEF Counts, Elected, CallerInv, Past
  <2> QED
    BY <2>3, <2>4, <2>5, <2>6, <2>7 DEF Own
<1>5. CASE SharedRaced(c)
  <2>1. /\ p.step \in {"share", "converge"} /\ job.status \in Ends
        /\ Becomes(c, [IdleCaller EXCEPT !.answer = job.status]) /\ lock' \in {lock, "free"}
        /\ UNCHANGED <<job, process, turn, journal, faults>>
    BY <1>5 DEF SharedRaced, Answer, Unlock, NoFault
  <2>2. job.status \in Answers /\ lock = c
    BY <1>0, <2>1 DEF Answers, Statuses, CallerInv, Holding
  <2>3. /\ caller' \in [Callers -> Caller] /\ caller'[c] = [IdleCaller EXCEPT !.answer = job.status]
        /\ \E new \in Caller : caller' = [caller EXCEPT ![c] = new]
    BY <2>1, <2>2, Answered, Moves
  <2>4. CallerInv(c)'
    BY <2>1, <2>2, <2>3, AnswerKnown
  <2>5. TypeOK'
    BY <2>1, <2>3 DEF CancelInv, TypeOK, process
  <2>6. JobInv' /\ JournalInv' /\ CancelledIsClean'
    BY <1>0, <2>1, <2>2
       DEF JobInv, JournalInv, JournalIsBacked, CancelledIsClean, TreeGone, process
  <2>7. Respects(c)
    BY <2>1, <2>2, <2>3 DEF Respects
  <2>8. Counts(c)
    BY <1>0, <2>1 DEF Counts, Elected, CallerInv, Past
  <2> QED
    BY <2>4, <2>5, <2>6, <2>7, <2>8 DEF Own
<1> QED
  BY <1>1, <1>2, <1>3, <1>4, <1>5
-----------------------------------------------------------------------------
(* The count of the attempts.                                              *)

LEMMA ElectedCount ==
  /\ Elected \in SUBSET Callers /\ IsFiniteSet(Elected)
  /\ Cardinality(Elected) \in Nat /\ Cardinality(Callers) \in Nat
<1>1. Elected \in SUBSET Callers
  BY DEF Elected
<1>2. IsFiniteSet(Elected)
  BY <1>1, FS_Subset, CancelAssumption
<1> QED
  BY <1>1, <1>2, FS_CardinalityType, CancelAssumption

\* A command that is about to elect is not counted yet, so that there is an attempt left.
LEMMA NextAttempt ==
  ASSUME CancelInv, NEW c \in Callers, At(c, "elect")
  PROVE  journal.id + 1 \in Attempts
<1>1. c \notin Elected
  BY DEF Elected, At, Past, CancelInv, CallerInv
<1>2. /\ IsFiniteSet(Elected \cup {c})
      /\ Cardinality(Elected \cup {c}) = Cardinality(Elected) + 1
  BY <1>1, ElectedCount, FS_AddElement
<1>3. Elected \cup {c} \in SUBSET Callers
  BY ElectedCount
<1>4. Cardinality(Elected \cup {c}) <= Cardinality(Callers)
  BY <1>3, FS_Subset, CancelAssumption
<1>5. journal.id \in Nat /\ journal.id <= Cardinality(Elected)
  BY DEF CancelInv, TypeOK, Journal, Attempts, NoAttempt
<1> QED
  BY <1>2, <1>4, <1>5, ElectedCount DEF Attempts

-----------------------------------------------------------------------------
(* The election and what follows it.                                       *)

\* An election starts the next attempt, or takes up the one the journal holds.
LEMMA Election ==
  ASSUME CancelInv, NEW c \in Callers,
         Elect(c)
  PROVE  Own(c)
<1> DEFINE p == caller[c]
<1>0. /\ p \in Caller /\ CallerInv(c) /\ journal \in Journal
      /\ JobInv /\ JournalInv /\ CancelledIsClean
  BY DEF CancelInv, TypeOK
<1> USE CancelAssumption DEF At
<1>1. CASE Elect(c)
  <2>1. CASE Becomes(c, [p EXCEPT !.step = "release", !.attempt = journal.id])
             /\ journal.status \in {"failed-pending-release", "failed"} /\ UNCHANGED journal /\ Unlock(c)
    <3>1. /\ Becomes(c, [p EXCEPT !.step = "release", !.attempt = journal.id])
          /\ UNCHANGED <<job, process, turn>> /\ NoFault /\ p.step = "elect"
          /\ UNCHANGED journal /\ journal.status \in {"failed-pending-release", "failed"}
          /\ lock' \in {lock, "free"} /\ (lock' # lock => lock = c)
      BY <1>0, <1>1, <2>1 DEF Elect, Unlock, Goes
    <3>2. [p EXCEPT !.step = "release", !.attempt = journal.id] \in Caller
      <4>1. journal.id \in {0} \cup Attempts
        BY <1>0 DEF Journal, NoAttempt
      <4> QED
        BY <1>0, <4>1 DEF Caller, Steps
    <3>3. /\ caller' \in [Callers -> Caller]
          /\ caller'[c] = [p EXCEPT !.step = "release", !.attempt = journal.id]
          /\ \E q \in Caller : caller' = [caller EXCEPT ![c] = q]
      BY <3>1, <3>2, Moves
    <3>4. TypeOK'
      <4>1. /\ job' \in [status: Statuses, intent: BOOLEAN, claim: BOOLEAN, boundary: BOOLEAN]
            /\ faults' \in 0..MaxFaults /\ journal' \in Journal
        BY <1>0, <3>1, Faulty
           DEF CancelInv, TypeOK, JobInv, JournalInv, CallerInv, Past, Statuses, Ends, Turns,
               Journal, AttemptStatuses, NoAttempt
      <4> QED
        BY <3>1, <3>3, <4>1 DEF CancelInv, TypeOK, Turns, process
    <3>5. JobInv' /\ JournalInv' /\ CancelledIsClean'
      BY <1>0, <3>1
         DEF CancelInv, TypeOK, CallerInv, JobInv, JournalInv, JournalIsBacked, CancelledIsClean,
                TreeGone,
             Past, Statuses, Ends, Turns, process
    <3>6. CallerInv(c)'
      BY <1>0, <3>1, <3>3
         DEF CancelInv, TypeOK, CallerInv, JournalInv, Caller, Holding, Past, Statuses, Ends,
                Turns, TreeGone, process
    <3>7. Respects(c)
      BY <1>0, <3>1, <3>3
         DEF Respects, CallerInv, JobInv, Holding, Past, Ends, Journal, NoAttempt, process
    <3>8. Counts(c)
      BY <1>0, <3>1, <3>3
         DEF Counts, Elected, CallerInv, Caller, IdleCaller, Past, Journal, NoAttempt
    <3> QED
      BY <3>4, <3>5, <3>6, <3>7, <3>8 DEF Own
  <2>2. CASE journal.status \in {"active", "finalize-pending"}
    <3>1. /\ Becomes(c, [p EXCEPT !.step = "act", !.attempt = journal.id,
                          !.final = journal.status = "finalize-pending"])
          /\ UNCHANGED <<job, process, turn>> /\ NoFault /\ p.step = "elect"
          /\ UNCHANGED <<journal, lock>> /\ journal.status \in {"active", "finalize-pending"}
      BY <1>0, <1>1, <2>2 DEF Elect, Unlock, Goes
    <3>2. [p EXCEPT !.step = "act", !.attempt = journal.id,
                          !.final = journal.status = "finalize-pending"] \in Caller
      <4>1. journal.id \in {0} \cup Attempts
        BY <1>0 DEF Journal, NoAttempt
      <4>2. (journal.status = "finalize-pending") \in BOOLEAN
        OBVIOUS
      <4> QED
        BY <1>0, <4>1, <4>2 DEF Caller, Steps
    <3>3. /\ caller' \in [Callers -> Caller]
          /\ caller'[c] = [p EXCEPT !.step = "act", !.attempt = journal.id,
                          !.final = journal.status = "finalize-pending"]
          /\ \E q \in Caller : caller' = [caller EXCEPT ![c] = q]
      BY <3>1, <3>2, Moves
    <3>4. TypeOK'
      <4>1. /\ job' \in [status: Statuses, intent: BOOLEAN, claim: BOOLEAN, boundary: BOOLEAN]
            /\ faults' \in 0..MaxFaults /\ journal' \in Journal
        BY <1>0, <3>1, Faulty
           DEF CancelInv, TypeOK, JobInv, JournalInv, CallerInv, Past, Statuses, Ends, Turns,
               Journal, AttemptStatuses, NoAttempt
      <4> QED
        BY <3>1, <3>3, <4>1 DEF CancelInv, TypeOK, Turns, process
    <3>5. JobInv' /\ JournalInv' /\ CancelledIsClean'
      BY <1>0, <3>1
         DEF CancelInv, TypeOK, CallerInv, JobInv, JournalInv, JournalIsBacked, CancelledIsClean,
                TreeGone,
             Past, Statuses, Ends, Turns, process
    <3>6. CallerInv(c)'
      BY <1>0, <3>1, <3>3
         DEF CancelInv, TypeOK, CallerInv, JournalInv, Caller, Holding, Past, Statuses, Ends,
                Turns, TreeGone, process
    <3>7. Respects(c)
      BY <1>0, <3>1, <3>3
         DEF Respects, CallerInv, JobInv, Holding, Past, Ends, Journal, NoAttempt, process
    <3>8. Counts(c)
      BY <1>0, <3>1, <3>3
         DEF Counts, Elected, CallerInv, Caller, IdleCaller, Past, Journal, NoAttempt
    <3> QED
      BY <3>4, <3>5, <3>6, <3>7, <3>8 DEF Own
  <2>3. CASE journal' = [id |-> journal.id + 1, status |-> "active"] /\ UNCHANGED lock
             /\ Becomes(c, [p EXCEPT !.step = "act", !.attempt = journal.id + 1])
    <3>1. /\ Becomes(c, [p EXCEPT !.step = "act", !.attempt = journal.id + 1])
          /\ UNCHANGED <<job, process, turn>> /\ NoFault /\ p.step = "elect"
          /\ journal' = [id |-> journal.id + 1, status |-> "active"] /\ UNCHANGED lock
      BY <1>0, <1>1, <2>3 DEF Elect, Unlock, Goes
    <3>2. [p EXCEPT !.step = "act", !.attempt = journal.id + 1] \in Caller
      <4>1. journal.id + 1 \in Attempts
        BY <3>1, NextAttempt
      <4> QED
        BY <1>0, <4>1 DEF Caller, Steps
    <3>3. /\ caller' \in [Callers -> Caller]
          /\ caller'[c] = [p EXCEPT !.step = "act", !.attempt = journal.id + 1]
          /\ \E q \in Caller : caller' = [caller EXCEPT ![c] = q]
      BY <3>1, <3>2, Moves
    <3>4. journal' \in Journal /\ journal'.id # 0 /\ journal'.status = "active"
      <4>1. journal.id + 1 \in Attempts
        BY <3>1, NextAttempt
      <4> QED
        BY <3>1, <4>1 DEF Journal, Attempts, AttemptStatuses
    <3>5. TypeOK'
      <4>1. /\ job' \in [status: Statuses, intent: BOOLEAN, claim: BOOLEAN, boundary: BOOLEAN]
            /\ faults' \in 0..MaxFaults
        BY <1>0, <3>1, Faulty
           DEF CancelInv, TypeOK, JobInv, JournalInv, CallerInv, Past, Statuses, Ends, Turns,
               Journal, AttemptStatuses, NoAttempt
      <4> QED
        BY <3>1, <3>3, <3>4, <4>1 DEF CancelInv, TypeOK, Turns, process
    <3>6. JobInv' /\ JournalInv' /\ CancelledIsClean'
      BY <1>0, <3>1, <3>4
         DEF CancelInv, TypeOK, CallerInv, JobInv, JournalInv, JournalIsBacked, CancelledIsClean,
                TreeGone,
             Past, Statuses, Ends, Turns, process
    <3>7. CallerInv(c)'
      BY <1>0, <3>1, <3>3, <3>4
         DEF CancelInv, TypeOK, CallerInv, JournalInv, Caller, Holding, Past, Statuses, Ends,
                Turns, TreeGone, process
    <3>8. Respects(c)
      BY <1>0, <3>1, <3>3, <3>4
         DEF Respects, CallerInv, JobInv, Holding, Past, Ends, Journal, NoAttempt, process
    <3>9. Counts(c)
      BY <1>0, <3>1, <3>3
         DEF Counts, Elected, CallerInv, Caller, IdleCaller, Past, Journal, NoAttempt
    <3> QED
      BY <3>5, <3>6, <3>7, <3>8, <3>9 DEF Own
  <2> QED
    BY <1>0, <1>1, <2>1, <2>2, <2>3 DEF Elect, Unlock, Throws, Answer, Goes
<1> QED
  BY <1>1

\* A queued record is cancelled only after its stop is durable and its runner is gone.
LEMMA QueuedCommand ==
  ASSUME CancelInv, NEW c \in Callers,
         PersistQueuedStop(c) \/ SettleUnclaimed(c) \/ SettleClaimed(c)
  PROVE  Own(c)
<1> DEFINE p == caller[c]
<1>0. /\ p \in Caller /\ CallerInv(c) /\ journal \in Journal
      /\ JobInv /\ JournalInv /\ CancelledIsClean
  BY DEF CancelInv, TypeOK
<1> USE CancelAssumption DEF At
<1>1. CASE PersistQueuedStop(c)
  <2>1. CASE job.status = "queued"
    <3>1. /\ Becomes(c, [p EXCEPT !.step = "queued"])
          /\ p.step = "act" /\ job' = [job EXCEPT !.intent = TRUE] /\ job.status = "queued"
          /\ UNCHANGED <<process, turn, journal, lock>> /\ NoFault
      BY <1>0, <1>1, <2>1 DEF PersistQueuedStop, NoFault, Throws, Unlock, Goes
    <3>2. [p EXCEPT !.step = "queued"] \in Caller
      BY <1>0, <3>1 DEF Caller, Steps, JournalInv, Journal, NoAttempt
    <3>3. /\ caller' \in [Callers -> Caller] /\ caller'[c] = [p EXCEPT !.step = "queued"]
          /\ \E q \in Caller : caller' = [caller EXCEPT ![c] = q]
      BY <3>1, <3>2, Moves
    <3>4. TypeOK'
      <4>1. /\ job' \in [status: Statuses, intent: BOOLEAN, claim: BOOLEAN, boundary: BOOLEAN]
            /\ faults' \in 0..MaxFaults /\ journal' \in Journal
        BY <1>0, <3>1, Faulty
           DEF CancelInv, TypeOK, JobInv, JournalInv, CallerInv, Past, Statuses, Ends, Turns,
               Journal, AttemptStatuses, NoAttempt
      <4> QED
        BY <3>1, <3>3, <4>1 DEF CancelInv, TypeOK, Turns, process
    <3>5. JobInv' /\ JournalInv' /\ CancelledIsClean'
      BY <1>0, <3>1
         DEF CancelInv, TypeOK, CallerInv, JobInv, JournalInv, JournalIsBacked, CancelledIsClean,
                TreeGone,
             Past, Statuses, Ends, Turns, process
    <3>6. CallerInv(c)'
      BY <1>0, <3>1, <3>3
         DEF CancelInv, TypeOK, CallerInv, JournalInv, Caller, Holding, Past, Statuses, Ends,
                Turns, TreeGone, process
    <3>7. Respects(c)
      BY <1>0, <3>1, <3>3
         DEF Respects, CallerInv, JobInv, Holding, Past, Ends, Journal, NoAttempt, process
    <3>8. Counts(c)
      BY <1>0, <3>1, <3>3
         DEF Counts, Elected, CallerInv, Caller, IdleCaller, Past, Journal, NoAttempt
    <3> QED
      BY <3>4, <3>5, <3>6, <3>7, <3>8 DEF Own
  <2>2. CASE job.status # "queued"
    <3>1. /\ Becomes(c, [IdleCaller EXCEPT !.answer = "error"])
          /\ p.step = "act"
          /\ UNCHANGED <<job, process, turn, journal>> /\ NoFault
          /\ lock' \in {lock, "free"} /\ (lock' # lock => lock = c)
      BY <1>0, <1>1, <2>2 DEF PersistQueuedStop, NoFault, Throws, Unlock, Answer
    <3>2. "error" \in Answers /\ [IdleCaller EXCEPT !.answer = "error"] \in Caller
      BY <1>0, <3>1, Answered DEF CancelInv, TypeOK, Answers, Statuses, Ends, CallerInv
    <3>3. /\ caller' \in [Callers -> Caller] /\ caller'[c] = [IdleCaller EXCEPT !.answer = "error"]
          /\ \E q \in Caller : caller' = [caller EXCEPT ![c] = q]
      BY <3>1, <3>2, Moves
    <3>4. TypeOK'
      <4>1. /\ job' \in [status: Statuses, intent: BOOLEAN, claim: BOOLEAN, boundary: BOOLEAN]
            /\ faults' \in 0..MaxFaults /\ journal' \in Journal
        BY <1>0, <3>1, Faulty
           DEF CancelInv, TypeOK, JobInv, JournalInv, CallerInv, Past, Statuses, Ends, Turns,
               Journal, AttemptStatuses, NoAttempt
      <4> QED
        BY <3>1, <3>3, <4>1 DEF CancelInv, TypeOK, Turns, process
    <3>5. JobInv' /\ JournalInv' /\ CancelledIsClean'
      BY <1>0, <3>1
         DEF CancelInv, TypeOK, CallerInv, JobInv, JournalInv, JournalIsBacked, CancelledIsClean,
                TreeGone,
             Past, Statuses, Ends, Turns, process
    <3>6. CallerInv(c)'
      <4>1. "error" \in Statuses => "error" \in Ends /\ job'.status = "error"
        BY <1>0, <3>1 DEF CallerInv, Statuses, Ends
      <4> QED
        BY <3>2, <3>3, <4>1, AnswerKnown
    <3>7. Respects(c)
      BY <1>0, <3>1, <3>3
         DEF Respects, CallerInv, JobInv, Holding, Past, Ends, Journal, NoAttempt, process
    <3>8. Counts(c)
      BY <1>0, <3>1, <3>3
         DEF Counts, Elected, CallerInv, Caller, IdleCaller, Past, Journal, NoAttempt
    <3> QED
      BY <3>4, <3>5, <3>6, <3>7, <3>8 DEF Own
  <2> QED
    BY <1>0, <1>1, <2>1, <2>2 DEF PersistQueuedStop, NoFault, Throws, Unlock, Throws, Answer, Goes
<1>2. CASE SettleUnclaimed(c)
  <2>1. /\ Becomes(c, [p EXCEPT !.step = "record"])
        /\ p.step = "queued" /\ job' = [job EXCEPT !.status = "cancelled"] /\ ~ job.claim
        /\ UNCHANGED <<process, turn, journal, lock>> /\ NoFault
    BY <1>0, <1>2 DEF SettleUnclaimed, Move, Goes
  <2>2. [p EXCEPT !.step = "record"] \in Caller
    BY <1>0, <2>1 DEF Caller, Steps, JournalInv, Journal, NoAttempt
  <2>3. /\ caller' \in [Callers -> Caller] /\ caller'[c] = [p EXCEPT !.step = "record"]
        /\ \E q \in Caller : caller' = [caller EXCEPT ![c] = q]
    BY <2>1, <2>2, Moves
  <2>4. TypeOK'
    <3>1. /\ job' \in [status: Statuses, intent: BOOLEAN, claim: BOOLEAN, boundary: BOOLEAN]
          /\ faults' \in 0..MaxFaults /\ journal' \in Journal
      BY <1>0, <2>1, Faulty
         DEF CancelInv, TypeOK, JobInv, JournalInv, CallerInv, Past, Statuses, Ends, Turns,
             Journal, AttemptStatuses, NoAttempt
    <3> QED
      BY <2>1, <2>3, <3>1 DEF CancelInv, TypeOK, Turns, process
  <2>5. JobInv' /\ JournalInv' /\ CancelledIsClean'
    BY <1>0, <2>1
       DEF CancelInv, TypeOK, CallerInv, JobInv, JournalInv, JournalIsBacked, CancelledIsClean,
              TreeGone,
           Past, Statuses, Ends, Turns, process
  <2>6. CallerInv(c)'
    BY <1>0, <2>1, <2>3
       DEF CancelInv, TypeOK, CallerInv, JournalInv, Caller, Holding, Past, Statuses, Ends, Turns,
              TreeGone, process
  <2>7. Respects(c)
    BY <1>0, <2>1, <2>3
       DEF Respects, CallerInv, JobInv, Holding, Past, Ends, Journal, NoAttempt, process
  <2>8. Counts(c)
    BY <1>0, <2>1, <2>3 DEF Counts, Elected, CallerInv, Caller, IdleCaller, Past, Journal, NoAttempt
  <2> QED
    BY <2>4, <2>5, <2>6, <2>7, <2>8 DEF Own
<1>3. CASE SettleClaimed(c)
  <2>1. CASE Cleaned /\ NoFault /\ Move("cancelled") /\ Goes(c, "record") /\ UNCHANGED lock
    <3>1. /\ Becomes(c, [p EXCEPT !.step = "record"])
          /\ p.step = "queued" /\ job' = [job EXCEPT !.status = "cancelled"]
          /\ Cleaned /\ UNCHANGED <<turn, journal, lock>> /\ NoFault
      BY <1>0, <1>3, <2>1 DEF SettleClaimed, Move, Throws, Unlock, Goes
    <3>2. [p EXCEPT !.step = "record"] \in Caller
      BY <1>0, <3>1 DEF Caller, Steps, JournalInv, Journal, NoAttempt
    <3>3. /\ caller' \in [Callers -> Caller] /\ caller'[c] = [p EXCEPT !.step = "record"]
          /\ \E q \in Caller : caller' = [caller EXCEPT ![c] = q]
      BY <3>1, <3>2, Moves
    <3>4. /\ runner' \in RunnerSteps /\ strays' \in BOOLEAN
          /\ runner' \in {runner, "none", "gone"} /\ (runner' = "none" => runner = "none")
          /\ TreeGone => TreeGone'
          /\ Cleaned => TreeGone'
      BY <3>1, Cleaning DEF CancelInv
    <3>5. TypeOK'
      <4>1. /\ job' \in [status: Statuses, intent: BOOLEAN, claim: BOOLEAN, boundary: BOOLEAN]
            /\ faults' \in 0..MaxFaults /\ journal' \in Journal
        BY <1>0, <3>1, Faulty
           DEF CancelInv, TypeOK, JobInv, JournalInv, CallerInv, Past, Statuses, Ends, Turns,
               Journal, AttemptStatuses, NoAttempt
      <4> QED
        BY <3>1, <3>3, <3>4, <4>1 DEF CancelInv, TypeOK, Turns, process
    <3>6. JobInv' /\ JournalInv' /\ CancelledIsClean'
      BY <1>0, <3>1, <3>4
         DEF CancelInv, TypeOK, CallerInv, JobInv, JournalInv, JournalIsBacked, CancelledIsClean,
                TreeGone,
             Past, Statuses, Ends, Turns, process
    <3>7. CallerInv(c)'
      BY <1>0, <3>1, <3>3, <3>4
         DEF CancelInv, TypeOK, CallerInv, JournalInv, Caller, Holding, Past, Statuses, Ends,
                Turns, TreeGone, process
    <3>8. Respects(c)
      BY <1>0, <3>1, <3>3
         DEF Respects, CallerInv, JobInv, Holding, Past, Ends, Journal, NoAttempt, process
    <3>9. Counts(c)
      BY <1>0, <3>1, <3>3
         DEF Counts, Elected, CallerInv, Caller, IdleCaller, Past, Journal, NoAttempt
    <3> QED
      BY <3>5, <3>6, <3>7, <3>8, <3>9 DEF Own
  <2>2. CASE PartlyCleaned /\ Fault /\ UNCHANGED job /\ Throws(c)
    <3>1. /\ Becomes(c, [IdleCaller EXCEPT !.answer = "error"])
          /\ p.step = "queued" /\ UNCHANGED <<job, turn, journal>>
          /\ PartlyCleaned /\ Fault
          /\ lock' \in {lock, "free"} /\ (lock' # lock => lock = c)
      BY <1>0, <1>3, <2>2 DEF SettleClaimed, Move, Throws, Unlock, Answer
    <3>2. "error" \in Answers /\ [IdleCaller EXCEPT !.answer = "error"] \in Caller
      BY <1>0, <3>1, Answered DEF CancelInv, TypeOK, Answers, Statuses, Ends, CallerInv
    <3>3. /\ caller' \in [Callers -> Caller] /\ caller'[c] = [IdleCaller EXCEPT !.answer = "error"]
          /\ \E q \in Caller : caller' = [caller EXCEPT ![c] = q]
      BY <3>1, <3>2, Moves
    <3>4. /\ runner' \in RunnerSteps /\ strays' \in BOOLEAN
          /\ runner' \in {runner, "none", "gone"} /\ (runner' = "none" => runner = "none")
          /\ TreeGone => TreeGone'
          /\ Cleaned => TreeGone'
      BY <3>1, Cleaning DEF CancelInv
    <3>5. TypeOK'
      <4>1. /\ job' \in [status: Statuses, intent: BOOLEAN, claim: BOOLEAN, boundary: BOOLEAN]
            /\ faults' \in 0..MaxFaults /\ journal' \in Journal
        BY <1>0, <3>1, Faulty
           DEF CancelInv, TypeOK, JobInv, JournalInv, CallerInv, Past, Statuses, Ends, Turns,
               Journal, AttemptStatuses, NoAttempt
      <4> QED
        BY <3>1, <3>3, <3>4, <4>1 DEF CancelInv, TypeOK, Turns, process
    <3>6. JobInv' /\ JournalInv' /\ CancelledIsClean'
      BY <1>0, <3>1, <3>4
         DEF CancelInv, TypeOK, CallerInv, JobInv, JournalInv, JournalIsBacked, CancelledIsClean,
                TreeGone,
             Past, Statuses, Ends, Turns, process
    <3>7. CallerInv(c)'
      <4>1. "error" \in Statuses => "error" \in Ends /\ job'.status = "error"
        BY <1>0, <3>1 DEF CallerInv, Statuses, Ends
      <4> QED
        BY <3>2, <3>3, <4>1, AnswerKnown
    <3>8. Respects(c)
      BY <1>0, <3>1, <3>3
         DEF Respects, CallerInv, JobInv, Holding, Past, Ends, Journal, NoAttempt, process
    <3>9. Counts(c)
      BY <1>0, <3>1, <3>3
         DEF Counts, Elected, CallerInv, Caller, IdleCaller, Past, Journal, NoAttempt
    <3> QED
      BY <3>5, <3>6, <3>7, <3>8, <3>9 DEF Own
  <2> QED
    BY <1>0, <1>3, <2>1, <2>2 DEF SettleClaimed, Move, Throws, Unlock, Throws, Answer, Goes
<1> QED
  BY <1>1, <1>2, <1>3

\* The stop of a turn, under the lock and over the cancelling record.
LEMMA StoppingCommand ==
  ASSUME CancelInv, NEW c \in Callers,
         FinalizePending(c) \/ ReadBeforeStop(c) \/ KeepSharedStop(c) \/ SendStop(c) \/ CleanRunner(c)
  PROVE  Own(c)
<1> DEFINE p == caller[c]
<1>0. /\ p \in Caller /\ CallerInv(c) /\ journal \in Journal
      /\ JobInv /\ JournalInv /\ CancelledIsClean
  BY DEF CancelInv, TypeOK
<1> USE CancelAssumption DEF At
<1>1. CASE FinalizePending(c)
  <2>1. /\ Becomes(c, [p EXCEPT !.step = "record"])
        /\ p.step = "act" /\ p.view = "cancelling" /\ p.final /\ job.boundary
        /\ job' = [job EXCEPT !.status = "cancelled"]
        /\ UNCHANGED <<process, turn, journal, lock>> /\ NoFault
    BY <1>0, <1>1 DEF FinalizePending, Move, Goes
  <2>2. [p EXCEPT !.step = "record"] \in Caller
    BY <1>0, <2>1 DEF Caller, Steps, JournalInv, Journal, NoAttempt
  <2>3. /\ caller' \in [Callers -> Caller] /\ caller'[c] = [p EXCEPT !.step = "record"]
        /\ \E q \in Caller : caller' = [caller EXCEPT ![c] = q]
    BY <2>1, <2>2, Moves
  <2>4. TypeOK'
    <3>1. /\ job' \in [status: Statuses, intent: BOOLEAN, claim: BOOLEAN, boundary: BOOLEAN]
          /\ faults' \in 0..MaxFaults /\ journal' \in Journal
      BY <1>0, <2>1, Faulty
         DEF CancelInv, TypeOK, JobInv, JournalInv, CallerInv, Past, Statuses, Ends, Turns,
             Journal, AttemptStatuses, NoAttempt
    <3> QED
      BY <2>1, <2>3, <3>1 DEF CancelInv, TypeOK, Turns, process
  <2>5. JobInv' /\ JournalInv' /\ CancelledIsClean'
    BY <1>0, <2>1
       DEF CancelInv, TypeOK, CallerInv, JobInv, JournalInv, JournalIsBacked, CancelledIsClean,
              TreeGone,
           Past, Statuses, Ends, Turns, process
  <2>6. CallerInv(c)'
    BY <1>0, <2>1, <2>3
       DEF CancelInv, TypeOK, CallerInv, JournalInv, Caller, Holding, Past, Statuses, Ends, Turns,
              TreeGone, process
  <2>7. Respects(c)
    BY <1>0, <2>1, <2>3
       DEF Respects, CallerInv, JobInv, Holding, Past, Ends, Journal, NoAttempt, process
  <2>8. Counts(c)
    BY <1>0, <2>1, <2>3 DEF Counts, Elected, CallerInv, Caller, IdleCaller, Past, Journal, NoAttempt
  <2> QED
    BY <2>4, <2>5, <2>6, <2>7, <2>8 DEF Own
<1>2. CASE ReadBeforeStop(c)
  <2>1. CASE Move("failed") /\ Goes(c, "record") /\ turn = "failed"
    <3>1. /\ Becomes(c, [p EXCEPT !.step = "record"])
          /\ p.step = "act" /\ p.view = "cancelling" /\ job' = [job EXCEPT !.status = "failed"]
          /\ UNCHANGED <<process, turn, journal, lock>> /\ NoFault
      BY <1>0, <1>2, <2>1 DEF ReadBeforeStop, Move, Goes
    <3>2. [p EXCEPT !.step = "record"] \in Caller
      BY <1>0, <3>1 DEF Caller, Steps, JournalInv, Journal, NoAttempt
    <3>3. /\ caller' \in [Callers -> Caller] /\ caller'[c] = [p EXCEPT !.step = "record"]
          /\ \E q \in Caller : caller' = [caller EXCEPT ![c] = q]
      BY <3>1, <3>2, Moves
    <3>4. TypeOK'
      <4>1. /\ job' \in [status: Statuses, intent: BOOLEAN, claim: BOOLEAN, boundary: BOOLEAN]
            /\ faults' \in 0..MaxFaults /\ journal' \in Journal
        BY <1>0, <3>1, Faulty
           DEF CancelInv, TypeOK, JobInv, JournalInv, CallerInv, Past, Statuses, Ends, Turns,
               Journal, AttemptStatuses, NoAttempt
      <4> QED
        BY <3>1, <3>3, <4>1 DEF CancelInv, TypeOK, Turns, process
    <3>5. JobInv' /\ JournalInv' /\ CancelledIsClean'
      BY <1>0, <3>1
         DEF CancelInv, TypeOK, CallerInv, JobInv, JournalInv, JournalIsBacked, CancelledIsClean,
                TreeGone,
             Past, Statuses, Ends, Turns, process
    <3>6. CallerInv(c)'
      BY <1>0, <3>1, <3>3
         DEF CancelInv, TypeOK, CallerInv, JournalInv, Caller, Holding, Past, Statuses, Ends,
                Turns, TreeGone, process
    <3>7. Respects(c)
      BY <1>0, <3>1, <3>3
         DEF Respects, CallerInv, JobInv, Holding, Past, Ends, Journal, NoAttempt, process
    <3>8. Counts(c)
      BY <1>0, <3>1, <3>3
         DEF Counts, Elected, CallerInv, Caller, IdleCaller, Past, Journal, NoAttempt
    <3> QED
      BY <3>4, <3>5, <3>6, <3>7, <3>8 DEF Own
  <2>2. CASE Goes(c, "stop") /\ UNCHANGED job
    <3>1. /\ Becomes(c, [p EXCEPT !.step = "stop"])
          /\ p.step = "act" /\ p.view = "cancelling"
          /\ UNCHANGED <<job, process, turn, journal, lock>> /\ NoFault
      BY <1>0, <1>2, <2>2 DEF ReadBeforeStop, Move, Goes
    <3>2. [p EXCEPT !.step = "stop"] \in Caller
      BY <1>0, <3>1 DEF Caller, Steps, JournalInv, Journal, NoAttempt
    <3>3. /\ caller' \in [Callers -> Caller] /\ caller'[c] = [p EXCEPT !.step = "stop"]
          /\ \E q \in Caller : caller' = [caller EXCEPT ![c] = q]
      BY <3>1, <3>2, Moves
    <3>4. TypeOK'
      <4>1. /\ job' \in [status: Statuses, intent: BOOLEAN, claim: BOOLEAN, boundary: BOOLEAN]
            /\ faults' \in 0..MaxFaults /\ journal' \in Journal
        BY <1>0, <3>1, Faulty
           DEF CancelInv, TypeOK, JobInv, JournalInv, CallerInv, Past, Statuses, Ends, Turns,
               Journal, AttemptStatuses, NoAttempt
      <4> QED
        BY <3>1, <3>3, <4>1 DEF CancelInv, TypeOK, Turns, process
    <3>5. JobInv' /\ JournalInv' /\ CancelledIsClean'
      BY <1>0, <3>1
         DEF CancelInv, TypeOK, CallerInv, JobInv, JournalInv, JournalIsBacked, CancelledIsClean,
                TreeGone,
             Past, Statuses, Ends, Turns, process
    <3>6. CallerInv(c)'
      BY <1>0, <3>1, <3>3
         DEF CancelInv, TypeOK, CallerInv, JournalInv, Caller, Holding, Past, Statuses, Ends,
                Turns, TreeGone, process
    <3>7. Respects(c)
      BY <1>0, <3>1, <3>3
         DEF Respects, CallerInv, JobInv, Holding, Past, Ends, Journal, NoAttempt, process
    <3>8. Counts(c)
      BY <1>0, <3>1, <3>3
         DEF Counts, Elected, CallerInv, Caller, IdleCaller, Past, Journal, NoAttempt
    <3> QED
      BY <3>4, <3>5, <3>6, <3>7, <3>8 DEF Own
  <2> QED
    BY <1>0, <1>2, <2>1, <2>2 DEF ReadBeforeStop, Move, Throws, Answer, Goes
<1>3. CASE KeepSharedStop(c)
  <2>1. /\ Becomes(c, [p EXCEPT !.step = "retain"])
        /\ p.step = "stop"
        /\ UNCHANGED <<job, process, turn, journal, lock>> /\ NoFault
    BY <1>0, <1>3 DEF KeepSharedStop, Goes
  <2>2. [p EXCEPT !.step = "retain"] \in Caller
    BY <1>0, <2>1 DEF Caller, Steps, JournalInv, Journal, NoAttempt
  <2>3. /\ caller' \in [Callers -> Caller] /\ caller'[c] = [p EXCEPT !.step = "retain"]
        /\ \E q \in Caller : caller' = [caller EXCEPT ![c] = q]
    BY <2>1, <2>2, Moves
  <2>4. TypeOK'
    <3>1. /\ job' \in [status: Statuses, intent: BOOLEAN, claim: BOOLEAN, boundary: BOOLEAN]
          /\ faults' \in 0..MaxFaults /\ journal' \in Journal
      BY <1>0, <2>1, Faulty
         DEF CancelInv, TypeOK, JobInv, JournalInv, CallerInv, Past, Statuses, Ends, Turns,
             Journal, AttemptStatuses, NoAttempt
    <3> QED
      BY <2>1, <2>3, <3>1 DEF CancelInv, TypeOK, Turns, process
  <2>5. JobInv' /\ JournalInv' /\ CancelledIsClean'
    BY <1>0, <2>1
       DEF CancelInv, TypeOK, CallerInv, JobInv, JournalInv, JournalIsBacked, CancelledIsClean,
              TreeGone,
           Past, Statuses, Ends, Turns, process
  <2>6. CallerInv(c)'
    BY <1>0, <2>1, <2>3
       DEF CancelInv, TypeOK, CallerInv, JournalInv, Caller, Holding, Past, Statuses, Ends, Turns,
              TreeGone, process
  <2>7. Respects(c)
    BY <1>0, <2>1, <2>3
       DEF Respects, CallerInv, JobInv, Holding, Past, Ends, Journal, NoAttempt, process
  <2>8. Counts(c)
    BY <1>0, <2>1, <2>3 DEF Counts, Elected, CallerInv, Caller, IdleCaller, Past, Journal, NoAttempt
  <2> QED
    BY <2>4, <2>5, <2>6, <2>7, <2>8 DEF Own
<1>4. CASE SendStop(c)
  <2>1. CASE Goes(c, "clean") /\ NoFault /\ UNCHANGED process
             /\ turn' \in {turn, IF turn = "active" THEN "interrupted" ELSE turn}
    <3>1. /\ Becomes(c, [p EXCEPT !.step = "clean"])
          /\ p.step = "stop" /\ turn' \in {turn, IF turn = "active" THEN "interrupted" ELSE turn}
          /\ UNCHANGED <<job, process, journal, lock>> /\ NoFault
      BY <1>0, <1>4, <2>1 DEF SendStop, Goes
    <3>2. [p EXCEPT !.step = "clean"] \in Caller
      BY <1>0, <3>1 DEF Caller, Steps, JournalInv, Journal, NoAttempt
    <3>3. /\ caller' \in [Callers -> Caller] /\ caller'[c] = [p EXCEPT !.step = "clean"]
          /\ \E q \in Caller : caller' = [caller EXCEPT ![c] = q]
      BY <3>1, <3>2, Moves
    <3>4. TypeOK'
      <4>1. /\ job' \in [status: Statuses, intent: BOOLEAN, claim: BOOLEAN, boundary: BOOLEAN]
            /\ faults' \in 0..MaxFaults /\ journal' \in Journal
        BY <1>0, <3>1, Faulty
           DEF CancelInv, TypeOK, JobInv, JournalInv, CallerInv, Past, Statuses, Ends, Turns,
               Journal, AttemptStatuses, NoAttempt
      <4> QED
        BY <3>1, <3>3, <4>1 DEF CancelInv, TypeOK, Turns, process
    <3>5. JobInv' /\ JournalInv' /\ CancelledIsClean'
      BY <1>0, <3>1
         DEF CancelInv, TypeOK, CallerInv, JobInv, JournalInv, JournalIsBacked, CancelledIsClean,
                TreeGone,
             Past, Statuses, Ends, Turns, process
    <3>6. CallerInv(c)'
      BY <1>0, <3>1, <3>3
         DEF CancelInv, TypeOK, CallerInv, JournalInv, Caller, Holding, Past, Statuses, Ends,
                Turns, TreeGone, process
    <3>7. Respects(c)
      BY <1>0, <3>1, <3>3
         DEF Respects, CallerInv, JobInv, Holding, Past, Ends, Journal, NoAttempt, process
    <3>8. Counts(c)
      BY <1>0, <3>1, <3>3
         DEF Counts, Elected, CallerInv, Caller, IdleCaller, Past, Journal, NoAttempt
    <3> QED
      BY <3>4, <3>5, <3>6, <3>7, <3>8 DEF Own
  <2>2. CASE Goes(c, "retain") /\ UNCHANGED turn /\ Fault /\ (Cleaned \/ PartlyCleaned)
    <3>1. /\ Becomes(c, [p EXCEPT !.step = "retain"])
          /\ p.step = "stop" /\ (Cleaned \/ PartlyCleaned)
          /\ UNCHANGED <<job, turn, journal, lock>> /\ Fault
      BY <1>0, <1>4, <2>2 DEF SendStop, Goes
    <3>2. [p EXCEPT !.step = "retain"] \in Caller
      BY <1>0, <3>1 DEF Caller, Steps, JournalInv, Journal, NoAttempt
    <3>3. /\ caller' \in [Callers -> Caller] /\ caller'[c] = [p EXCEPT !.step = "retain"]
          /\ \E q \in Caller : caller' = [caller EXCEPT ![c] = q]
      BY <3>1, <3>2, Moves
    <3>4. /\ runner' \in RunnerSteps /\ strays' \in BOOLEAN
          /\ runner' \in {runner, "none", "gone"} /\ (runner' = "none" => runner = "none")
          /\ TreeGone => TreeGone'
          /\ Cleaned => TreeGone'
      BY <3>1, Cleaning DEF CancelInv
    <3>5. TypeOK'
      <4>1. /\ job' \in [status: Statuses, intent: BOOLEAN, claim: BOOLEAN, boundary: BOOLEAN]
            /\ faults' \in 0..MaxFaults /\ journal' \in Journal
        BY <1>0, <3>1, Faulty
           DEF CancelInv, TypeOK, JobInv, JournalInv, CallerInv, Past, Statuses, Ends, Turns,
               Journal, AttemptStatuses, NoAttempt
      <4> QED
        BY <3>1, <3>3, <3>4, <4>1 DEF CancelInv, TypeOK, Turns, process
    <3>6. JobInv' /\ JournalInv' /\ CancelledIsClean'
      BY <1>0, <3>1, <3>4
         DEF CancelInv, TypeOK, CallerInv, JobInv, JournalInv, JournalIsBacked, CancelledIsClean,
                TreeGone,
             Past, Statuses, Ends, Turns, process
    <3>7. CallerInv(c)'
      BY <1>0, <3>1, <3>3, <3>4
         DEF CancelInv, TypeOK, CallerInv, JournalInv, Caller, Holding, Past, Statuses, Ends,
                Turns, TreeGone, process
    <3>8. Respects(c)
      BY <1>0, <3>1, <3>3
         DEF Respects, CallerInv, JobInv, Holding, Past, Ends, Journal, NoAttempt, process
    <3>9. Counts(c)
      BY <1>0, <3>1, <3>3
         DEF Counts, Elected, CallerInv, Caller, IdleCaller, Past, Journal, NoAttempt
    <3> QED
      BY <3>5, <3>6, <3>7, <3>8, <3>9 DEF Own
  <2> QED
    BY <1>0, <1>4, <2>1, <2>2 DEF SendStop, Throws, Answer, Goes
<1>5. CASE CleanRunner(c)
  <2>1. CASE Cleaned /\ Goes(c, "observe") /\ NoFault
    <3>1. /\ Becomes(c, [p EXCEPT !.step = "observe"])
          /\ p.step = "clean" /\ Cleaned
          /\ UNCHANGED <<job, turn, journal, lock>> /\ NoFault
      BY <1>0, <1>5, <2>1 DEF CleanRunner, Goes
    <3>2. [p EXCEPT !.step = "observe"] \in Caller
      BY <1>0, <3>1 DEF Caller, Steps, JournalInv, Journal, NoAttempt
    <3>3. /\ caller' \in [Callers -> Caller] /\ caller'[c] = [p EXCEPT !.step = "observe"]
          /\ \E q \in Caller : caller' = [caller EXCEPT ![c] = q]
      BY <3>1, <3>2, Moves
    <3>4. /\ runner' \in RunnerSteps /\ strays' \in BOOLEAN
          /\ runner' \in {runner, "none", "gone"} /\ (runner' = "none" => runner = "none")
          /\ TreeGone => TreeGone'
          /\ Cleaned => TreeGone'
      BY <3>1, Cleaning DEF CancelInv
    <3>5. TypeOK'
      <4>1. /\ job' \in [status: Statuses, intent: BOOLEAN, claim: BOOLEAN, boundary: BOOLEAN]
            /\ faults' \in 0..MaxFaults /\ journal' \in Journal
        BY <1>0, <3>1, Faulty
           DEF CancelInv, TypeOK, JobInv, JournalInv, CallerInv, Past, Statuses, Ends, Turns,
               Journal, AttemptStatuses, NoAttempt
      <4> QED
        BY <3>1, <3>3, <3>4, <4>1 DEF CancelInv, TypeOK, Turns, process
    <3>6. JobInv' /\ JournalInv' /\ CancelledIsClean'
      BY <1>0, <3>1, <3>4
         DEF CancelInv, TypeOK, CallerInv, JobInv, JournalInv, JournalIsBacked, CancelledIsClean,
                TreeGone,
             Past, Statuses, Ends, Turns, process
    <3>7. CallerInv(c)'
      BY <1>0, <3>1, <3>3, <3>4
         DEF CancelInv, TypeOK, CallerInv, JournalInv, Caller, Holding, Past, Statuses, Ends,
                Turns, TreeGone, process
    <3>8. Respects(c)
      BY <1>0, <3>1, <3>3
         DEF Respects, CallerInv, JobInv, Holding, Past, Ends, Journal, NoAttempt, process
    <3>9. Counts(c)
      BY <1>0, <3>1, <3>3
         DEF Counts, Elected, CallerInv, Caller, IdleCaller, Past, Journal, NoAttempt
    <3> QED
      BY <3>5, <3>6, <3>7, <3>8, <3>9 DEF Own
  <2>2. CASE PartlyCleaned /\ Goes(c, "retain") /\ Fault
    <3>1. /\ Becomes(c, [p EXCEPT !.step = "retain"])
          /\ p.step = "clean" /\ PartlyCleaned
          /\ UNCHANGED <<job, turn, journal, lock>> /\ Fault
      BY <1>0, <1>5, <2>2 DEF CleanRunner, Goes
    <3>2. [p EXCEPT !.step = "retain"] \in Caller
      BY <1>0, <3>1 DEF Caller, Steps, JournalInv, Journal, NoAttempt
    <3>3. /\ caller' \in [Callers -> Caller] /\ caller'[c] = [p EXCEPT !.step = "retain"]
          /\ \E q \in Caller : caller' = [caller EXCEPT ![c] = q]
      BY <3>1, <3>2, Moves
    <3>4. /\ runner' \in RunnerSteps /\ strays' \in BOOLEAN
          /\ runner' \in {runner, "none", "gone"} /\ (runner' = "none" => runner = "none")
          /\ TreeGone => TreeGone'
          /\ Cleaned => TreeGone'
      BY <3>1, Cleaning DEF CancelInv
    <3>5. TypeOK'
      <4>1. /\ job' \in [status: Statuses, intent: BOOLEAN, claim: BOOLEAN, boundary: BOOLEAN]
            /\ faults' \in 0..MaxFaults /\ journal' \in Journal
        BY <1>0, <3>1, Faulty
           DEF CancelInv, TypeOK, JobInv, JournalInv, CallerInv, Past, Statuses, Ends, Turns,
               Journal, AttemptStatuses, NoAttempt
      <4> QED
        BY <3>1, <3>3, <3>4, <4>1 DEF CancelInv, TypeOK, Turns, process
    <3>6. JobInv' /\ JournalInv' /\ CancelledIsClean'
      BY <1>0, <3>1, <3>4
         DEF CancelInv, TypeOK, CallerInv, JobInv, JournalInv, JournalIsBacked, CancelledIsClean,
                TreeGone,
             Past, Statuses, Ends, Turns, process
    <3>7. CallerInv(c)'
      BY <1>0, <3>1, <3>3, <3>4
         DEF CancelInv, TypeOK, CallerInv, JournalInv, Caller, Holding, Past, Statuses, Ends,
                Turns, TreeGone, process
    <3>8. Respects(c)
      BY <1>0, <3>1, <3>3
         DEF Respects, CallerInv, JobInv, Holding, Past, Ends, Journal, NoAttempt, process
    <3>9. Counts(c)
      BY <1>0, <3>1, <3>3
         DEF Counts, Elected, CallerInv, Caller, IdleCaller, Past, Journal, NoAttempt
    <3> QED
      BY <3>5, <3>6, <3>7, <3>8, <3>9 DEF Own
  <2> QED
    BY <1>0, <1>5, <2>1, <2>2 DEF CleanRunner, Throws, Answer, Goes
<1> QED
  BY <1>1, <1>2, <1>3, <1>4, <1>5

\* The end of an attempt and of its command.
LEMMA ClosingCommand ==
  ASSUME CancelInv, NEW c \in Callers,
         ObserveStop(c) \/ Retain(c) \/ RecordCancelled(c) \/ Release(c) \/ CallerDies(c)
  PROVE  Own(c)
<1> DEFINE p == caller[c]
<1>0. /\ p \in Caller /\ CallerInv(c) /\ journal \in Journal
      /\ JobInv /\ JournalInv /\ CancelledIsClean
  BY DEF CancelInv, TypeOK
<1> USE CancelAssumption DEF At
<1>1. CASE ObserveStop(c)
  <2>1. CASE Goes(c, "retain") /\ NoFault /\ UNCHANGED <<job, journal, lock>>
    <3>1. /\ Becomes(c, [p EXCEPT !.step = "retain"])
          /\ p.step = "observe"
          /\ UNCHANGED <<job, process, turn, journal, lock>> /\ NoFault
      BY <1>0, <1>1, <2>1 DEF ObserveStop, Move, Throws, Unlock, Goes
    <3>2. [p EXCEPT !.step = "retain"] \in Caller
      BY <1>0, <3>1 DEF Caller, Steps, JournalInv, Journal, NoAttempt
    <3>3. /\ caller' \in [Callers -> Caller] /\ caller'[c] = [p EXCEPT !.step = "retain"]
          /\ \E q \in Caller : caller' = [caller EXCEPT ![c] = q]
      BY <3>1, <3>2, Moves
    <3>4. TypeOK'
      <4>1. /\ job' \in [status: Statuses, intent: BOOLEAN, claim: BOOLEAN, boundary: BOOLEAN]
            /\ faults' \in 0..MaxFaults /\ journal' \in Journal
        BY <1>0, <3>1, Faulty
           DEF CancelInv, TypeOK, JobInv, JournalInv, CallerInv, Past, Statuses, Ends, Turns,
               Journal, AttemptStatuses, NoAttempt
      <4> QED
        BY <3>1, <3>3, <4>1 DEF CancelInv, TypeOK, Turns, process
    <3>5. JobInv' /\ JournalInv' /\ CancelledIsClean'
      BY <1>0, <3>1
         DEF CancelInv, TypeOK, CallerInv, JobInv, JournalInv, JournalIsBacked, CancelledIsClean,
                TreeGone,
             Past, Statuses, Ends, Turns, process
    <3>6. CallerInv(c)'
      BY <1>0, <3>1, <3>3
         DEF CancelInv, TypeOK, CallerInv, JournalInv, Caller, Holding, Past, Statuses, Ends,
                Turns, TreeGone, process
    <3>7. Respects(c)
      BY <1>0, <3>1, <3>3
         DEF Respects, CallerInv, JobInv, Holding, Past, Ends, Journal, NoAttempt, process
    <3>8. Counts(c)
      BY <1>0, <3>1, <3>3
         DEF Counts, Elected, CallerInv, Caller, IdleCaller, Past, Journal, NoAttempt
    <3> QED
      BY <3>4, <3>5, <3>6, <3>7, <3>8 DEF Own
  <2>2. CASE /\ job.boundary /\ turn # "active" /\ NoFault
             /\ Move(IF turn = "succeeded" THEN "succeeded" ELSE "cancelled")
             /\ Goes(c, "record") /\ UNCHANGED <<journal, lock>>
    <3>1. /\ Becomes(c, [p EXCEPT !.step = "record"])
          /\ p.step = "observe" /\ turn # "active"
          /\ job' = [job EXCEPT !.status = IF turn = "succeeded" THEN "succeeded" ELSE "cancelled"]
          /\ UNCHANGED <<process, turn, journal, lock>> /\ NoFault
      BY <1>0, <1>1, <2>2 DEF ObserveStop, Move, Throws, Unlock, Goes
    <3>2. [p EXCEPT !.step = "record"] \in Caller
      BY <1>0, <3>1 DEF Caller, Steps, JournalInv, Journal, NoAttempt
    <3>3. /\ caller' \in [Callers -> Caller] /\ caller'[c] = [p EXCEPT !.step = "record"]
          /\ \E q \in Caller : caller' = [caller EXCEPT ![c] = q]
      BY <3>1, <3>2, Moves
    <3>4. TypeOK'
      <4>1. /\ job' \in [status: Statuses, intent: BOOLEAN, claim: BOOLEAN, boundary: BOOLEAN]
            /\ faults' \in 0..MaxFaults /\ journal' \in Journal
        BY <1>0, <3>1, Faulty
           DEF CancelInv, TypeOK, JobInv, JournalInv, CallerInv, Past, Statuses, Ends, Turns,
               Journal, AttemptStatuses, NoAttempt
      <4> QED
        BY <3>1, <3>3, <4>1 DEF CancelInv, TypeOK, Turns, process
    <3>5. JobInv' /\ JournalInv' /\ CancelledIsClean'
      BY <1>0, <3>1
         DEF CancelInv, TypeOK, CallerInv, JobInv, JournalInv, JournalIsBacked, CancelledIsClean,
                TreeGone,
             Past, Statuses, Ends, Turns, process
    <3>6. CallerInv(c)'
      BY <1>0, <3>1, <3>3
         DEF CancelInv, TypeOK, CallerInv, JournalInv, Caller, Holding, Past, Statuses, Ends,
                Turns, TreeGone, process
    <3>7. Respects(c)
      BY <1>0, <3>1, <3>3
         DEF Respects, CallerInv, JobInv, Holding, Past, Ends, Journal, NoAttempt, process
    <3>8. Counts(c)
      BY <1>0, <3>1, <3>3
         DEF Counts, Elected, CallerInv, Caller, IdleCaller, Past, Journal, NoAttempt
    <3> QED
      BY <3>4, <3>5, <3>6, <3>7, <3>8 DEF Own
  <2>3. CASE /\ turn \in {"failed", "interrupted"} /\ Fault /\ Throws(c) /\ UNCHANGED job
             /\ journal' = [journal EXCEPT !.status = "finalize-pending"]
    <3>1. /\ Becomes(c, [IdleCaller EXCEPT !.answer = "error"])
          /\ p.step = "observe" /\ turn # "active"
          /\ journal' = [journal EXCEPT !.status = "finalize-pending"]
          /\ UNCHANGED <<job, process, turn>> /\ Fault
          /\ lock' \in {lock, "free"} /\ (lock' # lock => lock = c)
      BY <1>0, <1>1, <2>3 DEF ObserveStop, Move, Throws, Unlock, Answer
    <3>2. "error" \in Answers /\ [IdleCaller EXCEPT !.answer = "error"] \in Caller
      BY <1>0, <3>1, Answered DEF CancelInv, TypeOK, Answers, Statuses, Ends, CallerInv
    <3>3. /\ caller' \in [Callers -> Caller] /\ caller'[c] = [IdleCaller EXCEPT !.answer = "error"]
          /\ \E q \in Caller : caller' = [caller EXCEPT ![c] = q]
      BY <3>1, <3>2, Moves
    <3>4. TypeOK'
      <4>1. /\ job' \in [status: Statuses, intent: BOOLEAN, claim: BOOLEAN, boundary: BOOLEAN]
            /\ faults' \in 0..MaxFaults /\ journal' \in Journal
        BY <1>0, <3>1, Faulty
           DEF CancelInv, TypeOK, JobInv, JournalInv, CallerInv, Past, Statuses, Ends, Turns,
               Journal, AttemptStatuses, NoAttempt
      <4> QED
        BY <3>1, <3>3, <4>1 DEF CancelInv, TypeOK, Turns, process
    <3>5. JobInv' /\ JournalInv' /\ CancelledIsClean'
      BY <1>0, <3>1
         DEF CancelInv, TypeOK, CallerInv, JobInv, JournalInv, JournalIsBacked, CancelledIsClean,
                TreeGone,
             Past, Statuses, Ends, Turns, process
    <3>6. CallerInv(c)'
      <4>1. "error" \in Statuses => "error" \in Ends /\ job'.status = "error"
        BY <1>0, <3>1 DEF CallerInv, Statuses, Ends
      <4> QED
        BY <3>2, <3>3, <4>1, AnswerKnown
    <3>7. Respects(c)
      BY <1>0, <3>1, <3>3
         DEF Respects, CallerInv, JobInv, Holding, Past, Ends, Journal, NoAttempt, process
    <3>8. Counts(c)
      BY <1>0, <3>1, <3>3
         DEF Counts, Elected, CallerInv, Caller, IdleCaller, Past, Journal, NoAttempt
    <3> QED
      BY <3>4, <3>5, <3>6, <3>7, <3>8 DEF Own
  <2> QED
    BY <1>0, <1>1, <2>1, <2>2, <2>3 DEF ObserveStop, Move, Throws, Unlock, Throws, Answer, Goes
<1>2. CASE Retain(c)
  <2>1. /\ Becomes(c, [p EXCEPT !.step = "release"])
        /\ p.step = "retain" /\ journal' = [journal EXCEPT !.status = "failed-pending-release"]
        /\ UNCHANGED <<job, process, turn>> /\ NoFault
        /\ lock' \in {lock, "free"} /\ (lock' # lock => lock = c)
    BY <1>0, <1>2 DEF Retain, Unlock, Goes
  <2>2. [p EXCEPT !.step = "release"] \in Caller
    BY <1>0, <2>1 DEF Caller, Steps, JournalInv, Journal, NoAttempt
  <2>3. /\ caller' \in [Callers -> Caller] /\ caller'[c] = [p EXCEPT !.step = "release"]
        /\ \E q \in Caller : caller' = [caller EXCEPT ![c] = q]
    BY <2>1, <2>2, Moves
  <2>4. TypeOK'
    <3>1. /\ job' \in [status: Statuses, intent: BOOLEAN, claim: BOOLEAN, boundary: BOOLEAN]
          /\ faults' \in 0..MaxFaults /\ journal' \in Journal
      BY <1>0, <2>1, Faulty
         DEF CancelInv, TypeOK, JobInv, JournalInv, CallerInv, Past, Statuses, Ends, Turns,
             Journal, AttemptStatuses, NoAttempt
    <3> QED
      BY <2>1, <2>3, <3>1 DEF CancelInv, TypeOK, Turns, process
  <2>5. JobInv' /\ JournalInv' /\ CancelledIsClean'
    BY <1>0, <2>1
       DEF CancelInv, TypeOK, CallerInv, JobInv, JournalInv, JournalIsBacked, CancelledIsClean,
              TreeGone,
           Past, Statuses, Ends, Turns, process
  <2>6. CallerInv(c)'
    BY <1>0, <2>1, <2>3
       DEF CancelInv, TypeOK, CallerInv, JournalInv, Caller, Holding, Past, Statuses, Ends, Turns,
              TreeGone, process
  <2>7. Respects(c)
    BY <1>0, <2>1, <2>3
       DEF Respects, CallerInv, JobInv, Holding, Past, Ends, Journal, NoAttempt, process
  <2>8. Counts(c)
    BY <1>0, <2>1, <2>3 DEF Counts, Elected, CallerInv, Caller, IdleCaller, Past, Journal, NoAttempt
  <2> QED
    BY <2>4, <2>5, <2>6, <2>7, <2>8 DEF Own
<1>3. CASE RecordCancelled(c)
  <2>1. /\ Becomes(c, [IdleCaller EXCEPT !.answer = job.status])
        /\ p.step = "record"
        /\ journal' = journal \/ journal' = [journal EXCEPT !.status = "succeeded"]
        /\ UNCHANGED <<job, process, turn>> /\ NoFault
        /\ lock' \in {lock, "free"} /\ (lock' # lock => lock = c)
    BY <1>0, <1>3 DEF RecordCancelled, Unlock, Answer
  <2>2. job.status \in Answers /\ [IdleCaller EXCEPT !.answer = job.status] \in Caller
    BY <1>0, <2>1, Answered DEF CancelInv, TypeOK, Answers, Statuses, Ends, CallerInv
  <2>3. /\ caller' \in [Callers -> Caller] /\ caller'[c] = [IdleCaller EXCEPT !.answer = job.status]
        /\ \E q \in Caller : caller' = [caller EXCEPT ![c] = q]
    BY <2>1, <2>2, Moves
  <2>4. TypeOK'
    <3>1. /\ job' \in [status: Statuses, intent: BOOLEAN, claim: BOOLEAN, boundary: BOOLEAN]
          /\ faults' \in 0..MaxFaults /\ journal' \in Journal
      BY <1>0, <2>1, Faulty
         DEF CancelInv, TypeOK, JobInv, JournalInv, CallerInv, Past, Statuses, Ends, Turns,
             Journal, AttemptStatuses, NoAttempt
    <3> QED
      BY <2>1, <2>3, <3>1 DEF CancelInv, TypeOK, Turns, process
  <2>5. JobInv' /\ JournalInv' /\ CancelledIsClean'
    BY <1>0, <2>1
       DEF CancelInv, TypeOK, CallerInv, JobInv, JournalInv, JournalIsBacked, CancelledIsClean,
              TreeGone,
           Past, Statuses, Ends, Turns, process, Journal, AttemptStatuses, NoAttempt
  <2>6. CallerInv(c)'
    <3>1. job.status \in Statuses => job.status \in Ends /\ job'.status = job.status
      BY <1>0, <2>1 DEF CallerInv, Statuses, Ends
    <3> QED
      BY <2>2, <2>3, <3>1, AnswerKnown
  <2>7. Respects(c)
    BY <1>0, <2>1, <2>3
       DEF Respects, CallerInv, JobInv, Holding, Past, Ends, Journal, NoAttempt, process
  <2>8. Counts(c)
    BY <1>0, <2>1, <2>3 DEF Counts, Elected, CallerInv, Caller, IdleCaller, Past, Ends, Journal,
         AttemptStatuses, NoAttempt
  <2> QED
    BY <2>4, <2>5, <2>6, <2>7, <2>8 DEF Own
<1>4. CASE Release(c)
  <2>1. CASE journal.id = p.attempt /\ journal.status \in {"failed-pending-release", "failed"}
    <3>1. /\ Becomes(c, [IdleCaller EXCEPT !.answer = "error"])
          /\ p.step = "release" /\ journal.status \in {"failed-pending-release", "failed"}
          /\ journal' = [journal EXCEPT !.status = "failed"]
          /\ UNCHANGED <<job, process, turn>> /\ NoFault
          /\ lock' \in {lock, "free"} /\ (lock' # lock => lock = c)
      BY <1>0, <1>4, <2>1 DEF Release, Unlock, Answer
    <3>2. "error" \in Answers /\ [IdleCaller EXCEPT !.answer = "error"] \in Caller
      BY <1>0, <3>1, Answered DEF CancelInv, TypeOK, Answers, Statuses, Ends, CallerInv
    <3>3. /\ caller' \in [Callers -> Caller] /\ caller'[c] = [IdleCaller EXCEPT !.answer = "error"]
          /\ \E q \in Caller : caller' = [caller EXCEPT ![c] = q]
      BY <3>1, <3>2, Moves
    <3>4. TypeOK'
      <4>1. /\ job' \in [status: Statuses, intent: BOOLEAN, claim: BOOLEAN, boundary: BOOLEAN]
            /\ faults' \in 0..MaxFaults /\ journal' \in Journal
        BY <1>0, <3>1, Faulty
           DEF CancelInv, TypeOK, JobInv, JournalInv, CallerInv, Past, Statuses, Ends, Turns,
               Journal, AttemptStatuses, NoAttempt
      <4> QED
        BY <3>1, <3>3, <4>1 DEF CancelInv, TypeOK, Turns, process
    <3>5. JobInv' /\ JournalInv' /\ CancelledIsClean'
      BY <1>0, <3>1
         DEF CancelInv, TypeOK, CallerInv, JobInv, JournalInv, JournalIsBacked, CancelledIsClean,
                TreeGone,
             Past, Statuses, Ends, Turns, process
    <3>6. CallerInv(c)'
      <4>1. "error" \in Statuses => "error" \in Ends /\ job'.status = "error"
        BY <1>0, <3>1 DEF CallerInv, Statuses, Ends
      <4> QED
        BY <3>2, <3>3, <4>1, AnswerKnown
    <3>7. Respects(c)
      BY <1>0, <3>1, <3>3
         DEF Respects, CallerInv, JobInv, Holding, Past, Ends, Journal, NoAttempt, process
    <3>8. Counts(c)
      BY <1>0, <3>1, <3>3
         DEF Counts, Elected, CallerInv, Caller, IdleCaller, Past, Journal, NoAttempt
    <3> QED
      BY <3>4, <3>5, <3>6, <3>7, <3>8 DEF Own
  <2>2. CASE ~ (journal.id = p.attempt /\ journal.status \in {"failed-pending-release", "failed"})
    <3>1. /\ Becomes(c, [IdleCaller EXCEPT !.answer = "corrupt"])
          /\ p.step = "release"
          /\ UNCHANGED <<job, process, turn, journal>> /\ NoFault
          /\ lock' \in {lock, "free"} /\ (lock' # lock => lock = c)
      BY <1>0, <1>4, <2>2 DEF Release, Unlock, Answer
    <3>2. "corrupt" \in Answers /\ [IdleCaller EXCEPT !.answer = "corrupt"] \in Caller
      BY <1>0, <3>1, Answered DEF CancelInv, TypeOK, Answers, Statuses, Ends, CallerInv
    <3>3. /\ caller' \in [Callers -> Caller]
          /\ caller'[c] = [IdleCaller EXCEPT !.answer = "corrupt"]
          /\ \E q \in Caller : caller' = [caller EXCEPT ![c] = q]
      BY <3>1, <3>2, Moves
    <3>4. TypeOK'
      <4>1. /\ job' \in [status: Statuses, intent: BOOLEAN, claim: BOOLEAN, boundary: BOOLEAN]
            /\ faults' \in 0..MaxFaults /\ journal' \in Journal
        BY <1>0, <3>1, Faulty
           DEF CancelInv, TypeOK, JobInv, JournalInv, CallerInv, Past, Statuses, Ends, Turns,
               Journal, AttemptStatuses, NoAttempt
      <4> QED
        BY <3>1, <3>3, <4>1 DEF CancelInv, TypeOK, Turns, process
    <3>5. JobInv' /\ JournalInv' /\ CancelledIsClean'
      BY <1>0, <3>1
         DEF CancelInv, TypeOK, CallerInv, JobInv, JournalInv, JournalIsBacked, CancelledIsClean,
                TreeGone,
             Past, Statuses, Ends, Turns, process
    <3>6. CallerInv(c)'
      <4>1. "corrupt" \in Statuses => "corrupt" \in Ends /\ job'.status = "corrupt"
        BY <1>0, <3>1 DEF CallerInv, Statuses, Ends
      <4> QED
        BY <3>2, <3>3, <4>1, AnswerKnown
    <3>7. Respects(c)
      BY <1>0, <3>1, <3>3
         DEF Respects, CallerInv, JobInv, Holding, Past, Ends, Journal, NoAttempt, process
    <3>8. Counts(c)
      BY <1>0, <3>1, <3>3
         DEF Counts, Elected, CallerInv, Caller, IdleCaller, Past, Journal, NoAttempt
    <3> QED
      BY <3>4, <3>5, <3>6, <3>7, <3>8 DEF Own
  <2> QED
    BY <1>0, <1>4, <2>1, <2>2 DEF Release, Unlock, Throws, Answer, Goes
<1>5. CASE CallerDies(c)
  <2>1. /\ Becomes(c, [IdleCaller EXCEPT !.answer = "dead"])
        /\ p.step # "idle"
        /\ UNCHANGED <<job, process, turn, journal>> /\ Fault
        /\ lock' \in {lock, "free"} /\ (lock' # lock => lock = c)
    BY <1>0, <1>5 DEF CallerDies, Unlock, Answer
  <2>2. "dead" \in Answers /\ [IdleCaller EXCEPT !.answer = "dead"] \in Caller
    BY <1>0, <2>1, Answered DEF CancelInv, TypeOK, Answers, Statuses, Ends, CallerInv
  <2>3. /\ caller' \in [Callers -> Caller] /\ caller'[c] = [IdleCaller EXCEPT !.answer = "dead"]
        /\ \E q \in Caller : caller' = [caller EXCEPT ![c] = q]
    BY <2>1, <2>2, Moves
  <2>4. TypeOK'
    <3>1. /\ job' \in [status: Statuses, intent: BOOLEAN, claim: BOOLEAN, boundary: BOOLEAN]
          /\ faults' \in 0..MaxFaults /\ journal' \in Journal
      BY <1>0, <2>1, Faulty
         DEF CancelInv, TypeOK, JobInv, JournalInv, CallerInv, Past, Statuses, Ends, Turns,
             Journal, AttemptStatuses, NoAttempt
    <3> QED
      BY <2>1, <2>3, <3>1 DEF CancelInv, TypeOK, Turns, process
  <2>5. JobInv' /\ JournalInv' /\ CancelledIsClean'
    BY <1>0, <2>1
       DEF CancelInv, TypeOK, CallerInv, JobInv, JournalInv, JournalIsBacked, CancelledIsClean,
              TreeGone,
           Past, Statuses, Ends, Turns, process
  <2>6. CallerInv(c)'
    <3>1. "dead" \in Statuses => "dead" \in Ends /\ job'.status = "dead"
      BY <1>0, <2>1 DEF CallerInv, Statuses, Ends
    <3> QED
      BY <2>2, <2>3, <3>1, AnswerKnown
  <2>7. Respects(c)
    BY <1>0, <2>1, <2>3
       DEF Respects, CallerInv, JobInv, Holding, Past, Ends, Journal, NoAttempt, process
  <2>8. Counts(c)
    BY <1>0, <2>1, <2>3 DEF Counts, Elected, CallerInv, Caller, IdleCaller, Past, Journal, NoAttempt
  <2> QED
    BY <2>4, <2>5, <2>6, <2>7, <2>8 DEF Own
<1> QED
  BY <1>1, <1>2, <1>3, <1>4, <1>5

-----------------------------------------------------------------------------
(* The invariant.                                                          *)

LEMMA CommandKeeps ==
  ASSUME CancelInv, NEW c \in Callers, Command(c)
  PROVE  CancelInv'
<1>1. Own(c)
  BY BeginsCommand, SharedPass, Election, QueuedCommand, StoppingCommand, ClosingCommand
     DEF Command
<1>2. \A d \in Callers : CallerInv(d)'
  BY <1>1, OthersKeep DEF Own
<1>3. (journal.id <= Cardinality(Elected))'
  <2>1. \A d \in Callers \ {c} : caller'[d] = caller[d]
    BY <1>1 DEF Own, Respects, CancelInv, TypeOK
  <2>2. Elected' \in SUBSET Callers /\ IsFiniteSet(Elected')
    BY FS_Subset, CancelAssumption DEF Elected
  <2>3. Elected \ {c} = Elected' \ {c}
    BY <2>1 DEF Elected
  <2>4. Cardinality(Elected) \in Nat /\ Cardinality(Elected') \in Nat /\ IsFiniteSet(Elected)
    BY <2>2, ElectedCount, FS_CardinalityType
  <2>5. journal.id \in Nat /\ journal.id <= Cardinality(Elected)
    BY DEF CancelInv, TypeOK, Journal, Attempts, NoAttempt
  <2>6. CASE journal'.id = journal.id /\ (c \in Elected => c \in Elected')
    <3>1. Elected \subseteq Elected'
      BY <2>3, <2>6
    <3>2. Cardinality(Elected) <= Cardinality(Elected')
      BY <2>2, <3>1, FS_Subset
    <3> QED
      BY <2>4, <2>5, <2>6, <3>2
  <2>7. CASE journal'.id = journal.id + 1 /\ c \notin Elected /\ c \in Elected'
    <3>1. Elected' = Elected \cup {c}
      BY <2>3, <2>7
    <3>2. Cardinality(Elected') = Cardinality(Elected) + 1
      BY <2>4, <2>7, <3>1, FS_AddElement
    <3> QED
      BY <2>4, <2>5, <2>7, <3>2
  <2> QED
    BY <1>1, <2>6, <2>7 DEF Own, Counts
<1> QED
  BY <1>1, <1>2, <1>3 DEF CancelInv, Own

LEMMA CancelInvariant == Spec => []CancelInv
<1>1. Init => CancelInv
  BY InitCancel
<1>2. CancelInv /\ [Next]_vars => CancelInv'
  <2> SUFFICES ASSUME CancelInv, [Next]_vars PROVE CancelInv'
    OBVIOUS
  <2>1. CASE Next
    BY <2>1, EnvironmentKeeps, CommandKeeps DEF Next
  <2>2. CASE UNCHANGED vars
    BY <2>2
       DEF vars, process, CancelInv, TypeOK, JobInv, JournalInv, JournalIsBacked, CancelledIsClean,
           CallerInv, Elected, TreeGone
  <2> QED
    BY <2>1, <2>2
<1> QED
  BY <1>1, <1>2, PTL DEF Spec

\* Every record, journal and command keeps its shape, and there are never more attempts
\* than commands, whatever the runner and the ending session do meanwhile.
THEOREM CancelTypes == Spec => []TypeOK
BY CancelInvariant, PTL DEF CancelInv

\* From its election to its publication a command that stops a turn holds the lock and the
\* cancelling record it read: job-control.mjs needs no case for a record that moved.
THEOREM StopHoldsRecord == Spec => []GuardIsHeld
<1>1. CancelInv => GuardIsHeld
  BY DEF CancelInv, GuardIsHeld, CallerInv, JobInv, Holding
<1> QED
  BY <1>1, CancelInvariant, PTL

\* The answer to a cancel command that names a record is the record as it will stay.
THEOREM AnswersAreDurable == Spec => []AnsweredIsDurable
<1>1. CancelInv => AnsweredIsDurable
  BY DEF CancelInv, AnsweredIsDurable, CallerInv
<1> QED
  BY <1>1, CancelInvariant, PTL

\* What the journal leaves to the next command is so: a succeeded attempt has a terminal
\* record, one that is only to be finalised has a stopped turn and no process left.
THEOREM JournalIsTrue == Spec => []JournalIsBacked
<1>1. CancelInv => JournalIsBacked
  BY DEF CancelInv, JournalInv
<1> QED
  BY <1>1, CancelInvariant, PTL

\* No claimed job is recorded as cancelled over a living process tree or an active turn.
THEOREM CleanCancellation == Spec => []CancelledIsClean
<1>1. CancelInv => CancelledIsClean
  BY DEF CancelInv
<1> QED
  BY <1>1, CancelInvariant, PTL
=============================================================================
