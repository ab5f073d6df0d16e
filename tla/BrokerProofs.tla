------------------------------ MODULE BrokerProofs ------------------------------
(***************************************************************************)
(* Proofs about Broker, for any clients, turns, generations and faults.    *)
(***************************************************************************)
EXTENDS Broker, TLAPS

-----------------------------------------------------------------------------
(***************************************************************************)
(* Types.                                                                  *)
(***************************************************************************)
\* The idle timer is a flag: it is set to whether the broker is idle.
LEMMA TimerTyped == ScheduleIdleShutdown => timer' \in BOOLEAN
  BY Zenon DEF ScheduleIdleShutdown, Idle

\* A fault is counted within its bound.
LEMMA FaultTyped == TypeOK /\ Fault => faults' \in 0 .. MaxFaults
  BY BoundsAssumption DEF Fault, TypeOK

\* The records nothing is in.
LEMMA EmptyTyped ==
  /\ Free \in SlotType /\ NoPermission \in PermissionType
  /\ Quiet \in WireType /\ NoRequest \in RequestType
<1>1. Free \in SlotType /\ NoPermission \in PermissionType
  BY DEF Free, SlotType, NoPermission, PermissionType
<1>2. <<>> \in Seq({0} \cup Turns)
  OBVIOUS
<1>3. Quiet \in WireType
  BY <1>2 DEF Quiet, WireType
<1>4. NoRequest \in RequestType
  BY DEF NoRequest, RequestType, Steps
<1> QED
  BY <1>1, <1>3, <1>4

\* A request that moves to another step, generation, turn or answer stays a request.
LEMMA RequestMoves ==
  ASSUME NEW r \in RequestType, NEW s \in Steps, NEW g \in {0} \cup Generations,
         NEW t \in {0} \cup Turns
  PROVE  /\ [r EXCEPT !.op = "abandoned"] \in RequestType
         /\ [r EXCEPT !.step = s] \in RequestType
         /\ [r EXCEPT !.step = s, !.gen = g] \in RequestType
         /\ [r EXCEPT !.turn = t] \in RequestType
         /\ [r EXCEPT !.step = s, !.turn = t] \in RequestType
         /\ [r EXCEPT !.step = s, !.gen = g, !.turn = t] \in RequestType
         /\ [r EXCEPT !.step = s, !.answer = "ok"] \in RequestType
         /\ [r EXCEPT !.step = s, !.answer = "error"] \in RequestType
  BY DEF RequestType

LEMMA FinishTyped == ASSUME TypeOK, NEW c \in Clients, Finish(c) PROVE req' \in [Clients -> RequestType]
  BY EmptyTyped DEF Finish, TypeOK

LEMMA InitTyped == Init => TypeOK
<1> SUFFICES ASSUME Init PROVE TypeOK
  OBVIOUS
<1>1. /\ slot \in SlotType /\ wire \in WireType /\ permission \in PermissionType
      /\ req \in [Clients -> RequestType]
  BY EmptyTyped DEF Init
<1>2. retired \in [gen : {0} \cup Generations, failed : BOOLEAN]
  BY DEF Init
<1>3. turns \in [Turns -> TurnType] /\ client \in [Clients -> ClientType]
  BY DEF Init, TurnType, ClientType
<1>4. /\ engine \in [Generations -> {"unborn", "live", "gone"}]
      /\ protocol = 0 /\ starting = 0 /\ won = {} /\ notices = {}
      /\ owned \in BOOLEAN /\ timer \in BOOLEAN /\ phase = "fresh" /\ faults = 0
  BY DEF Init
<1> QED
  BY <1>1, <1>2, <1>3, <1>4, BoundsAssumption DEF TypeOK

\* The steps of connections keep the types.
LEMMA ConnectionsTyped ==
  ASSUME TypeOK, NEW c \in Clients, NEW op \in {"read"} \cup Exclusive,
         Connect(c) \/ SocketCloses(c) \/ CancelRequest(c) \/ Submit(c, op)
  PROVE  TypeOK'
<1> USE DEF TypeOK
<1>1. CASE Connect(c)
  <2>1. client' \in [Clients -> ClientType]
    BY <1>1 DEF Connect, ClientType
  <2> QED
    BY <1>1, <2>1 DEF Connect, engines, upstream
<1>2. CASE SocketCloses(c)
  <2>1. client' \in [Clients -> ClientType]
    BY <1>2 DEF SocketCloses, ClientType
  <2>2. permission' \in PermissionType
    BY <1>2, EmptyTyped DEF SocketCloses
  <2>3. slot' \in SlotType
    BY <1>2 DEF SocketCloses, SlotType
  <2> QED
    BY <1>2, <2>1, <2>2, <2>3, TimerTyped DEF SocketCloses, engines, upstream
<1>3. CASE CancelRequest(c)
  <2>1. req' \in [Clients -> RequestType]
    BY <1>3, RequestMoves DEF CancelRequest, Steps
  <2> QED
    BY <1>3, <2>1 DEF CancelRequest, engines, upstream
<1>4. CASE Submit(c, op)
  <2>1. client[c].boundary \in {0} \cup Turns
    BY DEF ClientType
  <2>2. req' \in [Clients -> RequestType]
    BY <1>4, <2>1 DEF Submit, NoRequest, RequestType, Steps
  <2> QED
    BY <1>4, <2>2, TimerTyped DEF Submit, engines, upstream
<1> QED
  BY <1>1, <1>2, <1>3, <1>4

\* The steps of a request before it has a generation keep the types.
LEMMA AcquiringTyped ==
  ASSUME TypeOK, NEW c \in Clients, Reload(c) \/ Refuse(c) \/ ReloadFails(c)
  PROVE  TypeOK'
<1> USE DEF TypeOK
<1>1. CASE Reload(c)
  <2> DEFINE held == [req[c] EXCEPT !.turn = IF req[c].op = "stop" THEN slot.turn ELSE req[c].turn]
  <2>1. req[c] \in RequestType /\ slot.turn \in {0} \cup Turns /\ req[c].turn \in {0} \cup Turns
    BY DEF SlotType, RequestType
  <2>2. held \in RequestType
    BY <2>1 DEF RequestType
  <2>3. "acquire" \in Steps /\ "acquired" \in Steps
    BY DEF Steps
  <2>4. /\ [held EXCEPT !.step = "acquire"] \in RequestType
        /\ [held EXCEPT !.step = "acquired", !.gen = protocol] \in RequestType
    BY <2>2, <2>3, RequestMoves
  <2>5. /\ \/ req' = [req EXCEPT ![c] = [held EXCEPT !.step = "acquire"]]
           \/ req' = [req EXCEPT ![c] = [held EXCEPT !.step = "acquired", !.gen = protocol]]
        /\ \/ UNCHANGED <<engine, starting>>
           \/ \E g \in Generations : engine' = [engine EXCEPT ![g] = "live"] /\ starting' = g
    BY <1>1 DEF Reload, GetProtocol
  <2>6. req' \in [Clients -> RequestType]
    BY <2>4, <2>5
  <2> QED
    BY <1>1, <2>5, <2>6, TimerTyped DEF Reload, upstream
<1>2. CASE Refuse(c)
  BY <1>2, TimerTyped, FinishTyped DEF Refuse, engines, upstream
<1>3. CASE ReloadFails(c)
  BY <1>3, TimerTyped, FaultTyped, FinishTyped DEF ReloadFails, engines, upstream
<1> QED
  BY <1>1, <1>2, <1>3

LEMMA RetireTyped ==
  ASSUME TypeOK, Retire
  PROVE  /\ protocol' = 0 /\ retired' \in [gen : {0} \cup Generations, failed : BOOLEAN]
         /\ slot' \in SlotType /\ permission' \in PermissionType /\ wire' \in WireType
         /\ won' = {} /\ notices' = {}
  BY EmptyTyped DEF Retire, TypeOK

LEMMA ToldTyped == TypeOK => ToldStopped \in [Clients -> ClientType]
  BY DEF TypeOK, ToldStopped, ClientType

LEMMA WaitersTyped ==
  ASSUME TypeOK, NEW g \in {0} \cup Generations PROVE Waiters(g) \in [Clients -> RequestType]
<1> SUFFICES ASSUME NEW c \in Clients PROVE [req[c] EXCEPT !.step = "acquired", !.gen = g] \in RequestType
  BY DEF Waiters, TypeOK
<1> QED
  BY RequestMoves DEF TypeOK, Steps

\* So do those of the generations.
LEMMA GenerationsTyped ==
  ASSUME TypeOK,
         \/ SpawnSucceeds \/ SpawnFails \/ ConnectionFails \/ LateAnswer
         \/ CloseConfirmed \/ CloseFails
  PROVE  TypeOK'
<1> USE DEF TypeOK
<1>1. CASE SpawnSucceeds
  BY <1>1, WaitersTyped DEF SpawnSucceeds, upstream
<1>2. CASE SpawnFails
  <2>1. faults' \in 0 .. MaxFaults
    BY <1>2, FaultTyped DEF SpawnFails
  <2> QED
    BY <1>2, <2>1, WaitersTyped, TimerTyped DEF SpawnFails, upstream
<1>3. CASE ConnectionFails
  BY <1>3, RetireTyped, ToldTyped, TimerTyped, FaultTyped DEF ConnectionFails
<1>4. CASE LateAnswer
  BY <1>4, RetireTyped, ToldTyped, TimerTyped DEF LateAnswer
<1>5. CASE CloseConfirmed
  BY <1>5, TimerTyped DEF CloseConfirmed, upstream
<1>6. CASE CloseFails
  <2>1. retired' \in [gen : {0} \cup Generations, failed : BOOLEAN]
    BY <1>6 DEF CloseFails
  <2> QED
    BY <1>6, <2>1, TimerTyped, FaultTyped DEF CloseFails, upstream
<1> QED
  BY <1>1, <1>2, <1>3, <1>4, <1>5, <1>6

\* So do those of a request that has a generation, up to the engine.
LEMMA RequestsTyped ==
  ASSUME TypeOK, NEW c \in Clients,
         \/ Reject(c) \/ Forward(c) \/ BeginTurn(c) \/ BeginRelease(c) \/ EndRelease(c)
         \/ ReleaseOwner(c) \/ OwnerKept(c) \/ CommitRelease(c)
  PROVE  TypeOK'
<1> USE DEF TypeOK
<1>0. /\ {"upstream", "drain", "commit"} \subseteq Steps
      /\ slot.turn \in {0} \cup Turns
  BY DEF Steps, SlotType
<1>1. CASE Reject(c)
  BY <1>1, TimerTyped, FinishTyped DEF Reject, engines, upstream
<1>2. CASE Forward(c)
  <2>1. req' \in [Clients -> RequestType]
    BY <1>0, <1>2, RequestMoves DEF Forward
  <2> QED
    BY <1>2, <2>1 DEF Forward, engines, upstream
<1>3. CASE BeginTurn(c)
  <2>1. PICK t \in Turns :
          /\ turns' = [turns EXCEPT ![t].gen = protocol]
          /\ slot' = [turn |-> t, socket |-> c, state |-> "sending", early |-> FALSE]
          /\ req' = [req EXCEPT ![c].step = "upstream", ![c].turn = t]
    BY <1>3 DEF BeginTurn
  <2>2. req' = [req EXCEPT ![c] = [req[c] EXCEPT !.step = "upstream", !.turn = t]]
    BY <2>1
  <2>3. req' \in [Clients -> RequestType]
    BY <1>0, <2>2, RequestMoves
  <2>4. turns' \in [Turns -> TurnType]
    BY <2>1 DEF TurnType
  <2>5. slot' \in SlotType
    BY <2>1 DEF SlotType
  <2> QED
    BY <1>3, <2>3, <2>4, <2>5 DEF BeginTurn, engines
<1>4. CASE BeginRelease(c)
  <2>1. req' \in [Clients -> RequestType]
    BY <1>0, <1>4, RequestMoves DEF BeginRelease
  <2>2. slot' \in SlotType
    BY <1>4 DEF BeginRelease, SlotType
  <2> QED
    BY <1>4, <2>1, <2>2, EmptyTyped DEF BeginRelease, engines, upstream
<1>5. CASE EndRelease(c)
  <2>1. slot' \in {Free, [slot EXCEPT !.state = "armed"], slot}
    BY <1>5 DEF EndRelease
  <2>2. slot' \in SlotType
    BY <2>1, EmptyTyped DEF SlotType
  <2>3. client' \in {[client EXCEPT ![c].boundary = 0], client}
    BY <1>5 DEF EndRelease
  <2>4. client' \in [Clients -> ClientType]
    BY <2>3 DEF ClientType
  <2> QED
    BY <1>5, <2>2, <2>4, TimerTyped, FinishTyped DEF EndRelease, engines, upstream
<1>6. CASE ReleaseOwner(c)
  <2>1. \/ req' = [req EXCEPT ![c] = [req[c] EXCEPT !.step = "commit"]]
        \/ req' = [req EXCEPT ![c] = [req[c] EXCEPT !.step = "upstream", !.gen = protocol, !.turn = slot.turn]]
    BY <1>6 DEF ReleaseOwner
  <2>2. /\ [req[c] EXCEPT !.step = "commit"] \in RequestType
        /\ [req[c] EXCEPT !.step = "upstream", !.gen = protocol, !.turn = slot.turn] \in RequestType
    BY <1>0, RequestMoves
  <2>3. req' \in [Clients -> RequestType]
    BY <2>1, <2>2
  <2> QED
    BY <1>6, <2>3 DEF ReleaseOwner, engines, upstream
<1>7. CASE OwnerKept(c)
  BY <1>7, TimerTyped, FinishTyped DEF OwnerKept, engines, upstream
<1>8. CASE CommitRelease(c)
  BY <1>8, TimerTyped, FinishTyped, FaultTyped DEF CommitRelease, engines, upstream
<1> QED
  BY <1>1, <1>2, <1>3, <1>4, <1>5, <1>6, <1>7, <1>8

\* So do the steps of the engine, and of the permissions it asks for.
LEMMA StopTurnsTyped ==
  ASSUME TypeOK, StopTurns PROVE turns' \in [Turns -> TurnType] /\ notices' \in SUBSET Turns
  BY DEF TypeOK, StopTurns, Stopped, TurnType

LEMMA StartTurnTyped ==
  ASSUME TypeOK, NEW t, StartTurn(t) PROVE turns' \in [Turns -> TurnType] /\ notices' \in SUBSET Turns
  BY DEF TypeOK, StartTurn, TurnType

LEMMA EngineTyped ==
  ASSUME TypeOK,
         \/ \E c \in Clients : EngineTakes(c)
         \/ EngineTakesStale \/ EngineRefusesStale \/ PermissionAnswered \/ PermissionExpires
         \/ \E t \in Turns : TurnEnds(t) \/ AskPermission(t)
  PROVE  TypeOK'
<1> USE DEF TypeOK
<1>1. ASSUME NEW c \in Clients, EngineTakes(c) PROVE TypeOK'
  <2>1. turns' \in [Turns -> TurnType] /\ notices' \in SUBSET Turns
    BY <1>1, StopTurnsTyped, StartTurnTyped DEF EngineTakes
  <2>2. \/ req' = [req EXCEPT ![c] = [req[c] EXCEPT !.step = "taken", !.answer = "ok"]]
        \/ req' = [req EXCEPT ![c] = [req[c] EXCEPT !.step = "taken", !.answer = "error"]]
    BY <1>1 DEF EngineTakes
  <2>3. "taken" \in Steps
    BY DEF Steps
  <2>4. /\ [req[c] EXCEPT !.step = "taken", !.answer = "ok"] \in RequestType
        /\ [req[c] EXCEPT !.step = "taken", !.answer = "error"] \in RequestType
    BY <2>3, RequestMoves
  <2>5. req' \in [Clients -> RequestType]
    BY <2>2, <2>4
  <2> QED
    BY <1>1, <2>1, <2>5 DEF EngineTakes, engines
<1>2. ASSUME wire.stale # <<>>, wire' = [wire EXCEPT !.stale = Tail(@)] PROVE wire' \in WireType
  <2>1. wire.stale \in Seq({0} \cup Turns) /\ wire.owes \in BOOLEAN
    BY DEF WireType
  <2>2. Tail(wire.stale) \in Seq({0} \cup Turns)
    BY <1>2, <2>1
  <2> QED
    BY <1>2, <2>1, <2>2 DEF WireType
<1>3. CASE EngineTakesStale
  <2>1. turns' \in [Turns -> TurnType] /\ notices' \in SUBSET Turns
    BY <1>3, StopTurnsTyped, StartTurnTyped DEF EngineTakesStale
  <2> QED
    BY <1>2, <1>3, <2>1 DEF EngineTakesStale, engines
<1>4. CASE EngineRefusesStale
  BY <1>2, <1>4 DEF EngineRefusesStale, engines
<1>5. ASSUME NEW t \in Turns, TurnEnds(t) PROVE TypeOK'
  <2>1. turns[t] \in TurnType /\ turns' = [turns EXCEPT ![t] = [turns[t] EXCEPT !.running = FALSE]]
    BY <1>5 DEF TurnEnds
  <2>2. [turns[t] EXCEPT !.running = FALSE] \in TurnType
    BY <2>1 DEF TurnType
  <2>3. turns' \in [Turns -> TurnType] /\ notices' \in SUBSET Turns
    BY <1>5, <2>1, <2>2 DEF TurnEnds
  <2> QED
    BY <1>5, <2>3 DEF TurnEnds, engines
<1>6. ASSUME NEW t \in Turns, AskPermission(t) PROVE TypeOK'
  <2>1. permission' \in PermissionType
    BY <1>6 DEF AskPermission, SlotType, PermissionType
  <2> QED
    BY <1>6, <2>1 DEF AskPermission, engines, upstream
<1>7. CASE PermissionAnswered
  BY <1>7, EmptyTyped, TimerTyped DEF PermissionAnswered, engines, upstream
<1>8. CASE PermissionExpires
  BY <1>8, EmptyTyped DEF PermissionExpires, engines, upstream
<1> QED
  BY <1>1, <1>3, <1>4, <1>5, <1>6, <1>7, <1>8

\* So do terminals and answers.
LEMMA ObservedTyped ==
  ASSUME TypeOK, NEW s \in SlotType, s.turn # 0, Observed(s)
  PROVE  slot' \in SlotType /\ won' \in SUBSET Turns /\ permission' \in PermissionType
<1>1. s.turn \in Turns
  BY DEF SlotType
<1> QED
  BY <1>1, EmptyTyped DEF TypeOK, Observed

LEMMA FailedTyped ==
  ASSUME TypeOK, NEW c \in Clients, Failed(c)
  PROVE  req' \in [Clients -> RequestType] /\ slot' \in SlotType /\ permission' \in PermissionType
  BY FinishTyped, EmptyTyped DEF TypeOK, Failed, Aborted

LEMMA TerminalTyped == ASSUME TypeOK, NEW t \in Turns, TerminalArrives(t) PROVE TypeOK'
<1> USE DEF TypeOK
<1>1. slot' \in SlotType /\ won' \in SUBSET Turns /\ permission' \in PermissionType
  <2>1. CASE slot.turn # t
    BY <2>1 DEF TerminalArrives
  <2>2. CASE slot.turn = t /\ slot.state = "sending"
    <3>1. slot' = [slot EXCEPT !.early = TRUE] /\ UNCHANGED <<won, permission>>
      BY <2>2 DEF TerminalArrives
    <3> QED
      BY <3>1 DEF SlotType
  <2>3. CASE slot.turn = t /\ slot.state # "sending"
    <3>1. slot.turn # 0
      BY <2>3 DEF Turns
    <3> QED
      BY <2>3, <3>1, ObservedTyped DEF TerminalArrives
  <2> QED
    BY <2>1, <2>2, <2>3
<1> QED
  BY <1>1, TimerTyped DEF TerminalArrives, engines

\* A send the engine may have is of a turn that was sent.
SendCarries(c) ==
    req[c].op = "send" /\ req[c].step \in {"upstream", "taken"} =>
        req[c].turn # 0 /\ turns[req[c].turn].gen # 0

LEMMA AnswersTyped ==
  ASSUME TypeOK, NEW c \in Clients, SendCarries(c),
         \/ SendAccepted(c) \/ RequestFails(c) \/ RequestTimesOut(c)
         \/ ReadAnswered(c) \/ StopAnswered(c) \/ ReleaseStopped(c)
  PROVE  TypeOK'
<1> USE DEF TypeOK
<1>2. CASE SendAccepted(c)
  <2> DEFINE armed == [slot EXCEPT !.state = "armed", !.early = FALSE]
  <2>1. armed \in SlotType /\ armed.turn = slot.turn
    BY DEF SlotType
  <2>2. IF slot.early THEN Observed(armed) ELSE slot' = armed /\ UNCHANGED <<won, permission>>
    BY <1>2 DEF SendAccepted
  <2>3. slot' \in SlotType /\ won' \in SUBSET Turns /\ permission' \in PermissionType
    <3>1. CASE slot.early
      <4>1. slot.turn # 0
        BY <1>2 DEF SendAccepted, Fulfilled, SendCarries
      <4> QED
        BY <2>1, <2>2, <3>1, <4>1, ObservedTyped
    <3>2. CASE ~slot.early
      BY <2>1, <2>2, <3>2
    <3> QED
      BY <3>1, <3>2
  <2>4. req[c].turn \in {0} \cup Turns
    BY DEF RequestType
  <2>5. client' \in [Clients -> ClientType]
    BY <1>2, <2>4 DEF SendAccepted, ClientType
  <2> QED
    BY <1>2, <2>3, <2>5, TimerTyped, FinishTyped DEF SendAccepted, engines, upstream
<1>3. CASE RequestFails(c)
  BY <1>3, FailedTyped, TimerTyped DEF RequestFails, engines, upstream
<1>4. CASE RequestTimesOut(c)
  <2>1. wire.stale \in Seq({0} \cup Turns) /\ req[c].turn \in {0} \cup Turns
    BY DEF WireType, RequestType
  <2>2. /\ Append(wire.stale, req[c].turn) \in Seq({0} \cup Turns)
        /\ Append(wire.stale, 0) \in Seq({0} \cup Turns)
    BY <2>1
  <2>3. wire' \in WireType
    BY <1>4, <2>1, <2>2 DEF RequestTimesOut, WireType
  <2> QED
    BY <1>4, <2>3, FailedTyped, TimerTyped, FaultTyped DEF RequestTimesOut, engines
<1>5. CASE ReadAnswered(c)
  BY <1>5, FinishTyped, TimerTyped DEF ReadAnswered, engines, upstream
<1>6. CASE StopAnswered(c)
  BY <1>6, FinishTyped, TimerTyped, ToldTyped, EmptyTyped DEF StopAnswered, SlotStopped, engines, upstream
<1>7. CASE ReleaseStopped(c)
  <2>1. req' \in [Clients -> RequestType]
    BY <1>7, RequestMoves DEF ReleaseStopped, Steps
  <2> QED
    BY <1>7, <2>1, ToldTyped, EmptyTyped DEF ReleaseStopped, SlotStopped, engines, upstream
<1> QED
  BY <1>2, <1>3, <1>4, <1>5, <1>6, <1>7

\* So do the steps by which the broker ends.
LEMMA EndTyped ==
  ASSUME TypeOK, IdleShutdown \/ Signalled \/ Closed
  PROVE  TypeOK'
<1> USE DEF TypeOK
<1>1. CASE Close /\ faults' \in 0 .. MaxFaults
  <2>1. client' \in [Clients -> ClientType]
    BY <1>1 DEF Close, ClientType
  <2>2. /\ protocol' \in {0} \cup Generations
        /\ retired' \in [gen : {0} \cup Generations, failed : BOOLEAN]
        /\ slot' \in SlotType /\ permission' \in PermissionType /\ wire' \in WireType
        /\ won' \in SUBSET Turns /\ notices' \in SUBSET Turns
    BY <1>1, RetireTyped, EmptyTyped DEF Close
  <2> QED
    BY <1>1, <2>1, <2>2 DEF Close
<1>2. CASE Closed
  BY <1>2 DEF Closed, engines, upstream
<1> QED
  BY <1>1, <1>2, FaultTyped DEF IdleShutdown, Signalled

LEMMA TypeStep == TypeOK /\ (\A c \in Clients : SendCarries(c)) /\ [Next]_vars => TypeOK'
<1> SUFFICES ASSUME TypeOK, \A c \in Clients : SendCarries(c), [Next]_vars PROVE TypeOK'
  OBVIOUS
<1>1. CASE UNCHANGED vars
  BY <1>1 DEF vars, TypeOK
<1>2. ASSUME NEW c \in Clients,
             \/ Connect(c) \/ SocketCloses(c) \/ CancelRequest(c)
             \/ \E op \in {"read"} \cup Exclusive : Submit(c, op)
      PROVE  TypeOK'
  <2>1. "read" \in {"read"} \cup Exclusive
    OBVIOUS
  <2> QED
    BY <1>2, <2>1, ConnectionsTyped
<1>3. ASSUME NEW c \in Clients,
             ReloadFails(c) \/ Request(c) \/ Answering(c)
      PROVE  TypeOK'
  <2>1. CASE ReloadFails(c) \/ Reload(c) \/ Refuse(c)
    BY <2>1, AcquiringTyped
  <2>2. CASE \/ Reject(c) \/ Forward(c) \/ BeginTurn(c) \/ BeginRelease(c) \/ EndRelease(c)
             \/ ReleaseOwner(c) \/ OwnerKept(c) \/ CommitRelease(c)
    BY <2>2, RequestsTyped
  <2>3. CASE \/ SendAccepted(c) \/ RequestFails(c) \/ RequestTimesOut(c)
             \/ ReadAnswered(c) \/ StopAnswered(c) \/ ReleaseStopped(c)
    <3>1. SendCarries(c)
      OBVIOUS
    <3> QED
      BY <2>3, <3>1, AnswersTyped
  <2>4. CASE EngineTakes(c)
    BY <2>4, EngineTyped
  <2> QED
    BY <1>3, <2>1, <2>2, <2>3, <2>4 DEF Request, Answering
<1>4. CASE \/ Starting \/ Closing \/ ConnectionFails \/ LateAnswer
  BY <1>4, GenerationsTyped DEF Starting, Closing
<1>5. CASE \/ EngineTakesStale \/ EngineRefusesStale \/ PermissionAnswered \/ PermissionExpires
  BY <1>5, EngineTyped
<1>6. ASSUME NEW t \in Turns, TurnEnds(t) \/ AskPermission(t) \/ TerminalArrives(t)
      PROVE  TypeOK'
  BY <1>6, EngineTyped, TerminalTyped
<1>7. CASE IdleShutdown \/ Signalled \/ Closed
  BY <1>7, EndTyped
<1> QED
  BY <1>1, <1>2, <1>3, <1>4, <1>5, <1>6, <1>7 DEF Next
-----------------------------------------------------------------------------
(***************************************************************************)
(* The generations.                                                        *)
(***************************************************************************)
\* What a step does to the generations: a spawn, its outcome, a retirement and its outcome;
\* everything else leaves the processes alone.
Spawned(g) ==
    /\ protocol = 0 /\ starting = 0 /\ retired.gen = 0
    /\ engine[g] = "unborn" /\ engine' = [engine EXCEPT ![g] = "live"]
    /\ starting' = g /\ UNCHANGED <<protocol, retired>>
    /\ \E c \in Clients : req'[c].step = "acquire"

Established == starting # 0 /\ protocol' = starting /\ starting' = 0 /\ UNCHANGED <<engine, retired>>

Miscarried ==
    /\ starting # 0 /\ engine' = [engine EXCEPT ![starting] = "gone"]
    /\ starting' = 0 /\ UNCHANGED <<protocol, retired>>

Confirmed ==
    /\ retired.gen # 0 /\ engine' = [engine EXCEPT ![retired.gen] = "gone"]
    /\ retired'.gen = 0 /\ UNCHANGED <<protocol, starting>>

LEMMA EngineMoves ==
  ASSUME TypeOK, [Next]_vars
  PROVE  \/ UNCHANGED <<engine, protocol, starting>> /\ retired'.gen = retired.gen
         \/ \E g \in Generations : Spawned(g)
         \/ Established \/ Miscarried \/ Confirmed
         \/ protocol # 0 /\ Retire /\ UNCHANGED <<engine, starting>>
<1> DEFINE Still == UNCHANGED <<engine, protocol, starting>> /\ retired'.gen = retired.gen
<1>1. CASE UNCHANGED vars
  BY <1>1 DEF vars
<1>2. ASSUME NEW c \in Clients, NEW op \in {"read"} \cup Exclusive,
             \/ Connect(c) \/ SocketCloses(c) \/ CancelRequest(c) \/ Submit(c, op) \/ ReloadFails(c)
      PROVE  Still
  BY <1>2 DEF Connect, SocketCloses, CancelRequest, Submit, ReloadFails, engines
<1>3. ASSUME NEW c \in Clients, Reload(c) PROVE Still \/ \E g \in Generations : Spawned(g)
  <2> DEFINE held == [req[c] EXCEPT !.turn = IF req[c].op = "stop" THEN slot.turn ELSE req[c].turn]
  <2>1. ASSUME req' = [req EXCEPT ![c] = [held EXCEPT !.step = "acquire"]] PROVE req'[c].step = "acquire"
    <3>1. held \in RequestType
      BY DEF TypeOK, RequestType, SlotType
    <3>2. [held EXCEPT !.step = "acquire"].step = "acquire"
      BY <3>1 DEF RequestType
    <3> QED
      BY <2>1, <3>2 DEF TypeOK
  <2> QED
    BY <1>3, <2>1 DEF Reload, GetProtocol, Spawned
<1>4. ASSUME NEW c \in Clients, Answering(c) \/ (Request(c) /\ ~Reload(c)) PROVE Still
  <2>1. CASE Refuse(c) \/ Reject(c) \/ Forward(c) \/ BeginTurn(c) \/ BeginRelease(c) \/ EndRelease(c)
    BY <2>1 DEF Refuse, Reject, Forward, BeginTurn, BeginRelease, EndRelease, engines
  <2>2. CASE ReleaseOwner(c) \/ OwnerKept(c) \/ CommitRelease(c) \/ SendAccepted(c) \/ RequestFails(c)
    BY <2>2 DEF ReleaseOwner, OwnerKept, CommitRelease, SendAccepted, RequestFails, engines
  <2>3. CASE ReadAnswered(c) \/ StopAnswered(c) \/ ReleaseStopped(c) \/ EngineTakes(c) \/ RequestTimesOut(c)
    BY <2>3 DEF ReadAnswered, StopAnswered, ReleaseStopped, EngineTakes, RequestTimesOut, engines
  <2> QED
    BY <1>4, <2>1, <2>2, <2>3 DEF Request, Answering
<1>5. CASE Starting
  BY <1>5 DEF Starting, SpawnSucceeds, SpawnFails, Established, Miscarried
<1>6. CASE Closing
  BY <1>6 DEF Closing, CloseConfirmed, CloseFails, Confirmed, TypeOK
<1>7. CASE ConnectionFails \/ LateAnswer
  BY <1>7 DEF ConnectionFails, LateAnswer
<1>8. CASE EngineTakesStale \/ EngineRefusesStale \/ PermissionAnswered \/ PermissionExpires
  BY <1>8 DEF EngineTakesStale, EngineRefusesStale, PermissionAnswered, PermissionExpires, engines
<1>9. ASSUME NEW t \in Turns, TurnEnds(t) \/ AskPermission(t) \/ TerminalArrives(t) PROVE Still
  BY <1>9 DEF TurnEnds, AskPermission, TerminalArrives, engines
<1>10. CASE IdleShutdown \/ Signalled \/ Closed
  BY <1>10 DEF IdleShutdown, Signalled, Closed, Close, engines
<1>11. "read" \in {"read"} \cup Exclusive
  OBVIOUS
<1> QED
  BY <1>1, <1>2, <1>3, <1>4, <1>5, <1>6, <1>7, <1>8, <1>9, <1>10, <1>11 DEF Next

\* A live process is the current generation, the one that starts, or the one that retires, and
\* there is at most one of these three.
EngineInv ==
    /\ \A g \in Generations : engine[g] = "live" => g \in {protocol, starting, retired.gen}
    /\ protocol # 0 => starting = 0 /\ retired.gen = 0 /\ engine[protocol] = "live"
    /\ starting # 0 => retired.gen = 0 /\ engine[starting] = "live"

LEMMA EngineStep == TypeOK /\ EngineInv /\ [Next]_vars => EngineInv'
<1> SUFFICES ASSUME TypeOK, EngineInv, [Next]_vars PROVE EngineInv'
  OBVIOUS
<1>1. CASE UNCHANGED <<engine, protocol, starting>> /\ retired'.gen = retired.gen
  BY <1>1 DEF EngineInv
<1>2. ASSUME NEW g \in Generations, Spawned(g) PROVE EngineInv'
  BY <1>2 DEF EngineInv, Spawned, TypeOK, Generations
<1>3. CASE Established
  BY <1>3 DEF EngineInv, Established, TypeOK
<1>4. CASE Miscarried
  BY <1>4 DEF EngineInv, Miscarried, TypeOK, Generations
<1>5. CASE Confirmed
  BY <1>5 DEF EngineInv, Confirmed, TypeOK, Generations
<1>6. CASE protocol # 0 /\ Retire /\ UNCHANGED <<engine, starting>>
  <2>1. protocol' = 0 /\ retired'.gen = protocol
    BY <1>6 DEF Retire
  <2> QED
    BY <1>6, <2>1 DEF EngineInv
<1> QED
  BY <1>1, <1>2, <1>3, <1>4, <1>5, <1>6, EngineMoves
-----------------------------------------------------------------------------
(***************************************************************************)
(* The requests.                                                           *)
(***************************************************************************)
\* The steps of one request of the client d, from its point of view: r is what it was, s what
\* it becomes.  A lease is given only to a request that conflicts with no other.
Alone(d, op) == ~Conflicts(d, op) /\ \A c \in Clients \ {d} : req'[c] = req[c]

Ends(r, s) == s = NoRequest /\ r.step # "acquire"

Admitted(d, r, s) ==
    /\ r.step = "idle" /\ s.step = "reload" /\ s.op \in {"read"} \cup Exclusive
    /\ s.op = "release" => s.turn # 0
    /\ s.op # "owner" => Alone(d, s.op)

Acquires(r, s) ==
    /\ \/ r.step = "reload" /\ r.op # "owner" /\ s.step \in {"acquire", "acquired"}
       \/ r.step = "acquire" /\ s.step = "acquired" /\ starting' = 0
    /\ s.op = r.op
    /\ s.turn = r.turn \/ r.op = "stop"

Forwarded(r, s) ==
    /\ r.step = "acquired" /\ s.step = "upstream" /\ r.op \in {"read", "stop", "send"}
    /\ s.op = r.op /\ r.gen # 0 /\ s.gen = r.gen
    /\ r.op = "send" => s.turn \in Turns /\ turns[s.turn].gen = 0 /\ turns'[s.turn].gen # 0

Drains(r, s) ==
    /\ r.step = "acquired" /\ s.step = "drain" /\ r.op = "release"
    /\ s.op = r.op /\ r.gen # 0 /\ s.gen = r.gen /\ s.turn = r.turn
    /\ slot'.state = "releasing"

Releases(d, r, s) ==
    /\ r.op = "owner" /\ s.op = "owner"
    /\ \/ r.step = "taken" /\ r.answer = "ok" /\ s.step = "commit"
       \/ /\ r.step = "reload" /\ s.step = "commit" /\ Alone(d, "owner")
          /\ protocol = 0 /\ starting = 0 /\ retired.gen = 0
          /\ UNCHANGED <<engine, turns, wire>>
       \/ r.step = "reload" /\ s.step = "upstream" /\ s.gen # 0 /\ Alone(d, "owner")

Taken(r, s) ==
    /\ r.step = "upstream" /\ s.step = "taken" /\ s.op = r.op
    /\ s.gen = r.gen /\ s.turn = r.turn
    /\ r.op \in {"stop", "owner"} /\ s.answer = "ok" =>
          /\ r.gen = protocol /\ turns' = Stopped(protocol)
          /\ wire.stale = <<>> /\ UNCHANGED <<engine, wire>>

Moves(d, r, s) ==
    \/ s = r \/ Ends(r, s)
    \/ r.op = "read" /\ s = [r EXCEPT !.op = "abandoned"]
    \/ Admitted(d, r, s) \/ Acquires(r, s) \/ Forwarded(r, s) \/ Drains(r, s)
    \/ Releases(d, r, s) \/ Taken(r, s)

LEMMA RequestMovesOn ==
  ASSUME TypeOK, [Next]_vars, NEW d \in Clients
  PROVE  Moves(d, req[d], req'[d])
<1>1. CASE UNCHANGED req
  BY <1>1 DEF Moves
<1>2. ASSUME NEW c \in Clients, Finish(c), req[c].step # "acquire" PROVE Moves(d, req[d], req'[d])
  BY <1>2 DEF Finish, Moves, Ends, TypeOK
<1>3. CASE UNCHANGED vars
  BY <1>1, <1>3 DEF vars
<1>4. ASSUME NEW c \in Clients, NEW op \in {"read"} \cup Exclusive, Submit(c, op)
      PROVE  Moves(d, req[d], req'[d])
  <2>1. Busy(c) = FALSE /\ req[c].step = "idle"
    BY <1>4 DEF Submit, Busy
  <2>2. \E t : /\ req' = [req EXCEPT ![c] = [NoRequest EXCEPT !.op = op, !.step = "reload", !.turn = t]]
               /\ op = "release" => t # 0
    BY <1>4 DEF Submit
  <2>3. op # "owner" => ~Conflicts(c, op)
    BY <1>4 DEF Submit
  <2>4. \A e \in Clients \ {c} : req'[e] = req[e]
    BY <2>2 DEF TypeOK
  <2>5. d = c => Admitted(d, req[d], req'[d])
    BY <2>1, <2>2, <2>3, <2>4 DEF Admitted, Alone, NoRequest, TypeOK
  <2> QED
    BY <2>4, <2>5 DEF Moves
<1>5. ASSUME NEW c \in Clients, Connect(c) \/ SocketCloses(c) \/ ReloadFails(c) PROVE Moves(d, req[d], req'[d])
  BY <1>1, <1>2, <1>5 DEF Connect, SocketCloses, ReloadFails
<1>6. ASSUME NEW c \in Clients, CancelRequest(c) PROVE Moves(d, req[d], req'[d])
  BY <1>6 DEF CancelRequest, Moves, TypeOK
<1>7. ASSUME NEW c \in Clients, Reload(c) PROVE Moves(d, req[d], req'[d])
  <2> DEFINE held == [req[c] EXCEPT !.turn = IF req[c].op = "stop" THEN slot.turn ELSE req[c].turn]
  <2>1. /\ req[c].step = "reload" /\ req[c].op # "owner"
        /\ \/ req' = [req EXCEPT ![c] = [held EXCEPT !.step = "acquire"]]
           \/ req' = [req EXCEPT ![c] = [held EXCEPT !.step = "acquired", !.gen = protocol]]
    BY <1>7 DEF Reload, GetProtocol
  <2>2. d # c => req'[d] = req[d]
    BY <2>1 DEF TypeOK
  <2>3. \/ req'[c] = [held EXCEPT !.step = "acquire"]
        \/ req'[c] = [held EXCEPT !.step = "acquired", !.gen = protocol]
    BY <2>1 DEF TypeOK
  <2>4. req[c] \in RequestType
    BY DEF TypeOK
  <2>5. Acquires(req[c], req'[c])
    BY <2>1, <2>3, <2>4 DEF Acquires, RequestType
  <2> QED
    BY <2>2, <2>5 DEF Moves
<1>8. ASSUME NEW c \in Clients, Forward(c) PROVE Moves(d, req[d], req'[d])
  <2>1. Forwarded(req[c], req'[c]) /\ (d # c => req'[d] = req[d])
    BY <1>8 DEF Forward, Forwarded, TypeOK, RequestType
  <2> QED
    BY <2>1 DEF Moves
<1>9. ASSUME NEW c \in Clients, BeginTurn(c) PROVE Moves(d, req[d], req'[d])
  <2>1. PICK t \in Turns : /\ turns[t].gen = 0 /\ turns' = [turns EXCEPT ![t].gen = protocol]
                           /\ req' = [req EXCEPT ![c].step = "upstream", ![c].turn = t]
    BY <1>9 DEF BeginTurn
  <2>2. protocol # 0 /\ turns'[t].gen = protocol
    BY <1>9, <2>1 DEF BeginTurn, Rejected, TypeOK, TurnType
  <2>3. Forwarded(req[c], req'[c]) /\ (d # c => req'[d] = req[d])
    BY <1>9, <2>1, <2>2 DEF BeginTurn, Forwarded, TypeOK, RequestType
  <2> QED
    BY <2>3 DEF Moves
<1>10. ASSUME NEW c \in Clients, BeginRelease(c) PROVE Moves(d, req[d], req'[d])
  <2>1. Drains(req[c], req'[c]) /\ (d # c => req'[d] = req[d])
    BY <1>10 DEF BeginRelease, Drains, TypeOK, RequestType, SlotType
  <2> QED
    BY <2>1 DEF Moves
<1>11. ASSUME NEW c \in Clients, ReleaseOwner(c) \/ ReleaseStopped(c) PROVE Moves(d, req[d], req'[d])
  <2>1. Releases(c, req[c], req'[c]) /\ (d # c => req'[d] = req[d])
    <3>1. \A e \in Clients \ {c} : req'[e] = req[e]
      BY <1>11 DEF ReleaseOwner, ReleaseStopped, TypeOK
    <3>2. CASE ReleaseOwner(c)
      BY <3>1, <3>2 DEF ReleaseOwner, Releases, Alone, engines, upstream, TypeOK, RequestType
    <3>3. CASE ReleaseStopped(c)
      BY <3>1, <3>3 DEF ReleaseStopped, Fulfilled, Current, Releases, TypeOK, RequestType
    <3> QED
      BY <1>11, <3>1, <3>2, <3>3
  <2> QED
    BY <2>1 DEF Moves
<1>12. ASSUME NEW c \in Clients, EngineTakes(c) PROVE Moves(d, req[d], req'[d])
  <2>1. \/ req' = [req EXCEPT ![c] = [req[c] EXCEPT !.step = "taken", !.answer = "ok"]]
        \/ req' = [req EXCEPT ![c] = [req[c] EXCEPT !.step = "taken", !.answer = "error"]]
    BY <1>12 DEF EngineTakes
  <2>2. req'[c].answer = "ok" /\ req[c].op \in {"stop", "owner"} => StopTurns
    BY <1>12 DEF EngineTakes, TypeOK, RequestType
  <2>3. Taken(req[c], req'[c]) /\ (d # c => req'[d] = req[d])
    BY <1>12, <2>1, <2>2 DEF EngineTakes, StopTurns, Taken, engines, TypeOK, RequestType
  <2> QED
    BY <2>3 DEF Moves
<1>13. CASE SpawnSucceeds \/ SpawnFails
  <2>1. PICK g \in {0} \cup Generations : req' = Waiters(g)
    BY <1>13 DEF SpawnSucceeds, SpawnFails, TypeOK
  <2>2. req'[d] = IF req[d].step = "acquire"
                    THEN [req[d] EXCEPT !.step = "acquired", !.gen = g] ELSE req[d]
    BY <2>1 DEF Waiters
  <2>3. req[d] \in RequestType /\ starting' = 0
    BY <1>13 DEF SpawnSucceeds, SpawnFails, TypeOK
  <2>4. req[d].step = "acquire" => Acquires(req[d], req'[d])
    BY <2>2, <2>3 DEF Acquires, RequestType
  <2> QED
    BY <2>2, <2>4 DEF Moves
<1>14. ASSUME NEW c \in Clients,
              \/ Refuse(c) \/ Reject(c) \/ EndRelease(c) \/ OwnerKept(c) \/ CommitRelease(c)
              \/ SendAccepted(c) \/ RequestFails(c) \/ RequestTimesOut(c)
              \/ ReadAnswered(c) \/ StopAnswered(c)
       PROVE  Finish(c) /\ req[c].step # "acquire"
  BY <1>14 DEF Refuse, Reject, EndRelease, OwnerKept, CommitRelease, SendAccepted, RequestFails,
               RequestTimesOut, ReadAnswered, StopAnswered, Failed
<1>15. CASE \/ Closing \/ ConnectionFails \/ LateAnswer
            \/ EngineTakesStale \/ EngineRefusesStale \/ PermissionAnswered \/ PermissionExpires
            \/ IdleShutdown \/ Signalled \/ Closed
  <2>1. UNCHANGED req
    BY <1>15 DEF Closing, CloseConfirmed, CloseFails, ConnectionFails, LateAnswer, EngineTakesStale,
                 EngineRefusesStale, PermissionAnswered, PermissionExpires, IdleShutdown, Signalled,
                 Close, Closed
  <2> QED
    BY <1>1, <2>1
<1>16. ASSUME NEW t \in Turns, TurnEnds(t) \/ AskPermission(t) \/ TerminalArrives(t)
       PROVE  Moves(d, req[d], req'[d])
  BY <1>1, <1>16 DEF TurnEnds, AskPermission, TerminalArrives
<1> QED
  BY <1>2, <1>3, <1>4, <1>5, <1>6, <1>7, <1>8, <1>9, <1>10, <1>11, <1>12, <1>13, <1>14, <1>15, <1>16
  DEF Next, Request, Answering, Starting
-----------------------------------------------------------------------------
(***************************************************************************)
(* Turns and the wire.                                                     *)
(***************************************************************************)
Sent == {t \in Turns : turns[t].gen # 0}

Sendable == wire.stale # <<>> \/ \E c \in Clients : req[c].op = "send" /\ req[c].step = "upstream"

\* A turn that runs was sent to an engine that was spawned, and so was each timed out send.
\* Without a generation nothing is on its way.
SentInv ==
    /\ \A t \in Turns : turns[t].running => turns[t].gen # 0
    /\ \A t \in Sent : engine[turns[t].gen] # "unborn"
    /\ wire.stale \in Seq({0} \cup Sent)
    /\ protocol = 0 => wire = Quiet

\* What is known of a request by its operation and its step.
ReqInv(c) ==
    /\ SendCarries(c)
    /\ req[c].step \in {"upstream", "taken", "drain"} => req[c].gen # 0
    /\ req[c].step \in {"drain", "commit"} \/ req[c].op # "none" => Busy(c)
    /\ req[c].op = "owner" => req[c].step \in {"reload", "upstream", "taken", "commit"}
    /\ req[c].op = "release" => req[c].turn # 0 /\ req[c].step \notin {"upstream", "taken", "commit"}
    /\ req[c].step = "drain" => req[c].op = "release"
    /\ req[c].step = "commit" => req[c].op = "owner"

\* A turn gets its generation when it is begun, and starts only when a send of it, perhaps one
\* nobody waits for any more, is taken.
LEMMA TurnMoves ==
  ASSUME TypeOK, SentInv, \A c \in Clients : ReqInv(c), [Next]_vars, NEW t \in Turns
  PROVE  /\ \/ turns'[t].gen = turns[t].gen
            \/ turns[t].gen = 0 /\ protocol # 0 /\ turns'[t].gen = protocol
         /\ turns'[t].running => \/ turns[t].running
                                 \/ t \in Sent /\ Sendable
<1> DEFINE Same == turns'[t].gen = turns[t].gen /\ (turns'[t].running => turns[t].running)
           Starts == turns'[t].gen = turns[t].gen /\ t \in Sent /\ Sendable
           Begins == /\ turns[t].gen = 0 /\ protocol # 0 /\ turns'[t].gen = protocol
                     /\ turns'[t].running = turns[t].running
<1>1. CASE UNCHANGED turns
  BY <1>1
<1>2. ASSUME StopTurns PROVE Same
  BY <1>2 DEF StopTurns, Stopped, TypeOK, TurnType
<1>3. ASSUME NEW u, StartTurn(u), u # 0 => turns[u].gen # 0, u # 0, Sendable PROVE Same \/ Starts
  BY <1>3 DEF StartTurn, TypeOK, TurnType, Sent
<1>4. ASSUME NEW c \in Clients, EngineTakes(c) PROVE Same \/ Starts
  <2>1. CASE req[c].op = "send" /\ StartTurn(req[c].turn)
    <3>1. req[c].turn # 0 /\ turns[req[c].turn].gen # 0 /\ Sendable
      BY <1>4, <2>1 DEF EngineTakes, ReqInv, SendCarries, Sendable
    <3> QED
      BY <1>3, <2>1, <3>1
  <2>2. CASE StopTurns
    BY <1>2, <2>2
  <2> QED
    BY <1>1, <1>4, <2>1, <2>2 DEF EngineTakes
<1>5. CASE EngineTakesStale
  <2>1. Head(wire.stale) \in {0} \cup Sent
    BY <1>5 DEF EngineTakesStale, SentInv
  <2>2. CASE Head(wire.stale) = 0
    BY <1>2, <1>5, <2>2 DEF EngineTakesStale
  <2>3. CASE Head(wire.stale) # 0
    BY <1>3, <1>5, <2>1, <2>3 DEF EngineTakesStale, Sent, Sendable
  <2> QED
    BY <2>2, <2>3
<1>6. ASSUME NEW u \in Turns, TurnEnds(u) PROVE Same
  BY <1>6 DEF TurnEnds, TypeOK, TurnType
<1>7. ASSUME NEW c \in Clients, BeginTurn(c) PROVE Same \/ Begins
  <2>1. protocol # 0
    BY <1>7 DEF BeginTurn, Rejected
  <2> QED
    BY <1>7, <2>1 DEF BeginTurn, TypeOK, TurnType
<1>8. CASE UNCHANGED vars
  BY <1>1, <1>8 DEF vars
<1>9. ASSUME NEW c \in Clients, NEW op \in {"read"} \cup Exclusive,
             \/ Connect(c) \/ SocketCloses(c) \/ CancelRequest(c) \/ Submit(c, op) \/ ReloadFails(c)
             \/ Reload(c) \/ Refuse(c) \/ Reject(c) \/ Forward(c) \/ BeginRelease(c)
      PROVE  UNCHANGED turns
  BY <1>9 DEF Connect, SocketCloses, CancelRequest, Submit, ReloadFails, Reload, Refuse, Reject,
              Forward, BeginRelease, upstream
<1>10. ASSUME NEW c \in Clients,
              \/ EndRelease(c) \/ ReleaseOwner(c) \/ OwnerKept(c) \/ CommitRelease(c)
              \/ SendAccepted(c) \/ RequestFails(c) \/ RequestTimesOut(c) \/ ReadAnswered(c)
              \/ StopAnswered(c) \/ ReleaseStopped(c)
       PROVE  UNCHANGED turns
  BY <1>10 DEF EndRelease, ReleaseOwner, OwnerKept, CommitRelease, SendAccepted, RequestFails,
               RequestTimesOut, ReadAnswered, StopAnswered, ReleaseStopped, upstream
<1>11. CASE \/ Starting \/ Closing \/ ConnectionFails \/ LateAnswer \/ EngineRefusesStale
            \/ PermissionAnswered \/ PermissionExpires \/ IdleShutdown \/ Signalled \/ Closed
  <2>1. UNCHANGED turns
    BY <1>11 DEF Starting, SpawnSucceeds, SpawnFails, Closing, CloseConfirmed, CloseFails,
       ConnectionFails, LateAnswer, EngineRefusesStale, PermissionAnswered, PermissionExpires,
       IdleShutdown, Signalled, Close, Closed, upstream
  <2> QED
    BY <1>1, <2>1
<1>12. ASSUME NEW u \in Turns, AskPermission(u) \/ TerminalArrives(u) PROVE UNCHANGED turns
  BY <1>12 DEF AskPermission, TerminalArrives, upstream
<1>13. ASSUME Same \/ Starts \/ Begins
       PROVE  /\ \/ turns'[t].gen = turns[t].gen
                 \/ turns[t].gen = 0 /\ protocol # 0 /\ turns'[t].gen = protocol
              /\ turns'[t].running => \/ turns[t].running
                                      \/ t \in Sent /\ Sendable
  BY <1>13
<1>14. "read" \in {"read"} \cup Exclusive
  OBVIOUS
<1> HIDE DEF Same, Starts, Begins
<1> QED
  BY <1>1, <1>4, <1>5, <1>6, <1>7, <1>8, <1>9, <1>10, <1>11, <1>12, <1>13, <1>14
  DEF Next, Request, Answering

\* What a step does to the wire.
LEMMA WireMoves ==
  ASSUME TypeOK, [Next]_vars
  PROVE  \/ UNCHANGED wire /\ (protocol' = 0 => protocol = 0)
         \/ protocol' = 0 /\ wire' = Quiet
         \/ protocol' = protocol /\ wire.stale # <<>> /\ wire'.stale = Tail(wire.stale) /\ protocol # 0
         \/ \E c \in Clients : RequestTimesOut(c)
<1> DEFINE Kept == UNCHANGED wire /\ (protocol' = 0 => protocol = 0)
<1>1. ASSUME NEW c \in Clients, NEW op \in {"read"} \cup Exclusive,
             \/ Connect(c) \/ SocketCloses(c) \/ CancelRequest(c) \/ Submit(c, op) \/ ReloadFails(c)
             \/ Reload(c) \/ Refuse(c) \/ Reject(c) \/ Forward(c) \/ BeginRelease(c) \/ BeginTurn(c)
      PROVE  Kept
  BY <1>1 DEF Connect, SocketCloses, CancelRequest, Submit, ReloadFails, Reload, Refuse, Reject,
              Forward, BeginRelease, BeginTurn, upstream, engines
<1>2. ASSUME NEW c \in Clients,
              \/ EndRelease(c) \/ ReleaseOwner(c) \/ OwnerKept(c) \/ CommitRelease(c)
              \/ SendAccepted(c) \/ RequestFails(c) \/ EngineTakes(c) \/ ReadAnswered(c)
              \/ StopAnswered(c) \/ ReleaseStopped(c)
      PROVE  Kept
  BY <1>2 DEF EndRelease, ReleaseOwner, OwnerKept, CommitRelease, SendAccepted, RequestFails,
              EngineTakes, ReadAnswered, StopAnswered, ReleaseStopped, upstream, engines
<1>3. CASE Starting \/ Closing \/ PermissionAnswered \/ PermissionExpires \/ Closed \/ UNCHANGED vars
  BY <1>3 DEF Starting, SpawnSucceeds, SpawnFails, Closing, CloseConfirmed, CloseFails,
       PermissionAnswered, PermissionExpires, Closed, upstream, engines, vars
<1>4. CASE ConnectionFails \/ LateAnswer \/ IdleShutdown \/ Signalled
  BY <1>4 DEF ConnectionFails, LateAnswer, IdleShutdown, Signalled, Close, Retire
<1>5. CASE EngineTakesStale \/ EngineRefusesStale
  BY <1>5 DEF EngineTakesStale, EngineRefusesStale, engines, TypeOK, WireType
<1>6. ASSUME NEW u \in Turns, AskPermission(u) \/ TerminalArrives(u) \/ TurnEnds(u) PROVE Kept
  BY <1>6 DEF AskPermission, TerminalArrives, TurnEnds, upstream, engines
<1>7. "read" \in {"read"} \cup Exclusive
  OBVIOUS
<1> QED
  BY <1>1, <1>2, <1>3, <1>4, <1>5, <1>6, <1>7 DEF Next, Request, Answering

LEMMA SeqOfMore ==
  ASSUME NEW S, NEW T, S \subseteq T, NEW s \in Seq(S) PROVE s \in Seq(T)
<1>1. s \in [1 .. Len(s) -> T] /\ Len(s) \in Nat
  OBVIOUS
<1> QED
  BY <1>1

LEMMA SentStep ==
  TypeOK /\ EngineInv /\ SentInv /\ (\A c \in Clients : ReqInv(c)) /\ [Next]_vars => SentInv'
<1> SUFFICES ASSUME TypeOK, EngineInv, SentInv, \A c \in Clients : ReqInv(c), [Next]_vars PROVE SentInv'
  OBVIOUS
<1>1. (\A t \in Turns : turns[t].running => turns[t].gen # 0)'
  BY TurnMoves DEF SentInv, Sent
<1>2. \A g \in Generations : engine[g] # "unborn" => engine'[g] # "unborn"
  BY EngineMoves DEF Spawned, Established, Miscarried, Confirmed, Retire, TypeOK
<1>3. (\A t \in Sent : engine[turns[t].gen] # "unborn")'
  <2> SUFFICES ASSUME NEW t \in Turns, turns'[t].gen # 0 PROVE engine'[turns'[t].gen] # "unborn"
    BY DEF Sent
  <2>1. turns[t].gen # 0 => turns[t].gen \in Generations
    BY DEF TypeOK, TurnType
  <2>2. protocol # 0 => protocol \in Generations /\ engine[protocol] # "unborn"
    BY DEF TypeOK, EngineInv
  <2> QED
    BY <1>2, <2>1, <2>2, TurnMoves DEF SentInv, Sent
<1>4. {0} \cup Sent \subseteq ({0} \cup Sent)'
  BY TurnMoves DEF Sent
<1>5. /\ (wire.stale \in Seq({0} \cup Sent))'
      /\ (protocol = 0 => wire = Quiet)'
  <2>1. CASE UNCHANGED wire /\ (protocol' = 0 => protocol = 0)
    BY <1>4, <2>1, SeqOfMore DEF SentInv
  <2>2. CASE protocol' = 0 /\ wire' = Quiet
    BY <2>2 DEF Quiet
  <2>3. CASE protocol' = protocol /\ wire.stale # <<>> /\ wire'.stale = Tail(wire.stale) /\ protocol # 0
    <3>1. Tail(wire.stale) \in Seq({0} \cup Sent)
      BY <2>3 DEF SentInv
    <3> QED
      BY <1>4, <2>3, <3>1, SeqOfMore
  <2>4. ASSUME NEW c \in Clients, RequestTimesOut(c) 
        PROVE  (wire.stale \in Seq({0} \cup Sent))' /\ (protocol = 0 => wire = Quiet)'
    <3>1. protocol' = protocol /\ protocol # 0
      BY <2>4 DEF RequestTimesOut, engines, ReqInv
    <3>2. CASE wire'.stale = wire.stale
      BY <1>4, <3>1, <3>2, SeqOfMore DEF SentInv
    <3>3. CASE req[c].op = "send" /\ wire'.stale = Append(wire.stale, req[c].turn)
      <4>1. req[c].turn \in {0} \cup Sent
        BY <2>4, <3>3 DEF RequestTimesOut, ReqInv, SendCarries, Sent, TypeOK, RequestType
      <4>2. Append(wire.stale, req[c].turn) \in Seq({0} \cup Sent)
        BY <4>1 DEF SentInv
      <4> QED
        BY <1>4, <3>1, <3>3, <4>2, SeqOfMore
    <3>4. CASE wire'.stale = Append(wire.stale, 0)
      <4>1. Append(wire.stale, 0) \in Seq({0} \cup Sent)
        BY DEF SentInv
      <4> QED
        BY <1>4, <3>1, <3>4, <4>1, SeqOfMore
    <3> QED
      BY <2>4, <3>2, <3>3, <3>4 DEF RequestTimesOut
  <2> QED
    BY <2>1, <2>2, <2>3, <2>4, WireMoves
<1> QED
  BY <1>1, <1>3, <1>5 DEF SentInv

LEMMA ReqStep ==
  ASSUME TypeOK, SentInv, \A c \in Clients : ReqInv(c), [Next]_vars, NEW d \in Clients
  PROVE  ReqInv(d)'
<1>1. Moves(d, req[d], req'[d]) /\ req[d] \in RequestType
  BY RequestMovesOn DEF TypeOK
<1>2. ReqInv(d)
  OBVIOUS
<1>3. SendCarries(d)'
  <2>1. ASSUME req[d].turn \in Turns, turns[req[d].turn].gen # 0 PROVE turns'[req[d].turn].gen # 0
    BY <2>1, TurnMoves
  <2>2. req[d].turn # 0 => req[d].turn \in Turns
    BY <1>1 DEF RequestType
  <2>3. req'[d].op = "send" /\ req'[d].step \in {"upstream", "taken"} =>
          \/ req[d].op = "send" /\ req[d].step \in {"upstream", "taken"} /\ req'[d].turn = req[d].turn
          \/ req'[d].turn \in Turns /\ turns'[req'[d].turn].gen # 0
    BY <1>1 DEF Moves, Ends, Admitted, Acquires, Forwarded, Drains, Releases, Taken, NoRequest, RequestType
  <2>4. 0 \notin Turns
    BY DEF Turns
  <2> QED
    BY <1>2, <2>1, <2>2, <2>3, <2>4 DEF SendCarries, ReqInv
<1>4. /\ (req[d].step \in {"upstream", "taken", "drain"} => req[d].gen # 0)'
      /\ (req[d].step \in {"drain", "commit"} \/ req[d].op # "none" => Busy(d))'
  BY <1>1, <1>2 DEF ReqInv, Moves, Ends, Admitted, Acquires, Forwarded, Drains, Releases, Taken, NoRequest,
                    RequestType, Busy
<1>5. /\ (req[d].op = "owner" => req[d].step \in {"reload", "upstream", "taken", "commit"})'
      /\ (req[d].op = "release" => req[d].turn # 0 /\ req[d].step \notin {"upstream", "taken", "commit"})'
  BY <1>1, <1>2 DEF ReqInv, Moves, Ends, Admitted, Acquires, Forwarded, Drains, Releases, Taken, NoRequest,
                    RequestType
<1>6. /\ (req[d].step = "drain" => req[d].op = "release")'
      /\ (req[d].step = "commit" => req[d].op = "owner")'
  BY <1>1, <1>2 DEF ReqInv, Moves, Ends, Admitted, Acquires, Forwarded, Drains, Releases, Taken, NoRequest,
                    RequestType
<1> QED
  BY <1>3, <1>4, <1>5, <1>6 DEF ReqInv
-----------------------------------------------------------------------------
(***************************************************************************)
(* Leases, and the stops they protect.                                     *)
(***************************************************************************)
\* Of two requests that hold the session neither is exclusive.
LeaseInv ==
    \A c, d \in Clients : c # d /\ Leased(c) /\ Leased(d) => req[c].op \notin Exclusive

LEMMA LeaseStep ==
  ASSUME TypeOK, \A c \in Clients : ReqInv(c), LeaseInv, [Next]_vars
  PROVE  LeaseInv'
<1> SUFFICES ASSUME NEW c \in Clients, NEW d \in Clients, c # d, Leased(c)', Leased(d)'
             PROVE  req'[c].op \notin Exclusive
  BY DEF LeaseInv
<1> DEFINE Kept(e) == Leased(e) /\ (req'[e].op \in Exclusive => req[e].op \in Exclusive)
           Newly(e) == Alone(e, req'[e].op)
<1>1. ASSUME NEW e \in Clients, Leased(e)' PROVE Kept(e) \/ Newly(e)
  <2>1. Moves(e, req[e], req'[e]) /\ req[e] \in RequestType /\ ReqInv(e)
    BY RequestMovesOn DEF TypeOK
  <2>2. CASE req'[e] = req[e]
    BY <1>1, <2>2 DEF Leased, Busy
  <2>3. CASE Ends(req[e], req'[e])
    BY <1>1, <2>3 DEF Leased, Busy, Ends, NoRequest
  <2>4. CASE req[e].op = "read" /\ req'[e] = [req[e] EXCEPT !.op = "abandoned"]
    BY <1>1, <2>1, <2>4 DEF Leased, RequestType
  <2>5. CASE Admitted(e, req[e], req'[e])
    BY <1>1, <2>5 DEF Leased, Admitted
  <2>6. CASE Acquires(req[e], req'[e])
    BY <1>1, <2>6 DEF Leased, Busy, Acquires
  <2>7. CASE Forwarded(req[e], req'[e]) \/ Drains(req[e], req'[e]) \/ Taken(req[e], req'[e])
    BY <1>1, <2>7 DEF Leased, Busy, Forwarded, Drains, Taken
  <2>8. CASE Releases(e, req[e], req'[e])
    BY <1>1, <2>8 DEF Leased, Busy, Releases
  <2> QED
    BY <2>1, <2>2, <2>3, <2>4, <2>5, <2>6, <2>7, <2>8 DEF Moves
<1>2. CASE Kept(c) /\ Kept(d)
  BY <1>2 DEF LeaseInv
<1>3. CASE Newly(c)
  <2>1. req'[d] = req[d] /\ ~Conflicts(c, req'[c].op)
    BY <1>3 DEF Alone
  <2>2. Leased(d)
    BY <2>1 DEF Leased, Busy
  <2> QED
    BY <2>1, <2>2 DEF Conflicts
<1>4. CASE Newly(d)
  <2>1. req'[c] = req[c] /\ ~Conflicts(d, req'[d].op)
    BY <1>4 DEF Alone
  <2>2. Leased(c)
    BY <2>1 DEF Leased, Busy
  <2> QED
    BY <2>1, <2>2 DEF Conflicts
<1> QED
  BY <1>1, <1>2, <1>3, <1>4

\* From the acknowledged stop of a request, and from the admission of a release that has no
\* engine to ask, to the answer: no turn runs, and no send can make one run.
Settled(c) ==
    \/ req[c].step = "commit"
    \/ req[c].step = "taken" /\ req[c].op \in {"stop", "owner"} /\ req[c].answer = "ok"

Still == wire.stale = <<>> /\ \A t \in Turns : ~Running(t)

StopInv == (\E c \in Clients : Settled(c)) => Still

LEMMA StopStep ==
  ASSUME TypeOK, EngineInv, SentInv, \A c \in Clients : ReqInv(c), LeaseInv, StopInv, [Next]_vars
  PROVE  StopInv'
<1> SUFFICES ASSUME NEW c \in Clients, Settled(c)' PROVE Still'
  BY DEF StopInv
<1>1. Moves(c, req[c], req'[c]) /\ req[c] \in RequestType /\ ReqInv(c)
  BY RequestMovesOn DEF TypeOK
<1>2. ASSUME NEW t \in Turns, turns[t].running
      PROVE  turns[t].gen \in Generations /\ t \in Sent /\ engine[turns[t].gen] # "unborn"
  BY <1>2 DEF SentInv, Sent, TypeOK, TurnType
<1>3. CASE Settled(c)
  <2>1. Still /\ Leased(c) /\ req[c].op \in Exclusive
    BY <1>1, <1>3 DEF StopInv, Settled, ReqInv, Leased, Busy, Exclusive
  <2>2. ASSUME NEW d \in Clients, req[d].step = "upstream" PROVE req[d].op \notin Exclusive
    <3>1. d # c
      BY <1>3, <2>2 DEF Settled
    <3> QED
      BY <2>1, <2>2, <3>1 DEF LeaseInv, Leased, Busy, Exclusive
  <2>3. ~Sendable
    BY <2>1, <2>2 DEF Sendable, Still, Exclusive
  <2>4. ASSUME NEW t \in Turns PROVE ~Running(t)'
    <3> SUFFICES ASSUME turns'[t].running PROVE engine'[turns'[t].gen] # "live"
      BY DEF Running
    <3>1. turns[t].running
      BY <2>3, TurnMoves
    <3>2. turns'[t].gen = turns[t].gen
      BY <1>2, <3>1, TurnMoves DEF Sent
    <3>3. engine[turns[t].gen] \notin {"live", "unborn"}
      BY <1>2, <2>1, <3>1 DEF Still, Running
    <3>4. engine'[turns[t].gen] # "live"
      BY <1>2, <3>1, <3>3, EngineMoves
      DEF Spawned, Established, Miscarried, Confirmed, TypeOK
    <3> QED
      BY <3>2, <3>4
  <2>5. wire'.stale = <<>>
    <3>1. ASSUME NEW d \in Clients, RequestTimesOut(d) PROVE wire'.stale = <<>>
      BY <2>1, <2>2, <3>1 DEF RequestTimesOut, Still
    <3> QED
      BY <2>1, <3>1, WireMoves DEF Still, Quiet
  <2> QED
    BY <2>4, <2>5 DEF Still
<1>4. CASE ~Settled(c) /\ Taken(req[c], req'[c])
  <2>1. /\ req[c].gen = protocol /\ turns' = Stopped(protocol)
        /\ wire.stale = <<>> /\ UNCHANGED <<engine, wire>> /\ protocol # 0
    BY <1>1, <1>4 DEF Settled, Taken, ReqInv
  <2>2. ASSUME NEW t \in Turns PROVE ~Running(t)'
    <3> SUFFICES ASSUME turns'[t].running, engine[turns'[t].gen] = "live" PROVE FALSE
      BY <2>1 DEF Running
    <3>1. turns[t].running /\ turns[t].gen # protocol /\ turns'[t].gen = turns[t].gen
      BY <2>1 DEF Stopped, TypeOK, TurnType
    <3> QED
      BY <1>2, <2>1, <3>1 DEF EngineInv, Generations
  <2> QED
    BY <2>1, <2>2 DEF Still
<1>5. CASE ~Settled(c) /\ Releases(c, req[c], req'[c])
  <2>1. /\ protocol = 0 /\ starting = 0 /\ retired.gen = 0
        /\ UNCHANGED <<engine, turns, wire>>
    BY <1>5 DEF Settled, Releases
  <2>2. ASSUME NEW t \in Turns PROVE ~Running(t)'
    BY <1>2, <2>1 DEF Running, EngineInv, Generations
  <2> QED
    BY <2>1, <2>2 DEF Still, SentInv, Quiet
<1> QED
  <2>1. CASE req'[c] = req[c]
    BY <1>3, <2>1 DEF Settled
  <2>2. CASE Ends(req[c], req'[c])
    BY <2>2 DEF Settled, Ends, NoRequest
  <2>3. CASE req[c].op = "read" /\ req'[c] = [req[c] EXCEPT !.op = "abandoned"]
    BY <1>1, <1>3, <2>3 DEF Settled, RequestType
  <2>4. CASE \/ Admitted(c, req[c], req'[c]) \/ Acquires(req[c], req'[c])
             \/ Forwarded(req[c], req'[c]) \/ Drains(req[c], req'[c])
    BY <2>4 DEF Settled, Admitted, Acquires, Forwarded, Drains
  <2> QED
    BY <1>1, <1>3, <1>4, <1>5, <2>1, <2>2, <2>3, <2>4 DEF Moves

-----------------------------------------------------------------------------
(***************************************************************************)
(* The slot and its permissions.                                           *)
(***************************************************************************)
\* While the release of the turn in the slot waits for its permissions, no new one is asked.
DrainInv ==
    \A c \in Clients :
        req[c].step = "drain" /\ slot.turn = req[c].turn => slot.state = "releasing"

LEMMA SlotMoves ==
  ASSUME TypeOK, [Next]_vars
  PROVE  \/ slot'.turn = slot.turn /\ slot'.state = slot.state
         \/ slot'.turn = 0
         \/ slot'.state = "releasing"
         \/ \E c \in Clients : SendAccepted(c) \/ BeginTurn(c) \/ EndRelease(c)
<1> DEFINE Same == slot'.turn = slot.turn /\ slot'.state = slot.state
           Goal == \/ Same \/ slot'.turn = 0 \/ slot'.state = "releasing"
                   \/ \E c \in Clients : SendAccepted(c) \/ BeginTurn(c) \/ EndRelease(c)
<1>1. CASE UNCHANGED slot
  BY <1>1
<1>2. ASSUME NEW c \in Clients, SocketCloses(c) PROVE Same
  BY <1>2 DEF SocketCloses, TypeOK, SlotType
<1>3. ASSUME NEW c \in Clients, BeginRelease(c) PROVE slot'.state = "releasing"
  BY <1>3 DEF BeginRelease, TypeOK, SlotType
<1>4. CASE slot' = Free
  BY <1>4 DEF Free
<1>5. ASSUME NEW c \in Clients, RequestFails(c) \/ RequestTimesOut(c) \/ StopAnswered(c) \/ ReleaseStopped(c)
      PROVE  UNCHANGED slot \/ slot' = Free
  BY <1>5 DEF RequestFails, RequestTimesOut, StopAnswered, ReleaseStopped, Failed, Aborted, SlotStopped
<1>6. ASSUME NEW t \in Turns, TerminalArrives(t) PROVE Same \/ slot' = Free
  BY <1>6 DEF TerminalArrives, Observed, TypeOK, SlotType
<1>7. CASE ConnectionFails \/ LateAnswer \/ IdleShutdown \/ Signalled
  <2>1. UNCHANGED slot \/ slot' = Free
    BY <1>7 DEF ConnectionFails, LateAnswer, IdleShutdown, Signalled, Close, Retire
  <2> QED
    BY <1>1, <1>4, <2>1
<1>8. CASE \/ Starting \/ Closing \/ PermissionAnswered \/ PermissionExpires \/ Closed
           \/ EngineTakesStale \/ EngineRefusesStale \/ UNCHANGED vars
  <2>1. UNCHANGED slot
    BY <1>8 DEF Starting, SpawnSucceeds, SpawnFails, Closing, CloseConfirmed, CloseFails,
       PermissionAnswered, PermissionExpires, Closed, EngineTakesStale, EngineRefusesStale, vars
  <2> QED
    BY <1>1, <2>1
<1>9. ASSUME NEW c \in Clients, NEW op \in {"read"} \cup Exclusive,
             \/ Connect(c) \/ CancelRequest(c) \/ Submit(c, op) \/ ReloadFails(c)
             \/ Reload(c) \/ Refuse(c) \/ Reject(c) \/ Forward(c)
             \/ ReleaseOwner(c) \/ OwnerKept(c) \/ CommitRelease(c) \/ EngineTakes(c) \/ ReadAnswered(c)
      PROVE  UNCHANGED slot
  BY <1>9 DEF Connect, CancelRequest, Submit, ReloadFails, Reload, Refuse, Reject, Forward,
              ReleaseOwner, OwnerKept, CommitRelease, EngineTakes, ReadAnswered
<1>10. ASSUME NEW t \in Turns, AskPermission(t) \/ TurnEnds(t) PROVE UNCHANGED slot
  BY <1>10 DEF AskPermission, TurnEnds
<1>11. "read" \in {"read"} \cup Exclusive
  OBVIOUS
<1> QED
  BY <1>1, <1>2, <1>3, <1>4, <1>5, <1>6, <1>7, <1>8, <1>9, <1>10, <1>11 DEF Next, Request, Answering

LEMMA DrainStep ==
  ASSUME TypeOK, \A c \in Clients : ReqInv(c), LeaseInv, DrainInv, [Next]_vars
  PROVE  DrainInv'
<1> SUFFICES ASSUME NEW c \in Clients, req'[c].step = "drain", slot'.turn = req'[c].turn
             PROVE  slot'.state = "releasing"
  BY DEF DrainInv
<1>1. Moves(c, req[c], req'[c]) /\ req[c] \in RequestType /\ ReqInv(c)
  BY RequestMovesOn DEF TypeOK
<1>2. CASE Drains(req[c], req'[c])
  BY <1>2 DEF Drains
<1>3. CASE req[c].step = "drain" /\ req'[c] = req[c]
  <2>1. req[c].op = "release" /\ req[c].turn # 0 /\ Leased(c)
    BY <1>1, <1>3 DEF ReqInv, Leased, Busy
  <2>2. ASSUME NEW d \in Clients, SendAccepted(d) \/ BeginTurn(d) \/ EndRelease(d) PROVE FALSE
    <3>1. d # c
      BY <1>3, <2>2 DEF SendAccepted, BeginTurn, EndRelease, Finish, NoRequest, TypeOK
    <3>2. Leased(d)
      BY <2>2 DEF SendAccepted, BeginTurn, EndRelease, Leased, Busy, ReqInv
    <3> QED
      BY <2>1, <3>1, <3>2 DEF LeaseInv, Exclusive
  <2> QED
    BY <1>3, <2>1, <2>2, SlotMoves DEF DrainInv
<1> QED
  BY <1>1, <1>2, <1>3
  DEF Moves, Ends, Admitted, Acquires, Forwarded, Releases, Taken, NoRequest, RequestType, ReqInv
\* A pending permission is of the turn in the slot, and of a client.
PermissionInv == PermissionIsTracked /\ (permission # NoPermission => permission.socket \in Clients)

LEMMA PermissionStep ==
  ASSUME TypeOK, DrainInv, PermissionInv, [Next]_vars
  PROVE  PermissionInv'
<1> DEFINE Online == \A c \in Clients : client[c].on => client'[c].on
<1> USE DEF PermissionInv
<1>1. CASE permission' = NoPermission
  BY <1>1 DEF PermissionIsTracked
<1>2. CASE UNCHANGED <<slot, permission>> /\ Online
  BY <1>2 DEF PermissionIsTracked
<1>3. ASSUME NEW c \in Clients, SocketCloses(c) PROVE PermissionInv'
  <2>1. CASE permission = NoPermission \/ permission.socket = c
    BY <1>1, <1>3, <2>1 DEF SocketCloses
  <2>2. CASE permission # NoPermission /\ permission.socket # c
    <3>1. UNCHANGED <<permission, slot>> /\ client'[permission.socket].on
      BY <1>3, <2>2 DEF SocketCloses, PermissionIsTracked, TypeOK
    <3> QED
      BY <2>2, <3>1 DEF PermissionIsTracked
  <2> QED
    BY <2>1, <2>2
<1>4. ASSUME NEW t \in Turns, AskPermission(t) PROVE PermissionInv'
  <2>1. permission' = [turn |-> slot.turn, socket |-> slot.socket]
    BY <1>4 DEF AskPermission
  <2>2. permission'.turn = slot.turn /\ permission'.socket = slot.socket
    BY <2>1
  <2>3. slot.socket \in Clients /\ client[slot.socket].on /\ slot.state \in {"sending", "armed"}
    BY <1>4 DEF AskPermission, TypeOK, SlotType
  <2>4. UNCHANGED <<slot, client>>
    BY <1>4 DEF AskPermission
  <2> QED
    BY <2>2, <2>3, <2>4 DEF PermissionIsTracked
<1>5. ASSUME NEW c \in Clients, BeginTurn(c) PROVE PermissionInv'
  <2>1. slot.state = "free" /\ UNCHANGED permission
    BY <1>5 DEF BeginTurn, Rejected
  <2> QED
    BY <1>1, <2>1 DEF PermissionIsTracked
<1>6. ASSUME NEW c \in Clients, EndRelease(c) PROVE PermissionInv'
  <2>1. CASE slot.turn = req[c].turn
    <3>1. slot.state = "releasing" /\ UNCHANGED permission
      BY <1>6, <2>1 DEF EndRelease, DrainInv
    <3> QED
      BY <1>1, <3>1 DEF PermissionIsTracked
  <2>2. CASE slot.turn # req[c].turn
    BY <1>2, <1>6, <2>2 DEF EndRelease
  <2> QED
    BY <2>1, <2>2
<1>7. ASSUME NEW s \in SlotType, s.turn = slot.turn, s.socket = slot.socket, s.state \in {"sending", "armed"},
             slot' = s, UNCHANGED permission, Online
      PROVE  PermissionInv'
  BY <1>7 DEF PermissionIsTracked
<1>8. ASSUME NEW t \in Turns, TerminalArrives(t) PROVE PermissionInv'
  <2>1. UNCHANGED client
    BY <1>8 DEF TerminalArrives
  <2>2. CASE slot' = [slot EXCEPT !.early = TRUE] /\ UNCHANGED permission /\ slot.state = "sending"
    <3>1. /\ [slot EXCEPT !.early = TRUE] \in SlotType
          /\ [slot EXCEPT !.early = TRUE].turn = slot.turn
          /\ [slot EXCEPT !.early = TRUE].socket = slot.socket
          /\ [slot EXCEPT !.early = TRUE].state = "sending"
      BY <2>2 DEF TypeOK, SlotType
    <3> QED
      BY <1>7, <2>1, <2>2, <3>1
  <2>3. CASE UNCHANGED <<slot, permission>>
    BY <1>2, <2>1, <2>3
  <2> QED
    BY <1>1, <1>8, <2>2, <2>3 DEF TerminalArrives, Observed
<1>9. ASSUME NEW c \in Clients, SendAccepted(c) PROVE PermissionInv'
  <2> DEFINE armed == [slot EXCEPT !.state = "armed", !.early = FALSE]
  <2>1. /\ armed \in SlotType /\ armed.turn = slot.turn /\ armed.socket = slot.socket
        /\ armed.state = "armed"
    BY DEF TypeOK, SlotType
  <2>2. \/ permission' = NoPermission
        \/ slot' = armed /\ UNCHANGED permission
    BY <1>9 DEF SendAccepted, Observed
  <2>3. Online
    BY <1>9 DEF SendAccepted, TypeOK, ClientType
  <2> HIDE DEF armed
  <2> QED
    BY <1>1, <1>7, <2>1, <2>2, <2>3
<1>10. CASE ConnectionFails \/ LateAnswer \/ IdleShutdown \/ Signalled
  BY <1>1, <1>10 DEF ConnectionFails, LateAnswer, IdleShutdown, Signalled, Close, Retire
<1>11. CASE \/ Starting \/ Closing \/ PermissionAnswered \/ PermissionExpires \/ Closed
            \/ EngineTakesStale \/ EngineRefusesStale \/ UNCHANGED vars
  <2>1. (UNCHANGED slot /\ UNCHANGED client) /\ (UNCHANGED permission \/ permission' = NoPermission)
    BY <1>11 DEF Starting, SpawnSucceeds, SpawnFails, Closing, CloseConfirmed, CloseFails,
       PermissionAnswered, PermissionExpires, Closed, EngineTakesStale, EngineRefusesStale, vars
  <2> QED
    BY <1>1, <1>2, <2>1
<1>12. ASSUME NEW c \in Clients, NEW op \in {"read"} \cup Exclusive,
              \/ Connect(c) \/ CancelRequest(c) \/ Submit(c, op) \/ ReloadFails(c)
              \/ Reload(c) \/ Refuse(c) \/ Reject(c) \/ Forward(c) \/ BeginRelease(c)
              \/ ReleaseOwner(c) \/ OwnerKept(c) \/ CommitRelease(c) \/ EngineTakes(c) \/ ReadAnswered(c)
       PROVE  (UNCHANGED <<slot, permission>> /\ Online) \/ permission' = NoPermission
  BY <1>12 DEF Connect, CancelRequest, Submit, ReloadFails, Reload, Refuse, Reject, Forward, BeginRelease,
               ReleaseOwner, OwnerKept, CommitRelease, EngineTakes, ReadAnswered, TypeOK, ClientType
<1>13. ASSUME NEW c \in Clients,
              RequestFails(c) \/ RequestTimesOut(c) \/ StopAnswered(c) \/ ReleaseStopped(c)
       PROVE  (UNCHANGED <<slot, permission>> /\ Online) \/ permission' = NoPermission
  BY <1>13 DEF RequestFails, RequestTimesOut, StopAnswered, ReleaseStopped, Failed, Aborted, SlotStopped
<1>14. ASSUME NEW t \in Turns, TurnEnds(t) PROVE UNCHANGED <<slot, permission>> /\ Online
  BY <1>14 DEF TurnEnds
<1>15. "read" \in {"read"} \cup Exclusive
  OBVIOUS
<1> HIDE DEF Online, PermissionInv
<1> QED
  BY <1>1, <1>2, <1>3, <1>4, <1>5, <1>6, <1>8, <1>9, <1>10, <1>11, <1>12, <1>13, <1>14, <1>15
  DEF Next, Request, Answering

-----------------------------------------------------------------------------
(***************************************************************************)
(* The idle timer.                                                         *)
(***************************************************************************)
\* Somebody waits for a generation that starts.
WaiterInv == starting # 0 => \E c \in Clients : req[c].step = "acquire"

LEMMA WaiterStep == TypeOK /\ WaiterInv /\ [Next]_vars => WaiterInv'
<1> SUFFICES ASSUME TypeOK, WaiterInv, [Next]_vars, starting' # 0
             PROVE  \E c \in Clients : req'[c].step = "acquire"
  BY DEF WaiterInv
<1>1. CASE starting # 0
  <2>1. PICK c \in Clients : req[c].step = "acquire"
    BY <1>1 DEF WaiterInv
  <2>2. Moves(c, req[c], req'[c]) /\ req[c] \in RequestType
    BY RequestMovesOn DEF TypeOK
  <2>3. req'[c].step = "acquire"
    BY <2>1, <2>2 DEF Moves, Ends, Admitted, Acquires, Forwarded, Drains, Releases, Taken, RequestType
  <2> QED
    BY <2>3
<1>2. CASE starting = 0
  BY <1>2, EngineMoves DEF Spawned, Established, Miscarried, Confirmed
<1> QED
  BY <1>1, <1>2

LEMMA IdleStep ==
  ASSUME TypeOK, WaiterInv, PermissionInv, IdleIsTimed, [Next]_vars
  PROVE  IdleIsTimed'
<1> DEFINE Same == UNCHANGED <<phase, client, req, slot, permission, retired, starting, timer>>
           Present == \E c \in Clients : client'[c].on \/ req'[c].step # "idle"
<1>1. CASE ScheduleIdleShutdown
  BY <1>1 DEF ScheduleIdleShutdown, IdleIsTimed
<1>2. CASE Same
  BY <1>2 DEF IdleIsTimed, Idle, Busy
<1>3. CASE Present
  BY <1>3 DEF IdleIsTimed, Idle, Busy
<1>4. CASE phase' # "open"
  BY <1>4 DEF IdleIsTimed
<1>5. ASSUME NEW c \in Clients, Connect(c) \/ CancelRequest(c) PROVE Present
  BY <1>5 DEF Connect, CancelRequest, TypeOK, ClientType
<1>6. ASSUME NEW c \in Clients,
             \/ Forward(c) \/ BeginTurn(c) \/ BeginRelease(c) \/ ReleaseOwner(c)
             \/ EngineTakes(c) \/ ReleaseStopped(c)
      PROVE  Present
  <2>1. req'[c].step \in {"upstream", "drain", "commit", "taken"}
    BY <1>6 DEF Forward, BeginTurn, BeginRelease, ReleaseOwner, EngineTakes, ReleaseStopped, TypeOK, RequestType
  <2> QED
    BY <2>1
<1>7. CASE SpawnSucceeds
  <2>1. PICK c \in Clients : req[c].step = "acquire"
    BY <1>7 DEF SpawnSucceeds, WaiterInv
  <2>2. req'[c].step = "acquired"
    BY <1>7, <2>1 DEF SpawnSucceeds, Waiters, TypeOK, RequestType
  <2> QED
    BY <1>3, <2>2
<1>8. ASSUME NEW t \in Turns, AskPermission(t) PROVE Present
  BY <1>8 DEF AskPermission, TypeOK, SlotType
<1>9. CASE PermissionExpires
  BY <1>3, <1>9 DEF PermissionExpires, PermissionInv, PermissionIsTracked
<1>10. ASSUME NEW c \in Clients, NEW op \in {"read"} \cup Exclusive,
              \/ SocketCloses(c) \/ Submit(c, op) \/ ReloadFails(c) \/ Reload(c) \/ Refuse(c) \/ Reject(c)
              \/ EndRelease(c) \/ OwnerKept(c) \/ CommitRelease(c) \/ SendAccepted(c) \/ RequestFails(c)
              \/ RequestTimesOut(c) \/ ReadAnswered(c) \/ StopAnswered(c)
       PROVE  ScheduleIdleShutdown
  BY <1>10 DEF SocketCloses, Submit, ReloadFails, Reload, Refuse, Reject, EndRelease, OwnerKept,
               CommitRelease, SendAccepted, RequestFails, RequestTimesOut, ReadAnswered, StopAnswered
<1>11. CASE SpawnFails \/ Closing \/ ConnectionFails \/ LateAnswer \/ PermissionAnswered
  <2>1. ScheduleIdleShutdown
    BY <1>11 DEF SpawnFails, Closing, CloseConfirmed, CloseFails, ConnectionFails, LateAnswer, PermissionAnswered
  <2> QED
    BY <1>1, <2>1
<1>12. ASSUME NEW t \in Turns, TerminalArrives(t) PROVE ScheduleIdleShutdown
  BY <1>12 DEF TerminalArrives
<1>13. CASE EngineTakesStale \/ EngineRefusesStale \/ UNCHANGED vars
  BY <1>2, <1>13 DEF EngineTakesStale, EngineRefusesStale, engines, vars
<1>14. ASSUME NEW t \in Turns, TurnEnds(t) PROVE Same
  BY <1>14 DEF TurnEnds, engines
<1>15. CASE IdleShutdown \/ Signalled \/ Closed
  BY <1>4, <1>15 DEF IdleShutdown, Signalled, Close, Closed
<1>16. "read" \in {"read"} \cup Exclusive
  OBVIOUS
<1> HIDE DEF Same, Present
<1> QED
  BY <1>1, <1>2, <1>3, <1>5, <1>6, <1>7, <1>8, <1>9, <1>10, <1>11, <1>12, <1>13, <1>14, <1>15, <1>16
  DEF Next, Request, Answering, Starting
-----------------------------------------------------------------------------
(***************************************************************************)
(* The slot of a running turn.                                             *)
(***************************************************************************)
InStale(t) == \E i \in 1 .. Len(wire.stale) : wire.stale[i] = t

Upstream(c, t) == req[c].op = "send" /\ req[c].step = "upstream" /\ req[c].turn = t

Pending(t) == InStale(t) \/ \E c \in Clients : Upstream(c, t)

\* A turn is announced as ended only when it does not run, and a send that may still be taken,
\* by a request or by what timed out, is the only one of its turn, which has neither run nor ended.
FreshInv ==
    /\ \A t \in notices : ~turns[t].running /\ t \in Sent
    /\ \A t \in Turns : Pending(t) => t \notin notices /\ ~turns[t].running
    /\ \A c \in Clients, t \in Turns : Upstream(c, t) => ~InStale(t)
    /\ \A i, j \in 1 .. Len(wire.stale) : wire.stale[i] = wire.stale[j] /\ i # j => wire.stale[i] = 0

\* A turn starts to run when its send is taken, and is announced when it has stopped.
LEMMA StartMoves ==
  ASSUME TypeOK, EngineInv, SentInv, \A c \in Clients : ReqInv(c), [Next]_vars, NEW t \in Turns
  PROVE  \/ /\ turns'[t].running => turns[t].running
            /\ t \in notices' => t \in notices \/ (turns[t].running /\ ~turns'[t].running)
         \/ UNCHANGED notices /\ \E c \in Clients : EngineTakes(c) /\ Upstream(c, t)
         \/ UNCHANGED notices /\ EngineTakesStale /\ Head(wire.stale) = t
<1> DEFINE Quietly == /\ turns'[t].running => turns[t].running
                      /\ t \in notices' => t \in notices \/ (turns[t].running /\ ~turns'[t].running)
           Takes == UNCHANGED notices /\ \E c \in Clients : EngineTakes(c) /\ Upstream(c, t)
           TakesStale == UNCHANGED notices /\ EngineTakesStale /\ Head(wire.stale) = t
<1>1. ASSUME UNCHANGED turns, notices' \subseteq notices PROVE Quietly
  BY <1>1
<1>2. ASSUME StopTurns, protocol # 0 PROVE Quietly
  <2>1. turns' = Stopped(protocol)
    BY <1>2 DEF StopTurns
  <2>2. turns'[t].running => turns[t].running
    BY <2>1 DEF Stopped, TypeOK, TurnType
  <2>3. Running(t) => turns[t].gen = protocol
    BY <1>2 DEF Running, EngineInv, SentInv, TypeOK, TurnType
  <2>4. Running(t) => turns[t].running /\ ~turns'[t].running
    BY <2>1, <2>3 DEF Stopped, Running, TypeOK, TurnType
  <2> QED
    BY <1>2, <2>2, <2>4 DEF StopTurns
<1>3. ASSUME NEW u, StartTurn(u), u # t PROVE Quietly
  BY <1>3 DEF StartTurn, TypeOK, TurnType
<1>4. ASSUME NEW u, StartTurn(u) PROVE UNCHANGED notices
  BY <1>4 DEF StartTurn
<1>5. ASSUME NEW c \in Clients, EngineTakes(c), protocol # 0 PROVE Quietly \/ Takes
  <2>1. CASE req[c].op = "send" /\ StartTurn(req[c].turn)
    <3>1. Upstream(c, req[c].turn)
      BY <1>5, <2>1 DEF EngineTakes, Upstream
    <3> QED
      BY <1>3, <1>4, <1>5, <2>1, <3>1
  <2>2. CASE StopTurns
    BY <1>2, <1>5, <2>2
  <2>3. CASE UNCHANGED <<turns, notices>>
    BY <1>1, <2>3
  <2> QED
    BY <1>5, <2>1, <2>2, <2>3 DEF EngineTakes
<1>6. ASSUME EngineTakesStale PROVE Quietly \/ TakesStale
  <2>1. CASE StopTurns
    BY <1>2, <1>6, <2>1 DEF EngineTakesStale
  <2>2. CASE StartTurn(Head(wire.stale))
    BY <1>3, <1>4, <1>6, <2>2
  <2> QED
    BY <1>6, <2>1, <2>2 DEF EngineTakesStale
<1>7. ASSUME NEW u \in Turns, TurnEnds(u) PROVE Quietly
  BY <1>7 DEF TurnEnds, Running, TypeOK, TurnType
<1>8. ASSUME NEW c \in Clients, BeginTurn(c) PROVE Quietly
  BY <1>8 DEF BeginTurn, TypeOK, TurnType
<1>9. ASSUME NEW c \in Clients, NEW op \in {"read"} \cup Exclusive,
             \/ Connect(c) \/ SocketCloses(c) \/ CancelRequest(c) \/ Submit(c, op) \/ ReloadFails(c)
             \/ Reload(c) \/ Refuse(c) \/ Reject(c) \/ Forward(c) \/ BeginRelease(c)
      PROVE  Quietly
  <2>1. UNCHANGED <<turns, notices>>
    BY <1>9 DEF Connect, SocketCloses, CancelRequest, Submit, ReloadFails, Reload, Refuse, Reject,
              Forward, BeginRelease, upstream
  <2> QED
    BY <1>1, <2>1
<1>10. ASSUME NEW c \in Clients,
              \/ EndRelease(c) \/ ReleaseOwner(c) \/ OwnerKept(c) \/ CommitRelease(c)
              \/ SendAccepted(c) \/ RequestFails(c) \/ RequestTimesOut(c) \/ ReadAnswered(c)
              \/ StopAnswered(c) \/ ReleaseStopped(c)
       PROVE  Quietly
  <2>1. UNCHANGED <<turns, notices>>
    BY <1>10 DEF EndRelease, ReleaseOwner, OwnerKept, CommitRelease, SendAccepted, RequestFails,
               RequestTimesOut, ReadAnswered, StopAnswered, ReleaseStopped, upstream
  <2> QED
    BY <1>1, <2>1
<1>11. CASE \/ Starting \/ Closing \/ EngineRefusesStale
            \/ PermissionAnswered \/ PermissionExpires \/ Closed \/ UNCHANGED vars
  <2>1. UNCHANGED <<turns, notices>>
    BY <1>11 DEF Starting, SpawnSucceeds, SpawnFails, Closing, CloseConfirmed, CloseFails,
       EngineRefusesStale, PermissionAnswered, PermissionExpires, Closed, upstream, vars
  <2> QED
    BY <1>1, <2>1
<1>12. CASE ConnectionFails \/ LateAnswer \/ IdleShutdown \/ Signalled
  <2>1. UNCHANGED turns /\ notices' \subseteq notices
    BY <1>12 DEF ConnectionFails, LateAnswer, IdleShutdown, Signalled, Close, Retire
  <2> QED
    BY <1>1, <2>1
<1>13. ASSUME NEW u \in Turns, AskPermission(u) \/ TerminalArrives(u) PROVE Quietly
  <2>1. UNCHANGED turns /\ notices' \subseteq notices
    BY <1>13 DEF AskPermission, TerminalArrives, upstream
  <2> QED
    BY <1>1, <2>1
<1>14. ASSUME NEW c \in Clients, EngineTakes(c), protocol = 0 PROVE FALSE
  BY <1>14 DEF EngineTakes, ReqInv
<1>15. "read" \in {"read"} \cup Exclusive
  OBVIOUS
<1>16. ASSUME Quietly \/ Takes \/ TakesStale
       PROVE  \/ /\ turns'[t].running => turns[t].running
                 /\ t \in notices' => t \in notices \/ (turns[t].running /\ ~turns'[t].running)
              \/ UNCHANGED notices /\ \E c \in Clients : EngineTakes(c) /\ Upstream(c, t)
              \/ UNCHANGED notices /\ EngineTakesStale /\ Head(wire.stale) = t
  BY <1>16
<1> HIDE DEF Quietly, Takes, TakesStale
<1> QED
  BY <1>5, <1>6, <1>7, <1>8, <1>9, <1>10, <1>11, <1>12, <1>13, <1>14, <1>15, <1>16
  DEF Next, Request, Answering
LEMMA FreshStep ==
  ASSUME TypeOK, EngineInv, SentInv, \A c \in Clients : ReqInv(c), LeaseInv, FreshInv, [Next]_vars
  PROVE  FreshInv'
<1>1. ASSUME NEW c \in Clients, NEW t \in Turns, Upstream(c, t)'
      PROVE  Upstream(c, t) \/ t \notin Sent
  <2>1. Moves(c, req[c], req'[c]) /\ req[c] \in RequestType
    BY RequestMovesOn DEF TypeOK
  <2> QED
    BY <1>1, <2>1 DEF Upstream, Moves, Ends, Admitted, Acquires, Forwarded, Drains, Releases, Taken,
                      NoRequest, RequestType, Sent
<1>2. ASSUME NEW c \in Clients, NEW t \in Turns, Upstream(c, t) PROVE t \in Sent
  BY <1>2, 0 \notin Turns DEF Upstream, ReqInv, SendCarries, Sent, Turns
<1>3. ASSUME NEW t \in Turns, InStale(t) PROVE t \in Sent
  BY <1>3, 0 \notin Turns DEF InStale, SentInv, Turns
\* What is stale was stale, or was upstream and timed out.
<1>4. ASSUME NEW t \in Turns, InStale(t)'
      PROVE  InStale(t) \/ \E c \in Clients : RequestTimesOut(c) /\ Upstream(c, t)
  <2>1. wire.stale \in Seq({0} \cup Sent) /\ t # 0
    BY DEF SentInv, Turns
  <2>2. CASE UNCHANGED wire
    BY <1>4, <2>2 DEF InStale
  <2>3. CASE wire' = Quiet
    BY <1>4, <2>3 DEF InStale, Quiet
  <2>4. CASE wire.stale # <<>> /\ wire'.stale = Tail(wire.stale)
    BY <1>4, <2>1, <2>4 DEF InStale
  <2>5. ASSUME NEW c \in Clients, RequestTimesOut(c) PROVE InStale(t) \/ Upstream(c, t)
    <3>1. PICK i \in 1 .. Len(wire'.stale) : wire'.stale[i] = t
      BY <1>4 DEF InStale
    <3>2. CASE wire'.stale = wire.stale
      BY <3>1, <3>2 DEF InStale
    <3>3. CASE /\ req[c].op = "send" /\ req[c].step = "upstream"
               /\ wire'.stale = Append(wire.stale, req[c].turn)
      BY <2>1, <3>1, <3>3 DEF InStale, Upstream
    <3>4. CASE wire'.stale = Append(wire.stale, 0)
      BY <2>1, <3>1, <3>4 DEF InStale
    <3> QED
      BY <2>5, <3>2, <3>3, <3>4 DEF RequestTimesOut
  <2> QED
    BY <2>2, <2>3, <2>4, <2>5, WireMoves
<1>5. ASSUME NEW c \in Clients, NEW d \in Clients, NEW t \in Turns, NEW u \in Turns,
             Upstream(c, t), Upstream(d, u)
      PROVE  c = d /\ t = u
  BY <1>5 DEF Upstream, LeaseInv, Leased, Busy, Exclusive
\* A send that was taken is pending no longer.
<1>6. ASSUME NEW t \in Turns, Pending(t)'
      PROVE  \/ t \notin Sent
             \/ /\ Pending(t)
                /\ ~\E c \in Clients : EngineTakes(c) /\ Upstream(c, t)
                /\ ~(EngineTakesStale /\ Head(wire.stale) = t)
  <2>1. Pending(t) \/ t \notin Sent
    BY <1>1, <1>4, <1>6 DEF Pending
  <2>2. ASSUME NEW c \in Clients, EngineTakes(c), Upstream(c, t) PROVE FALSE
    <3>1. req'[c].step = "taken" /\ UNCHANGED wire
      BY <2>2 DEF EngineTakes, TypeOK, RequestType
    <3>2. ~InStale(t)' /\ t \in Sent
      BY <1>2, <2>2, <3>1 DEF FreshInv, InStale
    <3>3. PICK d \in Clients : Upstream(d, t)'
      BY <1>6, <3>2 DEF Pending
    <3>4. d = c
      BY <1>1, <1>5, <2>2, <3>2, <3>3
    <3> QED
      BY <3>1, <3>3, <3>4 DEF Upstream
  <2>3. ASSUME EngineTakesStale, Head(wire.stale) = t PROVE FALSE
    <3>1. /\ wire.stale # <<>> /\ wire'.stale = Tail(wire.stale) /\ UNCHANGED req
          /\ wire.stale \in Seq({0} \cup Sent) /\ t # 0
      BY <2>3 DEF EngineTakesStale, SentInv, TypeOK, WireType, Turns
    <3>2. InStale(t) /\ wire.stale[1] = t
      BY <2>3, <3>1 DEF InStale
    <3>3. ~InStale(t)'
      BY <3>1, <3>2 DEF InStale, FreshInv
    <3>4. ~\E c \in Clients : Upstream(c, t)'
      BY <3>1, <3>2 DEF FreshInv, Upstream
    <3> QED
      BY <1>6, <3>3, <3>4 DEF Pending
  <2> QED
    BY <2>1, <2>2, <2>3
<1>7. ASSUME NEW t \in Turns, t \notin notices, ~turns[t].running,
             ~\E c \in Clients : EngineTakes(c) /\ Upstream(c, t),
             ~(EngineTakesStale /\ Head(wire.stale) = t)
      PROVE  t \notin notices' /\ ~turns'[t].running
  BY <1>7, StartMoves
<1>8. (\A t \in Turns : Pending(t) => t \notin notices /\ ~turns[t].running)'
  <2> SUFFICES ASSUME NEW t \in Turns, Pending(t)' PROVE t \notin notices' /\ ~turns'[t].running
    OBVIOUS
  <2>1. CASE t \notin Sent
    <3>1. t \notin notices /\ ~turns[t].running
      BY <2>1 DEF FreshInv, SentInv, Sent
    <3>2. ~\E c \in Clients : Upstream(c, t)
      BY <1>2, <2>1
    <3>3. ~(EngineTakesStale /\ Head(wire.stale) = t)
      BY <1>3, <2>1 DEF EngineTakesStale, InStale, SentInv
    <3> QED
      BY <1>7, <3>1, <3>2, <3>3
  <2>2. CASE t \in Sent
    BY <1>6, <1>7, <2>2 DEF FreshInv
  <2> QED
    BY <2>1, <2>2
<1>9. (\A t \in notices : ~turns[t].running /\ t \in Sent)'
  <2> SUFFICES ASSUME NEW t \in Turns, t \in notices' PROVE ~turns'[t].running /\ turns'[t].gen # 0
    BY TypeStep DEF Sent, TypeOK, ReqInv
  <2>1. t \in Sent
    <3>1. CASE t \in notices
      BY <3>1 DEF FreshInv
    <3>2. CASE turns[t].running
      BY <3>2 DEF SentInv, Sent
    <3> QED
      BY <3>1, <3>2, StartMoves
  <2>2. turns'[t].gen # 0
    BY <2>1, TurnMoves DEF Sent
  <2>3. ~turns'[t].running
    <3>1. CASE ~(t \in notices)
      BY <3>1, StartMoves
    <3>2. CASE t \in notices
      <4>1. ~\E c \in Clients : Upstream(c, t)
        BY <3>2 DEF FreshInv, Pending
      <4>2. ~(EngineTakesStale /\ Head(wire.stale) = t)
        BY <3>2 DEF FreshInv, Pending, InStale, EngineTakesStale, SentInv
      <4> QED
        BY <3>2, <4>1, <4>2, StartMoves DEF FreshInv
    <3> QED
      BY <3>1, <3>2
  <2> QED
    BY <2>2, <2>3
<1>10. (\A c \in Clients, t \in Turns : Upstream(c, t) => ~InStale(t))'
  <2> SUFFICES ASSUME NEW c \in Clients, NEW t \in Turns, Upstream(c, t)', InStale(t)' PROVE FALSE
    OBVIOUS
  <2>1. CASE InStale(t)
    BY <1>1, <1>3, <2>1 DEF FreshInv
  <2>2. ASSUME NEW d \in Clients, RequestTimesOut(d), Upstream(d, t) PROVE FALSE
    <3>1. req'[d] = NoRequest /\ t \in Sent
      BY <1>2, <2>2 DEF RequestTimesOut, Failed, Finish, TypeOK
    <3>2. Upstream(c, t)
      BY <1>1, <3>1
    <3>3. c = d
      BY <1>5, <2>2, <3>2
    <3> QED
      BY <3>1, <3>3 DEF Upstream, NoRequest
  <2> QED
    BY <1>4, <2>1, <2>2
<1>11. (\A i, j \in 1 .. Len(wire.stale) : wire.stale[i] = wire.stale[j] /\ i # j => wire.stale[i] = 0)'
  <2> SUFFICES ASSUME NEW i \in 1 .. Len(wire'.stale), NEW j \in 1 .. Len(wire'.stale),
                      wire'.stale[i] = wire'.stale[j], i # j
               PROVE  wire'.stale[i] = 0
    OBVIOUS
  <2>1. wire.stale \in Seq({0} \cup Sent)
    BY DEF SentInv
  <2>2. CASE UNCHANGED wire
    BY <2>2 DEF FreshInv
  <2>3. CASE wire' = Quiet
    BY <2>3 DEF Quiet
  <2>4. CASE wire.stale # <<>> /\ wire'.stale = Tail(wire.stale)
    BY <2>1, <2>4 DEF FreshInv
  <2>5. ASSUME NEW c \in Clients, RequestTimesOut(c) PROVE wire'.stale[i] = 0
    <3>1. CASE wire'.stale = wire.stale
      BY <3>1 DEF FreshInv
    <3>2. CASE /\ req[c].op = "send" /\ req[c].step = "upstream"
               /\ wire'.stale = Append(wire.stale, req[c].turn)
      <4>1. req[c].turn \in Turns /\ ~InStale(req[c].turn)
        BY <3>2 DEF FreshInv, Upstream, ReqInv, SendCarries, TypeOK, RequestType
      <4> QED
        BY <2>1, <3>2, <4>1 DEF FreshInv, InStale
    <3>3. CASE wire'.stale = Append(wire.stale, 0)
      BY <2>1, <3>3 DEF FreshInv
    <3> QED
      BY <2>5, <3>1, <3>2, <3>3 DEF RequestTimesOut
  <2> QED
    BY <2>2, <2>3, <2>4, <2>5, WireMoves
<1> QED
  BY <1>8, <1>9, <1>10, <1>11 DEF FreshInv
\* A terminal is kept only for a turn that is being sent.
EarlyInv == slot.early => slot.state = "sending"

\* What takes the slot from a turn that was accepted: the end of its generation, its own release
\* or terminal, a stop.
LEMMA SlotLost ==
  ASSUME TypeOK, EarlyInv, [Next]_vars
  PROVE  /\ EarlyInv'
         /\ slot.state \in {"armed", "releasing"} =>
               \/ slot'.turn = slot.turn
               \/ protocol # 0 /\ protocol' = 0
               \/ \E c \in Clients : EndRelease(c) /\ slot.socket = c /\ slot.turn = req[c].turn
               \/ slot.turn \in notices
               \/ \E c \in Clients : StopAnswered(c) \/ ReleaseStopped(c)
<1> DEFINE Lost == \/ slot'.turn = slot.turn
                   \/ protocol # 0 /\ protocol' = 0
                   \/ \E c \in Clients : EndRelease(c) /\ slot.socket = c /\ slot.turn = req[c].turn
                   \/ slot.turn \in notices
                   \/ \E c \in Clients : StopAnswered(c) \/ ReleaseStopped(c)
           Kept == EarlyInv' /\ (slot.state \in {"armed", "releasing"} => Lost)
<1> USE DEF EarlyInv
<1>1. ASSUME UNCHANGED slot PROVE Kept
  BY <1>1
<1>2. ASSUME NEW c \in Clients, SocketCloses(c) PROVE Kept
  BY <1>2 DEF SocketCloses, TypeOK, SlotType
<1>3. ASSUME NEW c \in Clients, BeginRelease(c) PROVE Kept
  BY <1>3 DEF BeginRelease, Rejected, TypeOK, SlotType
<1>4. ASSUME NEW c \in Clients, BeginTurn(c) PROVE Kept
  BY <1>4 DEF BeginTurn, Rejected
<1>5. ASSUME NEW c \in Clients, EndRelease(c) PROVE Kept
  <2>1. CASE slot' = Free
    <3>1. slot.turn # 0 /\ slot.turn # req[c].turn => slot' = slot
      BY <1>5 DEF EndRelease
    <3>2. EarlyInv'
      BY <2>1 DEF Free
    <3>3. slot'.turn = slot.turn \/ (slot.socket = c /\ slot.turn = req[c].turn)
      BY <1>5 DEF EndRelease, TypeOK, SlotType
    <3> QED
      BY <1>5, <3>2, <3>3
  <2>2. CASE slot' = [slot EXCEPT !.state = "armed"] /\ slot.state = "releasing"
    BY <2>2 DEF TypeOK, SlotType
  <2>3. CASE UNCHANGED slot
    BY <1>1, <2>3
  <2> QED
    BY <1>5, <2>1, <2>2, <2>3 DEF EndRelease
<1>6. ASSUME NEW c \in Clients, SendAccepted(c) PROVE Kept
  <2> DEFINE armed == [slot EXCEPT !.state = "armed", !.early = FALSE]
  <2>1. armed.turn = slot.turn /\ armed.early = FALSE
    BY DEF TypeOK, SlotType
  <2>2. slot' = armed \/ (slot' = Free /\ slot.early)
    BY <1>6 DEF SendAccepted, Observed
  <2> HIDE DEF armed
  <2> QED
    BY <2>1, <2>2 DEF Free
<1>7. ASSUME NEW t \in Turns, TerminalArrives(t) PROVE Kept
  <2>1. CASE slot.turn = t /\ slot.state = "sending"
    BY <1>7, <2>1 DEF TerminalArrives, TypeOK, SlotType
  <2>2. CASE slot.turn = t /\ slot.state # "sending"
    BY <1>7, <2>2 DEF TerminalArrives, Observed, Free
  <2>3. CASE slot.turn # t
    BY <1>1, <1>7, <2>3 DEF TerminalArrives
  <2> QED
    BY <2>1, <2>2, <2>3
<1>8. ASSUME NEW c \in Clients, RequestFails(c) \/ RequestTimesOut(c) PROVE Kept
  <2>1. UNCHANGED slot \/ (slot' = Free /\ slot.state = "sending")
    BY <1>8 DEF RequestFails, RequestTimesOut, Failed, Aborted
  <2> QED
    BY <1>1, <2>1 DEF Free
<1>9. ASSUME NEW c \in Clients, StopAnswered(c) \/ ReleaseStopped(c) PROVE Kept
  BY <1>9 DEF StopAnswered, ReleaseStopped, SlotStopped, Free
<1>10. ASSUME ConnectionFails \/ LateAnswer \/ IdleShutdown \/ Signalled PROVE Kept
  <2>1. UNCHANGED slot \/ (slot' = Free /\ protocol # 0 /\ protocol' = 0)
    BY <1>10 DEF ConnectionFails, LateAnswer, IdleShutdown, Signalled, Close, Retire
  <2> QED
    BY <1>1, <2>1 DEF Free
<1>11. CASE \/ Starting \/ Closing \/ PermissionAnswered \/ PermissionExpires \/ Closed
            \/ EngineTakesStale \/ EngineRefusesStale \/ UNCHANGED vars
  <2>1. UNCHANGED slot
    BY <1>11 DEF Starting, SpawnSucceeds, SpawnFails, Closing, CloseConfirmed, CloseFails,
       PermissionAnswered, PermissionExpires, Closed, EngineTakesStale, EngineRefusesStale, vars
  <2> QED
    BY <1>1, <2>1
<1>12. ASSUME NEW c \in Clients, NEW op \in {"read"} \cup Exclusive,
              \/ Connect(c) \/ CancelRequest(c) \/ Submit(c, op) \/ ReloadFails(c)
              \/ Reload(c) \/ Refuse(c) \/ Reject(c) \/ Forward(c)
              \/ ReleaseOwner(c) \/ OwnerKept(c) \/ CommitRelease(c) \/ EngineTakes(c) \/ ReadAnswered(c)
       PROVE  UNCHANGED slot
  BY <1>12 DEF Connect, CancelRequest, Submit, ReloadFails, Reload, Refuse, Reject, Forward,
               ReleaseOwner, OwnerKept, CommitRelease, EngineTakes, ReadAnswered
<1>13. ASSUME NEW t \in Turns, AskPermission(t) \/ TurnEnds(t) PROVE UNCHANGED slot
  BY <1>13 DEF AskPermission, TurnEnds
<1>14. "read" \in {"read"} \cup Exclusive
  OBVIOUS
<1>15. ASSUME Kept
       PROVE  /\ EarlyInv'
              /\ slot.state \in {"armed", "releasing"} =>
                   \/ slot'.turn = slot.turn
                   \/ protocol # 0 /\ protocol' = 0
                   \/ \E c \in Clients : EndRelease(c) /\ slot.socket = c /\ slot.turn = req[c].turn
                   \/ slot.turn \in notices
                   \/ \E c \in Clients : StopAnswered(c) \/ ReleaseStopped(c)
  BY <1>15
<1> HIDE DEF Kept
<1> QED
  BY <1>1, <1>2, <1>3, <1>4, <1>5, <1>6, <1>7, <1>8, <1>9, <1>10, <1>11, <1>12, <1>13, <1>14, <1>15
  DEF Next, Request, Answering
-----------------------------------------------------------------------------
(***************************************************************************)
(* The inductive invariant and what follows from it.                       *)
(***************************************************************************)
BrokerInv ==
    /\ TypeOK /\ EngineInv /\ SentInv /\ (\A c \in Clients : ReqInv(c))
    /\ LeaseInv /\ StopInv /\ DrainInv /\ PermissionInv /\ WaiterInv /\ IdleIsTimed
    /\ FreshInv /\ EarlyInv

LEMMA BrokerInit == Init => BrokerInv
<1> SUFFICES ASSUME Init PROVE BrokerInv
  OBVIOUS
<1>1. TypeOK
  BY InitTyped
<1>2. EngineInv /\ WaiterInv /\ IdleIsTimed
  BY DEF Init, EngineInv, WaiterInv, IdleIsTimed
<1>3. SentInv
  BY DEF Init, SentInv, Sent, Quiet
<1>4. \A c \in Clients : req[c] = NoRequest
  BY DEF Init
<1>5. (\A c \in Clients : ReqInv(c)) /\ LeaseInv /\ StopInv /\ DrainInv
  BY <1>4 DEF ReqInv, SendCarries, LeaseInv, StopInv, DrainInv, Settled, Leased, Busy, NoRequest
<1>6. PermissionInv
  BY DEF Init, PermissionInv, PermissionIsTracked
<1>7. EarlyInv
  BY DEF Init, EarlyInv, Free
<1>8. notices = {} /\ wire.stale = <<>> /\ \A c \in Clients : req[c].op # "send"
  BY <1>4 DEF Init, Quiet, NoRequest
<1>9. FreshInv
  BY <1>8 DEF FreshInv, Pending, Upstream, InStale
<1> QED
  BY <1>1, <1>2, <1>3, <1>5, <1>6, <1>7, <1>9 DEF BrokerInv

LEMMA BrokerStep == BrokerInv /\ [Next]_vars => BrokerInv'
<1> SUFFICES ASSUME BrokerInv, [Next]_vars PROVE BrokerInv'
  OBVIOUS
<1>1. TypeOK /\ EngineInv /\ SentInv /\ (\A c \in Clients : ReqInv(c))
  BY DEF BrokerInv
<1>2. TypeOK'
  BY <1>1, TypeStep DEF ReqInv
<1>3. EngineInv' /\ SentInv'
  BY <1>1, EngineStep, SentStep
<1>4. (\A c \in Clients : ReqInv(c))'
  BY <1>1, ReqStep
<1>5. LeaseInv' /\ DrainInv'
  BY <1>1, LeaseStep, DrainStep DEF BrokerInv
<1>6. StopInv'
  BY <1>1, StopStep DEF BrokerInv
<1>7. PermissionInv' /\ WaiterInv' /\ IdleIsTimed'
  BY <1>1, PermissionStep, WaiterStep, IdleStep DEF BrokerInv
<1>8. FreshInv' /\ EarlyInv'
  BY <1>1, FreshStep, SlotLost DEF BrokerInv
<1> QED
  BY <1>2, <1>3, <1>4, <1>5, <1>6, <1>7, <1>8 DEF BrokerInv

LEMMA BrokerInvariant == Spec => []BrokerInv
  BY BrokerInit, BrokerStep, PTL DEF Spec

\* The variables of the broker keep their types.
THEOREM BrokerTypes == Spec => []TypeOK
<1>1. BrokerInv => TypeOK
  BY DEF BrokerInv
<1> QED
  BY <1>1, BrokerInvariant, PTL

\* There is never more than one engine process, of any number of generations.
THEOREM EnginesAreOne == Spec => []OneEngine
<1>1. BrokerInv => OneEngine
  BY DEF BrokerInv, EngineInv, OneEngine, Generations
<1> QED
  BY <1>1, BrokerInvariant, PTL

\* A pending permission belongs to the tracked turn of a connected client.
THEOREM PermissionsAreTracked == Spec => []PermissionIsTracked
<1>1. BrokerInv => PermissionIsTracked
  BY DEF BrokerInv, PermissionInv
<1> QED
  BY <1>1, BrokerInvariant, PTL

\* A broker with nothing left to do has its idle timer armed.
THEOREM IdleTimer == Spec => []IdleIsTimed
<1>1. BrokerInv => IdleIsTimed
  BY DEF BrokerInv
<1> QED
  BY <1>1, BrokerInvariant, PTL

\* Only the commit of a release takes the session from the owner.
LEMMA OwnedMoves ==
  ASSUME [Next]_vars, owned, ~owned'
  PROVE  \E c \in Clients : CommitRelease(c)
<1>1. ASSUME NEW c \in Clients, NEW op \in {"read"} \cup Exclusive,
             \/ Connect(c) \/ SocketCloses(c) \/ CancelRequest(c) \/ Submit(c, op) \/ ReloadFails(c)
             \/ Reload(c) \/ Refuse(c) \/ Reject(c) \/ Forward(c) \/ BeginRelease(c) \/ BeginTurn(c)
      PROVE  FALSE
  BY <1>1 DEF Connect, SocketCloses, CancelRequest, Submit, ReloadFails, Reload, Refuse, Reject,
              Forward, BeginRelease, BeginTurn
<1>2. ASSUME NEW c \in Clients,
             \/ EndRelease(c) \/ ReleaseOwner(c) \/ OwnerKept(c) \/ RequestTimesOut(c)
             \/ SendAccepted(c) \/ RequestFails(c) \/ EngineTakes(c) \/ ReadAnswered(c)
             \/ StopAnswered(c) \/ ReleaseStopped(c)
      PROVE  FALSE
  BY <1>2 DEF EndRelease, ReleaseOwner, OwnerKept, SendAccepted, RequestFails, RequestTimesOut,
              EngineTakes, ReadAnswered, StopAnswered, ReleaseStopped
<1>3. CASE \/ Starting \/ Closing \/ ConnectionFails \/ LateAnswer \/ EngineTakesStale
           \/ EngineRefusesStale \/ PermissionAnswered \/ PermissionExpires \/ IdleShutdown
           \/ Signalled \/ Closed \/ UNCHANGED vars
  BY <1>3 DEF Starting, SpawnSucceeds, SpawnFails, Closing, CloseConfirmed, CloseFails,
       ConnectionFails, LateAnswer, EngineTakesStale, EngineRefusesStale, PermissionAnswered,
       PermissionExpires, IdleShutdown, Signalled, Close, Closed, vars
<1>4. ASSUME NEW t \in Turns, AskPermission(t) \/ TerminalArrives(t) \/ TurnEnds(t) PROVE FALSE
  BY <1>4 DEF AskPermission, TerminalArrives, TurnEnds
<1>5. "read" \in {"read"} \cup Exclusive
  OBVIOUS
<1> QED
  BY <1>1, <1>2, <1>3, <1>4, <1>5 DEF Next, Request, Answering

\* An acknowledged stop and a release of the session leave no turn running in any engine.
THEOREM StopsEndTurns == Spec => StopsAreReal
<1>1. ASSUME BrokerInv, [Next]_vars,
             \/ \E c \in Clients : StopAnswered(c) \/ ReleaseStopped(c)
             \/ owned /\ ~owned'
      PROVE  \A t \in Turns : ~Running(t)
  <2>1. \E c \in Clients : Settled(c)
    <3>1. ASSUME NEW c \in Clients, StopAnswered(c) \/ ReleaseStopped(c) PROVE Settled(c)
      BY <3>1 DEF StopAnswered, ReleaseStopped, Fulfilled, Current, Settled
    <3>2. ASSUME owned /\ ~owned' PROVE \E c \in Clients : CommitRelease(c)
      BY <1>1, <3>2, OwnedMoves
    <3>3. ASSUME NEW c \in Clients, CommitRelease(c) PROVE Settled(c)
      BY <3>3 DEF CommitRelease, Settled
    <3> QED
      BY <1>1, <3>1, <3>2, <3>3
  <2> QED
    BY <1>1, <2>1 DEF BrokerInv, StopInv, Still
<1>2. BrokerInv /\ BrokerInv' /\ [Next]_vars =>
        [(\/ \E c \in Clients : StopAnswered(c) \/ ReleaseStopped(c)
          \/ owned /\ ~owned')
         => \A t \in Turns : ~Running(t)]_vars
  BY <1>1
<1> QED
  BY <1>2, BrokerInvariant, PTL DEF Spec, StopsAreReal

\* A running turn the broker accepted keeps the session, whatever answer, terminal or release of
\* another turn arrives, until the client that sent it releases it.
THEOREM RunningTurnKeepsSlot == Spec => RunningKeepsSlot
<1>1. ASSUME BrokerInv, [Next]_vars,
             slot.state \in {"armed", "releasing"} /\ Running(slot.turn),
             protocol' = protocol, turns'[slot.turn].running
      PROVE  \/ slot'.turn = slot.turn
             \/ \E c \in Clients : /\ req[c].step = "drain" /\ req'[c].step = "idle"
                                  /\ req[c].turn = slot.turn /\ slot.socket = c
  <2>1. TypeOK /\ EarlyInv /\ FreshInv /\ StopInv
    BY <1>1 DEF BrokerInv
  <2>2. slot.turn \notin notices
    BY <1>1, <2>1 DEF FreshInv, Running
  <2>3. ASSUME NEW c \in Clients, StopAnswered(c) \/ ReleaseStopped(c)
        PROVE  slot'.turn = slot.turn
    <3>1. Settled(c)
      BY <2>3 DEF StopAnswered, ReleaseStopped, Fulfilled, Current, Settled
    <3>2. slot.turn \notin Turns
      BY <1>1, <2>1, <3>1 DEF StopInv, Still
    <3>3. slot.turn = 0
      BY <2>1, <3>2 DEF TypeOK, SlotType
    <3> QED
      BY <2>3, <3>3 DEF StopAnswered, ReleaseStopped, SlotStopped, Free
  <2>4. ASSUME NEW c \in Clients, EndRelease(c)
        PROVE  req[c].step = "drain" /\ req'[c].step = "idle"
    BY <2>1, <2>4 DEF EndRelease, Finish, NoRequest, TypeOK
  <2> QED
    BY <1>1, <2>1, <2>2, <2>3, <2>4, SlotLost
<1>2. BrokerInv /\ BrokerInv' /\ [Next]_vars =>
        [(/\ slot.state \in {"armed", "releasing"} /\ Running(slot.turn)
          /\ protocol' = protocol /\ turns'[slot.turn].running)
         => \/ slot'.turn = slot.turn
            \/ \E c \in Clients : /\ req[c].step = "drain" /\ req'[c].step = "idle"
                                 /\ req[c].turn = slot.turn /\ slot.socket = c]_vars
  BY <1>1
<1> QED
  BY <1>2, BrokerInvariant, PTL DEF Spec, RunningKeepsSlot
=============================================================================
