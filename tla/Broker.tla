------------------------------- MODULE Broker -------------------------------
(***************************************************************************)
(* The inside of the owner broker (scripts/zcode-broker.mjs over           *)
(* lib/zcode-protocol.mjs): one owned session, the clients on the socket,  *)
(* and the engine processes, the protocol generations, behind it.  The     *)
(* broker is one thread: what it does between two awaits is one action.    *)
(* A request of a client waits for the owner store (reload), a generation  *)
(* (acquire), the engine (upstream, taken), the permissions of its turn    *)
(* (drain) or the durable release of the session (commit), and everything  *)
(* else may happen meanwhile.                                              *)
(*                                                                         *)
(* The engine is external: it takes requests in the order they were        *)
(* written, runs one turn of a session at a time, and stops it when it     *)
(* says so.  Conversations, session creation, models and the other         *)
(* sessions of the owner are left out.                                     *)
(***************************************************************************)
EXTENDS Integers, Sequences, FiniteSets

CONSTANTS
    Clients,        \* connections to the broker's socket, one request each at a time
    Exact,          \* those that announced exactTurnRelease
    MaxTurns,       \* sends that reach an engine
    MaxGenerations, \* engines the broker spawns
    MaxFaults,      \* timeouts, deaths, refused storage, signals in one behaviour
    Nobody          \* no client

ASSUME ClientsAssumption == Exact \subseteq Clients /\ Nobody \notin Clients
ASSUME BoundsAssumption == MaxTurns \in Nat /\ MaxGenerations \in Nat /\ MaxFaults \in Nat

VARIABLES
    engine,         \* generation -> is its process alive
    protocol,       \* this.protocol, 0 when there is none
    starting,       \* the generation of a pending protocolPromise, or 0
    retired,        \* retiredProtocolGeneration: its generation, 0 for none, and its status
    slot,           \* activeSessionSockets, activeSessions and the protocol's turn of the session
    won,            \* turns recorded as ended by their own terminal
    permission,     \* the entry of permissionPending
    turns,          \* turn -> the generation it was sent to, and whether it runs there
    notices,        \* turns whose terminal notification is on its way
    wire,           \* timed out requests the engine has not taken, and answers it still owes
    req,            \* client -> its request
    client,         \* client -> is it connected, and the turn it waits for
    owned,          \* the owner store lists the session
    timer,          \* the idle timer is armed
    phase,          \* of the broker process
    faults

vars == <<engine, protocol, starting, retired, slot, won, permission, turns, notices, wire,
          req, client, owned, timer, phase, faults>>

Generations == 1 .. MaxGenerations
Turns == 1 .. MaxTurns

Free == [turn |-> 0, socket |-> Nobody, state |-> "free", early |-> FALSE]
NoPermission == [turn |-> 0, socket |-> Nobody]
NoRequest == [op |-> "none", step |-> "idle", gen |-> 0, turn |-> 0, answer |-> "none"]
Quiet == [stale |-> <<>>, owes |-> FALSE]

Exclusive == {"send", "stop", "release", "owner"}   \* EXCLUSIVE_SESSION_METHODS
Steps == {"idle", "reload", "acquire", "acquired", "upstream", "taken", "drain", "commit"}

SlotType == [turn : {0} \cup Turns, socket : Clients \cup {Nobody},
             state : {"free", "sending", "armed", "releasing"}, early : BOOLEAN]
PermissionType == [turn : {0} \cup Turns, socket : Clients \cup {Nobody}]
TurnType == [gen : {0} \cup Generations, running : BOOLEAN]
WireType == [stale : Seq({0} \cup Turns), owes : BOOLEAN]
RequestType == [op : {"none", "read", "abandoned"} \cup Exclusive, step : Steps,
                gen : {0} \cup Generations, turn : {0} \cup Turns,
                answer : {"none", "ok", "error"}]
ClientType == [on : BOOLEAN, boundary : {0} \cup Turns]

TypeOK ==
    /\ engine \in [Generations -> {"unborn", "live", "gone"}]
    /\ protocol \in {0} \cup Generations
    /\ starting \in {0} \cup Generations
    /\ retired \in [gen : {0} \cup Generations, failed : BOOLEAN]
    /\ slot \in SlotType
    /\ won \in SUBSET Turns
    /\ permission \in PermissionType
    /\ turns \in [Turns -> TurnType]
    /\ notices \in SUBSET Turns
    /\ wire \in WireType
    /\ req \in [Clients -> RequestType]
    /\ client \in [Clients -> ClientType]
    /\ owned \in BOOLEAN /\ timer \in BOOLEAN
    /\ phase \in {"fresh", "open", "closing", "closed"}
    /\ faults \in 0 .. MaxFaults

Init ==
    /\ engine = [g \in Generations |-> "unborn"]
    /\ protocol = 0 /\ starting = 0 /\ retired = [gen |-> 0, failed |-> FALSE]
    /\ slot = Free /\ won = {} /\ permission = NoPermission
    /\ turns = [t \in Turns |-> [gen |-> 0, running |-> FALSE]]
    /\ notices = {} /\ wire = Quiet
    /\ req = [c \in Clients |-> NoRequest]
    /\ client = [c \in Clients |-> [on |-> FALSE, boundary |-> 0]]
    /\ owned = TRUE /\ timer = FALSE /\ phase = "fresh" /\ faults = 0

-----------------------------------------------------------------------------
(***************************************************************************)
(* What the broker looks at.                                               *)
(***************************************************************************)
Running(t) == turns[t].running /\ engine[turns[t].gen] = "live"

Busy(c) == req[c].step # "idle"

Releasing == \E c \in Clients : req[c].op = "owner"   \* ownerStates: a release is admitted

(* A request holds a lease of the session from its admission on, an owner's release only
   after its reload, an abandoned read no longer. *)
Leased(c) ==
    /\ Busy(c) /\ req[c].op # "abandoned"
    /\ req[c].op = "owner" => req[c].step # "reload"

Conflicts(c, op) ==
    \E d \in Clients \ {c} : Leased(d) /\ (op \in Exclusive \/ req[d].op \in Exclusive)

Fault == faults < MaxFaults /\ faults' = faults + 1

(* What keeps the broker from being idle. *)
Idle ==
    /\ phase \in {"fresh", "open"}
    /\ \A c \in Clients : ~client[c].on /\ ~Busy(c)
    /\ slot.state \notin {"armed", "releasing"}
    /\ permission = NoPermission
    /\ retired.gen = 0 /\ starting = 0

(* scheduleIdleShutdown: the timer is cleared, and armed again when nothing is left to do. *)
ScheduleIdleShutdown == timer' = Idle'

(* The request is answered and gives its lease back. *)
Finish(c) == req' = [req EXCEPT ![c] = NoRequest]

(* broker/sessionStopped reaches the client that waits for the turn of the slot. *)
ToldStopped ==
    [c \in Clients |-> IF c = slot.socket THEN [client[c] EXCEPT !.boundary = 0] ELSE client[c]]

engines == <<engine, protocol, starting, retired>>
upstream == <<turns, notices, wire>>

-----------------------------------------------------------------------------
(***************************************************************************)
(* Connections.                                                            *)
(***************************************************************************)
(* accept and broker/auth.  A new connection is a new socket: one the slot still names is
   not taken again. *)
Connect(c) ==
    /\ phase \in {"fresh", "open"} /\ ~client[c].on /\ ~Busy(c) /\ slot.socket # c
    /\ client' = [client EXCEPT ![c].on = TRUE]
    /\ phase' = "open"
    /\ timer' = FALSE
    /\ UNCHANGED <<engines, slot, won, permission, upstream, req, owned, faults>>

(* The close event of a socket, also when the client process died.  Its request goes on. *)
SocketCloses(c) ==
    /\ client[c].on
    /\ client' = [client EXCEPT ![c] = [on |-> FALSE, boundary |-> 0]]
    /\ permission' = IF permission.socket = c THEN NoPermission ELSE permission
    /\ slot' = IF slot.socket = c THEN [slot EXCEPT !.socket = Nobody] ELSE slot
    /\ UNCHANGED <<engines, won, upstream, req, owned, phase, faults>>
    /\ ScheduleIdleShutdown

(* handleLocal up to its first await: admission of the session request, or of the release. *)
Submit(c, op) ==
    /\ phase = "open" /\ client[c].on /\ ~Busy(c) /\ owned
    /\ ~Releasing
    /\ op # "owner" => ~Conflicts(c, op)
    /\ op = "send" => /\ c \in Exact => client[c].boundary = 0
                      /\ \E t \in Turns : turns[t].gen = 0
    /\ op = "release" => c \in Exact /\ client[c].boundary # 0
    /\ req' = [req EXCEPT ![c] = [NoRequest EXCEPT
                   !.op = op, !.step = "reload",
                   !.turn = IF op = "release" THEN client[c].boundary ELSE 0]]
    /\ UNCHANGED <<engines, slot, won, permission, upstream, client, owned, phase, faults>>
    /\ ScheduleIdleShutdown

(* broker/cancelRequest: the client gave up a read, which stops fencing a stop. *)
CancelRequest(c) ==
    /\ client[c].on /\ req[c].op = "read"
    /\ req' = [req EXCEPT ![c].op = "abandoned"]
    /\ UNCHANGED <<engines, slot, won, permission, upstream, client, owned, timer, phase, faults>>

(* Fault: an engine is spawned before the last one is confirmed gone. *)
GetProtocol_Fault(c) ==
    LET held == [req[c] EXCEPT !.turn = IF req[c].op = "stop" THEN slot.turn ELSE req[c].turn]
    IN
    \/ /\ protocol # 0
       /\ req' = [req EXCEPT ![c] = [held EXCEPT !.step = "acquired", !.gen = protocol]]
       /\ UNCHANGED <<engine, starting>>
    \/ /\ protocol = 0 /\ retired.gen = 0 /\ starting # 0
       /\ req' = [req EXCEPT ![c] = [held EXCEPT !.step = "acquire"]]
       /\ UNCHANGED <<engine, starting>>
    \/ /\ protocol = 0 /\ starting = 0
       /\ \E g \in Generations :
             /\ engine[g] = "unborn" /\ \A h \in Generations : h < g => engine[h] # "unborn"
             /\ engine' = [engine EXCEPT ![g] = "live"]
             /\ starting' = g
       /\ req' = [req EXCEPT ![c] = [held EXCEPT !.step = "acquire"]]

-----------------------------------------------------------------------------
(***************************************************************************)
(* Generations.                                                            *)
(***************************************************************************)
(* getProtocol, from the reload of a request: the current generation, the pending one, or a
   new one when the last is confirmed gone.  A stop remembers the turn it found. *)
GetProtocol(c) ==
    LET held == [req[c] EXCEPT !.turn = IF req[c].op = "stop" THEN slot.turn ELSE req[c].turn]
    IN
    \/ /\ protocol # 0
       /\ req' = [req EXCEPT ![c] = [held EXCEPT !.step = "acquired", !.gen = protocol]]
       /\ UNCHANGED <<engine, starting>>
    \/ /\ protocol = 0 /\ retired.gen = 0 /\ starting # 0
       /\ req' = [req EXCEPT ![c] = [held EXCEPT !.step = "acquire"]]
       /\ UNCHANGED <<engine, starting>>
    \/ /\ protocol = 0 /\ retired.gen = 0 /\ starting = 0
       /\ \E g \in Generations :
             /\ engine[g] = "unborn" /\ \A h \in Generations : h < g => engine[h] # "unborn"
             /\ engine' = [engine EXCEPT ![g] = "live"]
             /\ starting' = g
       /\ req' = [req EXCEPT ![c] = [held EXCEPT !.step = "acquire"]]

(* protocolRetiring, existingProtocolUnavailable, no more generations in this instance *)
NoProtocol == protocol = 0

(* The owner store was read: the session is still this owner's. *)
Reload(c) ==
    /\ req[c].step = "reload" /\ req[c].op # "owner"
    /\ owned
    /\ req[c].op = "release" => slot.state # "free"
    /\ GetProtocol(c)
    /\ UNCHANGED <<protocol, retired, slot, won, permission, upstream, client, owned, phase, faults>>
    /\ ScheduleIdleShutdown

(* The request is refused before an engine saw it: the session is not the owner's, a release
   finds no turn, the socket is bound to existing generations, the last one has not closed,
   the client has given up. *)
Refuse(c) ==
    /\ \/ /\ req[c].step = "reload" /\ req[c].op # "owner"
          /\ \/ ~owned
             \/ req[c].op = "release" /\ slot.state = "free"
             \/ NoProtocol
       \/ /\ req[c].step = "acquired"
          /\ req[c].gen = 0 \/ req[c].op = "abandoned"
    /\ Finish(c)
    /\ UNCHANGED <<engines, slot, won, permission, upstream, client, owned, phase, faults>>
    /\ ScheduleIdleShutdown

(* A storage error of reloadOwnership. *)
ReloadFails(c) ==
    /\ req[c].step = "reload"
    /\ Fault
    /\ Finish(c)
    /\ UNCHANGED <<engines, slot, won, permission, upstream, client, owned, phase>>
    /\ ScheduleIdleShutdown

Waiters(g) ==
    [c \in Clients |-> IF req[c].step = "acquire"
                         THEN [req[c] EXCEPT !.step = "acquired", !.gen = g] ELSE req[c]]

(* initializeProtocolGeneration: the child runs and becomes the current generation. *)
SpawnSucceeds ==
    /\ starting # 0 /\ phase # "closing"
    /\ protocol' = starting /\ starting' = 0
    /\ req' = Waiters(starting)
    /\ UNCHANGED <<engine, retired, slot, won, permission, upstream, client, owned, timer, phase, faults>>

(* Fault: the requests that wait for the generation are not told. *)
SpawnFails_Fault ==
    /\ starting # 0
    /\ IF phase = "closing" THEN UNCHANGED faults ELSE Fault
    /\ engine' = [engine EXCEPT ![starting] = "gone"]
    /\ starting' = 0
    /\ UNCHANGED <<req, protocol, retired, slot, won, permission, upstream, client, owned, phase>>
    /\ ScheduleIdleShutdown

(* The spawn failed, or the broker is closing: the child is closed and the waiters refused. *)
SpawnFails ==
    /\ starting # 0
    /\ IF phase = "closing" THEN UNCHANGED faults ELSE Fault
    /\ engine' = [engine EXCEPT ![starting] = "gone"]
    /\ starting' = 0
    /\ req' = Waiters(0)
    /\ UNCHANGED <<protocol, retired, slot, won, permission, upstream, client, owned, phase>>
    /\ ScheduleIdleShutdown

(* clearProtocolGeneration: the generation is retired with everything it carried, and its
   process asked to end.  What was sent to it is rejected. *)
Retire ==
    /\ protocol' = 0
    /\ retired' = [gen |-> protocol, failed |-> FALSE]
    /\ slot' = Free /\ won' = {} /\ permission' = NoPermission
    /\ notices' = {} /\ wire' = Quiet

(* The connection to the engine fails: it died, or broke the protocol. *)
ConnectionFails ==
    /\ protocol # 0 /\ Fault
    /\ Retire
    /\ client' = ToldStopped
    /\ UNCHANGED <<engine, starting, turns, req, owned, phase>>
    /\ ScheduleIdleShutdown

(* An answer to a request that timed out is uncorrelated, and fails the connection. *)
LateAnswer ==
    /\ protocol # 0 /\ wire.owes
    /\ Retire
    /\ client' = ToldStopped
    /\ UNCHANGED <<engine, starting, turns, req, owned, phase, faults>>
    /\ ScheduleIdleShutdown

(* settleRetiredProtocolGeneration *)
CloseConfirmed ==
    /\ retired.gen # 0 /\ ~retired.failed
    /\ engine' = [engine EXCEPT ![retired.gen] = "gone"]
    /\ retired' = [gen |-> 0, failed |-> FALSE]
    /\ UNCHANGED <<protocol, starting, slot, won, permission, upstream, req, client, owned, phase, faults>>
    /\ ScheduleIdleShutdown

(* The process could not be ended: the generation stays in the way of any other. *)
CloseFails ==
    /\ retired.gen # 0 /\ ~retired.failed /\ Fault
    /\ retired' = [retired EXCEPT !.failed = TRUE]
    /\ UNCHANGED <<engine, protocol, starting, slot, won, permission, upstream, req, client, owned, phase>>
    /\ ScheduleIdleShutdown

-----------------------------------------------------------------------------
(***************************************************************************)
(* Requests, after they have a generation.                                 *)
(***************************************************************************)
(* A request to a connection that has failed meanwhile is rejected, and so is a send that
   finds a turn, and a release that is not of the socket's own accepted turn. *)
Rejected(c) ==
    \/ req[c].gen # protocol
    \/ req[c].op = "send" /\ slot.state # "free"
    \/ req[c].op = "release" /\ ~(slot.state = "armed" /\ slot.socket = c /\ slot.turn = req[c].turn)

Reject(c) ==
    /\ req[c].step = "acquired" /\ req[c].gen # 0
    /\ Rejected(c)
    /\ Finish(c)
    /\ UNCHANGED <<engines, slot, won, permission, upstream, client, owned, phase, faults>>
    /\ ScheduleIdleShutdown

(* A read or a stop is written to the engine. *)
Forward(c) ==
    /\ req[c].step = "acquired" /\ req[c].gen # 0 /\ ~Rejected(c)
    /\ req[c].op \in {"read", "stop"}
    /\ req' = [req EXCEPT ![c].step = "upstream"]
    /\ UNCHANGED <<engines, slot, won, permission, upstream, client, owned, timer, phase, faults>>

(* session/send: beginTurn, the slot, the request. *)
BeginTurn(c) ==
    /\ req[c].step = "acquired" /\ req[c].gen # 0 /\ ~Rejected(c)
    /\ req[c].op = "send"
    /\ \E t \in Turns :
          /\ turns[t].gen = 0 /\ \A u \in Turns : u < t => turns[u].gen # 0
          /\ turns' = [turns EXCEPT ![t].gen = protocol]
          /\ slot' = [turn |-> t, socket |-> c, state |-> "sending", early |-> FALSE]
          /\ req' = [req EXCEPT ![c].step = "upstream", ![c].turn = t]
    /\ UNCHANGED <<engines, won, permission, notices, wire, client, owned, timer, phase, faults>>

(* broker/releaseTurn: its permissions are denied, later ones refused, their tasks awaited. *)
BeginRelease(c) ==
    /\ req[c].step = "acquired" /\ req[c].gen # 0 /\ ~Rejected(c)
    /\ req[c].op = "release"
    /\ slot' = [slot EXCEPT !.state = "releasing"]
    /\ permission' = NoPermission
    /\ req' = [req EXCEPT ![c].step = "drain"]
    /\ UNCHANGED <<engines, won, upstream, client, owned, timer, phase, faults>>

(* The rest of releaseExactTurn. *)
EndRelease(c) ==
    /\ req[c].step = "drain"
    /\ LET exact == /\ protocol = req[c].gen /\ slot.socket = c /\ slot.turn = req[c].turn
       IN  /\ slot' = IF exact THEN Free
                      ELSE IF slot.turn = req[c].turn /\ slot.state = "releasing"
                             THEN [slot EXCEPT !.state = "armed"] ELSE slot
           /\ client' = IF exact THEN [client EXCEPT ![c].boundary = 0] ELSE client
    /\ Finish(c)
    /\ UNCHANGED <<engines, won, permission, upstream, owned, phase, faults>>
    /\ ScheduleIdleShutdown

(* Fault: without a current generation there is nothing to stop. *)
ReleaseOwner_Fault(c) ==
    /\ req[c].step = "reload" /\ req[c].op = "owner"
    /\ owned /\ ~Conflicts(c, "owner")
    /\ \/ /\ protocol = 0
          /\ req' = [req EXCEPT ![c].step = "commit"]
       \/ /\ protocol # 0 /\ client[c].on
          /\ req' = [req EXCEPT ![c].step = "upstream", ![c].gen = protocol, ![c].turn = slot.turn]
    /\ UNCHANGED <<engines, slot, won, permission, upstream, client, owned, timer, phase, faults>>

(* releaseOwnerAdmitted, up to the stop: nothing is asked of an engine that does not exist,
   nothing released while one is starting or retiring, or another request holds the session. *)
ReleaseOwner(c) ==
    /\ req[c].step = "reload" /\ req[c].op = "owner"
    /\ owned /\ ~Conflicts(c, "owner")
    /\ \/ /\ protocol = 0 /\ starting = 0 /\ retired.gen = 0
          /\ req' = [req EXCEPT ![c].step = "commit"]
       \/ /\ protocol # 0 /\ client[c].on
          /\ req' = [req EXCEPT ![c].step = "upstream", ![c].gen = protocol, ![c].turn = slot.turn]
    /\ UNCHANGED <<engines, slot, won, permission, upstream, client, owned, timer, phase, faults>>

OwnerKept(c) ==
    /\ req[c].step = "reload" /\ req[c].op = "owner"
    /\ \/ ~owned \/ Conflicts(c, "owner")
       \/ protocol = 0 /\ (starting # 0 \/ retired.gen # 0)
       \/ protocol # 0 /\ ~client[c].on
    /\ Finish(c)
    /\ UNCHANGED <<engines, slot, won, permission, upstream, client, owned, phase, faults>>
    /\ ScheduleIdleShutdown

(* The durable release of the session, or the storage's refusal of it. *)
CommitRelease(c) ==
    /\ req[c].step = "commit"
    /\ \/ owned' = FALSE /\ UNCHANGED faults
       \/ Fault /\ UNCHANGED owned
    /\ Finish(c)
    /\ UNCHANGED <<engines, slot, won, permission, upstream, client, phase>>
    /\ ScheduleIdleShutdown

-----------------------------------------------------------------------------
(***************************************************************************)
(* The engine (external).                                                  *)
(***************************************************************************)
Stopped(g) ==
    [t \in Turns |-> IF turns[t].gen = g THEN [turns[t] EXCEPT !.running = FALSE] ELSE turns[t]]

(* A stopped turn may be announced as ended. *)
StopTurns ==
    /\ turns' = Stopped(protocol)
    /\ \/ UNCHANGED notices
       \/ notices' = notices \cup {t \in Turns : Running(t)}

StartTurn(t) ==
    /\ \A u \in Turns : ~Running(u)
    /\ turns' = [turns EXCEPT ![t].running = TRUE]
    /\ UNCHANGED notices

(* The engine does what a request asks, or refuses it. *)
EngineTakes(c) ==
    /\ req[c].step = "upstream" /\ req[c].gen = protocol
    /\ wire.stale = <<>>
    /\ \/ /\ \/ req[c].op \in {"read", "abandoned"} /\ UNCHANGED <<turns, notices>>
             \/ req[c].op \in {"stop", "owner"} /\ StopTurns
             \/ req[c].op = "send" /\ StartTurn(req[c].turn)
          /\ req' = [req EXCEPT ![c].step = "taken", ![c].answer = "ok"]
       \/ /\ UNCHANGED <<turns, notices>>
          /\ req' = [req EXCEPT ![c].step = "taken", ![c].answer = "error"]
    /\ UNCHANGED <<engines, slot, won, permission, wire, client, owned, timer, phase, faults>>

(* A request nobody waits for any more is taken all the same. *)
EngineTakesStale ==
    /\ protocol # 0 /\ wire.stale # <<>>
    /\ IF Head(wire.stale) = 0 THEN StopTurns ELSE StartTurn(Head(wire.stale))
    /\ wire' = [wire EXCEPT !.stale = Tail(@)]
    /\ UNCHANGED <<engines, slot, won, permission, req, client, owned, timer, phase, faults>>

EngineRefusesStale ==
    /\ protocol # 0 /\ wire.stale # <<>>
    /\ wire' = [wire EXCEPT !.stale = Tail(@)]
    /\ UNCHANGED <<engines, slot, won, permission, turns, notices, req, client, owned, timer, phase, faults>>

TurnEnds(t) ==
    /\ Running(t) /\ turns[t].gen = protocol
    /\ turns' = [turns EXCEPT ![t].running = FALSE]
    /\ notices' = notices \cup {t}
    /\ UNCHANGED <<engines, slot, won, permission, wire, req, client, owned, timer, phase, faults>>

(* requestPermission: a turn asks, and the client of the slot is shown it. *)
AskPermission(t) ==
    /\ Running(t) /\ turns[t].gen = protocol
    /\ slot.state \in {"sending", "armed"}
    /\ slot.socket # Nobody /\ client[slot.socket].on
    /\ permission = NoPermission
    /\ permission' = [turn |-> slot.turn, socket |-> slot.socket]
    /\ timer' = FALSE
    /\ UNCHANGED <<engines, slot, won, upstream, req, client, owned, phase, faults>>

(* The client answers, or thirty seconds pass. *)
PermissionAnswered ==
    /\ permission # NoPermission
    /\ permission' = NoPermission
    /\ UNCHANGED <<engines, slot, won, upstream, req, client, owned, phase, faults>>
    /\ ScheduleIdleShutdown

PermissionExpires ==
    /\ permission # NoPermission
    /\ permission' = NoPermission
    /\ UNCHANGED <<engines, slot, won, upstream, req, client, owned, timer, phase, faults>>

-----------------------------------------------------------------------------
(***************************************************************************)
(* Terminals and answers.                                                  *)
(***************************************************************************)
(* observeTerminalsWith, on the slot s: the turn ended.  A client that announced
   exactTurnRelease is told and will release it; for any other the broker does. *)
Observed(s) ==
    IF s.socket \in Exact
      THEN slot' = s /\ UNCHANGED <<won, permission>>
      ELSE slot' = Free /\ won' = won \cup {s.turn} /\ permission' = NoPermission

(* Fault: any terminal of the session ends the turn of the slot. *)
TerminalArrives_Fault(t) ==
    /\ protocol # 0 /\ t \in notices
    /\ notices' = notices \ {t}
    /\ IF slot.turn = 0 THEN UNCHANGED <<slot, won, permission>>
       ELSE IF slot.state = "sending"
              THEN slot' = [slot EXCEPT !.early = TRUE] /\ UNCHANGED <<won, permission>>
              ELSE Observed(slot)
    /\ UNCHANGED <<engines, turns, wire, req, client, owned, phase, faults>>
    /\ ScheduleIdleShutdown

(* A terminal notification arrives: kept for armTurn while its turn is being sent, and a
   completion of no other turn than the slot's. *)
TerminalArrives(t) ==
    /\ protocol # 0 /\ t \in notices
    /\ notices' = notices \ {t}
    /\ IF slot.turn # t THEN UNCHANGED <<slot, won, permission>>
       ELSE IF slot.state = "sending"
              THEN slot' = [slot EXCEPT !.early = TRUE] /\ UNCHANGED <<won, permission>>
              ELSE Observed(slot)
    /\ UNCHANGED <<engines, turns, wire, req, client, owned, phase, faults>>
    /\ ScheduleIdleShutdown

(* sessionRequestCurrent and the same generation, when the engine did what was asked. *)
Current(c) ==
    /\ req[c].gen = protocol /\ owned
    /\ req[c].op # "abandoned" /\ req[c].answer = "ok"

(* settleAcknowledgedStop: the acknowledgement is of the turn the stop found, which is still
   the slot's or ended by its own terminal meanwhile. *)
Settles(c) ==
    \/ slot.turn = req[c].turn
    \/ slot.turn = 0 /\ req[c].turn \in won

(* What the engine did is what the request still asks. *)
Fulfilled(c) ==
    /\ Current(c)
    /\ req[c].op = "send" => slot.turn = req[c].turn
    /\ req[c].op \in {"stop", "owner"} => Settles(c)

(* session/send was accepted: the turn is armed, and ended if its terminal came first. *)
SendAccepted(c) ==
    /\ req[c].step = "taken" /\ req[c].op = "send"
    /\ Fulfilled(c)
    /\ LET armed == [slot EXCEPT !.state = "armed", !.early = FALSE]
       IN  IF slot.early THEN Observed(armed)
                         ELSE slot' = armed /\ UNCHANGED <<won, permission>>
    /\ client' = IF c \in Exact /\ client[c].on
                    THEN [client EXCEPT ![c].boundary = req[c].turn] ELSE client
    /\ Finish(c)
    /\ UNCHANGED <<engines, upstream, owned, phase, faults>>
    /\ ScheduleIdleShutdown

(* abortTurn: the send failed, whatever the engine made of it. *)
Aborted(c) ==
    IF req[c].gen = protocol /\ slot.turn = req[c].turn /\ slot.state = "sending"
      THEN slot' = Free /\ permission' = NoPermission
      ELSE UNCHANGED <<slot, permission>>

Failed(c) ==
    /\ Finish(c)
    /\ IF req[c].op = "send" THEN Aborted(c) ELSE UNCHANGED <<slot, permission>>

(* The answer is an error, or is of another generation or turn, or the request was rejected
   with its generation. *)
RequestFails(c) ==
    /\ req[c].step \in {"upstream", "taken"}
    /\ \/ req[c].gen # protocol
       \/ req[c].step = "taken" /\ ~Fulfilled(c)
    /\ Failed(c)
    /\ UNCHANGED <<engines, won, upstream, client, owned, phase, faults>>
    /\ ScheduleIdleShutdown

(* The broker waits no longer.  The engine still has the request, or owes its answer. *)
RequestTimesOut(c) ==
    /\ req[c].step \in {"upstream", "taken"} /\ req[c].gen = protocol
    /\ Fault
    /\ wire' = [stale |-> IF req[c].step = "upstream" /\ req[c].op \in Exclusive
                            THEN Append(wire.stale, IF req[c].op = "send" THEN req[c].turn ELSE 0)
                            ELSE wire.stale,
                owes |-> TRUE]
    /\ Failed(c)
    /\ UNCHANGED <<engines, won, turns, notices, client, owned, phase>>
    /\ ScheduleIdleShutdown

ReadAnswered(c) ==
    /\ req[c].step = "taken" /\ req[c].op = "read" /\ Fulfilled(c)
    /\ Finish(c)
    /\ UNCHANGED <<engines, slot, won, permission, upstream, client, owned, phase, faults>>
    /\ ScheduleIdleShutdown

SlotStopped ==
    slot' = Free /\ permission' = NoPermission /\ client' = ToldStopped

StopAnswered(c) ==
    /\ req[c].step = "taken" /\ req[c].op = "stop" /\ Fulfilled(c)
    /\ SlotStopped
    /\ Finish(c)
    /\ UNCHANGED <<engines, won, upstream, owned, phase, faults>>
    /\ ScheduleIdleShutdown

(* A stop of the owner's release: from here the generation no longer matters. *)
ReleaseStopped(c) ==
    /\ req[c].step = "taken" /\ req[c].op = "owner" /\ Fulfilled(c)
    /\ SlotStopped
    /\ req' = [req EXCEPT ![c].step = "commit"]
    /\ UNCHANGED <<engines, won, upstream, owned, timer, phase, faults>>

-----------------------------------------------------------------------------
(***************************************************************************)
(* The end of the broker.                                                  *)
(***************************************************************************)
(* close: sockets are destroyed and the generation retired. *)
Close ==
    /\ phase' = "closing"
    /\ client' = [c \in Clients |-> [on |-> FALSE, boundary |-> 0]]
    /\ IF protocol # 0 THEN Retire
       ELSE permission' = NoPermission /\ UNCHANGED <<protocol, retired, slot, won, notices, wire>>
    /\ timer' = FALSE
    /\ UNCHANGED <<engine, starting, turns, req, owned>>

IdleShutdown == timer /\ Idle /\ Close /\ UNCHANGED faults

Signalled == phase \in {"fresh", "open"} /\ Fault /\ Close

(* The last await of closeOnce. *)
Closed ==
    /\ phase = "closing"
    /\ starting = 0
    /\ retired.gen = 0 \/ retired.failed
    /\ \A c \in Clients : ~Busy(c)
    /\ phase' = "closed"
    /\ UNCHANGED <<engines, slot, won, permission, upstream, req, client, owned, timer, faults>>

-----------------------------------------------------------------------------
Request(c) ==
    \/ Reload(c) \/ Refuse(c) \/ Reject(c) \/ Forward(c) \/ BeginTurn(c)
    \/ BeginRelease(c) \/ EndRelease(c) \/ ReleaseOwner(c) \/ OwnerKept(c) \/ CommitRelease(c)
    \/ SendAccepted(c) \/ RequestFails(c) \/ ReadAnswered(c)
    \/ StopAnswered(c) \/ ReleaseStopped(c)

Answering(c) == EngineTakes(c) \/ RequestTimesOut(c)

Starting == SpawnSucceeds \/ SpawnFails

Closing == CloseConfirmed \/ CloseFails

Next ==
    \/ \E c \in Clients :
          \/ Connect(c) \/ SocketCloses(c) \/ CancelRequest(c) \/ ReloadFails(c)
          \/ \E op \in {"read"} \cup Exclusive : Submit(c, op)
          \/ Request(c) \/ Answering(c)
    \/ Starting \/ Closing \/ ConnectionFails \/ LateAnswer
    \/ EngineTakesStale \/ EngineRefusesStale
    \/ \E t \in Turns : TurnEnds(t) \/ AskPermission(t) \/ TerminalArrives(t)
    \/ PermissionAnswered \/ PermissionExpires
    \/ IdleShutdown \/ Signalled \/ Closed

Spec == Init /\ [][Next]_vars

(* The broker's own steps go on; a spawn, an end of a process and a request have an outcome,
   if only by their deadlines; the idle timer fires. *)
Fairness ==
    /\ \A c \in Clients : WF_vars(Request(c) \/ Answering(c))
    /\ WF_vars(Starting \/ Closing \/ EngineTakesStale \/ EngineRefusesStale)
    /\ WF_vars(IdleShutdown \/ Closed)

FairSpec == Spec /\ Fairness

-----------------------------------------------------------------------------
(* There is never more than one engine process: a generation is replaced only once its
   process is confirmed gone, whoever asks for it and however its end turns out. *)
OneEngine ==
    \A g, h \in Generations : engine[g] = "live" /\ engine[h] = "live" => g = h

(* A turn the broker has accepted keeps the session as long as it runs in the current
   generation: no answer, terminal or release of another turn, late or not, takes its slot,
   except the exact release of the client that sent it. *)
RunningKeepsSlot ==
    [][(/\ slot.state \in {"armed", "releasing"} /\ Running(slot.turn)
        /\ protocol' = protocol /\ turns'[slot.turn].running)
       => \/ slot'.turn = slot.turn
          \/ \E c \in Clients : /\ req[c].step = "drain" /\ req'[c].step = "idle"
                               /\ req[c].turn = slot.turn /\ slot.socket = c]_vars

(* An acknowledged stop, and a release of the session, mean that none of its turns runs in
   any engine, the retired ones included. *)
StopsAreReal ==
    [][(\/ \E c \in Clients : StopAnswered(c) \/ ReleaseStopped(c)
        \/ owned /\ ~owned')
       => \A t \in Turns : ~Running(t)]_vars

(* A pending permission belongs to the tracked turn and its connected client: nobody is
   asked for a turn that was stopped, released, aborted or lost with its generation. *)
PermissionIsTracked ==
    permission # NoPermission =>
        /\ slot.turn = permission.turn /\ slot.socket = permission.socket
        /\ client[permission.socket].on
        /\ slot.state \in {"sending", "armed"}

(* Whenever nothing is left to do the idle timer is armed, whichever of the many things it
   waits for came last; only a broker nobody has ever connected to waits without it. *)
IdleIsTimed == Idle /\ phase = "open" => timer

(* Every request comes to an end, and a broker that closes ends. *)
RequestsEnd ==
    /\ \A c \in Clients : Busy(c) ~> ~Busy(c)
    /\ phase = "closing" ~> phase = "closed"

=============================================================================
