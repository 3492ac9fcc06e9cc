-------------------------- MODULE RelayLinkProofs ---------------------------
(***************************************************************************)
(* Proofs about RelayLink, for any sets of requests, any capacity of the   *)
(* queues and any number of commands: what becomes of a request that is    *)
(* sent, and how the status /status shows follows the connection.          *)
(***************************************************************************)
EXTENDS RelayLink, SequenceTheorems, WellFoundedInduction, TLAPS

\* The type invariant, conjunct by conjunct.
QueueTypes ==
    /\ transportQ \in Seq(Events) /\ Len(transportQ) <= Capacity
    /\ sessionQ \in Seq(Events) /\ Len(sessionQ) <= Capacity
    /\ monitorQ \in Seq(Events) /\ Len(monitorQ) <= Capacity

StreamTypes ==
    /\ connected \in BOOLEAN /\ connecting \in BOOLEAN /\ reading \in BOOLEAN
    /\ resolving \in Nat /\ failing \in Nat /\ closing \in Nat
    /\ link \in {"up", "down"}
    /\ orchestrator \in {"running", "dead"}

RequestTypes ==
    /\ writing \subseteq AllRequests /\ spawned \subseteq AllRequests
    /\ dropped \subseteq AllRequests /\ relayed \subseteq AllRequests
    /\ replied \subseteq AllRequests
    /\ phase \in [AllRequests -> {"idle", "open", "answered", "timedout"}]
    /\ answer \in [AllRequests -> {"accepted", "refused", None}]

ViewTypes ==
    /\ status \in Status /\ told \in Status
    /\ shown \in {"Connected", "Failed", "Not connected"}
    /\ issued \in [connect : Nat, disconnect : Nat, query : Nat, requests : SUBSET Commands,
                   last : {"none", "connect", "disconnect", "early disconnect"}]

Types == QueueTypes /\ StreamTypes /\ RequestTypes /\ ViewTypes

Lone(S) == \A i, j \in S : i = j

Queued(r) == At(transportQ, {"send"}, r)
Reported(r) == At(sessionQ, {"sent", "send_failed"}, r)

\* Where the send of a request can be.
SendOf(r) ==
    /\ Lone(Queued(r)) /\ Lone(Reported(r))
    /\ Queued(r) # {} => r \notin writing /\ Reported(r) = {}
    /\ r \in writing => Reported(r) = {}
    /\ phase[r] = "idle" => Queued(r) = {} /\ r \notin writing /\ Reported(r) = {}

\* An answer, queued or matched, is of a request that the relay received.
AnswerInv ==
    /\ replied \subseteq relayed
    /\ \A i \in DOMAIN sessionQ : sessionQ[i].t \in {"accepted", "refused"} => sessionQ[i].r \in replied
    /\ \A r \in AllRequests : answer[r] # None => r \in replied
    /\ \A r \in AllRequests : phase[r] = "answered" => answer[r] # None

\* After a /disconnect that overtook no /connect, nothing is dialled, and the
\* command is still queued where there is a connection.
DisconnectInv ==
    issued.last = "disconnect" =>
        /\ ~Dialling
        /\ connected => \E i \in DOMAIN transportQ : transportQ[i].t = "disconnect"

\* t is the status after the events of q, from s: h is the run of the monitor.
Follows(q, s, t) ==
    \E h \in [0 .. Len(q) -> Status] :
        /\ h[0] = s /\ h[Len(q)] = t
        /\ \A i \in 1 .. Len(q) : h[i] = Monitored(h[i - 1], q[i])

\* StatusFollowsEvents, queue by queue.
StatusInv == \E st \in Status : Follows(monitorQ, status, st) /\ Follows(sessionQ, st, told)

\* One dial at a time, and none beside a connection or its end: what makes the
\* transport's events tell about the connection, where each /connect waits for
\* the command before and connections do not break.
Dials(q) == At(q, {"connect", "connect_bad"}, None)

DialInv ==
    /\ Lone(Dials(sessionQ)) /\ Lone(Dials(transportQ)) /\ resolving <= 1 /\ failing = 0
    /\ Dials(sessionQ) # {} => Dials(transportQ) = {} /\ resolving = 0 /\ ~connecting
    /\ Dials(transportQ) # {} => resolving = 0 /\ ~connecting
    /\ resolving # 0 => ~connecting

Dialled == Dials(sessionQ) # {} \/ Dials(transportQ) # {} \/ resolving # 0 \/ connecting

ToldInv ==
    /\ Dialled => ~connected /\ ~reading /\ closing = 0
    /\ connected => reading /\ link = "up" /\ closing = 0 /\ told.connected
    /\ told.connected => told.known /\ (connected \/ closing # 0)

\* No queue is full: nothing that is pushed is lost.
Room == \A q \in {transportQ, sessionQ, monitorQ} : Len(q) < Capacity

-----------------------------------------------------------------------------
\* The type invariant is the four groups.
LEMMA TypesOK == TypeOK <=> Types
<1>1. TypeOK => Types
  BY DEF TypeOK, Types, QueueTypes, StreamTypes, RequestTypes, ViewTypes
<1>2. Types => TypeOK
  BY DEF TypeOK, Types, QueueTypes, StreamTypes, RequestTypes, ViewTypes
<1> QED
  BY <1>1, <1>2

\* What the proofs need of the constants most often.
LEMMA LinkFacts == Capacity \in Nat /\ Answers \subseteq {"accepted", "refused"}
BY LinkAssumption

\* async_queue::push leaves what is queued where it is and adds at most the new
\* event, at the end.
LEMMA Pushed ==
    ASSUME NEW q \in Seq(Events), Len(q) <= Capacity, NEW e \in Events
    PROVE  /\ Push(q, e) \in Seq(Events) /\ Len(Push(q, e)) <= Capacity
           /\ \A i \in DOMAIN q : i \in DOMAIN Push(q, e) /\ Push(q, e)[i] = q[i]
           /\ \A i \in DOMAIN Push(q, e) :
                 i \in DOMAIN q \/ (i = Len(q) + 1 /\ Push(q, e)[i] = e)
<1>1. /\ Len(q) \in Nat /\ DOMAIN q = 1 .. Len(q)
  BY LenProperties
<1>2. CASE Len(q) < Capacity
  <2>1. /\ Append(q, e) \in Seq(Events) /\ Len(Append(q, e)) = Len(q) + 1
        /\ \A i \in 1 .. Len(q) : Append(q, e)[i] = q[i]
        /\ Append(q, e)[Len(q) + 1] = e
    BY AppendProperties
  <2>2. DOMAIN Append(q, e) = 1 .. Len(q) + 1
    BY <2>1, LenProperties
  <2>3. Push(q, e) = Append(q, e)
    BY <1>2 DEF Push
  <2> QED
    BY <1>1, <1>2, <2>1, <2>2, <2>3, LinkFacts
<1>3. CASE ~(Len(q) < Capacity)
  BY <1>1, <1>3 DEF Push
<1> QED
  BY <1>2, <1>3

\* What is left when the first event of a queue is taken.
LEMMA Popped ==
    ASSUME NEW q \in Seq(Events), Len(q) <= Capacity, q # <<>>
    PROVE  /\ Tail(q) \in Seq(Events) /\ Len(Tail(q)) <= Capacity
           /\ Head(q) \in Events /\ 1 \in DOMAIN q /\ Head(q) = q[1]
           /\ \A i \in DOMAIN Tail(q) : i + 1 \in DOMAIN q /\ Tail(q)[i] = q[i + 1]
           /\ \A i \in DOMAIN q : i # 1 => i - 1 \in DOMAIN Tail(q)
<1>1. /\ Len(q) \in Nat \ {0} /\ DOMAIN q = 1 .. Len(q)
  BY LenProperties, EmptySeq
<1>2. /\ Head(q) \in Events /\ Tail(q) \in Seq(Events) /\ Len(Tail(q)) = Len(q) - 1
      /\ \A i \in 1 .. Len(Tail(q)) : Tail(q)[i] = q[i + 1]
  BY HeadTailProperties
<1>3. DOMAIN Tail(q) = 1 .. Len(q) - 1
  BY <1>2, LenProperties
<1>4. Head(q) = q[1]
  BY <1>1
<1> QED
  BY <1>1, <1>2, <1>3, <1>4, LinkFacts

\* Nothing is under way at the start.
LEMMA InitTypes == Init => Types
<1> SUFFICES ASSUME Init PROVE Types
  OBVIOUS
<1>1. QueueTypes
  <2>1. <<>> \in Seq(Events) /\ Len(<<>>) = 0 /\ Capacity \in Nat
    BY EmptySeq, LinkFacts
  <2>2. transportQ = <<>> /\ sessionQ = <<>> /\ monitorQ = <<>>
    BY DEF Init
  <2>3. 0 <= Capacity
    BY <2>1
  <2> QED
    BY <2>1, <2>2, <2>3, Zenon DEF QueueTypes
<1>2. StreamTypes
  BY DEF Init, StreamTypes
<1>3. RequestTypes
  BY DEF Init, RequestTypes, Tracker!Init
<1>4. ViewTypes
  BY DEF Init, ViewTypes, Status, Unknown
<1> QED
  BY <1>1, <1>2, <1>3, <1>4 DEF Types

\* A taken event is about a request exactly when its type says so.
LEMMA Taken ==
    ASSUME QueueTypes
    PROVE  /\ sessionQ # <<>> => Head(sessionQ) \in Events
           /\ transportQ # <<>> => Head(transportQ) \in Events
           /\ monitorQ # <<>> => Head(monitorQ) \in Events
BY Popped DEF QueueTypes

\* Every event that is pushed is an event.
LEMMA EventTypes ==
    /\ \A t \in {"connect", "connect_bad", "disconnect", "query_status", "connected",
                  "connect_failed", "disconnected"} : Event(t) \in Events
    /\ \A t \in {"request", "send", "sent", "send_failed", "accepted", "refused"} :
          \A r \in AllRequests : EventOf(t, r) \in Events
    /\ \A e \in Events :
          e.t \in {"request", "send", "sent", "send_failed", "accepted", "refused"} =>
              e.r \in AllRequests /\ e = EventOf(e.t, e.r)
BY DEF Event, EventOf, Events

\* The three ways a queue changes.
Moved(q, r) ==
    \/ r = q
    \/ \E e \in Events : r = Push(q, e)
    \/ q # <<>> /\ r = Tail(q)

\* A queue that changes so keeps its type.
LEMMA MovedTyped ==
    ASSUME NEW q \in Seq(Events), Len(q) <= Capacity, NEW r, Moved(q, r)
    PROVE  r \in Seq(Events) /\ Len(r) <= Capacity
<1>1. ASSUME NEW e \in Events, r = Push(q, e) PROVE r \in Seq(Events) /\ Len(r) <= Capacity
  BY <1>1, Pushed
<1>2. CASE q # <<>> /\ r = Tail(q)
  BY <1>2, Popped
<1> QED
  BY <1>1, <1>2 DEF Moved

\* Every step changes the queues one event at a time.
LEMMA QueueStep ==
    ASSUME QueueTypes, RequestTypes, [Next]_vars
    PROVE  Moved(transportQ, transportQ') /\ Moved(sessionQ, sessionQ') /\ Moved(monitorQ, monitorQ')
<1>0. /\ sessionQ # <<>> => Head(sessionQ) \in Events
      /\ transportQ # <<>> => Head(transportQ) \in Events
  BY Taken
<1> DEFINE Kept == Moved(transportQ, transportQ') /\ Moved(sessionQ, sessionQ') /\ Moved(monitorQ, monitorQ')
<1>1. CASE Connect
  BY <1>1, EventTypes DEF Connect, Moved
<1>2. CASE Disconnect \/ QueryStatus
  BY <1>2, EventTypes DEF Disconnect, QueryStatus, Moved
<1>3. ASSUME NEW r \in AllRequests, Request(r) \/ StartRequest(r) PROVE Kept
  BY <1>3, EventTypes DEF Request, StartRequest, Moved
<1>4. ASSUME NEW r \in AllRequests, FinishRequest(r) PROVE Kept
  BY <1>4 DEF FinishRequest, Moved, queues
<1>5. ASSUME NEW r \in AllRequests, ReadAnswer(r) PROVE Kept
  <2>1. PICK v \in Answers : sessionQ' = Push(sessionQ, EventOf(v, r))
    BY <1>5 DEF ReadAnswer, Emit
  <2>2. EventOf(v, r) \in Events
    BY EventTypes, LinkFacts
  <2> QED
    BY <1>5, <2>1, <2>2 DEF ReadAnswer, Moved
<1>6. ASSUME NEW r \in AllRequests, WriteDone(r) PROVE Kept
  BY <1>6, EventTypes DEF WriteDone, Emit, Moved
<1>7. CASE Orchestrate
  BY <1>0, <1>7
     DEF Orchestrate, HandleConnect, HandleRequest, HandleConnected, HandleReport, HandleSent,
         HandleBytes, Take, Moved
<1>8. CASE TransportRefuse \/ TransportConnect \/ TransportDisconnect
  BY <1>8, EventTypes
     DEF TransportRefuse, TransportConnect, TransportDisconnect, TakeCommand, Emit, Moved
<1>9. CASE TransportSend
  <2>1. Head(transportQ).r \in AllRequests /\ Moved(transportQ, transportQ')
    BY <1>0, <1>9, EventTypes DEF TransportSend, TakeCommand, Moved
  <2>2. EventOf("send_failed", Head(transportQ).r) \in Events
    BY <2>1, EventTypes
  <2> QED
    BY <1>9, <2>1, <2>2 DEF TransportSend, Emit, Moved
<1>10. CASE Monitor
  BY <1>10 DEF Monitor, Moved
<1>11. CASE Resolved \/ ReadEnds \/ LinkLost
  BY <1>11 DEF Resolved, ReadEnds, LinkLost, Moved, queues
<1>12. CASE ConnectFailed \/ ConnectDone \/ CloseDone
  BY <1>12, EventTypes DEF ConnectFailed, ConnectDone, CloseDone, Emit, Moved
<1>13. CASE UNCHANGED vars
  BY <1>13 DEF vars, queues, Moved
<1> QED
  BY <1>1, <1>2, <1>3, <1>4, <1>5, <1>6, <1>7, <1>8, <1>9, <1>10, <1>11, <1>12, <1>13
     DEF Next, Transport

\* Every step keeps the types of the queues.
LEMMA QueuesTyped ==
    ASSUME QueueTypes, RequestTypes, [Next]_vars
    PROVE  QueueTypes'
<1>1. Moved(transportQ, transportQ') /\ Moved(sessionQ, sessionQ') /\ Moved(monitorQ, monitorQ')
  BY QueueStep
<1>2. transportQ' \in Seq(Events) /\ Len(transportQ') <= Capacity
  BY <1>1, MovedTyped DEF QueueTypes
<1>3. sessionQ' \in Seq(Events) /\ Len(sessionQ') <= Capacity
  BY <1>1, MovedTyped DEF QueueTypes
<1>4. monitorQ' \in Seq(Events) /\ Len(monitorQ') <= Capacity
  BY <1>1, MovedTyped DEF QueueTypes
<1> QED
  BY <1>2, <1>3, <1>4 DEF QueueTypes

\* Every step keeps the types of the stream's state.
LEMMA StreamTyped ==
    ASSUME StreamTypes, [Next]_vars
    PROVE  StreamTypes'
<1> USE DEF StreamTypes
<1>1. CASE UNCHANGED <<connected, dials, link, reading, closing, orchestrator>>
  BY <1>1 DEF dials
<1>2. CASE HandleConnected
  BY <1>2 DEF HandleConnected, dials, stream
<1>3. CASE TransportConnect
  <2>1. resolving' \in Nat
    BY <1>3 DEF TransportConnect
  <2> QED
    BY <1>3, <2>1, Zenon DEF TransportConnect, stream
<1>4. CASE TransportDisconnect
  <2>1. closing' \in Nat
    BY <1>4 DEF TransportDisconnect
  <2>2. connected' = FALSE /\ UNCHANGED <<dials, link, reading, orchestrator>>
    BY <1>4, Zenon DEF TransportDisconnect
  <2> QED
    BY <2>1, <2>2, Zenon DEF dials
<1>5. CASE Resolved
  <2>1. resolving' \in Nat /\ failing' \in Nat
    BY <1>5 DEF Resolved
  <2>2. connecting' = TRUE /\ link' = "down" /\ UNCHANGED <<connected, reading, closing, orchestrator>>
    BY <1>5, Zenon DEF Resolved
  <2> QED
    BY <2>1, <2>2, Zenon
<1>6. CASE ConnectFailed
  <2>1. resolving' \in Nat /\ failing' \in Nat
    BY <1>6 DEF ConnectFailed
  <2>2. connecting' \in {connecting, FALSE} /\ UNCHANGED <<connected, stream, orchestrator>>
    BY <1>6, Zenon DEF ConnectFailed
  <2> QED
    BY <2>1, <2>2, Zenon DEF stream
<1>7. CASE ConnectDone
  BY <1>7, Zenon DEF ConnectDone
<1>8. CASE ReadEnds \/ LinkLost
  BY <1>8, Zenon DEF ReadEnds, LinkLost, dials
<1>9. CASE CloseDone
  <2>1. closing' \in Nat
    BY <1>9 DEF CloseDone
  <2>2. link' = "down" /\ UNCHANGED <<connected, dials, reading, orchestrator>>
    BY <1>9, Zenon DEF CloseDone
  <2> QED
    BY <2>1, <2>2, Zenon DEF dials
<1> QED
  BY <1>1, <1>2, <1>3, <1>4, <1>5, <1>6, <1>7, <1>8, <1>9
     DEF Next, vars, stream, Orchestrate, Transport, Connect, Disconnect, QueryStatus, Request,
         StartRequest, FinishRequest, ReadAnswer, WriteDone, HandleConnect, HandleRequest,
         HandleReport, HandleSent, HandleBytes, TransportRefuse, TransportSend, Monitor

\* Every step keeps the types of the requests.
LEMMA RequestsTyped ==
    ASSUME QueueTypes, RequestTypes, [Next]_vars
    PROVE  RequestTypes'
<1> USE DEF RequestTypes
<1>0. /\ sessionQ # <<>> => Head(sessionQ) \in Events
      /\ transportQ # <<>> => Head(transportQ) \in Events
  BY Taken
<1>1. CASE UNCHANGED <<writing, requests, relay>>
  BY <1>1 DEF requests, relay
<1>2. CASE HandleRequest
  <2>1. Head(sessionQ).r \in AllRequests
    BY <1>0, <1>2, EventTypes DEF HandleRequest, Take
  <2> QED
    BY <1>2, <2>1 DEF HandleRequest, relay, stream
<1>3. CASE HandleConnected
  <2>1. spawned' \subseteq spawned \cup Spawns
    BY <1>3 DEF HandleConnected
  <2> QED
    BY <1>3, <2>1 DEF HandleConnected, relay, stream, AllRequests
<1>4. CASE HandleBytes
  <2>1. Head(sessionQ).r \in AllRequests /\ Head(sessionQ).t \in {"accepted", "refused"}
    BY <1>0, <1>4, EventTypes DEF HandleBytes, Take
  <2> QED
    BY <1>4, <2>1 DEF HandleBytes, relay, stream, Tracker!Match
<1>5. ASSUME NEW r \in AllRequests, StartRequest(r) PROVE RequestTypes'
  BY <1>5 DEF StartRequest, relay, stream, Tracker!Open
<1>6. ASSUME NEW r \in AllRequests, FinishRequest(r) PROVE RequestTypes'
  BY <1>6 DEF FinishRequest, relay, stream, Tracker!Finish
<1>7. ASSUME NEW r \in AllRequests, ReadAnswer(r) \/ WriteDone(r) PROVE RequestTypes'
  BY <1>7 DEF ReadAnswer, WriteDone, requests, stream
<1>8. CASE TransportSend
  <2>1. Head(transportQ).r \in AllRequests
    BY <1>0, <1>8, EventTypes DEF TransportSend, TakeCommand
  <2> QED
    BY <1>8, <2>1 DEF TransportSend, requests, relay
<1> QED
  BY <1>1, <1>2, <1>3, <1>4, <1>5, <1>6, <1>7, <1>8
     DEF Next, vars, stream, Orchestrate, Transport, Connect, Disconnect, QueryStatus, Request,
         HandleConnect, HandleReport, HandleSent, TransportRefuse, TransportConnect,
         TransportDisconnect, Resolved, ConnectFailed, ConnectDone, ReadEnds, CloseDone,
         LinkLost, Monitor

\* connection_monitor keeps a state of its type.
LEMMA MonitoredType ==
    ASSUME NEW st \in Status, NEW e
    PROVE  Monitored(st, e) \in Status
<1>1. CASE e.t = "connected"
  BY <1>1 DEF Monitored, Status
<1>2. CASE e.t = "connect_failed"
  BY <1>2 DEF Monitored, Status
<1>3. CASE e.t = "disconnected"
  BY <1>3 DEF Monitored, Status
<1>4. CASE e.t = "send_failed"
  BY <1>4 DEF Monitored, Status
<1>5. CASE e.t \notin {"connected", "connect_failed", "disconnected", "send_failed"}
  BY <1>5 DEF Monitored
<1> QED
  BY <1>1, <1>2, <1>3, <1>4, <1>5

\* What a step does to the history of the transport's events: it records what
\* is emitted.
LEMMA ToldStep ==
    ASSUME [Next]_vars
    PROVE  UNCHANGED told \/ \E e : Emit(e)
BY DEF Next, vars, Orchestrate, Transport, Connect, Disconnect, QueryStatus, Request,
       StartRequest, FinishRequest, ReadAnswer, WriteDone, HandleConnect, HandleRequest,
       HandleConnected, HandleReport, HandleSent, HandleBytes, TransportRefuse, TransportConnect,
       TransportSend, TransportDisconnect, Resolved, ConnectFailed, ConnectDone, ReadEnds,
       CloseDone, LinkLost, Monitor

\* Every step keeps the types of what the user sees and of what they asked for.
LEMMA ViewTyped ==
    ASSUME ViewTypes, [Next]_vars
    PROVE  ViewTypes'
<1>1. told' \in Status
  <2>1. CASE UNCHANGED told
    BY <2>1 DEF ViewTypes
  <2>2. ASSUME NEW e, Emit(e) PROVE told' \in Status
    BY <2>2, MonitoredType DEF ViewTypes, Emit
  <2> QED
    BY <2>1, <2>2, ToldStep
<1>2. status' \in Status /\ shown' \in {"Connected", "Failed", "Not connected"}
  <2>1. CASE UNCHANGED <<status, shown>>
    BY <2>1 DEF ViewTypes
  <2>2. CASE Monitor
    <3>1. status' \in Status
      BY <2>2, MonitoredType DEF Monitor, ViewTypes
    <3>2. Shown(status) \in {"Connected", "Failed", "Not connected"}
      BY DEF Shown
    <3> QED
      BY <2>2, <3>1, <3>2 DEF Monitor, ViewTypes
  <2> QED
    BY <2>1, <2>2
       DEF Next, vars, Orchestrate, Transport, Connect, Disconnect, QueryStatus, Request,
           StartRequest, FinishRequest, ReadAnswer, WriteDone, HandleConnect, HandleRequest,
           HandleConnected, HandleReport, HandleSent, HandleBytes, TransportRefuse,
           TransportConnect, TransportSend, TransportDisconnect, Resolved, ConnectFailed,
           ConnectDone, ReadEnds, CloseDone, LinkLost
<1>3. issued' \in [connect : Nat, disconnect : Nat, query : Nat, requests : SUBSET Commands,
                   last : {"none", "connect", "disconnect", "early disconnect"}]
  <2>1. CASE UNCHANGED issued
    BY <2>1 DEF ViewTypes
  <2>2. CASE Connect
    <3>1. issued' = [issued EXCEPT !.connect = issued.connect + 1, !.last = "connect"]
      BY <2>2 DEF Connect
    <3>2. issued.connect + 1 \in Nat
      <4>1. issued.connect \in Nat
        BY Zenon DEF ViewTypes
      <4> QED
        BY <4>1
    <3> QED
      BY <3>1, <3>2, Zenon DEF ViewTypes
  <2>3. CASE Disconnect
    <3>1. \E l \in {"early disconnect", "disconnect"} :
              issued' = [issued EXCEPT !.disconnect = issued.disconnect + 1, !.last = l]
      BY <2>3, Zenon DEF Disconnect
    <3>2. issued.disconnect + 1 \in Nat
      <4>1. issued.disconnect \in Nat
        BY Zenon DEF ViewTypes
      <4> QED
        BY <4>1
    <3> QED
      BY <3>1, <3>2, Zenon DEF ViewTypes
  <2>4. CASE QueryStatus
    <3>1. issued' = [issued EXCEPT !.query = issued.query + 1]
      BY <2>4 DEF QueryStatus
    <3>2. issued.query + 1 \in Nat
      <4>1. issued.query \in Nat
        BY Zenon DEF ViewTypes
      <4> QED
        BY <4>1
    <3> QED
      BY <3>1, <3>2, Zenon DEF ViewTypes
  <2>5. ASSUME NEW r \in AllRequests, Request(r)
        PROVE  issued' \in [connect : Nat, disconnect : Nat, query : Nat,
                            requests : SUBSET Commands,
                            last : {"none", "connect", "disconnect", "early disconnect"}]
    <3>1. issued' = [issued EXCEPT !.requests = issued.requests \cup {r}] /\ r \in Commands
      BY <2>5 DEF Request
    <3> QED
      BY <3>1 DEF ViewTypes
  <2> QED
    BY <2>1, <2>2, <2>3, <2>4, <2>5
       DEF Next, vars, Orchestrate, Transport,
           StartRequest, FinishRequest, ReadAnswer, WriteDone, HandleConnect, HandleRequest,
           HandleConnected, HandleReport, HandleSent, HandleBytes, TransportRefuse,
           TransportConnect, TransportSend, TransportDisconnect, Resolved, ConnectFailed,
           ConnectDone, ReadEnds, CloseDone, LinkLost, Monitor
<1> QED
  BY <1>1, <1>2, <1>3 DEF ViewTypes

\* Every step keeps the types.
LEMMA NextTypes == Types /\ [Next]_vars => Types'
BY QueuesTyped, StreamTyped, RequestsTyped, ViewTyped DEF Types

\* The types hold in every state.
LEMMA Typed == Spec => []Types
BY InitTypes, NextTypes, PTL DEF Spec

-----------------------------------------------------------------------------
(* What becomes of a request that is sent.                                 *)

\* S' has no more than S, by number.
Shrinks(S, T) == (S = {} => T = {}) /\ (Lone(S) => Lone(T))

\* A queue changes, and no event about r of these types joins it.
MovedPast(q, p, types, r) ==
    \/ p = q
    \/ \E e \in Events : p = Push(q, e) /\ ~(e.t \in types /\ e.r = r)
    \/ q # <<>> /\ p = Tail(q)

\* The position of an event that joins.
LEMMA PushAt ==
    ASSUME NEW q \in Seq(Events), Len(q) <= Capacity, NEW e \in Events, NEW types, NEW r
    PROVE  /\ At(Push(q, e), types, r) \subseteq At(q, types, r) \cup {Len(q) + 1}
           /\ ~(e.t \in types /\ e.r = r) => At(Push(q, e), types, r) = At(q, types, r)
<1>1. /\ \A i \in DOMAIN q : i \in DOMAIN Push(q, e) /\ Push(q, e)[i] = q[i]
      /\ \A i \in DOMAIN Push(q, e) :
            i \in DOMAIN q \/ (i = Len(q) + 1 /\ Push(q, e)[i] = e)
  BY Pushed
<1>2. ASSUME NEW i \in At(Push(q, e), types, r), i \notin At(q, types, r)
      PROVE  i = Len(q) + 1 /\ e.t \in types /\ e.r = r
  BY <1>1, <1>2, Zenon DEF At
<1>3. At(q, types, r) \subseteq At(Push(q, e), types, r)
  BY <1>1, Zenon DEF At
<1> QED
  BY <1>2, <1>3, Zenon

\* The positions when the first event left; it was the only one about r if it
\* was one.
LEMMA PopAt ==
    ASSUME NEW q \in Seq(Events), Len(q) <= Capacity, q # <<>>, NEW types, NEW r
    PROVE  /\ \A i \in At(Tail(q), types, r) : i \in Nat \ {0} /\ i + 1 \in At(q, types, r)
           /\ Shrinks(At(q, types, r), At(Tail(q), types, r))
           /\ Head(q).t \in types /\ Head(q).r = r =>
                  1 \in At(q, types, r) /\ (Lone(At(q, types, r)) => At(Tail(q), types, r) = {})
<1>1. DOMAIN Tail(q) \subseteq Nat \ {0}
  <2>1. Tail(q) \in Seq(Events)
    BY Popped
  <2> QED
    BY <2>1, LenProperties
<1>2. \A i \in At(Tail(q), types, r) : i \in Nat \ {0} /\ i + 1 \in At(q, types, r)
  BY <1>1, Popped DEF At
<1>3. Shrinks(At(q, types, r), At(Tail(q), types, r))
  BY <1>2 DEF Shrinks, Lone
<1>4. ASSUME Head(q).t \in types, Head(q).r = r PROVE 1 \in At(q, types, r)
  BY <1>4, Popped DEF At
<1>5. ASSUME 1 \in At(q, types, r), Lone(At(q, types, r)) PROVE At(Tail(q), types, r) = {}
  BY <1>2, <1>5 DEF Lone
<1> QED
  BY <1>2, <1>3, <1>4, <1>5

\* So a queue that moves past r has no more events about it.
LEMMA PastShrinks ==
    ASSUME NEW q \in Seq(Events), Len(q) <= Capacity, NEW p, NEW types, NEW r,
           MovedPast(q, p, types, r)
    PROVE  Shrinks(At(q, types, r), At(p, types, r))
<1>1. CASE p = q
  BY <1>1 DEF Shrinks
<1>2. ASSUME NEW e \in Events, p = Push(q, e), ~(e.t \in types /\ e.r = r)
      PROVE  Shrinks(At(q, types, r), At(p, types, r))
  <2>1. At(p, types, r) = At(q, types, r)
    BY <1>2, PushAt
  <2> QED
    BY <2>1 DEF Shrinks
<1>3. CASE q # <<>> /\ p = Tail(q)
  BY <1>3, PopAt
<1> QED
  BY <1>1, <1>2, <1>3 DEF MovedPast

\* What joins the transport's queue, and from where.
LEMMA TransportJoins ==
    ASSUME QueueTypes, [Next]_vars
    PROVE  \/ UNCHANGED transportQ
           \/ transportQ # <<>> /\ transportQ' = Tail(transportQ) /\ Transport
           \/ \E e \in Events :
                 /\ transportQ' = Push(transportQ, e)
                 /\ \/ e.t = "send" /\ StartRequest(e.r)
                    \/ e.t = "disconnect" /\ Disconnect
                    \/ e.t \in {"connect", "connect_bad"} /\ HandleConnect /\ e = Head(sessionQ)
<1> DEFINE Joins ==
        \E e \in Events :
            /\ transportQ' = Push(transportQ, e)
            /\ \/ e.t = "send" /\ StartRequest(e.r)
               \/ e.t = "disconnect" /\ Disconnect
               \/ e.t \in {"connect", "connect_bad"} /\ HandleConnect /\ e = Head(sessionQ)
<1>0. sessionQ # <<>> => Head(sessionQ) \in Events
  BY Taken
<1>1. CASE Disconnect
  <2>1. Event("disconnect") \in Events /\ Event("disconnect").t = "disconnect"
    BY EventTypes DEF Event
  <2> QED
    BY <1>1, <2>1 DEF Disconnect
<1>2. ASSUME NEW s \in AllRequests, StartRequest(s) PROVE UNCHANGED transportQ \/ Joins
  <2>1. transportQ' = transportQ \/ transportQ' = Push(transportQ, EventOf("send", s))
    BY <1>2 DEF StartRequest
  <2>2. /\ EventOf("send", s) \in Events /\ EventOf("send", s).r = s
        /\ EventOf("send", s).t = "send"
    BY EventTypes DEF EventOf
  <2> QED
    BY <1>2, <2>1, <2>2
<1>3. CASE HandleConnect
  <2>1. /\ transportQ' = Push(transportQ, Head(sessionQ)) /\ Head(sessionQ) \in Events
        /\ Head(sessionQ).t \in {"connect", "connect_bad"}
    BY <1>0, <1>3 DEF HandleConnect, Take
  <2> QED
    BY <1>3, <2>1
<1>4. CASE Transport
  BY <1>4
     DEF Transport, TransportRefuse, TransportConnect, TransportSend, TransportDisconnect,
         TakeCommand
<1> QED
  BY <1>1, <1>2, <1>3, <1>4
     DEF Next, vars, queues, Orchestrate, Connect, QueryStatus, Request,
         FinishRequest, ReadAnswer, WriteDone, HandleRequest, HandleConnected, HandleReport,
         HandleSent, HandleBytes, Resolved, ConnectFailed, ConnectDone, ReadEnds,
         CloseDone, LinkLost, Monitor

\* What joins the orchestrator's queue, and from where.
SessionJoins ==
    \E e \in Events :
        /\ sessionQ' = Push(sessionQ, e)
        /\ \/ e.t \in {"connect", "connect_bad"} /\ Connect
           \/ e.t = "request" /\ UNCHANGED told
           \/ e.t \in {"connected", "connect_failed", "disconnected"} /\ Emit(e)
           \/ /\ e.t \in {"sent", "send_failed"} /\ Emit(e)
              /\ WriteDone(e.r) \/ (TransportSend /\ Head(transportQ).r = e.r)
           \/ e.t \in {"accepted", "refused"} /\ Emit(e) /\ ReadAnswer(e.r)

\* Every step of the queue is the orchestrator's, or one of these.
LEMMA SessionJoined ==
    ASSUME QueueTypes, [Next]_vars
    PROVE  \/ UNCHANGED <<sessionQ, told>>
           \/ sessionQ # <<>> /\ sessionQ' = Tail(sessionQ) /\ UNCHANGED told /\ Orchestrate
           \/ SessionJoins
<1>0. transportQ # <<>> => Head(transportQ) \in Events
  BY Taken
<1>1. CASE Connect
  <2>1. PICK t \in {"connect", "connect_bad"} : sessionQ' = Push(sessionQ, Event(t))
    BY <1>1 DEF Connect
  <2>2. Event(t) \in Events /\ Event(t).t = t
    BY EventTypes DEF Event
  <2> QED
    BY <1>1, <2>1, <2>2 DEF SessionJoins
<1>2. ASSUME NEW s \in AllRequests, Request(s) PROVE SessionJoins
  <2>1. sessionQ' = Push(sessionQ, EventOf("request", s)) /\ UNCHANGED told
    BY <1>2 DEF Request
  <2>2. EventOf("request", s) \in Events /\ EventOf("request", s).t = "request"
    BY EventTypes DEF EventOf
  <2> QED
    BY <2>1, <2>2 DEF SessionJoins
<1>3. ASSUME NEW s \in AllRequests, ReadAnswer(s) PROVE SessionJoins
  <2>1. PICK v \in {"accepted", "refused"} : Emit(EventOf(v, s))
    BY <1>3, LinkFacts DEF ReadAnswer
  <2>2. EventOf(v, s) \in Events /\ EventOf(v, s).t = v /\ EventOf(v, s).r = s
    BY EventTypes DEF EventOf
  <2> QED
    BY <1>3, <2>1, <2>2 DEF SessionJoins, Emit
<1>4. ASSUME NEW s \in AllRequests, WriteDone(s) PROVE SessionJoins
  <2>1. PICK t \in {"sent", "send_failed"} : Emit(EventOf(t, s))
    BY <1>4 DEF WriteDone
  <2>2. EventOf(t, s) \in Events /\ EventOf(t, s).t = t /\ EventOf(t, s).r = s
    BY EventTypes DEF EventOf
  <2> QED
    BY <1>4, <2>1, <2>2 DEF SessionJoins, Emit
<1>5. CASE TransportSend
  <2> DEFINE e == EventOf("send_failed", Head(transportQ).r)
  <2>1. Head(transportQ).r \in AllRequests /\ (UNCHANGED <<sessionQ, told>> \/ Emit(e))
    BY <1>0, <1>5, EventTypes DEF TransportSend, TakeCommand
  <2>2. e \in Events /\ e.t = "send_failed" /\ e.r = Head(transportQ).r
    BY <2>1, EventTypes DEF EventOf
  <2> HIDE DEF e
  <2> QED
    BY <1>5, <2>1, <2>2 DEF SessionJoins, Emit
<1>6. ASSUME NEW t \in {"connected", "connect_failed", "disconnected"}, Emit(Event(t))
      PROVE  SessionJoins
  <2>1. Event(t) \in Events /\ Event(t).t = t
    BY EventTypes DEF Event
  <2> QED
    BY <1>6, <2>1 DEF SessionJoins, Emit
<1>7. CASE Orchestrate
  BY <1>7
     DEF Orchestrate, HandleConnect, HandleRequest, HandleConnected, HandleReport, HandleSent,
         HandleBytes, Take
<1> QED
  BY <1>1, <1>2, <1>3, <1>4, <1>5, <1>6, <1>7
     DEF Next, vars, queues, Transport, Disconnect, QueryStatus, StartRequest,
         FinishRequest, TransportRefuse, TransportConnect,
         TransportDisconnect, Resolved, ConnectFailed, ConnectDone, ReadEnds,
         CloseDone, LinkLost, Monitor

\* Only the coroutine of a request queues a send, and only its own.
LEMMA OnlyStartQueues ==
    ASSUME QueueTypes, NEW r \in AllRequests, [Next]_vars
    PROVE  MovedPast(transportQ, transportQ', {"send"}, r) \/ StartRequest(r)
BY TransportJoins DEF MovedPast

\* Only the end of a write, and a send without a connection, report to the
\* orchestrator how the send ended.
LEMMA OnlySendReports ==
    ASSUME QueueTypes, NEW r \in AllRequests, [Next]_vars
    PROVE  \/ MovedPast(sessionQ, sessionQ', {"sent", "send_failed"}, r)
           \/ WriteDone(r)
           \/ TransportSend /\ Head(transportQ).r = r
BY SessionJoined DEF SessionJoins, MovedPast

\* Only the transport starts a write, and only of the send it took.
LEMMA OnlySendWrites ==
    ASSUME QueueTypes, RequestTypes, NEW r \in AllRequests, [Next]_vars
    PROVE  /\ r \in writing' => r \in writing \/ (TransportSend /\ Head(transportQ).r = r)
           /\ phase'[r] = "idle" => phase[r] = "idle"
<1>1. r \in writing' => r \in writing \/ (TransportSend /\ Head(transportQ).r = r)
  BY DEF Next, vars, stream, Orchestrate, Transport, Connect, Disconnect, QueryStatus, Request,
         StartRequest, FinishRequest, ReadAnswer, WriteDone, HandleConnect, HandleRequest,
         HandleConnected, HandleReport, HandleSent, HandleBytes, TransportRefuse,
         TransportConnect, TransportSend, TransportDisconnect, Resolved, ConnectFailed,
         ConnectDone, ReadEnds, CloseDone, LinkLost, Monitor
<1>2. phase'[r] = "idle" => phase[r] = "idle"
  <2>1. CASE UNCHANGED phase
    BY <2>1
  <2>2. ASSUME NEW s \in AllRequests, Tracker!Open(s) \/ Tracker!Finish(s) PROVE phase'[r] = "idle" => phase[r] = "idle"
    BY <2>2 DEF Tracker!Open, Tracker!Finish, RequestTypes
  <2> QED
    BY <2>1, <2>2
       DEF Next, vars, requests, Orchestrate, Transport, Connect, Disconnect, QueryStatus, Request,
           StartRequest, FinishRequest, ReadAnswer, WriteDone, HandleConnect, HandleRequest,
           HandleConnected, HandleReport, HandleSent, HandleBytes, Tracker!Match,
           TransportRefuse, TransportConnect, TransportSend, TransportDisconnect, Resolved,
           ConnectFailed, ConnectDone, ReadEnds, CloseDone, LinkLost, Monitor
<1> QED
  BY <1>1, <1>2

\* Every step keeps the send of every request in one place.
LEMMA SendStep ==
    ASSUME QueueTypes, RequestTypes, NEW r \in AllRequests, SendOf(r), [Next]_vars
    PROVE  SendOf(r)'
<1> DEFINE Q == Queued(r)
           R == Reported(r)
<1>0. QueueTypes /\ (phase'[r] = "idle" => phase[r] = "idle")
  BY OnlySendWrites
<1>1. CASE StartRequest(r)
  <2>1. CASE transportQ' = Push(transportQ, EventOf("send", r)) /\ Tracker!Open(r)
    <3>1. UNCHANGED <<sessionQ, writing>> /\ phase[r] = "idle" /\ phase'[r] # "idle"
      BY <1>1, <2>1 DEF StartRequest, stream, Tracker!Open, RequestTypes
    <3>2. Q = {} /\ r \notin writing' /\ R' = {}
      BY <3>1 DEF SendOf, Reported
    <3>3. Q' \subseteq Q \cup {Len(transportQ) + 1}
      BY <2>1, PushAt, EventTypes DEF QueueTypes, Queued
    <3> QED
      BY <3>1, <3>2, <3>3 DEF SendOf, Lone
  <2>2. CASE UNCHANGED <<transportQ, phase>>
    <3>1. UNCHANGED <<sessionQ, writing>>
      BY <1>1 DEF StartRequest, stream
    <3>2. Q' = Q /\ R' = R
      BY <2>2, <3>1 DEF Queued, Reported
    <3> QED
      BY <2>2, <3>1, <3>2 DEF SendOf
  <2> QED
    BY <1>1, <2>1, <2>2 DEF StartRequest
<1>2. CASE TransportSend /\ Head(transportQ).r = r
  <2>1. /\ transportQ # <<>> /\ Head(transportQ).t = "send" /\ transportQ' = Tail(transportQ)
        /\ UNCHANGED phase
    BY <1>2 DEF TransportSend, TakeCommand, requests
  <2>2. 1 \in Q /\ Q' = {}
    <3>1. transportQ \in Seq(Events) /\ Len(transportQ) <= Capacity /\ Lone(Q)
      BY DEF QueueTypes, SendOf
    <3>2. /\ 1 \in At(transportQ, {"send"}, r)
          /\ Lone(At(transportQ, {"send"}, r)) => At(Tail(transportQ), {"send"}, r) = {}
      BY <1>2, <2>1, <3>1, PopAt
    <3> QED
      BY <2>1, <3>1, <3>2 DEF Queued
  <2>3. r \notin writing /\ R = {} /\ phase[r] # "idle"
    BY <2>2 DEF SendOf
  <2>4. CASE UNCHANGED sessionQ
    <3>1. R' = {}
      BY <2>3, <2>4 DEF Reported
    <3> QED
      BY <2>1, <2>2, <2>3, <3>1 DEF SendOf, Lone
  <2>5. CASE sessionQ' = Push(sessionQ, EventOf("send_failed", r)) /\ UNCHANGED writing
    <3>1. R' \subseteq R \cup {Len(sessionQ) + 1}
      BY <2>5, PushAt, EventTypes DEF QueueTypes, Reported
    <3> QED
      BY <2>1, <2>2, <2>3, <2>5, <3>1 DEF SendOf, Lone
  <2> QED
    BY <1>2, <2>4, <2>5 DEF TransportSend, Emit
<1>3. CASE WriteDone(r)
  <2>1. /\ r \in writing /\ writing' = writing \ {r} /\ UNCHANGED <<transportQ, phase>>
    BY <1>3 DEF WriteDone, requests
  <2>2. Q' = {} /\ R = {} /\ phase[r] # "idle"
    BY <2>1 DEF SendOf, Queued
  <2>3. PICK t \in {"sent", "send_failed"} : sessionQ' = Push(sessionQ, EventOf(t, r))
    BY <1>3 DEF WriteDone, Emit
  <2>4. R' \subseteq R \cup {Len(sessionQ) + 1}
    BY <2>3, PushAt, EventTypes DEF QueueTypes, Reported
  <2> QED
    BY <2>1, <2>2, <2>4 DEF SendOf, Lone
<1>4. CASE /\ MovedPast(transportQ, transportQ', {"send"}, r)
           /\ MovedPast(sessionQ, sessionQ', {"sent", "send_failed"}, r)
           /\ r \in writing' => r \in writing
  <2>1. Shrinks(Q, Q') /\ Shrinks(R, R')
    BY <1>4, PastShrinks DEF QueueTypes, Queued, Reported
  <2> QED
    BY <1>0, <1>4, <2>1 DEF SendOf, Shrinks
<1> QED
  BY <1>1, <1>2, <1>3, <1>4, OnlyStartQueues, OnlySendReports, OnlySendWrites

\* A request that is in one place is in one of Places only.
LEMMA OnePlace ==
    ASSUME NEW r \in AllRequests, SendOf(r)
    PROVE  /\ \A p, q \in Places(r) : p = q
           /\ phase[r] = "idle" => Places(r) = {}
<1>1. \A p \in Places(r) :
          \/ p[1] = "queued" /\ p[2] \in Queued(r) /\ p = <<p[1], p[2]>>
          \/ p[1] = "written" /\ p[2] = r /\ r \in writing /\ p = <<p[1], p[2]>>
          \/ p[1] = "reported" /\ p[2] \in Reported(r) /\ p = <<p[1], p[2]>>
  BY DEF Places, Queued, Reported
<1>2. ASSUME NEW p \in Places(r), NEW q \in Places(r) PROVE p[1] = q[1] /\ p[2] = q[2]
  BY <1>1 DEF SendOf, Lone
<1> QED
  BY <1>1, <1>2 DEF SendOf

\* A request is sent at most once, and its send ends at most once (SentOnce):
\* whatever connects, closes, fails and is lost from a full queue.
THEOREM RequestsSentOnce == Spec => []SentOnce
<1> DEFINE Inv == Types /\ \A r \in AllRequests : SendOf(r)
<1>1. Init => Inv
  <2> SUFFICES ASSUME Init, NEW r \in AllRequests PROVE SendOf(r)
    BY InitTypes
  <2>1. transportQ = <<>> /\ sessionQ = <<>> /\ writing = {}
    BY DEF Init
  <2> QED
    BY <2>1 DEF SendOf, Queued, Reported, At, Lone
<1>2. Inv /\ [Next]_vars => Inv'
  BY SendStep, NextTypes DEF Types
<1>3. Inv => SentOnce
  BY OnePlace DEF SentOnce
<1> QED
  BY <1>1, <1>2, <1>3, PTL DEF Spec

-----------------------------------------------------------------------------
(* What the user is told about a request.                                  *)

\* An answer is queued by the read of an answer to a request the relay has.
LEMMA AnswersQueued ==
    ASSUME QueueTypes, AnswerInv, [Next]_vars
    PROVE  \A i \in DOMAIN sessionQ' :
               sessionQ'[i].t \in {"accepted", "refused"} => sessionQ'[i].r \in replied'
<1>0. replied \subseteq replied'
  BY DEF Next, vars, relay, Orchestrate, Transport, Connect, Disconnect, QueryStatus, Request,
         StartRequest, FinishRequest, ReadAnswer, WriteDone, HandleConnect, HandleRequest,
         HandleConnected, HandleReport, HandleSent, HandleBytes, TransportRefuse,
         TransportConnect, TransportSend, TransportDisconnect, Resolved, ConnectFailed,
         ConnectDone, ReadEnds, CloseDone, LinkLost, Monitor
<1>1. CASE UNCHANGED sessionQ
  BY <1>0, <1>1 DEF AnswerInv
<1>2. CASE sessionQ # <<>> /\ sessionQ' = Tail(sessionQ)
  <2>1. \A i \in DOMAIN sessionQ' : i + 1 \in DOMAIN sessionQ /\ sessionQ'[i] = sessionQ[i + 1]
    BY <1>2, Popped DEF QueueTypes
  <2> QED
    BY <1>0, <2>1 DEF AnswerInv
<1>3. CASE SessionJoins
  <2>1. PICK e \in Events : /\ sessionQ' = Push(sessionQ, e)
                            /\ e.t \in {"accepted", "refused"} => ReadAnswer(e.r)
    BY <1>3 DEF SessionJoins
  <2>2. e.t \in {"accepted", "refused"} => e.r \in replied'
    BY <2>1 DEF ReadAnswer
  <2>3. \A i \in DOMAIN sessionQ' :
            (i \in DOMAIN sessionQ /\ sessionQ'[i] = sessionQ[i]) \/ sessionQ'[i] = e
    BY <2>1, Pushed DEF QueueTypes
  <2> QED
    BY <1>0, <2>2, <2>3 DEF AnswerInv
<1> QED
  BY <1>1, <1>2, <1>3, SessionJoined

\* Every step keeps answers to requests that the relay received and answered.
LEMMA AnswerStep ==
    ASSUME QueueTypes, RequestTypes, AnswerInv, [Next]_vars
    PROVE  AnswerInv'
<1>1. replied' \subseteq relayed' /\ replied \subseteq replied'
  BY DEF AnswerInv, Next, vars, relay, Orchestrate, Transport, Connect, Disconnect, QueryStatus,
         Request, StartRequest, FinishRequest, ReadAnswer, WriteDone, HandleConnect,
         HandleRequest, HandleConnected, HandleReport, HandleSent, HandleBytes, TransportRefuse,
         TransportConnect, TransportSend, TransportDisconnect, Resolved, ConnectFailed,
         ConnectDone, ReadEnds, CloseDone, LinkLost, Monitor
<1> DEFINE Told ==
        /\ \A r \in AllRequests : answer'[r] # None => r \in replied'
        /\ \A r \in AllRequests : phase'[r] = "answered" => answer'[r] # None
<1>2. ASSUME UNCHANGED <<phase, answer>> PROVE Told
  BY <1>1, <1>2 DEF AnswerInv
<1>3. ASSUME NEW r \in AllRequests, Tracker!Open(r) PROVE Told
  BY <1>1, <1>3 DEF Tracker!Open, AnswerInv, RequestTypes
<1>4. ASSUME NEW r \in AllRequests, Tracker!Finish(r) PROVE Told
  BY <1>1, <1>4 DEF Tracker!Finish, AnswerInv, RequestTypes
<1>5. ASSUME HandleBytes PROVE Told
  <2>1. /\ sessionQ # <<>> /\ Head(sessionQ).t \in {"accepted", "refused"}
        /\ UNCHANGED replied
    BY <1>5 DEF HandleBytes, Take, relay
  <2>2. Head(sessionQ) \in Events /\ 1 \in DOMAIN sessionQ /\ Head(sessionQ) = sessionQ[1]
    BY <2>1, Popped DEF QueueTypes
  <2>3. Head(sessionQ).r \in AllRequests
    BY <2>1, <2>2, EventTypes
  <2>4. Head(sessionQ).r \in replied
    BY <2>1, <2>2 DEF AnswerInv
  <2>5. ASSUME Tracker!Match(Head(sessionQ).r, Head(sessionQ).t) PROVE Told
    <3>1. /\ UNCHANGED phase
          /\ phase[Head(sessionQ).r] = "open"
          /\ answer' = [answer EXCEPT ![Head(sessionQ).r] = Head(sessionQ).t]
      BY <2>5 DEF Tracker!Match
    <3> QED
      BY <1>1, <2>3, <2>4, <3>1 DEF AnswerInv, RequestTypes
  <2> QED
    BY <1>2, <1>5, <2>5 DEF HandleBytes
<1>6. Told
  BY <1>2, <1>3, <1>4, <1>5
     DEF Next, vars, requests, Orchestrate, Transport, Connect, Disconnect, QueryStatus, Request,
         StartRequest, FinishRequest, ReadAnswer, WriteDone, HandleConnect, HandleRequest,
         HandleConnected, HandleReport, HandleSent,
         TransportRefuse, TransportConnect, TransportSend, TransportDisconnect, Resolved,
         ConnectFailed, ConnectDone, ReadEnds, CloseDone, LinkLost, Monitor
<1>7. \A i \in DOMAIN sessionQ' :
          sessionQ'[i].t \in {"accepted", "refused"} => sessionQ'[i].r \in replied'
  BY AnswersQueued
<1> QED
  BY <1>1, <1>6, <1>7 DEF AnswerInv

\* The user is told that a request was accepted only if the relay received and
\* accepted it (AcceptedWasRelayed), whatever is lost, refused or late.
THEOREM AcceptedRelayed == Spec => []AcceptedWasRelayed
<1>1. Init => AnswerInv
  <2> SUFFICES ASSUME Init PROVE AnswerInv
    OBVIOUS
  <2>1. sessionQ = <<>> /\ replied = {} /\ relayed = {}
    BY DEF Init
  <2>2. \A r \in AllRequests : phase[r] = "idle" /\ answer[r] = None
    BY DEF Init, Tracker!Init
  <2> QED
    BY <2>1, <2>2 DEF AnswerInv
<1>2. Types /\ AnswerInv /\ [Next]_vars => AnswerInv'
  BY AnswerStep DEF Types
<1>3. AnswerInv => AcceptedWasRelayed
  BY DEF AnswerInv, AcceptedWasRelayed
<1> QED
  BY <1>1, <1>2, <1>3, Typed, PTL DEF Spec

-----------------------------------------------------------------------------
(* The status and the events it is made of.                                *)

\* A set of naturals that is not empty has a least element.
LEMMA Least ==
    ASSUME NEW T \in SUBSET Nat, T # {}
    PROVE  \E m \in T : \A n \in T : m <= n
<1>1. PICK m \in T : \A n \in T : ~(<<n, m>> \in OpToRel(<, Nat))
  BY WFMin, NatLessThanWellFounded, Zenon
<1>2. \A n \in T : ~(n < m)
  BY <1>1 DEF OpToRel
<1> QED
  BY <1>2

\* The recursive function of Replay is the run of the monitor: there is one run
\* only, since the first state in which two runs differ would have to follow
\* from a state in which they agree.
LEMMA ReplayFollows ==
    ASSUME NEW q \in Seq(Events), NEW s \in Status, NEW t \in Status, Follows(q, s, t)
    PROVE  Replay(s, q) = t
<1> DEFINE n == Len(q)
           Run(f) == [i \in 0 .. n |-> IF i = 0 THEN s ELSE Monitored(f[i - 1], q[i])]
           after == CHOOSE f : f = Run(f)
<1>0. n \in Nat
  BY LenProperties
<1>1. PICK h \in [0 .. n -> Status] :
          /\ h[0] = s /\ h[n] = t
          /\ \A i \in 1 .. n : h[i] = Monitored(h[i - 1], q[i])
  BY DEF Follows
<1>2. h = Run(h)
  <2>1. \A i \in 0 .. n : h[i] = IF i = 0 THEN s ELSE Monitored(h[i - 1], q[i])
    BY <1>0, <1>1
  <2> HIDE DEF n
  <2> QED
    BY <2>1, Zenon
<1>3. after = Run(after)
  <2> HIDE DEF Run
  <2> QED
    BY <1>2, Zenon
<1> HIDE DEF after
<1>4. /\ after[0] = s
      /\ \A i \in 1 .. n : after[i] = Monitored(after[i - 1], q[i])
  BY <1>0, <1>3
<1>5. \A i \in 0 .. n : after[i] = h[i]
  <2> DEFINE T == {i \in 0 .. n : after[i] # h[i]}
  <2> SUFFICES ASSUME T # {} PROVE FALSE
    OBVIOUS
  <2>1. T \in SUBSET Nat
    BY <1>0
  <2>2. PICK m \in T : \A i \in T : m <= i
    BY <2>1, Least
  <2>3. m \in 1 .. n
    BY <1>0, <1>1, <1>4
  <2>4. m - 1 \in 0 .. n /\ m - 1 \notin T
    BY <1>0, <2>2, <2>3
  <2>5. after[m - 1] = h[m - 1]
    BY <2>4
  <2> QED
    BY <1>1, <1>4, <2>3, <2>5
<1>6. Replay(s, q) = after[n]
  BY DEF Replay, after
<1> QED
  BY <1>0, <1>1, <1>5, <1>6

\* One more event at the end of the queue.
LEMMA FollowsAppend ==
    ASSUME NEW q \in Seq(Events), NEW s \in Status, NEW t \in Status, NEW e \in Events,
           Follows(q, s, t)
    PROVE  Follows(Append(q, e), s, Monitored(t, e))
<1> DEFINE n == Len(q)
           p == Append(q, e)
<1>0. n \in Nat /\ Len(p) = n + 1 /\ p[n + 1] = e /\ \A i \in 1 .. n : p[i] = q[i]
  BY LenProperties, AppendProperties
<1>1. PICK h \in [0 .. n -> Status] :
          /\ h[0] = s /\ h[n] = t
          /\ \A i \in 1 .. n : h[i] = Monitored(h[i - 1], q[i])
  BY DEF Follows
<1> DEFINE g == [i \in 0 .. n + 1 |-> IF i = n + 1 THEN Monitored(t, e) ELSE h[i]]
<1> HIDE DEF n, p
<1>2. g \in [0 .. Len(p) -> Status]
  BY <1>0, <1>1, MonitoredType
<1>3. g[0] = s /\ g[Len(p)] = Monitored(t, e)
  <2>1. 0 \in 0 .. n + 1 /\ n + 1 \in 0 .. n + 1 /\ 0 # n + 1
    BY <1>0
  <2>2. g[0] = h[0] /\ g[n + 1] = Monitored(t, e)
    BY <2>1, Zenon
  <2> QED
    BY <1>0, <1>1, <2>2, Zenon
<1>4. ASSUME NEW i \in 1 .. Len(p) PROVE g[i] = Monitored(g[i - 1], p[i])
  <2>1. CASE i = n + 1
    <3>1. n \in 0 .. n + 1 /\ n # n + 1 /\ i \in 0 .. n + 1 /\ i - 1 = n /\ p[i] = e
      BY <1>0, <2>1
    <3>2. g[i] = Monitored(t, e) /\ g[i - 1] = t
      BY <1>1, <2>1, <3>1
    <3> QED
      BY <3>1, <3>2
  <2>2. CASE i # n + 1
    <3>0. i \in 1 .. n /\ i - 1 \in 0 .. n + 1 /\ i - 1 # n + 1 /\ i \in 0 .. n + 1
      BY <1>0, <2>2
    <3>1. i \in 1 .. n /\ g[i] = h[i] /\ g[i - 1] = h[i - 1] /\ p[i] = q[i]
      BY <1>0, <2>2, <3>0
    <3> QED
      BY <1>1, <3>1
  <2> QED
    BY <2>1, <2>2
<1>5. Follows(p, s, Monitored(t, e))
  <2> HIDE DEF g
  <2> QED
    BY <1>2, <1>3, <1>4 DEF Follows
<1> QED
  BY <1>5 DEF p

\* The first event of the queue is handled.
LEMMA FollowsTail ==
    ASSUME NEW q \in Seq(Events), q # <<>>, NEW s \in Status, NEW t \in Status, Follows(q, s, t)
    PROVE  Follows(Tail(q), Monitored(s, Head(q)), t)
<1> DEFINE n == Len(q)
           p == Tail(q)
<1>0. /\ n \in Nat \ {0} /\ Len(p) = n - 1 /\ Head(q) = q[1]
      /\ \A i \in 1 .. n - 1 : p[i] = q[i + 1]
  BY LenProperties, EmptySeq, HeadTailProperties
<1>1. PICK h \in [0 .. n -> Status] :
          /\ h[0] = s /\ h[n] = t
          /\ \A i \in 1 .. n : h[i] = Monitored(h[i - 1], q[i])
  BY DEF Follows
<1> DEFINE g == [i \in 0 .. n - 1 |-> h[i + 1]]
<1> HIDE DEF n, p
<1>2. g \in [0 .. Len(p) -> Status]
  BY <1>0, <1>1
<1>3. g[0] = Monitored(s, Head(q)) /\ g[Len(p)] = t
  <2>1. h[1] = Monitored(h[0], q[1])
    <3>1. 1 \in 1 .. n /\ 1 - 1 = 0
      BY <1>0
    <3> QED
      BY <1>1, <3>1
  <2>2. g[0] = h[1] /\ g[Len(p)] = h[n]
    BY <1>0
  <2> QED
    BY <1>0, <1>1, <2>1, <2>2
<1>4. ASSUME NEW i \in 1 .. Len(p) PROVE g[i] = Monitored(g[i - 1], p[i])
  <2>1. i + 1 \in 1 .. n /\ g[i] = h[i + 1] /\ g[i - 1] = h[i] /\ p[i] = q[i + 1] /\ (i + 1) - 1 = i
    BY <1>0
  <2> QED
    BY <1>1, <2>1
<1>5. Follows(p, Monitored(s, Head(q)), t)
  <2> HIDE DEF g
  <2> QED
    BY <1>2, <1>3, <1>4 DEF Follows
<1> QED
  BY <1>5 DEF p

\* The events connection_monitor has no handler for.
LEMMA Unheard ==
    ASSUME NEW st \in Status, NEW e,
           e.t \notin {"connected", "connect_failed", "disconnected", "send_failed"}
    PROVE  Monitored(st, e) = st
BY DEF Monitored

\* A push to a queue that is not full is an append.
LEMMA PushRoom ==
    ASSUME NEW q, NEW e, Len(q) < Capacity
    PROVE  Push(q, e) = Append(q, e)
BY DEF Push

\* Every step that loses no event keeps the status in line with the events.
LEMMA StatusStep ==
    ASSUME QueueTypes, ViewTypes, Room, StatusInv, [Next]_vars
    PROVE  StatusInv'
<1>0. /\ monitorQ \in Seq(Events) /\ sessionQ \in Seq(Events)
      /\ status \in Status /\ told \in Status
      /\ sessionQ # <<>> => Head(sessionQ) \in Events
      /\ monitorQ # <<>> => Head(monitorQ) \in Events
  BY Taken DEF QueueTypes, ViewTypes
<1>1. PICK st \in Status : Follows(monitorQ, status, st) /\ Follows(sessionQ, st, told)
  BY DEF StatusInv
<1>2. \A e : Push(monitorQ, e) = Append(monitorQ, e) /\ Push(sessionQ, e) = Append(sessionQ, e)
  BY PushRoom DEF Room
<1>3. CASE UNCHANGED <<monitorQ, status, sessionQ, told>>
  BY <1>1, <1>3 DEF StatusInv
<1>4. CASE SessionJoins /\ UNCHANGED <<monitorQ, status>>
  <2>1. PICK e \in Events : sessionQ' = Append(sessionQ, e) /\ told' = Monitored(told, e)
    <3>1. PICK e \in Events :
              /\ sessionQ' = Push(sessionQ, e)
              /\ Emit(e) \/ (e.t \in {"connect", "connect_bad", "request"} /\ UNCHANGED told)
      BY <1>4 DEF SessionJoins, Connect
    <3> QED
      BY <1>0, <1>2, <3>1, Unheard DEF Emit
  <2>2. Follows(sessionQ', st, told')
    BY <1>0, <1>1, <2>1, FollowsAppend
  <2> QED
    BY <1>1, <1>4, <2>2 DEF StatusInv
<1>5. CASE Monitor
  <2>1. /\ monitorQ # <<>> /\ monitorQ' = Tail(monitorQ)
        /\ status' = Monitored(status, Head(monitorQ)) /\ UNCHANGED <<sessionQ, told>>
    BY <1>5 DEF Monitor
  <2>2. Follows(monitorQ', status', st)
    BY <1>0, <1>1, <2>1, FollowsTail
  <2> QED
    BY <1>1, <2>1, <2>2 DEF StatusInv
<1>6. CASE QueryStatus
  <2>1. /\ monitorQ' = Append(monitorQ, Event("query_status"))
        /\ UNCHANGED <<status, sessionQ, told>>
    BY <1>2, <1>6 DEF QueryStatus
  <2>2. /\ Event("query_status") \in Events
        /\ Monitored(st, Event("query_status")) = st
    BY EventTypes, Unheard DEF Event
  <2>3. Follows(monitorQ', status, st)
    BY <1>0, <1>1, <2>1, <2>2, FollowsAppend
  <2> QED
    BY <1>1, <2>1, <2>3 DEF StatusInv
<1>7. CASE HandleConnected \/ HandleReport
  <2>1. /\ sessionQ # <<>> /\ sessionQ' = Tail(sessionQ)
        /\ monitorQ' = Append(monitorQ, Head(sessionQ)) /\ UNCHANGED <<status, told>>
    BY <1>2, <1>7 DEF HandleConnected, HandleReport, Take
  <2>2. Follows(monitorQ', status', Monitored(st, Head(sessionQ)))
    BY <1>0, <1>1, <2>1, FollowsAppend
  <2>3. Follows(sessionQ', Monitored(st, Head(sessionQ)), told')
    BY <1>0, <1>1, <2>1, FollowsTail
  <2> QED
    BY <2>2, <2>3, MonitoredType DEF StatusInv
<1>8. CASE HandleConnect \/ HandleRequest \/ HandleSent \/ HandleBytes
  <2>1. /\ sessionQ # <<>> /\ sessionQ' = Tail(sessionQ)
        /\ Head(sessionQ).t \in {"connect", "connect_bad", "request", "sent", "accepted", "refused"}
        /\ UNCHANGED <<monitorQ, status, told>>
    BY <1>8 DEF HandleConnect, HandleRequest, HandleSent, HandleBytes, Take
  <2>2. Monitored(st, Head(sessionQ)) = st
    BY <2>1, Unheard
  <2>3. Follows(sessionQ', st, told')
    BY <1>0, <1>1, <2>1, <2>2, FollowsTail
  <2> QED
    BY <1>1, <2>1, <2>3 DEF StatusInv
<1>9. Orchestrate \/ Monitor \/ QueryStatus \/ UNCHANGED <<monitorQ, status>>
  BY DEF Next, vars, queues, Transport, Connect, Disconnect, Request, StartRequest,
         FinishRequest, ReadAnswer, WriteDone, TransportRefuse, TransportConnect, TransportSend,
         TransportDisconnect, Resolved, ConnectFailed, ConnectDone, ReadEnds,
         CloseDone, LinkLost
<1> QED
  BY <1>3, <1>4, <1>5, <1>6, <1>7, <1>8, <1>9, SessionJoined DEF Orchestrate

\* StatusInv is inductive while no queue overflows.
LEMMA StatusHolds == Spec /\ []Room => []StatusInv
<1>1. Init => StatusInv
  <2> SUFFICES ASSUME Init PROVE StatusInv
    OBVIOUS
  <2>1. monitorQ = <<>> /\ sessionQ = <<>> /\ status = told /\ status \in Status
    BY InitTypes DEF Init, Types, ViewTypes
  <2>2. Len(<<>>) = 0
    OBVIOUS
  <2>3. Follows(<<>>, status, status)
    <3> DEFINE h == [i \in 0 .. 0 |-> status]
    <3>1. h \in [0 .. Len(<<>>) -> Status] /\ h[0] = status /\ h[Len(<<>>)] = status
      BY <2>1, <2>2
    <3>2. \A i \in 1 .. Len(<<>>) : h[i] = Monitored(h[i - 1], <<>>[i])
      BY <2>2
    <3> QED
      BY <3>1, <3>2, Zenon DEF Follows
  <2> QED
    BY <2>1, <2>3, Zenon DEF StatusInv
<1>2. Types /\ Room /\ StatusInv /\ [Next]_vars => StatusInv'
  BY StatusStep DEF Types
<1> QED
  BY <1>1, <1>2, Typed, PTL DEF Spec

\* While no queue overflows, what /status shows is what the transport's events
\* say, with those still queued applied in order (StatusFollowsEvents): also
\* when connections overlap, break and end an orchestrator.
THEOREM StatusFollows == Spec /\ []Room => []StatusFollowsEvents
<1>1. Types /\ StatusInv => StatusFollowsEvents
  BY ReplayFollows DEF Types, QueueTypes, ViewTypes, StatusInv, StatusFollowsEvents
<1> QED
  BY <1>1, StatusHolds, Typed, PTL

-----------------------------------------------------------------------------
(* /disconnect.                                                            *)

\* Nothing but a /connect dials.
LEMMA StaysUndialled ==
    ASSUME QueueTypes, StreamTypes, ~Dialling, ~Connect, [Next]_vars
    PROVE  ~Dialling'
<1>0. /\ \A i \in DOMAIN sessionQ : sessionQ[i].t # "connect"
      /\ \A i \in DOMAIN transportQ : transportQ[i].t # "connect"
      /\ resolving = 0 /\ ~connecting
  BY DEF Dialling, StreamTypes
<1>1. \A i \in DOMAIN sessionQ' : sessionQ'[i].t # "connect"
  <2>1. CASE UNCHANGED sessionQ
    BY <1>0, <2>1
  <2>2. CASE sessionQ # <<>> /\ sessionQ' = Tail(sessionQ)
    <3>1. \A i \in DOMAIN sessionQ' : i + 1 \in DOMAIN sessionQ /\ sessionQ'[i] = sessionQ[i + 1]
      BY <2>2, Popped DEF QueueTypes
    <3> QED
      BY <1>0, <3>1
  <2>3. CASE SessionJoins
    <3>1. PICK e \in Events : sessionQ' = Push(sessionQ, e) /\ e.t # "connect"
      BY <2>3 DEF SessionJoins
    <3>2. \A i \in DOMAIN sessionQ' :
              (i \in DOMAIN sessionQ /\ sessionQ'[i] = sessionQ[i]) \/ sessionQ'[i] = e
      BY <3>1, Pushed DEF QueueTypes
    <3> QED
      BY <1>0, <3>1, <3>2
  <2> QED
    BY <2>1, <2>2, <2>3, SessionJoined
<1>2. \A i \in DOMAIN transportQ' : transportQ'[i].t # "connect"
  <2>1. CASE UNCHANGED transportQ
    BY <1>0, <2>1
  <2>2. CASE transportQ # <<>> /\ transportQ' = Tail(transportQ)
    <3>1. \A i \in DOMAIN transportQ' :
              i + 1 \in DOMAIN transportQ /\ transportQ'[i] = transportQ[i + 1]
      BY <2>2, Popped DEF QueueTypes
    <3> QED
      BY <1>0, <3>1
  <2>3. ASSUME NEW e \in Events, transportQ' = Push(transportQ, e),
               e.t # "connect" \/ (HandleConnect /\ e = Head(sessionQ))
        PROVE  \A i \in DOMAIN transportQ' : transportQ'[i].t # "connect"
    <3>1. e.t # "connect"
      BY <1>0, <2>3, Popped DEF QueueTypes, HandleConnect, Take
    <3>2. \A i \in DOMAIN transportQ' :
              (i \in DOMAIN transportQ /\ transportQ'[i] = transportQ[i]) \/ transportQ'[i] = e
      BY <2>3, Pushed DEF QueueTypes
    <3> QED
      BY <1>0, <3>1, <3>2
  <2> QED
    BY <2>1, <2>2, <2>3, TransportJoins
<1>3. ~TransportConnect
  <2>1. transportQ # <<>> => 1 \in DOMAIN transportQ /\ Head(transportQ) = transportQ[1]
    BY Popped DEF QueueTypes
  <2> QED
    BY <1>0, <2>1 DEF TransportConnect, TakeCommand
<1>4. resolving' = 0 /\ ~connecting'
  <2>1. ~(resolving > 0)
    BY <1>0
  <2>2. ~Resolved /\ ~ConnectDone
    BY <1>0, <2>1, Zenon DEF Resolved, ConnectDone
  <2>3. CASE ConnectFailed
    <3>1. UNCHANGED <<resolving, connecting>>
      BY <1>0, <2>1, <2>3, Zenon DEF ConnectFailed
    <3> QED
      BY <1>0, <3>1, Zenon
  <2>4. CASE UNCHANGED dials
    BY <1>0, <2>4, Zenon DEF dials
  <2> QED
    BY <1>3, <2>2, <2>3, <2>4
       DEF Next, vars, Orchestrate, Transport, Disconnect, QueryStatus, Request,
           StartRequest, FinishRequest, ReadAnswer, WriteDone, HandleConnect, HandleRequest,
           HandleConnected, HandleReport, HandleSent, HandleBytes, TransportRefuse,
           TransportSend, TransportDisconnect, ReadEnds, CloseDone, LinkLost, Monitor
<1> QED
  BY <1>1, <1>2, <1>4 DEF Dialling

\* A queued disconnect waits its turn.
LEMMA DisconnectWaits ==
    ASSUME QueueTypes, [Next]_vars, ~TransportDisconnect,
           \E i \in DOMAIN transportQ : transportQ[i].t = "disconnect"
    PROVE  \E i \in DOMAIN transportQ' : transportQ'[i].t = "disconnect"
<1>1. PICK i \in DOMAIN transportQ : transportQ[i].t = "disconnect"
  OBVIOUS
<1>2. CASE UNCHANGED transportQ
  BY <1>1, <1>2
<1>3. CASE transportQ # <<>> /\ transportQ' = Tail(transportQ) /\ Transport
  <2>1. Head(transportQ) = transportQ[1] /\ Head(transportQ).t # "disconnect"
    <3>1. Head(transportQ) = transportQ[1]
      BY <1>3, Popped DEF QueueTypes
    <3>2. Head(transportQ).t \in {"connect_bad", "connect", "send"}
      BY <1>3 DEF Transport, TransportRefuse, TransportConnect, TransportSend, TakeCommand
    <3> QED
      BY <3>1, <3>2
  <2>2. i # 1 /\ i \in Nat
    BY <1>1, <2>1, LenProperties DEF QueueTypes
  <2>3. i - 1 \in DOMAIN transportQ' /\ transportQ'[i - 1] = transportQ[(i - 1) + 1]
    BY <1>1, <1>3, <2>2, Popped DEF QueueTypes
  <2>4. (i - 1) + 1 = i
    BY <2>2
  <2> QED
    BY <1>1, <2>3, <2>4
<1>4. ASSUME NEW e \in Events, transportQ' = Push(transportQ, e)
      PROVE  \E j \in DOMAIN transportQ' : transportQ'[j].t = "disconnect"
  <2>0. transportQ \in Seq(Events) /\ Len(transportQ) <= Capacity
    BY DEF QueueTypes
  <2>1. i \in DOMAIN transportQ' /\ transportQ'[i] = transportQ[i]
    BY <1>1, <1>4, <2>0, Pushed, Zenon
  <2> QED
    BY <1>1, <2>1
<1> QED
  BY <1>2, <1>3, <1>4, TransportJoins

\* Every step keeps DisconnectInv, if a /disconnect is not lost from a full queue.
LEMMA DisconnectStep ==
    ASSUME QueueTypes, StreamTypes, ViewTypes, Room, DisconnectInv, [Next]_vars
    PROVE  DisconnectInv'
<1> SUFFICES ASSUME issued'.last = "disconnect"
             PROVE  /\ ~Dialling'
                    /\ connected' => \E i \in DOMAIN transportQ' : transportQ'[i].t = "disconnect"
  BY DEF DisconnectInv
<1>1. ~Connect
  BY DEF Connect, ViewTypes
<1>2. CASE Disconnect
  <2>1. ~Dialling /\ transportQ' = Append(transportQ, Event("disconnect"))
    <3>1. issued'.last = IF Dialling THEN "early disconnect" ELSE "disconnect"
      BY <1>2 DEF Disconnect, ViewTypes
    <3> QED
      BY <1>2, <3>1, PushRoom DEF Disconnect, Room
  <2>2. ~Dialling'
    BY <1>1, <2>1, StaysUndialled
  <2>3. /\ Len(transportQ) + 1 \in DOMAIN transportQ'
        /\ transportQ'[Len(transportQ) + 1] = Event("disconnect")
    <3>1. Event("disconnect") \in Events
      BY EventTypes
    <3>2. /\ transportQ' \in Seq(Events) /\ Len(transportQ') = Len(transportQ) + 1
          /\ transportQ'[Len(transportQ) + 1] = Event("disconnect")
      BY <2>1, <3>1, AppendProperties DEF QueueTypes
    <3>3. Len(transportQ) \in Nat /\ DOMAIN transportQ' = 1 .. Len(transportQ')
      BY <3>2, LenProperties DEF QueueTypes
    <3> QED
      BY <3>2, <3>3
  <2>4. Event("disconnect").t = "disconnect"
    BY DEF Event
  <2> QED
    BY <2>2, <2>3, <2>4
<1>3. CASE ~Disconnect
  <2>1. issued'.last = issued.last
    BY <1>1, <1>3
       DEF ViewTypes, Next, vars, Orchestrate, Transport, QueryStatus, Request,
           StartRequest, FinishRequest, ReadAnswer, WriteDone, HandleConnect, HandleRequest,
           HandleConnected, HandleReport, HandleSent, HandleBytes, TransportRefuse,
           TransportConnect, TransportSend, TransportDisconnect, Resolved, ConnectFailed,
           ConnectDone, ReadEnds, CloseDone, LinkLost, Monitor
  <2>2. /\ ~Dialling
        /\ connected => \E i \in DOMAIN transportQ : transportQ[i].t = "disconnect"
    BY <2>1 DEF DisconnectInv
  <2>3. ~Dialling'
    BY <1>1, <2>2, StaysUndialled
  <2>4. connected' => connected /\ ~TransportDisconnect
    BY <1>1, <1>3, <2>2
       DEF Dialling, Next, vars, Orchestrate, Transport, QueryStatus, Request,
           StartRequest, FinishRequest, ReadAnswer, WriteDone, HandleConnect, HandleRequest,
           HandleConnected, HandleReport, HandleSent, HandleBytes, TransportRefuse,
           TransportConnect, TransportSend, TransportDisconnect, Resolved, ConnectFailed,
           ConnectDone, ReadEnds, CloseDone, LinkLost, Monitor
  <2> QED
    BY <2>2, <2>3, <2>4, DisconnectWaits
<1> QED
  BY <1>2, <1>3

\* While no queue overflows, a /disconnect that overtook no /connect leaves no
\* connection when everything has settled (DisconnectHonoured): reads, writes,
\* closes and broken connections do not bring connected_ back.
THEOREM DisconnectsHonoured == Spec /\ []Room => []DisconnectHonoured
<1>1. Init => DisconnectInv
  <2> SUFFICES ASSUME Init PROVE issued.last # "disconnect"
    BY DEF DisconnectInv
  <2>1. issued = [connect |-> 0, disconnect |-> 0, query |-> 0, requests |-> {}, last |-> "none"]
    BY DEF Init
  <2> QED
    BY <2>1
<1>2. Types /\ Room /\ DisconnectInv /\ [Next]_vars => DisconnectInv'
  BY DisconnectStep DEF Types
<1>3. DisconnectInv => DisconnectHonoured
  BY DEF DisconnectInv, DisconnectHonoured, Settled
<1> QED
  BY <1>1, <1>2, <1>3, Typed, PTL DEF Spec

-----------------------------------------------------------------------------
(* The status and the connection, one command after another.               *)

Connects == {"connect", "connect_bad"}

\* A dial is a /connect on its way; only the user starts one.
LEMMA OnlyConnectDials ==
    ASSUME QueueTypes, [Next]_vars
    PROVE  /\ MovedPast(sessionQ, sessionQ', Connects, None) \/ Connect
           /\ MovedPast(transportQ, transportQ', Connects, None) \/ HandleConnect
<1>1. MovedPast(sessionQ, sessionQ', Connects, None) \/ Connect
  BY SessionJoined DEF SessionJoins, MovedPast, Connects
<1>2. MovedPast(transportQ, transportQ', Connects, None) \/ HandleConnect
  BY TransportJoins DEF MovedPast, Connects
<1> QED
  BY <1>1, <1>2

\* Where the dials are after a step that moves none of them.
LEMMA DialsShrink ==
    ASSUME QueueTypes, [Next]_vars
    PROVE  /\ Shrinks(Dials(sessionQ), Dials(sessionQ)') \/ Connect
           /\ Shrinks(Dials(transportQ), Dials(transportQ)') \/ HandleConnect
<1>1. Shrinks(Dials(sessionQ), Dials(sessionQ)') \/ Connect
  BY OnlyConnectDials, PastShrinks DEF QueueTypes, Dials, Connects
<1>2. Shrinks(Dials(transportQ), Dials(transportQ)') \/ HandleConnect
  BY OnlyConnectDials, PastShrinks DEF QueueTypes, Dials, Connects
<1> QED
  BY <1>1, <1>2

\* The command the transport takes was the only dial.
LEMMA DialTaken ==
    ASSUME QueueTypes, DialInv, NEW t \in Connects, TakeCommand(t)
    PROVE  /\ Dials(sessionQ) = {} /\ Dials(transportQ)' = {} /\ Dials(transportQ) # {}
           /\ resolving = 0 /\ ~connecting
<1>1. /\ transportQ # <<>> /\ transportQ' = Tail(transportQ) /\ Head(transportQ).t = t
      /\ Head(transportQ) \in Events
  BY Taken DEF TakeCommand
<1>2. Head(transportQ).r = None
  BY <1>1 DEF Events, Connects
<1>3. 1 \in Dials(transportQ) /\ Dials(transportQ)' = {}
  <2>1. transportQ \in Seq(Events) /\ Len(transportQ) <= Capacity /\ Lone(Dials(transportQ))
    BY DEF QueueTypes, DialInv
  <2>2. /\ 1 \in At(transportQ, Connects, None)
        /\ Lone(At(transportQ, Connects, None)) => At(Tail(transportQ), Connects, None) = {}
    <3>1. Head(transportQ).t \in Connects
      BY <1>1
    <3> QED
      BY <1>1, <1>2, <2>1, <3>1, PopAt
  <2> QED
    BY <1>1, <2>1, <2>2 DEF Dials, Connects
<1> QED
  BY <1>3 DEF DialInv

\* The /connect the orchestrator takes was the only dial, and is the only one in
\* the transport's queue.
LEMMA DialHanded ==
    ASSUME QueueTypes, DialInv, HandleConnect
    PROVE  /\ Dials(sessionQ)' = {} /\ Dials(sessionQ) # {} /\ Lone(Dials(transportQ)')
           /\ UNCHANGED dials /\ resolving = 0 /\ ~connecting
<1>1. /\ sessionQ # <<>> /\ sessionQ' = Tail(sessionQ) /\ Head(sessionQ).t \in Connects
      /\ Head(sessionQ) \in Events
      /\ transportQ' = Push(transportQ, Head(sessionQ)) /\ UNCHANGED dials
  BY Taken DEF HandleConnect, Take, Connects
<1>2. Head(sessionQ).r = None
  BY <1>1 DEF Events, Connects
<1>3. 1 \in Dials(sessionQ) /\ Dials(sessionQ)' = {}
  <2>1. sessionQ \in Seq(Events) /\ Len(sessionQ) <= Capacity /\ Lone(Dials(sessionQ))
    BY DEF QueueTypes, DialInv
  <2>2. /\ 1 \in At(sessionQ, Connects, None)
        /\ Lone(At(sessionQ, Connects, None)) => At(Tail(sessionQ), Connects, None) = {}
    <3>1. Head(sessionQ).t \in Connects
      BY <1>1
    <3> QED
      BY <1>1, <1>2, <2>1, <3>1, PopAt
  <2> QED
    BY <1>1, <2>1, <2>2 DEF Dials, Connects
<1>4. Dials(transportQ) = {} /\ resolving = 0 /\ ~connecting
  BY <1>3 DEF DialInv
<1>5. Dials(transportQ)' \subseteq Dials(transportQ) \cup {Len(transportQ) + 1}
  BY <1>1, PushAt DEF QueueTypes, Dials
<1> QED
  BY <1>1, <1>3, <1>4, <1>5 DEF Lone

\* A /connect of the user, when everything has settled.
LEMMA DialStarted ==
    ASSUME QueueTypes, ~Overlap, Connect
    PROVE  /\ Dials(transportQ)' = {} /\ Lone(Dials(sessionQ)') /\ UNCHANGED dials
           /\ resolving = 0 /\ ~connecting /\ failing = 0
           /\ ~connected /\ ~reading /\ closing = 0
           /\ UNCHANGED <<connected, reading, closing, link, told>>
<1>1. /\ sessionQ = <<>> /\ transportQ = <<>> /\ UNCHANGED transportQ
      /\ resolving = 0 /\ ~connecting /\ failing = 0 /\ closing = 0 /\ ~connected /\ ~reading
  BY DEF Connect, Settled
<1>2. UNCHANGED dials /\ UNCHANGED <<connected, reading, closing, link, told>>
  BY DEF Connect, stream
<1>3. PICK e \in Events : sessionQ' = Push(sessionQ, e)
  <2>1. PICK t \in {"connect", "connect_bad"} : sessionQ' = Push(sessionQ, Event(t))
    BY DEF Connect
  <2> QED
    BY <2>1, EventTypes
<1>4. Dials(sessionQ)' \subseteq Dials(sessionQ) \cup {Len(sessionQ) + 1}
  BY <1>3, PushAt DEF QueueTypes, Dials
<1>5. Dials(sessionQ) = {} /\ Dials(transportQ)' = {}
  BY <1>1 DEF Dials, At
<1> QED
  BY <1>1, <1>2, <1>4, <1>5 DEF Lone

\* The dials left alone by everything else.
LEMMA OtherDials ==
    ASSUME [Next]_vars, ~Connect, ~HandleConnect, ~TransportConnect, ~Resolved,
           ~ConnectFailed, ~ConnectDone
    PROVE  UNCHANGED dials
BY DEF Next, Orchestrate, Transport, vars, Disconnect, QueryStatus, Request, StartRequest,
       FinishRequest, ReadAnswer, WriteDone, HandleRequest, HandleConnected, HandleReport,
       HandleSent, HandleBytes, TransportRefuse, TransportSend, TransportDisconnect, Monitor,
       ReadEnds, CloseDone, LinkLost

LEMMA DialStep ==
    ASSUME QueueTypes, StreamTypes, DialInv, ~Overlap, [Next]_vars
    PROVE  DialInv'
<1>0. resolving \in Nat /\ failing \in Nat /\ connecting \in BOOLEAN
  BY DEF StreamTypes
<1>1. CASE Connect
  <2>1. /\ Dials(transportQ)' = {} /\ Lone(Dials(sessionQ)') /\ UNCHANGED dials
        /\ resolving = 0 /\ ~connecting /\ failing = 0
    BY <1>1, DialStarted, Zenon
  <2>2. resolving' = 0 /\ ~connecting' /\ failing' = 0 /\ resolving' <= 1
    BY <2>1 DEF dials
  <2>3. Lone(Dials(transportQ)')
    BY <2>1, Zenon DEF Lone
  <2> QED
    BY <2>1, <2>2, <2>3, Zenon DEF DialInv
<1>2. CASE HandleConnect
  <2>1. /\ Dials(sessionQ)' = {} /\ Lone(Dials(transportQ)')
        /\ UNCHANGED dials /\ resolving = 0 /\ ~connecting /\ failing = 0
    BY <1>2, DialHanded, Zenon DEF DialInv
  <2>2. resolving' = 0 /\ ~connecting' /\ failing' = 0 /\ resolving' <= 1
    BY <2>1 DEF dials
  <2>3. Lone(Dials(sessionQ)')
    BY <2>1, Zenon DEF Lone
  <2> QED
    BY <2>1, <2>2, <2>3, Zenon DEF DialInv
<1>3. CASE TransportConnect
  <2>1. /\ TakeCommand("connect") /\ UNCHANGED <<sessionQ, connecting, failing>>
        /\ resolving' = resolving + 1
    BY <1>3 DEF TransportConnect
  <2>2. /\ Dials(sessionQ) = {} /\ Dials(transportQ)' = {} /\ resolving = 0 /\ ~connecting
    BY <2>1, DialTaken DEF Connects
  <2>3. Dials(sessionQ)' = {} /\ ~connecting'
    BY <2>1, <2>2 DEF Dials
  <2>4. resolving' = 1 /\ failing' = 0
    BY <2>1, <2>2 DEF DialInv
  <2> QED
    BY <2>2, <2>3, <2>4 DEF DialInv, Lone
<1>4. CASE Resolved
  <2>1. resolving > 0 /\ resolving' = resolving - 1 /\ UNCHANGED <<sessionQ, transportQ>>
    BY <1>4 DEF Resolved, queues
  <2>2. ~connecting /\ Dials(sessionQ) = {} /\ Dials(transportQ) = {}
    BY <1>0, <2>1 DEF DialInv
  <2>3. failing' = 0
    BY <1>4, <2>2 DEF DialInv, Resolved
  <2>4. resolving' = 0
    BY <1>0, <2>1 DEF DialInv
  <2>5. Dials(sessionQ)' = {} /\ Dials(transportQ)' = {}
    BY <2>1, <2>2 DEF Dials
  <2> QED
    BY <2>3, <2>4, <2>5 DEF DialInv, Lone
<1>5. ASSUME ~Connect, ~HandleConnect,
             resolving' \in Nat, resolving' <= resolving, connecting' => connecting, failing' = 0
      PROVE  DialInv'
  <2>1. /\ Shrinks(Dials(sessionQ), Dials(sessionQ)')
        /\ Shrinks(Dials(transportQ), Dials(transportQ)')
    BY <1>5, DialsShrink
  <2>2. Lone(Dials(sessionQ)') /\ Lone(Dials(transportQ)')
    BY <2>1 DEF DialInv, Shrinks
  <2>3. resolving' <= 1
    BY <1>0, <1>5 DEF DialInv
  <2>4. resolving = 0 => resolving' = 0
    BY <1>0, <1>5
  <2> QED
    BY <1>5, <2>1, <2>2, <2>3, <2>4, Zenon DEF DialInv, Shrinks
<1>6. CASE ConnectFailed /\ ~Connect /\ ~HandleConnect
  <2>1. /\ resolving' \in Nat /\ resolving' <= resolving /\ failing' = 0
    BY <1>0, <1>6 DEF ConnectFailed, DialInv
  <2>2. connecting' => connecting
    BY <1>6 DEF ConnectFailed
  <2> QED
    BY <1>5, <1>6, <2>1, <2>2
<1>7. CASE ConnectDone /\ ~Connect /\ ~HandleConnect
  <2>1. /\ resolving' \in Nat /\ resolving' <= resolving /\ failing' = 0
    BY <1>0, <1>7 DEF ConnectDone, DialInv
  <2>2. connecting' => connecting
    BY <1>7 DEF ConnectDone
  <2> QED
    BY <1>5, <1>7, <2>1, <2>2
<1>8. CASE UNCHANGED dials /\ ~Connect /\ ~HandleConnect
  <2>1. resolving' = resolving /\ failing' = failing /\ connecting' = connecting
    BY <1>8 DEF dials
  <2>2. resolving' \in Nat /\ resolving' <= resolving /\ failing' = 0
    BY <1>0, <2>1 DEF DialInv
  <2> QED
    BY <1>5, <1>8, <2>1, <2>2
<1> QED
  BY <1>1, <1>2, <1>3, <1>4, <1>6, <1>7, <1>8, OtherDials

LEMMA UndialledStays ==
    ASSUME QueueTypes, StreamTypes, DialInv, [Next]_vars, ~Connect, ~Dialled
    PROVE  ~Dialled'
<1>0. /\ Dials(sessionQ) = {} /\ Dials(transportQ) = {} /\ resolving = 0 /\ failing = 0
      /\ ~connecting
  BY DEF Dialled, DialInv
<1>1. ~HandleConnect
  BY <1>0, DialHanded
<1>2. ~TransportConnect
  BY <1>0, DialTaken DEF TransportConnect, Connects
<1>3. ~Resolved
  BY <1>0 DEF Resolved
<1>4. ~ConnectFailed
  BY <1>0 DEF ConnectFailed
<1>5. ~ConnectDone
  BY <1>0 DEF ConnectDone
<1>6. UNCHANGED dials
  BY <1>1, <1>2, <1>3, <1>4, <1>5, OtherDials
<1>7. Dials(sessionQ)' = {} /\ Dials(transportQ)' = {}
  BY <1>0, <1>1, DialsShrink DEF Shrinks
<1> QED
  BY <1>0, <1>6, <1>7 DEF Dialled, dials

\* What an event does to the part of the monitor's state that says Connected.
LEMMA MonitoredConnection ==
    ASSUME NEW st \in Status, st.connected => st.known, NEW e
    PROVE  /\ e.t = "connected" => Monitored(st, e).connected /\ Monitored(st, e).known
           /\ e.t \in {"connect_failed", "disconnected"} => ~Monitored(st, e).connected
           /\ e.t \notin {"connected", "connect_failed", "disconnected"} =>
                  /\ Monitored(st, e).connected = st.connected
                  /\ Monitored(st, e).known = st.known
<1>1. CASE e.t = "connected"
  BY <1>1 DEF Monitored
<1>2. CASE e.t = "connect_failed"
  BY <1>2 DEF Monitored
<1>3. CASE e.t = "disconnected" /\ st.known
  BY <1>3 DEF Monitored, Status
<1>4. CASE e.t = "disconnected" /\ ~st.known
  BY <1>4 DEF Monitored, Status
<1>5. CASE e.t = "send_failed" /\ st.known
  BY <1>5 DEF Monitored, Status
<1>6. CASE e.t = "send_failed" /\ ~st.known
  BY <1>6 DEF Monitored, Status
<1>7. CASE e.t \notin {"connected", "connect_failed", "disconnected", "send_failed"}
  BY <1>7 DEF Monitored, Status
<1> QED
  BY <1>1, <1>2, <1>3, <1>4, <1>5, <1>6, <1>7

\* The transport's events and flags, of the steps that touch the connection.
LEMMA LinkToldStep ==
    ASSUME Types, DialInv, ToldInv, ~Overlap, ~Faults, [Next]_vars
    PROVE  ToldInv'
<1>0. /\ QueueTypes /\ StreamTypes /\ told \in Status
      /\ told.connected => told.known
      /\ closing \in Nat
  BY DEF Types, ViewTypes, ToldInv, StreamTypes
<1>a. /\ ToldInv => (Dialled => ~connected /\ ~reading /\ closing = 0)
      /\ ToldInv => (~connected /\ closing = 0 => ~told.connected)
      /\ ToldInv => (connected => reading /\ link = "up" /\ closing = 0 /\ told.connected)
  BY DEF ToldInv
<1>1. CASE Connect
  <2>0. /\ ~connected /\ ~reading /\ closing = 0
        /\ UNCHANGED <<connected, reading, closing, link, told>>
    BY <1>0, <1>1, DialStarted
  <2>1. /\ ~connected' /\ ~reading' /\ closing' = 0 /\ told' = told /\ ~connected /\ closing = 0
    BY <2>0, Zenon
  <2>2. ~told'.connected
    BY <1>a, <2>1
  <2> QED
    BY <2>1, <2>2 DEF ToldInv
<1>2. ASSUME ~Connect, connected' = connected, reading' = reading, closing' = closing,
             link' = link, told'.connected = told.connected, told'.known = told.known
      PROVE  ToldInv'
  <2>1. Dialled' => Dialled
    BY <1>0, <1>2, UndialledStays
  <2> QED
    BY <1>2, <2>1 DEF ToldInv
<1>3. CASE ConnectDone /\ ~Connect
  <2>1. connecting /\ connected' /\ reading' /\ link' = "up" /\ closing' = 0 /\ ~connecting'
    BY <1>3, Zenon DEF ConnectDone
  <2>2. told' = Monitored(told, Event("connected")) /\ Event("connected").t = "connected"
    BY <1>3 DEF ConnectDone, Emit, Event, EventOf
  <2>3. told'.connected /\ told'.known
    BY <1>0, <2>2, MonitoredConnection
  <2>4. Dials(sessionQ) = {} /\ Dials(transportQ) = {} /\ resolving = 0
    BY <2>1 DEF DialInv
  <2>5. ~HandleConnect /\ resolving' = resolving
    BY <1>0, <1>3, <2>4, DialHanded DEF ConnectDone
  <2>6. ~Dialled'
    BY <1>0, <1>3, <2>1, <2>4, <2>5, DialsShrink DEF Dialled, Shrinks
  <2> QED
    BY <2>1, <2>3, <2>6 DEF ToldInv
<1>4. ASSUME ~Connect, Dialled, connected' = connected, reading' = reading, closing' = closing,
             ~told'.connected
      PROVE  ToldInv'
  BY <1>4 DEF ToldInv
<1>5. CASE ConnectFailed /\ ~Connect
  <2>1. Dialled
    <3>1. failing = 0 /\ resolving \in Nat
      BY <1>0, Zenon DEF DialInv, StreamTypes
    <3>2. resolving > 0 \/ failing > 0 \/ connecting
      BY <1>5, Zenon DEF ConnectFailed
    <3>3. resolving # 0 \/ connecting
      BY <3>1, <3>2
    <3> QED
      BY <3>3, Zenon DEF Dialled
  <2>2. told' = Monitored(told, Event("connect_failed")) /\ Event("connect_failed").t = "connect_failed"
    BY <1>5 DEF ConnectFailed, Emit, Event, EventOf
  <2>3. ~told'.connected
    BY <1>0, <2>2, MonitoredConnection
  <2>4. connected' = connected /\ reading' = reading /\ closing' = closing
    BY <1>5 DEF ConnectFailed, stream
  <2> QED
    BY <1>4, <1>5, <2>1, <2>3, <2>4
<1>6. CASE TransportRefuse /\ ~Connect
  <2>1. Dialled
    BY <1>0, <1>6, DialTaken DEF TransportRefuse, Dialled, Connects
  <2>2. told' = Monitored(told, Event("connect_failed")) /\ Event("connect_failed").t = "connect_failed"
    BY <1>6 DEF TransportRefuse, Emit, Event, EventOf
  <2>3. ~told'.connected
    BY <1>0, <2>2, MonitoredConnection
  <2>4. connected' = connected /\ reading' = reading /\ closing' = closing
    BY <1>6 DEF TransportRefuse, stream
  <2> QED
    BY <1>4, <1>6, <2>1, <2>3, <2>4
<1>7. CASE Resolved /\ ~Connect
  <2>1. Dialled
    BY <1>0, <1>7 DEF Resolved, Dialled, StreamTypes
  <2>2. told' = told /\ connected' = connected /\ reading' = reading /\ closing' = closing
    BY <1>7 DEF Resolved
  <2>3. ~told.connected
    BY <1>a, <2>1
  <2> QED
    BY <1>4, <1>7, <2>1, <2>2, <2>3
<1>8. CASE TransportDisconnect /\ ~Connect
  <2>1. ~connected' /\ reading' = reading
    BY <1>8, Zenon DEF TransportDisconnect
  <2>2. CASE connected
    <3>1. closing' = closing + 1 /\ told' = told
      BY <1>8, <2>2 DEF TransportDisconnect
    <3>2. closing' # 0 /\ told'.known
      BY <1>0, <1>a, <2>2, <3>1
    <3>3. ~Dialled'
      BY <1>0, <1>a, <1>8, <2>2, UndialledStays
    <3> QED
      BY <2>1, <3>2, <3>3 DEF ToldInv
  <2>3. CASE ~connected
    <3>1. closing' = closing /\ told' = Monitored(told, Event("disconnected"))
      BY <1>8, <2>3 DEF TransportDisconnect, Emit
    <3>2. Event("disconnected").t = "disconnected"
      BY DEF Event, EventOf
    <3>3. ~told'.connected
      BY <1>0, <3>1, <3>2, MonitoredConnection
    <3>4. Dialled' => Dialled
      BY <1>0, <1>8, UndialledStays
    <3> QED
      BY <1>a, <2>1, <3>1, <3>3, <3>4 DEF ToldInv
  <2> QED
    BY <2>2, <2>3
<1>9. CASE ReadEnds /\ ~Connect
  <2>1. ~connected
    BY <1>0, <1>a, <1>9 DEF ReadEnds
  <2>2. ~connected' /\ ~reading' /\ closing' = closing /\ told' = told
    BY <1>9, Zenon DEF ReadEnds
  <2>3. Dialled' => Dialled
    BY <1>0, <1>9, UndialledStays
  <2> QED
    BY <2>1, <2>2, <2>3 DEF ToldInv
<1>10. CASE CloseDone /\ ~Connect
  <2>1. closing # 0 /\ connected' = connected
    BY <1>10 DEF CloseDone
  <2>2. ~connected /\ ~Dialled
    BY <1>a, <2>1
  <2>3. ~Dialled'
    BY <1>0, <1>10, <2>2, UndialledStays
  <2>4. told' = Monitored(told, Event("disconnected")) /\ Event("disconnected").t = "disconnected"
    BY <1>10 DEF CloseDone, Emit, Event, EventOf
  <2>5. ~told'.connected
    BY <1>0, <2>4, MonitoredConnection
  <2> QED
    BY <2>1, <2>2, <2>3, <2>5 DEF ToldInv
<1>11. ASSUME ~Connect, NEW e, e.t \notin {"connected", "connect_failed", "disconnected"},
              Emit(e), connected' = connected, reading' = reading, closing' = closing, link' = link
       PROVE  ToldInv'
  BY <1>0, <1>2, <1>11, MonitoredConnection DEF Emit
<1>12. CASE TransportSend /\ ~Connect
  <2>1. connected' = connected /\ reading' = reading /\ closing' = closing /\ link' = link
    BY <1>12 DEF TransportSend
  <2>2. CASE told' = told
    BY <1>2, <1>12, <2>1, <2>2
  <2>3. CASE Emit(EventOf("send_failed", Head(transportQ).r))
    BY <1>11, <1>12, <2>1, <2>3 DEF EventOf
  <2> QED
    BY <1>12, <2>2, <2>3 DEF TransportSend
<1>13. ASSUME NEW r, WriteDone(r), ~Connect
       PROVE  ToldInv'
  <2>1. connected' = connected /\ reading' = reading /\ closing' = closing /\ link' = link
    BY <1>13 DEF WriteDone
  <2>2. Emit(EventOf("sent", r)) \/ Emit(EventOf("send_failed", r))
    BY <1>13 DEF WriteDone
  <2> QED
    BY <1>11, <1>13, <2>1, <2>2 DEF EventOf
<1>14. ASSUME NEW r, ReadAnswer(r), ~Connect
       PROVE  ToldInv'
  <2>1. connected' = connected /\ reading' = reading /\ closing' = closing /\ link' = link
    BY <1>14 DEF ReadAnswer, stream
  <2>2. PICK v \in {"accepted", "refused"} : Emit(EventOf(v, r))
    BY <1>14, LinkFacts DEF ReadAnswer
  <2> QED
    BY <1>11, <1>14, <2>1, <2>2 DEF EventOf
<1>15. CASE /\ ~Connect
            /\ UNCHANGED <<connected, reading, closing, link, told>>
  BY <1>2, <1>15
<1> QED
  <2> SUFFICES ASSUME ~Connect PROVE ToldInv'
    BY <1>1
  <2>1. CASE Disconnect \/ QueryStatus \/ TransportConnect \/ Monitor \/ UNCHANGED vars
    BY <1>15, <2>1 DEF Disconnect, QueryStatus, TransportConnect, Monitor, vars, stream
  <2>2. CASE Orchestrate
    BY <1>15, <2>2 DEF Orchestrate, HandleConnect, HandleRequest, HandleConnected, HandleReport,
                       HandleSent, HandleBytes, stream
  <2>3. ASSUME NEW r, Request(r) \/ StartRequest(r) \/ FinishRequest(r)
        PROVE  ToldInv'
    BY <1>15, <2>3 DEF Request, StartRequest, FinishRequest, stream
  <2>4. ~LinkLost
    BY DEF LinkLost
  <2> QED
    BY <1>3, <1>5, <1>6, <1>7, <1>8, <1>9, <1>10, <1>12, <1>13, <1>14, <2>1, <2>2, <2>3, <2>4
       DEF Next, Transport

\* StatusTracksLink, for every number of commands and of requests: where every
\* command waits until the one before has settled and connections do not break,
\* /status says Connected exactly when the transport has a connection, as soon as
\* the queues are empty.  The inductive invariant is DialInv /\ ToldInv: it says
\* that at most one dial is on its way and none beside a connection or its end;
\* Room is there for the status, which loses an event that finds no room.
THEOREM StatusTracks == ~Overlap /\ ~Faults => (Spec /\ []Room => []StatusTracksLink)
<1> SUFFICES ASSUME ~Overlap, ~Faults
             PROVE  Spec /\ []Room => []StatusTracksLink
  OBVIOUS
<1>1. Init => DialInv /\ ToldInv
  <2> SUFFICES ASSUME Init PROVE DialInv /\ ToldInv
    OBVIOUS
  <2>1. /\ sessionQ = <<>> /\ transportQ = <<>> /\ resolving = 0 /\ failing = 0 /\ closing = 0
        /\ ~connecting /\ ~connected /\ ~reading /\ ~told.connected
    BY DEF Init, Unknown
  <2>2. Dials(sessionQ) = {} /\ Dials(transportQ) = {}
    BY <2>1 DEF Dials, At
  <2> QED
    BY <2>1, <2>2 DEF DialInv, ToldInv, Dialled, Lone
<1>2. Types /\ DialInv /\ ToldInv /\ [Next]_vars => (DialInv /\ ToldInv)'
  BY DialStep, LinkToldStep DEF Types
<1>3. Types /\ DialInv /\ ToldInv /\ StatusInv => StatusTracksLink
  <2> SUFFICES ASSUME Types, ToldInv, StatusInv, Settled
               PROVE  status.connected <=> connected
    BY DEF StatusTracksLink
  <2>1. monitorQ = <<>> /\ sessionQ = <<>> /\ closing = 0
    BY DEF Settled
  <2>2. status = told
    <3>1. \A a, b : Follows(<<>>, a, b) => a = b
      BY DEF Follows
    <3> QED
      BY <2>1, <3>1 DEF StatusInv
  <2>3. told.connected <=> connected
    BY <2>1 DEF ToldInv
  <2> QED
    BY <2>2, <2>3
<1> QED
  BY <1>1, <1>2, <1>3, StatusHolds, Typed, PTL DEF Spec
=============================================================================
