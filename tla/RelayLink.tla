----------------------------- MODULE RelayLink ------------------------------
(***************************************************************************)
(* The connection to the relay: nostr::transport over websocket_stream,    *)
(* the connection handlers of session_orchestrator, connection_monitor and *)
(* the commands that drive them.  Three processors take turns on one io    *)
(* thread and talk through queues; callbacks of the stream run between     *)
(* their turns.  Every request (a publication, a message, a subscription)  *)
(* is a coroutine that sends once and then awaits the tracker, which is    *)
(* represented by its abstract specification, Requests.                    *)
(*                                                                         *)
(* The stream (Boost.Beast over TLS) and the relay are external.  A new    *)
(* TCP connect closes the socket of the one before; the callbacks this     *)
(* aborts are queued on the io thread ahead of the one that reports the    *)
(* new connection.                                                         *)
(***************************************************************************)
EXTENDS Integers, Sequences, FiniteSets

CONSTANTS
    Commands,         \* requests of the user
    Spawns,           \* requests the handler of connected makes
    Capacity,         \* channel_size of a queue
    MaxConnects,      \* bounds on the user's commands
    MaxDisconnects,
    MaxQueries,
    Answers,          \* what the relay may answer: accepted, refused
    BadUrls,          \* whether the user may give a ws:// address
    Overlap,          \* whether /connect may come before earlier commands settled
    Faults,           \* whether connections break
    BridgeFails,      \* whether calls of the bridge may throw
    None

ASSUME LinkAssumption ==
    /\ {Capacity, MaxConnects, MaxDisconnects, MaxQueries} \subseteq Nat
    /\ {BadUrls, Overlap, Faults, BridgeFails} \subseteq BOOLEAN
    /\ Answers \subseteq {"accepted", "refused"}
    /\ Commands \cap Spawns = {}
    /\ None \notin Commands \cup Spawns

AllRequests == Commands \cup Spawns

VARIABLES
    transportQ, sessionQ, monitorQ,   \* the queues of the three processors
    connected,        \* connected_ of transport
    resolving,        \* how many async_connect operations resolve their host
    connecting,       \* whether one is past that
    failing,          \* how many have failed and not yet called back
    link,             \* the connection the stream has: up, down (external)
    reading,          \* whether a read is outstanding
    writing,          \* the requests whose write is outstanding
    closing,          \* how many async_close operations are outstanding
    orchestrator,     \* running, or dead after an exception
    spawned,          \* coroutines queued by co_spawn
    dropped,          \* coroutines that ended with an exception before sending
    phase, answer,    \* the tracked requests, as in Requests
    relayed,          \* what the relay received (external)
    replied,          \* what the relay answered (external)
    status,           \* states_[internet] of connection_monitor
    shown,            \* the answer to the last /status
    issued,           \* how often each command was given, and the last of them
    told              \* history: the status after every event transport emitted

queues == <<transportQ, sessionQ, monitorQ>>
dials == <<resolving, connecting, failing>>
stream == <<link, reading, writing, closing>>
requests == <<spawned, dropped, phase, answer>>
relay == <<relayed, replied>>
vars == <<queues, connected, dials, stream, orchestrator, requests, relay,
          status, shown, issued, told>>

Tracker == INSTANCE Requests WITH Waiters <- AllRequests,
              Responses <- Answers, NoAnswer <- None

Event(t) == [t |-> t, r |-> None]
EventOf(t, r) == [t |-> t, r |-> r]

\* async_queue::push: what a full channel does not take is lost.
Push(q, e) == IF Len(q) < Capacity THEN Append(q, e) ELSE q

Status == [known : BOOLEAN, connected : BOOLEAN, error : BOOLEAN]

\* The handlers of connection_monitor as a function of its state.
Monitored(st, e) ==
    CASE e.t = "connected" -> [known |-> TRUE, connected |-> TRUE, error |-> FALSE]
      [] e.t = "connect_failed" -> [known |-> TRUE, connected |-> FALSE, error |-> TRUE]
      [] e.t = "disconnected" /\ st.known -> [st EXCEPT !.connected = FALSE, !.error = FALSE]
      [] e.t = "send_failed" /\ st.known -> [st EXCEPT !.error = TRUE]
      [] OTHER -> st

\* What /status prints for a state.
Shown(st) == IF st.connected THEN "Connected" ELSE IF st.error THEN "Failed" ELSE "Not connected"

\* emit_event of transport.
Emit(e) ==
    /\ sessionQ' = Push(sessionQ, e)
    /\ told' = Monitored(told, e)

-----------------------------------------------------------------------------
(* Commands: command_handler.                                              *)

\* Nothing of an earlier command is under way.
Settled ==
    /\ transportQ = <<>> /\ sessionQ = <<>> /\ monitorQ = <<>>
    /\ resolving = 0 /\ ~connecting /\ failing = 0
    /\ writing = {} /\ closing = 0 /\ spawned = {}

\* /connect goes to the orchestrator.
Connect ==
    /\ issued.connect < MaxConnects
    /\ Overlap \/ (Settled /\ ~connected /\ ~reading)
    /\ \E t \in {"connect"} \cup (IF BadUrls THEN {"connect_bad"} ELSE {}) :
          sessionQ' = Push(sessionQ, Event(t))
    /\ issued' = [issued EXCEPT !.connect = @ + 1, !.last = "connect"]
    /\ UNCHANGED <<transportQ, monitorQ, connected, dials, stream, orchestrator,
                   requests, relay, status, shown, told>>

\* A connect is queued or under way.
Dialling ==
    \/ \E q \in {sessionQ, transportQ} : \E i \in DOMAIN q : q[i].t = "connect"
    \/ resolving > 0 \/ connecting

\* /disconnect goes to the transport directly, past a /connect still queued.
Disconnect ==
    /\ issued.disconnect < MaxDisconnects
    /\ transportQ' = Push(transportQ, Event("disconnect"))
    /\ issued' = [issued EXCEPT !.disconnect = @ + 1,
                                !.last = IF Dialling THEN "early disconnect" ELSE "disconnect"]
    /\ UNCHANGED <<sessionQ, monitorQ, connected, dials, stream, orchestrator,
                   requests, relay, status, shown, told>>

\* /status goes to the monitor.
QueryStatus ==
    /\ issued.query < MaxQueries
    /\ monitorQ' = Push(monitorQ, Event("query_status"))
    /\ issued' = [issued EXCEPT !.query = @ + 1]
    /\ UNCHANGED <<transportQ, sessionQ, connected, dials, stream, orchestrator,
                   requests, relay, status, shown, told>>

\* /publish, /unpublish, /send: one request each.
Request(r) ==
    /\ r \in Commands /\ r \notin issued.requests
    /\ sessionQ' = Push(sessionQ, EventOf("request", r))
    /\ issued' = [issued EXCEPT !.requests = @ \cup {r}]
    /\ UNCHANGED <<transportQ, monitorQ, connected, dials, stream, orchestrator,
                   requests, relay, status, shown, told>>

-----------------------------------------------------------------------------
(* session_orchestrator: one event of its queue.                           *)

Take(t) ==
    /\ orchestrator = "running"
    /\ sessionQ # <<>>
    /\ Head(sessionQ).t \in t
    /\ sessionQ' = Tail(sessionQ)

HandleConnect ==
    /\ Take({"connect", "connect_bad"})
    /\ transportQ' = Push(transportQ, Head(sessionQ))
    /\ UNCHANGED <<monitorQ, connected, dials, stream, orchestrator, requests, relay,
                   status, shown, issued, told>>

HandleRequest ==
    /\ Take({"request"})
    /\ spawned' = spawned \cup {Head(sessionQ).r}
    /\ UNCHANGED <<transportQ, monitorQ, connected, dials, stream, orchestrator,
                   dropped, phase, answer, relay, status, shown, issued, told>>

\* connected: the monitor is told, key maintenance runs, a rotated bundle is
\* published, identities and messages are subscribed.  An exception of the bridge
\* leaves run() and ends the processor.
HandleConnected ==
    /\ Take({"connected"})
    /\ monitorQ' = Push(monitorQ, Head(sessionQ))
    /\ \/ /\ \E S \in SUBSET {r \in Spawns \ spawned : phase[r] = "idle" /\ r \notin dropped} :
                Cardinality(S) \in {2, 3} /\ spawned' = spawned \cup S
          /\ UNCHANGED orchestrator
       \/ BridgeFails /\ orchestrator' = "dead" /\ UNCHANGED spawned
    /\ UNCHANGED <<transportQ, connected, dials, stream, dropped, phase, answer, relay,
                   status, shown, issued, told>>

\* Mutant: the monitor is not told.
HandleReportSilent ==
    /\ Take({"connect_failed", "send_failed", "disconnected"})
    /\ UNCHANGED <<transportQ, monitorQ, connected, dials, stream, orchestrator, requests,
                   relay, status, shown, issued, told>>

\* connect_failed, send_failed, disconnected: the monitor is told.
HandleReport ==
    /\ Take({"connect_failed", "send_failed", "disconnected"})
    /\ monitorQ' = Push(monitorQ, Head(sessionQ))
    /\ UNCHANGED <<transportQ, connected, dials, stream, orchestrator, requests, relay,
                   status, shown, issued, told>>

HandleSent ==
    /\ Take({"sent"})
    /\ UNCHANGED <<transportQ, monitorQ, connected, dials, stream, orchestrator, requests,
                   relay, status, shown, issued, told>>

\* bytes_received with the OK or EOSE for a request: tracker_->resolve.
HandleBytes ==
    /\ Take({"accepted", "refused"})
    /\ LET r == Head(sessionQ).r IN
       \/ Tracker!Match(r, Head(sessionQ).t)
       \/ ~(phase[r] = "open" /\ answer[r] = None) /\ UNCHANGED <<phase, answer>>
    /\ UNCHANGED <<transportQ, monitorQ, connected, dials, stream, orchestrator, spawned,
                   dropped, relay, status, shown, issued, told>>

\* Mutant: the request is sent and not tracked.
StartUntracked(r) ==
    /\ r \in spawned
    /\ spawned' = spawned \ {r}
    /\ transportQ' = Push(transportQ, EventOf("send", r))
    /\ UNCHANGED <<sessionQ, monitorQ, connected, dials, stream, orchestrator, dropped, phase,
                   answer, relay, status, shown, issued, told>>

\* A request coroutine starts: it sends and awaits the tracker, or the bridge
\* throws and it ends without a word.
StartRequest(r) ==
    /\ r \in spawned
    /\ spawned' = spawned \ {r}
    /\ \/ /\ transportQ' = Push(transportQ, EventOf("send", r))
          /\ Tracker!Open(r)
          /\ UNCHANGED dropped
       \/ /\ BridgeFails
          /\ dropped' = dropped \cup {r}
          /\ UNCHANGED <<transportQ, phase, answer>>
    /\ UNCHANGED <<sessionQ, monitorQ, connected, dials, stream, orchestrator, relay,
                   status, shown, issued, told>>

\* Mutant: a timeout is reported as success.
FinishAnswered(r) ==
    /\ phase[r] = "open"
    /\ phase' = [phase EXCEPT ![r] = "answered"]
    /\ UNCHANGED <<queues, connected, dials, stream, orchestrator, spawned, dropped, answer,
                   relay, status, shown, issued, told>>

\* It resumes, answered or timed out, and tells the presentation layer.
FinishRequest(r) ==
    /\ Tracker!Finish(r)
    /\ UNCHANGED <<queues, connected, dials, stream, orchestrator, spawned, dropped, relay,
                   status, shown, issued, told>>

-----------------------------------------------------------------------------
(* transport: one command of its queue.                                    *)

TakeCommand(t) ==
    /\ transportQ # <<>>
    /\ Head(transportQ).t = t
    /\ transportQ' = Tail(transportQ)

\* connect with an address parse_url refuses.
TransportRefuse ==
    /\ TakeCommand("connect_bad")
    /\ Emit(Event("connect_failed"))
    /\ UNCHANGED <<monitorQ, connected, dials, stream, orchestrator, requests, relay,
                   status, shown, issued>>

\* connect: async_connect begins, whatever connection there is.
TransportConnect ==
    /\ TakeCommand("connect")
    /\ resolving' = resolving + 1
    /\ UNCHANGED <<sessionQ, monitorQ, connected, connecting, failing, stream, orchestrator,
                   requests, relay, status, shown, issued, told>>

\* Mutant: no return after "Not connected".
TransportSendAnyway ==
    /\ TakeCommand("send")
    /\ LET r == Head(transportQ).r IN
       /\ writing' = writing \cup {r}
       /\ IF connected THEN UNCHANGED <<sessionQ, told>> ELSE Emit(EventOf("send_failed", r))
    /\ UNCHANGED <<monitorQ, connected, dials, link, reading, closing, orchestrator, requests,
                   relay, status, shown, issued>>

\* send: refused when not connected.  Beast allows one write at a time and can
\* park a second; of more than that it loses one.
TransportSend ==
    /\ TakeCommand("send")
    /\ LET r == Head(transportQ).r IN
       \/ /\ ~connected
          /\ Emit(EventOf("send_failed", r))
          /\ UNCHANGED writing
       \/ /\ connected
          /\ \/ writing' = writing \cup {r}
             \/ Cardinality(writing) > 1 /\ UNCHANGED writing
          /\ UNCHANGED <<sessionQ, told>>
    /\ UNCHANGED <<monitorQ, connected, dials, link, reading, closing, orchestrator, requests,
                   relay, status, shown, issued>>

\* Mutant: connected_ is left to the read loop.
DisconnectLater ==
    /\ TakeCommand("disconnect")
    /\ \/ connected /\ closing' = closing + 1 /\ UNCHANGED <<sessionQ, told>>
       \/ ~connected /\ Emit(Event("disconnected")) /\ UNCHANGED closing
    /\ UNCHANGED <<monitorQ, connected, dials, link, reading, writing, orchestrator, requests,
                   relay, status, shown, issued>>

\* disconnect: connected_ is cleared and the stream closed, or the end reported
\* at once when there is no connection.
TransportDisconnect ==
    /\ TakeCommand("disconnect")
    /\ connected' = FALSE
    /\ \/ connected /\ closing' = closing + 1 /\ UNCHANGED <<sessionQ, told>>
       \/ ~connected /\ Emit(Event("disconnected")) /\ UNCHANGED closing
    /\ UNCHANGED <<monitorQ, dials, link, reading, writing, orchestrator, requests, relay,
                   status, shown, issued>>

-----------------------------------------------------------------------------
(* Callbacks of websocket_stream.                                          *)

\* The host is resolved and the socket closed for a new TCP connect, which ends
\* an attempt under way and breaks the connection there is.
Resolved ==
    /\ resolving > 0
    /\ resolving' = resolving - 1
    /\ connecting' = TRUE
    /\ failing' = IF connecting THEN failing + 1 ELSE failing
    /\ link' = "down"
    /\ UNCHANGED <<queues, connected, reading, writing, closing, orchestrator, requests, relay,
                   status, shown, issued, told>>

\* The handler of async_connect with an error, of resolving or of a later stage.
ConnectFailed ==
    /\ \/ resolving > 0 /\ resolving' = resolving - 1 /\ UNCHANGED <<connecting, failing>>
       \/ failing > 0 /\ failing' = failing - 1 /\ UNCHANGED <<resolving, connecting>>
       \/ connecting /\ connecting' = FALSE /\ UNCHANGED <<resolving, failing>>
    /\ Emit(Event("connect_failed"))
    /\ UNCHANGED <<transportQ, monitorQ, connected, stream, orchestrator, requests, relay,
                   status, shown, issued>>

\* The handler of async_connect with success, after the callbacks it aborted.
ConnectDone ==
    /\ connecting /\ ~reading /\ writing = {} /\ closing = 0 /\ failing = 0
    /\ connecting' = FALSE
    /\ link' = "up"
    /\ connected' = TRUE
    /\ reading' = TRUE
    /\ Emit(Event("connected"))
    /\ UNCHANGED <<transportQ, monitorQ, resolving, failing, writing, closing, orchestrator,
                   requests, relay, status, shown, issued>>

\* process_read with a message of the relay, which answers a request.
ReadAnswer(r) ==
    /\ reading /\ link = "up"
    /\ r \in relayed \ replied
    /\ replied' = replied \cup {r}
    /\ \E v \in Answers : Emit(EventOf(v, r))
    /\ UNCHANGED <<transportQ, monitorQ, connected, dials, stream, orchestrator, requests,
                   relayed, status, shown, issued>>

\* process_read with an error, or with an empty message on a good connection:
\* reading ends, and no event is emitted.
ReadEnds ==
    /\ reading
    /\ link = "down" \/ closing > 0 \/ Faults
    /\ reading' = FALSE
    /\ connected' = FALSE
    /\ UNCHANGED <<queues, dials, link, writing, closing, orchestrator, requests, relay,
                   status, shown, issued, told>>

WriteDone(r) ==
    /\ r \in writing
    /\ writing' = writing \ {r}
    /\ \/ link = "up" /\ relayed' = relayed \cup {r} /\ Emit(EventOf("sent", r))
       \/ (link = "down" \/ Faults) /\ UNCHANGED relayed /\ Emit(EventOf("send_failed", r))
    /\ UNCHANGED <<transportQ, monitorQ, connected, dials, link, reading, closing,
                   orchestrator, requests, replied, status, shown, issued>>

\* Mutant: the end of the connection is not reported.
CloseSilently ==
    /\ closing > 0
    /\ closing' = closing - 1
    /\ link' = "down"
    /\ UNCHANGED <<queues, connected, dials, reading, writing, orchestrator, requests, relay,
                   status, shown, issued, told>>

\* The handler of async_close; an error is ignored.
CloseDone ==
    /\ closing > 0
    /\ closing' = closing - 1
    /\ link' = "down"
    /\ Emit(Event("disconnected"))
    /\ UNCHANGED <<transportQ, monitorQ, connected, dials, reading, writing, orchestrator,
                   requests, relay, status, shown, issued>>

\* The connection breaks.
LinkLost ==
    /\ Faults /\ link = "up"
    /\ link' = "down"
    /\ UNCHANGED <<queues, connected, dials, reading, writing, closing, orchestrator, requests,
                   relay, status, shown, issued, told>>

-----------------------------------------------------------------------------
(* connection_monitor: one event of its queue.                             *)

Monitor ==
    /\ monitorQ # <<>>
    /\ monitorQ' = Tail(monitorQ)
    /\ status' = Monitored(status, Head(monitorQ))
    /\ shown' = IF Head(monitorQ).t = "query_status" THEN Shown(status) ELSE shown
    /\ UNCHANGED <<transportQ, sessionQ, connected, dials, stream, orchestrator, requests,
                   relay, issued, told>>

-----------------------------------------------------------------------------
Unknown == [known |-> FALSE, connected |-> FALSE, error |-> FALSE]

Init ==
    /\ transportQ = <<>> /\ sessionQ = <<>> /\ monitorQ = <<>>
    /\ connected = FALSE
    /\ resolving = 0 /\ connecting = FALSE /\ failing = 0
    /\ link = "down" /\ reading = FALSE /\ writing = {} /\ closing = 0
    /\ orchestrator = "running"
    /\ spawned = {} /\ dropped = {}
    /\ Tracker!Init
    /\ relayed = {} /\ replied = {}
    /\ status = Unknown /\ told = Unknown
    /\ shown = "Not connected"
    /\ issued = [connect |-> 0, disconnect |-> 0, query |-> 0, requests |-> {}, last |-> "none"]

Orchestrate ==
    \/ HandleConnect \/ HandleRequest \/ HandleConnected
    \/ HandleReport \/ HandleSent \/ HandleBytes

Transport ==
    TransportRefuse \/ TransportConnect \/ TransportSend \/ TransportDisconnect

Next ==
    \/ Connect \/ Disconnect \/ QueryStatus
    \/ \E r \in AllRequests :
          \/ Request(r) \/ StartRequest(r) \/ FinishRequest(r)
          \/ ReadAnswer(r) \/ WriteDone(r)
    \/ Orchestrate \/ Transport \/ Monitor
    \/ Resolved \/ ConnectFailed \/ ConnectDone
    \/ ReadEnds \/ CloseDone \/ LinkLost

Spec == Init /\ [][Next]_vars

\* The io thread runs every ready handler; resolving, connecting, writing and
\* closing end by themselves or by their timeouts; tracked requests time out.
\* Nothing is assumed of the user, of the relay, of reads or of the network.
Fairness ==
    /\ WF_vars(Orchestrate) /\ WF_vars(Transport) /\ WF_vars(Monitor)
    /\ WF_vars(Resolved \/ ConnectFailed \/ ConnectDone) /\ WF_vars(CloseDone)
    /\ \A r \in AllRequests :
          WF_vars(StartRequest(r)) /\ WF_vars(FinishRequest(r)) /\ WF_vars(WriteDone(r))

FairSpec == Spec /\ Fairness

-----------------------------------------------------------------------------
(* Properties.                                                             *)

Events ==
    [t : {"connect", "connect_bad", "disconnect", "query_status", "connected", "connect_failed",
          "disconnected"}, r : {None}]
    \cup [t : {"request", "send", "sent", "send_failed", "accepted", "refused"}, r : AllRequests]

TypeOK ==
    /\ \A q \in {transportQ, sessionQ, monitorQ} : q \in Seq(Events) /\ Len(q) <= Capacity
    /\ {connected, connecting, reading} \subseteq BOOLEAN
    /\ {resolving, failing, closing} \subseteq Nat
    /\ link \in {"up", "down"}
    /\ orchestrator \in {"running", "dead"}
    /\ writing \cup spawned \cup dropped \cup relayed \cup replied \subseteq AllRequests
    /\ phase \in [AllRequests -> {"idle", "open", "answered", "timedout"}]
    /\ answer \in [AllRequests -> {"accepted", "refused", None}]
    /\ {status, told} \subseteq Status
    /\ shown \in {"Connected", "Failed", "Not connected"}
    /\ issued \in [connect : Nat, disconnect : Nat, query : Nat, requests : SUBSET Commands,
                   last : {"none", "connect", "disconnect", "early disconnect"}]

\* The positions in a queue of the events about r of some types.
At(q, types, r) == {i \in DOMAIN q : q[i].t \in types /\ q[i].r = r}

\* Every place the send of r is in: the transport's queue, the stream, a report.
Places(r) ==
    ({"queued"} \X At(transportQ, {"send"}, r))
      \cup ({"written"} \X (writing \cap {r}))
      \cup ({"reported"} \X At(sessionQ, {"sent", "send_failed"}, r))

\* A request is sent at most once and its send ends at most once: it is in the
\* transport's queue, being written or reported, never in two of these places,
\* whatever connects, closes and fails in between.
SentOnce ==
    \A r \in AllRequests :
        /\ \A p, q \in Places(r) : p = q
        /\ phase[r] = "idle" => Places(r) = {}

\* The user is told that a request was accepted only if the relay received it
\* and accepted it: no answer outlives its request or reaches another one.
AcceptedWasRelayed ==
    \A r \in AllRequests : phase[r] = "answered" => r \in relayed \cap replied

\* The status st after the monitor handled the events of q in order.
Replay(st, q) ==
    LET after[i \in 0 .. Len(q)] == IF i = 0 THEN st ELSE Monitored(after[i - 1], q[i])
    IN  after[Len(q)]

\* The status the monitor shows lags behind the transport but never disagrees
\* with it: with the events still queued applied in order, it is what the
\* transport's events say.
StatusFollowsEvents == Replay(Replay(status, monitorQ), sessionQ) = told

\* When everything has settled, /status says Connected exactly when the transport
\* has a connection.  ("Connection state tracking", docs/architecture/transport-layer.md:44.)
StatusTracksLink == Settled => (status.connected <=> connected)

\* When everything has settled after a /disconnect, there is no connection, if
\* no connect was under way when the command was given ("Disconnect from Nostr
\* relay", lib/core/include/core/command_handler.hpp:59): reads, writes and the
\* close under way do not bring connected_ back.
DisconnectHonoured == Settled /\ issued.last = "disconnect" => ~connected

\* Every request that was made ends: the user is told of an answer or of a
\* failure although sends fail, writes are lost and connections break (unless the
\* bridge throws before anything is sent).
RequestEnds ==
    \A r \in AllRequests :
        r \in spawned ~> (phase[r] \in {"answered", "timedout"} \/ r \in dropped)

\* While the orchestrator runs, the monitor catches up with what the transport
\* says: every event reaches it through the two queues in between.
StatusCatchesUp ==
    \A st \in Status : (told = st /\ orchestrator = "running") ~>
        (status = st \/ told # st \/ orchestrator = "dead")
=============================================================================
