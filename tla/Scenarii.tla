------------------------------ MODULE Scenarii ------------------------------
(***************************************************************************)
(* The scenarii (scenarii/*.go) as the machines that decide on a verdict:  *)
(* what a host does reaches a scenario through the channels it registers,  *)
(* what a packet did to the streams is visible as soon as it is parsed,    *)
(* before the scenario takes it from its channel, and the timer of a       *)
(* scenario fires once, at any time.  Packets are cut down to what some    *)
(* scenario looks at.  The hosts are external.                             *)
(***************************************************************************)
EXTENDS Integers, Sequences, FiniteSets, SequencesExt, TLC

CONSTANTS
    ChannelSize,  \* how much a channel and its broadcaster hold, some thousands in the code
    MaxEvents     \* bound: how many packets, statuses, ... reach a scenario

ASSUME ScenariiAssumption == ChannelSize \in Nat /\ MaxEvents \in Nat

VARIABLES
    scenario,   \* the one that runs
    at,         \* "handshake", "loop", "closing", "stopping", "returned" or "crashed"
    code,       \* trace.ErrorCode
    local,      \* the local variables of its Run
    why,        \* what made it return: "setup", "event" or "timer"
    timer,      \* its one-shot timer: "running", "fired" or "drained"
    sending,    \* whether its SendingAgent runs
    chan,       \* its channels, each followed by what an agent is blocked on
    streams,    \* conn.Streams, for the streams that exist: ReadOffset and ReadClosed
    total,      \* SocketAgent.TotalDataReceived
    params,     \* ReceivedParameters, Nil if none could be read
    log,        \* the events it has handled
    events      \* how many there have been

svars == <<scenario, at, code, local, why, timer, sending, chan, streams, total, params, log, events>>

Nil == [nil |-> TRUE]
Channels == {"packets", "status", "ecn", "outgoing", "ticket", "levels", "frames", "responses"}

(* An event: its channel, its kind, a number, and for a STREAM frame its length and FIN bit. *)
Event(c, k, n) == [c |-> c, k |-> k, n |-> n, len |-> 0, fin |-> FALSE]
Stream(id, len, fin) == [c |-> "packets", k |-> "STREAM", n |-> id, len |-> len, fin |-> fin]
Packet(k, n) == Event("packets", k, n)
Other == Packet("other", 0)

(* The results of a handler.  A scenario that returns closes its connection, by a deferred
   CloseConnection or, where there may be no connection yet, a StopAll. *)
Go(c, l) == [code |-> c, local |-> l, at |-> "loop", why |-> "none"]
Return(c) == [code |-> c, local |-> 0, at |-> "closing", why |-> "event"]
Stop(c) == [Return(c) EXCEPT !.at = "stopping"]
Crash == [code |-> 0, local |-> 0, at |-> "crashed", why |-> "event"]

TransportErrors == [STREAM_LIMIT |-> 4, STREAM_STATE |-> 5, PROTOCOL_VIOLATION |-> 10]
NoHandshake == {"handshake", "padding", "version_negotiation", "address_validation", "unsupported_tls_version"}
HTTP3Scenarii == {"http3_get", "http3_encoder_stream", "http3_uni_streams_limits"}
AllScenarii ==
    NoHandshake \cup HTTP3Scenarii \cup
    {"zero_rtt", "connection_migration", "stream_opening_reordering", "multi_stream", "new_connection_id",
     "transport_parameters", "flow_control", "ack_only", "ack_ecn", "stop_sending", "http_get_and_wait",
     "http_get_on_uni_stream", "key_update", "retire_connection_id"}

Closed(id) == id \in DOMAIN streams /\ streams[id].ReadClosed
ReadOffset(id) == IF id \in DOMAIN streams THEN streams[id].ReadOffset ELSE 0

-----------------------------------------------------------------------------
(* The events a host can cause while a scenario is in its loop. *)
Offers(s, l) ==
    CASE s = "handshake" -> IF l.registered THEN {Event("status", k, 0) : k \in {"completed", "incorrect type", "no version", "failed"}}
                            ELSE {}
      [] s = "padding" -> {Packet("VN", 1), Packet("VN", 0), Other}
      [] s = "version_negotiation" -> {Packet("VN", 1), Packet("VN", 2), Other}
      [] s = "address_validation" -> {Packet("DATAGRAM", 4), Event("status", "failed", 0)}
                                       \cup {e \in {Event("status", "completed", 0)} : ~l.Completed /\ ~Contains(chan.status, e)}
      [] s = "unsupported_tls_version" -> {Packet("VN", 1), Packet("VN", 0), Packet("Retry", 0), Packet("CLOSE", 326), Packet("CLOSE", 1), Other}
      [] s = "zero_rtt" -> IF l = "ticket" THEN {Event("ticket", "ticket", 0)}
                           ELSE {Event("levels", "0RTT", 0), Event("levels", "other", 0), Packet("Retry", 0), Stream(0, 1, TRUE), Other}
      [] s = "connection_migration" -> {Packet("PATH_CHALLENGE", 0), Other}
      [] s = "multi_stream" -> {Stream(0, 1, TRUE), Stream(4, 1, TRUE), Other}
      [] s = "new_connection_id" -> {Packet("NEW_CID", 8), Packet("NEW_CID", 20), Packet("NEW_CIDS", 20), Other} \cup (IF l THEN {Packet("adapted", 0)} ELSE {})
      [] s = "retire_connection_id" -> {Packet("NEW_CID", 8), Packet("NEW_CID", 20), Packet("NEW_CIDS", 20), Other}
      [] s = "flow_control" -> IF l.registered THEN {Stream(0, n, fin) : n \in {1, 2}, fin \in BOOLEAN} \cup {Other} ELSE {}
      [] s = "ack_only" -> {Packet("ackable", {}), Packet("other", {})} \cup {Packet("ACK", a) : a \in SUBSET ({0} \cup l) \ {{}}}
      [] s = "ack_ecn" -> {Packet("ACK_ECN", 0), Other, Event("ecn", "CE", 0), Event("ecn", "NonECT", 0)}
      [] s = "stop_sending" -> {Packet("CLOSE", TransportErrors.STREAM_STATE), Packet("CLOSE", 1), Other}
      [] s = "http_get_and_wait" -> {Stream(0, 1, TRUE), Stream(0, 0, FALSE), Stream(4, 1, FALSE), Stream(4, 0, FALSE), Packet("CLOSE", 0)}
      [] s = "http_get_on_uni_stream" -> {Stream(2, 1, TRUE), Stream(3, 1, FALSE), Stream(7, 1, FALSE), Other}
                                         \cup {Packet("CLOSE", n) : n \in {1, TransportErrors.STREAM_LIMIT, TransportErrors.PROTOCOL_VIOLATION}}
      [] s \in HTTP3Scenarii -> {Event("frames", "SETTINGS", 0), Event("frames", "other", 0), Event("responses", "response", 0),
                                 Stream(3, 1, FALSE), Stream(7, 1, FALSE)}
      [] s \in {"key_update", "stream_opening_reordering"} -> {Stream(0, 1, TRUE), Other}

(* The channels a scenario selects on; some only wait for their timer. *)
Reads(s, l) ==
    CASE s = "zero_rtt" -> IF l = "ticket" THEN {"ticket"} ELSE IF l = "loop" THEN {"packets"} ELSE {"levels"}
      [] s \in HTTP3Scenarii -> IF l = "settings" THEN {"frames"} ELSE IF l = "response" THEN {"responses"} ELSE {}
      [] s \in {"key_update", "stream_opening_reordering"} -> {}
      [] OTHER -> Channels

-----------------------------------------------------------------------------
(* What a scenario does once its handshake is completed, before its loop, when p are
   the parameters of the host. *)
NotEnoughStreams(p) == p.MaxUniStreams < 3 \/ p.MaxBidiStreams = 0
Prepare(s, p) ==
    CASE s = "zero_rtt" -> {Go(0, "ticket")}
      [] s = "connection_migration" -> {Go(3, 0), Return(2)}
      [] s = "ack_ecn" -> {Go(3, 0), Return(2)}
      [] s \in {"new_connection_id", "retire_connection_id"} -> {Go(2, FALSE)}
      [] s = "flow_control" -> {Go(0, [shouldResume |-> FALSE, limit |-> 2, registered |-> TRUE])}
      [] s = "ack_only" -> {Go(0, {})}
      [] s = "multi_stream" -> {Go(0, TRUE)}
      [] s = "stop_sending" -> {IF p.MaxUniStreams = 0 THEN Return(4) ELSE Go(2, 0)}
      [] s = "http_get_and_wait" -> {Go(IF p.MaxBidiStreams = 0 THEN 8 ELSE 0, [errors |-> {}, closeReceived |-> FALSE])}
      [] s = "http_get_on_uni_stream" -> {Go(IF p.MaxUniStreams = 0 THEN 6 ELSE 0, 0)}
      [] s \in HTTP3Scenarii -> {IF NotEnoughStreams(p) THEN Return(3) ELSE Go(0, IF s = "http3_encoder_stream" THEN "settings" ELSE "response")}
      [] s = "transport_parameters" -> {Return(0)}
      [] OTHER -> {Go(0, 0)}

(* The streams that the requests of a scenario open. *)
Opened(s, p) ==
    CASE s = "multi_stream" -> {4 * i : i \in {j \in 0..3 : j < p.MaxBidiStreams}}
      [] s \in {"http_get_on_uni_stream", "stop_sending"} -> {2}
      [] s \in {"zero_rtt", "new_connection_id"} \cup HTTP3Scenarii -> {}
      [] OTHER -> {0}

DereferencesParameters ==
    {"multi_stream", "stop_sending", "http_get_and_wait", "http_get_on_uni_stream", "transport_parameters"} \cup HTTP3Scenarii

-----------------------------------------------------------------------------
(* The bodies of the loops: what a scenario, whose error code is c and whose
   locals are l, does with an event e. *)

HandshakeScenario(c, l, e) ==
    {Go(CASE e.k = "completed" -> c [] e.k = "no version" -> 3 [] e.k = "incorrect type" -> 1 [] e.k = "failed" -> 2,
        [Completed |-> e.k = "completed", registered |-> FALSE])}

PaddingScenario(c, l, e) == {Stop(IF e.k # "VN" THEN 2 ELSE IF e.n = 0 THEN 1 ELSE c)}

VersionNegotiationScenario(c, l, e) ==
    {IF e.k # "VN" THEN Go(1, l)
     ELSE IF l.vnCount >= 1 /\ l.unusedField # e.n THEN Stop(0)
     ELSE IF l.vnCount + 1 = 3 THEN Stop(5)
     ELSE Go(c, [vnCount |-> l.vnCount + 1, unusedField |-> e.n])}

AddressValidationScenario(c, l, e) ==
    {CASE e.c = "packets" -> Go(IF 2 * total > 7 * l.initialLength THEN 3 ELSE c, l)
       [] e.c = "outgoing" -> Go(c, [l EXCEPT !.initialLength = e.n])
       [] e.c = "status" -> IF e.k = "completed" THEN Go(0, [l EXCEPT !.Completed = TRUE])
                            ELSE IF l.Completed THEN Return(1) ELSE Stop(1)}

UnsupportedTLSVersionScenario(c, l, e) ==
    {CASE e.k = "VN" /\ e.n = 0 -> Stop(3)
       [] e.k = "CLOSE" -> Go(IF e.n # 326 THEN 2 ELSE c, TRUE)
       [] OTHER -> Go(c, l)}

(* The ticket opens a second connection; when that fails its nil result is dereferenced. *)
ZeroRTTScenario(c, l, e) ==
    IF l = "ticket" THEN {Go(c, "0RTT"), Crash}
    ELSE IF e.c = "levels" /\ e.k # "0RTT" THEN {Go(c, l)}
    ELSE IF l = "0RTT" THEN {Go(4, "loop")}
    ELSE IF e.k = "Retry" THEN {Go(c, "0RTT again")}
    ELSE {Go(IF Closed(0) THEN 0 ELSE c, "loop")}

ConnectionMigrationScenario(c, l, e) ==
    {Go(IF e.k = "PATH_CHALLENGE" THEN 0 ELSE IF c = 3 THEN 4 ELSE c, l)}

MultiStreamScenario(c, l, e) ==
    LET allClosed == l /\ \A id \in DOMAIN streams : streams[id].ReadClosed
    IN {IF allClosed THEN Return(c) ELSE Go(c, FALSE)}

(* NEW_CIDS: a packet with several frames, of which n is the length of the last one's CID.
   The code 5 of an invalid length is overwritten by 3 if it is that of the first frame. *)
InvalidLength(n) == n < 4 \/ n > 18
NewConnectionIDScenario(c, l, e) ==
    {IF l THEN Go(IF e.k = "adapted" THEN 0 ELSE 4, l)
     ELSE IF e.k = "NEW_CID" THEN Go(3, TRUE)
     ELSE IF e.k = "NEW_CIDS" THEN Go(IF InvalidLength(e.n) THEN 5 ELSE 3, TRUE)
     ELSE Go(c, l)}

(* The code 4 of an invalid length is always overwritten: by 0 at once, or by 3 after the frames. *)
RetireConnectionIDScenario(c, l, e) ==
    {IF e.k \in {"NEW_CID", "NEW_CIDS"} THEN Go(IF l THEN 0 ELSE 3, TRUE) ELSE Go(c, l)}

FlowControlScenario(c, l, e) ==
    LET code1 == IF ReadOffset(0) > l.limit THEN 2 ELSE c
    IN {IF Closed(0) THEN Go(code1, [l EXCEPT !.registered = FALSE])
        ELSE IF ReadOffset(0) = l.limit /\ ~l.shouldResume
             THEN Go(code1, [l EXCEPT !.limit = 2 * l.limit, !.shouldResume = TRUE])
        ELSE Go(code1, l)}

AckOnlyScenario(c, l, e) ==
    {CASE e.k = "ackable" -> Go(c, l \cup {Cardinality(l) + 1})
       [] e.k = "ACK" -> IF e.n \subseteq l THEN Return(2) ELSE Go(c, l)
       [] OTHER -> Go(c, l)}

(* Mutant: an ECN mark seen after an ACK_ECN frame is not taken into account. *)
AckECNInOrder(c, l, e) ==
    {CASE e.k = "ACK_ECN" -> Go(IF c = 3 THEN 5 ELSE IF c = 4 THEN 0 ELSE c, l)
       [] e.k = "CE" -> Go(IF c = 3 THEN 4 ELSE c, l)
       [] OTHER -> Go(c, l)}

AckECNScenario(c, l, e) ==
    {CASE e.k = "ACK_ECN" -> Go(IF c = 3 THEN 5 ELSE IF c = 4 THEN 0 ELSE c, l)
       [] e.k = "CE" -> Go(IF c = 3 THEN 4 ELSE IF c = 5 THEN 0 ELSE c, l)
       [] OTHER -> Go(c, l)}

StopSendingOnReceiveStreamScenario(c, l, e) ==
    {IF e.k = "CLOSE" THEN Return(IF e.n # TransportErrors.STREAM_STATE THEN 3 ELSE 0) ELSE Go(c, l)}

SimpleGetAndWaitScenario(c, l, e) ==
    {CASE e.k = "STREAM" ->
            LET empty == e.len = 0 /\ ~e.fin
            IN Go(IF empty THEN 2 ELSE IF e.n # 0 THEN 4 ELSE c,
                  [l EXCEPT !.errors = @ \cup (IF e.n # 0 THEN {4} ELSE {}) \cup (IF empty THEN {2} ELSE {})])
       [] e.k = "CLOSE" -> Go(c, [l EXCEPT !.closeReceived = TRUE])}

GetOnStream2Scenario(c, l, e) ==
    {CASE e.k = "STREAM" -> IF e.n = 2 THEN Return(3) ELSE IF e.n > 3 THEN Return(4) ELSE Go(c, l)
       [] e.k = "CLOSE" -> Return(IF \/ c = 6 /\ e.n = TransportErrors.STREAM_LIMIT
                                     \/ e.n = TransportErrors.PROTOCOL_VIOLATION
                                  THEN 2 ELSE c)
       [] OTHER -> Go(c, l)}

HTTP3Scenario(c, l, e) == {Go(c, IF l = "settings" THEN (IF e.k = "SETTINGS" THEN "response" ELSE l) ELSE "wait")}

On(s, c, l, e) ==
    CASE s = "handshake" -> HandshakeScenario(c, l, e)
      [] s = "padding" -> PaddingScenario(c, l, e)
      [] s = "version_negotiation" -> VersionNegotiationScenario(c, l, e)
      [] s = "address_validation" -> AddressValidationScenario(c, l, e)
      [] s = "unsupported_tls_version" -> UnsupportedTLSVersionScenario(c, l, e)
      [] s = "zero_rtt" -> ZeroRTTScenario(c, l, e)
      [] s = "connection_migration" -> ConnectionMigrationScenario(c, l, e)
      [] s = "multi_stream" -> MultiStreamScenario(c, l, e)
      [] s = "new_connection_id" -> NewConnectionIDScenario(c, l, e)
      [] s = "retire_connection_id" -> RetireConnectionIDScenario(c, l, e)
      [] s = "flow_control" -> FlowControlScenario(c, l, e)
      [] s = "ack_only" -> AckOnlyScenario(c, l, e)
      [] s = "ack_ecn" -> AckECNScenario(c, l, e)
      [] s = "stop_sending" -> StopSendingOnReceiveStreamScenario(c, l, e)
      [] s = "http_get_and_wait" -> SimpleGetAndWaitScenario(c, l, e)
      [] s = "http_get_on_uni_stream" -> GetOnStream2Scenario(c, l, e)
      [] s \in HTTP3Scenarii -> HTTP3Scenario(c, l, e)

(* The code a scenario ends with when its timer fires. *)
FlowControlEnd(l) ==
    IF ReadOffset(0) = l.limit THEN 0
    ELSE IF l.shouldResume /\ 2 * ReadOffset(0) = l.limit THEN 3
    ELSE IF ReadOffset(0) < l.limit THEN 4 ELSE 2
SimpleGetAndWaitEnd(c, l) ==
    LET e == IF params.MaxBidiStreams = 0
             THEN IF ReadOffset(0) > 0 THEN {10} ELSE IF ~l.closeReceived THEN {6} ELSE {}
             ELSE IF ~Closed(0) \/ ReadOffset(0) = 0 THEN {9} ELSE {}
    IN IF Cardinality(l.errors \cup e) > 1 THEN 7 ELSE c
NumberOfServerStreamsOpen == Cardinality({id \in DOMAIN streams : id % 2 = 1})
HTTP3End(s, l) ==
    IF s = "http3_uni_streams_limits" /\ NumberOfServerStreamsOpen > 1 THEN 4
    ELSE IF l = "wait" THEN 0 ELSE IF l = "settings" THEN 4 ELSE 2
OnTimeout(s, c, l) ==
    CASE s = "handshake" -> IF ~l.Completed /\ c = 0 THEN 4 ELSE c
      [] s = "unsupported_tls_version" -> IF ~l THEN 1 ELSE c
      [] s = "zero_rtt" -> IF l = "ticket" THEN 2 ELSE IF l = "loop" THEN c ELSE 3
      [] s = "multi_stream" -> IF \A id \in DOMAIN streams \ {0} : streams[id].ReadClosed THEN c ELSE 3
      [] s = "flow_control" -> FlowControlEnd(l)
      [] s = "http_get_and_wait" -> SimpleGetAndWaitEnd(c, l)
      [] s \in {"key_update", "stream_opening_reordering"} -> IF Closed(0) THEN c ELSE 2
      [] s \in HTTP3Scenarii -> HTTP3End(s, l)
      [] OTHER -> c

-----------------------------------------------------------------------------
(* scenario_runner.go opens the connection and calls Run. *)
Loop(r) ==
    /\ at' = r.at
    /\ code' = r.code
    /\ local' = r.local
    /\ why' = r.why

Begin(s) ==
    /\ scenario' = s
    /\ timer' = "running"
    /\ sending' = TRUE
    /\ chan' = [c \in Channels |-> IF s = "address_validation" /\ c = "outgoing" THEN <<Event(c, "Initial", 2)>> ELSE <<>>]
    /\ streams' = <<>>
    /\ total' = 0
    /\ params' = Nil
    /\ log' = <<>>
    /\ events' = 0
    /\ \/ s \notin NoHandshake /\ Loop([Go(0, 0) EXCEPT !.at = "handshake"])
       \/ s = "handshake" /\ Loop(Go(0, [Completed |-> FALSE, registered |-> TRUE]))
       \/ s = "version_negotiation" /\ Loop(Go(4, [vnCount |-> 0, unusedField |-> 0]))
       \/ s = "unsupported_tls_version" /\ Loop(Go(0, FALSE))
       \/ s = "padding" /\ Loop(Go(0, 0))
       \/ s = "address_validation" /\ Loop(Go(0, [Completed |-> FALSE, initialLength |-> 0]))
       \/ Loop([Return(255) EXCEPT !.at = "returned", !.why = "setup"])    \* no UDP connection

Timer ==
    /\ at \in {"handshake", "loop"}
    /\ timer = "running"
    /\ timer' = "fired"
    /\ UNCHANGED <<scenario, at, code, local, why, sending, chan, streams, total, params, log, events>>

(* CompleteHandshake: the status says Completed, even when an error came with it and the
   host's parameters could not be read. *)
HandshakeErrorCode(s) == IF s = "transport_parameters" THEN 3 ELSE 1
Limits == [MaxBidiStreams : {0, 2}, MaxUniStreams : {0, 3}]
HandshakeDone ==
    /\ at = "handshake"
    /\ params' \in {Nil} \cup Limits
    /\ IF params' = Nil /\ scenario \in DereferencesParameters
       THEN Loop(Crash) /\ UNCHANGED <<streams, sending>>
       ELSE /\ \E r \in Prepare(scenario, params') : Loop([r EXCEPT !.why = IF r.at = "closing" THEN "setup" ELSE r.why])
            /\ sending' = ~(scenario = "connection_migration" /\ at' = "closing")
            /\ streams' = [id \in Opened(scenario, params') |-> [ReadOffset |-> 0, ReadClosed |-> FALSE]]
    /\ UNCHANGED <<scenario, timer, chan, total, log, events>>

HandshakeFails ==                                       \* a status that is not Completed
    /\ at = "handshake"
    /\ Loop([Stop(HandshakeErrorCode(scenario)) EXCEPT !.why = "setup"])
    /\ UNCHANGED <<scenario, timer, sending, chan, streams, total, params, log, events>>

HandshakeTimeout ==
    /\ at = "handshake"
    /\ timer = "fired"
    /\ timer' = "drained"
    /\ Loop([Stop(HandshakeErrorCode(scenario)) EXCEPT !.why = "setup"])
    /\ UNCHANGED <<scenario, sending, chan, streams, total, params, log, events>>

(* The agent that has something for a full channel waits until the scenario reads it. *)
Blocked(c) == Len(chan[c]) > ChannelSize

(* A packet is parsed, its data reach the streams, and it is put in the channel. *)
Arrive ==
    /\ at = "loop"
    /\ events < MaxEvents
    /\ events' = events + 1
    /\ \E e \in Offers(scenario, local) :
         /\ ~Blocked(e.c)
         /\ chan' = [chan EXCEPT ![e.c] = Append(@, e)]
         /\ streams' = IF e.k # "STREAM" \/ Closed(e.n) THEN streams
                       ELSE (e.n :> [ReadOffset |-> ReadOffset(e.n) + e.len, ReadClosed |-> e.fin]) @@ streams
         /\ total' = IF e.k = "DATAGRAM" THEN total + e.n ELSE total
    /\ UNCHANGED <<scenario, at, code, local, why, timer, sending, params, log>>

Handle ==
    /\ at = "loop"
    /\ \E c \in Reads(scenario, local) :
         /\ chan[c] # <<>>
         /\ chan' = [chan EXCEPT ![c] = Tail(@)]
         /\ log' = Append(log, Head(chan[c]))
         /\ \E r \in On(scenario, code, local, Head(chan[c])) : Loop(r)
    /\ UNCHANGED <<scenario, timer, sending, streams, total, params, events>>

ClosesOnTimeout ==
    IF scenario \in {"handshake", "address_validation"} THEN local.Completed ELSE scenario \notin NoHandshake
Timeout ==
    /\ at = "loop"
    /\ timer = "fired"
    /\ timer' = "drained"
    /\ Loop([(IF ClosesOnTimeout THEN Return(OnTimeout(scenario, code, local)) ELSE Stop(OnTimeout(scenario, code, local)))
             EXCEPT !.why = "timer"])
    /\ UNCHANGED <<scenario, sending, chan, streams, total, params, log, events>>

(* CloseConnection joins a ClosingAgent, which only returns when it has seen its frame in a
   packet of the SendingAgent, and then calls StopAll. *)
CloseConnection ==
    /\ at = "closing"
    /\ sending
    /\ at' = "stopping"
    /\ UNCHANGED <<scenario, code, local, why, timer, sending, chan, streams, total, params, log, events>>

(* Every agent is joined.  One that is blocked on a channel of the scenario, which nobody
   reads any more, does not return. *)
StopAll ==
    /\ at = "stopping"
    /\ \A c \in Channels : ~Blocked(c)
    /\ at' = "returned"
    /\ sending' = FALSE
    /\ UNCHANGED <<scenario, code, local, why, timer, chan, streams, total, params, log, events>>

ScenarioStep ==
    \/ Timer \/ HandshakeDone \/ HandshakeFails \/ HandshakeTimeout
    \/ Arrive \/ Handle \/ Timeout
    \/ CloseConnection \/ StopAll

-----------------------------------------------------------------------------
Count(k) == Cardinality({i \in DOMAIN log : log[i].k = k})
Seen(k) == Count(k) > 0
Those(k) == {log[i] : i \in {j \in DOMAIN log : log[j].k = k}}
NewCIDs == {i \in DOMAIN log : log[i].k \in {"NEW_CID", "NEW_CIDS"}}
Open == {id \in DOMAIN streams : ~streams[id].ReadClosed}
If(condition, c) == IF condition THEN {c} ELSE {}

(* What a scenario with several sources of events, or several ways to set its code, has
   seen, by the names that it gives to its codes (the constants of scenarii/*.go): the
   codes whose name is true of the history. *)
GetErrors ==
    If(\E e \in Those("STREAM") : e.n # 0, 4)                             \* WrongStreamIDReceived
    \cup If(\E e \in Those("STREAM") : e.len = 0 /\ ~e.fin, 2)            \* EmptyStreamFrameNoFinBit
    \cup (IF params.MaxBidiStreams # 0
            THEN If(~Closed(0) \/ ReadOffset(0) = 0, 9)                    \* DidntReceiveTheRequestedData
            ELSE If(ReadOffset(0) > 0, 10)                                 \* AnsweredOnUnannouncedStream
                 \cup If(ReadOffset(0) = 0 /\ ~Seen("CLOSE"), 6))          \* DidNotCloseTheConnection
Named ==
    CASE scenario = "ack_ecn" ->
            If(~Seen("CE") /\ ~Seen("ACK_ECN"), 3)                         \* NonECN
            \cup If(Seen("CE") /\ ~Seen("ACK_ECN"), 4)                     \* NoACKECNReceived
            \cup If(~Seen("CE") /\ Seen("ACK_ECN"), 5)                     \* NonECNButACKECN
      [] scenario = "address_validation" ->
            If(Seen("failed"), 1)                                          \* TLSHandshakeFailed
            \cup If(total > 6, 3)                                          \* SentMoreThan3TimesAmount
      [] scenario = "zero_rtt" ->
            If(~Seen("ticket"), 2)                                         \* NoResumptionSecret
            \cup If(Seen("ticket") /\ Count("0RTT") <= Count("Retry"), 3)  \* ZeroRTTFailed
            \cup If(~Closed(0), 4)                                         \* DidntReceiveTheRequestedData
      [] scenario = "multi_stream" -> If(Open # {}, 3)                     \* NotAllStreamsWereClosed
      [] scenario = "new_connection_id" ->
            If(NewCIDs = {}, 2)                                            \* HostDidNotProvideCID
            \cup If(NewCIDs # {} /\ Min(NewCIDs) = Len(log), 3)            \* HostDidNotAnswerToNewCID
            \cup If(\E i \in DOMAIN log, j \in NewCIDs : i > j /\ log[i].k # "adapted", 4)
                                                                           \* HostDidNotAdaptCID
            \cup If(\E i \in NewCIDs : InvalidLength(log[i].n), 5)         \* HostSentInvalidCIDLength
      [] scenario = "retire_connection_id" ->
            If(NewCIDs = {}, 2)                                            \* HostDidNotProvideCID
            \cup If(Cardinality(NewCIDs) = 1, 3)                           \* HostDidNotProvideNewCID
            \cup If(\E i \in NewCIDs : InvalidLength(log[i].n), 4)         \* HostSentInvalidCIDLength
      [] scenario = "http_get_and_wait" ->
            GetErrors \cup If(Cardinality(GetErrors) > 1, 7)               \* MultipleErrors
            \cup If(params.MaxBidiStreams = 0, 8)                          \* TooLowStreamIdBidiToSendRequest
      [] scenario = "http_get_on_uni_stream" ->
            If(params.MaxUniStreams = 0, 2)                                \* TooLowStreamIdUniToSendRequest
            \cup If(\E e \in Those("STREAM") : e.n = 2, 3)                 \* ReceivedDataOnStream2
            \cup If(\E e \in Those("STREAM") : e.n > 3, 4)                 \* ReceivedDataOnUnauthorizedStream
            \cup If(params.MaxUniStreams = 0 /\ ~Seen("CLOSE"), 6)         \* DidNotCloseTheConnection
      [] scenario \in HTTP3Scenarii ->
            If(~Seen("response"), 2)                                       \* RequestTimeout
            \cup If(scenario = "http3_encoder_stream" /\ ~Seen("SETTINGS"), 4)
                                                                           \* SETTINGSNotSent
            \cup If(scenario = "http3_uni_streams_limits" /\ {3, 7} \subseteq DOMAIN streams, 4)
                                                                           \* StreamIDError

Judged ==
    HTTP3Scenarii \cup
    {"ack_ecn", "address_validation", "zero_rtt", "multi_stream", "new_connection_id", "retire_connection_id",
     "http_get_and_wait", "http_get_on_uni_stream"}

(* The codes that the code gives though their name is not true: any packet exceeds the
   amount of an Initial not seen yet (address_validation.go:82), data that reached the
   stream do not count before their packet is handled (zero_rtt.go:107), a close for
   another reason leaves the code as it is and one for a PROTOCOL_VIOLATION sets it
   whatever the limit was (http_get_on_uni_stream.go:63, where || comes after &&). *)
Misreported ==
    CASE scenario = "address_validation" ->
            {3 : i \in {j \in DOMAIN log : log[j].k = "DATAGRAM" /\ \A k \in 1..j : log[k].k # "Initial"}}
      [] scenario = "zero_rtt" -> If(chan.packets # <<>>, 4)
      [] scenario = "http_get_on_uni_stream" ->
            If(Seen("CLOSE"), 6) \cup {2 : e \in {f \in Those("CLOSE") : f.n = TransportErrors.PROTOCOL_VIOLATION}}
      [] OTHER -> {}

(* The codes that are true and that it passes over: the amount is forgiven when the
   handshake completes or while packets are unread (address_validation.go:97), stream 0
   may stay open (multi_stream.go:65), the invalid length of a CID is overwritten
   (new_connection_id.go:77, retire_connection_id.go:63-68), a late change of CID counts
   (new_connection_id.go:60), and a single error found at the end is not reported
   (http_get_and_wait.go:91). *)
Overlooked ==
    CASE scenario = "address_validation" -> If(Seen("completed") \/ chan.packets # <<>>, 3)
      [] scenario = "multi_stream" -> If(Open = {0}, 3)
      [] scenario = "new_connection_id" -> {5} \cup If(Last(log).k = "adapted", 4)
      [] scenario = "retire_connection_id" -> {4}
      [] scenario = "http_get_and_wait" -> {9}
      [] OTHER -> {}

(* The verdict of a scenario that ran its loop, "A scenario-specific error code that
   reports its verdict" (trace.go:21), is true: an error has the name of something that
   happened, and without an error nothing happened that has a name.  This holds whichever
   way the events of several channels interleaved (ack_ecn.go:51-71), whatever had reached
   the streams before its packet was handled, and whenever the timer fired, but for the
   codes of Misreported and Overlooked. *)
VerdictIsTrue ==
    (at = "returned" /\ why # "setup" /\ scenario \in Judged) =>
        IF code = 0 THEN Named \subseteq Overlooked ELSE code \in Named \cup Misreported
=============================================================================
