----------------------------- MODULE Handshake -----------------------------
(***************************************************************************)
(* The handshake of a connection, from the first datagram to the status    *)
(* that CompleteHandshake waits for: the SocketAgent, the ParsingAgent and *)
(* the BufferAgent (agents/socket_agent.go, parse_agent.go,                *)
(* buffer_agent.go), the CRYPTO streams, the TLSAgent and the              *)
(* HandshakeAgent (tls_agent.go, handshake_agent.go) and the parts of the  *)
(* Connection they share (connection.go).                                  *)
(*                                                                         *)
(* A packet is its type, the ClientHello it answers (whose secrets protect *)
(* it) and the handshake message it carries.  Each broadcaster with one    *)
(* reader is a queue; IncomingPackets is the sequence of packets submitted *)
(* so far and the place every reader has reached in it.  The server, the   *)
(* network and the TLS library are external.                               *)
(***************************************************************************)
EXTENDS TransportParameters, FiniteSets

CONSTANTS
    ServerKinds,   \* what a server may do besides answering a ClientHello:
                   \* sets of "VN", "Retry", "Close", "BadTLS", "Refuse" and,
                   \* for the layout of its datagrams, "Coalesce"
    ServerLists,   \* the transport parameters servers send
    Limits,        \* the parameters the scenario sets before the handshake
    Lag,           \* whether the broadcaster of a CRYPTO stream may serve the TLSAgent late:
                   \* addToRead only waits until another of its channels was served
    MaxHellos      \* how many Initial packets with a ClientHello are sent

VARIABLES
    net, server, hellos,                         \* the peer and the network
    conn, streams,                               \* Connection and its CryptoStreams
    incomingPayloads, parsing,                   \* ParsingAgent: its queue, the rest of its datagram
    unprocessed, levels, buffer,                 \* BufferAgent: its two channels and its maps
    cryptoWire, cryptoChan, announced, tlsAgent, \* TLSAgent: CRYPTO data, its map, its run and place
    tls, finished,                               \* the TLS stack, the client's Finished
    hs, tlsStatus, socketStatus,                 \* HandshakeAgent
    status, outcome,                             \* HandshakeStatus and the scenario's decision
    arrived, parsed                              \* packets received, packets submitted

path == <<incomingPayloads, parsing, unprocessed, levels, buffer>>
peer == <<net, server, hellos>>
tlsv == <<cryptoWire, cryptoChan, announced, tlsAgent, tls, finished>>
hsv == <<hs, tlsStatus, socketStatus, status, outcome>>
vars == <<peer, conn, streams, path, tlsv, hsv, arrived, parsed>>

Spaces == {"Initial", "Handshake"}
Nil == [nil |-> TRUE]
Packet(type, gen, msg) == [type |-> type, gen |-> gen, msg |-> msg]
Keyless == {"VN", "Retry"}
NeedsKey(p) == IF p.type \in Keyless THEN {} ELSE {p.type}

NewStreams == [s \in Spaces |-> [got |-> {}, ReadOffset |-> 0]]

(* GetInitialPacket: the ClientHello of the current TLS instance, with the parameters of the handler. *)
GetInitialPacket(c) == [gen |-> c.gen, dcid |-> c.DestinationCID, extension |-> GetExtensionData(c.TLSTPHandler)]

(* TransitionTo: a new TLS instance and parameter handler, no keys but the Initial ones, new streams. *)
TransitionTo(c) ==
    [c EXCEPT !.gen = @ + 1, !.TLSTPHandler = NewTLSTransportParameterHandler, !.ReceivedParameters = Nil, !.extension = <<>>,
              !.readable = {"Initial"}, !.has1RTT = FALSE]

Init ==
    /\ conn = [gen |-> 0, DestinationCID |-> "client", TLSTPHandler |-> Limits, ReceivedParameters |-> Nil,
               readable |-> {"Initial"}, has1RTT |-> FALSE, extension |-> <<>>]
    /\ hellos = <<>> /\ net = {}
    /\ \E may \in ServerKinds : server = [may |-> may, answered |-> 0, said |-> {}]
    /\ streams = NewStreams
    /\ incomingPayloads = <<>> /\ parsing = <<>> /\ unprocessed = <<>> /\ levels = <<>>
    /\ buffer = [payloads |-> <<>>, available |-> {}]
    /\ cryptoWire = [s \in Spaces |-> <<>>] /\ cryptoChan = [s \in Spaces |-> <<>>]
    /\ announced = {} /\ tlsAgent = [run |-> 0, at |-> 0]
    /\ tls = 0 /\ finished = "none"
    /\ hs = [running |-> TRUE, at |-> 0, started |-> FALSE, firstInitial |-> FALSE, receivedRetry |-> FALSE,
             tlsCompleted |-> FALSE, step |-> "select", tlsTP |-> Nil]
    /\ tlsStatus = <<>> /\ socketStatus = "open" /\ status = <<>> /\ outcome = "waiting"
    /\ arrived = {} /\ parsed = <<>>

-----------------------------------------------------------------------------
(* The server, external.  It answers the ClientHellos in order; one that validates addresses sends a *)
(* Retry for every ClientHello without a token.                                                      *)
Hello == hellos[server.answered + 1]
Validating == "Retry" \in server.may /\ Hello.dcid = "client"
Say(what, datagrams) ==
    /\ server.answered < Len(hellos)
    /\ net' = net \cup datagrams
    /\ server' = [server EXCEPT !.answered = @ + 1, !.said = @ \cup {<<what, Hello.gen>>}]
    /\ UNCHANGED <<hellos, conn, streams, path, tlsv, hsv, arrived, parsed>>

NegotiateVersion ==
    /\ "VN" \in server.may /\ server.answered = 0
    /\ \E msg \in {"known version", "unknown versions"} : Say("VN", {<<Packet("VN", 0, msg)>>})

Retry ==
    /\ server.answered < Len(hellos) /\ Validating
    /\ Say("Retry", {<<Packet("Retry", server.answered, Hello.dcid)>>})

Answer ==
    /\ server.answered < Len(hellos) /\ ~Validating
    /\ \E first \in {"SH"} \cup (server.may \cap {"BadTLS"}) :
        LET Msg(type, msg) == Packet(type, Hello.gen, msg)
        IN Say("flight",
               IF "Coalesce" \in server.may
               THEN {<<Msg("Initial", first), Msg("Handshake", "H1")>>, <<Msg("Handshake", "H2"), Msg("1RTT", "data")>>}
               ELSE {<<Msg("Initial", first)>>, <<Msg("Handshake", "H1"), Msg("Handshake", "H2")>>, <<Msg("1RTT", "data")>>})

CloseByPeer ==
    /\ "Close" \in server.may
    /\ Say("close", {<<Packet("Initial", Hello.gen, "close")>>})

(* SocketAgent: a datagram goes to IncomingPayloads; an error ends the reading and is submitted. *)
ReceiveDatagram ==
    /\ socketStatus = "open"
    /\ \E d \in net :
        /\ net' = net \ {d}
        /\ incomingPayloads' = Append(incomingPayloads, d)
        /\ arrived' = arrived \cup Range(d)
    /\ UNCHANGED <<server, hellos, conn, streams, parsing, unprocessed, levels, buffer, tlsv, hsv, parsed>>

SocketError ==
    /\ "Refuse" \in server.may /\ hellos # <<>> /\ server.answered = 0
    /\ socketStatus = "open" /\ socketStatus' = "refused"
    /\ UNCHANGED <<peer, conn, streams, path, tlsv, hs, tlsStatus, status, outcome, arrived, parsed>>

-----------------------------------------------------------------------------
(* ParsingAgent *)
TakePayload ==
    /\ parsing = <<>> /\ incomingPayloads # <<>>
    /\ parsing' = Head(incomingPayloads) /\ incomingPayloads' = Tail(incomingPayloads)
    /\ UNCHANGED <<peer, conn, streams, unprocessed, levels, buffer, tlsv, hsv, arrived, parsed>>

Submit(p) == parsed' = Append(parsed, p)

(* Version Negotiation and Retry packets are not protected and end the datagram. *)
ParseKeyless ==
    /\ parsing # <<>> /\ Head(parsing).type \in Keyless
    /\ Submit(Head(parsing)) /\ parsing' = <<>>
    /\ UNCHANGED <<peer, conn, streams, incomingPayloads, unprocessed, levels, buffer, tlsv, hsv, arrived>>

(* Without the keys of its level, the packet and what follows it in the datagram are put aside. *)
PutAside ==
    /\ parsing # <<>> /\ ~(NeedsKey(Head(parsing)) \subseteq conn.readable)
    /\ unprocessed' = Append(unprocessed, parsing) /\ parsing' = <<>>
    /\ UNCHANGED <<peer, conn, streams, incomingPayloads, levels, buffer, tlsv, hsv, arrived, parsed>>

(* A packet of an earlier ClientHello does not decrypt, and the rest of the datagram is dropped. *)
DropUndecryptable ==
    /\ parsing # <<>>
    /\ LET p == Head(parsing)
       IN p.type \notin Keyless /\ p.type \in conn.readable /\ p.gen # conn.gen
    /\ parsing' = <<>>
    /\ UNCHANGED <<peer, conn, streams, incomingPayloads, unprocessed, levels, buffer, tlsv, hsv, arrived, parsed>>

(* The CRYPTO frame of a packet, given to its stream: the messages that are now in order. *)
Messages(s) == IF s = "Initial" THEN <<{"SH", "BadTLS"}>> ELSE <<{"H1"}, {"H2"}>>
Place(s, msg) == {i \in DOMAIN Messages(s) : msg \in Messages(s)[i]}
InOrder(got) == CHOOSE n \in 0..Cardinality(got) : 1..n \subseteq got /\ n + 1 \notin got

ParsePacket ==
    /\ parsing # <<>>
    /\ LET p == Head(parsing)
           s == IF p.type \in Spaces THEN p.type ELSE "Initial"
           got == streams[s].got \cup IF p.type \in Spaces THEN Place(s, p.msg) ELSE {}
           chunk == [i \in 1..(InOrder(got) - streams[s].ReadOffset) |-> IF p.msg = "BadTLS" THEN "BadTLS" ELSE "ok"]
       IN /\ p.type \in conn.readable /\ p.gen = conn.gen
          /\ streams' = [streams EXCEPT ![s] = [got |-> got, ReadOffset |-> InOrder(got)]]
          /\ IF tlsAgent.run # conn.gen \/ chunk = <<>>
             THEN UNCHANGED <<cryptoWire, cryptoChan>>   \* nobody is registered with the stream
             ELSE IF Lag THEN cryptoWire' = [cryptoWire EXCEPT ![s] = @ \o chunk] /\ UNCHANGED cryptoChan
             ELSE cryptoChan' = [cryptoChan EXCEPT ![s] = @ \o chunk] /\ UNCHANGED cryptoWire
          /\ Submit(p)
          /\ parsing' = IF p.type = "1RTT" THEN <<>> ELSE Tail(parsing)
    /\ UNCHANGED <<peer, conn, incomingPayloads, unprocessed, levels, buffer, announced, tlsAgent, tls, finished, hsv,
                   arrived>>

(* The broadcaster of a stream forwards what it was given. *)
ForwardCrypto ==
    /\ \E s \in Spaces :
        /\ cryptoWire[s] # <<>>
        /\ cryptoChan' = [cryptoChan EXCEPT ![s] = @ \o cryptoWire[s]]
        /\ cryptoWire' = [cryptoWire EXCEPT ![s] = <<>>]
    /\ UNCHANGED <<peer, conn, streams, path, announced, tlsAgent, tls, finished, hsv, arrived, parsed>>

-----------------------------------------------------------------------------
(* BufferAgent *)
LevelOf(payload) == Head(payload).type

(* Mutant: payloads are always kept, also when their level has been announced before they come. *)
KeepAlways ==
    /\ unprocessed # <<>> /\ unprocessed' = Tail(unprocessed)
    /\ buffer' = [buffer EXCEPT !.payloads = Append(@, Head(unprocessed))]
    /\ UNCHANGED <<peer, conn, streams, incomingPayloads, parsing, levels, tlsv, hsv, arrived, parsed>>

BufferPayload ==
    /\ unprocessed # <<>> /\ unprocessed' = Tail(unprocessed)
    /\ LET u == Head(unprocessed)
       IN IF LevelOf(u) \in buffer.available
          THEN incomingPayloads' = Append(incomingPayloads, u) /\ UNCHANGED buffer
          ELSE buffer' = [buffer EXCEPT !.payloads = Append(@, u)] /\ UNCHANGED incomingPayloads
    /\ UNCHANGED <<peer, conn, streams, parsing, levels, tlsv, hsv, arrived, parsed>>

(* Mutant: the direction of the level is not looked at. *)
PutBackInBothDirections ==
    /\ levels # <<>> /\ levels' = Tail(levels)
    /\ LET eL == Head(levels).level
       IN /\ buffer' = [buffer EXCEPT !.available = @ \cup {eL}]
          /\ incomingPayloads' = incomingPayloads \o SelectSeq(buffer.payloads, LAMBDA u : LevelOf(u) = eL)
    /\ UNCHANGED <<peer, conn, streams, parsing, unprocessed, tlsv, hsv, arrived, parsed>>

(* The payloads put back stay in the map. *)
LevelAvailable ==
    /\ levels # <<>> /\ levels' = Tail(levels)
    /\ LET eL == Head(levels).level
       IN IF Head(levels).read
          THEN /\ buffer' = [buffer EXCEPT !.available = @ \cup {eL}]
               /\ incomingPayloads' = incomingPayloads \o SelectSeq(buffer.payloads, LAMBDA u : LevelOf(u) = eL)
          ELSE UNCHANGED <<buffer, incomingPayloads>>
    /\ UNCHANGED <<peer, conn, streams, parsing, unprocessed, tlsv, hsv, arrived, parsed>>

-----------------------------------------------------------------------------
(* TLSAgent *)

(* The TLS stack, external: the messages processed, whether Finished comes out, and the two results. *)
HandleMessage(data) ==
    IF "BadTLS" \in Range(data)
    THEN [tls : {tls}, finished : {FALSE}, notCompleted : BOOLEAN, err : {TRUE}]
    ELSE {[tls |-> tls + Len(data), finished |-> tls + Len(data) = 3, notCompleted |-> tls + Len(data) < 3, err |-> FALSE]}
HasSecrets(n, level) == IF level = "Handshake" THEN n >= 1 ELSE n = 3

(* A packet makes the agent drain its channel of that space, and handle what it finds there. *)
TLSPacket ==
    /\ tlsAgent.at < Len(parsed)
    /\ tlsAgent' = [tlsAgent EXCEPT !.at = @ + 1]
    /\ LET p == parsed[tlsAgent.at + 1]
           data == IF p.type \in Spaces THEN cryptoChan[p.type] ELSE <<>>
       IN IF data = <<>>
          THEN UNCHANGED <<conn, cryptoChan, announced, tls, finished, tlsStatus, levels>>
          ELSE \E r \in HandleMessage(data), list \in ServerLists :
              LET done == ~r.notCompleted /\ ~conn.has1RTT
                  received == IF r.err THEN [err |-> TRUE, received |-> conn.ReceivedParameters]
                              ELSE ReceiveExtensionData(conn.ReceivedParameters, list)
                  installed == conn.readable \cup (IF HasSecrets(r.tls, "Handshake") THEN {"Handshake"} ELSE {})
                                             \cup (IF done /\ HasSecrets(r.tls, "1RTT") THEN {"1RTT"} ELSE {})
                  new == SelectSeq(<<"Handshake", "1RTT">>, LAMBDA l : l \in installed \ announced)
              IN /\ tls' = r.tls
                 /\ cryptoChan' = [cryptoChan EXCEPT ![p.type] = <<>>]
                 /\ done \/ list = CHOOSE l \in ServerLists : TRUE
                 /\ conn' = [conn EXCEPT !.readable = installed, !.has1RTT = @ \/ done,
                                         !.extension = IF done /\ ~r.err THEN list ELSE @,
                                         !.ReceivedParameters = IF done THEN received.received ELSE @]
                 /\ finished' = IF r.finished THEN "queued" ELSE finished
                 /\ tlsStatus' = tlsStatus \o (IF r.err THEN <<[Completed |-> FALSE, Error |-> TRUE]>> ELSE <<>>)
                                           \o (IF done THEN <<[Completed |-> TRUE, Error |-> received.err]>> ELSE <<>>)
                 /\ announced' = announced \cup Range(new)
                 /\ levels' = levels \o FlattenSeq([i \in DOMAIN new |->
                                 <<[level |-> new[i], read |-> FALSE], [level |-> new[i], read |-> TRUE]>>])
    /\ UNCHANGED <<peer, streams, incomingPayloads, parsing, unprocessed, buffer, cryptoWire, hs, socketStatus, status,
                   outcome, arrived, parsed>>

(* The SendingAgent sends the client's Finished, which goes to OutgoingPackets. *)
SendFinished ==
    /\ finished = "queued" /\ finished' = "sent"
    /\ UNCHANGED <<peer, conn, streams, path, cryptoWire, cryptoChan, announced, tlsAgent, tls, hsv, arrived, parsed>>

-----------------------------------------------------------------------------
(* HandshakeAgent.  `step' is where it is in a case of its select that takes several steps. *)
AtSelect == hs.running /\ hs.step = "select"

Publish(completed, error) == status' = Append(status, [Completed |-> completed, Error |-> error])

SendInitial ==
    /\ AtSelect /\ ~hs.started
    /\ hs' = [hs EXCEPT !.started = TRUE]
    /\ hellos' = Append(hellos, GetInitialPacket(conn))
    /\ UNCHANGED <<net, server, conn, streams, path, tlsv, tlsStatus, socketStatus, status, outcome, arrived, parsed>>

(* The RecoveryAgent sends an unacknowledged ClientHello again; only a server that validates        *)
(* addresses answers the copy.                                                                       *)
RetransmitInitial ==
    /\ hellos # <<>> /\ Len(hellos) < MaxHellos
    /\ "Retry" \in server.may /\ Last(hellos).dcid = "client"
    /\ hellos' = Append(hellos, Last(hellos))
    /\ UNCHANGED <<net, server, conn, streams, path, tlsv, hsv, arrived, parsed>>

Next1 == parsed[hs.at + 1]
HasPacket(types) == AtSelect /\ hs.at < Len(parsed) /\ Next1.type \in types

(* Only the version this client knows is acceptable; the TLSAgent is not restarted. *)
ProcessVersionNegotiation ==
    /\ HasPacket({"VN"})
    /\ IF Next1.msg = "unknown versions"
       THEN /\ Publish(FALSE, TRUE) /\ hs' = [hs EXCEPT !.at = @ + 1, !.running = FALSE]
            /\ UNCHANGED <<conn, streams, tls, finished>>
       ELSE /\ conn' = TransitionTo(conn) /\ streams' = NewStreams /\ tls' = 0 /\ finished' = "none"
            /\ hs' = [hs EXCEPT !.at = @ + 1, !.step = "send"] /\ UNCHANGED status
    /\ UNCHANGED <<peer, path, cryptoWire, cryptoChan, announced, tlsAgent, tlsStatus, socketStatus, outcome,
                   arrived, parsed>>

(* The first Retry that names the current destination CID restarts the handshake.  The        *)
(* other agents run on between the steps: the connection first has default parameters, then   *)
(* those of the scenario, while the TLSAgent still reads the old streams.                     *)
ProcessRetry ==
    /\ HasPacket({"Retry"})
    /\ IF conn.DestinationCID = Next1.msg /\ ~hs.receivedRetry
       THEN /\ conn' = [TransitionTo(conn) EXCEPT !.DestinationCID = "retry"]
            /\ hs' = [hs EXCEPT !.at = @ + 1, !.receivedRetry = TRUE, !.step = "restore",
                                !.tlsTP = [TLSTPHandler |-> conn.TLSTPHandler, extension |-> conn.extension,
                                           ReceivedParameters |-> conn.ReceivedParameters]]
            /\ streams' = NewStreams /\ tls' = 0 /\ finished' = "none"
       ELSE hs' = [hs EXCEPT !.at = @ + 1] /\ UNCHANGED <<conn, streams, tls, finished>>
    /\ UNCHANGED <<peer, path, cryptoWire, cryptoChan, announced, tlsAgent, tlsStatus, socketStatus, status, outcome,
                   arrived, parsed>>

(* Mutant: the parameter handler that TransitionTo made is used. *)
KeepDefaults ==
    /\ hs.running /\ hs.step = "restore"
    /\ hs' = [hs EXCEPT !.step = "restart", !.tlsTP = Nil]
    /\ UNCHANGED <<peer, conn, streams, path, tlsv, tlsStatus, socketStatus, status, outcome, arrived, parsed>>

RestoreParameters ==
    /\ hs.running /\ hs.step = "restore"
    /\ hs' = [hs EXCEPT !.step = "restart", !.tlsTP = Nil]
    /\ conn' = [conn EXCEPT !.TLSTPHandler = hs.tlsTP.TLSTPHandler, !.extension = hs.tlsTP.extension,
                            !.ReceivedParameters = hs.tlsTP.ReceivedParameters]
    /\ UNCHANGED <<peer, streams, path, tlsv, tlsStatus, socketStatus, status, outcome, arrived, parsed>>

(* Stop, Join and Run: the TLSAgent's new channel gets what its broadcaster has not forwarded yet. *)
RestartTLSAgent ==
    /\ hs.running /\ hs.step = "restart"
    /\ hs' = [hs EXCEPT !.step = "send"]
    /\ announced' = {}
    /\ cryptoWire' = [s \in Spaces |-> <<>>] /\ cryptoChan' = [s \in Spaces |-> <<>>]
    /\ \E at \in tlsAgent.at..Len(parsed) : tlsAgent' = [run |-> conn.gen, at |-> at]
    /\ UNCHANGED <<peer, conn, streams, path, tls, finished, tlsStatus, socketStatus, status, outcome, arrived, parsed>>

SendNextInitial ==
    /\ hs.running /\ hs.step = "send"
    /\ hs' = [hs EXCEPT !.step = "select"]
    /\ hellos' = Append(hellos, GetInitialPacket(conn))
    /\ UNCHANGED <<net, server, conn, streams, path, tlsv, tlsStatus, socketStatus, status, outcome, arrived, parsed>>

(* A packet with frames: a close ends the handshake, the first Initial gives the destination CID. *)
ProcessFramer ==
    /\ HasPacket({"Initial", "Handshake", "1RTT"})
    /\ IF Next1.msg = "close"
       THEN Publish(FALSE, TRUE) /\ hs' = [hs EXCEPT !.at = @ + 1, !.running = FALSE] /\ UNCHANGED conn
       ELSE /\ hs' = [hs EXCEPT !.at = @ + 1, !.firstInitial = @ \/ Next1.type = "Initial"]
            /\ conn' = IF Next1.type = "Initial" /\ ~hs.firstInitial THEN [conn EXCEPT !.DestinationCID = "server"] ELSE conn
            /\ UNCHANGED status
    /\ UNCHANGED <<peer, streams, path, tlsv, tlsStatus, socketStatus, outcome, arrived, parsed>>

(* Mutant: the outgoing Finished counts whatever the TLS stack has reported. *)
AnyFinished ==
    /\ AtSelect /\ finished = "sent" /\ finished' = "seen"
    /\ Publish(TRUE, FALSE) /\ hs' = [hs EXCEPT !.running = FALSE]
    /\ UNCHANGED <<peer, conn, streams, path, cryptoWire, cryptoChan, announced, tlsAgent, tls, tlsStatus, socketStatus,
                   outcome, arrived, parsed>>

(* The outgoing Finished completes the handshake if the TLS status has been taken before it. *)
OutgoingFinished ==
    /\ AtSelect /\ finished = "sent" /\ finished' = "seen"
    /\ IF hs.tlsCompleted
       THEN Publish(TRUE, FALSE) /\ hs' = [hs EXCEPT !.running = FALSE]
       ELSE UNCHANGED <<hs, status>>
    /\ UNCHANGED <<peer, conn, streams, path, cryptoWire, cryptoChan, announced, tlsAgent, tls, tlsStatus, socketStatus,
                   outcome, arrived, parsed>>

(* An error of the TLS stack is published, and the agent goes on. *)
TakeTLSStatus ==
    /\ AtSelect /\ tlsStatus # <<>> /\ tlsStatus' = Tail(tlsStatus)
    /\ LET s == Head(tlsStatus)
       IN /\ IF s.Error THEN Publish(s.Completed, TRUE) ELSE UNCHANGED status
          /\ hs' = [hs EXCEPT !.tlsCompleted = s.Completed]
    /\ UNCHANGED <<peer, conn, streams, path, tlsv, socketStatus, outcome, arrived, parsed>>

TakeSocketStatus ==
    /\ AtSelect /\ socketStatus = "refused" /\ socketStatus' = "taken"
    /\ Publish(FALSE, TRUE)
    /\ UNCHANGED <<peer, conn, streams, path, tlsv, hs, tlsStatus, outcome, arrived, parsed>>

(* CompleteHandshake takes the first status, or its timer.  Unless the status says completed, all   *)
(* agents are stopped, and what they hold is gone.                                                   *)
CompleteHandshake ==
    /\ outcome = "waiting"
    /\ \/ status # <<>> /\ outcome' = IF Head(status).Completed THEN "completed" ELSE "failed"
       \/ hs.started /\ outcome' = "timeout"
    /\ IF outcome' = "completed"
       THEN UNCHANGED <<net, path, tlsv, hs, tlsStatus, socketStatus>>
       ELSE /\ net' = {} /\ incomingPayloads' = <<>> /\ parsing' = <<>> /\ unprocessed' = <<>> /\ levels' = <<>>
            /\ buffer' = [payloads |-> <<>>, available |-> {}]
            /\ cryptoWire' = [s \in Spaces |-> <<>>] /\ cryptoChan' = [s \in Spaces |-> <<>>]
            /\ announced' = {} /\ tlsAgent' = [tlsAgent EXCEPT !.at = Len(parsed)]
            /\ hs' = [hs EXCEPT !.running = FALSE, !.at = Len(parsed)]
            /\ tlsStatus' = <<>> /\ socketStatus' = "taken" /\ UNCHANGED <<tls, finished>>
    /\ UNCHANGED <<server, hellos, conn, streams, status, arrived, parsed>>

Running == outcome \in {"waiting", "completed"}

Peer == NegotiateVersion \/ Retry \/ Answer \/ CloseByPeer \/ SocketError
Parser == TakePayload \/ ParseKeyless \/ PutAside \/ DropUndecryptable \/ ParsePacket
HandshakeAgent ==
    SendInitial \/ ProcessVersionNegotiation \/ ProcessRetry \/ RestoreParameters \/ RestartTLSAgent
    \/ SendNextInitial \/ ProcessFramer \/ OutgoingFinished \/ TakeTLSStatus
    \/ TakeSocketStatus

Next ==
    /\ Running
    /\ \/ Peer \/ ReceiveDatagram \/ Parser \/ ForwardCrypto \/ BufferPayload \/ LevelAvailable \/ TLSPacket
       \/ SendFinished \/ RetransmitInitial \/ HandshakeAgent \/ CompleteHandshake

(* Every goroutine is scheduled, datagrams arrive, and the server answers. *)
Spec ==
    /\ Init /\ [][Next]_vars
    /\ WF_vars(Running /\ Answer) /\ WF_vars(Running /\ ReceiveDatagram) /\ WF_vars(Running /\ Parser)
    /\ WF_vars(Running /\ ForwardCrypto) /\ WF_vars(Running /\ BufferPayload) /\ WF_vars(Running /\ LevelAvailable)
    /\ WF_vars(Running /\ TLSPacket) /\ WF_vars(Running /\ SendFinished) /\ WF_vars(Running /\ HandshakeAgent)

-----------------------------------------------------------------------------
Delivery == INSTANCE PacketDelivery WITH readable <- conn.readable

(* The receive path implements PacketDelivery: however a datagram is split between the ParsingAgent *)
(* and the BufferAgent (parse_agent.go:67-70, buffer_agent.go:27-45), none of its packets is        *)
(* submitted twice, invented, or submitted before its keys are there.                               *)
PacketsDelivered == Delivery!Spec

Waiting == {p \in arrived \ Range(parsed) : NeedsKey(p) \subseteq conn.readable /\ (p.type \in Keyless \/ p.gen = conn.gen)}

(* No packet whose keys are installed stays in the buffer, although the keys may be announced       *)
(* before, while or after the packet travels to the BufferAgent (buffer_agent.go:29, 38).           *)
ReadablePacketsParsed == []<>(Waiting = {} \/ ~Running)

(* A handshake that CompleteHandshake takes for completed (scenario.go:69) without an error has     *)
(* 1-RTT keys, the client's Finished has left and the server's parameters are there.                *)
CompletedIsEstablished ==
    outcome = "completed" =>
        \/ Head(status).Error
        \/ "1RTT" \in conn.readable /\ finished = "seen" /\ conn.ReceivedParameters # Nil

(* Every ClientHello announces the limits the scenario has set, the one after a Retry too           *)
(* (handshake_agent.go:79-81); only Version Negotiation goes back to the defaults.                  *)
HellosAnnounceLimits ==
    <<"VN", 0>> \notin server.said =>
        \A i \in DOMAIN hellos : ReceiveExtensionData(Nil, hellos[i].extension).received.integers[9] = Limits.MaxUniStreams

LastOf(list, t) == LET is == {i \in DOMAIN list : list[i].ParameterType = t}
                   IN IF is = {} THEN 0 ELSE ReadVarIntValue(list[CHOOSE i \in is : \A j \in is : j <= i].Value).value

(* The parameters are taken as a whole: when the handshake completes, nothing changes if a number   *)
(* anywhere in the list cannot be read, although the loop has read those before it, and otherwise   *)
(* every number is the one the server sent last (transport_parameters.go:145-198).                  *)
ParametersAllOrNothing ==
    [][tls # 3 /\ tls' = 3 =>
        LET list == conn'.extension
        IN IF \E i \in DOMAIN list : list[i].ParameterType \in IntegerParameters /\ Truncated(list[i].Value)
           THEN conn'.ReceivedParameters = conn.ReceivedParameters
           ELSE \A t \in IntegerParameters : conn'.ReceivedParameters.integers[t] = LastOf(list, t)]_vars
=============================================================================
