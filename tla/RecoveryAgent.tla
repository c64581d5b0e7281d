--------------------------- MODULE RecoveryAgent ---------------------------
(***************************************************************************)
(* The RecoveryAgent (agents/recovery_agent.go) keeps the frames of every  *)
(* packet sent until the packet is acknowledged, and queues them again     *)
(* when the packet has been outstanding for too long.                      *)
(*                                                                         *)
(* Each case of its select is an action.  The agent reads sent packets,    *)
(* received packets and announcements of levels from three channels, and   *)
(* may see an event of one before an earlier event of another.  Received   *)
(* packets are a set, since the network orders nothing.  Time is           *)
(* abstracted: a tick finds any of the packets expired.                    *)
(*                                                                         *)
(* Around it are the actors that fill the channels: the HandshakeAgent     *)
(* with the ClientHello, the SendingAgent, the TLSAgent, and a server that *)
(* acknowledges what reaches it over a network that loses packets.         *)
(***************************************************************************)
EXTENDS AckFrames

CONSTANTS
    ClientHello,  \* the CRYPTO frame and the padding of the first Initial packet
    LongHellos,   \* which ClientHellos make a packet of more than 200 frames
    Workloads,    \* the sets of other retransmittable frames that the client may have to send
    FrameLevel,   \* the encryption level of each of them
    threshold,    \* how far ProcessAck follows a block or a gap
    AckRanges,    \* how many blocks the server puts in an ACK frame
    AckLevels,    \* bound: the levels at which the client sends packets of ACK frames only
    MaxPN,        \* bound: the largest packet number
    MaxAttempts,  \* bound: how often the ClientHello is made
    MaxIncoming,  \* bound: the received packets waiting for the agent
    MaxOutgoing   \* bound: the sent packets waiting for the agent

PNSpaces == {"InitialSpace", "HandshakeSpace", "AppDataSpace"}

Frames == UNION Workloads

ASSUME RecoveryAssumption ==
    /\ LongHellos \subseteq Nat
    /\ FrameLevel \in [Frames -> {"0RTT", "Handshake", "1RTT"}]
    /\ {threshold, AckRanges, MaxPN, MaxAttempts, MaxIncoming, MaxOutgoing} \subseteq Nat

VARIABLES
    retransmissionBuffer,    \* the packets whose frames the agent keeps
    LargestPNsAcknowledged,  \* Connection.LargestPNsAcknowledged
    outgoing,                \* OutgoingPackets: sent packets the agent has not seen
    incoming,                \* IncomingPackets: received packets it has not seen
    eLAvailable,             \* the announcements of 1-RTT it has not seen
    frameQueue,              \* the frames queued for the SendingAgent
    PacketNumber,            \* Connection.PacketNumber
    available,               \* the levels the SendingAgent can send at
    pendingInitial,          \* whether the HandshakeAgent is to send a ClientHello
    attempts,                \* the ClientHellos it has made
    responded,               \* whether the server has answered the last ClientHello
    arrived,                 \* per space, the numbers the server has received
    workload,                \* history: the frames that the client had to send
    delivered,               \* history: the frames the server has received
    forgotten                \* history: the spaces whose buffers were emptied, "batch" when a
                             \* batch was left early, "late" when the server started again after
                             \* it had answered, and "stale" when an ACK outlived a reset

vars == <<retransmissionBuffer, LargestPNsAcknowledged, outgoing, incoming, eLAvailable,
          frameQueue, PacketNumber, available, pendingInitial, attempts, responded, arrived,
          workload, delivered, forgotten>>

agentVars == <<retransmissionBuffer, LargestPNsAcknowledged, forgotten>>
networkVars == <<arrived, delivered>>
handshakeVars == <<available, pendingInitial, attempts, responded, workload>>

PNSpace(level) ==
    CASE level = "Initial" -> "InitialSpace"
      [] level = "Handshake" -> "HandshakeSpace"
      [] OTHER -> "AppDataSpace"

(* The n-th ClientHello, in a packet of one byte of padding per frame. *)
Hello(n) == <<ClientHello, n>>

Level(f) == IF f \in Frames THEN FrameLevel[f] ELSE "Initial"

Packet(level, frames) ==
    [level |-> level, pn |-> PacketNumber[PNSpace(level)], frames |-> frames]

InSpace(packets, space) == {p \in packets : PNSpace(p.level) = space}

FramesOf(packets) == UNION {p.frames : p \in packets}

Init ==
    /\ retransmissionBuffer = {} /\ LargestPNsAcknowledged = [s \in PNSpaces |-> 0]
    /\ outgoing = <<>> /\ incoming = {} /\ eLAvailable = 0
    /\ workload \in Workloads /\ frameQueue = workload
    /\ PacketNumber = [s \in PNSpaces |-> 0]
    /\ available = {"Initial"} /\ pendingInitial = TRUE /\ attempts = 0
    /\ responded = FALSE /\ arrived = [s \in PNSpaces |-> {}]
    /\ delivered = {} /\ forgotten = {}
-----------------------------------------------------------------------------
(* Connection.SendPacket: to OutgoingPackets and to the network, where the packet is
   lost or arrives.  Until the server gets the next ClientHello, it drops what comes
   after its Retry.  When it answers is left open, so packets need no time to arrive. *)
SendPacket(packet) ==
    /\ packet.pn <= MaxPN /\ Len(outgoing) < MaxOutgoing
    /\ outgoing' = Append(outgoing, packet)
    /\ \/ UNCHANGED networkVars
       \/ /\ pendingInitial => Hello(attempts + 1) \in packet.frames
          /\ arrived' = [arrived EXCEPT ![PNSpace(packet.level)] = @ \cup {packet.pn}]
          /\ delivered' = delivered \cup packet.frames

nextPacketNumber(level) ==
    PacketNumber' = [PacketNumber EXCEPT ![PNSpace(level)] = @ + 1]

(* "Simple heuristic to detect first Initial packet": padding counts as frames.  The
   other half of the condition never holds, no Initial packet begins with a STREAM
   frame. *)
LooksFirst(packet) == \E n \in LongHellos : Hello(n) \in packet.frames

(* Frames are queued again at their level, packet by packet.  At a packet that looks
   like the first, which is sent as it is, the loop returns.  Packets come in the order
   of two nested maps: the spaces in any order, and in any order within a space. *)
RetransmitBatch(batch) ==
    LET first == {p \in batch : LooksFirst(p)}
    IN  \/ /\ first = {}
           /\ frameQueue' = frameQueue \cup FramesOf(batch)
           /\ UNCHANGED <<outgoing, PacketNumber>> /\ UNCHANGED networkVars
        \/ \E packet \in first, before \in SUBSET (InSpace(batch, "InitialSpace") \ first),
              spaces \in SUBSET (PNSpaces \ {"InitialSpace"}) :
            /\ frameQueue' = frameQueue \cup FramesOf(before) \cup
                             FramesOf({p \in batch : PNSpace(p.level) \in spaces})
            /\ SendPacket(Packet("Initial", packet.frames))
            /\ nextPacketNumber("Initial")

(* The ticker finds some packets expired. *)
RetransmissionTick(expired) ==
    /\ expired # {}
    /\ retransmissionBuffer' = retransmissionBuffer \ expired
    /\ RetransmitBatch(expired)
    /\ forgotten' = forgotten \cup {"batch" : p \in {q \in expired : LooksFirst(q)}}
    /\ UNCHANGED <<LargestPNsAcknowledged, incoming, eLAvailable>> /\ UNCHANGED handshakeVars

(* The walk of ProcessAck down the packet numbers: what is left of the buffer, and
   the batch it returns.  A step over a gap looks a packet up, then goes down to the
   next number and deletes it, as a step within a block does. *)
ProcessAck(ack, space, buffer) ==
    LET Steps(kind, n) == [i \in 1..Min({n, threshold}) |-> kind]
        BlockSteps(i) == IF i = 1
                           THEN Steps("block", ack.blocks[1].block)
                           ELSE Steps("gap", ack.blocks[i].gap + 1) \o
                                Steps("block", ack.blocks[i].block)
        Numbered(walk, n) == {p \in InSpace(walk.buffer, space) : p.pn = n}
        Step(walk, kind) ==
            LET n == uint64(walk.current - 1)
            IN  [current |-> n,
                 buffer |-> walk.buffer \ Numbered(walk, n),
                 batch |-> IF kind = "gap" THEN walk.batch \cup Numbered(walk, walk.current)
                                           ELSE walk.batch]
        start == [current |-> ack.largest, batch |-> {},
                  buffer |-> {p \in buffer : PNSpace(p.level) = space => p.pn # ack.largest}]
    IN  FoldLeft(Step, start, FlattenSeq([i \in DOMAIN ack.blocks |-> BlockSteps(i)]))

(* Mutant: one largest number for all spaces. *)
HandleAckAnySpace(packet) ==
    LET ack == packet.ack
        walk == ProcessAck(ack, packet.space, retransmissionBuffer)
    IN  /\ LargestPNsAcknowledged' = [s \in PNSpaces |-> Max({LargestPNsAcknowledged[s], ack.largest})]
        /\ retransmissionBuffer' = walk.buffer
        /\ RetransmitBatch(walk.batch)
        /\ forgotten' = IF packet.era = attempts THEN forgotten ELSE forgotten \cup {"stale"}

HandleAck(packet) ==
    LET ack == packet.ack
        walk == ProcessAck(ack, packet.space, retransmissionBuffer)
    IN  /\ LargestPNsAcknowledged' = [LargestPNsAcknowledged EXCEPT ![packet.space] = Max({@, ack.largest})]
        /\ retransmissionBuffer' = walk.buffer
        /\ RetransmitBatch(walk.batch)
        /\ forgotten' = IF packet.era = attempts THEN forgotten ELSE forgotten \cup {"stale"}

(* Mutant: empties the buffers of all spaces. *)
EmptyBuffersAll(spaces) ==
    /\ retransmissionBuffer' = {}
    /\ forgotten' = forgotten \cup spaces

(* The buffers of some spaces are replaced by empty ones. *)
EmptyBuffers(spaces) ==
    /\ retransmissionBuffer' = {p \in retransmissionBuffer : PNSpace(p.level) \notin spaces}
    /\ forgotten' = forgotten \cup spaces

(* A received packet: with an ACK frame, an Initial one without, or a Retry or
   Version Negotiation packet. *)
HandleIncoming(packet) ==
    /\ incoming' = incoming \ {packet}
    /\ \/ /\ packet.type = "ACK"
          /\ HandleAck(packet)
       \/ /\ packet.type \in {"Initial", "Restart"}
          /\ EmptyBuffers({"InitialSpace"})
          /\ UNCHANGED <<LargestPNsAcknowledged, outgoing, frameQueue, PacketNumber>>
          /\ UNCHANGED networkVars
    /\ UNCHANGED eLAvailable /\ UNCHANGED handshakeVars

(* A sent packet replaces the one of the same number. *)
HandleOutgoing ==
    /\ outgoing # <<>>
    /\ outgoing' = Tail(outgoing)
    /\ LET packet == Head(outgoing)
           others == {p \in retransmissionBuffer :
                        PNSpace(p.level) = PNSpace(packet.level) => p.pn # packet.pn}
       IN  retransmissionBuffer' = IF packet.frames = {} THEN retransmissionBuffer
                                                         ELSE others \cup {packet}
    /\ UNCHANGED <<LargestPNsAcknowledged, forgotten, incoming, eLAvailable, frameQueue,
                   PacketNumber>>
    /\ UNCHANGED networkVars /\ UNCHANGED handshakeVars

(* 1-RTT is available, for reading or for writing. *)
HandleOneRTTAvailable ==
    /\ eLAvailable > 0
    /\ eLAvailable' = eLAvailable - 1
    /\ EmptyBuffers({"InitialSpace", "HandshakeSpace"})
    /\ UNCHANGED <<LargestPNsAcknowledged, outgoing, incoming, frameQueue, PacketNumber>>
    /\ UNCHANGED networkVars /\ UNCHANGED handshakeVars
-----------------------------------------------------------------------------
(* The SendingAgent puts queued frames in a packet; one without is an ACK. *)
SendFrames(level, frames) ==
    /\ level \in available
    /\ frames = {} => level \in AckLevels
    /\ \A f \in frames : Level(f) = level
    /\ frameQueue' = frameQueue \ frames
    /\ SendPacket(Packet(level, frames))
    /\ nextPacketNumber(level)
    /\ UNCHANGED <<incoming, eLAvailable>> /\ UNCHANGED agentVars /\ UNCHANGED handshakeVars

(* The HandshakeAgent sends a ClientHello, the first or, after TransitionTo has reset
   the connection and wiped the keys, another.  The client has a resumption ticket. *)
SendInitial ==
    /\ pendingInitial
    /\ pendingInitial' = FALSE
    /\ attempts' = attempts + 1
    /\ available' = {"Initial", "0RTT"}
    /\ PacketNumber' = [s \in PNSpaces |-> IF s = "InitialSpace" THEN 1 ELSE
                                           IF attempts = 0 THEN PacketNumber[s] ELSE 0]
    /\ LargestPNsAcknowledged' = [s \in PNSpaces |-> 0]
    /\ SendPacket([level |-> "Initial", pn |-> 0, frames |-> {Hello(attempts + 1)}])
    /\ UNCHANGED <<retransmissionBuffer, forgotten, incoming, eLAvailable, frameQueue, responded,
                   workload>>

(* The server's first flight brings the Handshake keys, and later 1-RTT ones, which
   the TLSAgent announces once for reading and once for writing. *)
ReceiveKeys(level) ==
    /\ Hello(attempts) \in delivered /\ ~pendingInitial
    /\ \/ level = "Handshake"
       \/ level = "1RTT" /\ "Handshake" \in available
    /\ level \notin available
    /\ available' = available \cup {level}
    /\ eLAvailable' = IF level = "1RTT" THEN eLAvailable + 2 ELSE eLAvailable
    /\ UNCHANGED <<outgoing, incoming, frameQueue, PacketNumber, pendingInitial, attempts,
                   workload>>
    /\ responded' = TRUE
    /\ UNCHANGED agentVars /\ UNCHANGED networkVars

Receive(packet) ==
    /\ Cardinality(incoming) < MaxIncoming
    /\ incoming' = incoming \cup {packet}
    /\ UNCHANGED <<retransmissionBuffer, LargestPNsAcknowledged, outgoing, eLAvailable,
                   frameQueue, PacketNumber>>

(* An ACK frame of the server arrives, of all that it has received or of the highest
   AckRanges blocks. *)
ReceiveAck(space) ==
    /\ arrived[space] # {} /\ ~pendingInitial
    /\ space = "AppDataSpace" => "1RTT" \in available
    /\ responded' = TRUE
    /\ LET ack == GetAckFrame(SetToSeq(arrived[space]))
           blocks == SubSeq(ack.blocks, 1, Min({AckRanges, Len(ack.blocks)}))
       IN  Receive([type |-> "ACK", space |-> space, era |-> attempts,
                    ack |-> Frame(ack.largest, blocks)])
    /\ UNCHANGED <<available, pendingInitial, attempts, workload, forgotten>> /\ UNCHANGED networkVars

(* An Initial packet without an ACK frame arrives. *)
ReceiveInitial ==
    /\ Hello(attempts) \in delivered /\ ~pendingInitial
    /\ Receive([type |-> "Initial"])
    /\ responded' = TRUE
    /\ UNCHANGED <<available, pendingInitial, attempts, workload, forgotten>> /\ UNCHANGED networkVars

(* A Retry or Version Negotiation packet arrives, and the server keeps nothing.  The
   HandshakeAgent heeds a Version Negotiation packet that comes late too, until it has
   returned: when 1-RTT is available and the Finished has left. *)
ReceiveRestart ==
    /\ Hello(attempts) \in delivered /\ ~pendingInitial
    /\ attempts < MaxAttempts
    /\ "1RTT" \in available => \E f \in frameQueue : Level(f) = "Handshake"
    /\ Receive([type |-> "Restart"])
    /\ pendingInitial' = TRUE
    /\ responded' = FALSE
    /\ forgotten' = IF responded THEN forgotten \cup {"late"} ELSE forgotten
    /\ arrived' = [s \in PNSpaces |-> {}]
    /\ delivered' = {}
    /\ UNCHANGED <<available, attempts, workload>>

Next ==
    \/ \E expired \in SUBSET retransmissionBuffer : RetransmissionTick(expired)
    \/ \E packet \in incoming : HandleIncoming(packet)
    \/ HandleOutgoing
    \/ HandleOneRTTAvailable
    \/ \E level \in {"Initial", "0RTT", "Handshake", "1RTT"}, frames \in SUBSET frameQueue :
          SendFrames(level, frames)
    \/ SendInitial
    \/ \E level \in {"Handshake", "1RTT"} : ReceiveKeys(level)
    \/ \E space \in PNSpaces : ReceiveAck(space)
    \/ ReceiveInitial
    \/ ReceiveRestart

Spec == Init /\ [][Next]_vars
-----------------------------------------------------------------------------
(* The frames that the client has to deliver. *)
Required == workload \cup (IF pendingInitial THEN {} ELSE {Hello(attempts)})

(* The frames that the client will still send, or send again if they do not arrive. *)
Kept == frameQueue \cup FramesOf(Range(outgoing)) \cup FramesOf(retransmissionBuffer)

(* What may make the agent give up a frame: a batch was left at a packet that looked
   first, the buffer was emptied because the handshake went on, the server started
   again after it had acknowledged packets, or, for 0-RTT data, the connection was
   reset and a packet with the same number was sent. *)
MayForget(f) ==
    \/ forgotten \cap {"batch", "late", PNSpace(Level(f))} # {}
    \/ Level(f) = "0RTT" /\ attempts > 1

(* When the server acknowledges one range, no frame is lost from the client's memory
   before it has arrived, except on the events of MayForget: not by an ACK that is
   handled before the packet it acknowledges, nor by a tick, nor when a ClientHello
   with little padding is taken apart and queued (recovery_agent.go:42-90, 142). *)
FramesKept == \A f \in Required : f \in delivered \cup Kept \/ MayForget(f)

(* Every frame that has not arrived will be sent again: the agent "is responsible of
   retransmitting frames that are part of packets considered as lost"
   (recovery_agent.go:8). *)
NoFrameForgotten == Required \subseteq delivered \cup Kept

(* ProcessAck "triggers fast retransmit" (recovery_agent.go:105): a packet that an ACK
   frame reports missing is returned for retransmission or stays in the buffer. *)
GapsRetransmitted ==
    \A packet \in {q \in incoming : q.type = "ACK"} :
        LET walk == ProcessAck(packet.ack, packet.space, retransmissionBuffer)
        IN  \A p \in InSpace(retransmissionBuffer, packet.space) :
                p.pn \notin Acknowledged(packet.ack) => p \in walk.batch \cup walk.buffer

(* The largest number acknowledged by the peer has been used since the last reset:
   packet numbers are truncated relative to it, and Truncate panics on smaller ones
   (headers.go:139, 193).  One event breaks it: an ACK frame that was received before
   a reset and waits in the agent's channel until after it (recovery_agent.go:67). *)
LargestAcknowledgedWasSent ==
    \/ "stale" \in forgotten
    \/ \A s \in PNSpaces :
          LargestPNsAcknowledged[s] = 0 \/ LargestPNsAcknowledged[s] < PacketNumber[s]
=============================================================================
