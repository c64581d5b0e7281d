------------------------------ MODULE Packets ------------------------------
(***************************************************************************)
(* Packets as bytes: the headers of headers.go, the packets of packets.go  *)
(* and the part of Connection.SendPacket that puts them together.  One     *)
(* endpoint builds a packet frame by frame and sends it, the other reads   *)
(* it with the readers of the same code.  Encryption and header protection *)
(* are left out: they are undone before the packet is read, and only add   *)
(* Overhead bytes.                                                         *)
(***************************************************************************)
EXTENDS Frames

CONSTANTS
    Connections,    \* the states of the connection a packet may be sent in
    SampleFrames,   \* the frames a packet may be given
    MaxFrames,      \* bound: frames per packet
    ClientHellos,   \* bound: lengths of the first TLS message
    InitialLength,  \* MinimumInitialLength, or MinimumInitialLengthv6
    Overhead        \* bytes that the AEAD adds to a payload

(* ReadLongHeader reads at least 3 bytes for an ID, so an empty one, which CIDL can        *)
(* announce, is out of its reach: every later field is then read from the wrong place.     *)
ASSUME NonEmptyIDs ==
    \A c \in Connections : Len(c.DestinationCID) \in 4 .. 18 /\ Len(c.SourceCID) \in 4 .. 18

VARIABLES
    conn,        \* what headers take from the connection, and the reader's LargestPNReceived
    packet,      \* the packet being built or sent: its header and frames, and whether it is
                 \* the first one of the connection
    datagram,    \* the bytes that were sent, without protection
    received     \* the packet that was read, or None

vars == <<conn, packet, datagram, received>>

None == [none |-> TRUE]

PacketTypes == [Initial |-> 0, ZeroRTTProtected |-> 1, Handshake |-> 2]

(* The length of a connection ID in 4 bits. *)
CIDL(c) == IF c = <<>> THEN 0 ELSE Len(c) - 3

NewVarInt(v) == [Value |-> v, Length |-> VarIntLen(v)]

NewLongHeader(type) ==
    [packetType     |-> type,
     Version        |-> conn.Version,
     DestinationCID |-> IF type = "ZeroRTTProtected" THEN conn.OriginalDestinationCID ELSE conn.DestinationCID,
     SourceCID      |-> conn.SourceCID,
     Token          |-> IF type = "Initial" THEN conn.Token ELSE <<>>,
     TokenLength    |-> NewVarInt(IF type = "Initial" THEN Len(conn.Token) ELSE 0),
     Length         |-> [Value |-> 0, Length |-> 0],
     packetNumber   |-> conn.PacketNumber,
     truncatedPN    |-> Truncate(conn.PacketNumber, conn.LargestPNAcknowledged)]

NewShortHeader ==
    [packetType     |-> "ShortHeaderPacket",
     KeyPhase       |-> conn.KeyPhaseIndex % 2 = 1,
     DestinationCID |-> conn.DestinationCID,
     packetNumber   |-> conn.PacketNumber,
     truncatedPN    |-> Truncate(conn.PacketNumber, conn.LargestPNAcknowledged)]

IsLong(h) == h.packetType # "ShortHeaderPacket"

EncodeLong(h) ==
    <<192 + 16 * PacketTypes[h.packetType] + h.truncatedPN.Length - 1>>
      \o h.Version
      \o <<16 * CIDL(h.DestinationCID) + CIDL(h.SourceCID)>> \o h.DestinationCID \o h.SourceCID
      \o (IF h.packetType = "Initial" THEN EncodeVarInt(h.TokenLength.Value) \o h.Token ELSE <<>>)
      \o EncodeVarInt(h.Length.Value) \o EncodePN(h.truncatedPN)

EncodeShort(h) ==
    <<64 + 4 * Bit(h.KeyPhase) + h.truncatedPN.Length - 1>> \o h.DestinationCID \o EncodePN(h.truncatedPN)

EncodeHeader(h) == IF IsLong(h) THEN EncodeLong(h) ELSE EncodeShort(h)

(* Mutant: the token's length is counted, its bytes are not. *)
HeaderLengthNoToken(h) ==
    IF IsLong(h)
    THEN 6 + Len(h.DestinationCID) + Len(h.SourceCID) + h.Length.Length + h.truncatedPN.Length
           + (IF h.packetType = "Initial" THEN h.TokenLength.Length ELSE 0)
    ELSE 1 + Len(h.DestinationCID) + h.truncatedPN.Length

HeaderLength(h) ==
    IF IsLong(h)
    THEN 6 + Len(h.DestinationCID) + Len(h.SourceCID) + h.Length.Length + h.truncatedPN.Length
           + (IF h.packetType = "Initial" THEN h.TokenLength.Length + Len(h.Token) ELSE 0)
    ELSE 1 + Len(h.DestinationCID) + h.truncatedPN.Length

-----------------------------------------------------------------------------
ReadVarInt(b) == LET r == ReadVarIntValue(b)
                 IN  [value |-> [Value |-> r.value, Length |-> Len(b) - Len(r.rest)], rest |-> r.rest]

(* An ID of n bytes is announced as n - 3; the reader has no empty ID. *)
ReadLongHeader(b, largestReceived) ==
    LET version == ReadFull(Rest(b, 1), 4)
        cidl    == ReadBytes(version.rest, 1)
        dcid    == ReadFull(cidl.rest, 3 + (cidl.value[1] \div 16))
        scid    == ReadFull(dcid.rest, 3 + (cidl.value[1] % 16))
        type    == CHOOSE t \in DOMAIN PacketTypes : PacketTypes[t] = (b[1] - 192) \div 16
        initial == type = "Initial"
        tlen    == IF initial THEN ReadVarInt(scid.rest) ELSE [value |-> NewVarInt(0), rest |-> scid.rest]
        token   == ReadBytes(tlen.rest, tlen.value.Value)
        length  == ReadVarInt(token.rest)
        pn      == ReadTruncatedPN(length.rest, (b[1] % 4) + 1)
    IN  [header |-> [packetType |-> type, Version |-> version.value,
                     DestinationCID |-> dcid.value, SourceCID |-> scid.value,
                     Token |-> token.value, TokenLength |-> tlen.value, Length |-> length.value,
                     packetNumber |-> Join(pn.value, largestReceived), truncatedPN |-> pn.value],
         rest   |-> pn.rest]

(* The reader of a short header knows the length of its own source ID. *)
ReadShortHeader(b, ownLength, largestReceived) ==
    LET dcid == ReadBytes(Rest(b, 1), ownLength)
        pn   == ReadTruncatedPN(dcid.rest, (b[1] % 4) + 1)
    IN  [header |-> [packetType |-> "ShortHeaderPacket", KeyPhase |-> (b[1] \div 4) % 2 = 1,
                     DestinationCID |-> dcid.value,
                     packetNumber |-> Join(pn.value, largestReceived), truncatedPN |-> pn.value],
         rest   |-> pn.rest]

ReadHeader(b, ownLength, largestReceived) ==
    IF b[1] >= 128 THEN ReadLongHeader(b, largestReceived)
    ELSE ReadShortHeader(b, ownLength, largestReceived)

(* The loop of the packet readers: frames until the buffer is empty.  An unknown frame     *)
(* type panics; the frame read last then has the class "unknown".                          *)
RECURSIVE ReadFrames(_)
ReadFrames(b) ==
    IF b = <<>> THEN <<>>
    ELSE IF ClassOf(b[1]) = "unknown" THEN <<[class |-> "unknown", f |-> <<>>]>>
    ELSE LET r == NewFrame(b) IN <<r.frame>> \o ReadFrames(r.rest)

EncodePayload(frames) == FlattenSeq([i \in DOMAIN frames |-> writeTo(frames[i])])

(* GetPacketSample: where header protection starts, from the lengths of the header. *)
PNOffset(h) == IF IsLong(h) THEN HeaderLength(h) - h.truncatedPN.Length ELSE 1 + Len(h.DestinationCID)

-----------------------------------------------------------------------------
Init ==
    /\ conn \in Connections
    /\ packet = None
    /\ datagram = <<>>
    /\ received = None

NewPacket(type) ==
    /\ packet = None
    /\ CanTruncate(conn.PacketNumber, conn.LargestPNAcknowledged)
    /\ packet' = [header |-> IF type = "ShortHeaderPacket" THEN NewShortHeader ELSE NewLongHeader(type),
                  frames |-> <<>>, first |-> FALSE]
    /\ conn' = [conn EXCEPT !.PacketNumber = @ + 1]
    /\ UNCHANGED <<datagram, received>>

(* The first CRYPTO frame of the stream, and PADDING frames up to the length of the datagram. *)
GetInitialPacket(n) ==
    /\ packet = None
    /\ conn.PacketNumber = 0
    /\ LET header  == NewLongHeader("Initial")
           crypto  == [class |-> "CryptoFrame", f |-> <<0, n, [k \in 1 .. n |-> 1]>>]
           padding == PaddingLength(InitialLength, Len(EncodeHeader(header)), Len(writeTo(crypto)), Overhead)
       IN  packet' = [header |-> header, first |-> TRUE,
                      frames |-> <<crypto>> \o [i \in 1 .. padding |-> [class |-> "PaddingFrame", f |-> <<>>]]]
    /\ conn' = [conn EXCEPT !.PacketNumber = @ + 1]
    /\ UNCHANGED <<datagram, received>>

(* A STREAM frame without a length extends to the end of the packet. *)
AddFrame(frame) ==
    /\ packet # None
    /\ datagram = <<>>
    /\ ~ packet.first
    /\ Len(packet.frames) < MaxFrames
    /\ \A i \in DOMAIN packet.frames : packet.frames[i].class = "StreamFrame" => packet.frames[i].f[2]
    /\ packet' = [packet EXCEPT !.frames = Append(@, frame)]
    /\ UNCHANGED <<conn, datagram, received>>

SendPacket ==
    /\ packet # None
    /\ datagram = <<>>
    /\ packet.frames # <<>>
    /\ LET payload == EncodePayload(packet.frames)
           n       == packet.header.truncatedPN.Length + Len(payload) + Overhead
           header  == IF IsLong(packet.header) THEN [packet.header EXCEPT !.Length = NewVarInt(n)]
                      ELSE packet.header
       IN  /\ packet' = [packet EXCEPT !.header = header]
           /\ datagram' = EncodeHeader(header) \o payload
    /\ UNCHANGED <<conn, received>>

(* ReadInitialPacket, ReadHandshakePacket and ReadProtectedPacket. *)
ReadPacket ==
    /\ datagram # <<>>
    /\ received = None
    /\ LET r == ReadHeader(datagram, Len(conn.DestinationCID), conn.LargestPNReceived)
       IN  received' = [header |-> r.header, frames |-> ReadFrames(r.rest)]
    /\ UNCHANGED <<conn, packet, datagram>>

Next ==
    \/ \E type \in DOMAIN PacketTypes \cup {"ShortHeaderPacket"} : NewPacket(type)
    \/ \E n \in ClientHellos : GetInitialPacket(n)
    \/ \E frame \in SampleFrames : AddFrame(frame)
    \/ SendPacket
    \/ ReadPacket

-----------------------------------------------------------------------------
(* The number of a packet is read back when it shares its high bits with the reader's      *)
(* largest one (JoinExactInEpoch, in VarIntProofs).                                        *)
SameEpoch(h) == LET s == Span(h.truncatedPN.Length)
                IN  h.packetNumber \div s = conn.LargestPNReceived \div s

(* What a frame is read back as: an ACK_ECN as an ACK, since its writer is that of ACK with  *)
(* the type byte of ACK (frames.go:217-221), and a MAX_STREAMS or STREAMS_BLOCKED for        *)
(* unidirectional streams as one for bidirectional ones, since no reader looks at the bit of *)
(* the type byte that tells them apart (frames.go:473-478, 539-544).                         *)
AsRead(frame) ==
    CASE frame.class = "AckECNFrame" -> [class |-> "AckFrame", f |-> SubSeq(frame.f, 1, 4)]
      [] frame.class \in {"MaxStreamsFrame", "StreamsBlockedFrame"} -> [frame EXCEPT !.f[1] = FALSE]
      [] OTHER -> frame

(* The frames of a packet up to its first ACK_ECN.  Its reader leaves the counts of the      *)
(* ACK_ECN in the buffer, where they are taken for the frames that follow.                   *)
InStep(frames) ==
    LET ecn == {i \in DOMAIN frames : frames[i].class = "AckECNFrame"}
    IN  IF ecn = {} THEN frames ELSE SubSeq(frames, 1, CHOOSE i \in ecn : \A j \in ecn : i <= j)

(***************************************************************************)
(* What an endpoint sends is what the other reads: every field of the      *)
(* header, and every frame with all its fields, whatever frame precedes it *)
(* and wherever a varint changes its length.  There are three exceptions   *)
(* for frames, which AsRead and InStep name: ACK_ECN and what follows it,  *)
(* and the stream type of MAX_STREAMS and of STREAMS_BLOCKED.  The packet  *)
(* number is read back exactly when it is in the reader's epoch            *)
(* (TruncatedPN.Join, common.go:110).                                      *)
(***************************************************************************)
PacketReadBack ==
    received # None
      => /\ LET expected == [i \in DOMAIN InStep(packet.frames) |-> AsRead(packet.frames[i])]
            IN  /\ IsPrefix(expected, received.frames)
                /\ (\A i \in DOMAIN expected : packet.frames[i].class # "AckECNFrame")
                     => received.frames = expected
         /\ [received.header EXCEPT !.packetNumber = 0] = [packet.header EXCEPT !.packetNumber = 0]
         /\ received.header.packetNumber = packet.header.packetNumber <=> SameEpoch(packet.header)

(***************************************************************************)
(* The lengths that the code computes without encoding are the lengths it  *)
(* encodes: FrameLength (the sending agent fills packets by it),           *)
(* HeaderLength of the header that was sent and of the one that was read   *)
(* (ParseAgent slices the datagram by it), the Length field, and the       *)
(* offset of the packet number that header protection masks                *)
(* (crypto.go:99-107).                                                     *)
(***************************************************************************)
LengthsAgree ==
    datagram # <<>> =>
      LET h       == packet.header
          payload == FoldLeft(LAMBDA sum, f : sum + FrameLength(f), 0, packet.frames)
      IN  /\ Len(datagram) = HeaderLength(h) + payload
          /\ IsLong(h) => h.Length.Value = Len(datagram) - PNOffset(h) + Overhead
          /\ SubSeq(datagram, PNOffset(h) + 1, HeaderLength(h)) = EncodePN(h.truncatedPN)

(***************************************************************************)
(* The first datagram of a connection reaches the minimum length less one  *)
(* byte, whatever the token and the ClientHello: GetInitialPacket          *)
(* (connection.go:132-142) counts the Length field as the varint of the    *)
(* payload before padding on top of one byte, SendPacket writes that of    *)
(* the padded one.  It exceeds the minimum only when there is nothing to   *)
(* pad.  InitialIsPadded, in VarIntProofs, has it for every length.        *)
(***************************************************************************)
FirstDatagramPadded ==
    (datagram # <<>> /\ packet.first) =>
      LET n == Len(datagram) + Overhead
      IN  /\ n >= InitialLength - 1
          /\ n > InitialLength => Len(packet.frames) = 1
=============================================================================
