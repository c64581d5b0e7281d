------------------------------- MODULE Frames -------------------------------
(***************************************************************************)
(* The frames of frames.go as bytes.  A frame is a record of its Go type   *)
(* and the tuple of its fields, in the order of the Go struct.  Each type  *)
(* is described by three lists that the code writes independently of one   *)
(* another: what writeTo appends, what FrameLength adds up after the type  *)
(* byte, and what the reader consumes.                                     *)
(*                                                                         *)
(* Elements of the lists: a "varint", "uint16" or "byte"; "data", as many  *)
(* bytes as the previous field says; "sized", bytes behind their own       *)
(* length; "reason", data that is skipped when the previous field is 0;    *)
(* "counted", the value of the previous field rather than a length of      *)
(* data; an array of 8 or 16 bytes; the "blocks" of an ACK; and "none", a  *)
(* field that is not on the wire.                                          *)
(***************************************************************************)
EXTENDS VarInts, SequencesExt

Codec(type, retransmitted, writeTo, FrameLength, read) ==
    [FrameType |-> type, shouldBeRetransmitted |-> retransmitted,
     writeTo |-> writeTo, FrameLength |-> FrameLength, read |-> read]

PaddingFrame == Codec(0, FALSE, <<>>, <<>>, <<>>)
PingFrame == Codec(1, FALSE, <<>>, <<>>, <<>>)

AckFrame == Codec(2, FALSE, <<"varint", "varint", "varint", "blocks">>,
                            <<"varint", "varint", "varint", "blocks">>,
                            <<"varint", "varint", "varint", "blocks">>)

AckECNFrame == Codec(3, FALSE, AckFrame.writeTo \o <<"varint", "varint", "varint">>,
                               AckFrame.FrameLength \o <<"varint", "varint", "varint">>,
                               AckFrame.read \o <<"varint", "varint", "varint">>)

(* Mutant: the error code is read as a varint, as later drafts have it. *)
ResetStreamVarint == Codec(4, TRUE, <<"varint", "uint16", "varint">>, <<"varint", "uint16", "varint">>,
                                    <<"varint", "varint", "varint">>)

ResetStream == Codec(4, TRUE, <<"varint", "uint16", "varint">>, <<"varint", "uint16", "varint">>,
                              <<"varint", "uint16", "varint">>)

StopSendingFrame == Codec(5, TRUE, <<"varint", "uint16">>, <<"varint", "uint16">>, <<"varint", "uint16">>)

CryptoFrame == Codec(6, TRUE, <<"varint", "varint", "data">>, <<"varint", "varint", "data">>,
                              <<"varint", "varint", "data">>)

NewTokenFrame == Codec(7, TRUE, <<"sized">>, <<"sized">>, <<"sized">>)

MaxDataFrame == Codec(16, TRUE, <<"varint">>, <<"varint">>, <<"varint">>)

MaxStreamDataFrame == Codec(17, TRUE, <<"varint", "varint">>, <<"varint", "varint">>, <<"varint", "varint">>)

(* The stream type is in the lowest bit of the type byte, which no reader looks at. *)
MaxStreamsFrame == Codec(18, TRUE, <<"none", "varint">>, <<"none", "varint">>, <<"none", "varint">>)

DataBlockedFrame == Codec(20, TRUE, <<"varint">>, <<"varint">>, <<"varint">>)

StreamDataBlockedFrame == Codec(21, TRUE, <<"varint", "varint">>, <<"varint", "varint">>,
                                          <<"varint", "varint">>)

StreamsBlockedFrame == Codec(22, TRUE, <<"none", "varint">>, <<"none", "varint">>, <<"none", "varint">>)

NewConnectionIdFrame == Codec(24, TRUE, <<"varint", "byte", "data", "array16">>,
                                        <<"varint", "byte", "data", "array16">>,
                                        <<"varint", "byte", "data", "array16">>)

RetireConnectionId == Codec(25, TRUE, <<"varint">>, <<"varint">>, <<"varint">>)

PathChallenge == Codec(26, TRUE, <<"array8">>, <<"array8">>, <<"array8">>)

PathResponse == Codec(27, FALSE, <<"array8">>, <<"array8">>, <<"array8">>)

ConnectionCloseFrame == Codec(28, FALSE, <<"uint16", "varint", "varint", "reason">>,
                                         <<"uint16", "varint", "varint", "counted">>,
                                         <<"uint16", "varint", "varint", "reason">>)

ApplicationCloseFrame == Codec(29, FALSE, <<"uint16", "varint", "reason">>,
                                          <<"uint16", "varint", "counted">>,
                                          <<"uint16", "varint", "reason">>)

(* Fields FinBit, LenBit, OffBit, StreamId, Offset, Length and StreamData. *)
StreamFrame(LenBit, OffBit) ==
    LET offset == IF OffBit THEN "varint" ELSE "none"
        length == IF LenBit THEN "varint" ELSE "none"
    IN  Codec(8, TRUE, <<"none", "none", "none", "varint", offset, length, "data">>,
                       <<"none", "none", "none", "varint", offset, length, "data">>,
                       <<"varint", offset, IF LenBit THEN "varint" ELSE "remaining", "data">>)

CodecOf(frame) ==
    CASE frame.class = "PaddingFrame"           -> PaddingFrame
      [] frame.class = "PingFrame"              -> PingFrame
      [] frame.class = "AckFrame"               -> AckFrame
      [] frame.class = "AckECNFrame"            -> AckECNFrame
      [] frame.class = "ResetStream"            -> ResetStream
      [] frame.class = "StopSendingFrame"       -> StopSendingFrame
      [] frame.class = "CryptoFrame"            -> CryptoFrame
      [] frame.class = "NewTokenFrame"          -> NewTokenFrame
      [] frame.class = "StreamFrame"            -> StreamFrame(frame.f[2], frame.f[3])
      [] frame.class = "MaxDataFrame"           -> MaxDataFrame
      [] frame.class = "MaxStreamDataFrame"     -> MaxStreamDataFrame
      [] frame.class = "MaxStreamsFrame"        -> MaxStreamsFrame
      [] frame.class = "DataBlockedFrame"       -> DataBlockedFrame
      [] frame.class = "StreamDataBlockedFrame" -> StreamDataBlockedFrame
      [] frame.class = "StreamsBlockedFrame"    -> StreamsBlockedFrame
      [] frame.class = "NewConnectionIdFrame"   -> NewConnectionIdFrame
      [] frame.class = "RetireConnectionId"     -> RetireConnectionId
      [] frame.class = "PathChallenge"          -> PathChallenge
      [] frame.class = "PathResponse"           -> PathResponse
      [] frame.class = "ConnectionCloseFrame"   -> ConnectionCloseFrame
      [] frame.class = "ApplicationCloseFrame"  -> ApplicationCloseFrame

Bit(b) == IF b THEN 1 ELSE 0

(* The type byte: the flags of STREAM and the stream type are in its low bits, and the     *)
(* writer of ACK_ECN is that of ACK, its type byte included.                               *)
TypeByte(frame) ==
    CASE frame.class = "AckECNFrame" -> AckFrame.FrameType
      [] frame.class = "StreamFrame" -> 8 + Bit(frame.f[1]) + 2 * Bit(frame.f[2]) + 4 * Bit(frame.f[3])
      [] frame.class \in {"MaxStreamsFrame", "StreamsBlockedFrame"} -> CodecOf(frame).FrameType + Bit(frame.f[1])
      [] OTHER -> CodecOf(frame).FrameType

-----------------------------------------------------------------------------
(* The first block has no gap. *)
BlockFields(blocks) == FlattenSeq([i \in DOMAIN blocks |-> IF i = 1 THEN <<blocks[1].Block>>
                                                           ELSE <<blocks[i].Gap, blocks[i].Block>>])

(* What one element of writeTo appends for the field v, after the field prev. *)
Written(element, v, prev) ==
    CASE element = "varint" -> EncodeVarInt(v)
      [] element = "uint16" -> Uint16ToBEBytes(v)
      [] element = "byte"   -> <<v>>
      [] element = "sized"  -> EncodeVarInt(Len(v)) \o v
      [] element = "reason" -> IF prev > 0 THEN v ELSE <<>>
      [] element = "blocks" -> LET n == BlockFields(v) IN FlattenSeq([i \in DOMAIN n |-> EncodeVarInt(n[i])])
      [] element = "none"   -> <<>>
      [] OTHER              -> v

Previous(f, i) == IF i = 1 THEN 0 ELSE f[i - 1]

writeTo(frame) ==
    LET elements == CodecOf(frame).writeTo
    IN  EncodeVarInt(TypeByte(frame))
          \o FlattenSeq([i \in DOMAIN elements |-> Written(elements[i], frame.f[i], Previous(frame.f, i))])

Summand(element, v, prev) ==
    CASE element = "varint"  -> VarIntLen(v)
      [] element = "uint16"  -> 2
      [] element = "byte"    -> 1
      [] element = "array8"  -> 8
      [] element = "array16" -> 16
      [] element = "sized"   -> VarIntLen(Len(v)) + Len(v)
      [] element = "counted" -> prev
      [] element = "blocks"  -> FoldLeft(LAMBDA sum, n : sum + VarIntLen(n), 0, BlockFields(v))
      [] element = "none"    -> 0
      [] OTHER               -> Len(v)

(* A uint16. *)
FrameLength(frame) ==
    LET elements == CodecOf(frame).FrameLength
    IN  FoldLeftDomain(LAMBDA sum, i : (sum + Summand(elements[i], frame.f[i], Previous(frame.f, i))) % 65536,
                       1, elements)

-----------------------------------------------------------------------------
(* buffer.Read into n bytes: what is missing stays 0. *)
ReadBytes(b, n) == [value |-> [k \in 1 .. n |-> IF k <= Len(b) THEN b[k] ELSE 0], rest |-> Rest(b, n)]

(* binary.Read into n bytes: all of them or none. *)
ReadFull(b, n) == IF Len(b) >= n THEN ReadBytes(b, n) ELSE [value |-> [k \in 1 .. n |-> 0], rest |-> <<>>]

(* AckBlockCount blocks follow the first one. *)
ReadBlocks(b, count) ==
    LET first == ReadVarIntValue(b)
        next(r, i) == LET gap   == ReadVarIntValue(r.rest)
                          block == ReadVarIntValue(gap.rest)
                      IN  [value |-> Append(r.value, [Gap |-> gap.value, Block |-> block.value]),
                           rest  |-> block.rest]
    IN  FoldLeft(next, [value |-> <<[Gap |-> 0, Block |-> first.value]>>, rest |-> first.rest],
                 [i \in 1 .. count |-> i])

ReadElement(element, b, prev) ==
    CASE element = "varint"    -> ReadVarIntValue(b)
      [] element = "uint16"    -> LET r == ReadFull(b, 2)
                                  IN  [value |-> r.value[1] * 256 + r.value[2], rest |-> r.rest]
      [] element = "byte"      -> LET r == ReadBytes(b, 1) IN [value |-> r.value[1], rest |-> r.rest]
      [] element = "data"      -> ReadBytes(b, prev)
      [] element = "sized"     -> LET n == ReadVarIntValue(b) IN ReadBytes(n.rest, n.value)
      [] element = "reason"    -> IF prev > 0 THEN ReadFull(b, prev) ELSE [value |-> <<>>, rest |-> b]
      [] element = "array8"    -> ReadBytes(b, 8)
      [] element = "array16"   -> ReadFull(b, 16)
      [] element = "blocks"    -> ReadBlocks(b, prev)
      [] element = "remaining" -> [value |-> Len(b), rest |-> b]
      [] element = "none"      -> [value |-> 0, rest |-> b]

(* The fields that the elements of a reader yield, and what they leave of the buffer. *)
ReadElements(elements, buffer) ==
    FoldLeft(LAMBDA r, element : LET v == ReadElement(element, r.rest, IF r.f = <<>> THEN 0 ELSE Last(r.f))
                                 IN  [f |-> Append(r.f, v.value), rest |-> v.rest],
             [f |-> <<>>, rest |-> buffer], elements)

(* The type of frame that a type byte announces. *)
ClassOf(typeByte) ==
    CASE typeByte = 0         -> "PaddingFrame"
      [] typeByte = 1         -> "PingFrame"
      [] typeByte = 2         -> "AckFrame"
      [] typeByte = 3         -> "AckECNFrame"
      [] typeByte = 4         -> "ResetStream"
      [] typeByte = 5         -> "StopSendingFrame"
      [] typeByte = 6         -> "CryptoFrame"
      [] typeByte = 7         -> "NewTokenFrame"
      [] typeByte \in 8 .. 15 -> "StreamFrame"
      [] typeByte = 16        -> "MaxDataFrame"
      [] typeByte = 17        -> "MaxStreamDataFrame"
      [] typeByte \in 18 .. 19 -> "MaxStreamsFrame"
      [] typeByte = 20        -> "DataBlockedFrame"
      [] typeByte = 21        -> "StreamDataBlockedFrame"
      [] typeByte \in 22 .. 23 -> "StreamsBlockedFrame"
      [] typeByte = 24        -> "NewConnectionIdFrame"
      [] typeByte = 25        -> "RetireConnectionId"
      [] typeByte = 26        -> "PathChallenge"
      [] typeByte = 27        -> "PathResponse"
      [] typeByte = 28        -> "ConnectionCloseFrame"
      [] typeByte = 29        -> "ApplicationCloseFrame"
      [] OTHER                -> "unknown"

(* The frame at the front of a non-empty buffer and what follows it.  The zero value of    *)
(* StreamsType is BidiStreams.                                                              *)
NewFrame(buffer) ==
    LET class == ClassOf(buffer[1])
        bits  == <<buffer[1] % 2 = 1, (buffer[1] \div 2) % 2 = 1, (buffer[1] \div 4) % 2 = 1>>
        codec == CodecOf([class |-> class, f |-> bits])
        r     == ReadElements(codec.read, Rest(buffer, 1))
    IN  [frame |-> [class |-> class,
                    f     |-> CASE class = "StreamFrame" -> bits \o r.f
                                [] class \in {"MaxStreamsFrame", "StreamsBlockedFrame"} -> <<FALSE>> \o Tail(r.f)
                                [] OTHER -> r.f],
         rest  |-> r.rest]
=============================================================================
