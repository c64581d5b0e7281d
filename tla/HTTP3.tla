------------------------------- MODULE HTTP3 -------------------------------
(***************************************************************************)
(* The HTTP/3 frames of http3/http3.go as bytes.  A frame is its type, the *)
(* bytes of its Length field and the tuple of its other fields; each Go    *)
(* constructor gives the Length that goes with the fields.                 *)
(***************************************************************************)
EXTENDS VarInts, SequencesExt

HTTPFrame(type, length, fields) == [Type |-> type, Length |-> EncodeVarInt(length), f |-> fields]

DATA(payload) == HTTPFrame(0, Len(payload), <<payload>>)
HEADERS(headerBlock) == HTTPFrame(1, Len(headerBlock), <<headerBlock>>)

(* The two types, the empty field and the exclusive bit are one byte here. *)
PRIORITY(firstByte, prioritizedElementID, elementDependencyID, weight) ==
    HTTPFrame(2, 1 + VarIntLen(prioritizedElementID) + VarIntLen(elementDependencyID) + 1,
              <<firstByte, prioritizedElementID, elementDependencyID, weight>>)

CANCEL_PUSH(pushID) == HTTPFrame(3, VarIntLen(pushID), <<pushID>>)

SETTINGS(settings) ==
    HTTPFrame(4, FoldLeft(LAMBDA n, s : n + VarIntLen(s.Value) + 2, 0, settings), <<settings>>)

PUSH_PROMISE(pushID, headerBlock) == HTTPFrame(5, VarIntLen(pushID) + Len(headerBlock), <<pushID, headerBlock>>)
GOAWAY(streamID) == HTTPFrame(7, VarIntLen(streamID), <<streamID>>)
MAX_PUSH_ID(pushID) == HTTPFrame(13, VarIntLen(pushID), <<pushID>>)
UnknownFrame(type, payload) == HTTPFrame(type, Len(payload), <<payload>>)

WriteSetting(s) == Uint16ToBEBytes(s.Identifier) \o EncodeVarInt(s.Value)

(* HTTPFrameHeader.WriteTo, then the fields of the type. *)
WriteTo(frame) ==
    frame.Length \o <<frame.Type>> \o
    CASE frame.Type = 2          -> <<frame.f[1]>> \o EncodeVarInt(frame.f[2]) \o EncodeVarInt(frame.f[3]) \o <<frame.f[4]>>
      [] frame.Type \in {3, 7, 13} -> EncodeVarInt(frame.f[1])
      [] frame.Type = 4          -> FlattenSeq([i \in DOMAIN frame.f[1] |-> WriteSetting(frame.f[1][i])])
      [] frame.Type = 5          -> EncodeVarInt(frame.f[1]) \o frame.f[2]
      [] OTHER                   -> frame.f[1]

WireLength(frame) == Len(frame.Length) + 1 + ReadVarIntValue(frame.Length).value

ReadSettings(b) ==
    LET from[i \in 0..Len(b)] ==
            IF i = Len(b) THEN <<>>
            ELSE LET v == ReadVarIntValue(Rest(b, i + 2))
                 IN <<[Identifier |-> b[i + 1] * 256 + b[i + 2], Value |-> v.value]>> \o from[Len(b) - Len(v.rest)]
    IN from[0]

(* Fields are made with the announced size and filled with the bytes there are.  ReadPUSH_PROMISE *)
(* makes room for the header block and does not read it.                                          *)
ReadHTTPFrame(b) ==
    LET length == ReadVarIntValue(b)
        type == IF length.rest = <<>> THEN 0 ELSE Head(length.rest)
        payload == SubSeq(length.rest \o [i \in 1..(length.value + 1) |-> 0], 2, 1 + length.value)
        v1 == ReadVarIntValue(payload)
        p1 == ReadVarIntValue(Rest(payload, 1))
        p2 == ReadVarIntValue(p1.rest)
    IN [Type |-> type, Length |-> SubSeq(b, 1, Len(b) - Len(length.rest)),
        f |-> CASE type = 2            -> <<payload[1], p1.value, p2.value, p2.rest[1]>>
                [] type \in {3, 7, 13} -> <<v1.value>>
                [] type = 4            -> <<ReadSettings(payload)>>
                [] type = 5            -> <<v1.value, [i \in DOMAIN v1.rest |-> 0]>>
                [] OTHER               -> <<payload>>]
=============================================================================
