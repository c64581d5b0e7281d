------------------------------ MODULE VarInts ------------------------------
(***************************************************************************)
(* The numbers of the wire format: variable-length integers                *)
(* (lib/varint.go) and truncated packet numbers (common.go), as functions  *)
(* on sequences of bytes.  A read returns the value and what is left of    *)
(* the buffer; as in the code, a read past the end of the buffer yields 0  *)
(* and leaves nothing.                                                     *)
(***************************************************************************)
EXTENDS Integers, Sequences

Byte == 0 .. 255

maxVarInt1 == 63
maxVarInt2 == 16383
maxVarInt4 == 1073741823
maxVarInt8 == 4 * 1073741824 * 1073741824 - 1

(* What the buffer b holds after its first n bytes. *)
Rest(b, n) == SubSeq(b, n + 1, Len(b))

(* The bytes of i that follow its lowest one: i >> 8. *)
Shift(i) == i \div 256

(* The length is in the two highest bits of the first byte; i <= maxVarInt8,   *)
(* above which the code panics.                                                *)
EncodeVarInt(i) ==
    LET i1 == Shift(i)   i2 == Shift(i1)  i3 == Shift(i2)  i4 == Shift(i3)
        i5 == Shift(i4)  i6 == Shift(i5)  i7 == Shift(i6)
    IN  IF i <= maxVarInt1 THEN <<i>>
        ELSE IF i <= maxVarInt2 THEN <<64 + i1, i % 256>>
        ELSE IF i <= maxVarInt4 THEN <<128 + i3, i2 % 256, i1 % 256, i % 256>>
        ELSE <<192 + i7, i6 % 256, i5 % 256, i4 % 256, i3 % 256, i2 % 256, i1 % 256, i % 256>>

VarIntLen(i) == IF i <= maxVarInt1 THEN 1
                ELSE IF i <= maxVarInt2 THEN 2
                ELSE IF i <= maxVarInt4 THEN 4
                ELSE 8

ReadVarIntValue(b) ==
    LET len == <<1, 2, 4, 8>>[1 + b[1] \div 64]
        h   == b[1] % 64
        v4  == ((h * 256 + b[2]) * 256 + b[3]) * 256 + b[4]
    IN  IF b = <<>> \/ Len(b) < len
        THEN [value |-> 0, rest |-> <<>>]
        ELSE [value |-> IF len = 1 THEN h
                        ELSE IF len = 2 THEN h * 256 + b[2]
                        ELSE IF len = 4 THEN v4
                        ELSE (((v4 * 256 + b[5]) * 256 + b[6]) * 256 + b[7]) * 256 + b[8],
              rest  |-> Rest(b, len)]

Uint16ToBEBytes(u) == <<Shift(u) % 256, u % 256>>
Uint32ToBEBytes(u) == <<Shift(Shift(Shift(u))) % 256, Shift(Shift(u)) % 256, Shift(u) % 256, u % 256>>

-----------------------------------------------------------------------------
(* 2^(8 n), for the n bytes of a truncated packet number. *)
Span(n) == CASE n = 1 -> 256
             [] n = 2 -> 65536
             [] n = 3 -> 16777216
             [] n = 4 -> 65536 * 65536

(* int(math.Log2(d)) / 8 + 1, the number of bytes of d. *)
BytesOf(d) == IF d < 256 THEN 1
              ELSE IF d < 65536 THEN 2
              ELSE IF d < 16777216 THEN 3
              ELSE IF Shift(d) < 16777216 THEN 4
              ELSE 5

(* Truncate panics below the largest acknowledged number and beyond 4 bytes. *)
CanTruncate(p, largestAcknowledged) ==
    p >= largestAcknowledged /\ BytesOf(p - largestAcknowledged + 1) <= 4

Truncate(p, largestAcknowledged) ==
    LET length == BytesOf(p - largestAcknowledged + 1)
    IN  [Value |-> p % Span(length), Length |-> length]

(* TruncatedPN.Encode *)
EncodePN(t) == SubSeq(Uint32ToBEBytes(t.Value), 5 - t.Length, 4)

ReadTruncatedPN(b, length) ==
    LET v[i \in 0 .. length] == IF i = 0 THEN 0
                                ELSE v[i - 1] * 256 + (IF i <= Len(b) THEN b[i] ELSE 0)
    IN  [value |-> [Value |-> v[length], Length |-> length], rest |-> Rest(b, length)]

(* The high bits of the largest number received, whatever the distance. *)
Join(t, p) == (p \div Span(t.Length)) * Span(t.Length) + t.Value

-----------------------------------------------------------------------------
(* Mutant: the padding is computed without the overhead of the AEAD. *)
PaddingNoOverhead(min, headerLen, payloadLen, overhead) ==
    min - (headerLen + VarIntLen(payloadLen) + payloadLen)

(* GetInitialPacket: the PADDING frames that bring the first datagram to min bytes.  The    *)
(* header was encoded with a Length of 0: one byte, to which that of the payload is added. *)
PaddingLength(min, headerLen, payloadLen, overhead) ==
    min - (headerLen + VarIntLen(payloadLen) + payloadLen + overhead)
=============================================================================
