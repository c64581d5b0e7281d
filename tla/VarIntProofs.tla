---------------------------- MODULE VarIntProofs ----------------------------
(* Proofs about VarInts, for ranges TLC cannot enumerate. *)
EXTENDS VarInts, TLAPS

(* A number is its lowest byte and the others. *)
LEMMA Split ==
    ASSUME NEW i \in Nat
    PROVE  \E q \in Nat, d \in Byte : q = Shift(i) /\ d = i % 256 /\ i = q * 256 + d
  BY SMT DEF Shift, Byte

(* Below 2^30 the fourth byte is the last, and it has two bits to spare. *)
LEMMA FourBytes ==
    ASSUME NEW i \in Nat, i <= maxVarInt4
    PROVE  Shift(Shift(Shift(i))) \in 0 .. 63
  BY SMT DEF Shift, maxVarInt4

(***************************************************************************)
(* VarIntLen, which every FrameLength and HeaderLength adds up, is the     *)
(* number of bytes EncodeVarInt writes.                                    *)
(***************************************************************************)
THEOREM VarIntLenIsExact ==
    ASSUME NEW i \in 0 .. maxVarInt8
    PROVE  Len(EncodeVarInt(i)) = VarIntLen(i)
  BY SMT DEF EncodeVarInt, VarIntLen, maxVarInt1, maxVarInt2, maxVarInt4

(* Reading the n bytes e in front of a buffer leaves the buffer. *)
LEMMA Front ==
    ASSUME NEW e \in Seq(Byte), NEW rest \in Seq(Byte), NEW n \in Nat, Len(e) = n
    PROVE  /\ e \o rest \in Seq(Byte)
           /\ Len(e \o rest) >= n
           /\ \A k \in 1 .. n : (e \o rest)[k] = e[k]
           /\ Rest(e \o rest, n) = rest
<1>1. /\ Len(e \o rest) = n + Len(rest)
      /\ \A k \in 1 .. n : (e \o rest)[k] = e[k]
      /\ \A k \in 1 .. Len(rest) : (e \o rest)[n + k] = rest[k]
      /\ e \o rest \in Seq(Byte)
  BY SMT
<1>2. Len(Rest(e \o rest, n)) = Len(rest)
  BY <1>1, SMT DEF Rest
<1>3. \A k \in 1 .. Len(rest) : Rest(e \o rest, n)[k] = rest[k]
  BY <1>1, SMT DEF Rest
<1>4. Rest(e \o rest, n) \in Seq(Byte)
  BY <1>1, SMT DEF Rest
<1>5. Rest(e \o rest, n) = rest
  BY <1>2, <1>3, <1>4, SMT
<1> QED
  BY <1>1, <1>5, SMT

(* The length is in the two highest bits of the first byte, the rest is the value. *)
LEMMA FirstByte ==
    /\ \A x \in Byte : x \div 64 \in 0 .. 3
    /\ \A h \in 0 .. 63 : /\ h \div 64 = 0 /\ h % 64 = h
                         /\ (64 + h) \div 64 = 1 /\ (64 + h) % 64 = h
                         /\ (128 + h) \div 64 = 2 /\ (128 + h) % 64 = h
                         /\ (192 + h) \div 64 = 3 /\ (192 + h) % 64 = h
  BY SMT DEF Byte

(* What is read from a buffer, by the length its first byte announces. *)
LEMMA Read1 ==
    ASSUME NEW b \in Seq(Byte), NEW h \in 0 .. 63, Len(b) >= 1, b[1] = h
    PROVE  ReadVarIntValue(b) = [value |-> h, rest |-> Rest(b, 1)]
<1>1. b[1] \div 64 = 0 /\ b[1] % 64 = h /\ b # <<>>
  BY FirstByte, SMT
<1> QED
  BY <1>1, SMT DEF ReadVarIntValue

LEMMA Read2 ==
    ASSUME NEW b \in Seq(Byte), NEW h \in 0 .. 63, Len(b) >= 2, b[1] = 64 + h
    PROVE  ReadVarIntValue(b) = [value |-> h * 256 + b[2], rest |-> Rest(b, 2)]
<1>1. b[1] \div 64 = 1 /\ b[1] % 64 = h /\ b # <<>>
  BY FirstByte, SMT
<1> QED
  BY <1>1, SMT DEF ReadVarIntValue

(* Reading a number of each length in front of a buffer. *)
LEMMA RoundTrip1 ==
    ASSUME NEW h \in 0 .. 63, NEW rest \in Seq(Byte)
    PROVE  ReadVarIntValue(<<h>> \o rest) =
              [value |-> h, rest |-> rest]
<1> DEFINE e == <<h>>
           b == e \o rest
<1>1. e \in Seq(Byte) /\ Len(e) = 1 /\ 1 \in Nat
  BY SMT DEF Byte
<1>2. e[1] = h
  BY SMT
<1> HIDE DEF e
<1>3. b \in Seq(Byte) /\ Len(b) >= 1 /\ Rest(b, 1) = rest /\ (\A j \in 1 .. 1 : b[j] = e[j])
  BY <1>1, Front, Zenon
<1> HIDE DEF b
<1>4. b[1] = h
  BY <1>2, <1>3, SMT
<1>5. ReadVarIntValue(b) = [value |-> h, rest |-> rest]
  BY <1>3, <1>4, Read1, Zenon
<1> QED
  BY <1>5 DEF b, e

LEMMA RoundTrip2 ==
    ASSUME NEW h \in 0 .. 63, NEW b2 \in Byte, NEW rest \in Seq(Byte)
    PROVE  ReadVarIntValue(<<64 + h, b2>> \o rest) =
              [value |-> h * 256 + b2, rest |-> rest]
<1> DEFINE e == <<64 + h, b2>>
           b == e \o rest
<1>1. e \in Seq(Byte) /\ Len(e) = 2 /\ 2 \in Nat
  BY SMT DEF Byte
<1>2. e[1] = 64 + h /\ e[2] = b2
  BY SMT
<1> HIDE DEF e
<1>3. b \in Seq(Byte) /\ Len(b) >= 2 /\ Rest(b, 2) = rest /\ (\A j \in 1 .. 2 : b[j] = e[j])
  BY <1>1, Front, Zenon
<1> HIDE DEF b
<1>4. b[1] = 64 + h /\ b[2] = b2
  BY <1>2, <1>3, SMT
<1>5. ReadVarIntValue(b) = [value |-> h * 256 + b2, rest |-> rest]
  BY <1>3, <1>4, Read2, SMT
<1> QED
  BY <1>5 DEF b, e

LEMMA RoundTrip4 ==
    ASSUME NEW i, NEW rest \in Seq(Byte),
           \E h \in 0 .. 63, b2 \in Byte, b3 \in Byte, b4 \in Byte :
              /\ i = ((h * 256 + b2) * 256 + b3) * 256 + b4
              /\ EncodeVarInt(i) = <<128 + h, b2, b3, b4>>
    PROVE  ReadVarIntValue(EncodeVarInt(i) \o rest) = [value |-> i, rest |-> rest]
<1>1. PICK h \in 0 .. 63, b2 \in Byte, b3 \in Byte, b4 \in Byte :
              /\ i = ((h * 256 + b2) * 256 + b3) * 256 + b4
              /\ EncodeVarInt(i) = <<128 + h, b2, b3, b4>>
  OBVIOUS
<1> DEFINE e == <<128 + h, b2, b3, b4>>
           b == e \o rest
<1>2. e \in Seq(Byte) /\ Len(e) = 4 /\ 4 \in Nat
  BY SMT DEF Byte
<1>3. e[1] = 128 + h /\ e[2] = b2 /\ e[3] = b3 /\ e[4] = b4
  BY SMT
<1> HIDE DEF e
<1>4. b \in Seq(Byte) /\ Len(b) >= 4 /\ Rest(b, 4) = rest /\ (\A j \in 1 .. 4 : b[j] = e[j])
  BY <1>2, Front, Zenon
<1> HIDE DEF b
<1>5. b[1] = 128 + h /\ b[2] = b2 /\ b[3] = b3 /\ b[4] = b4
  BY <1>3, <1>4, SMT
<1>6. b[1] \div 64 = 2 /\ b[1] % 64 = h /\ b # <<>>
  BY <1>4, <1>5, FirstByte, SMT
<1>7. ReadVarIntValue(b) = [value |-> ((h * 256 + b[2]) * 256 + b[3]) * 256 + b[4],
                              rest |-> Rest(b, 4)]
  BY <1>4, <1>6, SMTT(60) DEF ReadVarIntValue
<1>8. ReadVarIntValue(b) = [value |-> ((h * 256 + b2) * 256 + b3) * 256 + b4, rest |-> rest]
  BY <1>4, <1>5, <1>7, Zenon
<1>9. EncodeVarInt(i) \o rest = b
  BY <1>1 DEF b, e
<1> QED
  BY <1>1, <1>8, <1>9, Zenon

(***************************************************************************)
(* ReadVarIntValue reads back every number below 2^30 that EncodeVarInt    *)
(* writes at the front of a buffer, and leaves the rest of it to the next  *)
(* read.                                                                   *)
(***************************************************************************)
THEOREM VarIntRoundTrip ==
    ASSUME NEW i \in 0 .. maxVarInt4, NEW rest \in Seq(Byte)
    PROVE  ReadVarIntValue(EncodeVarInt(i) \o rest) = [value |-> i, rest |-> rest]
<1>0. i \in Nat
  BY SMT
<1>p0. PICK i1 \in Nat, d0 \in Byte : i1 = Shift(i) /\ d0 = i % 256 /\ i = i1 * 256 + d0
  BY <1>0, Split, Zenon
<1>p1. PICK i2 \in Nat, d1 \in Byte : i2 = Shift(i1) /\ d1 = i1 % 256 /\ i1 = i2 * 256 + d1
  BY Split, Zenon
<1>p2. PICK i3 \in Nat, d2 \in Byte : i3 = Shift(i2) /\ d2 = i2 % 256 /\ i2 = i3 * 256 + d2
  BY Split, Zenon
<1>1. i = i1 * 256 + d0 /\ i1 = i2 * 256 + d1 /\ i2 = i3 * 256 + d2
  BY <1>p0, <1>p1, <1>p2
<1>3. /\ Shift(i) = i1 /\ Shift(i1) = i2 /\ Shift(i2) = i3
      /\ i % 256 = d0 /\ i1 % 256 = d1 /\ i2 % 256 = d2
  BY <1>p0, <1>p1, <1>p2
<1>4. CASE i <= maxVarInt1
  <2>1. i \in 0 .. 63
    BY <1>0, <1>4, SMT DEF maxVarInt1
  <2>2. EncodeVarInt(i) = <<i>>
    BY <1>4 DEF EncodeVarInt
  <2> QED
    BY <2>1, <2>2, RoundTrip1
<1>5. CASE ~ (i <= maxVarInt1) /\ i <= maxVarInt2
  <2>1. i1 \in 0 .. 63
    BY <1>0, <1>1, <1>5, SMT DEF Byte, maxVarInt2
  <2>2. EncodeVarInt(i) = <<64 + i1, d0>>
    BY <1>3, <1>5, Zenon DEF EncodeVarInt
  <2>3. ReadVarIntValue(<<64 + i1, d0>> \o rest) = [value |-> i1 * 256 + d0, rest |-> rest]
    BY <2>1, RoundTrip2, Zenon
  <2>4. i = i1 * 256 + d0
    BY <1>1
  <2> QED
    BY <2>2, <2>3, <2>4, Zenon
<1>6. CASE ~ (i <= maxVarInt1) /\ ~ (i <= maxVarInt2) /\ i <= maxVarInt4
  <2>1. i3 \in 0 .. 63
    BY <1>0, <1>3, <1>6, FourBytes, Zenon
  <2>2. EncodeVarInt(i) = <<128 + i3, d2, d1, d0>>
    BY <1>3, <1>6, Zenon DEF EncodeVarInt
  <2>3. i = ((i3 * 256 + d2) * 256 + d1) * 256 + d0
    BY <1>1, Zenon
  <2>4. \E h \in 0 .. 63, b2 \in Byte, b3 \in Byte, b4 \in Byte :
              /\ i = ((h * 256 + b2) * 256 + b3) * 256 + b4
              /\ EncodeVarInt(i) = <<128 + h, b2, b3, b4>>
    <3>1. WITNESS i3 \in 0 .. 63, d2 \in Byte, d1 \in Byte, d0 \in Byte
    <3> QED
      BY <2>2, <2>3, Zenon
  <2> QED
    BY <2>4, RoundTrip4, Zenon
<1> QED
  BY <1>4, <1>5, <1>6

(***************************************************************************)
(* A packet number survives Truncate and Join exactly when its high bits   *)
(* are those of the largest number received: Join has no window, so a      *)
(* packet just past a multiple of 2^(8 n) is read as an old one.           *)
(***************************************************************************)
THEOREM JoinExactInEpoch ==
    ASSUME NEW p \in Nat, NEW la \in Nat, NEW r \in Nat, CanTruncate(p, la)
    PROVE  LET s == Span(Truncate(p, la).Length)
           IN  Join(Truncate(p, la), r) = p <=> p \div s = r \div s
<1> DEFINE n == BytesOf(p - la + 1)
<1>1. n \in 1 .. 4
  BY SMT DEF CanTruncate, BytesOf
<1>2. Truncate(p, la).Length = n /\ Truncate(p, la).Value = p % Span(n)
  BY SMT DEF Truncate
<1> HIDE DEF n
<1>3. (r \div Span(n)) * Span(n) + (p % Span(n)) = p <=> p \div Span(n) = r \div Span(n)
  <2>1. CASE n = 1
    BY <2>1, SMT DEF Span
  <2>2. CASE n = 2
    BY <2>2, SMT DEF Span
  <2>3. CASE n = 3
    BY <2>3, SMT DEF Span
  <2>4. CASE n = 4
    BY <2>4, SMT DEF Span
  <2> QED
    BY <1>1, <2>1, <2>2, <2>3, <2>4, SMT
<1> QED
  BY <1>2, <1>3, SMT DEF Join

(***************************************************************************)
(* The padding of the first Initial packet, for every header, ClientHello  *)
(* and minimum: the datagram is at most one byte short of the minimum,     *)
(* and no longer than the minimum when there was something to pad.  The    *)
(* header has h bytes around its Length field, pn of them the packet       *)
(* number; Length covers the packet number, the payload and the overhead.  *)
(***************************************************************************)
THEOREM InitialIsPadded ==
    ASSUME NEW min \in 0 .. 16000, NEW h \in Nat, NEW pn \in 1 .. 4, NEW overhead \in Nat,
           NEW p \in Nat, NEW padding \in Int, NEW padded \in Nat, NEW datagram \in Nat,
           padding = PaddingLength(min, h + 1, p, overhead),
           padded = IF padding > 0 THEN p + padding ELSE p,
           datagram = h + VarIntLen(pn + padded + overhead) + padded + overhead
    PROVE  /\ datagram >= min - 1
           /\ padding > 0 => datagram <= min
  BY SMT DEF PaddingLength, VarIntLen, maxVarInt1, maxVarInt2, maxVarInt4
=============================================================================
