----------------------- MODULE SegmentedStreamProofs -----------------------
(* Proofs about SegmentedStream, for any number of segments of any lengths. *)
EXTENDS SegmentedStream, StreamProofs

(* A segment as an interval, and its place among the boundaries. *)
LEMMA HoleFacts ==
    ASSUME NEW i \in 1 .. N
    PROVE  /\ i - 1 \in 0 .. N /\ i \in 0 .. N
           /\ Boundary[i - 1] \in Nat /\ Boundary[i] \in Nat
           /\ Boundary[i - 1] < Boundary[i]
           /\ Hole(i) \in Interval
           /\ Hole(i).start = Boundary[i - 1] /\ Hole(i).end = Boundary[i]
  BY SegmentsAssumption DEF Hole, byteInterval, Interval

(* Boundaries are in the order of the segments. *)
LEMMA BoundaryOrder ==
    ASSUME NEW i \in 0 .. N, NEW j \in 0 .. N
    PROVE  /\ Boundary[i] \in Nat
           /\ i < j <=> Boundary[i] < Boundary[j]
           /\ i = j <=> Boundary[i] = Boundary[j]
  BY SegmentsAssumption

(* Segments are listed in the order of their numbers, and only neighbours touch. *)
LEMMA HoleOrder ==
    ASSUME NEW i \in 1 .. N, NEW j \in 1 .. N
    PROVE  /\ Precedes(Hole(i), Hole(j)) <=> i < j
           /\ i + 1 < j => ~Overlap(Hole(i), Hole(j)) /\ ~Overlap(Hole(j), Hole(i))
           /\ Hole(i) = Hole(j) => i = j
<1>1. /\ Boundary[i - 1] \in Nat /\ Boundary[i] \in Nat /\ Boundary[i - 1] < Boundary[i]
      /\ Hole(i).start = Boundary[i - 1] /\ Hole(i).end = Boundary[i]
      /\ Boundary[j - 1] \in Nat /\ Boundary[j] \in Nat /\ Boundary[j - 1] < Boundary[j]
      /\ Hole(j).start = Boundary[j - 1] /\ Hole(j).end = Boundary[j]
  BY HoleFacts
<1>2. i < j <=> Boundary[i - 1] < Boundary[j - 1]
  <2>1. i - 1 \in 0 .. N /\ j - 1 \in 0 .. N /\ (i < j <=> i - 1 < j - 1)
    BY SegmentsAssumption
  <2> QED
    BY <2>1, BoundaryOrder
<1>3. i = j <=> Boundary[i - 1] = Boundary[j - 1]
  <2>1. i - 1 \in 0 .. N /\ j - 1 \in 0 .. N /\ (i = j <=> i - 1 = j - 1)
    BY SegmentsAssumption
  <2> QED
    BY <2>1, BoundaryOrder
<1>4. i + 1 < j => Boundary[i] < Boundary[j - 1]
  <2>1. i \in 0 .. N /\ j - 1 \in 0 .. N /\ (i + 1 < j => i < j - 1)
    BY SegmentsAssumption
  <2> QED
    BY <2>1, BoundaryOrder
<1>5. Precedes(Hole(i), Hole(j)) <=> i < j
  BY <1>1, <1>2, <1>3 DEF Precedes
<1>6. i + 1 < j => ~Overlap(Hole(i), Hole(j)) /\ ~Overlap(Hole(j), Hole(i))
  BY <1>1, <1>4 DEF Overlap
<1> QED
  BY <1>1, <1>3, <1>5, <1>6

(* Filling a segment removes that gap and leaves every other one as it is. *)
LEMMA ExcludeSegment ==
    ASSUME NEW i \in 1 .. N, NEW j \in 1 .. N, Overlap(Hole(i), Hole(j))
    PROVE  Exclude(Hole(j), Hole(i)) = IF i = j THEN {} ELSE {Hole(j)}
<1>1. /\ Boundary[i - 1] \in Nat /\ Boundary[i] \in Nat /\ Boundary[i - 1] < Boundary[i]
      /\ Hole(i).start = Boundary[i - 1] /\ Hole(i).end = Boundary[i]
      /\ Boundary[j - 1] \in Nat /\ Boundary[j] \in Nat /\ Boundary[j - 1] < Boundary[j]
      /\ Hole(j).start = Boundary[j - 1] /\ Hole(j).end = Boundary[j]
  BY HoleFacts
<1>2. i = j \/ i = j + 1 \/ j = i + 1
  <2>1. ~(i + 1 < j) /\ ~(j + 1 < i)
    BY HoleOrder
  <2> QED
    BY <2>1
<1>3. CASE i = j
  BY <1>1, <1>3 DEF Exclude
<1>4. CASE i = j + 1
  <2>1. Hole(i).start = Hole(j).end
    BY <1>1, <1>4
  <2>2. Exclude(Hole(j), Hole(i)) = {byteInterval(Hole(j).start, Hole(i).start)}
    BY <1>1, <2>1 DEF Exclude
  <2>3. byteInterval(Hole(j).start, Hole(i).start) = Hole(j)
    BY <1>1, <2>1 DEF Hole, byteInterval
  <2>4. i # j
    BY <1>4
  <2> QED
    BY <2>2, <2>3, <2>4
<1>5. CASE j = i + 1
  <2>1. Hole(i).end = Hole(j).start
    BY <1>1, <1>5
  <2>2. Exclude(Hole(j), Hole(i)) = {byteInterval(Hole(i).end, Hole(j).end)}
    BY <1>1, <2>1 DEF Exclude
  <2>3. byteInterval(Hole(i).end, Hole(j).end) = Hole(j)
    BY <1>1, <2>1 DEF Hole, byteInterval
  <2>4. i # j
    BY <1>5
  <2> QED
    BY <2>2, <2>3, <2>4
<1> QED
  BY <1>2, <1>3, <1>4, <1>5

(* The same for the whole list of gaps. *)
LEMMA FilledSegment ==
    ASSUME NEW M \in SUBSET (1 .. N), NEW i \in 1 .. N
    PROVE  Filled({Hole(j) : j \in M}, Hole(i)) = {Hole(j) : j \in M \ {i}}
<1> DEFINE S == {Hole(j) : j \in M}
<1>1. ASSUME NEW x \in Filled(S, Hole(i)) PROVE \E j \in M \ {i} : x = Hole(j)
  <2>1. CASE x \in S /\ ~Overlap(Hole(i), x)
    <3>1. PICK j \in M : x = Hole(j)
      BY <2>1
    <3>2. Overlap(Hole(i), Hole(i))
      BY HoleFacts DEF Overlap
    <3> QED
      BY <2>1, <3>1, <3>2
  <2>2. CASE \E n \in S : Overlap(Hole(i), n) /\ x \in Exclude(n, Hole(i))
    <3>1. PICK j \in M : Overlap(Hole(i), Hole(j)) /\ x \in Exclude(Hole(j), Hole(i))
      BY <2>2
    <3> QED
      BY <3>1, ExcludeSegment
  <2> QED
    BY <2>1, <2>2 DEF Filled
<1>2. ASSUME NEW j \in M \ {i} PROVE Hole(j) \in Filled(S, Hole(i))
  <2>1. CASE Overlap(Hole(i), Hole(j))
    <3>1. Hole(j) \in Exclude(Hole(j), Hole(i))
      BY <2>1, ExcludeSegment
    <3> QED
      BY <2>1, <3>1 DEF Filled
  <2>2. CASE ~Overlap(Hole(i), Hole(j))
    BY <2>2 DEF Filled
  <2> QED
    BY <2>1, <2>2
<1> QED
  BY <1>1, <1>2

(* Gaps that do not touch are left alone by ensureConsistency. *)
LEMMA ConsistencySeparated ==
    ASSUME NEW M \in SUBSET (1 .. N), \A j \in M : j + 1 \notin M
    PROVE  ensureConsistency({Hole(j) : j \in M}) = {Hole(j) : j \in M}
<1> DEFINE S == {Hole(j) : j \in M}
<1>1. ASSUME NEW p \in M, NEW n \in M, Precedes(Hole(p), Hole(n))
      PROVE  ~Overlap(Hole(p), Hole(n))
  <2>1. p < n /\ p + 1 # n
    BY <1>1, HoleOrder
  <2> QED
    BY <2>1, HoleOrder
<1>2. GroupHeads(S) = S
  BY <1>1 DEF GroupHeads
<1>3. ASSUME NEW h \in M PROVE Group(S, Hole(h)) = {Hole(h)}
  <2>1. ASSUME NEW g \in M, Hole(g) \in Group(S, Hole(h)) PROVE g = h
    <3>1. ~(g < h)
      BY <2>1, HoleOrder DEF Group
    <3>2. ~(h < g)
      <4>1. Precedes(Hole(h), Hole(g)) => Precedes(Hole(g), Hole(g))
        BY <1>2, <2>1 DEF Group
      <4> QED
        BY <4>1, HoleOrder
    <3> QED
      BY <3>1, <3>2
  <2>2. Hole(h) \in Group(S, Hole(h))
    <3>1. ~Precedes(Hole(h), Hole(h))
      BY HoleOrder
    <3> QED
      BY <3>1 DEF Group
  <2>3. Group(S, Hole(h)) \subseteq S
    BY DEF Group
  <2> QED
    BY <2>1, <2>2, <2>3
<1>4. ASSUME NEW h \in M
      PROVE  /\ byteInterval(Hole(h).start, Hole(h).end) = Hole(h)
             /\ \A g \in Group(S, Hole(h)) : g = Hole(h)
             /\ Hole(h) \in Group(S, Hole(h))
             /\ \A o \in Group(S, Hole(h)) : o.end <= Hole(h).end
  <2>1. Hole(h).end \in Nat /\ byteInterval(Hole(h).start, Hole(h).end) = Hole(h)
    BY HoleFacts DEF Hole, byteInterval
  <2> QED
    BY <1>3, <2>1
<1>5. ASSUME NEW x \in ensureConsistency(S) PROVE x \in S
  <2>1. PICK h \in GroupHeads(S) : \E g \in Group(S, h) : x = byteInterval(h.start, g.end)
    BY DEF ensureConsistency
  <2>2. PICK j \in M : h = Hole(j)
    BY <1>2, <2>1
  <2> QED
    BY <1>4, <2>1, <2>2
<1>6. ASSUME NEW h \in M PROVE Hole(h) \in ensureConsistency(S)
  <2>1. Hole(h) \in GroupHeads(S)
    BY <1>2
  <2>2. Hole(h) \in {byteInterval(Hole(h).start, g.end) :
            g \in {g \in Group(S, Hole(h)) : \A o \in Group(S, Hole(h)) : o.end <= g.end}}
    BY <1>4
  <2> QED
    BY <2>1, <2>2 DEF ensureConsistency
<1> QED
  BY <1>5, <1>6

(* With a start below every other, the first gap is the lowest missing segment. *)
LEMMA FrontOfHoles ==
    ASSUME NEW M \in SUBSET (1 .. N), NEW m \in M, \A j \in M : m <= j
    PROVE  FrontStart({Hole(j) : j \in M}) = Boundary[m - 1]
<1> DEFINE S == {Hole(j) : j \in M}
<1>1. S \in SUBSET Interval /\ S # {}
  BY HoleFacts
<1>2. PICK g \in M : Hole(g).start = FrontStart(S)
  BY <1>1, FrontStartIsSmallest
<1>3. Boundary[g - 1] = FrontStart(S) /\ FrontStart(S) <= Boundary[m - 1]
  BY <1>1, <1>2, HoleFacts, FrontStartIsSmallest
<1>4. ~(m < g)
  <2>1. m - 1 \in 0 .. N /\ g - 1 \in 0 .. N /\ (m < g => m - 1 < g - 1)
    BY SegmentsAssumption
  <2>2. m < g => Boundary[m - 1] < Boundary[g - 1]
    BY <2>1, BoundaryOrder
  <2> QED
    BY <1>3, <2>1, <2>2, BoundaryOrder
<1>5. g = m
  BY <1>4
<1> QED
  BY <1>3, <1>5

(* The segments up to k hold every byte below the end of segment k. *)
LEMMA SegmentsCover ==
    ASSUME NEW A \in SUBSET (1 .. N), NEW k \in 0 .. N, 1 .. k \subseteq A,
           NEW x \in 0 .. (Boundary[k] - 1)
    PROVE  x \in UNION {Bytes(Hole(i)) : i \in A}
<1> DEFINE T == {i \in 0 .. N : x < Boundary[i]}
<1>1. Boundary[k] \in Nat /\ x \in Nat /\ x < Boundary[k]
  BY BoundaryOrder
<1>2. k \in T /\ T \in SUBSET Nat
  BY <1>1, SegmentsAssumption
<1>3. PICK m \in T : \A n \in T : m <= n
  BY <1>2, SmallestExists
<1>4. m \in 0 .. N /\ x < Boundary[m] /\ m <= k /\ m # 0
  BY <1>1, <1>2, <1>3, SegmentsAssumption
<1>5. m \in 1 .. N /\ m \in A /\ m - 1 \in 0 .. N
  BY <1>4, SegmentsAssumption
<1>6. Boundary[m - 1] <= x
  <2>1. m - 1 \notin T
    BY <1>3, <1>4
  <2> QED
    BY <1>1, <1>5, <2>1, BoundaryOrder
<1>7. x \in Bytes(Hole(m))
  BY <1>1, <1>4, <1>5, <1>6, HoleFacts DEF Bytes
<1> QED
  BY <1>5, <1>7
-----------------------------------------------------------------------------
(* A segment as the frame that carries it. *)
LEMMA SegmentFacts ==
    ASSUME NEW i \in 1 .. N
    PROVE  /\ Segment(i) \in Frames
           /\ Segment(i).Offset = Boundary[i - 1] /\ End(Segment(i)) = Boundary[i]
           /\ Segment(i).Length = Boundary[i] - Boundary[i - 1]
           /\ Segment(i).FinBit = (i = N)
           /\ byteInterval(Segment(i).Offset, End(Segment(i))) = Hole(i)
           /\ Boundary[i] < MaxUint64
<1>1. Boundary[i - 1] \in Nat /\ Boundary[i] \in Nat /\ Boundary[i - 1] < Boundary[i]
  BY HoleFacts
<1>2. /\ Segment(i).Offset = Boundary[i - 1]
      /\ Segment(i).Length = Boundary[i] - Boundary[i - 1]
      /\ Segment(i).FinBit = (i = N)
  BY DEF Segment
<1>3. End(Segment(i)) = Boundary[i]
  BY <1>1, <1>2 DEF End
<1>4. Segment(i) \in Frames
  BY SegmentsAssumption
<1> QED
  BY <1>2, <1>3, <1>4, FramesAssumption DEF End, Hole

(* Nothing has arrived on a new stream. *)
LEMMA SegInitInv == SegInit => SegInv
<1> SUFFICES ASSUME SegInit PROVE SegInvAt(0, 0)
  BY SegmentsAssumption DEF SegInv
<1> USE DEF SegInit, Init, NewStream
<1>1. 1 .. 0 = {} /\ 0 .. (0 - 1) = {}
  OBVIOUS
<1>2. N \in Nat \ {0} /\ Boundary[0] = 0
  BY SegmentsAssumption
<1>3. IsolatedLosses(arrived)
  BY DEF IsolatedLosses
<1>4. gaps = {Hole(i) : i \in (1 .. 0) \ arrived}
  BY <1>1
<1>5. ReadData = UNION {Bytes(Hole(i)) : i \in arrived}
  OBVIOUS
<1>6. delivered = 0 .. (ReadOffset - 1)
  BY <1>1
<1>7. ReadClosed = (0 = N)
  BY <1>2
<1> QED
  BY <1>1, <1>2, <1>3, <1>4, <1>5, <1>6, <1>7 DEF SegInvAt

(* What is common to the three branches of addToRead when segment i arrives. *)
LEMMA ArriveCommon ==
    ASSUME NEW h \in 0 .. N, NEW r \in 0 .. N, SegInvAt(h, r), NEW i \in 1 .. N, Arrive(i)
    PROVE  /\ arrived' = arrived \cup {i} /\ IsolatedLosses(arrived')
           /\ arrived' \in SUBSET (1 .. N)
           /\ r <= h
           /\ ReadData' = UNION {Bytes(Hole(j)) : j \in arrived'}
           /\ ReadCloseOffset' = IF N \in arrived' THEN Boundary[N] ELSE MaxUint64
<1> DEFINE f == Segment(i)
<1>1. arrived \subseteq 1 .. h /\ 1 .. r \subseteq arrived /\ h <= N
  BY DEF SegInvAt
<1>2. arrived' = arrived \cup {i} /\ IsolatedLosses(arrived') /\ addToRead(f)
  BY DEF Arrive
<1>3. arrived' \in SUBSET (1 .. N)
  BY <1>1, <1>2, SegmentsAssumption
<1>4. r <= h
  <2>1. CASE r = 0
    BY <2>1
  <2>2. CASE r # 0
    <3>1. r \in 1 .. r
      BY <2>2
    <3> QED
      BY <1>1, <3>1
  <2> QED
    BY <2>1, <2>2
<1>5. ReadData' = ReadData \cup Bytes(Hole(i))
  <2>1. CASE AppendInOrder(f)
    <3>1. /\ ReadDataLen = Boundary[h] /\ MaxReadReceived = Boundary[h]
          /\ f.Offset = MaxReadReceived
      BY <2>1 DEF SegInvAt, AppendInOrder
    <3>2. ReadDataLen = f.Offset /\ ReadDataLen + f.Length = End(f)
      BY <3>1 DEF End
    <3> QED
      BY <2>1, <3>2, SegmentFacts DEF AppendInOrder
  <2>2. CASE Extend(f)
    BY <2>2, SegmentFacts DEF Extend
  <2>3. CASE FillGaps(f)
    BY <2>3, SegmentFacts DEF FillGaps
  <2> QED
    BY <1>2, <2>1, <2>2, <2>3 DEF addToRead
<1>6. ReadData' = UNION {Bytes(Hole(j)) : j \in arrived'}
  BY <1>2, <1>5 DEF SegInvAt
<1>7. ReadCloseOffset' = IF N \in arrived' THEN Boundary[N] ELSE MaxUint64
  <2>1. CASE i = N
    BY <1>2, <2>1, SegmentFacts DEF SegInvAt, addToRead, SetCloseOffset
  <2>2. CASE i # N
    BY <1>2, <2>2, SegmentFacts DEF SegInvAt, addToRead, SetCloseOffset
  <2> QED
    BY <2>1, <2>2
<1> QED
  BY <1>2, <1>3, <1>4, <1>6, <1>7

(* The stream is closed exactly when the submitted prefix is all of it. *)
LEMMA ArriveCloses ==
    ASSUME NEW h \in 0 .. N, NEW r \in 0 .. N, SegInvAt(h, r), NEW i \in 1 .. N, Arrive(i),
           NEW q \in 0 .. N, r <= q, 1 .. q \subseteq arrived', ReadOffset' = Boundary[q]
    PROVE  ReadClosed' = (q = N)
<1>1. ReadClosed' = (ReadClosed \/ ReadOffset' = ReadCloseOffset')
  BY DEF Arrive, addToRead
<1>2. ReadClosed = (r = N)
  BY DEF SegInvAt
<1>3. N \in 1 .. N /\ N \in 0 .. N /\ N \in Nat
  BY SegmentsAssumption
<1>4. CASE N \in arrived'
  <2>1. ReadCloseOffset' = Boundary[N]
    BY <1>4, ArriveCommon
  <2>2. ReadOffset' = ReadCloseOffset' <=> q = N
    BY <1>3, <2>1, BoundaryOrder
  <2>3. r = N => q = N
    BY <1>3
  <2> QED
    BY <1>1, <1>2, <2>2, <2>3
<1>5. CASE N \notin arrived'
  <2>1. ReadCloseOffset' = MaxUint64
    BY <1>5, ArriveCommon
  <2>2. q # N /\ r # N
    BY <1>3, <1>5
  <2>3. Boundary[q] # MaxUint64
    <3>1. Boundary[q] <= Boundary[N]
      BY <1>3, BoundaryOrder
    <3>2. Boundary[N] < MaxUint64 /\ MaxUint64 \in Nat
      BY <1>3, SegmentFacts, FramesAssumption
    <3> QED
      BY <1>3, <3>1, <3>2, BoundaryOrder
  <2> QED
    BY <1>1, <1>2, <2>1, <2>2, <2>3
<1> QED
  BY <1>4, <1>5

(* A segment arriving in order when nothing is missing: appended and submitted. *)
LEMMA ArriveInOrder ==
    ASSUME NEW h \in 0 .. N, SegInvAt(h, h), h + 1 \in 1 .. N, Arrive(h + 1)
    PROVE  SegInvAt(h + 1, h + 1)'
<1> DEFINE i == h + 1
           f == Segment(i)
<1>1. /\ arrived \subseteq 1 .. h /\ 1 .. h \subseteq arrived
      /\ MaxReadReceived = Boundary[h] /\ ReadDataLen = Boundary[h]
      /\ ReadOffset = Boundary[h] /\ delivered = 0 .. (Boundary[h] - 1)
      /\ gaps = {Hole(j) : j \in (1 .. h) \ arrived}
      /\ ReadData = UNION {Bytes(Hole(j)) : j \in arrived}
  BY DEF SegInvAt
<1>2. f.Offset = Boundary[h] /\ f.Length = Boundary[i] - Boundary[h] /\ End(f) = Boundary[i]
  BY SegmentFacts
<1>3. Boundary[h] \in Nat /\ Boundary[i] \in Nat /\ Boundary[h] < Boundary[i]
  BY BoundaryOrder
<1>4. AppendInOrder(f)
  BY <1>1, <1>2, <1>3 DEF Arrive, addToRead, AppendInOrder, Extend, FillGaps
<1>5. arrived' = 1 .. i
  <2>1. arrived' = arrived \cup {i} /\ arrived = 1 .. h
    BY <1>1 DEF Arrive
  <2> QED
    BY <2>1
<1>6. /\ MaxReadReceived' = Boundary[i] /\ ReadDataLen' = Boundary[i]
      /\ ReadOffset' = Boundary[i] /\ gaps' = gaps
  BY <1>1, <1>2, <1>3, <1>4 DEF AppendInOrder, Submit
<1>7. gaps' = {Hole(j) : j \in (1 .. i) \ arrived'}
  BY <1>1, <1>5, <1>6
<1>8. delivered' = 0 .. (Boundary[i] - 1)
  <2>1. byteInterval(f.Offset, End(f)) = byteInterval(Boundary[h], Boundary[i])
    BY <1>2
  <2>2. delivered' = delivered \cup Bytes(byteInterval(Boundary[h], Boundary[i]))
    BY <1>4, <2>1 DEF AppendInOrder, Submit
  <2>3. delivered' = delivered \cup (Boundary[h] .. (Boundary[i] - 1))
    BY <2>2 DEF Bytes, byteInterval
  <2> QED
    BY <1>1, <1>3, <2>3
<1>9. ReadClosed' = (i = N)
  BY <1>5, <1>6, ArriveCloses
<1> QED
  BY <1>5, <1>6, <1>7, <1>8, <1>9, ArriveCommon DEF SegInvAt

(* No two adjacent segments below the highest one that has arrived are missing. *)
LEMMA MissingSeparated ==
    ASSUME NEW A \in SUBSET (1 .. N), IsolatedLosses(A), NEW h \in 0 .. N,
           h > 0 => h \in A, NEW j \in (1 .. h) \ A
    PROVE  j + 1 \notin (1 .. h) \ A
<1> SUFFICES ASSUME j + 1 \in (1 .. h) \ A PROVE FALSE
  OBVIOUS
<1>1. j \in 1 .. N - 1 /\ h > 0 /\ j < h
  BY SegmentsAssumption
<1> QED
  BY <1>1 DEF IsolatedLosses

(* A segment beyond the highest one, while something is missing or it is not the
   next one: at most one segment is skipped, and it becomes a gap of its own. *)
LEMMA ArriveBeyond ==
    ASSUME NEW h \in 0 .. N, NEW r \in 0 .. N, SegInvAt(h, r),
           NEW i \in 1 .. N, Arrive(i), i > h, ~(i = h + 1 /\ r = h)
    PROVE  SegInvAt(i, r)'
<1> DEFINE f == Segment(i)
           M == (1 .. h) \ arrived
<1>1. /\ arrived \subseteq 1 .. h /\ (h > 0 => h \in arrived) /\ 1 .. r \subseteq arrived
      /\ (r < N => r + 1 \notin arrived)
      /\ MaxReadReceived = Boundary[h] /\ ReadDataLen = Boundary[h]
      /\ ReadOffset = Boundary[r] /\ delivered = 0 .. (ReadOffset - 1)
      /\ gaps = {Hole(j) : j \in M}
  BY DEF SegInvAt
<1>2. f.Offset = Boundary[i - 1] /\ End(f) = Boundary[i]
  BY SegmentFacts
<1>3. arrived' = arrived \cup {i} /\ r <= h /\ IsolatedLosses(arrived')
  BY ArriveCommon
<1>4. Boundary[h] < Boundary[i] /\ Boundary[i] \in Nat /\ Boundary[h] \in Nat
  BY BoundaryOrder
<1>5. i - 1 \in 0 .. N /\ N \in Nat
  BY SegmentsAssumption
<1>6. Extend(f)
  <2>1. ~(f.Offset = ReadOffset /\ f.Offset = MaxReadReceived)
    BY <1>1, <1>2, <1>5, BoundaryOrder
  <2> QED
    BY <1>1, <1>2, <1>4, <2>1 DEF Arrive, addToRead, AppendInOrder, FillGaps
<1>7. i \in {h + 1, h + 2}
  <2> SUFFICES ASSUME i > h + 2 PROVE FALSE
    BY <1>5
  <2>1. h + 1 \in 1 .. N - 1 /\ h + 1 \notin arrived' /\ h + 2 \notin arrived'
    BY <1>1, <1>3, <1>5
  <2>2. i \in arrived' /\ ~(i < h + 1)
    BY <1>3
  <2> QED
    BY <1>3, <2>1, <2>2 DEF IsolatedLosses
<1>8. gaps' = {Hole(j) : j \in (1 .. i) \ arrived'}
  <2>1. CASE i = h + 1
    <3>1. (1 .. i) \ arrived' = M
      BY <1>1, <1>3, <2>1
    <3>2. ~(MaxReadReceived < f.Offset)
      BY <1>1, <1>2, <1>4, <2>1
    <3> QED
      BY <1>1, <1>6, <3>1, <3>2 DEF Extend
  <2>2. CASE i = h + 2
    <3>1. (1 .. i) \ arrived' = M \cup {h + 1}
      BY <1>1, <1>3, <2>2
    <3>2. MaxReadReceived < f.Offset /\ f.Offset = Boundary[h + 1]
      BY <1>1, <1>2, <1>5, <2>2, BoundaryOrder
    <3>3. byteInterval(MaxReadReceived, f.Offset) = Hole(h + 1)
      BY <1>1, <3>2 DEF Hole
    <3>4. gaps \cup {Hole(h + 1)} = {Hole(j) : j \in M \cup {h + 1}}
      BY <1>1
    <3>5. gaps' = ensureConsistency({Hole(j) : j \in M \cup {h + 1}})
      BY <1>6, <3>2, <3>3, <3>4 DEF Extend, Add
    <3>6. arrived' \in SUBSET (1 .. N) /\ i > 0 /\ i \in arrived' /\ i \in 0 .. N
      BY <1>3, ArriveCommon
    <3>7. \A j \in (1 .. i) \ arrived' : j + 1 \notin (1 .. i) \ arrived'
      BY <1>3, <3>6, MissingSeparated
    <3>8. M \cup {h + 1} \in SUBSET (1 .. N)
      BY <1>5, <2>2
    <3> QED
      BY <3>1, <3>5, <3>7, <3>8, ConsistencySeparated
  <2> QED
    BY <1>7, <2>1, <2>2
<1>9. /\ MaxReadReceived' = Boundary[i] /\ ReadDataLen' = Boundary[i]
      /\ ReadOffset' = Boundary[r] /\ delivered' = 0 .. (ReadOffset' - 1)
  BY <1>1, <1>2, <1>6 DEF Extend
<1>10. /\ arrived' \subseteq 1 .. i /\ i \in arrived'
       /\ 1 .. r \subseteq arrived' /\ (r < N => r + 1 \notin arrived')
  BY <1>1, <1>3, <1>5
<1>11. ReadClosed' = (r = N)
  BY <1>9, <1>10, ArriveCloses
<1> QED
  BY <1>8, <1>9, <1>10, <1>11, ArriveCommon DEF SegInvAt

(* A segment at or below the highest one, missing until now or a duplicate: its gap,
   if any, is filled and everything before the first remaining gap is submitted. *)
LEMMA ArriveBelow ==
    ASSUME NEW h \in 0 .. N, NEW r \in 0 .. N, SegInvAt(h, r),
           NEW i \in 1 .. N, Arrive(i), i <= h
    PROVE  \E q \in 0 .. N : SegInvAt(h, q)'
<1> DEFINE f == Segment(i)
           M == (1 .. h) \ arrived
           K == (1 .. h) \ arrived'
           firstGap == FirstGap(gaps')
<1>1. /\ arrived \subseteq 1 .. h /\ (h > 0 => h \in arrived) /\ 1 .. r \subseteq arrived
      /\ (r < N => r + 1 \notin arrived)
      /\ MaxReadReceived = Boundary[h] /\ ReadDataLen = Boundary[h]
      /\ ReadOffset = Boundary[r] /\ delivered = 0 .. (ReadOffset - 1)
      /\ gaps = {Hole(j) : j \in M}
  BY DEF SegInvAt
<1>2. f.Offset = Boundary[i - 1] /\ End(f) = Boundary[i]
      /\ byteInterval(f.Offset, End(f)) = Hole(i)
  BY SegmentFacts
<1>3. /\ arrived' = arrived \cup {i} /\ r <= h /\ IsolatedLosses(arrived')
      /\ arrived' \in SUBSET (1 .. N)
      /\ ReadData' = UNION {Bytes(Hole(j)) : j \in arrived'}
  BY ArriveCommon
<1>4. Boundary[i] <= Boundary[h] /\ Boundary[i - 1] < Boundary[h]
      /\ Boundary[i] \in Nat /\ Boundary[h] \in Nat /\ Boundary[r] \in Nat
  <2>1. i - 1 \in 0 .. N /\ i - 1 < h /\ i \in 0 .. N
    BY SegmentsAssumption
  <2> QED
    BY <2>1, BoundaryOrder
<1>5. FillGaps(f)
  BY <1>1, <1>2, <1>4 DEF Arrive, addToRead, AppendInOrder, Extend
<1>6. gaps' = {Hole(j) : j \in K}
  <2>1. M \in SUBSET (1 .. N) /\ K \in SUBSET (1 .. N) /\ K = M \ {i}
    BY <1>3, SegmentsAssumption
  <2>2. Filled(gaps, Hole(i)) = {Hole(j) : j \in K}
    BY <1>1, <2>1, FilledSegment
  <2>3. h > 0 => h \in arrived'
    BY <1>1, <1>3
  <2>4. \A j \in K : j + 1 \notin K
    BY <1>3, <2>3, MissingSeparated
  <2>5. ensureConsistency({Hole(j) : j \in K}) = {Hole(j) : j \in K}
    BY <2>1, <2>4, ConsistencySeparated
  <2> QED
    BY <1>2, <1>5, <2>2, <2>5 DEF FillGaps, Fill
<1>7. PICK q \in 0 .. N : /\ firstGap = Boundary[q] /\ q <= h
                          /\ 1 .. q \subseteq arrived' /\ (q < N => q + 1 \notin arrived')
  <2>1. CASE K = {}
    <3>1. gaps' = {}
      BY <1>6, <2>1
    <3>2. 1 .. h \subseteq arrived' /\ (h < N => h + 1 \notin arrived')
      BY <1>1, <1>3, <2>1
    <3> QED
      BY <1>1, <3>1, <3>2 DEF FirstGap
  <2>2. CASE K # {}
    <3>1. K \in SUBSET Nat /\ K \in SUBSET (1 .. N)
      BY SegmentsAssumption
    <3>2. PICK m \in K : \A n \in K : m <= n
      BY <2>2, <3>1, SmallestExists
    <3>3. gaps' # {}
      BY <1>6, <2>2
    <3>4. firstGap = Boundary[m - 1]
      BY <1>6, <3>1, <3>2, <3>3, FrontOfHoles DEF FirstGap
    <3>5. m \in 1 .. h /\ m \notin arrived' /\ m - 1 \in 0 .. N
      BY <3>2, SegmentsAssumption
    <3>6. 1 .. (m - 1) \subseteq arrived'
      <4> SUFFICES ASSUME NEW x \in 1 .. (m - 1), x \notin arrived' PROVE FALSE
        OBVIOUS
      <4>1. x \in K /\ x < m
        BY <3>5
      <4> QED
        BY <3>1, <3>2, <4>1
    <3>7. (m - 1) + 1 = m /\ m - 1 <= h
      BY <3>5
    <3> QED
      BY <3>4, <3>5, <3>6, <3>7
  <2> QED
    BY <2>1, <2>2
<1>8. r <= q
  <2> SUFFICES ASSUME q < r PROVE FALSE
    OBVIOUS
  <2>1. q + 1 \in 1 .. r /\ q < N
    BY SegmentsAssumption
  <2> QED
    BY <1>1, <1>3, <1>7, <2>1
<1>9. Boundary[q] \in Nat /\ Boundary[r] <= Boundary[q]
  BY <1>8, BoundaryOrder
<1>10. ReadOffset' = Boundary[q] /\ delivered' = 0 .. (Boundary[q] - 1)
  <2>1. CASE ReadOffset < firstGap
    <3>1. Submit(ReadOffset, firstGap, ReadData') /\ ReadOffset' = firstGap
      BY <1>5, <2>1 DEF FillGaps
    <3>2. delivered' = delivered \cup (ReadData' \cap Bytes(byteInterval(Boundary[r], Boundary[q])))
      BY <1>1, <1>7, <3>1 DEF Submit
    <3>3. delivered' = delivered \cup (ReadData' \cap (Boundary[r] .. (Boundary[q] - 1)))
      BY <3>2 DEF Bytes, byteInterval
    <3>4. \A x \in 0 .. (Boundary[q] - 1) : x \in ReadData'
      BY <1>3, <1>7, SegmentsCover
    <3> QED
      BY <1>1, <1>4, <1>7, <1>9, <3>1, <3>3, <3>4
  <2>2. CASE ~(ReadOffset < firstGap)
    <3>1. ReadOffset' = ReadOffset /\ delivered' = delivered
      BY <1>5, <2>2 DEF FillGaps
    <3> QED
      BY <1>1, <1>4, <1>7, <1>9, <2>2, <3>1
  <2> QED
    BY <2>1, <2>2
<1>11. MaxReadReceived' = Boundary[h] /\ ReadDataLen' = Boundary[h]
  BY <1>1, <1>5 DEF FillGaps
<1>12. arrived' \subseteq 1 .. h /\ (h > 0 => h \in arrived')
  BY <1>1, <1>3
<1>13. ReadClosed' = (q = N)
  BY <1>7, <1>8, <1>10, ArriveCloses
<1>14. SegInvAt(h, q)'
  BY <1>3, <1>6, <1>7, <1>10, <1>11, <1>12, <1>13, ArriveCommon DEF SegInvAt
<1> QED
  BY <1>14

(* Each arrival keeps the gaps the missing segments. *)
LEMMA SegNextInv == SegInv /\ [SegNext]_svars => SegInv'
<1> SUFFICES ASSUME SegInv, [SegNext]_svars PROVE SegInv'
  OBVIOUS
<1>1. PICK h \in 0 .. N, r \in 0 .. N : SegInvAt(h, r)
  BY DEF SegInv
<1>2. CASE UNCHANGED svars
  <2>1. SegInvAt(h, r)'
    BY <1>1, <1>2 DEF svars, vars, SegInvAt
  <2> QED
    BY <2>1 DEF SegInv
<1>3. ASSUME NEW i \in 1 .. N, Arrive(i) PROVE SegInv'
  <2>1. CASE i <= h
    BY <1>1, <1>3, <2>1, ArriveBelow DEF SegInv
  <2>2. CASE i > h /\ ~(i = h + 1 /\ r = h)
    <3>1. SegInvAt(i, r)' /\ i \in 0 .. N
      BY <1>1, <1>3, <2>2, ArriveBeyond
    <3> QED
      BY <3>1 DEF SegInv
  <2>3. CASE i = h + 1 /\ r = h
    <3>1. SegInvAt(h + 1, h + 1)' /\ h + 1 \in 0 .. N
      BY <1>1, <1>3, <2>3, ArriveInOrder
    <3> QED
      BY <3>1 DEF SegInv
  <2> QED
    BY <2>1, <2>2, <2>3
<1> QED
  BY <1>2, <1>3 DEF SegNext

(* However many segments the data has and wherever they are cut, the gap list
   addToRead keeps is exactly the segments still missing. *)
THEOREM SegInvHolds == SegSpec => []SegInv
  BY SegInitInv, SegNextInv, PTL DEF SegSpec

(* ... and so addToRead has submitted, intact, exactly the segments before the
   first missing one, and has closed the stream exactly when none is missing. *)
THEOREM DeliversArrivedPrefixHolds == SegSpec => []DeliversArrivedPrefix
<1>1. SegInv => DeliversArrivedPrefix
  <2> SUFFICES ASSUME SegInv PROVE DeliversArrivedPrefix
    OBVIOUS
  <2>1. PICK h \in 0 .. N, r \in 0 .. N : SegInvAt(h, r)
    BY DEF SegInv
  <2>2. ReadClosed <=> 1 .. N \subseteq arrived
    <3>1. 1 .. r \subseteq arrived /\ (r < N => r + 1 \notin arrived) /\ ReadClosed = (r = N)
      BY <2>1 DEF SegInvAt
    <3>2. r < N => r + 1 \in 1 .. N
      BY SegmentsAssumption
    <3>3. r < N \/ r = N
      BY SegmentsAssumption
    <3> QED
      BY <3>1, <3>2, <3>3
  <2> QED
    BY <2>1, <2>2 DEF DeliversArrivedPrefix, SegInvAt
<1> QED
  BY <1>1, SegInvHolds, PTL
=============================================================================
