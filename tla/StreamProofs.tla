---------------------------- MODULE StreamProofs ----------------------------
(* Proofs about Stream, for any set of frames the peer may send. *)
EXTENDS Stream, WellFoundedInduction, TLAPS

(* A set of natural numbers that is not empty has a smallest element. *)
LEMMA SmallestExists ==
    ASSUME NEW T \in SUBSET Nat, T # {}
    PROVE  \E m \in T : \A n \in T : m <= n
<1>1. IsWellFoundedOn(OpToRel(<, Nat), Nat)
  BY NatLessThanWellFounded, Zenon
<1>2. PICK m \in T : \A n \in T : ~(<<n, m>> \in OpToRel(<, Nat))
  BY <1>1, WFMin, Zenon
<1>3. ASSUME NEW n \in T PROVE m <= n
  <2>1. m \in Nat /\ n \in Nat
    OBVIOUS
  <2>2. ~(n < m)
    BY <1>2, <2>1 DEF OpToRel
  <2> QED
    BY <2>1, <2>2
<1> QED
  BY <1>3

(* FrontStart is the start of an interval of the set, and the smallest one. *)
LEMMA FrontStartIsSmallest ==
    ASSUME NEW S \in SUBSET Interval, S # {}
    PROVE  /\ \E g \in S : g.start = FrontStart(S)
           /\ \A g \in S : FrontStart(S) <= g.start
           /\ FrontStart(S) \in Nat
<1> DEFINE T == {g.start : g \in S}
<1>1. T \in SUBSET Nat /\ T # {}
  BY DEF Interval
<1>2. \E m \in T : \A n \in T : m <= n
  BY <1>1, SmallestExists
<1>3. \E m \in T : \A g \in S : m <= g.start
  BY <1>2
<1>4. /\ FrontStart(S) \in T
      /\ \A g \in S : FrontStart(S) <= g.start
  BY <1>3 DEF FrontStart
<1> QED
  BY <1>1, <1>4

(* ensureConsistency only combines starts and ends it is given. *)
LEMMA ConsistencyKeepsEnds ==
    ASSUME NEW S \in SUBSET Interval
    PROVE  /\ ensureConsistency(S) \in SUBSET Interval
           /\ \A c \in ensureConsistency(S) :
                  \E h, g \in S : c.start = h.start /\ c.end = g.end
  BY DEF ensureConsistency, GroupHeads, Group, Interval, byteInterval

(* What Exclude leaves of a gap stays between the bounds of the gap and of the
   filled interval. *)
LEMMA ExcludeWithin ==
    ASSUME NEW m \in Nat,
           NEW b \in Interval, b.start <= m, b.end <= m,
           NEW o \in Interval, o.start <= o.end, o.end <= m,
           NEW x \in Exclude(b, o)
    PROVE  x \in Interval /\ x.start <= m /\ x.end <= m
<1>1. b.start \in Nat /\ b.end \in Nat /\ o.start \in Nat /\ o.end \in Nat
  BY DEF Interval
<1>2. CASE o.start > b.start /\ o.end < b.end
  <2>1. \/ x = byteInterval(b.start, o.start - 1)
        \/ x = byteInterval(o.end + 1, b.end)
    BY <1>2 DEF Exclude
  <2> QED
    BY <1>1, <1>2, <2>1 DEF byteInterval, Interval
<1>3. CASE ~(o.start > b.start /\ o.end < b.end) /\ o.start <= b.start /\ o.end < b.end
  <2>1. x = byteInterval(o.end, b.end)
    BY <1>3 DEF Exclude
  <2> QED
    BY <1>1, <1>3, <2>1 DEF byteInterval, Interval
<1>4. CASE o.end > b.end
  <2>1. x = byteInterval(b.start, o.start)
    BY <1>1, <1>4 DEF Exclude
  <2> QED
    BY <1>1, <1>4, <2>1 DEF byteInterval, Interval
<1>5. CASE o.end = b.end
  <2>1. Exclude(b, o) = {}
    BY <1>1, <1>5 DEF Exclude
  <2> QED
    BY <2>1
<1> QED
  BY <1>1, <1>2, <1>3, <1>4, <1>5

(* Both operations on the gap list keep it below a bound it is given. *)
GapsBelow(S, m) == \A g \in S : g.start <= m /\ g.end <= m

(* Merging gaps, *)
LEMMA ConsistencyBelow ==
    ASSUME NEW S \in SUBSET Interval, NEW m \in Nat, GapsBelow(S, m)
    PROVE  ensureConsistency(S) \in SUBSET Interval /\ GapsBelow(ensureConsistency(S), m)
  BY ConsistencyKeepsEnds DEF GapsBelow

(* adding one *)
LEMMA AddBelow ==
    ASSUME NEW S \in SUBSET Interval, NEW m \in Nat, GapsBelow(S, m),
           NEW b \in Interval, b.start <= m, b.end <= m
    PROVE  Add(S, b) \in SUBSET Interval /\ GapsBelow(Add(S, b), m)
<1>1. S \cup {b} \in SUBSET Interval /\ GapsBelow(S \cup {b}, m)
  BY DEF GapsBelow
<1> QED
  BY <1>1, ConsistencyBelow DEF Add

(* and filling some leave all gaps below a bound they were below. *)
LEMMA FillBelow ==
    ASSUME NEW S \in SUBSET Interval, NEW m \in Nat, GapsBelow(S, m),
           NEW b \in Interval, b.start <= b.end, b.end <= m
    PROVE  Fill(S, b) \in SUBSET Interval /\ GapsBelow(Fill(S, b), m)
<1>1. ASSUME NEW x \in Filled(S, b)
      PROVE  x \in Interval /\ x.start <= m /\ x.end <= m
  <2>1. CASE x \in S
    BY <2>1 DEF GapsBelow
  <2>2. CASE \E n \in S : x \in Exclude(n, b)
    <3>1. PICK n \in S : x \in Exclude(n, b)
      BY <2>2
    <3>2. n \in Interval /\ n.start <= m /\ n.end <= m
      BY DEF GapsBelow
    <3> QED
      BY <3>1, <3>2, ExcludeWithin
  <2> QED
    BY <2>1, <2>2 DEF Filled
<1>2. Filled(S, b) \in SUBSET Interval /\ GapsBelow(Filled(S, b), m)
  BY <1>1 DEF GapsBelow
<1> QED
  BY <1>2, ConsistencyBelow DEF Fill
-----------------------------------------------------------------------------
(* The bounds that hold of every reachable state, with the final size. *)
Inv ==
    /\ TypeOK
    /\ SlicesInBounds
    /\ ReadClosed => ReadOffset >= ReadCloseOffset
    /\ ReadCloseOffset # MaxUint64 => \E f \in Frames : f.FinBit /\ ReadCloseOffset = End(f)
    /\ MaxReadReceived # 0 => \E f \in Frames : MaxReadReceived <= End(f)

(* A stream NewStream returns satisfies the invariant. *)
LEMMA InitInv == Init => Inv
<1> SUFFICES ASSUME Init PROVE Inv
  OBVIOUS
<1> USE DEF Init, NewStream
<1>1. TypeOK
  BY FramesAssumption DEF TypeOK
<1>2. SlicesInBounds
  BY DEF SlicesInBounds
<1> QED
  BY <1>1, <1>2 DEF Inv

(* The positions of an interval that ends by m are positions below m. *)
LEMMA BytesBelow ==
    ASSUME NEW s \in Nat, NEW e \in Nat, NEW m \in Nat, e <= m
    PROVE  /\ Bytes(byteInterval(s, e)) = s .. (e - 1)
           /\ \A x \in Bytes(byteInterval(s, e)) : x \in Nat /\ x \in 0 .. (m - 1)
  BY DEF Bytes, byteInterval

(* The part of a frame's handling that the three branches of addToRead share:
   the buffer and the chunk submitted. *)
LEMMA BranchInv ==
    ASSUME Inv, NEW f \in Frames, AppendInOrder(f) \/ Extend(f) \/ FillGaps(f)
    PROVE  /\ ReadOffset' \in Nat /\ MaxReadReceived' \in Nat
           /\ ReadData' \in SUBSET Nat /\ ReadDataLen' \in Nat
           /\ gaps' \in SUBSET Interval
           /\ ReadChan' \in [start : Nat, end : Nat, data : SUBSET Nat]
           /\ delivered' \in SUBSET Nat
           /\ SlicesInBounds'
           /\ ReadOffset <= ReadOffset'
           /\ ReadChan' # ReadChan => ReadChan'.start = ReadChan.end
           /\ MaxReadReceived' = MaxReadReceived \/ MaxReadReceived' = End(f)
<1> DEFINE b == byteInterval(f.Offset, End(f))
<1>1. /\ f.Offset \in Nat /\ f.Length \in Nat /\ End(f) \in Nat
      /\ End(f) = f.Offset + f.Length
  BY FramesAssumption DEF End
<1>2. b \in Interval /\ b.start = f.Offset /\ b.end = End(f) /\ b.start <= b.end
  BY <1>1 DEF byteInterval, Interval
<1>3. /\ ReadOffset \in Nat /\ MaxReadReceived \in Nat /\ ReadDataLen = MaxReadReceived
      /\ ReadOffset <= MaxReadReceived
      /\ gaps \in SUBSET Interval /\ GapsBelow(gaps, MaxReadReceived)
      /\ ReadData \in SUBSET Nat /\ ReadData \subseteq 0 .. (ReadDataLen - 1)
      /\ ReadChan \in [start : Nat, end : Nat, data : SUBSET Nat]
      /\ ReadChan.end = ReadOffset /\ delivered \in SUBSET Nat
  BY DEF Inv, TypeOK, SlicesInBounds, GapsBelow
<1>4. ASSUME NEW m \in Nat, MaxReadReceived <= m, End(f) <= m
      PROVE  \A x \in ReadData \cup Bytes(b) : x \in Nat /\ x \in 0 .. (m - 1)
  <2>1. \A x \in Bytes(b) : x \in Nat /\ x \in 0 .. (m - 1)
    BY <1>1, <1>4, BytesBelow
  <2>2. \A x \in ReadData : x \in Nat /\ x \in 0 .. (m - 1)
    BY <1>3, <1>4
  <2> QED
    BY <2>1, <2>2
<1>5. CASE AppendInOrder(f)
  <2>1. /\ ReadOffset' = End(f) /\ MaxReadReceived' = End(f)
        /\ ReadDataLen' = End(f) /\ gaps' = gaps
    BY <1>1, <1>3, <1>5 DEF AppendInOrder
  <2>2. Bytes(byteInterval(ReadDataLen, ReadDataLen + f.Length)) = Bytes(b)
    BY <1>1, <1>3, <1>5 DEF AppendInOrder
  <2>3. ReadData' \in SUBSET Nat /\ ReadData' \subseteq 0 .. (ReadDataLen' - 1)
    <3>1. ReadData' = ReadData \cup Bytes(b)
      BY <1>5, <2>2 DEF AppendInOrder
    <3>2. MaxReadReceived <= End(f)
      BY <1>1, <1>3, <1>5 DEF AppendInOrder
    <3>3. \A x \in ReadData' : x \in Nat /\ x \in 0 .. (End(f) - 1)
      BY <1>1, <1>4, <3>1, <3>2
    <3> QED
      BY <2>1, <3>3
  <2>4. /\ ReadChan' \in [start : Nat, end : Nat, data : SUBSET Nat]
        /\ ReadChan'.start = f.Offset /\ ReadChan'.end = End(f)
        /\ delivered' \in SUBSET Nat
    <3>1. \A x \in Bytes(b) : x \in Nat
      BY <1>1, BytesBelow
    <3>2. Bytes(b) \cap Bytes(b) \in SUBSET Nat
      BY <3>1
    <3>3. /\ ReadChan' = [start |-> f.Offset, end |-> End(f), data |-> Bytes(b) \cap Bytes(b)]
          /\ delivered' = delivered \cup (Bytes(b) \cap Bytes(b))
      BY <1>5 DEF AppendInOrder, Submit
    <3> QED
      BY <1>1, <1>3, <3>2, <3>3
  <2>5. GapsBelow(gaps', MaxReadReceived')
    BY <1>1, <1>3, <1>5, <2>1 DEF AppendInOrder, GapsBelow, Interval
  <2> QED
    BY <1>1, <1>3, <1>5, <2>1, <2>3, <2>4, <2>5 DEF AppendInOrder, SlicesInBounds, GapsBelow
<1>6. CASE Extend(f)
  <2>1. /\ ReadOffset' = ReadOffset /\ MaxReadReceived' = End(f) /\ ReadDataLen' = End(f)
        /\ MaxReadReceived < End(f) /\ ReadChan' = ReadChan /\ delivered' = delivered
    BY <1>1, <1>3, <1>6 DEF Extend
  <2>2. ReadData' \in SUBSET Nat /\ ReadData' \subseteq 0 .. (ReadDataLen' - 1)
    <3>1. ReadData' = ReadData \cup Bytes(b)
      BY <1>6 DEF Extend
    <3>2. \A x \in ReadData' : x \in Nat /\ x \in 0 .. (End(f) - 1)
      BY <1>1, <1>3, <1>4, <2>1, <3>1
    <3> QED
      BY <2>1, <3>2
  <2>3. GapsBelow(gaps, End(f))
    BY <1>1, <1>3, <2>1 DEF GapsBelow, Interval
  <2>4. gaps' \in SUBSET Interval /\ GapsBelow(gaps', End(f))
    <3>1. CASE MaxReadReceived < f.Offset
      <4> DEFINE g == byteInterval(MaxReadReceived, f.Offset)
      <4>1. g \in Interval /\ g.start <= End(f) /\ g.end <= End(f)
        BY <1>1, <1>3, <3>1 DEF byteInterval, Interval
      <4>2. gaps' = Add(gaps, g)
        BY <1>6, <3>1 DEF Extend
      <4> QED
        BY <1>1, <1>3, <2>3, <4>1, <4>2, AddBelow
    <3>2. CASE ~(MaxReadReceived < f.Offset)
      BY <1>3, <1>6, <2>3, <3>2 DEF Extend
    <3> QED
      BY <3>1, <3>2
  <2> QED
    BY <1>1, <1>3, <2>1, <2>2, <2>4 DEF SlicesInBounds, GapsBelow
<1>7. CASE FillGaps(f)
  <2> DEFINE firstGap == FirstGap(gaps')
  <2>1. /\ MaxReadReceived' = MaxReadReceived /\ ReadDataLen' = ReadDataLen
        /\ End(f) <= MaxReadReceived
    BY <1>7 DEF FillGaps
  <2>2. gaps' \in SUBSET Interval /\ GapsBelow(gaps', MaxReadReceived)
    BY <1>2, <1>3, <1>7, <2>1, FillBelow DEF FillGaps
  <2>3. ReadData' \in SUBSET Nat /\ ReadData' \subseteq 0 .. (ReadDataLen' - 1)
    <3>1. ReadData' = ReadData \cup Bytes(b)
      BY <1>7 DEF FillGaps
    <3>2. \A x \in ReadData' : x \in Nat /\ x \in 0 .. (MaxReadReceived - 1)
      BY <1>1, <1>3, <1>4, <2>1, <3>1
    <3> QED
      BY <1>3, <2>1, <3>2
  <2>4. firstGap \in Nat /\ firstGap <= MaxReadReceived
    <3>1. CASE gaps' # {}
      BY <2>2, <3>1, FrontStartIsSmallest DEF GapsBelow, FirstGap
    <3>2. CASE gaps' = {}
      BY <1>3, <3>2 DEF FirstGap
    <3> QED
      BY <3>1, <3>2
  <2>5. CASE ReadOffset < firstGap
    <3>1. ReadOffset' = firstGap /\ Submit(ReadOffset, firstGap, ReadData')
      BY <1>7, <2>5 DEF FillGaps
    <3>2. /\ ReadChan' \in [start : Nat, end : Nat, data : SUBSET Nat]
          /\ ReadChan'.start = ReadOffset /\ ReadChan'.end = firstGap
          /\ delivered' \in SUBSET Nat
      BY <1>3, <2>3, <2>4, <3>1 DEF Submit
    <3> QED
      BY <1>1, <1>3, <2>1, <2>2, <2>3, <2>4, <2>5, <3>1, <3>2 DEF SlicesInBounds, GapsBelow
  <2>6. CASE ~(ReadOffset < firstGap)
    <3>1. ReadOffset' = ReadOffset /\ ReadChan' = ReadChan /\ delivered' = delivered
      BY <1>7, <2>6 DEF FillGaps
    <3> QED
      BY <1>1, <1>3, <2>1, <2>2, <2>3, <3>1 DEF SlicesInBounds, GapsBelow
  <2> QED
    BY <2>5, <2>6
<1> QED
  BY <1>5, <1>6, <1>7

(* What a call of addToRead does to the final size. *)
LEMMA CloseInv ==
    ASSUME Inv, NEW f \in Frames, addToRead(f)
    PROVE  /\ ReadCloseOffset' \in Nat /\ ReadClosed' \in BOOLEAN
           /\ ReadCloseOffset # MaxUint64 => ReadCloseOffset' = ReadCloseOffset
           /\ ReadCloseOffset' # MaxUint64 =>
                \E g \in Frames : g.FinBit /\ ReadCloseOffset' = End(g)
           /\ ReadClosed => ReadClosed' /\ ReadCloseOffset # MaxUint64
           /\ ReadClosed' => ReadOffset' >= ReadCloseOffset'
           /\ MaxReadReceived' # 0 => \E g \in Frames : MaxReadReceived' <= End(g)
<1>1. AppendInOrder(f) \/ Extend(f) \/ FillGaps(f)
  BY DEF addToRead
<1>2. /\ End(f) \in Nat /\ End(f) < MaxUint64 /\ MaxUint64 \in Nat
      /\ \A g \in Frames : End(g) \in Nat /\ End(g) < MaxUint64
  BY FramesAssumption DEF End
<1>3. /\ ReadOffset' \in Nat /\ MaxReadReceived' \in Nat
      /\ ReadOffset <= ReadOffset'
      /\ MaxReadReceived' = MaxReadReceived \/ MaxReadReceived' = End(f)
  BY <1>1, BranchInv
<1>4. /\ ReadOffset \in Nat /\ MaxReadReceived \in Nat /\ ReadOffset <= MaxReadReceived
      /\ ReadCloseOffset \in Nat /\ ReadClosed \in BOOLEAN
      /\ ReadClosed => ReadOffset >= ReadCloseOffset
      /\ ReadCloseOffset # MaxUint64 => \E g \in Frames : g.FinBit /\ ReadCloseOffset = End(g)
      /\ MaxReadReceived # 0 => \E g \in Frames : MaxReadReceived <= End(g)
  BY DEF Inv, TypeOK, SlicesInBounds
<1>5. /\ ReadCloseOffset' = ReadCloseOffset \/ (f.FinBit /\ ReadCloseOffset' = End(f))
      /\ ReadCloseOffset # MaxUint64 => ReadCloseOffset' = ReadCloseOffset
  BY DEF addToRead, SetCloseOffset
<1>6. ReadClosed' = (ReadClosed \/ ReadOffset' = ReadCloseOffset')
  BY DEF addToRead
<1>7. ReadCloseOffset' \in Nat /\ ReadClosed' \in BOOLEAN
  BY <1>2, <1>4, <1>5, <1>6
<1>8. ReadClosed => ReadCloseOffset # MaxUint64
  BY <1>2, <1>4
<1>9. ReadClosed' => ReadOffset' >= ReadCloseOffset'
  BY <1>3, <1>4, <1>5, <1>6, <1>7, <1>8
<1>10. MaxReadReceived' # 0 => \E g \in Frames : MaxReadReceived' <= End(g)
  BY <1>2, <1>3, <1>4
<1>11. ReadCloseOffset' # MaxUint64 => \E g \in Frames : g.FinBit /\ ReadCloseOffset' = End(g)
  BY <1>4, <1>5
<1> QED
  BY <1>5, <1>6, <1>7, <1>8, <1>9, <1>10, <1>11

(* Every call of addToRead keeps it. *)
LEMMA NextInv == Inv /\ [Next]_vars => Inv'
<1> SUFFICES ASSUME Inv, [Next]_vars PROVE Inv'
  OBVIOUS
<1>1. CASE Next
  <2>1. PICK f \in Frames : addToRead(f)
    BY <1>1 DEF Next
  <2>2. AppendInOrder(f) \/ Extend(f) \/ FillGaps(f)
    BY <2>1 DEF addToRead
  <2>3. TypeOK' /\ SlicesInBounds'
    BY <2>1, <2>2, BranchInv, CloseInv DEF TypeOK
  <2> QED
    BY <2>1, <2>3, CloseInv DEF Inv
<1>2. CASE UNCHANGED vars
  BY <1>2 DEF Inv, TypeOK, SlicesInBounds, vars
<1> QED
  BY <1>1, <1>2

(* The invariant above holds of a stream whatever frames the peer sends it. *)
THEOREM InvHolds == Spec => []Inv
  BY InitInv, NextInv, PTL DEF Spec

(* Every variable of the stream keeps its type, whatever the peer sends. *)
THEOREM TypeCorrect == Spec => []TypeOK
<1>1. Inv => TypeOK
  BY DEF Inv
<1> QED
  BY <1>1, InvHolds, PTL

(* Whatever frames arrive, overlapping, empty or contradictory, addToRead slices
   ReadData within its length and its three records of what was received agree. *)
THEOREM SlicesInBoundsHolds == Spec => []SlicesInBounds
<1>1. Inv => SlicesInBounds
  BY DEF Inv
<1> QED
  BY <1>1, InvHolds, PTL

(* Whatever frames arrive, the chunks submitted to ReadChan follow each other
   without a hole and without repeating a position. *)
THEOREM ChunksContiguousHolds == Spec => ChunksContiguous
<1>1. Inv /\ [Next]_vars => [ReadChan' # ReadChan => ReadChan'.start = ReadChan.end]_vars
  BY BranchInv DEF Next, addToRead
<1> QED
  BY <1>1, InvHolds, PTL DEF Spec, ChunksContiguous

(* ReadClosed is set only once the readers have everything up to the final size,
   and a conformant peer cannot make addToRead submit anything beyond it. *)
THEOREM ClosedIsCompleteHolds == Spec => []ClosedIsComplete
<1>1. Inv => ClosedIsComplete
  <2> SUFFICES ASSUME Inv, ReadClosed
               PROVE  /\ ReadOffset >= ReadCloseOffset
                      /\ ConformantPeer => ReadOffset = ReadCloseOffset
    BY DEF ClosedIsComplete
  <2>1. ReadOffset >= ReadCloseOffset
    BY DEF Inv
  <2>2. ASSUME ConformantPeer PROVE ReadOffset = ReadCloseOffset
    <3>1. PICK n \in {End(f) : f \in Frames} :
              \A f \in Frames : End(f) <= n /\ (f.FinBit => End(f) = n)
      BY <2>2 DEF ConformantPeer
    <3>2. /\ n \in Nat /\ n < MaxUint64 /\ MaxUint64 \in Nat
          /\ \A f \in Frames : End(f) \in Nat
      BY <3>1, FramesAssumption DEF End
    <3>3. /\ ReadOffset \in Nat /\ MaxReadReceived \in Nat /\ ReadCloseOffset \in Nat
          /\ ReadOffset <= MaxReadReceived
      BY DEF Inv, TypeOK, SlicesInBounds
    <3>4. MaxReadReceived <= n
      BY <3>1, <3>2, <3>3 DEF Inv
    <3>5. ReadCloseOffset = n
      BY <2>1, <3>1, <3>2, <3>3, <3>4 DEF Inv
    <3> QED
      BY <2>1, <3>2, <3>3, <3>4, <3>5
  <2> QED
    BY <2>1, <2>2
<1> QED
  BY <1>1, InvHolds, PTL
=============================================================================
