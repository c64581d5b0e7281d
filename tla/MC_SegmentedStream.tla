------------------------- MODULE MC_SegmentedStream -------------------------
(* Segments of one, two and three bytes: so that a fill inside, at the edge of,
   and across a gap differ. *)
EXTENDS SegmentedStream

CONSTANT NSegments

MCMaxUint64 == 63

MCBoundary == [i \in 0 .. NSegments |-> i + (i \div 2) + (i \div 3)]

MCFrames == {[Offset |-> MCBoundary[i - 1], Length |-> MCBoundary[i] - MCBoundary[i - 1],
              FinBit |-> i = NSegments] : i \in 1 .. NSegments}
=============================================================================
