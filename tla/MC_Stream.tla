------------------------------ MODULE MC_Stream ------------------------------
(* Instances of Stream, with its list of gaps, for model checking. *)
EXTENDS ByteIntervalList

CONSTANT Size   \* the offsets of a frame range over 0 .. Size

MCMaxUint64 == 63

FramesWithin(size) ==
    {f \in [Offset : 0 .. size, Length : 0 .. size, FinBit : BOOLEAN] : End(f) <= size}

(* Any frame within Size bytes, any FIN: overlapping, duplicated, empty, and
   with contradicting final sizes. *)
AnyFrames == FramesWithin(Size)

(* A stream sent as Size segments of one byte. *)
SegmentFrames == {f \in FramesWithin(Size) : f.Length = 1 /\ (f.FinBit <=> End(f) = Size)}
=============================================================================
