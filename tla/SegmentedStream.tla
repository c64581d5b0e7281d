--------------------------- MODULE SegmentedStream ---------------------------
(***************************************************************************)
(* A Stream fed by a sender that cuts its data into segments once and      *)
(* retransmits those segments as they are, as QUIC-Tracker's own           *)
(* RecoveryAgent does, over a network that duplicates and reorders packets *)
(* but leaves no two adjacent segments missing below one that has arrived. *)
(* On this network addToRead is exact; Stream_segments.cfg shows that      *)
(* without the restriction it is not.                                      *)
(***************************************************************************)
EXTENDS Stream

CONSTANTS
    N,          \* the number of segments
    Boundary    \* segment i holds the bytes from Boundary[i-1] to Boundary[i]

Segment(i) ==
    [Offset |-> Boundary[i - 1], Length |-> Boundary[i] - Boundary[i - 1], FinBit |-> i = N]

ASSUME SegmentsAssumption ==
    /\ N \in Nat \ {0}
    /\ Boundary \in [0 .. N -> Nat]
    /\ Boundary[0] = 0
    /\ \A i, j \in 0 .. N : i < j => Boundary[i] < Boundary[j]
    /\ Frames = {Segment(i) : i \in 1 .. N}

VARIABLE arrived    \* the segments that have arrived at least once

svars == <<vars, arrived>>

(* No two adjacent segments are missing below a segment of S. *)
IsolatedLosses(S) ==
    \A i \in 1 .. N - 1 : i \notin S /\ i + 1 \notin S => \A j \in S : j < i

SegInit == Init /\ arrived = {}

(* A copy of segment i arrives, for the first time or again. *)
Arrive(i) ==
    /\ IsolatedLosses(arrived \cup {i})
    /\ arrived' = arrived \cup {i}
    /\ addToRead(Segment(i))

SegNext == \E i \in 1 .. N : Arrive(i)

SegSpec == SegInit /\ [][SegNext]_svars

(* The sender retransmits a segment until it is acknowledged, so the network
   cannot keep one back for ever. *)
SegFairSpec == SegSpec /\ \A i \in 1 .. N : WF_svars(Arrive(i) /\ i \notin arrived)
-----------------------------------------------------------------------------
(* addToRead submits data as soon as it can be and never before: what has been
   submitted is exactly the segments before the first missing one, every byte
   of it is the peer's, and the stream is closed exactly when all of it is in.
   This relates the three branches of addToRead, Fill, Exclude and firstGap over
   any number of duplicates and holes. *)
DeliversArrivedPrefix ==
    /\ \E r \in 0 .. N : /\ 1 .. r \subseteq arrived
                         /\ r < N => r + 1 \notin arrived
                         /\ ReadOffset = Boundary[r]
    /\ delivered = 0 .. (ReadOffset - 1)
    /\ ReadClosed <=> 1 .. N \subseteq arrived

(* Once every segment can get through, the readers see the end of the stream:
   no gap is left behind by Fill to block firstGap. *)
StreamCompletes == <>[](ReadClosed /\ ReadOffset = Boundary[N])

(* The bytes of segment i as a gap. *)
Hole(i) == byteInterval(Boundary[i - 1], Boundary[i])

(* The inductive invariant, with h the highest segment that has arrived and r
   the last one before the first that has not: besides what DeliversArrivedPrefix
   says, the gaps are the missing segments below h, each in one piece. *)
SegInvAt(h, r) ==
    /\ arrived \subseteq 1 .. h /\ (h > 0 => h \in arrived)
    /\ IsolatedLosses(arrived)
    /\ MaxReadReceived = Boundary[h] /\ ReadDataLen = Boundary[h]
    /\ gaps = {Hole(i) : i \in (1 .. h) \ arrived}
    /\ 1 .. r \subseteq arrived /\ (r < N => r + 1 \notin arrived)
    /\ ReadOffset = Boundary[r]
    /\ ReadData = UNION {Bytes(Hole(i)) : i \in arrived}
    /\ delivered = 0 .. (ReadOffset - 1)
    /\ ReadCloseOffset = IF N \in arrived THEN Boundary[N] ELSE MaxUint64
    /\ ReadClosed = (r = N)

(* The gap list is exactly the segments still missing: no Fill of a segment, new
   or duplicated, leaves a piece of a gap or takes away another one. *)
SegInv == \E h, r \in 0 .. N : SegInvAt(h, r)
=============================================================================
