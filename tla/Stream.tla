------------------------------- MODULE Stream -------------------------------
(***************************************************************************)
(* The receiving side of a QUIC stream (streams.go): Stream.addToRead puts *)
(* the STREAM or CRYPTO frames of the peer, which arrive in any order and  *)
(* possibly more than once, back into one sequence of bytes, and submits   *)
(* it chunk by chunk to the stream's readers on ReadChan.                  *)
(*                                                                         *)
(* addToRead runs only on the goroutine of the ParsingAgent, as part of    *)
(* parsing a packet (frames.go, packets.go): one call is one step.         *)
(*                                                                         *)
(* The peer sends the same byte for an offset every time, so a position of *)
(* ReadData holds either that byte or the zero it was allocated with.      *)
(* ReadData is modelled by the set of positions of the first kind and by   *)
(* its length.                                                             *)
(***************************************************************************)
EXTENDS ByteIntervals

CONSTANTS
    Frames,     \* the frames the peer may send: [Offset, Length, FinBit]
    MaxUint64   \* math.MaxUint64, the ReadCloseOffset of a stream without FIN

ASSUME FramesAssumption ==
    /\ MaxUint64 \in Nat \ {0}
    /\ Frames \subseteq [Offset : Nat, Length : Nat, FinBit : BOOLEAN]
    /\ \A f \in Frames : f.Offset + f.Length < MaxUint64 \* both are varints, below 2^62

VARIABLES
    ReadOffset,      \* the bytes submitted to the readers so far
    MaxReadReceived, \* the largest offset received, plus one
    ReadData,        \* the positions of ReadData that hold a byte of the peer
    ReadDataLen,     \* len(ReadData)
    gaps,            \* the holes below MaxReadReceived, as the code tracks them
    ReadCloseOffset, \* the final size of the stream, MaxUint64 while unknown
    ReadClosed,      \* whether the readers are told the stream has ended
    ReadChan,        \* the last chunk submitted: where it lies, which bytes are the peer's
    delivered        \* history: the positions whose right byte the readers were given

vars == <<ReadOffset, MaxReadReceived, ReadData, ReadDataLen, gaps,
          ReadCloseOffset, ReadClosed, ReadChan, delivered>>

End(f) == f.Offset + f.Length

(* Mutant: submits ReadData[:to]. *)
SubmitFromStart(from, to, data) ==
    LET chunk == [start |-> 0, end |-> to, data |-> data \cap Bytes(byteInterval(from, to))]
    IN  ReadChan' = chunk /\ delivered' = delivered \cup chunk.data

(* ReadChan.Submit(ReadData[from:to]); `data' are the positions of ReadData
   that hold the peer's bytes. *)
Submit(from, to, data) ==
    LET chunk == [start |-> from, end |-> to,
                  data |-> data \cap Bytes(byteInterval(from, to))]
    IN  ReadChan' = chunk /\ delivered' = delivered \cup chunk.data

NewStream ==
    /\ ReadOffset = 0
    /\ MaxReadReceived = 0
    /\ ReadData = {}
    /\ ReadDataLen = 0
    /\ gaps = {}
    /\ ReadCloseOffset = MaxUint64
    /\ ReadClosed = FALSE
    /\ ReadChan = [start |-> 0, end |-> 0, data |-> {}]
    /\ delivered = {}

(* Mutant: the last FIN wins. *)
SetCloseOffsetAlways(f) ==
    ReadCloseOffset' = IF f.FinBit THEN End(f) ELSE ReadCloseOffset

(* A FIN sets the final size; one that contradicts it is ignored. *)
SetCloseOffset(f) ==
    ReadCloseOffset' = IF f.FinBit /\ ReadCloseOffset \in {MaxUint64, End(f)}
                         THEN End(f) ELSE ReadCloseOffset

(* The frame is the next one and nothing beyond it has been received. *)
AppendInOrder(f) ==
    /\ f.Offset = ReadOffset /\ f.Offset = MaxReadReceived
    /\ ReadOffset' = ReadOffset + f.Length
    /\ MaxReadReceived' = ReadOffset'
    /\ ReadData' = ReadData \cup Bytes(byteInterval(ReadDataLen, ReadDataLen + f.Length))
    /\ ReadDataLen' = ReadDataLen + f.Length
    /\ Submit(f.Offset, End(f), Bytes(byteInterval(f.Offset, End(f))))
    /\ UNCHANGED gaps

(* The frame reaches past everything received: ReadData grows, and the bytes
   between the two are a new gap. *)
Extend(f) ==
    /\ ~(f.Offset = ReadOffset /\ f.Offset = MaxReadReceived)
    /\ End(f) > MaxReadReceived
    /\ gaps' = IF MaxReadReceived < f.Offset
                 THEN Add(gaps, byteInterval(MaxReadReceived, f.Offset)) ELSE gaps
    /\ MaxReadReceived' = End(f)
    /\ ReadData' = ReadData \cup Bytes(byteInterval(f.Offset, End(f)))
    /\ ReadDataLen' = End(f)
    /\ UNCHANGED <<ReadOffset, ReadChan, delivered>>

(* Mutant: one past the end of ReadData. *)
FirstGapOffByOne(g) == IF g # {} THEN FrontStart(g) ELSE ReadDataLen + 1

(* Mutant: all of ReadData, gaps included. *)
FirstGapIgnored(g) == ReadDataLen

(* Mutant: nothing is ready once the last gap is filled. *)
FirstGapOnly(g) == IF g # {} THEN FrontStart(g) ELSE ReadOffset

(* Where the data that is ready ends, when g are the gaps. *)
FirstGap(g) == IF g # {} THEN FrontStart(g) ELSE ReadDataLen

(* The frame lies below MaxReadReceived: it fills gaps, and what is ready up to
   the first remaining gap is submitted. *)
FillGaps(f) ==
    /\ ~(f.Offset = ReadOffset /\ f.Offset = MaxReadReceived)
    /\ End(f) <= MaxReadReceived
    /\ gaps' = Fill(gaps, byteInterval(f.Offset, End(f)))
    /\ ReadData' = ReadData \cup Bytes(byteInterval(f.Offset, End(f)))
    /\ IF ReadOffset < FirstGap(gaps')
         THEN Submit(ReadOffset, FirstGap(gaps'), ReadData') /\ ReadOffset' = FirstGap(gaps')
         ELSE UNCHANGED <<ReadChan, delivered, ReadOffset>>
    /\ UNCHANGED <<MaxReadReceived, ReadDataLen>>

(* Mutant: closes the stream when its last byte has been received. *)
addToReadClosesEarly(f) ==
    /\ SetCloseOffset(f)
    /\ AppendInOrder(f) \/ Extend(f) \/ FillGaps(f)
    /\ ReadClosed' = (ReadClosed \/ MaxReadReceived' = ReadCloseOffset')

addToRead(f) ==
    /\ SetCloseOffset(f)
    /\ AppendInOrder(f) \/ Extend(f) \/ FillGaps(f)
    /\ ReadClosed' = (ReadClosed \/ ReadOffset' = ReadCloseOffset')

Init == NewStream

Next == \E f \in Frames : addToRead(f)

Spec == Init /\ [][Next]_vars
-----------------------------------------------------------------------------
TypeOK ==
    /\ ReadOffset \in Nat
    /\ MaxReadReceived \in Nat
    /\ ReadData \in SUBSET Nat
    /\ ReadDataLen \in Nat
    /\ gaps \in SUBSET Interval
    /\ ReadCloseOffset \in Nat
    /\ ReadClosed \in BOOLEAN
    /\ ReadChan \in [start : Nat, end : Nat, data : SUBSET Nat]
    /\ delivered \in SUBSET Nat

(* addToRead never slices past the end of ReadData, and the readers have been
   given exactly the first ReadOffset bytes: MaxReadReceived, len(ReadData) and
   the gap list are three records of what was received, each updated on its own
   path, that have to agree for ReadData[ReadOffset:firstGap] to be in range. *)
SlicesInBounds ==
    /\ MaxReadReceived = ReadDataLen
    /\ ReadOffset <= MaxReadReceived
    /\ \A g \in gaps : g.start <= MaxReadReceived /\ g.end <= MaxReadReceived
    /\ ReadData \subseteq 0 .. (ReadDataLen - 1)
    /\ ReadChan.end = ReadOffset

(* Readers get every position once and in order: a chunk starts where the one
   before it ended, whatever the frames that made addToRead submit it. *)
ChunksContiguous == [][ReadChan' # ReadChan => ReadChan'.start = ReadChan.end]_vars

(* A peer that keeps to the protocol sends nothing past its final size. *)
ConformantPeer ==
    \E n \in {End(f) : f \in Frames} :
        \A f \in Frames : End(f) <= n /\ (f.FinBit => End(f) = n)

(* ReadClosed tells the readers that they have everything: it is never set
   before ReadCloseOffset bytes have been submitted and, with a conformant peer,
   nothing is submitted after it, whatever duplicates arrive. *)
ClosedIsComplete ==
    ReadClosed => /\ ReadOffset >= ReadCloseOffset
                  /\ ConformantPeer => ReadOffset = ReadCloseOffset

(* What the readers are given is what the peer sent (streams_test.go,
   TestStreamAddToRead compares the two byte for byte). *)
DeliveredIntact == 0 .. (ReadOffset - 1) \subseteq delivered
=============================================================================
