----------------------------- MODULE AckFrames -----------------------------
(***************************************************************************)
(* ACK frames (AckFrame in frames.go), and the three pieces of code that   *)
(* build or read their blocks: GetAckFrame (connection.go), mergeAckFrames *)
(* (agents/send_agent.go) and GetAckedPackets (frames.go).  Acknowledged   *)
(* is the meaning the QUIC drafts give to a frame, against which they are  *)
(* compared.                                                               *)
(***************************************************************************)
EXTENDS Integers, SequencesExt

CONSTANT Uint64  \* 2^64, at which packet numbers, gaps and blocks wrap around

ASSUME Uint64Assumption == Uint64 \in Nat /\ Uint64 % 4 = 0 /\ Uint64 > 0

uint64(n) == n % Uint64

(* EncodeVarInt and VarIntLen panic on numbers that need more than 62 bits. *)
FitsVarInt(n) == n < Uint64 \div 4

AckBlock(gap, block) == [gap |-> gap, block |-> block]

Frame(largest, blocks) == [largest |-> largest, blocks |-> blocks]

(* Whether AckFrame.writeTo and FrameLength can encode the frame; the gap of the
   first block is not written. *)
Encodable(frame) ==
    /\ FitsVarInt(frame.largest)
    /\ \A i \in DOMAIN frame.blocks :
        /\ FitsVarInt(frame.blocks[i].block)
        /\ i > 1 => FitsVarInt(frame.blocks[i].gap)
-----------------------------------------------------------------------------
(* The packets that a receiver of the frame takes as acknowledged: a block holds
   block + 1 packets, and gap + 1 packets lie between two blocks. *)
Acknowledged(frame) ==
    LET b == frame.blocks
        top[i \in DOMAIN b] ==
            IF i = 1 THEN frame.largest ELSE top[i - 1] - b[i - 1].block - b[i].gap - 2
    IN  UNION {(top[i] - b[i].block)..top[i] : i \in DOMAIN b}

Descending(numbers) == SortSeq(numbers, LAMBDA a, b : a > b)

(* Mutant: a block counts all of its packets. *)
AckBlocksCountAll(largest, rest, unused) ==
    LET Step(walk, number) ==
            IF uint64(walk.previous - number) = 1
              THEN [walk EXCEPT !.previous = number, !.ackBlock.block = @ + 1]
              ELSE [previous |-> number,
                    ackBlock |-> AckBlock(uint64(walk.previous - number - unused), 1),
                    done |-> Append(walk.done, walk.ackBlock)]
        end == FoldLeft(Step, [previous |-> largest, ackBlock |-> AckBlock(0, 1), done |-> <<>>],
                        rest)
    IN  Append(end.done, end.ackBlock)

(* The loop that GetAckFrame and mergeAckFrames share: it walks down the sorted
   numbers and turns them into blocks.  `unused' is what they subtract from the
   distance of two blocks to get the gap. *)
AckBlocks(largest, rest, unused) ==
    LET Step(walk, number) ==
            IF uint64(walk.previous - number) = 1
              THEN [walk EXCEPT !.previous = number, !.ackBlock.block = @ + 1]
              ELSE [previous |-> number,
                    ackBlock |-> AckBlock(uint64(walk.previous - number - unused), 0),
                    done |-> Append(walk.done, walk.ackBlock)]
        end == FoldLeft(Step, [previous |-> largest, ackBlock |-> AckBlock(0, 0), done |-> <<>>],
                        rest)
    IN  Append(end.done, end.ackBlock)

(* Mutant: the gap leaves out one packet more. *)
GetAckFrameGapShort(queue) ==
    LET numbers == Descending(queue)
    IN  Frame(Head(numbers), AckBlocks(Head(numbers), Tail(numbers), 3))

(* Of a queue that is not empty. *)
GetAckFrame(queue) ==
    LET numbers == Descending(queue)
    IN  Frame(Head(numbers), AckBlocks(Head(numbers), Tail(numbers), 2))

(* The numbers mergeAckFrames takes from one frame: the largest, and from each block
   `block' numbers counted down from an offset that only the gaps before it move. *)
numbersAcknowledged(frame) ==
    LET b == frame.blocks
        offset[i \in DOMAIN b] ==
            CASE i = 1 -> 0
              [] i = 2 -> 0
              [] OTHER -> offset[i - 1] + b[i - 1].gap + 1
    IN  {frame.largest} \cup
        UNION {{uint64(frame.largest - k - offset[i]) : k \in 0..(b[i].block - 1)} : i \in DOMAIN b}

(* Mutant: keeps only the largest number of each frame. *)
mergeAckFramesLargest(frames) ==
    LET numbers == Descending(SetToSeq({f.largest : f \in Range(frames)}))
    IN  Frame(Head(numbers), <<AckBlock(0, 0)>>)

mergeAckFrames(frames) ==
    LET largest == Max({f.largest : f \in Range(frames)})
        numbers == Descending(SetToSeq(UNION {numbersAcknowledged(f) : f \in Range(frames)}))
    IN  Frame(largest, AckBlocks(largest, Tail(numbers), 1))
=============================================================================
