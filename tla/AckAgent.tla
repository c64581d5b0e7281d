----------------------------- MODULE AckAgent -----------------------------
(***************************************************************************)
(* The AckAgent (agents/ack_agent.go) in one packet number space, and the  *)
(* part of the SendingAgent that puts its ACK frames into packets.         *)
(*                                                                         *)
(* The AckAgent handles one received packet per step: it records its       *)
(* number in AckQueue, answers a PATH_CHALLENGE, and queues an ACK frame   *)
(* for all of AckQueue.  Frames go to the SendingAgent in order, where     *)
(* they wait in the level's buffer until fillWithLevel takes all of them.  *)
(* DisableAcks and DisablePathResponse have their defaults.                *)
(* TotalDataAcked, which nothing reads, is left out.                       *)
(***************************************************************************)
EXTENDS AckFrames

CONSTANTS
    MaxPN,          \* bound: the largest packet number that is received
    MaxBundled,     \* bound: how many ACK frames wait for one packet
    MaxDuplicates   \* bound: how many packets the network duplicates

ASSUME AckAgentAssumption == MaxPN \in Nat /\ MaxBundled \in Nat \ {0} /\ MaxDuplicates \in Nat

VARIABLES
    reordered,      \* history: whether a packet has come before a lower one
    gapMerged,      \* history: whether ACK frames were bundled after that
    duplicates,     \* history: how many packets have come again
    AckQueue,       \* Connection.AckQueue of the space
    ackFrames,      \* the ACK frames in the SendingAgent's buffer
    pathResponses,  \* the PATH_RESPONSE frames there, by the packet they answer
    eliciting,      \* history: the packets received for which ShouldBeAcknowledged
    challenges,     \* history: the packets received with a PATH_CHALLENGE
    acked,          \* history: what the peer takes as acknowledged
    answered        \* history: the challenges the peer has an answer to

vars == <<reordered, gapMerged, duplicates, AckQueue, ackFrames, pathResponses, eliciting, challenges, acked, answered>>

PacketNumbers == 0..MaxPN

received == Range(AckQueue)

Init ==
    /\ reordered = FALSE
    /\ gapMerged = FALSE
    /\ duplicates = 0
    /\ AckQueue = <<>>
    /\ ackFrames = <<>>
    /\ pathResponses = {}
    /\ eliciting = {}
    /\ challenges = {}
    /\ acked = {}
    /\ answered = {}

(* The network loses, reorders and duplicates packets. *)
Deliverable(pn) ==
    /\ Len(ackFrames) < MaxBundled
    /\ pn \in received => duplicates < MaxDuplicates
    /\ duplicates' = IF pn \in received THEN duplicates + 1 ELSE duplicates
    /\ reordered' = (reordered \/ received \cup {pn} # 0..pn)
    /\ gapMerged' = (gapMerged \/ (ackFrames # <<>> /\ reordered'))

(* The SendingAgent asks each frame it takes for its length, which panics if the frame
   cannot be encoded: nothing happens after that. *)
Alive == \A i \in DOMAIN ackFrames : Encodable(ackFrames[i])

(* What the agent does with a packet; a duplicate is logged and handled like any
   other.  Of several PATH_CHALLENGEs only the first is answered, so that all that
   matters is whether there is one.  GetAckFrame sorts AckQueue in place. *)
HandlePacket(pn, shouldBeAcknowledged, pathChallenge) ==
    LET queue == Append(AckQueue, pn)
        ack == shouldBeAcknowledged
    IN  /\ pathResponses' = IF pathChallenge THEN pathResponses \cup {pn} ELSE pathResponses
        /\ AckQueue' = IF ack THEN Descending(queue) ELSE queue
        /\ ackFrames' = IF ack THEN Append(ackFrames, GetAckFrame(queue)) ELSE ackFrames

(* A packet that arrives again carries what it carried. *)
ReceivePacket(pn, shouldBeAcknowledged, pathChallenge) ==
    /\ Alive
    /\ Deliverable(pn)
    /\ pathChallenge => shouldBeAcknowledged
    /\ pn \in received => /\ shouldBeAcknowledged = (pn \in eliciting)
                          /\ pathChallenge = (pn \in challenges)
    /\ HandlePacket(pn, shouldBeAcknowledged, pathChallenge)
    /\ eliciting' = IF shouldBeAcknowledged THEN eliciting \cup {pn} ELSE eliciting
    /\ challenges' = IF pathChallenge THEN challenges \cup {pn} ELSE challenges
    /\ UNCHANGED <<acked, answered>>

(* The ACK frame that fillWithLevel puts in the packet. *)
PackedAck == IF Len(ackFrames) > 1 THEN mergeAckFrames(ackFrames) ELSE ackFrames[1]

(* The buffer becomes a packet, and the peer gets it. *)
SendFrames ==
    /\ Alive
    /\ ackFrames # <<>>
    /\ acked' = acked \cup Acknowledged(PackedAck)
    /\ answered' = answered \cup pathResponses
    /\ ackFrames' = <<>>
    /\ pathResponses' = {}
    /\ UNCHANGED <<reordered, gapMerged, duplicates, AckQueue, eliciting, challenges>>

Next ==
    \/ \E pn \in PacketNumbers, a, c \in BOOLEAN : ReceivePacket(pn, a, c)
    \/ SendFrames

Spec == Init /\ [][Next]_vars
-----------------------------------------------------------------------------
(* The peer takes a packet as acknowledged only if it was received: the ACK frames of
   GetAckFrame (connection.go:163-189) name no other, in whatever order the packets came, and
   neither do the ones that mergeAckFrames rebuilds (send_agent.go:199-248) as long as none
   were bundled with a packet missing. *)
AckedWereReceived == ~gapMerged => acked \subseteq received

(* Once the SendingAgent's buffer is empty, every packet that needs an ACK has been
   acknowledged and every PATH_CHALLENGE answered (ack_agent.go:42-51), as long as none
   were bundled with a packet missing: merging drops no number that only the dropped
   frame had. *)
NothingUnanswered ==
    (ackFrames = <<>> /\ ~gapMerged) => eliciting \subseteq acked /\ challenges \subseteq answered

(* Every ACK frame given to the SendingAgent can be encoded: it calls FrameLength on
   it first (send_agent.go:82), which panics on a number of more than 62 bits.  Only a
   duplicate, which the AckAgent notices and records all the same (ack_agent.go:35-39),
   makes GetAckFrame return one that cannot. *)
AcksEncodable == duplicates = 0 => Alive
=============================================================================
