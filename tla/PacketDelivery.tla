--------------------------- MODULE PacketDelivery ---------------------------
(***************************************************************************)
(* What the receive path of a connection promises to the agents that       *)
(* register with IncomingPackets: a packet that came in a datagram is      *)
(* submitted at most once, whatever queues and buffers it went through,    *)
(* and a protected one only while the keys of its level can be read.       *)
(***************************************************************************)
EXTENDS SequencesExt

CONSTANT NeedsKey(_)  \* the levels whose keys a packet needs

VARIABLES
    arrived,   \* the packets of the datagrams received so far
    readable,  \* the levels whose packets can be decrypted
    parsed     \* the packets submitted to IncomingPackets, in order

Init == arrived = {} /\ readable = {"Initial"} /\ parsed = <<>>

Arrive == arrived \subseteq arrived' /\ UNCHANGED <<readable, parsed>>

Install == readable \subseteq readable' /\ UNCHANGED <<arrived, parsed>>

Reset == readable' = {"Initial"} /\ UNCHANGED <<arrived, parsed>>

Parse ==
    \E p \in arrived \ Range(parsed) :
        /\ NeedsKey(p) \subseteq readable
        /\ parsed' = Append(parsed, p)
        /\ UNCHANGED <<arrived, readable>>

Next == Arrive \/ Install \/ Reset \/ Parse

Spec == Init /\ [][Next]_<<arrived, readable, parsed>>
=============================================================================
