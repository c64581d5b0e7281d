----------------------------- MODULE MC_Packets -----------------------------
(* Packets with frames whose numbers sit on both sides of every length of a varint that    *)
(* fits a small packet, whose data looks like frames, and with connections whose packet    *)
(* numbers are truncated to one and two bytes.                                             *)
EXTENDS Packets

Bytes(n) == [k \in 1 .. n |-> k % 30]

MCFrames ==
    LET Frame(class, f) == [class |-> class, f |-> f]
        ack(largest, blocks) == <<largest, 0, Len(blocks) - 1, blocks>>
        one  == <<[Gap |-> 0, Block |-> 63]>>
        two  == <<[Gap |-> 0, Block |-> 0], [Gap |-> 64, Block |-> 16384]>>
    IN  {Frame("PaddingFrame", <<>>), Frame("PingFrame", <<>>),
         Frame("AckFrame", ack(63, one)), Frame("AckFrame", ack(16384, two)),
         Frame("AckECNFrame", ack(64, one) \o <<0, 1, 0>>),
         Frame("ResetStream", <<4, 258, 64>>), Frame("StopSendingFrame", <<64, 65535>>),
         Frame("CryptoFrame", <<0, 3, Bytes(3)>>), Frame("CryptoFrame", <<16383, 64, Bytes(64)>>),
         Frame("NewTokenFrame", <<Bytes(63)>>), Frame("NewTokenFrame", <<Bytes(64)>>),
         Frame("MaxDataFrame", <<1073741823>>), Frame("MaxStreamDataFrame", <<0, 16384>>),
         Frame("MaxStreamsFrame", <<FALSE, 64>>), Frame("MaxStreamsFrame", <<TRUE, 63>>),
         Frame("DataBlockedFrame", <<16383>>),
         Frame("StreamDataBlockedFrame", <<63, 64>>), Frame("StreamsBlockedFrame", <<FALSE, 0>>), Frame("StreamsBlockedFrame", <<TRUE, 64>>),
         Frame("NewConnectionIdFrame", <<1, 8, Bytes(8), Bytes(16)>>),
         Frame("RetireConnectionId", <<64>>),
         Frame("PathChallenge", <<Bytes(8)>>), Frame("PathResponse", <<Bytes(8)>>),
         Frame("ConnectionCloseFrame", <<10, 0, 0, <<>>>>),
         Frame("ConnectionCloseFrame", <<256, 64, 2, Bytes(2)>>),
         Frame("ApplicationCloseFrame", <<0, 0, <<>>>>), Frame("ApplicationCloseFrame", <<4, 3, Bytes(3)>>),
         Frame("StreamFrame", <<FALSE, TRUE, FALSE, 0, 0, 2, Bytes(2)>>),
         Frame("StreamFrame", <<TRUE, TRUE, TRUE, 64, 16384, 64, Bytes(64)>>),
         Frame("StreamFrame", <<TRUE, TRUE, TRUE, 3, 1, 0, <<>>>>),
         Frame("StreamFrame", <<TRUE, FALSE, TRUE, 8, 64, 5, Bytes(5)>>)}

MCConnections ==
    LET Conn(dcid, scid, token, pn, acked, largest, phase) ==
            [Version |-> <<255, 0, 0, 17>>, DestinationCID |-> Bytes(dcid), SourceCID |-> Bytes(scid),
             OriginalDestinationCID |-> Bytes(8), Token |-> Bytes(token), PacketNumber |-> pn,
             LargestPNAcknowledged |-> acked, LargestPNReceived |-> largest, KeyPhaseIndex |-> phase]
    IN  {Conn(8, 8, 0, 0, 0, 0, 0),
         Conn(8, 8, 20, 0, 0, 0, 0),            \* after a Retry
         Conn(18, 8, 63, 255, 0, 254, 0),       \* two bytes from 256 numbers in flight
         Conn(4, 18, 64, 256, 250, 255, 1),     \* one byte, just past the reader's epoch
         Conn(8, 8, 1, 65536, 65000, 65535, 1)} \* two bytes, just past the reader's epoch
=============================================================================
