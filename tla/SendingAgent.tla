---------------------------- MODULE SendingAgent ----------------------------
(***************************************************************************)
(* The SendingAgent (agents/send_agent.go) bundles the frames that the     *)
(* other agents queue into packets.  Frames wait in a buffer per           *)
(* encryption level until a timer fires, the buffer would exceed the MTU,  *)
(* or the level becomes available; packets that are full before their      *)
(* level is available wait in packetBuffer.                                *)
(*                                                                         *)
(* The agent is one goroutine around one select, so each case of the       *)
(* select is one step; the select may take any case that is ready.  The    *)
(* timers are the Go runtime's and fire on their own.                      *)
(*                                                                         *)
(* A packet is its level, its number and the frames whose contents it      *)
(* carries; the ACK frames among those are merged into one by              *)
(* mergeAckFrames, which AckAgent looks into.  The packets of one          *)
(* level in packetBuffer are sent in the order they were made in one step, *)
(* so the list is modelled as a set.                                       *)
(*                                                                         *)
(* The HandshakeAgent and the TLSAgent are goroutines of their own that    *)
(* change the connection while the SendingAgent uses it: TransitionTo      *)
(* wipes the packet numbers and the crypto states, and some time later     *)
(* GetInitialPacket and the TLSAgent install and announce levels again.    *)
(* SendPacket dereferences the crypto state of a level; without one the    *)
(* program panics.                                                         *)
(***************************************************************************)
EXTENDS Naturals, Sequences, FiniteSets

CONSTANTS
    Frames,       \* the frames that may be queued
    FrameLevel,   \* QueuedFrame.EncryptionLevel of each
    FrameLength,  \* Frame.FrameLength() of each
    MTU,          \* SendingAgent.MTU
    Uint16,       \* 2^16, at which frameBufferLength wraps around
    MaxQueued,      \* bound: how many frames are queued
    MaxTransitions  \* bound: how often TransitionTo is called

PacketLevels == {"Initial", "0RTT", "Handshake", "1RTT"}
BestLevels == {"Best", "BestAppData"}
Levels == PacketLevels \cup BestLevels

PNSpaces == {"InitialSpace", "HandshakeSpace", "AppDataSpace"}

ASSUME SendingAssumption ==
    /\ FrameLevel \in [Frames -> Levels]
    /\ FrameLength \in [Frames -> Nat]
    /\ MTU \in Nat /\ Uint16 \in Nat \ {0} /\ MaxTransitions \in Nat

VARIABLES
    queued,                    \* the frames received from FrameQueue so far
    frameBuffer,               \* per level, the frames waiting to be put in a packet
    frameBufferLength,         \* per level, the length the agent has recorded for them
    packetBuffer,              \* the packets waiting for their level
    encryptionLevelsAvailable, \* the levels the agent can write at
    running,                   \* the timers that are running
    fired,                     \* the timers whose channel holds a tick
    PacketNumber,              \* Connection.PacketNumber: the next one of each space
    sent,                      \* history: the packets given to SendPacket
    CryptoStates,              \* Connection.CryptoStates: the levels that can be written at
    announcements,             \* EncryptionLevelsAvailable: the levels the agent is yet to receive
    ticket,                    \* whether the connection has a ticket, hence a ZeroRTTSecret
    helloDue,                  \* whether the HandshakeAgent is about to call GetInitialPacket
    transitions,               \* how often TransitionTo has been called
    receivedRetry,             \* HandshakeAgent.receivedRetry
    negotiated,                \* whether a Version Negotiation packet has been processed
    closed,                    \* whether the agent has been stopped
    panicked                   \* whether SendPacket has dereferenced a nil crypto state

agent == <<queued, frameBuffer, frameBufferLength, packetBuffer, encryptionLevelsAvailable,
           running, fired, sent, closed>>
handshake == <<CryptoStates, ticket, helloDue, transitions, receivedRetry, negotiated>>
vars == <<agent, handshake, PacketNumber, announcements, panicked>>

(* `era' is history: how often TransitionTo had been called when the packet was made. *)
Packet == [level : PacketLevels, era : Nat, pn : Nat, frames : SUBSET Frames]

PNSpace(level) ==
    CASE level = "Initial" -> "InitialSpace"
      [] level = "Handshake" -> "HandshakeSpace"
      [] OTHER -> "AppDataSpace"

(* Mutant: does not look at what is available. *)
chooseBestUnchecked(elAvailable, restrictAppData) ==
    IF restrictAppData THEN "1RTT" ELSE "Handshake"

(* 1-RTT first, then 0-RTT, Handshake and Initial; application data may only go
   into the first two and waits for 1-RTT when neither is available. *)
chooseBestEncryptionLevel(elAvailable, restrictAppData) ==
    CASE "1RTT" \in elAvailable -> "1RTT"
      [] "1RTT" \notin elAvailable /\ "0RTT" \in elAvailable -> "0RTT"
      [] OTHER -> IF restrictAppData THEN "1RTT"
                  ELSE IF "Handshake" \in elAvailable THEN "Handshake" ELSE "Initial"

(* A new packet of the level, holding the given frames. *)
NewPacket(level, frames) ==
    [level |-> level, era |-> transitions, pn |-> PacketNumber[PNSpace(level)],
     frames |-> frames]

(* Mutant: the number is not taken. *)
nextPacketNumberKept(space) == space \in PNSpaces /\ UNCHANGED PacketNumber

nextPacketNumber(space) == PacketNumber' = [PacketNumber EXCEPT ![space] = @ + 1]

Init ==
    /\ queued = {}
    /\ frameBuffer = [l \in Levels |-> {}]
    /\ frameBufferLength = [l \in Levels |-> 0]
    /\ packetBuffer = {}
    /\ encryptionLevelsAvailable = {"Initial"}
    /\ running = {}
    /\ fired = {}
    /\ PacketNumber = [s \in PNSpaces |-> 0]
    /\ sent = {}
    /\ CryptoStates = {"Initial"}
    /\ announcements = <<>>
    /\ ticket \in BOOLEAN
    /\ helloDue = TRUE
    /\ transitions = 0
    /\ receivedRetry = FALSE
    /\ negotiated = FALSE
    /\ closed = FALSE
    /\ panicked = FALSE

(* Mutant: a Best level is taken for a level of packets. *)
TargetLevelUnresolved(level) == level

(* Mutant: keeps the length of a buffer it has emptied. *)
fillWithLevelKeepsLength(level, rest) ==
    /\ frameBuffer' = [frameBuffer EXCEPT ![level] = rest]
    /\ UNCHANGED frameBufferLength

(* The buffer of a level is emptied into a packet; `rest' is put in it afterwards. *)
fillWithLevel(level, rest) ==
    /\ frameBuffer' = [frameBuffer EXCEPT ![level] = rest]
    /\ frameBufferLength' = [frameBufferLength EXCEPT ![level] = 0]

(* The level in whose packets a frame queued for `level' is sent when its buffer
   is full. *)
TargetLevel(level) ==
    IF level \in BestLevels
      THEN chooseBestEncryptionLevel(encryptionLevelsAvailable, level = "BestAppData")
      ELSE level

Overflows(f) == (frameBufferLength[FrameLevel[f]] + FrameLength[f]) % Uint16 > MTU

(* Mutant: the frame that did not fit is forgotten. *)
KeepNothing(buffer, f) == {}

(* What the buffer holds after an overflow: the frame, unless it went out alone. *)
KeepBack(buffer, f) == IF buffer = {} THEN {} ELSE {f}

(* The frame does not fit: the target level's buffer becomes a packet and the frame
   starts the next one, or goes out alone when that buffer is empty.  The frame
   left in the buffer is not added to frameBufferLength and arms no timer. *)
QueueOverflowing(f) ==
    LET level == TargetLevel(FrameLevel[f])
        packet == NewPacket(level, IF frameBuffer[level] = {} THEN {f} ELSE frameBuffer[level])
    IN  /\ Overflows(f)
        /\ nextPacketNumber(PNSpace(level))
        /\ fillWithLevel(level, KeepBack(frameBuffer[level], f))
        /\ IF level \in encryptionLevelsAvailable
             THEN level \in CryptoStates /\ sent' = sent \cup {packet} /\ UNCHANGED packetBuffer
             ELSE packetBuffer' = packetBuffer \cup {packet} /\ UNCHANGED sent
        /\ UNCHANGED running

(* Mutant: forgets that the Best levels are always available. *)
WakesAvailable(level) == level \in encryptionLevelsAvailable

(* Whether a frame that is put in the buffer restarts the timer. *)
Wakes(level) == level \in encryptionLevelsAvailable \cup BestLevels

(* The frame fits: it waits for the timer, which is restarted. *)
QueueFitting(f) ==
    LET level == FrameLevel[f]
    IN  /\ ~Overflows(f)
        /\ frameBuffer' = [frameBuffer EXCEPT ![level] = @ \cup {f}]
        /\ frameBufferLength' =
             [frameBufferLength EXCEPT ![level] = (@ + FrameLength[f]) % Uint16]
        /\ running' = IF Wakes(level) THEN running \cup {level} ELSE running
        /\ UNCHANGED <<packetBuffer, PacketNumber, sent>>

QueueFrame(f) ==
    /\ f \notin queued /\ Cardinality(queued) < MaxQueued
    /\ queued' = queued \cup {f}
    /\ QueueOverflowing(f) \/ QueueFitting(f)
    /\ UNCHANGED <<encryptionLevelsAvailable, fired, closed, handshake, announcements, panicked>>

(* The Go runtime: the timer of a level sends on its channel, which holds one tick. *)
TimerExpires(level) ==
    /\ level \in running
    /\ running' = running \ {level}
    /\ fired' = fired \cup {level}
    /\ UNCHANGED <<queued, frameBuffer, frameBufferLength, packetBuffer,
                   encryptionLevelsAvailable, sent, closed, handshake, PacketNumber, announcements,
                   panicked>>

Ready(level) == frameBuffer[level] # {} /\ level \in encryptionLevelsAvailable

(* The timer of a packet level: a packet is made, and numbered, in any case; it is
   filled and sent when there are frames and the level is available. *)
fillAndSendPacket(level) ==
    /\ level \in fired
    /\ fired' = fired \ {level}
    /\ nextPacketNumber(PNSpace(level))
    /\ IF Ready(level)
         THEN /\ level \in CryptoStates
              /\ sent' = sent \cup {NewPacket(level, frameBuffer[level])}
              /\ fillWithLevel(level, {})
         ELSE UNCHANGED <<sent, frameBuffer, frameBufferLength>>
    /\ UNCHANGED <<queued, packetBuffer, encryptionLevelsAvailable, running, closed, handshake,
                   announcements, panicked>>

(* The timer of a Best level: its frames move to the best level there is, whose
   timer is set to fire at once.  The code adds up the lengths of the frames;
   AtMostOneUncounted checks that frameBufferLength[best] is that sum. *)
MoveToBest(best) ==
    LET level == chooseBestEncryptionLevel(encryptionLevelsAvailable, best = "BestAppData")
    IN  /\ best \in fired
        /\ fired' = fired \ {best}
        /\ frameBuffer' = [frameBuffer EXCEPT ![level] = @ \cup frameBuffer[best], ![best] = {}]
        /\ frameBufferLength' =
             [frameBufferLength EXCEPT ![level] = (@ + frameBufferLength[best]) % Uint16,
                                       ![best] = 0]
        /\ running' = running \cup {level}
        /\ UNCHANGED <<queued, packetBuffer, encryptionLevelsAvailable, sent, closed, handshake,
                       PacketNumber, announcements, panicked>>

(* The packets that waited for the level are sent, and its timer is set to fire at
   once for the frames that did. *)
LevelAvailable ==
    LET level == Head(announcements)
        waiting == {p \in packetBuffer : p.level = level}
    IN  /\ announcements # <<>>
        /\ waiting # {} => level \in CryptoStates
        /\ announcements' = Tail(announcements)
        /\ encryptionLevelsAvailable' = encryptionLevelsAvailable \cup {level}
        /\ sent' = sent \cup waiting
        /\ packetBuffer' = packetBuffer \ waiting
        /\ running' = running \cup {level}
        /\ UNCHANGED <<queued, frameBuffer, frameBufferLength, fired, closed, handshake, PacketNumber,
                       panicked>>

(* SendPacket panics on the nil crypto state of the level, and the program ends: in the
   three places where the agent calls it. *)
SendPacketPanics(level) ==
    /\ level \notin CryptoStates
    /\ \/ level \in fired /\ Ready(level)
       \/ \E f \in Frames : /\ f \notin queued /\ Cardinality(queued) < MaxQueued /\ Overflows(f)
                          /\ TargetLevel(FrameLevel[f]) = level /\ level \in encryptionLevelsAvailable
       \/ /\ announcements # <<>> /\ Head(announcements) = level
          /\ \E p \in packetBuffer : p.level = level
    /\ panicked' = TRUE
    /\ UNCHANGED <<agent, handshake, PacketNumber, announcements>>

-----------------------------------------------------------------------------
(* The levels whose keys have been announced to the agent, received by it or not. *)
Announced == encryptionLevelsAvailable \cup {announcements[i] : i \in DOMAIN announcements}

BeforeHandshake == Announced \cap {"Handshake", "1RTT"} = {}

(* Mutant: 0-RTT is announced whether or not its keys could be installed. *)
Install0RTTUnchecked ==
    /\ CryptoStates' = IF ticket THEN CryptoStates \cup {"0RTT"} ELSE CryptoStates
    /\ announcements' = Append(announcements, "0RTT")

(* With a ticket, 0-RTT is installed and announced. *)
Install0RTT ==
    IF ticket THEN /\ CryptoStates' = CryptoStates \cup {"0RTT"}
                   /\ announcements' = Append(announcements, "0RTT")
    ELSE UNCHANGED <<CryptoStates, announcements>>

(* The HandshakeAgent makes an Initial packet with a ClientHello. *)
GetInitialPacket ==
    /\ helloDue
    /\ helloDue' = FALSE
    /\ Install0RTT
    /\ nextPacketNumber("InitialSpace")
    /\ UNCHANGED <<agent, ticket, transitions, receivedRetry, negotiated, panicked>>

(* All numbers start again, and all crypto states but that of Initial are gone. *)
TransitionTo ==
    /\ ~helloDue /\ transitions < MaxTransitions
    /\ transitions' = transitions + 1
    /\ helloDue' = TRUE
    /\ PacketNumber' = [s \in PNSpaces |-> 0]
    /\ CryptoStates' = {"Initial"}
    /\ UNCHANGED <<agent, ticket, announcements, panicked>>

(* A server sends a Retry before it sends anything else.  The TLSAgent is restarted
   before GetInitialPacket is called. *)
ProcessRetry ==
    /\ ~receivedRetry /\ BeforeHandshake
    /\ TransitionTo
    /\ receivedRetry' = TRUE
    /\ UNCHANGED negotiated

(* A Version Negotiation packet is processed whenever it comes. *)
ProcessVersionNegotiation ==
    /\ TransitionTo
    /\ negotiated' = TRUE
    /\ UNCHANGED receivedRetry

(* The TLSAgent installs a level and announces it, Handshake before 1-RTT and each once.
   After a Version Negotiation it is left with the crypto streams of the old handshake
   and gets no more data. *)
TLSAgentInstalls(level) ==
    /\ ~helloDue /\ ~negotiated
    /\ level \notin Announced
    /\ level = "1RTT" => "Handshake" \in Announced
    /\ CryptoStates' = CryptoStates \cup {level}
    /\ announcements' = Append(announcements, level)
    /\ UNCHANGED <<agent, ticket, helloDue, transitions, receivedRetry, negotiated, PacketNumber, panicked>>

(* BaseAgent.Stop: the agent returns, whatever it still holds. *)
Close ==
    /\ closed' = TRUE
    /\ UNCHANGED <<queued, frameBuffer, frameBufferLength, packetBuffer,
                   encryptionLevelsAvailable, running, fired, sent, handshake, PacketNumber,
                   announcements, panicked>>

SendingAgentStep ==
    \/ \E f \in Frames : QueueFrame(f)
    \/ \E l \in Levels : TimerExpires(l)
    \/ \E l \in PacketLevels : fillAndSendPacket(l) \/ SendPacketPanics(l)
    \/ \E l \in BestLevels : MoveToBest(l)
    \/ LevelAvailable
    \/ Close

OtherAgentStep ==
    \/ GetInitialPacket
    \/ ProcessRetry
    \/ ProcessVersionNegotiation
    \/ \E l \in {"Handshake", "1RTT"} : TLSAgentInstalls(l)

(* What the other agents do once it has stopped is of no consequence to it. *)
Running == ~closed /\ ~panicked

Next == Running /\ (SendingAgentStep \/ OtherAgentStep)

Spec == Init /\ [][Next]_vars

(* A running timer expires, and the select does not ignore a tick for ever. *)
FairSpec ==
    /\ Spec
    /\ \A l \in Levels : WF_vars(Running /\ TimerExpires(l))
    /\ \A l \in PacketLevels : WF_vars(Running /\ (fillAndSendPacket(l) \/ SendPacketPanics(l)))
    /\ \A l \in BestLevels : WF_vars(Running /\ MoveToBest(l))
-----------------------------------------------------------------------------
TypeOK ==
    /\ queued \in SUBSET Frames
    /\ frameBuffer \in [Levels -> SUBSET Frames]
    /\ frameBufferLength \in [Levels -> 0 .. (Uint16 - 1)]
    /\ packetBuffer \in SUBSET Packet
    /\ encryptionLevelsAvailable \in SUBSET PacketLevels
    /\ running \in SUBSET Levels
    /\ fired \in SUBSET Levels
    /\ PacketNumber \in [PNSpaces -> Nat]
    /\ sent \in SUBSET Packet
    /\ CryptoStates \in SUBSET PacketLevels
    /\ announcements \in Seq(PacketLevels)
    /\ transitions \in Nat
    /\ ticket \in BOOLEAN /\ helloDue \in BOOLEAN /\ receivedRetry \in BOOLEAN
    /\ negotiated \in BOOLEAN /\ closed \in BOOLEAN /\ panicked \in BOOLEAN

Packets == packetBuffer \cup sent

(* No frame is lost or sent twice: from the moment it is taken from FrameQueue a
   frame is in exactly one buffer or one packet, through overflows, moves from the
   Best levels and levels becoming available. *)
FramesConserved ==
    /\ \A f \in Frames : f \in queued <=> \/ \E l \in Levels : f \in frameBuffer[l]
                                          \/ \E p \in Packets : f \in p.frames
    /\ \A l, m \in Levels : l # m => \A f \in frameBuffer[l] : f \notin frameBuffer[m]
    /\ \A l \in Levels, p \in Packets : \A f \in frameBuffer[l] : f \notin p.frames
    /\ \A p, q \in Packets : p # q => \A f \in p.frames : f \notin q.frames

(* Nothing that could be sent waits without a wake-up: a buffer with frames whose
   level can be written at has a timer that runs or has fired.  QueueOverflowing
   puts a frame in a buffer without arming its timer, and relies on it. *)
NoStrandedFrames ==
    \A l \in encryptionLevelsAvailable \cup BestLevels :
        frameBuffer[l] # {} => l \in running \cup fired

(* The levels that are announced and cannot be written at. *)
Keyless == Announced \ CryptoStates

(* A level that has been announced can be written at (SendPacket would dereference a nil
   crypto state, connection.go:74-78), with two exceptions.  0-RTT has no keys between
   TransitionTo and GetInitialPacket, which the HandshakeAgent calls one after the other
   while the SendingAgent goes on; and a Version Negotiation that comes after the keys of
   the handshake takes those away for good.  The agent panics only there.  It sends
   at levels it has received only, and packets wait for the others only. *)
PacketsFollowKeys ==
    /\ "0RTT" \in Keyless => helloDue
    /\ Keyless \ {"0RTT"} # {} => negotiated
    /\ panicked => Keyless # {}
    /\ \A p \in packetBuffer : p.level \notin encryptionLevelsAvailable
    /\ \A p \in sent : p.level \in encryptionLevelsAvailable

(* The numbers of the packets of a level increase in the order they are sent, though
   packets are numbered when they are made, some wait in packetBuffer and timers take
   numbers for packets that are not sent.  TransitionTo starts the numbers again. *)
PacketNumbersIncrease ==
    [][\A p \in sent' \ sent, q \in sent :
           p.level = q.level /\ p.era = q.era => q.pn < p.pn]_vars

(* The frames that can be sent with the levels there are. *)
Sendable(f) ==
    \/ FrameLevel[f] \in encryptionLevelsAvailable \cup {"Best"}
    \/ FrameLevel[f] = "BestAppData" /\ "1RTT" \in encryptionLevelsAvailable

(* A queued frame is eventually sent once its level is available, however the frame,
   the level and the timers are ordered (send_agent.go:11: frames that require an
   unavailable encryption level are queued until it is made available), unless the agent
   is stopped or panics. *)
QueuedFramesAreSent ==
    \A f \in Frames :
        f \in queued /\ Sendable(f) ~> closed \/ panicked \/ \E p \in sent : f \in p.frames
=============================================================================
