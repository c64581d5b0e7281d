------------------------- MODULE SendingAgentProofs -------------------------
(***************************************************************************)
(* Proofs about the SendingAgent, for any frames, lengths and MTU.         *)
(***************************************************************************)
EXTENDS SendingAgent, TLAPS

(* The number of a packet made since the last TransitionTo is below the next one of
   its space; no packet is newer than that. *)
NumbersAllocated ==
    \A p \in Packets : /\ p.era <= transitions
                       /\ p.era = transitions => p.pn < PacketNumber[PNSpace(p.level)]

(* 0-RTT is announced only when the connection has a ticket, so that GetInitialPacket, which
   ends the time in which it has no keys, gives them back. *)
LevelsHaveKeys ==
    /\ PacketsFollowKeys
    /\ "0RTT" \in Announced => ticket

(* The inductive invariant.  PacketsFollowKeys and NumbersAllocated are what makes
   numbers increase; NoStrandedFrames needs nothing beyond itself. *)
Inv ==
    /\ TypeOK
    /\ FramesConserved
    /\ NoStrandedFrames
    /\ LevelsHaveKeys
    /\ NumbersAllocated

(* Packets are of a level of their own, never of a Best level. *)
LEMMA LevelFacts ==
    /\ \A l \in PacketLevels : l \in Levels /\ l \notin BestLevels /\ PNSpace(l) \in PNSpaces
    /\ \A l \in BestLevels : l \in Levels /\ l \notin PacketLevels
    /\ \A l \in Levels : l \in PacketLevels \/ l \in BestLevels
  BY DEF Levels, PacketLevels, BestLevels, PNSpaces, PNSpace

(* chooseBestEncryptionLevel returns a level packets can have, *)
LEMMA BestIsPacketLevel ==
    ASSUME NEW A, NEW r \in BOOLEAN
    PROVE  chooseBestEncryptionLevel(A, r) \in PacketLevels
  BY DEF chooseBestEncryptionLevel, PacketLevels

(* and so does an overflow. *)
LEMMA TargetIsPacketLevel ==
    ASSUME NEW l \in Levels
    PROVE  TargetLevel(l) \in PacketLevels
  BY BestIsPacketLevel, LevelFacts DEF TargetLevel

(* The agent starts with nothing queued. *)
LEMMA InitInv == Init => Inv
<1> SUFFICES ASSUME Init PROVE Inv
  OBVIOUS
<1> USE DEF Init
<1>1. TypeOK
  <2>1. frameBufferLength \in [Levels -> 0 .. (Uint16 - 1)]
    BY SendingAssumption
  <2>2. PacketNumber \in [PNSpaces -> Nat]
    OBVIOUS
  <2>3. /\ encryptionLevelsAvailable \in SUBSET PacketLevels
        /\ CryptoStates \in SUBSET PacketLevels
        /\ announcements \in Seq(PacketLevels)
    BY DEF PacketLevels
  <2> QED
    BY <2>1, <2>2, <2>3 DEF TypeOK
<1>2. FramesConserved
  BY DEF FramesConserved, Packets
<1>3. NoStrandedFrames
  BY DEF NoStrandedFrames, Levels, BestLevels, PacketLevels
<1>4. Announced = {"Initial"}
  BY DEF Announced
<1> QED
  BY <1>1, <1>2, <1>3, <1>4 DEF Inv, LevelsHaveKeys, PacketsFollowKeys, Keyless, NumbersAllocated, Packets

(* No level is announced but packet levels. *)
LEMMA AnnouncedType ==
    ASSUME TypeOK
    PROVE  /\ Announced \subseteq PacketLevels
           /\ encryptionLevelsAvailable \subseteq Announced
           /\ announcements # <<>> => Head(announcements) \in Announced
  BY DEF TypeOK, Announced

(* Nothing an agent does with frames changes which levels have keys. *)
LEMMA SameKeys ==
    ASSUME Inv, UNCHANGED <<encryptionLevelsAvailable, handshake, announcements, panicked>>,
           \A p \in packetBuffer' : p.level \notin encryptionLevelsAvailable,
           \A p \in sent' : p.level \in encryptionLevelsAvailable
    PROVE  LevelsHaveKeys'
<1>1. /\ Keyless' = Keyless /\ helloDue' = helloDue /\ negotiated' = negotiated
      /\ Announced' = Announced /\ ticket' = ticket
      /\ panicked' = panicked /\ encryptionLevelsAvailable' = encryptionLevelsAvailable
  BY DEF Keyless, Announced, handshake
<1> QED
  BY <1>1 DEF Inv, LevelsHaveKeys, PacketsFollowKeys

(* A packet made now has a number no packet of its level and era has. *)
LEMMA NewPacketFacts ==
    ASSUME Inv, NEW l \in PacketLevels, NEW F \in SUBSET Frames
    PROVE  /\ NewPacket(l, F) \in Packet
           /\ NewPacket(l, F).level = l /\ NewPacket(l, F).frames = F
           /\ NewPacket(l, F).pn = PacketNumber[PNSpace(l)]
           /\ NewPacket(l, F).era = transitions
           /\ \A p \in Packets : p.level = l /\ p.era = transitions => p.pn < NewPacket(l, F).pn
           /\ NewPacket(l, F) \notin Packets
<1>1. PacketNumber[PNSpace(l)] \in Nat
  BY LevelFacts DEF Inv, TypeOK
<1>2. \A p \in Packets : p \in Packet /\ p.pn \in Nat
  BY DEF Inv, TypeOK, Packets, Packet
<1>3. \A p \in Packets :
        p.level = l /\ p.era = transitions => p.pn < PacketNumber[PNSpace(l)]
  BY DEF Inv, NumbersAllocated
<1>4. transitions \in Nat
  BY DEF Inv, TypeOK
<1> QED
  BY <1>1, <1>2, <1>3, <1>4 DEF NewPacket, Packet

(* The number of a new packet is taken from its space. *)
LEMMA NumberTaken ==
    ASSUME Inv, NEW l \in PacketLevels, nextPacketNumber(PNSpace(l)), NEW p \in Packet,
           \/ p \in Packets
           \/ p.level = l /\ p.era = transitions /\ p.pn = PacketNumber[PNSpace(l)],
           transitions' = transitions
    PROVE  /\ p.era <= transitions'
           /\ p.era = transitions' => p.pn < PacketNumber'[PNSpace(p.level)]
<1>1. PNSpace(l) \in PNSpaces /\ PNSpace(p.level) \in PNSpaces /\ p.pn \in Nat
  BY LevelFacts DEF Packet
<1>2. PacketNumber'[PNSpace(p.level)] =
        IF PNSpace(p.level) = PNSpace(l) THEN PacketNumber[PNSpace(l)] + 1
        ELSE PacketNumber[PNSpace(p.level)]
  BY <1>1 DEF Inv, TypeOK, nextPacketNumber
<1>3. PacketNumber[PNSpace(l)] \in Nat /\ PacketNumber[PNSpace(p.level)] \in Nat
  BY <1>1 DEF Inv, TypeOK
<1>4. CASE p \in Packets
  BY <1>1, <1>2, <1>3, <1>4 DEF Inv, NumbersAllocated
<1>5. CASE p.level = l /\ p.era = transitions /\ p.pn = PacketNumber[PNSpace(l)]
  <2>1. transitions \in Nat
    BY DEF Inv, TypeOK
  <2> QED
    BY <1>1, <1>2, <1>3, <1>5, <2>1
<1> QED
  BY <1>4, <1>5

(* Putting a frame that has just been queued in the buffer of a level. *)
LEMMA FittingConserves ==
    ASSUME Inv, NEW f \in Frames, f \notin queued, QueueFitting(f), queued' = queued \cup {f}
    PROVE  FramesConserved'
<1> DEFINE l == FrameLevel[f]
<1>1. l \in Levels
  BY SendingAssumption
<1>2. frameBuffer' = [frameBuffer EXCEPT ![l] = @ \cup {f}] /\ Packets' = Packets
  BY DEF QueueFitting, Packets
<1>3. \A k \in Levels : frameBuffer'[k] = IF k = l THEN frameBuffer[k] \cup {f} ELSE frameBuffer[k]
  BY <1>1, <1>2 DEF Inv, TypeOK
<1>4. /\ \A k \in Levels : f \notin frameBuffer[k]
      /\ \A p \in Packets : f \notin p.frames
  BY DEF Inv, FramesConserved
<1>5. \A x \in Frames : x \in queued' <=> \/ \E k \in Levels : x \in frameBuffer'[k]
                                        \/ \E p \in Packets' : x \in p.frames
  BY <1>1, <1>2, <1>3 DEF Inv, FramesConserved
<1> QED
  BY <1>2, <1>3, <1>4, <1>5 DEF Inv, FramesConserved

(* Turning the buffer of a level into a packet and leaving in it the frame that did
   not fit, if there is one (F is that frame or nothing). *)
LEMMA PackingConserves ==
    ASSUME Inv, NEW l \in PacketLevels, NEW F \in SUBSET (Frames \ queued),
           queued' = queued \cup F,
           frameBuffer' = [frameBuffer EXCEPT ![l] = F],
           Packets' = Packets \cup {NewPacket(l, frameBuffer[l])}
    PROVE  FramesConserved'
<1> DEFINE n == NewPacket(l, frameBuffer[l])
<1>1. l \in Levels /\ frameBuffer[l] \in SUBSET Frames
  BY LevelFacts DEF Inv, TypeOK
<1>2. n.frames = frameBuffer[l] /\ n \notin Packets
  BY <1>1, NewPacketFacts
<1>3. \A k \in Levels : frameBuffer'[k] = IF k = l THEN F ELSE frameBuffer[k]
  BY <1>1 DEF Inv, TypeOK
<1>4. /\ \A k \in Levels : \A x \in F : x \notin frameBuffer[k]
      /\ \A p \in Packets : \A x \in F : x \notin p.frames
  BY DEF Inv, FramesConserved
<1>5. \A x \in Frames : x \in queued' <=> \/ \E k \in Levels : x \in frameBuffer'[k]
                                        \/ \E p \in Packets' : x \in p.frames
  BY <1>1, <1>2, <1>3 DEF Inv, FramesConserved
<1>6. \A k, m \in Levels : k # m => \A x \in frameBuffer'[k] : x \notin frameBuffer'[m]
  BY <1>3, <1>4 DEF Inv, FramesConserved
<1>7. \A k \in Levels, p \in Packets' : \A x \in frameBuffer'[k] : x \notin p.frames
  BY <1>1, <1>2, <1>3, <1>4 DEF Inv, FramesConserved
<1>8. \A p, q \in Packets' : p # q => \A x \in p.frames : x \notin q.frames
  BY <1>1, <1>2 DEF Inv, FramesConserved
<1> QED
  BY <1>5, <1>6, <1>7, <1>8 DEF FramesConserved

(* Sending a frame that does not fit alone. *)
LEMMA LoneFrameConserves ==
    ASSUME Inv, NEW l \in PacketLevels, NEW f \in Frames, f \notin queued,
           queued' = queued \cup {f}, frameBuffer' = frameBuffer,
           Packets' = Packets \cup {NewPacket(l, {f})}
    PROVE  FramesConserved'
<1> DEFINE n == NewPacket(l, {f})
<1>1. \A x : x \in n.frames <=> x = f
  BY NewPacketFacts
<1>2. /\ \A k \in Levels : f \notin frameBuffer[k]
      /\ \A p \in Packets : f \notin p.frames
  BY DEF Inv, FramesConserved
<1>3. \A x \in Frames : x \in queued' <=> \/ \E k \in Levels : x \in frameBuffer'[k]
                                        \/ \E p \in Packets' : x \in p.frames
  BY <1>1 DEF Inv, FramesConserved
<1> HIDE DEF n
<1>4. ASSUME NEW k \in Levels, NEW p \in Packets', NEW x \in frameBuffer'[k]
      PROVE  x \notin p.frames
  <2>1. p \in Packets \/ p = n
    BY DEF n
  <2> QED
    BY <1>1, <1>2, <1>4, <2>1 DEF Inv, FramesConserved
<1>5. ASSUME NEW p \in Packets', NEW q \in Packets', NEW x, x \in p.frames, x \in q.frames
      PROVE  p = q
  <2>1. p \in Packets \/ p = n
    BY DEF n
  <2>2. q \in Packets \/ q = n
    BY DEF n
  <2> QED
    BY <1>1, <1>2, <1>5, <2>1, <2>2 DEF Inv, FramesConserved
<1>6. \A k, m \in Levels : k # m => \A x \in frameBuffer'[k] : x \notin frameBuffer'[m]
  BY DEF Inv, FramesConserved
<1>7. \A k \in Levels, p \in Packets' : \A x \in frameBuffer'[k] : x \notin p.frames
  BY <1>4, Zenon
<1>8. \A p, q \in Packets' : p # q => \A x \in p.frames : x \notin q.frames
  BY <1>5
<1> QED
  BY <1>3, <1>6, <1>7, <1>8, Zenon DEF FramesConserved

(* Moving the frames of a Best level to the buffer of a packet level. *)
LEMMA MovingConserves ==
    ASSUME Inv, NEW l \in PacketLevels, NEW b \in BestLevels, queued' = queued, Packets' = Packets,
           frameBuffer' = [frameBuffer EXCEPT ![l] = @ \cup frameBuffer[b], ![b] = {}]
    PROVE  FramesConserved'
<1>1. l \in Levels /\ b \in Levels /\ l # b
  BY LevelFacts
<1>2. /\ frameBuffer'[b] = {} /\ frameBuffer'[l] = frameBuffer[l] \cup frameBuffer[b]
      /\ \A k \in Levels \ {b, l} : frameBuffer'[k] = frameBuffer[k]
  BY <1>1 DEF Inv, TypeOK
<1>3. \A x \in Frames : x \in queued' <=> \/ \E k \in Levels : x \in frameBuffer'[k]
                                        \/ \E p \in Packets' : x \in p.frames
  <2> SUFFICES ASSUME NEW x \in Frames
               PROVE  (\E k \in Levels : x \in frameBuffer'[k]) <=>
                      (\E k \in Levels : x \in frameBuffer[k])
    BY DEF Inv, FramesConserved
  <2>1. ASSUME NEW k \in Levels, x \in frameBuffer[k] PROVE \E m \in Levels : x \in frameBuffer'[m]
    <3>1. CASE k \in {b, l}
      BY <1>1, <1>2, <2>1, <3>1
    <3>2. CASE k \notin {b, l}
      BY <1>2, <2>1, <3>2
    <3> QED
      BY <3>1, <3>2
  <2>2. ASSUME NEW k \in Levels, x \in frameBuffer'[k] PROVE \E m \in Levels : x \in frameBuffer[m]
    <3>1. CASE k \in {b, l}
      BY <1>1, <1>2, <2>2, <3>1
    <3>2. CASE k \notin {b, l}
      BY <1>2, <2>2, <3>2
    <3> QED
      BY <3>1, <3>2
  <2> QED
    BY <2>1, <2>2
<1>4. \A k, m \in Levels : k # m => \A x \in frameBuffer'[k] : x \notin frameBuffer'[m]
  <2> SUFFICES ASSUME NEW k \in Levels, NEW m \in Levels, NEW x, x \in frameBuffer'[k],
                      x \in frameBuffer'[m]
               PROVE  k = m
    OBVIOUS
  <2>1. k # b /\ m # b
    BY <1>2
  <2>2. x \in frameBuffer[k] \/ (k = l /\ x \in frameBuffer[b])
    BY <1>2, <2>1
  <2>3. x \in frameBuffer[m] \/ (m = l /\ x \in frameBuffer[b])
    BY <1>2, <2>1
  <2> QED
    BY <1>1, <2>1, <2>2, <2>3 DEF Inv, FramesConserved
<1>5. \A k \in Levels, p \in Packets' : \A x \in frameBuffer'[k] : x \notin p.frames
  BY <1>1, <1>2 DEF Inv, FramesConserved
<1> QED
  BY <1>3, <1>4, <1>5 DEF Inv, FramesConserved
-----------------------------------------------------------------------------
(* Queueing a frame keeps the invariant when the frame fits *)
LEMMA QueueFittingInv ==
    ASSUME Inv, NEW f \in Frames, QueueFrame(f), QueueFitting(f)
    PROVE  Inv'
<1> DEFINE l == FrameLevel[f]
<1>1. l \in Levels /\ FrameLength[f] \in Nat
  BY SendingAssumption
<1>2. Packets' = Packets
  BY DEF QueueFitting, Packets
<1>3. TypeOK'
  <2>1. frameBuffer' \in [Levels -> SUBSET Frames]
    BY <1>1 DEF Inv, TypeOK, QueueFitting
  <2>2. frameBufferLength' \in [Levels -> 0 .. (Uint16 - 1)]
    <3>1. frameBufferLength[l] \in Nat
      BY <1>1, SendingAssumption DEF Inv, TypeOK
    <3>2. (frameBufferLength[l] + FrameLength[f]) % Uint16 \in 0 .. (Uint16 - 1)
      BY <1>1, <3>1, SendingAssumption
    <3> QED
      BY <1>1, <3>2 DEF Inv, TypeOK, QueueFitting
  <2> QED
    BY <1>1, <2>1, <2>2 DEF Inv, TypeOK, QueueFrame, QueueFitting, handshake
<1>4. FramesConserved'
  BY FittingConserves DEF QueueFrame
<1>5. NoStrandedFrames'
  <2> SUFFICES ASSUME NEW k \in encryptionLevelsAvailable \cup BestLevels, frameBuffer'[k] # {}
               PROVE  k \in running' \cup fired
    BY DEF NoStrandedFrames, QueueFrame
  <2>1. CASE k = l
    BY <2>1 DEF QueueFitting, Wakes
  <2>2. CASE k # l
    <3>1. k \in Levels /\ frameBuffer'[k] = frameBuffer[k]
      BY <1>1, <2>2, LevelFacts DEF Inv, TypeOK, QueueFitting
    <3> QED
      BY <3>1 DEF Inv, NoStrandedFrames, QueueFitting
  <2> QED
    BY <2>1, <2>2
<1>6. LevelsHaveKeys'
  BY SameKeys DEF Inv, LevelsHaveKeys, PacketsFollowKeys, QueueFrame, QueueFitting
<1>7. NumbersAllocated'
  BY <1>2 DEF Inv, NumbersAllocated, QueueFitting, QueueFrame, handshake
<1> QED
  BY <1>3, <1>4, <1>5, <1>6, <1>7 DEF Inv

(* and when it does not. *)
LEMMA QueueOverflowingInv ==
    ASSUME Inv, NEW f \in Frames, QueueFrame(f), QueueOverflowing(f)
    PROVE  Inv'
<1> DEFINE l == TargetLevel(FrameLevel[f])
           F == IF frameBuffer[l] = {} THEN {f} ELSE frameBuffer[l]
           n == NewPacket(l, F)
<1>1. l \in PacketLevels /\ l \in Levels /\ l \notin BestLevels
  BY SendingAssumption, TargetIsPacketLevel, LevelFacts
<1>2. F \in SUBSET Frames
  BY <1>1 DEF Inv, TypeOK
<1>3. n \in Packet /\ n.level = l /\ n.pn = PacketNumber[PNSpace(l)]
      /\ n.era = transitions
  BY <1>1, <1>2, NewPacketFacts
<1>4. /\ nextPacketNumber(PNSpace(l))
      /\ frameBuffer' = [frameBuffer EXCEPT ![l] = IF frameBuffer[l] = {} THEN {} ELSE {f}]
      /\ frameBufferLength' = [frameBufferLength EXCEPT ![l] = 0]
      /\ running' = running /\ fired' = fired /\ closed' = closed
      /\ encryptionLevelsAvailable' = encryptionLevelsAvailable
      /\ queued' = queued \cup {f} /\ f \notin queued
      /\ handshake' = handshake /\ announcements' = announcements /\ panicked' = panicked
      /\ transitions' = transitions
  BY DEF QueueOverflowing, QueueFrame, fillWithLevel, KeepBack, handshake
<1>5. \/ l \in encryptionLevelsAvailable /\ sent' = sent \cup {n} /\ packetBuffer' = packetBuffer
      \/ l \notin encryptionLevelsAvailable /\ packetBuffer' = packetBuffer \cup {n} /\ sent' = sent
  BY DEF QueueOverflowing
<1>6. Packets' = Packets \cup {n}
  BY <1>5 DEF Packets
<1> HIDE DEF l, n
<1>7. TypeOK'
  <2>1. frameBuffer' \in [Levels -> SUBSET Frames]
    BY <1>1, <1>4 DEF Inv, TypeOK
  <2>2. frameBufferLength' \in [Levels -> 0 .. (Uint16 - 1)]
    BY <1>1, <1>4, SendingAssumption DEF Inv, TypeOK
  <2>3. PacketNumber' \in [PNSpaces -> Nat]
    BY <1>1, <1>4, LevelFacts DEF Inv, TypeOK, nextPacketNumber
  <2>4. packetBuffer' \in SUBSET Packet /\ sent' \in SUBSET Packet
    BY <1>3, <1>5 DEF Inv, TypeOK
  <2> QED
    BY <1>4, <2>1, <2>2, <2>3, <2>4 DEF Inv, TypeOK, handshake
<1>8. FramesConserved'
  <2>1. CASE frameBuffer[l] = {}
    <3>1. frameBuffer' = frameBuffer
      BY <1>1, <1>4, <2>1 DEF Inv, TypeOK
    <3>2. n = NewPacket(l, {f})
      BY <2>1 DEF n
    <3> QED
      BY <1>1, <1>4, <1>6, <3>1, <3>2, LoneFrameConserves
  <2>2. CASE frameBuffer[l] # {}
    <3>1. frameBuffer' = [frameBuffer EXCEPT ![l] = {f}]
      BY <1>4, <2>2
    <3>2. n = NewPacket(l, frameBuffer[l])
      BY <2>2 DEF n
    <3>3. {f} \in SUBSET (Frames \ queued)
      BY <1>4
    <3> QED
      BY <1>1, <1>4, <1>6, <3>1, <3>2, <3>3, PackingConserves
  <2> QED
    BY <2>1, <2>2
<1>9. NoStrandedFrames'
  <2> SUFFICES ASSUME NEW k \in encryptionLevelsAvailable \cup BestLevels, frameBuffer'[k] # {}
               PROVE  k \in running \cup fired
    BY <1>4 DEF NoStrandedFrames
  <2>1. k \in Levels
    BY LevelFacts DEF Inv, TypeOK
  <2>2. frameBuffer[k] # {}
    BY <1>1, <1>4, <2>1 DEF Inv, TypeOK
  <2> QED
    BY <2>2 DEF Inv, NoStrandedFrames
<1>10. LevelsHaveKeys'
  BY <1>3, <1>4, <1>5, SameKeys DEF Inv, LevelsHaveKeys, PacketsFollowKeys
<1>11. NumbersAllocated'
  <2> SUFFICES ASSUME NEW p \in Packets'
               PROVE  /\ p.era <= transitions'
                      /\ p.era = transitions' => p.pn < PacketNumber'[PNSpace(p.level)]
    BY DEF NumbersAllocated
  <2>1. p \in Packet /\ (p \in Packets \/ p = n)
    BY <1>3, <1>6 DEF Inv, TypeOK, Packets
  <2> QED
    BY <1>1, <1>3, <1>4, <2>1, NumberTaken
<1> QED
  BY <1>7, <1>8, <1>9, <1>10, <1>11 DEF Inv

(* A tick waits in the channel of the timer. *)
LEMMA TimerExpiresInv ==
    ASSUME Inv, NEW l \in Levels, TimerExpires(l)
    PROVE  Inv'
<1>1. Packets' = Packets
  BY DEF TimerExpires, Packets
<1>2. TypeOK'
  BY DEF Inv, TypeOK, TimerExpires, handshake
<1>3. FramesConserved'
  BY <1>1 DEF Inv, FramesConserved, TimerExpires
<1>4. NoStrandedFrames'
  BY DEF Inv, NoStrandedFrames, TimerExpires
<1>5. LevelsHaveKeys' /\ NumbersAllocated'
  BY <1>1, SameKeys DEF Inv, LevelsHaveKeys, PacketsFollowKeys, NumbersAllocated, TimerExpires, handshake
<1> QED
  BY <1>2, <1>3, <1>4, <1>5 DEF Inv

(* The tick of a packet level: its buffer is emptied when it can be sent. *)
LEMMA FillAndSendInv ==
    ASSUME Inv, NEW l \in PacketLevels, fillAndSendPacket(l)
    PROVE  Inv'
<1> DEFINE n == NewPacket(l, frameBuffer[l])
<1>1. l \in Levels /\ l \notin BestLevels /\ frameBuffer[l] \in SUBSET Frames
  BY LevelFacts DEF Inv, TypeOK
<1>2. n \in Packet /\ n.level = l /\ n.pn = PacketNumber[PNSpace(l)]
      /\ n.era = transitions
  BY <1>1, NewPacketFacts
<1>3. /\ nextPacketNumber(PNSpace(l)) /\ fired' = fired \ {l}
      /\ queued' = queued /\ packetBuffer' = packetBuffer /\ running' = running
      /\ encryptionLevelsAvailable' = encryptionLevelsAvailable /\ closed' = closed
      /\ handshake' = handshake /\ announcements' = announcements /\ panicked' = panicked
      /\ transitions' = transitions
  BY DEF fillAndSendPacket, handshake
<1>4. PacketNumber' \in [PNSpaces -> Nat]
  BY <1>3, LevelFacts DEF Inv, TypeOK, nextPacketNumber
<1>5. CASE frameBuffer[l] # {} /\ l \in encryptionLevelsAvailable
  <2>1. /\ sent' = sent \cup {n} /\ frameBuffer' = [frameBuffer EXCEPT ![l] = {}]
        /\ frameBufferLength' = [frameBufferLength EXCEPT ![l] = 0]
        /\ Packets' = Packets \cup {n}
    BY <1>5, <1>3 DEF fillAndSendPacket, Ready, fillWithLevel, Packets
  <2>2. FramesConserved'
    <3>1. queued' = queued \cup {} /\ {} \in SUBSET (Frames \ queued)
      BY <1>3
    <3> QED
      BY <2>1, <3>1, PackingConserves
  <2> HIDE DEF n
  <2>3. TypeOK'
    <3>1. frameBuffer' \in [Levels -> SUBSET Frames] /\ sent' \in SUBSET Packet
      BY <1>1, <1>2, <2>1 DEF Inv, TypeOK
    <3>2. frameBufferLength' \in [Levels -> 0 .. (Uint16 - 1)]
      BY <1>1, <2>1, SendingAssumption DEF Inv, TypeOK
    <3> QED
      BY <1>3, <1>4, <3>1, <3>2 DEF Inv, TypeOK, handshake
  <2>4. NoStrandedFrames'
    <3> SUFFICES ASSUME NEW k \in encryptionLevelsAvailable \cup BestLevels, frameBuffer'[k] # {}
                 PROVE  k \in running \cup (fired \ {l})
      BY <1>3 DEF NoStrandedFrames
    <3>1. k \in Levels
      BY LevelFacts DEF Inv, TypeOK
    <3>2. k # l /\ frameBuffer'[k] = frameBuffer[k]
      BY <1>1, <2>1, <3>1 DEF Inv, TypeOK
    <3> QED
      BY <3>2 DEF Inv, NoStrandedFrames
  <2>5. LevelsHaveKeys'
    BY <1>2, <1>3, <1>5, <2>1, SameKeys DEF Inv, LevelsHaveKeys, PacketsFollowKeys
  <2>6. NumbersAllocated'
    <3> SUFFICES ASSUME NEW p \in Packets'
                 PROVE  /\ p.era <= transitions'
                        /\ p.era = transitions' => p.pn < PacketNumber'[PNSpace(p.level)]
      BY DEF NumbersAllocated
    <3>1. p \in Packet /\ (p \in Packets \/ p = n)
      BY <1>2, <2>1 DEF Inv, TypeOK, Packets
    <3> QED
      BY <1>2, <1>3, <3>1, NumberTaken
  <2> QED
    BY <2>2, <2>3, <2>4, <2>5, <2>6 DEF Inv
<1>6. CASE ~(frameBuffer[l] # {} /\ l \in encryptionLevelsAvailable)
  <2>1. /\ sent' = sent /\ frameBuffer' = frameBuffer /\ frameBufferLength' = frameBufferLength
        /\ Packets' = Packets
    BY <1>3, <1>6 DEF fillAndSendPacket, Ready, Packets
  <2>2. TypeOK' /\ FramesConserved'
    BY <1>3, <1>4, <2>1 DEF Inv, TypeOK, FramesConserved, handshake
  <2>3. NoStrandedFrames'
    BY <1>1, <1>3, <1>6, <2>1 DEF Inv, NoStrandedFrames
  <2>4. LevelsHaveKeys'
    BY <1>3, <2>1, SameKeys DEF Inv, LevelsHaveKeys, PacketsFollowKeys
  <2>5. NumbersAllocated'
    <3> SUFFICES ASSUME NEW p \in Packets
                 PROVE  /\ p.era <= transitions'
                        /\ p.era = transitions' => p.pn < PacketNumber'[PNSpace(p.level)]
      BY <2>1 DEF NumbersAllocated
    <3>1. p \in Packet
      BY DEF Inv, TypeOK, Packets
    <3> QED
      BY <1>3, <3>1, NumberTaken
  <2> QED
    BY <2>2, <2>3, <2>4, <2>5 DEF Inv
<1> QED
  BY <1>5, <1>6

(* The tick of a Best level: its buffer moves, and the other timer is set. *)
LEMMA MoveToBestInv ==
    ASSUME Inv, NEW b \in BestLevels, MoveToBest(b)
    PROVE  Inv'
<1> DEFINE l == chooseBestEncryptionLevel(encryptionLevelsAvailable, b = "BestAppData")
<1>1. l \in PacketLevels
  BY BestIsPacketLevel
<1>2. l \in Levels /\ b \in Levels /\ l # b
  BY <1>1, LevelFacts
<1>3. /\ fired' = fired \ {b} /\ running' = running \cup {l}
      /\ frameBuffer' = [frameBuffer EXCEPT ![l] = @ \cup frameBuffer[b], ![b] = {}]
      /\ frameBufferLength' =
             [frameBufferLength EXCEPT ![l] = (@ + frameBufferLength[b]) % Uint16, ![b] = 0]
      /\ queued' = queued /\ packetBuffer' = packetBuffer /\ sent' = sent
      /\ encryptionLevelsAvailable' = encryptionLevelsAvailable /\ PacketNumber' = PacketNumber
      /\ closed' = closed /\ Packets' = Packets
      /\ handshake' = handshake /\ announcements' = announcements /\ panicked' = panicked
      /\ transitions' = transitions
  BY DEF MoveToBest, Packets, handshake
<1> HIDE DEF l
<1>4. FramesConserved'
  BY <1>1, <1>3, MovingConserves
<1>5. TypeOK'
  <2>1. frameBuffer' \in [Levels -> SUBSET Frames]
    BY <1>2, <1>3 DEF Inv, TypeOK
  <2>2. frameBufferLength' \in [Levels -> 0 .. (Uint16 - 1)]
    <3>1. frameBufferLength[l] \in Nat /\ frameBufferLength[b] \in Nat
      BY <1>2, SendingAssumption DEF Inv, TypeOK
    <3>2. /\ (frameBufferLength[l] + frameBufferLength[b]) % Uint16 \in 0 .. (Uint16 - 1)
          /\ 0 \in 0 .. (Uint16 - 1)
      BY <3>1, SendingAssumption
    <3> QED
      BY <1>2, <1>3, <3>2 DEF Inv, TypeOK
  <2> QED
    <3>1. handshake' = handshake /\ TypeOK
      BY <1>3 DEF Inv
    <3> QED
      BY <1>2, <1>3, <2>1, <2>2, <3>1, SMTT(20) DEF TypeOK, handshake
<1>6. NoStrandedFrames'
  <2> SUFFICES ASSUME NEW k \in encryptionLevelsAvailable \cup BestLevels, frameBuffer'[k] # {}
               PROVE  k \in (running \cup {l}) \cup (fired \ {b})
    BY <1>3 DEF NoStrandedFrames
  <2>1. k \in Levels
    BY LevelFacts DEF Inv, TypeOK
  <2>2. k # b
    BY <1>2, <1>3 DEF Inv, TypeOK
  <2>3. CASE k # l
    <3>1. frameBuffer'[k] = frameBuffer[k]
      BY <1>2, <1>3, <2>1, <2>2, <2>3 DEF Inv, TypeOK
    <3> QED
      BY <2>2, <3>1 DEF Inv, NoStrandedFrames
  <2> QED
    BY <2>3
<1>7. LevelsHaveKeys' /\ NumbersAllocated'
  BY <1>3, SameKeys DEF Inv, LevelsHaveKeys, PacketsFollowKeys, NumbersAllocated
<1> QED
  BY <1>4, <1>5, <1>6, <1>7 DEF Inv

(* What is announced is what comes next and what comes after it. *)
LEMMA HeadAndTail ==
    ASSUME NEW s \in Seq(PacketLevels), s # <<>>
    PROVE  /\ Head(s) \in PacketLevels /\ Tail(s) \in Seq(PacketLevels)
           /\ {s[i] : i \in DOMAIN s} = {Head(s)} \cup {Tail(s)[i] : i \in DOMAIN Tail(s)}
<1> DEFINE t == Tail(s)
           h == Head(s)
           n == Len(s)
<1>1. /\ n \in Nat /\ n > 0 /\ h = s[1] /\ h \in PacketLevels /\ t \in Seq(PacketLevels)
      /\ DOMAIN s = 1 .. n /\ DOMAIN t = 1 .. (n - 1)
      /\ \A i \in 1 .. (n - 1) : t[i] = s[i + 1]
  OBVIOUS
<1> HIDE DEF t, h, n
<1>2. ASSUME NEW i \in 1 .. n PROVE s[i] = h \/ \E j \in 1 .. (n - 1) : s[i] = t[j]
  <2>1. CASE i = 1
    BY <1>1, <2>1
  <2>2. CASE i # 1
    <3>1. i - 1 \in 1 .. (n - 1) /\ (i - 1) + 1 = i
      BY <1>1, <2>2
    <3> QED
      BY <1>1, <3>1
  <2> QED
    BY <2>1, <2>2
<1>3. ASSUME NEW j \in 1 .. (n - 1) PROVE \E i \in 1 .. n : t[j] = s[i]
  <2>1. j + 1 \in 1 .. n
    BY <1>1
  <2> QED
    BY <1>1, <2>1
<1>4. 1 \in 1 .. n
  BY <1>1
<1>5. {s[i] : i \in 1 .. n} = {h} \cup {t[i] : i \in 1 .. (n - 1)}
  <2>1. h = s[1]
    BY <1>1
  <2>2. ASSUME NEW x PROVE x \in {s[i] : i \in 1 .. n} <=> x = h \/ x \in {t[i] : i \in 1 .. (n - 1)}
    <3>1. ASSUME NEW i \in 1 .. n, x = s[i] PROVE x = h \/ \E j \in 1 .. (n - 1) : x = t[j]
      BY <1>2, <3>1
    <3>2. ASSUME x = h PROVE \E i \in 1 .. n : x = s[i]
      BY <1>4, <2>1, <3>2
    <3>3. ASSUME NEW j \in 1 .. (n - 1), x = t[j] PROVE \E i \in 1 .. n : x = s[i]
      BY <1>3, <3>3
    <3> QED
      BY <3>1, <3>2, <3>3
  <2> QED
    BY <2>2, SMTT(20)
<1> QED
  BY <1>1, <1>5 DEF t, h

(* A level becomes available: its packets leave and its timer is set. *)
LEMMA LevelAvailableInv ==
    ASSUME Inv, LevelAvailable
    PROVE  Inv'
<1> DEFINE l == Head(announcements)
           waiting == {p \in packetBuffer : p.level = l}
<1>1. /\ encryptionLevelsAvailable' = encryptionLevelsAvailable \cup {l}
      /\ announcements # <<>> /\ announcements' = Tail(announcements)
      /\ sent' = sent \cup waiting /\ packetBuffer' = packetBuffer \ waiting
      /\ running' = running \cup {l}
      /\ queued' = queued /\ frameBuffer' = frameBuffer /\ frameBufferLength' = frameBufferLength
      /\ fired' = fired /\ PacketNumber' = PacketNumber /\ closed' = closed
      /\ handshake' = handshake /\ panicked' = panicked /\ transitions' = transitions
  BY DEF LevelAvailable, handshake
<1>2. /\ l \in PacketLevels /\ Tail(announcements) \in Seq(PacketLevels)
      /\ {announcements[i] : i \in DOMAIN announcements} =
            {l} \cup {Tail(announcements)[i] : i \in DOMAIN Tail(announcements)}
  BY <1>1, HeadAndTail DEF Inv, TypeOK
<1> HIDE DEF l
<1>3. Packets' = Packets
  BY <1>1 DEF Packets
<1>4. TypeOK'
  BY <1>1, <1>2, LevelFacts DEF Inv, TypeOK, handshake
<1>5. FramesConserved'
  BY <1>1, <1>3 DEF Inv, FramesConserved
<1>6. NoStrandedFrames'
  BY <1>1 DEF Inv, NoStrandedFrames
<1>7. LevelsHaveKeys'
  <2>1. Announced' = Announced
    BY <1>1, <1>2, Zenon DEF Announced
  <2>2. /\ Keyless' = Keyless /\ helloDue' = helloDue /\ negotiated' = negotiated
        /\ panicked' = panicked /\ ticket' = ticket
    BY <1>1, <2>1 DEF Keyless, handshake
  <2> QED
    BY <1>1, <2>1, <2>2 DEF Inv, LevelsHaveKeys, PacketsFollowKeys
<1>8. NumbersAllocated'
  BY <1>1, <1>3 DEF Inv, NumbersAllocated
<1> QED
  BY <1>4, <1>5, <1>6, <1>7, <1>8 DEF Inv

(* SendPacket panics only for a level that is announced and has no keys. *)
LEMMA SendPacketPanicsInv ==
    ASSUME Inv, NEW l \in PacketLevels, SendPacketPanics(l)
    PROVE  Inv'
<1>1. /\ Packets' = Packets /\ queued' = queued /\ frameBuffer' = frameBuffer
      /\ frameBufferLength' = frameBufferLength /\ packetBuffer' = packetBuffer
      /\ encryptionLevelsAvailable' = encryptionLevelsAvailable /\ running' = running
      /\ fired' = fired /\ sent' = sent /\ closed' = closed
      /\ handshake' = handshake /\ PacketNumber' = PacketNumber
      /\ announcements' = announcements /\ transitions' = transitions /\ panicked' = TRUE
  BY DEF SendPacketPanics, agent, handshake, Packets
<1>2. l \in Announced
  BY AnnouncedType DEF SendPacketPanics, Ready, Inv
<1>3. /\ Keyless' = Keyless /\ helloDue' = helloDue /\ negotiated' = negotiated
      /\ Announced' = Announced /\ ticket' = ticket
  BY <1>1 DEF Keyless, Announced, handshake
<1>4. l \in Keyless
  BY <1>2 DEF SendPacketPanics, Keyless
<1>5. TypeOK'
  <2>1. CryptoStates' = CryptoStates /\ receivedRetry' = receivedRetry /\ transitions' = transitions
    BY <1>1 DEF handshake
  <2> QED
    BY <1>1, <1>3, <2>1 DEF Inv, TypeOK
<1>6. FramesConserved'
  BY <1>1 DEF Inv, FramesConserved
<1>7. NoStrandedFrames'
  BY <1>1 DEF Inv, NoStrandedFrames
<1>8. NumbersAllocated'
  BY <1>1 DEF Inv, NumbersAllocated
<1>9. LevelsHaveKeys'
  BY <1>1, <1>3, <1>4 DEF Inv, LevelsHaveKeys, PacketsFollowKeys
<1> QED
  BY <1>5, <1>6, <1>7, <1>8, <1>9 DEF Inv

(* A level is announced after those that were. *)
LEMMA AppendAnnounces ==
    ASSUME NEW s \in Seq(PacketLevels), NEW l \in PacketLevels
    PROVE  /\ Append(s, l) \in Seq(PacketLevels)
           /\ {Append(s, l)[i] : i \in DOMAIN Append(s, l)} = {s[i] : i \in DOMAIN s} \cup {l}
<1>1. /\ Append(s, l) \in Seq(PacketLevels)
      /\ DOMAIN s = 1 .. Len(s) /\ Len(s) \in Nat /\ DOMAIN Append(s, l) = 1 .. Len(s) + 1
      /\ \A i \in 1 .. Len(s) : Append(s, l)[i] = s[i]
      /\ Append(s, l)[Len(s) + 1] = l
  OBVIOUS
<1>2. \A i \in 1 .. Len(s) + 1 : i \in 1 .. Len(s) \/ i = Len(s) + 1
  BY <1>1
<1>3. 1 .. Len(s) \subseteq 1 .. Len(s) + 1 /\ Len(s) + 1 \in 1 .. Len(s) + 1
  BY <1>1
<1> QED
  BY <1>1, <1>2, <1>3, Zenon

(* So it is when an agent announces it. *)
LEMMA Announcing ==
    ASSUME TypeOK, NEW l \in PacketLevels, announcements' = Append(announcements, l),
           encryptionLevelsAvailable' = encryptionLevelsAvailable
    PROVE  announcements' \in Seq(PacketLevels) /\ Announced' = Announced \cup {l}
<1>1. announcements \in Seq(PacketLevels)
  BY DEF TypeOK
<1>2. {announcements'[i] : i \in DOMAIN announcements'} =
        {announcements[i] : i \in DOMAIN announcements} \cup {l}
  BY <1>1, AppendAnnounces
<1> QED
  BY <1>1, <1>2, AppendAnnounces, Zenon DEF Announced

(* GetInitialPacket takes a number of the Initial space, and gives 0-RTT its keys before
   it announces it. *)
LEMMA GetInitialPacketInv ==
    ASSUME Inv, ~panicked, GetInitialPacket
    PROVE  Inv'
<1>1. /\ Packets' = Packets /\ queued' = queued /\ frameBuffer' = frameBuffer
      /\ frameBufferLength' = frameBufferLength /\ packetBuffer' = packetBuffer
      /\ encryptionLevelsAvailable' = encryptionLevelsAvailable /\ running' = running
      /\ fired' = fired /\ sent' = sent /\ closed' = closed /\ panicked' = panicked
      /\ transitions' = transitions /\ ticket' = ticket /\ receivedRetry' = receivedRetry
      /\ negotiated' = negotiated /\ helloDue' = FALSE
  BY DEF GetInitialPacket, agent, Packets
<1>2. PacketNumber' \in [PNSpaces -> Nat]
  BY DEF Inv, TypeOK, GetInitialPacket, nextPacketNumber, PNSpaces
<1>3. "0RTT" \in PacketLevels /\ "Initial" \in PacketLevels /\ PNSpace("Initial") = "InitialSpace"
  BY DEF PacketLevels, PNSpace
<1>4. /\ announcements' \in Seq(PacketLevels) /\ CryptoStates' \in SUBSET PacketLevels
      /\ \/ Announced' = Announced /\ CryptoStates' = CryptoStates /\ ~ticket
         \/ ticket /\ Announced' = Announced \cup {"0RTT"} /\ CryptoStates' = CryptoStates \cup {"0RTT"}
  <2>1. CASE ticket
    <3>1. announcements' = Append(announcements, "0RTT") /\ CryptoStates' = CryptoStates \cup {"0RTT"}
      BY <2>1 DEF GetInitialPacket, Install0RTT
    <3>2. announcements' \in Seq(PacketLevels) /\ Announced' = Announced \cup {"0RTT"}
      BY <1>1, <1>3, <3>1, Announcing DEF Inv
    <3>3. CryptoStates' \in SUBSET PacketLevels
      BY <1>3, <3>1 DEF Inv, TypeOK
    <3> QED
      BY <2>1, <3>1, <3>2, <3>3, Zenon
  <2>2. CASE ~ticket
    <3>1. announcements' = announcements /\ CryptoStates' = CryptoStates
      BY <2>2 DEF GetInitialPacket, Install0RTT
    <3>2. Announced' = Announced
      BY <1>1, <3>1 DEF Announced
    <3>3. announcements' \in Seq(PacketLevels) /\ CryptoStates' \in SUBSET PacketLevels
      BY <3>1 DEF Inv, TypeOK
    <3> QED
      BY <2>2, <3>1, <3>2, <3>3, Zenon
  <2> QED
    BY <2>1, <2>2
<1>5. TypeOK' /\ FramesConserved' /\ NoStrandedFrames'
  BY <1>1, <1>2, <1>4 DEF Inv, TypeOK, FramesConserved, NoStrandedFrames
<1>6. LevelsHaveKeys'
  BY <1>1, <1>4 DEF Inv, LevelsHaveKeys, PacketsFollowKeys, Keyless
<1>7. NumbersAllocated'
  <2> SUFFICES ASSUME NEW p \in Packets
               PROVE  /\ p.era <= transitions'
                      /\ p.era = transitions' => p.pn < PacketNumber'[PNSpace(p.level)]
    BY <1>1 DEF NumbersAllocated
  <2>1. p \in Packet
    BY DEF Inv, TypeOK, Packets
  <2> QED
    BY <1>1, <1>3, <2>1, NumberTaken DEF GetInitialPacket
<1> QED
  BY <1>5, <1>6, <1>7 DEF Inv

(* TransitionTo resets the numbers for a new era, and leaves 0-RTT to GetInitialPacket;
   what else it leaves without keys, a Version Negotiation has taken from the handshake. *)
LEMMA TransitionInv ==
    ASSUME Inv, ~panicked, ProcessRetry \/ ProcessVersionNegotiation
    PROVE  Inv'
<1>1. /\ TransitionTo
      /\ \/ BeforeHandshake /\ negotiated' = negotiated /\ receivedRetry' = TRUE
         \/ negotiated' = TRUE /\ receivedRetry' = receivedRetry
  BY DEF ProcessRetry, ProcessVersionNegotiation
<1>2. /\ Packets' = Packets /\ queued' = queued /\ frameBuffer' = frameBuffer
      /\ frameBufferLength' = frameBufferLength /\ packetBuffer' = packetBuffer
      /\ encryptionLevelsAvailable' = encryptionLevelsAvailable /\ running' = running
      /\ fired' = fired /\ sent' = sent /\ closed' = closed /\ panicked' = panicked
      /\ ticket' = ticket /\ announcements' = announcements /\ helloDue' = TRUE
      /\ transitions' = transitions + 1 /\ CryptoStates' = {"Initial"}
      /\ Announced' = Announced
  BY <1>1 DEF TransitionTo, agent, Packets, Announced
<1>3. PacketNumber' \in [PNSpaces -> Nat] /\ CryptoStates' \in SUBSET PacketLevels
  BY <1>1, <1>2 DEF TransitionTo, PacketLevels
<1>4. TypeOK' /\ FramesConserved' /\ NoStrandedFrames'
  <2>1. TypeOK'
    <3>1. transitions' \in Nat
      BY <1>2 DEF Inv, TypeOK
    <3>2. /\ ticket' \in BOOLEAN /\ helloDue' \in BOOLEAN /\ receivedRetry' \in BOOLEAN
          /\ negotiated' \in BOOLEAN /\ closed' \in BOOLEAN /\ panicked' \in BOOLEAN
      BY <1>1, <1>2, Zenon DEF Inv, TypeOK
    <3> QED
      BY <1>2, <1>3, <3>1, <3>2 DEF Inv, TypeOK
  <2> QED
    BY <1>2, <2>1 DEF Inv, FramesConserved, NoStrandedFrames
<1>5. LevelsHaveKeys'
  <2>1. Announced \subseteq {"Initial", "0RTT", "Handshake", "1RTT"}
    BY AnnouncedType DEF Inv, PacketLevels
  <2>2. panicked = TRUE => Keyless' # {}
    BY <1>2, <2>1 DEF Inv, LevelsHaveKeys, PacketsFollowKeys, Keyless
  <2>3. Keyless' \ {"0RTT"} # {} => negotiated'
    BY <1>1, <1>2, <2>1 DEF Inv, Keyless, BeforeHandshake
  <2> QED
    BY <1>2, <2>2, <2>3 DEF Inv, LevelsHaveKeys, PacketsFollowKeys, TypeOK
<1>6. NumbersAllocated'
  <2> SUFFICES ASSUME NEW p \in Packets
               PROVE  /\ p.era <= transitions'
                      /\ p.era = transitions' => p.pn < PacketNumber'[PNSpace(p.level)]
    BY <1>2 DEF NumbersAllocated
  <2>1. p.era \in Nat /\ transitions \in Nat
    BY DEF Inv, TypeOK, Packets, Packet
  <2> QED
    BY <1>2, <2>1 DEF Inv, NumbersAllocated
<1> QED
  BY <1>4, <1>5, <1>6 DEF Inv

(* The TLSAgent installs the keys of a level before it announces it. *)
LEMMA TLSAgentInstallsInv ==
    ASSUME Inv, ~panicked, NEW l \in {"Handshake", "1RTT"}, TLSAgentInstalls(l)
    PROVE  Inv'
<1>1. /\ Packets' = Packets /\ queued' = queued /\ frameBuffer' = frameBuffer
      /\ frameBufferLength' = frameBufferLength /\ packetBuffer' = packetBuffer
      /\ encryptionLevelsAvailable' = encryptionLevelsAvailable /\ running' = running
      /\ fired' = fired /\ sent' = sent /\ closed' = closed /\ panicked' = panicked
      /\ transitions' = transitions /\ ticket' = ticket /\ receivedRetry' = receivedRetry
      /\ negotiated' = negotiated /\ helloDue' = helloDue /\ PacketNumber' = PacketNumber
      /\ announcements' = Append(announcements, l) /\ CryptoStates' = CryptoStates \cup {l}
  BY DEF TLSAgentInstalls, agent, Packets
<1>2. l \in PacketLevels
  BY DEF PacketLevels
<1>3. announcements' \in Seq(PacketLevels) /\ Announced' = Announced \cup {l}
  BY <1>1, <1>2, Announcing DEF Inv
<1>4. TypeOK' /\ FramesConserved' /\ NoStrandedFrames' /\ NumbersAllocated'
  BY <1>1, <1>2, <1>3 DEF Inv, TypeOK, FramesConserved, NoStrandedFrames, NumbersAllocated
<1>5. LevelsHaveKeys'
  <2>1. Keyless' = Keyless \ {l}
    BY <1>1, <1>3 DEF Keyless
  <2> QED
    BY <1>1, <1>3, <2>1 DEF Inv, LevelsHaveKeys, PacketsFollowKeys
<1> QED
  BY <1>4, <1>5 DEF Inv

(* Every step of the agents keeps the invariant. *)
LEMMA NextInv == Inv /\ [Next]_vars => Inv'
<1> SUFFICES ASSUME Inv, [Next]_vars PROVE Inv'
  OBVIOUS
<1>1. ASSUME NEW f \in Frames, QueueFrame(f) PROVE Inv'
  BY <1>1, QueueFittingInv, QueueOverflowingInv DEF QueueFrame
<1>2. ASSUME NEW l \in Levels, TimerExpires(l) PROVE Inv'
  BY <1>2, TimerExpiresInv
<1>3. ASSUME NEW l \in PacketLevels, fillAndSendPacket(l) \/ SendPacketPanics(l) PROVE Inv'
  BY <1>3, FillAndSendInv, SendPacketPanicsInv
<1>4. ASSUME NEW l \in BestLevels, MoveToBest(l) PROVE Inv'
  BY <1>4, MoveToBestInv
<1>5. CASE Close \/ UNCHANGED vars
  <2>1. /\ Packets' = Packets /\ queued' = queued /\ frameBuffer' = frameBuffer
        /\ frameBufferLength' = frameBufferLength /\ packetBuffer' = packetBuffer
        /\ encryptionLevelsAvailable' = encryptionLevelsAvailable /\ running' = running
        /\ fired' = fired /\ PacketNumber' = PacketNumber /\ sent' = sent
        /\ closed' \in {closed, TRUE} /\ handshake' = handshake /\ panicked' = panicked
        /\ announcements' = announcements /\ transitions' = transitions
    BY <1>5 DEF Close, vars, agent, handshake, Packets
  <2>2. TypeOK' /\ FramesConserved'
    BY <2>1 DEF Inv, TypeOK, FramesConserved, handshake
  <2>3. LevelsHaveKeys'
    BY <2>1, SameKeys DEF Inv, LevelsHaveKeys, PacketsFollowKeys
  <2> QED
    BY <2>1, <2>2, <2>3 DEF Inv, NoStrandedFrames, NumbersAllocated
<1>6. CASE Next /\ OtherAgentStep
  BY <1>6, GetInitialPacketInv, TransitionInv, TLSAgentInstallsInv DEF Next, Running, OtherAgentStep
<1> QED
  BY <1>1, <1>2, <1>3, <1>4, <1>5, <1>6, LevelAvailableInv DEF Next, SendingAgentStep
-----------------------------------------------------------------------------
(* The invariant above holds of the SendingAgent for any frames, lengths and MTU. *)
THEOREM InvHolds == Spec => []Inv
  BY InitInv, NextInv, PTL DEF Spec

(* The variables keep their types; in particular frameBufferLength stays within its
   uint16 whatever the agent adds to it. *)
THEOREM TypeCorrect == Spec => []TypeOK
<1>1. Inv => TypeOK
  BY DEF Inv
<1> QED
  BY <1>1, InvHolds, PTL

(* The SendingAgent neither loses nor duplicates a frame between FrameQueue and
   SendPacket. *)
THEOREM FramesConservedHolds == Spec => []FramesConserved
<1>1. Inv => FramesConserved
  BY DEF Inv
<1> QED
  BY <1>1, InvHolds, PTL

(* Frames the SendingAgent could send never wait without a timer to wake it up. *)
THEOREM NoStrandedFramesHolds == Spec => []NoStrandedFrames
<1>1. Inv => NoStrandedFrames
  BY DEF Inv
<1> QED
  BY <1>1, InvHolds, PTL

(* A level that has been announced to the SendingAgent has keys when the agent writes at it,
   but for 0-RTT until the ClientHello that follows a Retry or a Version Negotiation, and for
   the levels of a handshake that a Version Negotiation has restarted; it writes at levels it
   has received and holds packets back for the others only. *)
THEOREM PacketsFollowKeysHolds == Spec => []PacketsFollowKeys
<1>1. Inv => PacketsFollowKeys
  BY DEF Inv, LevelsHaveKeys
<1> QED
  BY <1>1, InvHolds, PTL

(* The packets a step sends: one made in the step, or those that waited for a level. *)
LEMMA WhatIsSent ==
    ASSUME Inv, Next, NEW p \in sent' \ sent
    PROVE  \/ p \in packetBuffer
           \/ \E l \in PacketLevels : \E F \in SUBSET Frames : p = NewPacket(l, F)
<1>1. ASSUME NEW f \in Frames, QueueFrame(f)
      PROVE  \E l \in PacketLevels : \E F \in SUBSET Frames : p = NewPacket(l, F)
  <2> DEFINE l == TargetLevel(FrameLevel[f])
             F == IF frameBuffer[l] = {} THEN {f} ELSE frameBuffer[l]
  <2>1. QueueOverflowing(f)
    BY <1>1 DEF QueueFrame, QueueFitting
  <2>2. l \in PacketLevels /\ l \in Levels
    BY SendingAssumption, TargetIsPacketLevel, LevelFacts
  <2>3. F \in SUBSET Frames
    BY <2>2 DEF Inv, TypeOK
  <2>4. p = NewPacket(l, F)
    BY <2>1, SMTT(20) DEF QueueOverflowing
  <2> QED
    BY <2>2, <2>3, <2>4
<1>2. ASSUME NEW l \in PacketLevels, fillAndSendPacket(l)
      PROVE  \E F \in SUBSET Frames : p = NewPacket(l, F)
  <2>1. frameBuffer[l] \in SUBSET Frames
    BY LevelFacts DEF Inv, TypeOK
  <2> QED
    BY <1>2, <2>1 DEF fillAndSendPacket
<1>3. ASSUME LevelAvailable PROVE p \in packetBuffer
  BY <1>3, SMTT(20) DEF LevelAvailable
<1>4. ASSUME SendingAgentStep
      PROVE  \/ p \in packetBuffer
             \/ \E l \in PacketLevels : \E F \in SUBSET Frames : p = NewPacket(l, F)
  BY <1>1, <1>2, <1>3, <1>4
     DEF SendingAgentStep, TimerExpires, MoveToBest, Close, SendPacketPanics, agent
<1>5. ASSUME OtherAgentStep PROVE sent' = sent
  BY <1>5 DEF OtherAgentStep, GetInitialPacket, ProcessRetry, ProcessVersionNegotiation,
              TransitionTo, TLSAgentInstalls, agent
<1> QED
  BY <1>4, <1>5 DEF Next

(* The packets of a level are sent in the order of their numbers. *)
THEOREM PacketNumbersIncreaseHolds == Spec => PacketNumbersIncrease
<1> DEFINE A == \A p \in sent' \ sent, q \in sent :
                    p.level = q.level /\ p.era = q.era => q.pn < p.pn
<1>1. Inv /\ [Next]_vars => [A]_vars
  <2> SUFFICES ASSUME Inv, Next, NEW p \in sent' \ sent, NEW q \in sent, p.level = q.level,
                      p.era = q.era
               PROVE  q.pn < p.pn
    OBVIOUS
  <2>1. p \notin packetBuffer
    BY DEF Inv, LevelsHaveKeys, PacketsFollowKeys
  <2>2. PICK l \in PacketLevels, F \in SUBSET Frames : p = NewPacket(l, F)
    BY <2>1, WhatIsSent
  <2> QED
    BY <2>2, NewPacketFacts DEF Packets
<1> QED
  BY <1>1, InvHolds, PTL DEF Spec, PacketNumbersIncrease
=============================================================================
