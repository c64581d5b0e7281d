-------------------------- MODULE MC_SendingAgent --------------------------
(***************************************************************************)
(* Frames for the SendingAgent: with an MTU of 3, a frame of length 2 fits *)
(* an empty buffer and overflows one that holds another, and a frame of    *)
(* length 4 is larger than the MTU.                                        *)
(***************************************************************************)
EXTENDS SendingAgent, FiniteSetsExt

CONSTANTS a2, a4, b2, b4

MCFrameLevel == [f \in Frames |-> IF f \in {a2, a4} THEN "BestAppData" ELSE "Best"]

MCFrameLength == [f \in Frames |-> IF f \in {a2, b2} THEN 2 ELSE 4]
-----------------------------------------------------------------------------
TotalLength(S) == MapThenSumSet(LAMBDA f : FrameLength[f], S) % Uint16

(* frameBufferLength counts every frame of a buffer but at most one, the frame that
   an overflow left there (send_agent.go:108), and every frame of a Best buffer:
   the lengths the agent bundles by never drift further than one frame. *)
AtMostOneUncounted ==
    \A l \in Levels :
        LET uncounted == {{}} \cup (IF l \in BestLevels THEN {} ELSE {{f} : f \in frameBuffer[l]})
        IN  \E U \in uncounted : frameBufferLength[l] = TotalLength(frameBuffer[l] \ U)
=============================================================================
