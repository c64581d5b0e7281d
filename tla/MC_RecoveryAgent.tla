-------------------------- MODULE MC_RecoveryAgent --------------------------
(***************************************************************************)
(* Frames for the RecoveryAgent: z is 0-RTT data, fin the client's TLS     *)
(* Finished message, x1 and x2 are 1-RTT data.                             *)
(***************************************************************************)
EXTENDS RecoveryAgent

CONSTANTS z, fin, x1, x2

MCFrameLevel ==
    [f \in Frames |-> CASE f = z -> "0RTT" [] f = fin -> "Handshake" [] OTHER -> "1RTT"]
=============================================================================
