------------------------ MODULE TransportParameters ------------------------
(***************************************************************************)
(* The QUIC transport parameters (transport_parameters.go): what a         *)
(* connection announces in its ClientHello and what it keeps of the        *)
(* server's.  A parameter is its type and the bytes of its value; the TLS  *)
(* presentation syntax of the list around them is an external library.     *)
(***************************************************************************)
EXTENDS VarInts, SequencesExt

(* The parameters that are varints, and those that have a field of their own. *)
IntegerParameters == {1, 3, 4, 5, 6, 7, 8, 9, 10, 11}
OriginalConnectionId == 0
StatelessResetToken == 2
DisableMigration == 12
PreferredAddress == 13

(* The handler of a new connection. *)
NewTLSTransportParameterHandler ==
    [MaxStreamDataBidiLocal |-> 16384, MaxData |-> 32768, MaxBidiStreams |-> 1, MaxUniStreams |-> 1,
     IdleTimeout |-> 10, AdditionalParameters |-> <<>>]

Parameter(type, value) == [ParameterType |-> type, Value |-> value]

GetExtensionData(h) ==
    <<Parameter(5, EncodeVarInt(h.MaxStreamDataBidiLocal)), Parameter(4, EncodeVarInt(h.MaxData)),
      Parameter(8, EncodeVarInt(h.MaxBidiStreams)), Parameter(9, EncodeVarInt(h.MaxUniStreams)),
      Parameter(1, EncodeVarInt(h.IdleTimeout))>> \o h.AdditionalParameters

NoParameters == [integers |-> [t \in IntegerParameters |-> 0], fields |-> <<>>, AdditionalParameters |-> <<>>]

(* ReadVarIntValue's error: the bytes end before the number does. *)
Truncated(b) == b = <<>> \/ Len(b) < <<1, 2, 4, 8>>[1 + b[1] \div 64]

(* What one parameter of the list sets: a later one of the same type overwrites it. *)
SetParameter(r, p) ==
    IF p.ParameterType \in IntegerParameters
    THEN [r EXCEPT !.integers[p.ParameterType] = ReadVarIntValue(p.Value).value]
    ELSE IF p.ParameterType \in {OriginalConnectionId, StatelessResetToken, DisableMigration, PreferredAddress}
    THEN [r EXCEPT !.fields = Append(@, p)]
    ELSE [r EXCEPT !.AdditionalParameters = Append(@, p)]

(* The loop: it returns at the first number that cannot be read. *)
ReadParameters(list) ==
    LET Step(loop, p) ==
            IF loop.err THEN loop
            ELSE IF p.ParameterType \in IntegerParameters /\ Truncated(p.Value)
            THEN [loop EXCEPT !.err = TRUE, !.read.integers[p.ParameterType] = 0]
            ELSE [loop EXCEPT !.read = SetParameter(@, p)]
    IN  FoldLeft(Step, [err |-> FALSE, read |-> NoParameters], list)

(* Mutant: the parameters are read into the handler's, and what came before an error stays. *)
ReceiveInPlace(received, list) ==
    LET loop == ReadParameters(list)
    IN  [err |-> loop.err, received |-> loop.read]

(* The parameters of the handler are replaced when the loop has come to the end. *)
ReceiveExtensionData(received, list) ==
    LET loop == ReadParameters(list)
    IN  [err |-> loop.err, received |-> IF loop.err THEN received ELSE loop.read]
=============================================================================
