--------------------------- MODULE MC_Handshake ---------------------------
(* Two parameter lists a server may send: one with a repeated parameter, one with a number cut short. *)
EXTENDS Handshake

MCLists == {<<Parameter(4, <<64, 200>>), Parameter(2, <<7>>), Parameter(4, <<9>>), Parameter(99, <<>>)>>,
            <<Parameter(4, <<5>>), Parameter(8, <<64>>)>>}
MCKinds == {{"VN"}, {"Retry", "Coalesce"}, {"Close", "Coalesce"}, {"BadTLS", "Refuse"}}
MCLimits == [NewTLSTransportParameterHandler EXCEPT !.MaxUniStreams = 0]
=============================================================================
