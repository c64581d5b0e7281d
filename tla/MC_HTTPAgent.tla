--------------------------- MODULE MC_HTTPAgent ---------------------------
(* Responses with a blocked header block and lengths written in two and in eight bytes, with trailers, *)
(* with a block without headers, and with frames of other types; control streams with every type of    *)
(* frame; and peers whose encoder or decoder stream the library refuses.                               *)
EXTENDS HTTPAgent

Long(frame) == [frame EXCEPT !.Length = <<64>> \o @]
Longest(frame) == [frame EXCEPT !.Length = <<192, 0, 0, 0, 0, 0, 0>> \o @]
MCResponses ==
    {<<HEADERS(<<1, 9>>), DATA(<<5, 6>>), Long(DATA(<<7>>))>>,
     <<HEADERS(<<0, 9, 9>>), DATA(<<5>>), HEADERS(<<1, 9>>)>>,
     <<HEADERS(<<0>>), DATA(<<5>>)>>,
     <<HEADERS(<<0, 9>>), UnknownFrame(33, <<>>), PUSH_PROMISE(2, <<9>>)>>}
MCControl ==
    {<<SETTINGS(<<[Identifier |-> 1, Value |-> 7], [Identifier |-> 6, Value |-> 80]>>), PRIORITY(64, 4, 70, 9)>>,
     <<SETTINGS(<<[Identifier |-> 1, Value |-> 7]>>), SETTINGS(<<>>), CANCEL_PUSH(1), GOAWAY(8), MAX_PUSH_ID(3)>>}
OneSetting == SETTINGS(<<[Identifier |-> 1, Value |-> 7]>>)

MCExchanges ==
    [response : MCResponses, control : {<<>>}, together : {TRUE}, encoder : {<<0>>}, decoder : {<<>>}]
    \cup [response : {<<DATA(<<1>>)>>}, control : MCControl, together : BOOLEAN, encoder : {<<0>>}, decoder : {<<128>>}]
    \cup [response : {<<DATA(<<1>>), Longest(DATA(<<2>>))>>}, control : {<<OneSetting, HEADERS(<<0, 9>>), DATA(<<3>>)>>},
          together : {TRUE}, encoder : {<<>>}, decoder : {<<>>}]
    \cup [response : {<<HEADERS(<<1, 9>>)>>}, control : {<<OneSetting>>}, together : {TRUE},
          encoder : {<<0>>, <<255>>}, decoder : {<<255>>}]
===========================================================================
