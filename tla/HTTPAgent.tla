----------------------------- MODULE HTTPAgent -----------------------------
(***************************************************************************)
(* An HTTP/3 request and its response (agents/http_agent.go,               *)
(* agents/qpack_agent.go): the goroutine that pipes the response stream,   *)
(* the HTTPAgent that decodes frames, and the QPACKAgent.  The peer opens  *)
(* a control, an encoder and a decoder stream; the bytes of a stream come  *)
(* in order, in any number of pieces (reassembly is module Stream).        *)
(*                                                                         *)
(* The peer, the bytes.Buffer of the Go library and the QPACK library are  *)
(* external.  The first byte of a header block says how many instructions  *)
(* the decoder needs before it can decode it, and each of the others is a  *)
(* header; the library refuses the instruction 255.                        *)
(***************************************************************************)
EXTENDS HTTP3, FiniteSets

CONSTANTS
    Exchanges,       \* the frames of a response and of the control stream, whether those come together with
                     \* the type of the control stream, and the bytes of the encoder and the decoder stream
    MaxPieces,       \* in how many pieces the response comes
    SmallBufferSize, \* the first capacity of a bytes.Buffer
    MaxUint64        \* the ReadCloseOffset of a stream without FIN

VARIABLES
    response,        \* the frames of the response
    pieces,          \* the pieces of it that have not arrived
    together,        \* whether the control stream comes in one STREAM frame
    uni,             \* for each unidirectional stream, the STREAM frames still to come
    stream,          \* the response stream: ReadClosed and ReadCloseOffset
    request,         \* how far the request is
    streamChan, pipe,          \* the piping goroutine: its channel, where it is and its copies
    packets, peerStream, registered, \* opening frames on their way, the agents' channels
    buffer,          \* streamDataBuffer and peerControlStreamBuffer
    frameReceived, decoded,    \* frames submitted and not handled, all frames submitted
    resp,            \* responseBuffer
    published,       \* HTTPResponseReceived, with the goroutine that submitted each response
    decodeHeaders, decoder, decodedHeaders, \* QPACKAgent
    encoder,         \* the settings InitEncoder was called with
    stopped          \* "panicked" when the program has, "returned" when the QPACKAgent has

peerv == <<response, together, pieces, uni>>
univ == <<packets, peerStream, registered>>
framev == <<buffer, frameReceived, decoded>>
qpackv == <<decodeHeaders, decoder, decodedHeaders, encoder>>
vars == <<peerv, stream, request, streamChan, pipe, univ, framev, resp, published, qpackv, stopped>>

Bytes(frames) == FlattenSeq([i \in DOMAIN frames |-> WriteTo(frames[i])])

Total == Len(Bytes(response))

(* The ways to cut a sequence of bytes; an empty last piece is a STREAM frame with only the FIN bit. *)
Cuts(b) == UNION {{[i \in 1..n |-> SubSeq(b, at[i] + 1, at[i + 1])] :
                    at \in {c \in [1..(n + 1) -> 0..Len(b)] :
                               /\ c[1] = 0 /\ c[n + 1] = Len(b)
                               /\ \A i \in 1..n : c[i] < c[i + 1] \/ (i = n /\ n > 1 /\ c[i] = c[i + 1])}} : n \in 1..MaxPieces}

Uni == {"control", "encoder", "decoder"}

(* A stream is opened in the frame with its first data; one without data is not opened. *)
Opening(type, data) == IF data = <<>> THEN <<>> ELSE <<<<type>> \o data>>

Idle == [at |-> "idle", n |-> 0, headersRemaining |-> 0]

NewBuffer == [data |-> <<>>, off |-> 0, cap |-> 0]

Init ==
    /\ \E e \in Exchanges :
        /\ response = e.response /\ together = e.together /\ pieces \in Cuts(Bytes(e.response))
        /\ uni = [control |-> IF e.together THEN Opening(67, Bytes(e.control)) ELSE <<<<67>>, Bytes(e.control)>>,
                  encoder |-> Opening(72, e.encoder), decoder |-> Opening(104, e.decoder)]
    /\ stream = [ReadClosed |-> FALSE, ReadCloseOffset |-> MaxUint64]
    /\ request = "none" /\ streamChan = <<>> /\ pipe = Idle
    /\ packets = [u \in Uni |-> <<>>] /\ peerStream = [u \in Uni |-> <<>>] /\ registered = {}
    /\ buffer = [response |-> NewBuffer, control |-> NewBuffer]
    /\ frameReceived = <<>> /\ decoded = [response |-> <<>>, control |-> <<>>]
    /\ resp = [fin |-> FALSE, headersRemaining |-> 0, totalProcessed |-> 0, totalReceived |-> 0, Headers |-> 0, Body |-> <<>>]
    /\ published = <<>> /\ decodeHeaders = <<>> /\ decoder = [instructions |-> 0, blocked |-> <<>>] /\ decodedHeaders = <<>>
    /\ encoder = <<>> /\ stopped = "no"

-----------------------------------------------------------------------------
(* SendRequest registers with the response stream and hands the headers to the QPACKAgent; the       *)
(* encoded block comes back and leaves in a HEADERS frame.                                           *)
SendRequest ==
    /\ request = "none" /\ request' = "encoding"
    /\ UNCHANGED <<peerv, stream, streamChan, pipe, univ, framev, resp, published, qpackv, stopped>>

(* The library may refuse to start a header block. *)
EncodeHeaders ==
    /\ request = "encoding"
    /\ \/ request' = "encoded" /\ UNCHANGED stopped
       \/ stopped' = "returned" /\ UNCHANGED request
    /\ UNCHANGED <<peerv, stream, streamChan, pipe, univ, framev, resp, published, qpackv>>

SendHeaders ==
    /\ request = "encoded" /\ request' = "sent"
    /\ UNCHANGED <<peerv, stream, streamChan, pipe, univ, framev, resp, published, qpackv, stopped>>

(* addToRead of the next piece: the final offset is known before the data is submitted, *)
(* ReadClosed is set after it.                                                          *)
ReceivePiece ==
    /\ request = "sent" /\ pieces # <<>>
    /\ pieces' = Tail(pieces) /\ streamChan' = Append(streamChan, Head(pieces))
    /\ stream' = [stream EXCEPT !.ReadCloseOffset = IF Len(pieces) = 1 THEN Total ELSE @]
    /\ UNCHANGED <<response, together, uni, request, pipe, univ, framev, resp, published, qpackv, stopped>>

CloseRead ==
    /\ stream.ReadCloseOffset # MaxUint64 /\ ~stream.ReadClosed /\ stream' = [stream EXCEPT !.ReadClosed = TRUE]
    /\ UNCHANGED <<peerv, request, streamChan, pipe, univ, framev, resp, published, qpackv, stopped>>

(* A STREAM frame of a unidirectional stream: its data goes to those registered with the stream, *)
(* its packet to the agents.                                                                     *)
ReceiveUni ==
    /\ \E u \in Uni :
        /\ uni[u] # <<>> /\ uni' = [uni EXCEPT ![u] = Tail(@)]
        /\ packets' = [packets EXCEPT ![u] = Append(@, Head(uni[u]))]
        /\ peerStream' = IF u \in registered THEN [peerStream EXCEPT ![u] = Append(@, Head(uni[u]))] ELSE peerStream
    /\ UNCHANGED <<response, together, pieces, stream, request, streamChan, pipe, registered, framev, resp, published, qpackv,
                   stopped>>

(* Mutant: the data behind the stream type is left to the stream. *)
OpenUniEmpty ==
    /\ \E u \in Uni :
        /\ packets[u] # <<>> /\ packets' = [packets EXCEPT ![u] = Tail(@)]
        /\ registered' = registered \cup {u}
    /\ UNCHANGED <<peerv, stream, request, streamChan, pipe, peerStream, framev, resp, published, qpackv, stopped>>

(* The frame at offset 0 names the stream's type: register with it, and take the rest of the frame. *)
OpenUni ==
    /\ \E u \in Uni :
        /\ packets[u] # <<>> /\ packets' = [packets EXCEPT ![u] = Tail(@)]
        /\ IF u \notin registered
           THEN /\ registered' = registered \cup {u}
                /\ peerStream' = IF Len(Head(packets[u])) > 1 THEN [peerStream EXCEPT ![u] = Append(@, Tail(Head(packets[u])))]
                                 ELSE peerStream
           ELSE UNCHANGED <<registered, peerStream>>
    /\ UNCHANGED <<peerv, stream, request, streamChan, pipe, framev, resp, published, qpackv, stopped>>

-----------------------------------------------------------------------------
(* bytes.Buffer.Write: the data is appended where there is room, slid to the front when half of the  *)
(* capacity is enough, or moved to a new array.                                                      *)
BufferWrite(b, data) ==
    LET all == b.data \o data
        off == IF b.data = <<>> THEN 0 ELSE b.off
    IN [data |-> all] @@
       CASE b.off + Len(all) <= b.cap -> [off |-> b.off, cap |-> b.cap]
         [] b.off + Len(all) > b.cap /\ off + Len(all) <= b.cap -> [off |-> off, cap |-> b.cap]
         [] OTHER -> [off |-> 0, cap |-> IF b.cap = 0 /\ Len(data) <= SmallBufferSize THEN SmallBufferSize
                                         ELSE IF Len(all) <= b.cap \div 2 THEN b.cap
                                         ELSE 2 * b.cap + Len(data)]

(* buffer.Bytes()[:4] slices up to the capacity and panics beyond it. *)
PeekPanics(b) == b.cap - b.off < 4

(* peekVarInt reads four bytes, past the data too; what it finds there does not matter, because the  *)
(* whole frame has to be in the buffer.  A length of eight bytes is an error.                        *)
PeekVarInt(b) == LET padded == SubSeq(b \o <<0, 0, 0, 0>>, 1, 4)
                     n == <<1, 2, 4, 8>>[1 + b[1] \div 64]
                 IN [Length |-> n, Value |-> IF n > 4 THEN 0 ELSE ReadVarIntValue(padded).value, err |-> n > 4]

(* Mutant: the byte of the frame type is not counted. *)
WholeFrameShort(b) == LET l == PeekVarInt(b) IN ~l.err /\ Len(b) >= l.Length + l.Value

WholeFrame(b) == LET l == PeekVarInt(b) IN ~l.err /\ Len(b) >= l.Length + 1 + l.Value

(* buffer.Next *)
BufferNext(b, n) == [b EXCEPT !.data = Rest(@, n), !.off = @ + n]

(* attemptDecoding: all whole frames at the front of the buffer, what is left of it, and whether it panics. *)
AttemptDecoding(b) ==
    LET from[i \in 0..Len(b.data)] ==
            LET rest == BufferNext(b, i)
            IN IF rest.data = <<>> \/ PeekPanics(rest) \/ ~WholeFrame(rest.data)
               THEN [frames |-> <<>>, rest |-> rest, panics |-> rest.data # <<>> /\ PeekPanics(rest)]
               ELSE LET l == PeekVarInt(rest.data)
                        n == l.Length + 1 + l.Value
                        next == IF i + n <= Len(b.data) THEN i + n ELSE Len(b.data)
                    IN [from[next] EXCEPT !.frames = <<ReadHTTPFrame(SubSeq(b.data, i + 1, next))>> \o @]
    IN from[0]

Decode(id, data) ==
    \E r \in {AttemptDecoding(BufferWrite(buffer[id], data))} :
        /\ buffer' = [buffer EXCEPT ![id] = r.rest]
        /\ frameReceived' = frameReceived \o [i \in DOMAIN r.frames |-> [StreamID |-> id, Frame |-> r.frames[i]]]
        /\ decoded' = [decoded EXCEPT ![id] = @ \o r.frames]
        /\ stopped' = IF r.panics THEN "panicked" ELSE stopped

ControlData ==
    /\ peerStream["control"] # <<>>
    /\ peerStream' = [peerStream EXCEPT !["control"] = Tail(@)] /\ Decode("control", Head(peerStream["control"]))
    /\ UNCHANGED <<peerv, stream, request, streamChan, pipe, packets, registered, resp, published, qpackv>>

(* The piping goroutine hands a piece to the agent (the channel has no buffer), *)
PipeData ==
    /\ pipe.at = "idle" /\ streamChan # <<>>
    /\ streamChan' = Tail(streamChan) /\ pipe' = [pipe EXCEPT !.at = "handed", !.n = Len(Head(streamChan))]
    /\ Decode("response", Head(streamChan))
    /\ UNCHANGED <<peerv, stream, request, univ, resp, published, qpackv>>

(* then counts it, *)
CountData ==
    /\ pipe.at = "handed"
    /\ resp' = [resp EXCEPT !.totalReceived = @ + pipe.n] /\ pipe' = [pipe EXCEPT !.at = "counted"]
    /\ UNCHANGED <<peerv, stream, request, streamChan, univ, framev, published, qpackv, stopped>>

(* looks whether the stream has ended, *)
LookAtStream ==
    /\ pipe.at = "counted"
    /\ LET fin == stream.ReadClosed \/ resp.totalReceived = stream.ReadCloseOffset
       IN /\ resp' = [resp EXCEPT !.fin = @ \/ fin]
          /\ pipe' = IF fin THEN [pipe EXCEPT !.at = "fin"] ELSE Idle
    /\ UNCHANGED <<peerv, stream, request, streamChan, univ, framev, published, qpackv, stopped>>


Complete(r) == r.fin /\ r.totalReceived > 0 /\ r.totalProcessed = r.totalReceived /\ r.headersRemaining = 0

(* Complete looks at a copy of the response, and another copy is submitted. *)
CheckResponse(goroutine, checked, r) ==
    published' = IF Complete(checked) THEN Append(published, [by |-> goroutine] @@ r) ELSE published

(* and copies the response, one field after the other while the agent may change them, *)
CopyResponse ==
    /\ pipe.at = "fin" /\ pipe' = [pipe EXCEPT !.at = "checking", !.headersRemaining = resp.headersRemaining]
    /\ UNCHANGED <<peerv, stream, request, streamChan, univ, framev, resp, published, qpackv, stopped>>

(* Mutant: only the agent checks the response. *)
NoCheck ==
    /\ pipe.at = "checking" /\ pipe' = Idle
    /\ UNCHANGED <<peerv, stream, request, streamChan, univ, framev, resp, published, qpackv, stopped>>

(* to check it, at the same time as the agent may. *)
PipeCheck ==
    /\ pipe.at = "checking" /\ pipe' = Idle
    /\ CheckResponse("pipe", [resp EXCEPT !.headersRemaining = pipe.headersRemaining], resp)
    /\ UNCHANGED <<peerv, stream, request, streamChan, univ, framev, resp, qpackv, stopped>>

-----------------------------------------------------------------------------
(* The agent handles a decoded frame.  There is a response for the stream of the request only; frames  *)
(* of other types than these are not counted as processed.                                             *)
NextFrame == Head(frameReceived).Frame
NextStream == Head(frameReceived).StreamID
TakeFrame(types) == frameReceived # <<>> /\ NextFrame.Type \in types /\ frameReceived' = Tail(frameReceived)

HandleHEADERS ==
    /\ TakeFrame({1})
    /\ decodeHeaders' = Append(decodeHeaders, [StreamID |-> NextStream, block |-> NextFrame.f[1]])
    /\ resp' = IF NextStream # "response" THEN resp
               ELSE [resp EXCEPT !.headersRemaining = @ + 1, !.totalProcessed = @ + WireLength(NextFrame)]
    /\ UNCHANGED <<peerv, stream, request, streamChan, pipe, univ, buffer, decoded, published, decoder, decodedHeaders, encoder,
                   stopped>>

HandleDATA ==
    /\ TakeFrame({0})
    /\ IF NextStream # "response" THEN UNCHANGED <<resp, published>>
       ELSE /\ resp' = [resp EXCEPT !.Body = @ \o NextFrame.f[1], !.totalProcessed = @ + WireLength(NextFrame)]
            /\ CheckResponse("agent", resp', resp')
    /\ UNCHANGED <<peerv, stream, request, streamChan, pipe, univ, buffer, decoded, qpackv, stopped>>

Setting(settings, id, default) ==
    LET is == {i \in DOMAIN settings : settings[i].Identifier = id}
    IN IF is = {} THEN default ELSE settings[CHOOSE i \in is : \A j \in is : j <= i].Value

(* Only the first SETTINGS frame initialises the encoder. *)
HandleSETTINGS ==
    /\ TakeFrame({4})
    /\ encoder' = IF encoder # <<>> THEN encoder
                  ELSE <<Setting(NextFrame.f[1], 1, 4096), Setting(NextFrame.f[1], 7, 100)>>
    /\ UNCHANGED <<peerv, stream, request, streamChan, pipe, univ, buffer, decoded, resp, published, decodeHeaders, decoder,
                   decodedHeaders, stopped>>

HandleOther ==
    /\ TakeFrame((0..255) \ {0, 1, 4})
    /\ UNCHANGED <<peerv, stream, request, streamChan, pipe, univ, buffer, decoded, resp, published, qpackv, stopped>>

TakeDecodedHeaders ==
    /\ decodedHeaders # <<>> /\ decodedHeaders' = Tail(decodedHeaders)
    /\ IF Head(decodedHeaders).StreamID # "response" THEN UNCHANGED <<resp, published>>
       ELSE /\ resp' = [resp EXCEPT !.headersRemaining = @ - 1, !.Headers = @ + Head(decodedHeaders).n]
            /\ CheckResponse("agent", resp', resp')
    /\ UNCHANGED <<peerv, stream, request, streamChan, pipe, univ, framev, decodeHeaders, decoder, encoder, stopped>>

-----------------------------------------------------------------------------
(* QPACKAgent: after every input, the blocks the decoder has been able to decode are submitted,      *)
(* unless they have no header.                                                                       *)
HeadersIn(block) == Len(block) - 1

Feed(blocks, n) ==
    LET Ready(b) == b.block[1] <= n
        Submitted(b) == Ready(b) /\ HeadersIn(b.block) > 0
        submitted == SelectSeq(blocks, Submitted)
    IN /\ decoder' = [instructions |-> n, blocked |-> SelectSeq(blocks, LAMBDA b : ~Ready(b))]
       /\ decodedHeaders' = decodedHeaders \o [i \in DOMAIN submitted |-> [StreamID |-> submitted[i].StreamID,
                                                                             n |-> HeadersIn(submitted[i].block)]]

DecodeHeaders ==
    /\ decodeHeaders # <<>> /\ decodeHeaders' = Tail(decodeHeaders)
    /\ Feed(Append(decoder.blocked, Head(decodeHeaders)), decoder.instructions)
    /\ UNCHANGED <<peerv, stream, request, streamChan, pipe, univ, framev, resp, published, encoder, stopped>>

(* The agent returns when the library refuses what came on the peer's streams. *)
FeedUnlessRefused(data, n) ==
    IF 255 \in {data[i] : i \in DOMAIN data} THEN stopped' = "returned" /\ UNCHANGED <<decoder, decodedHeaders>>
    ELSE Feed(decoder.blocked, n) /\ UNCHANGED stopped

EncoderData ==
    /\ peerStream["encoder"] # <<>> /\ peerStream' = [peerStream EXCEPT !["encoder"] = Tail(@)]
    /\ LET data == Head(peerStream["encoder"]) IN FeedUnlessRefused(data, decoder.instructions + Len(data))
    /\ UNCHANGED <<peerv, stream, request, streamChan, pipe, packets, registered, framev, resp, published, decodeHeaders, encoder>>

(* The encoder, external, is told of the blocks the peer has decoded. *)
DecoderData ==
    /\ peerStream["decoder"] # <<>> /\ peerStream' = [peerStream EXCEPT !["decoder"] = Tail(@)]
    /\ FeedUnlessRefused(Head(peerStream["decoder"]), decoder.instructions)
    /\ UNCHANGED <<peerv, stream, request, streamChan, pipe, packets, registered, framev, resp, published, decodeHeaders, encoder>>

Parser == ReceivePiece \/ CloseRead \/ ReceiveUni
Pipe == PipeData \/ CountData \/ LookAtStream \/ CopyResponse \/ PipeCheck
HTTPAgentStep ==
    ControlData \/ HandleHEADERS \/ HandleDATA \/ HandleSETTINGS \/ HandleOther \/ TakeDecodedHeaders
QPACKAgentStep == stopped # "returned" /\ (EncodeHeaders \/ DecodeHeaders \/ EncoderData \/ DecoderData)

(* Nothing is left to arrive, to pipe, to decode or to handle. *)
Settled ==
    /\ request = "sent" /\ pieces = <<>> /\ stream.ReadClosed /\ streamChan = <<>> /\ pipe.at = "idle"
    /\ \A u \in Uni : uni[u] = <<>> /\ packets[u] = <<>> /\ peerStream[u] = <<>>
    /\ frameReceived = <<>> /\ decodeHeaders = <<>> /\ decodedHeaders = <<>> /\ stopped = "no"
Done == (Settled \/ stopped # "no") /\ UNCHANGED vars

(* Every step but Done consumes an input, so that an execution without a deadlock ends settled, or with *)
(* the program or the QPACKAgent gone.                                                                  *)
Next ==
    \/ stopped # "panicked" /\ (SendRequest \/ SendHeaders \/ Parser \/ OpenUni \/ Pipe \/ HTTPAgentStep \/ QPACKAgentStep)
    \/ Done

Spec == Init /\ [][Next]_vars
-----------------------------------------------------------------------------
(* What the reader makes of a frame: PUSH_PROMISE loses its header block (http3.go:278). *)
AsRead(frame) == IF frame.Type = 5 THEN [frame EXCEPT !.f[2] = [i \in DOMAIN @ |-> 0]] ELSE frame

FirstFrames(n) == SubSeq(response, 1, n)

(* How many bytes of the response the agent has been given. *)
Handed == Total - Len(FlattenSeq(pieces)) - Len(FlattenSeq(streamChan))

(* However the response is cut, attemptDecoding (http_agent.go:193-204) submits the frames that were *)
(* sent, whole and in order, and leaves none waiting that is whole, but for a frame whose length     *)
(* takes eight bytes and those behind it (peekVarInt looks at four).  peekVarInt panics on a buffer  *)
(* that has no room for four bytes (line 267); that takes a piece that ends within three bytes of    *)
(* the beginning of a frame.                                                                         *)
DecodedAsSent ==
    LET n == Len(decoded.response)
    IN /\ IsPrefix(decoded.response, [i \in DOMAIN response |-> AsRead(response[i])])
       /\ \/ stopped = "panicked"
          \/ n = Len(response) \/ Len(response[n + 1].Length) = 8 \/ Handed < Len(Bytes(FirstFrames(n + 1)))
       /\ stopped = "panicked" => \E id \in DOMAIN buffer : Len(buffer[id].data) \in 1..3

Bodies(frames) == FlattenSeq([i \in DOMAIN frames |-> IF frames[i].Type = 0 THEN frames[i].f[1] ELSE <<>>])
HeaderBlocks == SelectSeq(response, LAMBDA f : f.Type = 1)
Headers == FoldLeft(LAMBDA n, f : n + HeadersIn(f.f[1]), 0, HeaderBlocks)

Whole(r) == r.totalProcessed = Total /\ r.Body = Bodies(response) /\ r.Headers = Headers


(* Once everything has arrived and been handled, a response of HEADERS and DATA frames whose blocks    *)
(* have headers and whose lengths take at most four bytes has been published whole, whichever of the   *)
(* goroutines came last (http_agent.go:149, 177, 250).                                                 *)
ResponsePublished ==
    /\ Settled
    /\ \A i \in DOMAIN response : /\ response[i].Type \in {0, 1} /\ Len(response[i].Length) <= 4
                                  /\ response[i].Type = 1 => HeadersIn(response[i].f[1]) > 0
    => \E i \in DOMAIN published : Whole(published[i])

(* SETTINGS that come in the frame that opens the control stream reach the encoder (http_agent.go:   *)
(* 103-114, 150-163).  In a later frame they may not: data that arrives before the agent registers   *)
(* with the stream is not handed to it.                                                              *)
SettingsTakeEffect == Settled /\ together /\ "control" \in registered => encoder = <<7, 100>>
=============================================================================
