--------------------------- MODULE AnthropicDecoder ---------------------------
(***************************************************************************)
(* The decoder of the Anthropic Messages API: it holds the request and a   *)
(* JSON response until they are whole, lets an event stream pass and       *)
(* gathers its events, and writes what it decoded into filter metadata.    *)
(***************************************************************************)
EXTENDS HttpStream

Block(type, text, args) == [type |-> type, text |-> text, input |-> args]

(* Requests: a system prompt or none, and messages of content blocks.      *)
Requests ==
    {[system |-> sys, messages |-> <<[role |-> "user", blocks |-> bs]>>] :
        sys \in {<< >>, <<"s">>},
        bs \in {<<Block("text", <<"a">>, << >>)>>,
                <<Block("tool_use", << >>, <<"c">>), Block("text", <<"a">>, << >>),
                  Block("tool_use", << >>, <<"d">>)>>}}

(* A JSON response. *)
Response ==
    [role |-> "assistant", usage |-> [input |-> 3, output |-> 2],
     content |-> <<Block("text", <<"a", "b">>, << >>), Block("tool_use", << >>, <<"c">>)>>]

Event(name) == [event |-> name]
Data(x) == [data |-> x]
Broken == Data([ok |-> FALSE])
Start(usage) == Data([ok |-> TRUE, role |-> "assistant", usage |-> usage])
BlockStart(i, block) == Data([ok |-> TRUE, index |-> i, block |-> block])
Delta(i, type, piece) == Data([ok |-> TRUE, index |-> i, type |-> type, piece |-> piece])
Usage(n) == Data([ok |-> TRUE, output |-> n])

(* Event streams: text and a tool call with usage; a second block alone,   *)
(* announced after its first delta, with a broken event and no usage.      *)
Bodies ==
    {<<Event("message_start"), Start([input |-> 3, output |-> 1]),
       Event("content_block_start"), BlockStart(0, Block("text", << >>, << >>)),
       Event("content_block_delta"), Delta(0, "text_delta", "a"),
       Event("content_block_delta"), Delta(0, "text_delta", "b"),
       Event("content_block_start"), BlockStart(1, Block("tool_use", << >>, << >>)),
       Event("content_block_delta"), Delta(1, "input_json_delta", "c"),
       Event("message_delta"), Usage(2),
       Event("message_stop"), Data([ok |-> TRUE])>>,
     <<Event("message_start"), Start(None),
       Event("content_block_start"), Broken,
       Event("content_block_delta"), Delta(1, "text_delta", "a"),
       Event("content_block_start"), BlockStart(1, Block("text", <<"z">>, << >>)),
       Event("message_delta"), Usage(2)>>}

(* The indices of blocks in Bodies, and a map from them. *)
Indices == 0..1
EmptyMap == [i \in Indices |-> None]

newAnthropicSSEAccumulator ==
    [buf |-> << >>, done |-> FALSE, currentEvent |-> None, role |-> None, usage |-> None,
     contentBlocks |-> << >>, textByIndex |-> EmptyMap, jsonByIndex |-> EmptyMap]

(* m[i] += x for a Go map. *)
Extend(m, i, x) == [m EXCEPT ![i] = IF @ = None THEN <<x>> ELSE Append(@, x)]

(* A broken event is logged and skipped; message_stop has no data to read. *)
processEvent(a, type, d) ==
    IF type = "message_stop" THEN [a EXCEPT !.done = TRUE]
    ELSE IF ~d.ok THEN a
    ELSE CASE type = "message_start" ->
                [a EXCEPT !.role = d.role, !.usage = IF d.usage # None THEN d.usage ELSE @]
           [] type = "content_block_start" ->
                LET n == Len(a.contentBlocks)
                    grown == [i \in 1 .. (IF d.index < n THEN n ELSE d.index + 1) |->
                                IF i <= n THEN a.contentBlocks[i] ELSE Block("", << >>, << >>)]
                IN  [a EXCEPT !.contentBlocks = [grown EXCEPT ![d.index + 1] = d.block]]
           [] type = "content_block_delta" ->
                IF d.type = "text_delta"
                THEN [a EXCEPT !.textByIndex = Extend(@, d.index, d.piece)]
                ELSE [a EXCEPT !.jsonByIndex = Extend(@, d.index, d.piece)]
           [] type = "message_delta" ->
                IF a.usage # None THEN [a EXCEPT !.usage.output = d.output] ELSE a
           [] OTHER -> a

(* A complete line of the stream. *)
parseEvents(a, line) ==
    IF "event" \in DOMAIN line THEN [a EXCEPT !.currentEvent = line.event]
    ELSE [processEvent(a, a.currentEvent, line.data) EXCEPT !.currentEvent = None]

(* Slip: what a chunk cut off is forgotten when the next one comes. *)
feedForgets(a, body, chunk) ==
    IF a.done THEN a ELSE Feed([a EXCEPT !.buf = << >>], body, chunk, parseEvents)

feed(a, body, chunk) == IF a.done THEN a ELSE Feed(a, body, chunk, parseEvents)

(* Text and arguments gathered by index go into the announced blocks. *)
finish(a) ==
    [role |-> a.role, usage |-> a.usage,
     content |-> [i \in DOMAIN a.contentBlocks |->
        LET b == a.contentBlocks[i]
        IN  IF b.type = "text" /\ a.textByIndex[i - 1] # None
            THEN [b EXCEPT !.text = a.textByIndex[i - 1]]
            ELSE IF b.type = "tool_use" /\ a.jsonByIndex[i - 1] # None
            THEN [b EXCEPT !.input = a.jsonByIndex[i - 1]]
            ELSE b]]

(* The texts and the tool calls of a message's blocks. *)
Texts(blocks) ==
    LET texts == SelectSeq(blocks, LAMBDA b : b.type = "text" /\ b.text # << >>)
    IN  [i \in DOMAIN texts |-> texts[i].text]
ToolCalls(blocks) ==
    LET calls == SelectSeq(blocks, LAMBDA b : b.type = "tool_use")
    IN  [i \in DOMAIN calls |-> calls[i].input]

(***************************************************************************)
(* requestProcessed, responseProcessed, sseAcc: as in decoderFilter.       *)
(* request, body, pos: what was sent, and the pieces of the event stream   *)
(* that came.  input, output: the metadata written, in order.              *)
(***************************************************************************)
Configs ==
    [kind : {"anthropic"}, requestProcessed : {FALSE}, responseProcessed : {FALSE},
     request : {None}, body : {None}, pos : {0}, sseAcc : {None},
     input : {<< >>}, output : {<< >>}]

Filters ==
    LET Text == Seq({"a", "b", "c", "d", "s", "z"})
        Tokens == [input : Nat, output : Nat] \cup {None}
        Blocks == [type : {"", "text", "tool_use"}, text : Text, input : Text]
        Acc == [buf : Seq(Nat), done : BOOLEAN, currentEvent : STRING \cup {None},
                role : {None, "assistant"}, usage : Tokens, contentBlocks : Seq(Blocks),
                textByIndex : [Indices -> Text \cup {None}],
                jsonByIndex : [Indices -> Text \cup {None}]]
    IN  [kind : {"anthropic"}, requestProcessed : BOOLEAN, responseProcessed : BOOLEAN,
         request : Requests \cup {None}, body : Bodies \cup {None}, pos : Nat,
         sseAcc : Acc \cup {None},
         input : Seq([count : Nat, roles : Seq(STRING), content : Seq(Seq(Text)),
                      calls : Seq(Seq(Text))]),
         output : Seq([role : {None, "assistant"}, content : Seq(Text), calls : Seq(Text),
                       usage : Tokens])]

Mine(s) == filter[s].kind = "anthropic"

(* The system prompt is written as message 0. *)
setRequestMetadata(req) ==
    LET system == IF req.system = << >> THEN << >>
                  ELSE <<[role |-> "system", blocks |-> <<Block("text", req.system, << >>)>>]>>
        all == system \o req.messages
    IN  [count |-> Len(req.messages) + Len(system),
         roles |-> [i \in DOMAIN all |-> all[i].role],
         content |-> [i \in DOMAIN all |-> Texts(all[i].blocks)],
         calls |-> [i \in DOMAIN all |-> ToolCalls(all[i].blocks)]]

setResponseMetadata(resp) ==
    [role |-> resp.role, content |-> Texts(resp.content), calls |-> ToolCalls(resp.content),
     usage |-> resp.usage]

(* Outcomes: an empty or broken body writes nothing. *)
decodeRequestBody(f) ==
    LET g == [f EXCEPT !.requestProcessed = TRUE]
    IN  {g} \cup {[g EXCEPT !.request = req, !.input = Append(@, setRequestMetadata(req))] :
                     req \in Requests}

decodeResponseBody(f) ==
    LET g == [f EXCEPT !.responseProcessed = TRUE]
    IN  {g, [g EXCEPT !.output = Append(@, setResponseMetadata(Response))]}

decodeStreamingResponse(f) ==
    [f EXCEPT !.responseProcessed = TRUE,
              !.output = Append(@, setResponseMetadata(finish(f.sseAcc)))]

OnRequestHeaders(s) ==
    /\ Mine(s)
    /\ \E end \in BOOLEAN :
         OnHeaders(s, "req", end, {Returns(IF end THEN "Continue" ELSE "Stop", filter[s])})

OnRequestBody(s) ==
    /\ Mine(s)
    /\ \E end \in BOOLEAN : OnBody(s, "req", end,
         IF end THEN {Returns("Continue", g) : g \in decodeRequestBody(filter[s])}
         ELSE {Returns("StopAndBuffer", filter[s])})

OnRequestTrailers(s) ==
    /\ Mine(s)
    /\ OnTrailers(s, "req", {Returns("Continue", g) :
         g \in IF filter[s].requestProcessed THEN {filter[s]} ELSE decodeRequestBody(filter[s])})

OnResponseHeaders(s) ==
    /\ Mine(s)
    /\ \E end \in BOOLEAN : OnHeaders(s, "resp", end,
         IF end THEN {Returns("Continue", filter[s])}
         ELSE {Returns("Stop", filter[s])}
              \cup {Returns("Continue", [filter[s] EXCEPT !.body = b,
                                           !.sseAcc = newAnthropicSSEAccumulator]) : b \in Bodies})

(* An event stream goes on with any number of pieces. *)
Fed(f) ==
    {[f EXCEPT !.sseAcc = feed(@, f.body, Chunk(f.pos, p)), !.pos = p] :
        p \in f.pos .. 2 * Len(f.body)}

OnResponseBody(s) ==
    /\ Mine(s)
    /\ \E end \in BOOLEAN : OnBody(s, "resp", end,
         IF filter[s].sseAcc # None
         THEN {Returns("Continue", IF end THEN decodeStreamingResponse(g) ELSE g) :
                  g \in Fed(filter[s])}
         ELSE IF end THEN {Returns("Continue", g) : g \in decodeResponseBody(filter[s])}
         ELSE {Returns("StopAndBuffer", filter[s])})

OnResponseTrailers(s) ==
    /\ Mine(s)
    /\ OnTrailers(s, "resp", {Returns("Continue", g) :
         g \in IF filter[s].responseProcessed THEN {filter[s]}
               ELSE IF filter[s].sseAcc # None THEN {decodeStreamingResponse(filter[s])}
               ELSE decodeResponseBody(filter[s])})

LocalReplyElsewhere(s) == Mine(s) /\ Foreign(s)

(***************************************************************************)
(* What an event stream says, from its complete lines at once: a block's   *)
(* text is that of its deltas, or else the one it was announced with.      *)
(***************************************************************************)
Said(lines) ==
    LET events == [k \in 1 .. Len(lines) \div 2 |->
                     [type |-> lines[2 * k - 1].event, data |-> lines[2 * k].data]]
        Of(type) == SelectSeq(events, LAMBDA e : e.type = type /\ e.data.ok)
        heads == Of("message_start")
        counts == Of("message_delta")
        Announced(i, type) == SelectSeq(Of("content_block_start"), LAMBDA e :
                                  e.data.index = i /\ e.data.block.type = type)
        Pieces(i, type) == LET ds == SelectSeq(Of("content_block_delta"), LAMBDA e :
                                         e.data.index = i /\ e.data.type = type)
                           IN  [k \in DOMAIN ds |-> ds[k].data.piece]
        TextOf(i) == IF Pieces(i, "text_delta") # << >> THEN Pieces(i, "text_delta")
                     ELSE Announced(i, "text")[1].data.block.text
        texts == SelectSeq(<<0, 1>>, LAMBDA i : Announced(i, "text") # << >> /\ TextOf(i) # << >>)
        tools == SelectSeq(<<0, 1>>, LAMBDA i : Announced(i, "tool_use") # << >>)
    IN  [role |-> IF heads = << >> THEN None ELSE heads[1].data.role,
         content |-> [k \in DOMAIN texts |-> TextOf(texts[k])],
         calls |-> [k \in DOMAIN tools |-> Pieces(tools[k], "input_json_delta")],
         usage |-> IF heads = << >> \/ counts = << >> \/ heads[1].data.usage = None
                   THEN IF heads = << >> THEN None ELSE heads[1].data.usage
                   ELSE [heads[1].data.usage EXCEPT !.output = counts[Len(counts)].data.output]]

(* The metadata is that of the whole messages, written once. *)
Faithful(f) ==
    /\ f.input = IF f.request = None THEN << >> ELSE <<setRequestMetadata(f.request)>>
    /\ f.sseAcc # None =>
         f.output = IF f.responseProcessed THEN <<Said(Complete(f.body, f.pos))>> ELSE << >>
    /\ Len(f.output) <= 1
================================================================================
