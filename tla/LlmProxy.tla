-------------------------------- MODULE LlmProxy -------------------------------
(***************************************************************************)
(* The LLM proxy filter: requests to a known API are buffered and parsed,  *)
(* responses are parsed whole or event by event; the filter only observes, *)
(* and an error ends its processing but never blocks the stream.           *)
(***************************************************************************)
EXTENDS HttpStream

-------------------------------------------------------------------------------
(* The parsers of event streams, one per API: each reads the token counts  *)
(* and, unlike the decoders, gives up on the first event it cannot parse.  *)

Tokens(in, out) == [input |-> in, output |-> out]
NoTokens == Tokens(0, 0)

(* Lines: an event's name; a payload with the tokens it reports, if any.   *)
Event(name) == [event |-> name]
Payload(tokens) == [ok |-> TRUE, done |-> FALSE, tokens |-> tokens]
BadPayload == [ok |-> FALSE, done |-> FALSE, tokens |-> NoTokens]
DONE == [ok |-> FALSE, done |-> TRUE, tokens |-> NoTokens]

(* Streams of each API, complete ones and ones with an unreadable event.   *)
Bodies(kind) ==
    IF kind = "anthropic"
    THEN {<<Event("message_start"), Payload(Tokens(3, 1)),
            Event("content_block_delta"), BadPayload,
            Event("message_delta"), Payload(Tokens(0, 2)),
            Event("message_stop"), BadPayload>>,
          <<Event("message_start"), Payload(Tokens(3, 1)), Event("message_delta"), BadPayload,
            Event("message_delta"), Payload(Tokens(0, 2))>>}
    ELSE {<<Payload(NoTokens), Payload(Tokens(3, 0)), Payload(Tokens(3, 2)), Payload(NoTokens), DONE>>,
          <<Payload(Tokens(3, 2)), BadPayload, Payload(Tokens(4, 2))>>}

NewSSEParser == [buf |-> << >>, done |-> FALSE, err |-> FALSE, currentEvent |-> "", tokens |-> NoTokens]

(* Anthropic: parseAnthropicChunk reads two kinds of events, and a count   *)
(* replaces the one seen before when it is positive.                       *)
processEvent(a, event, data) ==
    IF event = "message_stop" THEN [a EXCEPT !.done = TRUE]
    ELSE IF event \notin {"message_start", "message_delta"} THEN a
    ELSE IF ~data.ok THEN [a EXCEPT !.err = TRUE]
    ELSE [a EXCEPT !.tokens = Tokens(IF data.tokens.input > 0 THEN data.tokens.input ELSE @.input,
                                     IF data.tokens.output > 0 THEN data.tokens.output ELSE @.output)]

anthropicLine(a, line) ==
    IF a.err THEN a
    ELSE IF "event" \in DOMAIN line THEN [a EXCEPT !.currentEvent = line.event]
    ELSE LET b == processEvent(a, a.currentEvent, line)
         IN  IF b.err THEN b ELSE [b EXCEPT !.currentEvent = ""]

(* OpenAI: a payload with usage replaces it; nothing is read after [DONE]. *)
openaiLine(a, line) ==
    IF a.err \/ a.done THEN a
    ELSE IF line.done THEN [a EXCEPT !.done = TRUE]
    ELSE IF ~line.ok THEN [a EXCEPT !.err = TRUE]
    ELSE IF line.tokens = NoTokens THEN a
    ELSE [a EXCEPT !.tokens = line.tokens]

anthropicFeed(a, body, chunk) == IF a.done THEN a ELSE Feed(a, body, chunk, anthropicLine)

openaiFeed(a, body, chunk) == IF a.done THEN a ELSE Feed(a, body, chunk, openaiLine)

(* The custom kind uses the OpenAI parser. *)
FeedOf(kind, a, body, chunk) ==
    IF kind = "anthropic" THEN anthropicFeed(a, body, chunk) ELSE openaiFeed(a, body, chunk)

(***************************************************************************)
(* What a stream says, from its complete lines at once: the payloads that  *)
(* are read, whether one of them is broken, and the last count of each.    *)
(***************************************************************************)
Read(kind, lines) ==
    LET ks == SelectSeq([i \in DOMAIN lines |-> i], LAMBDA i :
                IF kind = "anthropic"
                THEN i % 2 = 0 /\ lines[i - 1].event \in {"message_start", "message_delta"}
                ELSE ~lines[i].done)
    IN  [k \in DOMAIN ks |-> lines[ks[k]]]

Unreadable(kind, lines) == \E k \in DOMAIN Read(kind, lines) : ~Read(kind, lines)[k].ok

LastOf(seq, zero) == IF seq = << >> THEN zero ELSE seq[Len(seq)]

Reported(kind, lines) ==
    LET counts == [k \in DOMAIN Read(kind, lines) |-> Read(kind, lines)[k].tokens]
    IN  IF kind = "anthropic"
        THEN Tokens(LastOf(SelectSeq(counts, LAMBDA c : c.input > 0), NoTokens).input,
                    LastOf(SelectSeq(counts, LAMBDA c : c.output > 0), NoTokens).output)
        ELSE LastOf(SelectSeq(counts, LAMBDA c : c # NoTokens), NoTokens)

-------------------------------------------------------------------------------
(* The filter. *)

(***************************************************************************)
(* api: kind.  sent: requestSentAt is set.  total, errors: increments of   *)
(* requestTotal and requestError.  usage: the token counts reported, in    *)
(* order.  body, pos: the event stream sent and how much of it came.       *)
(***************************************************************************)
Configs ==
    [kind : {"llm"}, matched : {FALSE}, api : {None}, hasError : {FALSE}, sent : {FALSE},
     sseParser : {None}, body : {None}, pos : {0}, total : {0}, errors : {0}, usage : {<< >>}]

Filters ==
    LET Counts == [input : Nat, output : Nat]
    IN  [kind : {"llm"}, matched : BOOLEAN, api : {None, "openai", "anthropic", "custom"},
         hasError : BOOLEAN, sent : BOOLEAN,
         sseParser : [buf : Seq(Nat), done : BOOLEAN, err : BOOLEAN, currentEvent : STRING,
                      tokens : Counts] \cup {None},
         body : Bodies("openai") \cup Bodies("anthropic") \cup {None}, pos : Nat,
         total : Nat, errors : Nat, usage : Seq(Counts)]

Mine(s) == filter[s].kind = "llm"

Ignores(f) == ~f.matched \/ f.hasError

onError(f) ==
    [f EXCEPT !.hasError = TRUE, !.errors = @ + 1, !.total = IF f.sent THEN @ ELSE @ + 1]

onRequestSuccess(f) == [f EXCEPT !.sent = TRUE, !.total = @ + 1]

onResponseSuccess(f, tokens) == [f EXCEPT !.usage = Append(@, tokens)]

(* An empty, unparsable or model-less body is an error. *)
parseRequestBody(f) == {onError(f), onRequestSuccess(f)}

(* A JSON body is empty or unparsable, or has usage or none. *)
parseResponseBody(f) ==
    {onError(f), onResponseSuccess(f, NoTokens), onResponseSuccess(f, Tokens(3, 2))}

(* Finish of the parsers never fails. *)
finishStreamingResponse(f) == onResponseSuccess(f, f.sseParser.tokens)

AllContinue(fs) == {Returns("Continue", f) : f \in fs}

OnRequestHeaders(s) ==
    /\ Mine(s)
    /\ \E end \in BOOLEAN, api \in {"openai", "anthropic", "custom"} :
         LET f == [filter[s] EXCEPT !.matched = TRUE, !.api = api]
         IN  OnHeaders(s, "req", end,
               AllContinue({filter[s], onError(f)}) \cup (IF end THEN {} ELSE {Returns("Stop", f)}))

OnRequestBody(s) ==
    /\ Mine(s)
    /\ \E end \in BOOLEAN : OnBody(s, "req", end,
         IF Ignores(filter[s]) THEN AllContinue({filter[s]})
         ELSE IF ~end THEN {Returns("StopAndBuffer", filter[s])}
         ELSE AllContinue(parseRequestBody(filter[s])))

OnRequestTrailers(s) ==
    /\ Mine(s)
    /\ OnTrailers(s, "req", AllContinue(
         IF Ignores(filter[s]) THEN {filter[s]} ELSE parseRequestBody(filter[s])))

(* Headers only, a status other than 200 and an unknown content type are   *)
(* errors; event streams pass, JSON is held.                               *)
OnResponseHeaders(s) ==
    /\ Mine(s)
    /\ \E end \in BOOLEAN : OnHeaders(s, "resp", end,
         IF Ignores(filter[s]) THEN AllContinue({filter[s]})
         ELSE AllContinue({onError(filter[s])})
              \cup IF end THEN {}
                   ELSE {Returns("Stop", filter[s])}
                        \cup {Returns("Continue", [filter[s] EXCEPT !.sseParser = NewSSEParser,
                                                                   !.body = b]) :
                                 b \in Bodies(filter[s].api)})

(* An event stream goes on with any number of pieces; f as the parser      *)
(* leaves it.                                                              *)
Fed(f) ==
    {[f EXCEPT !.sseParser = FeedOf(f.api, @, f.body, Chunk(f.pos, p)), !.pos = p] :
        p \in f.pos .. 2 * Len(f.body)}

OnResponseBody(s) ==
    /\ Mine(s)
    /\ \E end \in BOOLEAN : OnBody(s, "resp", end,
         IF Ignores(filter[s]) THEN AllContinue({filter[s]})
         ELSE IF filter[s].sseParser # None
              THEN AllContinue({IF f.sseParser.err THEN onError(f)
                                ELSE IF end THEN finishStreamingResponse(f) ELSE f :
                                  f \in Fed(filter[s])})
         ELSE IF ~end THEN {Returns("StopAndBuffer", filter[s])}
         ELSE AllContinue(parseResponseBody(filter[s])))

OnResponseTrailers(s) ==
    /\ Mine(s)
    /\ OnTrailers(s, "resp", AllContinue(
         IF Ignores(filter[s]) THEN {filter[s]}
         ELSE IF filter[s].sseParser # None THEN {finishStreamingResponse(filter[s])}
         ELSE parseResponseBody(filter[s])))

LocalReplyElsewhere(s) == Mine(s) /\ Foreign(s)

(***************************************************************************)
(* The counts reported for an event stream are those of the lines that     *)
(* came, and none are reported once one of them could not be read.         *)
(***************************************************************************)
Faithful(f) ==
    f.sseParser # None =>
        LET lines == Complete(f.body, f.pos)
        IN  /\ f.usage # << >> => f.usage = <<Reported(f.api, lines)>>
            /\ f.hasError = Unreadable(f.api, lines)
================================================================================
