------------------------------ MODULE ChatDecoder ------------------------------
(***************************************************************************)
(* The decoder of the OpenAI chat completions API.  It holds messages and  *)
(* gathers event streams like the Anthropic decoder; a stream's chunks     *)
(* carry pieces of several choices, and of several tool calls of each.     *)
(***************************************************************************)
EXTENDS HttpStream
LOCAL INSTANCE SequencesExt

(* A message, its content already extracted: text, and arguments of calls. *)
Chat(role, content, calls) == [role |-> role, content |-> content, calls |-> calls]

Requests == {<<Chat("user", <<"a">>, << >>)>>,
             <<Chat("system", <<"s">>, << >>), Chat("assistant", << >>, <<<<"c">>, <<"d">>>>)>>}

(* A JSON response. *)
Response == [choices |-> <<Chat("assistant", <<"a", "b">>, <<<<"c">>>>)>>, usage |-> 5]

(* Lines of a stream; call pieces are <<index of the call, arguments>>. *)
Deltas(choices, usage) == [ok |-> TRUE, done |-> FALSE, choices |-> choices, usage |-> usage]
Choice(i, role, content, calls) ==
    [index |-> i, role |-> role, content |-> content, calls |-> calls]
Broken == [ok |-> FALSE, done |-> FALSE]
DONE == [ok |-> TRUE, done |-> TRUE]

(* Event streams: two choices whose pieces alternate, with a usage chunk;  *)
(* two tool calls, the second announced first, of a second choice alone.   *)
Bodies ==
    {<<Deltas(<<Choice(0, "assistant", << >>, << >>)>>, None),
       Deltas(<<Choice(0, None, <<"a">>, << >>), Choice(1, "assistant", <<"c">>, << >>)>>, None),
       Deltas(<<Choice(1, None, <<"d">>, << >>)>>, None),
       Deltas(<<Choice(0, None, <<"b">>, << >>)>>, None),
       Deltas(<< >>, 5), DONE>>,
     <<Deltas(<<Choice(1, "assistant", << >>, <<<<1, <<"c">>>>>>)>>, 1),
       Broken,
       Deltas(<<Choice(1, None, << >>, <<<<0, <<"a">>>>, <<1, <<"d">>>>>>)>>, 5),
       Deltas(<<Choice(1, None, << >>, <<<<0, <<"b">>>>>>)>>, None)>>}

(* The indices of choices and of calls in Bodies, and a map from them. *)
Indices == 0..1
EmptyMap == [i \in Indices |-> None]

newSSEAccumulator ==
    [buf |-> << >>, done |-> FALSE, usage |-> None, maxChoiceIdx |-> 0,
     roleByChoice |-> EmptyMap, contentByChoice |-> [i \in Indices |-> << >>],
     toolCallsByChoice |-> [i \in Indices |-> EmptyMap]]

(* One choice of a chunk: the first piece of a call announces it, the      *)
(* later ones extend its arguments.  maxChoiceIdx counts from 1 here.      *)
addChoice(a, c) ==
    [a EXCEPT !.maxChoiceIdx = IF c.index >= @ THEN c.index + 1 ELSE @,
              !.roleByChoice[c.index] = IF c.role # None THEN c.role ELSE @,
              !.contentByChoice[c.index] = @ \o c.content,
              !.toolCallsByChoice[c.index] = FoldLeft(LAMBDA m, call :
                  [m EXCEPT ![call[1]] = IF @ = None THEN call[2] ELSE @ \o call[2]], @, c.calls)]

processChunk(a, chunk) ==
    IF ~chunk.ok THEN a
    ELSE FoldLeft(addChoice, [a EXCEPT !.usage = IF chunk.usage # None THEN chunk.usage ELSE @],
                  chunk.choices)

(* A complete line of the stream; nothing is read after [DONE]. *)
parseEvents(a, line) ==
    IF a.done THEN a
    ELSE IF line.done THEN [a EXCEPT !.done = TRUE]
    ELSE processChunk(a, line)

feed(a, body, chunk) == IF a.done THEN a ELSE Feed(a, body, chunk, parseEvents)

(* The choices up to the greatest index, their calls sorted by index. *)
finish(a) ==
    [usage |-> a.usage,
     choices |-> [i \in 1 .. a.maxChoiceIdx |->
        LET calls == a.toolCallsByChoice[i - 1]
            js == SetToSortSeq({j \in Indices : calls[j] # None}, <)
        IN  Chat(a.roleByChoice[i - 1], a.contentByChoice[i - 1],
                 [k \in DOMAIN js |-> calls[js[k]]])]]

(***************************************************************************)
(* The fields are those of AnthropicDecoder; input and output hold the     *)
(* messages written.                                                       *)
(***************************************************************************)
Configs ==
    [kind : {"chat"}, requestProcessed : {FALSE}, responseProcessed : {FALSE},
     request : {None}, body : {None}, pos : {0}, sseAcc : {None},
     input : {<< >>}, output : {<< >>}]

Filters ==
    LET Text == Seq({"a", "b", "c", "d", "s"})
        Chats == [role : STRING \cup {None}, content : Text, calls : Seq(Text)]
        Acc == [buf : Seq(Nat), done : BOOLEAN, usage : Nat \cup {None}, maxChoiceIdx : Nat,
                roleByChoice : [Indices -> {"assistant", None}],
                contentByChoice : [Indices -> Text],
                toolCallsByChoice : [Indices -> [Indices -> Text \cup {None}]]]
    IN  [kind : {"chat"}, requestProcessed : BOOLEAN, responseProcessed : BOOLEAN,
         request : Requests \cup {None}, body : Bodies \cup {None}, pos : Nat,
         sseAcc : Acc \cup {None}, input : Seq(Seq(Chats)),
         output : Seq([usage : Nat \cup {None}, choices : Seq(Chats)])]

Mine(s) == filter[s].kind = "chat"

(* setRequestMetadata and setResponseMetadata write every message. *)
decodeRequestBody(f) ==
    LET g == [f EXCEPT !.requestProcessed = TRUE]
    IN  {g} \cup {[g EXCEPT !.request = req, !.input = Append(@, req)] : req \in Requests}

decodeResponseBody(f) ==
    LET g == [f EXCEPT !.responseProcessed = TRUE]
    IN  {g, [g EXCEPT !.output = Append(@, Response)]}

decodeStreamingResponse(f) ==
    [f EXCEPT !.responseProcessed = TRUE, !.output = Append(@, finish(f.sseAcc))]

OnRequestHeaders(s) ==
    /\ Mine(s)
    /\ \E end \in BOOLEAN :
         OnHeaders(s, "req", end, {Returns(IF end THEN "Continue" ELSE "Stop", filter[s])})

OnRequestBody(s) ==
    /\ Mine(s)
    /\ \E end \in BOOLEAN : OnBody(s, "req", end,
         IF end THEN {Returns("Continue", g) : g \in decodeRequestBody(filter[s])}
         ELSE {Returns("StopAndBuffer", filter[s])})

OnRequestTrailers(s) ==
    /\ Mine(s)
    /\ OnTrailers(s, "req", {Returns("Continue", g) :
         g \in IF filter[s].requestProcessed THEN {filter[s]} ELSE decodeRequestBody(filter[s])})

OnResponseHeaders(s) ==
    /\ Mine(s)
    /\ \E end \in BOOLEAN : OnHeaders(s, "resp", end,
         IF end THEN {Returns("Continue", filter[s])}
         ELSE {Returns("Stop", filter[s])}
              \cup {Returns("Continue", [filter[s] EXCEPT !.body = b,
                                           !.sseAcc = newSSEAccumulator]) : b \in Bodies})

(* An event stream goes on with any number of pieces. *)
Fed(f) ==
    {[f EXCEPT !.sseAcc = feed(@, f.body, Chunk(f.pos, p)), !.pos = p] :
        p \in f.pos .. 2 * Len(f.body)}

OnResponseBody(s) ==
    /\ Mine(s)
    /\ \E end \in BOOLEAN : OnBody(s, "resp", end,
         IF filter[s].sseAcc # None
         THEN {Returns("Continue", IF end THEN decodeStreamingResponse(g) ELSE g) :
                  g \in Fed(filter[s])}
         ELSE IF end THEN {Returns("Continue", g) : g \in decodeResponseBody(filter[s])}
         ELSE {Returns("StopAndBuffer", filter[s])})

OnResponseTrailers(s) ==
    /\ Mine(s)
    /\ OnTrailers(s, "resp", {Returns("Continue", g) :
         g \in IF filter[s].responseProcessed THEN {filter[s]}
               ELSE IF filter[s].sseAcc # None THEN {decodeStreamingResponse(filter[s])}
               ELSE decodeResponseBody(filter[s])})

LocalReplyElsewhere(s) == Mine(s) /\ Foreign(s)

(* What an event stream says, from its complete lines at once. *)
Said(lines) ==
    LET chunks == SelectSeq(lines, LAMBDA l : l.ok /\ ~l.done)
        all == FlattenSeq([k \in DOMAIN chunks |-> chunks[k].choices])
        count == Len(SelectSeq(<<0, 1>>, LAMBDA i : \E k \in DOMAIN all : all[k].index >= i))
        Of(i) == SelectSeq(all, LAMBDA c : c.index = i)
        roles(i) == SelectSeq(Of(i), LAMBDA c : c.role # None)
        calls(i) == FlattenSeq([k \in DOMAIN Of(i) |-> Of(i)[k].calls])
        Args(i, j) == LET ps == SelectSeq(calls(i), LAMBDA c : c[1] = j)
                      IN  FlattenSeq([k \in DOMAIN ps |-> ps[k][2]])
        Called(i) == SelectSeq(<<0, 1>>, LAMBDA j : \E k \in DOMAIN calls(i) : calls(i)[k][1] = j)
        usages == SelectSeq(chunks, LAMBDA c : c.usage # None)
    IN  [usage |-> IF usages = << >> THEN None ELSE usages[Len(usages)].usage,
         choices |-> [i \in 1 .. count |->
            Chat(IF roles(i - 1) = << >> THEN None ELSE roles(i - 1)[Len(roles(i - 1))].role,
                 FlattenSeq([k \in DOMAIN Of(i - 1) |-> Of(i - 1)[k].content]),
                 [k \in DOMAIN Called(i - 1) |-> Args(i - 1, Called(i - 1)[k])])]]

(* The metadata is that of the whole messages, written once. *)
Faithful(f) ==
    /\ f.input = IF f.request = None THEN << >> ELSE <<f.request>>
    /\ f.sseAcc # None =>
         f.output = IF f.responseProcessed THEN <<Said(Complete(f.body, f.pos))>> ELSE << >>
    /\ Len(f.output) <= 1
================================================================================
