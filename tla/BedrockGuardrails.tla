--------------------------- MODULE BedrockGuardrails ---------------------------
(***************************************************************************)
(* The Bedrock guardrails filter: the request body is taken out of Envoy's *)
(* buffer, sent to one guardrail after the other by HTTP callouts, each of *)
(* which may block the request or rewrite the user prompts, and put back   *)
(* when the last one has answered.                                         *)
(***************************************************************************)
EXTENDS HttpStream

CONSTANT MaxGuardrails  \* most guardrails configured (bound)

ASSUME BedrockAssumption == MaxGuardrails \in Nat

(* A body is the sequence of guardrails that have rewritten it.            *)
Bodies == UNION {[1..n -> 1..MaxGuardrails] : n \in 0..MaxGuardrails}

(***************************************************************************)
(* guardrails: how many are configured (dedupGuardrails keeps one of each). *)
(* index: guardrail (from 1) whose callout is out, 0 for none; body: what  *)
(* the callback object carries for it.  buffer: Envoy's buffered request   *)
(* body, None once drained.  masked: guardrails that returned outputs;     *)
(* asked: guardrails consulted.                                            *)
(***************************************************************************)
BedrockConfigs ==
    [kind : {"bedrock"}, guardrails : 0..MaxGuardrails, index : {0}, body : {<< >>},
     buffer : {<< >>}, masked : {<< >>}, asked : {0}, skipped : {FALSE}]

BedrockFilters ==
    [kind : {"bedrock"}, guardrails : 0..MaxGuardrails, index : 0..MaxGuardrails, body : Bodies,
     buffer : Bodies \cup {None}, masked : Bodies, asked : 0..MaxGuardrails, skipped : BOOLEAN]

BedrockMine(s) == filter[s].kind = "bedrock"

(* HttpCallout for guardrail i on the given body: the extended object.     *)
Apply(f, i, body) == [f EXCEPT !.index = i, !.body = body, !.asked = @ + 1]

(***************************************************************************)
(* processRequestbody: an empty body or an empty configuration passes; the *)
(* body is drained before the first callout, which may fail to start.      *)
(***************************************************************************)
processRequestbody(f, stop) ==
    LET skip == Returns("Continue", [f EXCEPT !.skipped = TRUE])
        g == [f EXCEPT !.buffer = None]
    IN  IF f.guardrails = 0 THEN {skip}
        ELSE {skip, Replies(stop, 502, g), Returns(stop, Apply(g, 1, f.buffer))}

BedrockOnRequestHeaders(s) ==
    /\ BedrockMine(s)
    /\ \E end \in BOOLEAN : OnHeaders(s, "req", end,
         {IF end THEN Returns("Continue", [filter[s] EXCEPT !.skipped = TRUE])
          ELSE Returns("Stop", filter[s])})

BedrockOnRequestBody(s) ==
    /\ BedrockMine(s)
    /\ \E end \in BOOLEAN : OnBody(s, "req", end,
         IF ~end THEN {Returns("StopAndBuffer", filter[s])}
         ELSE processRequestbody(filter[s], "StopAndBuffer"))

BedrockOnRequestTrailers(s) ==
    /\ BedrockMine(s)
    /\ OnTrailers(s, "req", processRequestbody(filter[s], "Stop"))

(* Slip: a callout that cannot be started is only logged. *)
NextGuardrailSilent(s, f, newBody) ==
    IF f.index < f.guardrails
    THEN \/ /\ filter' = [filter EXCEPT ![s] = Apply(f, f.index + 1, newBody)]
            /\ UNCHANGED <<stream, shared>>
         \/ /\ filter' = [filter EXCEPT ![s] = [f EXCEPT !.index = 0]]
            /\ UNCHANGED <<stream, shared>>
    ELSE Continues(s, "req", [f EXCEPT !.index = 0, !.buffer = newBody])

(* The guardrail has let the request pass with newBody: the next one, or   *)
(* the end.                                                                *)
NextGuardrail(s, f, newBody) ==
    IF f.index < f.guardrails
    THEN \/ /\ filter' = [filter EXCEPT ![s] = Apply(f, f.index + 1, newBody)]
            /\ UNCHANGED <<stream, shared>>
         \/ Answers(s, "req", 502, [f EXCEPT !.index = 0])
    ELSE Continues(s, "req", [f EXCEPT !.index = 0, !.buffer = newBody])

(* Slip: the next guardrail is given the body this one was given. *)
PassedStale(s, masks) ==
    LET f == filter[s]
        g == [f EXCEPT !.masked = IF masks THEN Append(@, f.index) ELSE @]
    IN  NextGuardrail(s, g, f.body)

Passed(s, masks) ==
    LET f == filter[s]
        newBody == IF masks THEN Append(f.body, f.index) ELSE f.body
        g == [f EXCEPT !.masked = IF masks THEN Append(@, f.index) ELSE @]
    IN  NextGuardrail(s, g, newBody)

(* A callout that fails, an answer other than 2xx or that does not parse,  *)
(* and prompts that cannot be replaced, all answer 502.                    *)
BedrockOnHttpCalloutDone(s) ==
    /\ BedrockMine(s) /\ filter[s].index # 0 /\ Live(s)
    /\ \/ Answers(s, "req", 502, [filter[s] EXCEPT !.index = 0])
       \/ Answers(s, "req", 400, [filter[s] EXCEPT !.index = 0])
       \/ \E masks \in BOOLEAN : Passed(s, masks)

BedrockAsync(s) == BedrockOnHttpCalloutDone(s)

BedrockStep(s) ==
    \/ BedrockOnRequestHeaders(s) \/ BedrockOnRequestBody(s)
    \/ BedrockOnRequestTrailers(s) \/ BedrockOnHttpCalloutDone(s)

(* What may pass: a message there is nothing to check in, or one every     *)
(* guardrail has passed, as rewritten by each that asked for it.           *)
BedrockApproved(f) ==
    \/ f.skipped /\ f.buffer = << >>
    \/ f.asked = f.guardrails /\ f.index = 0 /\ f.buffer = f.masked
================================================================================
