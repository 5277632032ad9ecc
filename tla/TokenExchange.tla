----------------------------- MODULE TokenExchange ----------------------------
(***************************************************************************)
(* The OAuth2 token-exchange filter: the request waits until its bearer    *)
(* token has been exchanged at the security token service (STS).           *)
(***************************************************************************)
EXTENDS HttpStream

Results == {"success", "rejected", "error"}

(* token: what the Authorization header holds.  exchanges, counted: the    *)
(* counters token_exchange_requests_total and token_exchange_results_total *)
TokenConfigs ==
    [kind : {"token"}, callout : {FALSE}, token : {"none", "subject"},
     exchanges : {0}, counted : {<< >>}]

TokenFilters ==
    [kind : {"token"}, callout : BOOLEAN, token : {"none", "subject", "exchanged"},
     exchanges : {0, 1}, counted : Seq(Results)]

TokenMine(s) == filter[s].kind = "token"

(* No bearer token: 401.  The callout cannot be started: 502. *)
TokenOnRequestHeaders(s) ==
    /\ TokenMine(s)
    /\ \E end \in BOOLEAN : OnHeaders(s, "req", end,
         IF filter[s].token = "none" THEN {Replies("Stop", 401, filter[s])}
         ELSE {Replies("Stop", 502, filter[s]),
               Returns("StopAllAndBuffer", [filter[s] EXCEPT !.callout = TRUE, !.exchanges = @ + 1])})

Result(f, r) == [f EXCEPT !.callout = FALSE, !.counted = Append(@, r)]

(* Slip: an answer of the STS that does not parse lets the request go on. *)
ExchangedAnyway(s, answer) ==
    \/ answer = "failed" /\ Answers(s, "req", 502, Result(filter[s], "error"))
    \/ answer = "4xx" /\ Answers(s, "req", 401, Result(filter[s], "rejected"))
    \/ answer = "invalid" /\ Continues(s, "req", Result(filter[s], "error"))
    \/ /\ answer = "token"
       /\ Continues(s, "req", [Result(filter[s], "success") EXCEPT !.token = "exchanged"])

(* failed: no answer or no usable status; 4xx: the STS refuses; invalid:   *)
(* no JSON, a missing field or token_type N_A.                             *)
Exchanged(s, answer) ==
    \/ answer = "failed" /\ Answers(s, "req", 502, Result(filter[s], "error"))
    \/ answer = "4xx" /\ Answers(s, "req", 401, Result(filter[s], "rejected"))
    \/ answer = "invalid" /\ Answers(s, "req", 502, Result(filter[s], "error"))
    \/ /\ answer = "token"
       /\ Continues(s, "req", [Result(filter[s], "success") EXCEPT !.token = "exchanged"])

TokenOnHttpCalloutDone(s) ==
    /\ TokenMine(s) /\ filter[s].callout /\ Live(s)
    /\ \E answer \in {"failed", "4xx", "invalid", "token"} : Exchanged(s, answer)

TokenAsync(s) == TokenOnHttpCalloutDone(s)

(* The caller's own token never reaches the upstream. *)
TokenApproved(f) == f.token = "exchanged"
================================================================================
