--------------------------------- MODULE Opa ----------------------------------
(***************************************************************************)
(* The OPA authorization filter: the policy is evaluated once, on the      *)
(* headers or, with with_body, on the whole request.                       *)
(***************************************************************************)
EXTENDS HttpStream

ASSUME OpaAssumption == None \notin {"allow", "deny", "error"}

(* decision: what the policy said; counted: decisions counted in           *)
(* opa_requests_total.                                                     *)
OpaConfigs ==
    [kind : {"opa"}, failOpen : BOOLEAN, dryRun : BOOLEAN, withBody : BOOLEAN,
     requestProcessed : {FALSE}, decision : {None}, counted : {<< >>}]

OpaFilters ==
    [kind : {"opa"}, failOpen : BOOLEAN, dryRun : BOOLEAN, withBody : BOOLEAN,
     requestProcessed : BOOLEAN, decision : {None, "allow", "deny", "error"},
     counted : Seq({"allowed", "denied", "failopen", "dryrun_allow"})]

OpaMine(s) == filter[s].kind = "opa"

OpaCount(f, tag) == [f EXCEPT !.counted = Append(@, tag)]

(* Slip: the dry run falls through to the count of allowed requests. *)
OpaDecideTwice(f, d) ==
    LET allow(g) == [pass |-> TRUE, reply |-> None, f |-> g]
        deny(code) == [pass |-> FALSE, reply |-> code, f |-> OpaCount(f, "denied")]
    IN  IF d = "error" THEN IF f.failOpen THEN allow(OpaCount(f, "failopen")) ELSE deny(500)
        ELSE IF d = "deny"
        THEN IF f.dryRun THEN allow(OpaCount(OpaCount(f, "dryrun_allow"), "allowed")) ELSE deny(403)
        ELSE allow(OpaCount(f, "allowed"))

(* The verdict of an evaluation with result d. *)
OpaDecide(f, d) ==
    LET allow(g) == [pass |-> TRUE, reply |-> None, f |-> g]
        deny(code) == [pass |-> FALSE, reply |-> code, f |-> OpaCount(f, "denied")]
    IN  IF d = "error" THEN IF f.failOpen THEN allow(OpaCount(f, "failopen")) ELSE deny(500)
        ELSE IF d = "deny" THEN IF f.dryRun THEN allow(OpaCount(f, "dryrun_allow")) ELSE deny(403)
        ELSE allow(IF f.dryRun THEN f ELSE OpaCount(f, "allowed"))

evaluateAndDecide(f) ==
    {OpaDecide([f EXCEPT !.requestProcessed = TRUE, !.decision = d], d) :
        d \in {"allow", "deny", "error"}}

(* The status of a callback that has evaluated the policy. *)
Verdicts(f, stop) ==
    {IF v.pass THEN Returns("Continue", v.f) ELSE Replies(stop, v.reply, v.f) :
        v \in evaluateAndDecide(f)}

OpaOnRequestHeaders(s) ==
    /\ OpaMine(s)
    /\ \E end \in BOOLEAN : OnHeaders(s, "req", end,
         IF filter[s].withBody /\ ~end THEN {Returns("Stop", filter[s])}
         ELSE Verdicts(filter[s], "Stop"))

OpaOnRequestBody(s) ==
    /\ OpaMine(s)
    /\ \E end \in BOOLEAN : OnBody(s, "req", end,
         IF filter[s].requestProcessed THEN {Returns("Continue", filter[s])}
         ELSE IF ~end THEN {Returns("StopAndBuffer", filter[s])}
         ELSE Verdicts(filter[s], "StopNoBuffer"))

OpaOnRequestTrailers(s) ==
    /\ OpaMine(s)
    /\ OnTrailers(s, "req",
         IF filter[s].requestProcessed THEN {Returns("Continue", filter[s])}
         ELSE Verdicts(filter[s], "Stop"))

(* What the policy allows to pass. *)
OpaApproved(f) ==
    \/ f.decision = "allow"
    \/ f.dryRun /\ f.decision = "deny"
    \/ f.failOpen /\ f.decision = "error"
================================================================================
