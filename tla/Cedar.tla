-------------------------------- MODULE Cedar ---------------------------------
(***************************************************************************)
(* The Cedar authorization filter: one evaluation on the request headers.  *)
(***************************************************************************)
EXTENDS HttpStream

ASSUME CedarAssumption == None \notin {"allow", "deny", "error", "norequest"}

(* decision: "norequest" when no principal can be built from the headers,  *)
(* "error" when the evaluation reports errors.                             *)
CedarConfigs ==
    [kind : {"cedar"}, failOpen : BOOLEAN, dryRun : BOOLEAN,
     decision : {None}, counted : {<< >>}]

CedarFilters ==
    [kind : {"cedar"}, failOpen : BOOLEAN, dryRun : BOOLEAN,
     decision : {None, "allow", "deny", "error", "norequest"},
     counted : Seq({"allowed", "denied", "failopen", "dryrun_allow"})]

CedarCount(f, tag) == [f EXCEPT !.counted = Append(@, tag)]

(* Slip: an evaluation error is reported before fail_open is looked at. *)
CedarDecideErrorFirst(f, d) ==
    IF d \in {"norequest", "error"} /\ f.failOpen
    THEN Returns("Continue", CedarCount(CedarCount(f, "denied"), "failopen"))
    ELSE IF d = "norequest" THEN Replies("Stop", 403, CedarCount(f, "denied"))
    ELSE IF d = "error" THEN Replies("Stop", 500, CedarCount(f, "denied"))
    ELSE IF d = "deny"
    THEN IF f.dryRun THEN Returns("Continue", CedarCount(f, "dryrun_allow"))
         ELSE Replies("Stop", 403, CedarCount(f, "denied"))
    ELSE Returns("Continue", IF f.dryRun THEN f ELSE CedarCount(f, "allowed"))

(* The outcome of OnRequestHeaders when the request and the policy give d. *)
CedarDecide(f, d) ==
    IF d \in {"norequest", "error"} /\ f.failOpen THEN Returns("Continue", CedarCount(f, "failopen"))
    ELSE IF d = "norequest" THEN Replies("Stop", 403, CedarCount(f, "denied"))
    ELSE IF d = "error" THEN Replies("Stop", 500, CedarCount(f, "denied"))
    ELSE IF d = "deny"
    THEN IF f.dryRun THEN Returns("Continue", CedarCount(f, "dryrun_allow"))
         ELSE Replies("Stop", 403, CedarCount(f, "denied"))
    ELSE Returns("Continue", IF f.dryRun THEN f ELSE CedarCount(f, "allowed"))

CedarOnRequestHeaders(s) ==
    /\ filter[s].kind = "cedar"
    /\ \E end \in BOOLEAN : OnHeaders(s, "req", end,
         {CedarDecide([filter[s] EXCEPT !.decision = d], d) :
            d \in {"norequest", "error", "deny", "allow"}})

(* What the policy allows to pass. *)
CedarApproved(f) ==
    \/ f.decision = "allow"
    \/ f.dryRun /\ f.decision = "deny"
    \/ f.failOpen /\ f.decision \in {"error", "norequest"}
================================================================================
