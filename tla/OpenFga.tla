------------------------------- MODULE OpenFga --------------------------------
(***************************************************************************)
(* The OpenFGA filter: the request waits, with everything that follows,    *)
(* for a Check callout.                                                    *)
(***************************************************************************)
EXTENDS HttpStream

ASSUME OpenFgaAssumption == None \notin {"allow", "deny", "unmatched", "error"}

OpenFgaDecisions == {"allowed", "denied", "failopen", "dryrun_allow", "error"}

(* callout: a Check is outstanding.  decision: what OpenFGA or the lack of *)
(* an answer came to.  metadata: the decision written for later filters.   *)
OpenFgaConfigs ==
    [kind : {"openfga"}, failOpen : BOOLEAN, dryRun : BOOLEAN, callout : {FALSE},
     decision : {None}, metadata : {None}, counted : {<< >>}]

OpenFgaFilters ==
    [kind : {"openfga"}, failOpen : BOOLEAN, dryRun : BOOLEAN, callout : BOOLEAN,
     decision : {None, "allow", "deny", "unmatched", "error"},
     metadata : {None} \cup OpenFgaDecisions, counted : Seq(OpenFgaDecisions)]

OpenFgaMine(s) == filter[s].kind = "openfga"

(* writeMetadata and metrics.inc *)
Record(f, d) == [f EXCEPT !.metadata = d, !.counted = Append(@, d)]

(* handleDeny: no rule, or an empty user, relation or object. *)
handleDeny(f) ==
    IF f.dryRun THEN Returns("Continue", Record(f, "dryrun_allow"))
    ELSE IF f.failOpen THEN Returns("Continue", Record(f, "failopen"))
    ELSE Replies("Stop", 403, Record(f, "denied"))

(* handleCalloutError: the Check body or the callout could not be made. *)
handleCalloutError(f) ==
    IF f.dryRun THEN Returns("Continue", Record(f, "dryrun_allow"))
    ELSE IF f.failOpen THEN Returns("Continue", Record(f, "failopen"))
    ELSE Replies("Stop", 502, Record(f, "error"))

OpenFgaOnRequestHeaders(s) ==
    /\ OpenFgaMine(s)
    /\ \E end \in BOOLEAN : OnHeaders(s, "req", end,
         {handleDeny([filter[s] EXCEPT !.decision = "unmatched"]),
          handleCalloutError([filter[s] EXCEPT !.decision = "error"]),
          Returns("StopAllAndBuffer", [filter[s] EXCEPT !.callout = TRUE])})

(* handleCallbackError: callout failed, bad status, empty or bad answer. *)
handleCallbackError(s, f) ==
    IF f.dryRun THEN Continues(s, "req", Record(f, "dryrun_allow"))
    ELSE IF f.failOpen THEN Continues(s, "req", Record(f, "failopen"))
    ELSE Answers(s, "req", 502, Record(f, "error"))

(* Slip: fail_open also excuses a denial. *)
CheckedLeniently(s, f) ==
    \/ f.decision = "error" /\ handleCallbackError(s, f)
    \/ /\ f.decision = "deny"
       /\ IF f.dryRun THEN Continues(s, "req", Record(f, "dryrun_allow"))
          ELSE IF f.failOpen THEN Continues(s, "req", Record(f, "failopen"))
          ELSE Answers(s, "req", 403, Record(f, "denied"))
    \/ f.decision = "allow" /\ Continues(s, "req", Record(f, "allowed"))

Checked(s, f) ==
    \/ f.decision = "error" /\ handleCallbackError(s, f)
    \/ /\ f.decision = "deny"
       /\ IF f.dryRun THEN Continues(s, "req", Record(f, "dryrun_allow"))
          ELSE Answers(s, "req", 403, Record(f, "denied"))
    \/ f.decision = "allow" /\ Continues(s, "req", Record(f, "allowed"))

OpenFgaOnHttpCalloutDone(s) ==
    /\ OpenFgaMine(s) /\ filter[s].callout /\ Live(s)
    /\ \E d \in {"allow", "deny", "error"} :
         Checked(s, [filter[s] EXCEPT !.callout = FALSE, !.decision = d])

OpenFgaAsync(s) == OpenFgaOnHttpCalloutDone(s)

(* A denial by OpenFGA stands unless dry_run is set; fail_open covers      *)
(* everything else that keeps the Check from being made.                   *)
OpenFgaApproved(f) ==
    \/ f.decision = "allow" \/ f.dryRun
    \/ f.failOpen /\ f.decision \in {"error", "unmatched"}
================================================================================
