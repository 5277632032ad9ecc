--------------------------- MODULE AzureContentSafety --------------------------
(***************************************************************************)
(* The Azure Content Safety filter: the request, and later the response,   *)
(* is buffered whole and analysed by a goroutine, whose verdict comes back *)
(* to the worker thread through the stream's scheduler.                    *)
(***************************************************************************)
EXTENDS HttpStream

AzureDecisions == {"allowed", "blocked", "monitored", "failopen", "error"}

(* job[dir]: the goroutine's progress ("first" and "second" API call), then *)
(* the verdict it has scheduled.  verdict[dir]: the verdict acted upon;     *)
(* "skip" when there was nothing to analyse.                                *)
Jobs == {None, "first", "second", "allowed", "detected", "error"}
Verdict == {None, "skip", "allowed", "detected", "error"}

ASSUME AzureAssumption == None \notin {"first", "second", "skip", "allowed", "detected", "error"}

(* second[dir]: enable_task_adherence, enable_protected_material *)
AzureConfigs ==
    [kind : {"azure"}, block : BOOLEAN, failOpen : BOOLEAN,
     second : [{"req", "resp"} -> BOOLEAN],
     processed : {[req |-> FALSE, resp |-> FALSE]}, job : {[req |-> None, resp |-> None]},
     verdict : {[req |-> None, resp |-> None]}, counted : {<< >>}]

AzureFilters ==
    [kind : {"azure"}, block : BOOLEAN, failOpen : BOOLEAN,
     second : [{"req", "resp"} -> BOOLEAN],
     processed : [{"req", "resp"} -> BOOLEAN], job : [{"req", "resp"} -> Jobs],
     verdict : [{"req", "resp"} -> Verdict],
     counted : Seq(AzureDecisions)]

AzureMine(s) == filter[s].kind = "azure"

Skips(f, dir) == [f EXCEPT !.verdict[dir] = "skip"]

(* Slip: the message goes on while the goroutine analyses it. *)
ProcessContinues(f, dir, stop) ==
    LET g == [f EXCEPT !.processed[dir] = TRUE]
    IN  {Returns("Continue", Skips(g, dir)), Returns("Continue", [g EXCEPT !.job[dir] = "first"])}

(* processRequestBody, processResponseBody: nothing to analyse (no body,   *)
(* unknown format, no text) or a goroutine takes over.                     *)
Process(f, dir, stop) ==
    LET g == [f EXCEPT !.processed[dir] = TRUE]
    IN  {Returns("Continue", Skips(g, dir)), Returns(stop, [g EXCEPT !.job[dir] = "first"])}

AzureOnAnyHeaders(s, dir) ==
    \E end \in BOOLEAN : OnHeaders(s, dir, end,
        {IF end THEN Returns("Continue", Skips(filter[s], dir)) ELSE Returns("Stop", filter[s])})

(* Slip: chunks before the last are passed on instead of buffered. *)
AzureOnAnyBodyStreams(s, dir) ==
    \E end \in BOOLEAN : OnBody(s, dir, end,
        IF ~end THEN {Returns("Continue", filter[s])} ELSE Process(filter[s], dir, "StopAndBuffer"))

AzureOnAnyBody(s, dir) ==
    \E end \in BOOLEAN : OnBody(s, dir, end,
        IF ~end THEN {Returns("StopAndBuffer", filter[s])} ELSE Process(filter[s], dir, "StopAndBuffer"))

AzureOnAnyTrailers(s, dir) ==
    OnTrailers(s, dir,
        IF filter[s].processed[dir] THEN {Returns("Continue", filter[s])}
        ELSE Process(filter[s], dir, "Stop"))

AzureOnRequestHeaders(s) == AzureMine(s) /\ AzureOnAnyHeaders(s, "req")
AzureOnRequestBody(s) == AzureMine(s) /\ AzureOnAnyBody(s, "req")
AzureOnRequestTrailers(s) == AzureMine(s) /\ AzureOnAnyTrailers(s, "req")
AzureOnResponseHeaders(s) == AzureMine(s) /\ AzureOnAnyHeaders(s, "resp")
AzureOnResponseBody(s) == AzureMine(s) /\ AzureOnAnyBody(s, "resp")
AzureOnResponseTrailers(s) == AzureMine(s) /\ AzureOnAnyTrailers(s, "resp")
AzureLocalReplyElsewhere(s) == AzureMine(s) /\ Foreign(s)

(* An API call of the goroutine returns.  It runs on when the stream dies. *)
ApiCall(s, dir) ==
    \E answer \in {"clean", "detected", "error"} :
        filter' = [filter EXCEPT ![s].job[dir] =
            IF answer # "clean" THEN answer
            ELSE IF @ = "first" /\ filter[s].second[dir] THEN "second" ELSE "allowed"]

analyzeRequest(s) ==
    /\ AzureMine(s) /\ filter[s].job.req \in {"first", "second"}
    /\ ApiCall(s, "req") /\ UNCHANGED <<stream, shared>>

analyzeResponse(s) ==
    /\ AzureMine(s) /\ filter[s].job.resp \in {"first", "second"}
    /\ ApiCall(s, "resp") /\ UNCHANGED <<stream, shared>>

(* Slip: in block mode a failing API always fails open. *)
ScheduledOpen(s, dir) ==
    LET v == filter[s].job[dir]
        done(decision) == [filter[s] EXCEPT !.job[dir] = None, !.verdict[dir] = v,
                                            !.counted = Append(@, decision)]
    IN  \/ v = "allowed" /\ Continues(s, dir, done("allowed"))
        \/ /\ v = "detected"
           /\ IF filter[s].block THEN Answers(s, dir, 403, done("blocked"))
              ELSE Continues(s, dir, done("monitored"))
        \/ /\ v = "error"
           /\ IF filter[s].failOpen \/ filter[s].block THEN Continues(s, dir, done("failopen"))
              ELSE Answers(s, dir, 500, done("error"))

Scheduled(s, dir) ==
    LET v == filter[s].job[dir]
        done(decision) == [filter[s] EXCEPT !.job[dir] = None, !.verdict[dir] = v,
                                            !.counted = Append(@, decision)]
    IN  \/ v = "allowed" /\ Continues(s, dir, done("allowed"))
        \/ /\ v = "detected"
           /\ IF filter[s].block THEN Answers(s, dir, 403, done("blocked"))
              ELSE Continues(s, dir, done("monitored"))
        \/ /\ v = "error"
           /\ IF filter[s].failOpen THEN Continues(s, dir, done("failopen"))
              ELSE Answers(s, dir, 500, done("error"))

ScheduledRequest(s) ==
    /\ AzureMine(s) /\ Live(s) /\ filter[s].job.req \in {"allowed", "detected", "error"}
    /\ Scheduled(s, "req")

ScheduledResponse(s) ==
    /\ AzureMine(s) /\ Live(s) /\ filter[s].job.resp \in {"allowed", "detected", "error"}
    /\ Scheduled(s, "resp")

AzureAsync(s) == analyzeRequest(s) \/ analyzeResponse(s) \/ ScheduledRequest(s) \/ ScheduledResponse(s)

AzureStep(s) ==
    \/ AzureOnRequestHeaders(s) \/ AzureOnRequestBody(s)
    \/ AzureOnRequestTrailers(s) \/ AzureOnResponseHeaders(s)
    \/ AzureOnResponseBody(s) \/ AzureOnResponseTrailers(s)
    \/ AzureLocalReplyElsewhere(s)
    \/ analyzeRequest(s) \/ analyzeResponse(s)
    \/ ScheduledRequest(s) \/ ScheduledResponse(s)

(* What may pass in a direction. *)
AzureApproved(f, dir) ==
    \/ f.verdict[dir] \in {"skip", "allowed"}
    \/ ~f.block /\ f.verdict[dir] = "detected"
    \/ f.failOpen /\ f.verdict[dir] = "error"
================================================================================
