---------------------------- MODULE OpenApiValidator ----------------------------
(***************************************************************************)
(* The OpenAPI validator: the headers are matched with an operation of the *)
(* specification; an operation with a request body is validated when the   *)
(* request is whole, any other one at once.                                *)
(***************************************************************************)
EXTENDS HttpStream

ASSUME OpenApiAssumption == None \notin {"valid", "bodiless", "body"}

(***************************************************************************)
(* maxBody: MaxBodyBytes in chunks, 0 for no limit.  route: the operation  *)
(* matched, with or without a request body; None also when the request     *)
(* cannot be built (unbuildable).  verdict: what was found out.            *)
(***************************************************************************)
OpenApiConfigs ==
    [kind : {"openapi"}, maxBody : {0, 1}, allowUnmatched : BOOLEAN, dryRun : BOOLEAN,
     route : {None}, unbuildable : {FALSE}, bodySize : {0}, requestProcessed : {FALSE},
     verdict : {None}]

OpenApiFilters ==
    [kind : {"openapi"}, maxBody : {0, 1}, allowUnmatched : BOOLEAN, dryRun : BOOLEAN,
     route : {None, "bodiless", "body"}, unbuildable : BOOLEAN, bodySize : 0..MaxChunks,
     requestProcessed : BOOLEAN, verdict : {None, "valid", "invalid", "unmatched", "oversized"}]

OpenApiMine(s) == filter[s].kind = "openapi"

Finds(f, verdict) == [f EXCEPT !.verdict = verdict]

denyRequest(f) == IF f.dryRun THEN Returns("Continue", f) ELSE Replies("Stop", 400, f)

(* A request that cannot be built is denied, in a dry run as well; pass    *)
(* and stop are the callback's statuses.                                   *)
validateRequest(f, stop) ==
    LET g == [f EXCEPT !.requestProcessed = TRUE]
    IN  IF f.unbuildable THEN {Replies(stop, 400, Finds(g, "invalid"))}
        ELSE {Returns("Continue", Finds(g, "valid")),
              IF f.dryRun THEN Returns("Continue", Finds(g, "invalid"))
              ELSE Replies(stop, 400, Finds(g, "invalid"))}

(* Outcomes of the headers callback for the operation route. *)
Matched(f, route, end) ==
    LET g == [f EXCEPT !.route = route]
    IN  IF ~end /\ route = "body" THEN {Returns("Stop", g)} ELSE validateRequest(g, "Stop")

OpenApiOnRequestHeaders(s) ==
    /\ OpenApiMine(s)
    /\ \E end \in BOOLEAN :
         LET f == filter[s]
             unmatched == Finds(f, "unmatched")
         IN  OnHeaders(s, "req", end,
               {denyRequest([Finds(f, "invalid") EXCEPT !.unbuildable = TRUE]),
                IF f.allowUnmatched THEN Returns("Continue", unmatched) ELSE denyRequest(unmatched)}
               \cup Matched(f, "body", end) \cup Matched(f, "bodiless", end))

(* ValidateRequest dereferences the route: it needs one. *)
Validates(s) == filter[s].route # None \/ filter[s].unbuildable

TooLarge(f) == f.maxBody > 0 /\ f.bodySize > f.maxBody

(* The size of every chunk is added up, then compared with the limit. *)
OpenApiOnRequestBody(s) ==
    /\ OpenApiMine(s)
    /\ \E end \in BOOLEAN :
         LET f == [filter[s] EXCEPT !.bodySize = @ + 1]
             large == Finds([f EXCEPT !.requestProcessed = TRUE], "oversized")
         IN  \/ /\ filter[s].requestProcessed
                /\ OnBody(s, "req", end, {Returns("Continue", filter[s])})
             \/ /\ ~filter[s].requestProcessed /\ TooLarge(f)
                /\ OnBody(s, "req", end, {IF f.dryRun THEN Returns("Continue", large)
                                          ELSE Replies("StopNoBuffer", 413, large)})
             \/ /\ ~filter[s].requestProcessed /\ ~TooLarge(f) /\ (end => Validates(s))
                /\ OnBody(s, "req", end, IF ~end THEN {Returns("StopAndBuffer", f)}
                                         ELSE validateRequest(f, "StopNoBuffer"))

OpenApiOnRequestTrailers(s) ==
    /\ OpenApiMine(s)
    /\ \/ /\ filter[s].requestProcessed
          /\ OnTrailers(s, "req", {Returns("Continue", filter[s])})
       \/ /\ ~filter[s].requestProcessed /\ Validates(s)
          /\ OnTrailers(s, "req", validateRequest(filter[s], "Stop"))

(***************************************************************************)
(* The end of a body, within the limit, or the trailers of a request that  *)
(* was let pass without a route: requestProcessed is not set, validation   *)
(* starts with a nil route and the callback panics.                        *)
(***************************************************************************)
Panics(s) ==
    /\ OpenApiMine(s) /\ Calls(s, "req") /\ stream[s].req.at \in {"headers", "body"}
    /\ ~filter[s].requestProcessed /\ ~Validates(s)
    /\ Ends(s, filter[s]) /\ UNCHANGED shared

(* What may pass: a request found valid when it was whole or has no body,  *)
(* or what the configuration lets pass.                                    *)
OpenApiApproved(s) ==
    LET f == filter[s]
    IN  \/ f.dryRun
        \/ f.allowUnmatched /\ f.route = None /\ ~f.unbuildable
        \/ /\ f.verdict = "valid"
           /\ f.route = "body" =>
                /\ stream[s].req.at = "end"
                /\ f.maxBody > 0 => stream[s].req.chunks <= f.maxBody
================================================================================
