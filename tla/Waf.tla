---------------------------------- MODULE Waf ----------------------------------
(***************************************************************************)
(* The Coraza WAF filter: a transaction is created with the request        *)
(* headers, its four phases run as the frames arrive, its metrics are      *)
(* emitted when the analysis is done and it goes back to Coraza's pool     *)
(* when the stream completes, or at once for long-lived streams.           *)
(***************************************************************************)
EXTENDS HttpStream

ASSUME WafAssumption == None \notin {"live", "released"}

(***************************************************************************)
(* mode: which phases run.  accessible: the body may be inspected.  tx:    *)
(* txContext and txReleased.  off: a rule has turned the engine off.       *)
(* created, recorded, released: calls of RecordTxCreated, RecordTx and     *)
(* RecordTxReleased.  misused: a call on a transaction that is not there.  *)
(***************************************************************************)
NoBody == [req |-> FALSE, resp |-> FALSE]

WafConfigs ==
    [kind : {"waf"}, mode : {"full", "request", "response"},
     accessible : [{"req", "resp"} -> BOOLEAN], tx : {None}, off : {FALSE},
     interrupted : {FALSE}, txDone : {FALSE}, isUpgrade : {FALSE}, isSSE : {FALSE},
     processed : {NoBody}, created : {0}, recorded : {0}, released : {0}, misused : {FALSE}]

WafFilters ==
    [kind : {"waf"}, mode : {"full", "request", "response"},
     accessible : [{"req", "resp"} -> BOOLEAN], tx : {None, "live", "released"}, off : BOOLEAN,
     interrupted : BOOLEAN, txDone : BOOLEAN, isUpgrade : BOOLEAN, isSSE : BOOLEAN,
     processed : [{"req", "resp"} -> BOOLEAN], created : Nat, recorded : Nat, released : Nat,
     misused : BOOLEAN]

WafMine(s) == filter[s].kind = "waf"

(* A use of txContext. *)
Uses(f) == [f EXCEPT !.misused = @ \/ f.tx # "live"]

releaseTransaction(f) ==
    IF f.tx # "live" THEN f ELSE [f EXCEPT !.tx = "released", !.released = @ + 1]

recordTxMetrics(f) ==
    [Uses(f) EXCEPT !.txDone = TRUE, !.recorded = IF f.off THEN @ ELSE @ + 1]

(* Slip: an analysis that is already done is recorded again. *)
trackAndMarkTxDoneAgain(f) ==
    IF f.tx # "live" THEN f
    ELSE IF \/ f.interrupted \/ f.off \/ f.processed.resp
            \/ f.mode = "request" /\ f.processed.req
         THEN LET g == recordTxMetrics(f)
              IN  IF (f.isUpgrade \/ f.isSSE) /\ ~f.interrupted THEN releaseTransaction(g) ELSE g
         ELSE f

trackAndMarkTxDone(f) ==
    IF f.tx # "live" \/ f.txDone THEN f
    ELSE IF \/ f.interrupted \/ f.off \/ f.processed.resp
            \/ f.mode = "request" /\ f.processed.req
         THEN LET g == recordTxMetrics(f)
              IN  IF (f.isUpgrade \/ f.isSSE) /\ ~f.interrupted THEN releaseTransaction(g) ELSE g
         ELSE f

(* Every callback defers trackAndMarkTxDone. *)
Tracked(outs) == {[o EXCEPT !.f = trackAndMarkTxDone(o.f)] : o \in outs}

(* A phase of Coraza passes, perhaps turning the engine off, or interrupts. *)
Phase(f, continue, stop) ==
    {Returns(continue, [Uses(f) EXCEPT !.off = o]) : o \in BOOLEAN}
        \cup {Replies(stop, 403, [Uses(f) EXCEPT !.interrupted = TRUE])}

(* handleRequestBody, handleResponseBody; Coraza may also fail. *)
handleBody(f, dir, continue, stop) ==
    LET g == [f EXCEPT !.processed[dir] = TRUE]
    IN  Phase(g, continue, stop) \cup {Replies(stop, 500, Uses(g))}

initializeTransaction(f, upgrade) ==
    IF f.tx # None THEN f
    ELSE [f EXCEPT !.tx = "live", !.created = @ + 1, !.isUpgrade = upgrade]

(* The direction's phases run: the transaction is there and wants them. *)
Inspects(f, dir) ==
    /\ f.tx = "live" /\ ~f.off
    /\ f.mode # IF dir = "req" THEN "response" ELSE "request"

(* Headers are held until the body has been inspected, unless there is no  *)
(* body or it is not going to be buffered.                                 *)
AfterHeaders(o, dir, whole) ==
    IF o.reply # None THEN {o}
    ELSE IF whole THEN handleBody(o.f, dir, "Continue", "Stop")
    ELSE {Returns("Stop", o.f)}

WafOnRequestHeaders(s) ==
    /\ WafMine(s)
    /\ \E end, upgrade \in BOOLEAN, off \in BOOLEAN :
         LET f == [initializeTransaction(filter[s], upgrade) EXCEPT !.off = off]
         IN  OnHeaders(s, "req", end, Tracked(
               IF ~Inspects(f, "req") THEN {Returns("Continue", f)}
               ELSE UNION {AfterHeaders(o, "req", end \/ f.isUpgrade) :
                             o \in Phase(f, "Stop", "Stop")}))

(* A status that is not a number answers 500. *)
WafOnResponseHeaders(s) ==
    /\ WafMine(s)
    /\ \E end, sse \in BOOLEAN :
         LET f == [filter[s] EXCEPT !.isSSE = sse]
         IN  OnHeaders(s, "resp", end, Tracked(
               IF ~Inspects(f, "resp") THEN {Returns("Continue", filter[s])}
               ELSE {Replies("Stop", 500, f)}
                    \cup UNION {AfterHeaders(o, "resp", end \/ f.isUpgrade \/ sse) :
                                  o \in Phase(f, "Stop", "Stop")}))

(* writeRequestBody, writeResponseBody: all written; the limit was reached *)
(* and the body processed as far as it goes; interrupted; failed.          *)
writeBody(f, dir) ==
    {Returns("StopAndBuffer", Uses(f)), Replies("StopNoBuffer", 500, Uses(f))}
        \cup Phase([f EXCEPT !.processed[dir] = TRUE], "Continue", "StopNoBuffer")

WafOnAnyBody(f, dir, end) ==
    LET whole(g) == handleBody(g, dir, "Continue", "StopNoBuffer")
    IN  IF ~Inspects(f, dir) \/ f.processed[dir] THEN {Returns("Continue", f)}
        ELSE IF ~f.accessible[dir] THEN whole(f)
        ELSE UNION {IF o.status = "StopAndBuffer" /\ end THEN whole(o.f) ELSE {o} :
                      o \in writeBody(f, dir)}

WafOnAnyTrailers(f, dir) ==
    IF ~Inspects(f, dir) \/ f.processed[dir] THEN {Returns("Continue", f)}
    ELSE handleBody(f, dir, "Continue", "Stop")

WafOnRequestBody(s) ==
    WafMine(s) /\ \E end \in BOOLEAN : OnBody(s, "req", end, Tracked(WafOnAnyBody(filter[s], "req", end)))

WafOnRequestTrailers(s) == WafMine(s) /\ OnTrailers(s, "req", Tracked(WafOnAnyTrailers(filter[s], "req")))

WafOnResponseBody(s) ==
    WafMine(s) /\ \E end \in BOOLEAN : OnBody(s, "resp", end, Tracked(WafOnAnyBody(filter[s], "resp", end)))

WafOnResponseTrailers(s) == WafMine(s) /\ OnTrailers(s, "resp", Tracked(WafOnAnyTrailers(filter[s], "resp")))

WafLocalReplyElsewhere(s) == WafMine(s) /\ Foreign(s)

(* Slip: only an analysis that was done is released. *)
WafOnStreamCompleteDoneOnly(s) ==
    LET f == filter[s]
    IN  /\ WafMine(s) /\ UNCHANGED shared
        /\ Ends(s, IF f.tx # "live" THEN f
                   ELSE IF f.txDone THEN releaseTransaction(f) ELSE recordTxMetrics(f))

WafOnStreamComplete(s) ==
    LET f == filter[s]
    IN  /\ WafMine(s) /\ UNCHANGED shared
        /\ Ends(s, IF f.tx # "live" THEN f
                   ELSE releaseTransaction(IF f.txDone THEN f ELSE recordTxMetrics(f)))

WafStep(s) ==
    \/ WafOnRequestHeaders(s) \/ WafOnRequestBody(s) \/ WafOnRequestTrailers(s)
    \/ WafOnResponseHeaders(s) \/ WafOnResponseBody(s)
    \/ WafOnResponseTrailers(s)
    \/ WafLocalReplyElsewhere(s) \/ WafOnStreamComplete(s)

(* What may pass in a direction: a message whose body phase has run, or    *)
(* one the configuration or a rule exempts.                                *)
WafApproved(f, dir) ==
    \/ f.processed[dir] \/ f.off \/ f.tx = None
    \/ f.mode = IF dir = "req" THEN "response" ELSE "request"
================================================================================
