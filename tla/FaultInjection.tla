----------------------------- MODULE FaultInjection ----------------------------
(***************************************************************************)
(* The dynamic fault injection filter: a request is counted as in flight,  *)
(* and the response delayed or replaced to match a sampled latency and     *)
(* status.  The count is one atomic integer for all streams and workers.   *)
(***************************************************************************)
EXTENDS HttpStream, FiniteSets

CONSTANTS
    Resolution,  \* pre-computed latencies of a status
    Window,      \* ticks of the clock in a spike_penalty_duration
    MaxLoad      \* most requests in flight that a sampler sees (bound)

(* load: what activeRequests.Load returned; delayed: what the sleeping     *)
(* goroutine will schedule; destroyed: OnDestroy has run.                  *)
FaultConfigs ==
    [kind : {"fault"}, load : {None}, matched : {FALSE}, counted : {FALSE},
     delayed : {None}, destroyed : {FALSE}]

FaultFilters ==
    [kind : {"fault"}, load : {None} \cup 0..Cardinality(Streams), matched : BOOLEAN,
     counted : BOOLEAN, delayed : {None, "reply", "continue"}, destroyed : BOOLEAN]

Mine(s) == filter[s].kind = "fault"

(* The worker is inside OnRequestHeaders of this stream. *)
InHeaders(s) == filter[s].load # None /\ stream[s].req.at = "idle"

(* OnRequestHeaders loads the counter first ... *)
LoadActive(s) ==
    /\ Mine(s) /\ Calls(s, "req") /\ stream[s].req.at = "idle" /\ filter[s].load = None
    /\ filter' = [filter EXCEPT ![s].load = shared.active]
    /\ UNCHANGED <<stream, shared>>

(* ... and increments it when a distribution matches the request; other    *)
(* workers may have changed it in between.                                 *)
OnRequestHeaders(s) ==
    /\ Mine(s) /\ Calls(s, "req") /\ InHeaders(s)
    /\ \E end, match \in BOOLEAN :
         /\ Deliver(s, "req", [stream[s].req EXCEPT !.at = IF end THEN "end" ELSE "headers"],
              Returns("Continue", [filter[s] EXCEPT !.matched = match, !.counted = match]))
         /\ shared' = [shared EXCEPT !.active = IF match /\ ~filter[s].counted THEN @ + 1 ELSE @]

(* The response passes (no match, bad status, status and latency already   *)
(* as sampled), is replaced, or is held for the remaining delay.           *)
OnResponseHeaders(s) ==
    /\ Mine(s)
    /\ \E end \in BOOLEAN : OnHeaders(s, "resp", end,
         {Returns("Continue", filter[s])}
           \cup IF ~filter[s].matched THEN {}
                ELSE {Replies("Stop", 503, filter[s]),
                      Returns("StopAllAndBuffer", [filter[s] EXCEPT !.delayed = "reply"]),
                      Returns("StopAllAndBuffer", [filter[s] EXCEPT !.delayed = "continue"])})

(* The sleep is over and the scheduled function runs. *)
Delayed(s) ==
    /\ Mine(s) /\ Live(s)
    /\ LET f == [filter[s] EXCEPT !.delayed = None]
       IN  \/ filter[s].delayed = "reply" /\ Answers(s, "resp", 503, f)
           \/ filter[s].delayed = "continue" /\ Continues(s, "resp", f)

(* releaseRequest. *)
Released(s) == [shared EXCEPT !.active = IF filter[s].counted THEN @ - 1 ELSE @]

(* Slip: the request stays marked as counted. *)
OnStreamCompleteKeeps(s) ==
    /\ Mine(s) /\ ~InHeaders(s) /\ Ends(s, filter[s])
    /\ shared' = Released(s)

OnStreamComplete(s) ==
    /\ Mine(s) /\ ~InHeaders(s) /\ Ends(s, [filter[s] EXCEPT !.counted = FALSE])
    /\ shared' = Released(s)

(* Envoy may destroy a filter with or without OnStreamComplete before. *)
OnDestroy(s) ==
    /\ Mine(s) /\ ~InHeaders(s) /\ ~filter[s].destroyed
    /\ stream' = [stream EXCEPT ![s].up = FALSE]
    /\ filter' = [filter EXCEPT ![s].counted = FALSE, ![s].destroyed = TRUE]
    /\ shared' = Released(s)

LocalReplyElsewhere(s) == Mine(s) /\ ~InHeaders(s) /\ Foreign(s)

FaultAsync(s) == Delayed(s)

-------------------------------------------------------------------------------
(***************************************************************************)
(* What is sampled for a request: a latency out of a shuffled list that is *)
(* gone through again and again, or one by load, raised in the grey zone   *)
(* between two thresholds and for a while after a spike.  The samplers are *)
(* shared by the workers, each call under a lock; the load it is given was *)
(* read before.  Here the workers do nothing but sample, under any load.   *)
(***************************************************************************)
Statuses == {200, 503}
Slots == 1..Resolution

(* The orders cryptoShuffle may leave a list in. *)
Orders == {v \in [Slots -> Slots] : \A i, j \in Slots : v[i] = v[j] => i = j}

(* A list of pre-computed samples by their slots, and the next to be used. *)
(* drawn: how often each slot was used, less what all of them were.        *)
Cycle == [values : Orders, index : 1..(Resolution + 1), drawn : [Slots -> 0..2]]

Shuffled == [values : Orders, index : {1}, drawn : {[i \in Slots |-> 0]}]

(***************************************************************************)
(* load_based as it may be written: threshold_in_flight of both tiers,     *)
(* spike_threshold and recovery_rate in halves, the multiplier, and        *)
(* spike_penalty_duration in ticks of the clock.                           *)
(***************************************************************************)
Written == [healthy : {0, 1}, tipping : {1, MaxLoad}, threshold : 0..2,
            multiplier : {0, 1, 3}, rate : 0..3, window : {0, Window}]

validateLoadBased(lb) ==
    /\ lb.healthy > 0 /\ lb.tipping > lb.healthy
    /\ lb.threshold > 0 /\ lb.threshold < 2
    /\ lb.multiplier > 0 /\ lb.rate > 0 /\ lb.rate <= 2

(***************************************************************************)
(* lb: the load-based configuration, if there is one.  start: ticks since  *)
(* recoveryStart.  spiked: a sample had the load of a spike; dropped:      *)
(* ticks since the first sample after the last such.  last: the penalty    *)
(* that the call just now returned, for which load.                        *)
(***************************************************************************)
Ticks == 0..Window
Returned == [load : 0..MaxLoad, penalty : Nat]
Samplers == [lb : Written \cup {None}, cycles : [Statuses -> Cycle] \cup {None},
             read : [Streams -> 0..MaxLoad \cup {None}],
             inSpike : BOOLEAN, start : Ticks \cup {None},
             spiked : BOOLEAN, dropped : Ticks \cup {None}, last : Returned \cup {None}]

(* buildFilterFactoryForSource: either responses or load_based, as         *)
(* validateBehavior wants it.                                              *)
SamplersStarted ==
    {[lb |-> lb, cycles |-> None, read |-> [s \in Streams |-> None], inSpike |-> FALSE,
      start |-> None, spiked |-> FALSE, dropped |-> None, last |-> None] :
        lb \in {w \in Written : validateLoadBased(w)}}
      \cup
    {[lb |-> None, cycles |-> c, read |-> [s \in Streams |-> None], inSpike |-> FALSE,
      start |-> None, spiked |-> FALSE, dropped |-> None, last |-> None] :
        c \in [Statuses -> Shuffled]}

G == shared.sampling
Sampling == G # None

(* The use of slot i is counted. *)
Counted(drawn, i) ==
    LET more == [drawn EXCEPT ![i] = @ + 1]
    IN  IF \A j \in Slots : more[j] > 0 THEN [j \in Slots |-> more[j] - 1] ELSE more

(* StatefulProbabilityDistribution.Sample: the list is shuffled when all   *)
(* of it was used.                                                         *)
CycleSample(c) ==
    {[values |-> v, index |-> IF c.index > Resolution THEN 2 ELSE c.index + 1,
      drawn |-> Counted(c.drawn, v[IF c.index > Resolution THEN 1 ELSE c.index])] :
        v \in IF c.index > Resolution THEN Orders ELSE {c.values}}

(* OnRequestHeaders loads activeRequests ... *)
Load(s) ==
    /\ G.read[s] = None
    /\ \E n \in 0..MaxLoad : shared' = [shared EXCEPT !.sampling =
         [G EXCEPT !.read[s] = IF G.lb = None THEN 0 ELSE n, !.last = None]]

(* ... and calls ResponseDistribution.Sample, which picks a status ...     *)
ResponseSample(s) ==
    /\ G.lb = None /\ G.read[s] # None
    /\ \E status \in Statuses : \E c \in CycleSample(G.cycles[status]) :
         shared' = [shared EXCEPT !.sampling = [G EXCEPT !.cycles[status] = c, !.read[s] = None]]

(* The position between the thresholds, as a fraction of Span. *)
Span(lb) == lb.tipping - lb.healthy
Position(lb, load) ==
    IF load <= lb.healthy THEN 0 ELSE IF load >= lb.tipping THEN Span(lb) ELSE load - lb.healthy
Spikes(lb, load) == 2 * Position(lb, load) >= lb.threshold * Span(lb)

(***************************************************************************)
(* Penalties are in units of penalty_base / (2 * Window * Span), so that   *)
(* no fraction is lost: the base penalty at a load, and the one multiplied *)
(* and faded by the time since the spike.                                  *)
(***************************************************************************)
Base(lb, load) == Position(lb, load) * 2 * Window
Faded(lb, load, elapsed) ==
    Position(lb, load) * lb.multiplier * (2 * Window - elapsed * lb.rate)

(* Slip: a new spike does not end the recovery from the last one. *)
calculateGreyZonePenaltyKept(load) ==
    LET start == IF G.start = None THEN 0 ELSE G.start
    IN  IF Spikes(G.lb, load)
        THEN [inSpike |-> TRUE, start |-> G.start, penalty |-> Faded(G.lb, load, 0)]
        ELSE IF G.inSpike /\ start < G.lb.window
        THEN [inSpike |-> TRUE, start |-> start, penalty |-> Faded(G.lb, load, start)]
        ELSE [inSpike |-> FALSE, start |-> None, penalty |-> Base(G.lb, load)]

calculateGreyZonePenalty(load) ==
    LET start == IF G.start = None THEN 0 ELSE G.start
    IN  IF Spikes(G.lb, load)
        THEN [inSpike |-> TRUE, start |-> None, penalty |-> Faded(G.lb, load, 0)]
        ELSE IF G.inSpike /\ start < G.lb.window
        THEN [inSpike |-> TRUE, start |-> start, penalty |-> Faded(G.lb, load, start)]
        ELSE [inSpike |-> FALSE, start |-> None, penalty |-> Base(G.lb, load)]

(* ... or LoadBasedResponseDistribution.Sample with the load it has read:  *)
(* the penalty is added between the thresholds only.  Which tier's         *)
(* distribution it is added to is a choice without state.                  *)
LoadBasedSample(s) ==
    /\ G.lb # None /\ G.read[s] # None
    /\ LET load == G.read[s]
           new == calculateGreyZonePenalty(load)
           grey == load > G.lb.healthy /\ load < G.lb.tipping
       IN  shared' = [shared EXCEPT !.sampling =
             [G EXCEPT !.inSpike = new.inSpike, !.start = new.start, !.read[s] = None,
                       !.spiked = @ \/ Spikes(G.lb, load),
                       !.dropped = IF Spikes(G.lb, load) THEN None
                                   ELSE IF G.spiked /\ @ = None THEN 0 ELSE @,
                       !.last = [load |-> load, penalty |-> IF grey THEN new.penalty ELSE 0]]]

Later(t) == IF t = None THEN None ELSE IF t = Window THEN t ELSE t + 1

TimePasses ==
    /\ Later(G.start) # G.start \/ Later(G.dropped) # G.dropped
    /\ shared' = [shared EXCEPT !.sampling =
         [G EXCEPT !.start = Later(@), !.dropped = Later(@), !.last = None]]

SamplingStep ==
    /\ Sampling /\ UNCHANGED <<stream, filter>>
    /\ TimePasses \/ \E s \in Streams : Load(s) \/ ResponseSample(s) \/ LoadBasedSample(s)

(* Either the streams of the filter run, or workers sample. *)
FaultInit ==
    \/ /\ filter \in [Streams -> FaultConfigs]
       /\ stream = [s \in Streams |-> Opened]
       /\ shared = Unshared
    \/ /\ filter = [s \in Streams |-> Bare]
       /\ stream = [s \in Streams |-> Closed]
       /\ shared \in {[Unshared EXCEPT !.sampling = sampling] : sampling \in SamplersStarted}

FaultStep(s) ==
    \/ LoadActive(s) \/ OnRequestHeaders(s) \/ OnResponseHeaders(s) \/ Delayed(s)
    \/ LocalReplyElsewhere(s) \/ OnStreamComplete(s) \/ OnDestroy(s)

FaultNext == SamplingStep \/ \E s \in Streams : FaultStep(s)

FaultSpec == FaultInit /\ [][FaultNext]_vars

(* What is assumed of the parameters. *)
FaultParameters ==
    /\ IsFiniteSet(Streams) /\ MaxLoad \in Nat /\ Resolution \in Nat \ {0} /\ Window \in Nat
    /\ None \notin Written \cup {"reply", "continue"}

(* No value of a list was used two times more often than another. *)
Even == G.cycles # None => \A st \in Statuses : \A i \in Slots : G.cycles[st].drawn[i] <= 1

(* The penalty that a load calls for, from when spikes were sampled. *)
Due(g, load) ==
    IF load <= g.lb.healthy \/ load >= g.lb.tipping THEN 0
    ELSE IF Spikes(g.lb, load) THEN Faded(g.lb, load, 0)
    ELSE IF g.dropped \in 0..(g.lb.window - 1) THEN Faded(g.lb, load, g.dropped)
    ELSE Base(g.lb, load)

AsDue == G.last # None => G.last.penalty = Due(G, G.last.load)

(***************************************************************************)
(* activeRequests counts exactly the matched requests whose streams have   *)
(* neither completed nor been destroyed, on all workers together.          *)
(***************************************************************************)
InFlightExact ==
    shared.active = Cardinality({s \in Streams :
                /\ filter[s].kind = "fault" /\ filter[s].matched
                /\ stream[s].up})

(***************************************************************************)
(* Samplers that workers share answer as if a single worker drew from them *)
(* in the order of the calls.  A pre-computed value is used again only     *)
(* after all others of its list were ("Over N samples, this guarantees an  *)
(* exact match", distribution.go:80-81).  The penalty of a sample in the   *)
(* grey zone is multiplied in a spike, fades over the window from the      *)
(* first sample below the threshold, whoever took it and however late the  *)
(* load it had read was used, and is started anew by a spike in between    *)
(* (calculateGreyZonePenalty).                                             *)
(***************************************************************************)
SampledAsDue == Sampling => Even /\ AsDue
================================================================================
