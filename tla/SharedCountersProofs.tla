------------------------- MODULE SharedCountersProofs -------------------------
(***************************************************************************)
(* The two counters that threads share without a lock.  The rate limiter   *)
(* of the virtual IP cache, for any finite set of threads and any limits:  *)
(* its window only moves forward, and it admits no more than a bound says. *)
(* The fault filter counts requests in flight exactly, its samplers answer *)
(* as if one worker used them, and its delayed responses are resumed once, *)
(* for any number of streams, any resolution and any window: the invariant *)
(* ties what was drawn of a list to its index, the recovery to the samples *)
(* since the spike, and a request that is counted to its stream.           *)
(***************************************************************************)
EXTENDS RateLimiter, FaultInjection, FiniteSetTheorems, TLAPS

(* The rate limiter the cache calls keeps its types. *)
LEMMA RLTypeInit == RLInit => RLTypeOK
  BY DEF RLInit, RLTypeOK, LimiterIdle, LimiterState, LimiterPC

LEMMA RLTypeStep == RLTypeOK /\ [RLNext]_rlVars => RLTypeOK'
  <1> SUFFICES ASSUME RLTypeOK, [RLNext]_rlVars PROVE RLTypeOK'
    OBVIOUS
  <1> USE LimitsAssumption DEF RLTypeOK, LimiterState, LimiterPC
  <1>1. CASE Tick
    BY <1>1 DEF Tick
  <1>2. ASSUME NEW t \in Threads, CallStep(t) PROVE RLTypeOK'
    BY Zenon, <1>2 DEF CallStep, CallLimiter
  <1>3. ASSUME NEW t \in Threads, LoadWindow(t) PROVE RLTypeOK'
    BY <1>3 DEF LoadWindow
  <1>4. ASSUME NEW t \in Threads, RollWindow(t) PROVE RLTypeOK'
    BY <1>4 DEF RollWindow, MoveLimiter
  <1>5. ASSUME NEW t \in Threads, ResetCount(t) PROVE RLTypeOK'
    BY <1>5 DEF ResetCount, MoveLimiter
  <1>6. ASSUME NEW t \in Threads, TakeToken(t) PROVE RLTypeOK'
    BY <1>6 DEF TakeToken, MoveLimiter
  <1>7. ASSUME NEW t \in Threads, SaturateCount(t) PROVE RLTypeOK'
    BY <1>7 DEF SaturateCount, MoveLimiter
  <1>8. ASSUME NEW t \in Threads, ReturnStep(t) PROVE RLTypeOK'
    BY <1>8 DEF ReturnStep, MoveLimiter
  <1>9. CASE UNCHANGED rlVars
    BY Zenon, <1>9 DEF rlVars
  <1> QED
    BY Zenon, <1>1, <1>2, <1>3, <1>4, <1>5, <1>6, <1>7, <1>8, <1>9 DEF RLNext, TryConsumeRateToken

InLoop == {"load", "roll", "reset", "add", "saturate"}

(* What a thread in the loop knows: both limits are positive, its timestamp *)
(* is not ahead of the clock, and a thread about to roll found a full      *)
(* window between the start it read and its timestamp.                     *)
LoopInv ==
    \A t \in Threads :
        /\ limiter[t].pc \in InLoop => MaxAllocsPerWindow > 0 /\ RateWindow > 0
        /\ limiter[t].now <= clock
        /\ limiter[t].pc = "roll" => limiter[t].now >= limiter[t].start + RateWindow

(* A step of one thread moves that thread only. *)
LEMMA AtMoves ==
    ASSUME RLTypeOK, RLTypeOK', NEW t \in Threads, NEW pc \in LimiterPC,
           \A u \in Threads \ {t} : limiter'[u] = limiter[u]
    PROVE  At(pc)' = IF limiter'[t].pc = pc THEN At(pc) \cup {t} ELSE At(pc) \ {t}
  BY Zenon DEF At, RLTypeOK

LEMMA AtFinite ==
    ASSUME NEW pc
    PROVE  /\ IsFiniteSet(At(pc)) /\ Cardinality(At(pc)) \in Nat
           /\ Cardinality(Threads) \in Nat
           /\ Cardinality(At(pc)) <= Cardinality(Threads)
           /\ Cardinality(At(pc)') \in Nat
           /\ Cardinality(At(pc)') <= Cardinality(Threads)
  <1>1. At(pc) \subseteq Threads /\ At(pc)' \subseteq Threads
    BY Zenon DEF At
  <1> QED
    BY <1>1, ThreadsAssumption, FS_Subset, FS_CardinalityType

(* How many threads are at pc after a step of thread t. *)
LEMMA AtCounts ==
    ASSUME RLTypeOK, RLTypeOK', NEW t \in Threads, NEW pc \in LimiterPC,
           \A u \in Threads \ {t} : limiter'[u] = limiter[u]
    PROVE  Cardinality(At(pc)') =
               IF limiter[t].pc = pc /\ limiter'[t].pc # pc THEN Cardinality(At(pc)) - 1
               ELSE IF limiter[t].pc # pc /\ limiter'[t].pc = pc
               THEN Cardinality(At(pc)) + 1 ELSE Cardinality(At(pc))
  <1>1. (t \in At(pc)) <=> limiter[t].pc = pc
    BY Zenon DEF At
  <1>2. IsFiniteSet(At(pc)) /\ Cardinality(At(pc)) \in Nat
    BY Zenon, AtFinite
  <1>3. At(pc)' = IF limiter'[t].pc = pc THEN At(pc) \cup {t} ELSE At(pc) \ {t}
    BY Zenon, AtMoves
  <1>4. CASE t \in At(pc)
    <2>1. Cardinality(At(pc) \ {t}) = Cardinality(At(pc)) - 1
      BY <1>2, <1>4, FS_RemoveElement, ZenonT(60)
    <2>2. At(pc) \cup {t} = At(pc)
      BY Zenon, <1>4
    <2> QED
      BY <1>1, <1>3, <1>4, <2>1, <2>2
  <1>5. CASE t \notin At(pc)
    <2>1. Cardinality(At(pc) \cup {t}) = Cardinality(At(pc)) + 1
      BY Zenon, <1>2, <1>5, FS_AddElement
    <2>2. At(pc) \ {t} = At(pc)
      BY Zenon, <1>5
    <2> QED
      BY <1>1, <1>3, <1>5, <2>1, <2>2
  <1> QED
    BY Zenon, <1>4, <1>5

-------------------------------------------------------------------------------
(* The state stays well typed. *)
THEOREM RLTypeCorrect == RLSpec => []RLTypeOK
  BY RLTypeInit, RLTypeStep, PTL DEF RLSpec

-------------------------------------------------------------------------------
RLInv == RLTypeOK /\ LoopInv

LEMMA RLInvStep == RLInv /\ [RLNext]_rlVars => RLInv'
  <1> SUFFICES ASSUME RLInv, [RLNext]_rlVars PROVE RLInv'
    OBVIOUS
  <1>0. RLTypeOK'
    BY Zenon, RLTypeStep DEF RLInv
  <1> USE LimitsAssumption DEF RLInv, LoopInv, RLTypeOK, LimiterState, LimiterPC, InLoop
  <1>1. CASE Tick
    BY <1>0, <1>1 DEF Tick
  <1>2. ASSUME NEW t \in Threads, CallStep(t) PROVE LoopInv'
    BY <1>0, <1>2 DEF CallStep, CallLimiter
  <1>3. ASSUME NEW t \in Threads, LoadWindow(t) PROVE LoopInv'
    BY <1>0, <1>3 DEF LoadWindow, SaturatingSub
  <1>4. ASSUME NEW t \in Threads, RollWindow(t) PROVE LoopInv'
    BY <1>0, <1>4 DEF RollWindow, MoveLimiter
  <1>5. ASSUME NEW t \in Threads, ResetCount(t) PROVE LoopInv'
    BY <1>0, <1>5 DEF ResetCount, MoveLimiter
  <1>6. ASSUME NEW t \in Threads, TakeToken(t) PROVE LoopInv'
    BY <1>0, <1>6 DEF TakeToken, MoveLimiter
  <1>7. ASSUME NEW t \in Threads, SaturateCount(t) PROVE LoopInv'
    BY <1>0, <1>7 DEF SaturateCount, MoveLimiter
  <1>8. ASSUME NEW t \in Threads, ReturnStep(t) PROVE LoopInv'
    BY <1>0, <1>8 DEF ReturnStep, MoveLimiter
  <1>9. CASE UNCHANGED rlVars
    BY Zenon, <1>0, <1>9 DEF rlVars
  <1> QED
    BY <1>0, <1>1, <1>2, <1>3, <1>4, <1>5, <1>6, <1>7, <1>8, <1>9, SMTT(60)
       DEF RLNext, TryConsumeRateToken

LEMMA RLInvHolds == RLSpec => []RLInv
  <1>1. RLInit => RLInv
    BY RLTypeInit DEF RLInit, RLInv, LoopInv, LimiterIdle, InLoop
  <1> QED
    BY <1>1, RLInvStep, PTL DEF RLSpec

(* The window only moves forward, by at least its length, never past the   *)
(* clock.                                                                  *)
THEOREM WindowForward == RLSpec => WindowMovesForward
  <1>1. RLInv /\ [RLNext]_rlVars =>
          [rate_window_start_ms' # rate_window_start_ms =>
             /\ rate_window_start_ms' >= rate_window_start_ms + RateWindow
             /\ rate_window_start_ms' <= clock]_rlVars
    BY Zenon DEF RLInv, LoopInv, RLTypeOK, RLNext, rlVars, Tick, CallStep, TryConsumeRateToken,
           LoadWindow, RollWindow, ResetCount, TakeToken, SaturateCount, ReturnStep
  <1> QED
    BY <1>1, RLInvHolds, PTL DEF RLSpec, WindowMovesForward

(* The counter passes the maximum by at most the threads about to store the *)
(* maximum back.                                                           *)
THEOREM CountBounded == RLSpec => []CountNeverRunsAway
  <1> DEFINE S == Cardinality(At("saturate"))
  <1>1. RLInit => CountNeverRunsAway
    BY AtFinite, LimitsAssumption DEF RLInit, CountNeverRunsAway
  <1>2. RLInv /\ RLInv' /\ CountNeverRunsAway /\ [RLNext]_rlVars => CountNeverRunsAway'
    <2> SUFFICES ASSUME RLInv, RLInv', CountNeverRunsAway, [RLNext]_rlVars
                 PROVE  CountNeverRunsAway'
      OBVIOUS
    <2>0. S \in Nat /\ rate_window_count \in Nat /\ limiter \in [Threads -> LimiterState]
      BY Zenon, AtFinite DEF RLInv, RLTypeOK
    <2>1. ASSUME UNCHANGED <<limiter, rate_window_count>> PROVE CountNeverRunsAway'
      BY Zenon, <2>1 DEF CountNeverRunsAway, At
    <2>2. ASSUME NEW t \in Threads, UNCHANGED rate_window_count,
                 limiter[t].pc # "saturate", limiter'[t].pc # "saturate",
                 \A u \in Threads \ {t} : limiter'[u] = limiter[u]
          PROVE  CountNeverRunsAway'
      <3>1. S' = S
        BY Zenon, <2>2, AtCounts DEF RLInv, LimiterPC
      <3> QED
        BY Zenon, <2>2, <3>1 DEF CountNeverRunsAway
    <2> USE DEF LimiterState
    <2>3. CASE Tick
      BY Zenon, <2>1, <2>3 DEF Tick
    <2>4. ASSUME NEW t \in Threads, CallStep(t) PROVE CountNeverRunsAway'
      BY Zenon, <2>0, <2>2, <2>4 DEF CallStep, CallLimiter
    <2>5. ASSUME NEW t \in Threads, LoadWindow(t) PROVE CountNeverRunsAway'
      BY <2>0, <2>2, <2>5 DEF LoadWindow
    <2>6. ASSUME NEW t \in Threads, RollWindow(t) PROVE CountNeverRunsAway'
      BY <2>0, <2>2, <2>6 DEF RollWindow, MoveLimiter
    <2>7. ASSUME NEW t \in Threads, ResetCount(t) PROVE CountNeverRunsAway'
      <3>1. S' \in Nat /\ MaxAllocsPerWindow > 0
        BY Zenon, <2>7, AtFinite DEF ResetCount, RLInv, LoopInv, InLoop
      <3> QED
        BY <2>7, <3>1, LimitsAssumption DEF ResetCount, CountNeverRunsAway
    <2>8. ASSUME NEW t \in Threads, TakeToken(t) PROVE CountNeverRunsAway'
      <3>1. S' = IF rate_window_count < MaxAllocsPerWindow THEN S ELSE S + 1
        BY Zenon, <2>0, <2>8, AtCounts DEF TakeToken, MoveLimiter, RLInv, LimiterPC
      <3> QED
        BY <2>0, <2>8, <3>1, LimitsAssumption DEF TakeToken, CountNeverRunsAway
    <2>9. ASSUME NEW t \in Threads, SaturateCount(t) PROVE CountNeverRunsAway'
      <3>1. S' \in Nat
        BY Zenon, AtFinite
      <3> QED
        BY <2>9, <3>1, LimitsAssumption DEF SaturateCount, CountNeverRunsAway
    <2>10. ASSUME NEW t \in Threads, ReturnStep(t) PROVE CountNeverRunsAway'
      BY <2>0, <2>2, <2>10 DEF ReturnStep, LimiterReturned, MoveLimiter
    <2>11. CASE UNCHANGED rlVars
      BY ZenonT(60), <2>1, <2>11 DEF rlVars
    <2> QED
      BY <2>3, <2>4, <2>5, <2>6, <2>7, <2>8, <2>9, <2>10, <2>11, SMTT(60)
         DEF RLNext, TryConsumeRateToken
  <1> QED
    BY <1>1, <1>2, RLInvHolds, PTL DEF RLSpec

-------------------------------------------------------------------------------
Refill == SaturatingSub(MaxAllocsPerWindow, 1)

(* The window's tokens so far, what the count leaves, and a refill for every *)
(* thread whose reset is still to come: a late reset reopens the budget.   *)
GrantMeasure ==
    windowGrants + SaturatingSub(MaxAllocsPerWindow, rate_window_count)
      + Cardinality(At("reset")) * Refill

LEMMA RefillDistributes ==
    /\ Refill \in Nat
    /\ \A n \in Nat : /\ n * Refill \in Nat
                      /\ (n + 1) * Refill = n * Refill + Refill
                      /\ (n - 1) * Refill = n * Refill - Refill
    /\ \A m, n \in Nat : m <= n => m * Refill <= n * Refill
  <1>1. Refill \in Nat
    BY LimitsAssumption DEF Refill, SaturatingSub
  <1> HIDE DEF Refill
  <1> QED
    BY <1>1

(* One window never hands out more tokens than its own, one more for the   *)
(* roll, and a refill per thread that resets the counter late.             *)
THEOREM GrantsWithinBound == RLSpec => []GrantsBounded
  <1> DEFINE Within == GrantMeasure <= GrantBound
             R == Cardinality(At("reset"))
             Pending == R * Refill
             Most == Cardinality(Threads) * Refill
             Left == SaturatingSub(MaxAllocsPerWindow, rate_window_count)
  <1>a. /\ R \in Nat /\ R' \in Nat /\ Cardinality(Threads) \in Nat
        /\ R <= Cardinality(Threads) /\ R' <= Cardinality(Threads)
    BY Zenon, AtFinite
  <1>b. /\ Refill \in Nat /\ Most \in Nat /\ Pending \in Nat /\ Pending' \in Nat
        /\ Pending <= Most /\ Pending' <= Most
    BY Zenon, <1>a, RefillDistributes DEF Refill
  <1>c. R' = R => Pending' = Pending
    BY Zenon DEF Refill
  <1>d. /\ R' = R + 1 => Pending' = Pending + Refill
        /\ R' = R - 1 => Pending' = Pending - Refill
    <2>1. Pending' = R' * Refill
      BY Zenon DEF Refill
    <2>2. /\ (R + 1) * Refill = Pending + Refill
          /\ (R - 1) * Refill = Pending - Refill
      BY Zenon, <1>a, RefillDistributes
    <2> HIDE DEF R, Pending
    <2> QED
      BY Zenon, <2>1, <2>2
  <1>e. Within <=> windowGrants + Left + Pending <= 1 + MaxAllocsPerWindow + Most
    BY Zenon DEF GrantMeasure, GrantBound, Refill
  <1>f. Within' <=> windowGrants' + Left' + Pending' <= 1 + MaxAllocsPerWindow + Most
    BY Zenon, <1>e DEF GrantMeasure, GrantBound, Refill
  <1>g. RLTypeOK => Left \in Nat /\ Left <= MaxAllocsPerWindow
    BY LimitsAssumption DEF RLTypeOK, SaturatingSub
  <1>1. RLInit => Within
    BY <1>b, <1>e, <1>g, RLTypeInit, LimitsAssumption DEF RLInit
  <1>2. ASSUME RLInv, RLInv', Within, [RLNext]_rlVars PROVE Within'
    <2>0. /\ limiter \in [Threads -> LimiterState]
          /\ windowGrants \in Nat /\ rate_window_count \in Nat
          /\ Left \in Nat /\ Left <= MaxAllocsPerWindow
      BY Zenon, <1>2, <1>g DEF RLInv, RLTypeOK
    <2>a. windowGrants + Left + Pending <= 1 + MaxAllocsPerWindow + Most
      BY Zenon, <1>2, <1>e
    <2>1. ASSUME UNCHANGED <<limiter, rate_window_count, windowGrants>> PROVE Within'
      BY Zenon, <1>2, <2>1 DEF GrantMeasure, GrantBound, At, Refill
    <2>2. ASSUME NEW t \in Threads, UNCHANGED <<rate_window_count, windowGrants>>,
                 limiter[t].pc # "reset", limiter'[t].pc # "reset",
                 \A u \in Threads \ {t} : limiter'[u] = limiter[u]
          PROVE  Within'
      <3>1. R' = R
        BY <1>2, <2>2, AtCounts DEF RLInv, LimiterPC
      <3> QED
        BY <1>2, <1>c, <1>e, <1>f, <2>2, <3>1, SMTT(60)
    <2> USE DEF LimiterState
    <2> HIDE DEF Within, R, Pending, Most
    <2>3. CASE Tick
      BY Zenon, <2>1, <2>3 DEF Tick
    <2>4. ASSUME NEW t \in Threads, CallStep(t) PROVE Within'
      BY Zenon, <2>0, <2>2, <2>4 DEF CallStep, CallLimiter
    <2>5. ASSUME NEW t \in Threads, LoadWindow(t) PROVE Within'
      BY <2>0, <2>2, <2>5 DEF LoadWindow
    <2>6. ASSUME NEW t \in Threads, RollWindow(t) PROVE Within'
      <3>1. CASE rate_window_start_ms = limiter[t].start
        <4>1. R' = R + 1
          BY <1>2, <2>0, <2>6, <3>1, AtCounts
             DEF RollWindow, MoveLimiter, RLInv, LimiterPC, R
        <4>2. Pending + Refill <= Most
          <5>1. R + 1 <= Cardinality(Threads)
            BY Zenon, <1>a, <4>1
          <5> QED
            BY <1>a, <5>1, RefillDistributes DEF Pending, Most
        <4>3. windowGrants' = 1 /\ Left' = Left /\ Pending' = Pending + Refill
          BY Zenon, <1>d, <2>6, <3>1, <4>1 DEF RollWindow
        <4> HIDE DEF Left
        <4> QED
          BY <1>b, <1>f, <2>0, <4>2, <4>3, LimitsAssumption
      <3>2. CASE rate_window_start_ms # limiter[t].start
        BY <2>0, <2>2, <2>6, <3>2 DEF RollWindow, MoveLimiter
      <3> QED
        BY Zenon, <3>1, <3>2
    <2>7. ASSUME NEW t \in Threads, ResetCount(t) PROVE Within'
      <3>1. R' = R - 1
        BY <1>2, <2>0, <2>7, AtCounts
           DEF ResetCount, MoveLimiter, RLInv, LimiterPC, R
      <3>2. Pending' = Pending - Refill
        BY Zenon, <1>d, <3>1
      <3>3. Left' = Refill /\ windowGrants' = windowGrants
        BY Zenon, <2>7 DEF ResetCount, Refill
      <3> HIDE DEF Left
      <3> QED
        BY <1>b, <1>f, <2>0, <2>a, <3>2, <3>3, LimitsAssumption, SMTT(60)
    <2>8. ASSUME NEW t \in Threads, TakeToken(t) PROVE Within'
      <3>1. Pending' = Pending
        BY <1>2, <1>c, <2>0, <2>8, AtCounts
           DEF TakeToken, MoveLimiter, RLInv, LimiterPC, R
      <3>2. CASE rate_window_count < MaxAllocsPerWindow
        <4>1. windowGrants' = windowGrants + 1 /\ Left' = Left - 1
          BY <2>0, <2>8, <3>2, LimitsAssumption DEF TakeToken, SaturatingSub
        <4> HIDE DEF Left
        <4> QED
          BY <1>b, <1>f, <2>0, <2>a, <3>1, <4>1, LimitsAssumption, SMTT(60)
      <3>3. CASE ~(rate_window_count < MaxAllocsPerWindow)
        <4>1. windowGrants' = windowGrants /\ Left' = Left
          BY <2>0, <2>8, <3>3, LimitsAssumption DEF TakeToken, SaturatingSub
        <4> HIDE DEF Left
        <4> QED
          BY Zenon, <1>f, <2>a, <3>1, <4>1
      <3> QED
        BY Zenon, <3>2, <3>3
    <2>9. ASSUME NEW t \in Threads, SaturateCount(t) PROVE Within'
      <3>1. Pending' = Pending
        BY <1>2, <1>c, <2>0, <2>9, AtCounts
           DEF SaturateCount, MoveLimiter, RLInv, LimiterPC, R
      <3>2. Left' = 0 /\ windowGrants' = windowGrants
        BY <2>9, LimitsAssumption DEF SaturateCount, SaturatingSub
      <3> HIDE DEF Left
      <3> QED
        BY <1>b, <1>f, <2>0, <2>a, <3>1, <3>2, LimitsAssumption, SMTT(60)
    <2>10. ASSUME NEW t \in Threads, ReturnStep(t) PROVE Within'
      BY <2>0, <2>2, <2>10 DEF ReturnStep, LimiterReturned, MoveLimiter
    <2>11. CASE UNCHANGED rlVars
      BY Zenon, <2>1, <2>11 DEF rlVars
    <2> QED
      BY <1>2, <2>3, <2>4, <2>5, <2>6, <2>7, <2>8, <2>9, <2>10, <2>11, SMTT(60)
         DEF RLNext, TryConsumeRateToken
  <1>3. RLInv /\ Within => GrantsBounded
    <2>1. GrantBound = 1 + MaxAllocsPerWindow + Most
      BY Zenon DEF GrantBound, Refill
    <2> HIDE DEF Left, Pending, Most, Within
    <2> QED
      BY <1>b, <1>e, <1>g, <2>1, LimitsAssumption DEF GrantsBounded, RLInv, RLTypeOK
  <1> QED
    BY <1>1, <1>2, <1>3, RLInvHolds, PTL DEF RLSpec

-------------------------------------------------------------------------------
(* The fields of what filter objects share. *)
Shape ==
    shared = [active |-> shared.active, idp |-> shared.idp, token |-> shared.token,
              engines |-> shared.engines, loads |-> shared.loads, sampling |-> shared.sampling]

(* The samplers of the fault filter. *)

(* A list in use: the slots drawn since all of them were are the ones      *)
(* before the index.                                                       *)
CycleSound(c) ==
    /\ c \in Cycle
    /\ \A j \in Slots : c.drawn[j] =
         IF c.index <= Resolution /\ \E k \in 1..(c.index - 1) : c.values[k] = j THEN 1 ELSE 0

(* A load-based sampler: it is in a spike, or recovers from one since the  *)
(* load has dropped, or has recovered, or has seen no spike.               *)
PenaltySound(g) ==
    /\ g.inSpike => g.spiked /\ g.start = g.dropped
    /\ ~g.inSpike => g.start = None
    /\ ~g.inSpike /\ g.spiked => g.dropped # None /\ g.dropped >= g.lb.window
    /\ ~g.spiked => g.dropped = None

(* Penalties are numbers; that none is negative is not needed here. *)
SamplerType ==
    [lb : Written \cup {None},
     cycles : [Statuses -> Cycle] \cup {None},
     read : [Streams -> 0..MaxLoad \cup {None}], inSpike : BOOLEAN,
     start : Ticks \cup {None}, spiked : BOOLEAN,
     dropped : Ticks \cup {None},
     last : [load : 0..MaxLoad, penalty : Int] \cup {None}]

SamplerSound(g) ==
    /\ g \in SamplerType
    /\ g.lb = None => g.cycles \in [Statuses -> Cycle]
                      /\ \A st \in Statuses : CycleSound(g.cycles[st])
    /\ g.lb # None => g.cycles = None /\ PenaltySound(g)
    /\ g.last # None => g.lb # None /\ g.last.penalty = Due(g, g.last.load)

SamplingInv == shared.sampling # None => SamplerSound(shared.sampling)

(* An order of the slots leaves none out. *)
LEMMA OrdersCover ==
    ASSUME FaultParameters, NEW v \in Orders, NEW j \in Slots
    PROVE  \E k \in Slots : v[k] = j
<1> DEFINE S == Slots
<1>1. IsFiniteSet(S)
  BY FS_Interval DEF Slots, FaultParameters
<1>2. v \in [S -> S] /\ \A a, b \in S : v[a] = v[b] => a = b
  BY Zenon DEF Orders
<1> HIDE DEF S
<1>3. v \in Injection(S, S)
  BY Zenon, <1>2 DEF Injection, IsInjective
<1>4. v \in Surjection(S, S)
  BY Zenon, <1>1, <1>3, FS_Injection
<1> QED  BY Zenon, <1>4 DEF Surjection, S

(* Sample: the slot at the index is used, and that completes the list when *)
(* it is the last one.                                                     *)
LEMMA SlotDrawn ==
    ASSUME FaultParameters, NEW v \in Orders, NEW i \in 1..Resolution, NEW drawn,
           drawn \in [Slots -> 0..2],
           \A j \in Slots :
             drawn[j] = IF \E k \in 1..(i - 1) : v[k] = j THEN 1 ELSE 0
    PROVE  LET after == Counted(drawn, v[i])
           IN  /\ after \in [Slots -> 0..2]
               /\ \A j \in Slots : after[j] =
                    IF i + 1 <= Resolution /\ \E k \in 1..i : v[k] = j THEN 1 ELSE 0
<1> DEFINE S == Slots
           more == [drawn EXCEPT ![v[i]] = @ + 1]
           all == \A j \in S : more[j] > 0
           after == Counted(drawn, v[i])
<1>1. Resolution \in Nat /\ S = 1..Resolution /\ i \in Nat /\ i >= 1 /\ i <= Resolution
  BY DEF Slots, FaultParameters
<1>2. v \in [S -> S] /\ \A a, b \in S : v[a] = v[b] => a = b
  BY Zenon DEF Orders
<1> HIDE DEF S
<1>3. \A k \in 1..(i - 1) : k \in S /\ v[k] # v[i]
  BY <1>1, <1>2
<1>4. v[i] \in S /\ drawn[v[i]] = 0
  BY Zenon, <1>1, <1>2, <1>3 DEF S
<1>5. \A j \in S : more[j] = IF \E k \in 1..i : v[k] = j THEN 1 ELSE 0
  <2> SUFFICES ASSUME NEW j \in S
               PROVE  more[j] = IF \E k \in 1..i : v[k] = j THEN 1 ELSE 0
    OBVIOUS
  <2>1. CASE j = v[i]
    BY <1>1, <1>4, <2>1 DEF S
  <2>2. CASE j # v[i]
    <3>1. (\E k \in 1..i : v[k] = j) <=> (\E k \in 1..(i - 1) : v[k] = j)
      BY <1>1, <2>2
    <3>2. more[j] = drawn[j]
      BY Zenon, <2>2 DEF S
    <3> QED  BY Zenon, <3>1, <3>2 DEF S
  <2> QED  BY Zenon, <2>1, <2>2
<1>6. more \in [S -> 0..2]
  BY <1>4, <1>5 DEF S
<1> HIDE DEF more
<1>7. all <=> i = Resolution
  <2>1. ASSUME i = Resolution PROVE all
    <3> SUFFICES ASSUME NEW j \in S PROVE more[j] > 0
      OBVIOUS
    <3>1. \E k \in S : v[k] = j
      BY Zenon, OrdersCover DEF S
    <3> QED  BY <1>1, <1>5, <2>1, <3>1
  <2>2. ASSUME i < Resolution PROVE ~all
    <3>1. Resolution \in S /\ v[Resolution] \in S
      BY <1>1, <1>2
    <3>2. ~\E k \in 1..i : v[k] = v[Resolution]
      BY <1>1, <1>2, <2>2, <3>1
    <3>3. more[v[Resolution]] = 0
      BY Zenon, <1>5, <3>1, <3>2
    <3> QED  BY <3>1, <3>3
  <2> QED  BY <1>1, <2>1, <2>2
<1>8. after = IF all THEN [j \in S |-> more[j] - 1] ELSE more
  BY Zenon DEF Counted, more, S
<1> HIDE DEF after, all
<1>9. CASE i = Resolution
  <2>1. all /\ after = [j \in S |-> more[j] - 1]
    BY Zenon, <1>7, <1>8, <1>9
  <2>2. \A j \in S : more[j] = 1
    BY <1>5, <2>1 DEF all
  <2>3. after \in [S -> 0..2] /\ \A j \in S : after[j] = 0
    BY <2>1, <2>2
  <2> QED  BY <1>1, <1>9, <2>3 DEF S, after
<1>10. CASE i # Resolution
  <2>1. after = more
    BY Zenon, <1>7, <1>8, <1>10
  <2>2. i + 1 <= Resolution
    BY <1>1, <1>10
  <2> QED  BY Zenon, <1>5, <1>6, <2>1, <2>2 DEF S, after
<1> QED  BY Zenon, <1>9, <1>10

(* A sample leaves a list sound. *)
LEMMA CycleKept ==
    ASSUME FaultParameters, NEW c, CycleSound(c), NEW n \in CycleSample(c)
    PROVE  CycleSound(n)
<1>1. /\ c.values \in Orders /\ c.index \in 1..(Resolution + 1)
      /\ c.drawn \in [Slots -> 0..2] /\ Resolution \in Nat /\ Resolution >= 1
  BY DEF CycleSound, Cycle, FaultParameters
<1> DEFINE Result(v, i) == [values |-> v, index |-> i + 1, drawn |-> Counted(c.drawn, v[i])]
<1>2. ASSUME NEW v \in Orders, NEW i \in 1..Resolution,
             \A j \in Slots :
               c.drawn[j] = IF \E k \in 1..(i - 1) : v[k] = j THEN 1 ELSE 0
      PROVE  CycleSound(Result(v, i))
  <2> DEFINE after == Counted(c.drawn, v[i])
             r == Result(v, i)
  <2>1. /\ after \in [Slots -> 0..2]
        /\ \A j \in Slots : after[j] =
             IF i + 1 <= Resolution /\ \E k \in 1..i : v[k] = j THEN 1 ELSE 0
    BY <1>1, <1>2, SlotDrawn
  <2> HIDE DEF after
  <2>2. r.values = v /\ r.index = i + 1 /\ r.drawn = after
    BY Zenon DEF after
  <2>3. r \in Cycle
    BY <1>1, <2>1 DEF Cycle, after
  <2>4. (i + 1) - 1 = i
    BY <1>1
  <2> HIDE DEF r, Result
  <2> QED  BY <2>1, <2>2, <2>3, <2>4 DEF CycleSound, r
<1>3. CASE c.index > Resolution
  <2>1. PICK v \in Orders : n = [values |-> v, index |-> 2, drawn |-> Counted(c.drawn, v[1])]
    BY Zenon, <1>3 DEF CycleSample
  <2>2. \A j \in Slots :
           c.drawn[j] = IF \E k \in 1..(1 - 1) : v[k] = j THEN 1 ELSE 0
    BY <1>1, <1>3 DEF CycleSound
  <2>3. n = Result(v, 1)
    BY <2>1
  <2> QED  BY <1>1, <1>2, <2>2, <2>3
<1>4. CASE c.index <= Resolution
  <2>1. n = Result(c.values, c.index)
    BY <1>1, <1>4 DEF CycleSample
  <2>2. c.index \in 1..Resolution /\ \A j \in Slots :
           c.drawn[j] = IF \E k \in 1..(c.index - 1) : c.values[k] = j THEN 1 ELSE 0
    BY <1>1, <1>4 DEF CycleSound
  <2> QED  BY Zenon, <1>1, <1>2, <2>1, <2>2
<1> QED  BY <1>1, <1>3, <1>4

(* Of what is shared, only the samplers change in a step of theirs. *)
OnlySampling ==
    /\ Shape' /\ shared'.active = shared.active
    /\ shared'.loads = shared.loads /\ shared'.engines = shared.engines

(* A sampler is replaced. *)
LEMMA SamplerSets ==
    ASSUME FaultParameters, Shape, NEW g, shared' = [shared EXCEPT !.sampling = g]
    PROVE  OnlySampling /\ shared'.sampling = g
  BY Zenon DEF Shape, OnlySampling

(* The fields of a sampler. *)
LEMMA SamplerTypes ==
    ASSUME FaultParameters, NEW g \in SamplerType
    PROVE  /\ g.lb \in Written \cup {None}
           /\ g.cycles \in [Statuses -> Cycle] \cup {None}
           /\ g.read \in [Streams -> 0..MaxLoad \cup {None}]
           /\ g.inSpike \in BOOLEAN /\ g.spiked \in BOOLEAN
           /\ g.start \in Ticks \cup {None} /\ g.dropped \in Ticks \cup {None}
           /\ g.last \in [load : 0..MaxLoad, penalty : Int] \cup {None}
  BY Zenon DEF SamplerType

(* A worker reads the load. *)
LEMMA SamplingLoad ==
    ASSUME FaultParameters, SamplerSound(shared.sampling), NEW s \in Streams, Load(s)
    PROVE  \E y : SamplerSound(y) /\ shared' = [shared EXCEPT !.sampling = y]
<1> DEFINE g == shared.sampling
<1>1. PICK n \in 0..MaxLoad : shared' = [shared EXCEPT !.sampling =
         [g EXCEPT !.read[s] = IF g.lb = None THEN 0 ELSE n, !.last = None]]
  BY Zenon DEF Load, G
<1> DEFINE m == IF g.lb = None THEN 0 ELSE n
           y == [g EXCEPT !.read[s] = m, !.last = None]
<1>2. shared' = [shared EXCEPT !.sampling = y]
  BY Zenon, <1>1
<1>3. m \in 0..MaxLoad
  BY DEF FaultParameters
<1>4. g \in SamplerType
  BY Zenon DEF SamplerSound
<1> HIDE DEF m
<1>5. /\ y \in SamplerType /\ y.lb = g.lb /\ y.cycles = g.cycles /\ y.inSpike = g.inSpike
      /\ y.start = g.start /\ y.spiked = g.spiked /\ y.dropped = g.dropped /\ y.last = None
      /\ y.read = [g.read EXCEPT ![s] = m]
  <2> HIDE DEF g
  <2> QED  BY <1>3, <1>4, Zenon DEF SamplerType
<1> HIDE DEF y
<1>7. SamplerSound(y)
  BY Zenon, <1>5 DEF SamplerSound, PenaltySound
<1> QED  BY Zenon, <1>2, <1>7

(* A worker draws from the list of a status. *)
LEMMA SamplingResponse ==
    ASSUME FaultParameters, SamplerSound(shared.sampling), NEW s \in Streams, ResponseSample(s)
    PROVE  \E y : SamplerSound(y) /\ shared' = [shared EXCEPT !.sampling = y]
<1> DEFINE g == shared.sampling
<1>0. PICK st \in Statuses : \E c \in CycleSample(g.cycles[st]) :
         shared' = [shared EXCEPT !.sampling = [g EXCEPT !.cycles[st] = c, !.read[s] = None]]
  BY Zenon DEF ResponseSample, G
<1>1. PICK c \in CycleSample(g.cycles[st]) :
         shared' = [shared EXCEPT !.sampling = [g EXCEPT !.cycles[st] = c, !.read[s] = None]]
  BY <1>0, Zenon
<1> DEFINE y == [g EXCEPT !.cycles[st] = c, !.read[s] = None]
<1>2. /\ g \in SamplerType /\ g.lb = None /\ g.last = None
      /\ g.cycles \in [Statuses -> Cycle]
      /\ \A t \in Statuses : CycleSound(g.cycles[t])
  BY Zenon DEF SamplerSound, ResponseSample, G
<1>3. CycleSound(c) /\ c \in Cycle
  BY Zenon, <1>2, CycleKept DEF CycleSound
<1>5. [g.cycles EXCEPT ![st] = c] \in [Statuses -> Cycle]
      /\ \A t \in Statuses : CycleSound([g.cycles EXCEPT ![st] = c][t])
  BY Zenon, <1>2, <1>3
<1>6. /\ y \in SamplerType /\ y.lb = g.lb /\ y.cycles = [g.cycles EXCEPT ![st] = c]
      /\ y.last = g.last
  <2> HIDE DEF g
  <2> QED  BY <1>2, <1>5, Zenon DEF SamplerType
<1> HIDE DEF y
<1>8. SamplerSound(y)
  BY Zenon, <1>2, <1>5, <1>6 DEF SamplerSound
<1> QED  BY Zenon, <1>1, <1>8 DEF y

(* The clock stops at the end of the window. *)
LEMMA LaterTicks ==
    ASSUME FaultParameters, NEW t \in Ticks \cup {None}
    PROVE  /\ Later(t) \in Ticks \cup {None}
           /\ Later(t) = None <=> t = None
           /\ t # None => Later(t) >= t
<1>1. Window \in Nat /\ None \notin Nat
  BY Zenon, NoneAssumption DEF FaultParameters
<1> QED  BY <1>1 DEF Later, Ticks

(* Time passes; every elapsed time grows alike. *)
LEMMA SamplingTick ==
    ASSUME FaultParameters, SamplerSound(shared.sampling), TimePasses
    PROVE  \E y : SamplerSound(y) /\ shared' = [shared EXCEPT !.sampling = y]
<1> DEFINE g == shared.sampling
           start == Later(g.start)
           dropped == Later(g.dropped)
           y == [g EXCEPT !.start = start, !.dropped = dropped, !.last = None]
<1>1. shared' = [shared EXCEPT !.sampling = y]
  BY Zenon DEF TimePasses, G
<1>2. /\ g \in SamplerType
      /\ g.start \in Ticks \cup {None} /\ g.dropped \in Ticks \cup {None}
  BY Zenon, SamplerTypes DEF SamplerSound
<1>3. /\ start \in Ticks \cup {None} /\ dropped \in Ticks \cup {None}
      /\ start = None <=> g.start = None
      /\ dropped = None <=> g.dropped = None
      /\ g.dropped # None => dropped >= g.dropped
      /\ g.start = g.dropped => start = dropped
  BY Zenon, <1>2, LaterTicks
<1>4. /\ y \in SamplerType /\ y.lb = g.lb /\ y.cycles = g.cycles /\ y.inSpike = g.inSpike
      /\ y.start = start /\ y.spiked = g.spiked /\ y.dropped = dropped /\ y.last = None
  <2> HIDE DEF g, start, dropped
  <2> QED  BY <1>2, <1>3, Zenon DEF SamplerType
<1> HIDE DEF y, start, dropped
<1>5. ASSUME g.lb # None PROVE PenaltySound(y)
  <2>1. PenaltySound(g)
    BY Zenon, <1>5 DEF SamplerSound
  <2>2. g.lb.window \in {0, Window} /\ Window \in Nat
    <3>1. g.lb \in Written
      BY Zenon, <1>2, <1>5, SamplerTypes
    <3> QED  BY Zenon, <3>1 DEF Written, FaultParameters
  <2>3. g.dropped # None /\ g.dropped >= g.lb.window => dropped # None /\ dropped >= g.lb.window
    BY <1>2, <1>3, <2>2 DEF Ticks
  <2> QED  BY Zenon, <1>3, <1>4, <2>1, <2>3 DEF PenaltySound
<1>6. SamplerSound(y)
  BY Zenon, <1>4, <1>5 DEF SamplerSound
<1> QED  BY Zenon, <1>1, <1>6

(* A worker samples by load, with the load it read some time ago. *)
LEMMA SamplingLoadBased ==
    ASSUME FaultParameters, SamplerSound(shared.sampling), NEW s \in Streams, LoadBasedSample(s)
    PROVE  \E y : SamplerSound(y) /\ shared' = [shared EXCEPT !.sampling = y]
<1> DEFINE g == shared.sampling
           load == g.read[s]
           lb == g.lb
           new == calculateGreyZonePenalty(load)
           grey == load > lb.healthy /\ load < lb.tipping
           spikes == Spikes(lb, load)
           spiked == g.spiked \/ spikes
           dropped == IF spikes THEN None ELSE IF g.spiked /\ g.dropped = None THEN 0 ELSE g.dropped
           penalty == IF grey THEN new.penalty ELSE 0
           last == [load |-> load, penalty |-> penalty]
           y == [g EXCEPT !.inSpike = new.inSpike, !.start = new.start, !.read[s] = None,
                          !.spiked = spiked, !.dropped = dropped, !.last = last]
<1>1. shared' = [shared EXCEPT !.sampling = y]
  BY Zenon DEF LoadBasedSample, G
<1>2. /\ g \in SamplerType /\ lb # None /\ load # None /\ g.cycles = None /\ PenaltySound(g)
  BY Zenon DEF SamplerSound, LoadBasedSample, G
<1>3. /\ lb \in Written /\ load \in 0..MaxLoad
      /\ g.inSpike \in BOOLEAN /\ g.spiked \in BOOLEAN
      /\ g.start \in Ticks \cup {None} /\ g.dropped \in Ticks \cup {None}
  BY <1>2, SamplerTypes
<1>4. /\ lb.healthy \in Nat /\ lb.tipping \in Nat /\ lb.threshold \in Nat /\ lb.multiplier \in Nat
      /\ lb.rate \in Nat /\ lb.window \in {0, Window} /\ Window \in Nat
      /\ MaxLoad \in Nat /\ None \notin Nat
  BY <1>3, NoneAssumption DEF Written, FaultParameters
<1> DEFINE start == IF g.start = None THEN 0 ELSE g.start
           fades == g.inSpike /\ start < lb.window
<1>5. new = IF spikes
            THEN [inSpike |-> TRUE, start |-> None, penalty |-> Faded(lb, load, 0)]
            ELSE IF fades
            THEN [inSpike |-> TRUE, start |-> start, penalty |-> Faded(lb, load, start)]
            ELSE [inSpike |-> FALSE, start |-> None, penalty |-> Base(lb, load)]
  BY Zenon DEF calculateGreyZonePenalty, G
<1>6. start \in Ticks
  BY <1>3, <1>4 DEF Ticks
<1> HIDE DEF new, spikes, fades, lb
<1>7. /\ spikes => new.inSpike = TRUE /\ new.start = None /\ new.penalty = Faded(lb, load, 0)
      /\ ~spikes /\ fades =>
           new.inSpike = TRUE /\ new.start = start /\ new.penalty = Faded(lb, load, start)
      /\ ~spikes /\ ~fades =>
           new.inSpike = FALSE /\ new.start = None /\ new.penalty = Base(lb, load)
  <2> HIDE DEF start, load
  <2> QED  BY Zenon, <1>5
<1>8. Faded(lb, load, start) \in Int /\ Faded(lb, load, 0) \in Int
      /\ Base(lb, load) \in Int
  <2> DEFINE p == Position(lb, load)
  <2>1. p \in Int
    BY <1>3, <1>4 DEF Position, Span
  <2> HIDE DEF p
  <2>2. start \in Int
    BY <1>4, <1>6 DEF Ticks
  <2> HIDE DEF start
  <2> QED  BY <1>4, <2>1, <2>2 DEF Faded, Base, p
<1>9. /\ new.start \in Ticks \cup {None} /\ new.inSpike \in BOOLEAN /\ penalty \in Int
      /\ dropped \in Ticks \cup {None} /\ spiked \in BOOLEAN
  <2>1. 0 \in Ticks
    BY <1>4 DEF Ticks
  <2>2. new.start \in Ticks \cup {None} /\ new.inSpike \in BOOLEAN /\ new.penalty \in Int
    BY <1>6, <1>7, <1>8, Zenon
  <2> QED  BY <1>3, <2>1, <2>2
<1>10. last \in [load : 0..MaxLoad, penalty : Int] /\ last.load = load /\ last.penalty = penalty
  BY Zenon, <1>3, <1>9
<1>11. [g.read EXCEPT ![s] = None] \in [Streams -> 0..MaxLoad \cup {None}]
  BY Zenon, <1>2, SamplerTypes
<1> HIDE DEF last, penalty, dropped, spiked
<1>12. /\ y \in SamplerType /\ y.lb = lb /\ y.cycles = g.cycles /\ y.inSpike = new.inSpike
       /\ y.start = new.start /\ y.spiked = spiked /\ y.dropped = dropped /\ y.last = last
  <2>1. y = [g EXCEPT !.inSpike = new.inSpike, !.start = new.start,
                      !.read = [g.read EXCEPT ![s] = None],
                      !.spiked = spiked, !.dropped = dropped, !.last = last]
    OBVIOUS
  <2> HIDE DEF y, g
  <2> QED  BY <1>2, <1>9, <1>10, <1>11, <2>1, ZenonT(60) DEF SamplerType, lb
<1> HIDE DEF y
(* While it fades, the time since recoveryStart is the one since the drop. *)
<1>13. /\ spikes => dropped = None
       /\ ~spikes /\ fades => dropped = start /\ dropped \in 0..(lb.window - 1)
       /\ ~spikes /\ ~fades => dropped \notin 0..(lb.window - 1)
       /\ ~spikes /\ ~fades /\ spiked => dropped # None /\ dropped >= lb.window
       /\ ~spikes /\ ~fades /\ ~spiked => dropped = None
       /\ spikes \/ fades => spiked
  <2>1. /\ g.inSpike => g.spiked /\ g.start = g.dropped
        /\ ~g.inSpike /\ g.spiked => g.dropped # None /\ g.dropped >= lb.window
        /\ ~g.spiked => g.dropped = None
    BY Zenon, <1>2 DEF PenaltySound, lb
  <2>2. spiked <=> g.spiked \/ spikes
    BY Zenon DEF spiked
  <2>3. dropped = IF spikes THEN None ELSE IF g.spiked /\ g.dropped = None THEN 0 ELSE g.dropped
    BY Zenon DEF dropped
  <2>4. fades <=> g.inSpike /\ start < lb.window
    BY Zenon DEF fades
  <2>5. start \in Nat /\ lb.window \in Nat
    BY <1>4, <1>6 DEF Ticks
  <2>6. g.inSpike /\ ~spikes => dropped = start
    BY Zenon, <2>1, <2>3
  <2>7. ~spikes /\ fades => dropped = start /\ dropped \in 0..(lb.window - 1)
    BY <2>4, <2>5, <2>6
  <2>8. ~spikes /\ ~fades /\ g.inSpike => dropped # None /\ dropped >= lb.window /\ dropped \in Nat
    BY <1>4, <2>4, <2>5, <2>6
  <2>9. ~spikes /\ ~g.inSpike => dropped = g.dropped
    BY Zenon, <2>1, <2>3
  <2>10. g.dropped \in Nat \cup {None}
    BY <1>3, <1>4 DEF Ticks
  <2>11. ~spikes /\ ~fades => dropped \notin 0..(lb.window - 1)
    BY <1>4, <2>1, <2>5, <2>8, <2>9, <2>10
  <2> HIDE DEF start
  <2> QED  BY Zenon, <2>1, <2>2, <2>3, <2>4, <2>7, <2>8, <2>9, <2>11
<1>14. PenaltySound(y)
  BY Zenon, <1>7, <1>9, <1>12, <1>13 DEF PenaltySound
<1>15. penalty = Due(y, load)
  <2>1. Due(y, load) =
          IF load <= lb.healthy \/ load >= lb.tipping THEN 0
          ELSE IF spikes THEN Faded(lb, load, 0)
          ELSE IF dropped \in 0..(lb.window - 1) THEN Faded(lb, load, dropped)
          ELSE Base(lb, load)
    BY Zenon, <1>12 DEF Due, spikes
  <2>2. (load <= lb.healthy \/ load >= lb.tipping) <=> ~grey
    BY <1>3, <1>4
  <2>3. penalty = IF grey THEN new.penalty ELSE 0
    BY ZenonT(60) DEF penalty
  <2> HIDE DEF grey
  <2> QED  BY Zenon, <1>7, <1>13, <2>1, <2>2, <2>3
<1>16. SamplerSound(y)
  BY Zenon, <1>2, <1>10, <1>12, <1>14, <1>15 DEF SamplerSound
<1> QED  BY Zenon, <1>1, <1>16 DEF y

(* Every step of the samplers. *)
LEMMA SamplingKeeps ==
    ASSUME FaultParameters, Shape, SamplingInv, SamplingStep
    PROVE  SamplingInv' /\ OnlySampling /\ stream' = stream /\ filter' = filter
<1>1. SamplerSound(shared.sampling)
  BY Zenon DEF SamplingInv, SamplingStep, Sampling, G
<1>2. PICK y : SamplerSound(y) /\ shared' = [shared EXCEPT !.sampling = y]
  BY <1>1, SamplingLoad, SamplingResponse, SamplingLoadBased, SamplingTick, Zenon
     DEF SamplingStep
<1>3. OnlySampling /\ shared'.sampling = y
  BY Zenon, <1>2, SamplerSets
<1>4. SamplingInv'
  BY <1>2, <1>3, Zenon DEF SamplingInv
<1> QED  BY Zenon, <1>3, <1>4 DEF SamplingStep

(* Samplers as buildFilterFactoryForSource makes them. *)
LEMMA SamplingStarts ==
    ASSUME FaultParameters, shared.sampling \in SamplersStarted
    PROVE  SamplingInv
<1> DEFINE g == shared.sampling
           G0(lb, c) == [lb |-> lb, cycles |-> c, read |-> [s \in Streams |-> None],
                         inSpike |-> FALSE, start |-> None, spiked |-> FALSE, dropped |-> None,
                         last |-> None]
<1>1. ASSUME NEW lb \in Written \cup {None},
             NEW c \in [Statuses -> Cycle] \cup {None}
      PROVE  /\ G0(lb, c) \in SamplerType /\ G0(lb, c).lb = lb /\ G0(lb, c).cycles = c
             /\ G0(lb, c).last = None /\ PenaltySound(G0(lb, c))
  BY Zenon DEF SamplerType, PenaltySound
<1> HIDE DEF G0, g
<1>2. CASE \E lb \in Written : g = G0(lb, None)
  <2>1. PICK lb \in Written : g = G0(lb, None)
    BY <1>2, Zenon
  <2>2. g \in SamplerType /\ g.lb \in Written /\ g.cycles = None /\ g.last = None /\ PenaltySound(g)
    BY Zenon, <1>1, <2>1
  <2>3. None \notin Written
    BY Zenon DEF FaultParameters
  <2> QED  BY Zenon, <2>2, <2>3 DEF SamplingInv, SamplerSound, g
<1>3. CASE \E c \in [Statuses -> Shuffled] : g = G0(None, c)
  <2>1. PICK c \in [Statuses -> Shuffled] : g = G0(None, c)
    BY <1>3, Zenon
  <2>2. ASSUME NEW d \in Shuffled PROVE CycleSound(d)
    BY DEF CycleSound, Shuffled, Cycle, Slots, FaultParameters
  <2>3. c \in [Statuses -> Cycle] /\ \A st \in Statuses : CycleSound(c[st])
    BY Zenon, <2>2 DEF CycleSound
  <2>4. g \in SamplerType /\ g.lb = None /\ g.cycles = c /\ g.last = None
    BY Zenon, <1>1, <2>1, <2>3
  <2> QED  BY Zenon, <2>3, <2>4 DEF SamplingInv, SamplerSound, g
<1> QED  BY <1>2, <1>3, Zenon DEF SamplersStarted, G0, g

(* The invariant implies what the runs check. *)
LEMMA SamplingDue ==
    ASSUME FaultParameters, SamplingInv
    PROVE  SampledAsDue
<1> SUFFICES ASSUME shared.sampling # None
             PROVE  Even /\ AsDue
  BY Zenon DEF SampledAsDue, Sampling, G
<1> DEFINE g == shared.sampling
<1>1. SamplerSound(g)
  BY Zenon DEF SamplingInv
<1>2. ASSUME g.cycles # None, NEW st \in Statuses, NEW i \in Slots
      PROVE  g.cycles[st].drawn[i] <= 1
  <2>1. CycleSound(g.cycles[st])
    BY Zenon, <1>1, <1>2 DEF SamplerSound
  <2> QED  BY <2>1 DEF CycleSound
<1> QED  BY Zenon, <1>1, <1>2 DEF SamplerSound, Even, AsDue, G

-------------------------------------------------------------------------------
(* What Envoy does with the outcome of a callback and with the calls that  *)
(* come later.                                                             *)

Status == {"Continue", "Stop", "StopAndBuffer", "StopNoBuffer", "StopAllAndBuffer"}

Streamed == stream \in [Streams -> StreamType] /\ DOMAIN filter = Streams

(* s is the only stream that moves. *)
OnlyStream(s) ==
    /\ stream' \in [Streams -> StreamType] /\ DOMAIN filter' = Streams
    /\ \A t \in Streams \ {s} : stream'[t] = stream[t] /\ filter'[t] = filter[t]

(* A message after a callback has returned status. *)
LEMMA AfterIs ==
    ASSUME NEW msg \in Message, NEW status \in Status
    PROVE  LET n == After(msg, status)
           IN  /\ n \in Message /\ n.at = msg.at /\ n.chunks = msg.chunks
               /\ n.flow = Flow(status) /\ n.seen = (msg.seen \/ status = "Continue")
  BY Zenon DEF After, Flow, Status, Message

(* A callback moves its own message. *)
LEMMA Delivers ==
    ASSUME Streamed, NEW s \in Streams, NEW dir \in {"req", "resp"}, NEW msg \in Message, NEW o,
           o.status \in Status, o.reply \in Nat \cup {None}, Deliver(s, dir, msg, o)
    PROVE  /\ OnlyStream(s) /\ filter'[s] = o.f
           /\ stream'[s][dir] = After(msg, o.status) /\ stream'[s].reply = o.reply
           /\ dir = "req" => stream'[s].resp = stream[s].resp
           /\ dir = "resp" => stream'[s].req = stream[s].req
           /\ stream'[s].foreign = stream[s].foreign /\ stream'[s].spurious = stream[s].spurious
           /\ stream'[s].up = stream[s].up
  <1>1. PICK n \in Message : n = After(msg, o.status)
    BY Zenon, AfterIs
  <1>2. /\ stream' = [stream EXCEPT ![s][dir] = n, ![s].reply = o.reply]
        /\ filter' = [filter EXCEPT ![s] = o.f]
    BY Zenon, <1>1 DEF Deliver
  <1>3. CASE dir = "req"
    BY <1>1, <1>2, <1>3, ZenonT(60) DEF Streamed, OnlyStream, StreamType
  <1>4. CASE dir = "resp"
    BY <1>1, <1>2, <1>4, ZenonT(60) DEF Streamed, OnlyStream, StreamType
  <1> QED
    BY Zenon, <1>3, <1>4

(* A message that waits is resumed. *)
LEMMA ContinuesIt ==
    ASSUME Streamed, NEW s \in Streams, NEW dir \in {"req", "resp"}, NEW f,
           Waits(s, dir), Continues(s, dir, f)
    PROVE  /\ OnlyStream(s) /\ filter'[s] = f /\ shared' = shared
           /\ stream'[s].req.at = stream[s].req.at /\ stream'[s].resp.at = stream[s].resp.at
           /\ stream'[s].reply = stream[s].reply /\ stream'[s].foreign = stream[s].foreign
           /\ stream'[s].spurious = stream[s].spurious /\ stream'[s].up = stream[s].up
           /\ \/ stream'[s] = stream[s]
              \/ dir = "req" /\ stream'[s].resp = stream[s].resp /\ stream'[s].req.flow = "open"
              \/ dir = "resp" /\ stream'[s].req = stream[s].req /\ stream'[s].resp.flow = "open"
  <1>1. PICK n \in Message :
          /\ n = After(stream[s][dir], "Continue")
          /\ n.at = stream[s][dir].at /\ n.flow = "open"
    BY AfterIs DEF Streamed, StreamType, Status, Flow
  <1>2. filter' = [filter EXCEPT ![s] = f] /\ shared' = shared
    BY Zenon DEF Continues
  <1>3. CASE stream' = stream
    BY <1>2, <1>3, Zenon DEF Streamed, OnlyStream
  <1>4. CASE dir = "req" /\ stream' = [stream EXCEPT ![s][dir] = n]
    BY <1>1, <1>2, <1>4 DEF Streamed, OnlyStream, StreamType
  <1>5. CASE dir = "resp" /\ stream' = [stream EXCEPT ![s][dir] = n]
    BY <1>1, <1>2, <1>5 DEF Streamed, OnlyStream, StreamType
  <1> QED
    BY Zenon, <1>1, <1>3, <1>4, <1>5 DEF Continues

(* A message that waits is answered. *)
LEMMA AnswersIt ==
    ASSUME Streamed, NEW s \in Streams, NEW dir \in {"req", "resp"}, NEW code \in Nat, NEW f,
           Waits(s, dir), Answers(s, dir, code, f)
    PROVE  /\ OnlyStream(s) /\ filter'[s] = f /\ shared' = shared
           /\ stream'[s].req = stream[s].req /\ stream'[s].resp = stream[s].resp
           /\ stream'[s].reply = code /\ stream'[s].foreign = stream[s].foreign
           /\ stream'[s].spurious = stream[s].spurious /\ stream'[s].up = stream[s].up
  BY Zenon DEF Streamed, OnlyStream, StreamType, Answers

-------------------------------------------------------------------------------
(* The requests in flight, and the responses that are held back. *)

(* A filter object and its stream: the request is counted from the headers *)
(* that match to the end of the stream, and a response that a goroutine    *)
(* will resume or replace is waiting for that.                             *)
FaultType == [kind : {"fault"}, load : Nat \cup {None}, matched : BOOLEAN, counted : BOOLEAN,
              delayed : {None, "reply", "continue"}, destroyed : BOOLEAN]

FaultSound(f, m) ==
    /\ f \in FaultType
    /\ f.counted <=> f.matched /\ m.up
    /\ m.req.at = "idle" => ~f.matched
    /\ f.delayed # None => m.resp.at # "idle" /\ m.resp.flow = "all"

FilterSound(f, m) == ~m.spurious /\ (f = Bare \/ FaultSound(f, m))

FlightInv ==
    /\ Streamed
    /\ \A s \in Streams : FilterSound(filter[s], stream[s])
    /\ InFlightExact

InFlight == {s \in Streams : filter[s].kind = "fault" /\ filter[s].matched /\ stream[s].up}

(* The count is the number of a finite set. *)
LEMMA InFlightFinite ==
    ASSUME FaultParameters, InFlightExact
    PROVE  IsFiniteSet(InFlight) /\ shared.active = Cardinality(InFlight) /\ shared.active \in Nat
<1>1. IsFiniteSet(InFlight)
  BY Zenon, FS_Subset DEF FaultParameters, InFlight
<1>2. shared.active = Cardinality(InFlight)
  BY Zenon DEF InFlightExact, InFlight
<1> QED  BY Zenon, <1>1, <1>2, FS_CardinalityType

(* A step of stream s, and what it does to the count. *)
LEMMA FlightMoves ==
    ASSUME FaultParameters, FlightInv, NEW s \in Streams, OnlyStream(s), ~stream'[s].spurious,
           FaultSound(filter[s], stream[s]), FaultSound(filter'[s], stream'[s]),
           LET was == filter[s].matched /\ stream[s].up
               is == filter'[s].matched /\ stream'[s].up
           IN  shared'.active = IF is /\ ~was THEN shared.active + 1
                                ELSE IF was /\ ~is THEN shared.active - 1 ELSE shared.active
    PROVE  FlightInv'
<1> DEFINE F == InFlight
           H == {t \in Streams : filter'[t].kind = "fault" /\ filter'[t].matched /\ stream'[t].up}
           was == filter[s].matched /\ stream[s].up
           is == filter'[s].matched /\ stream'[s].up
<1>1. /\ Streamed'
      /\ \A t \in Streams \ {s} : filter'[t] = filter[t] /\ stream'[t] = stream[t]
  BY Zenon DEF OnlyStream, Streamed
<1>2. \A t \in Streams : FilterSound(filter'[t], stream'[t])
  BY <1>1, Zenon DEF FlightInv, FilterSound
<1>3. IsFiniteSet(F) /\ shared.active = Cardinality(F) /\ shared.active \in Nat
  BY Zenon, InFlightFinite DEF FlightInv
<1>4. filter[s].kind = "fault" /\ filter'[s].kind = "fault"
  BY Zenon DEF FaultSound, FaultType
<1>5. (s \in F <=> was) /\ (s \in H <=> is) /\ \A t \in Streams \ {s} : t \in F <=> t \in H
  BY <1>1, <1>4, Zenon DEF InFlight
<1>6. F \subseteq Streams /\ H \subseteq Streams
  BY Zenon DEF InFlight
<1> HIDE DEF F, H, was, is
<1>7. shared'.active = Cardinality(H)
  <2>1. CASE is /\ ~was
    <3>1. H = F \cup {s} /\ s \notin F
      BY Zenon, <1>5, <1>6, <2>1
    <3>2. Cardinality(H) = Cardinality(F) + 1
      BY <1>3, <3>1, FS_AddElement, Zenon
    <3> QED  BY Zenon, <1>3, <2>1, <3>2 DEF is, was
  <2>2. CASE was /\ ~is
    <3>1. H = F \ {s} /\ s \in F
      BY Zenon, <1>5, <1>6, <2>2
    <3> QED  BY <1>3, <2>2, <3>1, FS_RemoveElement, Zenon DEF is, was
  <2>3. CASE was <=> is
    <3>1. H = F
      BY <1>5, <1>6, <2>3, SMTT(60)
    <3> QED  BY Zenon, <1>3, <2>3, <3>1 DEF is, was
  <2> QED  BY Zenon, <2>1, <2>2, <2>3
<1> QED  BY Zenon, <1>1, <1>2, <1>7 DEF FlightInv, InFlightExact, H

(* Only streams of the filter have its callbacks. *)
LEMMA FaultMine ==
    ASSUME FlightInv, NEW s \in Streams, Mine(s)
    PROVE  FaultSound(filter[s], stream[s]) /\ ~stream[s].spurious
<1>1. filter[s] # Bare
  BY DEF Mine, Bare
<1> QED  BY <1>1, Zenon DEF FlightInv, FilterSound

(* The counter is loaded. *)
LEMMA FlightLoads ==
    ASSUME FaultParameters, FlightInv, NEW s \in Streams, LoadActive(s)
    PROVE  FlightInv' /\ shared' = shared
<1> DEFINE f == filter[s]
           m == stream[s]
<1>1. FaultSound(f, m) /\ ~m.spurious
  BY Zenon, FaultMine DEF LoadActive
<1>2. /\ filter' = [filter EXCEPT ![s] = [f EXCEPT !.load = shared.active]]
      /\ stream' = stream /\ shared' = shared
  BY Zenon DEF LoadActive
<1>3. OnlyStream(s) /\ filter'[s] = [f EXCEPT !.load = shared.active] /\ stream'[s] = m
  BY Zenon, <1>2 DEF FlightInv, Streamed, OnlyStream
<1>4. shared.active \in Nat
  BY Zenon, InFlightFinite DEF FlightInv
<1>5. /\ FaultSound([f EXCEPT !.load = shared.active], m)
      /\ [f EXCEPT !.load = shared.active].matched = f.matched
  BY Zenon, <1>1, <1>4 DEF FaultSound, FaultType
<1> QED  BY Zenon, <1>1, <1>2, <1>3, <1>5, FlightMoves

(* Only the count changes of what is shared. *)
LEMMA CountSets ==
    ASSUME Shape, NEW n, shared' = [shared EXCEPT !.active = n]
    PROVE  Shape' /\ shared'.active = n /\ shared'.sampling = shared.sampling
  BY Zenon DEF Shape

(* A request that matches is counted. *)
LEMMA FlightMatches ==
    ASSUME FaultParameters, Shape, FlightInv, NEW s \in Streams, OnRequestHeaders(s)
    PROVE  FlightInv' /\ Shape' /\ shared'.sampling = shared.sampling
<1> DEFINE f == filter[s]
           m == stream[s]
           Msg(end) == [m.req EXCEPT !.at = IF end THEN "end" ELSE "headers"]
           Out(match) == Returns("Continue", [f EXCEPT !.matched = match, !.counted = match])
           Active(match) == IF match /\ ~f.counted THEN shared.active + 1 ELSE shared.active
<1>1. PICK end, match \in BOOLEAN :
        /\ Deliver(s, "req", Msg(end), Out(match))
        /\ shared' = [shared EXCEPT !.active = Active(match)]
  BY Zenon DEF OnRequestHeaders
<1>2. FaultSound(f, m) /\ ~m.spurious /\ m.up /\ m.req \in Message /\ m.req.at = "idle"
  BY Zenon, FaultMine DEF OnRequestHeaders, Calls, Live, InHeaders, FlightInv, Streamed, StreamType
<1>3. Msg(end) \in Message /\ Msg(end).at # "idle"
  BY Zenon, <1>2 DEF Message
<1> DEFINE g == [f EXCEPT !.matched = match, !.counted = match]
<1>4. Out(match).status \in Status /\ Out(match).reply = None /\ Out(match).f = g
  BY Zenon DEF Returns, Status
<1>5. PICK msg \in Message : msg = Msg(end) /\ msg.at # "idle"
  BY <1>3, Zenon
<1>6. PICK o : o = Out(match)
  BY Zenon
<1> HIDE DEF Msg, Out
<1>7. PICK n \in Message : n = After(msg, "Continue") /\ n.at # "idle"
  <2>1. After(msg, "Continue") \in Message /\ After(msg, "Continue").at = msg.at
    BY Zenon, AfterIs DEF Status
  <2> QED  BY <1>5, <2>1, Zenon
<1>8. /\ OnlyStream(s) /\ filter'[s] = g /\ stream'[s].req = n
      /\ stream'[s].resp = m.resp /\ stream'[s].spurious = m.spurious /\ stream'[s].up = m.up
  <2>1. Deliver(s, "req", msg, o) /\ o.status = "Continue" /\ o.reply = None /\ o.f = g
    BY Zenon, <1>1, <1>4, <1>5, <1>6 DEF Out, Returns
  <2>2. Streamed /\ o.status \in Status /\ o.reply \in Nat \cup {None}
    BY Zenon, <2>1 DEF FlightInv, Status
  <2> QED  BY <1>7, <2>1, <2>2, Delivers
<1>9. /\ g \in FaultType /\ g.matched = match /\ g.counted = match /\ g.delayed = f.delayed
      /\ ~f.matched /\ ~f.counted
  BY <1>2, Zenon DEF FaultSound, FaultType
<1> HIDE DEF g
<1>10. FaultSound(filter'[s], stream'[s])
  BY <1>2, <1>7, <1>8, <1>9 DEF FaultSound
<1>11. Shape' /\ shared'.active = Active(match) /\ shared'.sampling = shared.sampling
  BY Zenon, <1>1, CountSets
<1>12. FlightInv'
  BY <1>2, <1>8, <1>9, <1>10, <1>11, FlightMoves, Zenon
<1> QED  BY Zenon, <1>11, <1>12

(* The response passes, is replaced or is held. *)
LEMMA FlightResponds ==
    ASSUME FaultParameters, FlightInv, NEW s \in Streams, OnResponseHeaders(s)
    PROVE  FlightInv' /\ shared' = shared
<1> DEFINE f == filter[s]
           m == stream[s]
           Msg(end) == [m.resp EXCEPT !.at = IF end THEN "end" ELSE "headers"]
           Outs == {Returns("Continue", f)}
             \cup IF ~f.matched THEN {}
                  ELSE {Replies("Stop", 503, f),
                        Returns("StopAllAndBuffer", [f EXCEPT !.delayed = "reply"]),
                        Returns("StopAllAndBuffer", [f EXCEPT !.delayed = "continue"])}
<1>1. PICK end \in BOOLEAN : OnHeaders(s, "resp", end, Outs)
  BY Zenon DEF OnResponseHeaders
<1>2. /\ \E o \in Outs : Deliver(s, "resp", Msg(end), o)
      /\ Calls(s, "resp") /\ m.resp.at = "idle" /\ shared' = shared
  BY <1>1, Zenon DEF OnHeaders, HeadersFrame
<1>3. PICK o \in Outs : Deliver(s, "resp", Msg(end), o)
  BY <1>2, Zenon
<1>4. FaultSound(f, m) /\ ~m.spurious /\ m.up /\ m.resp \in Message /\ f.delayed = None
  <2>1. FaultSound(f, m) /\ ~m.spurious
    BY FaultMine DEF OnResponseHeaders
  <2>2. m.up /\ m.resp \in Message
    BY <1>2 DEF Calls, Live, FlightInv, Streamed, StreamType
  <2> QED  BY Zenon, <1>2, <2>1, <2>2 DEF FaultSound
<1>5. PICK msg \in Message : msg = Msg(end) /\ msg.at # "idle"
  <2>1. Msg(end) \in Message /\ Msg(end).at # "idle"
    BY <1>4 DEF Message
  <2> QED  BY <2>1, ZenonT(60)
<1>6. /\ o.status \in Status /\ o.reply \in Nat \cup {None} /\ o.f \in FaultType
      /\ o.f.matched = f.matched /\ o.f.counted = f.counted
      /\ o.f.delayed # None => o.status = "StopAllAndBuffer"
  <2>1. f \in FaultType
    BY Zenon, <1>4 DEF FaultSound
  <2>2. \A d \in {"reply", "continue"} : LET g == [f EXCEPT !.delayed = d] IN
          g \in FaultType /\ g.matched = f.matched /\ g.counted = f.counted
    BY <2>1 DEF FaultType
  <2>3. CASE o = Returns("Continue", f)
    BY <1>4, <2>1, <2>3, Zenon DEF Returns, Status
  <2>4. CASE o = Replies("Stop", 503, f)
    BY <1>4, <2>1, <2>4 DEF Replies, Status
  <2>5. CASE o = Returns("StopAllAndBuffer", [f EXCEPT !.delayed = "reply"])
    BY <2>2, <2>5, Zenon DEF Returns, Status
  <2>6. CASE o = Returns("StopAllAndBuffer", [f EXCEPT !.delayed = "continue"])
    BY <2>2, <2>6, Zenon DEF Returns, Status
  <2> QED  BY <2>3, <2>4, <2>5, <2>6, ZenonT(60)
<1> HIDE DEF Msg, Outs
<1>7. PICK n \in Message : n = After(msg, o.status) /\ n.at # "idle" /\ n.flow = Flow(o.status)
  <2>1. LET n == After(msg, o.status) IN n \in Message /\ n.at = msg.at /\ n.flow = Flow(o.status)
    BY <1>6, AfterIs, SMTT(60)
  <2> QED  BY <1>5, <2>1, Zenon
<1>8. /\ OnlyStream(s) /\ filter'[s] = o.f /\ stream'[s].resp = n
      /\ stream'[s].req = m.req /\ stream'[s].spurious = m.spurious /\ stream'[s].up = m.up
  BY <1>3, <1>5, <1>6, <1>7, Delivers, SMTT(60) DEF FlightInv
<1>9. FaultSound(filter'[s], stream'[s])
  BY Zenon, <1>4, <1>6, <1>7, <1>8 DEF FaultSound, Flow
<1> QED  BY <1>2, <1>4, <1>6, <1>8, <1>9, FlightMoves, Zenon

(* The sleep ends on a response that is still held. *)
LEMMA FlightDelayed ==
    ASSUME FaultParameters, FlightInv, NEW s \in Streams, Delayed(s)
    PROVE  FlightInv' /\ shared' = shared
<1> DEFINE f == filter[s]
           m == stream[s]
           g == [f EXCEPT !.delayed = None]
<1>1. FaultSound(f, m) /\ ~m.spurious /\ Live(s)
  BY Zenon, FaultMine DEF Delayed
<1>2. g \in FaultType /\ g.matched = f.matched /\ g.counted = f.counted /\ g.delayed = None
  BY Zenon, <1>1 DEF FaultSound, FaultType
<1>3. f.delayed # None /\ (Answers(s, "resp", 503, g) \/ Continues(s, "resp", g))
  BY Zenon DEF Delayed, FaultParameters
<1> HIDE DEF g
<1>4. Waits(s, "resp") /\ Streamed
  BY Zenon, <1>1, <1>3 DEF FaultSound, Waits, FlightInv
<1>5. /\ OnlyStream(s) /\ filter'[s] = g /\ shared' = shared /\ stream'[s].req.at = m.req.at
      /\ stream'[s].spurious = m.spurious /\ stream'[s].up = m.up
  <2>1. CASE Answers(s, "resp", 503, g)
    BY <1>4, <2>1, AnswersIt
  <2>2. CASE Continues(s, "resp", g)
    BY Zenon, <1>4, <2>2, ContinuesIt
  <2> QED  BY Zenon, <1>3, <2>1, <2>2
<1>6. FaultSound(filter'[s], stream'[s])
  BY Zenon, <1>1, <1>2, <1>5 DEF FaultSound
<1> QED  BY Zenon, <1>1, <1>2, <1>5, <1>6, FlightMoves

(* Somebody else answers. *)
LEMMA FlightForeign ==
    ASSUME FaultParameters, FlightInv, NEW s \in Streams, LocalReplyElsewhere(s)
    PROVE  FlightInv' /\ shared' = shared
<1>1. FaultSound(filter[s], stream[s]) /\ ~stream[s].spurious
  BY Zenon, FaultMine DEF LocalReplyElsewhere
<1>2. stream' = [stream EXCEPT ![s].foreign = TRUE] /\ filter' = filter /\ shared' = shared
  BY Zenon DEF LocalReplyElsewhere, Foreign
<1>3. /\ OnlyStream(s) /\ filter'[s] = filter[s] /\ stream'[s].req = stream[s].req
      /\ stream'[s].resp = stream[s].resp
      /\ stream'[s].spurious = stream[s].spurious /\ stream'[s].up = stream[s].up
  BY <1>2, ZenonT(60) DEF FlightInv, Streamed, OnlyStream, StreamType
<1>4. FaultSound(filter'[s], stream'[s])
  BY Zenon, <1>1, <1>3 DEF FaultSound
<1> QED  BY <1>1, <1>2, <1>3, <1>4, FlightMoves, Zenon

(* Whichever of OnStreamComplete and OnDestroy comes first uncounts it. *)
LEMMA FlightEnds ==
    ASSUME FaultParameters, Shape, FlightInv, NEW s \in Streams, OnStreamComplete(s) \/ OnDestroy(s)
    PROVE  FlightInv' /\ Shape' /\ shared'.sampling = shared.sampling
<1> DEFINE f == filter[s]
           m == stream[s]
           g == filter'[s]
           Active == IF f.counted THEN shared.active - 1 ELSE shared.active
<1>1. FaultSound(f, m) /\ ~m.spurious
  BY Zenon, FaultMine DEF OnStreamComplete, OnDestroy
<1>2. /\ stream' = [stream EXCEPT ![s].up = FALSE]
      /\ shared' = [shared EXCEPT !.active = Active]
      /\ \/ filter' = [filter EXCEPT ![s] = [f EXCEPT !.counted = FALSE]]
         \/ filter' = [filter EXCEPT ![s] = [f EXCEPT !.counted = FALSE, !.destroyed = TRUE]]
  BY Zenon DEF OnStreamComplete, OnDestroy, Ends, Released
<1>3. /\ OnlyStream(s) /\ ~stream'[s].up /\ stream'[s].spurious = m.spurious
      /\ stream'[s].req = m.req /\ stream'[s].resp = m.resp
  BY <1>2, ZenonT(60) DEF FlightInv, Streamed, OnlyStream, StreamType
<1>4. \/ g = [f EXCEPT !.counted = FALSE]
      \/ g = [f EXCEPT !.counted = FALSE, !.destroyed = TRUE]
  BY <1>2, Zenon DEF FlightInv, Streamed
<1>5. g \in FaultType /\ g.matched = f.matched /\ ~g.counted /\ g.delayed = f.delayed
  BY <1>1, <1>4, Zenon DEF FaultSound, FaultType
<1>6. FaultSound(g, stream'[s])
  BY Zenon, <1>1, <1>3, <1>5 DEF FaultSound
<1>7. Shape' /\ shared'.active = Active /\ shared'.sampling = shared.sampling
  BY Zenon, <1>2, CountSets
<1>8. f.counted <=> f.matched /\ m.up
  BY Zenon, <1>1 DEF FaultSound
<1>9. FlightInv'
  BY Zenon, <1>1, <1>3, <1>5, <1>6, <1>7, <1>8, FlightMoves
<1> QED  BY Zenon, <1>7, <1>9

-------------------------------------------------------------------------------
(* The inductive invariant. *)
FaultInv == Shape /\ SamplingInv /\ FlightInv

(* No request is in flight and no sample drawn. *)
LEMMA FaultStarts ==
    ASSUME FaultParameters, FaultInit
    PROVE  FaultInv
<1>1. /\ Opened \in StreamType /\ Closed \in StreamType /\ ~Opened.spurious /\ ~Closed.spurious
      /\ Opened.req.at = "idle" /\ Opened.up
  <2>1. Fresh \in Message /\ Fresh.at = "idle"
    BY ChunksAssumption DEF Fresh, Message
  <2> QED  BY <2>1, Zenon DEF Opened, Closed, StreamType
<1>2. CASE /\ filter \in [Streams -> FaultConfigs] /\ stream = [s \in Streams |-> Opened]
           /\ shared = Unshared
  <2>1. Shape /\ SamplingInv /\ shared.active = 0
    BY Zenon, <1>2 DEF Shape, Unshared, SamplingInv
  <2>2. \A s \in Streams : filter[s] \in FaultConfigs /\ stream[s] = Opened
    BY Zenon, <1>2
  <2>3. \A f \in FaultConfigs : FaultSound(f, Opened) /\ ~f.matched
    BY <1>1, Zenon DEF FaultConfigs, FaultSound, FaultType
  <2>4. InFlight = {}
    BY Zenon, <2>2, <2>3 DEF InFlight
  <2>5. InFlightExact
    BY <2>1, <2>4, FS_EmptySet, Zenon DEF InFlightExact, InFlight
  <2>6. Streamed
    BY Zenon, <1>1, <1>2 DEF Streamed
  <2> QED  BY Zenon, <1>1, <2>1, <2>2, <2>3, <2>5, <2>6 DEF FaultInv, FlightInv, FilterSound
<1>3. CASE /\ filter = [s \in Streams |-> Bare] /\ stream = [s \in Streams |-> Closed]
           /\ \E g \in SamplersStarted : shared = [Unshared EXCEPT !.sampling = g]
  <2>1. Shape /\ shared.sampling \in SamplersStarted /\ shared.active = 0
    BY Zenon, <1>3 DEF Shape, Unshared
  <2>2. SamplingInv
    BY Zenon, <2>1, SamplingStarts
  <2>3. \A s \in Streams : filter[s] = Bare /\ stream[s] = Closed
    BY Zenon, <1>3
  <2>4. InFlight = {}
    BY <2>3 DEF InFlight, Bare
  <2>5. InFlightExact
    BY <2>1, <2>4, FS_EmptySet, ZenonT(60) DEF InFlightExact, InFlight
  <2>6. Streamed
    BY Zenon, <1>1, <1>3 DEF Streamed
  <2> QED  BY Zenon, <1>1, <2>1, <2>2, <2>3, <2>5, <2>6 DEF FaultInv, FlightInv, FilterSound
<1> QED  BY <1>2, <1>3, Zenon DEF FaultInit

(* Every step of the filter. *)
LEMMA FaultKeeps ==
    ASSUME FaultParameters, FaultInv, [FaultNext]_vars
    PROVE  FaultInv'
<1>1. CASE SamplingStep
  <2>1. SamplingInv' /\ OnlySampling /\ stream' = stream /\ filter' = filter
    BY Zenon, <1>1, SamplingKeeps DEF FaultInv
  <2>2. FlightInv'
    BY Zenon, <2>1 DEF FaultInv, FlightInv, Streamed, InFlightExact, OnlySampling
  <2> QED  BY Zenon, <2>1, <2>2 DEF FaultInv, OnlySampling
<1>2. ASSUME NEW s \in Streams, FaultStep(s)
      PROVE  FaultInv'
  <2>1. Shape /\ FlightInv /\ SamplingInv
    BY Zenon DEF FaultInv
  <2>2. FlightInv' /\ Shape' /\ shared'.sampling = shared.sampling
    BY <1>2, <2>1, FlightLoads, FlightMatches, FlightResponds, FlightDelayed, FlightForeign,
       FlightEnds, Zenon DEF FaultStep, Shape
  <2> QED  BY Zenon, <2>1, <2>2 DEF FaultInv, SamplingInv
<1>3. CASE UNCHANGED vars
  BY Zenon, <1>3 DEF vars, FaultInv, Shape, SamplingInv, FlightInv, Streamed, InFlightExact
<1> QED  BY Zenon, <1>1, <1>2, <1>3 DEF FaultNext

(***************************************************************************)
(* activeRequests is the number of matched requests in flight, however     *)
(* many streams there are and in whatever order their workers load the     *)
(* counter, count, complete and destroy them: OnStreamComplete and         *)
(* OnDestroy together uncount a request once.                              *)
(***************************************************************************)
THEOREM CountStaysExact ==
    ASSUME FaultParameters
    PROVE  FaultSpec => []InFlightExact
<1>1. FaultInit => FaultInv
  BY Zenon, FaultStarts
<1>2. FaultInv /\ [FaultNext]_vars => FaultInv'
  BY Zenon, FaultKeeps
<1>3. FaultInv => InFlightExact
  BY DEF FaultInv, FlightInv
<1> QED  BY <1>1, <1>2, <1>3, PTL DEF FaultSpec

(***************************************************************************)
(* For any resolution, any window and any number of workers: the samplers  *)
(* use every pre-computed value of a list before they use one again, and   *)
(* return the penalty that is due.                                         *)
(***************************************************************************)
THEOREM SamplersAnswerAsDue ==
    ASSUME FaultParameters
    PROVE  FaultSpec => []SampledAsDue
<1>1. FaultInit => FaultInv
  BY Zenon, FaultStarts
<1>2. FaultInv /\ [FaultNext]_vars => FaultInv'
  BY Zenon, FaultKeeps
<1>3. FaultInv => SampledAsDue
  BY Zenon, SamplingDue DEF FaultInv, SampledAsDue
<1> QED  BY <1>1, <1>2, <1>3, PTL DEF FaultSpec

(* The goroutine that sleeps resumes or answers a response that waits. *)
THEOREM DelayedOnce ==
    ASSUME FaultParameters
    PROVE  FaultSpec => []ResumedOnce
<1>1. FaultInit => FaultInv
  BY Zenon, FaultStarts
<1>2. FaultInv /\ [FaultNext]_vars => FaultInv'
  BY Zenon, FaultKeeps
<1>3. FaultInv => ResumedOnce
  BY Zenon DEF FaultInv, FlightInv, FilterSound, ResumedOnce
<1> QED  BY <1>1, <1>2, <1>3, PTL DEF FaultSpec

===============================================================================
