------------------------------ MODULE RateLimiter ------------------------------
(***************************************************************************)
(* The fixed-window allocation rate limiter of the dns-gateway virtual-IP  *)
(* cache: VirtualIpCache::try_consume_rate_token, one action per atomic    *)
(* operation on its two counters.  Worker threads run it without a lock.   *)
(***************************************************************************)
EXTENDS Naturals, FiniteSets

CONSTANTS
    Threads,              \* Envoy worker threads calling the limiter
    MaxAllocsPerWindow,   \* limits.max_allocs_per_window
    RateWindow,           \* limits.rate_window, in clock ticks
    MaxClock              \* bound: the last tick the clock reaches

ASSUME ThreadsAssumption == IsFiniteSet(Threads)
ASSUME LimitsAssumption == MaxAllocsPerWindow \in Nat /\ RateWindow \in Nat
ASSUME ClockAssumption == MaxClock \in Nat

VARIABLES
    clock,                  \* now_ms(): the process-wide monotonic clock
    rate_window_start_ms,
    rate_window_count,
    limiter,                \* limiter[t]: where thread t is in the function
    windowGrants            \* history: tokens granted since the last window roll

rlVars == <<clock, rate_window_start_ms, rate_window_count, limiter, windowGrants>>

(* now is the caller's timestamp, start the value the thread loaded. *)
LimiterPC == {"idle", "load", "roll", "reset", "add", "saturate", "granted", "refused"}
LimiterState == [pc : LimiterPC, now : Nat, start : Nat]
LimiterIdle == [pc |-> "idle", now |-> 0, start |-> 0]

RLTypeOK ==
    /\ clock \in Nat
    /\ rate_window_start_ms \in Nat
    /\ rate_window_count \in Nat
    /\ limiter \in [Threads -> LimiterState]
    /\ windowGrants \in Nat

RLInit ==
    /\ clock = 0
    /\ rate_window_start_ms = 0
    /\ rate_window_count = 0
    /\ limiter = [t \in Threads |-> LimiterIdle]
    /\ windowGrants = 0

-------------------------------------------------------------------------------
SaturatingSub(a, b) == IF a >= b THEN a - b ELSE 0

MoveLimiter(t, pc) == limiter' = [limiter EXCEPT ![t].pc = pc]

Tick ==
    /\ clock < MaxClock
    /\ clock' = clock + 1
    /\ UNCHANGED <<rate_window_start_ms, rate_window_count, limiter, windowGrants>>

(* The call.  A zero maximum refuses everything, a zero window disables the *)
(* limiter; otherwise the thread enters the loop.                          *)
CallLimiter(t, now) ==
    limiter' = [limiter EXCEPT ![t] =
        [pc |-> IF MaxAllocsPerWindow = 0 THEN "refused"
                ELSE IF RateWindow = 0 THEN "granted" ELSE "load",
         now |-> now, start |-> 0]]

LoadWindow(t) ==
    /\ limiter[t].pc = "load"
    /\ limiter' = [limiter EXCEPT
         ![t].start = rate_window_start_ms,
         ![t].pc = IF SaturatingSub(limiter[t].now, rate_window_start_ms) >= RateWindow
                   THEN "roll" ELSE "add"]
    /\ UNCHANGED <<clock, rate_window_start_ms, rate_window_count, windowGrants>>

(* Slip: the window is moved with a plain store. *)
RollWindowNoCompare(t) ==
    /\ limiter[t].pc = "roll"
    /\ rate_window_start_ms' = limiter[t].now
    /\ windowGrants' = 1
    /\ MoveLimiter(t, "reset")
    /\ UNCHANGED <<clock, rate_window_count>>

(* Slip: a thread that lost the race retries with the start it already has. *)
RollWindowNoReload(t) ==
    /\ limiter[t].pc = "roll"
    /\ IF rate_window_start_ms = limiter[t].start
       THEN /\ rate_window_start_ms' = limiter[t].now
            /\ windowGrants' = 1
            /\ MoveLimiter(t, "reset")
       ELSE UNCHANGED <<rate_window_start_ms, windowGrants, limiter>>
    /\ UNCHANGED <<clock, rate_window_count>>

(* compare_exchange(start, now): the winner opens a new window, whose first *)
(* token is its own; a loser reads the window again.                       *)
RollWindow(t) ==
    /\ limiter[t].pc = "roll"
    /\ IF rate_window_start_ms = limiter[t].start
       THEN /\ rate_window_start_ms' = limiter[t].now
            /\ windowGrants' = 1
            /\ MoveLimiter(t, "reset")
       ELSE /\ MoveLimiter(t, "load")
            /\ UNCHANGED <<rate_window_start_ms, windowGrants>>
    /\ UNCHANGED <<clock, rate_window_count>>

ResetCount(t) ==
    /\ limiter[t].pc = "reset"
    /\ rate_window_count' = 1
    /\ MoveLimiter(t, "granted")
    /\ UNCHANGED <<clock, rate_window_start_ms, windowGrants>>

(* Slip: the budget test is off by one. *)
TakeTokenOffByOne(t) ==
    /\ limiter[t].pc = "add"
    /\ rate_window_count' = rate_window_count + 1
    /\ IF rate_window_count <= MaxAllocsPerWindow
       THEN MoveLimiter(t, "granted") /\ windowGrants' = windowGrants + 1
       ELSE MoveLimiter(t, "saturate") /\ UNCHANGED windowGrants
    /\ UNCHANGED <<clock, rate_window_start_ms>>

TakeToken(t) ==
    /\ limiter[t].pc = "add"
    /\ rate_window_count' = rate_window_count + 1
    /\ IF rate_window_count < MaxAllocsPerWindow
       THEN MoveLimiter(t, "granted") /\ windowGrants' = windowGrants + 1
       ELSE MoveLimiter(t, "saturate") /\ UNCHANGED windowGrants
    /\ UNCHANGED <<clock, rate_window_start_ms>>

(* Slip: a refused caller leaves its increment in the counter. *)
SaturateCountForgotten(t) ==
    /\ limiter[t].pc = "saturate"
    /\ MoveLimiter(t, "refused")
    /\ UNCHANGED <<clock, rate_window_start_ms, rate_window_count, windowGrants>>

SaturateCount(t) ==
    /\ limiter[t].pc = "saturate"
    /\ rate_window_count' = MaxAllocsPerWindow
    /\ MoveLimiter(t, "refused")
    /\ UNCHANGED <<clock, rate_window_start_ms, windowGrants>>

TryConsumeRateToken(t) ==
    \/ LoadWindow(t) \/ RollWindow(t) \/ ResetCount(t)
    \/ TakeToken(t) \/ SaturateCount(t)

LimiterReturned(t) == limiter[t].pc \in {"granted", "refused"}

-------------------------------------------------------------------------------
(* The limiter alone: threads call it again and again, each call with the  *)
(* clock value it read.                                                    *)
CallStep(t) ==
    /\ limiter[t].pc = "idle"
    /\ CallLimiter(t, clock)
    /\ UNCHANGED <<clock, rate_window_start_ms, rate_window_count, windowGrants>>

ReturnStep(t) ==
    /\ LimiterReturned(t)
    /\ MoveLimiter(t, "idle")
    /\ UNCHANGED <<clock, rate_window_start_ms, rate_window_count, windowGrants>>

RLNext == Tick \/ \E t \in Threads : CallStep(t) \/ TryConsumeRateToken(t) \/ ReturnStep(t)

RLSpec == RLInit /\ [][RLNext]_rlVars

(* A worker thread inside the limiter is scheduled again: it holds no lock *)
(* and nothing in the loop waits for another thread.                       *)
RLFairSpec == RLSpec /\ \A t \in Threads : WF_rlVars(TryConsumeRateToken(t))

-------------------------------------------------------------------------------
At(pc) == {t \in Threads : limiter[t].pc = pc}

(* "Avoid unbounded growth by not incrementing further": the counter passes *)
(* the maximum by at most one increment for every thread that is about to  *)
(* store the maximum back.                                                 *)
CountNeverRunsAway ==
    rate_window_count <= MaxAllocsPerWindow + Cardinality(At("saturate"))

(* The limiter only moves its window forward, by at least a full window and *)
(* never past the clock, although callers arrive with timestamps read in   *)
(* another order than the one they run in.                                 *)
WindowMovesForward ==
    [][rate_window_start_ms' # rate_window_start_ms =>
         /\ rate_window_start_ms' >= rate_window_start_ms + RateWindow
         /\ rate_window_start_ms' <= clock]_rlVars

(* How many tokens one window can hand out when the reset of the counter is *)
(* late: the rolling thread's own token, what the old count still had, and *)
(* a refill for every thread whose reset is still to come.                 *)
GrantBound ==
    1 + MaxAllocsPerWindow + Cardinality(Threads) * SaturatingSub(MaxAllocsPerWindow, 1)

(* try_consume_rate_token never grants more than that in one window. *)
GrantsBounded == windowGrants <= GrantBound

(* Every call of try_consume_rate_token returns: a thread that loses the   *)
(* compare-exchange finds a later window start and stops retrying.         *)
LimiterAnswers == \A t \in Threads : limiter[t].pc = "load" ~> LimiterReturned(t)
================================================================================
