------------------------- MODULE VirtualIpCacheProofs -------------------------
(***************************************************************************)
(* Types and ownership in VirtualIpCache.  Types are kept for any threads, *)
(* domains, shards and limits, flushes included, and the cap is passed by  *)
(* the allocations under way at most.  An address belongs to the domain it *)
(* was minted for, the two maps mirror each other, and the cache           *)
(* implements VipDirectory, for any set of ranges whose reachable          *)
(* addresses do not overlap.                                               *)
(***************************************************************************)
EXTENDS VirtualIpCache, FiniteSetTheorems, Integers, TLAPS

(* The rate limiter the cache calls keeps its types. *)
LEMMA RLTypeInit == RLInit => RLTypeOK
  BY DEF RLInit, RLTypeOK, LimiterIdle, LimiterState, LimiterPC

LEMMA RLTypeStep == RLTypeOK /\ [RLNext]_rlVars => RLTypeOK'
  <1> SUFFICES ASSUME RLTypeOK, [RLNext]_rlVars PROVE RLTypeOK'
    OBVIOUS
  <1> USE LimitsAssumption DEF RLTypeOK, LimiterState, LimiterPC
  <1>1. CASE Tick
    BY <1>1 DEF Tick
  <1>2. ASSUME NEW t \in Threads, CallStep(t) PROVE RLTypeOK'
    BY Zenon, <1>2 DEF CallStep, CallLimiter
  <1>3. ASSUME NEW t \in Threads, LoadWindow(t) PROVE RLTypeOK'
    BY <1>3 DEF LoadWindow
  <1>4. ASSUME NEW t \in Threads, RollWindow(t) PROVE RLTypeOK'
    BY <1>4 DEF RollWindow, MoveLimiter
  <1>5. ASSUME NEW t \in Threads, ResetCount(t) PROVE RLTypeOK'
    BY <1>5 DEF ResetCount, MoveLimiter
  <1>6. ASSUME NEW t \in Threads, TakeToken(t) PROVE RLTypeOK'
    BY <1>6 DEF TakeToken, MoveLimiter
  <1>7. ASSUME NEW t \in Threads, SaturateCount(t) PROVE RLTypeOK'
    BY <1>7 DEF SaturateCount, MoveLimiter
  <1>8. ASSUME NEW t \in Threads, ReturnStep(t) PROVE RLTypeOK'
    BY <1>8 DEF ReturnStep, MoveLimiter
  <1>9. CASE UNCHANGED rlVars
    BY Zenon, <1>9 DEF rlVars
  <1> QED
    BY Zenon, <1>1, <1>2, <1>3, <1>4, <1>5, <1>6, <1>7, <1>8, <1>9 DEF RLNext, TryConsumeRateToken

(* Where a thread is tells which of its fields are set. *)
ThreadShape ==
    \A t \in Threads :
        /\ threads[t].pc \in AllocatePC => threads[t].req \in Requests
        /\ threads[t].pc = "publish" => threads[t].ip \in IPs
        /\ threads[t].pc = "reverse" => threads[t].victim \in threads[t].stale
        /\ threads[t].ret # None => threads[t].req \in Requests

TypeInv == TypeOK /\ ThreadShape

LEMMA RequestParts ==
    ASSUME NEW r \in Requests
    PROVE  /\ r.domain \in Domains /\ r.cidr \in Cidrs /\ r.metadata \in Metadata
           /\ r.cidr.v6 \in BOOLEAN /\ r.cidr.base \in Nat
           /\ KeyOf(r) \in Keys
  <1>1. r.domain \in Domains /\ r.cidr \in Cidrs /\ r.metadata \in Metadata
    BY Zenon, RequestAssumption
  <1>2. r.cidr.v6 \in BOOLEAN /\ r.cidr.base \in Nat
    BY Zenon, <1>1, CidrAssumption DEF ValidCidr
  <1> QED
    BY Zenon, <1>1, <1>2 DEF KeyOf, Keys

LEMMA IpAddType ==
    ASSUME NEW c \in Cidrs, NEW n \in Nat
    PROVE  /\ IpAdd(c, n) \in IPs \cup {None}
           /\ IpAdd(c, n) # None => IpAdd(c, n) = <<c.v6, c.base + n>>
  <1>1. c.v6 \in BOOLEAN /\ c.base \in Nat
    BY Zenon, CidrAssumption DEF ValidCidr
  <1>2. c.base + n \in Nat
    BY <1>1
  <1> QED
    BY <1>1, <1>2, WidthAssumption DEF IpAdd, IPs, Width

LEMMA CapacityType ==
    ASSUME NEW c \in Cidrs
    PROVE  Capacity(c) \in Int
  <1>1. Width(c.v6) \in Nat /\ c.prefix \in 1 .. Width(c.v6)
    BY Zenon, CidrAssumption, WidthAssumption DEF ValidCidr, Width
  <1>2. Width(c.v6) - c.prefix \in Nat
    BY <1>1
  <1>3. \A w \in Nat : 2 ^ w \in Int
    OBVIOUS
  <1> QED
    BY <1>2, <1>3, WidthAssumption DEF Capacity

LEMMA VictimParts ==
    ASSUME NEW v \in Victims
    PROVE  v = <<v[1], v[2]>> /\ v[1] \in IPs /\ v[2] \in Keys
  BY DEF Victims

-------------------------------------------------------------------------------
LEMMA RLTypeUnchanged == RLTypeOK /\ UNCHANGED rlVars => RLTypeOK'
  BY Zenon DEF RLTypeOK, rlVars

LEMMA RefreshedType ==
    ASSUME TypeOK, NEW ip \in IPs, NEW now \in Nat
    PROVE  Refreshed(ip, now) \in [IPs -> Entry \cup {None}]
  BY NoneAssumption DEF TypeOK, Refreshed, Entry

LEMMA TypeInit == Init => TypeInv
  <1> SUFFICES ASSUME Init PROVE TypeInv
    OBVIOUS
  <1>1. RLTypeOK
    BY Zenon, RLTypeInit DEF Init
  <1>2. TypeOK
    BY Zenon, <1>1 DEF Init, TypeOK, ThreadState, ThreadIdle
  <1>3. ThreadShape
    BY Zenon DEF Init, ThreadShape, ThreadIdle, AllocatePC
  <1> QED
    BY Zenon, <1>2, <1>3 DEF TypeInv

(* What Return and EvictNext leave behind is well typed and well shaped. *)
LEMMA ReturnType ==
    ASSUME TypeInv, NEW t \in Threads, NEW ip \in IPs \cup {None}, Return(t, ip),
           ip # None => threads[t].req \in Requests
    PROVE  threads' \in [Threads -> ThreadState] /\ ThreadShape'
  BY ZenonT(30) DEF TypeInv, TypeOK, ThreadShape, ThreadState, ThreadIdle, Return, AllocatePC

LEMMA GotoType ==
    ASSUME TypeInv, NEW t \in Threads,
           NEW pc \in {"token", "cap", "scan", "recheck", "entry", "mint"}, Goto(t, pc),
           threads[t].req \in Requests
    PROVE  threads' \in [Threads -> ThreadState] /\ ThreadShape'
  <1>1. threads \in [Threads -> ThreadState] /\ threads' = [threads EXCEPT ![t].pc = pc]
    BY Zenon DEF TypeInv, TypeOK, Goto
  <1> QED
    BY <1>1 DEF TypeInv, ThreadShape, ThreadState, AllocatePC, EvictPC

(* EvictNext goes on with the next pair, or back to allocate_at. *)
LEMMA EvictNextGoesOn ==
    ASSUME TypeInv, NEW t \in Threads, NEW stale \in SUBSET Victims, EvictNext(t, stale),
           ~(stale = {} /\ threads[t].req = None)
    PROVE  \E w \in ThreadState :
             /\ threads' = [threads EXCEPT ![t] = w]
             /\ w.req = threads[t].req /\ w.ret = threads[t].ret /\ w.stale = stale
             /\ w.pc = IF stale = {} THEN "recheck" ELSE "forward"
  <1> DEFINE pc == IF stale = {} THEN "recheck" ELSE "forward"
             w == [threads[t] EXCEPT !.pc = pc, !.stale = stale, !.victim = None]
  <1>1. threads[t] \in ThreadState /\ threads \in [Threads -> ThreadState]
    BY Zenon DEF TypeInv, TypeOK
  <1>2. threads' = [threads EXCEPT ![t] = w]
    BY ZenonT(30), <1>1 DEF EvictNext, ThreadState
  <1>3. /\ w \in ThreadState /\ w.ret = threads[t].ret /\ w.req = threads[t].req
        /\ w.stale = stale /\ w.pc = pc
    BY ZenonT(60), <1>1 DEF ThreadState, AllocatePC, EvictPC
  <1> HIDE DEF w
  <1> QED
    BY ZenonT(30), <1>2, <1>3

LEMMA EvictNextType ==
    ASSUME TypeInv, NEW t \in Threads, NEW stale \in SUBSET Victims, EvictNext(t, stale)
    PROVE  threads' \in [Threads -> ThreadState] /\ ThreadShape'
  <1>1. CASE stale = {} /\ threads[t].req = None
    BY Zenon, <1>1, ReturnType DEF EvictNext
  <1>2. CASE ~(stale = {} /\ threads[t].req = None)
    <2>1. PICK w \in ThreadState :
             /\ threads' = [threads EXCEPT ![t] = w]
             /\ w.req = threads[t].req /\ w.ret = threads[t].ret /\ w.stale = stale
             /\ w.pc = IF stale = {} THEN "recheck" ELSE "forward"
      BY <1>2, EvictNextGoesOn
    <2>2. threads[t].req \in Requests \cup {None}
      BY Zenon DEF TypeInv, TypeOK, ThreadState
    <2> QED
      BY Zenon, <1>2, <2>1, <2>2 DEF TypeInv, TypeOK, ThreadShape, AllocatePC
  <1> QED
    BY Zenon, <1>1, <1>2

LEMMA ThreadParts ==
    ASSUME TypeInv, NEW t \in Threads
    PROVE  /\ threads[t] \in ThreadState /\ threads[t].now \in Nat
           /\ threads[t].req \in Requests \cup {None}
           /\ threads[t].stale \in SUBSET Victims
           /\ threads[t].victim \in Victims \cup {None}
           /\ threads[t].ip \in IPs \cup {None}
           /\ threads[t].ret \in IPs \cup {None}
           /\ threads[t].pc \in AllocatePC => threads[t].req \in Requests
  BY Zenon DEF TypeInv, TypeOK, ThreadShape, ThreadState

LEMMA MintType ==
    ASSUME TypeInv, NEW t \in Threads, Mint(t)
    PROVE  TypeInv'
  <1> DEFINE r == threads[t].req
             c == r.cidr
             n == offsets[c]
             ip == IpAdd(c, n)
  <1>1. /\ r \in Requests /\ c \in Cidrs /\ Key(t) \in Keys
        /\ r.domain \in Domains /\ r.metadata \in Metadata
    BY Zenon, ThreadParts, RequestParts DEF Mint, AllocatePC, Key
  <1>2. n \in Nat /\ ip \in IPs \cup {None} /\ threads[t].now \in Nat
    BY Zenon, <1>1, IpAddType, ThreadParts DEF TypeInv, TypeOK
  <1>3. RLTypeOK' /\ domain_to_ip' \in [Keys -> IPs \cup {None}]
    BY Zenon, RLTypeUnchanged DEF Mint, TypeInv, TypeOK
  <1>4. offsets' \in [Cidrs -> Nat]
    BY <1>1, <1>2 DEF Mint, TypeInv, TypeOK
  <1>5. CASE n < Capacity(c) /\ ip # None
    <2> DEFINE e == [domain |-> r.domain, metadata |-> r.metadata,
                     last_used |-> threads[t].now]
               w == [threads[t] EXCEPT !.pc = "publish", !.ip = ip]
    <2>1. e \in Entry /\ ip \in IPs
      BY Zenon, <1>1, <1>2, <1>5 DEF Entry
    <2>2. /\ ip_to_dest' = [ip_to_dest EXCEPT ![ip] = e]
          /\ owner' = [owner EXCEPT ![ip] = Key(t)]
          /\ threads' = [threads EXCEPT ![t] = w]
      BY ZenonT(30), <1>5, ThreadParts DEF Mint, TypeInv, TypeOK, ThreadState
    <2>3. /\ w \in ThreadState /\ w.pc = "publish" /\ w.ip = ip
          /\ w.req = r
      BY ZenonT(30), <2>1, ThreadParts DEF ThreadState, AllocatePC
    <2> HIDE DEF e, w, r, ip
    <2>4. /\ ip_to_dest' \in [IPs -> Entry \cup {None}]
          /\ owner' \in [IPs -> Keys \cup {None}]
          /\ threads' \in [Threads -> ThreadState]
      BY Zenon, <1>1, <2>1, <2>2, <2>3 DEF TypeInv, TypeOK
    <2>5. ThreadShape'
      BY Zenon, <1>1, <2>1, <2>2, <2>3 DEF TypeInv, TypeOK, ThreadShape
    <2> QED
      BY Zenon, <1>3, <1>4, <2>4, <2>5 DEF TypeInv, TypeOK
  <1>6. CASE ~(n < Capacity(c) /\ ip # None)
    <2>1. Return(t, None) /\ UNCHANGED <<ip_to_dest, owner>>
      BY Zenon, <1>6 DEF Mint
    <2>2. threads' \in [Threads -> ThreadState] /\ ThreadShape'
      BY Zenon, <2>1, ReturnType
    <2> QED
      BY Zenon, <1>3, <1>4, <2>1, <2>2 DEF TypeInv, TypeOK
  <1> QED
    BY Zenon, <1>5, <1>6

LEMMA StaleType ==
    ASSUME TypeInv, NEW t \in Threads
    PROVE  {<<ip, <<ip_to_dest[ip].domain, ip[1]>>>> :
              ip \in {i \in Live : Idle(i, threads[t].now)}} \in SUBSET Victims
  <1> SUFFICES ASSUME NEW ip \in Live
               PROVE  <<ip, <<ip_to_dest[ip].domain, ip[1]>>>> \in Victims
    OBVIOUS
  <1>1. ip \in IPs /\ ip_to_dest[ip] \in Entry
    BY Zenon DEF Live, TypeInv, TypeOK
  <1>2. ip_to_dest[ip].domain \in Domains /\ ip[1] \in BOOLEAN
    BY Zenon, <1>1 DEF Entry, IPs
  <1> QED
    BY Zenon, <1>1, <1>2 DEF Victims, Keys

(* Every step of the cache, flush included, keeps the types. *)
LEMMA TypeStep == TypeInv /\ [FlushNext]_vars => TypeInv'
  <1> SUFFICES ASSUME TypeInv, [FlushNext]_vars PROVE TypeInv'
    OBVIOUS
  <1> DEFINE Shaped == threads' \in [Threads -> ThreadState] /\ ThreadShape'
  <1>r. UNCHANGED rlVars => RLTypeOK'
    BY Zenon, RLTypeUnchanged DEF TypeInv, TypeOK
  <1>n. ASSUME NEW t \in Threads, RLNext, UNCHANGED cacheVars PROVE TypeInv'
    <2>1. RLTypeOK'
      BY Zenon, <1>n, RLTypeStep DEF TypeInv, TypeOK
    <2> QED
      BY Zenon, <1>n, <2>1 DEF cacheVars, TypeInv, TypeOK, ThreadShape
  <1>1. CASE CacheTick
    <2>1. RLTypeOK'
      BY Zenon, <1>1, RLTypeStep DEF TypeInv, TypeOK, CacheTick, RLNext
    <2> QED
      BY Zenon, <1>1, <2>1 DEF CacheTick, cacheVars, TypeInv, TypeOK, ThreadShape
  <1>2. ASSUME NEW ip \in IPs, Lookup(ip) PROVE TypeInv'
    <2>1. clock \in Nat
      BY Zenon DEF TypeInv, TypeOK, RLTypeOK
    <2>2. ip_to_dest' \in [IPs -> Entry \cup {None}]
      BY Zenon, <1>2, <2>1, RefreshedType DEF Lookup, TypeInv
    <2> QED
      BY Zenon, <1>2, <1>r, <2>2 DEF Lookup, TypeInv, TypeOK, ThreadShape
  <1>3. ASSUME NEW t \in Threads, Allocate(t) PROVE TypeInv'
    <2>1. clock \in Nat
      BY Zenon DEF TypeInv, TypeOK, RLTypeOK
    <2>2. PICK r \in Requests :
            threads' = [threads EXCEPT ![t] =
                          [ThreadIdle EXCEPT !.pc = "fast", !.req = r, !.now = clock]]
      BY ZenonT(30), <1>3 DEF Allocate
    <2> DEFINE w == [ThreadIdle EXCEPT !.pc = "fast", !.req = r, !.now = clock]
    <2>3. w \in ThreadState /\ w.pc = "fast" /\ w.req = r /\ w.ret = None
      BY ZenonT(30), <2>1 DEF ThreadState, ThreadIdle, AllocatePC
    <2>4. threads' = [threads EXCEPT ![t] = w]
      BY Zenon, <2>2
    <2> HIDE DEF w
    <2>5. Shaped
      BY Zenon, <2>3, <2>4 DEF TypeInv, TypeOK, ThreadShape
    <2> QED
      BY Zenon, <1>3, <1>r, <2>5 DEF Allocate, TypeInv, TypeOK
  <1>4. ASSUME NEW t \in Threads, FastPath(t) PROVE TypeInv'
    <2> DEFINE ip == domain_to_ip[Key(t)]
    <2>1. /\ threads[t].req \in Requests /\ threads[t].now \in Nat
          /\ ip \in IPs \cup {None}
      BY Zenon, <1>4, ThreadParts, RequestParts DEF FastPath, AllocatePC, Key, TypeInv, TypeOK
    <2>2. CASE ip # None
      <3>1. Shaped
        BY Zenon, <1>4, <2>1, <2>2, ReturnType DEF FastPath
      <3>2. ip_to_dest' \in [IPs -> Entry \cup {None}]
        BY <1>4, <2>1, <2>2, RefreshedType DEF FastPath, TypeInv
      <3> QED
        BY Zenon, <1>4, <1>r, <2>2, <3>1, <3>2 DEF FastPath, TypeInv, TypeOK, rlVars
    <2>3. CASE ip = None
      <3>1. Shaped
        BY Zenon, <1>4, <2>1, <2>3, GotoType DEF FastPath
      <3>2. RLTypeOK'
        BY <1>4, <2>1, <2>3
           DEF FastPath, CallLimiter, TypeInv, TypeOK, RLTypeOK, LimiterState, LimiterPC
      <3> QED
        BY Zenon, <1>4, <2>3, <3>1, <3>2 DEF FastPath, TypeInv, TypeOK
    <2> QED
      BY Zenon, <2>2, <2>3
  <1>5. ASSUME NEW t \in Threads, LimiterStep(t) PROVE TypeInv'
    BY Zenon, <1>5, <1>n DEF LimiterStep, RLNext
  <1>6. ASSUME NEW t \in Threads, RateChecked(t) PROVE TypeInv'
    <2>1. threads[t].req \in Requests
      BY Zenon, <1>6, ThreadParts DEF RateChecked, AllocatePC
    <2>2. Shaped
      BY Zenon, <1>6, <2>1, GotoType, ReturnType DEF RateChecked
    <2>3. RLTypeOK'
      BY Zenon, <1>6 DEF RateChecked, LimiterIdle, TypeInv, TypeOK, RLTypeOK, LimiterState, LimiterPC
    <2> QED
      BY Zenon, <1>6, <2>2, <2>3 DEF RateChecked, TypeInv, TypeOK
  <1>7. ASSUME NEW t \in Threads, CapCheck(t) PROVE TypeInv'
    <2>1. threads[t].req \in Requests
      BY Zenon, <1>7, ThreadParts DEF CapCheck, AllocatePC
    <2>2. Shaped
      BY Zenon, <1>7, <2>1, GotoType DEF CapCheck
    <2> QED
      BY Zenon, <1>7, <1>r, <2>2 DEF CapCheck, TypeInv, TypeOK
  <1>8. ASSUME NEW t \in Threads, CapRecheck(t) PROVE TypeInv'
    <2>1. threads[t].req \in Requests
      BY Zenon, <1>8, ThreadParts DEF CapRecheck, AllocatePC
    <2>2. Shaped
      BY Zenon, <1>8, <2>1, GotoType, ReturnType DEF CapRecheck
    <2> QED
      BY Zenon, <1>8, <1>r, <2>2 DEF CapRecheck, TypeInv, TypeOK
  <1>9. ASSUME NEW t \in Threads, TakeEntry(t) PROVE TypeInv'
    <2> DEFINE ip == domain_to_ip[Key(t)]
    <2>1. /\ threads[t].req \in Requests /\ threads[t].now \in Nat
          /\ ip \in IPs \cup {None}
      BY Zenon, <1>9, ThreadParts, RequestParts DEF TakeEntry, AllocatePC, Key, TypeInv, TypeOK
    <2>2. Shaped
      BY Zenon, <1>9, <2>1, ReturnType, GotoType DEF TakeEntry
    <2>3. ip_to_dest' \in [IPs -> Entry \cup {None}]
      BY <1>9, <2>1, RefreshedType DEF TakeEntry, TypeInv, TypeOK
    <2> QED
      BY Zenon, <1>9, <1>r, <2>2, <2>3 DEF TakeEntry, TypeInv, TypeOK
  <1>10. ASSUME NEW t \in Threads, Mint(t) PROVE TypeInv'
    BY Zenon, <1>10, MintType
  <1>11. ASSUME NEW t \in Threads, Publish(t) PROVE TypeInv'
    <2>1. threads[t].ip \in IPs /\ threads[t].req \in Requests /\ Key(t) \in Keys
      BY Zenon, <1>11, ThreadParts, RequestParts DEF Publish, AllocatePC, Key, TypeInv, ThreadShape
    <2>2. Shaped
      BY Zenon, <1>11, <2>1, ReturnType DEF Publish
    <2> QED
      BY Zenon, <1>11, <1>r, <2>1, <2>2 DEF Publish, TypeInv, TypeOK
  <1>12. ASSUME NEW t \in Threads, EvictCall(t) PROVE TypeInv'
    <2>1. clock \in Nat
      BY Zenon DEF TypeInv, TypeOK, RLTypeOK
    <2>2. Shaped
      BY ZenonT(30), <1>12, <2>1 DEF EvictCall, TypeInv, TypeOK, ThreadShape, ThreadState, ThreadIdle,
                         AllocatePC, EvictPC
    <2> QED
      BY Zenon, <1>12, <1>r, <2>2 DEF EvictCall, TypeInv, TypeOK
  <1>13. ASSUME NEW t \in Threads, EvictScan(t) PROVE TypeInv'
    <2>1. Shaped
      BY Zenon, <1>13, StaleType, EvictNextType DEF EvictScan
    <2> QED
      BY Zenon, <1>13, <1>r, <2>1 DEF EvictScan, TypeInv, TypeOK
  <1>14. ASSUME NEW t \in Threads, EvictForward(t) PROVE TypeInv'
    <2>1. PICK v \in threads[t].stale :
            /\ ip_to_dest' = [ip_to_dest EXCEPT ![v[1]] = None]
            /\ threads' = [threads EXCEPT ![t].pc = "reverse", ![t].victim = v]
      BY ZenonT(30), <1>14 DEF EvictForward
    <2>2. v \in Victims
      BY Zenon, ThreadParts
    <2> DEFINE w == [threads[t] EXCEPT !.pc = "reverse", !.victim = v]
    <2>3. /\ w \in ThreadState /\ w.pc = "reverse" /\ w.victim = v
          /\ w.stale = threads[t].stale /\ w.ret = threads[t].ret /\ w.req = threads[t].req
      BY ZenonT(30), <2>2, ThreadParts DEF ThreadState, EvictPC
    <2>4. threads' = [threads EXCEPT ![t] = w]
      BY ZenonT(30), <2>1, ThreadParts DEF TypeInv, TypeOK, ThreadState
    <2> HIDE DEF w
    <2>5. Shaped
      BY Zenon, <2>3, <2>4 DEF TypeInv, TypeOK, ThreadShape, AllocatePC
    <2>6. ip_to_dest' \in [IPs -> Entry \cup {None}]
      BY Zenon, <2>1, <2>2, VictimParts DEF TypeInv, TypeOK
    <2> QED
      BY Zenon, <1>14, <1>r, <2>5, <2>6 DEF EvictForward, TypeInv, TypeOK
  <1>15. ASSUME NEW t \in Threads, EvictReverse(t) PROVE TypeInv'
    <2> DEFINE v == threads[t].victim
    <2>1. v \in Victims /\ threads[t].stale \ {v} \in SUBSET Victims
      BY Zenon, <1>15, ThreadParts DEF EvictReverse, TypeInv, ThreadShape
    <2>2. Shaped
      BY Zenon, <1>15, <2>1, EvictNextType DEF EvictReverse
    <2>3. domain_to_ip' \in [Keys -> IPs \cup {None}]
      BY Zenon, <1>15, <2>1, VictimParts DEF EvictReverse, TypeInv, TypeOK
    <2> QED
      BY Zenon, <1>15, <1>r, <2>2, <2>3 DEF EvictReverse, TypeInv, TypeOK
  <1>16. ASSUME NEW t \in Threads, FlushCall(t) PROVE TypeInv'
    <2>1. Shaped
      BY ZenonT(30), <1>16 DEF FlushCall, TypeInv, TypeOK, ThreadShape, ThreadState, ThreadIdle,
                   AllocatePC, FlushPC
    <2> QED
      BY Zenon, <1>16, <1>r, <2>1 DEF FlushCall, TypeInv, TypeOK
  <1>17. ASSUME NEW t \in Threads, FlushStep(t) PROVE TypeInv'
    <2>1. CASE FlushCount(t)
      <3>1. Shaped
        BY Zenon, <2>1, ReturnType DEF FlushCount
      <3>2. RLTypeOK'
        <4>1. RLTypeOK
          BY Zenon DEF TypeInv, TypeOK
        <4> QED
          BY Zenon, <2>1, <4>1 DEF FlushCount, RLTypeOK
      <3> QED
        BY ZenonT(30), <2>1, <3>1, <3>2 DEF FlushCount, TypeInv, TypeOK
    <2>a. FlushStart(t) => RLTypeOK'
      <3>1. RLTypeOK
        BY Zenon DEF TypeInv, TypeOK
      <3> QED
        BY <3>1 DEF FlushStart, RLTypeOK
    <2> USE DEF Goto, TypeInv, TypeOK, ThreadShape, ThreadState, AllocatePC, FlushPC
    <2>2. CASE FlushForward(t)
      BY <1>r, <2>2 DEF FlushForward
    <2>3. CASE FlushReverse(t)
      BY <1>r, <2>3 DEF FlushReverse
    <2>4. CASE FlushOffsets(t)
      BY SMTT(60), <1>r, <2>4 DEF FlushOffsets
    <2>5. CASE FlushStart(t)
      BY <2>5, <2>a, SMTT(60) DEF FlushStart
    <2> QED
      BY Zenon, <1>17, <2>1, <2>2, <2>3, <2>4, <2>5 DEF FlushStep
  <1>18. CASE UNCHANGED vars
    BY Zenon, <1>18, <1>r DEF vars, cacheVars, TypeInv, TypeOK, ThreadShape
  <1> QED
    BY Zenon, <1>1, <1>2, <1>3, <1>4, <1>5, <1>6, <1>7, <1>8, <1>9, <1>10, <1>11, <1>12,
       <1>13, <1>14, <1>15, <1>16, <1>17, <1>18
       DEF FlushNext, Next, AllocateStep, EvictStep

(* The cache stays well typed, whether or not it is flushed. *)
THEOREM TypeCorrect == FlushSpec => []TypeOK
  <1>1. TypeInv => TypeOK
    BY Zenon DEF TypeInv
  <1> QED
    BY <1>1, TypeInit, TypeStep, PTL DEF FlushSpec

-------------------------------------------------------------------------------
(* Ownership.  An address that was minted lies below the counter of a range, *)
(* so the counter's next address is a new one; every entry, mapping, result *)
(* and collected victim then names the key the address was minted for.     *)
Counted ==
    \A ip \in IPs : owner[ip] # None =>
        \E c \in Cidrs, n \in Nat : /\ n < offsets[c] /\ n < Capacity(c)
                                    /\ ip = IpAdd(c, n)
LiveOwned == \A ip \in Live : owner[ip] = <<ip_to_dest[ip].domain, ip[1]>>
MapOwned == \A k \in Keys : domain_to_ip[k] # None => owner[domain_to_ip[k]] = k
Owns(t) ==
    /\ threads[t].ret # None => owner[threads[t].ret] = Key(t)
    /\ threads[t].pc = "publish" => owner[threads[t].ip] = Key(t)
    /\ \A v \in threads[t].stale : owner[v[1]] = v[2]
OwnInv == Counted /\ LiveOwned /\ MapOwned /\ \A t \in Threads : Owns(t)

LEMMA OwnInit == Init => OwnInv
  BY DEF Init, OwnInv, Counted, LiveOwned, MapOwned, Owns, Live, ThreadIdle

(* The counter of a range stands at an address nobody was given. *)
LEMMA NextAddressIsFresh ==
    ASSUME TypeInv, OwnInv, RangesDisjoint, NEW c \in Cidrs,
           offsets[c] < Capacity(c), IpAdd(c, offsets[c]) # None
    PROVE  owner[IpAdd(c, offsets[c])] = None
  <1> DEFINE ip == IpAdd(c, offsets[c])
  <1>1. offsets[c] \in Nat
    BY Zenon DEF TypeInv, TypeOK
  <1>2. ip \in IPs
    BY Zenon, <1>1, IpAddType
  <1>3. ASSUME owner[ip] # None PROVE FALSE
    <2>1. PICK d \in Cidrs, n \in Nat : n < offsets[d] /\ n < Capacity(d) /\ ip = IpAdd(d, n)
      BY Zenon, <1>2, <1>3 DEF OwnInv, Counted
    <2>2. CASE d = c
      <3>1. IpAdd(c, n) = <<c.v6, c.base + n>> /\ ip = <<c.v6, c.base + offsets[c]>>
        BY Zenon, <1>1, <2>1, <2>2, IpAddType
      <3>2. c.base \in Nat
        BY Zenon, CidrAssumption DEF ValidCidr
      <3> QED
        BY <1>1, <2>1, <2>2, <3>1, <3>2
    <2>3. CASE d # c
      <3>1. \A m \in Int, k \in Nat : k < m => k \in 0 .. m - 1
        OBVIOUS
      <3>2. offsets[c] \in 0 .. Capacity(c) - 1 /\ n \in 0 .. Capacity(d) - 1
        BY Zenon, <1>1, <2>1, <3>1, CapacityType
      <3>3. ip \in Reachable(c) /\ ip \in Reachable(d)
        BY Zenon, <2>1, <3>2 DEF Reachable
      <3> QED
        BY Zenon, <2>3, <3>3 DEF RangesDisjoint
    <2> QED
      BY Zenon, <2>2, <2>3
  <1> QED
    BY Zenon, <1>3

(* A refresh changes no domain and neither adds nor removes an entry. *)
LEMMA RefreshKeeps ==
    ASSUME TypeInv, NEW ip \in IPs, NEW now \in Nat, ip_to_dest' = Refreshed(ip, now)
    PROVE  /\ Live' = Live
           /\ \A i \in Live : ip_to_dest'[i].domain = ip_to_dest[i].domain
  <1>1. CASE ip_to_dest[ip] = None
    BY Zenon, <1>1 DEF Refreshed, Live
  <1>2. CASE ip_to_dest[ip] # None
    <2> DEFINE e == [ip_to_dest[ip] EXCEPT !.last_used = now]
    <2>1. ip_to_dest \in [IPs -> Entry \cup {None}] /\ ip_to_dest[ip] \in Entry
      BY Zenon, <1>2 DEF TypeInv, TypeOK
    <2>2. e \in Entry /\ e.domain = ip_to_dest[ip].domain
      BY Zenon, <2>1 DEF Entry
    <2>3. e # None
      BY Zenon, <2>2, NoneAssumption
    <2>4. ip_to_dest' = [ip_to_dest EXCEPT ![ip] = e]
      BY Zenon, <1>2, <2>1 DEF Refreshed, Entry
    <2> HIDE DEF e
    <2> QED
      BY Zenon, <1>2, <2>1, <2>2, <2>3, <2>4 DEF Live
  <1> QED
    BY Zenon, <1>1, <1>2

(* Steps that mint nothing: entries and mappings only disappear. *)
LEMMA OwnKept ==
    ASSUME OwnInv, NEW t \in Threads,
           UNCHANGED <<owner, offsets>>,
           Live' \subseteq Live,
           \A i \in Live' : ip_to_dest'[i].domain = ip_to_dest[i].domain,
           \A k \in Keys : domain_to_ip'[k] \in {None, domain_to_ip[k]},
           \A u \in Threads \ {t} : threads'[u] = threads[u],
           Owns(t)'
    PROVE  OwnInv'
  <1>1. Counted'
    BY Zenon DEF OwnInv, Counted
  <1>2. LiveOwned' /\ MapOwned'
    BY Zenon DEF OwnInv, LiveOwned, MapOwned
  <1>3. \A u \in Threads \ {t} : Owns(u)'
    BY DEF OwnInv, Owns, Key
  <1> QED
    BY Zenon, <1>1, <1>2, <1>3 DEF OwnInv

LEMMA ReturnOwns ==
    ASSUME TypeInv, NEW t \in Threads, NEW ip \in IPs \cup {None}, Return(t, ip),
           UNCHANGED owner, ip # None => owner[ip] = Key(t)
    PROVE  /\ Owns(t)'
           /\ \A u \in Threads \ {t} : threads'[u] = threads[u]
  <1>1. threads'[t] = [ThreadIdle EXCEPT !.req = threads[t].req, !.ret = ip]
    BY Zenon DEF Return, TypeInv, TypeOK
  <1>2. /\ threads'[t].req = threads[t].req /\ threads'[t].ret = ip
        /\ threads'[t].pc = "idle" /\ threads'[t].stale = {}
    BY Zenon, <1>1 DEF ThreadIdle
  <1> QED
    BY <1>2 DEF Return, Owns, Key

LEMMA GotoOwns ==
    ASSUME TypeInv, OwnInv, NEW t \in Threads, NEW pc, pc # "publish", Goto(t, pc),
           UNCHANGED owner
    PROVE  /\ Owns(t)'
           /\ \A u \in Threads \ {t} : threads'[u] = threads[u]
  <1>1. /\ threads'[t].req = threads[t].req /\ threads'[t].ret = threads[t].ret
        /\ threads'[t].pc = pc /\ threads'[t].stale = threads[t].stale
    BY DEF Goto, TypeInv, TypeOK, ThreadState
  <1> QED
    BY <1>1 DEF Goto, OwnInv, Owns, Key

LEMMA EvictNextOwns ==
    ASSUME TypeInv, OwnInv, NEW t \in Threads, NEW stale \in SUBSET Victims,
           EvictNext(t, stale), UNCHANGED owner, \A v \in stale : owner[v[1]] = v[2]
    PROVE  /\ Owns(t)'
           /\ \A u \in Threads \ {t} : threads'[u] = threads[u]
  <1>1. CASE stale = {} /\ threads[t].req = None
    BY Zenon, <1>1, ReturnOwns DEF EvictNext
  <1>2. CASE ~(stale = {} /\ threads[t].req = None)
    <2>1. PICK w \in ThreadState :
             /\ threads' = [threads EXCEPT ![t] = w]
             /\ w.req = threads[t].req /\ w.ret = threads[t].ret /\ w.stale = stale
             /\ w.pc = IF stale = {} THEN "recheck" ELSE "forward"
      BY <1>2, EvictNextGoesOn
    <2>2. threads'[t] = w /\ w.pc # "publish"
      BY Zenon, <2>1 DEF TypeInv, TypeOK
    <2> QED
      BY <2>1, <2>2 DEF OwnInv, Owns, Key
  <1> QED
    BY Zenon, <1>1, <1>2

(* Minting takes the counter's address, which is fresh, and only moves the *)
(* counter up.                                                             *)
LEMMA MintOwns ==
    ASSUME TypeInv, OwnInv, RangesDisjoint, NEW t \in Threads, Mint(t)
    PROVE  /\ OwnInv'
           /\ \A ip \in IPs : owner[ip] # None => owner'[ip] = owner[ip]
  <1> DEFINE r == threads[t].req
             c == r.cidr
             n == offsets[c]
             ip == IpAdd(c, n)
  <1>1. /\ r \in Requests /\ c \in Cidrs /\ Key(t) \in Keys
        /\ r.domain \in Domains /\ r.metadata \in Metadata
    BY Zenon, ThreadParts, RequestParts DEF Mint, AllocatePC, Key
  <1>2. n \in Nat /\ ip \in IPs \cup {None}
    BY Zenon, <1>1, IpAddType DEF TypeInv, TypeOK
  <1>3. offsets' = IF n < Capacity(c) THEN [offsets EXCEPT ![c] = n + 1] ELSE offsets
    BY Zenon DEF Mint
  <1>4. \A d \in Cidrs, m \in Nat : m < offsets[d] => m < offsets'[d]
    BY SMTT(30), <1>1, <1>2, <1>3 DEF TypeInv, TypeOK
  <1>5. CASE n < Capacity(c) /\ ip # None
    <2> DEFINE e == [domain |-> r.domain, metadata |-> r.metadata,
                     last_used |-> threads[t].now]
               w == [threads[t] EXCEPT !.pc = "publish", !.ip = ip]
    <2>1. /\ ip_to_dest' = [ip_to_dest EXCEPT ![ip] = e]
          /\ owner' = [owner EXCEPT ![ip] = Key(t)]
          /\ threads' = [threads EXCEPT ![t] = w]
          /\ domain_to_ip' = domain_to_ip
      BY ZenonT(30), <1>5, ThreadParts DEF Mint, TypeInv, TypeOK, ThreadState
    <2>2. ip \in IPs /\ owner[ip] = None /\ ip = <<c.v6, c.base + n>>
      BY ZenonT(30), <1>1, <1>2, <1>5, NextAddressIsFresh, IpAddType
    <2>3. \A i \in IPs : owner[i] # None => owner'[i] = owner[i]
      BY Zenon, <2>1, <2>2 DEF TypeInv, TypeOK
    <2>4. Counted'
      <3> SUFFICES ASSUME NEW i \in IPs, owner'[i] # None
                   PROVE  \E d \in Cidrs, m \in Nat :
                             m < offsets'[d] /\ m < Capacity(d) /\ i = IpAdd(d, m)
        BY Zenon DEF Counted, Capacity, IpAdd, Width
      <3>1. CASE i = ip
        <4>1. n < offsets'[c]
          BY SMTT(30), <1>1, <1>2, <1>3, <1>5 DEF TypeInv, TypeOK
        <4> QED
          BY Zenon, <1>1, <1>2, <1>5, <3>1, <4>1
      <3>2. CASE i # ip
        <4>1. owner[i] # None
          BY Zenon, <2>1, <2>2, <3>2 DEF TypeInv, TypeOK
        <4> QED
          BY Zenon, <1>4, <4>1 DEF OwnInv, Counted
      <3> QED
        BY Zenon, <3>1, <3>2
    <2>5. Key(t) = <<e.domain, ip[1]>> /\ Key(t) # None /\ e # None
      <3>1. Key(t) = <<r.domain, c.v6>>
        BY Zenon DEF Key, KeyOf
      <3>2. ip[1] = c.v6
        BY <2>2
      <3>3. e \in Entry
        BY Zenon, <1>1, ThreadParts DEF Entry
      <3> QED
        BY Zenon, <1>1, <3>1, <3>2, <3>3, NoneAssumption
    <2>6. w.pc = "publish" /\ w.ip = ip /\ w.req = r /\ w.ret = threads[t].ret
          /\ w.stale = threads[t].stale
      BY Zenon, ThreadParts DEF ThreadState
    <2> HIDE DEF e, w, ip
    <2>7. LiveOwned'
      BY ZenonT(30), <2>1, <2>2, <2>3, <2>5 DEF OwnInv, LiveOwned, Live, TypeInv, TypeOK
    <2>8. MapOwned'
      BY <2>1, <2>3, NoneAssumption DEF OwnInv, MapOwned, TypeInv, TypeOK
    <2>9. \A u \in Threads : Owns(u)'
      <3> SUFFICES ASSUME NEW u \in Threads PROVE Owns(u)'
        OBVIOUS
      <3>1. Key(u)' = Key(u)
        BY Zenon, <2>1, <2>6 DEF Key, TypeInv, TypeOK
      <3>2. /\ threads'[u].ret = threads[u].ret /\ threads'[u].stale = threads[u].stale
            /\ threads'[u].pc = "publish" =>
                 \/ u = t /\ threads'[u].ip = ip
                 \/ threads[u].pc = "publish" /\ threads'[u].ip = threads[u].ip
        BY Zenon, <2>1, <2>6 DEF TypeInv, TypeOK
      <3>3. threads[u].ret # None =>
               owner[threads[u].ret] = Key(u) /\ owner'[threads[u].ret] = owner[threads[u].ret]
        <4>1. threads[u].ret # None => threads[u].ret \in IPs /\ Key(u) \in Keys
          BY Zenon, ThreadParts, RequestParts DEF TypeInv, ThreadShape, Key
        <4> QED
          BY Zenon, <2>3, <4>1, NoneAssumption DEF OwnInv, Owns
      <3>4. threads[u].pc = "publish" => owner'[threads[u].ip] = Key(u)
        <4>1. threads[u].pc = "publish" => threads[u].ip \in IPs /\ Key(u) \in Keys
          BY Zenon, ThreadParts, RequestParts DEF TypeInv, ThreadShape, AllocatePC, Key
        <4> QED
          BY SMTT(30), <2>3, <4>1, NoneAssumption DEF OwnInv, Owns
      <3>5. \A v \in threads[u].stale : owner'[v[1]] = v[2]
        <4> SUFFICES ASSUME NEW v \in threads[u].stale PROVE owner'[v[1]] = v[2]
          OBVIOUS
        <4>1. v[1] \in IPs /\ v[2] \in Keys
          BY Zenon, ThreadParts, VictimParts
        <4> QED
          BY <2>3, <4>1, NoneAssumption DEF OwnInv, Owns
      <3>6. owner'[ip] = Key(t)
        BY Zenon, <2>1, <2>2 DEF TypeInv, TypeOK
      <3> QED
        BY Zenon, <3>1, <3>2, <3>3, <3>4, <3>5, <3>6 DEF Owns
    <2> QED
      BY Zenon, <2>3, <2>4, <2>7, <2>8, <2>9 DEF OwnInv
  <1>6. CASE ~(n < Capacity(c) /\ ip # None)
    <2>1. Return(t, None) /\ UNCHANGED <<ip_to_dest, owner, domain_to_ip>>
      BY Zenon, <1>6 DEF Mint
    <2>2. Owns(t)' /\ \A u \in Threads \ {t} : threads'[u] = threads[u]
      BY Zenon, <2>1, ReturnOwns
    <2>3. \A u \in Threads \ {t} : Owns(u)'
      BY SMTT(30), <2>1, <2>2 DEF OwnInv, Owns, Key
    <2>4. Counted'
      <3> SUFFICES ASSUME NEW i \in IPs, owner[i] # None
                   PROVE  \E d \in Cidrs, m \in Nat :
                             m < offsets'[d] /\ m < Capacity(d) /\ i = IpAdd(d, m)
        BY Zenon, <2>1 DEF Counted, Capacity, IpAdd, Width
      <3> QED
        BY Zenon, <1>4 DEF OwnInv, Counted
    <2> QED
      BY Zenon, <2>1, <2>2, <2>3, <2>4 DEF OwnInv, LiveOwned, MapOwned, Live
  <1> QED
    BY Zenon, <1>5, <1>6

(* Ownership is kept by every step of the cache, and no step takes an      *)
(* address away from its owner.                                            *)
LEMMA OwnStep ==
    ASSUME TypeInv, OwnInv, RangesDisjoint, [Next]_vars
    PROVE  /\ OwnInv'
           /\ \A ip \in IPs : owner[ip] # None => owner'[ip] = owner[ip]
  <1> DEFINE Others(t) == \A u \in Threads \ {t} : threads'[u] = threads[u]
  <1>k. ASSUME NEW t \in Threads, Owns(t)', Others(t),
               UNCHANGED <<ip_to_dest, domain_to_ip, offsets, owner>>
        PROVE  OwnInv'
    <2>1. Live' = Live /\ \A k \in Keys : domain_to_ip'[k] \in {None, domain_to_ip[k]}
      BY Zenon, <1>k DEF Live
    <2> QED
      BY Zenon, <1>k, <2>1, OwnKept
  <1>0. CASE UNCHANGED cacheVars
    BY Zenon, <1>0 DEF cacheVars, OwnInv, Counted, LiveOwned, MapOwned, Owns, Key, Live
  <1>1. ASSUME NEW ip \in IPs, Lookup(ip) PROVE OwnInv' /\ UNCHANGED owner
    <2>1. clock \in Nat /\ ip_to_dest' = Refreshed(ip, clock)
      BY Zenon, <1>1 DEF Lookup, TypeInv, TypeOK, RLTypeOK
    <2>2. Live' = Live /\ \A i \in Live : ip_to_dest'[i].domain = ip_to_dest[i].domain
      BY Zenon, <2>1, RefreshKeeps
    <2> QED
      BY Zenon, <1>1, <2>2 DEF Lookup, OwnInv, Counted, LiveOwned, MapOwned, Owns, Key
  <1>2. ASSUME NEW t \in Threads, Allocate(t) PROVE OwnInv' /\ UNCHANGED owner
    <2>1. /\ threads'[t].ret = None /\ threads'[t].stale = {} /\ threads'[t].pc = "fast"
          /\ Others(t)
      BY <1>2 DEF Allocate, ThreadIdle, TypeInv, TypeOK
    <2>2. Owns(t)'
      BY Zenon, <2>1 DEF Owns
    <2> QED
      BY Zenon, <1>2, <1>k, <2>1, <2>2 DEF Allocate
  <1>3. ASSUME NEW t \in Threads, FastPath(t) PROVE OwnInv' /\ UNCHANGED owner
    <2> DEFINE ip == domain_to_ip[Key(t)]
    <2>1. threads[t].now \in Nat /\ ip \in IPs \cup {None} /\ Key(t) \in Keys
      BY Zenon, <1>3, ThreadParts, RequestParts DEF FastPath, AllocatePC, Key, TypeInv, TypeOK
    <2>2. CASE ip # None
      <3>1. owner[ip] = Key(t)
        BY Zenon, <2>1, <2>2 DEF OwnInv, MapOwned
      <3>2. Owns(t)' /\ Others(t)
        BY Zenon, <1>3, <2>1, <2>2, <3>1, ReturnOwns DEF FastPath
      <3>3. Live' = Live /\ \A i \in Live : ip_to_dest'[i].domain = ip_to_dest[i].domain
        BY Zenon, <1>3, <2>1, <2>2, RefreshKeeps DEF FastPath
      <3> QED
        BY ZenonT(30), <1>3, <3>2, <3>3, OwnKept DEF FastPath
    <2>3. CASE ip = None
      <3>1. Owns(t)' /\ Others(t)
        BY Zenon, <1>3, <2>3, GotoOwns DEF FastPath
      <3> QED
        BY Zenon, <1>3, <1>k, <2>3, <3>1 DEF FastPath
    <2> QED
      BY Zenon, <2>2, <2>3
  <1>4. ASSUME NEW t \in Threads, RateChecked(t) PROVE OwnInv' /\ UNCHANGED owner
    <2>1. Owns(t)' /\ Others(t)
      BY Zenon, <1>4, GotoOwns, ReturnOwns DEF RateChecked
    <2> QED
      BY Zenon, <1>4, <1>k, <2>1 DEF RateChecked
  <1>5. ASSUME NEW t \in Threads, CapCheck(t) \/ CapRecheck(t)
        PROVE  OwnInv' /\ UNCHANGED owner
    <2>1. Owns(t)' /\ Others(t)
      BY Zenon, <1>5, GotoOwns, ReturnOwns DEF CapCheck, CapRecheck
    <2> QED
      BY Zenon, <1>5, <1>k, <2>1 DEF CapCheck, CapRecheck
  <1>6. ASSUME NEW t \in Threads, TakeEntry(t) PROVE OwnInv' /\ UNCHANGED owner
    <2> DEFINE ip == domain_to_ip[Key(t)]
    <2>1. threads[t].now \in Nat /\ ip \in IPs \cup {None} /\ Key(t) \in Keys
      BY ZenonT(30), <1>6, ThreadParts, RequestParts DEF TakeEntry, AllocatePC, Key, TypeInv, TypeOK
    <2>2. CASE ip # None
      <3>1. owner[ip] = Key(t)
        BY Zenon, <2>1, <2>2 DEF OwnInv, MapOwned
      <3>2. Owns(t)' /\ Others(t)
        BY ZenonT(30), <1>6, <2>1, <2>2, <3>1, ReturnOwns DEF TakeEntry
      <3>3. Live' = Live /\ \A i \in Live : ip_to_dest'[i].domain = ip_to_dest[i].domain
        BY Zenon, <1>6, <2>1, <2>2, RefreshKeeps DEF TakeEntry
      <3> QED
        BY Zenon, <1>6, <3>2, <3>3, OwnKept DEF TakeEntry
    <2>3. CASE ip = None
      <3>1. Owns(t)' /\ Others(t)
        BY Zenon, <1>6, <2>3, GotoOwns DEF TakeEntry
      <3> QED
        BY Zenon, <1>6, <1>k, <2>3, <3>1 DEF TakeEntry
    <2> QED
      BY Zenon, <2>2, <2>3
  <1>7. ASSUME NEW t \in Threads, Publish(t) PROVE OwnInv' /\ UNCHANGED owner
    <2>1. threads[t].ip \in IPs /\ Key(t) \in Keys /\ owner[threads[t].ip] = Key(t)
      BY Zenon, <1>7, ThreadParts, RequestParts
         DEF Publish, AllocatePC, Key, TypeInv, ThreadShape, OwnInv, Owns
    <2>2. Owns(t)' /\ Others(t)
      BY Zenon, <1>7, <2>1, ReturnOwns DEF Publish
    <2>3. \A u \in Threads \ {t} : Owns(u)'
      BY <1>7, <2>2 DEF Publish, OwnInv, Owns, Key
    <2>4. MapOwned'
      BY Zenon, <1>7, <2>1 DEF Publish, OwnInv, MapOwned, TypeInv, TypeOK
    <2> QED
      BY Zenon, <1>7, <2>2, <2>3, <2>4 DEF Publish, OwnInv, Counted, LiveOwned, Live
  <1>8. ASSUME NEW t \in Threads, EvictCall(t) PROVE OwnInv' /\ UNCHANGED owner
    <2>1. /\ threads'[t].ret = None /\ threads'[t].stale = {} /\ threads'[t].pc = "scan"
          /\ Others(t)
      BY Zenon, <1>8 DEF EvictCall, ThreadIdle, TypeInv, TypeOK
    <2>2. Owns(t)'
      BY Zenon, <2>1 DEF Owns
    <2> QED
      BY Zenon, <1>8, <1>k, <2>1, <2>2 DEF EvictCall
  <1>9. ASSUME NEW t \in Threads, EvictScan(t) PROVE OwnInv' /\ UNCHANGED owner
    <2> DEFINE S == {<<ip, <<ip_to_dest[ip].domain, ip[1]>>>> :
                       ip \in {i \in Live : Idle(i, threads[t].now)}}
    <2>1. S \in SUBSET Victims
      BY Zenon, StaleType
    <2>2. \A v \in S : owner[v[1]] = v[2]
      BY DEF OwnInv, LiveOwned
    <2> HIDE DEF S
    <2>3. EvictNext(t, IF IdleTtl = 0 THEN {} ELSE S)
      BY Zenon, <1>9 DEF EvictScan, S
    <2>4. Owns(t)' /\ Others(t)
      BY <1>9, <2>1, <2>2, <2>3, EvictNextOwns DEF EvictScan
    <2> QED
      BY Zenon, <1>9, <1>k, <2>4 DEF EvictScan
  <1>10. ASSUME NEW t \in Threads, EvictForward(t) PROVE OwnInv' /\ UNCHANGED owner
    <2>1. PICK v \in threads[t].stale :
            /\ ip_to_dest' = [ip_to_dest EXCEPT ![v[1]] = None]
            /\ threads' = [threads EXCEPT ![t].pc = "reverse", ![t].victim = v]
      BY ZenonT(30), <1>10 DEF EvictForward
    <2>2. Live' \subseteq Live /\ \A i \in Live' : ip_to_dest'[i] = ip_to_dest[i]
      BY Zenon, <2>1 DEF Live, TypeInv, TypeOK
    <2>3. /\ threads'[t].ret = threads[t].ret /\ threads'[t].req = threads[t].req
          /\ threads'[t].stale = threads[t].stale /\ threads'[t].pc = "reverse"
          /\ Others(t)
      BY <2>1 DEF TypeInv, TypeOK, ThreadState
    <2>4. Owns(t)'
      BY ZenonT(30), <1>10, <2>3 DEF EvictForward, OwnInv, Owns, Key
    <2> QED
      BY ZenonT(30), <1>10, <2>2, <2>3, <2>4, OwnKept DEF EvictForward
  <1>11. ASSUME NEW t \in Threads, EvictReverse(t) PROVE OwnInv' /\ UNCHANGED owner
    <2> DEFINE v == threads[t].victim
    <2>1. threads[t].stale \ {v} \in SUBSET Victims
      BY Zenon, ThreadParts
    <2>2. Owns(t)' /\ Others(t)
      BY ZenonT(30), <1>11, <2>1, EvictNextOwns DEF EvictReverse, OwnInv, Owns
    <2>3. \A k \in Keys : domain_to_ip'[k] \in {None, domain_to_ip[k]}
      BY ZenonT(30), <1>11 DEF EvictReverse, TypeInv, TypeOK
    <2> QED
      BY Zenon, <1>11, <2>2, <2>3, OwnKept DEF EvictReverse, Live
  <1> QED
    BY ZenonT(30), <1>0, <1>1, <1>2, <1>3, <1>4, <1>5, <1>6, <1>7, <1>8, <1>9, <1>10, <1>11, MintOwns
       DEF Next, AllocateStep, EvictStep, CacheTick, LimiterStep, vars

LEMMA OwnHolds == ASSUME RangesDisjoint PROVE Spec => [](TypeInv /\ OwnInv)
  <1>1. Init => TypeInv /\ OwnInv
    BY Zenon, TypeInit, OwnInit
  <1>2. TypeInv /\ OwnInv /\ [Next]_vars => TypeInv' /\ OwnInv'
    <2>1. [Next]_vars => [FlushNext]_vars
      BY Zenon DEF FlushNext
    <2> QED
      BY Zenon, <2>1, TypeStep, OwnStep
  <1> QED
    BY <1>1, <1>2, PTL DEF Spec

(* Over ranges that do not overlap, an address that allocate answers belongs *)
(* to the domain asked for, and lookup resolves it to no other.            *)
THEOREM AnswersOwn == ASSUME RangesDisjoint PROVE Spec => []AnswersOwnAddress
  <1>1. TypeInv /\ OwnInv => AnswersOwnAddress
    <2> SUFFICES ASSUME TypeInv, OwnInv, NEW t \in Threads, threads[t].ret # None
                 PROVE  LET ip == threads[t].ret
                        IN  /\ owner[ip] = Key(t)
                            /\ ip \in Live => ip_to_dest[ip].domain = Key(t)[1]
      BY Zenon DEF AnswersOwnAddress
    <2>1. owner[threads[t].ret] = Key(t)
      BY Zenon DEF OwnInv, Owns
    <2>2. threads[t].ret \in Live =>
             Key(t) = <<ip_to_dest[threads[t].ret].domain, threads[t].ret[1]>>
      BY ZenonT(30), <2>1 DEF OwnInv, LiveOwned
    <2> QED
      BY Zenon, <2>1, <2>2 DEF Key, KeyOf
  <1> QED
    BY <1>1, OwnHolds, PTL

(* Over ranges that do not overlap, no step of the cache gives an address  *)
(* that was ever handed out to another domain.                             *)
THEOREM OwnersAreForever == ASSUME RangesDisjoint PROVE Spec => NeverReassigned
  <1>1. TypeInv /\ OwnInv /\ [Next]_vars =>
          [\A ip \in IPs : owner[ip] # None => owner'[ip] = owner[ip]]_vars
    BY Zenon, OwnStep
  <1> QED
    BY <1>1, OwnHolds, PTL DEF Spec, NeverReassigned

-------------------------------------------------------------------------------
(* The two maps.  A thread that holds a shard's write lock found no mapping *)
(* for its key, no two threads hold one shard, and the entry it is about   *)
(* to publish is still there unless an evictor waits to undo the mapping.  *)
Minting(t) == threads[t].pc \in {"mint", "publish"}
Holds(t) ==
    /\ Minting(t) => domain_to_ip[Key(t)] = None
    /\ threads[t].pc = "publish" =>
         threads[t].ip \in Live \/ <<threads[t].ip, Key(t)>> \in Evictions
    /\ threads[t].pc = "reverse" => threads[t].victim[1] \notin Live
Exclusive ==
    \A t, u \in Threads : Minting(t) /\ Minting(u) /\ t # u =>
        Shard[Key(t)] # Shard[Key(u)]
MirrorInv == MapsMirror /\ Exclusive /\ \A t \in Threads : Holds(t)

LEMMA MirrorInit == Init => MirrorInv
  BY SMTT(30) DEF Init, MirrorInv, MapsMirror, Exclusive, Holds, Minting, Live, ThreadIdle

(* Steps that leave the maps' keys alone and hold no shard afterwards. *)
LEMMA MirrorKept ==
    ASSUME MirrorInv, NEW t \in Threads,
           threads[t].pc \notin {"publish", "reverse"},
           threads'[t].pc \notin {"mint", "publish", "reverse"},
           \A u \in Threads \ {t} : threads'[u] = threads[u],
           Live' = Live, UNCHANGED domain_to_ip,
           \A i \in Live : ip_to_dest'[i].domain = ip_to_dest[i].domain
    PROVE  MirrorInv'
  <1>1. Evictions \subseteq Evictions' /\ Unpublished \subseteq Unpublished'
    BY Zenon DEF Evictions, Unpublished
  <1>2. MapsMirror'
    BY Zenon, <1>1 DEF MirrorInv, MapsMirror
  <1>3. Exclusive'
    BY SMTT(30) DEF MirrorInv, Exclusive, Minting, Key
  <1>4. \A u \in Threads : Holds(u)'
    BY Zenon, <1>1 DEF MirrorInv, Holds, Minting, Key
  <1> QED
    BY Zenon, <1>2, <1>3, <1>4 DEF MirrorInv

LEMMA TakeEntryMirrors ==
    ASSUME TypeInv, MirrorInv, NEW t \in Threads, threads[t].pc = "entry",
           ~EntryLocked(Key(t)), domain_to_ip[Key(t)] = None, Goto(t, "mint"),
           UNCHANGED <<ip_to_dest, domain_to_ip>>
    PROVE  MirrorInv'
  <1>1. /\ threads'[t].pc = "mint" /\ threads'[t].req = threads[t].req
        /\ \A u \in Threads \ {t} : threads'[u] = threads[u]
    BY DEF Goto, TypeInv, TypeOK, ThreadState
  <1>2. \A u \in Threads : Key(u)' = Key(u)
    BY Zenon, <1>1 DEF Key
  <1>3. Evictions \subseteq Evictions' /\ Unpublished \subseteq Unpublished'
    BY SMTT(30), <1>1 DEF Evictions, Unpublished
  <1>4. MapsMirror'
    BY Zenon, <1>3 DEF MirrorInv, MapsMirror, Live
  <1>5. Exclusive'
    BY <1>1, <1>2 DEF MirrorInv, Exclusive, Minting, EntryLocked
  <1>6. \A u \in Threads : Holds(u)'
    BY ZenonT(60), <1>1, <1>2, <1>3 DEF MirrorInv, Holds, Minting, Live
  <1> QED
    BY Zenon, <1>4, <1>5, <1>6 DEF MirrorInv

LEMMA PublishMirrors ==
    ASSUME TypeInv, OwnInv, MirrorInv, NEW t \in Threads, Publish(t)
    PROVE  MirrorInv'
  <1> DEFINE ip == threads[t].ip
             k == Key(t)
  <1>1. ip \in IPs /\ k \in Keys /\ owner[ip] = k /\ domain_to_ip[k] = None
    BY ZenonT(30), ThreadParts, RequestParts
       DEF Publish, AllocatePC, Key, TypeInv, ThreadShape, OwnInv, Owns,
           MirrorInv, Holds, Minting
  <1>2. /\ threads'[t].pc = "idle" /\ Live' = Live /\ ip_to_dest' = ip_to_dest
        /\ \A u \in Threads \ {t} : threads'[u] = threads[u]
    BY Zenon DEF Publish, Return, ThreadIdle, TypeInv, TypeOK, Live
  <1>3. domain_to_ip'[k] = ip /\ \A j \in Keys \ {k} : domain_to_ip'[j] = domain_to_ip[j]
    BY Zenon, <1>1 DEF Publish, TypeInv, TypeOK
  <1>4. Evictions \subseteq Evictions' /\ Unpublished \ {ip} \subseteq Unpublished'
    BY SMTT(60), <1>2 DEF Evictions, Unpublished, Publish
  <1>5. ip \in Live \/ <<ip, k>> \in Evictions
    BY Zenon DEF Publish, MirrorInv, Holds
  <1>6. \A j \in Keys : domain_to_ip'[j] # None =>
           domain_to_ip'[j] \in Live' \/ <<domain_to_ip'[j], j>> \in Evictions'
    BY Zenon, <1>1, <1>2, <1>3, <1>4, <1>5 DEF MirrorInv, MapsMirror
  <1>7. ASSUME NEW i \in Live
        PROVE  \/ domain_to_ip'[<<ip_to_dest[i].domain, i[1]>>] = i
               \/ i \in Unpublished'
    <2> DEFINE j == <<ip_to_dest[i].domain, i[1]>>
    <2>1. j = owner[i] /\ i \in IPs /\ j \in Keys
      BY SMTT(30), NoneAssumption DEF OwnInv, LiveOwned, Live, Keys, IPs, TypeInv, TypeOK, Entry
    <2>2. CASE i = ip
      BY Zenon, <1>1, <1>3, <2>1, <2>2
    <2>3. CASE i # ip
      <3>1. CASE domain_to_ip[j] = i
        BY Zenon, <1>1, <1>3, <2>1, <3>1, NoneAssumption
      <3>2. CASE i \in Unpublished
        BY Zenon, <1>4, <2>3, <3>2
      <3> QED
        BY Zenon, <3>1, <3>2 DEF MirrorInv, MapsMirror
    <2> QED
      BY ZenonT(60), <2>2, <2>3
  <1>8. MapsMirror'
    BY Zenon, <1>2, <1>6, <1>7 DEF MapsMirror
  <1>9. Exclusive'
    BY <1>2 DEF MirrorInv, Exclusive, Minting, Key
  <1>10. \A u \in Threads : Holds(u)'
    <2> SUFFICES ASSUME NEW u \in Threads PROVE Holds(u)'
      OBVIOUS
    <2>1. CASE u = t
      BY Zenon, <1>2, <2>1 DEF Holds, Minting
    <2>2. CASE u # t
      <3>1. Key(u)' = Key(u) /\ (Minting(u)' <=> Minting(u))
        BY Zenon, <1>2, <2>2 DEF Key, Minting
      <3>2. Minting(u) => Key(u) # k /\ Key(u) \in Keys
        BY ZenonT(30), <2>2, ThreadParts, RequestParts
           DEF MirrorInv, Exclusive, Minting, Publish, Key, AllocatePC
      <3> QED
        BY Zenon, <1>2, <1>3, <1>4, <2>2, <3>1, <3>2 DEF MirrorInv, Holds
    <2> QED
      BY Zenon, <2>1, <2>2
  <1> QED
    BY Zenon, <1>8, <1>9, <1>10 DEF MirrorInv

LEMMA MintMirrors ==
    ASSUME TypeInv, OwnInv, MirrorInv, RangesDisjoint, NEW t \in Threads, Mint(t)
    PROVE  MirrorInv'
  <1> DEFINE r == threads[t].req
             c == r.cidr
             n == offsets[c]
             ip == IpAdd(c, n)
  <1>1. /\ r \in Requests /\ c \in Cidrs /\ Key(t) \in Keys
        /\ r.domain \in Domains /\ r.metadata \in Metadata
    BY Zenon, ThreadParts, RequestParts DEF Mint, AllocatePC, Key
  <1>2. n \in Nat /\ ip \in IPs \cup {None}
    BY Zenon, <1>1, IpAddType DEF TypeInv, TypeOK
  <1>3. CASE n < Capacity(c) /\ ip # None
    <2> DEFINE e == [domain |-> r.domain, metadata |-> r.metadata,
                     last_used |-> threads[t].now]
               w == [threads[t] EXCEPT !.pc = "publish", !.ip = ip]
    <2>1. /\ ip_to_dest' = [ip_to_dest EXCEPT ![ip] = e]
          /\ threads' = [threads EXCEPT ![t] = w]
          /\ domain_to_ip' = domain_to_ip
      BY ZenonT(30), <1>3, ThreadParts DEF Mint, TypeInv, TypeOK, ThreadState
    <2>2. ip \in IPs /\ owner[ip] = None
      BY ZenonT(60), <1>1, <1>2, <1>3, NextAddressIsFresh
    <2>3. e # None
      BY <1>1, NoneAssumption, ThreadParts DEF Mint, Entry
    <2>4. w.pc = "publish" /\ w.ip = ip /\ w.req = r
      BY Zenon, ThreadParts DEF ThreadState
    <2>5. threads[t].pc = "mint"
      BY Zenon DEF Mint
    <2> HIDE DEF e, w, r, ip
    <2>6. /\ Live' = Live \cup {ip}
          /\ \A i \in Live \ {ip} : ip_to_dest'[i] = ip_to_dest[i]
      BY Zenon, <2>1, <2>2, <2>3 DEF Live, TypeInv, TypeOK
    <2>7. /\ threads'[t] = w /\ \A u \in Threads \ {t} : threads'[u] = threads[u]
          /\ \A u \in Threads : Key(u)' = Key(u)
      BY Zenon, <2>1, <2>4 DEF Key, TypeInv, TypeOK, r
    <2>8. Evictions \subseteq Evictions' /\ Unpublished \cup {ip} \subseteq Unpublished'
      BY SMTT(30), <2>4, <2>5, <2>7 DEF Evictions, Unpublished
    <2>9. MapsMirror'
      BY Zenon, <2>1, <2>6, <2>8 DEF MirrorInv, MapsMirror
    <2>10. \A u \in Threads : Minting(u)' <=> Minting(u)
      BY Zenon, <2>4, <2>5, <2>7 DEF Minting
    <2>11. Exclusive'
      BY Zenon, <2>7, <2>10 DEF MirrorInv, Exclusive
    <2>12. ASSUME NEW u \in Threads PROVE Holds(u)'
      <3>1. Minting(u)' => domain_to_ip'[Key(u)'] = None
        BY ZenonT(30), <2>1, <2>7, <2>10 DEF MirrorInv, Holds
      <3>2. threads'[u].pc = "publish" =>
               threads'[u].ip \in Live' \/ <<threads'[u].ip, Key(u)'>> \in Evictions'
        BY Zenon, <2>4, <2>6, <2>7, <2>8 DEF MirrorInv, Holds
      <3>3. threads'[u].pc = "reverse" => threads'[u].victim[1] \notin Live'
        <4> SUFFICES ASSUME threads'[u].pc = "reverse" PROVE threads'[u].victim[1] \notin Live'
          OBVIOUS
        <4>1. threads'[u] = threads[u] /\ threads[u].pc = "reverse"
          BY Zenon, <2>4, <2>7
        <4> DEFINE v == threads[u].victim
        <4>2. v \in threads[u].stale /\ v \in Victims
          BY Zenon, <4>1, ThreadParts DEF TypeInv, ThreadShape
        <4>3. owner[v[1]] = v[2] /\ v[2] # None
          BY Zenon, <4>2, VictimParts, NoneAssumption DEF OwnInv, Owns
        <4> QED
          BY ZenonT(30), <2>2, <2>6, <4>1, <4>3 DEF MirrorInv, Holds
      <3> QED
        BY Zenon, <3>1, <3>2, <3>3 DEF Holds
    <2> QED
      BY Zenon, <2>9, <2>11, <2>12 DEF MirrorInv
  <1>4. CASE ~(n < Capacity(c) /\ ip # None)
    <2>1. /\ Return(t, None) /\ UNCHANGED <<ip_to_dest, domain_to_ip>>
          /\ threads[t].pc = "mint"
      BY Zenon, <1>4 DEF Mint
    <2>2. threads'[t].pc = "idle" /\ \A u \in Threads \ {t} : threads'[u] = threads[u]
      BY Zenon, <2>1 DEF Return, ThreadIdle, TypeInv, TypeOK
    <2> QED
      BY Zenon, <2>1, <2>2, MirrorKept DEF Live
  <1> QED
    BY Zenon, <1>3, <1>4

LEMMA EvictForwardMirrors ==
    ASSUME TypeInv, OwnInv, MirrorInv, NEW t \in Threads, EvictForward(t)
    PROVE  MirrorInv'
  <1>1. PICK v \in threads[t].stale :
          /\ ip_to_dest' = [ip_to_dest EXCEPT ![v[1]] = None]
          /\ threads' = [threads EXCEPT ![t].pc = "reverse", ![t].victim = v]
    BY ZenonT(30) DEF EvictForward
  <1>2. v \in Victims /\ owner[v[1]] = v[2]
    BY Zenon, ThreadParts DEF OwnInv, Owns
  <1>3. v = <<v[1], v[2]>> /\ v[1] \in IPs /\ v[2] \in Keys
    BY Zenon, <1>2, VictimParts
  <1>4. Live' = Live \ {v[1]} /\ \A i \in Live' : ip_to_dest'[i] = ip_to_dest[i]
    BY Zenon, <1>1, <1>3 DEF Live, TypeInv, TypeOK
  <1>5. /\ threads'[t].pc = "reverse" /\ threads'[t].victim = v
        /\ threads[t].pc = "forward" /\ UNCHANGED domain_to_ip
        /\ threads'[t].req = threads[t].req
        /\ \A u \in Threads \ {t} : threads'[u] = threads[u]
    BY SMTT(30), <1>1 DEF EvictForward, TypeInv, TypeOK, ThreadState
  <1>6. Evictions \cup {v} \subseteq Evictions' /\ Unpublished \subseteq Unpublished'
    BY <1>5 DEF Evictions, Unpublished
  <1>7. \A k \in Keys : domain_to_ip[k] = v[1] => <<domain_to_ip[k], k>> = v
    BY Zenon, <1>2, <1>3, NoneAssumption DEF OwnInv, MapOwned
  <1>8. MapsMirror'
    BY Zenon, <1>4, <1>5, <1>6, <1>7 DEF MirrorInv, MapsMirror
  <1>9. \A u \in Threads : Key(u)' = Key(u) /\ (Minting(u)' <=> Minting(u))
    BY Zenon, <1>5 DEF Key, Minting
  <1>10. Exclusive'
    BY Zenon, <1>9 DEF MirrorInv, Exclusive
  <1>11. ASSUME NEW u \in Threads PROVE Holds(u)'
    <2>1. CASE u = t
      BY Zenon, <1>3, <1>4, <1>5, <2>1 DEF Holds, Minting
    <2>2. CASE u # t
      <3>1. threads[u].pc = "publish" /\ threads[u].ip = v[1] => <<threads[u].ip, Key(u)>> = v
        BY Zenon, <1>2, <1>3 DEF OwnInv, Owns
      <3> QED
        BY ZenonT(60), <1>4, <1>5, <1>6, <1>9, <2>2, <3>1 DEF MirrorInv, Holds
    <2> QED
      BY Zenon, <2>1, <2>2
  <1> QED
    BY Zenon, <1>8, <1>10, <1>11 DEF MirrorInv

LEMMA EvictReverseMirrors ==
    ASSUME TypeInv, OwnInv, MirrorInv, NEW t \in Threads, EvictReverse(t)
    PROVE  MirrorInv'
  <1> DEFINE v == threads[t].victim
  <1>1. /\ v \in Victims /\ threads[t].pc = "reverse" /\ ~EntryLocked(v[2])
        /\ v[1] \notin Live /\ threads[t].stale \ {v} \in SUBSET Victims
    BY ZenonT(30), ThreadParts DEF EvictReverse, TypeInv, ThreadShape, MirrorInv, Holds
  <1>2. v = <<v[1], v[2]>> /\ v[1] \in IPs /\ v[2] \in Keys
    BY Zenon, <1>1, VictimParts
  <1>3. /\ threads'[t].pc \notin {"mint", "publish", "reverse"}
        /\ \A u \in Threads \ {t} : threads'[u] = threads[u]
    <2>1. EvictNext(t, threads[t].stale \ {v})
      BY Zenon DEF EvictReverse
    <2>2. CASE threads[t].stale \ {v} = {} /\ threads[t].req = None
      BY ZenonT(60), <2>1, <2>2 DEF EvictNext, Return, ThreadIdle, TypeInv, TypeOK
    <2>3. CASE ~(threads[t].stale \ {v} = {} /\ threads[t].req = None)
      <3>1. PICK w \in ThreadState :
               /\ threads' = [threads EXCEPT ![t] = w]
               /\ w.pc = IF threads[t].stale \ {v} = {} THEN "recheck" ELSE "forward"
        BY <1>1, <2>1, <2>3, EvictNextGoesOn
      <3> QED
        BY Zenon, <3>1 DEF TypeInv, TypeOK
    <2> QED
      BY ZenonT(30), <2>2, <2>3
  <1>4. /\ ip_to_dest' = ip_to_dest /\ Live' = Live
        /\ \A k \in Keys : domain_to_ip'[k] =
             IF k = v[2] /\ domain_to_ip[k] = v[1] THEN None ELSE domain_to_ip[k]
    BY Zenon, <1>2 DEF EvictReverse, Live, TypeInv, TypeOK
  <1>5. Evictions \ {v} \subseteq Evictions' /\ Unpublished \subseteq Unpublished'
    BY SMTT(30), <1>1, <1>3 DEF Evictions, Unpublished
  <1>6. MapsMirror'
    <2>1. ASSUME NEW k \in Keys, domain_to_ip'[k] # None
          PROVE  domain_to_ip'[k] \in Live' \/ <<domain_to_ip'[k], k>> \in Evictions'
      <3>1. domain_to_ip'[k] = domain_to_ip[k] /\ <<domain_to_ip[k], k>> # v
        BY SMTT(30), <1>2, <1>4, <2>1
      <3> QED
        BY Zenon, <1>4, <1>5, <2>1, <3>1 DEF MirrorInv, MapsMirror
    <2>2. ASSUME NEW i \in Live'
          PROVE  domain_to_ip'[<<ip_to_dest'[i].domain, i[1]>>] = i \/ i \in Unpublished'
      <3>1. i \in Live /\ i # v[1]
        BY Zenon, <1>1, <1>4
      <3>2. i \in IPs /\ ip_to_dest[i] # None
        BY Zenon, <3>1 DEF Live
      <3>3. ip_to_dest[i] \in Entry
        BY Zenon, <3>2 DEF TypeInv, TypeOK
      <3>4. <<ip_to_dest[i].domain, i[1]>> \in Keys
        BY <3>2, <3>3 DEF Keys, IPs, Entry
      <3> QED
        BY Zenon, <1>4, <1>5, <3>1, <3>4 DEF MirrorInv, MapsMirror
    <2> QED
      BY Zenon, <2>1, <2>2 DEF MapsMirror
  <1>7. \A u \in Threads \ {t} : Key(u)' = Key(u) /\ (Minting(u)' <=> Minting(u))
    BY Zenon, <1>3 DEF Key, Minting
  <1>8. Exclusive'
    BY SMTT(60), <1>3, <1>7 DEF MirrorInv, Exclusive, Minting
  <1>9. ASSUME NEW u \in Threads PROVE Holds(u)'
    <2>1. CASE u = t
      BY Zenon, <1>3, <2>1 DEF Holds, Minting
    <2>2. CASE u # t
      <3>1. Minting(u) => <<threads[u].ip, Key(u)>> # v /\ Key(u) \in Keys
        <4>1. Minting(u) => Key(u) # v[2]
          BY Zenon, <1>1 DEF EntryLocked, Minting
        <4>2. Minting(u) => Key(u) \in Keys
          BY Zenon, ThreadParts, RequestParts DEF Minting, Key, AllocatePC
        <4> QED
          BY SMTT(30), <1>2, <4>1, <4>2
      <3>2. Minting(u)' => domain_to_ip'[Key(u)'] = None
        BY ZenonT(30), <1>4, <1>7, <2>2, <3>1 DEF MirrorInv, Holds
      <3>3. threads'[u].pc = "publish" =>
               threads'[u].ip \in Live' \/ <<threads'[u].ip, Key(u)'>> \in Evictions'
        BY ZenonT(60), <1>3, <1>4, <1>5, <1>7, <2>2, <3>1 DEF MirrorInv, Holds, Minting
      <3> QED
        BY ZenonT(30), <1>3, <1>4, <2>2, <3>2, <3>3 DEF MirrorInv, Holds
    <2> QED
      BY Zenon, <2>1, <2>2
  <1> QED
    BY Zenon, <1>6, <1>8, <1>9 DEF MirrorInv

LEMMA MirrorStep ==
    ASSUME TypeInv, OwnInv, MirrorInv, RangesDisjoint, [Next]_vars
    PROVE  MirrorInv'
  <1> DEFINE Others(t) == \A u \in Threads \ {t} : threads'[u] = threads[u]
             Quiet(t) == threads'[t].pc \notin {"mint", "publish", "reverse"} /\ Others(t)
  <1>g. ASSUME NEW t \in Threads, NEW pc, pc \notin {"mint", "publish", "reverse"}, Goto(t, pc)
        PROVE  Quiet(t)
    BY Zenon, <1>g DEF Goto, TypeInv, TypeOK, ThreadState
  <1>r. ASSUME NEW t \in Threads, NEW ip, Return(t, ip) PROVE Quiet(t)
    BY Zenon, <1>r DEF Return, ThreadIdle, TypeInv, TypeOK
  <1>0. CASE UNCHANGED cacheVars
    <2>1. UNCHANGED <<ip_to_dest, domain_to_ip, threads>>
      BY Zenon, <1>0 DEF cacheVars
    <2>2. UNCHANGED <<Live, Evictions, Unpublished>>
      BY Zenon, <2>1 DEF Live, Evictions, Unpublished
    <2>3. MapsMirror'
      BY Zenon, <2>1, <2>2 DEF MirrorInv, MapsMirror
    <2> QED
      BY ZenonT(30), <2>1, <2>2, <2>3 DEF MirrorInv, Exclusive, Holds, Minting, Key
  <1>1. ASSUME NEW ip \in IPs, Lookup(ip) PROVE MirrorInv'
    <2>1. clock \in Nat /\ ip_to_dest' = Refreshed(ip, clock)
      BY Zenon, <1>1 DEF Lookup, TypeInv, TypeOK, RLTypeOK
    <2>2. Live' = Live /\ \A i \in Live : ip_to_dest'[i].domain = ip_to_dest[i].domain
      BY Zenon, <2>1, RefreshKeeps
    <2>3. UNCHANGED <<Evictions, Unpublished>> /\ UNCHANGED <<domain_to_ip, threads>>
      BY Zenon, <1>1 DEF Lookup, Evictions, Unpublished
    <2> QED
      BY Zenon, <2>2, <2>3 DEF MirrorInv, MapsMirror, Exclusive, Holds, Minting, Key
  <1>2. ASSUME NEW t \in Threads, Allocate(t) \/ EvictCall(t) PROVE MirrorInv'
    <2>1. Quiet(t)
      BY ZenonT(60), <1>2 DEF Allocate, EvictCall, ThreadIdle, TypeInv, TypeOK
    <2> QED
      BY ZenonT(30), <1>2, <2>1, MirrorKept DEF Allocate, EvictCall, Live
  <1>3. ASSUME NEW t \in Threads, FastPath(t) PROVE MirrorInv'
    <2> DEFINE ip == domain_to_ip[Key(t)]
    <2>1. threads[t].now \in Nat /\ ip \in IPs \cup {None}
      BY ZenonT(30), <1>3, ThreadParts, RequestParts DEF FastPath, AllocatePC, Key, TypeInv, TypeOK
    <2>2. Quiet(t)
      BY ZenonT(30), <1>3, <1>g, <1>r DEF FastPath
    <2>3. Live' = Live /\ \A i \in Live : ip_to_dest'[i].domain = ip_to_dest[i].domain
      <3>1. CASE ip # None
        BY ZenonT(30), <1>3, <2>1, <3>1, RefreshKeeps DEF FastPath
      <3>2. CASE ip = None
        BY ZenonT(30), <1>3, <3>2 DEF FastPath, Live
      <3> QED
        BY Zenon, <3>1, <3>2
    <2> QED
      BY ZenonT(30), <1>3, <2>2, <2>3, MirrorKept DEF FastPath
  <1>4. ASSUME NEW t \in Threads, RateChecked(t) \/ CapCheck(t) \/ CapRecheck(t)
        PROVE  MirrorInv'
    <2>1. Quiet(t)
      BY ZenonT(30), <1>4, <1>g, <1>r DEF RateChecked, CapCheck, CapRecheck
    <2> QED
      BY Zenon, <1>4, <2>1, MirrorKept DEF RateChecked, CapCheck, CapRecheck, Live
  <1>5. ASSUME NEW t \in Threads, TakeEntry(t) PROVE MirrorInv'
    <2> DEFINE ip == domain_to_ip[Key(t)]
    <2>1. threads[t].now \in Nat /\ ip \in IPs \cup {None}
      BY ZenonT(30), <1>5, ThreadParts, RequestParts DEF TakeEntry, AllocatePC, Key, TypeInv, TypeOK
    <2>2. CASE ip # None
      <3>1. Quiet(t)
        BY ZenonT(30), <1>5, <1>r, <2>2 DEF TakeEntry
      <3>2. Live' = Live /\ \A i \in Live : ip_to_dest'[i].domain = ip_to_dest[i].domain
        BY ZenonT(30), <1>5, <2>1, <2>2, RefreshKeeps DEF TakeEntry
      <3> QED
        BY Zenon, <1>5, <3>1, <3>2, MirrorKept DEF TakeEntry
    <2>3. CASE ip = None
      BY Zenon, <1>5, <2>3, TakeEntryMirrors DEF TakeEntry
    <2> QED
      BY Zenon, <2>2, <2>3
  <1>6. ASSUME NEW t \in Threads, EvictScan(t) PROVE MirrorInv'
    <2> DEFINE S == IF IdleTtl = 0 THEN {}
                    ELSE {<<ip, <<ip_to_dest[ip].domain, ip[1]>>>> :
                            ip \in {i \in Live : Idle(i, threads[t].now)}}
    <2>1. S \in SUBSET Victims /\ EvictNext(t, S)
      BY Zenon, <1>6, StaleType DEF EvictScan
    <2> HIDE DEF S
    <2>2. Quiet(t)
      <3>1. CASE S = {} /\ threads[t].req = None
        BY Zenon, <1>r, <2>1, <3>1 DEF EvictNext
      <3>2. CASE ~(S = {} /\ threads[t].req = None)
        <4>1. PICK w \in ThreadState :
                 /\ threads' = [threads EXCEPT ![t] = w]
                 /\ w.pc = IF S = {} THEN "recheck" ELSE "forward"
          BY <2>1, <3>2, EvictNextGoesOn
        <4> QED
          BY Zenon, <4>1 DEF TypeInv, TypeOK
      <3> QED
        BY Zenon, <3>1, <3>2
    <2> QED
      BY Zenon, <1>6, <2>2, MirrorKept DEF EvictScan, Live
  <1> QED
    BY ZenonT(30), <1>0, <1>1, <1>2, <1>3, <1>4, <1>5, <1>6, MintMirrors, PublishMirrors,
       EvictForwardMirrors, EvictReverseMirrors
       DEF Next, AllocateStep, EvictStep, CacheTick, LimiterStep, vars

Inv == TypeInv /\ OwnInv /\ MirrorInv

LEMMA InvHolds == ASSUME RangesDisjoint PROVE Spec => []Inv
  <1>1. Init => Inv
    BY Zenon, TypeInit, OwnInit, MirrorInit DEF Inv
  <1>2. Inv /\ [Next]_vars => Inv'
    <2>1. [Next]_vars => [FlushNext]_vars
      BY Zenon DEF FlushNext
    <2> QED
      BY Zenon, <2>1, TypeStep, OwnStep, MirrorStep DEF Inv
  <1> QED
    BY <1>1, <1>2, PTL DEF Spec

(* The two maps mirror each other but for what is half done. *)
THEOREM MapsStayMirrored == ASSUME RangesDisjoint PROVE Spec => []MapsMirror
  <1>1. Inv => MapsMirror
    BY Zenon DEF Inv, MirrorInv
  <1> QED
    BY <1>1, InvHolds, PTL

LEMMA OneAddress == Inv => OneLiveAddress
  <1> SUFFICES ASSUME Inv, NEW i \in Live, NEW j \in Live,
                      <<ip_to_dest[i].domain, i[1]>> = <<ip_to_dest[j].domain, j[1]>>
               PROVE  i = j
    BY Zenon DEF OneLiveAddress
  <1> DEFINE k == <<ip_to_dest[i].domain, i[1]>>
  <1>1. ASSUME NEW x \in Live, k = <<ip_to_dest[x].domain, x[1]>>, x \in Unpublished
        PROVE  \E t \in Threads : /\ threads[t].pc = "publish" /\ threads[t].ip = x
                                  /\ Key(t) = k /\ domain_to_ip[k] = None
    <2>1. PICK t \in Threads : threads[t].pc = "publish" /\ threads[t].ip = x
      BY Zenon, <1>1 DEF Unpublished
    <2>2. Key(t) = k
      BY ZenonT(30), <1>1, <2>1 DEF Inv, OwnInv, Owns, LiveOwned
    <2> QED
      BY ZenonT(30), <2>1, <2>2 DEF Inv, MirrorInv, Holds, Minting
  <1>2. \A x \in Live : k = <<ip_to_dest[x].domain, x[1]>> =>
           domain_to_ip[k] = x \/ x \in Unpublished
    BY Zenon DEF Inv, MirrorInv, MapsMirror
  <1>3. i # None /\ j # None
    BY Zenon, NoneAssumption DEF Live
  <1>4. CASE domain_to_ip[k] = None
    <2>1. i \in Unpublished /\ j \in Unpublished
      BY Zenon, <1>2, <1>3, <1>4
    <2>2. PICK t \in Threads : threads[t].pc = "publish" /\ threads[t].ip = i /\ Key(t) = k
      BY Zenon, <1>1, <2>1
    <2>3. PICK u \in Threads : threads[u].pc = "publish" /\ threads[u].ip = j /\ Key(u) = k
      BY Zenon, <1>1, <2>1
    <2>4. t = u
      BY Zenon, <2>2, <2>3 DEF Inv, MirrorInv, Exclusive, Minting
    <2> QED
      BY Zenon, <2>2, <2>3, <2>4
  <1>5. CASE domain_to_ip[k] # None
    BY Zenon, <1>1, <1>2, <1>5
  <1> QED
    BY Zenon, <1>4, <1>5

(* A domain never holds two live addresses of one family. *)
THEOREM OneLiveAddressAlways == ASSUME RangesDisjoint PROVE Spec => []OneLiveAddress
  BY OneAddress, InvHolds, PTL

-------------------------------------------------------------------------------
(* Towards the abstract directory: minting hands out an address nobody owns *)
(* to a key without a live one, eviction lets it expire, nothing else shows. *)
LEMMA NoLiveWhileMinting ==
    ASSUME Inv, NEW t \in Threads, threads[t].pc = "mint"
    PROVE  \A b \in Live : owner[b] # Key(t)
  <1> SUFFICES ASSUME NEW b \in Live, owner[b] = Key(t) PROVE FALSE
    OBVIOUS
  <1>1. domain_to_ip[Key(t)] = None
    BY ZenonT(30) DEF Inv, MirrorInv, Holds, Minting
  <1>2. <<ip_to_dest[b].domain, b[1]>> = Key(t)
    BY Zenon DEF Inv, OwnInv, LiveOwned
  <1>3. b \in Unpublished
    BY Zenon, <1>1, <1>2, NoneAssumption DEF Inv, MirrorInv, MapsMirror, Live
  <1>4. PICK u \in Threads : threads[u].pc = "publish" /\ threads[u].ip = b
    BY Zenon, <1>3 DEF Unpublished
  <1>5. Key(u) = Key(t)
    BY Zenon, <1>4 DEF Inv, OwnInv, Owns
  <1> QED
    BY Zenon, <1>4, <1>5 DEF Inv, MirrorInv, Exclusive, Minting

LEMMA MintImplements ==
    ASSUME Inv, RangesDisjoint, NEW t \in Threads, Mint(t)
    PROVE  [Directory!Next]_<<owner, Live>>
  <1> DEFINE c == threads[t].req.cidr
             n == offsets[c]
             ip == IpAdd(c, n)
             e == [domain |-> threads[t].req.domain,
                   metadata |-> threads[t].req.metadata,
                   last_used |-> threads[t].now]
  <1>0. TypeInv /\ OwnInv
    BY Zenon DEF Inv
  <1>1. c \in Cidrs /\ n \in Nat /\ e \in Entry /\ Key(t) \in Keys
    BY Zenon, <1>0, ThreadParts, RequestParts DEF Mint, AllocatePC, Key, Entry, TypeInv, TypeOK
  <1>2. CASE n < Capacity(c) /\ ip # None
    <2>1. ip \in IPs /\ owner[ip] = None
      BY ZenonT(30), <1>0, <1>1, <1>2, IpAddType, NextAddressIsFresh
    <2>2. /\ ip_to_dest' = [ip_to_dest EXCEPT ![ip] = e]
          /\ owner' = [owner EXCEPT ![ip] = Key(t)]
      BY ZenonT(60), <1>2 DEF Mint
    <2>3. Live' = Live \cup {ip}
      BY SMTT(60), <1>0, <1>1, <2>1, <2>2, NoneAssumption DEF Live, TypeInv, TypeOK
    <2>4. \A b \in Live : owner[b] # Key(t)
      BY Zenon, NoLiveWhileMinting DEF Mint
    <2>5. Directory!Mint(ip, Key(t))
      BY ZenonT(30), <2>1, <2>2, <2>3, <2>4 DEF Directory!Mint
    <2> QED
      BY Zenon, <1>1, <2>1, <2>5 DEF Directory!Next
  <1>3. CASE ~(n < Capacity(c) /\ ip # None)
    BY Zenon, <1>3 DEF Mint, Live
  <1> QED
    BY Zenon, <1>2, <1>3

LEMMA StepImplements ==
    ASSUME Inv, RangesDisjoint, [Next]_vars
    PROVE  [Directory!Next]_<<owner, Live>>
  <1>0. TypeInv /\ OwnInv
    BY Zenon DEF Inv
  <1>1. ASSUME NEW ip \in IPs, Lookup(ip) PROVE UNCHANGED <<owner, Live>>
    <2>1. clock \in Nat
      BY Zenon, <1>0 DEF TypeInv, TypeOK, RLTypeOK
    <2> QED
      BY Zenon, <1>0, <1>1, <2>1, RefreshKeeps DEF Lookup
  <1>2. ASSUME NEW t \in Threads, FastPath(t) \/ TakeEntry(t) PROVE UNCHANGED <<owner, Live>>
    <2> DEFINE ip == domain_to_ip[Key(t)]
    <2>1. threads[t].now \in Nat /\ ip \in IPs \cup {None}
      BY ZenonT(30), <1>0, <1>2, ThreadParts, RequestParts
         DEF FastPath, TakeEntry, AllocatePC, Key, TypeInv, TypeOK
    <2>2. CASE ip # None
      BY ZenonT(30), <1>0, <1>2, <2>1, <2>2, RefreshKeeps DEF FastPath, TakeEntry
    <2>3. CASE ip = None
      BY ZenonT(30), <1>2, <2>3 DEF FastPath, TakeEntry, Live
    <2> QED
      BY Zenon, <2>2, <2>3
  <1>3. ASSUME NEW t \in Threads, EvictForward(t) PROVE [Directory!Next]_<<owner, Live>>
    <2>1. PICK v \in threads[t].stale : ip_to_dest' = [ip_to_dest EXCEPT ![v[1]] = None]
      BY ZenonT(30), <1>3 DEF EvictForward
    <2>2. v[1] \in IPs /\ UNCHANGED owner
      BY Zenon, <1>0, <1>3, <2>1, VictimParts DEF EvictForward, TypeInv, TypeOK, ThreadState
    <2>3. Live' = Live \ {v[1]}
      BY Zenon, <1>0, <2>1, <2>2 DEF Live, TypeInv, TypeOK
    <2> QED
      BY ZenonT(30), <2>2, <2>3 DEF Directory!Next, Directory!Expire
  <1>4. ASSUME NEW t \in Threads,
               \/ Allocate(t) \/ LimiterStep(t) \/ RateChecked(t) \/ CapCheck(t)
               \/ CapRecheck(t) \/ Publish(t) \/ EvictCall(t) \/ EvictScan(t)
               \/ EvictReverse(t)
        PROVE  UNCHANGED <<owner, Live>>
    <2>1. UNCHANGED <<owner, ip_to_dest>>
      BY ZenonT(30), <1>4 DEF Allocate, LimiterStep, RateChecked, CapCheck, CapRecheck, Publish,
                  EvictCall, EvictScan, EvictReverse, cacheVars
    <2> QED
      BY Zenon, <2>1 DEF Live
  <1>5. CASE UNCHANGED vars \/ CacheTick
    BY Zenon, <1>5 DEF vars, cacheVars, CacheTick, Live
  <1> QED
    BY Zenon, <1>1, <1>2, <1>3, <1>4, <1>5, MintImplements DEF Next, AllocateStep, EvictStep

(* The concurrent cache implements the abstract directory, when the ranges *)
(* do not overlap: however allocations, evictions and lookups interleave,  *)
(* an address is handed out once, to a domain without a live one.          *)
THEOREM CacheIsDirectory == ASSUME RangesDisjoint PROVE Spec => ImplementsDirectory
  <1>1. Init => Directory!Init
    BY Zenon DEF Init, Directory!Init, Live
  <1>2. Inv /\ [Next]_vars => [Directory!Next]_<<owner, Live>>
    BY Zenon, StepImplements
  <1> QED
    BY <1>1, <1>2, InvHolds, PTL DEF Spec, ImplementsDirectory, Directory!Spec

-------------------------------------------------------------------------------
(* The entry cap.  Only a thread that found room joins PastCap, and then   *)
(* Live is below the cap and PastCap no larger than Threads; minting turns *)
(* one member of PastCap into at most one live address; every other step   *)
(* leaves both sets as they are or smaller.                                *)
LEMMA FiniteIPs == IsFiniteSet(IPs)
  <1>1. IsFiniteSet(BOOLEAN)
    <2>1. BOOLEAN = {TRUE} \cup {FALSE}
      BY ZenonT(60)
    <2>2. IsFiniteSet({TRUE})
      BY Zenon, FS_Singleton
    <2>3. IsFiniteSet({TRUE} \cup {FALSE})
      BY Zenon, <2>2, FS_AddElement
    <2> QED
      BY Zenon, <2>1, <2>3
  <1>2. ASSUME NEW n \in Nat PROVE IsFiniteSet(BOOLEAN \X (0 .. 2 ^ n - 1))
    <2>1. 2 ^ n - 1 \in Int
      OBVIOUS
    <2>2. IsFiniteSet(0 .. 2 ^ n - 1)
      BY <2>1, FS_Interval
    <2> QED
      BY Zenon, <1>1, <2>2, FS_Product
  <1>3. IsFiniteSet((BOOLEAN \X (0 .. 2 ^ Width4 - 1)) \cup (BOOLEAN \X (0 .. 2 ^ Width6 - 1)))
    BY Zenon, <1>2, WidthAssumption, FS_Union
  <1>4. IPs \subseteq (BOOLEAN \X (0 .. 2 ^ Width4 - 1)) \cup (BOOLEAN \X (0 .. 2 ^ Width6 - 1))
    BY Zenon DEF IPs
  <1> QED
    BY Zenon, <1>3, <1>4, FS_Subset

LEMMA CapKept ==
    ASSUME CapOvershootBounded, Live' \subseteq Live, PastCap' \subseteq PastCap
    PROVE  CapOvershootBounded'
  <1>1. IsFiniteSet(Live) /\ IsFiniteSet(PastCap) /\ IsFiniteSet(Live') /\ IsFiniteSet(PastCap')
    <2>1. Live \subseteq IPs /\ Live' \subseteq IPs
      BY Zenon DEF Live
    <2>2. PastCap \subseteq Threads /\ PastCap' \subseteq Threads
      BY Zenon DEF PastCap
    <2> QED
      BY <2>1, <2>2, FiniteIPs, ThreadsAssumption, FS_Subset
  <1>2. /\ Cardinality(Live') <= Cardinality(Live)
        /\ Cardinality(PastCap') <= Cardinality(PastCap)
    BY Zenon, <1>1, FS_Subset
  <1>3. /\ Cardinality(Live) \in Nat /\ Cardinality(PastCap) \in Nat
        /\ Cardinality(Live') \in Nat /\ Cardinality(PastCap') \in Nat
        /\ Cardinality(Threads) \in Nat
    BY <1>1, ThreadsAssumption, FS_CardinalityType
  <1> QED
    BY <1>2, <1>3, CacheLimitsAssumption DEF CapOvershootBounded

(* A thread passes the cap only while the cache is not full. *)
LEMMA CapPassed ==
    ASSUME Live' = Live, ~Full
    PROVE  CapOvershootBounded'
  <1>1. IsFiniteSet(Live) /\ IsFiniteSet(PastCap') /\ PastCap' \in SUBSET Threads
    BY Zenon, FiniteIPs, ThreadsAssumption, FS_Subset DEF Live, PastCap
  <1>2. /\ Cardinality(Live) \in Nat /\ Cardinality(PastCap') \in Nat
        /\ Cardinality(Threads) \in Nat /\ Cardinality(PastCap') <= Cardinality(Threads)
    BY <1>1, ThreadsAssumption, FS_CardinalityType, FS_Subset
  <1> QED
    BY <1>2, CacheLimitsAssumption DEF CapOvershootBounded, Full

(* Minting spends the thread's place past the cap on one live address. *)
LEMMA CapSpent ==
    ASSUME CapOvershootBounded, NEW t \in PastCap, NEW ip \in IPs,
           Live' \subseteq Live \cup {ip}, PastCap' \subseteq PastCap \ {t}
    PROVE  CapOvershootBounded'
  <1>1. IsFiniteSet(Live) /\ IsFiniteSet(PastCap)
    BY Zenon, FiniteIPs, ThreadsAssumption, FS_Subset DEF Live, PastCap
  <1>2. /\ IsFiniteSet(Live \cup {ip}) /\ IsFiniteSet(PastCap \ {t})
        /\ Cardinality(Live \cup {ip}) \in {Cardinality(Live), Cardinality(Live) + 1}
        /\ Cardinality(PastCap \ {t}) = Cardinality(PastCap) - 1
    BY Zenon, <1>1, FS_AddElement, FS_RemoveElement
  <1>3. /\ Cardinality(Live') <= Cardinality(Live \cup {ip})
        /\ Cardinality(PastCap') <= Cardinality(PastCap \ {t})
        /\ IsFiniteSet(Live') /\ IsFiniteSet(PastCap')
    BY Zenon, <1>2, FS_Subset
  <1>4. /\ Cardinality(Live) \in Nat /\ Cardinality(PastCap) \in Nat
        /\ Cardinality(Live') \in Nat /\ Cardinality(PastCap') \in Nat
        /\ Cardinality(Threads) \in Nat
    BY Zenon, <1>1, <1>3, ThreadsAssumption, FS_CardinalityType
  <1> QED
    BY <1>2, <1>3, <1>4, CacheLimitsAssumption DEF CapOvershootBounded
LEMMA CapStep ==
    ASSUME TypeInv, CapOvershootBounded, [FlushNext]_vars
    PROVE  CapOvershootBounded'
  <1> DEFINE Elsewhere(t) == \A u \in Threads \ {t} : threads'[u] = threads[u]
             Leaves(t) == threads'[t].pc \notin {"entry", "mint"} /\ Elsewhere(t)
  <1>g. ASSUME NEW t \in Threads, NEW pc, Goto(t, pc)
        PROVE  threads'[t].pc = pc /\ Elsewhere(t)
    BY <1>g DEF Goto, TypeInv, TypeOK, ThreadState
  <1>r. ASSUME NEW t \in Threads, NEW ip, Return(t, ip) PROVE Leaves(t)
    BY Zenon, <1>r DEF Return, ThreadIdle, TypeInv, TypeOK
  <1>l. ASSUME NEW t \in Threads, Leaves(t) PROVE PastCap' \subseteq PastCap \ {t}
    BY Zenon, <1>l DEF PastCap
  <1>k. ASSUME NEW t \in Threads, Leaves(t), Live' \subseteq Live PROVE CapOvershootBounded'
    BY Zenon, <1>k, <1>l, CapKept
  <1>u. UNCHANGED ip_to_dest => Live' = Live
    BY Zenon DEF Live
  <1>n. ASSUME NEW t \in Threads, threads[t].pc \in AllocatePC
        PROVE  /\ threads[t].now \in Nat /\ Key(t) \in Keys
               /\ domain_to_ip[Key(t)] \in IPs \cup {None}
    BY Zenon, <1>n, ThreadParts, RequestParts DEF Key, TypeInv, TypeOK
  <1>e. ASSUME NEW t \in Threads, NEW S \in SUBSET Victims, EvictNext(t, S) PROVE Leaves(t)
    <2>1. CASE S = {} /\ threads[t].req = None
      BY <1>e, <1>r, <2>1 DEF EvictNext
    <2>2. CASE ~(S = {} /\ threads[t].req = None)
      <3>1. PICK w \in ThreadState : /\ threads' = [threads EXCEPT ![t] = w]
                                     /\ w.pc = IF S = {} THEN "recheck" ELSE "forward"
        BY <1>e, <2>2, EvictNextGoesOn
      <3> QED
        BY Zenon, <3>1 DEF TypeInv, TypeOK
    <2> QED
      BY Zenon, <2>1, <2>2
  <1>1. CASE UNCHANGED vars \/ CacheTick
    <2>1. Live' = Live /\ PastCap' = PastCap
      BY Zenon, <1>1 DEF vars, cacheVars, CacheTick, Live, PastCap
    <2> QED
      BY Zenon, <2>1, CapKept
  <1>2. ASSUME NEW ip \in IPs, Lookup(ip) PROVE CapOvershootBounded'
    <2>1. clock \in Nat
      BY Zenon DEF TypeInv, TypeOK, RLTypeOK
    <2>2. Live' = Live /\ PastCap' = PastCap
      BY <1>2, <2>1, RefreshKeeps DEF Lookup, PastCap
    <2> QED
      BY Zenon, <2>2, CapKept
  <1>3. ASSUME NEW t \in Threads, Allocate(t) \/ EvictCall(t) \/ FlushCall(t)
        PROVE  CapOvershootBounded'
    <2>1. Leaves(t)
      BY ZenonT(60), <1>3 DEF Allocate, EvictCall, FlushCall, ThreadIdle, TypeInv, TypeOK
    <2>2. Live' = Live
      BY Zenon, <1>3, <1>u DEF Allocate, EvictCall, FlushCall
    <2> QED
      BY Zenon, <1>k, <2>1, <2>2
  <1>4. ASSUME NEW t \in Threads, FastPath(t) PROVE CapOvershootBounded'
    <2>1. /\ threads[t].now \in Nat
          /\ domain_to_ip[Key(t)] \in IPs \cup {None}
      BY Zenon, <1>4, <1>n DEF FastPath, AllocatePC
    <2>2. Live' = Live
      BY ZenonT(30), <1>4, <1>u, <2>1, RefreshKeeps DEF FastPath
    <2>3. Leaves(t)
      BY ZenonT(60), <1>4, <1>g, <1>r DEF FastPath
    <2> QED
      BY Zenon, <1>k, <2>2, <2>3
  <1>5. ASSUME NEW t \in Threads, LimiterStep(t) PROVE CapOvershootBounded'
    <2>1. Live' = Live /\ PastCap' = PastCap
      BY Zenon, <1>5 DEF LimiterStep, cacheVars, Live, PastCap
    <2> QED
      BY Zenon, <2>1, CapKept
  <1>6. ASSUME NEW t \in Threads, RateChecked(t) PROVE CapOvershootBounded'
    <2>1. Leaves(t)
      BY ZenonT(30), <1>6, <1>g, <1>r DEF RateChecked
    <2> QED
      BY Zenon, <1>6, <1>k, <1>u, <2>1 DEF RateChecked
  <1>7. ASSUME NEW t \in Threads, CapCheck(t) \/ CapRecheck(t) PROVE CapOvershootBounded'
    <2>1. Live' = Live
      BY Zenon, <1>7, <1>u DEF CapCheck, CapRecheck
    <2>2. CASE ~Full
      BY <2>1, <2>2, CapPassed, SMTT(60)
    <2>3. CASE Full
      <3>1. Goto(t, "scan") \/ Return(t, None)
        BY Zenon, <1>7, <2>3 DEF CapCheck, CapRecheck
      <3>2. Leaves(t)
        BY <1>g, <1>r, <3>1
      <3> QED
        BY Zenon, <1>k, <2>1, <3>2
    <2> QED
      BY Zenon, <2>2, <2>3
  <1>8. ASSUME NEW t \in Threads, TakeEntry(t) PROVE CapOvershootBounded'
    <2>1. /\ threads[t].now \in Nat
          /\ domain_to_ip[Key(t)] \in IPs \cup {None}
      BY Zenon, <1>8, <1>n DEF TakeEntry, AllocatePC
    <2>2. Live' = Live
      BY ZenonT(30), <1>8, <1>u, <2>1, RefreshKeeps DEF TakeEntry
    <2>3. PastCap' \subseteq PastCap
      <3>1. threads[t].pc = "entry" /\ Elsewhere(t)
        BY ZenonT(30), <1>8, <1>g, <1>r DEF TakeEntry
      <3> QED
        BY Zenon, <3>1 DEF PastCap
    <2> QED
      BY Zenon, <2>2, <2>3, CapKept
  <1>9. ASSUME NEW t \in Threads, Mint(t) PROVE CapOvershootBounded'
    <2> DEFINE c == threads[t].req.cidr
               ip == IpAdd(c, offsets[c])
    <2>1. t \in PastCap
      BY Zenon, <1>9 DEF Mint, PastCap
    <2>2. CASE offsets[c] < Capacity(c) /\ ip # None
      <3>1. c \in Cidrs /\ offsets[c] \in Nat
        BY Zenon, <1>9, ThreadParts, RequestParts DEF Mint, AllocatePC, TypeInv, TypeOK
      <3>2. ip \in IPs
        BY Zenon, <2>2, <3>1, IpAddType
      <3>3. Live' \subseteq Live \cup {ip}
        <4>1. PICK e : ip_to_dest' = [ip_to_dest EXCEPT ![ip] = e]
          BY Zenon, <1>9, <2>2 DEF Mint
        <4> HIDE DEF ip
        <4> QED
          BY Zenon, <3>2, <4>1 DEF Live, TypeInv, TypeOK
      <3>4. Leaves(t)
        <4>1. threads' = [threads EXCEPT ![t].pc = "publish", ![t].ip = ip]
          BY Zenon, <1>9, <2>2 DEF Mint
        <4> HIDE DEF ip
        <4> QED
          BY Zenon, <4>1 DEF TypeInv, TypeOK, ThreadState
      <3> QED
        BY <1>l, <2>1, <3>2, <3>3, <3>4, CapSpent
    <2>3. CASE ~(offsets[c] < Capacity(c) /\ ip # None)
      <3>1. Return(t, None) /\ UNCHANGED ip_to_dest
        BY Zenon, <1>9, <2>3 DEF Mint
      <3> QED
        BY <1>k, <1>r, <1>u, <3>1
    <2> QED
      BY Zenon, <2>2, <2>3
  <1>10. ASSUME NEW t \in Threads, Publish(t) PROVE CapOvershootBounded'
    BY <1>10, <1>k, <1>r, <1>u, SMTT(60) DEF Publish
  <1>11. ASSUME NEW t \in Threads, EvictScan(t) PROVE CapOvershootBounded'
    <2>1. Leaves(t)
      BY Zenon, <1>11, <1>e, StaleType DEF EvictScan
    <2> QED
      BY <1>11, <1>k, <1>u, <2>1 DEF EvictScan
  <1>12. ASSUME NEW t \in Threads, EvictForward(t) PROVE CapOvershootBounded'
    <2>1. PICK v \in threads[t].stale :
            /\ ip_to_dest' = [ip_to_dest EXCEPT ![v[1]] = None]
            /\ threads' = [threads EXCEPT ![t].pc = "reverse", ![t].victim = v]
      BY ZenonT(30), <1>12 DEF EvictForward
    <2>2. Live' \subseteq Live
      BY Zenon, <2>1 DEF Live, TypeInv, TypeOK
    <2>3. Leaves(t)
      BY Zenon, <2>1 DEF TypeInv, TypeOK, ThreadState
    <2> QED
      BY Zenon, <1>k, <2>2, <2>3
  <1>13. ASSUME NEW t \in Threads, EvictReverse(t) PROVE CapOvershootBounded'
    <2>1. threads[t].stale \ {threads[t].victim} \in SUBSET Victims
      BY Zenon, ThreadParts
    <2>2. Leaves(t)
      BY Zenon, <1>13, <1>e, <2>1 DEF EvictReverse
    <2> QED
      BY Zenon, <1>13, <1>k, <1>u, <2>2 DEF EvictReverse
  <1>14. ASSUME NEW t \in Threads, FlushStep(t) PROVE CapOvershootBounded'
    <2>1. Leaves(t)
      <3>1. \/ \E pc \in {"flush_reverse", "flush_offsets", "flush_start", "flush_count"} :
                 Goto(t, pc)
            \/ Return(t, None)
        BY Zenon, <1>14 DEF FlushStep, FlushForward, FlushReverse, FlushOffsets, FlushStart, FlushCount
      <3> QED
        BY Zenon, <1>g, <1>r, <3>1
    <2>2. Live' \subseteq Live
      BY Zenon, <1>14 DEF FlushStep, FlushForward, FlushReverse, FlushOffsets, FlushStart, FlushCount, Live
    <2> QED
      BY Zenon, <1>k, <2>1, <2>2
  <1> QED
    BY <1>1, <1>2, <1>3, <1>4, <1>5, <1>6, <1>7, <1>8, <1>9, <1>10, <1>11, <1>12, <1>13, <1>14, SMTT(60)
       DEF FlushNext, Next, AllocateStep, EvictStep

(* max_entries is passed only by allocations that were already under way:  *)
(* with n worker threads the cache never holds max_entries + n addresses,  *)
(* however the cap checks, inserts, evictions and flushes interleave.      *)
THEOREM CapHolds == ASSUME Threads # {} PROVE FlushSpec => []CapOvershootBounded
  <1>1. Init => CapOvershootBounded
    <2>1. Init => Live = {} /\ PastCap = {}
      BY DEF Init, Live, PastCap, ThreadIdle
    <2>2. Cardinality(Threads) \in Nat \ {0}
      BY Zenon, ThreadsAssumption, FS_CardinalityType, FS_EmptySet
    <2> QED
      BY <2>1, <2>2, CacheLimitsAssumption, FS_EmptySet DEF CapOvershootBounded
  <1>2. TypeInv /\ CapOvershootBounded /\ [FlushNext]_vars => CapOvershootBounded'
    BY Zenon, CapStep
  <1> QED
    BY <1>1, <1>2, TypeInit, TypeStep, PTL DEF FlushSpec

===============================================================================
