---------------------------- MODULE VirtualIpCache ----------------------------
(***************************************************************************)
(* The process-wide virtual-IP cache of the dns-gateway extension.  Envoy  *)
(* worker threads allocate (the resolver filter) and look up (the lookup   *)
(* filter) concurrently on three sharded maps; one action is one operation *)
(* on a map, made under the shard locks the code holds at that point.      *)
(***************************************************************************)
EXTENDS RateLimiter

CONSTANTS
    Domains,        \* queried domain names
    Cidrs,          \* the configured ranges, [v6, base, prefix]
    Metadata,       \* the matchers' metadata maps
    Requests,       \* the allocations asked for: [domain, cidr, metadata]
    Width4, Width6, \* address widths: 32 and 128 in the code
    CounterWidth,   \* width of the offset counter: 64 in the code
    Shards, Shard,  \* Shard[k]: the shard of domain_to_ip that holds key k
    MaxEntries,     \* limits.max_entries
    IdleTtl,        \* limits.idle_ttl, in clock ticks
    None            \* Rust's None: no address, no entry, no request

Width(v6) == IF v6 THEN Width6 ELSE Width4

(* What DnsGatewayFilterConfig::new accepts: an address and a prefix length *)
(* of its family.  Host bits below the prefix may be set.                  *)
ValidCidr(c) ==
    /\ c \in [v6 : BOOLEAN, base : Nat, prefix : Nat]
    /\ c.base < 2 ^ Width(c.v6)
    /\ c.prefix \in 1 .. Width(c.v6)

Keys == Domains \X BOOLEAN        \* (domain, is_ipv6)
IPs == {ip \in BOOLEAN \X (0 .. 2 ^ Width4 - 1) : ~ip[1]}
         \cup {ip \in BOOLEAN \X (0 .. 2 ^ Width6 - 1) : ip[1]}

Victims == IPs \X Keys
Entry == [domain : Domains, metadata : Metadata, last_used : Nat]

ASSUME WidthAssumption == Width4 \in Nat /\ Width6 \in Nat /\ CounterWidth \in Nat
ASSUME CidrAssumption == \A c \in Cidrs : ValidCidr(c)
ASSUME RequestAssumption ==
    Requests \subseteq [domain : Domains, cidr : Cidrs, metadata : Metadata]
ASSUME ShardAssumption == Shard \in [Keys -> Shards]
ASSUME CacheLimitsAssumption == MaxEntries \in Nat /\ IdleTtl \in Nat
ASSUME NoneAssumption == None \notin IPs \cup Keys \cup Victims \cup Entry \cup Requests

VARIABLES
    ip_to_dest,     \* ip -> [domain, metadata, last_used] or None
    domain_to_ip,   \* (domain, is_ipv6) -> ip or None
    offsets,        \* range -> next offset; 0 stands for an absent counter
    threads,        \* threads[t]: the operation thread t is running
    owner           \* history: the key an address was last minted for, or None

cacheVars == <<ip_to_dest, domain_to_ip, offsets, threads, owner>>
vars == <<cacheVars, rlVars>>

(* req: the allocation; now: the timestamp passed down the calls; stale:   *)
(* the pairs evict_idle_at has still to remove; victim: the pair whose     *)
(* forward entry is gone already; ip: the address being minted; ret: the   *)
(* result of the last allocation.                                          *)
AllocatePC == {"fast", "token", "cap", "recheck", "entry", "mint", "publish"}
EvictPC == {"scan", "forward", "reverse"}
FlushPC == {"flush", "flush_reverse", "flush_offsets", "flush_start", "flush_count"}
ThreadState == [pc : {"idle"} \cup AllocatePC \cup EvictPC \cup FlushPC,
                req : Requests \cup {None}, now : Nat,
                stale : SUBSET Victims, victim : Victims \cup {None},
                ip : IPs \cup {None}, ret : IPs \cup {None}]
ThreadIdle == [pc |-> "idle", req |-> None, now |-> 0, stale |-> {},
               victim |-> None, ip |-> None, ret |-> None]
TypeOK ==
    /\ RLTypeOK
    /\ ip_to_dest \in [IPs -> Entry \cup {None}]
    /\ domain_to_ip \in [Keys -> IPs \cup {None}]
    /\ offsets \in [Cidrs -> Nat]
    /\ threads \in [Threads -> ThreadState]
    /\ owner \in [IPs -> Keys \cup {None}]

Init ==
    /\ RLInit
    /\ ip_to_dest = [ip \in IPs |-> None]
    /\ domain_to_ip = [k \in Keys |-> None]
    /\ offsets = [c \in Cidrs |-> 0]
    /\ threads = [t \in Threads |-> ThreadIdle]
    /\ owner = [ip \in IPs |-> None]

-------------------------------------------------------------------------------
KeyOf(req) == <<req.domain, req.cidr.v6>>
Key(t) == KeyOf(threads[t].req)
Live == {ip \in IPs : ip_to_dest[ip] # None}
Full == Cardinality(Live) >= MaxEntries

(* cidr_capacity, capped so that the counter type never overflows. *)
Capacity(c) ==
    LET size == 2 ^ (Width(c.v6) - c.prefix)
        most == 2 ^ CounterWidth - 1
    IN  IF size < most THEN size ELSE most

(* ip_add: the address offset places after the base, none past the family's *)
(* last address.                                                           *)
IpAdd(c, offset) ==
    IF c.base + offset < 2 ^ Width(c.v6) THEN <<c.v6, c.base + offset>> ELSE None

(* The write lock of k's shard is held from domain_to_ip.entry to the end of *)
(* the Vacant arm, the counter's from offsets.entry to the same point.     *)
EntryLocked(k) ==
    \E u \in Threads : /\ threads[u].pc \in {"mint", "publish"}
                       /\ Shard[Key(u)] = Shard[k]
OffsetsLocked(c) ==
    \E u \in Threads : threads[u].pc = "publish" /\ threads[u].req.cidr = c

Goto(t, pc) == threads' = [threads EXCEPT ![t].pc = pc]
Return(t, ip) ==
    threads' = [threads EXCEPT ![t] = [ThreadIdle EXCEPT !.req = threads[t].req,
                                                         !.ret = ip]]
(* Slip: refreshing a mapping that was evicted meanwhile puts it back. *)
RefreshedInserts(ip, now) ==
    [ip_to_dest EXCEPT ![ip] = [domain |-> None, metadata |-> None, last_used |-> now]]

Refreshed(ip, now) ==
    IF ip_to_dest[ip] = None THEN ip_to_dest
    ELSE [ip_to_dest EXCEPT ![ip].last_used = now]

-------------------------------------------------------------------------------
(* allocate(domain, base_ip, prefix_len) is called; it reads the clock. *)
Allocate(t) ==
    /\ threads[t].pc = "idle"
    /\ \E r \in Requests :
         threads' = [threads EXCEPT ![t] = [ThreadIdle EXCEPT !.pc = "fast",
                                              !.req = r, !.now = clock]]
    /\ UNCHANGED <<ip_to_dest, domain_to_ip, offsets, owner, rlVars>>

(* Known domain: refresh and answer, under the shard's read lock; otherwise *)
(* ask the rate limiter.                                                   *)
FastPath(t) ==
    /\ threads[t].pc = "fast"
    /\ ~EntryLocked(Key(t))
    /\ LET ip == domain_to_ip[Key(t)]
       IN  IF ip # None
           THEN /\ ip_to_dest' = Refreshed(ip, threads[t].now)
                /\ Return(t, ip)
                /\ UNCHANGED limiter
           ELSE /\ Goto(t, "token")
                /\ CallLimiter(t, threads[t].now)
                /\ UNCHANGED ip_to_dest
    /\ UNCHANGED <<domain_to_ip, offsets, owner, clock, rate_window_start_ms,
                   rate_window_count, windowGrants>>

LimiterStep(t) ==
    /\ threads[t].pc = "token"
    /\ TryConsumeRateToken(t)
    /\ UNCHANGED cacheVars

RateChecked(t) ==
    /\ threads[t].pc = "token"
    /\ LimiterReturned(t)
    /\ IF limiter[t].pc = "granted" THEN Goto(t, "cap") ELSE Return(t, None)
    /\ limiter' = [limiter EXCEPT ![t] = LimiterIdle]
    /\ UNCHANGED <<ip_to_dest, domain_to_ip, offsets, owner, clock,
                   rate_window_start_ms, rate_window_count, windowGrants>>

CapCheck(t) ==
    /\ threads[t].pc = "cap"
    /\ Goto(t, IF Full THEN "scan" ELSE "entry")
    /\ UNCHANGED <<ip_to_dest, domain_to_ip, offsets, owner, rlVars>>

(* Slip: the allocation goes on although eviction freed nothing. *)
CapRecheckIgnored(t) ==
    /\ threads[t].pc = "recheck"
    /\ Goto(t, "entry")
    /\ UNCHANGED <<ip_to_dest, domain_to_ip, offsets, owner, rlVars>>

CapRecheck(t) ==
    /\ threads[t].pc = "recheck"
    /\ IF Full THEN Return(t, None) ELSE Goto(t, "entry")
    /\ UNCHANGED <<ip_to_dest, domain_to_ip, offsets, owner, rlVars>>

(* Slip: the race with another allocation for the domain is not noticed. *)
TakeEntryBlind(t) ==
    /\ threads[t].pc = "entry"
    /\ ~EntryLocked(Key(t))
    /\ Goto(t, "mint")
    /\ UNCHANGED <<ip_to_dest, domain_to_ip, offsets, owner, rlVars>>

(* domain_to_ip.entry(key).  Occupied: another allocation won, reuse it.   *)
(* Vacant: keep the shard locked and go on to mint.                        *)
TakeEntry(t) ==
    /\ threads[t].pc = "entry"
    /\ ~EntryLocked(Key(t))
    /\ LET ip == domain_to_ip[Key(t)]
       IN  IF ip # None
           THEN ip_to_dest' = Refreshed(ip, threads[t].now) /\ Return(t, ip)
           ELSE Goto(t, "mint") /\ UNCHANGED ip_to_dest
    /\ UNCHANGED <<domain_to_ip, offsets, owner, rlVars>>

(* Slip: an exhausted range starts again at its first address. *)
MintReuses(t) ==
    /\ threads[t].pc = "mint"
    /\ LET c == threads[t].req.cidr
           n == offsets[c] % Capacity(c)
           ip == IpAdd(c, n)
       IN  /\ ~OffsetsLocked(c)
           /\ offsets' = [offsets EXCEPT ![c] = n + 1]
           /\ ip_to_dest' = [ip_to_dest EXCEPT ![ip] =
                  [domain |-> threads[t].req.domain,
                   metadata |-> threads[t].req.metadata,
                   last_used |-> threads[t].now]]
           /\ owner' = [owner EXCEPT ![ip] = Key(t)]
           /\ threads' = [threads EXCEPT ![t].pc = "publish", ![t].ip = ip]
    /\ UNCHANGED <<domain_to_ip, rlVars>>

(* Slip: an exhausted range is polled with the shard locked. *)
MintWaits(t) ==
    /\ threads[t].pc = "mint"
    /\ LET c == threads[t].req.cidr
           n == offsets[c]
           ip == IpAdd(c, n)
       IN  /\ ~OffsetsLocked(c)
           /\ IF n < Capacity(c)
              THEN /\ offsets' = [offsets EXCEPT ![c] = n + 1]
                   /\ ip_to_dest' = [ip_to_dest EXCEPT ![ip] =
                          [domain |-> threads[t].req.domain,
                           metadata |-> threads[t].req.metadata,
                           last_used |-> threads[t].now]]
                   /\ owner' = [owner EXCEPT ![ip] = Key(t)]
                   /\ threads' = [threads EXCEPT ![t].pc = "publish", ![t].ip = ip]
              ELSE UNCHANGED <<offsets, ip_to_dest, owner, threads>>
    /\ UNCHANGED <<domain_to_ip, rlVars>>

(* Take the next offset and insert the forward entry.  The counter's guard *)
(* is held over both, so no thread sees one without the other.  A range    *)
(* that is exhausted, or runs past the last address, mints nothing.        *)
Mint(t) ==
    /\ threads[t].pc = "mint"
    /\ LET c == threads[t].req.cidr
           n == offsets[c]
           ip == IpAdd(c, n)
       IN  /\ ~OffsetsLocked(c)
           /\ IF n < Capacity(c)
              THEN offsets' = [offsets EXCEPT ![c] = n + 1]
              ELSE UNCHANGED offsets
           /\ IF n < Capacity(c) /\ ip # None
              THEN /\ ip_to_dest' = [ip_to_dest EXCEPT ![ip] =
                          [domain |-> threads[t].req.domain,
                           metadata |-> threads[t].req.metadata,
                           last_used |-> threads[t].now]]
                   /\ owner' = [owner EXCEPT ![ip] = Key(t)]
                   /\ threads' = [threads EXCEPT ![t].pc = "publish", ![t].ip = ip]
              ELSE Return(t, None) /\ UNCHANGED <<ip_to_dest, owner>>
    /\ UNCHANGED <<domain_to_ip, rlVars>>

Publish(t) ==
    /\ threads[t].pc = "publish"
    /\ domain_to_ip' = [domain_to_ip EXCEPT ![Key(t)] = threads[t].ip]
    /\ Return(t, threads[t].ip)
    /\ UNCHANGED <<ip_to_dest, offsets, owner, rlVars>>

-------------------------------------------------------------------------------
(* evict_idle_at(now).  First collect the idle mappings, holding no lock   *)
(* afterwards; then remove them one by one, the forward entry first and    *)
(* the reverse mapping only if it still points at the address.             *)
EvictCall(t) ==
    /\ threads[t].pc = "idle"
    /\ threads' = [threads EXCEPT ![t] = [ThreadIdle EXCEPT !.pc = "scan", !.now = clock]]
    /\ UNCHANGED <<ip_to_dest, domain_to_ip, offsets, owner, rlVars>>

Idle(ip, now) == SaturatingSub(now, ip_to_dest[ip].last_used) >= IdleTtl

(* The next pair, or back to the caller: allocate_at checks the cap again. *)
EvictNext(t, stale) ==
    IF stale = {} /\ threads[t].req = None
    THEN Return(t, None)
    ELSE threads' = [threads EXCEPT
                       ![t].pc = IF stale = {} THEN "recheck" ELSE "forward",
                       ![t].stale = stale, ![t].victim = None]

EvictScan(t) ==
    /\ threads[t].pc = "scan"
    /\ EvictNext(t, IF IdleTtl = 0 THEN {}
                    ELSE {<<ip, <<ip_to_dest[ip].domain, ip[1]>>>> :
                            ip \in {i \in Live : Idle(i, threads[t].now)}})
    /\ UNCHANGED <<ip_to_dest, domain_to_ip, offsets, owner, rlVars>>

EvictForward(t) ==
    /\ threads[t].pc = "forward"
    /\ \E v \in threads[t].stale :
         /\ ip_to_dest' = [ip_to_dest EXCEPT ![v[1]] = None]
         /\ threads' = [threads EXCEPT ![t].pc = "reverse", ![t].victim = v]
    /\ UNCHANGED <<domain_to_ip, offsets, owner, rlVars>>

(* Slip: the reverse mapping is dropped whatever address it holds. *)
EvictReverseBlind(t) ==
    /\ threads[t].pc = "reverse"
    /\ LET v == threads[t].victim
       IN  /\ ~EntryLocked(v[2])
           /\ domain_to_ip' = [domain_to_ip EXCEPT ![v[2]] = None]
           /\ EvictNext(t, threads[t].stale \ {v})
    /\ UNCHANGED <<ip_to_dest, offsets, owner, rlVars>>

EvictReverse(t) ==
    /\ threads[t].pc = "reverse"
    /\ LET v == threads[t].victim
       IN  /\ ~EntryLocked(v[2])
           /\ domain_to_ip' = IF domain_to_ip[v[2]] = v[1]
                              THEN [domain_to_ip EXCEPT ![v[2]] = None]
                              ELSE domain_to_ip
           /\ EvictNext(t, threads[t].stale \ {v})
    /\ UNCHANGED <<ip_to_dest, offsets, owner, rlVars>>

(* lookup(ip), on a connection to a virtual address: a hit is refreshed with *)
(* the clock.                                                              *)
Lookup(ip) ==
    /\ ip \in Live
    /\ ip_to_dest' = Refreshed(ip, clock)
    /\ UNCHANGED <<domain_to_ip, offsets, threads, owner, rlVars>>

-------------------------------------------------------------------------------
(* flush(): three clears, two stores, while other threads go on.  A     *)
(* clear waits for the guards other threads hold.                          *)
FlushCall(t) ==
    /\ threads[t].pc = "idle"
    /\ threads' = [threads EXCEPT ![t] = [ThreadIdle EXCEPT !.pc = "flush"]]
    /\ UNCHANGED <<ip_to_dest, domain_to_ip, offsets, owner, rlVars>>

FlushForward(t) ==
    /\ threads[t].pc = "flush"
    /\ ip_to_dest' = [ip \in IPs |-> None]
    /\ Goto(t, "flush_reverse")
    /\ UNCHANGED <<domain_to_ip, offsets, owner, rlVars>>

FlushReverse(t) ==
    /\ threads[t].pc = "flush_reverse"
    /\ \A k \in Keys : ~EntryLocked(k)
    /\ domain_to_ip' = [k \in Keys |-> None]
    /\ Goto(t, "flush_offsets")
    /\ UNCHANGED <<ip_to_dest, offsets, owner, rlVars>>

FlushOffsets(t) ==
    /\ threads[t].pc = "flush_offsets"
    /\ \A c \in Cidrs : ~OffsetsLocked(c)
    /\ offsets' = [c \in Cidrs |-> 0]
    /\ Goto(t, "flush_start")
    /\ UNCHANGED <<ip_to_dest, domain_to_ip, owner, rlVars>>

FlushStart(t) ==
    /\ threads[t].pc = "flush_start"
    /\ rate_window_start_ms' = 0
    /\ windowGrants' = 0
    /\ Goto(t, "flush_count")
    /\ UNCHANGED <<ip_to_dest, domain_to_ip, offsets, owner, clock,
                   rate_window_count, limiter>>

FlushCount(t) ==
    /\ threads[t].pc = "flush_count"
    /\ rate_window_count' = 0
    /\ Return(t, None)
    /\ UNCHANGED <<ip_to_dest, domain_to_ip, offsets, owner, clock,
                   rate_window_start_ms, limiter, windowGrants>>

-------------------------------------------------------------------------------
(* A step of the operation thread t is running. *)
AllocateStep(t) ==
    \/ FastPath(t) \/ LimiterStep(t) \/ RateChecked(t)
    \/ CapCheck(t) \/ CapRecheck(t)
    \/ TakeEntry(t) \/ Mint(t) \/ Publish(t)
EvictStep(t) == EvictScan(t) \/ EvictForward(t) \/ EvictReverse(t)
FlushStep(t) ==
    \/ FlushForward(t) \/ FlushReverse(t) \/ FlushOffsets(t)
    \/ FlushStart(t) \/ FlushCount(t)

CacheTick == Tick /\ UNCHANGED cacheVars

Next ==
    \/ CacheTick
    \/ \E ip \in IPs : Lookup(ip)
    \/ \E t \in Threads : \/ Allocate(t) \/ AllocateStep(t)
                          \/ EvictCall(t) \/ EvictStep(t)

(* The cache as the two filters use it: they never flush it. *)
Spec == Init /\ [][Next]_vars

(* The whole public interface, for a caller that flushes. *)
FlushNext == Next \/ \E t \in Threads : FlushCall(t) \/ FlushStep(t)
FlushSpec == Init /\ [][FlushNext]_vars

(* A worker thread inside the cache is scheduled again. *)
FlushFairSpec ==
    /\ FlushSpec
    /\ \A t \in Threads : WF_vars(AllocateStep(t) \/ EvictStep(t) \/ FlushStep(t))

-------------------------------------------------------------------------------
(* The addresses the counter of range c can reach. *)
Reachable(c) == {IpAdd(c, n) : n \in 0 .. Capacity(c) - 1} \ {None}
RangesDisjoint == \A c, d \in Cidrs : c # d => Reachable(c) \cap Reachable(d) = {}

(* An address allocate answers was minted for the very domain and family   *)
(* asked for, and from then on lookup resolves it to that domain or to     *)
(* nothing: idle eviction, exhaustion and races never hand it to another.  *)
AnswersOwnAddress ==
    \A t \in Threads :
        LET ip == threads[t].ret
        IN  ip # None => /\ owner[ip] = Key(t)
                         /\ ip \in Live => ip_to_dest[ip].domain = Key(t)[1]

(* "without ever handing a still-in-use IP to a different domain": an      *)
(* address, once minted, belongs to its domain for good.                   *)
NeverReassigned ==
    [][\A ip \in IPs : owner[ip] # None => owner'[ip] = owner[ip]]_vars

(* What is half done: pairs whose forward entry an evictor has removed, and *)
(* entries allocate_at has inserted but not mapped yet.                    *)
Evictions == {threads[t].victim : t \in {u \in Threads : threads[u].pc = "reverse"}}
Unpublished == {threads[t].ip : t \in {u \in Threads : threads[u].pc = "publish"}}

(* The two maps mirror each other except where the code says they may not: *)
(* a mapping without an entry is one an evictor is removing, an entry      *)
(* without a mapping one that allocate_at is about to publish.             *)
MapsMirror ==
    /\ \A k \in Keys : domain_to_ip[k] # None =>
         domain_to_ip[k] \in Live \/ <<domain_to_ip[k], k>> \in Evictions
    /\ \A ip \in Live :
         domain_to_ip[<<ip_to_dest[ip].domain, ip[1]>>] = ip \/ ip \in Unpublished

(* "Returns the same IP if the domain was previously allocated": a domain  *)
(* never holds two live addresses of one family.                           *)
OneLiveAddress ==
    \A i, j \in Live : i # j => <<ip_to_dest[i].domain, i[1]>> # <<ip_to_dest[j].domain, j[1]>>

(* Threads that passed the entry cap and have not inserted yet. *)
PastCap == {t \in Threads : threads[t].pc \in {"entry", "mint"}}

(* The cap check and the insert are separate steps, so max_entries can be  *)
(* passed, but only by the allocations already under way.                  *)
CapOvershootBounded ==
    Cardinality(Live) + Cardinality(PastCap) < MaxEntries + Cardinality(Threads)

(* A shard locked by allocate_at is always unlocked again. *)
LocksReleased ==
    \A t \in Threads : threads[t].pc \in {"mint", "publish"} ~> threads[t].pc = "idle"

(* To its clients the cache is a directory that hands every address out    *)
(* once and lets it expire: no interleaving of allocations, evictions and  *)
(* lookups shows through.                                                  *)
Directory == INSTANCE VipDirectory WITH Addresses <- IPs, Names <- Keys, live <- Live
ImplementsDirectory == Directory!Spec

(* flush: "a virtual IP that is minted again can never resolve to a domain *)
(* from a previous generation": no two domains are answered one address.   *)
NoSharedAddress ==
    \A k, l \in Keys : k # l => domain_to_ip[k] = None \/ domain_to_ip[k] # domain_to_ip[l]
================================================================================
