--------------------------- MODULE DnsGatewayProofs ---------------------------
(* The filters use the cache as its specification allows, so whatever is   *)
(* proved of the cache alone holds under them; and intercepted queries do  *)
(* not leak.                                                               *)
EXTENDS DnsGateway, VirtualIpCacheProofs, WellFoundedInduction

LEMMA DnsStepIsCacheStep == [DnsNext]_<<vars, dnsVars>> => [Next]_vars
  <1> SUFFICES ASSUME [DnsNext]_<<vars, dnsVars>> PROVE [Next]_vars
    OBVIOUS
  <1>1. CASE CacheTick
    BY Zenon, <1>1 DEF Next
  <1>2. ASSUME NEW ip \in IPs, OnNewConnection(ip) PROVE Next
    BY Zenon, <1>2 DEF OnNewConnection, Next
  <1>3. ASSUME NEW t \in Threads, OnData(t) PROVE [Next]_vars
    BY Zenon, <1>3 DEF OnData, Next
  <1>4. ASSUME NEW t \in Threads, CacheStep(t) PROVE Next
    BY Zenon, <1>4 DEF CacheStep, Next
  <1>5. ASSUME NEW t \in Threads, Respond(t) PROVE UNCHANGED vars
    BY Zenon, <1>5 DEF Respond
  <1>6. CASE UNCHANGED <<vars, dnsVars>>
    BY Zenon, <1>6
  <1> QED
    BY <1>1, <1>2, <1>3, <1>4, <1>5, <1>6 DEF DnsNext

(* The resolver and the lookup filter drive the cache only through the     *)
(* operations of its specification.                                        *)
THEOREM FiltersUseCache == DnsSpec => Spec
  <1>1. DnsInit => Init
    BY Zenon DEF DnsInit
  <1> QED
    BY <1>1, DnsStepIsCacheStep, PTL DEF DnsSpec, Spec

(* Behind the filters too, over ranges that do not overlap, an address that *)
(* is answered belongs to the name asked for.                              *)
THEOREM DnsAnswersOwn == ASSUME RangesDisjoint PROVE DnsSpec => []AnswersOwnAddress
  BY FiltersUseCache, AnswersOwn, PTL

-------------------------------------------------------------------------------
(* The least element of a non-empty set of indices. *)
LEMMA FirstOfMember ==
    ASSUME NEW S, S \subseteq Nat, S # {}
    PROVE  FirstOf(S) \in S /\ \A j \in S : FirstOf(S) <= j
  <1> DEFINE R == OpToRel(<, Nat)
  <1>1. \E x \in S : \A y \in S : ~(<<y, x>> \in R)
    <2>1. IsWellFoundedOn(R, Nat)
      BY Zenon, NatLessThanWellFounded
    <2> HIDE DEF R
    <2> QED
      BY Zenon, <2>1, WFMin
  <1>2. \A x, y \in Nat : <<y, x>> \in R <=> y < x
    BY Zenon DEF OpToRel
  <1> HIDE DEF R
  <1>3. \E x \in S : \A y \in S : x <= y
    <2>1. PICK x \in S : \A y \in S : ~(<<y, x>> \in R)
      BY Zenon, <1>1
    <2>2. \A y \in S : ~(y < x)
      BY Zenon, <1>2, <2>1
    <2>3. \A y \in S : x <= y
      BY <2>2
    <2> QED
      BY Zenon, <2>3
  <1> QED
    BY Zenon, <1>3 DEF FirstOf

(* What the resolver asks the cache for is the name and family asked. *)
LEMMA AllocationParts ==
    ASSUME NEW c \in Configs, NEW q \in Questions, Mintable(c.domains, q)
    PROVE  LET i == FirstOf(Candidates(c.domains, q))
               r == Allocation(c.domains, q)
           IN  /\ i \in Candidates(c.domains, q) /\ c.domains[i] \in Matchers
               /\ r = [domain |-> q.domain, cidr |-> c.domains[i].cidr,
                       metadata |-> c.domains[i].metadata]
               /\ r \in Requests
               /\ KeyOf(r) = <<q.domain, q.type = "AAAA">>
  <1> DEFINE D == c.domains
             i == FirstOf(Candidates(D, q))
             r == Allocation(D, q)
  <1>1. D \in Seq(Matchers)
    BY Zenon, ConfigAssumption
  <1>2. Candidates(D, q) \subseteq DOMAIN D /\ DOMAIN D \subseteq Nat
    BY <1>1 DEF Candidates
  <1>3. i \in Candidates(D, q)
    BY Zenon, <1>2, FirstOfMember DEF Mintable
  <1>4. D[i] \in Matchers
    <2> HIDE DEF D, i
    <2> QED
      BY <1>1, <1>2, <1>3
  <1>t. D[i].cidr.v6 = (q.type = "AAAA")
    BY Zenon, <1>3 DEF Candidates
  <1>5. r = [domain |-> q.domain, cidr |-> D[i].cidr, metadata |-> D[i].metadata]
    BY Zenon DEF Allocation
  <1>6. r \in Requests
    BY <1>4, <1>5, RequestsOfMatchers DEF Matchers, Questions
  <1> QED
    BY <1>3, <1>4, <1>5, <1>6, <1>t DEF KeyOf

(* An operation that is running belongs to its thread, and keeps the       *)
(* allocation it was called with.                                          *)
LEMMA RequestKept ==
    ASSUME TypeInv, NEW t \in Threads, AllocateStep(t) \/ EvictStep(t),
           threads[t].req # None
    PROVE  /\ threads[t].pc # "idle"
           /\ threads'[t].req = threads[t].req
           /\ \A u \in Threads \ {t} : threads'[u] = threads[u]
  <1> DEFINE Kept == /\ threads'[t].req = threads[t].req
                     /\ \A u \in Threads \ {t} : threads'[u] = threads[u]
  <1>1. ASSUME NEW ip, Return(t, ip) PROVE Kept
    BY Zenon, <1>1 DEF Return, ThreadIdle, TypeInv, TypeOK
  <1>2. ASSUME NEW pc, Goto(t, pc) PROVE Kept
    BY Zenon, <1>2 DEF Goto, TypeInv, TypeOK, ThreadState
  <1>3. ASSUME NEW stale \in SUBSET Victims, EvictNext(t, stale) PROVE Kept
    BY <1>3, EvictNextGoesOn DEF TypeInv, TypeOK
  <1>4. CASE FastPath(t) \/ RateChecked(t) \/ CapCheck(t) \/ CapRecheck(t) \/ TakeEntry(t)
    BY Zenon, <1>1, <1>2, <1>4 DEF FastPath, RateChecked, CapCheck, CapRecheck, TakeEntry
  <1>5. CASE LimiterStep(t)
    BY Zenon, <1>5 DEF LimiterStep, cacheVars
  <1>6. CASE Mint(t)
    BY <1>1, <1>6 DEF Mint, TypeInv, TypeOK, ThreadState
  <1>7. CASE Publish(t)
    BY Zenon, <1>1, <1>7 DEF Publish
  <1>8. CASE EvictScan(t)
    BY Zenon, <1>3, <1>8, StaleType DEF EvictScan
  <1>9. CASE EvictForward(t)
    BY <1>9 DEF EvictForward, TypeInv, TypeOK, ThreadState
  <1>10. CASE EvictReverse(t)
    BY Zenon, <1>3, <1>10, ThreadParts DEF EvictReverse
  <1> QED
    BY Zenon, <1>4, <1>5, <1>6, <1>7, <1>8, <1>9, <1>10 DEF AllocateStep, EvictStep

-------------------------------------------------------------------------------
(* The bookkeeping of the resolver: a thread is inside the cache only for  *)
(* the query it has pending, and asks for what that query's winner gives.  *)
Asked(t) ==
    LET q == queries[t].question
    IN  /\ q \in Questions
        /\ Intercepted(config.domains, q) /\ Mintable(config.domains, q)
        /\ threads[t].req = Allocation(config.domains, q)
NoLeak(t) ==
    queries[t].verdict = "Continue" /\ Intercepted(config.domains, queries[t].question) =>
      /\ config.fail_open
      /\ threads[t].req # None
      /\ KeyOf(threads[t].req) = <<queries[t].question.domain,
                                   queries[t].question.type = "AAAA">>
      /\ threads[t].ret = None
Tidy(t) ==
    /\ threads[t].pc # "idle" => queries[t].verdict = "pending"
    /\ queries[t].verdict = "pending" => Asked(t)
    /\ NoLeak(t)
QueryInv ==
    /\ config \in Configs
    /\ queries \in [Threads -> QueryState]
    /\ \A t \in Threads : Tidy(t)

LEMMA SomeReplies == /\ {} \in Replies /\ None \in Replies
                     /\ \A ip \in IPs : {ip} \in Replies
  BY Zenon DEF Replies

LEMMA QueryInit == DnsInit => QueryInv
  BY SomeReplies
     DEF DnsInit, Init, QueryInv, Tidy, NoLeak, NoQuery, QueryState, Datagrams, ThreadIdle

(* A step of thread t leaves the others tidy. *)
LEMMA OthersTidy ==
    ASSUME QueryInv, NEW t \in Threads, config' = config,
           queries' \in [Threads -> QueryState],
           \A u \in Threads \ {t} : threads'[u] = threads[u] /\ queries'[u] = queries[u],
           Tidy(t)'
    PROVE  QueryInv'
  <1>1. ASSUME NEW u \in Threads \ {t} PROVE Tidy(u)'
    BY <1>1 DEF QueryInv, Tidy, Asked, NoLeak
  <1> QED
    BY Zenon, <1>1 DEF QueryInv

(* Settling a query touches no other thread's. *)
LEMMA SettleParts ==
    ASSUME QueryInv, NEW t \in Threads, NEW q \in Datagrams,
           NEW v \in {"pending", "Continue", "StopIteration"},
           NEW r \in Replies, Settle(t, q, v, r)
    PROVE  /\ queries' \in [Threads -> QueryState]
           /\ queries'[t].question = q /\ queries'[t].verdict = v /\ queries'[t].reply = r
           /\ \A u \in Threads \ {t} : queries'[u] = queries[u]
  BY Zenon DEF QueryInv, Settle, QueryState

LEMMA OnDataKeeps ==
    ASSUME TypeInv, QueryInv, NEW t \in Threads, OnData(t)
    PROVE  QueryInv'
  <1> DEFINE D == config.domains
  <1>1. PICK q \in Datagrams :
          \/ /\ ~Intercepted(D, q)
             /\ Settle(t, None, "Continue", None)
             /\ UNCHANGED vars
          \/ /\ Intercepted(D, q) /\ ~Mintable(D, q)
             /\ Send(t, q, {})
             /\ UNCHANGED vars
          \/ /\ Intercepted(D, q) /\ Mintable(D, q)
             /\ Settle(t, q, "pending", None)
             /\ Allocate(t) /\ threads'[t].req = Allocation(D, q)
    BY Zenon DEF OnData
  <1>2. config' = config /\ threads[t].pc = "idle"
    BY Zenon DEF OnData
  <1>3. CASE /\ UNCHANGED vars
             /\ \/ Settle(t, None, "Continue", None)
                \/ Settle(t, None, "StopIteration", None)
                \/ Settle(t, q, "StopIteration", {})
    <2>1. /\ queries' \in [Threads -> QueryState]
          /\ queries'[t].verdict \in {"Continue", "StopIteration"}
          /\ queries'[t].verdict = "Continue" => queries'[t].question = None
          /\ \A u \in Threads \ {t} : queries'[u] = queries[u]
      BY Zenon, <1>3, SettleParts, SomeReplies DEF Datagrams
    <2>2. threads' = threads
      BY Zenon, <1>3 DEF vars, cacheVars
    <2> QED
      <3>1. Tidy(t)'
        BY Zenon, <1>2, <2>1, <2>2 DEF Tidy, NoLeak, Intercepted
      <3> QED
        BY <1>2, <2>1, <2>2, <3>1, OthersTidy
  <1>4. CASE /\ Intercepted(D, q) /\ Mintable(D, q)
             /\ Settle(t, q, "pending", None)
             /\ Allocate(t) /\ threads'[t].req = Allocation(D, q)
    <2>1. /\ queries' \in [Threads -> QueryState]
          /\ queries'[t].verdict = "pending" /\ queries'[t].question = q
          /\ \A u \in Threads \ {t} : queries'[u] = queries[u]
      BY Zenon, <1>4, SettleParts, SomeReplies
    <2>2. \A u \in Threads \ {t} : threads'[u] = threads[u]
      BY <1>4 DEF Allocate
    <2>3. q \in Questions
      BY Zenon, <1>4 DEF Intercepted, Datagrams
    <2> QED
      <3>1. Tidy(t)'
        BY Zenon, <1>2, <1>4, <2>1, <2>3 DEF Tidy, NoLeak, Asked
      <3> QED
        BY <1>2, <2>1, <2>2, <3>1, OthersTidy
  <1> QED
    BY Zenon, <1>1, <1>3, <1>4 DEF Send

LEMMA RespondKeeps ==
    ASSUME TypeInv, QueryInv, NEW t \in Threads, Respond(t)
    PROVE  QueryInv'
  <1> DEFINE q == queries[t].question
             ip == threads[t].ret
  <1>1. config' = config /\ threads' = threads /\ threads[t].pc = "idle"
    BY Zenon DEF Respond, vars, cacheVars
  <1>2. Asked(t) /\ config \in Configs
    BY Zenon DEF Respond, QueryInv, Tidy
  <1>3. q \in Questions /\ q \in Datagrams /\ ip \in IPs \cup {None}
    BY Zenon, <1>2, ThreadParts DEF Asked, Datagrams
  <1>4. CASE ip = None /\ config.fail_open
    <2>1. Settle(t, q, "Continue", None)
      BY Zenon, <1>4 DEF Respond
    <2>2. /\ queries' \in [Threads -> QueryState]
          /\ queries'[t].verdict = "Continue" /\ queries'[t].question = q
          /\ \A u \in Threads \ {t} : queries'[u] = queries[u]
      BY <1>3, <2>1, SettleParts, SomeReplies, SMTT(60)
    <2>3. /\ threads[t].req # None
          /\ KeyOf(threads[t].req) = <<q.domain, q.type = "AAAA">>
      <3>1. /\ threads[t].req = Allocation(config.domains, q)
            /\ Mintable(config.domains, q)
        BY Zenon, <1>2 DEF Asked
      <3>2. /\ threads[t].req \in Requests
            /\ KeyOf(threads[t].req) = <<q.domain, q.type = "AAAA">>
        BY Zenon, <1>2, <1>3, <3>1, AllocationParts
      <3> QED
        BY Zenon, <3>2, NoneAssumption
    <2>4. Tidy(t)'
      BY <1>1, <1>4, <2>2, <2>3 DEF Tidy, NoLeak
    <2> QED
      BY Zenon, <1>1, <2>2, <2>4, OthersTidy
  <1>5. CASE ~(ip = None /\ config.fail_open)
    <2>1. PICK r \in Replies, p \in Datagrams : Settle(t, p, "StopIteration", r)
      <3>1. Send(t, q, IF ip = None THEN {} ELSE {ip})
        BY Zenon, <1>5 DEF Respond
      <3>2. (IF ip = None THEN {} ELSE {ip}) \in Replies /\ None \in Datagrams
        BY Zenon, <1>3, SomeReplies DEF Datagrams
      <3> QED
        BY <1>3, <3>1, <3>2, SomeReplies DEF Send
    <2>2. /\ queries' \in [Threads -> QueryState]
          /\ queries'[t].verdict = "StopIteration"
          /\ \A u \in Threads \ {t} : queries'[u] = queries[u]
      BY Zenon, <2>1, SettleParts
    <2>3. Tidy(t)'
      BY Zenon, <1>1, <2>2 DEF Tidy, NoLeak
    <2> QED
      BY <1>1, <2>2, <2>3, OthersTidy
  <1> QED
    BY Zenon, <1>4, <1>5

LEMMA CacheStepKeeps ==
    ASSUME TypeInv, QueryInv, NEW t \in Threads, CacheStep(t)
    PROVE  QueryInv'
  <1>1. UNCHANGED <<config, queries>> /\ (AllocateStep(t) \/ EvictStep(t))
    BY Zenon DEF CacheStep, dnsVars
  <1>2. threads[t].pc # "idle"
    BY Zenon, <1>1 DEF AllocateStep, EvictStep, FastPath, LimiterStep, RateChecked, CapCheck,
                CapRecheck, TakeEntry, Mint, Publish, EvictScan, EvictForward, EvictReverse
  <1>3. queries[t].verdict = "pending" /\ Asked(t) /\ config \in Configs
    BY Zenon, <1>2 DEF QueryInv, Tidy
  <1>4. threads[t].req # None
    BY Zenon, <1>3, AllocationParts, NoneAssumption DEF Asked
  <1>5. /\ threads'[t].req = threads[t].req
        /\ \A u \in Threads \ {t} : threads'[u] = threads[u]
    BY Zenon, <1>1, <1>4, RequestKept
  <1>6. Tidy(t)'
    BY <1>1, <1>3, <1>5 DEF Tidy, NoLeak, Asked
  <1> QED
    BY <1>1, <1>5, <1>6, OthersTidy DEF QueryInv

LEMMA QueryStep == TypeInv /\ QueryInv /\ [DnsNext]_<<vars, dnsVars>> => QueryInv'
  <1> SUFFICES ASSUME TypeInv, QueryInv, [DnsNext]_<<vars, dnsVars>> PROVE QueryInv'
    OBVIOUS
  <1>1. ASSUME UNCHANGED <<threads, config, queries>> PROVE QueryInv'
    BY Zenon, <1>1 DEF QueryInv, Tidy, Asked, NoLeak
  <1>2. CASE CacheTick /\ UNCHANGED dnsVars
    BY Zenon, <1>1, <1>2 DEF CacheTick, cacheVars, dnsVars
  <1>3. ASSUME NEW ip \in IPs, OnNewConnection(ip) PROVE QueryInv'
    BY Zenon, <1>1, <1>3 DEF OnNewConnection, Lookup, dnsVars
  <1>4. CASE UNCHANGED <<vars, dnsVars>>
    BY Zenon, <1>1, <1>4 DEF vars, cacheVars, dnsVars
  <1> QED
    BY <1>2, <1>3, <1>4, OnDataKeeps, RespondKeeps, CacheStepKeeps DEF DnsNext

LEMMA TypesAndQueries == DnsSpec => [](TypeInv /\ QueryInv)
  <1>1. DnsInit => TypeInv /\ QueryInv
    BY Zenon, TypeInit, QueryInit DEF DnsInit
  <1>2. TypeInv /\ QueryInv /\ [DnsNext]_<<vars, dnsVars>> => TypeInv' /\ QueryInv'
    <2>1. [Next]_vars => [FlushNext]_vars
      BY Zenon DEF FlushNext
    <2> QED
      BY <2>1, DnsStepIsCacheStep, TypeStep, QueryStep
  <1> QED
    BY <1>1, <1>2, PTL DEF DnsSpec

(* The state of a query keeps its type through on_data and the calls of    *)
(* the cache it makes, and so does the cache, for any configuration.       *)
THEOREM DnsTypeCorrect == DnsSpec => []DnsTypeOK
  <1>1. TypeInv /\ QueryInv => DnsTypeOK
    BY Zenon DEF TypeInv, QueryInv, DnsTypeOK
  <1> QED
    BY <1>1, TypesAndQueries, PTL

(* A query for an intercepted name reaches the upstream resolver only when *)
(* the operator chose fail_open and the cache had no address to give.      *)
THEOREM NothingLeaks == DnsSpec => []NeverLeaks
  <1>1. QueryInv => NeverLeaks
    BY Zenon DEF QueryInv, Tidy, NoLeak, NeverLeaks
  <1> QED
    BY <1>1, TypesAndQueries, PTL

-------------------------------------------------------------------------------
(* The question a key of the cache answers. *)
QuestionOf(k) == [domain |-> k[1], type |-> IF k[2] THEN "AAAA" ELSE "A"]

(* Every address was minted for a question its winner answers, out of the  *)
(* winner's range; its entry holds the winner's metadata; and a reply      *)
(* holds an address minted for its question.                               *)
MintedByWinner ==
    \A ip \in IPs : owner[ip] # None =>
        /\ Intercepted(config.domains, QuestionOf(owner[ip]))
        /\ Mintable(config.domains, QuestionOf(owner[ip]))
        /\ ip \in Reachable(Allocation(config.domains, QuestionOf(owner[ip])).cidr)
EntryOfWinner ==
    \A ip \in Live :
        ip_to_dest[ip].metadata = Allocation(config.domains, QuestionOf(owner[ip])).metadata
Answered(t) ==
    \A ip \in IPs : queries[t].reply = {ip} =>
        /\ queries[t].question \in Questions /\ queries[t].question.type # "other"
        /\ owner[ip] = <<queries[t].question.domain, queries[t].question.type = "AAAA">>
LabelInv == MintedByWinner /\ EntryOfWinner /\ \A t \in Threads : Answered(t)

LEMMA QuestionOfKey ==
    ASSUME NEW q \in Questions, q.type # "other"
    PROVE  /\ QuestionOf(<<q.domain, q.type = "AAAA">>) = q
           /\ <<q.domain, q.type = "AAAA">> \in Keys
  BY Zenon DEF QuestionOf, Questions, Types, Keys

LEMMA LabelInit == DnsInit => LabelInv
  <1> SUFFICES ASSUME DnsInit PROVE LabelInv
    OBVIOUS
  <1>1. \A ip \in IPs : owner[ip] = None /\ ip \notin Live
    BY Zenon DEF DnsInit, Init, Live
  <1>2. \A t \in Threads : queries[t].reply = None
    BY Zenon DEF DnsInit, NoQuery
  <1>3. \A ip \in IPs : None # {ip}
    BY Zenon, ReplyAssumption
  <1> QED
    BY Zenon, <1>1, <1>2, <1>3 DEF LabelInv, MintedByWinner, EntryOfWinner, Answered, Live

(* A refresh leaves the metadata of every entry as it was. *)
LEMMA RefreshKeepsMetadata ==
    ASSUME TypeInv, NEW ip \in IPs, NEW now \in Nat, ip_to_dest' = Refreshed(ip, now)
    PROVE  \A i \in Live : ip_to_dest'[i].metadata = ip_to_dest[i].metadata
  <1>1. CASE ip_to_dest[ip] = None
    BY Zenon, <1>1 DEF Refreshed, Live
  <1>2. CASE ip_to_dest[ip] # None
    <2> DEFINE e == [ip_to_dest[ip] EXCEPT !.last_used = now]
    <2>1. ip_to_dest \in [IPs -> Entry \cup {None}] /\ ip_to_dest[ip] \in Entry
      BY Zenon, <1>2 DEF TypeInv, TypeOK
    <2>2. e.metadata = ip_to_dest[ip].metadata
      BY Zenon, <2>1 DEF Entry
    <2>3. ip_to_dest' = [ip_to_dest EXCEPT ![ip] = e]
      BY Zenon, <1>2, <2>1 DEF Refreshed, Entry
    <2> HIDE DEF e
    <2> QED
      BY <2>1, <2>2, <2>3 DEF Live
  <1> QED
    BY Zenon, <1>1, <1>2

(* Steps that mint nothing. *)
LEMMA LabelKept ==
    ASSUME LabelInv, UNCHANGED <<owner, config>>, Live' \subseteq Live,
           \A i \in Live' : ip_to_dest'[i].metadata = ip_to_dest[i].metadata,
           \A t \in Threads : queries'[t] = queries[t] \/ Answered(t)'
    PROVE  LabelInv'
  <1>1. MintedByWinner'
    BY Zenon DEF LabelInv, MintedByWinner
  <1>2. EntryOfWinner'
    BY Zenon DEF LabelInv, EntryOfWinner
  <1>3. ASSUME NEW t \in Threads PROVE Answered(t)'
    BY <1>3 DEF LabelInv, Answered
  <1> QED
    BY Zenon, <1>1, <1>2, <1>3 DEF LabelInv

(* Minting puts the winner's metadata under an address of the winner's     *)
(* range, one that was never handed out.                                   *)
LEMMA MintLabels ==
    ASSUME RangesDisjoint, TypeInv, OwnInv, QueryInv, LabelInv, NEW t \in Threads,
           Mint(t), UNCHANGED <<config, queries>>
    PROVE  LabelInv'
  <1> DEFINE D == config.domains
             q == queries[t].question
             c == threads[t].req.cidr
             n == offsets[c]
             ip == IpAdd(c, n)
             e == [domain |-> threads[t].req.domain, metadata |-> threads[t].req.metadata,
                   last_used |-> threads[t].now]
  <1>1. /\ Asked(t) /\ config \in Configs
        /\ threads[t].req \in Requests /\ c \in Cidrs /\ threads[t].now \in Nat
    BY Zenon, ThreadParts, RequestParts DEF Mint, QueryInv, Tidy, AllocatePC
  <1>2. /\ q \in Questions /\ q.type # "other"
        /\ Intercepted(D, q) /\ Mintable(D, q) /\ threads[t].req = Allocation(D, q)
    BY Zenon, <1>1 DEF Asked, Mintable
  <1>3. Key(t) = <<q.domain, q.type = "AAAA">> /\ QuestionOf(Key(t)) = q
    <2>1. KeyOf(threads[t].req) = <<q.domain, q.type = "AAAA">>
      BY Zenon, <1>1, <1>2, AllocationParts
    <2> QED
      BY Zenon, <1>2, <2>1, QuestionOfKey DEF Key
  <1>4. n \in Nat /\ ip \in IPs \cup {None}
    BY Zenon, <1>1, IpAddType DEF TypeInv, TypeOK
  <1>5. CASE n < Capacity(c) /\ ip # None
    <2>1. /\ ip_to_dest' = [ip_to_dest EXCEPT ![ip] = e]
          /\ owner' = [owner EXCEPT ![ip] = Key(t)]
      BY Zenon, <1>5 DEF Mint
    <2>2. ip \in IPs /\ owner[ip] = None
      BY Zenon, <1>1, <1>4, <1>5, NextAddressIsFresh
    <2>3. ip \in Reachable(c)
      <3>1. n \in 0 .. Capacity(c) - 1
        BY <1>1, <1>4, <1>5, CapacityType
      <3> QED
        BY Zenon, <1>5, <3>1 DEF Reachable
    <2>4. /\ owner'[ip] = Key(t) /\ ip_to_dest'[ip] = e
          /\ \A i \in IPs \ {ip} : owner'[i] = owner[i] /\ ip_to_dest'[i] = ip_to_dest[i]
      BY Zenon, <2>1, <2>2 DEF TypeInv, TypeOK
    <2>5. e.metadata = Allocation(D, q).metadata /\ c = Allocation(D, q).cidr
      BY Zenon, <1>2
    <2> HIDE DEF e, c, ip, n, q
    <2>6. MintedByWinner'
      <3> SUFFICES ASSUME NEW i \in IPs, owner'[i] # None
                   PROVE  /\ Intercepted(D, QuestionOf(owner'[i]))
                          /\ Mintable(D, QuestionOf(owner'[i]))
                          /\ i \in Reachable(Allocation(D, QuestionOf(owner'[i])).cidr)
        BY Zenon DEF MintedByWinner
      <3>1. CASE i = ip
        BY <1>2, <1>3, <2>3, <2>4, <2>5, <3>1
      <3>2. CASE i # ip
        BY Zenon, <2>4, <3>2 DEF LabelInv, MintedByWinner
      <3> QED
        BY Zenon, <3>1, <3>2
    <2>7. EntryOfWinner'
      <3> SUFFICES ASSUME NEW i \in IPs, ip_to_dest'[i] # None
                   PROVE  ip_to_dest'[i].metadata =
                             Allocation(D, QuestionOf(owner'[i])).metadata
        BY Zenon DEF EntryOfWinner, Live
      <3>1. CASE i = ip
        BY <1>3, <2>4, <2>5, <3>1
      <3>2. CASE i # ip
        BY ZenonT(60), <2>4, <3>2 DEF LabelInv, EntryOfWinner, Live
      <3> QED
        BY Zenon, <3>1, <3>2
    <2>8. ASSUME NEW u \in Threads PROVE Answered(u)'
      <3> SUFFICES ASSUME NEW i \in IPs, queries[u].reply = {i}
                   PROVE  /\ queries[u].question \in Questions
                          /\ queries[u].question.type # "other"
                          /\ owner'[i] = <<queries[u].question.domain,
                                           queries[u].question.type = "AAAA">>
        BY Zenon DEF Answered
      <3>1. /\ queries[u].question \in Questions /\ queries[u].question.type # "other"
            /\ owner[i] = <<queries[u].question.domain,
                            queries[u].question.type = "AAAA">>
        BY Zenon, <2>8 DEF LabelInv, Answered
      <3>2. owner[i] \in Keys
        BY ZenonT(60), <3>1, QuestionOfKey
      <3>3. i # ip
        BY <2>2, <3>2, NoneAssumption
      <3> QED
        BY <2>4, <3>1, <3>3
    <2> QED
      BY Zenon, <2>6, <2>7, <2>8 DEF LabelInv
  <1>6. CASE ~(n < Capacity(c) /\ ip # None)
    <2>1. UNCHANGED <<ip_to_dest, owner>>
      BY Zenon, <1>6 DEF Mint
    <2> QED
      BY <2>1, LabelKept DEF Live
  <1> QED
    BY Zenon, <1>5, <1>6

LEMMA CacheStepLabels ==
    ASSUME RangesDisjoint, TypeInv, OwnInv, QueryInv, LabelInv, NEW t \in Threads,
           CacheStep(t)
    PROVE  LabelInv'
  <1>1. UNCHANGED <<config, queries>> /\ (AllocateStep(t) \/ EvictStep(t))
    BY Zenon DEF CacheStep, dnsVars
  <1>2. ASSUME UNCHANGED <<ip_to_dest, owner>> PROVE LabelInv'
    BY <1>1, <1>2, LabelKept, SMTT(60) DEF Live
  <1>3. ASSUME NEW ip \in IPs, ip_to_dest' = Refreshed(ip, threads[t].now), UNCHANGED owner
        PROVE  LabelInv'
    <2>1. threads[t].now \in Nat
      BY ZenonT(60), ThreadParts
    <2> QED
      BY <1>1, <1>3, <2>1, RefreshKeeps, RefreshKeepsMetadata, LabelKept
  <1>4. CASE FastPath(t) \/ TakeEntry(t)
    <2>1. domain_to_ip[Key(t)] \in IPs \cup {None}
      BY <1>4, ThreadParts, RequestParts DEF FastPath, TakeEntry, AllocatePC, Key, TypeInv, TypeOK
    <2> QED
      BY <1>2, <1>3, <1>4, <2>1, SMTT(60) DEF FastPath, TakeEntry
  <1>5. CASE LimiterStep(t)
    BY ZenonT(60), <1>2, <1>5 DEF LimiterStep, cacheVars
  <1>6. CASE \/ RateChecked(t) \/ CapCheck(t) \/ CapRecheck(t) \/ Publish(t)
             \/ EvictScan(t) \/ EvictReverse(t)
    BY Zenon, <1>2, <1>6 DEF RateChecked, CapCheck, CapRecheck, Publish, EvictScan, EvictReverse
  <1>7. CASE Mint(t)
    BY ZenonT(60), <1>1, <1>7, MintLabels
  <1>8. CASE EvictForward(t)
    <2>1. PICK v \in threads[t].stale : ip_to_dest' = [ip_to_dest EXCEPT ![v[1]] = None]
      BY Zenon, <1>8 DEF EvictForward
    <2>2. Live' \subseteq Live /\ \A i \in Live' : ip_to_dest'[i] = ip_to_dest[i]
      BY Zenon, <2>1 DEF Live, TypeInv, TypeOK
    <2> QED
      BY <1>1, <1>8, <2>2, LabelKept DEF EvictForward
  <1> QED
    BY <1>1, <1>4, <1>5, <1>6, <1>7, <1>8 DEF AllocateStep, EvictStep

(* The resolver answers with an address minted for the question. *)
LEMMA RespondLabels ==
    ASSUME TypeInv, OwnInv, QueryInv, LabelInv, NEW t \in Threads, Respond(t)
    PROVE  LabelInv'
  <1> DEFINE q == queries[t].question
             ip == threads[t].ret
             r == IF ip = None THEN {} ELSE {ip}
  <1>1. UNCHANGED <<config, owner, ip_to_dest>>
    BY Zenon DEF Respond, vars, cacheVars
  <1>2. /\ Asked(t) /\ config \in Configs /\ q \in Questions /\ q.type # "other"
        /\ threads[t].req = Allocation(config.domains, q) /\ Mintable(config.domains, q)
    BY Zenon DEF Respond, QueryInv, Tidy, Asked, Mintable
  <1>3. ip \in IPs \cup {None} /\ q \in Datagrams /\ None \in Datagrams /\ r \in Replies
    BY Zenon, <1>2, ThreadParts, SomeReplies DEF Datagrams
  <1>4. \/ Settle(t, q, "Continue", None)
        \/ Settle(t, None, "StopIteration", None)
        \/ Settle(t, q, "StopIteration", r)
    BY ZenonT(60) DEF Respond, Send
  <1>5. /\ \A u \in Threads \ {t} : queries'[u] = queries[u]
        /\ \/ queries'[t].reply = None
           \/ queries'[t].reply = r /\ queries'[t].question = q
    BY <1>3, <1>4, SettleParts, SomeReplies, SMTT(60)
  <1>6. ip # None => owner[ip] = <<q.domain, q.type = "AAAA">>
    <2>1. KeyOf(threads[t].req) = <<q.domain, q.type = "AAAA">>
      BY ZenonT(60), <1>2, AllocationParts
    <2> QED
      BY Zenon, <2>1 DEF OwnInv, Owns, Key
  <1>7. Answered(t)'
    <2> SUFFICES ASSUME NEW i \in IPs, queries'[t].reply = {i}
                 PROVE  /\ queries'[t].question \in Questions
                        /\ queries'[t].question.type # "other"
                        /\ owner'[i] = <<queries'[t].question.domain,
                                         queries'[t].question.type = "AAAA">>
      BY Zenon DEF Answered
    <2>1. queries'[t].reply # None
      BY ZenonT(60), ReplyAssumption
    <2>2. r = {i} /\ queries'[t].question = q
      BY <1>5, <2>1
    <2>3. ip # None /\ i = ip
      BY Zenon, <2>2
    <2> QED
      BY <1>1, <1>2, <1>6, <2>2, <2>3
  <1> QED
    BY Zenon, <1>1, <1>5, <1>7, LabelKept DEF Live

LEMMA OnDataLabels ==
    ASSUME QueryInv, LabelInv, NEW t \in Threads, OnData(t)
    PROVE  LabelInv'
  <1>1. UNCHANGED <<config, owner, ip_to_dest>>
    BY Zenon DEF OnData, Allocate, vars, cacheVars
  <1>2. PICK q \in Datagrams : \/ Settle(t, None, "Continue", None)
                              \/ Send(t, q, {})
                              \/ Settle(t, q, "pending", None)
    BY Zenon DEF OnData
  <1>3. PICK p \in Datagrams, v \in {"pending", "Continue", "StopIteration"},
             r \in {None, {}} : Settle(t, p, v, r)
    BY Zenon, <1>2 DEF Send, Datagrams
  <1>4. r \in Replies
    BY Zenon, SomeReplies
  <1>5. queries'[t].reply = r /\ \A u \in Threads \ {t} : queries'[u] = queries[u]
    BY <1>3, <1>4, SettleParts
  <1>6. Answered(t)'
    <2>1. \A i \in IPs : r # {i}
      BY Zenon, ReplyAssumption
    <2> QED
      BY Zenon, <1>5, <2>1 DEF Answered
  <1> QED
    BY <1>1, <1>5, <1>6, LabelKept DEF Live

LEMMA LabelStep ==
    ASSUME RangesDisjoint
    PROVE  TypeInv /\ OwnInv /\ QueryInv /\ LabelInv /\ [DnsNext]_<<vars, dnsVars>> => LabelInv'
  <1> SUFFICES ASSUME TypeInv, OwnInv, QueryInv, LabelInv, [DnsNext]_<<vars, dnsVars>>
               PROVE  LabelInv'
    OBVIOUS
  <1>1. ASSUME UNCHANGED <<owner, ip_to_dest, config, queries>> PROVE LabelInv'
    BY Zenon, <1>1, LabelKept DEF Live
  <1>2. CASE CacheTick /\ UNCHANGED dnsVars
    BY Zenon, <1>1, <1>2 DEF CacheTick, cacheVars, dnsVars
  <1>3. ASSUME NEW ip \in IPs, OnNewConnection(ip) PROVE LabelInv'
    <2>1. clock \in Nat
      BY Zenon DEF TypeInv, TypeOK, RLTypeOK
    <2>2. ip_to_dest' = Refreshed(ip, clock) /\ UNCHANGED <<owner, config, queries>>
      BY Zenon, <1>3 DEF OnNewConnection, Lookup, dnsVars
    <2> QED
      BY <2>1, <2>2, RefreshKeeps, RefreshKeepsMetadata, LabelKept
  <1>4. CASE UNCHANGED <<vars, dnsVars>>
    BY Zenon, <1>1, <1>4 DEF vars, cacheVars, dnsVars
  <1> QED
    BY <1>2, <1>3, <1>4, OnDataLabels, RespondLabels, CacheStepLabels, SMTT(60) DEF DnsNext

(* What the invariants say of one reply. *)
LEMMA ReplyIsLabelled ==
    ASSUME TypeInv, OwnInv, QueryInv, LabelInv, NEW t \in Threads,
           NEW ip \in IPs, queries[t].reply = {ip}
    PROVE  LET q == queries[t].question
               D == config.domains
           IN  \E k, i \in DOMAIN D :
                 /\ matches_domain(D[k].pattern, q.domain)
                 /\ \A j \in 1 .. k - 1 : ~matches_domain(D[j].pattern, q.domain)
                 /\ D[i].pattern = D[k].pattern
                 /\ D[i].cidr.v6 = (q.type = "AAAA")
                 /\ ip \in Reachable(D[i].cidr)
                 /\ FilterState(ip) \in {None, [domain |-> q.domain,
                                                metadata |-> D[i].metadata]}
  <1> DEFINE q == queries[t].question
             D == config.domains
             M == Matching(D, q.domain)
             k == FirstOf(M)
             i == FirstOf(Candidates(D, q))
  <1>1. /\ q \in Questions /\ q.type # "other"
        /\ owner[ip] = <<q.domain, q.type = "AAAA">>
    BY Zenon DEF LabelInv, Answered
  <1>2. QuestionOf(owner[ip]) = q /\ owner[ip] # None
    <2>1. QuestionOf(owner[ip]) = q /\ owner[ip] \in Keys
      BY ZenonT(60), <1>1, QuestionOfKey
    <2> QED
      BY Zenon, <2>1, NoneAssumption
  <1>3. /\ Intercepted(D, q) /\ Mintable(D, q)
        /\ ip \in Reachable(Allocation(D, q).cidr)
    BY Zenon, <1>2 DEF LabelInv, MintedByWinner
  <1>4. config \in Configs
    BY Zenon DEF QueryInv
  <1>5. /\ i \in Candidates(D, q)
        /\ Allocation(D, q).cidr = D[i].cidr /\ Allocation(D, q).metadata = D[i].metadata
    BY Zenon, <1>1, <1>3, <1>4, AllocationParts DEF Allocation
  <1>6. D \in Seq(Matchers)
    BY ZenonT(60), <1>4, ConfigAssumption
  <1>7. M \subseteq DOMAIN D /\ DOMAIN D = 1 .. Len(D) /\ Len(D) \in Nat /\ M # {}
    <2> HIDE DEF D
    <2> QED
      BY <1>3, <1>6 DEF Matching, Intercepted
  <1>8. k \in M /\ \A j \in M : k <= j
    <2> HIDE DEF M
    <2> QED
      BY <1>7, FirstOfMember
  <1>9. \A j \in 1 .. k - 1 : j \notin M /\ j \in DOMAIN D
    <2> HIDE DEF D, M, k
    <2> QED
      BY <1>7, <1>8
  <1>10. /\ k \in DOMAIN D /\ matches_domain(D[k].pattern, q.domain)
         /\ \A j \in 1 .. k - 1 : ~matches_domain(D[j].pattern, q.domain)
    BY Zenon, <1>8, <1>9 DEF Matching
  <1>11. /\ i \in DOMAIN D /\ D[i].pattern = D[k].pattern
         /\ D[i].cidr.v6 = (q.type = "AAAA")
    BY Zenon, <1>5 DEF Candidates, Owner
  <1>12. FilterState(ip) \in {None, [domain |-> q.domain, metadata |-> D[i].metadata]}
    <2>1. CASE ip_to_dest[ip] = None
      BY Zenon, <2>1 DEF FilterState
    <2>2. CASE ip_to_dest[ip] # None
      <3>1. ip \in Live
        BY ZenonT(60), <2>2 DEF Live
      <3>2. ip_to_dest[ip].metadata = D[i].metadata
        BY <1>2, <1>5, <3>1 DEF LabelInv, EntryOfWinner
      <3>3. owner[ip] = <<ip_to_dest[ip].domain, ip[1]>>
        BY Zenon, <3>1 DEF OwnInv, LiveOwned
      <3>4. ip_to_dest[ip].domain = q.domain
        BY <1>1, <3>3
      <3> QED
        BY ZenonT(60), <2>2, <3>2, <3>4 DEF FilterState
    <2> QED
      BY Zenon, <2>1, <2>2
  <1>13. ip \in Reachable(D[i].cidr)
    BY Zenon, <1>3, <1>5
  <1> QED
    BY ZenonT(60), <1>10, <1>11, <1>12, <1>13

(* Over ranges that do not overlap, first-match precedence holds from the  *)
(* query to the connection, for any configuration, any number of worker    *)
(* threads and any limits: an answered address leads to the winning        *)
(* pattern's name and metadata, or to no label.                            *)
THEOREM WinnerLabels == ASSUME RangesDisjoint PROVE DnsSpec => []LabelledByWinner
  <1> DEFINE I == TypeInv /\ OwnInv /\ QueryInv /\ LabelInv
  <1>1. DnsInit => I
    BY TypeInit, OwnInit, QueryInit, LabelInit, SMTT(60) DEF DnsInit
  <1>2. I /\ [DnsNext]_<<vars, dnsVars>> => I'
    <2>1. [Next]_vars => [FlushNext]_vars
      BY Zenon DEF FlushNext
    <2> QED
      BY <2>1, DnsStepIsCacheStep, TypeStep, OwnStep, QueryStep, LabelStep, SMTT(60)
  <1>3. I => LabelledByWinner
    <2> SUFFICES ASSUME I, NEW t \in Threads, queries[t].reply \notin {None, {}}
                 PROVE  \E ip \in IPs : queries[t].reply = {ip}
      BY ReplyIsLabelled DEF LabelledByWinner
    <2>1. queries[t].reply \in Replies
      BY Zenon DEF QueryInv, QueryState
    <2> QED
      BY ZenonT(60), <2>1 DEF Replies
  <1> QED
    BY <1>1, <1>2, <1>3, PTL DEF DnsSpec

================================================================================
