------------------------------ MODULE DnsGateway ------------------------------
(***************************************************************************)
(* The dns-gateway extension: the resolver, a UDP listener filter that      *)
(* answers queries for configured domains with virtual addresses, and the  *)
(* lookup filter, which labels a connection to such an address.  They meet *)
(* only in the process-wide cache; every worker thread runs both.  A name  *)
(* is the sequence of its labels, without the trailing dot.                *)
(***************************************************************************)
EXTENDS VirtualIpCache, Sequences

CONSTANT Configs    \* resolver configurations: [domains, fail_open]

(* DnsGatewayFilterConfig::new, for one matcher.  hickory's num_labels does *)
(* not count the wildcard label.                                           *)
Accepted(m) ==
    /\ m.pattern # << >>
    /\ m.pattern = <<"*">> \/ (m.pattern[1] = "*" => Len(m.pattern) - 1 >= 2)
    /\ ValidCidr(m.cidr)

Matchers == [pattern : Seq(STRING), cidr : Cidrs, metadata : Metadata]

ASSUME ConfigAssumption ==
    \A c \in Configs :
        /\ c \in [domains : Seq(Matchers), fail_open : BOOLEAN]
        /\ \A i \in DOMAIN c.domains : Accepted(c.domains[i])
ASSUME RequestsOfMatchers ==
    Requests = [domain : Domains, cidr : Cidrs, metadata : Metadata]

VARIABLES
    config,     \* the configuration of the listener
    queries     \* queries[t]: the datagram thread t handles, or handled last

dnsVars == <<config, queries>>

Types == {"A", "AAAA", "other"}
Questions == [domain : Domains, type : Types]
(* None: not a DNS message, not a query, or without a question. *)
Datagrams == Questions \cup {None}

(* verdict: what on_data returned.  reply: the answer section of the       *)
(* datagram sent back, empty for NODATA; None when nothing was sent.  The  *)
(* question is kept while it matters: not when it was of no interest, or   *)
(* when its answer was lost.                                               *)
Replies == {{ip} : ip \in IPs} \cup {{}, None}
ASSUME ReplyAssumption == None \notin {{ip} : ip \in IPs} \cup {{}}
QueryState == [question : Datagrams,
               verdict : {"none", "pending", "Continue", "StopIteration"},
               reply : Replies]
NoQuery == [question |-> None, verdict |-> "none", reply |-> None]

DnsInit ==
    /\ Init
    /\ config \in Configs
    /\ queries = [t \in Threads |-> NoQuery]

-------------------------------------------------------------------------------
(* "*" matches every name, "*.base" a name with one label before base, any *)
(* other pattern itself.                                                   *)
matches_domain(pattern, domain) ==
    \/ pattern = <<"*">>
    \/ IF pattern[1] = "*"
       THEN Len(domain) = Len(pattern) /\ Tail(domain) = Tail(pattern)
       ELSE domain = pattern

(* process_dns_query on the matchers D, in the order of the configuration. *)
Matching(D, domain) == {i \in DOMAIN D : matches_domain(D[i].pattern, domain)}
FirstOf(S) == CHOOSE i \in S : \A j \in S : i <= j
Owner(D, domain) == D[FirstOf(Matching(D, domain))]

(* Slip: the family is looked for among all the patterns that match. *)
CandidatesOfAnyPattern(D, q) ==
    {i \in Matching(D, q.domain) : D[i].cidr.v6 = (q.type = "AAAA")}

(* The matchers of the winning pattern that have the family asked for. *)
Candidates(D, q) ==
    {i \in DOMAIN D : /\ D[i].pattern = Owner(D, q.domain).pattern
                      /\ D[i].cidr.v6 = (q.type = "AAAA")}

Intercepted(D, q) == q # None /\ Matching(D, q.domain) # {}
Mintable(D, q) == q.type # "other" /\ Candidates(D, q) # {}
Allocation(D, q) ==
    LET m == D[FirstOf(Candidates(D, q))]
    IN  [domain |-> q.domain, cidr |-> m.cidr, metadata |-> m.metadata]

Settle(t, q, verdict, reply) ==
    queries' = [queries EXCEPT ![t] = [question |-> q, verdict |-> verdict, reply |-> reply]]
(* on_data with a response: nothing is sent without a peer address, or when *)
(* send_datagram fails; the query is not forwarded either way.             *)
Send(t, q, answers) ==
    \/ Settle(t, q, "StopIteration", answers)
    \/ Settle(t, None, "StopIteration", None)

(* Slip: a family the winning pattern lacks is left to the upstream.  *)
OnDataFallsThrough(t) ==
    LET D == config.domains
    IN  /\ threads[t].pc = "idle" /\ queries[t].verdict # "pending"
        /\ \E q \in Datagrams :
             \/ /\ Intercepted(D, q) => q.type # "other" /\ ~Mintable(D, q)
                /\ Settle(t, q, "Continue", None)
                /\ UNCHANGED vars
             \/ /\ Intercepted(D, q) /\ q.type = "other"
                /\ Send(t, q, {})
                /\ UNCHANGED vars
             \/ /\ Intercepted(D, q) /\ Mintable(D, q)
                /\ Settle(t, q, "pending", None)
                /\ Allocate(t) /\ threads'[t].req = Allocation(D, q)
        /\ UNCHANGED config

(* A datagram arrives: on_data up to the call of allocate.  What is not    *)
(* intercepted goes upstream; a question no address can answer gets        *)
(* NODATA.                                                                 *)
OnData(t) ==
    LET D == config.domains
    IN  /\ threads[t].pc = "idle" /\ queries[t].verdict # "pending"
        /\ \E q \in Datagrams :
             \/ /\ ~Intercepted(D, q)
                /\ Settle(t, None, "Continue", None)
                /\ UNCHANGED vars
             \/ /\ Intercepted(D, q) /\ ~Mintable(D, q)
                /\ Send(t, q, {})
                /\ UNCHANGED vars
             \/ /\ Intercepted(D, q) /\ Mintable(D, q)
                /\ Settle(t, q, "pending", None)
                /\ Allocate(t) /\ threads'[t].req = Allocation(D, q)
        /\ UNCHANGED config

(* allocate returned: the rest of process_dns_query and of on_data. *)
Respond(t) ==
    /\ threads[t].pc = "idle" /\ queries[t].verdict = "pending"
    /\ LET q == queries[t].question
           ip == threads[t].ret
       IN  IF ip = None /\ config.fail_open
           THEN Settle(t, q, "Continue", None)
           ELSE Send(t, q, IF ip = None THEN {} ELSE {ip})
    /\ UNCHANGED <<vars, config>>

(* The filter state on_new_connection sets for a connection to ip; none is *)
(* set on a miss, and the connection continues.                            *)
FilterState(ip) ==
    IF ip_to_dest[ip] = None THEN None
    ELSE [domain |-> ip_to_dest[ip].domain, metadata |-> ip_to_dest[ip].metadata]

OnNewConnection(ip) == Lookup(ip) /\ UNCHANGED dnsVars

CacheStep(t) == (AllocateStep(t) \/ EvictStep(t)) /\ UNCHANGED dnsVars

DnsNext ==
    \/ CacheTick /\ UNCHANGED dnsVars
    \/ \E ip \in IPs : OnNewConnection(ip)
    \/ \E t \in Threads : OnData(t) \/ CacheStep(t) \/ Respond(t)

DnsSpec == DnsInit /\ [][DnsNext]_<<vars, dnsVars>>

-------------------------------------------------------------------------------
(* The cache's types, and the two filters'. *)
DnsTypeOK ==
    /\ TypeOK
    /\ config \in Configs
    /\ queries \in [Threads -> QueryState]

(* First-match precedence from the query to the connection: an address in  *)
(* a reply comes from a range of the first pattern that matches the name,  *)
(* in the family asked for, and for as long as the client may use it a     *)
(* connection to it is labelled with that name and that matcher's          *)
(* metadata, or not at all; never with what another pattern configures.    *)
LabelledByWinner ==
    \A t \in Threads :
        LET q == queries[t].question
            D == config.domains
        IN  queries[t].reply \notin {None, {}} =>
              \A ip \in queries[t].reply : \E k, i \in DOMAIN D :
                 /\ matches_domain(D[k].pattern, q.domain)
                 /\ \A j \in 1 .. k - 1 : ~matches_domain(D[j].pattern, q.domain)
                 /\ D[i].pattern = D[k].pattern
                 /\ D[i].cidr.v6 = (q.type = "AAAA")
                 /\ ip \in Reachable(D[i].cidr)
                 /\ FilterState(ip) \in {None, [domain |-> q.domain,
                                                metadata |-> D[i].metadata]}

(* "never pass-through, so it can't leak to upstream resolvers": a query   *)
(* for an intercepted name goes upstream only under fail_open, and only    *)
(* when the cache refused an address of the winning pattern.               *)
NeverLeaks ==
    \A t \in Threads :
        LET q == queries[t].question
        IN  queries[t].verdict = "Continue" /\ Intercepted(config.domains, q) =>
              /\ config.fail_open
              /\ threads[t].req # None /\ KeyOf(threads[t].req) = <<q.domain, q.type = "AAAA">>
              /\ threads[t].ret = None
================================================================================
