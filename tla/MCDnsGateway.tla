----------------------------- MODULE MCDnsGateway -----------------------------
(* Small instances of DnsGateway, with addresses of two bits (IPv4) and    *)
(* one (IPv6).  In one layout a catch-all stands between the two families  *)
(* of a dual-stack wildcard and shares a range with it; in the other a     *)
(* single name is intercepted.                                             *)
EXTENDS DnsGateway, TLC

CONSTANTS t1, t2, aws, any

Api == <<"api", "aws", "com">>
Deep == <<"a", "api", "aws", "com">>
QueriedNames == {Api, Deep}

Net4 == [v6 |-> FALSE, base |-> 0, prefix |-> 1]
Net6 == [v6 |-> TRUE, base |-> 0, prefix |-> 1]
Ranges == {Net4, Net6}

Matcher(pattern, cidr, metadata) ==
    [pattern |-> pattern, cidr |-> cidr, metadata |-> metadata]
Wildcard == <<"*", "aws", "com">>
Layouts ==
    {[domains |-> <<Matcher(Wildcard, Net4, aws), Matcher(<<"*">>, Net6, any),
                    Matcher(Wildcard, Net6, aws)>>,
      fail_open |-> FALSE],
     [domains |-> <<Matcher(Api, Net4, aws)>>, fail_open |-> TRUE]}

AllRequests == [domain : Domains, cidr : Cidrs, metadata : Metadata]

ShardByName == [k \in Keys |-> IF k[1] = Api THEN 0 ELSE 1]

ThreadSymmetry == Permutations(Threads)
================================================================================
