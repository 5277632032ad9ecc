--------------------------- MODULE MCVirtualIpCache ---------------------------
(* Small instances of VirtualIpCache: IPv4 addresses of one to three bits, *)
(* the keys of each domain in a shard of their own.                        *)
EXTENDS VirtualIpCache, TLC

CONSTANTS t1, t2, t3, d1, d2, cluster

Small4 == [v6 |-> FALSE, base |-> 0, prefix |-> 1]
(* Two networks that do not overlap, the first written with a host bit set. *)
HostBits == [v6 |-> FALSE, base |-> 1, prefix |-> 2]
NextNet == [v6 |-> FALSE, base |-> 2, prefix |-> 2]

OneRange == {Small4}
HostBitRanges == {HostBits, NextNet}

AllRequests == [domain : Domains, cidr : Cidrs, metadata : Metadata]
SplitRequests ==
    {[domain |-> d1, cidr |-> HostBits, metadata |-> cluster],
     [domain |-> d2, cidr |-> NextNet, metadata |-> cluster]}

ShardByDomain == [k \in Keys |-> IF k[1] = d1 THEN 0 ELSE 1]

ThreadSymmetry == Permutations(Threads)
================================================================================
