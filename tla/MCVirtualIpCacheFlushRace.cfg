SPECIFICATION FlushSpec
CONSTANTS
    None = None
    t1 = t1
    t2 = t2
    t3 = t3
    d1 = d1
    d2 = d2
    cluster = cluster
    Metadata = {cluster}
    Threads = {t1, t2, t3}
    Domains = {d1, d2}
    Cidrs <- OneRange
    Requests <- AllRequests
    Width4 = 2
    Width6 = 0
    CounterWidth = 4
    Shards = {0, 1}
    Shard <- ShardByDomain
    MaxEntries = 2
    IdleTtl = 1
    MaxAllocsPerWindow = 1
    RateWindow = 0
    MaxClock = 0
SYMMETRY ThreadSymmetry
INVARIANT NoSharedAddress
