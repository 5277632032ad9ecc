SPECIFICATION FlushFairSpec
CONSTANTS
    None = None
    t1 = t1
    t2 = t2
    t3 = t3
    d1 = d1
    d2 = d2
    cluster = cluster
    Metadata = {cluster}
    Threads = {t1, t2}
    Domains = {d1, d2}
    Cidrs <- OneRange
    Requests <- AllRequests
    Width4 = 1
    Width6 = 0
    CounterWidth = 4
    Shards = {0, 1}
    Shard <- ShardByDomain
    MaxEntries = 1
    IdleTtl = 1
    MaxAllocsPerWindow = 1
    RateWindow = 1
    MaxClock = 1
INVARIANT CapOvershootBounded
PROPERTY LocksReleased
