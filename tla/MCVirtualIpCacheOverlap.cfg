SPECIFICATION Spec
CONSTANTS
    None = None
    t1 = t1
    t2 = t2
    t3 = t3
    d1 = d1
    d2 = d2
    cluster = cluster
    Metadata = {cluster}
    Threads = {t1, t2}
    Domains = {d1, d2}
    Cidrs <- HostBitRanges
    Requests <- SplitRequests
    Width4 = 3
    Width6 = 0
    CounterWidth = 4
    Shards = {0, 1}
    Shard <- ShardByDomain
    MaxEntries = 4
    IdleTtl = 1
    MaxAllocsPerWindow = 1
    RateWindow = 0
    MaxClock = 1
SYMMETRY ThreadSymmetry
INVARIANT AnswersOwnAddress
