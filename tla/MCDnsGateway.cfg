SPECIFICATION DnsSpec
CONSTANTS
    None = None
    t1 = t1
    t2 = t2
    aws = aws
    any = any
    Threads = {t1, t2}
    Domains <- QueriedNames
    Cidrs <- Ranges
    Metadata = {aws, any}
    Requests <- AllRequests
    Configs <- Layouts
    Width4 = 2
    Width6 = 1
    CounterWidth = 4
    Shards = {0, 1}
    Shard <- ShardByName
    MaxEntries = 1
    IdleTtl = 1
    MaxAllocsPerWindow = 1
    RateWindow = 0
    MaxClock = 1
SYMMETRY ThreadSymmetry
INVARIANT DnsTypeOK
INVARIANT AnswersOwnAddress
INVARIANT MapsMirror
INVARIANT LabelledByWinner
 
PROPERTY ImplementsDirectory
