SPECIFICATION RLFairSpec
CONSTANTS
    Threads = {t1, t2}
    MaxAllocsPerWindow = 2
    RateWindow = 2
    MaxClock = 5
INVARIANT CountNeverRunsAway
INVARIANT GrantsBounded
PROPERTY WindowMovesForward
PROPERTY LimiterAnswers
