SPECIFICATION FairSpec
CONSTANTS
    Requests = {r1, r2, r3, slow}
    Mixes <- MCMixes
    Slow = {slow}
    Threads = {t1, t2}
    MaxQueue = 2
    Gossip = Gossip
    Nobody = Nobody
    r1 = r1
    r2 = r2
    r3 = r3
    slow = slow
INVARIANTS
    TypeOK
    StateIsCurrent
    StatsAreCurrent
    MetricsAreCurrent
PROPERTIES
    EveryRequestAnswered
