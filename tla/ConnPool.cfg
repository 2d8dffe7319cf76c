SPECIFICATION FairSpec
CONSTANTS
    Threads = {t1, t2, t3}
    Conns   = {k1, k2, k3}
    InitialSize = 1
    MaxSize = 2
    Refusals = TRUE
    Spurious = TRUE
INVARIANTS TypeOK NoSharing SizeIsExact
PROPERTIES SomeoneGetsThrough EachGetsThrough
