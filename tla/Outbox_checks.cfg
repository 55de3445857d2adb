\* Two publishers race over three events in batches of two, with a fault; no symmetry,
\* which is unsound for liveness.
SPECIFICATION FairSpec
CONSTANTS
    NumEvents = 3
    Publishers = {p1, p2}
    Tokens = {t1, t2, t3}
    NoToken = NoToken
    BatchSize = 2
    MaxFaults = 1
INVARIANTS
    OneOwner
    DuplicatesNeedFaults
PROPERTIES
    Fenced
    ImplementsAtLeastOnce
    EventuallyPublished
