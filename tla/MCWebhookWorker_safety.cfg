\* Two workers, two deliveries of two webhooks in one batch, a fault.
SPECIFICATION Spec
CONSTANTS
    NumDeliveries = 2
    Hooks = {h1, h2}
    HookOf <- Owners
    Workers = {w1, w2}
    Tokens = {t1, t2, t3}
    NoToken = NoToken
    BatchSize = 2
    MaxAttempts = 2
    MaxFaults = 1
SYMMETRY Symmetry
INVARIANTS
    ClaimIsExclusive
    DuplicatesNeedFaults
    AttemptsAreCounted
    GivenUpForAReason
PROPERTIES
    Fenced
    ImplementsAtLeastOnce
