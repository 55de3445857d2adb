\* Two deliveries, one worker, one fault; no symmetry, unsound for liveness.
SPECIFICATION FairSpec
CONSTANTS
    NumDeliveries = 2
    Hooks = {h1, h2}
    HookOf <- Owners
    Workers = {w1}
    Tokens = {t1, t2}
    NoToken = NoToken
    BatchSize = 2
    MaxAttempts = 2
    MaxFaults = 1
PROPERTIES
    EventuallySettled
