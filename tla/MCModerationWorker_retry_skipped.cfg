\* One worker, one transient failure: the next success commits past it.
SPECIFICATION Spec
CONSTANTS
    Requests = {r1, r2}
    NoRequest = NoRequest
    Workers = {w1}
    NoWorker = NoWorker
    Partitions = {k1}
    PartitionOf <- OnePartition
    Webhooks = {h1}
    TenantOf <- OneTenant
    Tokens = {t1, t2, t3}
    NoToken = NoToken
    MaxRetries = 3
    MaxCopies = 1
    MaxFaults <- OneTransient
INVARIANTS
    RetryStaysUncommitted
