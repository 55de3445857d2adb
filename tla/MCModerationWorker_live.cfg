\* Two requests share a partition that may move between two workers.
SPECIFICATION FairSpec
CONSTANTS
    Requests = {r1, r2}
    NoRequest = NoRequest
    Workers = {w1, w2}
    NoWorker = NoWorker
    Partitions = {k1}
    PartitionOf <- OnePartition
    Webhooks = {}
    TenantOf <- OneTenant
    Tokens = {t1, t2}
    NoToken = NoToken
    MaxRetries = 1
    MaxCopies = 1
    MaxFaults <- OneRebalance
\* The group stands still when every record is handled and no webhook changes.
CHECK_DEADLOCK FALSE
INVARIANTS
    CommittedIsCarried
PROPERTIES
    EventuallyDecided
