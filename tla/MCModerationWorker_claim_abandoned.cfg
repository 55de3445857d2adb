\* One worker, one crash: its record comes back before the lease expires.
SPECIFICATION FairSpec
CONSTANTS
    Requests = {r1}
    NoRequest = NoRequest
    Workers = {w1}
    NoWorker = NoWorker
    Partitions = {k1}
    PartitionOf <- OnePartition
    Webhooks = {}
    TenantOf <- OneTenant
    Tokens = {t1, t2}
    NoToken = NoToken
    MaxRetries = 3
    MaxCopies = 1
    MaxFaults <- OneCrash
CHECK_DEADLOCK FALSE
PROPERTIES
    AbandonedClaimRecovers
