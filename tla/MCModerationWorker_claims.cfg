\* One request, delivered twice, two workers: the claim protocol.
SPECIFICATION Spec
CONSTANTS
    Requests = {r1}
    NoRequest = NoRequest
    Workers = {w1, w2}
    NoWorker = NoWorker
    Partitions = {k1}
    PartitionOf <- OnePartition
    Webhooks = {h1, h2}
    TenantOf <- TwoTenants
    Tokens = {t1, t2, t3}
    NoToken = NoToken
    MaxRetries = 2
    MaxCopies = 2
    MaxFaults <- FewFaults
SYMMETRY Symmetry
INVARIANTS
    ResultMatchesStatus
    ClaimIsExclusive
    DeliveriesMatchOutcome
    RetriesBounded
PROPERTIES
    OwnerDecides
    ImplementsLifecycle
    NoDoubleInference
