\* One upload whose commit succeeds while the gateway takes it for failed.
SPECIFICATION Spec
CONSTANTS
    NumSubmissions = 2
    Keys = {key}
    NoKey = NoKey
    NoPayload = NoPayload
    LongKeys = {}
    Payloads = {image}
    Uploads = {image}
    MaxFaults = 1
INVARIANTS
    RemovedOnlyIfWriteFailed
CHECK_DEADLOCK FALSE
