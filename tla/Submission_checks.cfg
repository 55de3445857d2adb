\* Three submissions, racing or one after the other, and two faults; no symmetry,
\* which is unsound for liveness.  A submission may end, and then all stops.
SPECIFICATION FairSpec
CONSTANTS
    NumSubmissions = 3
    Keys = {key, long}
    NoKey = NoKey
    NoPayload = NoPayload
    LongKeys = {long}
    Payloads = {text, image}
    Uploads = {image}
    MaxFaults = 2
INVARIANTS
    KeyNamesOneRequest
    AnswersAgree
    RefusedForAReason
    StraysNeedFaults
    LossNeedsFault
PROPERTIES
    EventuallyAnswered
CHECK_DEADLOCK FALSE
