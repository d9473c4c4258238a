CONSTANTS
    n1 = n1
    e1 = e1
    NoWorker = NoWorker
    Endpoints = {n1}
    Events = {e1}
    Wanted <- OnePair
    Workers = {w1, w2}
    Replays = {r1}
    MaxAttempts = 2
    MaxCrashes = 1
    MaxLosses = 1
SPECIFICATION Spec
INVARIANTS
    TypeOK
    AttemptsBounded
    OneReplicaDrains
PROPERTIES
    WrittenOffOnlyIfDelivered
    ReportedAtTheCap
    EventuallyHandled
    ResendingEnds
