CONSTANTS
    Requests = {r1, r2}
    Consumers = {w1, w2}
    NoJob = NoJob
    MaxCount = 2
    Capacity = 3
    MaxAttempts = 2
    MaxFaults = 1

SPECIFICATION Spec

SYMMETRY Pods

INVARIANTS
    TypeOK
    AcceptedNeverOverstated
    ExactlyOnceWithoutFaults

PROPERTY
    IsLossyFifo
