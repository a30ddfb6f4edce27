CONSTANTS
    Requests = {r1}
    Consumers = {w1}
    NoJob = NoJob
    MaxCount = 1
    Capacity = 1
    MaxAttempts = 2
    MaxFaults = 0

SPECIFICATION Spec

INVARIANT
    ScaleDownLossless
