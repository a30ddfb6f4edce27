CONSTANTS
    Requests = {r1}
    Consumers = {w1, w2}
    NoJob = NoJob
    MaxCount = 2
    Capacity = 2
    MaxAttempts = 2
    MaxFaults = 1

SPECIFICATION FairAppSpec

PROPERTIES
    StoppingPodExits
    RequestsAreAnswered
    BacklogDrains
    HiccupsDoNotFlap
    OutageWithdrawsApi
    RecoveryRestoresApi
