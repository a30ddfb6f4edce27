CONSTANTS
    Requests = {q1, q2}
    Processes = {p1, p2}
    NoProcess = NoProcess
    Limits = {"256Mi", "512Mi"}
    Drifted = "999Mi"
    NoLimit = "none"
    DriftPatience = 2
    MinReplicas = 0
    MaxReplicas = 1
    LoadPatience = 2

SPECIFICATION FairSpec

INVARIANTS
    TypeOK
    LockMatchesHandler
    DriftPassIsReal
    ConfirmFailsOnlyAfterRevert
    SelfHealBlamedRightly
    LoadPassIsReal

PROPERTIES
    EveryDemonstrationEnds
