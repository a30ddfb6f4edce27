CONSTANTS
    Configs <- MCConfigs
    Workloads <- MCWorkloads
    Bases <- MCBases
    MaxMoney = 6

SPECIFICATION Spec

INVARIANT
    PassIsWithinBudgets

PROPERTIES
    MilderRevisionStillPasses
    MoreBurstNeverUnblocks

CHECK_DEADLOCK FALSE
