CONSTANTS
    Absent = Absent
    Malformed = Malformed
    NoDir = NoDir
    Unrenderable = Unrenderable
    Directories <- MCDirectories
    Above <- MCAbove
    NodeCount <- MCNodes
    Violations <- MCViolations
    RuleErrors <- MCRuleErrors
    Scenarios <- Everything

SPECIFICATION Spec

INVARIANTS
    TypeOK
    ExitZeroIsProven
    FindingsSurviveCostErrors
    FailIsJudgedOnWholeEstimates
    WorktreesReleased
    ScopeCarriesTheCost

PROPERTY
    KeepsPromise

CHECK_DEADLOCK FALSE
