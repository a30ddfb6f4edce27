CONSTANTS
    Absent = Absent
    Malformed = Malformed
    NoDir = NoDir
    Unrenderable = Unrenderable
    Directories <- MCDirectories
    Above <- MCAbove
    NodeCount <- MCNodes
    Violations <- MCViolations
    RuleErrors <- MCRuleErrors
    Scenarios <- Reductions

SPECIFICATION Spec

INVARIANT
    ReductionNeverBlocked

CHECK_DEADLOCK FALSE
