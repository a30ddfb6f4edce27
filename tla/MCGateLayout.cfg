CONSTANTS
    Absent = Absent
    Malformed = Malformed
    NoDir = NoDir
    Unrenderable = Unrenderable
    Directories <- MCDirectories
    Above <- MCAbove
    NodeCount <- MCNodes
    Violations <- MCViolations
    RuleErrors <- MCRuleErrors
    Scenarios <- Removals

SPECIFICATION Spec

INVARIANT
    NothingPricedTwice

CHECK_DEADLOCK FALSE
