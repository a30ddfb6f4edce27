SPECIFICATION Spec
CONSTANTS
    Workloads = {w1}
    Footprints <- MCFootprints
    Malformed = Malformed
    Gone = Gone
    Absent = Absent
    Rates <- MCRates
INVARIANTS TypeOK SteadyWorkloadReadExactly OneCyclePerVector
PROPERTIES DeletedWorkloadDisappears SteadyWorkloadAppears
