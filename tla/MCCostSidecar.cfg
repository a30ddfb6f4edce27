CONSTANTS
    Absent = Absent
    Malformed = Malformed
    Requests <- MCRequests
    MaxRequest = 1
    MaxReplicas = 2
    MaxContainers = 3
    Kinds = {"Deployment", "StatefulSet", "PersistentVolumeClaim"}
    Rates <- MCRates
    Nodes = 2

SPECIFICATION Spec

INVARIANT PodCoversEveryMoment
