SPECIFICATION Spec
CONSTANTS
    Nodes = {n1}
    Instances <- TwoInstances
    ENIs = {1, 2, 3, 4}
    PrimaryENI <- Primary2
    InstanceType <- TypeMixed
    Jumbo <- OneInstance
    IpResolvable <- OneInstance
    ManagedNonOwned = TRUE
    NodeKinds <- ReadyNodes
    MaxChurn = 1
    MaxLag = 1
    MaxUserDeletes = 0
    MaxFaults = 2
    MaxCrashes = 1
    NoCR = NoCR
    NoInst = NoInst
INVARIANTS
    CreatedWithinCards
    ReadyMeansInUse
    NonReadyIsWatched
    MarkerMeansTagged
\* With nothing left to do, and its bounds used up, the system rests.
CHECK_DEADLOCK FALSE
