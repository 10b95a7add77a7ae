SPECIFICATION Spec
CONSTANTS
    Nodes = {n1}
    Instances <- TwoInstances
    ENIs = {1, 2, 3, 4}
    PrimaryENI <- Primary2
    InstanceType <- TypeTight
    Jumbo <- OneInstance
    IpResolvable <- TwoInstances
    ManagedNonOwned = FALSE
    NodeKinds <- UnlinkedNodes
    MaxChurn = 3
    MaxLag = 1
    MaxUserDeletes = 1
    MaxFaults = 0
    MaxCrashes = 0
    NoCR = NoCR
    NoInst = NoInst
CONSTRAINT ThreeChanges
INVARIANTS
    TypeOK
    AttachedToItsInstance
PROPERTIES
    LifecycleRefined
    DeletesOnlyOrphans
    LetGoOnlyWithDevice
\* With nothing left to do, and its bounds used up, the system rests.
CHECK_DEADLOCK FALSE
