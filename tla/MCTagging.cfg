SPECIFICATION FairSpec
CONSTANTS
    Nodes = {n1}
    Instances <- OneInstance
    ENIs = {1, 2, 3}
    PrimaryENI <- Primary1
    InstanceType <- Type2
    Jumbo <- OneInstance
    IpResolvable <- OneInstance
    ManagedNonOwned = TRUE
    NodeKinds <- ReadyNodes
    MaxChurn = 1
    MaxLag = 1
    MaxUserDeletes = 0
    MaxFaults = 1
    MaxCrashes = 0
    NoCR = NoCR
    NoInst = NoInst
PROPERTIES
    ListedGetsTagged
\* With nothing left to do, and its bounds used up, the system rests.
CHECK_DEADLOCK FALSE
