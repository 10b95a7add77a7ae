SPECIFICATION FairSpec
CONSTANTS
    Nodes = {n1}
    Instances <- OneInstance
    ENIs = {1, 2, 3}
    PrimaryENI <- Primary1
    InstanceType <- Type2
    Jumbo <- OneInstance
    IpResolvable <- OneInstance
    ManagedNonOwned = TRUE
    NodeKinds <- AnyNodes
    MaxChurn = 2
    MaxLag = 2
    MaxUserDeletes = 0
    MaxFaults = 1
    MaxCrashes = 1
    NoCR = NoCR
    NoInst = NoInst
CONSTRAINT ChangesOrFailures
PROPERTIES
    NodeProvisioned
\* With nothing left to do, and its bounds used up, the system rests.
CHECK_DEADLOCK FALSE
