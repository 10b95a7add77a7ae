SPECIFICATION FairSpec
CONSTANTS
    MaxKubeletRestarts = 2
    MaxFaults = 2
INVARIANTS
    StopClosedOnce
    StreamServed
    NotStranded
PROPERTY
    Advertised
