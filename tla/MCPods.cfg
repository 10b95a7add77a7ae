SPECIFICATION FairSpec
CONSTANTS
    p1 = p1
    p2 = p2
    Pod = {p1, p2}
    Device = {d1, d2}
    Shares = 2
    Late = {"late1", "late2"}
    Host = host
    None = none
    Specs <- MCSpecs
    Configs <- MCConfigs
    MaxFaults = 2
INVARIANT SmcrReady
INVARIANT OnlyAskedFor
INVARIANT HostUntouched
PROPERTY PodsSettle
CONSTRAINT Worthwhile
