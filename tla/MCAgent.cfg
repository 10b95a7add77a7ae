SPECIFICATION FairSpec
CONSTANTS
    eth0 = eth0
    eth1 = eth1
    eth2 = eth2
    Primary = eth0
    Link <- MCLink
    Devices <- MCDevices
    RuleLists <- MCRuleLists
    JumboFrame = TRUE
    HostMetric = 100
    PreferDriver = ""
    HasGPU = TRUE
    MaxResets = 2
    MaxFaults = 2
    MaxKills = 1
    MaxReboots = 1
    MaxTrouble = 2
INVARIANT ServedConfigured
INVARIANT ServesExposed
INVARIANT FailsForCause
PROPERTY ConfiguredStays
PROPERTY EventuallyServes
