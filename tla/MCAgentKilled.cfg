SPECIFICATION Spec
CONSTANTS
    eth0 = eth0
    eth1 = eth1
    eth2 = eth2
    Primary = eth0
    Link <- MCLink
    Devices <- MCDevices
    RuleLists <- NoRules
    JumboFrame = TRUE
    HostMetric = 100
    PreferDriver = ""
    HasGPU = FALSE
    MaxResets = 0
    MaxFaults = 0
    MaxKills = 1
    MaxReboots = 0
    MaxTrouble = 1
INVARIANT ReconfiguredOnCrashLoop
