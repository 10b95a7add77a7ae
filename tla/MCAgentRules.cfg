SPECIFICATION FairSpec
CONSTANTS
    eth0 = eth0
    eth1 = eth1
    eth2 = eth2
    Primary = eth0
    Link <- MCLink
    Devices <- MCDevices
    RuleLists <- DocumentedRules
    JumboFrame = TRUE
    HostMetric = 100
    PreferDriver = ""
    HasGPU = TRUE
    MaxResets = 0
    MaxFaults = 0
    MaxKills = 0
    MaxReboots = 0
    MaxTrouble = 0
PROPERTY DocumentedRulesServe
