SPECIFICATION FairSpec
CONSTANTS
    Replica = {r1, r2}
    Hook = {h1, h2}
    MaxFailures = 4
    MaxInstalls = 2
INVARIANTS
    ServedIsTrusted
PROPERTIES
    CAStays
    EventuallyTrusted
