SPECIFICATION Spec
CONSTANTS
    Caller = {c1, c2}
    Refresh = 2
    Lifetime = 4
    MaxTime = 4
    MaxFailures = 1
INVARIANT
    ValidCredential
