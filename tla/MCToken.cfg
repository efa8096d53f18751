SPECIFICATION Spec
CONSTANTS
    self = self
    reader = reader
    own1 = own1
    own2 = own2
    ro1 = ro1
    ro2 = ro2
    j1 = j1
    j2 = j2
    Jobs = {j1, j2}
    Self = self
    Others <- TwoTokens
    TargetsOf <- TwoEach
    Threshold = 2
    Lifetime = 4
    Retries = 2
    MaxDay = 4
    MaxDrops = 2
    MaxCrashes = 1
    MaxRoles = 1
SYMMETRY TwoJobs
INVARIANTS OneHolder InTime
PROPERTIES DoneIsRenewed
\* The last day ends: the system stops.
CHECK_DEADLOCK FALSE
