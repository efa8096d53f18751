SPECIFICATION FairSpec
CONSTANTS
    t1 = t1
    t2 = t2
    Unset = Unset
    Texts <- MCTexts
    Wants <- MCWants
    MaxFaults = 4
    MaxPlans = 2
PROPERTIES
    Promised
    Converges
