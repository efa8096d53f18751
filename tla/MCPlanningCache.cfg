SPECIFICATION FairSpec
CONSTANTS
    Deps <- OneDep
    Upcoming <- OneMore
    Timed = {}
    MaxResets = 1
    MaxExports = 1
    Silent = {{1}}
    MaxSilent = 1
PROPERTIES NeverYounger Arrives
