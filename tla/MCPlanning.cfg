SPECIFICATION Spec
CONSTANTS
    Deps <- TwoDeps
    Upcoming <- ThreeReleases
    Timed = {2}
    MaxResets = 0
    MaxExports = 0
    Silent = {{1, 2}}
    MaxSilent = 1
PROPERTIES AgedWhenWritten WindowGatesCreation MembersStay
