SPECIFICATION FairSpec
CONSTANTS
    Direct = TRUE
    MaxHeads = 3
    MaxRuns = 2
    MaxFailures = 1
PROPERTIES WatchLeavesPeople RunArmsItsPush WantedIsMerged
\* A merged or closed request is nobody's business any more: the system stops.
CHECK_DEADLOCK FALSE
