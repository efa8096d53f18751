SPECIFICATION Spec
CONSTANTS
    a = a
    b = b
    c = c
    ab = ab
    v1 = v1
    v2 = v2
    old = old
    Branches = {a, b, c}
    Combined = ab
    Entangled = {a, b}
    Contents = {v1}
    Old = old
    Security = {c}
    Automerge = {c}
    Ignored = {ab}
    Limits <- OneOfEach
    MaxRuns = 2
    MaxMoves = 2
    CallsFail = TRUE
    HistoryFails = FALSE
    AnswersLost = FALSE
INVARIANT HourlyLimitKept
PROPERTIES ConcurrentLimitKept PrunedIsUnwantedOrUntried
           ClosedUnderItsTitleStands RevertNotArmedAtOpening
\* Runs and people's moves are bounded: the system really stops.
CHECK_DEADLOCK FALSE
