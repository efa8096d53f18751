SPECIFICATION FairSpec
CONSTANTS
    wave = wave
    lane = lane
    a = a
    b = b
    one = one
    other = other
    Waves = {wave}
    Lanes = {lane}
    Members = {a, b}
    Caches = {one}
    CacheOf <- SharedCache
    Free = Free
    Triggers <- NewRelease
    NoAnswer = NoAnswer
    TTL = 1
    Hour = 1
    MaxVersion = 2
    MaxRun = 2
    MaxFailures = 1
PROPERTIES NoStepBack ReleaseIsSeen ReleaseArrives
