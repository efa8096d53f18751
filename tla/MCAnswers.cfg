SPECIFICATION Spec
CONSTANTS
    Phrases <- MCPhrases
    Instants <- MCInstants
    Configurations <- MCConfigurations
    RuleLists <- MCRuleLists
    RiskyUpdates <- MCRiskyUpdates
    Exposures <- MCExposures
    Watches <- MCWatches
    Rewrites <- MCRewrites
    Checkouts <- MCCheckouts
    Projects <- MCProjects
    Rulings <- MCRulings
    Vocabularies <- MCWritten
    Boards <- MCBoards
    Lanes <- MCLanes
    JobFlags <- MCJobs
    Environments <- MCEnvironments
    Proxies <- MCProxies
    Walks <- MCWalks
    Lookups <- MCLookups
    Seekers = {"s1", "s2"}
    PageSize = 2
    MaxFaults = 1
    Fresh = {0, 4}
    Hub <- MCHub
    Hosts <- MCHosts
    Versions = {1, 2, 3}
    Stable = {1, 3}
    TTL = 1
    Loads <- MCLoads
    Callers = {"c1", "c2", "c3"}
    HostRules <- MCHostRules
    Replies <- MCReplies
    MaxRetries = 2
    MaxRedirects = 3
    DefaultMax = 2
    Now = 1
INVARIANTS ParsedMeansWritten LastWordWins  Polite AdvisoriesHold WholeOrHeld SaysWhatItCarries VersionsOrdered TakesInstructions SourcesAreHonest ReachesConsumers
PROPERTY EveryGetEnds
\* Every behaviour is one question.
CHECK_DEADLOCK FALSE
