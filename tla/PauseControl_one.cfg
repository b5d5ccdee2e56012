SPECIFICATION FairSpec
CONSTANTS
    Orchestrators = {o1}
    Agents = {a1}
    Clients = {api1}
    MaxTries = 2
    MaxSymbols = 2
    MaxCalls = 3
    MaxFaults = 1
    MaxCrashes = 2
INVARIANTS TypeOK AtMostOneLateDecision MemoryFollowsDatabase AgentsFollow
PROPERTIES TransitionsAlternate RefusedOnlyIfSo KeepsGoing
CHECK_DEADLOCK FALSE
