SPECIFICATION Spec
CONSTANTS
    Agents = {"trend"}
    AgentType <- OwnType
    AgentStatus <- OwnStatus
    Says <- SaysTrades
    Symbols = {s1}
    Confidences = {100}
    MaxSignalBufferSize = 2
    StepInterval = 2
    MaxSignalAge = 4
    HealthCheckInterval = 2
    HeartbeatTimeout = 2
    SignalTimeout = 1
    MinConsensus = 60
    MinConfidence = 50
    MaxDelay = 1
    MaxNow = 7
    MaxSignals = 1
    MaxInFlight = 1
    MaxToggles = 1
    MaxBeats = 2
INVARIANTS SilentAgentsAreDisabled CountedAtMostTwice
CHECK_DEADLOCK FALSE
