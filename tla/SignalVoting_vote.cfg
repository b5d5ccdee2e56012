SPECIFICATION Spec
CONSTANTS
    Agents = {"trend", "reversion"}
    AgentType <- OwnType
    AgentStatus <- OwnStatus
    Says <- SaysTrades
    Symbols = {s1}
    Confidences = {100, 120}
    MaxSignalBufferSize = 2
    StepInterval = 1
    MaxSignalAge = 1
    HealthCheckInterval = 1
    HeartbeatTimeout = 1
    SignalTimeout = 1
    MinConsensus = 54
    MinConfidence = 50
    MaxDelay = 1
    MaxNow = 1
    MaxSignals = 3
    MaxInFlight = 2
    MaxToggles = 1
    MaxBeats = 0
INVARIANTS TypeOK BufferSound TradesAreDetermined
CHECK_DEADLOCK FALSE
