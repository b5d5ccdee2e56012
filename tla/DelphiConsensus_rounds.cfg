SPECIFICATION DelphiFairSpec
CONSTANTS
    Sessions = {s1}
    Agents = {a1, a2}
    Values = {1, 2}
    MinParticipants = 1
    MaxParticipants = 2
    MaxRounds = 3
    MaxActiveSessions = 1
    MaxConcurrentTimeouts = 2
    Participants <- AskAll
INVARIANTS DelphiTypeOK RoundsInOrder OneResult
PROPERTIES CompletedRoundsAreFinal SessionsEnd
CHECK_DEADLOCK FALSE
