SPECIFICATION MCSpec
CONSTANTS
    MaxRounds = 2
    MaxTries = 2
    MaxCalls = 2
    Silence = 1
    Patience = 2
    MaxSpeech = 2
    MaxChanges = 1
    MaxPresses = 2
    MaxBargeIns = 1
    MaxTexts = 2
    Parts = {"model", "audio", "devices", "text"}
CHECK_DEADLOCK FALSE
INVARIANTS
    MicrophoneIsWatched
    SessionSettles
    
PROPERTIES
    EveryTurnEnds
