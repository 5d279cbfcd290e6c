SPECIFICATION MCSpec
CONSTANTS
    binary = binary
    otherBinary = otherBinary
    voice = voice
    otherVoice = otherVoice
    dll = dll
    json = json
    toBinary = toBinary
    toVoice = toVoice
    toDll = toDll
    toJson = toJson
    llama = llama
    speech = speech
    hear = hear
    say = say
    NoFile = NoFile
    Sources = {binary, otherBinary, voice, otherVoice, dll, json}
    Targets = {toBinary, toVoice, toDll, toJson, llama}
    Items <- MCItems
    BesideSource <- MCBesideSource
    BesideTarget <- MCBesideTarget
    Found <- MCFound
    Placed <- MCPlaced
    MaxEdits = 1
    Voices = {speech}
    BinaryOf <- MCBinaryOf
    ModelOf <- MCModelOf
    LlamaBinary = llama
    LlamaModel = llama
    MaxRestarts = 1
    Calls = {hear, say}
    VoiceOf <- MCVoiceOf
    Whispers = {hear}
    Models = {chat, embed}
    chat = chat
    embed = embed
    Versions = {1, 2}
    Callers = {one, other}
    one = one
    other = other
    NoModel = NoModel
    MaxModels = 1
    MaxManaged = 3
    Scenes = {"files", "server", "speech", "store"}
CHECK_DEADLOCK FALSE
INVARIANTS
    TargetsAreNeverTorn
    FailedStartsLeaveNoServer
    CancelledCallsSayNothing
    
PROPERTIES
    StartupSettles
    SpeechCallsSettle
