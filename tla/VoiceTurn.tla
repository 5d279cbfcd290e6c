------------------------------ MODULE VoiceTurn ------------------------------
(***************************************************************************)
(* The desktop app's voice turn: VoicePipeline.runTurn() with the session  *)
(* of VoiceSessionManager, the barge-in monitor that listens while a reply *)
(* is spoken, and executeVoiceTurn() of main.ts, which starts, interrupts, *)
(* continues and records turns.                                            *)
(*                                                                         *)
(* A step ends where the code awaits.  `voice.at' is the await the running *)
(* turn is at; the session's state is a separate variable because a stop,  *)
(* the listening ceiling and the monitor change it under the turn.         *)
(* main.ts passes no AbortSignal to runTurn(), so the pipeline's own       *)
(* throwIfAborted() checks never fire in the app and are left out.         *)
(***************************************************************************)
EXTENDS AssistantTurn, AudioBridge

CONSTANTS
    MaxPresses,   \* bound: turns the person starts
    MaxBargeIns   \* continuations of one turn (3 in the code)

VARIABLES
    session,      \* VoiceSessionManager: its state
    voice,        \* the turn: [at, attempt, said, direct]; "idle" is isVoiceTurnRunning = false
    turn,         \* number of runTurn() calls so far
    presses,      \* turns started by the person so far
    bargeIns,     \* continuations of this turn so far
    monitor,      \* the barge-in monitor: [at, told], told once speak() has aborted it
    stopped       \* the person has stopped this turn

voiceVars == <<session, voice, turn, presses, bargeIns, monitor, stopped>>
vars == <<stream, acted, bridgeVars, voiceVars>>

\* VALID_TRANSITIONS.
Valid ==
    [idle |-> {"listening"},
     listening |-> {"transcribing", "cancelled", "error"},
     transcribing |-> {"thinking", "cancelled", "error"},
     thinking |-> {"tool_execution", "speaking", "recovering", "idle", "cancelled", "error"},
     tool_execution |-> {"thinking", "cancelled", "error"},
     recovering |-> {"thinking", "cancelled", "error"},
     speaking |-> {"idle", "interrupted", "cancelled", "error"},
     interrupted |-> {"idle", "listening", "cancelled", "error"},
     cancelled |-> {"idle"},
     error |-> {"idle"}]

MayBecome(to) == to \in Valid[session]

\* A transition() whose refusal is swallowed.
IfAllowed(to) == IF MayBecome(to) THEN to ELSE session

NoVoice == [at |-> "idle", attempt |-> 0, said |-> FALSE, direct |-> FALSE]
Unwatched == [at |-> "off", told |-> FALSE]
Captured == <<turn, "turn">>
Watched == <<turn, "monitor">>

VoiceInit ==
    /\ AssistantInit /\ BridgeInit
    /\ session = "idle" /\ voice = NoVoice /\ monitor = Unwatched
    /\ turn = 0 /\ presses = 0 /\ bargeIns = 0 /\ stopped = FALSE

Goes(phase) == voice' = [voice EXCEPT !.at = phase]

Running == voice.at # "idle"

\* Defect: the catch block does not move the session.
FailsQuietly == session' = session /\ voice' = NoVoice

\* The catch block of runTurn(), and executeVoiceTurn()'s own: the session is
\* left in "error" unless it is already where it cannot be, and the next turn
\* may start.
Fails == session' = IfAllowed("error") /\ voice' = NoVoice

------------------------------------------------------------------------------
\* A turn starts.

\* runTurn() from its first line to its first await.  Whatever state the last
\* turn left is reset to idle first; then the microphone opens.
BeginsListening(known) ==
    /\ turn' = turn + 1
    /\ IF CanCapture(known)
       THEN /\ session' = "listening"
            /\ voice' = [NoVoice EXCEPT !.at = "listening"]
            /\ mic' = Listening(<<turn', "turn">>)
            /\ toRenderer' = Sent(<<Message("startCapture", <<turn', "turn">>)>>)
       ELSE /\ session' = "error" /\ voice' = NoVoice
            /\ UNCHANGED <<mic, toRenderer>>

\* The same with the words of a barge-in in hand: straight to thinking.
BeginsThinking ==
    /\ turn' = turn + 1
    /\ session' = "thinking"
    /\ voice' = [NoVoice EXCEPT !.at = "understanding"]
    /\ UNCHANGED <<mic, toRenderer>>

\* executeVoiceTurn() with no turn running: push to talk, the tray, the orb.
\* Without a known microphone the devices are listed first.
StartVoiceTurn ==
    /\ ~Running /\ presses < MaxPresses
    /\ presses' = presses + 1
    /\ bargeIns' = 0 /\ stopped' = FALSE /\ acted' = FALSE
    /\ IF devices
       THEN BeginsListening(TRUE) /\ UNCHANGED listings
       ELSE /\ AsksForDevices(<<presses', "start">>)
            /\ voice' = [NoVoice EXCEPT !.at = "refreshing"]
            /\ UNCHANGED <<session, turn, mic>>
    /\ UNCHANGED <<stream, toMain, renderer, rendererVars, playing, devices, changes, spoken, monitor>>

\* refresh() settles, by its answer or its timeout.
DevicesListed(id, found) ==
    /\ Listed(id, found)
    /\ IF voice.at = "refreshing" /\ id = <<presses, "start">>
       THEN BeginsListening(found)
       ELSE UNCHANGED <<session, voice, turn, mic, toRenderer>>
    /\ UNCHANGED <<stream, acted, renderer, rendererVars, playing, spoken, presses, bargeIns,
                   monitor, stopped>>

DevicesArrive ==
    /\ toMain # <<>> /\ Head(toMain).op = "devices" /\ toMain' = Tail(toMain)
    /\ LET m == Head(toMain) IN
         IF m.id \in listings THEN DevicesListed(m.id, m.found)
         ELSE UNCHANGED <<stream, acted, toRenderer, renderer, rendererVars, mic, playing,
                          deviceVars, spoken, voiceVars>>

\* requestTimeoutMs, or no window to ask.
ListingTimesOut(id) == DevicesListed(id, FALSE) /\ UNCHANGED toMain

------------------------------------------------------------------------------
\* Frames: the turn's own capture and the monitor's.

\* handleBargeIn(): the reply stops at the first frame of speech.  speak() then
\* only awaits the monitor.
BargesIn ==
    /\ session' = IF session = "speaking" THEN "interrupted" ELSE session
    /\ monitor' = [monitor EXCEPT !.at = "hearing"]
    /\ playing' = Mute
    /\ toRenderer' = Sent(Silences)
    /\ Goes("reaping")

\* One frame for the turn's capture.  Capture that ends with nothing heard is
\* "no audio captured", and fails the turn.
TurnHears(speech) ==
    /\ mic.id = Captured /\ voice.at = "listening"
    /\ IF Endpoint(speech)
       THEN /\ EndsCapture /\ Goes("recognising")
            /\ session' = IF session = "listening" THEN "transcribing" ELSE session
       ELSE IF GivesUp(speech)
       THEN EndsCapture /\ Fails
       ELSE mic' = Detected(speech) /\ UNCHANGED <<toRenderer, session, voice>>
    /\ UNCHANGED <<monitor, playing>>

\* One frame for the monitor's capture, which may outlive the turn it began in.
MonitorHears(speech) ==
    /\ mic.id[2] = "monitor"
    /\ IF monitor.told
       THEN /\ EndsCapture /\ monitor' = [monitor EXCEPT !.at = "quiet"]
            /\ UNCHANGED <<session, voice, playing>>
       ELSE IF monitor.at = "watching" /\ speech
       THEN BargesIn /\ mic' = Detected(speech)
       ELSE /\ UNCHANGED <<session, voice, playing>>
            /\ IF Endpoint(speech)
               THEN EndsCapture /\ monitor' = [monitor EXCEPT !.at = "recognising"]
               ELSE IF GivesUp(speech)
               THEN EndsCapture /\ monitor' = [monitor EXCEPT !.at = "quiet"]
               ELSE mic' = Detected(speech) /\ UNCHANGED <<monitor, toRenderer>>

FrameArrives ==
    /\ toMain # <<>> /\ Head(toMain).op = "frame" /\ toMain' = Tail(toMain)
    /\ LET m == Head(toMain) IN
         \/ m.id = mic.id /\ (TurnHears(m.speech) \/ MonitorHears(m.speech))
         \/ m.id # mic.id
            /\ UNCHANGED <<toRenderer, mic, playing, session, voice, monitor>>
    /\ UNCHANGED <<stream, acted, renderer, rendererVars, deviceVars, spoken, turn, presses,
                   bargeIns, stopped>>

\* Defect: the error only closes the queue, and the consumer waits on.
CaptureFallsSilent ==
    /\ toMain # <<>> /\ Head(toMain).op = "captureError" /\ toMain' = Tail(toMain)
    /\ mic' = IF Head(toMain).id = mic.id THEN NoMic ELSE mic
    /\ UNCHANGED <<stream, acted, toRenderer, renderer, rendererVars, playing, deviceVars, spoken,
                   voiceVars>>

\* The capture fails under its consumer: the recogniser reports it and the turn
\* fails; a monitor that had heard nothing rejects, one that had is left with no
\* words.
CaptureFails ==
    /\ toMain # <<>> /\ Head(toMain).op = "captureError" /\ toMain' = Tail(toMain)
    /\ IF Head(toMain).id # mic.id THEN UNCHANGED <<mic, session, voice, monitor>>
       ELSE /\ mic' = NoMic
            /\ IF mic.id[2] = "turn" THEN Fails /\ UNCHANGED monitor
               ELSE /\ monitor' = [monitor EXCEPT !.at = IF @ = "watching" THEN "failed" ELSE "quiet"]
                    /\ UNCHANGED <<session, voice>>
    /\ UNCHANGED <<stream, acted, toRenderer, renderer, rendererVars, playing, deviceVars, spoken,
                   turn, presses, bargeIns, stopped>>

CaptureStopped ==
    /\ toMain # <<>> /\ Head(toMain).op = "captureStopped" /\ toMain' = Tail(toMain)
    /\ UNCHANGED <<stream, acted, toRenderer, renderer, rendererVars, mic, playing, deviceVars,
                   spoken, voiceVars>>

\* The hard ceiling on "listening": only the session is told, and the microphone
\* stays open until the capture ends by itself.
ListeningExpires ==
    /\ session = "listening"
    /\ session' = "cancelled"
    /\ UNCHANGED <<stream, acted, bridgeVars, voice, turn, presses, bargeIns, monitor, stopped>>

------------------------------------------------------------------------------
\* From the words to a reply.

\* The recogniser's final text.  Nothing recognised fails the turn, and so does
\* a session that a stop or the ceiling ended meanwhile.
Recognises ==
    /\ voice.at = "recognising"
    /\ \/ session \notin {"cancelled", "error", "idle"}
          /\ session' = "thinking" /\ Goes("understanding")
       \/ Fails
    /\ UNCHANGED <<stream, acted, bridgeVars, turn, presses, bargeIns, monitor, stopped>>

\* The utterance is remembered; an answer to a pending power question is settled
\* (its reply skips the guards below: `direct'); else a command handler runs, or
\* the model is asked.  The memory store may refuse.
Understands ==
    /\ voice.at = "understanding"
    /\ \/ /\ voice' = [voice EXCEPT !.at = "recording", !.direct = TRUE]
          /\ UNCHANGED <<stream, acted, session>>
       \/ /\ Goes("recording") /\ acted' \in {acted, TRUE}
          /\ UNCHANGED <<stream, session>>
       \/ /\ voice' = [voice EXCEPT !.at = "asking", !.attempt = 1]
          /\ stream' = Opened
          /\ UNCHANGED <<acted, session>>
       \/ Fails /\ UNCHANGED <<stream, acted>>
    /\ UNCHANGED <<bridgeVars, turn, presses, bargeIns, monitor, stopped>>

\* retryWithBackoff() around the whole of sendMessage().
AttemptFails ==
    IF voice.attempt < 2
    THEN session' = IfAllowed("recovering") /\ Goes("backing_off")
    ELSE Fails

\* The session state an event asks for; asking for one it may not enter throws
\* out of the loop.
Wanted(event) == IF event = "call" THEN "tool_execution" ELSE "thinking"

HearsModel(st) ==
    CASE st.event \in {"none", "error"} -> Advances(st) /\ UNCHANGED <<session, voice>>
      [] st.event = "text" ->
           Advances(st) /\ voice' = [voice EXCEPT !.said = TRUE] /\ UNCHANGED session
      [] st.event \in {"call", "result", "failure"} ->
           IF MayBecome(Wanted(st.event))
           THEN Advances(st) /\ session' = Wanted(st.event) /\ UNCHANGED voice
           ELSE /\ stream' = Closed /\ acted' = (acted \/ st.effect)
                /\ AttemptFails
      [] st.event = "throws" -> Advances(st) /\ AttemptFails
      [] st.event = "done" ->
           Advances(st) /\ IF voice.said THEN Goes("recording") /\ UNCHANGED session
                           ELSE AttemptFails

Asks ==
    /\ voice.at = "asking"
    /\ \E st \in StreamSteps(stream, FALSE) : HearsModel(st)
    /\ UNCHANGED <<bridgeVars, turn, presses, bargeIns, monitor, stopped>>

AsksAgain ==
    /\ voice.at = "backing_off"
    /\ voice' = [voice EXCEPT !.at = "asking", !.attempt = 2, !.said = FALSE]
    /\ session' = IF session = "recovering" THEN "thinking" ELSE session
    /\ stream' = Opened
    /\ UNCHANGED <<acted, bridgeVars, turn, presses, bargeIns, monitor, stopped>>

------------------------------------------------------------------------------
\* The reply is spoken.

\* speak() up to its first await: the monitor opens the microphone, which the
\* turn's own capture has left free, then the renderer is told to play.
Speaks ==
    IF ~CanPlay
    THEN /\ voice' = NoVoice /\ monitor' = [Unwatched EXCEPT !.at = "failed"]
         /\ UNCHANGED <<mic, playing, toRenderer>>
    ELSE /\ Goes("speaking")
         /\ playing' = [Mute EXCEPT !.id = <<turn, "play">>]
         /\ monitor' = [Unwatched EXCEPT !.at = "watching"]
         /\ mic' = Listening(Watched)
         /\ toRenderer' = Sent(<<Message("startCapture", Watched), Message("play", <<turn, "play">>)>>)

\* The reply is remembered and spoken: also when the session was cancelled, which
\* only skips the transition, except after a confirmation, whose transition throws.
Records ==
    /\ voice.at = "recording"
    /\ \/ /\ Fails
          /\ UNCHANGED <<monitor, mic, playing, toRenderer>>
       \/ /\ MayBecome("speaking") \/ (~voice.direct /\ session \in {"idle", "cancelled"})
          /\ Speaks
          /\ session' = IF ~CanPlay /\ MayBecome("speaking") THEN "error"
                        ELSE IfAllowed("speaking")
    /\ UNCHANGED <<stream, acted, toMain, renderer, rendererVars, deviceVars, spoken, turn,
                   presses, bargeIns, stopped>>

\* Nothing left to interrupt: a monitor that has heard nothing is told to stop,
\* which it sees at its next frame.
Told == IF monitor.at = "watching" THEN [monitor EXCEPT !.told = TRUE] ELSE monitor

PlayReturns == playing' = Mute /\ monitor' = Told /\ Goes("reaping") /\ UNCHANGED session
PlayRejects == playing' = Mute /\ monitor' = Told /\ Fails

\* The synthesiser has nothing more, or throws: the renderer is told either way.
InputEnds ==
    /\ Playing /\ ~playing.ended
    /\ toRenderer' = Sent(<<Message("playEnd", playing.id)>>)
    /\ \/ PlayRejects
       \/ ~playing.late /\ playing' = [playing EXCEPT !.ended = TRUE]
                        /\ UNCHANGED <<session, voice, monitor>>
    /\ UNCHANGED <<stream, acted, toMain, renderer, rendererVars, mic, deviceVars, spoken, turn,
                   presses, bargeIns, stopped>>

\* resolvePending(): a result nobody waits for is ignored.
PlayResultArrives ==
    /\ toMain # <<>> /\ Head(toMain).op = "playResult" /\ toMain' = Tail(toMain)
    /\ IF Head(toMain).id = playing.id /\ playing.ended
       THEN IF Head(toMain).ok THEN PlayReturns ELSE PlayRejects
       ELSE UNCHANGED <<playing, session, voice, monitor>>
    /\ UNCHANGED <<stream, acted, toRenderer, renderer, rendererVars, mic, deviceVars, spoken,
                   turn, presses, bargeIns, stopped>>

\* playbackTimeoutMs, counted from the start: the request is forgotten, and the
\* player is not stopped.
PlaybackTimesOut ==
    /\ Playing /\ ~playing.late
    /\ IF playing.ended THEN PlayRejects
       ELSE /\ playing' = [playing EXCEPT !.late = TRUE]
            /\ UNCHANGED <<session, voice, monitor>>
    /\ UNCHANGED <<stream, acted, toRenderer, toMain, renderer, rendererVars, mic, deviceVars,
                   spoken, turn, presses, bargeIns, stopped>>

Feeds ==
    /\ FeedsChunk
    /\ UNCHANGED <<stream, acted, voiceVars>>

\* The words that interrupted, if there were any.
MonitorRecognises ==
    /\ monitor.at = "recognising"
    /\ \E heard \in {"heard", "quiet"} : monitor' = [monitor EXCEPT !.at = heard]
    /\ UNCHANGED <<stream, acted, bridgeVars, session, voice, turn, presses, bargeIns, stopped>>

\* speak() returns once the monitor has settled: the session is idle again, and
\* executeVoiceTurn() either continues with what it heard or records the turn.
SpokenOut ==
    /\ voice.at = "reaping"
    /\ \/ /\ monitor.at = "failed" /\ Fails
          /\ UNCHANGED <<acted, turn, bargeIns, mic, toRenderer>>
       \/ /\ monitor.at = "heard" /\ bargeIns < MaxBargeIns
          /\ bargeIns' = bargeIns + 1 /\ acted' = FALSE
          /\ BeginsThinking
       \/ /\ monitor.at = "quiet" \/ (monitor.at = "heard" /\ bargeIns = MaxBargeIns)
          /\ session' = "idle" /\ Goes("persisting")
          /\ UNCHANGED <<acted, turn, bargeIns, mic, toRenderer>>
    /\ UNCHANGED <<stream, toMain, renderer, rendererVars, playing, deviceVars, spoken, presses,
                   monitor, stopped>>

\* recordVoiceTurn() settles, written or not.
TurnRecorded ==
    /\ voice.at = "persisting"
    /\ voice' = NoVoice
    /\ UNCHANGED <<stream, acted, bridgeVars, session, turn, presses, bargeIns, monitor, stopped>>

------------------------------------------------------------------------------
\* interrupt(): the stop button, the tray, or push to talk during a turn.
StopVoiceTurn ==
    /\ Running
    /\ stopped' = TRUE
    /\ session' = IF session \in {"cancelled", "idle"} THEN session ELSE IfAllowed("cancelled")
    /\ playing' = Mute
    /\ toRenderer' = Sent(Silences)
    /\ IF voice.at = "speaking" THEN Goes("reaping") /\ monitor' = Told
       ELSE UNCHANGED <<voice, monitor>>
    /\ UNCHANGED <<stream, acted, toMain, renderer, rendererVars, mic, deviceVars, spoken, turn,
                   presses, bargeIns>>

Renderer ==
    /\ RendererSteps
    /\ UNCHANGED <<stream, acted, voiceVars>>

Captures(speech) ==
    /\ \E id \in open : CapturesFrame(id, speech)
    /\ UNCHANGED <<stream, acted, voiceVars>>

Outside ==
    /\ DeviceChange \/ RendererGoes \/ Captures(TRUE) \/ \E id \in open : DeviceUnplugged(id)
    /\ UNCHANGED <<stream, acted, voiceVars>>

FromRenderer ==
    \/ FrameArrives \/ CaptureFails \/ CaptureStopped \/ DevicesArrive \/ PlayResultArrives

Pipeline ==
    \/ ListeningExpires \/ Recognises \/ Understands \/ Asks \/ AsksAgain \/ Records
    \/ Feeds \/ InputEnds \/ MonitorRecognises \/ SpokenOut \/ TurnRecorded

Timeouts == PlaybackTimesOut \/ \E id \in listings : ListingTimesOut(id)

VoiceNext ==
    \/ StartVoiceTurn \/ StopVoiceTurn \/ Outside
    \/ Renderer \/ Captures(FALSE) \/ FromRenderer \/ Pipeline \/ Timeouts

\* The renderer serves its commands and its devices keep delivering; the main
\* process handles what arrives; every awaited call settles and every timer fires.
\* Frames compete with other messages for the channel, hence strong fairness.
VoiceFairness ==
    /\ WF_vars(Renderer) /\ SF_vars(Captures(FALSE))
    /\ WF_vars(FromRenderer) /\ WF_vars(Pipeline) /\ WF_vars(Timeouts)

VoiceSpec == VoiceInit /\ [][VoiceNext]_vars /\ VoiceFairness

------------------------------------------------------------------------------
\* PROPERTIES

\* The renderer never holds the microphone for nobody: a capture it has open, or
\* is opening, is the one the main process reads, or is about to be stopped.
MicrophoneIsWatched ==
    \A id \in opening \cup open :
        \/ mic.id = id
        \/ \E i \in DOMAIN toRenderer : toRenderer[i] = Message("stopCapture", id)

\* Whatever ended a turn (a reply, a failure at any await, a stop, the listening
\* ceiling), its session is where the next turn can start from.
SessionSettles == ~Running => session \in {"idle", "error", "cancelled"}

\* executeVoiceTurn() refuses a second turn while one runs, so a turn that never
\* ends silences the assistant: every turn ends, unless its window is gone.
EveryTurnEnds == Running ~> (~Running \/ renderer = "gone")

\* The tool registry's comment: a turn cancelled after the model asked for a tool
\* and before the tool runs does not run it.
StoppedTurnsActNoMore ==
    [][stopped /\ stream.at # "running" => stream'.at # "running"]_vars

\* The orchestrator's comment: a turn that has streamed events is not replayed,
\* so what a tool has done is not done again by a retry.
RetriesRepeatNothing == [][voice'.attempt > voice.attempt => ~acted]_vars

==============================================================================
