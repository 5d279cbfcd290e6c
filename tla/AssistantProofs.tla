--------------------------- MODULE AssistantProofs ---------------------------
(***************************************************************************)
(* What holds of spoken and typed turns for any bounds, models, tools and  *)
(* devices, whatever a turn, the renderer and the person do and however    *)
(* late: a typed turn that fails admits what it did, a voice session can   *)
(* always be started again, and no microphone is open for nobody.          *)
(***************************************************************************)
EXTENDS VoiceTurn, TextTurn, TLAPS

-----------------------------------------------------------------------------
(* The typed turn.                                                         *)

TextType ==
  [at : {"idle", "storing", "deleting", "confirming", "asking", "replying", "cancelling"},
   signal : BOOLEAN, aborted : BOOLEAN, said : BOOLEAN, completed : BOOLEAN,
   told : {"none", "unsaved", "rejected", "action_completed", "reply", "cancelled"}]

TextInv ==
  /\ text \in TextType
  /\ acted \in BOOLEAN
  /\ acted => text.completed
  /\ text.at \in {"storing", "deleting", "confirming"} => ~acted
  /\ text.told = "rejected" => text.at = "idle" /\ ~acted

\* Only the result of a tool has an effect.
LEMMA OnlyResultsAct ==
  ASSUME NEW s, NEW aborted \in BOOLEAN, NEW st \in StreamSteps(s, aborted)
  PROVE  st.effect \in BOOLEAN /\ (st.effect => st.event = "result")
<1>0. ASSUME NEW event, NEW next, st = Step(event, next)
      PROVE  st.effect = FALSE
  BY <1>0 DEF Step
<1>1. CASE st \in ProviderRefuses(s)
  BY <1>0, <1>1 DEF ProviderRefuses
<1>2. CASE st \in StreamStalls(s) \/ st \in BreaksOff(s)
  BY <1>0, <1>2 DEF StreamStalls, BreaksOff
<1>3. CASE st \in Streams(s)
  BY <1>0, <1>3 DEF Streams
<1>4. CASE st \in RoundEnds(s)
  BY <1>0, <1>4 DEF RoundEnds
<1>5. CASE st \in ToolStarts(s, aborted) \/ st \in RunsOut(s)
  BY <1>0, <1>5 DEF ToolStarts, RunsOut
<1>6. CASE st \in ToolEnds(s)
  <2>1. st = Step("failure", AfterTool(s))
        \/ st = [event |-> "result", next |-> AfterTool(s), effect |-> TRUE]
    BY <1>6 DEF ToolEnds, Step
  <2>2. CASE st = Step("failure", AfterTool(s))
    BY <2>2, <1>0
  <2>3. CASE st = [event |-> "result", next |-> AfterTool(s), effect |-> TRUE]
    BY <2>3
  <2> QED BY <2>1, <2>2, <2>3
<1>7. \/ st \in ProviderRefuses(s) \/ st \in StreamStalls(s) \/ st \in BreaksOff(s)
      \/ st \in Streams(s) \/ st \in RoundEnds(s) \/ st \in ToolStarts(s, aborted)
      \/ st \in ToolEnds(s) \/ st \in RunsOut(s)
  BY Zenon DEF StreamSteps
<1> QED BY <1>1, <1>2, <1>3, <1>4, <1>5, <1>6, <1>7

Events == {"none", "error", "text", "call", "result", "failure", "throws", "done"}

\* The consumers know every event there is.
LEMMA EventsOf ==
  ASSUME NEW s, NEW aborted \in BOOLEAN, NEW st \in StreamSteps(s, aborted)
  PROVE  st.event \in Events
<1>0. ASSUME NEW event, NEW next, st = Step(event, next)
      PROVE  st.event = event
  BY <1>0 DEF Step
<1>1. CASE st \in ProviderRefuses(s)
  BY <1>0, <1>1 DEF ProviderRefuses, Events
<1>2. CASE st \in StreamStalls(s) \/ st \in BreaksOff(s)
  BY <1>0, <1>2 DEF StreamStalls, BreaksOff, Events
<1>3. CASE st \in Streams(s)
  BY <1>0, <1>3 DEF Streams, Events
<1>4. CASE st \in RoundEnds(s)
  BY <1>0, <1>4 DEF RoundEnds, Events
<1>5. CASE st \in ToolStarts(s, aborted) \/ st \in RunsOut(s)
  BY <1>0, <1>5 DEF ToolStarts, RunsOut, Events
<1>6. CASE st \in ToolEnds(s)
  BY <1>0, <1>6 DEF ToolEnds, Step, Events
<1>7. \/ st \in ProviderRefuses(s) \/ st \in StreamStalls(s) \/ st \in BreaksOff(s)
      \/ st \in Streams(s) \/ st \in RoundEnds(s) \/ st \in ToolStarts(s, aborted)
      \/ st \in ToolEnds(s) \/ st \in RunsOut(s)
  BY Zenon DEF StreamSteps
<1> QED BY <1>1, <1>2, <1>3, <1>4, <1>5, <1>6, <1>7

LEMMA TextPreserved == TextInv /\ [TextNext]_typedVars => TextInv'
<1> SUFFICES ASSUME TextInv, [TextNext]_typedVars
             PROVE  TextInv'
  OBVIOUS
<1> USE DEF TextInv, TextType
<1>1. CASE SendTurn \/ RegenerateMessage
  BY <1>1 DEF SendTurn, RegenerateMessage, NoText
<1>2. CASE CancelTurn
  BY <1>2 DEF CancelTurn
<1>3. CASE MessageStored
  BY <1>3 DEF MessageStored, Turns, Ends
<1>4. CASE Confirms
  BY <1>4 DEF Confirms, Turns, Ends
<1>5. CASE AsksModel
  <2>1. PICK st \in StreamSteps(stream, text.aborted) : Advances(st) /\ HearsReply(st)
    BY <1>5 DEF AsksModel
  <2>2. st.effect \in BOOLEAN /\ (st.effect => st.event = "result")
    BY <2>1, OnlyResultsAct
  <2>3. text.at = "asking"
    BY <1>5 DEF AsksModel
  <2>4. CASE st.effect
    <3>1. text' = [text EXCEPT !.completed = TRUE] /\ acted' = TRUE
      BY <2>1, <2>2, <2>4 DEF HearsReply, Advances
    <3> QED BY <2>3, <3>1
  <2>5. CASE ~st.effect
    <3>1. acted' = acted
      BY <2>1, <2>5 DEF Advances
    <3>2. \/ text' = [text EXCEPT !.said = TRUE]
          \/ text' = [text EXCEPT !.completed = TRUE]
          \/ \E phase \in {"cancelling", "replying"} : text' = [text EXCEPT !.at = phase]
          \/ text' = [text EXCEPT !.at = "idle",
                        !.told = IF text.completed THEN "action_completed" ELSE "rejected"]
          \/ text' = text
      BY <2>1 DEF HearsReply, Rejects, Turns, Ends
    <3> QED BY <2>3, <3>1, <3>2
  <2> QED BY <2>2, <2>4, <2>5
<1>6. CASE ReplyStored
  BY <1>6 DEF ReplyStored, Ends
<1>7. CASE UNCHANGED typedVars
  BY <1>7 DEF typedVars, textVars
<1> QED BY <1>1, <1>2, <1>3, <1>4, <1>5, <1>6, <1>7 DEF TextNext, TextProceeds

\* For any model, tools and failures: a typed turn that is shown as rejected has
\* changed nothing.
THEOREM RejectionsAreHonest == TextSpec => []FailureAdmitsTheAction
<1>1. AssistantInit /\ TextInit => TextInv
  <2> SUFFICES ASSUME AssistantInit, TextInit PROVE TextInv
    OBVIOUS
  <2> QED BY DEF AssistantInit, TextInit, NoText, TextInv, TextType
<1>2. TextInv => FailureAdmitsTheAction
  BY DEF TextInv, FailureAdmitsTheAction
<1> QED BY <1>1, <1>2, TextPreserved, PTL DEF TextSpec

-----------------------------------------------------------------------------
(* The voice turn's session.                                               *)

States == {"idle", "listening", "transcribing", "thinking", "tool_execution", "recovering",
           "speaking", "interrupted", "cancelled", "error"}

Phases == {"idle", "refreshing", "listening", "recognising", "understanding", "recording",
           "asking", "backing_off", "speaking", "reaping", "persisting"}

Settled == {"idle", "error", "cancelled"}

\* SessionSettles alone is not inductive: a turn that is being recorded has
\* already left its session for good.
SessionInv ==
  /\ session \in States
  /\ voice \in [at : Phases, attempt : Nat, said : BOOLEAN, direct : BOOLEAN]
  /\ voice.at \in {"idle", "persisting"} => session \in Settled

LEMMA Transitions ==
  ASSUME session \in States
  PROVE  /\ IfAllowed("error") \in Settled
         /\ IfAllowed("cancelled") \in States
         /\ session \in Settled => IfAllowed("cancelled") \in Settled
         /\ IfAllowed("recovering") \in States
         /\ IfAllowed("speaking") \in States
         /\ session \in {"idle", "cancelled"} => IfAllowed("speaking") \in Settled
<1>1. /\ Valid["listening"] = {"transcribing", "cancelled", "error"}
      /\ Valid["transcribing"] = {"thinking", "cancelled", "error"}
      /\ Valid["thinking"] =
           {"tool_execution", "speaking", "recovering", "idle", "cancelled", "error"}
      /\ Valid["tool_execution"] = {"thinking", "cancelled", "error"}
      /\ Valid["recovering"] = {"thinking", "cancelled", "error"}
      /\ Valid["speaking"] = {"idle", "interrupted", "cancelled", "error"}
      /\ Valid["interrupted"] = {"idle", "listening", "cancelled", "error"}
      /\ Valid["idle"] = {"listening"}
      /\ Valid["cancelled"] = {"idle"}
      /\ Valid["error"] = {"idle"}
  BY DEF Valid
<1>2. \/ session = "idle" \/ session = "listening" \/ session = "transcribing"
      \/ session = "thinking" \/ session = "tool_execution" \/ session = "recovering"
      \/ session = "speaking" \/ session = "interrupted" \/ session = "cancelled"
      \/ session = "error"
  BY DEF States
<1>3. session \in Settled \/ "error" \in Valid[session]
  BY <1>1, <1>2 DEF Settled
<1>4. session \in Settled => "cancelled" \notin Valid[session]
  BY <1>1 DEF Settled
<1>5. session \in {"idle", "cancelled"} => "speaking" \notin Valid[session]
  BY <1>1
<1> QED BY <1>3, <1>4, <1>5 DEF IfAllowed, MayBecome, States, Settled

LEMMA FailsSettles ==
  ASSUME SessionInv, Fails
  PROVE  SessionInv'
<1>1. session' \in Settled /\ voice' = NoVoice
  BY Transitions DEF Fails, SessionInv
<1> QED BY <1>1 DEF SessionInv, NoVoice, Phases, States, Settled

\* A turn that goes on, in any of the session's states.
LEMMA GoesOn ==
  ASSUME SessionInv, session' \in States, NEW phase \in Phases \ {"idle", "persisting"},
         Goes(phase)
  PROVE  SessionInv'
BY DEF SessionInv, Goes

LEMMA ListeningBegins ==
  ASSUME SessionInv, NEW known, BeginsListening(known)
  PROVE  SessionInv'
<1>1. \/ session' = "listening" /\ voice' = [NoVoice EXCEPT !.at = "listening"]
      \/ session' = "error" /\ voice' = NoVoice
  BY DEF BeginsListening
<1>2. CASE session' = "listening" /\ voice' = [NoVoice EXCEPT !.at = "listening"]
  BY <1>2 DEF SessionInv, NoVoice, States, Phases
<1>3. CASE session' = "error" /\ voice' = NoVoice
  BY <1>3 DEF SessionInv, NoVoice, States, Phases, Settled
<1> QED BY <1>1, <1>2, <1>3

LEMMA SessionStays ==
  ASSUME SessionInv, UNCHANGED <<session, voice>>
  PROVE  SessionInv'
BY DEF SessionInv

LEMMA FramePreserves ==
  ASSUME SessionInv, NEW speech, TurnHears(speech) \/ MonitorHears(speech)
  PROVE  SessionInv'
<1>1. CASE Fails
  BY <1>1, FailsSettles
<1>2. CASE UNCHANGED <<session, voice>>
  BY <1>2, SessionStays
<1>3. CASE /\ session' = IF session = "listening" THEN "transcribing" ELSE session
           /\ Goes("recognising")
  <2>1. session' \in States
    BY <1>3 DEF SessionInv, States
  <2> QED BY <1>3, <2>1, GoesOn DEF Phases
<1>4. CASE BargesIn
  <2>1. session' \in States /\ Goes("reaping")
    BY <1>4 DEF SessionInv, States, BargesIn
  <2> QED BY <2>1, GoesOn DEF Phases
<1> QED BY <1>1, <1>2, <1>3, <1>4 DEF TurnHears, MonitorHears

LEMMA AttemptPreserves ==
  ASSUME SessionInv, AttemptFails
  PROVE  SessionInv'
<1>1. CASE session' = IfAllowed("recovering") /\ Goes("backing_off")
  <2>1. session' \in States
    BY <1>1, Transitions DEF SessionInv
  <2> QED BY <1>1, <2>1, GoesOn DEF Phases
<1> QED BY <1>1, FailsSettles DEF AttemptFails

\* What the model says is heard between two phases that are not the end.
LEMMA ModelPreserves ==
  ASSUME SessionInv, voice.at = "asking", NEW st \in StreamSteps(stream, FALSE), HearsModel(st)
  PROVE  SessionInv'
<1>1. CASE UNCHANGED <<session, voice>>
  BY <1>1, SessionStays
<1>2. CASE voice' = [voice EXCEPT !.said = TRUE] /\ UNCHANGED session
  BY <1>2 DEF SessionInv
<1>3. CASE session' = Wanted(st.event) /\ UNCHANGED voice
  <2>1. session' \in States
    BY <1>3 DEF Wanted, States
  <2> QED BY <1>3, <2>1 DEF SessionInv
<1>4. CASE Goes("recording") /\ UNCHANGED session
  <2>1. session' \in States
    BY <1>4 DEF SessionInv
  <2> QED BY <1>4, <2>1, GoesOn DEF Phases
<1>5. CASE AttemptFails
  BY <1>5, AttemptPreserves
<1>6. \/ UNCHANGED <<session, voice>> \/ AttemptFails
      \/ voice' = [voice EXCEPT !.said = TRUE] /\ UNCHANGED session
      \/ session' = Wanted(st.event) /\ UNCHANGED voice
      \/ Goes("recording") /\ UNCHANGED session
  <2>1. st.event \in Events
    BY EventsOf
  <2> QED BY <2>1 DEF HearsModel, Events
<1> QED BY <1>1, <1>2, <1>3, <1>4, <1>5, <1>6

LEMMA UnderstandingPreserves ==
  ASSUME SessionInv, Recognises \/ Understands \/ AsksAgain
  PROVE  SessionInv'
<1>1. CASE Fails
  BY <1>1, FailsSettles
<1>2. CASE session' = "thinking" /\ Goes("understanding")
  BY <1>2, GoesOn DEF States, Phases
<1>3. CASE voice' = [voice EXCEPT !.at = "recording", !.direct = TRUE] /\ UNCHANGED session
  BY <1>3 DEF SessionInv, Phases
<1>4. CASE Goes("recording") /\ UNCHANGED session
  BY <1>4 DEF SessionInv, Phases, Goes
<1>5. CASE voice' = [voice EXCEPT !.at = "asking", !.attempt = 1] /\ UNCHANGED session
  BY <1>5 DEF SessionInv, Phases
<1>6. CASE AsksAgain
  <2>1. session' \in States
    BY <1>6 DEF AsksAgain, SessionInv, States
  <2>2. voice' = [voice EXCEPT !.at = "asking", !.attempt = 2, !.said = FALSE]
    BY <1>6 DEF AsksAgain
  <2> QED BY <2>1, <2>2 DEF SessionInv, Phases
<1> QED BY <1>1, <1>2, <1>3, <1>4, <1>5, <1>6 DEF Recognises, Understands

LEMMA SpeakingPreserves ==
  ASSUME SessionInv, Records
  PROVE  SessionInv'
<1>1. CASE Fails
  BY <1>1, FailsSettles
<1>2. CASE /\ MayBecome("speaking") \/ session \in {"idle", "cancelled"}
           /\ Speaks
           /\ session' = IF ~CanPlay /\ MayBecome("speaking") THEN "error"
                         ELSE IfAllowed("speaking")
  <2>1. CASE CanPlay
    <3>1. session' \in States /\ Goes("speaking")
      BY <1>2, <2>1, Transitions DEF SessionInv, Speaks
    <3> QED BY <3>1, GoesOn DEF Phases
  <2>2. CASE ~CanPlay
    <3>1. voice' = NoVoice
      BY <1>2, <2>2 DEF Speaks
    <3>2. session' \in Settled
      BY <1>2, <2>2, Transitions DEF SessionInv, Settled
    <3> QED BY <3>1, <3>2 DEF SessionInv, NoVoice, Phases, Settled, States
  <2> QED BY <2>1, <2>2
<1> QED BY <1>1, <1>2 DEF Records

LEMMA PlaybackPreserves ==
  ASSUME SessionInv, InputEnds \/ PlayResultArrives \/ PlaybackTimesOut
  PROVE  SessionInv'
<1>1. CASE Fails
  BY <1>1, FailsSettles
<1>2. CASE UNCHANGED <<session, voice>>
  BY <1>2, SessionStays
<1>3. CASE Goes("reaping") /\ UNCHANGED session
  BY <1>3 DEF SessionInv, Phases, Goes
<1> QED BY <1>1, <1>2, <1>3 DEF InputEnds, PlayResultArrives, PlaybackTimesOut, PlayReturns,
                                PlayRejects

LEMMA EndPreserves ==
  ASSUME SessionInv, SpokenOut \/ TurnRecorded
  PROVE  SessionInv'
<1>1. CASE Fails
  BY <1>1, FailsSettles
<1>2. CASE BeginsThinking
  BY <1>2 DEF BeginsThinking, SessionInv, NoVoice, States, Phases
<1>3. CASE session' = "idle" /\ Goes("persisting")
  BY <1>3 DEF SessionInv, Goes, States, Phases, Settled
<1>4. CASE TurnRecorded
  <2>1. session' \in Settled /\ voice' = NoVoice
    BY <1>4 DEF TurnRecorded, SessionInv
  <2> QED BY <2>1 DEF SessionInv, NoVoice, Phases, States, Settled
<1> QED BY <1>1, <1>2, <1>3, <1>4 DEF SpokenOut

LEMMA StopPreserves ==
  ASSUME SessionInv, StopVoiceTurn
  PROVE  SessionInv'
<1>1. session' \in States /\ (session \in Settled => session' \in Settled)
  BY Transitions DEF SessionInv, StopVoiceTurn, Settled, States
<1>2. CASE Goes("reaping")
  BY <1>1, <1>2, GoesOn DEF Phases
<1>3. CASE UNCHANGED voice
  BY <1>1, <1>3 DEF SessionInv
<1> QED BY <1>2, <1>3 DEF StopVoiceTurn

LEMMA StartPreserves ==
  ASSUME SessionInv,
         \/ StartVoiceTurn
         \/ \E id, found : DevicesListed(id, found)
  PROVE  SessionInv'
<1>1. CASE \E known : BeginsListening(known)
  BY <1>1, ListeningBegins
<1>2. CASE voice' = [NoVoice EXCEPT !.at = "refreshing"] /\ UNCHANGED session
  BY <1>2 DEF SessionInv, NoVoice, Phases
<1>3. CASE UNCHANGED <<session, voice>>
  BY <1>3, SessionStays
<1> QED BY <1>1, <1>2, <1>3 DEF StartVoiceTurn, DevicesListed

LEMMA SessionPreserved == SessionInv /\ [VoiceNext]_vars => SessionInv'
<1> SUFFICES ASSUME SessionInv, [VoiceNext]_vars
             PROVE  SessionInv'
  OBVIOUS
<1>1. CASE StartVoiceTurn \/ DevicesArrive \/ \E id \in listings : ListingTimesOut(id)
  BY <1>1, StartPreserves, SessionStays DEF DevicesArrive, ListingTimesOut, voiceVars
<1>2. CASE StopVoiceTurn
  BY <1>2, StopPreserves
<1>3. CASE FrameArrives
  BY <1>3, FramePreserves, SessionStays DEF FrameArrives
<1>4. CASE CaptureFails
  BY <1>4, FailsSettles, SessionStays DEF CaptureFails
<1>5. CASE ListeningExpires
  BY <1>5 DEF ListeningExpires, SessionInv, States, Settled
<1>6. CASE Recognises \/ Understands \/ AsksAgain
  BY <1>6, UnderstandingPreserves
<1>7. CASE Asks
  BY <1>7, ModelPreserves DEF Asks
<1>8. CASE Records
  BY <1>8, SpeakingPreserves
<1>9. CASE InputEnds \/ PlayResultArrives \/ PlaybackTimesOut
  BY <1>9, PlaybackPreserves
<1>10. CASE SpokenOut \/ TurnRecorded
  BY <1>10, EndPreserves
<1>11. CASE Outside \/ Renderer \/ Captures(FALSE) \/ CaptureStopped \/ Feeds
            \/ MonitorRecognises \/ UNCHANGED vars
  <2>1. UNCHANGED <<session, voice>>
    BY <1>11 DEF Outside, Renderer, Captures, CaptureStopped, Feeds, MonitorRecognises, vars,
                 voiceVars
  <2> QED BY <2>1, SessionStays
<1> QED BY <1>1, <1>2, <1>3, <1>4, <1>5, <1>6, <1>7, <1>8, <1>9, <1>10, <1>11
        DEF VoiceNext, FromRenderer, Pipeline, Timeouts

\* For any bounds, devices, windows and models: whatever ended a turn, its session
\* is where the next turn can start from.
THEOREM SessionsSettle == VoiceSpec => []SessionSettles
<1>1. VoiceInit => SessionInv
  BY DEF VoiceInit, SessionInv, NoVoice, States, Phases, Settled
<1>2. SessionInv => SessionSettles
  BY DEF SessionInv, SessionSettles, Running, Settled
<1> QED BY <1>1, <1>2, SessionPreserved, PTL DEF VoiceSpec

-----------------------------------------------------------------------------
(* No microphone is open for nobody, for any devices, windows, models and  *)
(* turns: the main process and the renderer agree on who listens although  *)
(* they only exchange messages, either of them may give up, and the window *)
(* may be lost at any point.                                               *)

(* The invariant.                                                          *)

Kinds == {"none", "turn", "monitor", "play", "start", "change"}
CaptureIds == Nat \X {"turn", "monitor"}

ToRenderer ==
  [op : {"startCapture", "stopCapture", "play", "playChunk", "playEnd", "stopPlayback",
         "listDevices"}, id : Nat \X Kinds]

ToMain ==
  [op : {"captureError", "captureStopped"}, id : Nat \X Kinds]
  \cup [op : {"frame"}, id : Nat \X Kinds, speech : BOOLEAN]
  \cup [op : {"playResult"}, id : Nat \X Kinds, ok : BOOLEAN]
  \cup [op : {"devices"}, id : Nat \X Kinds, found : BOOLEAN]

BridgeType ==
  /\ toRenderer \in Seq(ToRenderer) /\ toMain \in Seq(ToMain)
  /\ players \subseteq [id : Nat \X Kinds, sounding : BOOLEAN, ended : BOOLEAN]
  /\ mic \in [id : Nat \X {"none", "turn", "monitor"}, heard : BOOLEAN, silent : Nat]
  /\ playing \in [id : Nat \X {"none", "play"}, fed : BOOLEAN, ended : BOOLEAN, late : BOOLEAN]
  /\ monitor \in [at : {"off", "watching", "hearing", "recognising", "heard", "quiet", "failed"},
                  told : BOOLEAN]
  /\ turn \in Nat /\ presses \in Nat /\ changes \in Nat

\* A message on its way.
Has(q, op, id) == \E i \in DOMAIN q : q[i].op = op /\ q[i].id = id

Asked(id) == Has(toRenderer, "startCapture", id)
Dropped(id) == Has(toRenderer, "stopCapture", id)
Heard(id) == Has(toMain, "frame", id)
Lost(id) == Has(toMain, "captureError", id)

Once(q) ==
  \A i, j \in DOMAIN q : q[i].op = "startCapture" /\ q[j].op = "startCapture" => i = j

\* A capture is in one stage of its life at a time, and the main process only
\* drops one that has been open.
CaptureInv ==
  /\ Once(toRenderer)
  /\ \A id : Asked(id) => /\ mic.id = id /\ id \notin opening /\ id \notin open
                          /\ ~Heard(id) /\ ~Lost(id)
  /\ \A id \in opening : mic.id = id /\ id \notin open /\ ~Heard(id) /\ ~Lost(id)
  /\ \A id \in open : (mic.id = id \/ Dropped(id)) /\ ~Lost(id)
  /\ \A id : Dropped(id) => mic.id # id
  /\ renderer # "up" => toRenderer = <<>> /\ opening = {} /\ open = {}

\* A turn's phases before it speaks.
Early == {"listening", "recognising", "understanding", "recording", "asking", "backing_off"}

\* Ids that were given out: the next turn's are new, and so is the monitor's of a
\* turn that has not spoken.
Given(id) ==
  /\ id \in CaptureIds /\ id[1] <= turn
  /\ id = Watched => voice.at \notin Early

GivenInv ==
  \A id : id \in opening \/ id \in open \/ Asked(id) \/ Dropped(id) \/ Heard(id) \/ Lost(id)
            => Given(id)

\* The turn's own capture is open while it listens, the monitor's from when it
\* begins to speak; nothing plays in any other phase.
OwnerInv ==
  /\ mic = NoMic \/ (mic.id = Captured /\ voice.at = "listening")
       \/ (mic.id[2] = "monitor" /\ Given(mic.id) /\ monitor.at \in {"watching", "hearing"}
           /\ voice.at \notin Early)
  /\ Playing => voice.at = "speaking"

MicrophoneInv == BridgeType /\ CaptureInv /\ GivenInv /\ OwnerInv

-----------------------------------------------------------------------------
(* The channels.                                                           *)

LEMMA HasAppend ==
  ASSUME NEW S, NEW q \in Seq(S), NEW e \in S
  PROVE  /\ Append(q, e) \in Seq(S)
         /\ \A op, id : Has(Append(q, e), op, id) <=> Has(q, op, id) \/ (e.op = op /\ e.id = id)
<1>1. Append(q, e) \in Seq(S)
  OBVIOUS
<1> SUFFICES ASSUME NEW op, NEW id
             PROVE  Has(Append(q, e), op, id) <=> Has(q, op, id) \/ (e.op = op /\ e.id = id)
  BY <1>1
<1>2. Len(Append(q, e)) = Len(q) + 1 /\ Append(q, e)[Len(q) + 1] = e /\ Len(q) \in Nat
      /\ DOMAIN q = 1..Len(q) /\ DOMAIN Append(q, e) = 1..(Len(q) + 1)
      /\ \A i \in 1..Len(q) : Append(q, e)[i] = q[i]
  OBVIOUS
<1> QED BY <1>2 DEF Has

LEMMA HasTail ==
  ASSUME NEW S, NEW q \in Seq(S), q # <<>>
  PROVE  /\ Head(q) \in S /\ Tail(q) \in Seq(S)
         /\ \A op, id : Has(q, op, id) <=>
                          Has(Tail(q), op, id) \/ (Head(q).op = op /\ Head(q).id = id)
         /\ Once(q) => Once(Tail(q))
         /\ Once(q) /\ Head(q).op = "startCapture"
              => \A id : ~Has(Tail(q), "startCapture", id)
<1>1. Head(q) \in S /\ Tail(q) \in Seq(S)
  OBVIOUS
<1>2. /\ Len(q) \in Nat \ {0} /\ DOMAIN q = 1..Len(q) /\ DOMAIN Tail(q) = 1..(Len(q) - 1)
      /\ Head(q) = q[1] /\ \A i \in 1..(Len(q) - 1) : Tail(q)[i] = q[i + 1]
  OBVIOUS
<1>3. ASSUME NEW op, NEW id
      PROVE  Has(q, op, id) <=> Has(Tail(q), op, id) \/ (Head(q).op = op /\ Head(q).id = id)
  <2>1. ASSUME NEW i \in 1..Len(q), q[i].op = op, q[i].id = id, i # 1
        PROVE  Has(Tail(q), op, id)
    <3>1. i - 1 \in 1..(Len(q) - 1) /\ Tail(q)[i - 1] = q[i]
      BY <1>2, <2>1
    <3> QED BY <1>2, <2>1, <3>1 DEF Has
  <2>2. Has(Tail(q), op, id) => Has(q, op, id)
    <3> SUFFICES ASSUME NEW i \in DOMAIN Tail(q), Tail(q)[i].op = op, Tail(q)[i].id = id
                 PROVE  Has(q, op, id)
      BY DEF Has
    <3>1. i + 1 \in DOMAIN q /\ q[i + 1] = Tail(q)[i]
      BY <1>2
    <3> QED BY <3>1 DEF Has
  <2>3. 1 \in DOMAIN q
    BY <1>2
  <2> QED BY <1>2, <2>1, <2>2, <2>3 DEF Has
<1>4. ASSUME Once(q) PROVE Once(Tail(q))
  <2> SUFFICES ASSUME NEW i \in DOMAIN Tail(q), NEW j \in DOMAIN Tail(q),
                      Tail(q)[i].op = "startCapture", Tail(q)[j].op = "startCapture"
               PROVE  i = j
    BY DEF Once
  <2>1. /\ i + 1 \in DOMAIN q /\ q[i + 1] = Tail(q)[i]
        /\ j + 1 \in DOMAIN q /\ q[j + 1] = Tail(q)[j]
    BY <1>2
  <2>2. i + 1 = j + 1
    BY <1>4, <2>1 DEF Once
  <2> QED BY <1>2, <2>2
<1>5. ASSUME Once(q), Head(q).op = "startCapture", NEW id
      PROVE  ~Has(Tail(q), "startCapture", id)
  <2> SUFFICES ASSUME NEW i \in DOMAIN Tail(q), Tail(q)[i].op = "startCapture"
               PROVE  FALSE
    BY DEF Has
  <2>1. i + 1 \in DOMAIN q /\ q[i + 1] = Tail(q)[i] /\ 1 \in DOMAIN q
    BY <1>2
  <2>2. i + 1 = 1
    BY <1>2, <1>5, <2>1 DEF Once
  <2> QED BY <1>2, <2>2
<1> QED BY <1>1, <1>3, <1>4, <1>5

LEMMA HasConcat ==
  ASSUME NEW S, NEW q \in Seq(S), NEW r \in Seq(S)
  PROVE  /\ q \o r \in Seq(S)
         /\ \A op, id : Has(q \o r, op, id) <=> Has(q, op, id) \/ Has(r, op, id)
         /\ Once(q) /\ (\A id : ~Has(r, "startCapture", id)) => Once(q \o r)
         /\ Once(r) /\ (\A id : ~Has(q, "startCapture", id)) => Once(q \o r)
<1>1. /\ q \o r \in Seq(S) /\ Len(q) \in Nat /\ Len(r) \in Nat
      /\ DOMAIN q = 1..Len(q) /\ DOMAIN r = 1..Len(r)
      /\ DOMAIN (q \o r) = 1..(Len(q) + Len(r))
  OBVIOUS
<1>2. /\ \A i \in 1..Len(q) : (q \o r)[i] = q[i]
      /\ \A i \in 1..(Len(q) + Len(r)) : i > Len(q) => (q \o r)[i] = r[i - Len(q)]
  OBVIOUS
<1>3. ASSUME NEW op, NEW id
      PROVE  Has(q \o r, op, id) <=> Has(q, op, id) \/ Has(r, op, id)
  <2>1. ASSUME NEW i \in DOMAIN (q \o r), (q \o r)[i].op = op, (q \o r)[i].id = id
        PROVE  Has(q, op, id) \/ Has(r, op, id)
    <3>1. CASE i \in DOMAIN q
      BY <1>1, <1>2, <2>1, <3>1 DEF Has
    <3>2. CASE i \notin DOMAIN q
      <4>1. i - Len(q) \in DOMAIN r /\ (q \o r)[i] = r[i - Len(q)]
        BY <1>1, <1>2, <3>2
      <4> QED BY <2>1, <4>1 DEF Has
    <3> QED BY <3>1, <3>2
  <2>2. ASSUME NEW i \in DOMAIN q, q[i].op = op, q[i].id = id
        PROVE  Has(q \o r, op, id)
    <3>1. i \in DOMAIN (q \o r) /\ (q \o r)[i] = q[i]
      BY <1>1, <1>2
    <3> QED BY <2>2, <3>1 DEF Has
  <2>3. ASSUME NEW i \in DOMAIN r, r[i].op = op, r[i].id = id
        PROVE  Has(q \o r, op, id)
    <3>1. i + Len(q) \in DOMAIN (q \o r) /\ (q \o r)[i + Len(q)] = r[i]
      BY <1>1, <1>2
    <3> QED BY <2>3, <3>1 DEF Has
  <2> QED BY <2>1, <2>2, <2>3 DEF Has
<1>4. ASSUME Once(q), \A id : ~Has(r, "startCapture", id)
      PROVE  Once(q \o r)
  <2>1. ASSUME NEW i \in DOMAIN (q \o r), (q \o r)[i].op = "startCapture"
        PROVE  i \in DOMAIN q /\ q[i].op = "startCapture"
    <3>1. CASE i \in DOMAIN q
      BY <1>1, <1>2, <2>1, <3>1
    <3>2. CASE i \notin DOMAIN q
      <4>1. i - Len(q) \in DOMAIN r /\ (q \o r)[i] = r[i - Len(q)]
        BY <1>1, <1>2, <3>2
      <4> QED BY <1>4, <2>1, <4>1 DEF Has
    <3> QED BY <3>1, <3>2
  <2> QED BY <1>4, <2>1 DEF Once
<1>5. ASSUME Once(r), \A id : ~Has(q, "startCapture", id)
      PROVE  Once(q \o r)
  <2>1. ASSUME NEW i \in DOMAIN (q \o r), (q \o r)[i].op = "startCapture"
        PROVE  i - Len(q) \in DOMAIN r /\ r[i - Len(q)].op = "startCapture"
    <3>1. CASE i \in DOMAIN q
      BY <1>1, <1>2, <1>5, <2>1, <3>1 DEF Has
    <3>2. CASE i \notin DOMAIN q
      BY <1>1, <1>2, <2>1, <3>2
    <3> QED BY <3>1, <3>2
  <2>2. ASSUME NEW i \in DOMAIN (q \o r), NEW j \in DOMAIN (q \o r),
               (q \o r)[i].op = "startCapture", (q \o r)[j].op = "startCapture"
        PROVE  i = j
    <3>1. i - Len(q) = j - Len(q)
      BY <1>5, <2>1, <2>2 DEF Once
    <3> QED BY <1>1, <3>1
  <2> QED BY <2>2 DEF Once
<1> QED BY <1>1, <1>3, <1>4, <1>5

\* One message taken by the renderer.
LEMMA Taken ==
  ASSUME BridgeType, NEW op, Takes(op)
  PROVE  /\ Head(toRenderer) \in ToRenderer /\ Head(toRenderer).op = op
         /\ toRenderer' \in Seq(ToRenderer) /\ toRenderer # <<>>
         /\ \A o, id : Has(toRenderer, o, id) <=>
                         Has(toRenderer', o, id) \/ (op = o /\ Head(toRenderer).id = id)
         /\ Once(toRenderer) => Once(toRenderer')
         /\ Once(toRenderer) /\ op = "startCapture" => \A id : ~Asked(id)'
BY HasTail DEF BridgeType, Takes, Asked

\* One message to the main process.
LEMMA Replied ==
  ASSUME BridgeType, NEW m \in ToMain, Replies(m)
  PROVE  /\ toMain' \in Seq(ToMain)
         /\ \A o, id : Has(toMain', o, id) <=> Has(toMain, o, id) \/ (m.op = o /\ m.id = id)
BY HasAppend DEF BridgeType, Replies

\* One message taken by the main process.
LEMMA Handled ==
  ASSUME BridgeType, toMain # <<>>, toMain' = Tail(toMain)
  PROVE  /\ Head(toMain) \in ToMain /\ toMain' \in Seq(ToMain)
         /\ \A o, id : Has(toMain, o, id) <=>
                         Has(toMain', o, id) \/ (Head(toMain).op = o /\ Head(toMain).id = id)
BY HasTail DEF BridgeType

\* Messages to the renderer, if there is one.
LEMMA SentOn ==
  ASSUME BridgeType, NEW ms \in Seq(ToRenderer), toRenderer' = Sent(ms)
  PROVE  /\ toRenderer' \in Seq(ToRenderer)
         /\ \A o, id : Has(toRenderer', o, id) <=>
                         Has(toRenderer, o, id) \/ (renderer = "up" /\ Has(ms, o, id))
         /\ Once(toRenderer) /\ (\A id : ~Has(ms, "startCapture", id)) => Once(toRenderer')
         /\ Once(toRenderer) /\ Once(ms) /\ (\A id : ~Asked(id)) => Once(toRenderer')
         /\ renderer # "up" => toRenderer' = toRenderer
BY HasConcat DEF BridgeType, Sent, Asked

LEMMA OneMessage ==
  ASSUME NEW op, NEW id, Message(op, id) \in ToRenderer
  PROVE  /\ <<Message(op, id)>> \in Seq(ToRenderer)
         /\ \A o, d : Has(<<Message(op, id)>>, o, d) <=> op = o /\ id = d
         /\ Once(<<Message(op, id)>>)
<1> DEFINE q == <<Message(op, id)>>
<1>1. q \in Seq(ToRenderer) /\ DOMAIN q = {1} /\ q[1].op = op /\ q[1].id = id
  BY DEF Message
<1> QED BY <1>1 DEF Has, Once

-----------------------------------------------------------------------------
(* Steps that move no capture.                                             *)

\* The ids given out stay given out: a turn does not go back.
TurnsGoOn ==
  \/ turn' = turn /\ (voice'.at \in Early => voice.at \in Early)
  \/ turn' = turn + 1

LEMMA StaysGiven ==
  ASSUME BridgeType, TurnsGoOn, NEW id, Given(id)
  PROVE  Given(id)'
<1>1. CASE turn' = turn /\ (voice'.at \in Early => voice.at \in Early)
  BY <1>1 DEF Given, Watched
<1>2. CASE turn' = turn + 1
  <2>1. id[1] <= turn /\ id \in CaptureIds /\ turn \in Nat /\ id[1] \in Nat
    BY DEF Given, BridgeType, CaptureIds
  <2>2. id[1] <= turn'
    BY <1>2, <2>1
  <2>3. id # <<turn', "monitor">>
    BY <1>2, <2>1
  <2> QED BY <2>1, <2>2, <2>3 DEF Given, Watched
<1> QED BY <1>1, <1>2 DEF TurnsGoOn

\* Nothing about captures is sent, taken or changed, except that a report of one
\* may have been read.
CapturesStay ==
  /\ UNCHANGED <<opening, open, renderer>> /\ mic'.id = mic.id
  /\ renderer # "up" => toRenderer' = toRenderer
  /\ Once(toRenderer) => Once(toRenderer')
  /\ \A id : /\ Asked(id)' <=> Asked(id)
             /\ Dropped(id)' <=> Dropped(id)
             /\ Heard(id)' => Heard(id)
             /\ Lost(id)' => Lost(id)

LEMMA NoCaptureMoves ==
  ASSUME CaptureInv, CapturesStay
  PROVE  CaptureInv'
BY DEF CaptureInv, CapturesStay

LEMMA NoIdMoves ==
  ASSUME BridgeType, GivenInv, CapturesStay, TurnsGoOn
  PROVE  GivenInv'
BY StaysGiven DEF GivenInv, CapturesStay

LEMMA OwnerStays ==
  ASSUME OwnerInv, UNCHANGED <<mic, playing, voiceVars>>
  PROVE  OwnerInv'
BY DEF OwnerInv, voiceVars, Playing, Captured, Given, Watched

\* The members of BridgeType that are the main process's own.
LEMMA TypeStays ==
  ASSUME BridgeType, UNCHANGED <<mic, playing, monitor, turn, presses>>, changes' \in Nat,
         toRenderer' \in Seq(ToRenderer), toMain' \in Seq(ToMain),
         players' \subseteq [id : Nat \X Kinds, sounding : BOOLEAN, ended : BOOLEAN]
  PROVE  BridgeType'
BY DEF BridgeType

-----------------------------------------------------------------------------
(* The renderer.                                                           *)

LEMMA CaptureStarts ==
  ASSUME MicrophoneInv, RendererStartsCapture, UNCHANGED voiceVars
  PROVE  MicrophoneInv'
<1> DEFINE id0 == Head(toRenderer).id
<1>1. /\ UNCHANGED <<toMain, renderer, open, players, mic, playing, deviceVars, spoken>>
      /\ opening' = opening \cup {id0}
      /\ Takes("startCapture")
  BY DEF RendererStartsCapture
<1>2. /\ toRenderer' \in Seq(ToRenderer) /\ toRenderer # <<>> /\ Once(toRenderer')
      /\ \A id : ~Asked(id)'
      /\ Asked(id0)
      /\ \A id : Dropped(id)' <=> Dropped(id)
  BY <1>1, Taken DEF MicrophoneInv, CaptureInv, Asked, Dropped
<1>3. \A id : (Heard(id)' <=> Heard(id)) /\ (Lost(id)' <=> Lost(id))
  BY <1>1 DEF Heard, Lost
<1>4. BridgeType'
  BY <1>1, <1>2, TypeStays DEF MicrophoneInv, BridgeType, deviceVars, voiceVars
<1>5. CaptureInv'
  BY <1>1, <1>2, <1>3 DEF MicrophoneInv, CaptureInv
<1>6. GivenInv'
  BY <1>1, <1>2, <1>3, StaysGiven DEF MicrophoneInv, GivenInv, TurnsGoOn, voiceVars
<1> QED BY <1>1, <1>4, <1>5, <1>6, OwnerStays DEF MicrophoneInv

LEMMA CaptureSettles ==
  ASSUME MicrophoneInv, NEW id0, CaptureOpens(id0), UNCHANGED voiceVars
  PROVE  MicrophoneInv'
<1>1. /\ UNCHANGED <<toRenderer, renderer, players, mic, playing, deviceVars, spoken>>
      /\ id0 \in opening /\ opening' = opening \ {id0}
      /\ \/ open' = open \cup {id0} /\ UNCHANGED toMain
         \/ Replies(Message("captureError", id0)) /\ UNCHANGED open
  BY DEF CaptureOpens
<1>2. id0 \in Nat \X Kinds /\ Message("captureError", id0) \in ToMain
  BY <1>1 DEF MicrophoneInv, GivenInv, Given, CaptureIds, Kinds, Message, ToMain
<1>3. /\ toMain' \in Seq(ToMain)
      /\ \A id : Heard(id)' <=> Heard(id)
      /\ \A id : Lost(id)' => Lost(id) \/ (id = id0 /\ open' = open)
  <2>1. CASE open' = open \cup {id0} /\ UNCHANGED toMain
    BY <2>1 DEF MicrophoneInv, BridgeType, Heard, Lost
  <2>2. CASE Replies(Message("captureError", id0)) /\ UNCHANGED open
    BY <1>2, <2>2, Replied DEF MicrophoneInv, Heard, Lost, Message
  <2> QED BY <1>1, <2>1, <2>2
<1>4. \A id : (Asked(id)' <=> Asked(id)) /\ (Dropped(id)' <=> Dropped(id))
  BY <1>1 DEF Asked, Dropped
<1>5. BridgeType'
  BY <1>1, <1>3, TypeStays DEF MicrophoneInv, BridgeType, deviceVars, voiceVars
<1>6. CaptureInv'
  <2>1. mic.id = id0 /\ ~Lost(id0) /\ ~Asked(id0) /\ id0 \notin open
    BY <1>1 DEF MicrophoneInv, CaptureInv
  <2>2. open' = open \/ open' = open \cup {id0}
    BY <1>1
  <2>3. open' = open \cup {id0} => \A id : Lost(id)' => Lost(id)
    BY <1>1, <2>1 DEF Lost
  <2> QED BY <1>1, <1>3, <1>4, <2>1, <2>2, <2>3 DEF MicrophoneInv, CaptureInv
<1>7. GivenInv'
  <2>1. Given(id0)
    BY <1>1 DEF MicrophoneInv, GivenInv
  <2> QED BY <1>1, <1>3, <1>4, <2>1, StaysGiven DEF MicrophoneInv, GivenInv, TurnsGoOn, voiceVars
<1> QED BY <1>1, <1>5, <1>6, <1>7, OwnerStays DEF MicrophoneInv

LEMMA FrameIsSent ==
  ASSUME MicrophoneInv, NEW id0, NEW speech \in BOOLEAN, CapturesFrame(id0, speech),
         UNCHANGED voiceVars
  PROVE  MicrophoneInv'
<1>1. /\ UNCHANGED <<toRenderer, renderer, rendererVars, mic, playing, deviceVars>>
      /\ id0 \in open /\ Replies(Frame(id0, speech))
  BY DEF CapturesFrame
<1>2. id0 \in Nat \X Kinds /\ Frame(id0, speech) \in ToMain
  BY <1>1 DEF MicrophoneInv, GivenInv, Given, CaptureIds, Kinds, Frame, ToMain
<1>3. /\ toMain' \in Seq(ToMain)
      /\ \A id : Heard(id)' => Heard(id) \/ id = id0
      /\ \A id : Lost(id)' <=> Lost(id)
  BY <1>1, <1>2, Replied DEF MicrophoneInv, Heard, Lost, Frame
<1>4. \A id : (Asked(id)' <=> Asked(id)) /\ (Dropped(id)' <=> Dropped(id))
  BY <1>1 DEF Asked, Dropped
<1>5. BridgeType'
  BY <1>1, <1>3, TypeStays DEF MicrophoneInv, BridgeType, deviceVars, voiceVars, rendererVars
<1>6. CaptureInv'
  BY <1>1, <1>3, <1>4 DEF MicrophoneInv, CaptureInv, rendererVars
<1>7. GivenInv'
  <2>1. Given(id0)
    BY <1>1 DEF MicrophoneInv, GivenInv
  <2> QED BY <1>1, <1>3, <1>4, <2>1, StaysGiven
          DEF MicrophoneInv, GivenInv, TurnsGoOn, voiceVars, rendererVars
<1> QED BY <1>1, <1>5, <1>6, <1>7, OwnerStays DEF MicrophoneInv

LEMMA DeviceIsLost ==
  ASSUME MicrophoneInv, NEW id0, DeviceUnplugged(id0), UNCHANGED voiceVars
  PROVE  MicrophoneInv'
<1>1. /\ UNCHANGED <<toRenderer, renderer, opening, players, mic, playing, deviceVars, spoken>>
      /\ id0 \in open /\ open' = open \ {id0} /\ Replies(Message("captureError", id0))
  BY DEF DeviceUnplugged
<1>2. id0 \in Nat \X Kinds /\ Message("captureError", id0) \in ToMain
  BY <1>1 DEF MicrophoneInv, GivenInv, Given, CaptureIds, Kinds, Message, ToMain
<1>3. /\ toMain' \in Seq(ToMain)
      /\ \A id : Heard(id)' <=> Heard(id)
      /\ \A id : Lost(id)' => Lost(id) \/ id = id0
  BY <1>1, <1>2, Replied DEF MicrophoneInv, Heard, Lost, Message
<1>4. \A id : (Asked(id)' <=> Asked(id)) /\ (Dropped(id)' <=> Dropped(id))
  BY <1>1 DEF Asked, Dropped
<1>5. BridgeType'
  BY <1>1, <1>3, TypeStays DEF MicrophoneInv, BridgeType, deviceVars, voiceVars
<1>6. CaptureInv'
  BY <1>1, <1>3, <1>4 DEF MicrophoneInv, CaptureInv
<1>7. GivenInv'
  <2>1. Given(id0)
    BY <1>1 DEF MicrophoneInv, GivenInv
  <2> QED BY <1>1, <1>3, <1>4, <2>1, StaysGiven DEF MicrophoneInv, GivenInv, TurnsGoOn, voiceVars
<1> QED BY <1>1, <1>5, <1>6, <1>7, OwnerStays DEF MicrophoneInv

\* The capture it closes is not one that is being opened.
LEMMA CaptureCloses ==
  ASSUME MicrophoneInv, RendererStopsCapture, UNCHANGED voiceVars
  PROVE  MicrophoneInv'
<1> DEFINE id0 == Head(toRenderer).id
<1>1. /\ UNCHANGED <<renderer, opening, players, mic, playing, deviceVars, spoken>>
      /\ open' = open \ {id0} /\ Takes("stopCapture")
      /\ Replies(Message("captureStopped", id0))
  BY DEF RendererStopsCapture
<1>2. /\ Head(toRenderer) \in ToRenderer
      /\ toRenderer' \in Seq(ToRenderer) /\ toRenderer # <<>> /\ Once(toRenderer')
      /\ \A id : Asked(id)' <=> Asked(id)
      /\ \A id : Dropped(id) <=> Dropped(id)' \/ id = id0
  BY <1>1, Taken DEF MicrophoneInv, CaptureInv, Asked, Dropped
<1>3. Message("captureStopped", id0) \in ToMain
  BY <1>2 DEF ToRenderer, Message, ToMain
<1>4. /\ toMain' \in Seq(ToMain)
      /\ \A id : (Heard(id)' <=> Heard(id)) /\ (Lost(id)' <=> Lost(id))
  BY <1>1, <1>3, Replied DEF MicrophoneInv, Heard, Lost, Message
<1>5. BridgeType'
  BY <1>1, <1>2, <1>4, TypeStays DEF MicrophoneInv, BridgeType, deviceVars, voiceVars
<1>6. CaptureInv'
  BY <1>1, <1>2, <1>4 DEF MicrophoneInv, CaptureInv
<1>7. GivenInv'
  BY <1>1, <1>2, <1>4, StaysGiven DEF MicrophoneInv, GivenInv, TurnsGoOn, voiceVars
<1> QED BY <1>1, <1>5, <1>6, <1>7, OwnerStays DEF MicrophoneInv

\* What the renderer does with its players and devices is not about captures.
LEMMA OtherMessage ==
  ASSUME BridgeType, NEW op, op \notin {"startCapture", "stopCapture"}, Takes(op)
  PROVE  /\ Head(toRenderer) \in ToRenderer
         /\ toRenderer' \in Seq(ToRenderer)
         /\ Once(toRenderer) => Once(toRenderer')
         /\ \A id : (Asked(id)' <=> Asked(id)) /\ (Dropped(id)' <=> Dropped(id))
         /\ renderer # "up" /\ toRenderer = <<>> => toRenderer' = toRenderer
BY Taken DEF Asked, Dropped

LEMMA OtherReply ==
  ASSUME BridgeType,
         \/ \E id \in Nat \X Kinds, ok \in BOOLEAN :
              Replies(Result(id, ok)) \/ Replies(Listing(id, ok))
         \/ UNCHANGED toMain
  PROVE  /\ toMain' \in Seq(ToMain)
         /\ \A id : (Heard(id)' <=> Heard(id)) /\ (Lost(id)' <=> Lost(id))
<1>1. ASSUME NEW id \in Nat \X Kinds, NEW ok \in BOOLEAN, Replies(Result(id, ok))
      PROVE  /\ toMain' \in Seq(ToMain)
             /\ \A d : (Heard(d)' <=> Heard(d)) /\ (Lost(d)' <=> Lost(d))
  <2>1. Result(id, ok) \in ToMain
    BY <1>1 DEF Result, ToMain
  <2> QED BY <1>1, <2>1, Replied DEF Result, Heard, Lost
<1>2. ASSUME NEW id \in Nat \X Kinds, NEW ok \in BOOLEAN, Replies(Listing(id, ok))
      PROVE  /\ toMain' \in Seq(ToMain)
             /\ \A d : (Heard(d)' <=> Heard(d)) /\ (Lost(d)' <=> Lost(d))
  <2>1. Listing(id, ok) \in ToMain
    BY <1>2 DEF Listing, ToMain
  <2> QED BY <1>2, <2>1, Replied DEF Listing, Heard, Lost
<1>3. CASE UNCHANGED toMain
  BY <1>3 DEF BridgeType, Heard, Lost
<1> QED BY <1>1, <1>2, <1>3

\* Such a step, of the renderer or of main's own device list.
LEMMA OtherTraffic ==
  ASSUME MicrophoneInv, CapturesStay,
         UNCHANGED <<mic, playing, voiceVars>>, changes' \in Nat,
         toRenderer' \in Seq(ToRenderer), toMain' \in Seq(ToMain),
         players' \subseteq [id : Nat \X Kinds, sounding : BOOLEAN, ended : BOOLEAN]
  PROVE  MicrophoneInv'
<1>1. TurnsGoOn
  BY DEF TurnsGoOn, voiceVars
<1>2. BridgeType'
  BY TypeStays DEF MicrophoneInv, voiceVars
<1> QED BY <1>1, <1>2, NoCaptureMoves, NoIdMoves, OwnerStays DEF MicrophoneInv

PlayerRecords == [id : Nat \X Kinds, sounding : BOOLEAN, ended : BOOLEAN]

LEMMA PlayersMove ==
  ASSUME MicrophoneInv, UNCHANGED voiceVars,
         \/ RendererPlays \/ RendererQueuesChunk \/ RendererEndsInput \/ RendererStopsPlayback
         \/ RendererListsDevices \/ \E p \in players : SoundEnds(p)
  PROVE  MicrophoneInv'
<1>1. players \subseteq PlayerRecords
  BY DEF MicrophoneInv, BridgeType, PlayerRecords
<1>2. UNCHANGED <<renderer, opening, open, mic, playing, deviceVars>>
  BY DEF RendererPlays, RendererQueuesChunk, RendererEndsInput, RendererStopsPlayback,
         RendererListsDevices, SoundEnds, rendererVars
<1>3. /\ toRenderer' \in Seq(ToRenderer)
      /\ Once(toRenderer) => Once(toRenderer')
      /\ \A id : (Asked(id)' <=> Asked(id)) /\ (Dropped(id)' <=> Dropped(id))
      /\ renderer # "up" => toRenderer' = toRenderer
  <2>1. UNCHANGED toRenderer \/ \E op : op \notin {"startCapture", "stopCapture"} /\ Takes(op)
    BY DEF RendererPlays, RendererQueuesChunk, RendererEndsInput, RendererStopsPlayback,
           RendererListsDevices, SoundEnds
  <2>2. CASE UNCHANGED toRenderer
    BY <2>2 DEF MicrophoneInv, BridgeType, Asked, Dropped
  <2>3. CASE \E op : op \notin {"startCapture", "stopCapture"} /\ Takes(op)
    BY <2>3, OtherMessage DEF MicrophoneInv, CaptureInv
  <2> QED BY <2>1, <2>2, <2>3
<1>4. toRenderer # <<>> => Head(toRenderer).id \in Nat \X Kinds
  <2>1. toRenderer # <<>> => Head(toRenderer) \in ToRenderer
    BY HasTail DEF MicrophoneInv, BridgeType
  <2> QED BY <2>1 DEF ToRenderer
<1>5. /\ players' \subseteq PlayerRecords
      /\ \/ \E id \in Nat \X Kinds, ok \in BOOLEAN :
              Replies(Result(id, ok)) \/ Replies(Listing(id, ok))
         \/ UNCHANGED toMain
  <2>1. CASE RendererPlays
    <3>1. /\ toRenderer # <<>> /\ UNCHANGED toMain
          /\ players' = players \cup
               {[id |-> Head(toRenderer).id, sounding |-> FALSE, ended |-> FALSE]}
      BY <2>1 DEF RendererPlays, Takes
    <3>2. ASSUME NEW id \in Nat \X Kinds
          PROVE  [id |-> id, sounding |-> FALSE, ended |-> FALSE] \in PlayerRecords
      BY <3>2 DEF PlayerRecords
    <3> QED BY <1>1, <1>4, <3>1, <3>2
  <2>2. CASE RendererQueuesChunk
    <3>1. \A p \in players : [p EXCEPT !.sounding = TRUE] \in PlayerRecords
      BY <1>1 DEF PlayerRecords
    <3> QED BY <1>1, <2>2, <3>1 DEF RendererQueuesChunk
  <2>3. CASE RendererEndsInput
    <3>1. \A p \in players : [p EXCEPT !.ended = TRUE] \in PlayerRecords
      BY <1>1 DEF PlayerRecords
    <3>2. players' \subseteq PlayerRecords
      BY <1>1, <2>3, <3>1 DEF RendererEndsInput
    <3>3. UNCHANGED toMain \/ Replies(Result(Head(toRenderer).id, TRUE))
      BY <2>3 DEF RendererEndsInput
    <3> QED BY <1>4, <2>3, <3>2, <3>3 DEF RendererEndsInput, Takes
  <2>4. CASE RendererStopsPlayback
    <3>1. UNCHANGED toMain \/ Replies(Result(Head(toRenderer).id, TRUE))
      BY <2>4 DEF RendererStopsPlayback
    <3> QED BY <1>1, <1>4, <2>4, <3>1 DEF RendererStopsPlayback, Takes
  <2>5. CASE RendererListsDevices
    <3>1. \E ok \in BOOLEAN : Replies(Listing(Head(toRenderer).id, ok))
      BY <2>5 DEF RendererListsDevices
    <3>2. UNCHANGED players /\ toRenderer # <<>>
      BY <2>5 DEF RendererListsDevices, Takes, rendererVars
    <3> QED BY <1>1, <1>4, <3>1, <3>2
  <2>6. CASE \E p \in players : SoundEnds(p)
    <3>1. PICK p \in players : SoundEnds(p)
      BY <2>6
    <3>2. p.id \in Nat \X Kinds /\ [p EXCEPT !.sounding = FALSE] \in PlayerRecords
      BY <1>1 DEF PlayerRecords
    <3>3. \/ players' = players \ {p}
          \/ players' = (players \ {p}) \cup {[p EXCEPT !.sounding = FALSE]}
      BY <3>1 DEF SoundEnds
    <3>4. UNCHANGED toMain \/ \E ok \in BOOLEAN : Replies(Result(p.id, ok))
      BY <3>1 DEF SoundEnds
    <3> QED BY <1>1, <3>2, <3>3, <3>4
  <2> QED BY <2>1, <2>2, <2>3, <2>4, <2>5, <2>6
<1>6. /\ toMain' \in Seq(ToMain)
      /\ \A id : (Heard(id)' <=> Heard(id)) /\ (Lost(id)' <=> Lost(id))
  BY <1>5, OtherReply DEF MicrophoneInv
<1>7. CapturesStay
  BY <1>2, <1>3, <1>6 DEF CapturesStay
<1>8. changes' \in Nat
  BY <1>2 DEF MicrophoneInv, BridgeType, deviceVars
<1> QED BY <1>2, <1>3, <1>5, <1>6, <1>7, <1>8, OtherTraffic DEF PlayerRecords

\* One message to the renderer that is not about a capture.
LEMMA OtherSent ==
  ASSUME BridgeType, NEW op \in {"play", "playChunk", "playEnd", "stopPlayback", "listDevices"},
         NEW id0 \in Nat \X Kinds, toRenderer' = Sent(<<Message(op, id0)>>)
  PROVE  /\ toRenderer' \in Seq(ToRenderer)
         /\ Once(toRenderer) => Once(toRenderer')
         /\ \A id : (Asked(id)' <=> Asked(id)) /\ (Dropped(id)' <=> Dropped(id))
         /\ renderer # "up" => toRenderer' = toRenderer
<1>1. Message(op, id0) \in ToRenderer
  BY DEF Message, ToRenderer
<1> DEFINE ms == <<Message(op, id0)>>
<1>2. /\ ms \in Seq(ToRenderer)
      /\ \A o, id : Has(ms, o, id) <=> op = o /\ id0 = id
  BY <1>1, OneMessage
<1>3. op # "startCapture" /\ op # "stopCapture" /\ toRenderer' = Sent(ms)
  OBVIOUS
<1> HIDE DEF ms
<1> QED BY <1>2, <1>3, SentOn DEF Asked, Dropped

LEMMA DevicesChange ==
  ASSUME MicrophoneInv, DeviceChange, UNCHANGED voiceVars
  PROVE  MicrophoneInv'
<1>1. /\ UNCHANGED <<toMain, renderer, rendererVars, mic, playing, devices, spoken>>
      /\ changes' = changes + 1
      /\ toRenderer' = Sent(<<Message("listDevices", <<changes', "change">>)>>)
  BY DEF DeviceChange, AsksForDevices
<1>2. <<changes', "change">> \in Nat \X Kinds /\ changes' \in Nat
  BY <1>1 DEF MicrophoneInv, BridgeType, Kinds
<1>3. /\ toRenderer' \in Seq(ToRenderer) /\ CapturesStay
  BY <1>1, <1>2, OtherSent DEF MicrophoneInv, CapturesStay, rendererVars, Heard, Lost
<1> QED BY <1>1, <1>2, <1>3, OtherTraffic DEF MicrophoneInv, BridgeType, rendererVars

\* Nothing is left of a window that is gone.
LEMMA WindowIsLost ==
  ASSUME MicrophoneInv, RendererGoes, UNCHANGED voiceVars
  PROVE  MicrophoneInv'
<1>1. /\ toRenderer' = <<>> /\ toMain' = <<>>
      /\ opening' = {} /\ open' = {} /\ players' = {}
      /\ UNCHANGED <<mic, playing, deviceVars, spoken>>
  BY DEF RendererGoes
<1>2. /\ Once(toRenderer')
      /\ \A id : ~Asked(id)' /\ ~Dropped(id)' /\ ~Heard(id)' /\ ~Lost(id)'
  BY <1>1 DEF Once, Asked, Dropped, Heard, Lost, Has
<1>3. BridgeType'
  BY <1>1, TypeStays DEF MicrophoneInv, BridgeType, deviceVars, voiceVars
<1>4. CaptureInv' /\ GivenInv'
  BY <1>1, <1>2 DEF CaptureInv, GivenInv
<1> QED BY <1>1, <1>3, <1>4, OwnerStays DEF MicrophoneInv

LEMMA RendererPreserves ==
  ASSUME MicrophoneInv, Renderer \/ Outside \/ Captures(FALSE)
  PROVE  MicrophoneInv'
BY CaptureStarts, CaptureSettles, FrameIsSent, DeviceIsLost, CaptureCloses, PlayersMove,
   DevicesChange, WindowIsLost
   DEF Renderer, RendererSteps, Outside, Captures

-----------------------------------------------------------------------------
(* The main process, where the microphone does not change hands.           *)

MovesOn ==
  /\ \/ voice'.at = voice.at
     \/ voice.at # "listening" /\ (voice'.at \in Early => voice.at \in Early)
  /\ monitor'.at = monitor.at
  /\ Playing' => Playing /\ voice'.at = voice.at

LEMMA MainKeeps ==
  ASSUME MicrophoneInv, CapturesStay, BridgeType', UNCHANGED <<mic, turn>>, MovesOn
  PROVE  MicrophoneInv'
<1>1. TurnsGoOn
  BY DEF TurnsGoOn, MovesOn
<1>2. OwnerInv'
  <2>1. CASE mic = NoMic
    BY <2>1 DEF MicrophoneInv, OwnerInv, MovesOn
  <2>2. CASE mic.id = Captured /\ voice.at = "listening"
    BY <2>2 DEF MicrophoneInv, OwnerInv, MovesOn, Captured
  <2>3. CASE /\ mic.id[2] = "monitor" /\ Given(mic.id) /\ monitor.at \in {"watching", "hearing"}
             /\ voice.at \notin Early
    <3>1. Given(mic.id)'
      BY <1>1, <2>3, StaysGiven DEF MicrophoneInv
    <3>2. voice'.at \notin Early
      BY <2>3 DEF MovesOn
    <3> QED BY <2>3, <3>1, <3>2 DEF MicrophoneInv, OwnerInv, MovesOn
  <2> QED BY <2>1, <2>2, <2>3 DEF MicrophoneInv, OwnerInv
<1> QED BY <1>1, <1>2, NoCaptureMoves, NoIdMoves DEF MicrophoneInv

\* The bridge is not touched.
LEMMA BridgeStays ==
  ASSUME MicrophoneInv, UNCHANGED bridgeVars, UNCHANGED <<turn, presses>>, BridgeType'
  PROVE  CapturesStay
BY DEF CapturesStay, bridgeVars, Asked, Dropped, Heard, Lost

LEMMA ThinkingPreserves ==
  ASSUME MicrophoneInv, SessionInv,
         ListeningExpires \/ Recognises \/ Understands \/ Asks \/ AsksAgain \/ TurnRecorded
         \/ UNCHANGED vars
  PROVE  MicrophoneInv'
<1>1. UNCHANGED bridgeVars /\ UNCHANGED <<turn, presses, monitor>>
  BY DEF ListeningExpires, Recognises, Understands, Asks, AsksAgain, TurnRecorded, vars, voiceVars
<1>2. \/ voice' = voice
      \/ voice.at \in {"recognising", "understanding", "asking", "backing_off", "persisting"}
  BY DEF ListeningExpires, Recognises, Understands, Asks, AsksAgain, TurnRecorded, vars, voiceVars
<1>3. CASE voice' = voice
  <2>1. MovesOn
    BY <1>1, <1>3 DEF MovesOn, bridgeVars, Playing
  <2>2. BridgeType'
    BY <1>1 DEF MicrophoneInv, BridgeType, bridgeVars
  <2> QED BY <1>1, <2>1, <2>2, BridgeStays, MainKeeps DEF bridgeVars
<1>4. CASE voice.at \in {"recognising", "understanding", "asking", "backing_off", "persisting"}
  <2>1. voice.at # "listening" /\ voice.at # "speaking"
    BY <1>4
  <2>2. ~Playing /\ ~Playing'
    BY <1>1, <2>1 DEF MicrophoneInv, OwnerInv, bridgeVars, Playing
  <2>3. voice'.at \in Early => voice.at \in Early
    <3>1. voice.at = "persisting" => voice' = NoVoice \/ voice' = voice
      BY DEF ListeningExpires, Recognises, Understands, Asks, AsksAgain, TurnRecorded, vars,
             voiceVars
    <3>2. NoVoice.at \notin Early
      BY DEF NoVoice, Early
    <3> QED BY <1>4, <3>1, <3>2 DEF Early
  <2>4. MovesOn
    BY <1>1, <2>1, <2>2, <2>3 DEF MovesOn
  <2>5. BridgeType'
    BY <1>1 DEF MicrophoneInv, BridgeType, bridgeVars
  <2> QED BY <1>1, <2>4, <2>5, BridgeStays, MainKeeps DEF bridgeVars
<1> QED BY <1>2, <1>3, <1>4

\* The monitor's capture is over when its words are recognised.
LEMMA MonitorPreserves ==
  ASSUME MicrophoneInv, MonitorRecognises
  PROVE  MicrophoneInv'
<1>1. /\ UNCHANGED bridgeVars /\ UNCHANGED <<voice, turn, presses>>
      /\ monitor.at = "recognising"
      /\ \E heard \in {"heard", "quiet"} : monitor' = [monitor EXCEPT !.at = heard]
  BY DEF MonitorRecognises
<1>2. BridgeType'
  BY <1>1 DEF MicrophoneInv, BridgeType, bridgeVars
<1>3. CapturesStay /\ TurnsGoOn
  BY <1>1, <1>2, BridgeStays DEF TurnsGoOn
<1>4. OwnerInv'
  BY <1>1 DEF MicrophoneInv, OwnerInv, bridgeVars, Playing, Captured
<1> QED BY <1>2, <1>3, <1>4, NoCaptureMoves, NoIdMoves DEF MicrophoneInv

-----------------------------------------------------------------------------
(* Playback.                                                               *)

LEMMA TellsRenderer ==
  ASSUME MicrophoneInv, UNCHANGED <<toMain, renderer, rendererVars, mic>>,
         \/ UNCHANGED toRenderer \/ toRenderer' = Sent(<<>>)
         \/ \E op \in {"play", "playChunk", "playEnd", "stopPlayback", "listDevices"},
               id \in Nat \X Kinds : toRenderer' = Sent(<<Message(op, id)>>)
  PROVE  toRenderer' \in Seq(ToRenderer) /\ CapturesStay
<1>1. \A id : (Heard(id)' <=> Heard(id)) /\ (Lost(id)' <=> Lost(id))
  BY DEF Heard, Lost
<1>2. CASE UNCHANGED toRenderer
  BY <1>1, <1>2 DEF MicrophoneInv, BridgeType, CapturesStay, Asked, Dropped, rendererVars
<1>3. CASE toRenderer' = Sent(<<>>)
  <2>1. Sent(<<>>) = toRenderer
    BY DEF MicrophoneInv, BridgeType, Sent
  <2> QED BY <1>2, <1>3, <2>1
<1>4. CASE \E op \in {"play", "playChunk", "playEnd", "stopPlayback", "listDevices"},
              id \in Nat \X Kinds : toRenderer' = Sent(<<Message(op, id)>>)
  BY <1>1, <1>4, OtherSent DEF MicrophoneInv, CapturesStay, rendererVars
<1> QED BY <1>2, <1>3, <1>4

LEMMA PlayingId == ASSUME BridgeType PROVE playing.id \in Nat \X Kinds
BY DEF BridgeType, Kinds

LEMMA MuteType ==
  /\ Mute \in [id : Nat \X {"none", "play"}, fed : BOOLEAN, ended : BOOLEAN, late : BOOLEAN]
  /\ playing' = Mute => ~Playing'
BY DEF Mute, Playing

LEMMA ToldStays ==
  ASSUME BridgeType
  PROVE  /\ Told.at = monitor.at
         /\ Told \in [at : {"off", "watching", "hearing", "recognising", "heard", "quiet", "failed"},
                      told : BOOLEAN]
BY DEF BridgeType, Told

\* A reply that is spoken no more, whether it failed or not.
PlayStops ==
  /\ voice.at = "speaking" /\ voice'.at \in {"idle", "reaping"}
  /\ playing' = Mute /\ monitor' = Told

LEMMA PlayStopsMoves ==
  ASSUME BridgeType, PlayStops
  PROVE  MovesOn
BY MuteType, ToldStays DEF PlayStops, MovesOn, Early

LEMMA Returned ==
  ASSUME MicrophoneInv, SessionInv, Playing, PlayReturns \/ PlayRejects
  PROVE  PlayStops
<1>1. voice.at = "speaking"
  BY DEF MicrophoneInv, OwnerInv
<1>2. voice'.at \in {"idle", "reaping"}
  BY DEF PlayReturns, PlayRejects, Fails, Goes, NoVoice, SessionInv
<1> QED BY <1>1, <1>2 DEF PlayStops, PlayReturns, PlayRejects

LEMMA EndsOrFeeds ==
  ASSUME MicrophoneInv, SessionInv, InputEnds \/ Feeds
  PROVE  MicrophoneInv'
<1>1. UNCHANGED <<toMain, renderer, rendererVars, mic, deviceVars, turn, presses>> /\ Playing
  BY DEF InputEnds, Feeds, FeedsChunk, voiceVars
<1>2. \E op \in {"playEnd", "playChunk"} : toRenderer' = Sent(<<Message(op, playing.id)>>)
  BY DEF InputEnds, Feeds, FeedsChunk
<1>3. toRenderer' \in Seq(ToRenderer) /\ CapturesStay
  BY <1>1, <1>2, PlayingId, TellsRenderer DEF MicrophoneInv
<1>4. \/ PlayReturns \/ PlayRejects
      \/ /\ UNCHANGED <<voice, monitor>>
         /\ playing' = [playing EXCEPT !.ended = TRUE] \/ playing' = [playing EXCEPT !.fed = TRUE]
  BY DEF InputEnds, Feeds, FeedsChunk, voiceVars
<1>5. CASE PlayReturns \/ PlayRejects
  <2>1. PlayStops
    BY <1>1, <1>5, Returned
  <2>2. BridgeType'
    BY <1>1, <1>3, <2>1, MuteType, ToldStays
       DEF MicrophoneInv, BridgeType, PlayStops, rendererVars, deviceVars
  <2> QED BY <1>1, <1>3, <2>1, <2>2, PlayStopsMoves, MainKeeps DEF MicrophoneInv
<1>6. CASE /\ UNCHANGED <<voice, monitor>>
           /\ playing' = [playing EXCEPT !.ended = TRUE] \/ playing' = [playing EXCEPT !.fed = TRUE]
  <2>1. BridgeType'
    BY <1>1, <1>3, <1>6 DEF MicrophoneInv, BridgeType, rendererVars, deviceVars
  <2>2. MovesOn
    BY <1>1, <1>6 DEF MovesOn
  <2> QED BY <1>1, <1>3, <2>1, <2>2, MainKeeps
<1> QED BY <1>4, <1>5, <1>6

\* A report that was read is gone from the channel.
LEMMA ReportRead ==
  ASSUME MicrophoneInv, toMain # <<>>, toMain' = Tail(toMain),
         UNCHANGED <<renderer, rendererVars>>, mic'.id = mic.id,
         UNCHANGED toRenderer
  PROVE  toMain' \in Seq(ToMain) /\ CapturesStay
<1>1. toMain' \in Seq(ToMain) /\ \A id : (Heard(id)' => Heard(id)) /\ (Lost(id)' => Lost(id))
  BY Handled DEF MicrophoneInv, Heard, Lost
<1> QED BY <1>1 DEF CapturesStay, Asked, Dropped, rendererVars

LEMMA ResultPreserves ==
  ASSUME MicrophoneInv, SessionInv, PlayResultArrives \/ PlaybackTimesOut \/ CaptureStopped
  PROVE  MicrophoneInv'
<1>1. /\ UNCHANGED <<toRenderer, renderer, rendererVars, mic, deviceVars, turn, presses>>
      /\ (toMain # <<>> /\ toMain' = Tail(toMain)) \/ UNCHANGED toMain
  BY DEF PlayResultArrives, PlaybackTimesOut, CaptureStopped, voiceVars
<1>2. toMain' \in Seq(ToMain) /\ CapturesStay
  BY <1>1, ReportRead, TellsRenderer DEF MicrophoneInv, BridgeType
<1>3. \/ Playing /\ (PlayReturns \/ PlayRejects)
      \/ UNCHANGED <<voice, monitor>> /\ UNCHANGED playing
      \/ UNCHANGED <<voice, monitor>> /\ Playing /\ playing' = [playing EXCEPT !.late = TRUE]
  <2>1. playing.ended => Playing
    BY DEF Playing, Mute
  <2> QED BY <2>1 DEF PlayResultArrives, PlaybackTimesOut, CaptureStopped, voiceVars
<1>4. CASE Playing /\ (PlayReturns \/ PlayRejects)
  <2>1. PlayStops
    BY <1>4, Returned
  <2>2. BridgeType'
    BY <1>1, <1>2, <2>1, MuteType, ToldStays
       DEF MicrophoneInv, BridgeType, PlayStops, rendererVars, deviceVars
  <2> QED BY <1>1, <1>2, <2>1, <2>2, PlayStopsMoves, MainKeeps DEF MicrophoneInv
<1>5. CASE UNCHANGED <<voice, monitor>> /\ UNCHANGED playing
  <2>1. BridgeType' /\ MovesOn
    BY <1>1, <1>2, <1>5 DEF MicrophoneInv, BridgeType, rendererVars, deviceVars, MovesOn, Playing
  <2> QED BY <1>1, <1>2, <2>1, MainKeeps
<1>6. CASE UNCHANGED <<voice, monitor>> /\ Playing /\ playing' = [playing EXCEPT !.late = TRUE]
  <2>1. BridgeType'
    BY <1>1, <1>2, <1>6 DEF MicrophoneInv, BridgeType, rendererVars, deviceVars
  <2>2. MovesOn
    BY <1>6 DEF MovesOn
  <2> QED BY <1>1, <1>2, <2>1, <2>2, MainKeeps
<1> QED BY <1>3, <1>4, <1>5, <1>6

\* A stop silences the reply; the microphone is left to its capture.
LEMMA StopKeeps ==
  ASSUME MicrophoneInv, SessionInv, StopVoiceTurn
  PROVE  MicrophoneInv'
<1>1. /\ UNCHANGED <<toMain, renderer, rendererVars, mic, deviceVars, turn, presses>>
      /\ toRenderer' = Sent(Silences) /\ playing' = Mute
  BY DEF StopVoiceTurn
<1>2. toRenderer' \in Seq(ToRenderer) /\ CapturesStay
  BY <1>1, PlayingId, TellsRenderer DEF MicrophoneInv, Silences
<1>3. \/ UNCHANGED <<voice, monitor>>
      \/ voice.at = "speaking" /\ Goes("reaping") /\ monitor' = Told
  BY DEF StopVoiceTurn
<1>4. CASE UNCHANGED <<voice, monitor>>
  <2>1. BridgeType' /\ MovesOn
    BY <1>1, <1>2, <1>4, MuteType DEF MicrophoneInv, BridgeType, rendererVars, deviceVars, MovesOn
  <2> QED BY <1>1, <1>2, <2>1, MainKeeps
<1>5. CASE voice.at = "speaking" /\ Goes("reaping") /\ monitor' = Told
  <2>1. PlayStops
    BY <1>1, <1>5 DEF PlayStops, Goes, SessionInv
  <2>2. BridgeType'
    BY <1>1, <1>2, <2>1, MuteType, ToldStays
       DEF MicrophoneInv, BridgeType, PlayStops, rendererVars, deviceVars
  <2> QED BY <1>1, <1>2, <2>1, <2>2, PlayStopsMoves, MainKeeps DEF MicrophoneInv
<1> QED BY <1>3, <1>4, <1>5

-----------------------------------------------------------------------------
(* The main process, where the microphone changes hands.                   *)

MicType == [id : Nat \X {"none", "turn", "monitor"}, heard : BOOLEAN, silent : Nat]

LEMMA MicRecords ==
  /\ NoMic \in MicType /\ NoMic.id = <<0, "none">> /\ NoMic.id \notin CaptureIds
  /\ \A id \in CaptureIds : Listening(id) \in MicType /\ Listening(id).id = id
BY DEF NoMic, MicType, CaptureIds, Listening

\* With no capture of its own, main knows of none in the renderer.
LEMMA NoneOpen ==
  ASSUME MicrophoneInv, mic = NoMic
  PROVE  opening = {} /\ \A id : ~Asked(id)
<1>1. \A id : id \in opening \/ Asked(id) => id \in CaptureIds
  BY DEF MicrophoneInv, GivenInv, Given
<1> QED BY <1>1, MicRecords DEF MicrophoneInv, CaptureInv

\* A capture begins, with an id that was never given.
LEMMA CaptureBegins ==
  ASSUME MicrophoneInv, mic = NoMic, TurnsGoOn,
         NEW id0 \in CaptureIds, ~Given(id0), Given(id0)', mic' = Listening(id0),
         renderer = "up", UNCHANGED <<renderer, opening, open>>,
         \A id : (Heard(id)' => Heard(id)) /\ (Lost(id)' => Lost(id)),
         NEW ms \in Seq(ToRenderer), toRenderer' = Sent(ms), Once(ms),
         \A id : Has(ms, "startCapture", id) <=> id = id0,
         \A id : ~Has(ms, "stopCapture", id)
  PROVE  toRenderer' \in Seq(ToRenderer) /\ CaptureInv' /\ GivenInv'
<1>1. opening = {} /\ \A id : ~Asked(id)
  BY NoneOpen
<1>2. /\ toRenderer' \in Seq(ToRenderer) /\ Once(toRenderer')
      /\ \A id : (Asked(id)' <=> id = id0) /\ (Dropped(id)' <=> Dropped(id))
  BY <1>1, SentOn DEF MicrophoneInv, CaptureInv, Asked, Dropped
<1>3. id0 \notin open /\ ~Dropped(id0) /\ ~Heard(id0) /\ ~Lost(id0)
  BY DEF MicrophoneInv, GivenInv
<1>4. mic'.id = id0
  BY MicRecords
<1>5. \A id \in open : Dropped(id) /\ ~Lost(id)
  <2>1. \A id \in open : id \in CaptureIds
    BY DEF MicrophoneInv, GivenInv, Given
  <2> QED BY <2>1, MicRecords DEF MicrophoneInv, CaptureInv
<1>6. CaptureInv'
  BY <1>1, <1>2, <1>3, <1>4, <1>5 DEF CaptureInv
<1>7. GivenInv'
  BY <1>2, StaysGiven DEF MicrophoneInv, GivenInv
<1> QED BY <1>2, <1>6, <1>7

\* A turn starts to listen, or finds that it cannot.
LEMMA ListenKeeps ==
  ASSUME MicrophoneInv, voice.at \in {"idle", "refreshing"}, NEW known, BeginsListening(known),
         UNCHANGED <<renderer, opening, open, playing, monitor>>,
         \A id : (Heard(id)' => Heard(id)) /\ (Lost(id)' => Lost(id))
  PROVE  /\ toRenderer' \in Seq(ToRenderer) /\ turn' \in Nat /\ mic' \in MicType
         /\ CaptureInv' /\ GivenInv' /\ OwnerInv'
<1>1. turn \in Nat /\ turn' = turn + 1 /\ TurnsGoOn
  BY DEF MicrophoneInv, BridgeType, BeginsListening, TurnsGoOn
<1>2. ~Playing /\ ~Playing'
  BY DEF MicrophoneInv, OwnerInv, Playing
<1>3. CASE CanCapture(known)
  <2>0. PICK n : n = turn + 1
    OBVIOUS
  <2> DEFINE id0 == <<n, "turn">>
             ms == <<Message("startCapture", id0)>>
  <2>1. /\ mic = NoMic /\ renderer = "up" /\ mic' = Listening(id0) /\ toRenderer' = Sent(ms)
        /\ voice'.at = "listening"
    BY <1>1, <1>3, <2>0 DEF CanCapture, BeginsListening, NoVoice
  <2>2. id0 \in CaptureIds /\ ~Given(id0) /\ Given(id0)'
    BY <1>1, <2>0 DEF CaptureIds, Given, Watched
  <2>3. Message("startCapture", id0) \in ToRenderer
    BY <1>1, <2>0 DEF Message, ToRenderer, Kinds
  <2>4. /\ ms \in Seq(ToRenderer) /\ Once(ms)
        /\ \A o, id : Has(ms, o, id) <=> "startCapture" = o /\ id0 = id
    BY <2>3, OneMessage
  <2>5. mic' \in MicType /\ mic'.id = Captured'
    BY <1>1, <2>0, <2>1, <2>2, MicRecords DEF Captured
  <2>6. OwnerInv'
    BY <1>2, <2>1, <2>5 DEF OwnerInv
  <2> HIDE DEF ms
  <2>7. toRenderer' \in Seq(ToRenderer) /\ CaptureInv' /\ GivenInv'
    BY <1>1, <2>1, <2>2, <2>4, CaptureBegins
  <2> QED BY <1>1, <2>5, <2>6, <2>7
<1>4. CASE ~CanCapture(known)
  <2>1. UNCHANGED <<mic, toRenderer>> /\ voice' = NoVoice
    BY <1>4 DEF BeginsListening
  <2>2. CapturesStay
    BY <2>1 DEF CapturesStay, Asked, Dropped
  <2>3. CaptureInv' /\ GivenInv'
    BY <1>1, <2>2, NoCaptureMoves, NoIdMoves DEF MicrophoneInv
  <2>4. mic = NoMic \/ /\ mic.id[2] = "monitor" /\ Given(mic.id)
                       /\ monitor.at \in {"watching", "hearing"}
    BY DEF MicrophoneInv, OwnerInv
  <2>5. mic' = NoMic \/ /\ mic'.id[2] = "monitor" /\ Given(mic.id)'
                        /\ monitor'.at \in {"watching", "hearing"}
    BY <1>1, <2>1, <2>4, StaysGiven DEF MicrophoneInv
  <2>6. OwnerInv'
    BY <1>2, <2>1, <2>5 DEF OwnerInv, NoVoice, Early
  <2> QED BY <1>1, <2>1, <2>3, <2>6 DEF MicrophoneInv, BridgeType, MicType
<1> QED BY <1>3, <1>4

LEMMA StartKeeps ==
  ASSUME MicrophoneInv, StartVoiceTurn
  PROVE  MicrophoneInv'
<1>1. /\ UNCHANGED <<toMain, renderer, rendererVars, playing, changes, monitor>>
      /\ presses' = presses + 1 /\ voice.at = "idle"
  BY DEF StartVoiceTurn, Running
<1>2. \A id : (Heard(id)' => Heard(id)) /\ (Lost(id)' => Lost(id))
  BY <1>1 DEF Heard, Lost
<1>3. CASE BeginsListening(TRUE)
  <2>1. /\ toRenderer' \in Seq(ToRenderer) /\ turn' \in Nat /\ mic' \in MicType
        /\ CaptureInv' /\ GivenInv' /\ OwnerInv'
    BY <1>1, <1>2, <1>3, ListenKeeps DEF rendererVars
  <2>2. BridgeType'
    BY <1>1, <2>1 DEF MicrophoneInv, BridgeType, rendererVars, MicType
  <2> QED BY <2>1, <2>2 DEF MicrophoneInv
<1>4. CASE /\ AsksForDevices(<<presses', "start">>)
           /\ voice' = [NoVoice EXCEPT !.at = "refreshing"]
           /\ UNCHANGED <<session, turn, mic>>
  <2>1. <<presses', "start">> \in Nat \X Kinds /\ presses' \in Nat
    BY <1>1 DEF MicrophoneInv, BridgeType, Kinds
  <2>2. toRenderer' = Sent(<<Message("listDevices", <<presses', "start">>)>>)
    BY <1>4 DEF AsksForDevices
  <2>3. toRenderer' \in Seq(ToRenderer) /\ CapturesStay
    BY <1>1, <1>4, <2>1, <2>2, TellsRenderer
  <2>4. voice'.at = "refreshing"
    BY <1>4 DEF NoVoice
  <2>5. ~Playing
    BY <1>1 DEF MicrophoneInv, OwnerInv
  <2>6. MovesOn
    BY <1>1, <2>4, <2>5 DEF MovesOn, Early, Playing
  <2>7. BridgeType'
    BY <1>1, <1>4, <2>1, <2>3 DEF MicrophoneInv, BridgeType, rendererVars
  <2> QED BY <1>4, <2>3, <2>6, <2>7, MainKeeps
<1> QED BY <1>3, <1>4 DEF StartVoiceTurn

LEMMA ListingKeeps ==
  ASSUME MicrophoneInv,
         \/ DevicesArrive
         \/ \E id \in listings : ListingTimesOut(id)
  PROVE  MicrophoneInv'
<1>1. /\ UNCHANGED <<renderer, rendererVars, playing, changes, monitor, presses>>
      /\ (toMain # <<>> /\ toMain' = Tail(toMain)) \/ UNCHANGED toMain
  BY DEF DevicesArrive, ListingTimesOut, DevicesListed, Listed, voiceVars, deviceVars
<1>2. /\ toMain' \in Seq(ToMain)
      /\ \A id : (Heard(id)' => Heard(id)) /\ (Lost(id)' => Lost(id))
  BY <1>1, Handled DEF MicrophoneInv, BridgeType, Heard, Lost
<1>3. \/ voice.at = "refreshing" /\ \E known : BeginsListening(known)
      \/ UNCHANGED <<voice, turn, mic, toRenderer>>
  BY DEF DevicesArrive, ListingTimesOut, DevicesListed, voiceVars
<1>4. CASE voice.at = "refreshing" /\ \E known : BeginsListening(known)
  BY <1>1, <1>2, <1>4, ListenKeeps DEF MicrophoneInv, BridgeType, rendererVars, MicType
<1>5. CASE UNCHANGED <<voice, turn, mic, toRenderer>>
  <2>1. CapturesStay
    BY <1>1, <1>2, <1>5 DEF CapturesStay, rendererVars, Asked, Dropped
  <2>2. BridgeType' /\ MovesOn
    BY <1>1, <1>2, <1>5 DEF MicrophoneInv, BridgeType, rendererVars, MovesOn, Playing
  <2> QED BY <1>5, <2>1, <2>2, MainKeeps
<1> QED BY <1>3, <1>4, <1>5

\* A capture ends by what its consumer heard: it was open, and is told to stop.
LEMMA CaptureEnds ==
  ASSUME MicrophoneInv, Heard(mic.id), EndsCapture, TurnsGoOn,
         UNCHANGED <<renderer, opening, open>>,
         \A id : (Heard(id)' => Heard(id)) /\ (Lost(id)' => Lost(id))
  PROVE  toRenderer' \in Seq(ToRenderer) /\ mic' = NoMic /\ CaptureInv' /\ GivenInv'
<1> DEFINE ms == <<Message("stopCapture", mic.id)>>
<1>1. mic' = NoMic /\ toRenderer' = Sent(ms)
  BY DEF EndsCapture
<1>2. Given(mic.id) /\ mic.id \in CaptureIds
  BY DEF MicrophoneInv, GivenInv, Given
<1>3. Message("stopCapture", mic.id) \in ToRenderer
  BY <1>2 DEF Message, ToRenderer, CaptureIds, Kinds
<1>4. /\ ms \in Seq(ToRenderer)
      /\ \A o, id : Has(ms, o, id) <=> "stopCapture" = o /\ mic.id = id
  BY <1>3, OneMessage
<1> HIDE DEF ms
<1>5. /\ toRenderer' \in Seq(ToRenderer) /\ Once(toRenderer')
      /\ \A id : Asked(id)' <=> Asked(id)
      /\ \A id : Dropped(id)' <=> Dropped(id) \/ (renderer = "up" /\ id = mic.id)
      /\ renderer # "up" => toRenderer' = toRenderer
  BY <1>1, <1>4, SentOn DEF MicrophoneInv, CaptureInv, Asked, Dropped
<1>6. opening = {} /\ \A id : ~Asked(id)
  BY DEF MicrophoneInv, CaptureInv
<1>7. \A id : Dropped(id)' => id \in CaptureIds
  BY <1>2, <1>5 DEF MicrophoneInv, GivenInv, Given
<1>8. open # {} => renderer = "up"
  BY DEF MicrophoneInv, CaptureInv
<1>9. CaptureInv'
  BY <1>1, <1>5, <1>6, <1>7, <1>8, MicRecords DEF MicrophoneInv, CaptureInv
<1>10. GivenInv'
  BY <1>2, <1>5, StaysGiven DEF MicrophoneInv, GivenInv
<1> QED BY <1>1, <1>5, <1>9, <1>10

LEMMA DetectedType ==
  ASSUME BridgeType, NEW speech
  PROVE  Detected(speech) \in MicType /\ Detected(speech).id = mic.id
<1>0. mic \in MicType
  BY DEF BridgeType, MicType
<1>1. ASSUME NEW r \in MicType
      PROVE  /\ [r EXCEPT !.heard = TRUE, !.silent = 0] \in MicType
             /\ [r EXCEPT !.heard = TRUE, !.silent = 0].id = r.id
  BY <1>1 DEF MicType
<1>2. ASSUME NEW r \in MicType
      PROVE  /\ [r EXCEPT !.silent = @ + 1] \in MicType
             /\ [r EXCEPT !.silent = @ + 1].id = r.id
  BY <1>2 DEF MicType
<1> QED BY <1>0, <1>1, <1>2 DEF Detected

\* One frame for whoever listens.
LEMMA FrameKeeps ==
  ASSUME MicrophoneInv, SessionInv, FrameArrives
  PROVE  MicrophoneInv'
<1> DEFINE m == Head(toMain)
<1>1. /\ UNCHANGED <<renderer, rendererVars, deviceVars, turn, presses>>
      /\ toMain # <<>> /\ toMain' = Tail(toMain) /\ m.op = "frame"
  BY DEF FrameArrives
<1>2. /\ m \in ToMain /\ toMain' \in Seq(ToMain) /\ Heard(m.id)
      /\ \A id : (Heard(id)' => Heard(id)) /\ (Lost(id)' => Lost(id))
  BY <1>1, Handled DEF MicrophoneInv, Heard, Lost
<1>3. CASE UNCHANGED <<toRenderer, mic, playing, session, voice, monitor>>
  <2>1. CapturesStay
    BY <1>1, <1>3, ReportRead
  <2>2. BridgeType' /\ MovesOn
    BY <1>1, <1>2, <1>3 DEF MicrophoneInv, BridgeType, rendererVars, deviceVars, MovesOn, Playing
  <2> QED BY <1>1, <1>3, <2>1, <2>2, MainKeeps
<1>4. CASE m.id = mic.id /\ TurnHears(m.speech)
  <2>1. /\ mic.id = Captured /\ voice.at = "listening" /\ UNCHANGED <<monitor, playing>>
        /\ \/ EndsCapture /\ voice'.at \in {"recognising", "idle"}
           \/ mic' = Detected(m.speech) /\ UNCHANGED <<toRenderer, voice>>
    BY <1>4 DEF TurnHears, Goes, Fails, NoVoice, SessionInv
  <2>2. ~Playing /\ ~Playing'
    BY <2>1 DEF MicrophoneInv, OwnerInv, Playing
  <2>3. CASE EndsCapture /\ voice'.at \in {"recognising", "idle"}
    <3>1. TurnsGoOn
      BY <1>1, <2>1 DEF TurnsGoOn, Early
    <3>2. toRenderer' \in Seq(ToRenderer) /\ mic' = NoMic /\ CaptureInv' /\ GivenInv'
      BY <1>1, <1>2, <1>4, <2>3, <3>1, CaptureEnds DEF rendererVars
    <3>3. OwnerInv'
      BY <2>2, <3>2 DEF OwnerInv
    <3>4. BridgeType'
      BY <1>1, <1>2, <2>1, <3>2, MicRecords
         DEF MicrophoneInv, BridgeType, rendererVars, deviceVars, MicType
    <3> QED BY <3>2, <3>3, <3>4 DEF MicrophoneInv
  <2>4. CASE mic' = Detected(m.speech) /\ UNCHANGED <<toRenderer, voice>>
    <3>1. mic' \in MicType /\ mic'.id = mic.id
      BY <2>4, DetectedType DEF MicrophoneInv
    <3>2. CapturesStay /\ TurnsGoOn
      BY <1>1, <2>4, <3>1, ReportRead DEF TurnsGoOn
    <3>3. BridgeType'
      BY <1>1, <1>2, <2>1, <2>4, <3>1
         DEF MicrophoneInv, BridgeType, rendererVars, deviceVars, MicType
    <3>4. OwnerInv'
      BY <1>1, <2>1, <2>2, <2>4, <3>1 DEF OwnerInv, Captured
    <3> QED BY <3>2, <3>3, <3>4, NoCaptureMoves, NoIdMoves DEF MicrophoneInv
  <2> QED BY <2>1, <2>3, <2>4
<1>5. CASE m.id = mic.id /\ MonitorHears(m.speech)
  <2>1. /\ mic.id[2] = "monitor" /\ mic # NoMic
    BY <1>5, MicRecords DEF MonitorHears
  <2>2. voice.at \notin Early /\ monitor.at \in {"watching", "hearing"} /\ Given(mic.id)
    BY <2>1 DEF MicrophoneInv, OwnerInv, Captured
  <2>3. \/ /\ EndsCapture /\ UNCHANGED <<voice, playing>>
           /\ \E to \in {"quiet", "recognising"} : monitor' = [monitor EXCEPT !.at = to]
        \/ BargesIn /\ mic' = Detected(m.speech)
        \/ mic' = Detected(m.speech) /\ UNCHANGED <<voice, playing, monitor, toRenderer>>
    BY <1>5 DEF MonitorHears
  <2>4. CASE /\ EndsCapture /\ UNCHANGED <<voice, playing>>
             /\ \E to \in {"quiet", "recognising"} : monitor' = [monitor EXCEPT !.at = to]
    <3>1. TurnsGoOn
      BY <1>1, <2>4 DEF TurnsGoOn
    <3>2. toRenderer' \in Seq(ToRenderer) /\ mic' = NoMic /\ CaptureInv' /\ GivenInv'
      BY <1>1, <1>2, <1>5, <2>4, <3>1, CaptureEnds DEF rendererVars
    <3>3. OwnerInv'
      BY <2>4, <3>2 DEF MicrophoneInv, OwnerInv, Playing
    <3>4. BridgeType'
      BY <1>1, <1>2, <2>4, <3>2, MicRecords
         DEF MicrophoneInv, BridgeType, rendererVars, deviceVars, MicType
    <3> QED BY <3>2, <3>3, <3>4 DEF MicrophoneInv
  <2>5. CASE BargesIn /\ mic' = Detected(m.speech)
    <3>1. mic' \in MicType /\ mic'.id = mic.id
      BY <2>5, DetectedType DEF MicrophoneInv
    <3>2. /\ toRenderer' = Sent(Silences) /\ playing' = Mute
          /\ monitor' = [monitor EXCEPT !.at = "hearing"] /\ voice'.at = "reaping"
      BY <2>5 DEF BargesIn, Goes, SessionInv
    <3>3. TurnsGoOn
      BY <1>1, <3>2 DEF TurnsGoOn, Early
    <3>4. /\ toRenderer' \in Seq(ToRenderer) /\ (Once(toRenderer) => Once(toRenderer'))
          /\ \A id : (Asked(id)' <=> Asked(id)) /\ (Dropped(id)' <=> Dropped(id))
          /\ renderer # "up" => toRenderer' = toRenderer
      <4>1. CASE Playing
        <5>1. toRenderer' = Sent(<<Message("stopPlayback", playing.id)>>)
          BY <3>2, <4>1 DEF Silences
        <5> QED BY <5>1, PlayingId, OtherSent DEF MicrophoneInv
      <4>2. CASE ~Playing
        <5>1. toRenderer' = toRenderer
          BY <3>2, <4>2 DEF Silences, Sent, MicrophoneInv, BridgeType
        <5> QED BY <5>1 DEF MicrophoneInv, BridgeType, Asked, Dropped
      <4> QED BY <4>1, <4>2
    <3>5. CapturesStay
      BY <1>1, <1>2, <3>1, <3>4 DEF CapturesStay, rendererVars
    <3>6. BridgeType'
      BY <1>1, <1>2, <3>1, <3>2, <3>4, MuteType
         DEF MicrophoneInv, BridgeType, rendererVars, deviceVars, MicType
    <3>7. Given(mic.id)' /\ mic'.id[2] = "monitor"
      BY <2>1, <2>2, <3>1, <3>3, StaysGiven DEF MicrophoneInv
    <3>8. monitor'.at = "hearing"
      BY <3>2 DEF MicrophoneInv, BridgeType
    <3>9. OwnerInv'
      BY <3>1, <3>2, <3>7, <3>8, MuteType DEF OwnerInv, Early
    <3> QED BY <3>3, <3>5, <3>6, <3>9, NoCaptureMoves, NoIdMoves DEF MicrophoneInv
  <2>6. CASE mic' = Detected(m.speech) /\ UNCHANGED <<voice, playing, monitor, toRenderer>>
    <3>1. mic' \in MicType /\ mic'.id = mic.id
      BY <2>6, DetectedType DEF MicrophoneInv
    <3>2. CapturesStay /\ TurnsGoOn
      BY <1>1, <2>6, <3>1, ReportRead DEF TurnsGoOn
    <3>3. BridgeType'
      BY <1>1, <1>2, <2>6, <3>1
         DEF MicrophoneInv, BridgeType, rendererVars, deviceVars, MicType
    <3>4. Given(mic.id)' /\ mic'.id[2] = "monitor"
      BY <2>1, <2>2, <3>1, <3>2, StaysGiven DEF MicrophoneInv
    <3>5. OwnerInv'
      BY <2>2, <2>6, <3>1, <3>4 DEF MicrophoneInv, OwnerInv, Playing
    <3> QED BY <3>2, <3>3, <3>5, NoCaptureMoves, NoIdMoves DEF MicrophoneInv
  <2> QED BY <2>3, <2>4, <2>5, <2>6
<1> QED BY <1>3, <1>4, <1>5 DEF FrameArrives

\* The capture under a turn or a monitor fails: it is not open any more.
LEMMA FailureKeeps ==
  ASSUME MicrophoneInv, CaptureFails
  PROVE  MicrophoneInv'
<1> DEFINE id0 == Head(toMain).id
<1>1. /\ UNCHANGED <<toRenderer, renderer, rendererVars, playing, deviceVars, turn, presses>>
      /\ toMain # <<>> /\ toMain' = Tail(toMain) /\ Head(toMain).op = "captureError"
  BY DEF CaptureFails
<1>2. /\ toMain' \in Seq(ToMain) /\ Lost(id0)
      /\ \A id : (Heard(id)' => Heard(id)) /\ (Lost(id)' => Lost(id))
  BY <1>1, Handled DEF MicrophoneInv, Heard, Lost
<1>3. CASE UNCHANGED <<mic, session, voice, monitor>>
  <2>1. CapturesStay
    BY <1>1, <1>3, ReportRead
  <2>2. BridgeType' /\ MovesOn
    BY <1>1, <1>2, <1>3 DEF MicrophoneInv, BridgeType, rendererVars, deviceVars, MovesOn, Playing
  <2> QED BY <1>1, <1>3, <2>1, <2>2, MainKeeps
<1>4. CASE id0 = mic.id /\ mic' = NoMic
  <2>1. mic # NoMic
    <3>1. mic.id \in CaptureIds
      BY <1>2, <1>4 DEF MicrophoneInv, GivenInv, Given
    <3> QED BY <3>1, MicRecords
  <2>2. \/ mic.id[2] = "turn" /\ voice.at = "listening" /\ voice' = NoVoice /\ UNCHANGED monitor
        \/ /\ mic.id[2] # "turn" /\ UNCHANGED voice
           /\ monitor' = [monitor EXCEPT !.at = IF @ = "watching" THEN "failed" ELSE "quiet"]
    <3>1. mic.id[2] = "turn" => voice.at = "listening"
      BY <2>1 DEF MicrophoneInv, OwnerInv, Captured
    <3> QED BY <1>4, <2>1, <3>1 DEF CaptureFails, Fails
  <2>3. TurnsGoOn
    BY <1>1, <2>2 DEF TurnsGoOn, NoVoice, Early
  <2>4. \A id : (Asked(id)' <=> Asked(id)) /\ (Dropped(id)' <=> Dropped(id))
    BY <1>1 DEF Asked, Dropped
  <2>5. CaptureInv'
    <3>1. opening = {} /\ mic.id \notin open /\ \A id : ~Asked(id)
      BY <1>2, <1>4 DEF MicrophoneInv, CaptureInv
    <3>2. \A id : Dropped(id) => id \in CaptureIds
      BY DEF MicrophoneInv, GivenInv, Given
    <3> QED BY <1>1, <1>2, <1>4, <2>4, <3>1, <3>2, MicRecords
            DEF MicrophoneInv, CaptureInv, rendererVars
  <2>6. GivenInv'
    BY <1>1, <1>2, <2>3, <2>4, StaysGiven DEF MicrophoneInv, GivenInv, rendererVars
  <2>7. monitor' = monitor \/ \E to \in {"failed", "quiet"} : monitor' = [monitor EXCEPT !.at = to]
    BY <2>2
  <2>8. BridgeType'
    BY <1>1, <1>2, <1>4, <2>7, MicRecords
       DEF MicrophoneInv, BridgeType, rendererVars, deviceVars, MicType
  <2>9. Playing' => voice'.at = "speaking"
    BY <1>1, <2>2 DEF MicrophoneInv, OwnerInv, Playing
  <2> QED BY <1>4, <2>5, <2>6, <2>8, <2>9 DEF MicrophoneInv, OwnerInv
<1> QED BY <1>3, <1>4 DEF CaptureFails

\* The monitor opens the microphone, which the turn's own capture has left free.
LEMMA SpeakKeeps ==
  ASSUME MicrophoneInv, SessionInv, Records
  PROVE  MicrophoneInv'
<1>1. /\ UNCHANGED <<toMain, renderer, rendererVars, deviceVars, turn, presses>>
      /\ voice.at = "recording"
      /\ Speaks \/ (voice' = NoVoice /\ UNCHANGED <<monitor, mic, playing, toRenderer>>)
  BY DEF Records, Fails
<1>2. mic = NoMic /\ ~Playing
  BY <1>1 DEF MicrophoneInv, OwnerInv, Early
<1>3. \A id : (Heard(id)' <=> Heard(id)) /\ (Lost(id)' <=> Lost(id))
  BY <1>1 DEF Heard, Lost
<1>4. CASE /\ voice' = NoVoice /\ UNCHANGED <<mic, playing, toRenderer>>
           /\ UNCHANGED monitor \/ monitor' = [Unwatched EXCEPT !.at = "failed"]
  <2>1. CapturesStay /\ TurnsGoOn
    BY <1>1, <1>3, <1>4 DEF CapturesStay, TurnsGoOn, NoVoice, Early, rendererVars, Asked, Dropped
  <2>2. BridgeType'
    BY <1>1, <1>4 DEF MicrophoneInv, BridgeType, rendererVars, deviceVars, Unwatched
  <2>3. OwnerInv'
    BY <1>2, <1>4 DEF OwnerInv, Playing
  <2> QED BY <2>1, <2>2, <2>3, NoCaptureMoves, NoIdMoves DEF MicrophoneInv
<1>5. CASE Speaks /\ CanPlay
  <2> DEFINE id0 == Watched
             player == <<turn, "play">>
             m1 == Message("startCapture", id0)
             m2 == Message("play", player)
             ms == <<m1, m2>>
  <2>1. /\ Goes("speaking") /\ playing' = [Mute EXCEPT !.id = player]
        /\ monitor' = [Unwatched EXCEPT !.at = "watching"]
        /\ mic' = Listening(id0) /\ toRenderer' = Sent(ms) /\ renderer = "up"
    BY <1>5 DEF Speaks, CanPlay
  <2>2. voice'.at = "speaking"
    BY <2>1 DEF Goes, SessionInv
  <2>3. id0 \in CaptureIds /\ id0[2] = "monitor" /\ ~Given(id0)
    BY <1>1 DEF MicrophoneInv, BridgeType, CaptureIds, Watched, Given, Early
  <2>4. Given(id0)' /\ UNCHANGED Watched
    BY <1>1, <2>2 DEF MicrophoneInv, BridgeType, CaptureIds, Watched, Given, Early
  <2>5. m1 \in ToRenderer /\ m2 \in ToRenderer
    BY <2>3 DEF Message, ToRenderer, CaptureIds, Kinds, MicrophoneInv, BridgeType
  <2>6. /\ ms \in Seq(ToRenderer) /\ Once(ms)
        /\ \A id : (Has(ms, "startCapture", id) <=> id = id0) /\ ~Has(ms, "stopCapture", id)
    <3>1. ms \in Seq(ToRenderer) /\ DOMAIN ms = {1, 2} /\ ms[1] = m1 /\ ms[2] = m2
      BY <2>5
    <3>2. m1.op = "startCapture" /\ m1.id = id0 /\ m2.op = "play"
      BY DEF Message
    <3> HIDE DEF ms, m1, m2
    <3> QED BY <3>1, <3>2 DEF Has, Once
  <2>7. TurnsGoOn
    BY <1>1 DEF TurnsGoOn, Early
  <2> HIDE DEF ms, m1, m2
  <2>8. toRenderer' \in Seq(ToRenderer) /\ CaptureInv' /\ GivenInv'
    BY <1>1, <1>2, <1>3, <2>1, <2>3, <2>4, <2>6, <2>7, CaptureBegins DEF rendererVars
  <2>9. mic' \in MicType /\ mic'.id = id0
    BY <2>1, <2>3, MicRecords
  <2>10. BridgeType'
    BY <1>1, <2>1, <2>8, <2>9
       DEF MicrophoneInv, BridgeType, rendererVars, deviceVars, MicType, Unwatched, Mute
  <2>11. monitor'.at = "watching"
    BY <2>1 DEF Unwatched
  <2>12. OwnerInv'
    BY <2>2, <2>3, <2>4, <2>9, <2>11 DEF OwnerInv, Early
  <2> QED BY <2>8, <2>10, <2>12 DEF MicrophoneInv
<1> QED BY <1>1, <1>4, <1>5 DEF Speaks

\* The reply is out: what interrupted it has been heard to the end.
LEMMA EndKeeps ==
  ASSUME MicrophoneInv, SessionInv, SpokenOut
  PROVE  MicrophoneInv'
<1>1. /\ UNCHANGED <<toMain, renderer, rendererVars, playing, deviceVars, presses, monitor>>
      /\ UNCHANGED <<mic, toRenderer>>
      /\ voice.at = "reaping" /\ monitor.at \notin {"watching", "hearing"}
  BY DEF SpokenOut, BeginsThinking
<1>2. mic = NoMic /\ ~Playing
  BY <1>1 DEF MicrophoneInv, OwnerInv
<1>3. turn' = turn + 1 \/ (turn' = turn /\ voice'.at \in {"idle", "persisting"})
  BY DEF SpokenOut, BeginsThinking, Fails, NoVoice, Goes, SessionInv
<1>4. TurnsGoOn
  BY <1>3 DEF TurnsGoOn, Early
<1>5. CapturesStay
  BY <1>1 DEF CapturesStay, rendererVars, Asked, Dropped, Heard, Lost
<1>6. BridgeType'
  BY <1>1, <1>3 DEF MicrophoneInv, BridgeType, rendererVars, deviceVars
<1>7. OwnerInv'
  BY <1>1, <1>2 DEF OwnerInv, Playing
<1> QED BY <1>4, <1>5, <1>6, <1>7, NoCaptureMoves, NoIdMoves DEF MicrophoneInv

-----------------------------------------------------------------------------
LEMMA MicrophonePreserved ==
  SessionInv /\ MicrophoneInv /\ [VoiceNext]_vars => MicrophoneInv'
<1> SUFFICES ASSUME SessionInv, MicrophoneInv, [VoiceNext]_vars
             PROVE  MicrophoneInv'
  OBVIOUS
<1>1. CASE Renderer \/ Outside \/ Captures(FALSE)
  BY <1>1, RendererPreserves
<1>2. CASE ListeningExpires \/ Recognises \/ Understands \/ Asks \/ AsksAgain \/ TurnRecorded
           \/ UNCHANGED vars
  BY <1>2, ThinkingPreserves
<1>3. CASE MonitorRecognises
  BY <1>3, MonitorPreserves
<1>4. CASE InputEnds \/ Feeds
  BY <1>4, EndsOrFeeds
<1>5. CASE PlayResultArrives \/ PlaybackTimesOut \/ CaptureStopped
  BY <1>5, ResultPreserves
<1>6. CASE StopVoiceTurn
  BY <1>6, StopKeeps
<1>7. CASE StartVoiceTurn
  BY <1>7, StartKeeps
<1>8. CASE DevicesArrive \/ \E id \in listings : ListingTimesOut(id)
  BY <1>8, ListingKeeps
<1>9. CASE FrameArrives
  BY <1>9, FrameKeeps
<1>10. CASE CaptureFails
  BY <1>10, FailureKeeps
<1>11. CASE Records
  BY <1>11, SpeakKeeps
<1>12. CASE SpokenOut
  BY <1>12, EndKeeps
<1> QED BY <1>1, <1>2, <1>3, <1>4, <1>5, <1>6, <1>7, <1>8, <1>9, <1>10, <1>11, <1>12
        DEF VoiceNext, FromRenderer, Pipeline, Timeouts

LEMMA MicrophoneStarts == VoiceInit => SessionInv /\ MicrophoneInv
<1> SUFFICES ASSUME VoiceInit PROVE SessionInv /\ MicrophoneInv
  OBVIOUS
<1>1. SessionInv
  BY DEF VoiceInit, SessionInv, NoVoice, States, Phases, Settled
<1>2. /\ toRenderer = <<>> /\ toMain = <<>> /\ opening = {} /\ open = {} /\ players = {}
      /\ mic = NoMic /\ playing = Mute /\ monitor = Unwatched
      /\ turn = 0 /\ presses = 0 /\ changes = 0
  BY DEF VoiceInit, BridgeInit
<1>3. BridgeType
  BY <1>2, MicRecords, MuteType DEF BridgeType, Unwatched, MicType
<1>4. CaptureInv /\ GivenInv
  BY <1>2 DEF CaptureInv, GivenInv, Once, Asked, Dropped, Heard, Lost, Has
<1>5. OwnerInv
  BY <1>2 DEF OwnerInv, Playing
<1> QED BY <1>1, <1>3, <1>4, <1>5 DEF MicrophoneInv

\* The inductive invariant of the microphone, together with that of the session.
THEOREM MicrophoneInductive == VoiceSpec => [](SessionInv /\ MicrophoneInv)
<1>1. SessionInv /\ MicrophoneInv /\ [VoiceNext]_vars => (SessionInv /\ MicrophoneInv)'
  BY SessionPreserved, MicrophonePreserved
<1> QED BY <1>1, MicrophoneStarts, PTL DEF VoiceSpec

\* For any devices, windows, models and turns, whatever is lost or late: a capture
\* the renderer has open, or is opening, is the one the main process reads, or is
\* about to be stopped.
THEOREM MicrophonesAreWatched == VoiceSpec => []MicrophoneIsWatched
<1>1. MicrophoneInv => MicrophoneIsWatched
  <2> SUFFICES ASSUME MicrophoneInv, NEW id \in opening \cup open, mic.id # id
               PROVE  \E i \in DOMAIN toRenderer : toRenderer[i] = Message("stopCapture", id)
    BY DEF MicrophoneIsWatched
  <2>1. Dropped(id)
    BY DEF MicrophoneInv, CaptureInv
  <2>2. PICK i \in DOMAIN toRenderer : toRenderer[i].op = "stopCapture" /\ toRenderer[i].id = id
    BY <2>1 DEF Dropped, Has
  <2>3. toRenderer[i] \in ToRenderer
    BY DEF MicrophoneInv, BridgeType
  <2>4. toRenderer[i] = Message("stopCapture", id)
    BY <2>2, <2>3 DEF ToRenderer, Message
  <2> QED BY <2>4
<1> QED BY <1>1, MicrophoneInductive, PTL
=============================================================================
