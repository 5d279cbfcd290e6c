----------------------------- MODULE AudioBridge -----------------------------
(***************************************************************************)
(* Audio between the desktop app's main process and the renderer window    *)
(* that owns the devices (src/platform/desktop-app/electron/audio-bridge   *)
(* and src/platform/desktop-app/src/audio), with the managers of           *)
(* @ryper/voice-engine that hold a device: one capture, one playback.      *)
(*                                                                         *)
(* The two processes only exchange IPC messages, in order per direction.   *)
(* A capture or a playback is known by the request id its start was given; *)
(* here an id is <<turn, kind>>.  Samples, sample rates and volumes are    *)
(* left out; a frame is speech or silence, as the voice activity detector  *)
(* classifies it.  While a capture is open its consumer always awaits the  *)
(* next frame, so CaptureQueue's buffer is empty between two events and a  *)
(* frame reaches its consumer in the step that delivers it.                *)
(***************************************************************************)
EXTENDS Integers, Sequences, FiniteSets

CONSTANTS
    Silence,        \* silent frames after speech that end a capture (20 in the code)
    Patience,       \* silent frames before any speech that end it (50 in the code)
    MaxSpeech,      \* bound: frames of speech in one behaviour
    MaxChanges      \* bound: hot plugs in one behaviour

ASSUME FrameBounds == {Silence, Patience, MaxSpeech} \subseteq Nat \ {0} /\ MaxChanges \in Nat

VARIABLES
    toRenderer, toMain,   \* the two IPC channels
    renderer,             \* "up" until its window is destroyed, then "gone"
    opening, open,        \* renderer: captures awaiting getUserMedia, and the live ones
    players,              \* renderer: playback sessions [id, sounding, ended]
    mic,                  \* main: the open capture [id, heard, silent], NoMic without one
    playing,              \* main: the playback under way [id, fed, ended, late], Mute without one
    devices,              \* main: AudioDeviceManager knows a microphone and a speaker
    listings,             \* main: listDevices requests not answered yet
    changes,              \* hot plugs so far
    spoken                \* frames of speech so far

rendererVars == <<opening, open, players>>
deviceVars == <<devices, listings, changes>>
bridgeVars == <<toRenderer, toMain, renderer, opening, open, players, mic, playing, devices,
                listings, changes, spoken>>

NoMic == [id |-> <<0, "none">>, heard |-> FALSE, silent |-> 0]
Mute == [id |-> <<0, "none">>, fed |-> FALSE, ended |-> FALSE, late |-> FALSE]
Message(op, id) == [op |-> op, id |-> id]
Frame(id, speech) == [op |-> "frame", id |-> id, speech |-> speech]
Result(id, ok) == [op |-> "playResult", id |-> id, ok |-> ok]
Listing(id, found) == [op |-> "devices", id |-> id, found |-> found]

\* Nothing is sent to a window that is gone.
Sent(ms) == IF renderer = "up" THEN toRenderer \o ms ELSE toRenderer

BridgeInit ==
    /\ toRenderer = <<>> /\ toMain = <<>> /\ renderer = "up"
    /\ opening = {} /\ open = {} /\ players = {}
    /\ mic = NoMic /\ playing = Mute
    /\ devices \in BOOLEAN /\ listings = {} /\ changes = 0 /\ spoken = 0

------------------------------------------------------------------------------
\* The renderer: one command at a time, in the order sent.

Takes(op) ==
    /\ toRenderer # <<>> /\ Head(toRenderer).op = op
    /\ toRenderer' = Tail(toRenderer)

Replies(m) == toMain' = Append(toMain, m)

RendererStartsCapture ==
    /\ Takes("startCapture")
    /\ opening' = opening \cup {Head(toRenderer).id}
    /\ UNCHANGED <<toMain, renderer, open, players, mic, playing, deviceVars, spoken>>

\* startMicrophoneCapture() settles: the track runs, or getUserMedia (and its
\* fallback to the default device) failed.
CaptureOpens(id) ==
    /\ id \in opening
    /\ opening' = opening \ {id}
    /\ \/ open' = open \cup {id} /\ UNCHANGED toMain
       \/ Replies(Message("captureError", id)) /\ UNCHANGED open
    /\ UNCHANGED <<toRenderer, renderer, players, mic, playing, deviceVars, spoken>>

\* onaudioprocess.  Bound: one frame on its way at a time.
CapturesFrame(id, speech) ==
    /\ id \in open /\ toMain = <<>>
    /\ speech => spoken < MaxSpeech
    /\ spoken' = IF speech THEN spoken + 1 ELSE spoken
    /\ Replies(Frame(id, speech))
    /\ UNCHANGED <<toRenderer, renderer, rendererVars, mic, playing, deviceVars>>

\* The operating system ended the track.
DeviceUnplugged(id) ==
    /\ id \in open
    /\ open' = open \ {id}
    /\ Replies(Message("captureError", id))
    /\ UNCHANGED <<toRenderer, renderer, opening, players, mic, playing, deviceVars, spoken>>

\* A capture still awaiting getUserMedia has no handle yet and is not stopped.
RendererStopsCapture ==
    /\ Takes("stopCapture")
    /\ open' = open \ {Head(toRenderer).id}
    /\ Replies(Message("captureStopped", Head(toRenderer).id))
    /\ UNCHANGED <<renderer, opening, players, mic, playing, deviceVars, spoken>>

RendererPlays ==
    /\ Takes("play")
    /\ players' = players \cup {[id |-> Head(toRenderer).id, sounding |-> FALSE, ended |-> FALSE]}
    /\ UNCHANGED <<toMain, renderer, opening, open, mic, playing, deviceVars, spoken>>

Player(id) == {p \in players : p.id = id}

\* pushChunk(): decoded and scheduled after what already plays.
RendererQueuesChunk ==
    /\ Takes("playChunk")
    /\ players' = {IF p.id = Head(toRenderer).id THEN [p EXCEPT !.sounding = TRUE] ELSE p :
                     p \in players}
    /\ UNCHANGED <<toMain, renderer, opening, open, mic, playing, deviceVars, spoken>>

\* end(): a session with nothing left to play completes at once.
RendererEndsInput ==
    /\ Takes("playEnd")
    /\ LET id == Head(toRenderer).id
           quiet == {p \in Player(id) : ~p.sounding}
       IN /\ players' = {IF p.id = id THEN [p EXCEPT !.ended = TRUE] ELSE p :
                           p \in players \ quiet}
          /\ IF quiet = {} THEN UNCHANGED toMain ELSE Replies(Result(id, TRUE))
    /\ UNCHANGED <<renderer, opening, open, mic, playing, deviceVars, spoken>>

\* onended, or a chunk that could not be decoded.
SoundEnds(p) ==
    /\ p \in players /\ p.sounding
    /\ IF p.ended
       THEN players' = players \ {p} /\ \E ok \in BOOLEAN : Replies(Result(p.id, ok))
       ELSE players' = (players \ {p}) \cup {[p EXCEPT !.sounding = FALSE]} /\ UNCHANGED toMain
    /\ UNCHANGED <<toRenderer, renderer, opening, open, mic, playing, deviceVars, spoken>>

\* stop(): every source is stopped and the session reports completion.
RendererStopsPlayback ==
    /\ Takes("stopPlayback")
    /\ LET id == Head(toRenderer).id
       IN /\ players' = players \ Player(id)
          /\ IF Player(id) = {} THEN UNCHANGED toMain ELSE Replies(Result(id, TRUE))
    /\ UNCHANGED <<renderer, opening, open, mic, playing, deviceVars, spoken>>

\* enumerateDevices(); an error is answered with no devices.
RendererListsDevices ==
    /\ Takes("listDevices")
    /\ \E found \in BOOLEAN : Replies(Listing(Head(toRenderer).id, found))
    /\ UNCHANGED <<renderer, rendererVars, mic, playing, deviceVars, spoken>>

\* The window is destroyed: its tracks, players and both channels go with it.
RendererGoes ==
    /\ renderer = "up"
    /\ renderer' = "gone"
    /\ toRenderer' = <<>> /\ toMain' = <<>>
    /\ opening' = {} /\ open' = {} /\ players' = {}
    /\ UNCHANGED <<mic, playing, deviceVars, spoken>>

RendererSteps ==
    \/ RendererStartsCapture \/ RendererStopsCapture
    \/ RendererPlays \/ RendererQueuesChunk \/ RendererEndsInput \/ RendererStopsPlayback
    \/ RendererListsDevices
    \/ \E id \in opening : CaptureOpens(id)
    \/ \E p \in players : SoundEnds(p)

------------------------------------------------------------------------------
\* Main: the device list.

\* AudioDeviceManager.refresh(): asked when a turn starts without devices, and
\* on the renderer's devicechange event.
AsksForDevices(id) ==
    /\ listings' = listings \cup {id}
    /\ toRenderer' = Sent(<<Message("listDevices", id)>>)

\* Hot plug: the listing <<0, "change">>.  A listing is known by when it was asked.
DeviceChange ==
    /\ renderer = "up" /\ changes < MaxChanges
    /\ changes' = changes + 1
    /\ AsksForDevices(<<changes', "change">>)
    /\ UNCHANGED <<toMain, renderer, rendererVars, mic, playing, devices, spoken>>

\* Whatever answers last is the list; a listing that timed out, or that no
\* window can answer, is the empty list.
Listed(id, found) ==
    /\ id \in listings
    /\ listings' = listings \ {id}
    /\ devices' = found
    /\ UNCHANGED changes

------------------------------------------------------------------------------
\* Main: the capture of a MicrophoneManager, and its end.

\* startCapture() refuses a second capture, an unknown device, and a window
\* that is gone.
CanCapture(known) == mic = NoMic /\ known /\ renderer = "up"

Listening(id) == [NoMic EXCEPT !.id = id]

\* Defect: the queue is dropped without telling the renderer.
DropsCapture == mic' = NoMic /\ UNCHANGED toRenderer

\* The consumer leaves its loop: CaptureQueue's return() stops the real track,
\* and the manager may capture again.
EndsCapture == mic' = NoMic /\ toRenderer' = Sent(<<Message("stopCapture", mic.id)>>)

\* endpointedFrames(): the capture after one more frame, and whether it is over.
Detected(speech) ==
    IF speech THEN [mic EXCEPT !.heard = TRUE, !.silent = 0] ELSE [mic EXCEPT !.silent = @ + 1]

Endpoint(speech) == ~speech /\ mic.heard /\ mic.silent + 1 >= Silence
GivesUp(speech) == ~speech /\ ~mic.heard /\ mic.silent + 1 >= Patience

------------------------------------------------------------------------------
\* Main: the playback of a SpeakerManager.

CanPlay == devices /\ renderer = "up"

Playing == playing # Mute

\* interrupt(): the abort listener stops the renderer's player and play() returns
\* without awaiting its completion.
Silences == IF Playing THEN <<Message("stopPlayback", playing.id)>> ELSE <<>>

\* One sentence synthesised and sent.  Bound: one chunk to a reply.
FeedsChunk ==
    /\ Playing /\ ~playing.fed /\ ~playing.ended
    /\ playing' = [playing EXCEPT !.fed = TRUE]
    /\ toRenderer' = Sent(<<Message("playChunk", playing.id)>>)
    /\ UNCHANGED <<toMain, renderer, rendererVars, mic, deviceVars, spoken>>

==============================================================================
