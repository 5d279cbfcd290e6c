---------------------------- MODULE MCLocalModels ----------------------------
(***************************************************************************)
(* The local models for TLC: a recogniser's binary with its DLLs, a voice  *)
(* with its .json and, already in place, the language model.  A behaviour  *)
(* looks at one part of what can happen, with the rest of it quiet:        *)
(*   "files"    provisioning, with downloads, removals and restarts        *)
(*   "server"   the language model's server                                *)
(*   "speech"   calls in an app that is up                                 *)
(*   "store"    the model store, which the app leaves alone                *)
(***************************************************************************)
EXTENDS LocalSpeech, ModelStore, TLC

CONSTANTS
  Scenes,
  binary, otherBinary, voice, otherVoice, dll, json,     \* sources
  toBinary, toVoice, toDll, toJson, llama,               \* targets
  speech, hear, say,
  chat, embed, one, other

VARIABLE scene

mcVars == <<localVars, storeVars, scene>>

MCItems == <<
  [target |-> toBinary, sources |-> <<binary, otherBinary>>, binary |-> TRUE],
  [target |-> toVoice, sources |-> <<voice, otherVoice>>, binary |-> FALSE]>>

MCBesideSource == binary :> dll @@ voice :> json @@ [s \in Sources |-> NoFile]
MCBesideTarget == toBinary :> toDll @@ toVoice :> toJson @@ [t \in Targets |-> NoFile]

\* Everything is there; the voice is being downloaded; the first of each is no
\* good, and only the second is.
MCFound ==
  {[s \in Sources |-> "whole"],
   voice :> "partial" @@ [s \in Sources |-> "whole"],
   binary :> "absent" @@ voice :> "empty" @@ [s \in Sources |-> "whole"]}

MCBinaryOf == speech :> toBinary
MCModelOf == speech :> toVoice
MCVoiceOf == [c \in Calls |-> speech]

MCPlaced == {[t \in Targets |-> "absent"], [t \in Targets |-> "whole"]}

MCInit ==
  /\ SpeechInit /\ StoreInit
  /\ scene \in Scenes
  /\ catalog = [m \in Models |-> IF scene = "store" THEN 1 ELSE 0]
  /\ scene = "store" => source = [s \in Sources |-> "whole"]
  /\ scene = "files" <=> target[llama] = "absent"

\* The server is brought up in its own scene only, files change in theirs and
\* while they are provisioned, and calls, which share nothing, are made in turn.
Allowed ==
  /\ scene # "server" => process' = "none" /\ ~orphan'
  /\ edits' # edits => scene = "files" /\ stage = "models"
  /\ scene # "speech" => call' = call
  /\ scene = "store" => restarts' = 0 /\ stage' # "safe"
  /\ \A c, d \in Calls : c # d => "idle" \in {call'[c].at, call'[d].at}
                               \/ "done" \in {call'[c].at, call'[d].at}

Can(A) == A /\ Allowed /\ UNCHANGED <<storeVars, scene>>

Stores == scene = "store" /\ Started /\ StoreNext /\ UNCHANGED <<localVars, scene>>

MCNext == Can(LocalNext) \/ Stores

\* LocalFairness, within a scene.
MCFairness ==
  /\ WF_mcVars(Can(StartSteps /\ UNCHANGED call))
  /\ WF_mcVars(Can(Deadline /\ UNCHANGED call))
  /\ \A c \in Calls : /\ WF_mcVars(Can(Proceeds(c)))
                      /\ WF_mcVars(Can(TimesOut(c)))
                      /\ WF_mcVars(Can(Obeys(c)))

MCSpec == MCInit /\ [][MCNext]_mcVars /\ MCFairness
=============================================================================
