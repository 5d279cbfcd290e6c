----------------------------- MODULE MCAssistant -----------------------------
(***************************************************************************)
(* Spoken and typed turns for TLC.  A behaviour looks at one part of what  *)
(* can happen to them, with the rest of the environment quiet:             *)
(*   "model"    everything a provider and its tools can do to a spoken turn *)
(*   "audio"    unplugged microphones, late playback, a lost window        *)
(*   "devices"  device listings that fail, answer late or overlap          *)
(*   "text"     typed turns                                                *)
(***************************************************************************)
EXTENDS VoiceTurn, TextTurn

CONSTANT Parts

VARIABLE part

mcVars == <<vars, textVars, part>>

MCInit ==
    /\ VoiceInit /\ TextInit
    /\ part \in Parts
    /\ part # "devices" => devices

\* Bounds of the parts: turns started, and frames of speech.
Presses == IF part = "audio" THEN MaxPresses ELSE 1
Speech == IF part = "devices" THEN 1 ELSE MaxSpeech

\* Where the provider is not the question, it answers in words at once.
Plainly ==
    /\ stream'.tries <= 1 /\ stream'.calls = 0 /\ voice'.at # "backing_off"
    /\ stream'.at \in {"first", "streaming", "closed"}

Allowed ==
    /\ presses' <= Presses /\ spoken' <= Speech
    /\ part # "model" => Plainly
    /\ part = "audio" => changes' = changes
    /\ part = "model" => UNCHANGED <<changes, renderer>>
    /\ part = "devices" => UNCHANGED <<renderer, stopped>>

\* Faults of the devices, the window and the clock.
Troubles(A) == part # "model" /\ A

Can(A) == part # "text" /\ A /\ Allowed /\ UNCHANGED <<part, textVars>>

VoiceSteps ==
    \/ Can(StartVoiceTurn) \/ Can(StopVoiceTurn) \/ Can(Captures(TRUE))
    \/ Can(Renderer) \/ Can(Captures(FALSE)) \/ Can(FromRenderer) \/ Can(Pipeline)
    \/ Can(Troubles(Outside)) \/ Can(Troubles(Timeouts))

TextSteps == part = "text" /\ TextNext /\ UNCHANGED <<part, bridgeVars, voiceVars>>

\* VoiceFairness, within a part.
MCFairness ==
    /\ WF_mcVars(Can(Renderer)) /\ SF_mcVars(Can(Captures(FALSE)))
    /\ WF_mcVars(Can(FromRenderer)) /\ WF_mcVars(Can(Pipeline)) /\ WF_mcVars(Can(Troubles(Timeouts)))

MCSpec == MCInit /\ [][VoiceSteps \/ TextSteps]_mcVars /\ MCFairness

==============================================================================
