--------------------------- MODULE MCPowerActions ---------------------------
(***************************************************************************)
(* PowerActions for TLC: the voice session and a conversation, each with   *)
(* its power call, beside a tool's call that needs no capability.          *)
(***************************************************************************)
EXTENDS PowerActions, TLC

CONSTANTS paste, voiceCall, textCall, voice, text, execute

MCActorOf  == [i \in Calls |-> IF i = voiceCall THEN "voice-session" ELSE "ai-orchestrator"]
MCNeeds    == [i \in Calls |-> IF i = paste THEN NoCapability ELSE execute]
MCCallOf   == voice :> voiceCall @@ text :> textCall
MCSettings == {[c \in Capabilities |-> "unset"]}
=============================================================================
