------------------------- MODULE MCCapabilityConsent -------------------------
(***************************************************************************)
(* CapabilityConsent for TLC: the model's tools write a file, the voice    *)
(* session deletes one, and there are two capabilities: the one both calls *)
(* need, and one that a reset leaves alone.                                *)
(***************************************************************************)
EXTENDS CapabilityConsent, TLC

CONSTANTS write, delete, execute, notify

MCActorOf  == [i \in Calls |-> IF i = write THEN "ai-orchestrator" ELSE "voice-session"]
MCNeeds    == [i \in Calls |-> execute]
MCSettings == {execute :> p @@ notify :> "unset" : p \in {"unset", "always", "denied"}}
=============================================================================
