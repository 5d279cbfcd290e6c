------------------------------- MODULE TextTurn -------------------------------
(***************************************************************************)
(* A typed turn of the desktop app: sendTurn() and regenerateMessage of    *)
(* ipc-handlers.ts around runTextTurn() of text-chat.ts.                   *)
(*                                                                         *)
(* One conversation; the person may cancel a turn at any time, and the     *)
(* conversation store may refuse a message.  A turn ends with what the     *)
(* renderer is told: a reply, "Cancelled.", or a rejection, which names    *)
(* the tool that had completed ("action_completed") when one had.          *)
(***************************************************************************)
EXTENDS AssistantTurn

CONSTANT MaxTexts   \* bound: turns typed in one behaviour

VARIABLES
    text,           \* [at, signal, aborted, said, completed, told]: the turn under way, or the last
    texts           \* turns typed so far

textVars == <<text, texts>>
typedVars == <<stream, acted, textVars>>

NoText == [at |-> "idle", signal |-> FALSE, aborted |-> FALSE, said |-> FALSE, completed |-> FALSE,
           told |-> "none"]

TextInit == text = NoText /\ texts = 0

\* sendMessage: the words are stored before anything else.
SendTurn ==
    /\ text.at = "idle" /\ texts < MaxTexts
    /\ texts' = texts + 1 /\ acted' = FALSE
    /\ text' = [NoText EXCEPT !.at = "storing", !.signal = TRUE]
    /\ UNCHANGED stream

\* regenerateMessage: the old reply is deleted, and the turn it runs has no signal.
RegenerateMessage ==
    /\ text.at = "idle" /\ text.told \in {"reply", "cancelled"} /\ texts < MaxTexts
    /\ texts' = texts + 1 /\ acted' = FALSE
    /\ text' = [NoText EXCEPT !.at = "deleting"]
    /\ UNCHANGED stream

\* cancelTurn finds the turn's controller only while runTextTurn() runs.
CancelTurn ==
    /\ text.signal /\ text.at \in {"confirming", "asking"}
    /\ text' = [text EXCEPT !.aborted = TRUE]
    /\ UNCHANGED <<stream, acted, texts>>

Ends(told) == text' = [text EXCEPT !.at = "idle", !.told = told]
Turns(phase) == text' = [text EXCEPT !.at = phase]

MessageStored ==
    /\ text.at \in {"storing", "deleting"}
    /\ Turns("confirming") \/ Ends("unsaved")
    /\ UNCHANGED <<stream, acted, texts>>

\* tryResolvePowerConfirmation(): an answer to a pending question is the reply;
\* anything else goes to the model.
Confirms ==
    /\ text.at = "confirming"
    /\ \/ text' = [text EXCEPT !.at = "replying", !.said = TRUE] /\ UNCHANGED stream
       \/ Turns("asking") /\ stream' = Opened
       \/ Ends("rejected") /\ UNCHANGED stream
    /\ UNCHANGED <<acted, texts>>

\* Defect: only a stream that throws is checked for a completed tool.
SaysNothingOf(thrown) ==
    Ends(IF thrown /\ text.completed THEN "action_completed" ELSE "rejected")

\* A turn without a reply rejects; one whose tool completed says so.
Rejects(thrown) == Ends(IF text.completed THEN "action_completed" ELSE "rejected")

\* The loop over sendMessage() and what follows it.
HearsReply(st) ==
    CASE st.event = "text" -> text' = [text EXCEPT !.said = TRUE]
      [] st.event = "result" -> text' = [text EXCEPT !.completed = TRUE]
      [] st.event = "throws" -> IF text.aborted THEN Turns("cancelling") ELSE Rejects(TRUE)
      [] st.event = "done" -> IF text.said THEN Turns("replying") ELSE Rejects(FALSE)
      [] OTHER -> UNCHANGED text

AsksModel ==
    /\ text.at = "asking"
    /\ \E st \in StreamSteps(stream, text.aborted) : Advances(st) /\ HearsReply(st)
    /\ UNCHANGED texts

\* The reply, or "Cancelled.", is stored and returned.
ReplyStored ==
    /\ text.at \in {"replying", "cancelling"}
    /\ Ends(IF text.at = "replying" THEN "reply" ELSE "cancelled") \/ Ends("unsaved")
    /\ UNCHANGED <<stream, acted, texts>>

TextProceeds == MessageStored \/ Confirms \/ AsksModel \/ ReplyStored

TextNext == SendTurn \/ RegenerateMessage \/ CancelTurn \/ TextProceeds

TextSpec == AssistantInit /\ TextInit /\ [][TextNext]_typedVars

------------------------------------------------------------------------------
\* PROPERTIES

\* What the renderer shows for a failed turn depends on it: a turn that rejects
\* after a tool took effect never looks like one in which nothing happened.
FailureAdmitsTheAction == text.told = "rejected" => ~acted

==============================================================================
