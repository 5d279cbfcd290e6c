---------------------------- MODULE AssistantTurn ----------------------------
(***************************************************************************)
(* One call of AIOrchestrator.sendMessage() (src/core/ai-engine): rounds   *)
(* of a provider's stream, each followed by the tools the model asked for, *)
(* until a round asks for none.  The voice turn and the text turn consume  *)
(* the same generator; what each does with an event is in its own module.  *)
(*                                                                         *)
(* The generator only runs when its consumer pulls, so the module offers   *)
(* the steps it can take (StreamSteps) and the consumer's action chooses   *)
(* one, stores what it leaves in `stream', and handles its event.          *)
(* Words, prompts and token budgets are abstracted: an event is its type.  *)
(***************************************************************************)
EXTENDS Integers

CONSTANTS
    MaxRounds,    \* maxToolRounds (5 in the code)
    MaxTries,     \* attempts at a round that has streamed nothing (2 in the code)
    MaxCalls      \* bound: tools one round may ask for

ASSUME StreamBounds == {MaxRounds, MaxTries, MaxCalls} \subseteq Nat \ {0}

VARIABLES
    stream,       \* the generator: where it is, its round, attempt and unanswered tool calls
    acted         \* a tool has taken effect since the utterance was heard

Closed == [at |-> "closed", round |-> 0, tries |-> 0, calls |-> 0]

\* sendMessage() up to its first provider request.
Opened == [at |-> "first", round |-> 1, tries |-> 1, calls |-> 0]

Step(event, next) == [event |-> event, next |-> next, effect |-> FALSE]

\* retryWithBackoff() inside runProviderRound(): a failure before any output is
\* tried again with a fresh request; the last one is thrown.
ProviderRefuses(s) ==
    IF s.at # "first" THEN {}
    ELSE {IF s.tries < MaxTries THEN Step("none", [s EXCEPT !.tries = @ + 1])
                                ELSE Step("throws", Closed)}

\* withTimeout(): no event in time.  The round is abandoned and the error thrown.
StreamStalls(s) ==
    IF s.at \in {"first", "streaming"} THEN {Step("throws", Closed)} ELSE {}

\* A failure after output has streamed is surfaced as an error event, and the
\* round ends there.
BreaksOff(s) ==
    IF s.at \in {"first", "streaming"} THEN {Step("error", [s EXCEPT !.at = "broken"])} ELSE {}

Streams(s) ==
    IF s.at \notin {"first", "streaming"} THEN {}
    ELSE {Step("text", [s EXCEPT !.at = "streaming"])} \cup
         IF s.calls = MaxCalls THEN {}
         ELSE {Step("call", [s EXCEPT !.at = "streaming", !.calls = @ + 1])}

\* The end of a round: the tools asked for run, also when the provider broke
\* off after asking; without any, sendMessage() is over.
RoundEnds(s) ==
    IF s.at \notin {"first", "streaming", "broken"} THEN {}
    ELSE {IF s.calls = 0 THEN Step("done", Closed) ELSE Step("none", [s EXCEPT !.at = "tools"])}

\* After a tool's result: the next call of the round, another round, or the
\* limit of rounds.
AfterTool(s) ==
    [s EXCEPT !.calls = @ - 1,
              !.tries = 1,
              !.at = IF s.calls > 1 THEN "tools"
                     ELSE IF s.round = MaxRounds THEN "spent" ELSE "first",
              !.round = IF s.calls = 1 /\ s.round < MaxRounds THEN @ + 1 ELSE @]

\* ToolRegistry.invoke(): an unknown name, bad arguments or a missing capability
\* is a failed result, and so is a turn cancelled before the tool runs.
ToolStarts(s, aborted) ==
    IF s.at # "tools" THEN {}
    ELSE {Step("failure", AfterTool(s))} \cup
         IF aborted THEN {} ELSE {Step("none", [s EXCEPT !.at = "running"])}

\* tool.execute() settles: its value, or a failed result when it throws.
ToolEnds(s) ==
    IF s.at # "running" THEN {}
    ELSE {Step("failure", AfterTool(s)), [Step("result", AfterTool(s)) EXCEPT !.effect = TRUE]}

\* The model was still asking for tools when the rounds ran out.
RunsOut(s) == IF s.at = "spent" THEN {Step("done", Closed)} ELSE {}

\* What pulling the generator may bring, with the turn's signal as given.
StreamSteps(s, aborted) ==
    UNION {ProviderRefuses(s), StreamStalls(s), BreaksOff(s), Streams(s), RoundEnds(s),
           ToolStarts(s, aborted), ToolEnds(s), RunsOut(s)}

Advances(st) ==
    /\ stream' = st.next
    /\ acted' = (acted \/ st.effect)

AssistantInit == stream = Closed /\ acted = FALSE

==============================================================================
