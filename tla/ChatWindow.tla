------------------------------ MODULE ChatWindow ------------------------------
(***************************************************************************)
(* The chat window (src/App.tsx, src/hooks/useRyperData.ts,                *)
(* src/components/ChatPanel.tsx, Composer.tsx) over the conversation store,*)
(* through the handlers of electron/ipc-handlers.ts.  Every callback keeps *)
(* the conversation it was made for, while the window moves on to others.  *)
(* What a turn thinks and does is the subject of TextTurn; here it answers *)
(* or rejects.                                                             *)
(***************************************************************************)
EXTENDS ConversationStore

CONSTANTS
    MaxActs,         \* bound on what the person does
    MaxRestarts      \* bound on the crashes

ASSUME ChatAssumption ==
    Conversations \subseteq Words /\ Tasks \subseteq Nat /\ MaxActs \in Nat /\ MaxRestarts \in Nat

VARIABLES
    listed,          \* the conversations in the sidebar
    opened,          \* hasInitializedFirstRun
    active,          \* the conversation of the chat panel
    shown,           \* the messages in it
    sending, error,  \* the hook's state; the error is "none", "final" or "retry"
    failed,          \* lastFailedContent
    acts, restarts

windowVars == <<listed, opened, active, shown, sending, error, failed>>
chatVars == <<storeVars, windowVars, acts, restarts>>

WindowInit ==
    /\ listed = {} /\ opened = FALSE /\ active = NoConversation /\ shown = {}
    /\ sending = FALSE /\ error = "none" /\ failed = NoWords

\* A window that opens asks for the list.
Start == [t \in Tasks |-> Idle]
ListTask == Task("list", NoConversation, NoWords, <<"lists", "shows list">>)

\* Calls started at once take the first slots that are free.
Free(ts) == {t \in Tasks : ts[t] = Idle}
Room(ts, new) == Len(new) <= Cardinality(Free(ts))
Launch(ts, new) ==
    [t \in Tasks |->
       LET i == Cardinality({u \in Free(ts) : u <= t})
       IN IF t \in Free(ts) /\ i <= Len(new) THEN new[i] ELSE ts[t]]

ChatInit ==
    /\ StoreInit /\ WindowInit
    /\ tasks = Launch(Start, <<ListTask>>)
    /\ acts = 0 /\ restarts = 0

-----------------------------------------------------------------------------
\* The hooks' calls.

Saved == <<"writes", "renames">>
ListAgain == <<"lists", "shows list">>
Fetched == <<"fetches", "shows">>

\* sendTurn(): the words are kept before the turn, and the reply after it.
Turn == <<"appends">> \o Saved \o <<"thinks", "replies">> \o Saved

SendTask(c, w) == Task("send", c, w, Turn \o <<"sent">> \o Fetched \o <<"ends">>)
RegenerateTask(c) ==
    Task("regenerate", c, Reply,
         <<"erases">> \o Saved \o <<"thinks", "replies">> \o Saved \o Fetched \o <<"ends">>)
CreateTask == Task("create", NoConversation, NoWords, <<"creates">> \o Saved \o ListAgain \o <<"opens">>)
ChangeTask(c, op) == Task("change", c, NoWords, <<op>> \o Saved \o ListAgain)
EraseTask(c, w) == Task("erase", c, w, <<"erases">> \o Saved \o Fetched)
FetchTask(c) == Task("fetch", c, NoWords, Fetched)

\* onStartConversation(): the words go with the conversation that is made for them,
\* and nothing of the hook's state with them.
StartTask == Task("start", NoConversation, NoWords,
                  <<"creates">> \o Saved \o ListAgain \o <<"opens">> \o Turn)

\* createVoiceTurnRecorder(): what was said, and the answer, in a conversation of its own.
RecordTask == Task("voice", NoConversation, Reply,
                   <<"finds">> \o Saved \o <<"appends">> \o Saved \o <<"replies">> \o Saved \o <<"tells">>)

\* useMessages' effect: another conversation is fetched, and none shows nothing.
Opening(c) == IF c = NoConversation THEN <<>> ELSE <<FetchTask(c)>>

-----------------------------------------------------------------------------
\* What the person does.

Acts == acts < MaxActs /\ acts' = acts + 1 /\ UNCHANGED restarts

\* One slot stays free for what the window itself asks for.
Begins(new) ==
    /\ Len(new) < Cardinality(Free(tasks))
    /\ tasks' = Launch(tasks, new)
    /\ UNCHANGED <<history, loaded, file, backups, unsaved, used, removed>>

Select(c) ==
    /\ c \in listed /\ c # active
    /\ active' = c
    /\ Begins(Opening(c))
    /\ UNCHANGED <<listed, opened, shown, sending, error, failed>>

Create == Begins(<<CreateTask>>) /\ UNCHANGED windowVars

Rename(c) == c \in listed /\ Begins(<<ChangeTask(c, "titles")>>) /\ UNCHANGED windowVars

\* Archiving and deleting: the active conversation is left at once, and App's effect
\* then opens another of the list, which the call has not changed yet.
Removes(c, op) ==
    /\ c \in listed
    /\ IF c = active
       THEN \E d \in listed :
              /\ active' = d
              /\ shown' = {}
              /\ Begins(<<ChangeTask(c, op)>> \o Opening(d))
       ELSE Begins(<<ChangeTask(c, op)>>) /\ UNCHANGED <<active, shown>>
    /\ UNCHANGED <<listed, opened, sending, error, failed>>

\* send()
Send(c, w) ==
    /\ sending' = TRUE /\ error' = "none"
    /\ Begins(<<SendTask(c, w)>>)
    /\ UNCHANGED <<listed, opened, active, shown, failed>>

\* The composer is disabled while a turn is out; the suggestions of an empty
\* conversation are not.
Say ==
    /\ ~sending \/ shown = {}
    /\ IF active # NoConversation
       THEN Send(active, active)
       ELSE Begins(<<StartTask>>) /\ UNCHANGED windowVars

\* retry(): the words that failed go to the conversation that is active now.
Retry ==
    /\ error = "retry" /\ failed # NoWords /\ active # NoConversation
    /\ Send(active, failed)

ClearError ==
    /\ error # "none"
    /\ error' = "none" /\ failed' = NoWords
    /\ UNCHANGED <<storeVars, listed, opened, active, shown, sending>>

\* regenerate() and remove(), on a message that is shown.
Regenerate ==
    /\ active # NoConversation /\ \E e \in shown : e[2] = Reply
    /\ sending' = TRUE /\ error' = "none"
    /\ Begins(<<RegenerateTask(active)>>)
    /\ UNCHANGED <<listed, opened, active, shown, failed>>

Erase ==
    /\ active # NoConversation
    /\ \E e \in shown : Begins(<<EraseTask(active, e[2])>>)
    /\ UNCHANGED windowVars

Speak == Begins(<<RecordTask>>) /\ UNCHANGED windowVars

Person ==
    /\ Acts
    /\ \/ \E c \in Conversations : Select(c) \/ Rename(c) \/ Removes(c, "titles") \/ Removes(c, "deletes")
       \/ Create \/ Say \/ Retry \/ ClearError \/ Regenerate \/ Erase \/ Speak

-----------------------------------------------------------------------------
\* What the calls' answers do to the window.

\* The turn answers -- cancelled or not -- or rejects.
Thinks(t) ==
    /\ Due(t, "thinks")
    /\ \/ Goes(t, Rest(t))
       \/ Rejects(t)
    /\ UNCHANGED <<history, loaded, file, backups, unsaved, used, removed, windowVars>>

\* setConversations(): the first list decides what is opened, or created; App opens
\* one of the list whenever none is active.
ShowsList(t) ==
    /\ Due(t, "shows list")
    /\ listed' = {e[1] : e \in tasks[t].snap} /\ opened' = TRUE
    /\ LET begins(new) == Room(With(tasks, t, Rest(t)), new) /\ tasks' = Launch(With(tasks, t, Rest(t)), new)
       IN IF active = NoConversation /\ listed' # {}
          THEN \E c \in listed' : active' = c /\ begins(Opening(c))
          ELSE UNCHANGED active /\ begins(IF ~opened /\ listed' = {} THEN <<CreateTask>> ELSE <<>>)
    /\ UNCHANGED <<history, loaded, file, backups, unsaved, used, removed, shown, sending, error, failed>>

\* setActiveId() with the conversation just created.
Opens(t) ==
    /\ Due(t, "opens")
    /\ active' = tasks[t].conv
    /\ LET ts == [With(tasks, t, Rest(t)) EXCEPT ![t] = IF @ = Idle THEN @ ELSE [@ EXCEPT !.word = tasks[t].conv]]
           new == IF active' = active THEN <<>> ELSE Opening(active')
       IN Room(ts, new) /\ tasks' = Launch(ts, new)
    /\ UNCHANGED <<history, loaded, file, backups, unsaved, used, removed,
                   listed, opened, shown, sending, error, failed>>

\* setMessages(), whichever conversation is active by now.
Shows(t) ==
    /\ Due(t, "shows")
    /\ shown' = tasks[t].snap
    /\ tasks' = [With(tasks, t, Rest(t)) EXCEPT ![t].snap = {}]
    /\ UNCHANGED <<history, loaded, file, backups, unsaved, used, removed,
                   listed, opened, active, sending, error, failed>>

\* sendMessage() has resolved.
Sent(t) ==
    /\ Due(t, "sent")
    /\ failed' = NoWords
    /\ Goes(t, Rest(t))
    /\ UNCHANGED <<history, loaded, file, backups, unsaved, used, removed,
                   listed, opened, active, shown, sending, error>>

\* The catch of send() and regenerate(): sanitizeUserFacingError() says whether the
\* person may try again.
Catches(t) ==
    /\ Due(t, "catches")
    /\ \E again \in {"final", "retry"} :
         /\ error' = again
         /\ failed' = IF tasks[t].kind = "regenerate" THEN failed
                      ELSE IF again = "retry" THEN tasks[t].word ELSE NoWords
    /\ tasks' = [tasks EXCEPT ![t].todo = Fetched \o <<"ends">>, ![t].kind = "caught"]
    /\ UNCHANGED <<history, loaded, file, backups, unsaved, used, removed,
                   listed, opened, active, shown, sending>>

\* and their finally.
Ends(t) ==
    /\ Due(t, "ends")
    /\ sending' = FALSE
    /\ Goes(t, Rest(t))
    /\ UNCHANGED <<history, loaded, file, backups, unsaved, used, removed,
                   listed, opened, active, shown, error, failed>>

\* conversation:updated: the list is fetched again, and the messages of the
\* conversation if it is the active one.
Tells(t) ==
    /\ Due(t, "tells")
    /\ LET new == <<ListTask>> \o (IF tasks[t].conv = active THEN Opening(active) ELSE <<>>)
       IN Room(With(tasks, t, <<>>), new) /\ tasks' = Launch(With(tasks, t, <<>>), new)
    /\ UNCHANGED <<history, loaded, file, backups, unsaved, used, removed, windowVars>>

Answers == \E t \in Tasks :
    /\ \/ Thinks(t) \/ ShowsList(t) \/ Opens(t) \/ Shows(t) \/ Sent(t) \/ Catches(t) \/ Ends(t) \/ Tells(t)
       \/ StoreStep(t) /\ UNCHANGED windowVars
    /\ UNCHANGED <<acts, restarts>>

Restart ==
    /\ restarts < MaxRestarts /\ restarts' = restarts + 1
    /\ StoreRestarts /\ UNCHANGED acts
    /\ tasks' = Launch(Start, <<ListTask>>)
    /\ listed' = {} /\ opened' = FALSE /\ active' = NoConversation /\ shown' = {}
    /\ sending' = FALSE /\ error' = "none" /\ failed' = NoWords

\* Nothing is under way: the window waits for the person.
Rested == (\A t \in Tasks : tasks[t] = Idle) /\ UNCHANGED chatVars

ChatNext == Person \/ Answers \/ Restart \/ Rested

\* Calls of the store, and turns, come to an end.
ChatSpec == ChatInit /\ [][ChatNext]_chatVars /\ WF_chatVars(Answers)

-----------------------------------------------------------------------------
\* PROPERTIES

\* Whatever fails on the way -- the turn, the file, the conversation that is gone --
\* the composer is given back to the person.
SendingEnds == sending ~> ~sending

\* What is kept in a conversation as said by the person was typed there.
WordsStayWhereTheyWereTyped == \A e \in history : e[2] \in Conversations => e[2] = e[1]

==============================================================================
