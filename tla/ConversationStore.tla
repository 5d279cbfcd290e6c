-------------------------- MODULE ConversationStore --------------------------
(***************************************************************************)
(* ConversationStore of electron/conversation-store.ts: the conversations  *)
(* in memory, loaded by whichever call comes first, and the file that each *)
(* change rewrites by way of a temporary file.  Nothing puts the calls, or *)
(* the writes of the file, in an order.                                    *)
(*                                                                         *)
(* A state of the store is a set of entries: a conversation with NoWords   *)
(* stands for the conversation itself, and with anything else for a        *)
(* message in it.  Titles, the archived flag and the order of the entries  *)
(* are left out.  Whoever calls the store does so as one of the Tasks,     *)
(* which carries what is still to be done, step by step.                   *)
(***************************************************************************)
EXTENDS Naturals, Sequences, FiniteSets

CONSTANTS
    Conversations,   \* ids
    Words, Reply,    \* what a message can say; what the assistant says
    NoWords,
    NoConversation,
    Earlier,         \* the conversations of earlier runs of the app
    Tasks            \* slots for calls that are in progress at once

ASSUME ConversationAssumption ==
    NoWords \notin Words /\ Reply \in Words /\ NoConversation \notin Conversations /\ Earlier \subseteq Conversations

VARIABLES
    history,         \* the entries in memory
    loaded,          \* whether they have been loaded
    file,            \* [whole, entries]: conversations.json
    backups,         \* the entries of its backups
    unsaved,         \* whether making a backup has failed
    used, removed,   \* the ids given out so far, and those deleted
    tasks            \* [kind, conv, word, todo, snap] of each task

storeVars == <<history, loaded, file, backups, unsaved, used, removed, tasks>>

Idle == [kind |-> "idle", conv |-> NoConversation, word |-> NoWords, todo |-> <<>>, snap |-> {}]
Task(kind, c, w, todo) == [kind |-> kind, conv |-> c, word |-> w, todo |-> todo, snap |-> {}]

StoreInit ==
    /\ history = {} /\ loaded = FALSE
    /\ file = [whole |-> TRUE, entries |-> Earlier \X {NoWords}]
    /\ backups = {} /\ unsaved = FALSE
    /\ used = Earlier /\ removed = {}

Has(entries, c) == <<c, NoWords>> \in entries
Due(t, step) == tasks[t].todo # <<>> /\ Head(tasks[t].todo) = step
Rest(t) == Tail(tasks[t].todo)
With(ts, t, todo) == [ts EXCEPT ![t] = IF todo = <<>> THEN Idle ELSE [@ EXCEPT !.todo = todo]]
Goes(t, todo) == tasks' = With(tasks, t, todo)

-----------------------------------------------------------------------------
\* What a call makes of the entries, for the conversation and the words it names.

Creates(c, w, entries)  == entries \cup {<<c, NoWords>>}
Deletes(c, w, entries)  == {e \in entries : e[1] # c}
Appends(c, w, entries)  == entries \cup {<<c, w>>}
Erases(c, w, entries)   == entries \ {<<c, w>>}

Change(op, c, w, entries) ==
    CASE op \in {"creates", "finds"} -> Creates(c, w, entries)
      [] op = "deletes" -> Deletes(c, w, entries)
      [] op = "appends" -> Appends(c, w, entries)
      [] op = "replies" -> Appends(c, Reply, entries)
      [] op = "erases"  -> Erases(c, w, entries)
      [] OTHER          -> entries

\* requireConversation(): a call for what is not there rejects.
Refused(op, c, w, entries) ==
    \/ op \in {"deletes", "appends", "replies", "fetches", "titles", "erases"} /\ ~Has(entries, c)
    \/ op = "erases" /\ <<c, w>> \notin entries

\* What the two listing calls answer.
Listed(entries) == {e \in entries : e[2] = NoWords}
Messages(c, entries) == {e \in entries : e[1] = c /\ e[2] # NoWords}

Answer(op, c, entries) ==
    CASE op = "lists"   -> Listed(entries)
      [] op = "fetches" -> Messages(c, entries)
      [] OTHER          -> {}

\* randomUUID(): which of the unused ids does not matter.
NewId == IF Conversations \subseteq used THEN {} ELSE {CHOOSE c \in Conversations : c \notin used}

\* The conversation a call is for: getOrCreateByTitle() may find one.
Meant(t, op, entries) ==
    CASE op = "creates" -> NewId
      [] op = "finds"   -> {c \in Conversations : Has(entries, c)} \cup NewId
      [] OTHER          -> {tasks[t].conv}

\* Defect: nobody catches a rejection.
Unheard(t) == <<>>

\* A rejection reaches the one who sends or regenerates, once; the other calls
\* are not waited for.
Rejection(t) ==
    CASE tasks[t].kind \in {"send", "regenerate"} -> <<"catches">>
      [] tasks[t].kind = "caught"  -> <<"ends">>
      [] OTHER                     -> <<>>
Rejects(t) == Goes(t, Rejection(t))

\* The call does its work on the entries that ensureLoaded() has left it; what is
\* found needs no writing.
Performs(t, op, rest, entries) ==
    /\ loaded' = TRUE
    /\ \E c \in Meant(t, op, entries), w \in {tasks[t].word} :
         IF Refused(op, c, w, entries)
         THEN history' = entries /\ Rejects(t) /\ UNCHANGED <<used, removed>>
         ELSE /\ history' = Change(op, c, w, entries)
              /\ used' = used \cup ({c} \cap Conversations)
              /\ removed' = IF op = "deletes" THEN removed \cup {c} ELSE removed
              /\ LET left == IF op = "finds" /\ Has(entries, c) THEN Tail(Tail(rest)) ELSE rest
                 IN tasks' = [With(tasks, t, left) EXCEPT
                      ![t] = IF left = <<>> THEN @
                             ELSE [@ EXCEPT !.conv = c, !.snap = Answer(op, c, entries)]]

StoreOps == {"lists", "creates", "finds", "titles", "deletes", "appends", "replies", "fetches", "erases"}

\* A call of the store: the first calls find it empty and each begin to read the file.
Calls(t) ==
    \E op \in StoreOps :
      /\ Due(t, op)
      /\ IF loaded
         THEN Performs(t, op, Rest(t), history)
         ELSE Goes(t, <<"reads">> \o tasks[t].todo) /\ UNCHANGED <<history, loaded, used, removed>>
      /\ UNCHANGED <<file, backups, unsaved>>

\* ensureLoaded(): the file has been read, whatever has been done meanwhile to the
\* entries in memory, or is no JSON, or the system refuses it for the moment.
Reads(t) ==
    /\ Due(t, "reads")
    /\ \/ file.whole /\ Performs(t, Rest(t)[1], Tail(Rest(t)), file.entries)
       \/ Goes(t, <<"copies">> \o Rest(t)) /\ UNCHANGED <<history, loaded, used, removed>>
    /\ UNCHANGED <<file, backups, unsaved>>

\* The file that cannot be read is copied, or cannot be, and the store starts empty.
Copies(t) ==
    /\ Due(t, "copies")
    /\ \/ backups' = backups \cup (IF file.whole THEN file.entries ELSE {}) /\ UNCHANGED unsaved
       \/ unsaved' = TRUE /\ UNCHANGED backups
    /\ Performs(t, Rest(t)[1], Tail(Rest(t)), {})
    /\ UNCHANGED file

\* persist(): the entries go to a temporary file,
Writes(t) ==
    /\ Due(t, "writes")
    /\ \/ tasks' = [tasks EXCEPT ![t].todo = Rest(t), ![t].snap = history]
       \/ Rejects(t)
    /\ UNCHANGED <<history, loaded, file, backups, unsaved, used, removed>>

\* Defect: the file is written where it is.
RewritesFile(snapshot) ==
    \/ file' = [whole |-> FALSE, entries |-> {}]
    \/ file' = [whole |-> TRUE, entries |-> snapshot]

\* which takes the place of the file.
ReplacesFile(snapshot) == file' = [whole |-> TRUE, entries |-> snapshot]

Renames(t) ==
    /\ Due(t, "renames")
    /\ \/ /\ ReplacesFile(tasks[t].snap)
          /\ tasks' = [With(tasks, t, Rest(t)) EXCEPT ![t].snap = {}]
       \/ Rejects(t) /\ UNCHANGED file
    /\ UNCHANGED <<history, loaded, backups, unsaved, used, removed>>

StoreStep(t) == Calls(t) \/ Reads(t) \/ Copies(t) \/ Writes(t) \/ Renames(t)

\* The app ends at any moment, and starts again.
StoreRestarts ==
    /\ history' = {} /\ loaded' = FALSE
    /\ UNCHANGED <<file, backups, unsaved, used, removed>>

-----------------------------------------------------------------------------
\* PROPERTIES

\* A conversation of an earlier run is in the file until it is deleted, through
\* crashes at any step, files that cannot be read, calls that overlap before the
\* first load is done, and writes that finish in any order: at the least it is in
\* a backup -- unless the copy that makes one has failed as well.
HistoryIsKept ==
    \A c \in Earlier : Has(file.entries, c) \/ c \in removed \/ Has(backups, c) \/ unsaved

==============================================================================
