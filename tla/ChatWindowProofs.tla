-------------------------- MODULE ChatWindowProofs --------------------------
(***************************************************************************)
(* The conversations of earlier runs are kept, for any conversations,      *)
(* words and tasks, any number of restarts and whatever the person does:   *)
(* the history in the file, in memory and in every snapshot that is being  *)
(* written lacks only what was deleted, what a backup has, or what could   *)
(* not be backed up.                                                       *)
(***************************************************************************)
EXTENDS ChatWindow, FiniteSetTheorems, SequenceTheorems, TLAPS

-----------------------------------------------------------------------------
(* What a task has to do. *)

Changing == {"creates", "finds", "titles", "deletes", "appends", "replies", "erases"}
Ops ==
  {"lists", "creates", "finds", "titles", "deletes", "appends", "replies", "fetches", "erases",
   "reads", "copies", "writes", "renames", "thinks", "sent", "shows list", "shows", "opens",
   "tells", "catches", "ends"}

\* What may come after what: the file is written after a change, renamed after
\* it was written, and what is shown was fetched.
Follows(a, b) ==
  /\ b = "writes" => a \in Changing
  /\ b = "renames" => a = "writes"
  /\ b = "shows" => a = "fetches"
  /\ b \notin {"reads", "copies"}
  /\ a \in {"reads", "copies"} => b \in StoreOps
  /\ a = "finds" => b = "writes"
  /\ a = "writes" => b = "renames"

Chain(s) == \A n \in 1..(Len(s) - 1) : Follows(s[n], s[n + 1])
Lacks(s, x) == \A n \in 1..Len(s) : s[n] # x
Script(s) ==
  /\ s \in Seq(Ops) /\ Chain(s)
  /\ s # <<>> => s[Len(s)] \notin {"finds", "writes", "reads", "copies"}

\* What is true of the entries of the memory and of the file, and of a snapshot
\* that is being written, whatever was deleted and saved elsewhere.
Kept(entries, gone, saved, lost) ==
  \A c \in Earlier : Has(entries, c) \/ c \in gone \/ Has(saved, c) \/ lost

Fields(x) == x = [kind |-> x.kind, conv |-> x.conv, word |-> x.word, todo |-> x.todo, snap |-> x.snap]

\* A task erases words, and never a conversation.
ErasesWords(x) == Lacks(x.todo, "erases") \/ (Lacks(x.todo, "opens") /\ x.word # NoWords)

\* What a task may rely on when it comes to its next step.
Expects(x, entries, l, gone, saved, lost) ==
  x.todo # <<>> =>
    /\ x.todo[1] = "writes" => l
    /\ x.todo[1] = "renames" => Kept(entries, gone, saved, lost)
    /\ x.todo[1] = "shows" => \A e \in entries : e[2] # NoWords

GoodTask(x, l, gone, saved, lost) ==
  Fields(x) /\ Script(x.todo) /\ ErasesWords(x) /\ Expects(x, x.snap, l, gone, saved, lost)

GoodTasks(ts, l, gone, saved, lost) ==
  ts = [t \in Tasks |-> ts[t]] /\ \A t \in Tasks : GoodTask(ts[t], l, gone, saved, lost)

\* HistoryIsKept says nothing of what is still to be written: the entries in
\* memory, once they are loaded, and the snapshots must keep the history too.
HistoryInv ==
  /\ file.whole /\ Kept(file.entries, removed, backups, unsaved)
  /\ loaded => Kept(history, removed, backups, unsaved)
  /\ \A e \in shown : e[2] # NoWords
  /\ GoodTasks(tasks, loaded, removed, backups, unsaved)

-----------------------------------------------------------------------------
(* The scripts of the calls.                                               *)

\* A part of a script, from its first step to its last.
Part(s, a, z) == s \in Seq(Ops) /\ s # <<>> /\ s[1] = a /\ s[Len(s)] = z /\ Chain(s)

LEMMA PartsJoin ==
  ASSUME NEW s, NEW a, NEW b, NEW t, NEW c, NEW z, Part(s, a, b), Part(t, c, z), Follows(b, c)
  PROVE  Part(s \o t, a, z)
<1>0. s \in Seq(Ops) /\ t \in Seq(Ops) /\ s # <<>> /\ t # <<>> /\ Chain(s) /\ Chain(t)
      /\ s[1] = a /\ s[Len(s)] = b /\ t[1] = c /\ t[Len(t)] = z
  BY DEF Part
<1>1. Len(s) \in Nat \ {0} /\ Len(t) \in Nat \ {0}
  BY <1>0
<1>2. /\ s \o t \in Seq(Ops) /\ Len(s \o t) = Len(s) + Len(t)
      /\ \A n \in 1..(Len(s) + Len(t)) : (s \o t)[n] = IF n <= Len(s) THEN s[n] ELSE t[n - Len(s)]
  BY <1>0, ConcatProperties
<1>3. s \o t # <<>>
  <2>1. Len(s \o t) # 0
    BY <1>1, <1>2
  <2> QED
    BY <2>1
<1>4. (s \o t)[1] = a /\ (s \o t)[Len(s \o t)] = z
  BY <1>0, <1>1, <1>2
<1>5. ASSUME NEW n \in 1..(Len(s \o t) - 1)
      PROVE  Follows((s \o t)[n], (s \o t)[n + 1])
  <2>1. CASE n < Len(s)
    <3>1. n \in 1..(Len(s) - 1) /\ (s \o t)[n] = s[n] /\ (s \o t)[n + 1] = s[n + 1]
      BY <1>1, <1>2, <2>1
    <3> QED
      BY <1>0, <3>1 DEF Chain
  <2>2. CASE n = Len(s)
    <3>1. (s \o t)[n] = b /\ (s \o t)[n + 1] = c
      BY <1>0, <1>1, <1>2, <2>2
    <3> QED
      BY <3>1
  <2>3. CASE n > Len(s)
    <3> DEFINE m == n - Len(s)
    <3>1. m \in 1..(Len(t) - 1) /\ (s \o t)[n] = t[m] /\ (s \o t)[n + 1] = t[m + 1]
      BY <1>1, <1>2, <2>3
    <3> QED
      BY <1>0, <3>1 DEF Chain
  <2> QED
    BY <1>1, <2>1, <2>2, <2>3
<1> QED
  BY <1>2, <1>3, <1>4, <1>5 DEF Part, Chain

LEMMA JoinLacks ==
  ASSUME NEW s \in Seq(Ops), NEW t \in Seq(Ops), NEW x, Lacks(s, x), Lacks(t, x)
  PROVE  Lacks(s \o t, x)
BY DEF Lacks

\* The parts that the scripts are made of.
LEMMA SingleParts ==
  \A a \in Ops : Part(<<a>>, a, a) /\ <<a>> \in Seq(Ops) /\ \A x : x # a => Lacks(<<a>>, x)
BY DEF Part, Chain, Lacks

LEMMA PairParts ==
  ASSUME NEW a \in Ops, NEW b \in Ops, Follows(a, b), NEW x \in {"erases", "opens"}, x # a, x # b
  PROVE  Part(<<a, b>>, a, b) /\ Lacks(<<a, b>>, x)
BY DEF Part, Chain, Lacks

\* A part without some step.
Bit(x, s, a, z) == Part(s, a, z) /\ Lacks(s, x)

LEMMA BitsJoin ==
  ASSUME NEW x, NEW s, NEW a, NEW b, NEW t, NEW c, NEW z, Bit(x, s, a, b), Bit(x, t, c, z), Follows(b, c)
  PROVE  Bit(x, s \o t, a, z)
<1>1. s \in Seq(Ops) /\ t \in Seq(Ops) /\ Part(s, a, b) /\ Part(t, c, z) /\ Lacks(s, x) /\ Lacks(t, x)
  BY DEF Bit, Part
<1> QED
  BY <1>1, PartsJoin, JoinLacks DEF Bit

LEMMA Bits ==
  /\ \A x \in {"erases", "opens"} :
       /\ \A a \in Ops \ {x} : Bit(x, <<a>>, a, a)
       /\ Bit(x, Saved, "writes", "renames")
       /\ Bit(x, ListAgain, "lists", "shows list")
       /\ Bit(x, Fetched, "fetches", "shows")
       /\ Bit(x, <<"thinks", "replies">>, "thinks", "replies")
<1>1. ASSUME NEW x \in {"erases", "opens"}
      PROVE  /\ \A a \in Ops \ {x} : Bit(x, <<a>>, a, a)
             /\ Bit(x, Saved, "writes", "renames")
             /\ Bit(x, ListAgain, "lists", "shows list")
             /\ Bit(x, Fetched, "fetches", "shows")
             /\ Bit(x, <<"thinks", "replies">>, "thinks", "replies")
  <2>1. \A a \in Ops \ {x} : Bit(x, <<a>>, a, a)
    BY SingleParts DEF Bit
  <2>2. Follows("writes", "renames") /\ Follows("lists", "shows list") /\ Follows("fetches", "shows")
        /\ Follows("thinks", "replies")
    BY DEF Follows
  <2>3. Bit(x, Saved, "writes", "renames")
    <3>1. Part(<<"writes", "renames">>, "writes", "renames") /\ Lacks(<<"writes", "renames">>, x)
      BY <2>2, PairParts DEF Ops
    <3> QED
      BY <3>1 DEF Bit, Saved
  <2>4. Bit(x, ListAgain, "lists", "shows list")
    <3>1. Part(<<"lists", "shows list">>, "lists", "shows list") /\ Lacks(<<"lists", "shows list">>, x)
      BY <2>2, PairParts DEF Ops
    <3> QED
      BY <3>1 DEF Bit, ListAgain
  <2>5. Bit(x, Fetched, "fetches", "shows")
    <3>1. Part(<<"fetches", "shows">>, "fetches", "shows") /\ Lacks(<<"fetches", "shows">>, x)
      BY <2>2, PairParts DEF Ops
    <3> QED
      BY <3>1 DEF Bit, Fetched
  <2>6. Bit(x, <<"thinks", "replies">>, "thinks", "replies")
    <3>1. Part(<<"thinks", "replies">>, "thinks", "replies") /\ Lacks(<<"thinks", "replies">>, x)
      BY <2>2, PairParts DEF Ops
    <3> QED
      BY <3>1 DEF Bit
  <2> QED
    BY <2>1, <2>3, <2>4, <2>5, <2>6
<1> QED
  BY <1>1

\* One step, and what it changed is saved.
LEMMA SavedAfter ==
  ASSUME NEW x \in {"erases", "opens"}, NEW s, NEW a, NEW z \in Changing, Bit(x, s, a, z)
  PROVE  Bit(x, s \o Saved, a, "renames")
<1>1. Follows(z, "writes")
  BY DEF Follows, Changing
<1> QED
  BY <1>1, Bits, BitsJoin

\* Whatever is saved, something else comes next.
LEMMA AfterSaved ==
  ASSUME NEW x \in {"erases", "opens"}, NEW s, NEW a, NEW t, NEW b, NEW z,
         Bit(x, s, a, "renames"), Bit(x, t, b, z),
         b \in {"lists", "thinks", "appends", "replies", "fetches", "sent", "tells"}
  PROVE  Bit(x, s \o t, a, z)
<1>1. Follows("renames", b)
  BY DEF Follows
<1> QED
  BY <1>1, BitsJoin

LEMMA TurnIs ==
  \A x \in {"erases", "opens"} : Bit(x, Turn, "appends", "renames")
<1>1. ASSUME NEW x \in {"erases", "opens"}
      PROVE  Bit(x, Turn, "appends", "renames")
  <2>1. Bit(x, <<"appends">>, "appends", "appends") /\ Bit(x, <<"thinks", "replies">>, "thinks", "replies")
    BY Bits DEF Ops
  <2>2. Bit(x, <<"appends">> \o Saved, "appends", "renames")
    BY <2>1, SavedAfter DEF Changing
  <2>3. Bit(x, <<"appends">> \o Saved \o <<"thinks", "replies">>, "appends", "replies")
    BY <2>1, <2>2, AfterSaved
  <2> QED
    BY <2>3, SavedAfter DEF Changing, Turn
<1> QED
  BY <1>1

\* What a task is started with.
Fresh(x) ==
  /\ Fields(x) /\ Script(x.todo) /\ ErasesWords(x)
  /\ x.todo # <<>> => x.todo[1] \notin {"writes", "renames", "shows"}

LEMMA TaskIsFresh ==
  ASSUME NEW kind, NEW c, NEW w, NEW s, NEW a, NEW z, Part(s, a, z),
         a \notin {"writes", "renames", "shows"}, z \notin {"finds", "writes", "reads", "copies"},
         Lacks(s, "erases") \/ (Lacks(s, "opens") /\ w # NoWords)
  PROVE  Fresh(Task(kind, c, w, s))
<1>1. Task(kind, c, w, s).todo = s /\ Task(kind, c, w, s).word = w /\ Fields(Task(kind, c, w, s))
  BY DEF Task, Fields
<1> QED
  BY <1>1 DEF Fresh, Script, Part, ErasesWords

\* Words are known to be words.
LEMMA WordsAreWords == Reply # NoWords /\ \A c \in Conversations : c # NoWords
BY ConversationAssumption, ChatAssumption

LEMMA QuietTasksAreFresh ==
  /\ Fresh(Idle) /\ Fresh(ListTask) /\ Fresh(CreateTask)
  /\ \A c : Fresh(FetchTask(c))
<1>1. Fresh(Idle)
  BY DEF Idle, Fresh, Fields, Script, Chain, ErasesWords, Lacks
<1>2. Bit("erases", ListAgain, "lists", "shows list")
  BY Bits
<1>3. Fresh(ListTask)
  <2>1. ListTask = Task("list", NoConversation, NoWords, ListAgain)
    BY DEF ListTask, ListAgain
  <2> QED
    BY <1>2, <2>1, TaskIsFresh DEF Bit
<1>4. Bit("erases", <<"creates">> \o Saved \o ListAgain \o <<"opens">>, "creates", "opens")
  <2>1. Bit("erases", <<"creates">>, "creates", "creates") /\ Bit("erases", <<"opens">>, "opens", "opens")
        /\ Bit("erases", ListAgain, "lists", "shows list")
    BY Bits DEF Ops
  <2>2. Bit("erases", <<"creates">> \o Saved, "creates", "renames")
    BY <2>1, SavedAfter DEF Changing
  <2>3. Bit("erases", <<"creates">> \o Saved \o ListAgain, "creates", "shows list")
    BY <2>1, <2>2, AfterSaved
  <2>4. Follows("shows list", "opens")
    BY DEF Follows
  <2> QED
    BY <2>1, <2>3, <2>4, BitsJoin
<1>5. Fresh(CreateTask)
  BY <1>4, TaskIsFresh DEF CreateTask, Bit
<1>6. Bit("erases", Fetched, "fetches", "shows")
  BY Bits
<1>7. \A c : Fresh(FetchTask(c))
  BY <1>6, TaskIsFresh DEF FetchTask, Bit
<1> QED
  BY <1>1, <1>3, <1>5, <1>7

\* The person begins to send, to change a conversation, or to speak.
LEMMA BusyTasksAreFresh ==
  /\ \A c, w : Fresh(SendTask(c, w))
  /\ \A c : Fresh(ChangeTask(c, "titles")) /\ Fresh(ChangeTask(c, "deletes"))
  /\ Fresh(StartTask) /\ Fresh(RecordTask)
<1> DEFINE e == "erases"
<1>0. /\ \A a \in Ops \ {e} : Bit(e, <<a>>, a, a)
      /\ Bit(e, ListAgain, "lists", "shows list") /\ Bit(e, Fetched, "fetches", "shows")
      /\ Bit(e, Turn, "appends", "renames") /\ e \in {"erases", "opens"}
  BY Bits, TurnIs
<1>1. Bit(e, Turn \o <<"sent">> \o Fetched \o <<"ends">>, "appends", "ends")
  <2>1. Bit(e, <<"sent">>, "sent", "sent") /\ Bit(e, <<"ends">>, "ends", "ends")
    BY <1>0 DEF Ops
  <2>2. Bit(e, Turn \o <<"sent">>, "appends", "sent")
    BY <1>0, <2>1, AfterSaved
  <2>3. Follows("sent", "fetches") /\ Follows("shows", "ends")
    BY DEF Follows
  <2>4. Bit(e, Turn \o <<"sent">> \o Fetched, "appends", "shows")
    BY <1>0, <2>2, <2>3, BitsJoin
  <2> QED
    BY <2>1, <2>3, <2>4, BitsJoin
<1>2. \A c, w : Fresh(SendTask(c, w))
  BY <1>1, TaskIsFresh DEF SendTask, Bit
<1>3. ASSUME NEW op \in {"titles", "deletes"}
      PROVE  Bit(e, <<op>> \o Saved \o ListAgain, op, "shows list")
  <2>1. Bit(e, <<op>>, op, op) /\ op \in Changing
    BY <1>0 DEF Ops, Changing
  <2>2. Bit(e, <<op>> \o Saved, op, "renames")
    BY <1>0, <2>1, SavedAfter
  <2> QED
    BY <1>0, <2>2, AfterSaved
<1>4. ASSUME NEW c, NEW op \in {"titles", "deletes"}
      PROVE  Fresh(ChangeTask(c, op))
  <2> DEFINE s == <<op>> \o Saved \o ListAgain
  <2>1. Part(s, op, "shows list") /\ Lacks(s, "erases")
    BY <1>3 DEF Bit
  <2>2. ChangeTask(c, op) = Task("change", c, NoWords, s)
    BY DEF ChangeTask
  <2>3. op \notin {"writes", "renames", "shows"}
    OBVIOUS
  <2> HIDE DEF s
  <2> QED
    BY <2>1, <2>2, <2>3, TaskIsFresh
<1>5. Fresh(StartTask)
  <2>1. Bit(e, <<"creates">>, "creates", "creates") /\ Bit(e, <<"opens">>, "opens", "opens")
    BY <1>0 DEF Ops
  <2>2. Bit(e, <<"creates">> \o Saved, "creates", "renames")
    BY <2>1, <1>0, SavedAfter DEF Changing
  <2>3. Bit(e, <<"creates">> \o Saved \o ListAgain, "creates", "shows list")
    BY <1>0, <2>2, AfterSaved
  <2>4. Follows("shows list", "opens") /\ Follows("opens", "appends")
    BY DEF Follows
  <2>5. Bit(e, <<"creates">> \o Saved \o ListAgain \o <<"opens">>, "creates", "opens")
    BY <2>1, <2>3, <2>4, BitsJoin
  <2>6. Bit(e, <<"creates">> \o Saved \o ListAgain \o <<"opens">> \o Turn, "creates", "renames")
    BY <1>0, <2>4, <2>5, BitsJoin
  <2> QED
    BY <2>6, TaskIsFresh DEF StartTask, Bit
<1>6. Fresh(RecordTask)
  <2>1. /\ Bit(e, <<"finds">>, "finds", "finds") /\ Bit(e, <<"appends">>, "appends", "appends")
        /\ Bit(e, <<"replies">>, "replies", "replies") /\ Bit(e, <<"tells">>, "tells", "tells")
    BY <1>0 DEF Ops
  <2>2. Bit(e, <<"finds">> \o Saved, "finds", "renames")
    BY <1>0, <2>1, SavedAfter DEF Changing
  <2>3. Bit(e, <<"finds">> \o Saved \o <<"appends">>, "finds", "appends")
    BY <1>0, <2>1, <2>2, AfterSaved
  <2>4. Bit(e, <<"finds">> \o Saved \o <<"appends">> \o Saved, "finds", "renames")
    BY <1>0, <2>3, SavedAfter DEF Changing
  <2>5. Bit(e, <<"finds">> \o Saved \o <<"appends">> \o Saved \o <<"replies">>, "finds", "replies")
    BY <1>0, <2>1, <2>4, AfterSaved
  <2>6. Bit(e, <<"finds">> \o Saved \o <<"appends">> \o Saved \o <<"replies">> \o Saved, "finds", "renames")
    BY <1>0, <2>5, SavedAfter DEF Changing
  <2>7. Bit(e, <<"finds">> \o Saved \o <<"appends">> \o Saved \o <<"replies">> \o Saved \o <<"tells">>, "finds", "tells")
    BY <1>0, <2>1, <2>6, AfterSaved
  <2> QED
    BY <2>7, TaskIsFresh DEF RecordTask, Bit
<1> QED
  BY <1>2, <1>4, <1>5, <1>6

\* What erases opens nothing, and erases words.
LEMMA ErasingTasksAreFresh ==
  /\ \A c : Fresh(RegenerateTask(c))
  /\ \A c, w : w # NoWords => Fresh(EraseTask(c, w))
<1> DEFINE o == "opens"
<1>0. /\ \A a \in Ops \ {o} : Bit(o, <<a>>, a, a)
      /\ Bit(o, Fetched, "fetches", "shows") /\ o \in {"erases", "opens"}
      /\ Bit(o, <<"thinks", "replies">>, "thinks", "replies")
  BY Bits
<1>1. Bit(o, <<"erases">> \o Saved, "erases", "renames")
  <2>1. Bit(o, <<"erases">>, "erases", "erases")
    BY <1>0 DEF Ops
  <2> QED
    BY <2>1, <1>0, SavedAfter DEF Changing
<1>2. Bit(o, <<"erases">> \o Saved \o Fetched, "erases", "shows")
  BY <1>0, <1>1, AfterSaved
<1>3. \A c, w : w # NoWords => Fresh(EraseTask(c, w))
  BY <1>2, TaskIsFresh DEF EraseTask, Bit
<1>4. Bit(o, <<"erases">> \o Saved \o <<"thinks", "replies">>, "erases", "replies")
  BY <1>0, <1>1, AfterSaved
<1>5. Bit(o, <<"erases">> \o Saved \o <<"thinks", "replies">> \o Saved, "erases", "renames")
  BY <1>0, <1>4, SavedAfter DEF Changing
<1>6. Bit(o, <<"erases">> \o Saved \o <<"thinks", "replies">> \o Saved \o Fetched, "erases", "shows")
  BY <1>0, <1>5, AfterSaved
<1>7. Bit(o, <<"erases">> \o Saved \o <<"thinks", "replies">> \o Saved \o Fetched \o <<"ends">>, "erases", "ends")
  <2>1. Follows("shows", "ends") /\ Bit(o, <<"ends">>, "ends", "ends")
    BY <1>0 DEF Follows, Ops
  <2> QED
    BY <1>6, <2>1, BitsJoin
<1>8. \A c : Fresh(RegenerateTask(c))
  BY <1>7, WordsAreWords, TaskIsFresh DEF RegenerateTask, Bit
<1> QED
  BY <1>3, <1>8

-----------------------------------------------------------------------------
(* Tasks begin, and go on.                                                 *)

\* A task that has just been started expects nothing.
LEMMA FreshIsGood ==
  ASSUME NEW x, Fresh(x), NEW l, NEW gone, NEW saved, NEW lost
  PROVE  GoodTask(x, l, gone, saved, lost)
BY DEF Fresh, GoodTask, Expects

\* What is expected remains true while more is loaded, deleted or saved.
LEMMA TasksStay ==
  ASSUME NEW ts, NEW l, NEW gone, NEW saved, NEW lost, GoodTasks(ts, l, gone, saved, lost),
         NEW l2, NEW gone2, NEW saved2, NEW lost2,
         l => l2, gone \subseteq gone2, saved \subseteq saved2, lost => lost2
  PROVE  GoodTasks(ts, l2, gone2, saved2, lost2)
<1>1. \A entries : Kept(entries, gone, saved, lost) => Kept(entries, gone2, saved2, lost2)
  BY DEF Kept, Has
<1>2. \A t \in Tasks : Expects(ts[t], ts[t].snap, l2, gone2, saved2, lost2)
  BY <1>1 DEF GoodTasks, GoodTask, Expects
<1> QED
  BY <1>2 DEF GoodTasks, GoodTask

LEMMA OneTask ==
  ASSUME NEW ts, NEW l, NEW gone, NEW saved, NEW lost, GoodTasks(ts, l, gone, saved, lost),
         NEW t \in Tasks, NEW x, GoodTask(x, l, gone, saved, lost)
  PROVE  GoodTasks([ts EXCEPT ![t] = x], l, gone, saved, lost)
<1>1. ts = [u \in Tasks |-> ts[u]]
  BY DEF GoodTasks
<1> DEFINE ts2 == [ts EXCEPT ![t] = x]
<1>2. ts2 = [u \in Tasks |-> ts2[u]] /\ ts2[t] = x /\ \A u \in Tasks \ {t} : ts2[u] = ts[u]
  BY <1>1
<1> HIDE DEF ts2
<1>3. \A u \in Tasks : GoodTask(ts2[u], l, gone, saved, lost)
  BY <1>2 DEF GoodTasks
<1>4. GoodTasks(ts2, l, gone, saved, lost)
  BY <1>2, <1>3 DEF GoodTasks
<1> QED
  BY <1>4 DEF ts2

Starts(new) == Len(new) \in Nat /\ \A i \in 1..Len(new) : Fresh(new[i])

LEMMA StartsOf ==
  /\ Starts(<<>>)
  /\ \A x : Fresh(x) => Starts(<<x>>)
  /\ \A c : Starts(Opening(c))
  /\ \A x, c : Fresh(x) => Starts(<<x>> \o Opening(c))
<1>1. Starts(<<>>) /\ \A x : Fresh(x) => Starts(<<x>>)
  BY DEF Starts
<1>2. \A c : Starts(Opening(c))
  BY <1>1, QuietTasksAreFresh DEF Opening
<1>3. ASSUME NEW x, NEW c, Fresh(x)
      PROVE  Starts(<<x>> \o Opening(c))
  <2>1. CASE c = NoConversation
    <3>1. <<x>> \o Opening(c) = <<x>>
      BY <2>1 DEF Opening
    <3> QED
      BY <1>1, <1>3, <3>1
  <2>2. CASE c # NoConversation
    <3> DEFINE y == FetchTask(c)
    <3>1. Opening(c) = <<y>> /\ Fresh(y)
      BY <2>2, QuietTasksAreFresh DEF Opening
    <3> HIDE DEF y
    <3>2. <<x>> \o <<y>> = <<x, y>>
      <4> DEFINE p == <<x>>
                 q == <<y>>
      <4>1. /\ p \in Seq({x, y}) /\ q \in Seq({x, y}) /\ <<x, y>> \in Seq({x, y})
            /\ Len(p) = 1 /\ Len(q) = 1 /\ p[1] = x /\ q[1] = y
        OBVIOUS
      <4> HIDE DEF p, q
      <4>2. /\ p \o q \in Seq({x, y}) /\ Len(p \o q) = 2
            /\ \A i \in 1..2 : (p \o q)[i] = IF i <= 1 THEN p[i] ELSE q[i - 1]
        BY <4>1, ConcatProperties
      <4> DEFINE r == <<x, y>>
      <4>3. r \in Seq({x, y}) /\ Len(r) = 2 /\ r[1] = x /\ r[2] = y
        OBVIOUS
      <4> HIDE DEF r
      <4>4. \A i \in 1..2 : (p \o q)[i] = r[i]
        BY <4>1, <4>2, <4>3
      <4>5. p \o q = r
        BY <4>2, <4>3, <4>4, SeqEqual
      <4>6. p \o q = <<x, y>>
        BY <4>5 DEF r
      <4> QED
        BY <4>6 DEF p, q
    <3> QED
      BY <1>3, <3>1, <3>2 DEF Starts
  <2> QED
    BY <2>1, <2>2
<1> QED
  BY <1>1, <1>2, <1>3

LEMMA LaunchKeeps ==
  ASSUME NEW ts, NEW l, NEW gone, NEW saved, NEW lost, GoodTasks(ts, l, gone, saved, lost),
         NEW new, Starts(new)
  PROVE  GoodTasks(Launch(ts, new), l, gone, saved, lost)
<1>1. ASSUME NEW t \in Tasks
      PROVE  GoodTask(Launch(ts, new)[t], l, gone, saved, lost)
  <2> DEFINE u == {v \in Free(ts) : v <= t}
             i == Cardinality(u)
  <2>1. t \in Free(ts) => i \in Nat \ {0}
    <3>1. u \in SUBSET Nat /\ t \in Nat /\ \A v \in u : v <= t
      BY ChatAssumption DEF Free
    <3>2. IsFiniteSet(u)
      <4> HIDE DEF u
      <4> QED
        BY <3>1, FS_BoundedSetOfNaturals
    <3>3. t \in Free(ts) => u # {}
      BY <3>1
    <3> HIDE DEF u
    <3> QED
      BY <3>2, <3>3, FS_CardinalityType, FS_EmptySet
  <2>2. Launch(ts, new)[t] = IF t \in Free(ts) /\ i <= Len(new) THEN new[i] ELSE ts[t]
    BY DEF Launch
  <2> HIDE DEF i
  <2>3. CASE t \in Free(ts) /\ i <= Len(new)
    <3>1. i \in 1..Len(new)
      BY <2>1, <2>3 DEF Starts
    <3>2. Fresh(new[i])
      BY <3>1 DEF Starts
    <3> QED
      BY <2>2, <2>3, <3>2, FreshIsGood
  <2>4. CASE ~(t \in Free(ts) /\ i <= Len(new))
    BY <2>2, <2>4 DEF GoodTasks
  <2> QED
    BY <2>3, <2>4
<1>2. Launch(ts, new) = [t \in Tasks |-> Launch(ts, new)[t]]
  BY DEF Launch
<1> QED
  BY <1>1, <1>2 DEF GoodTasks

\* A task gets another list, another snapshot, another conversation.
Left(x, s)  == [x EXCEPT !.todo = s]
Told(x, v)  == [x EXCEPT !.snap = v]
Named(x, c) == [x EXCEPT !.conv = c]
Saying(x, w) == [x EXCEPT !.word = w]
Caught(x) == [x EXCEPT !.kind = "caught"]

LEMMA TaskIsEdited ==
  ASSUME NEW x, Fields(x)
  PROVE  /\ \A s : Fields(Left(x, s)) /\ Left(x, s).todo = s /\ Left(x, s).word = x.word /\ Left(x, s).snap = x.snap
         /\ \A v : Fields(Told(x, v)) /\ Told(x, v).todo = x.todo /\ Told(x, v).word = x.word /\ Told(x, v).snap = v
         /\ \A c : Fields(Named(x, c)) /\ Named(x, c).todo = x.todo /\ Named(x, c).word = x.word
                   /\ Named(x, c).snap = x.snap
         /\ \A w : Fields(Saying(x, w)) /\ Saying(x, w).todo = x.todo /\ Saying(x, w).word = w
         /\ Fields(Caught(x)) /\ Caught(x).todo = x.todo /\ Caught(x).word = x.word
<1>1. PICK k, n, w0, t, p : x = [kind |-> k, conv |-> n, word |-> w0, todo |-> t, snap |-> p]
  BY DEF Fields
<1>2. ASSUME NEW s
      PROVE  Fields(Left(x, s)) /\ Left(x, s).todo = s /\ Left(x, s).word = x.word /\ Left(x, s).snap = x.snap
  BY <1>1 DEF Left, Fields
<1>3. ASSUME NEW v
      PROVE  Fields(Told(x, v)) /\ Told(x, v).todo = x.todo /\ Told(x, v).word = x.word /\ Told(x, v).snap = v
  BY <1>1 DEF Told, Fields
<1>4. ASSUME NEW c
      PROVE  /\ Fields(Named(x, c)) /\ Named(x, c).todo = x.todo /\ Named(x, c).word = x.word
             /\ Named(x, c).snap = x.snap
  BY <1>1 DEF Named, Fields
<1>5. ASSUME NEW w
      PROVE  Fields(Saying(x, w)) /\ Saying(x, w).todo = x.todo /\ Saying(x, w).word = w
  BY <1>1 DEF Saying, Fields
<1>6. Fields(Caught(x)) /\ Caught(x).todo = x.todo /\ Caught(x).word = x.word
  BY <1>1 DEF Caught, Fields
<1> QED
  BY <1>2, <1>3, <1>4, <1>5, <1>6

LEMMA RestOfScript ==
  ASSUME NEW s, Script(s), s # <<>>
  PROVE  /\ Script(Tail(s)) /\ s[1] = Head(s) /\ Head(s) \in Ops
         /\ Tail(s) # <<>> => Follows(Head(s), Tail(s)[1])
         /\ Tail(s) = <<>> => Head(s) \notin {"finds", "writes", "reads", "copies"}
         /\ \A x : Lacks(s, x) => Lacks(Tail(s), x) /\ Head(s) # x
<1>0. s \in Seq(Ops) /\ Len(s) \in Nat \ {0}
  BY DEF Script
<1>1. /\ Tail(s) \in Seq(Ops) /\ Len(Tail(s)) = Len(s) - 1 /\ Head(s) = s[1]
      /\ \A n \in 1..(Len(s) - 1) : Tail(s)[n] = s[n + 1]
  BY <1>0
<1>2. Chain(Tail(s))
  <2>1. ASSUME NEW n \in 1..(Len(Tail(s)) - 1)
        PROVE  Follows(Tail(s)[n], Tail(s)[n + 1])
    <3>1. Follows(s[n + 1], s[n + 2]) /\ Tail(s)[n] = s[n + 1] /\ Tail(s)[n + 1] = s[n + 2]
      BY <1>0, <1>1 DEF Script, Chain
    <3> QED
      BY <3>1
  <2> QED
    BY <2>1 DEF Chain
<1>3. Tail(s) # <<>> => Len(s) > 1
  BY <1>0, <1>1
<1>4. Tail(s) # <<>> => Follows(Head(s), Tail(s)[1])
  BY <1>0, <1>1, <1>3 DEF Script, Chain
<1>5. Tail(s) # <<>> => Tail(s)[Len(Tail(s))] = s[Len(s)]
  BY <1>0, <1>1, <1>3
<1>6. Tail(s) = <<>> => Len(s) = 1
  <2> DEFINE r == Tail(s)
  <2>1. Len(r) = Len(s) - 1
    BY <1>1
  <2> HIDE DEF r
  <2>2. r = <<>> => Len(s) = 1
    BY <1>0, <2>1
  <2> QED
    BY <2>2 DEF r
<1>7. Tail(s) = <<>> => Head(s) \notin {"finds", "writes", "reads", "copies"}
  BY <1>1, <1>6 DEF Script
<1>8. \A x : Lacks(s, x) => Lacks(Tail(s), x) /\ Head(s) # x
  BY <1>0, <1>1 DEF Lacks
<1>9. Head(s) \in Ops
  BY <1>0, <1>1
<1> QED
  BY <1>1, <1>2, <1>4, <1>5, <1>7, <1>8, <1>9 DEF Script

\* What a task does before it comes to what is left.
LEMMA BeforeScript ==
  ASSUME NEW a \in {"reads", "copies"}, NEW s, Script(s), s # <<>>, s[1] \in StoreOps
  PROVE  /\ Script(<<a>> \o s) /\ <<a>> \o s # <<>> /\ (<<a>> \o s)[1] = a
         /\ \A x \in {"erases", "opens"} : Lacks(s, x) => Lacks(<<a>> \o s, x)
<1> DEFINE t == <<a>> \o s
           z == s[Len(s)]
<1>1. Part(s, s[1], z) /\ z \notin {"finds", "writes", "reads", "copies"} /\ s \in Seq(Ops)
  BY DEF Script, Part
<1>2. Part(<<a>>, a, a) /\ <<a>> \in Seq(Ops) /\ Lacks(<<a>>, "erases") /\ Lacks(<<a>>, "opens")
  BY SingleParts DEF Ops
<1>3. Follows(a, s[1])
  BY DEF Follows, StoreOps
<1> HIDE DEF z
<1>4. Part(t, a, z)
  BY <1>1, <1>2, <1>3, PartsJoin
<1>5. \A x \in {"erases", "opens"} : Lacks(s, x) => Lacks(t, x)
  BY <1>1, <1>2, JoinLacks
<1> HIDE DEF t
<1>6. Script(t) /\ t # <<>> /\ t[1] = a
  BY <1>1, <1>4 DEF Part, Script
<1> QED
  BY <1>5, <1>6 DEF t

\* A task that has something left to do, or is done.
LeftWith(x, s) == IF s = <<>> THEN Idle ELSE Left(x, s)

\* Most of what a task is left with expects nothing.
LEMMA LeftIsFresh ==
  ASSUME NEW x, Fields(x), NEW s, Script(s),
         Lacks(s, "erases") \/ (Lacks(s, "opens") /\ x.word # NoWords),
         s # <<>> => s[1] \notin {"writes", "renames", "shows"}
  PROVE  /\ Fresh(LeftWith(x, s)) /\ Fresh(Left(x, s))
         /\ \A v : Fresh(Told(LeftWith(x, s), v)) /\ Fresh(Told(Left(x, s), v))
         /\ \A c, v : Fresh(Told(Named(Left(x, s), c), v))
<1>1. ASSUME NEW y, Fields(y), y.todo = s, y.word = x.word
      PROVE  Fresh(y)
  BY <1>1 DEF Fresh, ErasesWords
<1>2. /\ Fields(Left(x, s)) /\ Left(x, s).todo = s /\ Left(x, s).word = x.word
  BY TaskIsEdited
<1> DEFINE y == Left(x, s)
<1>3. Fresh(y) /\ Fields(y) /\ y.todo = s /\ y.word = x.word
  BY <1>1, <1>2
<1> HIDE DEF y
<1>4. \A v : Fields(Told(y, v)) /\ Told(y, v).todo = s /\ Told(y, v).word = x.word
  BY <1>3, TaskIsEdited
<1>5. \A v : Fresh(Told(y, v))
  BY <1>1, <1>4
<1>6. \A c : Fields(Named(y, c)) /\ Named(y, c).todo = s /\ Named(y, c).word = x.word
  BY <1>3, TaskIsEdited
<1>7. ASSUME NEW c, NEW v
      PROVE  Fresh(Told(Named(y, c), v))
  <2> DEFINE z == Named(y, c)
  <2>1. Fields(z) /\ z.todo = s /\ z.word = x.word
    BY <1>6
  <2> HIDE DEF z
  <2>2. Fields(Told(z, v)) /\ Told(z, v).todo = s /\ Told(z, v).word = x.word
    BY <2>1, TaskIsEdited
  <2>3. Fresh(Told(z, v))
    BY <1>1, <2>2
  <2> QED
    BY <2>3 DEF z
<1>8. Fresh(Idle) /\ Fields(Idle) /\ Idle.todo = <<>>
  BY QuietTasksAreFresh DEF Fresh, Idle
<1>9. \A v : Fresh(Told(Idle, v))
  BY <1>8, TaskIsEdited DEF Fresh, ErasesWords
<1> QED
  BY <1>3, <1>5, <1>7, <1>8, <1>9 DEF LeftWith, y


-----------------------------------------------------------------------------
(* A call does its work.                                                   *)

\* A task is about to do op, and has the rest left for later.
Ready(x, op, rest) ==
  /\ Fields(x) /\ op \in StoreOps /\ Script(rest)
  /\ IF rest = <<>> THEN op # "finds" ELSE Follows(op, rest[1])
  /\ (op # "erases" /\ Lacks(rest, "erases")) \/ (Lacks(rest, "opens") /\ x.word # NoWords)

Answered(x, c, v) == [x EXCEPT !.conv = c, !.snap = v]
After(x, c, v, left) == IF left = <<>> THEN Idle ELSE Answered(Left(x, left), c, v)

LEMMA AnsweredIs ==
  ASSUME NEW x, Fields(x), NEW c, NEW v
  PROVE  /\ Fields(Answered(x, c, v)) /\ Answered(x, c, v).todo = x.todo
         /\ Answered(x, c, v).word = x.word /\ Answered(x, c, v).snap = v
<1>1. PICK k, n, w, t, p : x = [kind |-> k, conv |-> n, word |-> w, todo |-> t, snap |-> p]
  BY DEF Fields
<1>2. Answered(x, c, v) = Told(Named(x, c), v)
  BY <1>1 DEF Answered, Told, Named
<1> DEFINE y == Named(x, c)
<1>3. Fields(y) /\ y.todo = x.todo /\ y.word = x.word
  BY TaskIsEdited
<1> HIDE DEF y
<1>4. Fields(Told(y, v)) /\ Told(y, v).todo = y.todo /\ Told(y, v).word = y.word /\ Told(y, v).snap = v
  BY <1>3, TaskIsEdited
<1> QED
  BY <1>2, <1>3, <1>4 DEF y

\* What was found is not written: the task goes on after the writing.
LEMMA AfterTheWriting ==
  ASSUME NEW s, Script(s), s # <<>>, s[1] = "writes"
  PROVE  /\ Script(Tail(Tail(s)))
         /\ \A x : Lacks(s, x) => Lacks(Tail(Tail(s)), x)
         /\ Tail(Tail(s)) # <<>> => Tail(Tail(s))[1] \notin {"writes", "renames", "shows"}
<1> DEFINE r == Tail(s)
<1>1. Script(r) /\ r # <<>> /\ r[1] = "renames" /\ \A x : Lacks(s, x) => Lacks(r, x)
  <2>1. Head(s) = "writes"
    BY RestOfScript
  <2> QED
    BY <2>1, RestOfScript DEF Follows
<1> HIDE DEF r
<1>2. /\ Script(Tail(r)) /\ Head(r) = "renames"
      /\ Tail(r) # <<>> => Follows(Head(r), Tail(r)[1])
      /\ \A x : Lacks(r, x) => Lacks(Tail(r), x)
  BY <1>1, RestOfScript
<1>3. Tail(r) # <<>> => Tail(r)[1] \notin {"writes", "renames", "shows"}
  BY <1>2 DEF Follows, Changing
<1> QED
  BY <1>1, <1>2, <1>3 DEF r

\* A task that has an answer expects no more than what the call has seen to.
LEMMA AfterIsGood ==
  ASSUME NEW x, NEW op, NEW rest, Ready(x, op, rest), NEW c, NEW entries,
         NEW l, l, NEW gone, NEW saved, NEW lost
  PROVE  /\ GoodTask(After(x, c, Answer(op, c, entries), rest), l, gone, saved, lost)
         /\ op = "finds" =>
              GoodTask(After(x, c, Answer(op, c, entries), Tail(Tail(rest))), l, gone, saved, lost)
<1> DEFINE v == Answer(op, c, entries)
<1>0. /\ Fields(x) /\ Script(rest)
      /\ Lacks(rest, "erases") \/ (Lacks(rest, "opens") /\ x.word # NoWords)
  BY DEF Ready
<1>1. GoodTask(Idle, l, gone, saved, lost)
  BY QuietTasksAreFresh, FreshIsGood
<1>2. op = "fetches" => \A e \in v : e[2] # NoWords
  BY DEF Answer, Messages
<1> HIDE DEF v
<1>3. ASSUME NEW s, Script(s), s # <<>>, Lacks(s, "erases") \/ (Lacks(s, "opens") /\ x.word # NoWords),
             s[1] # "renames", s[1] = "shows" => op = "fetches"
      PROVE  GoodTask(Answered(Left(x, s), c, v), l, gone, saved, lost)
  <2> DEFINE y == Left(x, s)
  <2>1. Fields(y) /\ y.todo = s /\ y.word = x.word
    BY <1>0, TaskIsEdited
  <2> HIDE DEF y
  <2> DEFINE z == Answered(y, c, v)
  <2>2. Fields(z) /\ z.todo = s /\ z.word = x.word /\ z.snap = v
    BY <2>1, AnsweredIs
  <2> HIDE DEF z
  <2>3. GoodTask(z, l, gone, saved, lost)
    BY <1>2, <1>3, <2>2 DEF GoodTask, ErasesWords, Expects
  <2> QED
    BY <2>3 DEF y, z
<1>4. GoodTask(After(x, c, v, rest), l, gone, saved, lost)
  <2>1. CASE rest = <<>>
    BY <1>1, <2>1 DEF After
  <2>2. CASE rest # <<>>
    <3>1. rest[1] # "renames" /\ (rest[1] = "shows" => op = "fetches")
      BY <2>2 DEF Ready, Follows, StoreOps
    <3> QED
      BY <1>0, <1>3, <2>2, <3>1 DEF After
  <2> QED
    BY <2>1, <2>2
<1>5. ASSUME op = "finds"
      PROVE  GoodTask(After(x, c, v, Tail(Tail(rest))), l, gone, saved, lost)
  <2> DEFINE left == Tail(Tail(rest))
  <2>1. rest # <<>> /\ rest[1] = "writes"
    BY <1>5 DEF Ready, Follows
  <2>2. /\ Script(left)
        /\ left # <<>> => left[1] \notin {"writes", "renames", "shows"}
        /\ Lacks(left, "erases") \/ (Lacks(left, "opens") /\ x.word # NoWords)
    BY <1>0, <2>1, AfterTheWriting
  <2> HIDE DEF left
  <2>3. GoodTask(After(x, c, v, left), l, gone, saved, lost)
    BY <1>1, <1>3, <2>2 DEF After
  <2> QED
    BY <2>3 DEF left
<1> QED
  BY <1>4, <1>5 DEF v

-----------------------------------------------------------------------------
(* The store's steps.                                                      *)

\* A task goes on with what expects nothing.
LEMMA GoesOn ==
  ASSUME NEW ts, NEW l, NEW gone, NEW saved, NEW lost, GoodTasks(ts, l, gone, saved, lost),
         NEW t \in Tasks, NEW s, Script(s),
         Lacks(s, "erases") \/ (Lacks(s, "opens") /\ ts[t].word # NoWords),
         s # <<>> => s[1] \notin {"writes", "renames", "shows"}
  PROVE  GoodTasks(With(ts, t, s), l, gone, saved, lost)
<1> DEFINE x == ts[t]
           y == LeftWith(x, s)
<1>1. Fields(x)
  BY DEF GoodTasks, GoodTask
<1>2. Fresh(y)
  <2> HIDE DEF x
  <2> QED
    BY <1>1, LeftIsFresh DEF x
<1>3. With(ts, t, s) = [ts EXCEPT ![t] = y]
  BY DEF With, LeftWith, Left
<1> HIDE DEF x, y
<1>4. GoodTask(y, l, gone, saved, lost)
  BY <1>2, FreshIsGood
<1>5. GoodTasks([ts EXCEPT ![t] = y], l, gone, saved, lost)
  BY <1>4, OneTask
<1> QED
  BY <1>3, <1>5

LEMMA RejectsKeep ==
  ASSUME NEW t \in Tasks, NEW l, NEW gone, NEW saved, NEW lost,
         GoodTasks(tasks, l, gone, saved, lost), Rejects(t)
  PROVE  GoodTasks(tasks', l, gone, saved, lost)
<1> DEFINE s == Rejection(t)
<1>1. /\ Script(<<>>) /\ Lacks(<<>>, "erases")
      /\ \A a \in {"catches", "ends"} : Script(<<a>>) /\ Lacks(<<a>>, "erases") /\ <<a>>[1] = a
  <2>1. Script(<<>>) /\ Lacks(<<>>, "erases")
    BY DEF Script, Chain, Lacks
  <2>2. ASSUME NEW a \in {"catches", "ends"}
        PROVE  Script(<<a>>) /\ Lacks(<<a>>, "erases") /\ <<a>>[1] = a
    <3> DEFINE r == <<a>>
    <3>1. a \in Ops /\ a # "erases"
      BY DEF Ops
    <3>2. Part(r, a, a) /\ Lacks(r, "erases")
      BY <3>1, SingleParts
    <3> HIDE DEF r
    <3>3. Script(r) /\ Lacks(r, "erases") /\ r[1] = a
      BY <3>2 DEF Part, Script
    <3> QED
      BY <3>3 DEF r
  <2> QED
    BY <2>1, <2>2
<1>2. s \in {<<>>, <<"catches">>, <<"ends">>}
  BY DEF Rejection
<1>3. /\ Script(s) /\ Lacks(s, "erases")
      /\ s # <<>> => s[1] \in {"catches", "ends"}
  BY <1>1, <1>2
<1> HIDE DEF s
<1>4. GoodTasks(With(tasks, t, s), l, gone, saved, lost)
  BY <1>3, GoesOn
<1> QED
  BY <1>4 DEF Rejects, Goes, s

\* What a call makes of the entries keeps those of earlier runs.
LEMMA ChangeKeeps ==
  ASSUME NEW op, NEW c, NEW w, NEW entries, NEW gone, NEW saved, NEW lost,
         Kept(entries, gone, saved, lost), op = "erases" => w # NoWords
  PROVE  Kept(Change(op, c, w, entries), IF op = "deletes" THEN gone \cup {c} ELSE gone, saved, lost)
<1>1. ASSUME NEW d, Has(entries, d), op = "deletes" => d # c
      PROVE  Has(Change(op, c, w, entries), d)
  <2>1. CASE op = "erases"
    BY <1>1, <2>1 DEF Change, Erases, Has
  <2>2. CASE op = "deletes"
    BY <1>1, <2>2 DEF Change, Deletes, Has
  <2>3. CASE op \notin {"erases", "deletes"}
    BY <1>1, <2>3 DEF Change, Creates, Appends, Has
  <2> QED
    BY <2>1, <2>2, <2>3
<1> QED
  BY <1>1 DEF Kept

LEMMA PerformsKeep ==
  ASSUME NEW t \in Tasks, NEW op, NEW rest, NEW entries,
         GoodTasks(tasks, loaded, removed, backups, unsaved), Ready(tasks[t], op, rest),
         backups \subseteq backups', unsaved => unsaved',
         Kept(entries, removed, backups', unsaved'),
         Performs(t, op, rest, entries)
  PROVE  /\ Kept(history', removed', backups', unsaved') /\ removed \subseteq removed'
         /\ GoodTasks(tasks', loaded', removed', backups', unsaved')
<1>1. loaded' = TRUE
  BY DEF Performs
<1>2. PICK c \in Meant(t, op, entries), w \in {tasks[t].word} :
         IF Refused(op, c, w, entries)
         THEN history' = entries /\ Rejects(t) /\ UNCHANGED <<used, removed>>
         ELSE /\ history' = Change(op, c, w, entries)
              /\ used' = used \cup ({c} \cap Conversations)
              /\ removed' = IF op = "deletes" THEN removed \cup {c} ELSE removed
              /\ LET left == IF op = "finds" /\ Has(entries, c) THEN Tail(Tail(rest)) ELSE rest
                 IN tasks' = [With(tasks, t, left) EXCEPT
                      ![t] = IF left = <<>> THEN @
                             ELSE [@ EXCEPT !.conv = c, !.snap = Answer(op, c, entries)]]
  BY DEF Performs
<1>3. ASSUME removed \subseteq removed'
      PROVE  GoodTasks(tasks, loaded', removed', backups', unsaved')
  <2>1. loaded => loaded'
    BY <1>1
  <2> QED
    BY <1>3, <2>1, TasksStay
<1>4. CASE Refused(op, c, w, entries)
  <2>1. history' = entries /\ Rejects(t) /\ removed' = removed
    BY <1>2, <1>4
  <2>2. GoodTasks(tasks, loaded', removed', backups', unsaved')
    BY <1>3, <2>1
  <2>3. GoodTasks(tasks', loaded', removed', backups', unsaved')
    BY <2>1, <2>2, RejectsKeep
  <2> QED
    BY <2>1, <2>3
<1>5. CASE ~Refused(op, c, w, entries)
  <2> DEFINE left == IF op = "finds" /\ Has(entries, c) THEN Tail(Tail(rest)) ELSE rest
             gone == IF op = "deletes" THEN removed \cup {c} ELSE removed
             changed == Change(op, c, w, entries)
             x == tasks[t]
             y == After(x, c, Answer(op, c, entries), left)
  <2>1. history' = changed /\ removed' = gone /\ removed \subseteq removed'
    BY <1>2, <1>5
  <2>2. tasks' = [tasks EXCEPT ![t] = y]
    <3>1. tasks' = [With(tasks, t, left) EXCEPT
                      ![t] = IF left = <<>> THEN @
                             ELSE [@ EXCEPT !.conv = c, !.snap = Answer(op, c, entries)]]
      BY <1>2, <1>5
    <3>2. tasks = [u \in Tasks |-> tasks[u]]
      BY DEF GoodTasks
    <3> HIDE DEF left
    <3> QED
      BY <3>1, <3>2 DEF With, After, Answered, Left
  <2>3. Kept(history', removed', backups', unsaved')
    <3>1. op = "erases" => w # NoWords
      BY <1>2 DEF Ready
    <3>2. Kept(changed, gone, backups', unsaved')
      BY <3>1, ChangeKeeps
    <3> HIDE DEF gone, changed
    <3> QED
      BY <2>1, <3>2
  <2>4. GoodTask(y, loaded', removed', backups', unsaved')
    <3>1. Ready(x, op, rest) /\ loaded'
      BY <1>1
    <3> HIDE DEF x
    <3>2. /\ GoodTask(After(x, c, Answer(op, c, entries), rest), loaded', removed', backups', unsaved')
          /\ op = "finds" => GoodTask(After(x, c, Answer(op, c, entries), Tail(Tail(rest))),
                                     loaded', removed', backups', unsaved')
      BY <3>1, AfterIsGood
    <3> QED
      BY <3>2
  <2> HIDE DEF left, gone, changed, x, y
  <2>5. GoodTasks(tasks, loaded', removed', backups', unsaved')
    BY <1>3, <2>1
  <2>6. GoodTasks(tasks', loaded', removed', backups', unsaved')
    BY <2>2, <2>4, <2>5, OneTask
  <2> QED
    BY <2>1, <2>3, <2>6
<1> QED
  BY <1>4, <1>5

\* What is known of a task when one of its steps is due.
LEMMA StepIsDue ==
  ASSUME NEW t \in Tasks, GoodTasks(tasks, loaded, removed, backups, unsaved), NEW step, Due(t, step)
  PROVE  /\ Fields(tasks[t]) /\ step \in Ops /\ Script(tasks[t].todo) /\ Script(Rest(t))
         /\ tasks[t].todo # <<>> /\ tasks[t].todo[1] = step
         /\ Lacks(tasks[t].todo, "erases") \/ (Lacks(tasks[t].todo, "opens") /\ tasks[t].word # NoWords)
         /\ Rest(t) # <<>> => Follows(step, Rest(t)[1])
         /\ Rest(t) = <<>> => step \notin {"finds", "writes", "reads", "copies"}
         /\ \/ step # "erases" /\ Lacks(Rest(t), "erases")
            \/ step # "opens" /\ Lacks(Rest(t), "opens") /\ tasks[t].word # NoWords
         /\ step = "writes" => loaded
         /\ step = "renames" => Kept(tasks[t].snap, removed, backups, unsaved)
         /\ step = "shows" => \A e \in tasks[t].snap : e[2] # NoWords
<1> DEFINE x == tasks[t]
           s == x.todo
<1>1. GoodTask(x, loaded, removed, backups, unsaved) /\ s # <<>> /\ Head(s) = step
  BY DEF GoodTasks, Due
<1>2. Rest(t) = Tail(s)
  BY DEF Rest
<1> HIDE DEF x
<1>3. Fields(x) /\ Script(s) /\ ErasesWords(x) /\ Expects(x, x.snap, loaded, removed, backups, unsaved)
  BY <1>1 DEF GoodTask
<1>4. /\ Script(Tail(s)) /\ s[1] = step /\ step \in Ops
      /\ Tail(s) # <<>> => Follows(step, Tail(s)[1])
      /\ Tail(s) = <<>> => step \notin {"finds", "writes", "reads", "copies"}
      /\ \A y : Lacks(s, y) => Lacks(Tail(s), y) /\ step # y
  BY <1>1, <1>3, RestOfScript
<1>5. /\ step = "writes" => loaded
      /\ step = "renames" => Kept(x.snap, removed, backups, unsaved)
      /\ step = "shows" => \A e \in x.snap : e[2] # NoWords
  BY <1>1, <1>3, <1>4 DEF Expects
<1>6. Lacks(s, "erases") \/ (Lacks(s, "opens") /\ x.word # NoWords)
  BY <1>3 DEF ErasesWords
<1>7. \/ step # "erases" /\ Lacks(Tail(s), "erases")
      \/ step # "opens" /\ Lacks(Tail(s), "opens") /\ x.word # NoWords
  BY <1>4, <1>6
<1> QED
  BY <1>1, <1>2, <1>3, <1>4, <1>5, <1>6, <1>7 DEF x

\* What is done after reading is a call.
LEMMA CallIsReady ==
  ASSUME NEW t \in Tasks, GoodTasks(tasks, loaded, removed, backups, unsaved)
  PROVE  /\ \A op \in StoreOps : Due(t, op) => Ready(tasks[t], op, Rest(t))
         /\ \A a \in {"reads", "copies"} : Due(t, a) =>
              Ready(tasks[t], Rest(t)[1], Tail(Rest(t))) /\ Rest(t) # <<>>
<1>1. ASSUME NEW op \in StoreOps, Due(t, op)
      PROVE  Ready(tasks[t], op, Rest(t))
  BY <1>1, StepIsDue DEF Ready
<1>2. ASSUME NEW a \in {"reads", "copies"}, Due(t, a)
      PROVE  Ready(tasks[t], Rest(t)[1], Tail(Rest(t))) /\ Rest(t) # <<>>
  <2> DEFINE s == Rest(t)
             x == tasks[t]
  <2>1. /\ Fields(x) /\ Script(s) /\ s # <<>> /\ Follows(a, s[1])
        /\ Lacks(s, "erases") \/ (Lacks(s, "opens") /\ x.word # NoWords)
    BY <1>2, StepIsDue
  <2> HIDE DEF s, x
  <2>2. s[1] \in StoreOps
    BY <2>1 DEF Follows
  <2>3. Ready(x, s[1], Tail(s))
    BY <2>1, <2>2, RestOfScript DEF Ready
  <2> QED
    BY <2>1, <2>3 DEF s, x
<1> QED
  BY <1>1, <1>2

LEMMA CallsKeep ==
  ASSUME HistoryInv, NEW t \in Tasks, Calls(t), UNCHANGED shown
  PROVE  HistoryInv'
<1>0. GoodTasks(tasks, loaded, removed, backups, unsaved)
  BY DEF HistoryInv
<1>1. PICK op \in StoreOps :
        /\ Due(t, op)
        /\ IF loaded
           THEN Performs(t, op, Rest(t), history)
           ELSE Goes(t, <<"reads">> \o tasks[t].todo) /\ UNCHANGED <<history, loaded, used, removed>>
        /\ UNCHANGED <<file, backups, unsaved>>
  BY DEF Calls
<1>2. CASE loaded
  <2>1. Performs(t, op, Rest(t), history) /\ Kept(history, removed, backups', unsaved')
    BY <1>1, <1>2 DEF HistoryInv
  <2>2. Ready(tasks[t], op, Rest(t))
    BY <1>0, <1>1, CallIsReady
  <2>3. backups \subseteq backups' /\ (unsaved => unsaved')
    BY <1>1
  <2>4. /\ Kept(history', removed', backups', unsaved') /\ removed \subseteq removed'
        /\ GoodTasks(tasks', loaded', removed', backups', unsaved')
    BY <1>0, <1>1, <2>1, <2>2, <2>3, PerformsKeep
  <2> QED
    BY <1>1, <2>4 DEF HistoryInv, Kept
<1>3. CASE ~loaded
  <2> DEFINE s == tasks[t].todo
             r == <<"reads">> \o s
  <2>1. /\ Script(s) /\ s # <<>> /\ s[1] = op
        /\ Lacks(s, "erases") \/ (Lacks(s, "opens") /\ tasks[t].word # NoWords)
    BY <1>0, <1>1, StepIsDue
  <2>2. /\ Script(r) /\ r # <<>> /\ r[1] = "reads"
        /\ \A x \in {"erases", "opens"} : Lacks(s, x) => Lacks(r, x)
    <3> HIDE DEF s
    <3> QED
      BY <2>1, BeforeScript
  <2>3. Lacks(r, "erases") \/ (Lacks(r, "opens") /\ tasks[t].word # NoWords)
    <3> HIDE DEF r, s
    <3> QED
      BY <2>1, <2>2
  <2>4. tasks' = With(tasks, t, r)
    BY <1>1, <1>3 DEF Goes
  <2> HIDE DEF r, s
  <2>5. GoodTasks(With(tasks, t, r), loaded, removed, backups, unsaved)
    BY <1>0, <2>2, <2>3, GoesOn
  <2> QED
    BY <1>1, <1>3, <2>4, <2>5 DEF HistoryInv
<1> QED
  BY <1>2, <1>3

LEMMA ReadsKeep ==
  ASSUME HistoryInv, NEW t \in Tasks, Reads(t), UNCHANGED shown
  PROVE  HistoryInv'
<1>0. GoodTasks(tasks, loaded, removed, backups, unsaved) /\ Due(t, "reads")
      /\ UNCHANGED <<file, backups, unsaved>>
  BY DEF HistoryInv, Reads
<1> DEFINE s == Rest(t)
<1>1. Ready(tasks[t], s[1], Tail(s)) /\ s # <<>> /\ Script(s) /\ s[1] \in StoreOps
      /\ (Lacks(s, "erases") \/ (Lacks(s, "opens") /\ tasks[t].word # NoWords))
  BY <1>0, CallIsReady, StepIsDue DEF Ready
<1> HIDE DEF s
<1>2. CASE Performs(t, s[1], Tail(s), file.entries)
  <2>1. Kept(file.entries, removed, backups', unsaved')
    BY <1>0 DEF HistoryInv
  <2>2. backups \subseteq backups' /\ (unsaved => unsaved')
    BY <1>0
  <2>3. /\ Kept(history', removed', backups', unsaved') /\ removed \subseteq removed'
        /\ GoodTasks(tasks', loaded', removed', backups', unsaved')
    BY <1>0, <1>1, <1>2, <2>1, <2>2, PerformsKeep
  <2> QED
    BY <1>0, <2>3 DEF HistoryInv, Kept
<1>3. CASE Goes(t, <<"copies">> \o s) /\ UNCHANGED <<history, loaded, used, removed>>
  <2> DEFINE r == <<"copies">> \o s
  <2>1. /\ Script(r) /\ r # <<>> /\ r[1] = "copies"
        /\ \A x \in {"erases", "opens"} : Lacks(s, x) => Lacks(r, x)
    BY <1>1, BeforeScript
  <2>2. tasks' = With(tasks, t, r)
    BY <1>3 DEF Goes
  <2> HIDE DEF r
  <2>3. Lacks(r, "erases") \/ (Lacks(r, "opens") /\ tasks[t].word # NoWords)
    BY <1>1, <2>1
  <2>4. GoodTasks(With(tasks, t, r), loaded, removed, backups, unsaved)
    BY <1>0, <2>1, <2>3, GoesOn
  <2> QED
    BY <1>0, <1>3, <2>2, <2>4 DEF HistoryInv
<1> QED
  BY <1>2, <1>3 DEF Reads, s

\* The file that is given up is in a backup, unless the backup failed too.
LEMMA CopiesKeep ==
  ASSUME HistoryInv, NEW t \in Tasks, Copies(t), UNCHANGED shown
  PROVE  HistoryInv'
<1>0. GoodTasks(tasks, loaded, removed, backups, unsaved) /\ Due(t, "copies") /\ UNCHANGED file
      /\ Performs(t, Rest(t)[1], Tail(Rest(t)), {}) /\ file.whole
  BY DEF HistoryInv, Copies
<1>1. (backups' = backups \cup file.entries /\ UNCHANGED unsaved) \/ (unsaved' = TRUE /\ UNCHANGED backups)
  BY <1>0 DEF Copies
<1>2. Kept({}, removed, backups', unsaved')
  BY <1>1 DEF HistoryInv, Kept, Has
<1>3. backups \subseteq backups' /\ (unsaved => unsaved')
  BY <1>1
<1>4. Ready(tasks[t], Rest(t)[1], Tail(Rest(t)))
  BY <1>0, CallIsReady
<1>5. /\ Kept(history', removed', backups', unsaved') /\ removed \subseteq removed'
      /\ GoodTasks(tasks', loaded', removed', backups', unsaved')
  BY <1>0, <1>2, <1>3, <1>4, PerformsKeep
<1> QED
  BY <1>0, <1>3, <1>5 DEF HistoryInv, Kept, Has

LEMMA WritesKeep ==
  ASSUME HistoryInv, NEW t \in Tasks, Writes(t), UNCHANGED shown
  PROVE  HistoryInv'
<1>0. GoodTasks(tasks, loaded, removed, backups, unsaved) /\ Due(t, "writes")
      /\ UNCHANGED <<history, loaded, file, backups, unsaved, used, removed>>
  BY DEF HistoryInv, Writes
<1>1. CASE tasks' = [tasks EXCEPT ![t].todo = Rest(t), ![t].snap = history]
  <2> DEFINE x == tasks[t]
             s == Rest(t)
             y == Left(x, s)
             z == Told(y, history)
  <2>1. tasks' = [tasks EXCEPT ![t] = z]
    <3>1. tasks = [u \in Tasks |-> tasks[u]]
      BY <1>0 DEF GoodTasks
    <3> QED
      BY <1>1, <3>1 DEF Left, Told
  <2>2. /\ Fields(x) /\ Script(s) /\ loaded
        /\ s # <<>> => Follows("writes", s[1])
        /\ Lacks(s, "erases") \/ (Lacks(s, "opens") /\ x.word # NoWords)
    BY <1>0, StepIsDue
  <2> HIDE DEF x, s
  <2>3. Fields(y) /\ y.todo = s /\ y.word = x.word
    BY <2>2, TaskIsEdited
  <2> HIDE DEF y
  <2>4. Fields(z) /\ z.todo = s /\ z.word = x.word /\ z.snap = history
    BY <2>3, TaskIsEdited
  <2> HIDE DEF z
  <2>5. Kept(history, removed, backups, unsaved)
    BY <2>2 DEF HistoryInv
  <2>6. s # <<>> => s[1] = "renames"
    BY <2>2 DEF Follows
  <2>7. GoodTask(z, loaded, removed, backups, unsaved)
    BY <2>2, <2>4, <2>5, <2>6 DEF GoodTask, ErasesWords, Expects
  <2>8. GoodTasks(tasks', loaded, removed, backups, unsaved)
    BY <1>0, <2>1, <2>7, OneTask
  <2> QED
    BY <1>0, <2>8 DEF HistoryInv
<1>2. CASE Rejects(t)
  <2>1. GoodTasks(tasks', loaded, removed, backups, unsaved)
    BY <1>0, <1>2, RejectsKeep
  <2> QED
    BY <1>0, <2>1 DEF HistoryInv
<1> QED
  BY <1>1, <1>2 DEF Writes

\* A task is left with its rest, and no snapshot.
LEMMA SnapIsDropped ==
  ASSUME NEW t \in Tasks, GoodTasks(tasks, loaded, removed, backups, unsaved),
         NEW step \in {"renames", "shows"}, Due(t, step),
         tasks' = [With(tasks, t, Rest(t)) EXCEPT ![t].snap = {}]
  PROVE  GoodTasks(tasks', loaded, removed, backups, unsaved)
<1> DEFINE x == tasks[t]
           s == Rest(t)
           y == Told(LeftWith(x, s), {})
<1>1. tasks' = [tasks EXCEPT ![t] = y]
  <2>1. tasks = [u \in Tasks |-> tasks[u]]
    BY DEF GoodTasks
  <2> QED
    BY <2>1 DEF With, LeftWith, Left, Told
<1>2. /\ Fields(x) /\ Script(s)
      /\ Lacks(s, "erases") \/ (Lacks(s, "opens") /\ x.word # NoWords)
      /\ s # <<>> => s[1] \notin {"writes", "renames", "shows"}
  BY StepIsDue DEF Follows, Changing
<1>3. Fresh(y)
  <2> HIDE DEF x, s
  <2> QED
    BY <1>2, LeftIsFresh
<1> HIDE DEF y
<1>4. GoodTask(y, loaded, removed, backups, unsaved)
  BY <1>3, FreshIsGood
<1>5. GoodTasks([tasks EXCEPT ![t] = y], loaded, removed, backups, unsaved)
  BY <1>4, OneTask
<1> QED
  BY <1>1, <1>5

LEMMA RenamesKeep ==
  ASSUME HistoryInv, NEW t \in Tasks, Renames(t), UNCHANGED shown
  PROVE  HistoryInv'
<1>0. GoodTasks(tasks, loaded, removed, backups, unsaved) /\ Due(t, "renames")
      /\ UNCHANGED <<history, loaded, backups, unsaved, used, removed>>
  BY DEF HistoryInv, Renames
<1>1. CASE ReplacesFile(tasks[t].snap) /\ tasks' = [With(tasks, t, Rest(t)) EXCEPT ![t].snap = {}]
  <2>1. Kept(tasks[t].snap, removed, backups, unsaved)
    BY <1>0, StepIsDue
  <2>2. file'.whole /\ file'.entries = tasks[t].snap
    BY <1>1 DEF ReplacesFile
  <2>3. GoodTasks(tasks', loaded, removed, backups, unsaved)
    BY <1>0, <1>1, SnapIsDropped
  <2> QED
    BY <1>0, <2>1, <2>2, <2>3 DEF HistoryInv
<1>2. CASE Rejects(t) /\ UNCHANGED file
  <2>1. GoodTasks(tasks', loaded, removed, backups, unsaved)
    BY <1>0, <1>2, RejectsKeep
  <2> QED
    BY <1>0, <1>2, <2>1 DEF HistoryInv
<1> QED
  BY <1>1, <1>2 DEF Renames

-----------------------------------------------------------------------------
(* The window's steps.                                                     *)

Good(ts) == GoodTasks(ts, loaded, removed, backups, unsaved)

\* What a step of the window must show of itself.
LEMMA WindowStep ==
  ASSUME HistoryInv, UNCHANGED <<history, loaded, file, backups, unsaved, used, removed>>,
         \A e \in shown' : e[2] # NoWords, Good(tasks')
  PROVE  HistoryInv'
BY DEF HistoryInv, Good

LEMMA BeginsKeeps ==
  ASSUME HistoryInv, NEW new, Starts(new), Begins(new), \A e \in shown' : e[2] # NoWords
  PROVE  HistoryInv'
<1>1. Good(Launch(tasks, new))
  BY LaunchKeeps DEF HistoryInv, Good
<1>2. Good(tasks') /\ UNCHANGED <<history, loaded, file, backups, unsaved, used, removed>>
  BY <1>1 DEF Begins
<1> QED
  BY <1>2, WindowStep

LEMMA PersonKeeps ==
  ASSUME HistoryInv, Person
  PROVE  HistoryInv'
<1>0. \A e \in shown : e[2] # NoWords
  BY DEF HistoryInv
<1>1. ASSUME NEW c, Select(c)
      PROVE  HistoryInv'
  <2>1. Begins(Opening(c)) /\ UNCHANGED shown
    BY <1>1 DEF Select
  <2>2. Starts(Opening(c))
    BY StartsOf
  <2> QED
    BY <1>0, <2>1, <2>2, BeginsKeeps
<1>2. CASE Create
  <2>1. Begins(<<CreateTask>>) /\ UNCHANGED shown
    BY <1>2 DEF Create, windowVars
  <2>2. Starts(<<CreateTask>>)
    BY StartsOf, QuietTasksAreFresh
  <2> QED
    BY <1>0, <2>1, <2>2, BeginsKeeps
<1>3. ASSUME NEW c, Rename(c)
      PROVE  HistoryInv'
  <2> DEFINE x == ChangeTask(c, "titles")
  <2>1. Begins(<<x>>) /\ UNCHANGED shown
    BY <1>3 DEF Rename, windowVars
  <2>2. Fresh(x)
    BY BusyTasksAreFresh
  <2> HIDE DEF x
  <2>3. Starts(<<x>>)
    BY <2>2, StartsOf
  <2> QED
    BY <1>0, <2>1, <2>3, BeginsKeeps
<1>4. ASSUME NEW c, NEW op \in {"titles", "deletes"}, Removes(c, op)
      PROVE  HistoryInv'
  <2> DEFINE x == ChangeTask(c, op)
  <2>1. Fresh(x)
    BY BusyTasksAreFresh
  <2>2. /\ \A e \in shown' : e[2] # NoWords
        /\ Begins(<<x>>) \/ \E d : Begins(<<x>> \o Opening(d))
    BY <1>0, <1>4 DEF Removes
  <2> HIDE DEF x
  <2>3. Starts(<<x>>) /\ \A d : Starts(<<x>> \o Opening(d))
    BY <2>1, StartsOf
  <2>4. CASE Begins(<<x>>)
    BY <2>2, <2>3, <2>4, BeginsKeeps
  <2>5. ASSUME NEW d, Begins(<<x>> \o Opening(d))
        PROVE  HistoryInv'
    BY <2>2, <2>3, <2>5, BeginsKeeps
  <2> QED
    BY <2>2, <2>4, <2>5
<1>5. ASSUME NEW c, NEW w, Send(c, w)
      PROVE  HistoryInv'
  <2> DEFINE x == SendTask(c, w)
  <2>1. Begins(<<x>>) /\ UNCHANGED shown
    BY <1>5 DEF Send
  <2>2. Fresh(x)
    BY BusyTasksAreFresh
  <2> HIDE DEF x
  <2>3. Starts(<<x>>)
    BY <2>2, StartsOf
  <2> QED
    BY <1>0, <2>1, <2>3, BeginsKeeps
<1>6. CASE Say
  <2>1. CASE Begins(<<StartTask>>) /\ UNCHANGED windowVars
    <3>1. Starts(<<StartTask>>) /\ UNCHANGED shown
      BY <2>1, StartsOf, BusyTasksAreFresh DEF windowVars
    <3> QED
      BY <1>0, <2>1, <3>1, BeginsKeeps
  <2> QED
    BY <1>5, <1>6, <2>1 DEF Say
<1>7. CASE Retry
  BY <1>5, <1>7 DEF Retry
<1>8. CASE ClearError
  BY <1>8 DEF ClearError, storeVars, HistoryInv
<1>9. CASE Regenerate
  <2> DEFINE x == RegenerateTask(active)
  <2>1. Begins(<<x>>) /\ UNCHANGED shown
    BY <1>9 DEF Regenerate
  <2>2. Fresh(x)
    BY ErasingTasksAreFresh
  <2> HIDE DEF x
  <2>3. Starts(<<x>>)
    BY <2>2, StartsOf
  <2> QED
    BY <1>0, <2>1, <2>3, BeginsKeeps
<1>10. CASE Erase
  <2>1. PICK e \in shown : Begins(<<EraseTask(active, e[2])>>)
    BY <1>10 DEF Erase
  <2> DEFINE x == EraseTask(active, e[2])
  <2>2. Fresh(x)
    BY <1>0, ErasingTasksAreFresh
  <2>3. Begins(<<x>>) /\ UNCHANGED shown
    BY <1>10, <2>1 DEF Erase, windowVars
  <2> HIDE DEF x
  <2>4. Starts(<<x>>)
    BY <2>2, StartsOf
  <2> QED
    BY <1>0, <2>3, <2>4, BeginsKeeps
<1>11. CASE Speak
  <2>1. Begins(<<RecordTask>>) /\ UNCHANGED shown
    BY <1>11 DEF Speak, windowVars
  <2>2. Starts(<<RecordTask>>)
    BY StartsOf, BusyTasksAreFresh
  <2> QED
    BY <1>0, <2>1, <2>2, BeginsKeeps
<1> QED
  BY <1>1, <1>2, <1>3, <1>4, <1>6, <1>7, <1>8, <1>9, <1>10, <1>11 DEF Person

\* Some steps leave nothing to expect.
LEMMA GoesToRest ==
  ASSUME HistoryInv, NEW t \in Tasks, NEW step, Due(t, step),
         step \notin Changing \cup {"writes", "fetches"}
  PROVE  Good(With(tasks, t, Rest(t)))
<1> DEFINE s == Rest(t)
<1>1. GoodTasks(tasks, loaded, removed, backups, unsaved)
  BY DEF HistoryInv
<1>2. /\ Script(s)
      /\ Lacks(s, "erases") \/ (Lacks(s, "opens") /\ tasks[t].word # NoWords)
      /\ s # <<>> => s[1] \notin {"writes", "renames", "shows"}
  BY <1>1, StepIsDue DEF Follows
<1> HIDE DEF s
<1>3. GoodTasks(With(tasks, t, s), loaded, removed, backups, unsaved)
  BY <1>1, <1>2, GoesOn
<1> QED
  BY <1>3 DEF Good, s

LEMMA MovesOn ==
  ASSUME HistoryInv, NEW t \in Tasks, NEW step, Due(t, step),
         step \notin Changing \cup {"writes", "fetches"},
         Goes(t, Rest(t)) \/ Rejects(t), UNCHANGED shown,
         UNCHANGED <<history, loaded, file, backups, unsaved, used, removed>>
  PROVE  HistoryInv'
<1>1. CASE Goes(t, Rest(t))
  <2>1. Good(tasks')
    BY <1>1, GoesToRest DEF Goes
  <2> QED
    BY <2>1, WindowStep DEF HistoryInv
<1>2. CASE Rejects(t)
  <2>1. Good(tasks')
    BY <1>2, RejectsKeep DEF HistoryInv, Good
  <2> QED
    BY <2>1, WindowStep DEF HistoryInv
<1> QED
  BY <1>1, <1>2

LEMMA ShowsListKeeps ==
  ASSUME HistoryInv, NEW t \in Tasks, ShowsList(t)
  PROVE  HistoryInv'
<1> DEFINE ts == With(tasks, t, Rest(t))
<1>1. Good(ts)
  BY GoesToRest DEF ShowsList, Changing
<1>2. PICK new : Starts(new) /\ tasks' = Launch(ts, new)
  <2>1. \A c : Starts(Opening(c))
    BY StartsOf
  <2>2. Starts(<<>>) /\ Starts(<<CreateTask>>)
    BY StartsOf, QuietTasksAreFresh
  <2>3. \/ \E c : tasks' = Launch(ts, Opening(c))
        \/ tasks' = Launch(ts, IF ~opened /\ listed' = {} THEN <<CreateTask>> ELSE <<>>)
    <3> HIDE DEF ts
    <3> QED
      BY DEF ShowsList, ts
  <2> HIDE DEF ts
  <2>4. CASE \E c : tasks' = Launch(ts, Opening(c))
    BY <2>1, <2>4
  <2>5. CASE tasks' = Launch(ts, IF ~opened /\ listed' = {} THEN <<CreateTask>> ELSE <<>>)
    BY <2>2, <2>5
  <2> QED
    BY <2>3, <2>4, <2>5
<1> HIDE DEF ts
<1>3. Good(Launch(ts, new))
  BY <1>1, <1>2, LaunchKeeps DEF Good
<1>4. UNCHANGED shown /\ UNCHANGED <<history, loaded, file, backups, unsaved, used, removed>>
  BY DEF ShowsList
<1> QED
  BY <1>2, <1>3, <1>4, WindowStep DEF HistoryInv

\* A task that opens what it created erases nothing after that.
LEMMA OpensKeeps ==
  ASSUME HistoryInv, NEW t \in Tasks, Opens(t)
  PROVE  HistoryInv'
<1> DEFINE x == tasks[t]
           s == Rest(t)
           ts == [With(tasks, t, s) EXCEPT ![t] = IF @ = Idle THEN @ ELSE [@ EXCEPT !.word = x.conv]]
           new == IF active' = active THEN <<>> ELSE Opening(active')
           y == IF LeftWith(x, s) = Idle THEN Idle ELSE Saying(LeftWith(x, s), x.conv)
<1>1. GoodTasks(tasks, loaded, removed, backups, unsaved) /\ Due(t, "opens")
  BY DEF HistoryInv, Opens
<1>2. ts = [tasks EXCEPT ![t] = y]
  <2>1. tasks = [u \in Tasks |-> tasks[u]]
    BY <1>1 DEF GoodTasks
  <2> QED
    BY <2>1 DEF With, LeftWith, Left, Saying
<1>3. /\ Fields(x) /\ Script(s) /\ Lacks(s, "erases")
      /\ s # <<>> => s[1] \notin {"writes", "renames", "shows"}
  BY <1>1, StepIsDue DEF Follows, Changing
<1>4. tasks' = Launch(ts, new) /\ UNCHANGED shown
      /\ UNCHANGED <<history, loaded, file, backups, unsaved, used, removed>>
  BY DEF Opens
<1> HIDE DEF ts
<1>5. Starts(new)
  <2>1. Starts(<<>>) /\ \A c : Starts(Opening(c))
    BY StartsOf
  <2> QED
    BY <2>1
<1> HIDE DEF new, x, s
<1>6. Fresh(y)
  <2> DEFINE l == LeftWith(x, s)
  <2>1. Fresh(l) /\ Fresh(Idle)
    BY <1>3, LeftIsFresh, QuietTasksAreFresh
  <2>2. l # Idle => l.todo = s
    <3>1. Left(x, s).todo = s
      BY <1>3, TaskIsEdited
    <3> QED
      BY <3>1 DEF LeftWith
  <2> HIDE DEF l
  <2> DEFINE z == Saying(l, x.conv)
  <2>3. Fields(z) /\ z.todo = l.todo
    BY <2>1, TaskIsEdited DEF Fresh
  <2> HIDE DEF z
  <2>4. l # Idle => Fresh(z)
    BY <1>3, <2>1, <2>2, <2>3 DEF Fresh, ErasesWords
  <2> QED
    BY <2>1, <2>4 DEF z, l
<1> HIDE DEF y
<1>7. GoodTask(y, loaded, removed, backups, unsaved)
  BY <1>6, FreshIsGood
<1>8. GoodTasks([tasks EXCEPT ![t] = y], loaded, removed, backups, unsaved)
  BY <1>1, <1>7, OneTask
<1>9. GoodTasks(Launch(ts, new), loaded, removed, backups, unsaved)
  BY <1>2, <1>5, <1>8, LaunchKeeps
<1>10. Good(tasks')
  BY <1>4, <1>9 DEF Good
<1> QED
  BY <1>4, <1>10, WindowStep DEF HistoryInv

LEMMA ShowsKeeps ==
  ASSUME HistoryInv, NEW t \in Tasks, Shows(t)
  PROVE  HistoryInv'
<1>1. GoodTasks(tasks, loaded, removed, backups, unsaved) /\ Due(t, "shows")
      /\ shown' = tasks[t].snap /\ tasks' = [With(tasks, t, Rest(t)) EXCEPT ![t].snap = {}]
      /\ UNCHANGED <<history, loaded, file, backups, unsaved, used, removed>>
  BY DEF HistoryInv, Shows
<1>2. \A e \in shown' : e[2] # NoWords
  BY <1>1, StepIsDue
<1>3. Good(tasks')
  BY <1>1, SnapIsDropped DEF Good
<1> QED
  BY <1>1, <1>2, <1>3, WindowStep

LEMMA CatchesKeeps ==
  ASSUME HistoryInv, NEW t \in Tasks, Catches(t)
  PROVE  HistoryInv'
<1> DEFINE x == tasks[t]
           s == Fetched \o <<"ends">>
           y == Left(x, s)
           z == Caught(y)
<1>1. GoodTasks(tasks, loaded, removed, backups, unsaved)
  BY DEF HistoryInv
<1>2. tasks' = [tasks EXCEPT ![t] = z]
  <2>1. tasks = [u \in Tasks |-> tasks[u]]
    BY <1>1 DEF GoodTasks
  <2>2. tasks' = [tasks EXCEPT ![t].todo = s, ![t].kind = "caught"]
    BY DEF Catches
  <2> HIDE DEF s
  <2> QED
    BY <2>1, <2>2 DEF Left, Caught
<1>3. Fields(x)
  BY <1>1 DEF GoodTasks, GoodTask
<1>4. Bit("erases", s, "fetches", "ends")
  <2>1. Bit("erases", Fetched, "fetches", "shows") /\ Bit("erases", <<"ends">>, "ends", "ends")
    BY Bits DEF Ops
  <2>2. Follows("shows", "ends")
    BY DEF Follows
  <2> QED
    BY <2>1, <2>2, BitsJoin
<1> HIDE DEF x, s
<1>5. Fields(y) /\ y.todo = s
  BY <1>3, TaskIsEdited
<1> HIDE DEF y
<1>6. Fields(z) /\ z.todo = s
  BY <1>5, TaskIsEdited
<1> HIDE DEF z
<1>7. Fresh(z)
  BY <1>4, <1>6 DEF Bit, Part, Fresh, Script, ErasesWords
<1>8. GoodTask(z, loaded, removed, backups, unsaved)
  BY <1>7, FreshIsGood
<1>9. Good(tasks')
  BY <1>1, <1>2, <1>8, OneTask DEF Good
<1>10. UNCHANGED shown /\ UNCHANGED <<history, loaded, file, backups, unsaved, used, removed>>
  BY DEF Catches
<1> QED
  BY <1>9, <1>10, WindowStep DEF HistoryInv

LEMMA TellsKeeps ==
  ASSUME HistoryInv, NEW t \in Tasks, Tells(t)
  PROVE  HistoryInv'
<1> DEFINE more == IF tasks[t].conv = active THEN Opening(active) ELSE <<>>
           ts == With(tasks, t, <<>>)
<1>1. GoodTasks(tasks, loaded, removed, backups, unsaved)
  BY DEF HistoryInv
<1>2. GoodTasks(ts, loaded, removed, backups, unsaved)
  <2>1. Script(<<>>) /\ Lacks(<<>>, "erases")
    BY DEF Script, Chain, Lacks
  <2> QED
    BY <1>1, <2>1, GoesOn
<1>3. Starts(<<ListTask>> \o more)
  <2>1. \E c : more = Opening(c)
    BY DEF Opening
  <2> HIDE DEF more
  <2> QED
    BY <2>1, StartsOf, QuietTasksAreFresh
<1>4. tasks' = Launch(ts, <<ListTask>> \o more) /\ UNCHANGED shown
      /\ UNCHANGED <<history, loaded, file, backups, unsaved, used, removed>>
  BY DEF Tells, windowVars
<1> DEFINE new == <<ListTask>> \o more
<1> HIDE DEF ts, new
<1>5. GoodTasks(Launch(ts, new), loaded, removed, backups, unsaved)
  BY <1>2, <1>3, LaunchKeeps DEF new
<1>6. Good(tasks')
  BY <1>4, <1>5 DEF Good, new
<1> QED
  BY <1>4, <1>6, WindowStep DEF HistoryInv

LEMMA AnswersKeep ==
  ASSUME HistoryInv, Answers
  PROVE  HistoryInv'
<1>1. PICK t \in Tasks :
        \/ Thinks(t) \/ ShowsList(t) \/ Opens(t) \/ Shows(t) \/ Sent(t) \/ Catches(t) \/ Ends(t) \/ Tells(t)
        \/ StoreStep(t) /\ UNCHANGED windowVars
  BY DEF Answers
<1>2. CASE Thinks(t)
  BY <1>2, MovesOn DEF Thinks, Changing, windowVars
<1>3. CASE Sent(t)
  BY <1>3, MovesOn DEF Sent, Changing
<1>4. CASE Ends(t)
  BY <1>4, MovesOn DEF Ends, Changing
<1>5. CASE StoreStep(t) /\ UNCHANGED windowVars
  BY <1>5, CallsKeep, ReadsKeep, CopiesKeep, WritesKeep, RenamesKeep DEF StoreStep, windowVars
<1> QED
  BY <1>1, <1>2, <1>3, <1>4, <1>5, ShowsListKeeps, OpensKeeps, ShowsKeeps, CatchesKeeps, TellsKeeps

\* When the app starts again the entries are to be loaded anew.
LEMMA StartIsGood ==
  ASSUME NEW l, NEW gone, NEW saved, NEW lost
  PROVE  GoodTasks(Launch(Start, <<ListTask>>), l, gone, saved, lost)
<1>1. Starts(<<ListTask>>)
  BY StartsOf, QuietTasksAreFresh
<1>2. GoodTask(Idle, l, gone, saved, lost)
  BY QuietTasksAreFresh, FreshIsGood
<1>3. GoodTasks(Start, l, gone, saved, lost)
  BY <1>2 DEF Start, GoodTasks
<1> QED
  BY <1>1, <1>3, LaunchKeeps

LEMMA HistoryInit ==
  ASSUME ChatInit
  PROVE  HistoryInv
<1>1. GoodTasks(tasks, loaded, removed, backups, unsaved)
  BY StartIsGood DEF ChatInit
<1> QED
  BY <1>1 DEF ChatInit, StoreInit, WindowInit, HistoryInv, Kept, Has

LEMMA HistoryStep ==
  ASSUME HistoryInv, [ChatNext]_chatVars
  PROVE  HistoryInv'
<1>1. CASE UNCHANGED chatVars
  BY <1>1 DEF chatVars, storeVars, windowVars, HistoryInv
<1>2. CASE Restart
  <2>1. GoodTasks(tasks', loaded', removed', backups', unsaved')
    BY <1>2, StartIsGood DEF Restart
  <2> QED
    BY <1>2, <2>1 DEF Restart, StoreRestarts, HistoryInv
<1> QED
  BY <1>1, <1>2, PersonKeeps, AnswersKeep DEF ChatNext, Rested

\* electron/conversation-store.ts: a conversation of an earlier run is in the
\* file, or in a backup, until it is deleted -- whatever crashes, cannot be read,
\* overlaps or is rejected on the way.
THEOREM EarlierHistoryIsKept == ChatSpec => []HistoryIsKept
<1>1. HistoryInv => HistoryIsKept
  BY DEF HistoryInv, HistoryIsKept, Kept
<1> QED
  BY <1>1, HistoryInit, HistoryStep, PTL DEF ChatSpec
=============================================================================
