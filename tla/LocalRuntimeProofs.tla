------------------------- MODULE LocalRuntimeProofs -------------------------
(***************************************************************************)
(* What holds of the start of the app, of its local models, of the store   *)
(* of imported models and of the inference queue, for any files, items,    *)
(* models, requests, providers, slots and numbers of restarts: no torn     *)
(* file is published, a start that fails leaves no server, a call that is  *)
(* cancelled in time has no result, bytes that failed their checksum do    *)
(* not stay installed, an aborted request reaches no provider, and the     *)
(* queue is a BoundedPool.                                                 *)
(***************************************************************************)
EXTENDS LocalSpeech, ModelStore, InferenceRuntime,
        FiniteSetTheorems, SequenceTheorems, WellFoundedInduction, TLAPS

-----------------------------------------------------------------------------
(* The files.                                                              *)

\* The job of a copy, or of a companion, is at a file that there is.
InRange ==
  /\ job.item \in 1..Len(Items)
  /\ job.from \in 1..Len(Items[job.item].sources)
  /\ job.beside => BesideSource[Items[job.item].sources[job.from]] # NoFile

JobType ==
  job \in [item : Nat \ {0}, from : Nat \ {0}, beside : BOOLEAN,
           at : {"looks", "copies", "copied"}, size : Contents \ {"torn"}]

\* TargetsAreNeverTorn alone is not inductive: what is published is compared
\* with the size the job remembers, which must not be that of a torn file.
FilesInv ==
  /\ source \in [Sources -> Contents \ {"torn"}]
  /\ target \in [Targets -> Contents \ {"torn"}]
  /\ JobType
  /\ job.beside \/ job.at # "looks" => InRange

LEMMA RangeHasSource ==
  ASSUME InRange, JobType
  PROVE  Main \in Sources /\ Src \in Sources
<1>1. Items[job.item] \in [target : Targets, sources : Seq(Sources), binary : BOOLEAN]
  <2> DEFINE S == [target : Targets, sources : Seq(Sources), binary : BOOLEAN]
  <2>1. Items \in Seq(S)
    BY ProvisioningAssumption
  <2>2. job.item \in 1..Len(Items)
    BY DEF InRange
  <2> HIDE DEF S
  <2>3. Items[job.item] \in S
    BY <2>1, <2>2
  <2> QED BY <2>3 DEF S
<1>2. Main \in Sources
  BY <1>1 DEF InRange, Main, Item
<1>3. BesideSource[Main] \in Sources \cup {NoFile}
  BY <1>2, ProvisioningAssumption
<1>4. job.beside => BesideSource[Main] # NoFile
  BY DEF InRange, Main, Item
<1>5. Src = IF job.beside THEN BesideSource[Main] ELSE Main
  BY DEF Src
<1>6. job.beside => Src \in Sources
  BY <1>3, <1>4, <1>5
<1>7. ~job.beside => Src \in Sources
  BY <1>2, <1>5
<1> QED BY <1>2, <1>6, <1>7

LEMMA TriesInRange ==
  ASSUME FilesInv, Tries
  PROVE  InRange
<1>1. CASE job.beside
  BY <1>1 DEF FilesInv
<1>2. CASE ~job.beside
  <2>1. job.item \in 1..Len(Items) /\ job.from \in 1..Len(Items[job.item].sources)
    <3>1. job.item \in Nat \ {0} /\ job.from \in Nat \ {0}
      BY DEF FilesInv, JobType
    <3>2. ~(job.item > Len(Items)) /\ job.from <= Len(Items[job.item].sources)
      BY <1>2 DEF Tries, Looking, Provisioned, Item
    <3>3. Len(Items) \in Nat
      BY ProvisioningAssumption
    <3>4. job.item \in 1..Len(Items)
      BY <3>1, <3>2, <3>3
    <3>5. Len(Items[job.item].sources) \in Nat
      BY <3>4, ProvisioningAssumption
    <3> QED BY <3>1, <3>2, <3>4, <3>5
  <2> QED BY <1>2, <2>1 DEF InRange
<1> QED BY <1>1, <1>2 DEF FilesInv, JobType

LEMMA NextShape ==
  ASSUME job.item \in Nat \ {0}, job.from \in Nat \ {0}, job' = NextItem \/ job' = NextSource
  PROVE  JobType' /\ ~job'.beside /\ job'.at = "looks"
<1>1. "absent" \in Contents \ {"torn"}
  BY DEF Contents
<1>2. CASE job' = NextItem
  <2>1. job' = [item |-> job.item + 1, from |-> 1, beside |-> FALSE,
                at |-> "looks", size |-> "absent"]
    BY <1>2 DEF NextItem, Start
  <2> QED BY <1>1, <2>1 DEF JobType
<1>3. CASE job' = NextSource
  <2>1. job' = [item |-> job.item, from |-> job.from + 1, beside |-> FALSE,
                at |-> "looks", size |-> "absent"]
    BY <1>3 DEF NextSource, Start
  <2> QED BY <1>1, <2>1 DEF JobType
<1> QED BY <1>2, <1>3

\* Wherever the loop goes next, it looks; at a companion only if there is one.
LEMMA AfterShape ==
  ASSUME FilesInv, InRange, NEW ok \in BOOLEAN, After(ok)
  PROVE  JobType' /\ (job'.beside \/ job'.at # "looks" => InRange')
<1>0. "absent" \in Contents \ {"torn"} /\ "looks" \in {"looks", "copies", "copied"}
  BY DEF Contents
<1>1. job.item \in Nat \ {0} /\ job.from \in Nat \ {0}
  BY DEF FilesInv, JobType
<1>2. CASE job' = NextItem \/ job' = NextSource
  BY <1>1, <1>2, NextShape
<1>3. CASE job' = Companion /\ BesideSource[Main] # NoFile
  <2>1. job' = [item |-> job.item, from |-> job.from, beside |-> TRUE,
                at |-> "looks", size |-> "absent"]
    BY <1>3 DEF Companion, Start
  <2>2. JobType'
    BY <1>0, <1>1, <2>1 DEF JobType
  <2>3. BesideSource[Items[job.item].sources[job.from]] # NoFile
    BY <1>3 DEF Main, Item
  <2>4. InRange'
    BY <2>1, <2>3 DEF InRange
  <2> QED BY <2>2, <2>4
<1> QED BY <1>2, <1>3 DEF After

LEMMA ProvisionsPreserve ==
  ASSUME FilesInv, Provisions
  PROVE  FilesInv'
<1>1. CASE Passes
  <2>1. job.item \in Nat \ {0} /\ job.from \in Nat \ {0} /\ "absent" \in Contents \ {"torn"}
    BY DEF FilesInv, JobType, Contents
  <2>2. CASE job' = NextItem \/ job' = NextSource
    <3>1. JobType' /\ ~job'.beside /\ job'.at = "looks"
      BY <2>1, <2>2, NextShape
    <3> QED BY <1>1, <3>1 DEF Passes, FilesInv
  <2>3. CASE job.from <= Len(Item.sources) /\ After(TRUE)
    <3>1. InRange
      <4>1. ~(job.item > Len(Items)) /\ ~job.beside /\ Len(Items) \in Nat
        BY <1>1, ProvisioningAssumption DEF Passes, Looking, Provisioned
      <4>2. job.item \in 1..Len(Items)
        BY <2>1, <4>1
      <4>3. Len(Items[job.item].sources) \in Nat
        BY <4>2, ProvisioningAssumption
      <4> QED BY <2>1, <2>3, <4>1, <4>2, <4>3 DEF InRange, Item
    <3> QED BY <1>1, <2>3, <3>1, AfterShape DEF Passes, FilesInv
  <2> QED BY <1>1, <2>2, <2>3 DEF Passes
<1>2. CASE Declines
  BY <1>2, TriesInRange, AfterShape DEF Declines, FilesInv
<1>3. CASE Links
  <2>1. InRange /\ source[Src] \in Contents \ {"torn"}
    BY <1>3, TriesInRange, RangeHasSource DEF Links, FilesInv
  <2>2. target' \in [Targets -> Contents \ {"torn"}]
    BY <1>3, <2>1 DEF Links, FilesInv
  <2> QED BY <1>3, <2>1, <2>2, AfterShape DEF Links, FilesInv
<1>4. CASE Copies
  <2>1. InRange /\ source[Src] \in Contents \ {"torn"}
    BY <1>4, TriesInRange, RangeHasSource DEF Copies, FilesInv
  <2>2. JobType' /\ job'.item = job.item /\ job'.from = job.from /\ job'.beside = job.beside
    BY <1>4, <2>1 DEF Copies, FilesInv, JobType
  <2>3. InRange'
    BY <2>1, <2>2 DEF InRange
  <2> QED BY <1>4, <2>2, <2>3 DEF Copies, FilesInv
<1>5. CASE CopyReturns
  <2>1. InRange
    BY <1>5 DEF CopyReturns, FilesInv
  <2>2. JobType' /\ job'.item = job.item /\ job'.from = job.from /\ job'.beside = job.beside
    BY <1>5 DEF CopyReturns, FilesInv, JobType
  <2>3. InRange'
    BY <2>1, <2>2 DEF InRange
  <2> QED BY <1>5, <2>2, <2>3 DEF CopyReturns, FilesInv
<1>6. CASE CopyFails
  BY <1>6, AfterShape DEF CopyFails, FilesInv
<1>7. CASE Publishes
  <2>1. job.size \in Contents \ {"torn"}
    BY DEF FilesInv, JobType
  <2>2. target' \in [Targets -> Contents \ {"torn"}]
    BY <1>7, <2>1 DEF Publishes, FilesInv
  <2> QED BY <1>7, <2>2, AfterShape DEF Publishes, FilesInv
<1>8. CASE Discards
  BY <1>8, AfterShape DEF Discards, FilesInv
<1>9. CASE GivesUp
  <2>1. Len(Items) + 1 \in Nat \ {0}
    BY ProvisioningAssumption
  <2> QED BY <1>9, <2>1 DEF GivesUp, FilesInv, JobType, Start
<1> QED BY <1>1, <1>2, <1>3, <1>4, <1>5, <1>6, <1>7, <1>8, <1>9 DEF Provisions

\* What the person does to the files tears none.
LEMMA EditsPreserve ==
  ASSUME FilesInv, Edits
  PROVE  FilesInv'
<1>1. /\ source' \in [Sources -> Contents \ {"torn"}]
      /\ target' \in [Targets -> Contents \ {"torn"}]
  <2>1. ASSUME NEW s \in Sources, Downloads(s)
        PROVE  /\ source' \in [Sources -> Contents \ {"torn"}]
               /\ target' \in [Targets -> Contents \ {"torn"}]
    <3>1. source' \in [Sources -> Contents \ {"torn"}]
      BY <2>1 DEF Downloads, FilesInv, Contents
    <3> QED BY <2>1, <3>1 DEF Downloads, FilesInv
  <2>2. ASSUME NEW s \in Sources, RemovesSource(s)
        PROVE  /\ source' \in [Sources -> Contents \ {"torn"}]
               /\ target' \in [Targets -> Contents \ {"torn"}]
    BY <2>2 DEF RemovesSource, FilesInv, Contents
  <2>3. ASSUME NEW t \in Targets, RemovesTarget(t)
        PROVE  /\ source' \in [Sources -> Contents \ {"torn"}]
               /\ target' \in [Targets -> Contents \ {"torn"}]
    BY <2>3 DEF RemovesTarget, FilesInv, Contents
  <2> QED BY <2>1, <2>2, <2>3 DEF Edits
<1>2. job' = job
  BY DEF Edits
<1> QED BY <1>1, <1>2 DEF FilesInv, JobType, InRange

-----------------------------------------------------------------------------
(* The server.                                                             *)

\* FailedStartsLeaveNoServer needs to know that nothing runs before a start,
\* and that an exit that was seen is one.
ServerInv ==
  /\ server.at = "off" => process = "none" /\ ~server.exited
  /\ server.exited => process = "dead"
  /\ FailedStartsLeaveNoServer
  /\ server \in [at : {"off", "polls", "asks", "ready", "failed"},
                 exited : BOOLEAN, late : BOOLEAN, handle : BOOLEAN]
  /\ process \in {"none", "loading", "serving", "dead"}
  /\ killed \in BOOLEAN

ServerStep == Spawns \/ SpawnThrows \/ Starts \/ ProcessServes \/ ProcessDies \/ ExitSeen
              \/ DeadlinePasses \/ OrphanDies \/ ServerOutlivesApp \/ UNCHANGED serverVars

LEMMA ServerPreserved ==
  ASSUME ServerInv, ServerStep
  PROVE  ServerInv'
<1> USE DEF ServerInv, FailedStartsLeaveNoServer, Alive
<1>1. CASE Spawns
  BY <1>1 DEF Spawns
<1>2. CASE SpawnThrows
  BY <1>2 DEF SpawnThrows
<1>3. CASE TooLate
  <2>1. /\ server' = [server EXCEPT !.at = "failed", !.handle = FALSE]
        /\ process' = process /\ server.at = "polls"
    BY <1>3 DEF TooLate, Stops
  <2>2. killed' = (killed \/ Alive)
    BY <1>3 DEF TooLate, Stops
  <2>3. killed' \in BOOLEAN /\ (Alive' => killed')
    <3>1. Alive' = Alive
      BY <2>1
    <3>2. CASE Alive
      BY <2>2, <3>2
    <3>3. CASE ~Alive
      BY <2>2, <3>1, <3>3
    <3> QED BY <3>2, <3>3
  <2>4. FailedStartsLeaveNoServer'
    BY <2>3
  <2> QED BY <2>1, <2>3, <2>4
<1>4. CASE ExitedEarly
  BY <1>4 DEF ExitedEarly
<1>5. CASE AsksHealth \/ Healthy \/ NotYet
  BY <1>5 DEF AsksHealth, Healthy, NotYet
<1>6. CASE ProcessServes \/ ProcessDies
  BY <1>6 DEF ProcessServes, ProcessDies
<1>7. CASE ExitSeen \/ DeadlinePasses
  BY <1>7 DEF ExitSeen, DeadlinePasses, Polling
<1>8. CASE OrphanDies
  BY <1>8 DEF OrphanDies
<1>9. CASE ServerOutlivesApp
  BY <1>9 DEF ServerOutlivesApp, Off
<1>10. CASE UNCHANGED serverVars
  BY <1>10 DEF serverVars
<1> QED BY <1>1, <1>2, <1>3, <1>4, <1>5, <1>6, <1>7, <1>8, <1>9, <1>10 DEF ServerStep, Starts

-----------------------------------------------------------------------------
(* The calls.                                                              *)

CallType ==
  [at : {"idle", "checks", "prepared", "runs", "ended", "reads", "done"}, again : BOOLEAN,
   exit : {"none", "ok", "language", "error", "signal"}, heard : BOOLEAN,
   killed : BOOLEAN, late : BOOLEAN, aborted : {"no", "before", "after"},
   says : {"nothing", "error", "result"}, files : SUBSET {"input", "output"}]

\* Only a first run can have been started after its call was cancelled, and its
\* exit is not all that is asked about; a second run listens to the signal.
Silent(r) ==
  /\ r.again => r.at \notin {"idle", "checks", "prepared"}
  /\ r.again /\ r.at = "runs" =>
       /\ r.aborted = "no" => r.heard
       /\ r.aborted = "before" => r.killed
       /\ r.aborted # "after"
  /\ r.again /\ r.at = "ended" /\ r.aborted = "before" => r.exit = "signal"
  /\ r.at = "reads" => r.aborted # "before"
  /\ r.says = "result" => r.at = "done" /\ r.aborted # "before"

CallsInv == call \in [Calls -> CallType] /\ \A c \in Calls : Silent(call[c])

LEMMA BecomesSilent ==
  ASSUME CallsInv, NEW c \in Calls, NEW r \in CallType, Silent(r), Becomes(c, r)
  PROVE  CallsInv'
BY DEF CallsInv, Becomes

LEMMA RunningSilent ==
  ASSUME NEW r \in CallType, r.says # "result", r.again => r.aborted = "no"
  PROVE  Running(r) \in CallType /\ Silent(Running(r))
BY DEF Running, CallType, Silent

LEMMA SpeechPreserves ==
  ASSUME CallsInv, SpeechSteps
  PROVE  CallsInv'
<1> PICK c \in Calls :
      \/ Asks(c) \/ Aborts(c) \/ Proceeds(c) \/ SpawnFails(c) \/ TimesOut(c) \/ Obeys(c)
      \/ \E exit \in {"ok", "language", "error"} : Ends(c, exit)
  BY DEF SpeechSteps
<1>0. call[c] \in CallType /\ Silent(call[c])
  BY DEF CallsInv
<1>1. CASE Asks(c)
  <2>1. [call[c] EXCEPT !.at = "checks"] \in CallType /\ Silent([call[c] EXCEPT !.at = "checks"])
    BY <1>0, <1>1 DEF Asks, CallType, Silent
  <2> QED BY <1>1, <2>1, BecomesSilent DEF Asks
<1>2. CASE Aborts(c)
  <2> DEFINE r == [call[c] EXCEPT
       !.aborted = IF call[c].at \in {"checks", "prepared", "runs"} THEN "before" ELSE "after",
       !.killed = @ \/ (call[c].at = "runs" /\ call[c].heard)]
  <2>1. r \in CallType /\ Silent(r)
    BY <1>0, <1>2 DEF Aborts, CallType, Silent
  <2> QED BY <1>2, <2>1, BecomesSilent DEF Aborts
<1>3. ASSUME call[c].at # "idle", Errs(c)
      PROVE  CallsInv'
  <2>1. [call[c] EXCEPT !.at = "done", !.says = "error"] \in CallType
        /\ Silent([call[c] EXCEPT !.at = "done", !.says = "error"])
    BY <1>0, <1>3 DEF CallType, Silent
  <2> QED BY <1>3, <2>1, BecomesSilent DEF Errs
<1>4. CASE Missing(c) \/ Unreadable(c) \/ SpawnFails(c)
  BY <1>3, <1>4 DEF Missing, Unreadable, SpawnFails
<1>5. CASE Prepares(c)
  <2> DEFINE r == [call[c] EXCEPT !.at = "prepared", !.files = IF c \in Whispers THEN {"input"} ELSE {}]
  <2>1. r \in CallType /\ Silent(r)
    BY <1>0, <1>5 DEF Prepares, CallType, Silent
  <2> QED BY <1>5, <2>1, BecomesSilent DEF Prepares
<1>6. CASE Runs(c)
  <2>1. Running(call[c]) \in CallType /\ Silent(Running(call[c]))
    BY <1>0, <1>6, RunningSilent DEF Runs, Silent
  <2> QED BY <1>6, <2>1, BecomesSilent DEF Runs
<1>7. CASE Returns(c)
  <2>1. CASE Uses(c) /\ Unsuited(c)
    <3> DEFINE r == [call[c] EXCEPT !.again = TRUE]
    <3>1. r \in CallType /\ r.says # "result" /\ (r.again => r.aborted = "no")
      BY <1>0, <1>7, <2>1 DEF Returns, Uses, Unsuited, CallType, Silent
    <3>2. Running(r) \in CallType /\ Silent(Running(r))
      BY <3>1, RunningSilent
    <3> QED BY <1>7, <2>1, <3>2, BecomesSilent DEF Returns
  <2>2. CASE Uses(c) /\ ~Unsuited(c) /\ call[c].exit = "ok"
    <3>1. [call[c] EXCEPT !.at = "reads"] \in CallType /\ Silent([call[c] EXCEPT !.at = "reads"])
      BY <1>0, <1>7, <2>2 DEF Returns, Uses, CallType, Silent
    <3> QED BY <1>7, <2>2, <3>1, BecomesSilent DEF Returns
  <2>3. CASE ~(Uses(c) /\ Unsuited(c)) /\ ~(Uses(c) /\ call[c].exit = "ok")
    BY <1>3, <1>7, <2>3 DEF Returns
  <2> QED BY <2>1, <2>2, <2>3
<1>8. CASE Reads(c)
  <2> DEFINE r == [call[c] EXCEPT !.at = "done", !.says = "result", !.files = {}]
  <2>1. r \in CallType /\ Silent(r)
    BY <1>0, <1>8 DEF Reads, CallType, Silent
  <2> QED BY <1>8, <2>1, BecomesSilent DEF Reads, Yields
<1>9. CASE TimesOut(c)
  <2>1. [call[c] EXCEPT !.late = TRUE, !.killed = TRUE] \in CallType
        /\ Silent([call[c] EXCEPT !.late = TRUE, !.killed = TRUE])
    BY <1>0, <1>9 DEF TimesOut, CallType, Silent
  <2> QED BY <1>9, <2>1, BecomesSilent DEF TimesOut
<1>10. ASSUME NEW exit \in {"ok", "language", "error", "signal"}, Ends(c, exit)
       PROVE  CallsInv'
  <2> DEFINE r == [call[c] EXCEPT !.at = "ended", !.exit = exit,
                     !.files = IF exit = "ok" THEN @ \cup {"output"} ELSE @]
  <2>1. r \in CallType /\ Silent(r)
    BY <1>0, <1>10 DEF Ends, CallType, Silent
  <2> QED BY <1>10, <2>1, BecomesSilent DEF Ends
<1> QED BY <1>1, <1>2, <1>4, <1>5, <1>6, <1>7, <1>8, <1>9, <1>10 DEF Proceeds, Obeys

-----------------------------------------------------------------------------
(* All of it.                                                              *)

LocalInv == FilesInv /\ ServerInv /\ CallsInv

LEMMA LocalInitially == SpeechInit => LocalInv
<1> SUFFICES ASSUME SpeechInit
             PROVE  LocalInv
  OBVIOUS
<1>1. FilesInv
  BY ProvisioningAssumption DEF SpeechInit, StartupInit, FilesInit, FilesInv, JobType, Start, Contents
<1>2. ServerInv
  BY DEF SpeechInit, StartupInit, ServerInit, ServerInv, FailedStartsLeaveNoServer, Alive, Off
<1>3. CallsInv
  BY DEF SpeechInit, NoCall, CallsInv, CallType, Silent
<1> QED BY <1>1, <1>2, <1>3 DEF LocalInv

LEMMA FilesStutter ==
  ASSUME FilesInv, UNCHANGED <<source, target>>, job' = job \/ job' = Start
  PROVE  FilesInv'
<1>1. CASE job' = job
  BY <1>1 DEF FilesInv, JobType, InRange
<1>2. CASE job' = Start
  BY <1>2 DEF FilesInv, JobType, Start, Contents
<1> QED BY <1>1, <1>2

LEMMA LocalPreserved == LocalInv /\ [LocalNext]_localVars => LocalInv'
<1> SUFFICES ASSUME LocalInv, [LocalNext]_localVars
             PROVE  LocalInv'
  OBVIOUS
<1>0. FilesInv /\ ServerInv /\ CallsInv
  BY DEF LocalInv
<1>1. ASSUME UNCHANGED call
      PROVE  CallsInv'
  BY <1>0, <1>1 DEF CallsInv
<1>2. ASSUME UNCHANGED fileVars
      PROVE  FilesInv'
  BY <1>0, <1>2, FilesStutter DEF fileVars
<1>3. ASSUME UNCHANGED serverVars
      PROVE  ServerInv'
  BY <1>0, <1>3, ServerPreserved DEF ServerStep
<1>4. CASE StartSteps /\ UNCHANGED call
  <2>1. CASE ProvisionsModels
    <3>1. FilesInv'
      BY <1>0, <1>2, <2>1, ProvisionsPreserve DEF ProvisionsModels
    <3> QED BY <1>1, <1>3, <1>4, <2>1, <3>1 DEF ProvisionsModels, LocalInv
  <2>2. CASE StartsServer
    <3>1. ServerInv'
      BY <1>0, <2>2, ServerPreserved DEF StartsServer, ServerStep
    <3> QED BY <1>1, <1>2, <1>4, <2>2, <3>1 DEF StartsServer, LocalInv
  <2>3. CASE Reports \/ Rejects \/ DetectsVoices \/ NoServer \/ ServerSettled
    BY <1>1, <1>2, <1>3, <1>4, <2>3 DEF Reports, Rejects, DetectsVoices, NoServer, ServerSettled, LocalInv
  <2> QED BY <1>4, <2>1, <2>2, <2>3 DEF StartSteps
<1>5. CASE Beside /\ UNCHANGED call
  <2>1. CASE Edits /\ UNCHANGED serverVars
    BY <1>0, <1>1, <1>3, <1>5, <2>1, EditsPreserve DEF LocalInv
  <2>2. CASE UNCHANGED fileVars /\ (ProcessServes \/ ProcessDies \/ ExitSeen \/ OrphanDies)
    <3>1. ServerInv'
      BY <1>0, <2>2, ServerPreserved DEF ServerStep
    <3> QED BY <1>1, <1>2, <1>5, <2>2, <3>1 DEF LocalInv
  <2> QED BY <1>5, <2>1, <2>2 DEF Beside
<1>6. CASE Deadline /\ UNCHANGED call
  <2>1. ServerInv'
    BY <1>0, <1>6, ServerPreserved DEF Deadline, ServerStep
  <2> QED BY <1>1, <1>2, <1>6, <2>1 DEF Deadline, LocalInv
<1>7. CASE RestartsApp /\ call' = [c \in Calls |-> NoCall]
  <2>1. ServerInv'
    BY <1>0, <1>7, ServerPreserved DEF RestartsApp, ServerStep
  <2>2. FilesInv'
    BY <1>0, <1>7, FilesStutter DEF RestartsApp
  <2>3. CallsInv'
    BY <1>7 DEF NoCall, CallsInv, CallType, Silent
  <2> QED BY <2>1, <2>2, <2>3 DEF LocalInv
<1>8. CASE SpeechSteps
  <2>1. UNCHANGED startupVars
    BY <1>8 DEF SpeechSteps, Asks, Aborts, Proceeds, Missing, Prepares, Runs, Returns, Reads, Unreadable,
                SpawnFails, TimesOut, Obeys, Ends, Errs, Yields, Becomes
  <2> QED BY <1>0, <1>2, <1>3, <1>8, <2>1, SpeechPreserves DEF startupVars, LocalInv
<1>9. CASE UNCHANGED localVars
  BY <1>1, <1>2, <1>3, <1>9 DEF localVars, startupVars, LocalInv
<1> QED BY <1>4, <1>5, <1>6, <1>7, <1>8, <1>9 DEF LocalNext

THEOREM LocalInductive == LocalSpec => []LocalInv
BY LocalInitially, LocalPreserved, PTL DEF LocalSpec

\* For any items, sources and companions, any number of restarts and of
\* changes to the files: no file of the models directory is ever torn.
THEOREM NothingTornIsPublished == LocalSpec => []TargetsAreNeverTorn
<1>1. LocalInv => TargetsAreNeverTorn
  BY DEF LocalInv, FilesInv, TargetsAreNeverTorn
<1> QED BY <1>1, LocalInductive, PTL

\* A start of the language model's server that rejects has left no process, or
\* one that was told to stop, however its exit and the deadline raced.
THEOREM FailedStartsAreCleanedUp == LocalSpec => []FailedStartsLeaveNoServer
<1>1. LocalInv => FailedStartsLeaveNoServer
  BY DEF LocalInv, ServerInv
<1> QED BY <1>1, LocalInductive, PTL

\* For any calls and models: a call that was cancelled before its process had
\* ended yields no result.
THEOREM CancelledCallsAreSilent == LocalSpec => []CancelledCallsSayNothing
<1>1. LocalInv => CancelledCallsSayNothing
  BY DEF LocalInv, CallsInv, Silent, CancelledCallsSayNothing
<1> QED BY <1>1, LocalInductive, PTL

-----------------------------------------------------------------------------
(* The model store.                                                        *)

LEMMA NatOrderIsWellFounded ==
  IsWellFoundedOn({ss \in Nat \X Nat : ss[1] < ss[2]}, Nat)
BY NatLessThanWellFounded, Zenon DEF OpToRel

\* Every set of natural numbers has a least element.
LEMMA LeastNumber ==
  ASSUME NEW T \in SUBSET Nat, T # {}
  PROVE  \E n \in T : \A m \in T : n <= m
<1> DEFINE R == {ss \in Nat \X Nat : ss[1] < ss[2]}
<1>1. IsWellFoundedOn(R, Nat)
  BY NatOrderIsWellFounded
<1> HIDE DEF R
<1>2. \E x \in T : \A y \in T : ~(<<y, x>> \in R)
  BY <1>1, WFMin, Zenon
<1>3. ASSUME NEW x \in T, NEW y \in T, ~(<<y, x>> \in R)
      PROVE  x <= y
  <2>1. x \in Nat /\ y \in Nat
    OBVIOUS
  <2>2. CASE y < x
    BY <1>3, <2>1, <2>2 DEF R
  <2> QED
    BY <2>1, <2>2
<1> QED
  BY <1>2, <1>3

\* The records of a model name files of its own.
RecordsOf(m) == {r \in Records : r.file[1] = m}

Victims == {v \in Models \X Records : v[2].file[1] = v[1]}

StoreOps ==
  {"none", "install", "update", "import", "bad import", "uninstall", "rollback", "cleanup"}
StoreStages ==
  {"none", "fetches", "writes", "written", "verifies", "rejects", "unmarks", "enforces",
   "deletes", "forgets", "stats", "evicts", "evicted"}

Doings ==
  [op : StoreOps, model : Models \cup {NoModel}, version : Versions \cup {0},
   at : StoreStages, victims : SUBSET Victims]

\* While a call brings a file, it knows which.
Brings(d) ==
  d.at \in {"fetches", "writes", "written", "verifies", "rejects"} =>
    d.model \in Models /\ d.version \in Versions

\* The import that has written f is not done with it.
Checks(d, f) ==
  /\ d.op = "bad import" /\ d.at \in {"written", "verifies", "rejects"}
  /\ f = <<d.model, d.version, "import">>

StoreType ==
  /\ catalog \in [Models -> Versions \cup {0}]
  /\ \A m \in Models : installed[m] \in RecordsOf(m) \cup {NoModel}
  /\ installed = [m \in Models |-> installed[m]]
  /\ \A m \in Models : history[m] \in Seq(RecordsOf(m))
  /\ history = [m \in Models |-> history[m]]
  /\ disk \in [Files -> {"absent", "torn", "good", "bad"}]

CallsBring ==
  /\ doing \in [Callers -> Doings]
  /\ \A c \in Callers : Brings(doing[c])

BadIsChecked ==
  \A f \in Files : disk[f] = "bad" => \E c \in Callers : Checks(doing[c], f)

StoreInv == StoreType /\ CallsBring /\ BadIsChecked

LEMMA NothingIsWaited ==
  Nothing \in Doings /\ Brings(Nothing) /\ \A f : ~Checks(Nothing, f)
<1>1. Nothing.op = "none" /\ Nothing.at = "none"
  BY DEF Nothing
<1>2. Brings(Nothing) /\ \A f : ~Checks(Nothing, f)
  BY <1>1 DEF Brings, Checks
<1>3. {} \in SUBSET Victims
  OBVIOUS
<1>4. Nothing \in Doings
  BY <1>3 DEF Nothing, Doings, StoreOps, StoreStages
<1> QED
  BY <1>2, <1>4

LEMMA StoreInitially == StoreInit => StoreInv
<1> SUFFICES ASSUME StoreInit PROVE StoreInv
  OBVIOUS
<1>1. StoreType
  BY DEF StoreInit, StoreType
<1>2. Nothing \in Doings /\ Brings(Nothing)
  BY NothingIsWaited
<1>3. CallsBring
  BY <1>2 DEF StoreInit, CallsBring
<1>4. BadIsChecked
  BY DEF StoreInit, BadIsChecked
<1> QED
  BY <1>1, <1>3, <1>4 DEF StoreInv

\* It is enough to look at the call that moves.
LEMMA CallMoves ==
  ASSUME CallsBring, NEW c \in Callers, NEW d \in Doings, Brings(d),
         doing' = [doing EXCEPT ![c] = d]
  PROVE  /\ CallsBring' /\ doing'[c] = d
         /\ \A b \in Callers \ {c} : doing'[b] = doing[b]
BY DEF CallsBring

\* A bad file that stays is checked by whoever checked it, or by the call that
\* has just written it.
LEMMA BadStaysChecked ==
  ASSUME StoreInv, NEW c \in Callers,
         \A b \in Callers \ {c} : doing'[b] = doing[b],
         \A f \in Files : disk'[f] = "bad" =>
           \/ Checks(doing'[c], f)
           \/ disk[f] = "bad" /\ ~Checks(doing[c], f)
  PROVE  BadIsChecked'
<1> SUFFICES ASSUME NEW f \in Files, disk'[f] = "bad"
             PROVE  \E b \in Callers : Checks(doing'[b], f)
  BY DEF BadIsChecked, Checks
<1>1. CASE Checks(doing'[c], f)
  BY <1>1
<1>2. CASE disk[f] = "bad" /\ ~Checks(doing[c], f)
  <2>1. PICK b \in Callers : Checks(doing[b], f)
    BY <1>2 DEF StoreInv, BadIsChecked
  <2>2. b # c
    BY <1>2, <2>1
  <2> QED
    BY <2>1, <2>2
<1> QED
  BY <1>1, <1>2

\* A call goes on to its next wait.
LEMMA CallGoesOn ==
  ASSUME CallsBring, NEW c \in Callers, NEW a \in StoreStages, Does(c, a)
  PROVE  LET d == [doing[c] EXCEPT !.at = a] IN
         /\ doing' = [doing EXCEPT ![c] = d]
         /\ d \in Doings /\ d.op = doing[c].op /\ d.model = doing[c].model
         /\ d.version = doing[c].version /\ d.at = a
<1> DEFINE d == [doing[c] EXCEPT !.at = a]
<1>1. doing[c] \in Doings
  BY DEF CallsBring
<1>2. doing' = [doing EXCEPT ![c] = d]
  BY DEF Does
<1>3. ASSUME NEW r \in Doings
      PROVE  LET e == [r EXCEPT !.at = a] IN
             e \in Doings /\ e.op = r.op /\ e.model = r.model /\ e.version = r.version /\ e.at = a
  BY DEF Doings
<1>4. d \in Doings /\ d.op = doing[c].op /\ d.model = doing[c].model
      /\ d.version = doing[c].version /\ d.at = a
  BY <1>1, <1>3
<1> QED
  BY <1>2, <1>4

LEMMA CallSettles ==
  ASSUME CallsBring, NEW c \in Callers, Settles(c)
  PROVE  /\ CallsBring' /\ doing'[c] = Nothing
         /\ \A b \in Callers \ {c} : doing'[b] = doing[b]
         /\ \A f : ~Checks(doing'[c], f)
<1>1. Nothing \in Doings /\ Brings(Nothing) /\ \A f : ~Checks(Nothing, f)
  BY NothingIsWaited
<1>2. doing' = [doing EXCEPT ![c] = Nothing]
  BY DEF Settles
<1> QED
  BY <1>1, <1>2, CallMoves

LEMMA CallBegins ==
  ASSUME CallsBring, NEW c \in Callers, NEW op \in StoreOps, NEW m \in Models \cup {NoModel},
         NEW v \in Versions \cup {0}, NEW a \in StoreStages,
         (m \in Models /\ v \in Versions) \/ a = "enforces",
         Begins(c, op, m, v, a)
  PROVE  /\ CallsBring'
         /\ \A b \in Callers \ {c} : doing'[b] = doing[b]
         /\ doing[c] = Nothing
<1> DEFINE d == [op |-> op, model |-> m, version |-> v, at |-> a, victims |-> {}]
<1>1. d.at = a /\ d.model = m /\ d.version = v
  OBVIOUS
<1>2. {} \in SUBSET Victims
  OBVIOUS
<1>3. d \in Doings
  BY <1>2 DEF Doings
<1>4. doing' = [doing EXCEPT ![c] = d] /\ doing[c] = Nothing
  BY DEF Begins
<1> HIDE DEF d
<1>5. Brings(d)
  BY <1>1 DEF Brings
<1> QED
  BY <1>3, <1>4, <1>5, CallMoves

\* What a call that is not checking a file does with the disk as it is.
LEMMA DiskStays ==
  ASSUME StoreInv, NEW c \in Callers, UNCHANGED disk,
         \A b \in Callers \ {c} : doing'[b] = doing[b],
         \A f \in Files : ~Checks(doing[c], f) \/ Checks(doing'[c], f) \/ disk[f] # "bad"
  PROVE  BadIsChecked'
BY BadStaysChecked

LEMMA FileOfCall ==
  ASSUME CallsBring, NEW c \in Callers,
         doing[c].at \in {"fetches", "writes", "written", "verifies", "rejects"}
  PROVE  /\ FileOf(c) \in Files /\ FileOf(c)[1] = doing[c].model
         /\ doing[c].model \in Models /\ doing[c].version \in Versions
         /\ doing[c].op = "bad import" =>
              FileOf(c) = <<doing[c].model, doing[c].version, "import">>
<1>1. doing[c].model \in Models /\ doing[c].version \in Versions
  BY DEF CallsBring, Brings
<1> QED
  BY <1>1 DEF FileOf, Files

\* A file is written, or goes.
LEMMA DiskType ==
  ASSUME StoreType, NEW f \in Files, NEW x \in {"absent", "torn", "good", "bad"},
         disk' = [disk EXCEPT ![f] = x]
  PROVE  /\ disk' \in [Files -> {"absent", "torn", "good", "bad"}]
         /\ disk'[f] = x /\ \A g \in Files \ {f} : disk'[g] = disk[g]
BY DEF StoreType

\* The disk has a bad file only if it had it, when what is written is not bad.
LEMMA NotBad ==
  ASSUME StoreInv, NEW c \in Callers, NEW f \in Files, NEW x \in {"absent", "torn", "good"},
         disk' = [disk EXCEPT ![f] = x],
         \A b \in Callers \ {c} : doing'[b] = doing[b],
         \A g \in Files \ {f} : ~Checks(doing[c], g) \/ Checks(doing'[c], g)
  PROVE  /\ disk' \in [Files -> {"absent", "torn", "good", "bad"}]
         /\ BadIsChecked'
<1>1. /\ disk' \in [Files -> {"absent", "torn", "good", "bad"}]
      /\ disk'[f] = x /\ \A g \in Files \ {f} : disk'[g] = disk[g]
  BY DiskType DEF StoreInv
<1>2. ASSUME NEW g \in Files, disk'[g] = "bad"
      PROVE  Checks(doing'[c], g) \/ (disk[g] = "bad" /\ ~Checks(doing[c], g))
  <2>1. g # f
    BY <1>1, <1>2
  <2> QED
    BY <2>1, <1>1, <1>2
<1> QED
  BY <1>1, <1>2, BadStaysChecked

LEMMA VictimFile ==
  ASSUME CallsBring, NEW c \in Callers, NEW v \in doing[c].victims
  PROVE  v[1] \in Models /\ v[2] \in RecordsOf(v[1]) /\ v[2].file \in Files
<1>1. v \in Victims
  BY DEF CallsBring, Doings
<1> QED
  BY <1>1 DEF Victims, RecordsOf, Records

LEMMA InstalledType ==
  ASSUME StoreType, NEW m \in Models, NEW r \in RecordsOf(m) \cup {NoModel},
         installed' = [installed EXCEPT ![m] = r]
  PROVE  /\ \A n \in Models : installed'[n] \in RecordsOf(n) \cup {NoModel}
         /\ installed' = [n \in Models |-> installed'[n]]
BY DEF StoreType

LEMMA HistoryType ==
  ASSUME StoreType, NEW m \in Models, NEW s \in Seq(RecordsOf(m)),
         history' = [history EXCEPT ![m] = s]
  PROVE  /\ \A n \in Models : history'[n] \in Seq(RecordsOf(n))
         /\ history' = [n \in Models |-> history'[n]]
BY DEF StoreType

\* The active version is recorded where Current() says.
LEMMA CurrentType ==
  ASSUME StoreType, NEW m \in Models
  PROVE  Current(m) \in 0..Len(history[m])
<1> DEFINE places == {i \in 1..Len(history[m]) : history[m][i].version = active[m]}
<1>1. Len(history[m]) \in Nat
  BY DEF StoreType
<1>2. CASE places = {}
  BY <1>1, <1>2 DEF Current
<1>3. CASE places # {}
  <2>1. places \in SUBSET Nat /\ places \subseteq 0..Len(history[m])
    BY <1>1
  <2>2. Current(m) = CHOOSE i \in places : \A j \in places : i <= j
    BY <1>3 DEF Current
  <2> HIDE DEF places
  <2>3. \E i \in places : \A j \in places : i <= j
    BY <2>1, <1>3, LeastNumber
  <2>4. Current(m) \in places
    BY <2>2, <2>3
  <2> QED
    BY <2>1, <2>4
<1> QED
  BY <1>2, <1>3

\* A call may wait for something else, for another model or with other victims.
LEMMA EditedCall ==
  ASSUME NEW r \in Doings
  PROVE  /\ \A op \in StoreOps : [r EXCEPT !.op = op] \in Doings
         /\ \A m \in Models \cup {NoModel} :
              LET d == [r EXCEPT !.model = m] IN d \in Doings /\ d.at = r.at
         /\ \A a \in StoreStages :
              LET d == [r EXCEPT !.at = a] IN d \in Doings /\ d.at = a
         /\ \A s \in SUBSET Victims :
              LET d == [r EXCEPT !.victims = s] IN d \in Doings /\ d.at = r.at
BY DEF Doings

\* What an uninstall or a rollback waits for.
Waiting(op, m, a, s) == [Nothing EXCEPT !.op = op, !.model = m, !.at = a, !.victims = s]

LEMMA WaitsForVictims ==
  ASSUME NEW op \in StoreOps, NEW m \in Models, NEW a \in StoreStages, NEW s \in SUBSET Victims
  PROVE  Waiting(op, m, a, s) \in Doings /\ Waiting(op, m, a, s).at = a
<1> DEFINE d1 == [Nothing EXCEPT !.op = op]
           d2 == [d1 EXCEPT !.model = m]
           d3 == [d2 EXCEPT !.at = a]
           d4 == [d3 EXCEPT !.victims = s]
<1>1. Waiting(op, m, a, s) = d4
  BY DEF Waiting
<1>2. d1 \in Doings
  BY NothingIsWaited, EditedCall
<1> HIDE DEF d1
<1>3. d2 \in Doings
  BY <1>2, EditedCall
<1> HIDE DEF d2
<1>4. d3 \in Doings /\ d3.at = a
  BY <1>3, EditedCall
<1> HIDE DEF d3
<1>5. d4 \in Doings /\ d4.at = a
  BY <1>4, EditedCall
<1> HIDE DEF d4
<1> QED
  BY <1>1, <1>5

\* A file is deleted, if it is there.
LEMMA DeletesFile ==
  ASSUME StoreInv, NEW c \in Callers, NEW f \in Files, NEW a \in {"unmarks", "forgets"},
         Deletes(c, f, a), \A g \in Files \ {f} : ~Checks(doing[c], g)
  PROVE  StoreInv'
<1>0. StoreType /\ CallsBring
  BY DEF StoreInv
<1>1. disk' = [disk EXCEPT ![f] = "absent"]
  BY DEF Deletes
<1>2. CallsBring' /\ \A b \in Callers \ {c} : doing'[b] = doing[b]
  <2>1. CASE Settles(c)
    BY <2>1, <1>0, CallSettles
  <2>2. CASE Does(c, a)
    <3> DEFINE d == [doing[c] EXCEPT !.at = a]
    <3>0. a \in StoreStages
      BY DEF StoreStages
    <3>1. doing' = [doing EXCEPT ![c] = d] /\ d \in Doings /\ d.at = a
      BY <2>2, <1>0, <3>0, CallGoesOn
    <3> HIDE DEF d
    <3>2. Brings(d)
      BY <3>1 DEF Brings
    <3> QED
      BY <1>0, <3>1, <3>2, CallMoves
  <2> QED
    BY <2>1, <2>2 DEF Deletes
<1>3. disk' \in [Files -> {"absent", "torn", "good", "bad"}] /\ BadIsChecked'
  <2>1. /\ disk' \in [Files -> {"absent", "torn", "good", "bad"}]
        /\ disk'[f] = "absent" /\ \A g \in Files \ {f} : disk'[g] = disk[g]
    BY <1>0, <1>1, DiskType
  <2>2. ASSUME NEW g \in Files, disk'[g] = "bad"
        PROVE  disk[g] = "bad" /\ ~Checks(doing[c], g)
    <3>1. g # f
      BY <2>1, <2>2
    <3> QED
      BY <3>1, <2>1, <2>2
  <2>3. \A b \in Callers \ {c} : doing'[b] = doing[b]
    BY <1>2
  <2> QED
    BY <2>1, <2>2, <2>3, BadStaysChecked
<1>4. StoreType'
  BY <1>0, <1>3 DEF Deletes, StoreType
<1> QED
  BY <1>2, <1>3, <1>4 DEF StoreInv

\* A call that leaves the disk alone, and is not checking a file.
LEMMA LeavesDisk ==
  ASSUME StoreInv, NEW c \in Callers, UNCHANGED disk, StoreType', CallsBring',
         \A b \in Callers \ {c} : doing'[b] = doing[b],
         doing[c].at \notin {"written", "verifies", "rejects"}
  PROVE  StoreInv'
<1>1. \A f : ~Checks(doing[c], f)
  BY DEF Checks
<1>2. BadIsChecked'
  BY <1>1, DiskStays
<1> QED
  BY <1>2 DEF StoreInv

LEMMA UninstalledType ==
  ASSUME StoreType, NEW m, installed' = [installed EXCEPT ![m] = NoModel],
         UNCHANGED <<catalog, history, disk>>
  PROVE  StoreType'
<1>1. /\ \A n \in Models : installed'[n] \in RecordsOf(n) \cup {NoModel}
      /\ installed' = [n \in Models |-> installed'[n]]
  BY DEF StoreType
<1> QED
  BY <1>1 DEF StoreType, RecordsOf

LEMMA StoreNextStep ==
  ASSUME StoreInv, [StoreNext]_storeVars
  PROVE  StoreInv'
<1>0. StoreType /\ CallsBring /\ BadIsChecked
  BY DEF StoreInv
<1>1. CASE UNCHANGED storeVars
  BY <1>0, <1>1 DEF storeVars, StoreInv, StoreType, CallsBring, BadIsChecked
<1>2. ASSUME NEW c \in Callers, NEW m \in Models, Install(c, m)
      PROVE  StoreInv'
  <2>1. catalog[m] \in Versions
    BY <1>0, <1>2 DEF Install, StoreType
  <2>2. /\ CallsBring' /\ doing[c] = Nothing
        /\ \A b \in Callers \ {c} : doing'[b] = doing[b]
    BY <1>0, <1>2, <2>1, CallBegins DEF Install, StoreOps, StoreStages
  <2>3. StoreType'
    BY <1>0, <1>2 DEF Install, StoreType
  <2>4. BadIsChecked'
    BY <1>2, <2>2, DiskStays, NothingIsWaited DEF Install
  <2> QED
    BY <2>2, <2>3, <2>4 DEF StoreInv
<1>3. ASSUME NEW c \in Callers, NEW m \in Models, NEW v \in Versions, Update(c, m, v)
      PROVE  StoreInv'
  <2>1. /\ CallsBring' /\ doing[c] = Nothing
        /\ \A b \in Callers \ {c} : doing'[b] = doing[b]
    BY <1>0, <1>3, CallBegins DEF Update, StoreOps, StoreStages
  <2>2. StoreType'
    BY <1>0, <1>3 DEF Update, StoreType
  <2>3. BadIsChecked'
    BY <1>3, <2>1, DiskStays, NothingIsWaited DEF Update
  <2> QED
    BY <2>1, <2>2, <2>3 DEF StoreInv
<1>4. ASSUME NEW c \in Callers, Cleanup(c)
      PROVE  StoreInv'
  <2>1. /\ CallsBring' /\ doing[c] = Nothing
        /\ \A b \in Callers \ {c} : doing'[b] = doing[b]
    BY <1>0, <1>4, CallBegins DEF Cleanup, StoreOps, StoreStages
  <2>2. StoreType'
    BY <1>0, <1>4 DEF Cleanup, StoreType
  <2>3. BadIsChecked'
    BY <1>4, <2>1, DiskStays, NothingIsWaited DEF Cleanup
  <2> QED
    BY <2>1, <2>2, <2>3 DEF StoreInv
<1>5. ASSUME NEW c \in Callers, NEW m \in Models, NEW v \in Versions,
             NEW op \in {"import", "bad import"}, Import(c, m, v, op)
      PROVE  StoreInv'
  <2>1. /\ CallsBring' /\ doing[c] = Nothing
        /\ \A b \in Callers \ {c} : doing'[b] = doing[b]
    BY <1>0, <1>5, CallBegins DEF Import, StoreOps, StoreStages
  <2>2. <<m, v, "import">> \in Files
    BY DEF Files
  <2>3. \A f : ~Checks(doing[c], f)
    BY <2>1, NothingIsWaited
  <2>4. disk' = [disk EXCEPT ![<<m, v, "import">>] = "torn"]
    BY <1>5 DEF Import
  <2>5. disk' \in [Files -> {"absent", "torn", "good", "bad"}] /\ BadIsChecked'
    BY <2>1, <2>2, <2>3, <2>4, NotBad
  <2>6. StoreType'
    BY <1>0, <1>5, <2>5 DEF Import, StoreType
  <2> QED
    BY <2>1, <2>5, <2>6 DEF StoreInv
<1>6. ASSUME NEW c \in Callers, Abandons(c)
      PROVE  StoreInv'
  <2>1. /\ CallsBring' /\ \A b \in Callers \ {c} : doing'[b] = doing[b]
    BY <1>0, <1>6, CallSettles DEF Abandons
  <2>2. \A f : ~Checks(doing[c], f)
    BY <1>6 DEF Abandons, Checks
  <2>3. StoreType'
    BY <1>0, <1>6 DEF Abandons, StoreType
  <2>4. BadIsChecked'
    BY <1>6, <2>1, <2>2, DiskStays DEF Abandons
  <2> QED
    BY <2>1, <2>3, <2>4 DEF StoreInv
<1>7. ASSUME NEW c \in Callers, Opens(c)
      PROVE  StoreInv'
  <2> DEFINE d == [doing[c] EXCEPT !.at = "writes"]
  <2>1. doing[c].at = "fetches"
    BY <1>7 DEF Opens
  <2>2. /\ doing' = [doing EXCEPT ![c] = d] /\ d \in Doings
        /\ d.model = doing[c].model /\ d.version = doing[c].version /\ d.at = "writes"
    BY <1>0, <1>7, CallGoesOn DEF Opens, StoreStages
  <2>3. FileOf(c) \in Files /\ doing[c].model \in Models /\ doing[c].version \in Versions
    BY <1>0, <2>1, FileOfCall
  <2> HIDE DEF d
  <2>4. /\ CallsBring' /\ \A b \in Callers \ {c} : doing'[b] = doing[b]
    BY <1>0, <2>2, <2>3, CallMoves DEF Brings
  <2>5. \A f : ~Checks(doing[c], f)
    BY <2>1 DEF Checks
  <2>6. disk' = [disk EXCEPT ![FileOf(c)] = "torn"]
    BY <1>7 DEF Opens
  <2>7. disk' \in [Files -> {"absent", "torn", "good", "bad"}] /\ BadIsChecked'
    BY <2>3, <2>4, <2>5, <2>6, NotBad
  <2>8. StoreType'
    BY <1>0, <1>7, <2>7 DEF Opens, StoreType
  <2> QED
    BY <2>4, <2>7, <2>8 DEF StoreInv
<1>8. ASSUME NEW c \in Callers, Writes(c)
      PROVE  StoreInv'
  <2> DEFINE d == [doing[c] EXCEPT !.at = "written"]
             f == FileOf(c)
             x == IF doing[c].op = "bad import" THEN "bad" ELSE "good"
  <2>1. doing[c].at = "writes" /\ disk' = [disk EXCEPT ![f] = x]
    BY <1>8 DEF Writes
  <2>2. /\ doing' = [doing EXCEPT ![c] = d] /\ d \in Doings /\ d.op = doing[c].op
        /\ d.model = doing[c].model /\ d.version = doing[c].version /\ d.at = "written"
    BY <1>0, <1>8, CallGoesOn DEF Writes, StoreStages
  <2>3. /\ f \in Files /\ doing[c].model \in Models /\ doing[c].version \in Versions
        /\ doing[c].op = "bad import" => f = <<doing[c].model, doing[c].version, "import">>
    BY <1>0, <2>1, FileOfCall
  <2>4. x \in {"absent", "torn", "good", "bad"} /\ (x = "bad" => doing[c].op = "bad import")
    OBVIOUS
  <2> HIDE DEF d, f, x
  <2>5. /\ CallsBring' /\ doing'[c] = d /\ \A b \in Callers \ {c} : doing'[b] = doing[b]
    BY <1>0, <2>2, <2>3, CallMoves DEF Brings
  <2>6. /\ disk' \in [Files -> {"absent", "torn", "good", "bad"}]
        /\ disk'[f] = x /\ \A g \in Files \ {f} : disk'[g] = disk[g]
    BY <1>0, <2>1, <2>3, <2>4, DiskType
  <2>7. ASSUME NEW g \in Files, disk'[g] = "bad"
        PROVE  Checks(doing'[c], g) \/ (disk[g] = "bad" /\ ~Checks(doing[c], g))
    <3>1. CASE g = f
      BY <3>1, <2>2, <2>3, <2>4, <2>5, <2>6, <2>7 DEF Checks
    <3>2. CASE g # f
      BY <3>2, <2>1, <2>6, <2>7 DEF Checks
    <3> QED
      BY <3>1, <3>2
  <2>8. BadIsChecked'
    BY <2>5, <2>7, BadStaysChecked
  <2>9. StoreType'
    BY <1>0, <1>8, <2>6 DEF Writes, StoreType
  <2> QED
    BY <2>5, <2>8, <2>9 DEF StoreInv
<1>9. ASSUME NEW c \in Callers, Promotes(c)
      PROVE  StoreInv'
  <2> DEFINE m == doing[c].model
             r == [version |-> doing[c].version, file |-> FileOf(c)]
  <2>1. /\ doing[c].at = "written"
        /\ installed' = [installed EXCEPT ![m] = r]
        /\ catalog' = [catalog EXCEPT ![m] = IF @ = 0 THEN doing[c].version ELSE @]
        /\ history' = [history EXCEPT ![m] = Append(history[m], r)]
        /\ disk' = disk
    BY <1>9 DEF Promotes
  <2>2. /\ FileOf(c) \in Files /\ FileOf(c)[1] = m
        /\ m \in Models /\ doing[c].version \in Versions
    BY <1>0, <2>1, FileOfCall
  <2>3. r \in RecordsOf(m)
    BY <2>2 DEF RecordsOf, Records
  <2> HIDE DEF r
  <2>4. Append(history[m], r) \in Seq(RecordsOf(m))
    <3>1. history[m] \in Seq(RecordsOf(m))
      BY <1>0, <2>2 DEF StoreType
    <3> QED
      BY <3>1, <2>3
  <2>5. catalog' \in [Models -> Versions \cup {0}]
    BY <1>0, <2>1, <2>2 DEF StoreType
  <2>6. /\ \A n \in Models : installed'[n] \in RecordsOf(n) \cup {NoModel}
        /\ installed' = [n \in Models |-> installed'[n]]
    BY <1>0, <2>1, <2>2, <2>3, InstalledType
  <2>7. /\ \A n \in Models : history'[n] \in Seq(RecordsOf(n))
        /\ history' = [n \in Models |-> history'[n]]
    BY <1>0, <2>1, <2>2, <2>4, HistoryType
  <2>8. StoreType'
    BY <1>0, <2>1, <2>5, <2>6, <2>7 DEF StoreType, RecordsOf
  <2>9. /\ CallsBring' /\ \A b \in Callers \ {c} : doing'[b] = doing[b]
        /\ \A f : Checks(doing[c], f) => Checks(doing'[c], f)
    <3>1. CASE Settles(c) /\ doing[c].op = "update"
      BY <3>1, <1>0, CallSettles DEF Checks
    <3>2. CASE Does(c, "enforces") /\ doing[c].op = "install"
      <4> DEFINE d == [doing[c] EXCEPT !.at = "enforces"]
      <4>1. doing' = [doing EXCEPT ![c] = d] /\ d \in Doings /\ d.at = "enforces"
        BY <3>2, <1>0, CallGoesOn DEF StoreStages
      <4> HIDE DEF d
      <4>2. Brings(d)
        BY <4>1 DEF Brings
      <4> QED
        BY <4>1, <4>2, <3>2, <1>0, CallMoves DEF Checks
    <3>3. CASE Does(c, "verifies")
      <4> DEFINE d == [doing[c] EXCEPT !.at = "verifies"]
      <4>1. /\ doing' = [doing EXCEPT ![c] = d] /\ d \in Doings /\ d.op = doing[c].op
            /\ d.model = doing[c].model /\ d.version = doing[c].version /\ d.at = "verifies"
        BY <3>3, <1>0, CallGoesOn DEF StoreStages
      <4> HIDE DEF d
      <4>2. Brings(d)
        BY <4>1, <2>2 DEF Brings
      <4> QED
        BY <4>1, <4>2, <1>0, CallMoves DEF Checks
    <3> QED
      BY <1>9, <3>1, <3>2, <3>3 DEF Promotes
  <2>10. BadIsChecked'
    BY <2>1, <2>9, DiskStays
  <2> QED
    BY <2>8, <2>9, <2>10 DEF StoreInv
<1>10. ASSUME NEW c \in Callers, Verifies(c)
       PROVE  StoreInv'
  <2>1. doing[c].at = "verifies" /\ disk' = disk
    BY <1>10 DEF Verifies
  <2>2. StoreType'
    BY <1>0, <1>10 DEF Verifies, StoreType
  <2>3. doing[c].model \in Models /\ doing[c].version \in Versions
        /\ (doing[c].op = "bad import" =>
              FileOf(c) = <<doing[c].model, doing[c].version, "import">>)
    BY <1>0, <2>1, FileOfCall
  <2>4. CASE disk[FileOf(c)] = "good"
    <3>1. /\ CallsBring' /\ \A b \in Callers \ {c} : doing'[b] = doing[b]
      BY <1>0, <1>10, <2>4, CallSettles DEF Verifies
    <3>2. \A f \in Files : ~Checks(doing[c], f) \/ disk[f] # "bad"
      BY <2>3, <2>4 DEF Checks
    <3>3. BadIsChecked'
      BY <2>1, <3>1, <3>2, DiskStays
    <3> QED
      BY <2>2, <3>1, <3>3 DEF StoreInv
  <2>5. CASE disk[FileOf(c)] # "good"
    <3> DEFINE d == [doing[c] EXCEPT !.at = "rejects"]
    <3>1. /\ doing' = [doing EXCEPT ![c] = d] /\ d \in Doings /\ d.op = doing[c].op
          /\ d.model = doing[c].model /\ d.version = doing[c].version /\ d.at = "rejects"
      BY <1>0, <1>10, <2>5, CallGoesOn DEF Verifies, StoreStages
    <3> HIDE DEF d
    <3>2. Brings(d)
      BY <3>1, <2>3 DEF Brings
    <3>3. /\ CallsBring' /\ \A b \in Callers \ {c} : doing'[b] = doing[b]
          /\ \A f : Checks(doing[c], f) => Checks(doing'[c], f)
      BY <1>0, <3>1, <3>2, CallMoves DEF Checks
    <3>4. BadIsChecked'
      BY <2>1, <3>3, DiskStays
    <3> QED
      BY <2>2, <3>3, <3>4 DEF StoreInv
  <2> QED
    BY <2>4, <2>5
<1>11. ASSUME NEW c \in Callers, RejectsImport(c)
       PROVE  StoreInv'
  <2>1. doing[c].at = "rejects" /\ Deletes(c, FileOf(c), "unmarks")
    BY <1>11 DEF RejectsImport
  <2>2. /\ FileOf(c) \in Files
        /\ doing[c].op = "bad import" =>
             FileOf(c) = <<doing[c].model, doing[c].version, "import">>
    BY <1>0, <2>1, FileOfCall
  <2>3. \A g \in Files \ {FileOf(c)} : ~Checks(doing[c], g)
    BY <2>2 DEF Checks
  <2> QED
    BY <2>1, <2>2, <2>3, DeletesFile
<1>12. ASSUME NEW c \in Callers, Unmarks(c)
       PROVE  StoreInv'
  <2> DEFINE m == doing[c].model
  <2>1. /\ doing[c].at = "unmarks" /\ disk' = disk
        /\ installed' = [installed EXCEPT ![m] = NoModel]
        /\ UNCHANGED <<catalog, history, disk>>
    BY <1>12 DEF Unmarks
  <2>2. CallsBring' /\ \A b \in Callers \ {c} : doing'[b] = doing[b]
    BY <1>0, <1>12, CallSettles DEF Unmarks
  <2>3. StoreType'
    BY <1>0, <2>1, UninstalledType
  <2> QED
    BY <2>1, <2>2, <2>3, LeavesDisk
<1>13. ASSUME NEW c \in Callers, NEW m \in Models, Uninstall(c, m)
       PROVE  StoreInv'
  <2> DEFINE s == {<<m, installed[m]>>}
             d == Waiting("uninstall", m, "deletes", s)
  <2>1. doing[c] = Nothing /\ doing' = [doing EXCEPT ![c] = d]
        /\ UNCHANGED <<catalog, installed, history, disk>>
    BY <1>13 DEF Uninstall, Waiting
  <2>2. s \in SUBSET Victims
    <3>1. installed[m] \in RecordsOf(m)
      BY <1>0, <1>13 DEF Uninstall, Installed, StoreType
    <3> QED
      BY <3>1 DEF Victims, RecordsOf
  <2> HIDE DEF s
  <2>3. d \in Doings /\ d.at = "deletes"
    <3>1. "uninstall" \in StoreOps /\ "deletes" \in StoreStages
      BY DEF StoreOps, StoreStages
    <3> QED
      BY <2>2, <3>1, WaitsForVictims
  <2> HIDE DEF d
  <2>4. CallsBring' /\ \A b \in Callers \ {c} : doing'[b] = doing[b]
    BY <1>0, <2>1, <2>3, CallMoves DEF Brings
  <2>5. StoreType'
    BY <1>0, <2>1 DEF StoreType
  <2>6. doing[c].at = "none"
    BY <2>1 DEF Nothing
  <2> QED
    BY <2>1, <2>4, <2>5, <2>6, LeavesDisk
<1>14. ASSUME NEW c \in Callers, DeletesModel(c)
       PROVE  StoreInv'
  <2>1. PICK v \in doing[c].victims : Deletes(c, v[2].file, "forgets")
    BY <1>14 DEF DeletesModel
  <2>2. v[2].file \in Files
    BY <1>0, VictimFile
  <2>3. \A g : ~Checks(doing[c], g)
    BY <1>14 DEF DeletesModel, Checks
  <2> QED
    BY <2>1, <2>2, <2>3, DeletesFile
<1>15. ASSUME NEW c \in Callers, Forgets(c)
       PROVE  StoreInv'
  <2> DEFINE m == doing[c].model
  <2>1. /\ doing[c].at = "forgets"
        /\ installed' = [installed EXCEPT ![m] = NoModel]
        /\ history' = [history EXCEPT ![m] = <<>>]
        /\ UNCHANGED <<catalog, disk>>
    BY <1>15 DEF Forgets
  <2>2. CallsBring' /\ \A b \in Callers \ {c} : doing'[b] = doing[b]
    BY <1>0, <1>15, CallSettles DEF Forgets
  <2>3. StoreType'
    <3>1. /\ \A n \in Models : installed'[n] \in RecordsOf(n) \cup {NoModel}
          /\ installed' = [n \in Models |-> installed'[n]]
      BY <1>0, <2>1 DEF StoreType
    <3>2. /\ \A n \in Models : history'[n] \in Seq(RecordsOf(n))
          /\ history' = [n \in Models |-> history'[n]]
      <4>1. \A n \in Models : history'[n] = history[n] \/ history'[n] = <<>>
        BY <1>0, <2>1 DEF StoreType
      <4>2. \A n \in Models : <<>> \in Seq(RecordsOf(n))
        OBVIOUS
      <4>3. history' = [n \in Models |-> history'[n]]
        BY <1>0, <2>1 DEF StoreType
      <4> QED
        BY <1>0, <4>1, <4>2, <4>3 DEF StoreType
    <3> QED
      BY <1>0, <2>1, <3>1, <3>2 DEF StoreType, RecordsOf
  <2> QED
    BY <2>1, <2>2, <2>3, LeavesDisk
<1>16. ASSUME NEW c \in Callers, NEW m \in Models, Rollback(c, m)
       PROVE  StoreInv'
  <2> DEFINE r == history[m][Current(m) - 1]
             s == {<<m, r>>}
             d == Waiting("rollback", m, "stats", s)
  <2>1. Current(m) > 1 /\ doing[c] = Nothing /\ doing' = [doing EXCEPT ![c] = d]
        /\ UNCHANGED <<catalog, installed, history, disk>>
    BY <1>16 DEF Rollback, Waiting
  <2>2. s \in SUBSET Victims
    <3>1. Current(m) - 1 \in 1..Len(history[m]) /\ history[m] \in Seq(RecordsOf(m))
      <4>1. history[m] \in Seq(RecordsOf(m))
        BY <1>0 DEF StoreType
      <4>2. Len(history[m]) \in Nat /\ Current(m) \in 0..Len(history[m])
        BY <1>0, <4>1, CurrentType
      <4> QED
        BY <4>1, <4>2, <2>1
    <3>2. r \in RecordsOf(m)
      BY <3>1
    <3> HIDE DEF r
    <3> QED
      BY <3>2 DEF Victims, RecordsOf
  <2> HIDE DEF s
  <2>3. d \in Doings /\ d.at = "stats"
    <3>1. "rollback" \in StoreOps /\ "stats" \in StoreStages
      BY DEF StoreOps, StoreStages
    <3> QED
      BY <2>2, <3>1, WaitsForVictims
  <2> HIDE DEF d
  <2>4. CallsBring' /\ \A b \in Callers \ {c} : doing'[b] = doing[b]
    BY <1>0, <2>1, <2>3, CallMoves DEF Brings
  <2>5. StoreType'
    BY <1>0, <2>1 DEF StoreType
  <2>6. doing[c].at = "none"
    BY <2>1 DEF Nothing
  <2> QED
    BY <2>1, <2>4, <2>5, <2>6, LeavesDisk
<1>17. ASSUME NEW c \in Callers, RolledBack(c)
       PROVE  StoreInv'
  <2>1. PICK v \in doing[c].victims :
          installed' = IF disk[v[2].file] = "absent" THEN installed
                       ELSE [installed EXCEPT ![v[1]] = v[2]]
    BY <1>17 DEF RolledBack
  <2>2. v[1] \in Models /\ v[2] \in RecordsOf(v[1])
    BY <1>0, VictimFile
  <2>3. doing[c].at = "stats" /\ UNCHANGED <<catalog, history, disk>>
    BY <1>17 DEF RolledBack
  <2>4. CallsBring' /\ \A b \in Callers \ {c} : doing'[b] = doing[b]
    BY <1>0, <1>17, CallSettles DEF RolledBack
  <2>5. /\ \A n \in Models : installed'[n] \in RecordsOf(n) \cup {NoModel}
        /\ installed' = [n \in Models |-> installed'[n]]
    <3>1. CASE installed' = installed
      BY <1>0, <3>1 DEF StoreType
    <3>2. CASE installed' = [installed EXCEPT ![v[1]] = v[2]]
      BY <1>0, <3>2, <2>2, InstalledType
    <3> QED
      BY <2>1, <3>1, <3>2
  <2>6. StoreType'
    BY <1>0, <2>3, <2>5 DEF StoreType, RecordsOf
  <2> QED
    BY <2>3, <2>4, <2>6, LeavesDisk
<1>18. ASSUME NEW c \in Callers, Enforces(c)
       PROVE  StoreInv'
  <2>1. doing[c].at = "enforces" /\ UNCHANGED <<catalog, installed, history, disk>>
    BY <1>18 DEF Enforces
  <2>2. PICK over \in SUBSET Installed :
          doing' = [doing EXCEPT ![c] =
            IF over = {} THEN Nothing
            ELSE [@ EXCEPT !.at = "evicts", !.victims = {<<m, installed[m]>> : m \in over}]]
    BY <1>18 DEF Enforces
  <2> DEFINE s == {<<m, installed[m]>> : m \in over}
             d1 == [doing[c] EXCEPT !.at = "evicts"]
             d2 == [d1 EXCEPT !.victims = s]
             d == IF over = {} THEN Nothing ELSE d2
  <2>3. doing' = [doing EXCEPT ![c] = d]
    BY <2>2
  <2>4. s \in SUBSET Victims
    <3>1. ASSUME NEW m \in over
          PROVE  <<m, installed[m]>> \in Victims
      <4>1. m \in Models /\ installed[m] \in RecordsOf(m)
        BY <1>0 DEF Installed, StoreType
      <4> QED
        BY <4>1 DEF Victims, RecordsOf
    <3> QED
      BY <3>1
  <2> HIDE DEF s
  <2>5. doing[c] \in Doings
    BY <1>0 DEF CallsBring
  <2>6. d1 \in Doings /\ d1.at = "evicts"
    BY <2>5, EditedCall DEF StoreStages
  <2> HIDE DEF d1
  <2>7. d2 \in Doings /\ d2.at = "evicts"
    BY <2>4, <2>6, EditedCall
  <2> HIDE DEF d2
  <2>8. d \in Doings /\ Brings(d)
    BY <2>7, NothingIsWaited DEF Brings
  <2> HIDE DEF d
  <2>9. CallsBring' /\ \A b \in Callers \ {c} : doing'[b] = doing[b]
    BY <1>0, <2>3, <2>8, CallMoves
  <2>10. StoreType'
    BY <1>0, <2>1 DEF StoreType
  <2> QED
    BY <2>1, <2>9, <2>10, LeavesDisk
<1>19. ASSUME NEW c \in Callers, DeletesVictim(c)
       PROVE  StoreInv'
  <2>1. doing[c].at = "evicts" /\ UNCHANGED <<catalog, installed, history>>
    BY <1>19 DEF DeletesVictim
  <2>2. PICK v \in doing[c].victims :
          /\ disk' = [disk EXCEPT ![v[2].file] = "absent"]
          /\ doing' = [doing EXCEPT ![c] = IF disk[v[2].file] = "absent" THEN Nothing
                        ELSE [@ EXCEPT !.at = "evicted", !.model = v[1]]]
    BY <1>19 DEF DeletesVictim
  <2>3. v[1] \in Models /\ v[2].file \in Files
    BY <1>0, VictimFile
  <2> DEFINE d1 == [doing[c] EXCEPT !.at = "evicted"]
             d2 == [d1 EXCEPT !.model = v[1]]
             d == IF disk[v[2].file] = "absent" THEN Nothing ELSE d2
  <2>4. doing' = [doing EXCEPT ![c] = d]
    BY <2>2
  <2>5. doing[c] \in Doings
    BY <1>0 DEF CallsBring
  <2>6. d1 \in Doings /\ d1.at = "evicted"
    BY <2>5, EditedCall DEF StoreStages
  <2> HIDE DEF d1
  <2>7. d2 \in Doings /\ d2.at = "evicted"
    BY <2>3, <2>6, EditedCall
  <2> HIDE DEF d2
  <2>8. d \in Doings /\ Brings(d)
    BY <2>7, NothingIsWaited DEF Brings
  <2> HIDE DEF d
  <2>9. CallsBring' /\ \A b \in Callers \ {c} : doing'[b] = doing[b]
    BY <1>0, <2>4, <2>8, CallMoves
  <2>10. \A f : ~Checks(doing[c], f)
    BY <2>1 DEF Checks
  <2>11. disk' \in [Files -> {"absent", "torn", "good", "bad"}] /\ BadIsChecked'
    BY <2>2, <2>3, <2>9, <2>10, NotBad
  <2>12. StoreType'
    BY <1>0, <2>1, <2>11 DEF StoreType
  <2> QED
    BY <2>9, <2>11, <2>12 DEF StoreInv
<1>20. ASSUME NEW c \in Callers, Evicted(c)
       PROVE  StoreInv'
  <2> DEFINE m == doing[c].model
             left == {v \in doing[c].victims : v[1] # m}
             d1 == [doing[c] EXCEPT !.at = "evicts"]
             d2 == [d1 EXCEPT !.victims = left]
             d == IF left = {} THEN Nothing ELSE d2
  <2>1. /\ doing[c].at = "evicted" /\ UNCHANGED <<catalog, history, disk>>
        /\ installed' = [installed EXCEPT ![m] = NoModel]
        /\ doing' = [doing EXCEPT ![c] = d]
    BY <1>20 DEF Evicted
  <2>2. doing[c] \in Doings
    BY <1>0 DEF CallsBring
  <2>3. left \in SUBSET Victims
    BY <2>2 DEF Doings
  <2> HIDE DEF left
  <2>4. d1 \in Doings /\ d1.at = "evicts"
    BY <2>2, EditedCall DEF StoreStages
  <2> HIDE DEF d1
  <2>5. d2 \in Doings /\ d2.at = "evicts"
    BY <2>3, <2>4, EditedCall
  <2> HIDE DEF d2
  <2>6. d \in Doings /\ Brings(d)
    BY <2>5, NothingIsWaited DEF Brings
  <2> HIDE DEF d
  <2>7. CallsBring' /\ \A b \in Callers \ {c} : doing'[b] = doing[b]
    BY <1>0, <2>1, <2>6, CallMoves
  <2>8. StoreType'
    BY <1>0, <2>1, UninstalledType
  <2> QED
    BY <2>1, <2>7, <2>8, LeavesDisk
<1> QED
  BY <1>1, <1>2, <1>3, <1>4, <1>5, <1>6, <1>7, <1>8, <1>9, <1>10, <1>11, <1>12, <1>13, <1>14,
     <1>15, <1>16, <1>17, <1>18, <1>19, <1>20 DEF StoreNext

\* Bytes that failed their checksum are installed only while the import that
\* brought them is checking them: a file of bad bytes always has such a call.
LEMMA BadBytesAreChecked == StoreInv => UnverifiedBytesDoNotStay
<1> SUFFICES ASSUME StoreInv, NEW m \in Installed, Quiet(m), disk[installed[m].file] = "bad"
             PROVE  FALSE
  BY DEF UnverifiedBytesDoNotStay
<1>1. installed[m] \in RecordsOf(m)
  BY DEF StoreInv, StoreType, Installed
<1>2. installed[m].file \in Files /\ installed[m].file[1] = m
  BY <1>1 DEF RecordsOf, Records
<1>3. PICK c \in Callers : Checks(doing[c], installed[m].file)
  BY <1>2 DEF StoreInv, BadIsChecked
<1>4. doing[c].model = m
  <2> DEFINE f == installed[m].file
  <2>1. f = <<doing[c].model, doing[c].version, "import">> /\ f[1] = m
    BY <1>2, <1>3 DEF Checks
  <2> HIDE DEF f
  <2> QED
    BY <2>1
<1> QED
  BY <1>4 DEF Quiet

\* Whatever imports, rollbacks and evictions of a model interleave, bytes that
\* failed their checksum are not left installed.
THEOREM BadBytesGo == StoreSpec => []UnverifiedBytesDoNotStay
<1>1. StoreInv /\ [StoreNext]_storeVars => StoreInv'
  BY StoreNextStep
<1> QED
  BY <1>1, StoreInitially, BadBytesAreChecked, PTL DEF StoreSpec

-----------------------------------------------------------------------------
(* The loop of findCandidates().                                           *)

\* What the loop has kept after n rounds, when f says what it kept before.
Kept(s, f, n) ==
  IF n = 0 THEN <<>>
  ELSE IF IsUsable(s[n]) THEN Append(f[n - 1], s[n])
  ELSE f[n - 1]

\* f says what the loop has kept after each of the first m rounds.
KeptUpTo(s, m, f) ==
  /\ f \in [0..m -> Seq(Providers)]
  /\ \A n \in 0..m : f[n] = Kept(s, f, n) /\ Len(f[n]) <= n

LEMMA KeptOnce ==
  ASSUME NEW s \in Seq(Providers), NEW m \in 1..Len(s), NEW f,
         f[m - 1] \in Seq(Providers), Len(f[m - 1]) <= m - 1
  PROVE  Kept(s, f, m) \in Seq(Providers) /\ Len(Kept(s, f, m)) <= m
<1>1. m \in Nat \ {0} /\ s[m] \in Providers
  OBVIOUS
<1>2. /\ Append(f[m - 1], s[m]) \in Seq(Providers)
      /\ Len(Append(f[m - 1], s[m])) = Len(f[m - 1]) + 1
      /\ Len(f[m - 1]) \in Nat
  BY <1>1
<1>3. QED
  BY <1>1, <1>2 DEF Kept

LEMMA KeptOneMore ==
  ASSUME NEW s \in Seq(Providers), NEW m \in 1..Len(s), NEW f,
         KeptUpTo(s, m - 1, f)
  PROVE  \E g : KeptUpTo(s, m, g)
<1> DEFINE e == Kept(s, f, m)
           g == [n \in 0..m |-> IF n = m THEN e ELSE f[n]]
<1>1. m \in Nat \ {0} /\ m - 1 \in 0..(m - 1)
  OBVIOUS
<1>2. e \in Seq(Providers) /\ Len(e) <= m
  BY <1>1, KeptOnce DEF KeptUpTo
<1> HIDE DEF e
<1>3. g \in [0..m -> Seq(Providers)]
  BY <1>1, <1>2 DEF KeptUpTo
<1>4. ASSUME NEW n \in 0..m
      PROVE  g[n] = Kept(s, g, n) /\ Len(g[n]) <= n
  <2>1. CASE n = m
    <3>1. g[m] = e /\ g[m - 1] = f[m - 1]
      BY <1>1
    <3>2. Kept(s, g, m) = Kept(s, f, m)
      BY <1>1, <3>1 DEF Kept
    <3>3. QED
      BY <1>2, <2>1, <3>1, <3>2 DEF e
  <2>2. CASE n # m
    <3>1. n \in 0..(m - 1)
      BY <1>1, <2>2
    <3>2. g[n] = f[n] /\ (n # 0 => g[n - 1] = f[n - 1])
      BY <1>1, <3>1
    <3>3. f[n] = Kept(s, f, n) /\ Len(f[n]) <= n
      BY <3>1 DEF KeptUpTo
    <3>4. QED
      BY <3>1, <3>2, <3>3 DEF Kept
  <2>3. QED
    BY <2>1, <2>2
<1> HIDE DEF g
<1>5. KeptUpTo(s, m, g)
  BY <1>3, <1>4 DEF KeptUpTo
<1>6. QED
  BY <1>5

\* findCandidates() chooses no more than the registry has ranked.
LEMMA UsableType ==
  ASSUME NEW s \in Seq(Providers)
  PROVE  Usable(s) \in Seq(Providers) /\ Len(Usable(s)) <= Len(s)
<1> DEFINE kept == CHOOSE g : g = [n \in 0..Len(s) |-> Kept(s, g, n)]
<1>1. Len(s) \in Nat
  OBVIOUS
<1>2. \E f : KeptUpTo(s, Len(s), f)
  <2> DEFINE T == {m \in 0..Len(s) : ~ \E f : KeptUpTo(s, m, f)}
  <2>1. SUFFICES ASSUME T # {} PROVE FALSE
    BY <1>1
  <2>2. T \in SUBSET Nat
    OBVIOUS
  <2>3. PICK m \in T : \A n \in T : m <= n
    <3> HIDE DEF T
    <3>1. QED
      BY <2>1, <2>2, LeastNumber
  <2>4. m # 0
    <3>1. KeptUpTo(s, 0, [n \in 0..0 |-> <<>>])
      BY DEF KeptUpTo, Kept
    <3>2. QED
      BY <3>1
  <2>5. m - 1 \in 0..Len(s) /\ m - 1 \notin T /\ m \in 1..Len(s)
    BY <1>1, <2>3, <2>4
  <2>6. QED
    BY <2>3, <2>5, KeptOneMore
<1>3. PICK f : KeptUpTo(s, Len(s), f)
  BY <1>2
<1>4. f = [n \in 0..Len(s) |-> Kept(s, f, n)]
  BY <1>3 DEF KeptUpTo
<1>5. kept = [n \in 0..Len(s) |-> Kept(s, kept, n)]
  BY <1>4
<1>6. Usable(s) = kept[Len(s)]
  BY DEF Usable, Kept
<1> HIDE DEF kept
<1>7. \A n \in 0..Len(s) : kept[n] = Kept(s, kept, n)
  BY <1>5
<1>8. \A n \in 0..Len(s) : kept[n] \in Seq(Providers) /\ Len(kept[n]) <= n
  <2> DEFINE T == {n \in 0..Len(s) : ~(kept[n] \in Seq(Providers) /\ Len(kept[n]) <= n)}
  <2>1. SUFFICES ASSUME T # {} PROVE FALSE
    OBVIOUS
  <2>2. T \in SUBSET Nat
    OBVIOUS
  <2>3. PICK m \in T : \A n \in T : m <= n
    <3> HIDE DEF T
    <3>1. QED
      BY <2>1, <2>2, LeastNumber
  <2>4. m # 0
    <3>1. kept[0] = <<>>
      BY <1>1, <1>7 DEF Kept
    <3>2. kept[0] \in Seq(Providers) /\ Len(kept[0]) <= 0
      BY <3>1
    <3>3. QED
      BY <3>2
  <2>5. m - 1 \in 0..Len(s) /\ m - 1 \notin T /\ m \in 1..Len(s)
    BY <1>1, <2>3, <2>4
  <2>6. kept[m - 1] \in Seq(Providers) /\ Len(kept[m - 1]) <= m - 1
    BY <2>5
  <2>7. kept[m] \in Seq(Providers) /\ Len(kept[m]) <= m
    BY <1>7, <2>5, <2>6, KeptOnce
  <2>8. QED
    BY <2>7
<1>9. QED
  BY <1>1, <1>6, <1>8

-----------------------------------------------------------------------------
(* The queue's operators.                                                  *)

\* What is left of a sequence without its first n entries.
LEMMA Suffix ==
  ASSUME NEW S, NEW q \in Seq(S), NEW n \in 0..Len(q)
  PROVE  /\ SubSeq(q, n + 1, Len(q)) \in Seq(S)
         /\ Len(SubSeq(q, n + 1, Len(q))) = Len(q) - n
         /\ \A k \in 1..(Len(q) - n) : SubSeq(q, n + 1, Len(q))[k] = q[n + k]
<1> DEFINE m == n + 1
           b == SubSeq(q, m, Len(q))
<1>1. m \in Nat \ {0} /\ m = n + 1 /\ m <= Len(q) + 1 /\ Len(q) \in Nat /\ n \in Nat
  OBVIOUS
<1> HIDE DEF m
<1>2. \A i \in m..Len(q) : q[i] \in S
  BY <1>1
<1>3. Len(b) = Len(q) - m + 1
  BY <1>1
<1>4. b \in Seq(S)
  BY <1>1, <1>2
<1>5. ASSUME NEW i \in 1..(Len(q) - m + 1)
      PROVE  b[i] = q[m + i - 1]
  BY <1>1
<1> HIDE DEF b
<1>6. ASSUME NEW k \in 1..(Len(q) - n)
      PROVE  b[k] = q[n + k]
  <2>1. k \in 1..(Len(q) - m + 1) /\ m + k - 1 = n + k
    BY <1>1
  <2>2. QED
    BY <1>5, <2>1
<1>7. Len(b) = Len(q) - n
  BY <1>1, <1>3
<1>8. QED
  BY <1>4, <1>6, <1>7 DEF b, m

\* The requests that the queue takes.
Singles == Requests \ Chats

Elements(q) == {q[k] : k \in DOMAIN q}

\* Every entry of q is there once, and no entry is behind a less urgent one.
Ordered(q) ==
  \A k, l \in DOMAIN q :
    k < l => q[k] # q[l] /\ Priority[q[k]] >= Priority[q[l]]

\* The number of entries of q that are at least as urgent as r.
Ahead(q, r) == Cardinality({k \in DOMAIN q : Priority[q[k]] >= Priority[r]})

\* In an ordered queue those are the first ones.
LEMMA AheadSplits ==
  ASSUME NEW q \in Seq(Singles), NEW r \in Singles, Ordered(q)
  PROVE  /\ Ahead(q, r) \in 0..Len(q)
         /\ \A k \in DOMAIN q : Priority[q[k]] >= Priority[r] <=> k <= Ahead(q, r)
<1> DEFINE D == {l \in DOMAIN q : Priority[q[l]] >= Priority[r]}
           n == Ahead(q, r)
<1>1. /\ Len(q) \in Nat
      /\ DOMAIN q = 1..Len(q)
      /\ \A l \in DOMAIN q : q[l] \in Singles /\ Priority[q[l]] \in Nat
      /\ Priority[r] \in Nat
  BY ConstantsAssumption DEF Singles
<1>2. \A m \in Nat : IsFiniteSet(1..m) /\ Cardinality(1..m) = m
  <2>1. ASSUME NEW m \in Nat
        PROVE  IsFiniteSet(1..m) /\ Cardinality(1..m) = m
    BY FS_Interval
  <2>2. QED
    BY <2>1
<1>3. D \in SUBSET (1..Len(q))
  BY <1>1
<1>4. IsFiniteSet(D) /\ n \in Nat /\ n <= Len(q)
  BY <1>1, <1>2, <1>3, FS_Subset, FS_CardinalityType DEF Ahead
<1>5. ASSUME NEW k \in DOMAIN q
      PROVE  Priority[q[k]] >= Priority[r] <=> k <= n
  <2>1. k \in 1..Len(q) /\ k \in Nat /\ k - 1 \in Nat
    BY <1>1
  <2>2. CASE Priority[q[k]] >= Priority[r]
    <3>1. 1..k \in SUBSET D
      BY <1>1, <2>1, <2>2 DEF Ordered
    <3>2. k <= Cardinality(D)
      BY <1>2, <1>4, <2>1, <3>1, FS_Subset
    <3>3. QED
      BY <2>2, <3>2 DEF Ahead
  <2>3. CASE ~(Priority[q[k]] >= Priority[r])
    <3>1. D \in SUBSET (1..(k - 1))
      BY <1>1, <2>1, <2>3 DEF Ordered
    <3>2. Cardinality(D) <= k - 1
      BY <1>2, <2>1, <3>1, FS_Subset
    <3>3. n <= k - 1
      BY <3>2 DEF Ahead
    <3>4. QED
      BY <1>4, <2>1, <2>3, <3>3
  <2>4. QED
    BY <2>2, <2>3
<1>6. QED
  BY <1>1, <1>4, <1>5

\* enqueue() adds r to the queue, once, and keeps it ordered.
LEMMA InsertedFacts ==
  ASSUME NEW q \in Seq(Singles), NEW r \in Singles, Ordered(q), r \notin Elements(q)
  PROVE  /\ Inserted(q, r) \in Seq(Singles)
         /\ Len(Inserted(q, r)) = Len(q) + 1
         /\ Elements(Inserted(q, r)) = Elements(q) \cup {r}
         /\ Ordered(Inserted(q, r))
<1> DEFINE n == Ahead(q, r)
           f == [k \in 1..(Len(q) + 1) |->
                   IF k <= n THEN q[k] ELSE IF k = n + 1 THEN r ELSE q[k - 1]]
<1>1. /\ Len(q) \in Nat
      /\ DOMAIN q = 1..Len(q)
      /\ \A l \in DOMAIN q : q[l] \in Singles /\ Priority[q[l]] \in Nat
      /\ Priority[r] \in Nat
      /\ n \in 0..Len(q)
      /\ \A k \in DOMAIN q : Priority[q[k]] >= Priority[r] <=> k <= n
  BY ConstantsAssumption, AheadSplits DEF Singles
<1>2. Inserted(q, r) = SubSeq(q, 1, n) \o <<r>> \o SubSeq(q, n + 1, Len(q))
  BY DEF Inserted, Ahead
<1> HIDE DEF n
<1>3. Inserted(q, r) = f
  <2> DEFINE a == SubSeq(q, 1, n)
             b == SubSeq(q, n + 1, Len(q))
  <2>1. a \in Seq(Singles) /\ Len(a) = n /\ \A k \in 1..n : a[k] = q[k]
    BY <1>1
  <2>2. /\ b \in Seq(Singles)
        /\ Len(b) = Len(q) - n
        /\ \A k \in 1..(Len(q) - n) : b[k] = q[n + k]
    BY <1>1, Suffix
  <2> HIDE DEF a, b
  <2>3. /\ a \o <<r>> \in Seq(Singles)
        /\ Len(a \o <<r>>) = n + 1
        /\ \A k \in 1..(n + 1) : (a \o <<r>>)[k] = IF k <= n THEN q[k] ELSE r
    <3>1. <<r>> \in Seq(Singles) /\ Len(<<r>>) = 1 /\ <<r>>[1] = r
      OBVIOUS
    <3>2. /\ a \o <<r>> \in Seq(Singles)
          /\ Len(a \o <<r>>) = Len(a) + Len(<<r>>)
          /\ \A i \in 1 .. Len(a) + Len(<<r>>) :
               (a \o <<r>>)[i] = IF i <= Len(a) THEN a[i] ELSE <<r>>[i - Len(a)]
      BY <2>1, <3>1, ConcatProperties
    <3>3. QED
      BY <1>1, <2>1, <3>1, <3>2
  <2> DEFINE c == a \o <<r>>
  <2>4. c \in Seq(Singles) /\ Len(c) = n + 1
        /\ \A k \in 1..(n + 1) : c[k] = IF k <= n THEN q[k] ELSE r
    BY <2>3
  <2> HIDE DEF c
  <2>5. /\ c \o b \in Seq(Singles)
        /\ Len(c \o b) = Len(c) + Len(b)
        /\ \A k \in 1 .. Len(c) + Len(b) :
             (c \o b)[k] = IF k <= Len(c) THEN c[k] ELSE b[k - Len(c)]
    BY <2>2, <2>4, ConcatProperties
  <2> DEFINE d == c \o b
  <2>6. d \in Seq(Singles) /\ Len(d) = Len(q) + 1
        /\ \A k \in 1..(Len(q) + 1) : d[k] = IF k <= n + 1 THEN c[k] ELSE b[k - (n + 1)]
    BY <1>1, <2>2, <2>4, <2>5
  <2> HIDE DEF d
  <2>7. ASSUME NEW k \in 1..(Len(q) + 1)
        PROVE  d[k] = f[k]
    <3>1. CASE k <= n + 1
      BY <1>1, <2>4, <2>6, <3>1
    <3>2. CASE k > n + 1
      <4>0. n \in Nat /\ k \in Nat /\ Len(q) \in Nat /\ k <= Len(q) + 1
        BY <1>1
      <4>1. k - (n + 1) \in 1..(Len(q) - n) /\ n + (k - (n + 1)) = k - 1
        BY <3>2, <4>0
      <4>2. d[k] = b[k - (n + 1)]
        BY <1>1, <2>6, <3>2
      <4>3. b[k - (n + 1)] = q[n + (k - (n + 1))]
        BY <2>2, <4>1
      <4>4. QED
        BY <1>1, <3>2, <4>1, <4>2, <4>3
    <3>3. QED
      BY <1>1, <3>1, <3>2
  <2>8. d = f
    BY <1>1, <2>6, <2>7
  <2>9. QED
    BY <1>2, <2>8 DEF a, b, c, d
<1>4. f \in Seq(Singles) /\ Len(f) = Len(q) + 1 /\ DOMAIN f = 1..(Len(q) + 1)
  BY <1>1
<1>5. Elements(f) = Elements(q) \cup {r}
  <2>1. ASSUME NEW k \in DOMAIN f
        PROVE  f[k] \in Elements(q) \cup {r}
    BY <1>1, <2>1 DEF Elements
  <2>2. ASSUME NEW k \in DOMAIN q
        PROVE  q[k] \in Elements(f)
    <3>1. CASE k <= n
      <4>1. k \in DOMAIN f /\ f[k] = q[k]
        BY <1>1, <3>1
      <4>2. QED
        BY <4>1 DEF Elements
    <3>2. CASE k > n
      <4>1. k + 1 \in DOMAIN f /\ f[k + 1] = q[k]
        BY <1>1, <3>2
      <4>2. QED
        BY <4>1 DEF Elements
    <3>3. QED
      BY <1>1, <3>1, <3>2
  <2>3. r \in Elements(f)
    <3>1. n + 1 \in DOMAIN f /\ f[n + 1] = r
      BY <1>1
    <3>2. QED
      BY <3>1 DEF Elements
  <2> HIDE DEF f
  <2>4. QED
    BY <2>1, <2>2, <2>3 DEF Elements
<1>6. Ordered(f)
  <2>1. \A k \in DOMAIN q : q[k] # r
    BY DEF Elements
  <2>2. ASSUME NEW k \in 1..(Len(q) + 1), NEW l \in 1..(Len(q) + 1), k < l
        PROVE  f[k] # f[l] /\ Priority[f[k]] >= Priority[f[l]]
    <3>1. CASE l <= n
      BY <1>1, <2>2, <3>1 DEF Ordered
    <3>2. CASE l = n + 1
      BY <1>1, <2>1, <2>2, <3>2 DEF Ordered
    <3>3. CASE l > n + 1 /\ k <= n
      BY <1>1, <2>2, <3>3 DEF Ordered
    <3>4. CASE l > n + 1 /\ k = n + 1
      BY <1>1, <2>1, <2>2, <3>4 DEF Ordered
    <3>5. CASE l > n + 1 /\ k > n + 1
      <4>1. k - 1 \in DOMAIN q /\ l - 1 \in DOMAIN q /\ k - 1 < l - 1
        BY <1>1, <2>2, <3>5
      <4>2. f[k] = q[k - 1] /\ f[l] = q[l - 1]
        BY <1>1, <2>2, <3>5
      <4>3. QED
        BY <4>1, <4>2 DEF Ordered
    <3>6. QED
      BY <1>1, <2>2, <3>1, <3>2, <3>3, <3>4, <3>5
  <2>3. QED
    BY <1>4, <2>2 DEF Ordered
<1> HIDE DEF f
<1>7. QED
  BY <1>3, <1>4, <1>5, <1>6

-----------------------------------------------------------------------------
(* drain().                                                                *)

LEMMA TakersFinite ==
  ASSUME NEW q \in Seq(Singles), NEW k \in 0..Len(q)
  PROVE  /\ Takers(q, k) \in SUBSET Singles
         /\ IsFiniteSet(Takers(q, k))
         /\ Cardinality(Takers(q, k)) \in Nat
<1>1. \A m \in 1..k : q[m] \in Singles
  OBVIOUS
<1>2. Takers(q, k) \in SUBSET Singles
  BY <1>1 DEF Takers
<1>3. IsFiniteSet(Takers(q, k))
  BY <1>2, ConstantsAssumption, FS_Subset DEF Singles
<1>4. QED
  BY <1>2, <1>3, FS_CardinalityType

\* drain() stops at the first entry that takes the last slot, or at the end.
DrainEnds(q, busy, k) ==
  k = Len(q) \/ busy + Cardinality(Takers(q, k)) >= MaxConcurrent

LEMMA DrainCountFacts ==
  ASSUME NEW q \in Seq(Singles), NEW busy \in Nat
  PROVE  /\ DrainCount(q, busy) \in 0..Len(q)
         /\ DrainEnds(q, busy, DrainCount(q, busy))
         /\ \A m \in 0 .. DrainCount(q, busy) - 1 :
              busy + Cardinality(Takers(q, m)) < MaxConcurrent
<1> DEFINE T == {k \in 0..Len(q) : DrainEnds(q, busy, k)}
           least(k) == /\ \/ k = Len(q)
                          \/ busy + Cardinality(Takers(q, k)) >= MaxConcurrent
                       /\ \A m \in 0 .. k - 1 :
                            busy + Cardinality(Takers(q, m)) < MaxConcurrent
<1>1. Len(q) \in Nat
  OBVIOUS
<1>2. T # {} /\ T \in SUBSET Nat
  BY <1>1 DEF DrainEnds
<1>3. PICK k \in T : \A m \in T : k <= m
  <2> HIDE DEF T
  <2>1. QED
    BY <1>2, LeastNumber
<1>4. ASSUME NEW m \in 0 .. k - 1
      PROVE  busy + Cardinality(Takers(q, m)) < MaxConcurrent
  <2>1. m \in 0..Len(q) /\ m \notin T
    BY <1>1, <1>3
  <2>2. Cardinality(Takers(q, m)) \in Nat
    BY <2>1, TakersFinite
  <2>3. QED
    BY <2>1, <2>2, ConstantsAssumption DEF DrainEnds
<1>5. k \in 0..Len(q) /\ least(k)
  BY <1>3, <1>4 DEF DrainEnds
<1>6. DrainCount(q, busy) = CHOOSE l \in 0..Len(q) : least(l)
  BY DEF DrainCount
<1> HIDE DEF least
<1>7. DrainCount(q, busy) \in 0..Len(q) /\ least(DrainCount(q, busy))
  BY <1>5, <1>6
<1>8. QED
  BY <1>7 DEF least, DrainEnds

\* What drain() starts fits into the free slots, and fills them unless the
\* queue is empty then.
LEMMA DrainFills ==
  ASSUME NEW q \in Seq(Singles), NEW busy \in 0..MaxConcurrent
  PROVE  LET k     == DrainCount(q, busy)
             taken == busy + Cardinality(Takers(q, k))
         IN  taken \in 0..MaxConcurrent /\ (k = Len(q) \/ taken = MaxConcurrent)
<1> DEFINE k == DrainCount(q, busy)
<1>1. /\ busy \in Nat
      /\ MaxConcurrent \in Nat
      /\ Len(q) \in Nat
      /\ DOMAIN q = 1..Len(q)
  BY ConstantsAssumption
<1>2. /\ k \in 0..Len(q)
      /\ DrainEnds(q, busy, k)
      /\ \A m \in 0 .. k - 1 : busy + Cardinality(Takers(q, m)) < MaxConcurrent
  BY <1>1, DrainCountFacts
<1> HIDE DEF k
<1>3. Cardinality(Takers(q, k)) \in Nat
  BY <1>2, TakersFinite
<1>4. busy + Cardinality(Takers(q, k)) <= MaxConcurrent
  <2>1. CASE k = 0
    <3>1. Takers(q, k) = {}
      BY <2>1 DEF Takers
    <3>2. Cardinality(Takers(q, k)) = 0
      BY <3>1, FS_EmptySet
    <3>3. QED
      BY <1>1, <3>2
  <2>2. CASE k # 0
    <3>1. k - 1 \in 0..Len(q) /\ k - 1 \in 0 .. k - 1 /\ k \in 1..Len(q)
      BY <1>1, <1>2, <2>2
    <3>2. /\ IsFiniteSet(Takers(q, k - 1))
          /\ Cardinality(Takers(q, k - 1)) \in Nat
      BY <3>1, TakersFinite
    <3>3. busy + Cardinality(Takers(q, k - 1)) < MaxConcurrent
      BY <1>2, <3>1
    <3>4. Takers(q, k) \in SUBSET (Takers(q, k - 1) \cup {q[k]})
      BY <1>2, <3>1 DEF Takers
    <3>5. /\ IsFiniteSet(Takers(q, k - 1) \cup {q[k]})
          /\ Cardinality(Takers(q, k - 1) \cup {q[k]}) \in Nat
          /\ Cardinality(Takers(q, k - 1) \cup {q[k]}) <= Cardinality(Takers(q, k - 1)) + 1
      <4>1. /\ IsFiniteSet(Takers(q, k - 1) \cup {q[k]})
            /\ Cardinality(Takers(q, k - 1) \cup {q[k]}) =
                 IF q[k] \in Takers(q, k - 1) THEN Cardinality(Takers(q, k - 1))
                 ELSE Cardinality(Takers(q, k - 1)) + 1
        BY <3>2, FS_AddElement
      <4>2. QED
        BY <3>2, <4>1
    <3>6. Cardinality(Takers(q, k)) <= Cardinality(Takers(q, k - 1) \cup {q[k]})
      BY <3>4, <3>5, FS_Subset
    <3>7. QED
      BY <1>1, <1>3, <3>2, <3>3, <3>5, <3>6
  <2>3. QED
    BY <2>1, <2>2
<1>5. QED
  BY <1>1, <1>2, <1>3, <1>4 DEF k, DrainEnds

\* What InferenceQueue's accounting needs of a queue, the number of slots in
\* use and the phases of the requests.
Accounted(q, busy, ph, gone) ==
  /\ q \in Seq(Singles)
  /\ Ordered(q)
  /\ ph \in [Requests -> Phases]
  /\ Elements(q) = {x \in Requests : ph[x] = "queued"}
  /\ busy \in 0..MaxConcurrent
  /\ busy = Cardinality({x \in Requests : ph[x] = "running"})
  /\ \A x \in Requests : ph[x] = "running" => x \notin gone

\* drain() keeps the accounts, and fills the slots or empties the queue.
LEMMA DrainFacts ==
  ASSUME NEW q, NEW busy, NEW ph, Accounted(q, busy, ph, aborted),
         Drain(q, busy, ph)
  PROVE  /\ Accounted(queue', runningCount', phase', aborted)
         /\ queue' # <<>> => runningCount' = MaxConcurrent
         /\ \A x \in Requests :
              \/ phase'[x] = ph[x]
              \/ /\ x \in Elements(q)
                 /\ phase'[x] = IF x \in aborted THEN "lost" ELSE "running"
<1> DEFINE k       == DrainCount(q, busy)
           shifted == {q[m] : m \in 1..k}
<1>1. /\ q \in Seq(Singles)
      /\ busy \in 0..MaxConcurrent
      /\ busy \in Nat
      /\ MaxConcurrent \in Nat
      /\ Len(q) \in Nat
      /\ DOMAIN q = 1..Len(q)
      /\ IsFiniteSet(Requests)
      /\ Singles \subseteq Requests
      /\ ph \in [Requests -> Phases]
  BY ConstantsAssumption DEF Accounted, Singles
<1>2. /\ k \in 0..Len(q)
      /\ busy + Cardinality(Takers(q, k)) \in 0..MaxConcurrent
      /\ k = Len(q) \/ busy + Cardinality(Takers(q, k)) = MaxConcurrent
  BY <1>1, DrainCountFacts, DrainFills
<1>3. /\ queue' = SubSeq(q, k + 1, Len(q))
      /\ runningCount' = busy + Cardinality(shifted \ aborted)
      /\ phase' = [x \in Requests |->
                     IF x \notin shifted THEN ph[x]
                     ELSE IF x \in aborted THEN "lost" ELSE "running"]
  BY DEF Drain
<1>4. Takers(q, k) = shifted \ aborted
  BY DEF Takers
<1> HIDE DEF k
<1>0. /\ Len(q) \in Nat /\ k \in Nat /\ k <= Len(q)
      /\ DOMAIN q = 1..Len(q)
  <2>1. k \in 0..Len(q) /\ Len(q) \in Nat
    BY <1>1, <1>2
  <2>2. DOMAIN q = 1..Len(q)
    BY <1>1
  <2> HIDE DEF shifted
  <2>3. QED
    BY <2>1, <2>2
<1>5. shifted \subseteq Elements(q) /\ \A x \in shifted : x \in Requests /\ ph[x] = "queued"
  <2>1. \A m \in 1..k : m \in DOMAIN q
    BY <1>0
  <2>2. shifted \subseteq Elements(q)
    BY <2>1 DEF Elements
  <2>3. QED
    BY <2>2 DEF Accounted
<1>6. /\ queue' \in Seq(Singles)
      /\ Len(queue') = Len(q) - k
      /\ \A m \in 1..(Len(q) - k) : queue'[m] = q[k + m]
  BY <1>1, <1>2, <1>3, Suffix
<1>7. DOMAIN queue' = 1..(Len(q) - k) /\ Len(q) - k \in Nat
  BY <1>0, <1>6
<1>8. Ordered(queue')
  <2>1. ASSUME NEW m \in DOMAIN queue', NEW n \in DOMAIN queue', m < n
        PROVE  /\ queue'[m] # queue'[n]
               /\ Priority[queue'[m]] >= Priority[queue'[n]]
    <3>1. k + m \in DOMAIN q /\ k + n \in DOMAIN q /\ k + m < k + n
      BY <1>0, <1>7, <2>1
    <3>2. queue'[m] = q[k + m] /\ queue'[n] = q[k + n]
      BY <1>6, <1>7
    <3>3. QED
      BY <3>1, <3>2 DEF Accounted, Ordered
  <2>2. QED
    BY <2>1 DEF Ordered
<1>9. Elements(queue') = Elements(q) \ shifted
  <2>1. ASSUME NEW m \in DOMAIN queue'
        PROVE  queue'[m] \in Elements(q) \ shifted
    <3>1. k + m \in DOMAIN q /\ queue'[m] = q[k + m] /\ m >= 1 /\ m \in Nat
      BY <1>0, <1>6, <1>7
    <3>2. ASSUME NEW n \in 1..k
          PROVE  q[n] # q[k + m]
      <4>1. n \in DOMAIN q /\ n < k + m
        BY <1>0, <3>1
      <4>2. QED
        BY <3>1, <4>1 DEF Accounted, Ordered
    <3>3. QED
      BY <3>1, <3>2 DEF Elements
  <2>2. ASSUME NEW n \in DOMAIN q, q[n] \notin shifted
        PROVE  q[n] \in Elements(queue')
    <3>1. n \notin 1..k
      BY <2>2
    <3>2. n - k \in DOMAIN queue' /\ k + (n - k) = n
      BY <1>0, <1>7, <3>1
    <3>3. queue'[n - k] = q[n]
      BY <1>6, <1>7, <3>2
    <3>4. QED
      BY <3>2, <3>3 DEF Elements
  <2> HIDE DEF shifted
  <2>3. QED
    BY <2>1, <2>2 DEF Elements
<1> HIDE DEF shifted
<1>10. phase' \in [Requests -> Phases]
  BY <1>1, <1>3 DEF Phases
<1>11. Elements(queue') = {x \in Requests : phase'[x] = "queued"}
  <2>1. Elements(q) = {x \in Requests : ph[x] = "queued"}
    BY DEF Accounted
  <2>2. \A x \in Requests : phase'[x] = "queued" <=> ph[x] = "queued" /\ x \notin shifted
    BY <1>3
  <2>3. QED
    BY <1>9, <2>1, <2>2
<1>12. runningCount' \in 0..MaxConcurrent
  BY <1>2, <1>3, <1>4
<1>13. runningCount' = Cardinality({x \in Requests : phase'[x] = "running"})
  <2> DEFINE A == {x \in Requests : ph[x] = "running"}
             B == shifted \ aborted
  <2>1. A \in SUBSET Requests /\ B \in SUBSET Requests
    BY <1>5
  <2>2. IsFiniteSet(A) /\ IsFiniteSet(B)
    BY <1>1, <2>1, FS_Subset
  <2>3. A \cap B = {}
    BY <1>5
  <2>4. {x \in Requests : phase'[x] = "running"} = A \cup B
    BY <1>3, <1>5
  <2>5. busy = Cardinality(A)
    BY DEF Accounted
  <2>6. /\ Cardinality(A \cup B) = Cardinality(A) + Cardinality(B) - Cardinality(A \cap B)
        /\ Cardinality(A) \in Nat /\ Cardinality(B) \in Nat
    <3> HIDE DEF A, B
    <3>1. QED
      BY <2>2, FS_Union, FS_CardinalityType
  <2>7. Cardinality(A \cap B) = 0
    BY <2>3, FS_EmptySet
  <2>8. runningCount' = Cardinality(A) + Cardinality(B)
    BY <1>3, <2>5
  <2> HIDE DEF A, B
  <2>9. runningCount' = Cardinality(A \cup B)
    BY <2>6, <2>7, <2>8
  <2>10. QED
    BY <2>4, <2>9, Zenon
<1>14. \A x \in Requests : phase'[x] = "running" => x \notin aborted
  BY <1>3 DEF Accounted
<1>15. queue' # <<>> => runningCount' = MaxConcurrent
  <2>1. k = Len(q) => queue' = <<>>
    BY <1>6, <1>7
  <2>2. QED
    BY <1>2, <1>3, <1>4, <2>1
<1>16. QED
  BY <1>3, <1>5, <1>6, <1>8, <1>10, <1>11, <1>12, <1>13, <1>14, <1>15 DEF Accounted

-----------------------------------------------------------------------------
(* The inductive invariant.                                                *)

\* The phases of a call tell a single-shot request from a chat.
Modes ==
  \A r \in Requests :
    /\ phase[r] \in {"queued", "running", "won", "lost"} => r \notin Chats
    /\ phase[r] \in {"opening", "streaming", "asking", "cloud", "left"} => r \in Chats

\* The candidates of a call are left over from the ranking.
CandidatesLeft ==
  /\ candidates \in [Requests -> Seq(Providers)]
  /\ \A r \in Requests :
       /\ Len(candidates[r]) <= Len(Ranked[r])
       /\ phase[r] \in {"queued", "running", "won", "lost", "opening", "streaming"}
          => candidates[r] # <<>>

\* Nothing that was aborted runs, no slot is idle while the queue holds an
\* entry, and the queue's array and counter agree with the phases.
Accounts ==
  /\ Accounted(queue, runningCount, phase, aborted)
  /\ queue # <<>> => runningCount = MaxConcurrent

RuntimeInv ==
  /\ Accounts
  /\ Modes
  /\ CandidatesLeft
  /\ aborted \subseteq Singles
  /\ failures \in [Providers -> 0..UnavailableThreshold]
  /\ delivered \in [Requests -> Seq(Providers \cup {Cloud})]
  /\ calls \in [Requests -> Nat]
  /\ answered \subseteq Requests \X Nat \X Nat

\* Beyond what SlotsExact and TypeOK say, Modes keeps the chats out of the
\* queue's phases, and no running request has been aborted.
LEMMA RuntimeInvImplies ==
  ASSUME RuntimeInv
  PROVE  TypeOK /\ SlotsExact
<1>1. TypeOK
  BY DEF RuntimeInv, Accounts, Accounted, CandidatesLeft, TypeOK, Singles
<1>2. SlotsExact
  BY DEF RuntimeInv, Accounts, Accounted, Elements, Ordered, SlotsExact, Queued, RunningNow
<1>3. QED
  BY <1>1, <1>2

-----------------------------------------------------------------------------
(* What the actions do to the queue and to the phases.                     *)

\* Of the other requests, only those that drain() shifts off move.
OthersDrained(r) ==
  \A x \in Requests \ {r} :
    \/ phase'[x] = phase[x]
    \/ phase[x] = "queued" /\ phase'[x] = IF x \in aborted THEN "lost" ELSE "running"

\* The accounts after a step that aborts nothing.
AccountsKept ==
  /\ Accounted(queue', runningCount', phase', aborted)
  /\ queue' # <<>> => runningCount' = MaxConcurrent

\* A step that neither touches the queue nor concerns a request in it.
LEMMA OtherStep ==
  ASSUME Accounts, NEW r \in Requests, NEW v \in Phases \ {"queued", "running"},
         phase[r] \notin {"queued", "running"},
         phase' = [phase EXCEPT ![r] = v], UNCHANGED queueVars
  PROVE  AccountsKept /\ OthersDrained(r) /\ phase'[r] = v
<1>1. phase \in [Requests -> Phases]
  BY DEF Accounts, Accounted
<1>2. /\ phase' \in [Requests -> Phases]
      /\ phase'[r] = v
      /\ \A x \in Requests \ {r} : phase'[x] = phase[x]
      /\ queue' = queue
      /\ runningCount' = runningCount
  BY <1>1 DEF queueVars
<1>3. /\ {x \in Requests : phase'[x] = "queued"} = {x \in Requests : phase[x] = "queued"}
      /\ {x \in Requests : phase'[x] = "running"} = {x \in Requests : phase[x] = "running"}
      /\ \A x \in Requests : phase'[x] = "running" => phase[x] = "running"
  BY <1>2
<1>4. Accounted(queue', runningCount', phase', aborted)
  BY <1>2, <1>3 DEF Accounts, Accounted
<1>5. QED
  BY <1>2, <1>4 DEF Accounts, AccountsKept, OthersDrained

\* The race of r is decided.
LEMMA FinishStep ==
  ASSUME Accounts, NEW r \in Requests, NEW v \in {"won", "lost"},
         phase[r] = "running", Finish(r, v)
  PROVE  /\ AccountsKept
         /\ OthersDrained(r)
         /\ phase'[r] = v
         /\ answered' = answered \cup {Entry(r)}
<1> DEFINE ph == [phase EXCEPT ![r] = v]
           A  == {x \in Requests : phase[x] = "running"}
           B  == {x \in Requests : ph[x] = "running"}
<1>1. /\ phase \in [Requests -> Phases]
      /\ runningCount \in 0..MaxConcurrent
      /\ runningCount = Cardinality(A)
      /\ MaxConcurrent \in Nat
  BY ConstantsAssumption DEF Accounts, Accounted
<1>2. ph \in [Requests -> Phases] /\ ph[r] = v /\ \A x \in Requests \ {r} : ph[x] = phase[x]
  BY <1>1 DEF Phases
<1> HIDE DEF ph
<1>3. {x \in Requests : ph[x] = "queued"} = {x \in Requests : phase[x] = "queued"}
  BY <1>2
<1>4. B = A \ {r} /\ r \in A /\ A \in SUBSET Requests
  BY <1>2
<1> HIDE DEF A, B
<1>5. IsFiniteSet(A) /\ Cardinality(A) \in Nat
  BY <1>4, ConstantsAssumption, FS_Subset, FS_CardinalityType
<1>6. Cardinality(A \ {r}) = Cardinality(A) - 1 /\ Cardinality(A \ {r}) \in Nat
  <2>1. IsFiniteSet(A \ {r}) /\ Cardinality(A \ {r}) = IF r \in A THEN Cardinality(A) - 1 ELSE Cardinality(A)
    BY <1>5, FS_RemoveElement
  <2>2. QED
    BY <1>4, <2>1, FS_CardinalityType
<1>7. runningCount - 1 \in 0..MaxConcurrent /\ runningCount - 1 = Cardinality(B)
  BY <1>1, <1>4, <1>5, <1>6
<1>8. \A x \in Requests : ph[x] = "running" => x \notin aborted
  BY <1>2 DEF Accounts, Accounted
<1>9. Accounted(queue, runningCount - 1, ph, aborted)
  BY <1>2, <1>3, <1>7, <1>8 DEF Accounts, Accounted, B
<1>10. Drain(queue, runningCount - 1, ph) /\ answered' = answered \cup {Entry(r)}
  BY DEF Finish, ph
<1>11. /\ AccountsKept
       /\ \A x \in Requests :
            \/ phase'[x] = ph[x]
            \/ x \in Elements(queue) /\ phase'[x] = IF x \in aborted THEN "lost" ELSE "running"
  BY <1>9, <1>10, DrainFacts DEF AccountsKept
<1>12. \A x \in Elements(queue) : x # r /\ phase[x] = "queued"
  BY DEF Accounts, Accounted
<1>13. QED
  BY <1>2, <1>10, <1>11, <1>12 DEF OthersDrained

\* enqueue() of a request that is not in the queue.
LEMMA EnqueueStep ==
  ASSUME Accounts, NEW r \in Singles, phase[r] \notin {"queued", "running"},
         Enqueue(r, phase)
  PROVE  /\ AccountsKept
         /\ OthersDrained(r)
         /\ phase'[r] \in IF r \in aborted THEN {"lost"} ELSE {"queued", "running"}
<1>0. r \in Requests
  BY DEF Singles
<1>1. CASE r \in aborted
  <2>1. phase' = [phase EXCEPT ![r] = "lost"] /\ UNCHANGED queueVars
    BY <1>1 DEF Enqueue
  <2>2. "lost" \in Phases \ {"queued", "running"}
    BY DEF Phases
  <2>3. QED
    BY <1>0, <1>1, <2>1, <2>2, OtherStep
<1>2. CASE r \notin aborted
  <2> DEFINE ph == [phase EXCEPT ![r] = "queued"]
             q  == Inserted(queue, r)
  <2>1. Drain(q, runningCount, ph)
    BY <1>2 DEF Enqueue
  <2>2. /\ phase \in [Requests -> Phases]
        /\ queue \in Seq(Singles)
        /\ Ordered(queue)
        /\ Elements(queue) = {x \in Requests : phase[x] = "queued"}
    BY DEF Accounts, Accounted
  <2>3. /\ ph \in [Requests -> Phases]
        /\ ph[r] = "queued"
        /\ \A x \in Requests \ {r} : ph[x] = phase[x]
    BY <1>0, <2>2 DEF Phases
  <2>4. r \notin Elements(queue)
    BY <2>2
  <2>5. q \in Seq(Singles) /\ Ordered(q) /\ Elements(q) = Elements(queue) \cup {r}
    BY <2>2, <2>4, InsertedFacts
  <2> HIDE DEF ph, q
  <2>6. /\ Elements(q) = {x \in Requests : ph[x] = "queued"}
        /\ {x \in Requests : ph[x] = "running"} = {x \in Requests : phase[x] = "running"}
    BY <1>0, <2>2, <2>3, <2>5
  <2>7. \A x \in Requests : ph[x] = "running" => x \notin aborted
    BY <2>3 DEF Accounts, Accounted
  <2>8. Accounted(q, runningCount, ph, aborted)
    BY <2>3, <2>5, <2>6, <2>7 DEF Accounts, Accounted
  <2>9. /\ AccountsKept
        /\ \A x \in Requests :
             \/ phase'[x] = ph[x]
             \/ x \in Elements(q) /\ phase'[x] = IF x \in aborted THEN "lost" ELSE "running"
    BY <2>1, <2>8, DrainFacts DEF AccountsKept
  <2>10. \A x \in Elements(q) : x = r \/ phase[x] = "queued"
    BY <2>2, <2>5
  <2>11. OthersDrained(r)
    BY <2>3, <2>9, <2>10 DEF OthersDrained
  <2>12. QED
    BY <1>0, <1>2, <2>3, <2>9, <2>11
<1>3. QED
  BY <1>1, <1>2

\* The next candidate is tried, or there is none.
LEMMA TryStep ==
  ASSUME Accounts, NEW r \in Requests, NEW cs,
         phase[r] \notin {"queued", "running"}, Try(r, cs)
  PROVE  /\ AccountsKept
         /\ OthersDrained(r)
         /\ candidates' = [candidates EXCEPT ![r] = cs]
         /\ phase'[r] \in IF r \in Chats THEN (IF cs = <<>> THEN {"asking"} ELSE {"opening"})
                          ELSE IF cs = <<>> THEN {"failed"}
                          ELSE IF r \in aborted THEN {"lost"}
                          ELSE {"queued", "running"}
<1>1. candidates' = [candidates EXCEPT ![r] = cs]
  BY DEF Try
<1>2. CASE cs # <<>> /\ r \notin Chats
  <2>1. r \in Singles /\ Enqueue(r, phase)
    BY <1>2 DEF Try, Singles
  <2>2. QED
    BY <1>1, <1>2, <2>1, EnqueueStep
<1>3. CASE ~(cs # <<>> /\ r \notin Chats)
  <2> DEFINE v == IF r \notin Chats THEN "failed" ELSE IF cs = <<>> THEN "asking" ELSE "opening"
  <2>1. phase' = [phase EXCEPT ![r] = v] /\ UNCHANGED queueVars
    BY <1>3 DEF Try
  <2>2. v \in Phases \ {"queued", "running"}
    BY DEF Phases, Final
  <2> HIDE DEF v
  <2>3. AccountsKept /\ OthersDrained(r) /\ phase'[r] = v
    BY <2>1, <2>2, OtherStep
  <2>4. QED
    BY <1>1, <1>3, <2>3 DEF v
<1>4. QED
  BY <1>2, <1>3

\* The phases in which a call has a current candidate.
Engaged == {"queued", "running", "won", "lost", "opening", "streaming"}

\* What is left to check of a step that does this to the queue.
LEMMA StepKeeps ==
  ASSUME RuntimeInv, NEW r \in Requests,
         AccountsKept, OthersDrained(r),
         phase'[r] = "running" => r \notin aborted',
         aborted' \subseteq Singles, aborted' \subseteq aborted \cup {r},
         candidates' \in [Requests -> Seq(Providers)],
         \A x \in Requests \ {r} : candidates'[x] = candidates[x],
         Len(candidates'[r]) <= Len(Ranked[r]),
         phase'[r] \in Engaged => candidates'[r] # <<>>,
         phase'[r] \in {"queued", "running", "won", "lost"} => r \notin Chats,
         phase'[r] \in {"opening", "streaming", "asking", "cloud", "left"} => r \in Chats,
         failures' \in [Providers -> 0..UnavailableThreshold],
         delivered' \in [Requests -> Seq(Providers \cup {Cloud})],
         calls' \in [Requests -> Nat],
         answered' \subseteq Requests \X Nat \X Nat
  PROVE  RuntimeInv' /\ OthersDrained(r)
<1>1. Accounts'
  <2>1. \A x \in Requests : phase'[x] = "running" => x \notin aborted'
    BY DEF AccountsKept, Accounted
  <2>2. QED
    BY <2>1 DEF AccountsKept, Accounts, Accounted
<1>2. Modes'
  BY DEF RuntimeInv, Modes, OthersDrained
<1>3. CandidatesLeft'
  <2>1. ASSUME NEW x \in Requests
        PROVE  /\ Len(candidates'[x]) <= Len(Ranked[x])
               /\ phase'[x] \in Engaged => candidates'[x] # <<>>
    <3>1. CASE x = r
      BY <3>1
    <3>2. CASE x # r
      BY <3>2 DEF RuntimeInv, CandidatesLeft, OthersDrained, Engaged
    <3>3. QED
      BY <3>1, <3>2
  <2>2. QED
    BY <2>1 DEF CandidatesLeft, Engaged
<1>4. QED
  BY <1>1, <1>2, <1>3 DEF RuntimeInv

\* A step that leaves the queue and the candidates alone.
LEMMA PhaseStep ==
  ASSUME RuntimeInv, NEW r \in Requests, NEW v \in Phases \ {"queued", "running"},
         phase[r] \notin {"queued", "running"},
         phase' = [phase EXCEPT ![r] = v], UNCHANGED <<queueVars, candidates, aborted>>,
         v \in Engaged => phase[r] \in Engaged,
         v \in {"won", "lost"} => r \notin Chats,
         v \in {"opening", "streaming", "asking", "cloud", "left"} => r \in Chats,
         failures' \in [Providers -> 0..UnavailableThreshold],
         delivered' \in [Requests -> Seq(Providers \cup {Cloud})],
         calls' \in [Requests -> Nat],
         answered' \subseteq Requests \X Nat \X Nat
  PROVE  RuntimeInv' /\ OthersDrained(r)
<1>1. AccountsKept /\ OthersDrained(r) /\ phase'[r] = v
  BY OtherStep DEF RuntimeInv
<1>2. /\ candidates' = candidates /\ aborted' = aborted
      /\ candidates \in [Requests -> Seq(Providers)]
      /\ Len(candidates[r]) <= Len(Ranked[r])
      /\ phase[r] \in Engaged => candidates[r] # <<>>
      /\ aborted \subseteq Singles
  BY DEF RuntimeInv, CandidatesLeft, Engaged
<1>3. QED
  BY <1>1, <1>2, StepKeeps

LEMMA HealthType ==
  ASSUME failures \in [Providers -> 0..UnavailableThreshold], NEW p \in Providers,
         RecordSuccess(p) \/ RecordFailure(p) \/ UNCHANGED failures
  PROVE  failures' \in [Providers -> 0..UnavailableThreshold]
<1>1. UnavailableThreshold \in Nat \ {0} /\ failures[p] \in 0..UnavailableThreshold
  BY ConstantsAssumption
<1>2. CASE RecordSuccess(p)
  BY <1>1, <1>2 DEF RecordSuccess
<1>3. CASE RecordFailure(p)
  <2>1. (IF IsUsable(p) THEN failures[p] + 1 ELSE failures[p]) \in 0..UnavailableThreshold
    BY <1>1 DEF IsUsable
  <2>2. QED
    BY <1>3, <2>1 DEF RecordFailure
<1>4. QED
  BY <1>2, <1>3

\* The current candidate of a call, and what is left without it.
LEMMA CandidateFacts ==
  ASSUME RuntimeInv, NEW r \in Requests, phase[r] \in Engaged
  PROVE  /\ Tried(r) \in Providers
         /\ Tail(candidates[r]) \in Seq(Providers)
         /\ Len(Tail(candidates[r])) = Len(candidates[r]) - 1
         /\ Len(Tail(candidates[r])) <= Len(Ranked[r])
         /\ Len(candidates[r]) \in Nat \ {0}
<1>1. /\ candidates[r] \in Seq(Providers) /\ candidates[r] # <<>>
      /\ Len(candidates[r]) <= Len(Ranked[r])
      /\ Len(Ranked[r]) \in Nat
  BY ConstantsAssumption DEF RuntimeInv, CandidatesLeft, Engaged
<1>2. QED
  BY <1>1, HeadTailProperties DEF Tried

\* The next candidate is tried, and the failure of the last one may count.
LEMMA TryKeeps ==
  ASSUME RuntimeInv, NEW r \in Requests, NEW cs \in Seq(Providers),
         Len(cs) <= Len(Ranked[r]),
         phase[r] \notin {"queued", "running"}, Try(r, cs),
         UNCHANGED <<aborted, delivered, calls, answered>>,
         failures' \in [Providers -> 0..UnavailableThreshold]
  PROVE  RuntimeInv' /\ OthersDrained(r)
<1>1. /\ AccountsKept
      /\ OthersDrained(r)
      /\ candidates' = [candidates EXCEPT ![r] = cs]
      /\ phase'[r] \in IF r \in Chats THEN (IF cs = <<>> THEN {"asking"} ELSE {"opening"})
                       ELSE IF cs = <<>> THEN {"failed"}
                       ELSE IF r \in aborted THEN {"lost"}
                       ELSE {"queued", "running"}
  BY TryStep DEF RuntimeInv
<1>2. /\ candidates' \in [Requests -> Seq(Providers)]
      /\ candidates'[r] = cs
      /\ \A x \in Requests \ {r} : candidates'[x] = candidates[x]
  BY <1>1 DEF RuntimeInv, CandidatesLeft
<1>3. /\ phase'[r] = "running" => r \notin aborted
      /\ phase'[r] \in Engaged => cs # <<>>
      /\ phase'[r] \in {"queued", "running", "won", "lost"} => r \notin Chats
      /\ phase'[r] \in {"opening", "streaming", "asking", "cloud", "left"} => r \in Chats
  BY <1>1 DEF Engaged
<1>4. /\ aborted' = aborted /\ aborted \subseteq Singles
      /\ delivered' \in [Requests -> Seq(Providers \cup {Cloud})]
      /\ calls' \in [Requests -> Nat]
      /\ answered' \subseteq Requests \X Nat \X Nat
  BY DEF RuntimeInv
<1>5. QED
  BY <1>1, <1>2, <1>3, <1>4, StepKeeps

LEMMA EntryType ==
  ASSUME RuntimeInv, NEW r \in Requests
  PROVE  Entry(r) \in Requests \X Nat \X Nat
BY DEF RuntimeInv, CandidatesLeft, Entry

LEMMA FinishKeeps ==
  ASSUME RuntimeInv, NEW r \in Requests, NEW v \in {"won", "lost"},
         phase[r] = "running", Finish(r, v),
         aborted' \subseteq Singles, aborted' \subseteq aborted \cup {r},
         UNCHANGED <<candidates, failures, delivered, calls>>
  PROVE  RuntimeInv' /\ OthersDrained(r)
<1>1. /\ AccountsKept
      /\ OthersDrained(r)
      /\ phase'[r] = v
      /\ answered' = answered \cup {Entry(r)}
  BY FinishStep DEF RuntimeInv
<1>2. r \notin Chats /\ candidates[r] # <<>> /\ Len(candidates[r]) <= Len(Ranked[r])
  BY DEF RuntimeInv, Modes, CandidatesLeft
<1>3. /\ candidates' \in [Requests -> Seq(Providers)]
      /\ candidates' = candidates
      /\ failures' \in [Providers -> 0..UnavailableThreshold]
      /\ delivered' \in [Requests -> Seq(Providers \cup {Cloud})]
      /\ calls' \in [Requests -> Nat]
      /\ answered' \subseteq Requests \X Nat \X Nat
  BY <1>1, EntryType DEF RuntimeInv, CandidatesLeft
<1>4. QED
  BY <1>1, <1>2, <1>3, StepKeeps DEF Engaged

-----------------------------------------------------------------------------
(* The invariant is inductive.                                             *)

LEMMA InitEstablishes ==
  ASSUME Init
  PROVE  RuntimeInv
<1>1. /\ phase = [r \in Requests |-> "idle"] /\ queue = <<>> /\ runningCount = 0
      /\ "idle" \in Phases
      /\ MaxConcurrent \in Nat
  BY ConstantsAssumption DEF Init, Phases
<1>2. Accounts
  <2>1. queue \in Seq(Singles) /\ Ordered(queue) /\ Elements(queue) = {}
    BY <1>1 DEF Ordered, Elements
  <2>2. {x \in Requests : phase[x] = "queued"} = {} /\ {x \in Requests : phase[x] = "running"} = {}
    BY <1>1
  <2>3. Cardinality({x \in Requests : phase[x] = "running"}) = 0
    BY <2>2, FS_EmptySet
  <2>4. QED
    BY <1>1, <2>1, <2>2, <2>3 DEF Accounts, Accounted
<1>3. Modes
  BY <1>1 DEF Modes
<1>4. CandidatesLeft
  <2>1. \A r \in Requests : Len(Ranked[r]) \in Nat
    BY ConstantsAssumption
  <2>2. candidates = [r \in Requests |-> <<>>]
    BY DEF Init
  <2>3. QED
    BY <1>1, <2>1, <2>2 DEF CandidatesLeft
<1>5. failures \in [Providers -> 0..UnavailableThreshold]
  BY ConstantsAssumption DEF Init
<1>6. delivered \in [Requests -> Seq(Providers \cup {Cloud})] /\ calls \in [Requests -> Nat]
  BY DEF Init
<1>7. aborted \subseteq Singles /\ answered \subseteq Requests \X Nat \X Nat
  BY DEF Init
<1>8. QED
  BY <1>2, <1>3, <1>4, <1>5, <1>6, <1>7 DEF RuntimeInv

\* The steps of the caller.
LEMMA CallerKeeps ==
  ASSUME RuntimeInv, NEW r \in Requests, Call(r) \/ CallAgain(r) \/ Abort(r)
  PROVE  RuntimeInv' /\ OthersDrained(r)
<1>0. /\ phase \in [Requests -> Phases]
      /\ candidates \in [Requests -> Seq(Providers)]
      /\ aborted \subseteq Singles
      /\ failures \in [Providers -> 0..UnavailableThreshold]
      /\ delivered \in [Requests -> Seq(Providers \cup {Cloud})]
      /\ calls \in [Requests -> Nat]
      /\ answered \subseteq Requests \X Nat \X Nat
      /\ Len(candidates[r]) <= Len(Ranked[r])
      /\ Ranked[r] \in Seq(Providers) /\ Len(Ranked[r]) \in Nat
      /\ Accounts
  <2>1. Accounts
    BY DEF RuntimeInv
  <2>2. phase \in [Requests -> Phases]
    BY <2>1 DEF Accounts, Accounted
  <2>3. Ranked[r] \in Seq(Providers) /\ Len(Ranked[r]) \in Nat
    BY ConstantsAssumption
  <2>4. candidates \in [Requests -> Seq(Providers)] /\ Len(candidates[r]) <= Len(Ranked[r])
    BY DEF RuntimeInv, CandidatesLeft
  <2>5. QED
    BY <2>1, <2>2, <2>3, <2>4 DEF RuntimeInv
<1>1. CASE Call(r)
  <2>1. /\ phase[r] = "idle"
        /\ phase' = [phase EXCEPT ![r] = "chosen"]
        /\ candidates' = [candidates EXCEPT ![r] = Usable(Ranked[r])]
        /\ calls' = [calls EXCEPT ![r] = IF r \in Endless THEN @ ELSE @ + 1]
        /\ UNCHANGED <<queueVars, aborted, failures, delivered, answered>>
    BY <1>1 DEF Call
  <2>2. Usable(Ranked[r]) \in Seq(Providers) /\ Len(Usable(Ranked[r])) <= Len(Ranked[r])
    BY <1>0, UsableType
  <2>3. "chosen" \in Phases \ {"queued", "running"} /\ "chosen" \notin Engaged
    BY DEF Phases, Engaged
  <2>4. AccountsKept /\ OthersDrained(r) /\ phase'[r] = "chosen"
    BY <1>0, <2>1, <2>3, OtherStep
  <2>5. /\ candidates' \in [Requests -> Seq(Providers)]
        /\ \A x \in Requests \ {r} : candidates'[x] = candidates[x]
        /\ Len(candidates'[r]) <= Len(Ranked[r])
    BY <1>0, <2>1, <2>2
  <2>6. calls' \in [Requests -> Nat]
    <3>1. (IF r \in Endless THEN calls[r] ELSE calls[r] + 1) \in Nat
      BY <1>0
    <3>2. QED
      BY <1>0, <2>1, <3>1
  <2>7. QED
    BY <1>0, <2>1, <2>3, <2>4, <2>5, <2>6, StepKeeps
<1>2. CASE CallAgain(r)
  <2>1. /\ phase[r] \in Final
        /\ phase' = [phase EXCEPT ![r] = "idle"]
        /\ candidates' = [candidates EXCEPT ![r] = <<>>]
        /\ aborted' = aborted \ {r}
        /\ delivered' = [delivered EXCEPT ![r] = <<>>]
        /\ UNCHANGED <<queueVars, failures, calls, answered>>
    BY <1>2 DEF CallAgain
  <2>2. "idle" \in Phases \ {"queued", "running"} /\ "idle" \notin Engaged
        /\ phase[r] \notin {"queued", "running"}
    BY <2>1 DEF Phases, Engaged, Final
  <2>3. AccountsKept /\ OthersDrained(r) /\ phase'[r] = "idle"
    BY <1>0, <2>1, <2>2, OtherStep
  <2>4. /\ candidates' \in [Requests -> Seq(Providers)]
        /\ \A x \in Requests \ {r} : candidates'[x] = candidates[x]
        /\ Len(candidates'[r]) <= Len(Ranked[r])
    BY <1>0, <2>1
  <2>5. delivered' \in [Requests -> Seq(Providers \cup {Cloud})]
    BY <1>0, <2>1
  <2>6. QED
    BY <1>0, <2>1, <2>2, <2>3, <2>4, <2>5, StepKeeps
<1>3. CASE Abort(r)
  <2>1. /\ r \notin Chats
        /\ aborted' = aborted \cup {r}
        /\ r \in Singles
        /\ UNCHANGED <<candidates, failures, delivered, calls>>
    BY <1>3 DEF Abort, Singles
  <2>2. CASE phase[r] = "running"
    <3>1. Finish(r, "lost")
      BY <1>3, <2>2 DEF Abort
    <3>2. QED
      BY <1>0, <2>1, <2>2, <3>1, FinishKeeps
  <2>3. CASE phase[r] # "running"
    <3>1. /\ answered' \subseteq answered \cup {Entry(r)}
          /\ UNCHANGED <<queueVars, phase>>
      BY <1>3, <2>3 DEF Abort
    <3>2. answered' \subseteq Requests \X Nat \X Nat
      BY <1>0, <3>1, EntryType
    <3>3. AccountsKept /\ OthersDrained(r)
      BY <1>0, <3>1 DEF AccountsKept, Accounts, OthersDrained, queueVars
    <3>4. /\ phase'[r] = phase[r]
          /\ phase[r] \in Engaged => candidates[r] # <<>>
          /\ phase[r] \in {"queued", "running", "won", "lost"} => r \notin Chats
          /\ phase[r] \in {"opening", "streaming", "asking", "cloud", "left"} => r \in Chats
      BY <3>1 DEF RuntimeInv, CandidatesLeft, Modes, Engaged
    <3>5. QED
      BY <1>0, <2>1, <2>3, <3>2, <3>3, <3>4, StepKeeps
  <2>4. QED
    BY <2>2, <2>3
<1>4. QED
  BY <1>1, <1>2, <1>3

\* The steps of a single-shot request.
LEMMA SingleShotKeeps ==
  ASSUME RuntimeInv, NEW r \in Requests,
         \/ Begin(r) \/ ProviderAnswers(r) \/ ProviderFails(r) \/ Expire(r)
         \/ Answered(r) \/ FallBack(r)
  PROVE  RuntimeInv' /\ OthersDrained(r)
<1>0. /\ aborted \subseteq Singles
      /\ failures \in [Providers -> 0..UnavailableThreshold]
      /\ delivered \in [Requests -> Seq(Providers \cup {Cloud})]
      /\ calls \in [Requests -> Nat]
      /\ answered \subseteq Requests \X Nat \X Nat
      /\ candidates[r] \in Seq(Providers)
      /\ Len(candidates[r]) <= Len(Ranked[r])
  BY DEF RuntimeInv, CandidatesLeft
<1>1. CASE Begin(r)
  BY <1>0, <1>1, TryKeeps DEF Begin
<1>2. CASE ProviderAnswers(r)
  BY <1>0, <1>2, FinishKeeps DEF ProviderAnswers
<1>3. CASE ProviderFails(r)
  BY <1>0, <1>3, FinishKeeps DEF ProviderFails
<1>4. CASE Expire(r)
  BY <1>0, <1>4, FinishKeeps DEF Expire
<1>5. CASE Answered(r)
  <2>1. /\ phase[r] = "won"
        /\ phase' = [phase EXCEPT ![r] = "succeeded"]
        /\ RecordSuccess(Tried(r))
        /\ UNCHANGED <<queueVars, candidates, aborted, delivered, calls, answered>>
    BY <1>5 DEF Answered
  <2>2. Tried(r) \in Providers
    BY <2>1, CandidateFacts DEF Engaged
  <2>3. failures' \in [Providers -> 0..UnavailableThreshold]
    BY <1>0, <2>1, <2>2, HealthType
  <2>4. "succeeded" \in Phases \ {"queued", "running"} /\ "succeeded" \notin Engaged
    BY DEF Phases, Final, Engaged
  <2>5. QED
    BY <1>0, <2>1, <2>3, <2>4, PhaseStep
<1>6. CASE FallBack(r)
  <2>1. /\ phase[r] = "lost"
        /\ RecordFailure(Tried(r))
        /\ Try(r, Tail(candidates[r]))
        /\ UNCHANGED <<aborted, delivered, calls, answered>>
    BY <1>6 DEF FallBack
  <2>2. /\ Tried(r) \in Providers
        /\ Tail(candidates[r]) \in Seq(Providers)
        /\ Len(Tail(candidates[r])) <= Len(Ranked[r])
    BY <2>1, CandidateFacts DEF Engaged
  <2>3. failures' \in [Providers -> 0..UnavailableThreshold]
    BY <1>0, <2>1, <2>2, HealthType
  <2>4. QED
    BY <2>1, <2>2, <2>3, TryKeeps
<1>7. QED
  BY <1>1, <1>2, <1>3, <1>4, <1>5, <1>6

\* The steps of a chat.
LEMMA ChatKeeps ==
  ASSUME RuntimeInv, NEW r \in Requests, StreamStep(r) \/ Leave(r)
  PROVE  RuntimeInv' /\ OthersDrained(r)
<1>0. /\ failures \in [Providers -> 0..UnavailableThreshold]
      /\ delivered \in [Requests -> Seq(Providers \cup {Cloud})]
      /\ calls \in [Requests -> Nat]
      /\ answered \subseteq Requests \X Nat \X Nat
      /\ phase[r] \in {"opening", "streaming", "asking", "cloud", "left"} => r \in Chats
  BY DEF RuntimeInv, Modes
<1>1. /\ {"streaming", "cloud", "succeeded", "failed", "left"} \subseteq Phases \ {"queued", "running"}
      /\ {"cloud", "succeeded", "failed", "left"} \cap Engaged = {}
      /\ {"opening", "streaming"} \subseteq Engaged
  BY DEF Phases, Final, Engaged
<1>2. CASE StreamYields(r)
  <2>1. /\ phase[r] \in {"opening", "streaming"}
        /\ phase' = [phase EXCEPT ![r] = "streaming"]
        /\ delivered' = [delivered EXCEPT ![r] = Append(@, Tried(r))]
        /\ RecordSuccess(Tried(r)) \/ UNCHANGED failures
        /\ UNCHANGED <<queueVars, candidates, aborted, calls, answered>>
    BY <1>2 DEF StreamYields
  <2>2. Tried(r) \in Providers
    BY <1>1, <2>1, CandidateFacts
  <2>3. failures' \in [Providers -> 0..UnavailableThreshold]
    BY <1>0, <2>1, <2>2, HealthType
  <2>4. delivered' \in [Requests -> Seq(Providers \cup {Cloud})]
    BY <1>0, <2>1, <2>2
  <2>5. QED
    BY <1>0, <1>1, <2>1, <2>3, <2>4, PhaseStep
<1>3. CASE StreamEnds(r)
  <2>1. /\ phase[r] \in {"opening", "streaming"}
        /\ phase' = [phase EXCEPT ![r] = "succeeded"]
        /\ RecordSuccess(Tried(r)) \/ UNCHANGED failures
        /\ UNCHANGED <<queueVars, candidates, aborted, delivered, calls, answered>>
    BY <1>3 DEF StreamEnds
  <2>2. Tried(r) \in Providers
    BY <1>1, <2>1, CandidateFacts
  <2>3. failures' \in [Providers -> 0..UnavailableThreshold]
    BY <1>0, <2>1, <2>2, HealthType
  <2>4. QED
    BY <1>0, <1>1, <2>1, <2>3, PhaseStep
<1>4. CASE StreamFails(r)
  <2>1. /\ phase[r] \in {"opening", "streaming"}
        /\ RecordFailure(Tried(r))
        /\ Try(r, Tail(candidates[r]))
        /\ UNCHANGED <<aborted, delivered, calls, answered>>
    BY <1>4 DEF StreamFails
  <2>2. /\ Tried(r) \in Providers
        /\ Tail(candidates[r]) \in Seq(Providers)
        /\ Len(Tail(candidates[r])) <= Len(Ranked[r])
    BY <1>1, <2>1, CandidateFacts
  <2>3. failures' \in [Providers -> 0..UnavailableThreshold]
    BY <1>0, <2>1, <2>2, HealthType
  <2>4. QED
    BY <2>1, <2>2, <2>3, TryKeeps
<1>5. CASE AskCloud(r)
  <2>1. PICK v \in {"cloud", "failed"} : phase' = [phase EXCEPT ![r] = v]
    BY <1>5 DEF AskCloud
  <2>2. QED
    BY <1>0, <1>1, <1>5, <2>1, PhaseStep DEF AskCloud
<1>6. CASE CloudYields(r)
  <2>1. /\ phase[r] = "cloud"
        /\ delivered' = [delivered EXCEPT ![r] = Append(@, Cloud)]
        /\ UNCHANGED <<queueVars, phase, candidates, aborted, failures, calls, answered>>
    BY <1>6 DEF CloudYields
  <2>2. delivered' \in [Requests -> Seq(Providers \cup {Cloud})]
    BY <1>0, <2>1
  <2>3. phase' = [phase EXCEPT ![r] = "cloud"]
    BY <2>1 DEF RuntimeInv, Accounts, Accounted
  <2>4. QED
    BY <1>0, <1>1, <2>1, <2>2, <2>3, PhaseStep
<1>7. CASE CloudEnds(r)
  <2>1. PICK v \in {"succeeded", "failed"} : phase' = [phase EXCEPT ![r] = v]
    BY <1>7 DEF CloudEnds
  <2>2. QED
    BY <1>0, <1>1, <1>7, <2>1, PhaseStep DEF CloudEnds
<1>8. CASE Leave(r)
  BY <1>0, <1>1, <1>8, PhaseStep DEF Leave
<1>9. QED
  BY <1>2, <1>3, <1>4, <1>5, <1>6, <1>7, <1>8 DEF StreamStep

LEMMA StutterKeeps ==
  ASSUME RuntimeInv, UNCHANGED vars
  PROVE  RuntimeInv'
BY DEF vars, RuntimeInv, Accounts, Accounted, Modes, CandidatesLeft

LEMMA NextKeeps ==
  ASSUME RuntimeInv, Next
  PROVE  RuntimeInv'
<1>1. PICK r \in Requests :
        \/ Call(r) \/ CallAgain(r) \/ Abort(r) \/ Leave(r)
        \/ ProviderAnswers(r) \/ ProviderFails(r) \/ Step(r) \/ StreamStep(r)
  BY DEF Next
<1>2. QED
  BY <1>1, CallerKeeps, SingleShotKeeps, ChatKeeps DEF Step

LEMMA RuntimeInvariance == Spec => []RuntimeInv
<1>1. Init => RuntimeInv
  BY InitEstablishes
<1>2. RuntimeInv /\ [Next]_vars => RuntimeInv'
  BY NextKeeps, StutterKeeps
<1>3. QED
  BY <1>1, <1>2, PTL DEF Spec

\* The queue of LocalRuntimeManager never overbooks its slots, leaves none
\* idle while a request waits, and holds each waiting request once, in the
\* order of priority (InferenceQueue.drain() and runOne()).
THEOREM InferenceSlotsAreExact == Spec => [](TypeOK /\ SlotsExact)
<1>1. RuntimeInv => TypeOK /\ SlotsExact
  BY RuntimeInvImplies
<1>2. QED
  BY <1>1, RuntimeInvariance, PTL

-----------------------------------------------------------------------------
(* The fate of an aborted request.                                         *)

LEMMA ActorHeeds ==
  ASSUME RuntimeInv, NEW r \in Requests, r \in aborted, r \in aborted',
         \/ Call(r) \/ CallAgain(r) \/ Abort(r) \/ Leave(r)
         \/ ProviderAnswers(r) \/ ProviderFails(r) \/ Step(r) \/ StreamStep(r)
  PROVE  /\ phase'[r] # "running"
         /\ phase'[r] = "succeeded" => phase[r] \in {"won", "succeeded"}
<1>1. /\ Accounts
      /\ phase \in [Requests -> Phases]
      /\ phase[r] # "running"
      /\ r \notin Chats
      /\ phase[r] \notin {"opening", "streaming", "asking", "cloud", "left"}
  <2>1. Accounts /\ r \in Singles
    BY DEF RuntimeInv
  <2>2. phase \in [Requests -> Phases] /\ phase[r] # "running"
    BY <2>1 DEF Accounts, Accounted
  <2>3. QED
    BY <2>1, <2>2 DEF RuntimeInv, Modes, Singles
<1>2. CASE Call(r)
  BY <1>1, <1>2 DEF Call
<1>3. CASE CallAgain(r)
  BY <1>3 DEF CallAgain
<1>4. CASE Abort(r)
  BY <1>4 DEF Abort
<1>5. CASE ProviderAnswers(r) \/ ProviderFails(r) \/ Expire(r)
  BY <1>1, <1>5 DEF ProviderAnswers, ProviderFails, Expire
<1>6. CASE Begin(r)
  BY <1>1, <1>6, TryStep DEF Begin
<1>7. CASE FallBack(r)
  BY <1>1, <1>7, TryStep DEF FallBack
<1>8. CASE Answered(r)
  BY <1>1, <1>8 DEF Answered
<1>9. CASE Leave(r) \/ StreamStep(r)
  BY <1>1, <1>9 DEF Leave, StreamStep, StreamYields, StreamEnds, StreamFails,
                    AskCloud, CloudYields, CloudEnds
<1>10. QED
  BY <1>2, <1>3, <1>4, <1>5, <1>6, <1>7, <1>8, <1>9 DEF Step

\* Wherever an abort finds a single-shot request, no provider is called for
\* it any more, and it succeeds only if its provider had answered already
\* (InferenceQueue.runOne() and LocalRuntimeManager.runWithFallback()).
THEOREM AbortsAreHeeded == Spec => AbortedIsHeeded
<1> DEFINE Heeded == \A x \in aborted \cap aborted' :
                       /\ phase'[x] # "running"
                       /\ phase'[x] = "succeeded" => phase[x] \in {"won", "succeeded"}
<1>1. ASSUME RuntimeInv, [Next]_vars
      PROVE  [Heeded]_vars
  <2>1. SUFFICES ASSUME Next PROVE Heeded
    BY <1>1
  <2>2. SUFFICES ASSUME NEW x \in aborted \cap aborted'
                 PROVE  /\ phase'[x] # "running"
                        /\ phase'[x] = "succeeded" => phase[x] \in {"won", "succeeded"}
    OBVIOUS
  <2>3. PICK r \in Requests :
          \/ Call(r) \/ CallAgain(r) \/ Abort(r) \/ Leave(r)
          \/ ProviderAnswers(r) \/ ProviderFails(r) \/ Step(r) \/ StreamStep(r)
    BY <2>1 DEF Next
  <2>4. x \in Requests /\ phase[x] # "running"
    BY <1>1, <2>2 DEF RuntimeInv, Accounts, Accounted, Singles
  <2>5. CASE x = r
    BY <1>1, <2>2, <2>3, <2>5, ActorHeeds
  <2>6. CASE x # r
    <3>1. OthersDrained(r)
      BY <1>1, <2>3, CallerKeeps, SingleShotKeeps, ChatKeeps DEF Step
    <3>2. QED
      BY <2>2, <2>4, <2>6, <3>1 DEF OthersDrained
  <2>7. QED
    BY <2>5, <2>6
<1>2. RuntimeInv /\ [Next]_vars =>
        [\A r \in aborted \cap aborted' :
           /\ phase'[r] # "running"
           /\ phase'[r] = "succeeded" => phase[r] \in {"won", "succeeded"}]_vars
  BY <1>1
<1>3. QED
  BY <1>2, RuntimeInvariance, PTL DEF Spec, AbortedIsHeeded

-----------------------------------------------------------------------------
(* What drain() starts.                                                    *)

LEMMA DrainMoves ==
  ASSUME NEW q, NEW busy, NEW ph, Accounted(q, busy, ph, aborted), Drain(q, busy, ph)
  PROVE  \A x \in Requests :
           IF x \in Takers(q, DrainCount(q, busy)) THEN phase'[x] = "running"
           ELSE \/ phase'[x] = ph[x]
                \/ x \in aborted /\ ph[x] = "queued" /\ phase'[x] = "lost"
<1> DEFINE k       == DrainCount(q, busy)
           shifted == {q[m] : m \in 1..k}
<1>1. phase' = [x \in Requests |->
                  IF x \notin shifted THEN ph[x]
                  ELSE IF x \in aborted THEN "lost" ELSE "running"]
  BY DEF Drain
<1>2. Takers(q, k) = shifted \ aborted
  BY DEF Takers
<1>3. q \in Seq(Singles) /\ busy \in Nat /\ Len(q) \in Nat /\ DOMAIN q = 1..Len(q)
  BY ConstantsAssumption DEF Accounted
<1>4. k \in 0..Len(q)
  BY <1>3, DrainCountFacts
<1> HIDE DEF k
<1>5. \A m \in 1..k : m \in DOMAIN q
  BY <1>3, <1>4
<1>6. shifted \subseteq Elements(q)
  BY <1>5 DEF Elements
<1> HIDE DEF shifted
<1>7. \A x \in shifted : ph[x] = "queued"
  BY <1>6 DEF Accounted
<1>8. QED
  BY <1>1, <1>2, <1>7 DEF k

\* With one slot free, drain() starts one of the most urgent entries that
\* have not been aborted, if there is one.
LEMMA DrainStartsOne ==
  ASSUME NEW q \in Seq(Singles), Ordered(q), NEW busy \in Nat,
         q # <<>> => busy + 1 = MaxConcurrent
  PROVE  LET started == Takers(q, DrainCount(q, busy))
             waits   == Elements(q) \ aborted
         IN  \/ started = {} /\ waits = {}
             \/ \E next \in waits :
                  /\ started = {next}
                  /\ \A x \in waits : Priority[x] <= Priority[next]
<1> DEFINE k == DrainCount(q, busy)
<1>0. /\ Len(q) \in Nat /\ DOMAIN q = 1..Len(q)
      /\ MaxConcurrent \in Nat
      /\ \A m \in DOMAIN q : q[m] \in Singles /\ Priority[q[m]] \in Nat
  BY ConstantsAssumption DEF Singles
<1>1. /\ k \in 0..Len(q)
      /\ DrainEnds(q, busy, k)
      /\ \A m \in 0 .. k - 1 : busy + Cardinality(Takers(q, m)) < MaxConcurrent
  BY DrainCountFacts
<1> HIDE DEF k
<1>2. k \in Nat /\ k <= Len(q)
  BY <1>0, <1>1
<1>3. CASE q = <<>>
  <2>1. Elements(q) = {} /\ Takers(q, k) = {}
    BY <1>0, <1>2, <1>3 DEF Elements, Takers
  <2>2. QED
    BY <2>1 DEF k
<1>4. CASE q # <<>>
  <2>1. busy + 1 = MaxConcurrent /\ Len(q) > 0
    BY <1>0, <1>4
  <2>2. k > 0
    <3>1. CASE k = 0
      <4>1. Takers(q, k) = {}
        BY <3>1 DEF Takers
      <4>2. Cardinality(Takers(q, k)) = 0
        BY <4>1, FS_EmptySet
      <4>3. QED
        BY <1>0, <1>1, <2>1, <3>1, <4>2 DEF DrainEnds
    <3>2. QED
      BY <1>2, <3>1
  <2>3. k - 1 \in 0..Len(q) /\ k - 1 \in 0 .. k - 1 /\ k \in DOMAIN q
    BY <1>0, <1>2, <2>2
  <2>4. Takers(q, k - 1) = {}
    <3>1. IsFiniteSet(Takers(q, k - 1)) /\ Cardinality(Takers(q, k - 1)) \in Nat
      BY <2>3, TakersFinite
    <3>2. Cardinality(Takers(q, k - 1)) = 0
      BY <1>0, <1>1, <2>1, <2>3, <3>1
    <3>3. QED
      BY <3>1, <3>2, FS_EmptySet
  <2>5. \A m \in 1..(k - 1) : q[m] \in aborted
    BY <2>4 DEF Takers
  <2>6. Takers(q, k) = {q[k]} \ aborted
    BY <1>2, <2>2, <2>5 DEF Takers
  <2>7. CASE q[k] \in aborted
    <3>1. Takers(q, k) = {}
      BY <2>6, <2>7
    <3>2. Cardinality(Takers(q, k)) = 0
      BY <3>1, FS_EmptySet
    <3>3. busy + Cardinality(Takers(q, k)) < MaxConcurrent
      BY <1>0, <2>1, <3>2
    <3>4. k = Len(q)
      <4>1. k = Len(q) \/ busy + Cardinality(Takers(q, k)) >= MaxConcurrent
        BY <1>1 DEF DrainEnds
      <4>2. MaxConcurrent \in Nat /\ busy + Cardinality(Takers(q, k)) \in Nat
        BY <1>0, <3>2
      <4>3. ~(busy + Cardinality(Takers(q, k)) >= MaxConcurrent)
        BY <3>3, <4>2
      <4>4. QED
        BY <4>1, <4>3
    <3>5. Elements(q) \ aborted = {}
      BY <1>0, <2>5, <2>7, <3>4 DEF Elements
    <3>6. QED
      BY <3>1, <3>5 DEF k
  <2>8. CASE q[k] \notin aborted
    <3>1. Takers(q, k) = {q[k]} /\ q[k] \in Elements(q) \ aborted
      BY <2>3, <2>6, <2>8 DEF Elements
    <3>2. ASSUME NEW x \in Elements(q) \ aborted
          PROVE  Priority[x] <= Priority[q[k]]
      <4>1. PICK m \in DOMAIN q : q[m] = x
        BY DEF Elements
      <4>2. m >= k /\ m \in Nat
        BY <1>0, <1>2, <2>5, <3>2, <4>1
      <4>3. CASE m = k
        BY <1>0, <2>3, <4>1, <4>3
      <4>4. CASE m > k
        BY <1>0, <2>3, <4>1, <4>4 DEF Ordered
      <4>5. QED
        BY <1>2, <4>2, <4>3, <4>4
    <3>3. QED
      BY <3>1, <3>2 DEF k
  <2>9. QED
    BY <2>7, <2>8
<1>5. QED
  BY <1>3, <1>4

\* The slot that r frees goes to one of the most urgent waiting requests.
LEMMA FinishClasses ==
  ASSUME RuntimeInv, NEW r \in Requests, NEW v \in {"won", "lost"},
         phase[r] = "running", Finish(r, v)
  PROVE  \/ /\ Queued \ aborted = {}
            /\ Queued' \ aborted = {}
            /\ RunningNow' = RunningNow \ {r}
         \/ \E next \in Queued \ aborted :
              /\ \A x \in Queued \ aborted : Priority[x] <= Priority[next]
              /\ RunningNow' = (RunningNow \ {r}) \cup {next}
              /\ Queued' \ aborted = (Queued \ aborted) \ {next}
<1> DEFINE ph      == [phase EXCEPT ![r] = v]
           started == Takers(queue, DrainCount(queue, runningCount - 1))
<1>0. Accounts
  BY DEF RuntimeInv
<1>1. /\ phase \in [Requests -> Phases]
      /\ queue \in Seq(Singles)
      /\ Ordered(queue)
      /\ Elements(queue) = Queued
      /\ runningCount \in 0..MaxConcurrent
      /\ runningCount = Cardinality(RunningNow)
      /\ MaxConcurrent \in Nat
      /\ queue # <<>> => runningCount = MaxConcurrent
  BY <1>0, ConstantsAssumption DEF Accounts, Accounted, Queued, RunningNow
<1>2. ph \in [Requests -> Phases] /\ ph[r] = v /\ \A x \in Requests \ {r} : ph[x] = phase[x]
  BY <1>1 DEF Phases
<1>3. Drain(queue, runningCount - 1, ph)
  BY DEF Finish
<1> HIDE DEF ph
<1>4. /\ RunningNow \in SUBSET Requests /\ r \in RunningNow
      /\ {x \in Requests : ph[x] = "running"} = RunningNow \ {r}
      /\ {x \in Requests : ph[x] = "queued"} = Queued
  BY <1>2 DEF RunningNow, Queued
<1>5. runningCount - 1 \in Nat /\ runningCount - 1 = Cardinality(RunningNow \ {r})
  <2>1. IsFiniteSet(RunningNow)
    BY <1>4, ConstantsAssumption, FS_Subset
  <2>2. /\ IsFiniteSet(RunningNow \ {r})
        /\ Cardinality(RunningNow \ {r}) =
             IF r \in RunningNow THEN Cardinality(RunningNow) - 1 ELSE Cardinality(RunningNow)
    BY <2>1, FS_RemoveElement
  <2>3. Cardinality(RunningNow \ {r}) \in Nat
    BY <2>2, FS_CardinalityType
  <2>4. Cardinality(RunningNow \ {r}) = Cardinality(RunningNow) - 1
    BY <1>4, <2>2
  <2>5. Cardinality(RunningNow) - 1 = runningCount - 1
    BY <1>1
  <2>6. QED
    BY <2>3, <2>4, <2>5
<1>6. \A x \in Requests : ph[x] = "running" => x \notin aborted
  BY <1>0, <1>2 DEF Accounts, Accounted
<1>7. Accounted(queue, runningCount - 1, ph, aborted)
  <2>1. runningCount - 1 \in 0..MaxConcurrent
    BY <1>1, <1>5
  <2>2. runningCount - 1 = Cardinality({x \in Requests : ph[x] = "running"})
    BY <1>4, <1>5
  <2>3. Elements(queue) = {x \in Requests : ph[x] = "queued"}
    BY <1>1, <1>4
  <2>4. QED
    BY <1>1, <1>2, <1>6, <2>1, <2>2, <2>3 DEF Accounted
<1>8. \A x \in Requests :
        IF x \in started THEN phase'[x] = "running"
        ELSE \/ phase'[x] = ph[x]
             \/ x \in aborted /\ ph[x] = "queued" /\ phase'[x] = "lost"
  BY <1>3, <1>7, DrainMoves
<1>9. \/ started = {} /\ Queued \ aborted = {}
      \/ \E next \in Queued \ aborted :
           /\ started = {next}
           /\ \A x \in Queued \ aborted : Priority[x] <= Priority[next]
  <2>1. queue # <<>> => (runningCount - 1) + 1 = MaxConcurrent
    BY <1>1
  <2>2. QED
    BY <1>1, <1>5, <2>1, DrainStartsOne
<1> HIDE DEF started
<1>10. started \subseteq Queued \ aborted
  BY <1>9
<1>11. RunningNow' = (RunningNow \ {r}) \cup started
  <2>1. \A x \in Requests : phase'[x] = "running" <=> ph[x] = "running" \/ x \in started
    BY <1>4, <1>8, <1>10
  <2>2. QED
    BY <1>4, <1>10, <2>1 DEF RunningNow, Queued
<1>12. Queued' \ aborted = (Queued \ aborted) \ started
  <2>1. \A x \in Requests \ aborted :
          phase'[x] = "queued" <=> ph[x] = "queued" /\ x \notin started
    BY <1>8
  <2>2. QED
    BY <1>4, <2>1 DEF Queued
<1>13. QED
  BY <1>9, <1>11, <1>12

\* A request takes a free slot, and waits when there is none.
LEMMA EnqueueClasses ==
  ASSUME RuntimeInv, NEW r \in Singles, phase[r] \notin {"queued", "running"},
         r \notin aborted, Enqueue(r, phase)
  PROVE  \/ /\ Cardinality(RunningNow) < MaxConcurrent
            /\ RunningNow' = RunningNow \cup {r}
            /\ Queued' \ aborted = Queued \ aborted
         \/ /\ Cardinality(RunningNow) >= MaxConcurrent
            /\ RunningNow' = RunningNow
            /\ Queued' \ aborted = (Queued \ aborted) \cup {r}
<1> DEFINE ph      == [phase EXCEPT ![r] = "queued"]
           q       == Inserted(queue, r)
           k       == DrainCount(q, runningCount)
           started == Takers(q, k)
<1>0. Accounts
  BY DEF RuntimeInv
<1>1. /\ phase \in [Requests -> Phases]
      /\ queue \in Seq(Singles)
      /\ Ordered(queue)
      /\ Elements(queue) = Queued
      /\ runningCount \in 0..MaxConcurrent
      /\ runningCount = Cardinality(RunningNow)
      /\ runningCount \in Nat
      /\ MaxConcurrent \in Nat
      /\ queue # <<>> => runningCount = MaxConcurrent
      /\ r \in Requests
      /\ Singles \subseteq Requests
  BY <1>0, ConstantsAssumption DEF Accounts, Accounted, Queued, RunningNow, Singles
<1>2. /\ ph \in [Requests -> Phases]
      /\ ph[r] = "queued"
      /\ \A x \in Requests \ {r} : ph[x] = phase[x]
  BY <1>1 DEF Phases
<1>3. Drain(q, runningCount, ph)
  BY DEF Enqueue
<1> HIDE DEF ph
<1>4. /\ RunningNow = {x \in Requests : ph[x] = "running"}
      /\ {x \in Requests : ph[x] = "queued"} = Queued \cup {r}
      /\ r \notin Queued
  BY <1>1, <1>2 DEF RunningNow, Queued
<1>5. q \in Seq(Singles) /\ Ordered(q) /\ Elements(q) = Queued \cup {r} /\ Len(q) = Len(queue) + 1
  BY <1>1, <1>4, InsertedFacts
<1> HIDE DEF q
<1>6. \A x \in Requests : ph[x] = "running" => x \notin aborted
  BY <1>0, <1>2 DEF Accounts, Accounted
<1>7. Accounted(q, runningCount, ph, aborted)
  BY <1>1, <1>2, <1>4, <1>5, <1>6 DEF Accounted
<1>8. \A x \in Requests :
        IF x \in started THEN phase'[x] = "running"
        ELSE \/ phase'[x] = ph[x]
             \/ x \in aborted /\ ph[x] = "queued" /\ phase'[x] = "lost"
  BY <1>3, <1>7, DrainMoves
<1>9. /\ k \in 0..Len(q)
      /\ DrainEnds(q, runningCount, k)
      /\ \A m \in 0 .. k - 1 : runningCount + Cardinality(Takers(q, m)) < MaxConcurrent
  BY <1>1, <1>5, DrainCountFacts
<1> HIDE DEF k
<1>10. Takers(q, 0) = {} /\ Cardinality(Takers(q, 0)) = 0
  <2>1. Takers(q, 0) = {}
    BY DEF Takers
  <2>2. QED
    BY <2>1, FS_EmptySet
<1>11. Len(queue) \in Nat /\ Len(q) \in Nat /\ k \in Nat /\ k <= Len(q)
  BY <1>1, <1>5, <1>9
<1>12. CASE runningCount < MaxConcurrent
  <2>1. queue = <<>> /\ Len(q) = 1
    BY <1>1, <1>5, <1>12
  <2>2. k = 1
    <3>1. CASE k = 0
      BY <1>1, <1>9, <1>10, <1>12, <2>1, <3>1 DEF DrainEnds
    <3>2. QED
      BY <1>11, <2>1, <3>1
  <2>3. Queued = {}
    BY <1>1, <2>1 DEF Elements
  <2>4. started = {r}
    <3>1. q[1] = r /\ DOMAIN q = 1..1
      BY <1>5, <2>1, <2>3 DEF Elements
    <3>2. QED
      BY <2>2, <3>1 DEF Takers
  <2> HIDE DEF started
  <2>5. RunningNow' = RunningNow \cup {r}
    BY <1>1, <1>4, <1>8, <2>4 DEF RunningNow
  <2>6. Queued' \ aborted = Queued \ aborted
    BY <1>4, <1>8, <2>3, <2>4 DEF Queued
  <2>7. QED
    BY <1>1, <1>12, <2>5, <2>6
<1>13. CASE runningCount >= MaxConcurrent
  <2>1. k = 0
    <3>1. CASE k # 0
      <4>1. 0 \in 0 .. k - 1
        BY <1>11, <3>1
      <4>2. runningCount + 0 < MaxConcurrent
        BY <1>9, <1>10, <4>1
      <4>3. QED
        BY <1>1, <1>13, <4>2
    <3>2. QED
      BY <3>1
  <2>2. started = {}
    BY <1>10, <2>1
  <2> HIDE DEF started
  <2>3. RunningNow' = RunningNow
    BY <1>4, <1>8, <2>2 DEF RunningNow
  <2>4. Queued' \ aborted = (Queued \cup {r}) \ aborted
    BY <1>4, <1>8, <2>2 DEF Queued
  <2>5. QED
    BY <1>1, <1>13, <2>3, <2>4
<1>14. QED
  BY <1>1, <1>12, <1>13

-----------------------------------------------------------------------------
(* No entry of the queue is answered twice.                                *)

\* Calls of a single-shot request are counted, and what was answered belongs
\* to an earlier call, or to a candidate that has been tried.
AnswersInv ==
  /\ \A r \in Singles :
       /\ calls[r] <= MaxCalls
       /\ phase[r] = "idle" => calls[r] < MaxCalls
       /\ phase[r] # "idle" => calls[r] > 0
  /\ answered \subseteq Entries
  /\ \A j \in answered :
       /\ j[2] <= calls[j[1]]
       /\ j[2] = calls[j[1]] /\ phase[j[1]] # "idle" =>
            phase[j[1]] # "chosen" /\ Len(candidates[j[1]]) <= j[3]

LEMMA EntriesMembers ==
  ASSUME NEW j \in Entries
  PROVE  /\ j[1] \in Singles /\ j[2] \in 1..MaxCalls /\ j[3] \in 1..Len(Ranked[j[1]])
         /\ j = <<j[1], j[2], j[3]>>
<1>1. PICK r \in Requests \ Chats : j \in {r} \X (1..MaxCalls) \X (1..Len(Ranked[r]))
  BY DEF Entries
<1>2. QED
  BY <1>1 DEF Singles

LEMMA EntryInEntries ==
  ASSUME RuntimeInv, AnswersInv, NEW r \in Singles, phase[r] \in {"queued", "running"}
  PROVE  Entry(r) \in Entries
<1>1. /\ r \in Requests
      /\ calls[r] \in Nat /\ calls[r] > 0 /\ calls[r] <= MaxCalls
      /\ MaxCalls \in Nat
  BY ConstantsAssumption DEF RuntimeInv, AnswersInv, Singles
<1>2. Len(candidates[r]) \in Nat \ {0} /\ Len(candidates[r]) <= Len(Ranked[r])
  BY <1>1, CandidateFacts DEF Engaged, RuntimeInv, CandidatesLeft
<1>3. Len(Ranked[r]) \in Nat
  BY <1>1, ConstantsAssumption
<1>4. Entry(r) \in {r} \X (1..MaxCalls) \X (1..Len(Ranked[r]))
  BY <1>1, <1>2, <1>3 DEF Entry
<1>5. QED
  BY <1>4 DEF Entries, Singles

\* What is to check of a step of r.
LEMMA CallsKept ==
  ASSUME RuntimeInv, AnswersInv, NEW r \in Requests, OthersDrained(r),
         \A x \in Requests \ {r} : calls'[x] = calls[x] /\ candidates'[x] = candidates[x],
         \/ answered' = answered
         \/ /\ answered' = answered \cup {Entry(r)}
            /\ r \in Singles /\ phase[r] \in {"queued", "running"}
            /\ calls'[r] = calls[r] /\ candidates'[r] = candidates[r]
            /\ phase'[r] \notin {"idle", "chosen"},
         r \in Singles =>
           /\ calls'[r] \in Nat
           /\ calls'[r] <= MaxCalls
           /\ phase'[r] = "idle" => calls'[r] < MaxCalls
           /\ phase'[r] # "idle" => calls'[r] > 0
           /\ \A j \in answered : j[1] = r =>
                /\ j[2] <= calls'[r]
                /\ j[2] = calls'[r] /\ phase'[r] # "idle" =>
                     phase'[r] # "chosen" /\ Len(candidates'[r]) <= j[3]
  PROVE  AnswersInv'
<1>1. /\ Singles \subseteq Requests
      /\ \A x \in Singles : calls[x] \in Nat /\ calls[x] <= MaxCalls
      /\ \A x \in Singles : phase[x] = "idle" => calls[x] < MaxCalls
      /\ \A x \in Singles : phase[x] # "idle" => calls[x] > 0
  BY DEF RuntimeInv, AnswersInv, Singles
<1>2. \A x \in Requests \ {r} :
        /\ phase'[x] = "idle" <=> phase[x] = "idle"
        /\ phase'[x] = "chosen" <=> phase[x] = "chosen"
  BY DEF OthersDrained
<1>3. \A x \in Singles :
        /\ calls'[x] <= MaxCalls
        /\ phase'[x] = "idle" => calls'[x] < MaxCalls
        /\ phase'[x] # "idle" => calls'[x] > 0
  BY <1>1, <1>2
<1>4. answered' \subseteq Entries
  BY EntryInEntries DEF AnswersInv
<1>5. ASSUME NEW j \in answered'
      PROVE  /\ j[2] <= calls'[j[1]]
             /\ j[2] = calls'[j[1]] /\ phase'[j[1]] # "idle" =>
                  phase'[j[1]] # "chosen" /\ Len(candidates'[j[1]]) <= j[3]
  <2>1. j[1] \in Singles /\ j[1] \in Requests
    BY <1>1, <1>4, EntriesMembers
  <2>2. CASE j \in answered /\ j[1] = r
    BY <2>1, <2>2
  <2>3. CASE j \in answered /\ j[1] # r
    <3>1. /\ calls'[j[1]] = calls[j[1]] /\ candidates'[j[1]] = candidates[j[1]]
          /\ phase'[j[1]] = "idle" <=> phase[j[1]] = "idle"
          /\ phase'[j[1]] = "chosen" <=> phase[j[1]] = "chosen"
      BY <1>2, <2>1, <2>3
    <3>2. /\ j[2] <= calls[j[1]]
          /\ j[2] = calls[j[1]] /\ phase[j[1]] # "idle" =>
               phase[j[1]] # "chosen" /\ Len(candidates[j[1]]) <= j[3]
      BY <2>3 DEF AnswersInv
    <3>3. QED
      BY <3>1, <3>2
  <2>4. CASE j \notin answered
    <3>1. /\ j = Entry(r) /\ r \in Singles
          /\ calls'[r] = calls[r] /\ candidates'[r] = candidates[r]
          /\ phase'[r] \notin {"idle", "chosen"}
      BY <1>5, <2>4
    <3>2. j[1] = r /\ j[2] = calls[r] /\ j[3] = Len(candidates[r])
      BY <3>1 DEF Entry
    <3>3. calls[r] \in Nat /\ Len(candidates[r]) \in Nat
      BY <1>1, <3>1 DEF RuntimeInv, CandidatesLeft
    <3>4. QED
      BY <3>1, <3>2, <3>3
  <2>5. QED
    BY <2>2, <2>3, <2>4
<1>6. QED
  BY <1>3, <1>4, <1>5 DEF AnswersInv

\* A step in which r's call is neither begun, chosen nor over for good.
LEMMA CallsSame ==
  ASSUME RuntimeInv, AnswersInv, NEW r \in Requests, OthersDrained(r),
         UNCHANGED <<calls, candidates>>,
         phase'[r] = "idle" <=> phase[r] = "idle",
         phase'[r] = "chosen" <=> phase[r] = "chosen",
         \/ answered' = answered
         \/ /\ answered' = answered \cup {Entry(r)}
            /\ r \in Singles /\ phase[r] \in {"queued", "running"}
  PROVE  AnswersInv'
<1>1. r \in Singles =>
        /\ calls[r] \in Nat
        /\ calls[r] <= MaxCalls
        /\ phase[r] = "idle" => calls[r] < MaxCalls
        /\ phase[r] # "idle" => calls[r] > 0
        /\ \A j \in answered : j[1] = r =>
             /\ j[2] <= calls[r]
             /\ j[2] = calls[r] /\ phase[r] # "idle" =>
                  phase[r] # "chosen" /\ Len(candidates[r]) <= j[3]
  BY DEF RuntimeInv, AnswersInv
<1>2. QED
  BY <1>1, CallsKept

\* The next candidate of r is tried.
LEMMA CallsTried ==
  ASSUME RuntimeInv, AnswersInv, NEW r \in Requests, NEW cs \in Seq(Providers),
         phase[r] \notin {"queued", "running", "idle"}, Try(r, cs),
         Len(cs) <= Len(candidates[r]), phase[r] = "chosen" \/ Len(cs) < Len(candidates[r]),
         UNCHANGED <<aborted, delivered, calls, answered>>
  PROVE  AnswersInv'
<1>1. /\ OthersDrained(r)
      /\ candidates' = [candidates EXCEPT ![r] = cs]
      /\ phase'[r] \in {"asking", "opening", "failed", "lost", "queued", "running"}
  BY TryStep DEF RuntimeInv
<1>2. candidates'[r] = cs /\ \A x \in Requests \ {r} : candidates'[x] = candidates[x]
  BY <1>1 DEF RuntimeInv, CandidatesLeft
<1>3. r \in Singles =>
        /\ calls[r] \in Nat
        /\ calls[r] <= MaxCalls
        /\ calls[r] > 0
  BY DEF RuntimeInv, AnswersInv
<1>4. ASSUME r \in Singles, NEW j \in answered, j[1] = r
      PROVE  /\ j[2] <= calls[r]
             /\ j[2] = calls[r] => Len(cs) <= j[3]
  <2>1. /\ j[2] <= calls[r]
        /\ j[2] = calls[r] => phase[r] # "chosen" /\ Len(candidates[r]) <= j[3]
    BY <1>4 DEF AnswersInv
  <2>2. j[3] \in Nat
    <3>1. j \in Entries
      BY DEF AnswersInv
    <3>2. j[3] \in 1..Len(Ranked[j[1]])
      BY <3>1, EntriesMembers
    <3>3. QED
      BY <3>2
  <2>3. Len(cs) \in Nat /\ Len(candidates[r]) \in Nat
    BY DEF RuntimeInv, CandidatesLeft
  <2>4. QED
    BY <2>1, <2>2, <2>3
<1>5. QED
  BY <1>1, <1>2, <1>3, <1>4, CallsKept

LEMMA CallsNext ==
  ASSUME RuntimeInv, AnswersInv, Endless \subseteq Chats, Next
  PROVE  AnswersInv'
<1>1. PICK r \in Requests :
        \/ Call(r) \/ CallAgain(r) \/ Abort(r) \/ Leave(r)
        \/ ProviderAnswers(r) \/ ProviderFails(r) \/ Step(r) \/ StreamStep(r)
  BY DEF Next
<1>2. OthersDrained(r)
  BY <1>1, CallerKeeps, SingleShotKeeps, ChatKeeps DEF Step
<1>3. /\ Accounts
      /\ phase \in [Requests -> Phases]
      /\ candidates \in [Requests -> Seq(Providers)]
      /\ calls \in [Requests -> Nat]
  <2>1. Accounts
    BY DEF RuntimeInv
  <2>2. QED
    BY <2>1 DEF RuntimeInv, Accounts, Accounted, CandidatesLeft
<1>4. r \in Singles =>
        /\ calls[r] \in Nat
        /\ calls[r] <= MaxCalls
        /\ phase[r] = "idle" => calls[r] < MaxCalls
        /\ \A j \in answered : j[1] = r =>
             /\ j[2] <= calls[r]
             /\ j[2] \in Nat
  <2>1. \A j \in answered : j[2] <= calls[j[1]] /\ j \in Entries
    BY DEF AnswersInv
  <2>2. \A j \in answered : j[2] \in Nat
    BY <2>1, EntriesMembers
  <2>3. r \in Singles =>
          calls[r] \in Nat /\ calls[r] <= MaxCalls /\ (phase[r] = "idle" => calls[r] < MaxCalls)
    BY <1>3 DEF AnswersInv
  <2>4. QED
    BY <2>1, <2>2, <2>3
<1>5. CASE Call(r)
  <2>1. /\ phase[r] = "idle"
        /\ phase'[r] = "chosen"
        /\ \A x \in Requests \ {r} : calls'[x] = calls[x] /\ candidates'[x] = candidates[x]
        /\ answered' = answered
    BY <1>3, <1>5 DEF Call
  <2>2. r \in Singles => calls'[r] = calls[r] + 1
    BY <1>3, <1>5 DEF Call, Singles
  <2>3. MaxCalls \in Nat
    BY ConstantsAssumption
  <2>4. r \in Singles =>
          /\ calls'[r] \in Nat
          /\ calls'[r] <= MaxCalls
          /\ calls'[r] > 0
          /\ \A j \in answered : j[1] = r => j[2] <= calls'[r] /\ j[2] # calls'[r]
    BY <1>4, <2>1, <2>2, <2>3
  <2>5. QED
    BY <1>2, <2>1, <2>4, CallsKept
<1>6. CASE CallAgain(r)
  <2>1. /\ phase'[r] = "idle"
        /\ calls' = calls
        /\ r \notin Endless => calls[r] < MaxCalls
        /\ \A x \in Requests \ {r} : candidates'[x] = candidates[x]
        /\ answered' = answered
    BY <1>3, <1>6 DEF CallAgain
  <2>2. r \in Singles => r \notin Endless
    BY DEF Singles
  <2>3. QED
    BY <1>2, <1>4, <2>1, <2>2, CallsKept
<1>7. CASE Abort(r)
  <2>1. r \in Singles /\ UNCHANGED <<calls, candidates>>
    BY <1>7 DEF Abort, Singles
  <2>2. CASE phase[r] = "running"
    <3>1. Finish(r, "lost")
      BY <1>7, <2>2 DEF Abort
    <3>2. phase'[r] = "lost" /\ answered' = answered \cup {Entry(r)}
      BY <1>3, <2>2, <3>1, FinishStep
    <3>3. QED
      BY <1>2, <2>1, <2>2, <3>2, CallsSame
  <2>3. CASE phase[r] = "queued"
    <3>1. phase' = phase /\ answered' = answered \cup {Entry(r)}
      BY <1>7, <2>3 DEF Abort
    <3>2. QED
      BY <1>2, <2>1, <2>3, <3>1, CallsSame
  <2>4. CASE phase[r] \notin {"running", "queued"}
    <3>1. phase' = phase /\ answered' = answered
      BY <1>7, <2>4 DEF Abort
    <3>2. QED
      BY <1>2, <2>1, <3>1, CallsSame
  <2>5. QED
    BY <2>2, <2>3, <2>4
<1>8. CASE ProviderAnswers(r) \/ ProviderFails(r) \/ Expire(r)
  <2>1. PICK v \in {"won", "lost"} : Finish(r, v)
    BY <1>8 DEF ProviderAnswers, ProviderFails, Expire
  <2>2. phase[r] = "running" /\ UNCHANGED <<calls, candidates>>
    BY <1>8 DEF ProviderAnswers, ProviderFails, Expire
  <2>3. phase'[r] = v /\ answered' = answered \cup {Entry(r)}
    BY <1>3, <2>1, <2>2, FinishStep
  <2>4. r \in Singles
    BY <2>2 DEF RuntimeInv, Modes, Singles
  <2>5. QED
    BY <1>2, <2>2, <2>3, <2>4, CallsSame
<1>9. CASE Begin(r)
  BY <1>3, <1>9, CallsTried DEF Begin
<1>10. CASE FallBack(r) \/ StreamFails(r)
  <2>1. /\ phase[r] \in {"lost", "opening", "streaming"}
        /\ Try(r, Tail(candidates[r]))
        /\ UNCHANGED <<aborted, delivered, calls, answered>>
    BY <1>10 DEF FallBack, StreamFails
  <2>2. /\ Tail(candidates[r]) \in Seq(Providers)
        /\ Len(Tail(candidates[r])) < Len(candidates[r])
        /\ Len(Tail(candidates[r])) <= Len(candidates[r])
    BY <2>1, CandidateFacts DEF Engaged
  <2>3. QED
    BY <2>1, <2>2, CallsTried
<1>11. CASE Answered(r) \/ Leave(r) \/ StreamYields(r) \/ StreamEnds(r) \/ AskCloud(r)
            \/ CloudYields(r) \/ CloudEnds(r)
  <2>1. /\ phase[r] \notin {"idle", "chosen"}
        /\ phase'[r] \notin {"idle", "chosen"}
        /\ UNCHANGED <<calls, candidates, answered>>
    BY <1>3, <1>11 DEF Answered, Leave, StreamYields, StreamEnds, AskCloud, CloudYields,
                       CloudEnds
  <2>2. QED
    BY <1>2, <2>1, CallsSame
<1>12. QED
  BY <1>1, <1>5, <1>6, <1>7, <1>8, <1>9, <1>10, <1>11 DEF Step, StreamStep

LEMMA CallsInvariance ==
  ASSUME Endless \subseteq Chats
  PROVE  Spec => []AnswersInv
<1>1. Init => AnswersInv
  <2>1. MaxCalls \in Nat \ {0}
    BY ConstantsAssumption
  <2>2. QED
    BY <2>1 DEF Init, AnswersInv, Singles
<1>2. RuntimeInv /\ AnswersInv /\ [Next]_vars => AnswersInv'
  <2>1. ASSUME AnswersInv, UNCHANGED vars
        PROVE  AnswersInv'
    BY <2>1 DEF vars, AnswersInv
  <2>2. QED
    BY <2>1, CallsNext
<1>3. QED
  BY <1>1, <1>2, RuntimeInvariance, PTL DEF Spec

-----------------------------------------------------------------------------
(* The queue implements the abstract pool.                                 *)

Queueing == {Entry(x) : x \in Queued \ aborted}
Serving == {Entry(x) : x \in RunningNow}

\* A step that concerns no request in the queue or in a slot.
LEMMA SameEntries ==
  ASSUME RuntimeInv, NEW r \in Requests,
         phase[r] \notin {"queued", "running"}, phase'[r] \notin {"queued", "running"},
         \A x \in Requests \ {r} : /\ phase'[x] = phase[x]
                                   /\ calls'[x] = calls[x]
                                   /\ candidates'[x] = candidates[x],
         aborted' \ {r} = aborted \ {r}
  PROVE  Queueing' = Queueing /\ Serving' = Serving
<1>1. Queued' \ aborted' = Queued \ aborted /\ RunningNow' = RunningNow
  BY DEF Queued, RunningNow
<1>2. \A x \in (Queued \ aborted) \cup RunningNow : Entry(x)' = Entry(x)
  BY DEF Queued, RunningNow, Entry
<1>3. Queueing' = {Entry(x)' : x \in Queued \ aborted} /\ Serving' = {Entry(x)' : x \in RunningNow}
  BY <1>1 DEF Queueing, Serving
<1>4. QED
  BY <1>2, <1>3 DEF Queueing, Serving

\* Entries of different requests differ.
LEMMA EntryOwner ==
  ASSUME NEW r \in Requests, NEW x \in Requests, Entry(r) = Entry(x)
  PROVE  r = x
BY DEF Entry

LEMMA ServingCount ==
  ASSUME RuntimeInv
  PROVE  Cardinality(Serving) = Cardinality(RunningNow)
<1> DEFINE f == [x \in RunningNow |-> Entry(x)]
<1>1. RunningNow \in SUBSET Requests /\ IsFiniteSet(RunningNow)
  BY ConstantsAssumption, FS_Subset DEF RunningNow
<1>2. f \in Bijection(RunningNow, Serving)
  <2>1. f \in [RunningNow -> Serving]
    BY DEF Serving
  <2>2. \A x, y \in RunningNow : f[x] = f[y] => x = y
    BY <1>1, EntryOwner
  <2>3. \A e \in Serving : \E x \in RunningNow : f[x] = e
    BY DEF Serving
  <2> HIDE DEF f
  <2>4. QED
    BY <2>1, <2>2, <2>3 DEF Bijection, Injection, Surjection, IsInjective
<1>3. ExistsBijection(RunningNow, Serving)
  BY <1>2 DEF ExistsBijection
<1>4. QED
  BY <1>1, <1>3, FS_Bijection

\* The pool's view of the race that is decided for r.
LEMMA PoolFinish ==
  ASSUME RuntimeInv, AnswersInv, NEW r \in Requests, NEW v \in {"won", "lost"},
         phase[r] = "running", Finish(r, v),
         aborted' \ {r} = aborted \ {r}, UNCHANGED <<calls, candidates>>
  PROVE  Pool!Finish(Entry(r)) /\ Entry(r) \in Entries
<1>1. /\ r \in RunningNow /\ r \in Singles /\ r \notin Queued
      /\ RunningNow \subseteq Requests /\ Queued \subseteq Requests
      /\ RunningNow \subseteq Singles /\ Queued \subseteq Singles
  BY DEF RuntimeInv, Modes, RunningNow, Queued, Singles
<1>2. /\ phase'[r] = v /\ answered' = answered \cup {Entry(r)}
      /\ r \notin Queued'
  <2>1. phase'[r] = v /\ answered' = answered \cup {Entry(r)}
    BY FinishStep DEF RuntimeInv
  <2>2. QED
    BY <2>1 DEF Queued
<1>3. Queued' \ aborted' = Queued' \ aborted
  BY <1>2
<1>4. \A x : Entry(x)' = Entry(x)
  BY DEF Entry
<1>5. /\ Queueing' = {Entry(x) : x \in Queued' \ aborted}
      /\ Serving' = {Entry(x) : x \in RunningNow'}
  BY <1>3, <1>4 DEF Queueing, Serving
<1>6. Entry(r) \in Serving
  BY <1>1 DEF Serving
<1>7. Entry(r) \in Entries
  BY <1>1, EntryInEntries DEF RunningNow
<1>8. CASE /\ Queued \ aborted = {}
           /\ Queued' \ aborted = {}
           /\ RunningNow' = RunningNow \ {r}
  <2>1. Queueing = {} /\ Queueing' = Queueing
    BY <1>5, <1>8 DEF Queueing
  <2>2. Serving' = Serving \ {Entry(r)}
    BY <1>1, <1>5, <1>8, EntryOwner DEF Serving
  <2>3. QED
    BY <1>2, <1>6, <1>7, <2>1, <2>2 DEF Pool!Finish, Queueing, Serving
<1>9. ASSUME NEW next \in Queued \ aborted,
             \A x \in Queued \ aborted : Priority[x] <= Priority[next],
             RunningNow' = (RunningNow \ {r}) \cup {next},
             Queued' \ aborted = (Queued \ aborted) \ {next}
      PROVE  Pool!Finish(Entry(r))
  <2>1. Entry(next) \in Queueing
    BY DEF Queueing
  <2>2. Serving' = (Serving \ {Entry(r)}) \cup {Entry(next)}
    BY <1>1, <1>5, <1>9, EntryOwner DEF Serving
  <2>3. Queueing' = Queueing \ {Entry(next)}
    BY <1>1, <1>5, <1>9, EntryOwner DEF Queueing
  <2> DEFINE urgency == [j \in Entries |-> Priority[j[1]]]
  <2>4. ASSUME NEW x \in Queued
        PROVE  urgency[Entry(x)] = Priority[x]
    <3>1. Entry(x) \in Entries
      BY <1>1, EntryInEntries DEF Queued
    <3>2. Entry(x)[1] = x
      BY DEF Entry
    <3>3. QED
      BY <3>1, <3>2
  <2> HIDE DEF urgency
  <2>5. \A other \in Queueing : urgency[other] <= urgency[Entry(next)]
    BY <1>9, <2>4 DEF Queueing
  <2>6. QED
    BY <1>2, <1>6, <2>1, <2>2, <2>3, <2>5 DEF Pool!Finish, Queueing, Serving, urgency
<1>10. QED
  BY <1>7, <1>8, <1>9, FinishClasses

\* The pool's view of a candidate that is tried.
LEMMA PoolTry ==
  ASSUME RuntimeInv, AnswersInv, NEW r \in Requests, NEW cs \in Seq(Providers),
         phase[r] \notin {"queued", "running", "idle"}, Try(r, cs),
         Len(cs) <= Len(Ranked[r]),
         (phase[r] = "chosen" /\ cs = candidates[r]) \/ Len(cs) < Len(candidates[r]),
         UNCHANGED <<aborted, delivered, calls, answered>>
  PROVE  \/ Queueing' = Queueing /\ Serving' = Serving
         \/ \E j \in Entries : Pool!Submit(j)
<1>1. /\ OthersDrained(r)
      /\ candidates' = [candidates EXCEPT ![r] = cs]
  BY TryStep DEF RuntimeInv
<1>2. candidates'[r] = cs /\ \A x \in Requests \ {r} : candidates'[x] = candidates[x]
  BY <1>1 DEF RuntimeInv, CandidatesLeft
<1>3. CASE r \in Chats \/ cs = <<>> \/ r \in aborted
  <2>1. \E v \in {"asking", "opening", "failed", "lost"} :
          phase' = [phase EXCEPT ![r] = v]
    BY <1>3 DEF Try, Enqueue
  <2>2. /\ phase'[r] \notin {"queued", "running"}
        /\ \A x \in Requests \ {r} : phase'[x] = phase[x]
    BY <2>1 DEF RuntimeInv, Accounts, Accounted
  <2>3. QED
    BY <1>2, <2>2, SameEntries
<1>4. CASE r \in Singles /\ cs # <<>> /\ r \notin aborted
  <2> DEFINE j == <<r, calls[r], Len(cs)>>
  <2>1. Enqueue(r, phase)
    BY <1>4 DEF Try, Singles
  <2>2. /\ r \notin Queued /\ r \notin RunningNow
        /\ RunningNow \subseteq Requests /\ Queued \subseteq Requests
    BY DEF Queued, RunningNow
  <2>3. Entry(r)' = j /\ \A x \in Requests \ {r} : Entry(x)' = Entry(x)
    BY <1>2 DEF Entry
  <2>4. calls[r] \in Nat /\ calls[r] > 0 /\ calls[r] <= MaxCalls /\ Len(cs) \in Nat \ {0}
    BY <1>4 DEF RuntimeInv, AnswersInv
  <2>5. MaxCalls \in Nat /\ Len(Ranked[r]) \in Nat
    BY ConstantsAssumption
  <2>6. j \in Entries
    <3>1. j \in {r} \X (1..MaxCalls) \X (1..Len(Ranked[r]))
      BY <2>4, <2>5
    <3>2. QED
      BY <1>4, <3>1 DEF Entries, Singles
  <2>7. j \notin answered
    <3>1. SUFFICES ASSUME j \in answered PROVE FALSE
      OBVIOUS
    <3>2. j[1] = r /\ j[2] = calls[r] /\ j[3] = Len(cs)
      OBVIOUS
    <3> HIDE DEF j
    <3>3. phase[r] # "chosen" /\ Len(candidates[r]) <= Len(cs)
      BY <3>1, <3>2 DEF AnswersInv
    <3>4. Len(candidates[r]) \in Nat /\ Len(cs) \in Nat
      BY DEF RuntimeInv, CandidatesLeft
    <3>5. QED
      BY <3>3, <3>4
  <2>8. j \notin Queueing /\ j \notin Serving
    BY <2>2 DEF Queueing, Serving, Entry
  <2>9. /\ Queueing' = {Entry(x)' : x \in Queued' \ aborted}
        /\ Serving' = {Entry(x)' : x \in RunningNow'}
    BY DEF Queueing, Serving
  <2> HIDE DEF j
  <2>10. Cardinality(RunningNow) = Cardinality(Serving)
    BY ServingCount
  <2>11. Pool!Cardinality(Serving) = Cardinality(Serving)
    BY DEF Pool!Cardinality, Cardinality
  <2>12. CASE /\ Cardinality(RunningNow) < MaxConcurrent
              /\ RunningNow' = RunningNow \cup {r}
              /\ Queued' \ aborted = Queued \ aborted
    <3>1. Serving' = Serving \cup {j} /\ Queueing' = Queueing
      BY <2>2, <2>3, <2>9, <2>12 DEF Serving, Queueing
    <3>2. Pool!Submit(j)
      BY <2>7, <2>8, <2>10, <2>11, <2>12, <3>1 DEF Pool!Submit, Serving, Queueing
    <3>3. QED
      BY <2>6, <3>2
  <2>13. CASE /\ Cardinality(RunningNow) >= MaxConcurrent
              /\ RunningNow' = RunningNow
              /\ Queued' \ aborted = (Queued \ aborted) \cup {r}
    <3>1. Serving' = Serving /\ Queueing' = Queueing \cup {j}
      BY <2>2, <2>3, <2>9, <2>13 DEF Serving, Queueing
    <3>2. Pool!Submit(j)
      BY <2>7, <2>8, <2>10, <2>11, <2>13, <3>1 DEF Pool!Submit, Serving, Queueing
    <3>3. QED
      BY <2>6, <3>2
  <2>14. QED
    BY <1>4, <2>1, <2>12, <2>13, EnqueueClasses
<1>5. QED
  BY <1>3, <1>4 DEF Singles

\* The pool's view of an abort.
LEMMA PoolAbort ==
  ASSUME RuntimeInv, AnswersInv, NEW r \in Requests, Abort(r)
  PROVE  \/ UNCHANGED <<Queueing, Serving, answered>>
         \/ \E j \in Entries : Pool!Finish(j) \/ Pool!Withdraw(j)
<1>1. /\ r \in Singles /\ r \notin aborted /\ aborted' = aborted \cup {r}
      /\ UNCHANGED <<calls, candidates>>
      /\ aborted' \ {r} = aborted \ {r}
  BY DEF Abort, Singles
<1>2. CASE phase[r] = "running"
  <2>1. Finish(r, "lost")
    BY <1>2 DEF Abort
  <2>2. QED
    BY <1>1, <1>2, <2>1, PoolFinish
<1>3. CASE phase[r] = "queued"
  <2>1. phase' = phase /\ answered' = answered \cup {Entry(r)}
    BY <1>3 DEF Abort
  <2>2. /\ r \in Queued \ aborted
        /\ Queued' \ aborted' = (Queued \ aborted) \ {r}
        /\ RunningNow' = RunningNow
    BY <1>1, <1>3, <2>1 DEF Queued, RunningNow
  <2>3. \A x : Entry(x)' = Entry(x)
    BY <1>1 DEF Entry
  <2>4. /\ Queueing' = {Entry(x) : x \in (Queued \ aborted) \ {r}}
        /\ Serving' = Serving
    BY <2>2, <2>3 DEF Queueing, Serving
  <2>5. Queueing' = Queueing \ {Entry(r)} /\ Entry(r) \in Queueing
    <3>1. r \in Requests /\ Queued \ aborted \subseteq Requests
      BY DEF Queued
    <3>2. \A x \in Queued \ aborted : Entry(x) = Entry(r) => x = r
      BY <3>1, EntryOwner
    <3>3. QED
      BY <2>2, <2>4, <3>2 DEF Queueing
  <2>6. Entry(r) \in Entries
    BY <1>1, <1>3, EntryInEntries
  <2>7. Pool!Withdraw(Entry(r))
    BY <2>1, <2>4, <2>5 DEF Pool!Withdraw, Queueing, Serving
  <2>8. QED
    BY <2>6, <2>7
<1>4. CASE phase[r] \notin {"running", "queued"}
  <2>1. phase' = phase /\ answered' = answered
    BY <1>4 DEF Abort
  <2>2. QED
    BY <1>1, <1>4, <2>1, SameEntries
<1>5. QED
  BY <1>2, <1>3, <1>4

\* The pool's view of the steps that leave the queue alone.
LEMMA PoolStutters ==
  ASSUME RuntimeInv, NEW r \in Requests,
         \/ Call(r) \/ CallAgain(r) \/ Answered(r) \/ Leave(r) \/ StreamYields(r)
         \/ StreamEnds(r) \/ AskCloud(r) \/ CloudYields(r) \/ CloudEnds(r)
  PROVE  UNCHANGED <<Queueing, Serving, answered>>
<1>1. /\ phase \in [Requests -> Phases]
      /\ candidates \in [Requests -> Seq(Providers)]
      /\ calls \in [Requests -> Nat]
  BY DEF RuntimeInv, Accounts, Accounted, CandidatesLeft
<1>2. /\ phase[r] \notin {"queued", "running"}
      /\ answered' = answered
      /\ aborted' \ {r} = aborted \ {r}
  BY DEF Call, CallAgain, Answered, Leave, StreamYields, StreamEnds, AskCloud, CloudYields,
         CloudEnds, Final
<1>3. /\ phase'[r] \notin {"queued", "running"}
      /\ \A x \in Requests \ {r} : phase'[x] = phase[x]
  BY <1>1, <1>2 DEF Call, CallAgain, Answered, Leave, StreamYields, StreamEnds, AskCloud,
         CloudYields, CloudEnds
<1>4. \A x \in Requests \ {r} : calls'[x] = calls[x] /\ candidates'[x] = candidates[x]
  BY <1>1 DEF Call, CallAgain, Answered, Leave, StreamYields, StreamEnds, AskCloud,
         CloudYields, CloudEnds
<1>5. QED
  BY <1>2, <1>3, <1>4, SameEntries

\* InferenceQueue implements BoundedPool for callers whose calls are counted:
\* a freed slot goes at once to the most urgent request that still waits, none
\* waits beside a free slot, and no entry is answered twice, whatever was
\* aborted, timed out or failed in between.
THEOREM InferenceQueueImplementsPool ==
  ASSUME Endless \subseteq Chats
  PROVE  Spec => ImplementsPool
<1>1. Init => Pool!Init
  <2>1. Init => Queued = {} /\ RunningNow = {} /\ answered = {}
    BY DEF Init, Queued, RunningNow
  <2>2. QED
    BY <2>1 DEF Pool!Init
<1>2. ASSUME RuntimeInv, AnswersInv, [Next]_vars
      PROVE  [Pool!Next]_Pool!poolVars
  <2>1. ASSUME UNCHANGED <<Queueing, Serving, answered>>
        PROVE  UNCHANGED Pool!poolVars
    BY <2>1 DEF Pool!poolVars, Queueing, Serving
  <2>2. CASE UNCHANGED vars
    <3>1. UNCHANGED <<Queueing, Serving, answered>>
      BY <2>2 DEF vars, Queueing, Serving, Queued, RunningNow, Entry
    <3>2. QED
      BY <2>1, <3>1
  <2>3. ASSUME NEW r \in Requests,
               \/ Call(r) \/ CallAgain(r) \/ Answered(r) \/ Leave(r) \/ StreamYields(r)
               \/ StreamEnds(r) \/ AskCloud(r) \/ CloudYields(r) \/ CloudEnds(r)
        PROVE  UNCHANGED Pool!poolVars
    BY <1>2, <2>1, <2>3, PoolStutters
  <2>4. ASSUME NEW r \in Requests, Abort(r)
        PROVE  [Pool!Next]_Pool!poolVars
    <3>1. \/ UNCHANGED <<Queueing, Serving, answered>>
          \/ \E j \in Entries : Pool!Finish(j) \/ Pool!Withdraw(j)
      BY <1>2, <2>4, PoolAbort
    <3>2. (\E j \in Entries : Pool!Finish(j) \/ Pool!Withdraw(j)) => Pool!Next
      BY DEF Pool!Next
    <3>3. QED
      BY <2>1, <3>1, <3>2
  <2>5. ASSUME NEW r \in Requests, ProviderAnswers(r) \/ ProviderFails(r) \/ Expire(r)
        PROVE  Pool!Next
    <3>1. /\ phase[r] = "running"
          /\ Finish(r, "won") \/ Finish(r, "lost")
          /\ UNCHANGED <<aborted, calls, candidates>>
      BY <2>5 DEF ProviderAnswers, ProviderFails, Expire
    <3>2. Pool!Finish(Entry(r)) /\ Entry(r) \in Entries
      BY <1>2, <3>1, PoolFinish
    <3>3. QED
      BY <3>2 DEF Pool!Next
  <2>6. ASSUME NEW r \in Requests, Begin(r) \/ FallBack(r) \/ StreamFails(r)
        PROVE  [Pool!Next]_Pool!poolVars
    <3>1. UNCHANGED <<aborted, delivered, calls, answered>>
      BY <2>6 DEF Begin, FallBack, StreamFails
    <3>2. CASE Begin(r)
      <4>1. /\ candidates[r] \in Seq(Providers)
            /\ Len(candidates[r]) <= Len(Ranked[r])
        BY <1>2 DEF RuntimeInv, CandidatesLeft
      <4>2. \/ Queueing' = Queueing /\ Serving' = Serving
            \/ \E j \in Entries : Pool!Submit(j)
        BY <1>2, <3>1, <3>2, <4>1, PoolTry DEF Begin
      <4>3. QED
        BY <2>1, <3>1, <4>2 DEF Pool!Next
    <3>3. CASE FallBack(r) \/ StreamFails(r)
      <4>1. /\ phase[r] \in {"lost", "opening", "streaming"}
            /\ Try(r, Tail(candidates[r]))
        BY <3>3 DEF FallBack, StreamFails
      <4>2. /\ Tail(candidates[r]) \in Seq(Providers)
            /\ Len(Tail(candidates[r])) <= Len(Ranked[r])
            /\ Len(Tail(candidates[r])) < Len(candidates[r])
        BY <1>2, <4>1, CandidateFacts DEF Engaged
      <4>3. \/ Queueing' = Queueing /\ Serving' = Serving
            \/ \E j \in Entries : Pool!Submit(j)
        BY <1>2, <3>1, <4>1, <4>2, PoolTry
      <4>4. QED
        BY <2>1, <3>1, <4>3 DEF Pool!Next
    <3>4. QED
      BY <2>6, <3>2, <3>3
  <2>7. QED
    BY <1>2, <2>2, <2>3, <2>4, <2>5, <2>6 DEF Next, Step, StreamStep
<1>3. QED
  BY <1>1, <1>2, RuntimeInvariance, CallsInvariance, PTL DEF Spec, ImplementsPool, Pool!Spec
=============================================================================
