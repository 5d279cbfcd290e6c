---------------------------- MODULE Provisioning ----------------------------
(***************************************************************************)
(* provisionLocalModels() of electron/local-model-provisioner.ts: at every *)
(* start of the desktop app, binaries and models found elsewhere on the    *)
(* machine are linked or copied into the app's models directory.  A copy   *)
(* goes to a .part file first.  The process may die at any step; files     *)
(* stay.  The person downloads, replaces and removes the files found.      *)
(*                                                                         *)
(* A file's content is how much of it is there: "torn" is a part of what   *)
(* the source had when it was copied, "partial" all of a source that was   *)
(* itself still being downloaded.                                          *)
(***************************************************************************)
EXTENDS Naturals, Sequences

CONSTANTS
  Sources, Targets, NoFile,
  Items,         (* [target, sources, binary]: what is provisioned, in order *)
  BesideSource,  (* a source's companion: its .json, the DLLs of its folder *)
  BesideTarget,  (* where the companion goes                                *)
  Found, Placed, (* what may be on the machine, and in the models directory *)
  MaxEdits       (* bound on what the person does to the files              *)

Contents == {"absent", "empty", "torn", "partial", "whole"}

ASSUME ProvisioningAssumption ==
  /\ NoFile \notin Sources \cup Targets
  /\ BesideSource \in [Sources -> Sources \cup {NoFile}]
  /\ BesideTarget \in [Targets -> Targets \cup {NoFile}]
  /\ Items \in Seq([target : Targets, sources : Seq(Sources), binary : BOOLEAN])
  /\ Found \subseteq [Sources -> Contents \ {"torn"}]
  /\ Placed \subseteq [Targets -> Contents \ {"torn"}]
  /\ MaxEdits \in Nat

VARIABLES
  source,   (* the content of each file found on the machine                *)
  target,   (* the content of each file of the models directory             *)
  link,     (* the source a target is a hard link to                        *)
  part,     (* the content of each target's .part file                      *)
  job,      (* where the loop is: item, source, companion, step, source size *)
  edits     (* how often the person has changed the files                   *)

fileVars == <<source, target, link, part, job, edits>>

Start == [item |-> 1, from |-> 1, beside |-> FALSE, at |-> "looks", size |-> "absent"]

FilesInit ==
  /\ source \in Found
  /\ target \in Placed
  /\ link = [t \in Targets |-> NoFile]
  /\ part = [t \in Targets |-> "absent"]
  /\ job = Start
  /\ edits = 0

Provisioned == job.item > Len(Items)

Item == Items[job.item]
Main == Item.sources[job.from]

\* The file the loop is at: a source, or its companion, and where it goes.
Src == IF job.beside THEN BesideSource[Main] ELSE Main
Tgt == IF job.beside THEN BesideTarget[Item.target] ELSE Item.target

NextItem   == [Start EXCEPT !.item = job.item + 1]
NextSource == [Start EXCEPT !.item = job.item, !.from = job.from + 1]
Companion  == [Start EXCEPT !.item = job.item, !.from = job.from, !.beside = TRUE]

\* Defect: a copy that failed is tried again, as long as it fails.
AfterRetrying(ok) ==
  job' = IF ok \/ job.beside THEN NextItem ELSE [job EXCEPT !.at = "looks"]

\* A server's or recogniser's binary takes its DLLs along at every start and
\* has no second source; anything else tries the next source, and has its
\* companion taken along only when it was itself brought in.
After(ok) ==
  job' = IF job.beside \/ (~Item.binary /\ ok /\ BesideSource[Main] = NoFile)
         THEN NextItem
         ELSE IF ~Item.binary /\ ~ok THEN NextSource
         ELSE IF BesideSource[Main] # NoFile /\ source[BesideSource[Main]] # "absent"
         THEN Companion ELSE NextItem

Looking == ~Provisioned /\ job.at = "looks"

\* Nothing to bring in: the target is there, or the source is not.
Passes ==
  /\ Looking /\ ~job.beside
  /\ \/ job.from > Len(Item.sources) /\ job' = NextItem
     \/ /\ job.from <= Len(Item.sources)
        /\ \/ target[Tgt] # "absent" /\ ~Item.binary /\ job' = NextItem
           \/ target[Tgt] # "absent" /\ Item.binary /\ source[Main] # "absent" /\ After(TRUE)
           \/ /\ target[Tgt] = "absent" \/ Item.binary
              /\ source[Main] = "absent" /\ job' = NextSource
  /\ UNCHANGED <<source, target, link, part, edits>>

\* atomicCopyOrLink() is called.
Tries ==
  /\ Looking
  /\ IF job.beside THEN TRUE
     ELSE job.from <= Len(Item.sources) /\ source[Main] # "absent" /\ target[Tgt] = "absent"

\* It returns at once: the target has something in it, the source nothing, or
\* the file system refuses.
Declines ==
  /\ Tries
  /\ After(target[Tgt] \notin {"absent", "empty"})
  /\ UNCHANGED <<source, target, link, part, edits>>

Useful == target[Tgt] \in {"absent", "empty"} /\ source[Src] \notin {"absent", "empty"}

\* A hard link takes no time; it needs the same volume and a free name.
Links ==
  /\ Tries /\ Useful /\ target[Tgt] = "absent"
  /\ target' = [target EXCEPT ![Tgt] = source[Src]]
  /\ link' = [link EXCEPT ![Tgt] = Src]
  /\ After(TRUE)
  /\ UNCHANGED <<source, part, edits>>

\* Defect: the copy goes straight to the target's name.
CopiesInPlace ==
  /\ Tries /\ Useful
  /\ target' = [target EXCEPT ![Tgt] = "torn"]
  /\ job' = [job EXCEPT !.at = "copies", !.size = source[Src]]
  /\ UNCHANGED <<source, link, part, edits>>

\* The copy starts, over what an earlier one has left.
Copies ==
  /\ Tries /\ Useful
  /\ part' = [part EXCEPT ![Tgt] = "torn"]
  /\ job' = [job EXCEPT !.at = "copies", !.size = source[Src]]
  /\ UNCHANGED <<source, target, link, edits>>

\* The copy returns: with what the source had, with what it has by now, or
\* short of it.
CopyReturns ==
  /\ job.at = "copies"
  /\ \E c \in {job.size, "torn"} \cup ({source[Src]} \ {"absent"}) :
       part' = [part EXCEPT ![Tgt] = c]
  /\ job' = [job EXCEPT !.at = "copied"]
  /\ UNCHANGED <<source, target, link, edits>>

\* The copy, or the renaming after it, fails: the .part file is left behind.
CopyFails ==
  /\ job.at \in {"copies", "copied"}
  /\ After(FALSE)
  /\ UNCHANGED <<source, target, link, part, edits>>

\* The .part file has the size that the source had, and takes the target's name.
Publishes ==
  /\ job.at = "copied" /\ part[Tgt] = job.size
  /\ target' = [target EXCEPT ![Tgt] = part[Tgt]]
  /\ link' = [link EXCEPT ![Tgt] = NoFile]
  /\ part' = [part EXCEPT ![Tgt] = "absent"]
  /\ After(TRUE)
  /\ UNCHANGED <<source, edits>>

\* It has another size, and goes.
Discards ==
  /\ job.at = "copied" /\ part[Tgt] # job.size
  /\ part' = [part EXCEPT ![Tgt] = "absent"]
  /\ After(FALSE)
  /\ UNCHANGED <<source, target, link, edits>>

\* provisionLocalModels() rejects before its loop: no directory can be made.
GivesUp ==
  /\ Looking /\ job = Start
  /\ job' = [Start EXCEPT !.item = Len(Items) + 1]
  /\ UNCHANGED <<source, target, link, part, edits>>

Provisions ==
  \/ Passes \/ Declines \/ Links \/ Copies
  \/ CopyReturns \/ CopyFails \/ Publishes \/ Discards \/ GivesUp

-----------------------------------------------------------------------------
\* A download starts, or goes on to its end -- in the file itself, and so in a
\* target that is linked to it.
Downloads(s) ==
  /\ source[s] \in {"absent", "empty", "partial"}
  /\ source' = [source EXCEPT ![s] = IF @ = "partial" THEN "whole" ELSE "partial"]
  /\ target' = [t \in Targets |-> IF link[t] = s THEN source'[s] ELSE target[t]]
  /\ UNCHANGED link

\* A file found on the machine is removed; a link to it keeps its content.
RemovesSource(s) ==
  /\ source[s] # "absent"
  /\ source' = [source EXCEPT ![s] = "absent"]
  /\ link' = [t \in Targets |-> IF link[t] = s THEN NoFile ELSE link[t]]
  /\ UNCHANGED target

\* A file of the models directory is removed.
RemovesTarget(t) ==
  /\ target[t] # "absent"
  /\ target' = [target EXCEPT ![t] = "absent"]
  /\ link' = [link EXCEPT ![t] = NoFile]
  /\ UNCHANGED source

Edits ==
  /\ edits < MaxEdits
  /\ edits' = edits + 1
  /\ \/ \E s \in Sources : Downloads(s) \/ RemovesSource(s)
     \/ \E t \in Targets : RemovesTarget(t)
  /\ UNCHANGED <<part, job>>

-----------------------------------------------------------------------------
(* Properties *)

\* Whenever the process died and whatever a copy did, no file of the models
\* directory is a part of its source: a torn file would be taken for the model
\* at every later start, for a target that exists is not looked at again.
TargetsAreNeverTorn == \A t \in Targets : target[t] # "torn"
=============================================================================
