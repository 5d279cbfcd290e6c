----------------------------- MODULE FileActions -----------------------------
(***************************************************************************)
(* The file and open tools of the desktop app, over the two file systems   *)
(* a WindowsSystemApi may be: the maps of ReferenceWindowsSystemApi and    *)
(* the cmdlets PowerShellWindowsSystemApi runs.  A path is the sequence of *)
(* its names, so dirname and basename are its Front and its Last.          *)
(***************************************************************************)
EXTENDS DesktopTurns, SequencesExt

CONSTANTS
  Paths,          (* the paths that are looked at                           *)
  Contents,       (* the documents that may be there                        *)
  NoContent,
  InitialDocs,    (* where a document is at first                           *)
  InitialFolders,
  Protected,      (* isProtectedSystemPath                                  *)
  Words,          (* "downloads", "my documents", ...                       *)
  WellKnown,      (* the folder each of them means                          *)
  Links,          (* what looksLikeUrl                                      *)
  Browsers,       (* KNOWN_BROWSERS                                         *)
  Installed,      (* those BrowserResolver can find                         *)
  Preferred,      (* the browser of the settings                            *)
  NoBrowser,
  NoPath,         (* an argument that is missing                            *)
  BadPath,        (* one with a null byte in it                             *)
  Offered,        (* the calls each turn may make                           *)
  NoReference

VARIABLES
  doc,        (* per path: the document there                               *)
  folders,    (* the folders that exist                                     *)
  reference   (* ContextReferenceTracker.current                            *)

fileVars == <<doc, folders, reference>>

\* The tools that change the file system.
ChangeTools == {"create_folder", "copy_file", "move_file", "rename_file", "delete_file"}
\* The tools that only look at it.
ReadTools == {"list_files", "read_file", "search_files", "get_folder_path",
              "list_recent_files"}
\* The tools that make the machine open something.
OpenTools == {"open_url", "open_file", "open_folder", "smart_open", "open_this"}

\* A path and everything below it.
Inside(p) == {q \in Paths : IsPrefix(p, q)}

\* A path is a sequence of names, and is looked at with the folders it is in.
ASSUME PathsAssumption ==
  /\ Paths \subseteq Seq(STRING)
  /\ \A p \in Paths : \A n \in 1..Len(p) : SubSeq(p, 1, n) \in Paths

\* What is there at first is so with the folders it is in.
ASSUME InitialFilesAssumption ==
  LET there == DOMAIN InitialDocs \cup InitialFolders IN
  /\ there \subseteq Paths
  /\ NoContent \notin Contents
  /\ \A p \in DOMAIN InitialDocs : InitialDocs[p] \in Contents
  /\ \A p \in there, q \in Paths : IsPrefix(q, p) => q \in there

\* A call has these four arguments.
IsFileCall(c) == c = [op |-> c.op, path |-> c.path, to |-> c.to, browser |-> c.browser]
ASSUME OfferedAssumption == \A t \in Turns : \A c \in Offered[t] : IsFileCall(c)

\* Whoever is protected is so with the folders it is in, and is a folder.
ASSUME ProtectedAssumption ==
  /\ Protected \subseteq InitialFolders
  /\ \A p \in Paths : (Inside(p) \cap Protected # {}) => p \in Protected

FilesInit ==
  /\ doc = [p \in Paths |-> IF p \in DOMAIN InitialDocs THEN InitialDocs[p] ELSE NoContent]
  /\ folders = InitialFolders
  /\ reference = NoReference

IsFile(p)   == p \in Paths /\ doc[p] # NoContent
IsFolder(p) == p \in folders
Exists(p)   == IsFile(p) \/ IsFolder(p)

-----------------------------------------------------------------------------
\* What the desktop actions check before they call anything.
HasArguments(c) ==
  /\ c.path # NoPath
  /\ c.op \in {"copy_file", "move_file", "rename_file"} => c.to # NoPath
  /\ c.op \in ChangeTools => BadPath \notin {c.path, c.to}
  /\ c.op = "get_folder_path" => c.path \in Words

\* Defect: only a move looks at what is protected.
MayRename(c) == c.op = "move_file" => {c.path, c.to} \cap Protected = {}

IsPermitted(c) ==
  /\ c.op \in {"rename_file", "delete_file"} => c.path \notin Protected
  /\ c.op = "move_file" => {c.path, c.to} \cap Protected = {}

\* A browser that is named must be a known one.
KnowsBrowser(c) == c.browser \in Browsers \cup {NoBrowser}

\* What "this" and "again" stand for: the same call as for the thing itself.
Recalled ==
  [op |-> CASE reference.type = "url" -> "open_url"
            [] reference.type = "file" -> "open_file"
            [] reference.type = "folder" -> "open_folder",
   path |-> reference.target, to |-> NoPath, browser |-> NoBrowser]

Accepts(c) == HasArguments(c) /\ IsPermitted(c) /\ KnowsBrowser(c)

Starts(t) ==
  /\ \/ \E c \in Offered[t] : /\ c.op \in (ChangeTools \cup ReadTools \cup OpenTools) \ {"open_this"}
                             /\ Accepts(c) /\ Begins(t, c)
     \/ /\ \E c \in Offered[t] : c.op = "open_this"
        /\ reference # NoReference
        /\ Begins(t, Recalled)
  /\ UNCHANGED fileVars

Rejects(t) ==
  /\ \E c \in Offered[t] : IF c.op = "open_this" THEN reference = NoReference ELSE ~Accepts(c)
  /\ Declines(t)
  /\ UNCHANGED fileVars

\* "Open <anything>": a site by its name, or whatever smart_open finds.
OpensNamed(t) ==
  /\ \E c \in Offered[t] :
       /\ c.op = "open_application"
       /\ KnowsBrowser(c)
       /\ Begins(t, [c EXCEPT !.op = IF c.path \in Links THEN "open_url" ELSE "smart_open"])
  /\ UNCHANGED fileVars

-----------------------------------------------------------------------------
\* mkdir of one directory, and of New-Item -Force with those above it.
CreatedByReference(p) == folders' = folders \cup {p}

CreatedByCmdlet(p) ==
  /\ \A q \in Paths : IsPrefix(q, p) => ~IsFile(q)
  /\ folders' = folders \cup {q \in Paths : IsPrefix(q, p)}

CreatesFolder(t) ==
  /\ Does(t, {"create_folder"})
  /\ MayAct(t, FALSE)
  /\ call[t].path \in Paths
  /\ IF backend = "reference" THEN CreatedByReference(call[t].path)
     ELSE CreatedByCmdlet(call[t].path)
  /\ Settles(t, TRUE)
  /\ UNCHANGED <<doc, reference>>

\* A file is written over whatever is there, into a directory that is made.
CopiedByReference(c) ==
  /\ IsFile(c.path) /\ c.to \in Paths
  /\ doc' = [doc EXCEPT ![c.to] = doc[c.path]]
  /\ folders' = folders \cup ({Front(c.to)} \cap Paths)

\* Where a cmdlet puts what it is given: into a destination that is a folder.
Landing(c) ==
  IF c.op # "rename_file" /\ IsFolder(c.to) THEN Append(c.to, Last(c.path)) ELSE c.to

\* Copy-Item without -Recurse: of a folder it makes an empty one.
CopiedByCmdlet(c, d) ==
  /\ d \in Paths /\ Front(d) \in folders /\ d # c.path
  /\ \/ /\ IsFile(c.path) /\ ~IsFolder(d)
        /\ doc' = [doc EXCEPT ![d] = doc[c.path]]
        /\ UNCHANGED folders
     \/ /\ IsFolder(c.path) /\ ~IsFile(d)
        /\ folders' = folders \cup {d}
        /\ UNCHANGED doc

CopiesFile(t) ==
  /\ Does(t, {"copy_file"})
  /\ MayAct(t, FALSE)
  /\ IF backend = "reference" THEN CopiedByReference(call[t])
     ELSE CopiedByCmdlet(call[t], Landing(call[t]))
  /\ Settles(t, TRUE)
  /\ UNCHANGED reference

\* Defect: the source is deleted before it is read.
DeletesThenCopies(c) ==
  /\ IsFile(c.path) /\ c.to \in Paths
  /\ doc' = [doc EXCEPT ![c.path] = NoContent, ![c.to] = NoContent]
  /\ folders' = folders \cup ({Front(c.to)} \cap Paths)

\* The reference copies and then deletes the source.
MovedByReference(c) ==
  /\ IsFile(c.path) /\ c.to \in Paths
  /\ doc' = [[doc EXCEPT ![c.to] = doc[c.path]] EXCEPT ![c.path] = NoContent]
  /\ folders' = folders \cup ({Front(c.to)} \cap Paths)

\* The cmdlets refuse a destination that exists, and take along all that is
\* below p to the same place below d.
From(r, p, d) == p \o SubSeq(r, Len(d) + 1, Len(r))
MovedByCmdlet(p, d) ==
  /\ d \in Paths /\ Front(d) \in folders
  /\ Exists(p) /\ ~Exists(d) /\ ~IsPrefix(p, d)
  /\ \A q \in Inside(p) : Exists(q) => d \o SubSeq(q, Len(p) + 1, Len(q)) \in Paths
  /\ doc' = [r \in Paths |->
       IF r \in Inside(d) THEN (IF From(r, p, d) \in Paths THEN doc[From(r, p, d)] ELSE NoContent)
       ELSE IF r \in Inside(p) THEN NoContent ELSE doc[r]]
  /\ folders' = (folders \ Inside(p)) \cup {r \in Inside(d) : From(r, p, d) \in folders}

MovesFile(t) ==
  /\ Does(t, {"move_file", "rename_file"})
  /\ MayAct(t, FALSE)
  /\ IF backend = "reference" THEN MovedByReference(call[t])
     ELSE MovedByCmdlet(call[t].path, Landing(call[t]))
  /\ Settles(t, TRUE)
  /\ UNCHANGED reference

\* Defect: the manager goes on without the gate.
TrustsDelete(t) ==
  /\ Does(t, {"delete_file"}) /\ at[t] = "call"
  /\ at' = [at EXCEPT ![t] = "allowed"]
  /\ UNCHANGED <<backend, call, ok, asked>>
  /\ UNCHANGED fileVars

AsksToDelete(t) ==
  /\ Does(t, {"delete_file"})
  /\ Asks(t)
  /\ UNCHANGED fileVars

AllowsDelete(t) ==
  /\ Does(t, {"delete_file"})
  /\ Allows(t)
  /\ UNCHANGED fileVars

DeniesDelete(t) ==
  /\ Does(t, {"delete_file"})
  /\ Denies(t)
  /\ UNCHANGED fileVars

Removes(gone) ==
  /\ doc' = [p \in Paths |-> IF p \in gone THEN NoContent ELSE doc[p]]
  /\ folders' = folders \ gone

\* Only what is empty.
DeletedByReference(p) ==
  IF IsFile(p) THEN doc' = [doc EXCEPT ![p] = NoContent] /\ UNCHANGED folders
  ELSE /\ IsFolder(p)
       /\ \A q \in Paths : q # <<>> /\ Front(q) = p => ~Exists(q)
       /\ folders' = folders \ {p} /\ UNCHANGED doc

\* Remove-Item -Recurse -Force.
DeletedByCmdlet(p) == Exists(p) /\ Removes(Inside(p))

DeletesEntry(t) ==
  /\ Does(t, {"delete_file"})
  /\ MayAct(t, TRUE)
  /\ IF backend = "reference" THEN DeletedByReference(call[t].path)
     ELSE DeletedByCmdlet(call[t].path)
  /\ Settles(t, TRUE)
  /\ UNCHANGED reference

\* Remove-Item stops half-way: a file in use, a command that is killed.
DeletesPart(t) ==
  /\ Does(t, {"delete_file"})
  /\ MayAct(t, TRUE)
  /\ backend = "powershell"
  /\ Exists(call[t].path)
  /\ \E gone \in SUBSET Inside(call[t].path) :
       /\ \A p \in gone : Inside(p) \subseteq gone
       /\ Removes(gone)
  /\ Settles(t, FALSE)
  /\ UNCHANGED reference

-----------------------------------------------------------------------------
\* The browser a link is opened in, or the system's own.
Chosen(c) == IF c.browser # NoBrowser THEN c.browser ELSE Preferred

IsLink(c) == c.op = "open_url" \/ (c.op = "smart_open" /\ c.path \in Links)

OpensLink(t) ==
  /\ call[t] # NoCall /\ IsLink(call[t])
  /\ MayAct(t, FALSE)
  /\ at[t] = "again" \/ Chosen(call[t]) \in Installed \cup {NoBrowser}
  /\ Settles(t, TRUE)
  /\ UNCHANGED fileVars

\* BrowserResolver.locate asks the installed applications, the registry and
\* the usual places in turn, and a command that fails finds nothing.
MayMiss(b) == b \in Installed => backend = "powershell"

\* BrowserNotInstalledError: the system's browser is tried only where the
\* missing one was the preferred one, and only by open_url.
MissesBrowser(t) ==
  /\ call[t] # NoCall /\ IsLink(call[t])
  /\ at[t] = "call"
  /\ Chosen(call[t]) # NoBrowser
  /\ MayMiss(Chosen(call[t]))
  /\ IF call[t].op = "open_url" /\ call[t].browser = NoBrowser
     THEN /\ at' = [at EXCEPT ![t] = "again"]
          /\ UNCHANGED <<backend, call, ok, asked>>
     ELSE Settles(t, FALSE)
  /\ UNCHANGED fileVars

OpenedByReference(p) == IsFile(p)
OpenedByCmdlet(p) == Exists(p)

OpensFile(t) ==
  /\ Does(t, {"open_file"})
  /\ MayAct(t, FALSE)
  /\ IF backend = "reference" THEN OpenedByReference(call[t].path)
     ELSE OpenedByCmdlet(call[t].path)
  /\ Settles(t, TRUE)
  /\ UNCHANGED fileVars

\* A word for a folder is looked up first; when that fails it is kept.
Resolves(t) ==
  /\ Does(t, {"open_folder", "list_files", "search_files"})
  /\ at[t] = "call"
  /\ call[t].path \in Words
  /\ \E p \in {WellKnown[call[t].path]} \cup
              (IF backend = "powershell" THEN {call[t].path} ELSE {}) :
       call' = [call EXCEPT ![t].path = p]
  /\ at' = [at EXCEPT ![t] = "again"]
  /\ UNCHANGED <<backend, ok, asked>>
  /\ UNCHANGED fileVars

\* explorer.exe reports no error for a path that is not there.
OpensFolder(t) ==
  /\ Does(t, {"open_folder", "smart_folder"})
  /\ IF call[t].path \in Words THEN at[t] = "again" ELSE MayAct(t, FALSE)
  /\ backend = "reference" => IsFolder(call[t].path)
  /\ Settles(t, TRUE)
  /\ UNCHANGED fileVars

\* smart_open on a path: it is a folder when it can be browsed, which with
\* Get-ChildItem a file can be too, and else it is opened as a file.
Classifies(t) ==
  /\ Does(t, {"smart_open"}) /\ call[t].path \notin Links
  /\ at[t] = "call"
  /\ LET p == IF call[t].path \in Words THEN WellKnown[call[t].path] ELSE call[t].path
         browses == IF backend = "reference" THEN {IsFolder(p)} ELSE {FALSE, Exists(p)} IN
     \E b \in browses :
       call' = [call EXCEPT ![t].path = p, ![t].op = IF b THEN "smart_folder" ELSE "open_file"]
  /\ UNCHANGED <<backend, at, ok, asked>>
  /\ UNCHANGED fileVars

\* What was browsed could not be opened as a folder.
TriesAsFile(t) ==
  /\ Does(t, {"smart_folder"})
  /\ at[t] = "call"
  /\ backend = "reference" => ~IsFolder(call[t].path)
  /\ call' = [call EXCEPT ![t].op = "open_file"]
  /\ UNCHANGED <<backend, at, ok, asked>>
  /\ UNCHANGED fileVars

-----------------------------------------------------------------------------
\* Why the reference refuses: "no file at", "no directory at", "not empty".
Impossible(c) ==
  CASE c.op \in {"copy_file", "move_file", "rename_file", "open_file"} -> ~IsFile(c.path)
    [] c.op = "open_folder" -> ~IsFolder(c.path)
    [] c.op = "delete_file" ->
         /\ ~IsFile(c.path)
         /\ IsFolder(c.path) => \E q \in Paths : q # <<>> /\ Front(q) = c.path /\ Exists(q)
    [] OTHER -> FALSE

FileFails(t) ==
  /\ Does(t, ChangeTools \cup {"open_url", "open_file", "open_folder"})
  /\ IF call[t].path \in Words /\ call[t].op = "open_folder"
     THEN at[t] = "again" ELSE MayAct(t, call[t].op = "delete_file")
  /\ backend = "reference" => Impossible(call[t])
  /\ Settles(t, FALSE)
  /\ UNCHANGED fileVars

\* What a tool that only looks may report of the path.
SeenByReference(c) ==
  {CASE c.op = "list_files" -> IsFolder(c.path)
     [] c.op = "read_file" -> IsFile(c.path)
     [] OTHER -> TRUE}

\* A file can be listed with Get-ChildItem, and any command may fail.
SeenByCmdlet(c) ==
  {FALSE} \cup {CASE c.op = "list_files" -> Exists(c.path)
                  [] c.op = "read_file" -> IsFile(c.path)
                  [] OTHER -> TRUE}

LooksAt(t) ==
  /\ IF call[t].path \in Words /\ call[t].op \in {"list_files", "search_files"}
     THEN at[t] = "again" ELSE MayAct(t, FALSE)
  /\ \E seen \in IF backend = "reference" THEN SeenByReference(call[t])
                 ELSE SeenByCmdlet(call[t]) : Ends(t, seen)
  /\ UNCHANGED fileVars

ListsFiles(t) == Does(t, {"list_files"}) /\ LooksAt(t)
ReadsFile(t) == Does(t, {"read_file"}) /\ LooksAt(t)
SearchesFiles(t) == Does(t, {"search_files"}) /\ LooksAt(t)
TellsFolder(t) == Does(t, {"get_folder_path"}) /\ LooksAt(t)
ListsRecent(t) == Does(t, {"list_recent_files"}) /\ LooksAt(t)

-----------------------------------------------------------------------------
\* After a success the target becomes "this" ...
Remembers(t) ==
  /\ at[t] = "after" /\ ok[t]
  /\ call[t].op \notin ChangeTools
  /\ reference' = [type |-> CASE IsLink(call[t]) -> "url"
                             [] call[t].op = "open_file" -> "file"
                             [] OTHER -> "folder",
                   target |-> call[t].path]
  /\ Ends(t, TRUE)
  /\ UNCHANGED <<doc, folders>>

\* ... and a deleted one is "this" no longer.
Forgets(t) ==
  /\ at[t] = "after" /\ ok[t]
  /\ Does(t, {"delete_file"})
  /\ reference' = IF reference # NoReference /\ reference.target = call[t].path
                  THEN NoReference ELSE reference
  /\ Ends(t, TRUE)
  /\ UNCHANGED <<doc, folders>>

ReturnsFile(t) ==
  /\ at[t] = "after"
  /\ ~ok[t] \/ call[t].op \in ChangeTools \ {"delete_file"}
  /\ Ends(t, ok[t])
  /\ UNCHANGED fileVars

RefusedFile(t) == Refused(t) /\ UNCHANGED fileVars

\* Ten minutes after it was set.
Expires ==
  /\ reference # NoReference
  /\ reference' = NoReference
  /\ UNCHANGED <<turnVars, doc, folders>>

FileStep(t) ==
  \/ Starts(t) \/ Rejects(t) \/ OpensNamed(t)
  \/ CreatesFolder(t) \/ CopiesFile(t) \/ MovesFile(t)
  \/ AsksToDelete(t) \/ AllowsDelete(t) \/ DeniesDelete(t)
  \/ DeletesEntry(t) \/ DeletesPart(t)
  \/ OpensLink(t) \/ MissesBrowser(t) \/ OpensFile(t)
  \/ Resolves(t) \/ OpensFolder(t) \/ Classifies(t) \/ TriesAsFile(t)
  \/ FileFails(t)
  \/ ListsFiles(t) \/ ReadsFile(t) \/ SearchesFiles(t) \/ TellsFolder(t) \/ ListsRecent(t)
  \/ Remembers(t) \/ Forgets(t) \/ ReturnsFile(t) \/ RefusedFile(t)

FilesNext == Expires \/ \E t \in Turns : FileStep(t)

FilesSpec == TurnsInit /\ FilesInit /\ [][FilesNext]_<<turnVars, fileVars>>

-----------------------------------------------------------------------------
References == [type : {"url", "file", "folder"}, target : Links \cup Paths \cup Words]

\* The documents, the folders and the current reference keep their types.
FilesTypeOK ==
  /\ doc \in [Paths -> Contents \cup {NoContent}]
  /\ folders \subseteq Paths
  /\ reference \in References \cup {NoReference}

\* However the tools are combined, no protected folder is moved, renamed or
\* deleted, although only the path that is named is checked and a cmdlet
\* takes everything below it along (desktop-actions.ts isProtectedSystemPath).
ProtectedFoldersStand == Protected \subseteq folders

\* The last copy of a document disappears only in a deletion the person
\* allowed, of it or of a folder it is in, or where another document is
\* copied, moved or renamed over it.
Overwritten(c) == IF backend = "reference" THEN c.to ELSE Landing(c)
LosesByConsent(x) ==
  LET places == {p \in Paths : doc[p] = x} IN
  \E t \in Turns :
    \/ /\ Does(t, {"delete_file"}) /\ asked[t]
       /\ Inside(call[t].path) \cap places # {}
    \/ /\ Does(t, {"copy_file", "move_file", "rename_file"})
       /\ Overwritten(call[t]) \in places
DocumentsAreKept ==
  [][\A x \in Contents :
       (\E p \in Paths : doc[p] = x) /\ ~(\E p \in Paths : doc'[p] = x) => LosesByConsent(x)]_<<turnVars, fileVars>>

\* A path is deleted only after the person was asked about it or about a
\* folder it is in, and moved only by a turn that moves it; whatever else a
\* tool does, an entry it was not given stays where it is.
OnlyNamedPathsGo ==
  [][\A p \in Paths : Exists(p) /\ ~Exists(p)' =>
       \E t \in Turns :
         /\ \/ Does(t, {"delete_file"}) /\ asked[t]
            \/ Does(t, {"move_file", "rename_file"})
         /\ p \in Inside(call[t].path)]_<<turnVars, fileVars>>

\* "a reference to something just deleted must not linger to be opened
\* later" (desktop-actions.ts deleteFile): not even one into the deleted folder.
NoLingeringReference ==
  [][\A t \in Turns :
       at[t] = "after" /\ ok[t] /\ Does(t, {"delete_file"}) /\ at'[t] = "idle"
         => reference' = NoReference \/ reference'.target \notin Inside(call[t].path)]_<<turnVars, fileVars>>
=============================================================================
