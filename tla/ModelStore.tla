----------------------------- MODULE ModelStore -----------------------------
(***************************************************************************)
(* The local runtime's model store: ModelManager and what it is made of    *)
(* (core/local-runtime/src/model-manager.ts, model-download-manager.ts,    *)
(* model-registry.ts, model-versioning.ts, model-cache.ts,                 *)
(* model-verification.ts), over a file system that may refuse.  Nothing    *)
(* keeps one call from starting while another waits for the disk.  Every   *)
(* model has the same size; which of several is the least recently used is *)
(* left open.                                                              *)
(***************************************************************************)
EXTENDS Naturals, Sequences, FiniteSets

CONSTANTS
  Models, Versions,  (* model ids, and their versions                       *)
  Callers,           (* those who call the model manager                    *)
  NoModel,
  MaxModels,         (* how many models fit the cache's budget              *)
  MaxManaged         (* bound on the calls                                  *)

Files   == Models \X Versions \X {"download", "import"}
Records == [version : Versions, file : Files]

ASSUME StoreAssumption == Versions \subseteq Nat \ {0} /\ MaxModels \in Nat /\ MaxManaged \in Nat

VARIABLES
  catalog,    (* the version each model's metadata names, 0 for none        *)
  installed,  (* the registry's record of each installed model              *)
  history,    (* the version manager's records of each model                *)
  active,     (* the version it says is active, 0 for none                  *)
  disk,       (* what each file holds                                       *)
  doing,      (* what each caller waits for                                 *)
  managed     (* calls so far                                               *)

storeVars == <<catalog, installed, history, active, disk, doing, managed>>

Nothing == [op |-> "none", model |-> NoModel, version |-> 0, at |-> "none", victims |-> {}]

StoreInit ==
  /\ catalog \in [Models -> Versions \cup {0}]
  /\ installed = [m \in Models |-> NoModel]
  /\ history = [m \in Models |-> <<>>]
  /\ active = [m \in Models |-> 0]
  /\ disk = [f \in Files |-> "absent"]
  /\ doing = [c \in Callers |-> Nothing]
  /\ managed = 0

Installed == {m \in Models : installed[m] # NoModel}

Does(c, at) == doing' = [doing EXCEPT ![c].at = at]
Settles(c) == doing' = [doing EXCEPT ![c] = Nothing]

FileOf(c) ==
  <<doing[c].model, doing[c].version,
    IF doing[c].op \in {"import", "bad import"} THEN "import" ELSE "download">>

\* A call begins, and waits at its first await.
Begins(c, op, m, v, at) ==
  /\ doing[c] = Nothing /\ managed < MaxManaged
  /\ managed' = managed + 1
  /\ doing' = [doing EXCEPT ![c] =
       [op |-> op, model |-> m, version |-> v, at |-> at, victims |-> {}]]

\* install() of what the catalog names.
Install(c, m) ==
  /\ catalog[m] # 0
  /\ Begins(c, "install", m, catalog[m], "fetches")
  /\ UNCHANGED <<catalog, installed, history, active, disk>>

\* update() to new metadata.
Update(c, m, v) ==
  /\ Begins(c, "update", m, v, "fetches")
  /\ catalog' = [catalog EXCEPT ![m] = v]
  /\ UNCHANGED <<installed, history, active, disk>>

\* The download fails, or its bytes do not have the checksum; or the disk
\* fails, in the middle of a file.
Abandons(c) ==
  /\ doing[c].at \in {"fetches", "writes"}
  /\ Settles(c)
  /\ UNCHANGED <<catalog, installed, history, active, disk, managed>>

\* The bytes are there; the file is opened, and is empty at first.
Opens(c) ==
  /\ doing[c].at = "fetches"
  /\ disk' = [disk EXCEPT ![FileOf(c)] = "torn"]
  /\ Does(c, "writes")
  /\ UNCHANGED <<catalog, installed, history, active, managed>>

\* importModel() of a bundle that is what its metadata says, or is not.
Import(c, m, v, op) ==
  /\ op \in {"import", "bad import"}
  /\ Begins(c, op, m, v, "writes")
  /\ disk' = [disk EXCEPT ![<<m, v, "import">>] = "torn"]
  /\ UNCHANGED <<catalog, installed, history, active>>

Writes(c) ==
  /\ doing[c].at = "writes"
  /\ disk' = [disk EXCEPT ![FileOf(c)] = IF doing[c].op = "bad import" THEN "bad" ELSE "good"]
  /\ Does(c, "written")
  /\ UNCHANGED <<catalog, installed, history, active, managed>>

\* markInstalled() and recordInstall(): the model is installed -- an imported
\* one before it has been verified.
Promotes(c) ==
  LET m == doing[c].model
      r == [version |-> doing[c].version, file |-> FileOf(c)]
  IN /\ doing[c].at = "written"
     /\ installed' = [installed EXCEPT ![m] = r]
     /\ catalog' = [catalog EXCEPT ![m] = IF @ = 0 THEN r.version ELSE @]
     /\ history' = [history EXCEPT ![m] = Append(@, r)]
     /\ active' = [active EXCEPT ![m] = r.version]
     /\ CASE doing[c].op = "install" -> Does(c, "enforces")
          [] doing[c].op = "update"  -> Settles(c)
          [] OTHER                   -> Does(c, "verifies")
     /\ UNCHANGED <<disk, managed>>

\* Defect: verification takes any bytes for good.
VerifiesPresence(c) ==
  /\ doing[c].at = "verifies"
  /\ IF disk[FileOf(c)] # "absent" THEN Settles(c) ELSE Does(c, "rejects")
  /\ UNCHANGED <<catalog, installed, history, active, disk, managed>>

\* The file is looked for, measured, read and checked.
Verifies(c) ==
  /\ doing[c].at = "verifies"
  /\ IF disk[FileOf(c)] = "good" THEN Settles(c) ELSE Does(c, "rejects")
  /\ UNCHANGED <<catalog, installed, history, active, disk, managed>>

\* A file that is there can be deleted; for one that is not, the call rejects.
Deletes(c, file, at) ==
  /\ IF disk[file] # "absent" THEN Does(c, at) ELSE Settles(c)
  /\ disk' = [disk EXCEPT ![file] = "absent"]
  /\ UNCHANGED <<catalog, installed, history, active, managed>>

RejectsImport(c) == doing[c].at = "rejects" /\ Deletes(c, FileOf(c), "unmarks")

\* markUninstalled(): whatever version is installed by now.
Unmarks(c) ==
  /\ doing[c].at = "unmarks"
  /\ installed' = [installed EXCEPT ![doing[c].model] = NoModel]
  /\ Settles(c)
  /\ UNCHANGED <<catalog, history, active, disk, managed>>

\* uninstall(): the file of the version that is installed now.
Uninstall(c, m) ==
  /\ m \in Installed
  /\ doing[c] = Nothing /\ managed < MaxManaged
  /\ managed' = managed + 1
  /\ doing' = [doing EXCEPT ![c] = [Nothing EXCEPT !.op = "uninstall", !.model = m,
                                      !.at = "deletes", !.victims = {<<m, installed[m]>>}]]
  /\ UNCHANGED <<catalog, installed, history, active, disk>>

DeletesModel(c) ==
  /\ doing[c].at = "deletes"
  /\ \E v \in doing[c].victims : Deletes(c, v[2].file, "forgets")

\* markUninstalled() and forget(): every version, though one file only has gone.
Forgets(c) ==
  /\ doing[c].at = "forgets"
  /\ installed' = [installed EXCEPT ![doing[c].model] = NoModel]
  /\ history' = [history EXCEPT ![doing[c].model] = <<>>]
  /\ active' = [active EXCEPT ![doing[c].model] = 0]
  /\ Settles(c)
  /\ UNCHANGED <<catalog, disk, managed>>

\* The place in the history of the first record of the active version.
Current(m) ==
  LET at == {i \in 1..Len(history[m]) : history[m][i].version = active[m]}
  IN IF at = {} THEN 0 ELSE CHOOSE i \in at : \A j \in at : i <= j

\* rollback(): the version manager goes back at once, the registry later.
Rollback(c, m) ==
  /\ Current(m) > 1
  /\ LET r == history[m][Current(m) - 1]
     IN /\ doing[c] = Nothing /\ managed < MaxManaged
        /\ managed' = managed + 1
        /\ active' = [active EXCEPT ![m] = r.version]
        /\ doing' = [doing EXCEPT ![c] = [Nothing EXCEPT !.op = "rollback", !.model = m,
                                            !.at = "stats", !.victims = {<<m, r>>}]]
  /\ UNCHANGED <<catalog, installed, history, disk>>

\* The file's size is asked for: where there is none, the call rejects.
RolledBack(c) ==
  /\ doing[c].at = "stats"
  /\ \E v \in doing[c].victims :
       installed' = IF disk[v[2].file] = "absent" THEN installed
                    ELSE [installed EXCEPT ![v[1]] = v[2]]
  /\ Settles(c)
  /\ UNCHANGED <<catalog, history, active, disk, managed>>

\* cleanup()
Cleanup(c) ==
  /\ Begins(c, "cleanup", NoModel, 0, "enforces")
  /\ UNCHANGED <<catalog, installed, history, active, disk>>

\* enforceLimit(): as many of the models installed now as are over the budget
\* will go, the least recently used first.
Enforces(c) ==
  /\ doing[c].at = "enforces"
  /\ \E over \in SUBSET Installed :
       /\ Cardinality(Installed) <= MaxModels + Cardinality(over)
       /\ \A m \in over : Cardinality(Installed) > MaxModels + Cardinality(over) - 1
       /\ doing' = [doing EXCEPT ![c] =
            IF over = {} THEN Nothing
            ELSE [@ EXCEPT !.at = "evicts", !.victims = {<<m, installed[m]>> : m \in over}]]
  /\ UNCHANGED <<catalog, installed, history, active, disk, managed>>

\* The file of the next one goes, and the call waits for that.
DeletesVictim(c) ==
  /\ doing[c].at = "evicts"
  /\ \E v \in doing[c].victims :
       /\ disk' = [disk EXCEPT ![v[2].file] = "absent"]
       /\ doing' = [doing EXCEPT ![c] = IF disk[v[2].file] = "absent" THEN Nothing
                     ELSE [@ EXCEPT !.at = "evicted", !.model = v[1]]]
  /\ UNCHANGED <<catalog, installed, history, active, managed>>

\* It is no longer installed -- in whatever version it is by now.
Evicted(c) ==
  /\ doing[c].at = "evicted"
  /\ installed' = [installed EXCEPT ![doing[c].model] = NoModel]
  /\ LET left == {v \in doing[c].victims : v[1] # doing[c].model}
     IN doing' = [doing EXCEPT ![c] = IF left = {} THEN Nothing
                   ELSE [@ EXCEPT !.at = "evicts", !.victims = left]]
  /\ UNCHANGED <<catalog, history, active, disk, managed>>

StoreNext ==
  \E c \in Callers :
    \/ \E m \in Models : Install(c, m) \/ Uninstall(c, m) \/ Rollback(c, m)
    \/ \E m \in Models, v \in Versions : Update(c, m, v)
    \/ \E m \in Models, v \in Versions, op \in {"import", "bad import"} : Import(c, m, v, op)
    \/ Cleanup(c) \/ Abandons(c) \/ Opens(c) \/ Writes(c) \/ Promotes(c)
    \/ Verifies(c) \/ RejectsImport(c) \/ Unmarks(c)
    \/ DeletesModel(c) \/ Forgets(c) \/ RolledBack(c)
    \/ Enforces(c) \/ DeletesVictim(c) \/ Evicted(c)

StoreSpec == StoreInit /\ [][StoreNext]_storeVars

-----------------------------------------------------------------------------
(* Properties *)

\* No call about the model is under way.
Quiet(m) == \A c \in Callers : doing[c].model # m

\* Bytes that failed their checksum are installed only while the import that
\* brought them is still checking them, whatever other imports, rollbacks and
\* evictions of the model do to its file and its records meanwhile.
UnverifiedBytesDoNotStay ==
  \A m \in Installed : Quiet(m) => disk[installed[m].file] # "bad"
=============================================================================
