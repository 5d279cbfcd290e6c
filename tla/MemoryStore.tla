----------------------------- MODULE MemoryStore -----------------------------
(***************************************************************************)
(* core/memory-system: the memory manager with its store, its index, its   *)
(* version history and its permissions.  The store keeps the records in    *)
(* memory and writes each change through to a persistence it awaits; every *)
(* operation of the manager is a sequence of such changes, and whatever    *)
(* else is under way may run at each await.                                *)
(*                                                                         *)
(* A record is its lifecycle state, its version and whether an embedding   *)
(* is attached.  Content, tags, type, importance and pinning are left out: *)
(* which records are alike, old or beyond the retention is chosen anew     *)
(* each time the code would look.  The index is the version of each record *)
(* it was last rebuilt from.  Reads, the audit log and sync's staging      *)
(* change nothing here and are left out.                                   *)
(***************************************************************************)
EXTENDS Integers, Sequences, FiniteSets, SequencesExt

CONSTANTS
    Callers,         \* whoever calls the manager, one call at a time each
    MaxIds,          \* records are numbered as they are created
    EmbeddingService, \* whether one is given
    Earlier,         \* the records an earlier run of the program left
    MaxItems,        \* the retention policy's cap
    MinGroup,        \* compressOldMemories' minGroupSize
    MaxVersion, MaxCalls, MaxChanges, MaxRestarts   \* bounds

ASSUME MemoryAssumption ==
    {MaxIds, Earlier, MaxItems, MinGroup, MaxVersion} \subseteq Nat /\ Earlier <= MaxIds

VARIABLES
    cache, disk,     \* [Ids -> record or NoRecord]
    index,           \* [Ids -> version indexed, 0 for none]
    history,         \* [Ids -> the versions snapshot]
    bundle,          \* the last export or backup: [Ids -> record or NoRecord]
    enabled, grants, \* MemoryPermissions
    calls,           \* [todo, made, held, awaits] of each caller
    created,         \* the records created so far
    replaced,        \* <<record, what a merge or a summary put in its place>>
    purged,          \* the records that were purged
    counts           \* [calls, changes, restarts] so far

memoryVars == <<cache, disk, index, history, bundle, enabled, grants, calls, created, replaced, purged, counts>>

Ids == 1..MaxIds
Operations == {"edit", "delete", "export", "import"}
Record(state, version, embedded) == [state |-> state, version |-> version, embedded |-> embedded]
NoRecord == Record("none", 0, FALSE)
New == Record("active", 1, FALSE)

\* What a call awaits: a save or (NoRecord) a removal, or somebody's answer.
Write(i, r) == [id |-> i, rec |-> r]
Nothing == Write(0, NoRecord)
Answer  == Write(0, New)

Do(what) == [do |-> what, of |-> 0]
To(what, i) == [do |-> what, of |-> i]
Each(what, ids) == [k \in 1..Cardinality(ids) |-> To(what, SetToSeq(ids)[k])]
Idle == [todo |-> <<>>, made |-> 0, held |-> NoRecord, awaits |-> Nothing]

MemoryInit ==
    /\ disk = [i \in Ids |-> IF i <= Earlier THEN New ELSE NoRecord]
    /\ cache = disk
    /\ index = [i \in Ids |-> 0] /\ history = [i \in Ids |-> {}]
    /\ bundle = [i \in Ids |-> NoRecord]
    /\ enabled = TRUE /\ grants = Operations
    /\ calls = [c \in Callers |-> Idle]
    /\ created = Earlier /\ replaced = {} /\ purged = {}
    /\ counts = [calls |-> 0, changes |-> 0, restarts |-> 0]

Active == {i \in Ids : cache[i].state = "active"}
Stored == {i \in Ids : cache[i] # NoRecord}
Allowed(op) == enabled /\ op \in grants

-----------------------------------------------------------------------------
\* The steps of a call.  Each takes what is left to do, does the first of it
\* up to its await, and leaves the rest.

Goes(c, todo) == calls' = [calls EXCEPT ![c] = IF todo = <<>> THEN Idle ELSE [@ EXCEPT !.todo = todo, !.awaits = Nothing]]
Throws(c) == calls' = [calls EXCEPT ![c] = Idle]

\* put() and its kin: the record is in the cache at once, on disk when the
\* save is done.
Puts(c, i, r, todo) ==
    /\ cache' = [cache EXCEPT ![i] = r]
    /\ calls' = [calls EXCEPT ![c] = [@ EXCEPT !.todo = todo, !.held = r, !.awaits = Write(i, r)]]

Rebuilt == [i \in Ids |-> cache[i].version]

Create(c, todo) ==
    /\ Head(todo).do = "create"
    /\ IF ~Allowed("edit") THEN Throws(c) /\ UNCHANGED <<cache, created>>
       ELSE LET i == created + 1 IN
            /\ created < MaxIds /\ created' = i
            /\ cache' = [cache EXCEPT ![i] = New]
            /\ calls' = [calls EXCEPT ![c] = [todo |-> Tail(todo), made |-> i, held |-> New, awaits |-> Write(i, New)]]
    /\ UNCHANGED <<index, history, replaced, purged>>

\* attachEmbedding() waits for an answer, then puts the record it held; a
\* summary and a backup's decryption are waited for in the same way.
Ask(c, todo) ==
    /\ Head(todo).do = "ask"
    /\ calls' = [calls EXCEPT ![c] = [@ EXCEPT !.todo = Tail(todo), !.awaits = Answer]]
    /\ UNCHANGED <<cache, index, history, created, replaced, purged>>

Attach(c, todo) ==
    /\ Head(todo).do = "attach"
    /\ Puts(c, calls[c].made, [calls[c].held EXCEPT !.embedded = TRUE], Tail(todo))
    /\ UNCHANGED <<index, history, created, replaced, purged>>

Snapshot(i) == history' = IF i \in Stored THEN [history EXCEPT ![i] = @ \cup {cache[i].version}] ELSE history

Update(c, todo) ==
    LET i == Head(todo).of
        r == [cache[i] EXCEPT !.version = @ + 1]
    IN  /\ Head(todo).do = "update" /\ cache[i].version < MaxVersion
        /\ Snapshot(i)
        /\ IF cache[i].state \in {"none", "deleted"} THEN Throws(c) /\ UNCHANGED cache
           ELSE /\ cache' = [cache EXCEPT ![i] = r]
                /\ calls' = [calls EXCEPT ![c] = [todo |-> Tail(todo), made |-> i, held |-> r, awaits |-> Write(i, r)]]
        /\ UNCHANGED <<index, created, replaced, purged>>

\* store.setLifecycleState().
Sets(c, i, state, todo) == Puts(c, i, [cache[i] EXCEPT !.state = state], todo)

\* deleteMemory(): with nothing to delete there is nothing to index either.
Delete(c, todo) ==
    LET i == Head(todo).of IN
    /\ Head(todo).do = "delete"
    /\ IF ~Allowed("delete") THEN Throws(c) /\ UNCHANGED <<cache, history>>
       ELSE /\ Snapshot(i)
            /\ IF i \in Stored THEN Sets(c, i, "deleted", Tail(todo))
               ELSE Goes(c, Tail(Tail(todo))) /\ UNCHANGED cache
    /\ UNCHANGED <<index, created, replaced, purged>>

\* A merge or a summary takes the place of an original: store.delete().
Replace(c, todo) ==
    LET i == Head(todo).of IN
    /\ Head(todo).do = "replace"
    /\ IF i \in Stored THEN Sets(c, i, "deleted", Tail(todo)) ELSE Goes(c, Tail(todo)) /\ UNCHANGED cache
    /\ replaced' = replaced \cup {<<i, calls[c].made>>}
    /\ UNCHANGED <<index, history, created, purged>>

Archive(c, todo) ==
    LET i == Head(todo).of
        state == IF Head(todo).do = "archive" THEN "archived" ELSE "active"
    IN  /\ Head(todo).do \in {"archive", "restore"}
        /\ IF Allowed("edit") /\ i \in Stored THEN Sets(c, i, state, Tail(todo)) ELSE Throws(c) /\ UNCHANGED cache
        /\ UNCHANGED <<index, history, created, replaced, purged>>

\* store.purge(), asked for by somebody or by maintenance.
Purge(c, todo) ==
    LET i == Head(todo).of IN
    /\ Head(todo).do \in {"purge", "prune"}
    /\ IF i \in Stored
       THEN Puts(c, i, NoRecord, Tail(todo)) /\ purged' = purged \cup {i}
       ELSE /\ Goes(c, IF Head(todo).do = "prune" THEN Tail(todo) ELSE <<>>)
            /\ UNCHANGED <<cache, purged>>
    /\ UNCHANGED <<index, history, created, replaced>>

Index(c, todo) ==
    /\ Head(todo).do \in {"index", "forget"}
    /\ index' = Rebuilt
    /\ history' = IF Head(todo).do = "forget" THEN [history EXCEPT ![Head(todo).of] = {}] ELSE history
    /\ Goes(c, Tail(todo))
    /\ UNCHANGED <<cache, created, replaced, purged>>

\* findOverflow(): some of those beyond the cap; pinned ones never are.
Survey(c, todo) ==
    /\ Head(todo).do = "survey"
    /\ \E over \in SUBSET Active :
          /\ over # {} => Cardinality(over) <= Cardinality(Active) - MaxItems
          /\ LET next == Each("prune", over) \o Tail(todo) IN Purge(c, next) \/ Index(c, next)

\* importMemories() and restore(): every record of the bundle, as it was.
Load(c, todo) ==
    /\ Head(todo).do = "load"
    /\ Puts(c, Head(todo).of, Head(todo).rec, Tail(todo))
    /\ UNCHANGED <<index, history, created, replaced, purged>>

Performs(c, todo) ==
    /\ \/ Create(c, todo) \/ Ask(c, todo) \/ Attach(c, todo) \/ Update(c, todo) \/ Delete(c, todo)
       \/ Replace(c, todo) \/ Archive(c, todo) \/ Purge(c, todo) \/ Index(c, todo) \/ Survey(c, todo)
       \/ Load(c, todo)
    /\ UNCHANGED <<bundle, enabled, grants>>

-----------------------------------------------------------------------------
\* The operations.  A call's first step is part of the call.

Begins(c, todo) ==
    /\ calls[c] = Idle /\ counts.calls < MaxCalls
    /\ Performs(c, todo)
    /\ counts' = [counts EXCEPT !.calls = @ + 1]
    /\ UNCHANGED disk

Embedding == IF EmbeddingService THEN <<Do("ask"), Do("attach")>> ELSE <<>>
Creation == <<Do("create")>> \o Embedding \o <<Do("index")>>

CreateMemory(c) == Begins(c, Creation)

\* New content is embedded again; the rest (pinning, say) is only saved.
UpdateMemory(c, i) ==
    /\ Allowed("edit")
    /\ \E embedding \in {Embedding, <<>>} : Begins(c, <<To("update", i)>> \o embedding \o <<Do("index")>>)

TagMemory(c, i) == i \in Active /\ Allowed("edit") /\ Begins(c, <<To("update", i), Do("index")>>)
DeleteMemory(c, i) == Begins(c, <<To("delete", i), Do("index")>>)
PurgeMemory(c, i) == Allowed("delete") /\ Begins(c, <<To("purge", i), To("forget", i)>>)
ArchiveMemory(c, i) == Begins(c, <<To("archive", i), Do("index")>>)
RestoreMemory(c, i) == Begins(c, <<To("restore", i), Do("index")>>)

\* Defect: the originals are let go first.
LetsGoFirst(ids) == Each("replace", ids) \o Creation \o <<Do("index")>>

\* The originals are let go once what replaces them is saved.
Supersedes(ids) == Creation \o Each("replace", ids) \o <<Do("index")>>

MergeMemories(c, ids) == Allowed("edit") /\ ids # {} /\ ids \subseteq Active /\ Begins(c, Supersedes(ids))

SplitMemory(c, i) ==
    /\ Allowed("edit") /\ i \in Active
    /\ \E parts \in {Creation, Creation \o Creation} : Begins(c, parts \o <<To("archive", i), Do("index")>>)

\* Which records are old and unimportant enough, and which are alike, is left
\* open; of those that are alike one, the first, is not a duplicate.
Candidates(ids) == ids \subseteq Active /\ Cardinality(ids) >= MinGroup
Duplicates(ids) == ids \subseteq Active /\ ids \notin {{}, Active}

CompressOldMemories(c, ids) == Candidates(ids) /\ Begins(c, <<Do("ask")>> \o Supersedes(ids))

\* Each is deleted by a deleteMemory() of its own, which rebuilds the index.
DeletesEach(ids) ==
    [k \in 1..2 * Cardinality(ids) |->
        IF k % 2 = 1 THEN To("delete", SetToSeq(ids)[(k + 1) \div 2]) ELSE Do("index")]

ResolveDuplicates(c, ids) == Duplicates(ids) /\ Begins(c, DeletesEach(ids))

RunMaintenance(c, expired) ==
    expired \subseteq Active /\ Begins(c, Each("prune", expired) \o <<Do("survey"), Do("index")>>)

\* importMemories(), or restore() of a backup, which is decrypted first.
ImportMemories(c) ==
    LET kept == {i \in Ids : bundle[i] # NoRecord}
        loads == [k \in 1..Cardinality(kept) |->
                     [do |-> "load", of |-> SetToSeq(kept)[k], rec |-> bundle[SetToSeq(kept)[k]]]]
    IN  /\ Allowed("import") /\ kept # {}
        /\ \E first \in {<<>>, <<Do("ask")>>} : Begins(c, first \o loads \o <<Do("index")>>)

\* exportMemories() and backup(): no await before the records are taken.
ExportMemories(c) ==
    /\ calls[c] = Idle /\ counts.calls < MaxCalls /\ "export" \in grants
    /\ bundle' = [i \in Ids |-> IF i \in Active THEN cache[i] ELSE NoRecord]
    /\ counts' = [counts EXCEPT !.calls = @ + 1]
    /\ UNCHANGED <<cache, disk, index, history, enabled, grants, calls, created, replaced, purged>>

Calls(c) ==
    \/ CreateMemory(c) \/ ImportMemories(c) \/ ExportMemories(c)
    \/ \E i \in Ids : \/ UpdateMemory(c, i) \/ TagMemory(c, i) \/ DeleteMemory(c, i) \/ PurgeMemory(c, i)
                     \/ ArchiveMemory(c, i) \/ RestoreMemory(c, i) \/ SplitMemory(c, i)
    \/ \E ids \in SUBSET Active : \/ MergeMemories(c, ids) \/ CompressOldMemories(c, ids)
                                \/ ResolveDuplicates(c, ids) \/ RunMaintenance(c, ids)

\* What a call awaits has come: a write is on disk, and the next step is done.
Resumes(c) ==
    /\ calls[c] # Idle
    /\ disk' = IF calls[c].awaits.id = 0 THEN disk ELSE [disk EXCEPT ![calls[c].awaits.id] = calls[c].awaits.rec]
    /\ IF calls[c].todo # <<>> THEN Performs(c, calls[c].todo)
       ELSE /\ Throws(c)
            /\ UNCHANGED <<cache, index, history, bundle, enabled, grants, created, replaced, purged>>
    /\ UNCHANGED counts

\* The disk, or whoever was asked, fails: the call rejects where it stands.
Fails(c) ==
    /\ calls[c].awaits # Nothing
    /\ Throws(c)
    /\ UNCHANGED <<cache, disk, index, history, bundle, enabled, grants, created, replaced, purged, counts>>

\* enable(), disable(), requestGrant() and revoke().
ChangePermissions ==
    /\ counts.changes < MaxChanges /\ counts' = [counts EXCEPT !.changes = @ + 1]
    /\ \/ enabled' = ~enabled /\ UNCHANGED grants
       \/ \E op \in Operations : grants' \in {grants \cup {op}, grants \ {op}} /\ UNCHANGED enabled
    /\ UNCHANGED <<cache, disk, index, history, bundle, calls, created, replaced, purged>>

\* A new process hydrates its store; everything else begins anew.
Restart ==
    /\ counts.restarts < MaxRestarts /\ counts' = [counts EXCEPT !.restarts = @ + 1]
    /\ cache' = disk
    /\ index' = [i \in Ids |-> 0] /\ history' = [i \in Ids |-> {}]
    /\ enabled' = TRUE /\ grants' = Operations
    /\ calls' = [c \in Callers |-> Idle]
    /\ UNCHANGED <<disk, bundle, created, replaced, purged>>

MemoryNext == (\E c \in Callers : Calls(c) \/ Resumes(c) \/ Fails(c)) \/ ChangePermissions \/ Restart

MemorySpec == MemoryInit /\ [][MemoryNext]_memoryVars

-----------------------------------------------------------------------------
\* Merging, like rolling old memories up into a summary, never loses them:
\* what was put in the place of an original is on disk for good, whatever
\* fails, ends or runs in between, unless it was itself purged.
ReplacedMemoriesAreKept == \A x \in replaced : x[2] \in {i \in Ids : disk[i] # NoRecord} \cup purged

\* memory-store.ts:129, "Irreversibly removes a record": with no bundle to
\* bring it back, what was purged is never there again.
PurgedStaysGone == \A i \in purged : cache[i] = NoRecord \/ \E k \in Ids : bundle[k] # NoRecord

\* memory-index.ts, "never drift out of sync with the store": when no call is
\* in progress, the index is that of the records in the store.
IndexIsCurrent == (\A c \in Callers : calls[c] = Idle) => index = Rebuilt

\* The package's README, "disabled means every read/write is refused": while
\* memory is disabled, no call takes a first step.
DisabledDoesNothing ==
    [][counts'.calls > counts.calls => enabled \/ UNCHANGED <<cache, bundle, calls>>]_memoryVars
=============================================================================
