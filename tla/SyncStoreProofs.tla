--------------------------- MODULE SyncStoreProofs ---------------------------
(***************************************************************************)
(* What holds of the stores that sync memories for any devices, keys,      *)
(* values and times -- their types, that a snapshot may be taken again and *)
(* two of them in any order, and that any two devices agree on what an     *)
(* exchange between them gives -- and of the memory manager for any        *)
(* callers and records: what replaces a memory is on disk.                 *)
(***************************************************************************)
EXTENDS SyncStore, MemoryStore, FiniteSetTheorems, SequenceTheorems, TLAPS

-----------------------------------------------------------------------------
(* Merging. *)

LEMMA EntryTypes ==
  /\ NoEntry \notin Entry
  /\ \A x \in Entry : x.at \in Int /\ x.device \in Int /\ x.at >= 0 /\ x.device >= 0
<1>1. Devices \subseteq Nat /\ Times \subseteq Nat
  BY SyncAssumption
<1>2. \A x \in Entry : x.at \in Times /\ x.device \in Devices
  BY DEF Entry
<1>3. NoEntry.at = -1 /\ -1 \notin Nat
  BY DEF NoEntry
<1>4. NoEntry \notin Entry
  BY <1>1, <1>2, <1>3
<1>5. \A n \in Nat : n \in Int /\ n >= 0
  OBVIOUS
<1>6. \A x \in Entry : x.at \in Nat /\ x.device \in Nat
  BY <1>1, <1>2
<1> QED BY <1>4, <1>5, <1>6

LEMMA MergedType ==
  ASSUME NEW d \in Devices, NEW mine \in Stores, NEW theirs \in Stores
  PROVE  Merged(d, mine, theirs) \in Stores
BY DEF Merged, Stores

\* Two records are told apart by their time and device unless they are the same.
Distinct(a, b) ==
  \A k \in Keys : a[k] # NoEntry /\ b[k] # NoEntry /\ a[k].at = b[k].at /\ a[k].device = b[k].device
                  => a[k] = b[k]

\* A snapshot that arrives twice does no more than one that arrives once.
THEOREM MergesRepeatNothing ==
  ASSUME NEW d \in Devices, NEW mine \in Stores, NEW batch \in Stores
  PROVE  Merged(d, Merged(d, mine, batch), batch) = Merged(d, mine, batch)
<1>1. \A k \in Keys : batch[k] # NoEntry => batch[k].at \in Int /\ batch[k].device \in Int
  BY EntryTypes DEF Stores
<1>2. \A k \in Keys : batch[k] # NoEntry => ~IncomingWins(batch[k], batch[k])
  BY <1>1 DEF IncomingWins
<1>3. ASSUME NEW k \in Keys
      PROVE  Merged(d, Merged(d, mine, batch), batch)[k] = Merged(d, mine, batch)[k]
  BY <1>2 DEF Merged
<1> QED BY <1>3 DEF Merged

\* Two snapshots give the same in either order, as long as no two records in
\* play are tied: a late one does not undo a newer one.
THEOREM MergesCommute ==
  ASSUME NEW d \in Devices, NEW mine \in Stores, NEW a \in Stores, NEW b \in Stores,
         Distinct(mine, a), Distinct(mine, b), Distinct(a, b)
  PROVE  Merged(d, Merged(d, mine, a), b) = Merged(d, Merged(d, mine, b), a)
<1>1. ASSUME NEW k \in Keys
      PROVE  Merged(d, Merged(d, mine, a), b)[k] = Merged(d, Merged(d, mine, b), a)[k]
  <2>1. /\ mine[k] # NoEntry => mine[k].at \in Int /\ mine[k].device \in Int
        /\ a[k] # NoEntry => a[k].at \in Int /\ a[k].device \in Int
        /\ b[k] # NoEntry => b[k].at \in Int /\ b[k].device \in Int
    BY EntryTypes DEF Stores
  <2> DEFINE Takes(x, y) == IF y # NoEntry /\ k \notin Filtered[d] /\ IncomingWins(y, x) THEN y ELSE x
  <2>2. /\ Merged(d, Merged(d, mine, a), b)[k] = Takes(Takes(mine[k], a[k]), b[k])
        /\ Merged(d, Merged(d, mine, b), a)[k] = Takes(Takes(mine[k], b[k]), a[k])
    BY DEF Merged
  <2>3. Takes(Takes(mine[k], a[k]), b[k]) = Takes(Takes(mine[k], b[k]), a[k])
    BY <2>1 DEF IncomingWins, Distinct
  <2> QED BY <2>2, <2>3
<1> QED BY <1>1 DEF Merged

-----------------------------------------------------------------------------
(* The inductive invariant: every record there is was stamped by its device. *)

Known(store) == \A k \in Keys : store[k] # NoEntry => [key |-> k, entry |-> store[k]] \in stamped

AllKnown == (\A d \in Devices : Known(replica[d])) /\ (\A batch \in sent : Known(batch))

SyncInv == SyncTypeOK /\ AllKnown

LEMMA SyncInitially == SyncInit => SyncInv
BY SyncAssumption DEF SyncInit, SyncInv, SyncTypeOK, AllKnown, Known, Stores

LEMMA StagePreserves ==
  ASSUME SyncInv, NEW d \in Devices, NEW k \in Keys, NEW v \in Values, NEW t \in Times,
         StageLocalChange(d, k, v, t)
  PROVE  SyncInv'
<1> DEFINE entry == [value |-> v, at |-> t, device |-> d]
<1>1. entry \in Entry
  BY DEF Entry
<1>2. /\ stages' = stages + 1 /\ stages < MaxStages /\ sent' = sent
      /\ replica' = [replica EXCEPT ![d] = [@ EXCEPT ![k] = entry]]
      /\ stamped' = stamped \cup {[key |-> k, entry |-> entry]}
  BY DEF StageLocalChange
<1>3. SyncTypeOK'
  BY <1>1, <1>2, SyncAssumption DEF SyncInv, SyncTypeOK, Stores
<1>4. \A e \in Devices : Known(replica[e])'
  <2> SUFFICES ASSUME NEW e \in Devices, NEW l \in Keys, replica'[e][l] # NoEntry
               PROVE  [key |-> l, entry |-> replica'[e][l]] \in stamped'
    BY DEF Known
  <2>1. CASE e = d /\ l = k
    BY <1>2, <2>1 DEF SyncInv, SyncTypeOK, Stores
  <2>2. CASE ~(e = d /\ l = k)
    <3>1. replica'[e][l] = replica[e][l]
      BY <1>2, <2>2 DEF SyncInv, SyncTypeOK, Stores
    <3> QED BY <1>2, <3>1 DEF SyncInv, AllKnown, Known
  <2> QED BY <2>1, <2>2
<1>5. \A batch \in sent' : Known(batch)'
  BY <1>2 DEF SyncInv, AllKnown, Known
<1> QED BY <1>3, <1>4, <1>5 DEF SyncInv, AllKnown

LEMMA MergePreserves ==
  ASSUME SyncInv, NEW d \in Devices, NEW batch \in Stores, Known(batch), Merge(d, batch)
  PROVE  SyncInv'
<1>1. /\ replica' = [replica EXCEPT ![d] = Merged(d, replica[d], batch)]
      /\ sent' = sent /\ stamped' = stamped /\ stages' = stages
  BY DEF Merge
<1>2. replica[d] \in Stores
  BY DEF SyncInv, SyncTypeOK
<1>3. SyncTypeOK'
  BY <1>1, <1>2, MergedType DEF SyncInv, SyncTypeOK
<1>4. Known(Merged(d, replica[d], batch))
  BY <1>2 DEF Known, Merged, SyncInv, AllKnown
<1>5. \A e \in Devices : Known(replica[e])'
  BY <1>1, <1>4 DEF SyncInv, SyncTypeOK, AllKnown, Known
<1>6. \A x \in sent' : Known(x)'
  BY <1>1 DEF SyncInv, AllKnown, Known
<1> QED BY <1>3, <1>5, <1>6 DEF SyncInv, AllKnown

LEMMA SyncPreserved == SyncInv /\ [SyncNext]_syncVars => SyncInv'
<1> SUFFICES ASSUME SyncInv, [SyncNext]_syncVars
             PROVE  SyncInv'
  OBVIOUS
<1>1. ASSUME NEW d \in Devices, NEW k \in Keys, NEW v \in Values, NEW t \in Times,
             StageLocalChange(d, k, v, t)
      PROVE  SyncInv'
  BY <1>1, StagePreserves
<1>2. ASSUME NEW d \in Devices, HandsOver(d)
      PROVE  SyncInv'
  BY <1>2 DEF HandsOver, SyncInv, SyncTypeOK, AllKnown, Known
<1>3. ASSUME NEW d \in Devices, NEW batch \in sent, Merge(d, batch)
      PROVE  SyncInv'
  BY <1>3, MergePreserves DEF SyncInv, SyncTypeOK, AllKnown
<1>4. ASSUME NEW d \in Devices, NEW e \in Devices, Exchange(d, e)
      PROVE  SyncInv'
  BY <1>4, MergePreserves DEF Exchange, SyncInv, SyncTypeOK, AllKnown
<1>5. CASE UNCHANGED syncVars
  BY <1>5 DEF syncVars, SyncInv, SyncTypeOK, AllKnown, Known
<1> QED BY <1>1, <1>2, <1>3, <1>4, <1>5 DEF SyncNext

\* Every record a device keeps or has handed over was once set, as it is, by
\* the device it names: merging makes nothing up.
THEOREM RecordsWereSet == SyncSpec => []SyncInv
BY SyncInitially, SyncPreserved, PTL DEF SyncSpec

-----------------------------------------------------------------------------
(* What the devices come to. *)

LEMMA KnownAreDistinct ==
  ASSUME SyncInv, ~Tied, NEW d \in Devices, NEW e \in Devices
  PROVE  Distinct(replica[d], replica[e])
BY DEF SyncInv, AllKnown, Known, Tied, Distinct

LEMMA ExchangesMeet ==
  ASSUME SyncInv
  PROVE  ExchangesAgree
<1> SUFFICES ASSUME ~Tied, NEW d \in Devices, NEW e \in Devices, NEW k \in Shared(d, e)
             PROVE  Merged(d, replica[d], replica[e])[k] = Merged(e, replica[e], replica[d])[k]
  BY DEF ExchangesAgree
<1>1. k \in Keys /\ k \notin Filtered[d] /\ k \notin Filtered[e]
  BY DEF Shared
<1>2. replica[d] \in Stores /\ replica[e] \in Stores
  BY DEF SyncInv, SyncTypeOK
<1>3. /\ replica[d][k] # NoEntry => replica[d][k].at \in Int /\ replica[d][k].device \in Int
      /\ replica[e][k] # NoEntry => replica[e][k].at \in Int /\ replica[e][k].device \in Int
  BY <1>1, <1>2, EntryTypes DEF Stores
<1>4. Distinct(replica[d], replica[e])
  BY KnownAreDistinct
<1>5. replica[d][k] # NoEntry /\ replica[e][k] # NoEntry
        /\ replica[d][k].at = replica[e][k].at /\ replica[d][k].device = replica[e][k].device
        => replica[d][k] = replica[e][k]
  BY <1>1, <1>4 DEF Distinct
<1> QED BY <1>1, <1>3, <1>5 DEF Merged, IncomingWins

\* For any devices, filters and mixture of changes and snapshots: if no device
\* sets a key twice in one millisecond, it makes no difference which of two
\* devices takes what the other has.
THEOREM ExchangesAlwaysAgree == SyncSpec => []ExchangesAgree
BY RecordsWereSet, ExchangesMeet, PTL


-----------------------------------------------------------------------------
(* What replaces a memory is on disk. *)

Records == [state : {"none", "active", "archived", "deleted"}, version : Nat, embedded : BOOLEAN]

\* A step of a call: some are for one record.
Creating == {"create", "ask", "attach", "index"}
Ones == {"update", "delete", "replace", "archive", "restore", "purge", "prune", "forget"}
Steps ==
  [do : Creating \cup {"survey"}, of : {0}] \cup [do : Ones, of : Ids]
  \cup [do : {"load"}, of : Ids, rec : Records \ {NoRecord}]

CallType == [todo : Seq(Steps), made : Ids \cup {0}, held : Records, awaits : [id : Ids \cup {0}, rec : Records]]

MemoryType ==
  /\ cache \in [Ids -> Records] /\ disk \in [Ids -> Records] /\ bundle \in [Ids -> Records]
  /\ calls \in [Callers -> CallType]
  /\ created \in Nat

\* What is still to be done replaces nothing (and does not end with a deletion
\* or a survey); or it does, and nothing else but create what replaces them:
\* and that was done, or is to be done first.
Plain(s) == \A n \in 1..Len(s) : s[n].do # "replace" /\ (s[n].do \in {"delete", "survey"} => n < Len(s))
Superseding(s) == \A n \in 1..Len(s) : s[n].do \in Creating \cup {"replace"}
CreatesFirst(s) == \A n \in 1..Len(s) : s[n].do = "replace" => \E m \in 1..(n - 1) : s[m].do = "create"
Plan(s, created_) == Plain(s) \/ (Superseding(s) /\ (created_ \/ CreatesFirst(s)))

\* What a call created is on disk, unless it was purged, or is about to be.
OnDisk(i, d, p) == i \in Ids /\ (d[i] # NoRecord \/ i \in p)
Saves(call, d, p) ==
  OnDisk(call.made, d, p) \/ (call.made \in Ids /\ call.awaits.id = call.made /\ call.awaits.rec # NoRecord)

\* Only a purge takes a record off the disk.
Sound(call, d, p) ==
  /\ call.awaits.rec = NoRecord => call.awaits.id = 0 \/ call.awaits.id \in p
  /\ Plan(call.todo, Saves(call, d, p))

\* ReplacedMemoriesAreKept says nothing of a call between two of its awaits:
\* with other calls about, what it is going to replace must be looked at too.
MemoryInv ==
  /\ MemoryType
  /\ ReplacedMemoriesAreKept
  /\ \A c \in Callers : Sound(calls[c], disk, purged)

-----------------------------------------------------------------------------
(* What calls have to do. *)

LEMMA RecordTypes ==
  /\ New \in Records /\ NoRecord \in Records /\ New # NoRecord
  /\ \A r \in Records : r.state # "none" => r # NoRecord
BY DEF New, NoRecord, Record, Records

LEMMA IdTypes ==
  /\ Ids \subseteq Nat \ {0}
  /\ \A ids \in SUBSET Ids : IsFiniteSet(ids)
<1>1. MaxIds \in Nat
  BY MemoryAssumption
<1>2. Ids \subseteq Nat \ {0} /\ IsFiniteSet(Ids)
  BY <1>1, FS_Interval DEF Ids
<1> QED
  BY <1>2, FS_Subset

\* A list of a set of records has each of them.
LEMMA Listed ==
  ASSUME NEW ids \in SUBSET Ids
  PROVE  /\ Cardinality(ids) \in Nat
         /\ \A n \in 1..Cardinality(ids) : SetToSeq(ids)[n] \in ids
<1>1. Cardinality(ids) \in Nat /\ ExistsBijection(1..Cardinality(ids), ids)
  BY IdTypes, FS_CardinalityType
<1>2. \E f \in [1..Cardinality(ids) -> ids] : IsInjective(f)
  BY <1>1 DEF ExistsBijection, Bijection, Injection
<1>3. SetToSeq(ids) \in [1..Cardinality(ids) -> ids]
  BY <1>2 DEF SetToSeq
<1> QED
  BY <1>1, <1>3

LEMMA StepTypes ==
  /\ \A w \in Creating \cup {"survey"} : Do(w) \in Steps /\ Do(w).do = w
  /\ \A w \in Ones, i \in Ids : To(w, i) \in Steps /\ To(w, i).do = w
  /\ \A s \in Steps : s.do = "load" => s.of \in Ids /\ s.rec \in Records /\ s.rec # NoRecord
  /\ \A s \in Steps : s.do \in Ones => s.of \in Ids
BY DEF Do, To, Steps, Ones, Creating

\* The same thing is done to each of a set of records.
LEMMA EachOf ==
  ASSUME NEW w \in Ones, NEW ids \in SUBSET Ids
  PROVE  /\ Each(w, ids) \in Seq(Steps) /\ Len(Each(w, ids)) = Cardinality(ids)
         /\ \A n \in 1..Len(Each(w, ids)) : Each(w, ids)[n].do = w
<1>1. Cardinality(ids) \in Nat /\ \A n \in 1..Cardinality(ids) : SetToSeq(ids)[n] \in Ids
  BY Listed
<1>2. \A n \in 1..Cardinality(ids) : To(w, SetToSeq(ids)[n]) \in Steps /\ To(w, SetToSeq(ids)[n]).do = w
  BY <1>1, StepTypes
<1> QED
  BY <1>1, <1>2 DEF Each

\* One thing.
LEMMA OneOf ==
  ASSUME NEW s \in Steps
  PROVE  <<s>> \in Seq(Steps) /\ Len(<<s>>) = 1 /\ <<s>>[1] = s
OBVIOUS

\* One list of things after another.
LEMMA PlainAfterPlain ==
  ASSUME NEW s \in Seq(Steps), NEW t \in Seq(Steps), Plain(s), Plain(t)
  PROVE  s \o t \in Seq(Steps) /\ Plain(s \o t)
BY DEF Plain

LEMMA SomethingAfter ==
  ASSUME NEW s \in Seq(Steps), NEW t \in Seq(Steps), Len(t) # 0
  PROVE  s \o t # <<>>
<1>1. Len(s \o t) = Len(s) + Len(t) /\ Len(s) \in Nat /\ Len(t) \in Nat
  OBVIOUS
<1>2. Len(s \o t) # 0 /\ Len(<<>>) = 0
  BY <1>1
<1> QED
  BY <1>2

LEMMA SupersedingAfterSuperseding ==
  ASSUME NEW s \in Seq(Steps), NEW t \in Seq(Steps), Superseding(s), Superseding(t)
  PROVE  s \o t \in Seq(Steps) /\ Superseding(s \o t)
BY DEF Superseding

\* Whatever comes after a creation.
LEMMA AfterCreation ==
  ASSUME NEW s \in Seq(Steps), NEW t \in Seq(Steps), Plain(s),
         NEW m \in 1..Len(s), s[m].do = "create"
  PROVE  CreatesFirst(s \o t)
<1>1. \A n \in 1..(Len(s) + Len(t)) : (s \o t)[n] = IF n <= Len(s) THEN s[n] ELSE t[n - Len(s)]
  OBVIOUS
<1>2. Len(s \o t) = Len(s) + Len(t) /\ Len(s) \in Nat /\ Len(t) \in Nat
  OBVIOUS
<1>3. ASSUME NEW n \in 1..Len(s \o t), (s \o t)[n].do = "replace"
      PROVE  m \in 1..(n - 1) /\ (s \o t)[m].do = "create"
  <2>1. n > Len(s)
    BY <1>1, <1>2, <1>3 DEF Plain
  <2> QED
    BY <1>1, <1>2, <2>1
<1> QED
  BY <1>3 DEF CreatesFirst

LEMMA ThingsOf ==
  /\ Embedding \in Seq(Steps) /\ Plain(Embedding) /\ Superseding(Embedding)
  /\ <<Do("survey"), Do("index")>> \in Seq(Steps) /\ Plain(<<Do("survey"), Do("index")>>)
  /\ \A w \in Creating : <<Do(w)>> \in Seq(Steps) /\ Plain(<<Do(w)>>) /\ Superseding(<<Do(w)>>)
  /\ \A w \in Ones \ {"replace", "delete"}, i \in Ids : <<To(w, i)>> \in Seq(Steps) /\ Plain(<<To(w, i)>>)
<1>1. \A w \in Creating : <<Do(w)>> \in Seq(Steps) /\ Plain(<<Do(w)>>) /\ Superseding(<<Do(w)>>)
  BY StepTypes DEF Plain, Superseding, Creating
<1>2. <<Do("ask"), Do("attach")>> \in Seq(Steps) /\ <<Do("survey"), Do("index")>> \in Seq(Steps)
  BY StepTypes DEF Creating
<1>3. Plain(<<Do("ask"), Do("attach")>>) /\ Superseding(<<Do("ask"), Do("attach")>>)
      /\ Plain(<<Do("survey"), Do("index")>>)
  BY StepTypes DEF Plain, Superseding, Creating
<1>4. <<>> \in Seq(Steps) /\ Plain(<<>>) /\ Superseding(<<>>)
  BY DEF Plain, Superseding
<1>5. Embedding \in Seq(Steps) /\ Plain(Embedding) /\ Superseding(Embedding)
  BY <1>2, <1>3, <1>4 DEF Embedding
<1>6. \A w \in Ones \ {"replace", "delete"}, i \in Ids : <<To(w, i)>> \in Seq(Steps) /\ Plain(<<To(w, i)>>)
  BY StepTypes DEF Plain, Ones
<1> QED
  BY <1>1, <1>2, <1>3, <1>5, <1>6

LEMMA CreationCreates ==
  /\ Creation \in Seq(Steps) /\ Plain(Creation) /\ Superseding(Creation)
  /\ 1 \in 1..Len(Creation) /\ Creation[1].do = "create"
<1>1. <<Do("create")>> \o Embedding \in Seq(Steps) /\ Plain(<<Do("create")>> \o Embedding)
      /\ Superseding(<<Do("create")>> \o Embedding)
  BY ThingsOf, PlainAfterPlain, SupersedingAfterSuperseding DEF Creating
<1>2. Creation \in Seq(Steps) /\ Plain(Creation) /\ Superseding(Creation)
  BY <1>1, ThingsOf, PlainAfterPlain, SupersedingAfterSuperseding DEF Creation, Creating
<1>3. \A s, t \in Seq(Steps) : LET u == <<Do("create")>> \o s \o t IN
         1 \in 1..Len(u) /\ u[1] = Do("create")
  BY StepTypes DEF Creating
<1>4. 1 \in 1..Len(Creation) /\ Creation[1] = Do("create")
  BY <1>3, ThingsOf DEF Creation
<1> QED
  BY <1>2, <1>4, StepTypes DEF Creating

\* What supersedes others is created before any of them goes.
LEMMA SupersedesCreatesFirst ==
  ASSUME NEW ids \in SUBSET Ids
  PROVE  /\ Supersedes(ids) \in Seq(Steps) /\ Superseding(Supersedes(ids)) /\ CreatesFirst(Supersedes(ids))
         /\ LET s == <<Do("ask")>> \o Supersedes(ids) IN s \in Seq(Steps) /\ Superseding(s) /\ CreatesFirst(s)
<1> DEFINE r == Each("replace", ids)
           t == r \o <<Do("index")>>
           a == <<Do("ask")>> \o Creation
<1>1. r \in Seq(Steps) /\ Superseding(r)
  BY EachOf DEF Ones, Superseding
<1>2. <<Do("index")>> \in Seq(Steps) /\ Superseding(<<Do("index")>>)
  BY ThingsOf DEF Creating
<1>3. <<Do("ask")>> \in Seq(Steps) /\ Superseding(<<Do("ask")>>) /\ Plain(<<Do("ask")>>)
  BY ThingsOf DEF Creating
<1> HIDE DEF r
<1>4. t \in Seq(Steps) /\ Superseding(t)
  BY <1>1, <1>2, SupersedingAfterSuperseding
<1>5. Supersedes(ids) = Creation \o t
  BY <1>1, <1>2, CreationCreates, ConcatAssociative DEF Supersedes, r
<1> HIDE DEF t
<1>6. /\ Supersedes(ids) \in Seq(Steps) /\ Superseding(Supersedes(ids))
      /\ CreatesFirst(Supersedes(ids))
  BY <1>4, <1>5, CreationCreates, SupersedingAfterSuperseding, AfterCreation
<1>7. a \in Seq(Steps) /\ Plain(a) /\ Superseding(a)
  BY <1>3, CreationCreates, PlainAfterPlain, SupersedingAfterSuperseding
<1>8. 2 \in 1..Len(a) /\ a[2].do = "create"
  <2>1. \A s \in Seq(Steps) : 1 \in 1..Len(s) =>
          2 \in 1..Len(<<Do("ask")>> \o s) /\ (<<Do("ask")>> \o s)[2] = s[1]
    BY StepTypes DEF Creating
  <2> QED
    BY <2>1, CreationCreates
<1>9. <<Do("ask")>> \o Supersedes(ids) = a \o t
  BY <1>3, <1>4, <1>5, CreationCreates, ConcatAssociative
<1> HIDE DEF a
<1>10. a \o t \in Seq(Steps) /\ Superseding(a \o t) /\ CreatesFirst(a \o t)
  BY <1>4, <1>7, <1>8, SupersedingAfterSuperseding, AfterCreation
<1> QED
  BY <1>6, <1>9, <1>10

\* The rest of a list.
LEMMA RestOf ==
  ASSUME NEW s \in Seq(Steps), s # <<>>
  PROVE  /\ Head(s) \in Steps /\ Head(s) = s[1] /\ Tail(s) \in Seq(Steps)
         /\ Len(Tail(s)) = Len(s) - 1 /\ Len(s) \in Nat \ {0}
         /\ \A n \in 1..(Len(s) - 1) : Tail(s)[n] = s[n + 1]
OBVIOUS

LEMMA PlainRest ==
  ASSUME NEW s \in Seq(Steps), s # <<>>, Plain(s)
  PROVE  Plain(Tail(s))
BY RestOf DEF Plain

LEMMA PlainUnlessSuperseding ==
  ASSUME NEW s \in Seq(Steps), s # <<>>, NEW x \in BOOLEAN, Plan(s, x),
         Head(s).do \notin Creating \cup {"replace"}
  PROVE  Plain(s)
BY RestOf DEF Plan, Superseding

LEMMA RestOfPlan ==
  ASSUME NEW s \in Seq(Steps), s # <<>>, NEW x \in BOOLEAN, Plan(s, x),
         NEW y \in BOOLEAN, x => y, y \/ Head(s).do # "create"
  PROVE  Plan(Tail(s), y)
<1>1. CASE Plain(s)
  BY <1>1, PlainRest DEF Plan
<1>2. CASE Superseding(s) /\ x
  BY <1>2, RestOf DEF Plan, Superseding
<1>3. CASE Superseding(s) /\ CreatesFirst(s)
  <2>1. Superseding(Tail(s))
    BY <1>3, RestOf DEF Superseding
  <2>2. CASE y
    BY <2>1, <2>2 DEF Plan
  <2>3. CASE Head(s).do # "create"
    <3>1. ASSUME NEW n \in 1..Len(Tail(s)), Tail(s)[n].do = "replace"
          PROVE  \E m \in 1..(n - 1) : Tail(s)[m].do = "create"
      <4>1. n + 1 \in 1..Len(s) /\ s[n + 1].do = "replace"
        BY <3>1, RestOf
      <4>2. PICK m \in 1..n : s[m].do = "create"
        BY <4>1, <1>3 DEF CreatesFirst
      <4>3. m # 1
        BY <4>2, <2>3, RestOf
      <4>4. m - 1 \in 1..(n - 1) /\ m - 1 \in 1..(Len(s) - 1) /\ (m - 1) + 1 = m
        BY <4>1, <4>3
      <4>5. Tail(s)[m - 1].do = "create"
        BY <4>2, <4>4, RestOf
      <4> QED
        BY <4>4, <4>5
    <3> QED
      BY <2>1, <3>1 DEF Plan, CreatesFirst
  <2> QED
    BY <2>2, <2>3
<1> QED
  BY <1>1, <1>2, <1>3 DEF Plan

\* What is replaced has been replaced by something on disk.
LEMMA ReplacedByCreated ==
  ASSUME NEW s \in Seq(Steps), s # <<>>, NEW x \in BOOLEAN, Plan(s, x), Head(s).do = "replace"
  PROVE  x
BY RestOf DEF Plan, Plain, CreatesFirst

-----------------------------------------------------------------------------
(* A step of a call. *)

\* The disk loses only what was purged.
DiskGoes ==
  /\ disk' \in [Ids -> Records]
  /\ \A i \in Ids : disk'[i] = NoRecord => disk[i] = NoRecord \/ i \in purged

\* A caller does the first of what there is to do.
Ready(c, todo) ==
  /\ MemoryInv /\ DiskGoes /\ c \in Callers
  /\ todo \in Seq(Steps) /\ todo # <<>>
  /\ Plan(todo, OnDisk(calls[c].made, disk', purged))

\* What it leaves to be done.
CallStands(c) == \E k \in CallType : calls' = [calls EXCEPT ![c] = k] /\ Sound(k, disk', purged')

LEMMA IdleIsSound ==
  /\ Idle \in CallType /\ Idle.todo = <<>> /\ Idle.awaits = Nothing
  /\ \A d, p : Sound(Idle, d, p)
<1>1. Nothing.id = 0 /\ Nothing.rec = NoRecord /\ Nothing \in [id : Ids \cup {0}, rec : Records]
  BY RecordTypes DEF Nothing, Write
<1>2. Idle.todo = <<>> /\ Idle.awaits = Nothing
  BY DEF Idle
<1>3. Idle \in CallType
  BY <1>1, RecordTypes DEF Idle, CallType
<1>4. \A x : Plan(<<>>, x)
  BY DEF Plan, Plain
<1> QED
  BY <1>1, <1>2, <1>3, <1>4 DEF Sound

LEMMA DiskKeeps ==
  ASSUME DiskGoes, purged \subseteq purged', NEW i
  PROVE  OnDisk(i, disk, purged) => OnDisk(i, disk', purged')
BY DEF DiskGoes, OnDisk

LEMMA OthersAreSound ==
  ASSUME NEW k, Sound(k, disk, purged), DiskGoes, purged \subseteq purged'
  PROVE  Sound(k, disk', purged')
<1>1. Saves(k, disk, purged) => Saves(k, disk', purged')
  BY DiskKeeps DEF Saves
<1> QED
  BY <1>1 DEF Sound, Plan

LEMMA CallMoves ==
  ASSUME MemoryInv, DiskGoes, NEW c \in Callers, CallStands(c), purged \subseteq purged',
         cache' \in [Ids -> Records], bundle' \in [Ids -> Records], created' \in Nat,
         \A x \in replaced' : x \in replaced \/ OnDisk(x[2], disk', purged')
  PROVE  MemoryInv'
<1>0. MemoryType /\ \A b \in Callers : Sound(calls[b], disk, purged)
  BY DEF MemoryInv
<1>1. PICK k \in CallType : calls' = [calls EXCEPT ![c] = k] /\ Sound(k, disk', purged')
  BY DEF CallStands
<1>2. calls \in [Callers -> CallType]
  BY <1>0 DEF MemoryType
<1>3. calls' \in [Callers -> CallType] /\ calls'[c] = k /\ \A b \in Callers \ {c} : calls'[b] = calls[b]
  BY <1>1, <1>2
<1>4. MemoryType'
  BY <1>3 DEF MemoryType, DiskGoes
<1>5. ASSUME NEW b \in Callers
      PROVE  Sound(calls'[b], disk', purged')
  BY <1>0, <1>1, <1>3, OthersAreSound
<1>6. ASSUME NEW x \in replaced'
      PROVE  x[2] \in {i \in Ids : disk'[i] # NoRecord} \cup purged'
  <2>1. CASE x \in replaced
    BY <2>1 DEF MemoryInv, ReplacedMemoriesAreKept, DiskGoes
  <2>2. CASE OnDisk(x[2], disk', purged')
    BY <2>2 DEF OnDisk
  <2> QED
    BY <1>6, <2>1, <2>2
<1>7. ReplacedMemoriesAreKept'
  BY <1>6 DEF ReplacedMemoriesAreKept
<1> QED
  BY <1>4, <1>5, <1>7 DEF MemoryInv

\* What a call is left with.
Asking(k, t, w) == [k EXCEPT !.todo = t, !.awaits = w]
Putting(k, t, r, w) == [k EXCEPT !.todo = t, !.held = r, !.awaits = w]
Making(t, i, r, w) == [todo |-> t, made |-> i, held |-> r, awaits |-> w]

Writes == [id : Ids \cup {0}, rec : Records]

LEMMA AskingCall ==
  ASSUME NEW k \in CallType, NEW t \in Seq(Steps), NEW w \in Writes
  PROVE  /\ Asking(k, t, w) \in CallType /\ Asking(k, t, w).todo = t
         /\ Asking(k, t, w).made = k.made /\ Asking(k, t, w).awaits = w
BY DEF CallType, Asking, Writes

LEMMA PuttingCall ==
  ASSUME NEW k \in CallType, NEW t \in Seq(Steps), NEW r \in Records, NEW w \in Writes
  PROVE  /\ Putting(k, t, r, w) \in CallType /\ Putting(k, t, r, w).todo = t
         /\ Putting(k, t, r, w).made = k.made /\ Putting(k, t, r, w).awaits = w
BY DEF CallType, Putting, Writes

LEMMA MakingCall ==
  ASSUME NEW t \in Seq(Steps), NEW i \in Ids, NEW r \in Records, NEW w \in Writes
  PROVE  /\ Making(t, i, r, w) \in CallType /\ Making(t, i, r, w).todo = t
         /\ Making(t, i, r, w).made = i /\ Making(t, i, r, w).awaits = w
BY DEF CallType, Making, Writes

LEMMA WriteHas ==
  /\ \A i, r : Write(i, r).id = i /\ Write(i, r).rec = r
  /\ \A i \in Ids \cup {0}, r \in Records : Write(i, r) \in Writes
BY DEF Write, Writes

LEMMA NothingIsAwaited ==
  /\ Nothing \in Writes /\ Nothing = Write(0, NoRecord)
  /\ Answer \in Writes /\ Answer = Write(0, New)
BY WriteHas, RecordTypes DEF Nothing, Answer

\* A call goes on to what it awaits next.
LEMMA Awaits ==
  ASSUME NEW c \in Callers, NEW k \in CallType, calls' = [calls EXCEPT ![c] = k],
         NEW i \in Ids \cup {0}, NEW r \in Records, k.awaits = Write(i, r),
         r = NoRecord => i = 0 \/ i \in purged',
         Plan(k.todo, OnDisk(k.made, disk', purged'))
  PROVE  CallStands(c)
<1>1. k.awaits.id = i /\ k.awaits.rec = r
  BY WriteHas
<1>2. OnDisk(k.made, disk', purged') => Saves(k, disk', purged')
  BY DEF Saves
<1>3. Plan(k.todo, Saves(k, disk', purged'))
  BY <1>2 DEF Plan
<1> QED
  BY <1>1, <1>3 DEF Sound, CallStands

\* A call goes on, and what it awaits is that what it created is saved.
LEMMA AwaitsItsOwn ==
  ASSUME NEW c \in Callers, NEW k \in CallType, calls' = [calls EXCEPT ![c] = k],
         NEW i \in Ids, NEW r \in Records \ {NoRecord}, k.awaits = Write(i, r),
         k.made = i, Plan(k.todo, TRUE)
  PROVE  CallStands(c)
<1>1. k.awaits.id = i /\ k.awaits.rec = r
  BY WriteHas
<1>2. Saves(k, disk', purged')
  BY <1>1 DEF Saves
<1>3. Plan(k.todo, Saves(k, disk', purged'))
  BY <1>2 DEF Plan
<1> QED
  BY <1>1, <1>3 DEF Sound, CallStands

LEMMA StepStops ==
  ASSUME MemoryType, NEW c \in Callers, Throws(c)
  PROVE  CallStands(c)
BY IdleIsSound DEF Throws, CallStands

LEMMA StepGoes ==
  ASSUME MemoryType, NEW c \in Callers, NEW t \in Seq(Steps), Goes(c, t),
         Plan(t, OnDisk(calls[c].made, disk', purged'))
  PROVE  CallStands(c)
<1>1. CASE t = <<>>
  BY <1>1, IdleIsSound DEF Goes, CallStands
<1>2. CASE t # <<>>
  <2> DEFINE k == Asking(calls[c], t, Nothing)
  <2>1. calls[c] \in CallType /\ Nothing \in Writes
    BY NothingIsAwaited DEF MemoryType
  <2>2. k \in CallType /\ k.todo = t /\ k.made = calls[c].made /\ k.awaits = Write(0, NoRecord)
    BY <2>1, AskingCall, NothingIsAwaited
  <2>3. calls' = [calls EXCEPT ![c] = k]
    BY <1>2 DEF Goes, Asking
  <2> HIDE DEF k
  <2>4. Plan(k.todo, OnDisk(k.made, disk', purged'))
    BY <2>2
  <2> QED
    BY <2>2, <2>3, <2>4, Awaits, RecordTypes
<1> QED
  BY <1>1, <1>2

LEMMA StepPuts ==
  ASSUME MemoryType, NEW c \in Callers, NEW t \in Seq(Steps), NEW i \in Ids \cup {0}, NEW r \in Records,
         Puts(c, i, r, t), r = NoRecord => i = 0 \/ i \in purged',
         Plan(t, OnDisk(calls[c].made, disk', purged'))
  PROVE  CallStands(c) /\ cache' \in [Ids -> Records]
<1> DEFINE k == Putting(calls[c], t, r, Write(i, r))
<1>1. calls[c] \in CallType /\ cache \in [Ids -> Records] /\ Write(i, r) \in Writes
  BY WriteHas DEF MemoryType
<1>2. k \in CallType /\ k.todo = t /\ k.made = calls[c].made /\ k.awaits = Write(i, r)
  BY <1>1, PuttingCall
<1>3. calls' = [calls EXCEPT ![c] = k] /\ cache' = [cache EXCEPT ![i] = r]
  BY DEF Puts, Putting
<1> HIDE DEF k
<1>4. Plan(k.todo, OnDisk(k.made, disk', purged'))
  BY <1>2
<1>5. CallStands(c)
  BY <1>2, <1>3, <1>4, Awaits
<1> QED
  BY <1>1, <1>3, <1>5

LEMMA StepAsks ==
  ASSUME MemoryType, NEW c \in Callers, NEW t \in Seq(Steps),
         calls' = [calls EXCEPT ![c] = Asking(calls[c], t, Answer)],
         Plan(t, OnDisk(calls[c].made, disk', purged'))
  PROVE  CallStands(c)
<1> DEFINE k == Asking(calls[c], t, Answer)
<1>1. calls[c] \in CallType /\ Answer \in Writes
  BY NothingIsAwaited DEF MemoryType
<1>2. k \in CallType /\ k.todo = t /\ k.made = calls[c].made /\ k.awaits = Write(0, New)
  BY <1>1, AskingCall, NothingIsAwaited
<1>3. calls' = [calls EXCEPT ![c] = k]
  OBVIOUS
<1> HIDE DEF k
<1>4. Plan(k.todo, OnDisk(k.made, disk', purged'))
  BY <1>2
<1> QED
  BY <1>2, <1>3, <1>4, Awaits, RecordTypes

LEMMA StepMakes ==
  ASSUME MemoryType, NEW c \in Callers, NEW t \in Seq(Steps), NEW i \in Ids, NEW r \in Records, r # NoRecord,
         calls' = [calls EXCEPT ![c] = Making(t, i, r, Write(i, r))],
         cache' = [cache EXCEPT ![i] = r], Plan(t, TRUE)
  PROVE  CallStands(c) /\ cache' \in [Ids -> Records]
<1> DEFINE k == Making(t, i, r, Write(i, r))
<1>1. cache \in [Ids -> Records] /\ Write(i, r) \in Writes
  BY WriteHas DEF MemoryType
<1>2. k \in CallType /\ k.todo = t /\ k.made = i /\ k.awaits = Write(i, r)
  BY <1>1, MakingCall
<1>3. calls' = [calls EXCEPT ![c] = k]
  OBVIOUS
<1> HIDE DEF k
<1>4. Plan(k.todo, TRUE)
  BY <1>2
<1>5. CallStands(c)
  BY <1>2, <1>3, <1>4, AwaitsItsOwn
<1> QED
  BY <1>1, <1>5

-----------------------------------------------------------------------------
(* Every step of a call. *)

LEMMA ReadyHas ==
  ASSUME NEW c, NEW todo, Ready(c, todo)
  PROVE  /\ MemoryInv /\ MemoryType /\ c \in Callers /\ calls[c] \in CallType
         /\ todo \in Seq(Steps) /\ todo # <<>> /\ Head(todo) \in Steps
         /\ Tail(todo) \in Seq(Steps) /\ calls[c].made \in Ids \cup {0} /\ calls[c].held \in Records
BY RestOf DEF Ready, MemoryInv, MemoryType, CallType

LEMMA ReadyRest ==
  ASSUME NEW c, NEW todo, Ready(c, todo), purged \subseteq purged', Head(todo).do # "create"
  PROVE  Plan(Tail(todo), OnDisk(calls[c].made, disk', purged'))
<1> DEFINE x == OnDisk(calls[c].made, disk', purged)
           y == OnDisk(calls[c].made, disk', purged')
<1>1. x \in BOOLEAN /\ y \in BOOLEAN /\ (x => y)
  BY DEF OnDisk
<1>2. todo \in Seq(Steps) /\ todo # <<>> /\ Plan(todo, x)
  BY DEF Ready
<1> HIDE DEF x, y
<1>3. Plan(Tail(todo), y)
  BY <1>1, <1>2, RestOfPlan
<1> QED
  BY <1>3 DEF y

LEMMA PlainIsPlan ==
  ASSUME NEW s, Plain(s)
  PROVE  \A x : Plan(s, x)
BY DEF Plan

LEMMA ReadyPlain ==
  ASSUME NEW c, NEW todo, Ready(c, todo), Head(todo).do \notin Creating \cup {"replace"}
  PROVE  Plain(todo) /\ Plain(Tail(todo))
<1> DEFINE x == OnDisk(calls[c].made, disk', purged)
<1>1. x \in BOOLEAN
  BY DEF OnDisk
<1>2. todo \in Seq(Steps) /\ todo # <<>> /\ Plan(todo, x)
  BY DEF Ready
<1> HIDE DEF x
<1> QED
  BY <1>1, <1>2, PlainUnlessSuperseding, PlainRest

LEMMA StepKeeps ==
  ASSUME NEW c, NEW todo, Ready(c, todo), CallStands(c), purged \subseteq purged',
         cache' \in [Ids -> Records], UNCHANGED bundle, created' \in Nat,
         \A x \in replaced' : x \in replaced \/ OnDisk(x[2], disk', purged')
  PROVE  MemoryInv'
<1>1. MemoryInv /\ DiskGoes /\ c \in Callers /\ bundle' \in [Ids -> Records]
  BY DEF Ready, MemoryInv, MemoryType
<1> QED
  BY <1>1, CallMoves

\* Most steps put no record in the place of another.
LEMMA StepKeepsAll ==
  ASSUME NEW c, NEW todo, Ready(c, todo), CallStands(c), purged \subseteq purged',
         cache' \in [Ids -> Records], UNCHANGED <<bundle, created, replaced>>
  PROVE  MemoryInv'
<1>1. created' \in Nat
  BY DEF Ready, MemoryInv, MemoryType
<1> QED
  BY <1>1, StepKeeps

LEMMA CacheStays ==
  ASSUME MemoryType, UNCHANGED cache
  PROVE  cache' \in [Ids -> Records]
BY DEF MemoryType

\* A record gets another state.
LEMMA StateIsSet ==
  ASSUME MemoryType, NEW i \in Stored, NEW state \in {"active", "archived", "deleted"}
  PROVE  i \in Ids /\ [cache[i] EXCEPT !.state = state] \in Records \ {NoRecord}
<1>1. i \in Ids /\ cache[i] \in Records
  BY DEF MemoryType, Stored
<1>2. [cache[i] EXCEPT !.state = state] \in Records /\ [cache[i] EXCEPT !.state = state].state = state
  BY <1>1 DEF Records
<1> QED
  BY <1>1, <1>2, RecordTypes DEF NoRecord, Record

LEMMA StepSets ==
  ASSUME NEW c, NEW todo, Ready(c, todo), NEW i \in Stored, NEW state \in {"active", "archived", "deleted"},
         Sets(c, i, state, Tail(todo)), Head(todo).do # "create", UNCHANGED purged
  PROVE  CallStands(c) /\ cache' \in [Ids -> Records]
<1> DEFINE r == [cache[i] EXCEPT !.state = state]
<1>1. MemoryType /\ c \in Callers /\ Tail(todo) \in Seq(Steps)
  BY ReadyHas
<1>2. i \in Ids /\ r \in Records /\ r # NoRecord
  BY <1>1, StateIsSet
<1>3. Puts(c, i, r, Tail(todo))
  BY DEF Sets
<1> HIDE DEF r
<1>4. Plan(Tail(todo), OnDisk(calls[c].made, disk', purged'))
  BY ReadyRest
<1> QED
  BY <1>1, <1>2, <1>3, <1>4, StepPuts

LEMMA CreateKeeps ==
  ASSUME NEW c, NEW todo, Ready(c, todo), Create(c, todo), UNCHANGED bundle
  PROVE  MemoryInv'
<1>0. MemoryType /\ c \in Callers /\ Tail(todo) \in Seq(Steps) /\ UNCHANGED <<replaced, purged>>
  BY ReadyHas DEF Create
<1>1. CASE ~Allowed("edit")
  <2>1. Throws(c) /\ UNCHANGED <<cache, created>>
    BY <1>1 DEF Create
  <2> QED
    BY <1>0, <2>1, StepStops, CacheStays, StepKeepsAll
<1>2. CASE Allowed("edit")
  <2> DEFINE i == created + 1
    <2>1. i \in Ids /\ created' = i /\ created' \in Nat
    BY <1>0, <1>2, MemoryAssumption DEF Create, MemoryType, Ids
  <2>2. /\ calls' = [calls EXCEPT ![c] = Making(Tail(todo), i, New, Write(i, New))]
        /\ cache' = [cache EXCEPT ![i] = New]
    BY <1>2 DEF Create, Making
  <2> HIDE DEF i
  <2>3. New \in Records /\ New # NoRecord
    BY RecordTypes
  <2>5. Plan(Tail(todo), TRUE)
    <3> DEFINE x == OnDisk(calls[c].made, disk', purged)
    <3>1. x \in BOOLEAN
      BY DEF OnDisk
    <3>2. todo \in Seq(Steps) /\ todo # <<>> /\ Plan(todo, x)
      BY DEF Ready
    <3> HIDE DEF x
    <3> QED
      BY <3>1, <3>2, RestOfPlan
  <2>6. CallStands(c) /\ cache' \in [Ids -> Records]
    BY <1>0, <2>1, <2>2, <2>3, <2>5, StepMakes
  <2> QED
    BY <1>0, <2>1, <2>6, StepKeeps
<1> QED
  BY <1>1, <1>2

LEMMA AskKeeps ==
  ASSUME NEW c, NEW todo, Ready(c, todo), Ask(c, todo), UNCHANGED bundle
  PROVE  MemoryInv'
<1>0. MemoryType /\ c \in Callers /\ Tail(todo) \in Seq(Steps) /\ calls[c] \in CallType
  BY ReadyHas
<1>1. UNCHANGED <<cache, created, replaced, purged>> /\ Head(todo).do # "create"
  BY DEF Ask
<1>2. calls' = [calls EXCEPT ![c] = Asking(calls[c], Tail(todo), Answer)]
  BY DEF Ask, Asking
<1>3. Plan(Tail(todo), OnDisk(calls[c].made, disk', purged'))
  BY <1>1, ReadyRest
<1>4. CallStands(c)
  BY <1>0, <1>2, <1>3, StepAsks
<1> QED
  BY <1>0, <1>1, <1>4, CacheStays, StepKeepsAll

LEMMA AttachKeeps ==
  ASSUME NEW c, NEW todo, Ready(c, todo), Attach(c, todo), UNCHANGED bundle
  PROVE  MemoryInv'
<1> DEFINE r == [calls[c].held EXCEPT !.embedded = TRUE]
<1>0. /\ MemoryType /\ c \in Callers /\ Tail(todo) \in Seq(Steps)
      /\ calls[c].made \in Ids \cup {0} /\ calls[c].held \in Records
  BY ReadyHas
<1>1. UNCHANGED <<created, replaced, purged>> /\ Head(todo).do # "create"
      /\ Puts(c, calls[c].made, r, Tail(todo))
  BY DEF Attach
<1>2. r \in Records /\ r.embedded = TRUE
  BY <1>0 DEF Records
<1>3. r # NoRecord
  BY <1>2 DEF NoRecord, Record
<1> HIDE DEF r
<1>4. Plan(Tail(todo), OnDisk(calls[c].made, disk', purged'))
  BY <1>1, ReadyRest
<1>5. CallStands(c) /\ cache' \in [Ids -> Records]
  BY <1>0, <1>1, <1>2, <1>3, <1>4, StepPuts
<1> QED
  BY <1>1, <1>5, StepKeepsAll

LEMMA UpdateKeeps ==
  ASSUME NEW c, NEW todo, Ready(c, todo), Update(c, todo), UNCHANGED bundle
  PROVE  MemoryInv'
<1> DEFINE i == Head(todo).of
           r == [cache[i] EXCEPT !.version = @ + 1]
<1>0. MemoryType /\ c \in Callers /\ Tail(todo) \in Seq(Steps) /\ Head(todo) \in Steps
  BY ReadyHas
<1>1. Head(todo).do = "update" /\ UNCHANGED <<created, replaced, purged>>
  BY DEF Update
<1>2. CASE cache[i].state \in {"none", "deleted"}
  <2>1. Throws(c) /\ UNCHANGED cache
    BY <1>2 DEF Update
  <2> QED
    BY <1>0, <1>1, <2>1, StepStops, CacheStays, StepKeepsAll
<1>3. CASE cache[i].state \notin {"none", "deleted"}
  <2>1. /\ calls' = [calls EXCEPT ![c] = Making(Tail(todo), i, r, Write(i, r))]
        /\ cache' = [cache EXCEPT ![i] = r]
    BY <1>3 DEF Update, Making
  <2>2. i \in Ids
    BY <1>0, <1>1, StepTypes DEF Ones
  <2>3. cache[i] \in Records
    BY <1>0, <2>2 DEF MemoryType
  <2>4. r \in Records /\ r.state = cache[i].state
    BY <2>3 DEF Records
  <2>5. r # NoRecord
    BY <1>3, <2>4 DEF NoRecord, Record
  <2> HIDE DEF r, i
  <2>6. Plan(Tail(todo), TRUE)
    BY <1>1, ReadyPlain, PlainIsPlan DEF Creating
  <2>7. CallStands(c) /\ cache' \in [Ids -> Records]
    BY <1>0, <2>1, <2>2, <2>4, <2>5, <2>6, StepMakes
  <2> QED
    BY <1>1, <2>7, StepKeepsAll
<1> QED
  BY <1>2, <1>3

LEMMA DeleteKeeps ==
  ASSUME NEW c, NEW todo, Ready(c, todo), Delete(c, todo), UNCHANGED bundle
  PROVE  MemoryInv'
<1> DEFINE i == Head(todo).of
<1>0. MemoryType /\ c \in Callers /\ Tail(todo) \in Seq(Steps) /\ todo \in Seq(Steps) /\ todo # <<>>
  BY ReadyHas
<1>1. Head(todo).do = "delete" /\ UNCHANGED <<created, replaced, purged>>
  BY DEF Delete
<1>2. CASE ~Allowed("delete")
  <2>1. Throws(c) /\ UNCHANGED cache
    BY <1>2 DEF Delete
  <2> QED
    BY <1>0, <1>1, <2>1, StepStops, CacheStays, StepKeepsAll
<1>3. CASE Allowed("delete") /\ i \in Stored
  <2>1. Sets(c, i, "deleted", Tail(todo))
    BY <1>3 DEF Delete
  <2> QED
    BY <1>1, <1>3, <2>1, StepSets, StepKeepsAll
<1>4. CASE Allowed("delete") /\ i \notin Stored
  <2>1. Goes(c, Tail(Tail(todo))) /\ UNCHANGED cache
    BY <1>4 DEF Delete
  <2>2. Plain(todo) /\ Plain(Tail(todo))
    BY <1>1, ReadyPlain DEF Creating
  <2>3. Tail(todo) # <<>>
    <3>1. Head(todo) = todo[1] /\ Len(todo) \in Nat \ {0} /\ Len(Tail(todo)) = Len(todo) - 1
      BY <1>0, RestOf
    <3>2. 1 < Len(todo)
      BY <1>1, <2>2, <3>1 DEF Plain
    <3> QED
      BY <3>1, <3>2
  <2>4. Tail(Tail(todo)) \in Seq(Steps) /\ Plain(Tail(Tail(todo)))
    BY <1>0, <2>2, <2>3, RestOf, PlainRest
  <2> QED
    BY <1>0, <1>1, <2>1, <2>4, PlainIsPlan, StepGoes, CacheStays, StepKeepsAll
<1> QED
  BY <1>2, <1>3, <1>4

LEMMA ReplaceKeeps ==
  ASSUME NEW c, NEW todo, Ready(c, todo), Replace(c, todo), UNCHANGED bundle
  PROVE  MemoryInv'
<1> DEFINE i == Head(todo).of
           m == calls[c].made
<1>0. MemoryType /\ c \in Callers /\ Tail(todo) \in Seq(Steps) /\ todo \in Seq(Steps) /\ todo # <<>>
  BY ReadyHas
<1>1. Head(todo).do = "replace" /\ UNCHANGED <<created, purged>> /\ replaced' = replaced \cup {<<i, m>>}
  BY DEF Replace
<1>2. OnDisk(m, disk', purged)
  <2> DEFINE x == OnDisk(m, disk', purged)
  <2>1. x \in BOOLEAN
    BY DEF OnDisk
  <2>2. todo \in Seq(Steps) /\ todo # <<>> /\ Plan(todo, x)
    BY DEF Ready
  <2> HIDE DEF x
  <2>3. x
    BY <1>1, <2>1, <2>2, ReplacedByCreated
  <2> QED
    BY <2>3 DEF x
<1>3. CallStands(c) /\ cache' \in [Ids -> Records]
  <2>1. CASE i \in Stored
    <3>1. Sets(c, i, "deleted", Tail(todo))
      BY <2>1 DEF Replace
    <3> QED
      BY <1>1, <2>1, <3>1, StepSets
  <2>2. CASE i \notin Stored
    <3>1. Goes(c, Tail(todo)) /\ UNCHANGED cache
      BY <2>2 DEF Replace
    <3>2. Plan(Tail(todo), OnDisk(calls[c].made, disk', purged'))
      BY <1>1, ReadyRest
    <3> QED
      BY <1>0, <3>1, <3>2, StepGoes, CacheStays
  <2> QED
    BY <2>1, <2>2
<1>4. ASSUME NEW x \in replaced'
      PROVE  x \in replaced \/ OnDisk(x[2], disk', purged')
  <2>1. CASE x = <<i, m>>
    <3>1. x[2] = m
      BY <2>1
    <3> QED
      BY <1>1, <1>2, <3>1
  <2> QED
    BY <1>1, <2>1
<1>5. created' \in Nat
  BY <1>0, <1>1 DEF MemoryType
<1> QED
  BY <1>1, <1>3, <1>4, <1>5, StepKeeps

LEMMA ArchiveKeeps ==
  ASSUME NEW c, NEW todo, Ready(c, todo), Archive(c, todo), UNCHANGED bundle
  PROVE  MemoryInv'
<1> DEFINE i == Head(todo).of
           state == IF Head(todo).do = "archive" THEN "archived" ELSE "active"
<1>0. MemoryType /\ c \in Callers
  BY ReadyHas
<1>1. Head(todo).do # "create" /\ UNCHANGED <<created, replaced, purged>>
  BY DEF Archive
<1>2. CASE Allowed("edit") /\ i \in Stored
  <2>1. Sets(c, i, state, Tail(todo))
    BY <1>2 DEF Archive
  <2>2. state \in {"active", "archived", "deleted"}
    OBVIOUS
  <2> HIDE DEF i, state
  <2> QED
    BY <1>1, <1>2, <2>1, <2>2, StepSets, StepKeepsAll
<1>3. CASE ~(Allowed("edit") /\ i \in Stored)
  <2>1. Throws(c) /\ UNCHANGED cache
    BY <1>3 DEF Archive
  <2> QED
    BY <1>0, <1>1, <2>1, StepStops, CacheStays, StepKeepsAll
<1> QED
  BY <1>2, <1>3

LEMMA PurgeKeeps ==
  ASSUME NEW c, NEW todo, Ready(c, todo), Purge(c, todo), UNCHANGED bundle
  PROVE  MemoryInv'
<1> DEFINE i == Head(todo).of
           t == IF Head(todo).do = "prune" THEN Tail(todo) ELSE <<>>
<1>0. MemoryType /\ c \in Callers /\ Tail(todo) \in Seq(Steps)
  BY ReadyHas
<1>1. Head(todo).do \in {"purge", "prune"} /\ UNCHANGED <<created, replaced>>
  BY DEF Purge
<1>2. Plain(Tail(todo)) /\ Plain(<<>>) /\ <<>> \in Seq(Steps)
  BY <1>1, ReadyPlain DEF Creating, Plain
<1>3. CASE i \in Stored
  <2>1. Puts(c, i, NoRecord, Tail(todo)) /\ purged' = purged \cup {i}
    BY <1>3 DEF Purge
  <2>2. i \in Ids /\ i \in purged' /\ purged \subseteq purged'
    BY <1>3, <2>1 DEF Stored
  <2>3. NoRecord \in Records
    BY RecordTypes
  <2>4. Plan(Tail(todo), OnDisk(calls[c].made, disk', purged'))
    BY <1>2, PlainIsPlan
  <2> HIDE DEF i
  <2>5. CallStands(c) /\ cache' \in [Ids -> Records]
    BY <1>0, <2>1, <2>2, <2>3, <2>4, StepPuts
  <2> QED
    BY <1>1, <2>2, <2>5, StepKeepsAll
<1>4. CASE i \notin Stored
  <2>1. Goes(c, t) /\ UNCHANGED <<cache, purged>>
    BY <1>4 DEF Purge
  <2>2. t \in Seq(Steps) /\ Plain(t)
    BY <1>0, <1>2
  <2> HIDE DEF t
  <2>3. Plan(t, OnDisk(calls[c].made, disk', purged'))
    BY <2>2, PlainIsPlan
  <2> QED
    BY <1>0, <1>1, <2>1, <2>2, <2>3, StepGoes, CacheStays, StepKeepsAll
<1> QED
  BY <1>3, <1>4

LEMMA IndexKeeps ==
  ASSUME NEW c, NEW todo, Ready(c, todo), Index(c, todo), UNCHANGED bundle
  PROVE  MemoryInv'
<1>0. MemoryType /\ c \in Callers /\ Tail(todo) \in Seq(Steps)
  BY ReadyHas
<1>1. /\ Head(todo).do # "create" /\ Goes(c, Tail(todo))
      /\ UNCHANGED <<cache, created, replaced, purged>>
  BY DEF Index
<1>2. Plan(Tail(todo), OnDisk(calls[c].made, disk', purged'))
  BY <1>1, ReadyRest
<1> QED
  BY <1>0, <1>1, <1>2, StepGoes, CacheStays, StepKeepsAll

LEMMA SurveyKeeps ==
  ASSUME NEW c, NEW todo, Ready(c, todo), Survey(c, todo), UNCHANGED bundle
  PROVE  MemoryInv'
<1>0. /\ MemoryInv /\ DiskGoes /\ c \in Callers /\ Tail(todo) \in Seq(Steps)
      /\ todo \in Seq(Steps) /\ todo # <<>>
  BY ReadyHas DEF Ready
<1>1. Head(todo).do = "survey"
  BY DEF Survey
<1>2. PICK over \in SUBSET Active : LET next == Each("prune", over) \o Tail(todo) IN
                                    Purge(c, next) \/ Index(c, next)
  BY DEF Survey
<1> DEFINE first == Each("prune", over)
           next == first \o Tail(todo)
<1>3. over \in SUBSET Ids
  BY <1>2 DEF Active
<1>4. first \in Seq(Steps) /\ Plain(first)
  BY <1>3, EachOf DEF Ones, Plain
<1>5. Plain(todo) /\ Plain(Tail(todo))
  BY <1>1, ReadyPlain DEF Creating
<1>6. Len(Tail(todo)) \in Nat \ {0}
  BY <1>0, <1>1, <1>5, RestOf DEF Plain
<1> HIDE DEF first
<1>7. next \in Seq(Steps) /\ Plain(next)
  BY <1>0, <1>4, <1>5, PlainAfterPlain
<1>8. next # <<>>
  BY <1>0, <1>4, <1>6, SomethingAfter
<1>9. Purge(c, next) \/ Index(c, next)
  BY <1>2 DEF first
<1> HIDE DEF next
<1>10. Plan(next, OnDisk(calls[c].made, disk', purged))
  BY <1>7, PlainIsPlan
<1>11. Ready(c, next)
  BY <1>0, <1>7, <1>8, <1>10 DEF Ready
<1> QED
  BY <1>9, <1>11, PurgeKeeps, IndexKeeps

LEMMA LoadKeeps ==
  ASSUME NEW c, NEW todo, Ready(c, todo), Load(c, todo), UNCHANGED bundle
  PROVE  MemoryInv'
<1> DEFINE i == Head(todo).of
           r == Head(todo).rec
<1>0. MemoryType /\ c \in Callers /\ Tail(todo) \in Seq(Steps) /\ Head(todo) \in Steps
  BY ReadyHas
<1>1. Head(todo).do = "load" /\ Puts(c, i, r, Tail(todo)) /\ UNCHANGED <<created, replaced, purged>>
  BY DEF Load
<1>2. i \in Ids /\ r \in Records /\ r # NoRecord
  BY <1>0, <1>1, StepTypes
<1> HIDE DEF i, r
<1>3. Plan(Tail(todo), OnDisk(calls[c].made, disk', purged'))
  BY <1>1, ReadyRest
<1>4. CallStands(c) /\ cache' \in [Ids -> Records]
  BY <1>0, <1>1, <1>2, <1>3, StepPuts
<1> QED
  BY <1>1, <1>4, StepKeepsAll

LEMMA PerformsKeeps ==
  ASSUME NEW c, NEW todo, Ready(c, todo), Performs(c, todo)
  PROVE  MemoryInv'
BY CreateKeeps, AskKeeps, AttachKeeps, UpdateKeeps, DeleteKeeps, ReplaceKeeps, ArchiveKeeps, PurgeKeeps,
   IndexKeeps, SurveyKeeps, LoadKeeps
DEF Performs

-----------------------------------------------------------------------------
(* Every operation. *)

\* A list that may be begun with.
Whole(s) == s \in Seq(Steps) /\ s # <<>> /\ (Plain(s) \/ (Superseding(s) /\ CreatesFirst(s)))

LEMMA BeginsKeeps ==
  ASSUME MemoryInv, NEW c \in Callers, NEW todo, Whole(todo), Begins(c, todo)
  PROVE  MemoryInv'
<1>1. DiskGoes
  BY DEF Begins, DiskGoes, MemoryInv, MemoryType
<1>2. \A x : Plan(todo, x)
  BY DEF Whole, Plan
<1>3. Ready(c, todo)
  BY <1>1, <1>2 DEF Ready, Whole
<1> QED
  BY <1>3, PerformsKeeps DEF Begins

LEMMA EndsWithIndex ==
  ASSUME NEW s \in Seq(Steps), Plain(s)
  PROVE  Whole(s \o <<Do("index")>>)
<1>1. <<Do("index")>> \in Seq(Steps) /\ Plain(<<Do("index")>>) /\ Len(<<Do("index")>>) # 0
  BY ThingsOf DEF Creating
<1> HIDE DEF Do
<1> QED
  BY <1>1, PlainAfterPlain, SomethingAfter DEF Whole

LEMMA IndexAfterOne ==
  /\ \A w \in Ones \ {"replace"}, i \in Ids :
       LET s == <<To(w, i), Do("index")>> IN s \in Seq(Steps) /\ Plain(s) /\ Whole(s)
  /\ \A i \in Ids : Whole(<<To("purge", i), To("forget", i)>>)
<1>1. ASSUME NEW w \in Ones \ {"replace"}, NEW i \in Ids
      PROVE  LET s == <<To(w, i), Do("index")>> IN s \in Seq(Steps) /\ Plain(s) /\ Whole(s)
  <2>1. /\ To(w, i) \in Steps /\ To(w, i).do = w /\ w # "replace"
        /\ Do("index") \in Steps /\ Do("index").do = "index"
    BY StepTypes DEF Creating
  <2> QED
    BY <2>1 DEF Plain, Whole
<1>2. ASSUME NEW i \in Ids
      PROVE  Whole(<<To("purge", i), To("forget", i)>>)
  <2>1. /\ To("purge", i) \in Steps /\ To("purge", i).do = "purge"
        /\ To("forget", i) \in Steps /\ To("forget", i).do = "forget"
    BY StepTypes DEF Ones
  <2> QED
    BY <2>1 DEF Plain, Whole
<1> QED
  BY <1>1, <1>2

LEMMA CreationIsWhole == Whole(Creation)
BY CreationCreates DEF Whole

LEMMA UpdateIsWhole ==
  ASSUME NEW i \in Ids, NEW embedding \in {Embedding, <<>>}
  PROVE  Whole(<<To("update", i)>> \o embedding \o <<Do("index")>>)
<1>1. <<To("update", i)>> \in Seq(Steps) /\ Plain(<<To("update", i)>>)
  BY ThingsOf DEF Ones
<1>2. embedding \in Seq(Steps) /\ Plain(embedding)
  <2>1. <<>> \in Seq(Steps) /\ Plain(<<>>)
    BY DEF Plain
  <2>2. Embedding \in Seq(Steps) /\ Plain(Embedding)
    BY ThingsOf
  <2> QED
    BY <2>1, <2>2
<1>3. <<To("update", i)>> \o embedding \in Seq(Steps) /\ Plain(<<To("update", i)>> \o embedding)
  BY <1>1, <1>2, PlainAfterPlain
<1> QED
  BY <1>3, EndsWithIndex

LEMMA SplitIsWhole ==
  ASSUME NEW i \in Ids, NEW parts \in {Creation, Creation \o Creation}
  PROVE  Whole(parts \o <<To("archive", i), Do("index")>>)
<1>1. parts \in Seq(Steps) /\ Plain(parts)
  BY CreationCreates, PlainAfterPlain
<1> DEFINE t == <<To("archive", i), Do("index")>>
<1>2. t \in Seq(Steps) /\ Plain(t) /\ Len(t) # 0
  BY IndexAfterOne DEF Ones
<1> HIDE DEF t
<1>3. parts \o t \in Seq(Steps) /\ Plain(parts \o t) /\ parts \o t # <<>>
  BY <1>1, <1>2, PlainAfterPlain, SomethingAfter
<1> QED
  BY <1>3 DEF Whole, t

LEMMA SupersedingIsWhole ==
  ASSUME NEW ids \in SUBSET Ids
  PROVE  Whole(Supersedes(ids)) /\ Whole(<<Do("ask")>> \o Supersedes(ids))
<1>1. Supersedes(ids) # <<>>
  <2>1. Creation \o Each("replace", ids) \in Seq(Steps)
    BY CreationCreates, EachOf DEF Ones
  <2>2. <<Do("index")>> \in Seq(Steps) /\ Len(<<Do("index")>>) # 0
    BY ThingsOf DEF Creating
  <2> QED
    BY <2>1, <2>2, SomethingAfter DEF Supersedes
<1>2. Supersedes(ids) \in Seq(Steps)
  BY SupersedesCreatesFirst
<1>3. Len(Supersedes(ids)) # 0
  BY <1>1, <1>2
<1>4. <<Do("ask")>> \o Supersedes(ids) # <<>>
  <2>1. <<Do("ask")>> \in Seq(Steps)
    BY ThingsOf DEF Creating
  <2> QED
    BY <1>2, <1>3, <2>1, SomethingAfter
<1> QED
  BY <1>1, <1>4, SupersedesCreatesFirst DEF Whole

LEMMA DeletesEachIsWhole ==
  ASSUME NEW ids \in SUBSET Ids, ids # {}
  PROVE  Whole(DeletesEach(ids))
<1> DEFINE n == Cardinality(ids)
           s == DeletesEach(ids)
<1>1. n \in Nat /\ \A k \in 1..n : SetToSeq(ids)[k] \in Ids
  BY Listed
<1>2. n # 0
  BY IdTypes, FS_EmptySet
<1> HIDE DEF n
<1>3. ASSUME NEW k \in 1..2 * n
      PROVE  /\ s[k] \in Steps
             /\ s[k].do = "index" \/ (s[k].do = "delete" /\ k < 2 * n)
  <2>1. CASE k % 2 = 1
    <3>1. (k + 1) \div 2 \in 1..n /\ k < 2 * n
      BY <1>1, <1>2, <2>1
    <3>2. s[k] = To("delete", SetToSeq(ids)[(k + 1) \div 2])
      BY <2>1 DEF DeletesEach, n
    <3> QED
      BY <1>1, <3>1, <3>2, StepTypes DEF Ones
  <2>2. CASE k % 2 # 1
    <3>1. s[k] = Do("index")
      BY <2>2 DEF DeletesEach, n
    <3> QED
      BY <3>1, StepTypes DEF Creating
  <2> QED
    BY <2>1, <2>2
<1>4. s = [k \in 1..2 * n |-> s[k]]
  BY DEF DeletesEach, n
<1> HIDE DEF s
<1>5. s \in Seq(Steps) /\ Len(s) = 2 * n
  BY <1>1, <1>3, <1>4
<1>6. s # <<>>
  BY <1>1, <1>2, <1>5
<1>7. Plain(s)
  BY <1>3, <1>5 DEF Plain
<1> QED
  BY <1>5, <1>6, <1>7 DEF Whole, s

LEMMA MaintenanceIsWhole ==
  ASSUME NEW ids \in SUBSET Ids
  PROVE  Whole(Each("prune", ids) \o <<Do("survey"), Do("index")>>)
<1> DEFINE s == Each("prune", ids)
           t == <<Do("survey"), Do("index")>>
<1>1. s \in Seq(Steps) /\ Plain(s)
  BY EachOf DEF Ones, Plain
<1>2. t \in Seq(Steps) /\ Plain(t) /\ Len(t) # 0
  BY ThingsOf
<1> HIDE DEF s, t
<1>3. s \o t \in Seq(Steps) /\ Plain(s \o t) /\ s \o t # <<>>
  BY <1>1, <1>2, PlainAfterPlain, SomethingAfter
<1> QED
  BY <1>3 DEF Whole, s, t

\* A bundle is loaded record by record.
LoadsOf(ids) ==
  [k \in 1..Cardinality(ids) |->
     [do |-> "load", of |-> SetToSeq(ids)[k], rec |-> bundle[SetToSeq(ids)[k]]]]

LEMMA LoadsAreWhole ==
  ASSUME MemoryType, NEW first \in {<<>>, <<Do("ask")>>}
  PROVE  Whole(first \o LoadsOf({i \in Ids : bundle[i] # NoRecord}) \o <<Do("index")>>)
<1> DEFINE kept == {i \in Ids : bundle[i] # NoRecord}
           n == Cardinality(kept)
           l == LoadsOf(kept)
<1>1. n \in Nat /\ \A k \in 1..n : SetToSeq(kept)[k] \in kept
  BY Listed
<1>2. \A i \in kept : [do |-> "load", of |-> i, rec |-> bundle[i]] \in Steps
  BY DEF MemoryType, Steps
<1> HIDE DEF kept
<1>3. \A k \in 1..n : LET s == [do |-> "load", of |-> SetToSeq(kept)[k], rec |-> bundle[SetToSeq(kept)[k]]]
                      IN s \in Steps /\ s.do = "load"
  BY <1>1, <1>2
<1>4. l \in Seq(Steps) /\ Plain(l)
  BY <1>1, <1>3 DEF LoadsOf, Plain
<1>5. first \in Seq(Steps) /\ Plain(first)
  <2>1. <<>> \in Seq(Steps) /\ Plain(<<>>)
    BY DEF Plain
  <2>2. <<Do("ask")>> \in Seq(Steps) /\ Plain(<<Do("ask")>>)
    BY ThingsOf DEF Creating
  <2> QED
    BY <2>1, <2>2
<1> HIDE DEF l
<1>6. first \o l \in Seq(Steps) /\ Plain(first \o l)
  BY <1>4, <1>5, PlainAfterPlain
<1>7. Whole(first \o l \o <<Do("index")>>)
  BY <1>6, EndsWithIndex
<1> QED
  BY <1>7 DEF l, kept

LEMMA ExportKeeps ==
  ASSUME MemoryInv, NEW c \in Callers, ExportMemories(c)
  PROVE  MemoryInv'
<1>1. UNCHANGED <<cache, disk, calls, created, replaced, purged>>
      /\ bundle' = [i \in Ids |-> IF i \in Active THEN cache[i] ELSE NoRecord]
  BY DEF ExportMemories
<1>2. cache \in [Ids -> Records] /\ NoRecord \in Records
  BY RecordTypes DEF MemoryInv, MemoryType
<1>3. bundle' \in [Ids -> Records]
  BY <1>1, <1>2 DEF Active
<1>4. MemoryType'
  BY <1>1, <1>3 DEF MemoryInv, MemoryType
<1> QED
  BY <1>1, <1>4 DEF MemoryInv, ReplacedMemoriesAreKept, Sound, Plan, Saves, OnDisk

LEMMA CallsKeep ==
  ASSUME MemoryInv, NEW c \in Callers, Calls(c)
  PROVE  MemoryInv'
<1>0. MemoryType
  BY DEF MemoryInv
<1>1. CASE CreateMemory(c)
  BY <1>1, CreationIsWhole, BeginsKeeps DEF CreateMemory
<1>2. CASE ImportMemories(c)
  <2>1. PICK first \in {<<>>, <<Do("ask")>>} :
          Begins(c, first \o LoadsOf({i \in Ids : bundle[i] # NoRecord}) \o <<Do("index")>>)
    BY <1>2 DEF ImportMemories, LoadsOf
  <2> QED
    BY <1>0, <2>1, LoadsAreWhole, BeginsKeeps
<1>3. CASE ExportMemories(c)
  BY <1>3, ExportKeeps
<1>4. ASSUME NEW i \in Ids, UpdateMemory(c, i) \/ TagMemory(c, i) \/ SplitMemory(c, i)
      PROVE  MemoryInv'
  <2>1. CASE UpdateMemory(c, i)
    BY <2>1, UpdateIsWhole, BeginsKeeps DEF UpdateMemory
  <2>2. CASE TagMemory(c, i)
    BY <2>2, IndexAfterOne, BeginsKeeps DEF TagMemory, Ones
  <2>3. CASE SplitMemory(c, i)
    BY <2>3, SplitIsWhole, BeginsKeeps DEF SplitMemory
  <2> QED
    BY <1>4, <2>1, <2>2, <2>3
<1>5. ASSUME NEW i \in Ids, DeleteMemory(c, i) \/ PurgeMemory(c, i) \/ ArchiveMemory(c, i) \/ RestoreMemory(c, i)
      PROVE  MemoryInv'
  <2>1. CASE DeleteMemory(c, i)
    BY <2>1, IndexAfterOne, BeginsKeeps DEF DeleteMemory, Ones
  <2>2. CASE PurgeMemory(c, i)
    BY <2>2, IndexAfterOne, BeginsKeeps DEF PurgeMemory
  <2>3. CASE ArchiveMemory(c, i)
    BY <2>3, IndexAfterOne, BeginsKeeps DEF ArchiveMemory, Ones
  <2>4. CASE RestoreMemory(c, i)
    BY <2>4, IndexAfterOne, BeginsKeeps DEF RestoreMemory, Ones
  <2> QED
    BY <1>5, <2>1, <2>2, <2>3, <2>4
<1>6. ASSUME NEW ids \in SUBSET Active,
             \/ MergeMemories(c, ids) \/ CompressOldMemories(c, ids)
             \/ ResolveDuplicates(c, ids) \/ RunMaintenance(c, ids)
      PROVE  MemoryInv'
  <2>0. ids \in SUBSET Ids
    BY DEF Active
  <2>1. CASE MergeMemories(c, ids)
    BY <2>0, <2>1, SupersedingIsWhole, BeginsKeeps DEF MergeMemories
  <2>2. CASE CompressOldMemories(c, ids)
    BY <2>0, <2>2, SupersedingIsWhole, BeginsKeeps DEF CompressOldMemories
  <2>3. CASE ResolveDuplicates(c, ids)
    BY <2>0, <2>3, DeletesEachIsWhole, BeginsKeeps DEF ResolveDuplicates, Duplicates
  <2>4. CASE RunMaintenance(c, ids)
    BY <2>0, <2>4, MaintenanceIsWhole, BeginsKeeps DEF RunMaintenance
  <2> QED
    BY <1>6, <2>1, <2>2, <2>3, <2>4
<1> QED
  BY <1>1, <1>2, <1>3, <1>4, <1>5, <1>6 DEF Calls

LEMMA ResumesKeeps ==
  ASSUME MemoryInv, NEW c \in Callers, Resumes(c)
  PROVE  MemoryInv'
<1> DEFINE k == calls[c]
           w == calls[c].awaits
<1>0. MemoryType /\ k \in CallType /\ Sound(k, disk, purged)
  BY DEF MemoryInv, MemoryType
<1>1. w.id \in Ids \cup {0} /\ w.rec \in Records /\ k.todo \in Seq(Steps) /\ k.made \in Ids \cup {0}
  BY <1>0 DEF CallType
<1>2. disk' = IF w.id = 0 THEN disk ELSE [disk EXCEPT ![w.id] = w.rec]
  BY DEF Resumes
<1>3. w.rec = NoRecord => w.id = 0 \/ w.id \in purged
  BY <1>0 DEF Sound
<1>4. disk \in [Ids -> Records] /\ 0 \notin Ids
  BY <1>0, IdTypes DEF MemoryType
<1> HIDE DEF w
<1>5. DiskGoes
  BY <1>1, <1>2, <1>3, <1>4 DEF DiskGoes
<1>6. Saves(k, disk, purged) => OnDisk(k.made, disk', purged)
  <2>1. CASE OnDisk(k.made, disk, purged)
    BY <2>1, <1>5 DEF OnDisk, DiskGoes
  <2>2. CASE k.made \in Ids /\ w.id = k.made /\ w.rec # NoRecord
    <3>1. disk'[k.made] = w.rec
      BY <2>2, <1>2, <1>4
    <3> QED
      BY <2>2, <3>1 DEF OnDisk
  <2> QED
    BY <2>1, <2>2 DEF Saves, w
<1>7. Plan(k.todo, OnDisk(k.made, disk', purged))
  BY <1>0, <1>6 DEF Sound, Plan
<1>8. CASE k.todo # <<>>
  <2>1. Ready(c, k.todo)
    BY <1>1, <1>5, <1>7, <1>8 DEF Ready
  <2>2. Performs(c, k.todo)
    BY <1>8 DEF Resumes
  <2> HIDE DEF k
  <2> QED
    BY <2>1, <2>2, PerformsKeeps
<1>9. CASE k.todo = <<>>
  <2>1. Throws(c) /\ UNCHANGED <<cache, bundle, created, replaced, purged>>
    BY <1>9 DEF Resumes
  <2>2. CallStands(c)
    BY <1>0, <2>1, StepStops
  <2>3. cache' \in [Ids -> Records] /\ bundle' \in [Ids -> Records] /\ created' \in Nat
    BY <1>0, <2>1 DEF MemoryType
  <2> QED
    BY <1>5, <2>1, <2>2, <2>3, CallMoves
<1> QED
  BY <1>8, <1>9

LEMMA FailsKeeps ==
  ASSUME MemoryInv, NEW c \in Callers, Fails(c)
  PROVE  MemoryInv'
<1>0. MemoryType
  BY DEF MemoryInv
<1>1. Throws(c) /\ UNCHANGED <<cache, disk, bundle, created, replaced, purged>>
  BY DEF Fails
<1>2. DiskGoes
  BY <1>0, <1>1 DEF DiskGoes, MemoryType
<1>3. CallStands(c)
  BY <1>0, <1>1, StepStops
<1>4. cache' \in [Ids -> Records] /\ bundle' \in [Ids -> Records] /\ created' \in Nat
  BY <1>0, <1>1 DEF MemoryType
<1> QED
  BY <1>1, <1>2, <1>3, <1>4, CallMoves

LEMMA NothingHappens ==
  ASSUME MemoryInv, UNCHANGED <<cache, disk, bundle, calls, created, replaced, purged>>
  PROVE  MemoryInv'
BY DEF MemoryInv, MemoryType, ReplacedMemoriesAreKept, Sound, Plan, Saves, OnDisk

LEMMA RestartKeeps ==
  ASSUME MemoryInv, Restart
  PROVE  MemoryInv'
<1>1. /\ UNCHANGED <<disk, bundle, created, replaced, purged>> /\ cache' = disk
      /\ calls' = [c \in Callers |-> Idle]
  BY DEF Restart
<1>2. \A c \in Callers : calls'[c] = Idle /\ Sound(calls'[c], disk', purged')
  BY <1>1, IdleIsSound
<1>3. MemoryType'
  BY <1>1, IdleIsSound DEF MemoryInv, MemoryType
<1>4. ReplacedMemoriesAreKept'
  BY <1>1 DEF MemoryInv, ReplacedMemoriesAreKept
<1> QED
  BY <1>2, <1>3, <1>4 DEF MemoryInv

LEMMA MemoryInitially == MemoryInit => MemoryInv
<1> SUFFICES ASSUME MemoryInit
             PROVE  MemoryInv
  OBVIOUS
<1>1. disk \in [Ids -> Records] /\ bundle \in [Ids -> Records] /\ cache \in [Ids -> Records] /\ created \in Nat
  BY RecordTypes, MemoryAssumption DEF MemoryInit
<1>2. calls = [c \in Callers |-> Idle] /\ replaced = {}
  BY DEF MemoryInit
<1>3. MemoryType /\ \A c \in Callers : Sound(calls[c], disk, purged)
  BY <1>1, <1>2, IdleIsSound DEF MemoryType
<1> QED
  BY <1>2, <1>3 DEF MemoryInv, ReplacedMemoriesAreKept

LEMMA MemoryStep == MemoryInv /\ [MemoryNext]_memoryVars => MemoryInv'
<1> SUFFICES ASSUME MemoryInv, [MemoryNext]_memoryVars
             PROVE  MemoryInv'
  OBVIOUS
<1>1. CASE UNCHANGED memoryVars
  BY <1>1, NothingHappens DEF memoryVars
<1>2. CASE ChangePermissions
  BY <1>2, NothingHappens DEF ChangePermissions
<1>3. CASE Restart
  BY <1>3, RestartKeeps
<1>4. ASSUME NEW c \in Callers, Calls(c) \/ Resumes(c) \/ Fails(c)
      PROVE  MemoryInv'
  BY <1>4, CallsKeep, ResumesKeeps, FailsKeeps
<1> QED
  BY <1>1, <1>2, <1>3, <1>4 DEF MemoryNext

\* However the calls of the manager interleave, whichever of their saves fail and
\* however often the program begins anew: what a merge or a summary replaced has
\* its replacement on disk, for any callers and any number of records.
THEOREM MergedMemoriesAreKept == MemorySpec => []ReplacedMemoriesAreKept
<1>1. MemoryInv => ReplacedMemoriesAreKept
  BY DEF MemoryInv
<1> QED
  BY <1>1, MemoryInitially, MemoryStep, PTL DEF MemorySpec
=============================================================================
