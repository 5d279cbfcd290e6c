------------------------------ MODULE SyncStore ------------------------------
(***************************************************************************)
(* SyncStore of core/sync and the MemorySyncService over it: each device   *)
(* keeps, under each key, the last record it set or took from another, and *)
(* devices hand each other snapshots of all they keep.  The transport is   *)
(* not in the repository: a snapshot may arrive late, twice, out of order  *)
(* or never.  A device's clock may show any of Times at any time.          *)
(*                                                                         *)
(* Device ids are numbers, ordered as the code orders the strings.         *)
(***************************************************************************)
EXTENDS Integers, FiniteSets

CONSTANTS
    Devices, Keys, Times,
    Values, NoValue,
    Filtered,            \* [Devices -> the keys its selective-sync filter keeps out]
    MaxStages, MaxSent   \* bounds: local changes, snapshots that may come late

ASSUME SyncAssumption ==
    /\ Devices \subseteq Nat /\ Times \subseteq Nat /\ MaxStages \in Nat
    /\ NoValue \notin Values
    /\ Filtered \in [Devices -> SUBSET Keys]

VARIABLES
    replica,         \* [Devices -> [Keys -> record or NoEntry]]
    sent,            \* snapshots that were handed over and may still arrive
    stamped,         \* [key, entry] of every local change
    stages           \* local changes so far

syncVars == <<replica, sent, stamped, stages>>

Entry == [value : Values, at : Times, device : Devices]
NoEntry == [value |-> NoValue, at |-> -1, device |-> -1]
Stores == [Keys -> Entry \cup {NoEntry}]

SyncTypeOK ==
    /\ replica \in [Devices -> Stores]
    /\ sent \subseteq Stores
    /\ stamped \subseteq [key : Keys, entry : Entry]
    /\ stages \in 0..MaxStages

SyncInit ==
    /\ replica = [d \in Devices |-> [k \in Keys |-> NoEntry]]
    /\ sent = {} /\ stamped = {} /\ stages = 0

\* Defect: between two records of one time, each device keeps its own.
LaterWins(incoming, local) == local = NoEntry \/ incoming.at > local.at

IncomingWins(incoming, local) ==
    \/ local = NoEntry
    \/ incoming.at > local.at
    \/ incoming.at = local.at /\ incoming.device > local.device

Merged(d, mine, theirs) ==
    [k \in Keys |-> IF theirs[k] # NoEntry /\ k \notin Filtered[d] /\ IncomingWins(theirs[k], mine[k])
                    THEN theirs[k] ELSE mine[k]]

\* set() asks nothing of the record it replaces, not even that it is older.
StageLocalChange(d, k, v, t) ==
    LET entry == [value |-> v, at |-> t, device |-> d] IN
    /\ stages < MaxStages /\ stages' = stages + 1
    /\ k \notin Filtered[d]
    /\ replica' = [replica EXCEPT ![d] = [@ EXCEPT ![k] = entry]]
    /\ stamped' = stamped \cup {[key |-> k, entry |-> entry]}
    /\ UNCHANGED sent

HandsOver(d) ==
    /\ sent' = sent \cup {replica[d]} /\ Cardinality(sent') <= MaxSent
    /\ UNCHANGED <<replica, stamped, stages>>

Merge(d, batch) ==
    /\ replica' = [replica EXCEPT ![d] = Merged(d, @, batch)]
    /\ UNCHANGED <<sent, stamped, stages>>

\* A snapshot that arrives as it was taken.
Exchange(d, e) == Merge(d, replica[e])

SyncNext ==
    \E d \in Devices :
        \/ \E k \in Keys, v \in Values, t \in Times : StageLocalChange(d, k, v, t)
        \/ HandsOver(d)
        \/ \E batch \in sent : Merge(d, batch)
        \/ \E e \in Devices : Exchange(d, e)

SyncSpec == SyncInit /\ [][SyncNext]_syncVars

-----------------------------------------------------------------------------
\* Some device has set a key twice in one millisecond, to different values.
Tied == \E x, y \in stamped : /\ x.key = y.key /\ x.entry # y.entry
                              /\ x.entry.at = y.entry.at /\ x.entry.device = y.entry.device

Shared(d, e) == Keys \ (Filtered[d] \cup Filtered[e])

\* Of any two devices in any state, it makes no difference which of the two
\* takes what the other has: on the keys both sync they come to the same
\* records, however the changes and the snapshots were mixed before.
ExchangesAgree ==
    ~Tied => \A d, e \in Devices : \A k \in Shared(d, e) :
                 Merged(d, replica[d], replica[e])[k] = Merged(e, replica[e], replica[d])[k]

\* Once nobody changes anything any more, and fresh snapshots keep arriving,
\* all devices come to agree and stay so, whatever old snapshot turns up.
Agree == \A d, e \in Devices : \A k \in Shared(d, e) : replica[d][k] = replica[e][k]
ReplicasConverge == <>[](Tied \/ Agree)

\* core/sync/src/index.ts:15, "deterministic, commutative merges", with nothing
\* said of two changes in one millisecond: refuted, they never agree.
AlwaysConverge == <>[]Agree
=============================================================================
