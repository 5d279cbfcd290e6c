---------------------------- MODULE DesktopProofs ----------------------------
(***************************************************************************)
(* Proofs about the desktop actions, for any turns, calls and parts of the *)
(* machine: what the person is asked, whose connection is touched, which   *)
(* window is meant and what becomes of files and folders, whatever happens *)
(* between two steps of a turn.                                            *)
(***************************************************************************)
EXTENDS FileActions, WindowActions, ServiceActions, DeviceActions,
        SequenceTheorems, WellFoundedInduction, TLAPS

-----------------------------------------------------------------------------
(* Paths: what lies in a folder, and what moves with it.                   *)

\* The names of a prefix are the first names of the path.
LEMMA PrefixMeans ==
  ASSUME NEW S, NEW s \in Seq(S), NEW u \in Seq(S)
  PROVE  IsPrefix(s, u) <=> Len(s) <= Len(u) /\ \A i \in 1..Len(s) : s[i] = u[i]
<1>1. Len(s) \in Nat /\ Len(u) \in Nat
  BY LenProperties
<1>2. /\ SubSeq(s, 1, Len(s)) = s
  BY SubSeqProperties, <1>1, LenProperties
<1>3. ASSUME Len(s) <= Len(u)
      PROVE  SubSeq(u, 1, Len(s)) = [i \in 1..Len(s) |-> u[i]]
  BY <1>1, <1>3, LenProperties
<1>4. s = [i \in 1..Len(s) |-> s[i]]
  BY LenProperties
<1>5. ASSUME Len(s) <= Len(u)
      PROVE  s = SubSeq(u, 1, Len(s)) <=> \A i \in 1..Len(s) : s[i] = u[i]
  BY <1>3, <1>4, <1>5
<1> QED
  BY <1>2, <1>5 DEF IsPrefix

LEMMA PathsAreSequences ==
  \A p \in Paths : p \in Seq(STRING)
BY PathsAssumption

\* A path is in itself, and in the folders of its folders.
LEMMA PrefixOrder ==
  /\ \A p \in Paths : IsPrefix(p, p)
  /\ \A p, q, r \in Paths : IsPrefix(p, q) /\ IsPrefix(q, r) => IsPrefix(p, r)
  /\ \A p, q \in Paths : IsPrefix(p, q) /\ IsPrefix(q, p) => p = q
<1>1. ASSUME NEW p \in Paths
      PROVE  IsPrefix(p, p)
  BY PrefixMeans, PathsAreSequences, LenProperties
<1>2. ASSUME NEW p \in Paths, NEW q \in Paths, NEW r \in Paths, IsPrefix(p, q), IsPrefix(q, r)
      PROVE  IsPrefix(p, r)
  <2>1. Len(p) \in Nat /\ Len(q) \in Nat /\ Len(r) \in Nat
    BY PathsAreSequences, LenProperties
  <2>2. Len(p) <= Len(q) /\ Len(q) <= Len(r) /\ (\A i \in 1..Len(p) : p[i] = q[i])
        /\ (\A i \in 1..Len(q) : q[i] = r[i])
    BY PrefixMeans, PathsAreSequences, <1>2
  <2>3. Len(p) <= Len(r) /\ \A i \in 1..Len(p) : p[i] = r[i]
    BY <2>1, <2>2
  <2> QED
    BY <2>3, PrefixMeans, PathsAreSequences
<1>3. ASSUME NEW p \in Paths, NEW q \in Paths, IsPrefix(p, q), IsPrefix(q, p)
      PROVE  p = q
  <2>1. Len(p) \in Nat /\ Len(q) \in Nat
    BY PathsAreSequences, LenProperties
  <2>2. Len(p) = Len(q) /\ \A i \in 1..Len(p) : p[i] = q[i]
    BY PrefixMeans, PathsAreSequences, <1>3, <2>1
  <2> QED
    BY <2>2, SeqEqual, PathsAreSequences
<1> QED
  BY <1>1, <1>2, <1>3

\* Of two folders a path is in, one is in the other.
LEMMA FoldersAreNested ==
  ASSUME NEW p \in Paths, NEW q \in Paths, NEW r \in Paths,
         IsPrefix(p, r), IsPrefix(q, r), ~IsPrefix(p, q)
  PROVE  IsPrefix(q, p)
<1>1. Len(p) \in Nat /\ Len(q) \in Nat
  BY PathsAreSequences, LenProperties
<1>2. /\ \A i \in 1..Len(p) : p[i] = r[i]
      /\ \A i \in 1..Len(q) : q[i] = r[i]
  BY PrefixMeans, PathsAreSequences
<1>3. ~(Len(p) <= Len(q))
  <2> SUFFICES ASSUME Len(p) <= Len(q) PROVE FALSE
    OBVIOUS
  <2>1. \A i \in 1..Len(p) : p[i] = q[i]
    BY <1>1, <1>2
  <2> QED
    BY <2>1, PrefixMeans, PathsAreSequences
<1>4. Len(q) <= Len(p) /\ \A i \in 1..Len(q) : q[i] = p[i]
  BY <1>1, <1>2, <1>3
<1> QED
  BY <1>4, PrefixMeans, PathsAreSequences

\* Whatever a path is in, other than itself, its folder is in too.
LEMMA FolderOfPath ==
  ASSUME NEW d \in Paths, NEW q \in Paths, IsPrefix(q, d), q # d, Front(d) \in Paths
  PROVE  IsPrefix(q, Front(d))
<1>1. Len(d) \in Nat /\ Len(q) \in Nat /\ d \in Seq(STRING) /\ q \in Seq(STRING)
  BY PathsAreSequences, LenProperties
<1>2. Len(q) <= Len(d) /\ \A i \in 1..Len(q) : q[i] = d[i]
  BY PrefixMeans, <1>1
<1>3. Len(q) # Len(d)
  BY <1>1, <1>2, SeqEqual
<1>4. Len(d) - 1 \in Nat /\ Len(q) <= Len(d) - 1
  BY <1>1, <1>2, <1>3
<1>5. Len(Front(d)) = Len(d) - 1 /\ \A i \in 1..(Len(d) - 1) : Front(d)[i] = d[i]
  <2>1. Front(d) = [i \in 1..(Len(d) - 1) |-> d[i]]
    BY <1>1, <1>4 DEF Front
  <2>2. Len(Front(d)) = Len(d) - 1
    BY <2>1, <1>4
  <2> QED
    BY <2>1, <2>2
<1>6. Len(q) <= Len(Front(d)) /\ \A i \in 1..Len(q) : q[i] = Front(d)[i]
  BY <1>1, <1>2, <1>4, <1>5
<1> QED
  BY <1>6, <1>1, PrefixMeans, PathsAreSequences

\* Where an entry below the destination d comes from: the same place below p.
LEMMA MovedPath ==
  ASSUME NEW p \in Seq(STRING), NEW d \in Seq(STRING), NEW r \in Seq(STRING),
         Len(d) <= Len(r)
  PROVE  LET f == From(r, p, d) IN
         /\ f \in Seq(STRING)
         /\ Len(f) = Len(p) + (Len(r) - Len(d))
         /\ \A i \in 1..Len(p) : f[i] = p[i]
         /\ \A i \in (Len(p) + 1)..Len(f) : f[i] = r[(i - Len(p)) + Len(d)]
<1> DEFINE tail == SubSeq(r, Len(d) + 1, Len(r))
           f == p \o tail
<1>1. Len(p) \in Nat /\ Len(d) \in Nat /\ Len(r) \in Nat
  BY LenProperties
<1>2. /\ tail = [i \in 1..(Len(r) - Len(d)) |-> r[i + Len(d)]]
      /\ tail \in Seq(STRING)
      /\ Len(tail) = Len(r) - Len(d)
  <2>1. tail = [i \in 1..(Len(r) - Len(d)) |-> r[i + Len(d)]]
    BY <1>1
  <2>2. Len(r) - Len(d) \in Nat
    BY <1>1
  <2>3. Len(tail) = Len(r) - Len(d)
    BY <2>1, <2>2
  <2>4. ASSUME NEW i \in 1..(Len(r) - Len(d))
        PROVE  r[i + Len(d)] \in STRING
    <3>1. i + Len(d) \in 1..Len(r)
      BY <1>1
    <3> QED
      BY <3>1, ElementOfSeq
  <2>5. tail \in [1..(Len(r) - Len(d)) -> STRING]
    BY <2>1, <2>4
  <2>6. tail \in Seq(STRING)
    BY <2>5, <2>2
  <2> QED
    BY <2>1, <2>3, <2>6
<1>3. /\ f \in Seq(STRING) /\ Len(f) = Len(p) + Len(tail)
      /\ \A i \in 1..Len(p) : f[i] = p[i]
      /\ \A i \in (Len(p) + 1)..(Len(p) + Len(tail)) : f[i] = tail[i - Len(p)]
  <2> HIDE DEF tail
  <2>1. tail \in Seq(STRING)
    BY <1>2
  <2>2. /\ f \in Seq(STRING) /\ Len(f) = Len(p) + Len(tail)
        /\ \A i \in 1..(Len(p) + Len(tail)) : f[i] = IF i <= Len(p) THEN p[i] ELSE tail[i - Len(p)]
    BY <2>1, ConcatProperties
  <2>3. Len(tail) \in Nat
    BY <2>1, LenProperties
  <2> QED
    BY <2>2, <2>3, <1>1
<1>4. ASSUME NEW i \in (Len(p) + 1)..Len(f)
      PROVE  f[i] = r[(i - Len(p)) + Len(d)]
  <2> HIDE DEF f, tail
  <2>1. i \in (Len(p) + 1)..(Len(p) + Len(tail)) /\ i - Len(p) \in 1..(Len(r) - Len(d))
    BY <1>1, <1>2, <1>3
  <2>2. f[i] = tail[i - Len(p)]
    BY <2>1, <1>3
  <2> QED
    BY <2>1, <2>2, <1>2
<1>5. f = From(r, p, d)
  BY DEF From
<1> HIDE DEF f, tail
<1> QED
  BY <1>2, <1>3, <1>4, <1>5

\* What moves from p to d keeps its place below, there and back.
LEMMA MovesThereAndBack ==
  ASSUME NEW p \in Paths, NEW d \in Paths, NEW q \in Paths, IsPrefix(p, q),
         d \o SubSeq(q, Len(p) + 1, Len(q)) \in Paths
  PROVE  LET r == d \o SubSeq(q, Len(p) + 1, Len(q)) IN
         IsPrefix(d, r) /\ From(r, p, d) = q
<1> DEFINE r == From(q, d, p)
<1>0. p \in Seq(STRING) /\ d \in Seq(STRING) /\ q \in Seq(STRING)
  BY PathsAreSequences
<1>1. Len(p) \in Nat /\ Len(d) \in Nat /\ Len(q) \in Nat
  BY <1>0, LenProperties
<1>2. Len(p) <= Len(q) /\ \A i \in 1..Len(p) : p[i] = q[i]
  BY <1>0, PrefixMeans
<1>3. /\ r \in Seq(STRING) /\ Len(r) = Len(d) + (Len(q) - Len(p))
      /\ \A i \in 1..Len(d) : r[i] = d[i]
      /\ \A i \in (Len(d) + 1)..Len(r) : r[i] = q[(i - Len(d)) + Len(p)]
  BY <1>0, <1>2, MovedPath
<1> HIDE DEF r
<1>4. Len(d) <= Len(r)
  BY <1>1, <1>2, <1>3
<1>5. IsPrefix(d, r)
  BY <1>0, <1>3, <1>4, PrefixMeans
<1> DEFINE f == From(r, p, d)
<1>6. /\ f \in Seq(STRING) /\ Len(f) = Len(p) + (Len(r) - Len(d))
      /\ \A i \in 1..Len(p) : f[i] = p[i]
      /\ \A i \in (Len(p) + 1)..Len(f) : f[i] = r[(i - Len(p)) + Len(d)]
  BY <1>0, <1>3, <1>4, MovedPath
<1> HIDE DEF f
<1>7. Len(f) = Len(q)
  BY <1>1, <1>3, <1>6
<1>8. ASSUME NEW i \in 1..Len(q)
      PROVE  f[i] = q[i]
  <2>1. CASE i \in 1..Len(p)
    BY <2>1, <1>2, <1>6
  <2>2. CASE i \notin 1..Len(p)
    <3>1. i \in (Len(p) + 1)..Len(f) /\ (i - Len(p)) + Len(d) \in (Len(d) + 1)..Len(r)
      BY <1>1, <1>3, <1>7, <2>2
    <3>2. f[i] = r[(i - Len(p)) + Len(d)]
      BY <3>1, <1>6
    <3>3. r[(i - Len(p)) + Len(d)] = q[(((i - Len(p)) + Len(d)) - Len(d)) + Len(p)]
      BY <3>1, <1>3
    <3>4. (((i - Len(p)) + Len(d)) - Len(d)) + Len(p) = i
      BY <1>1
    <3> QED
      BY <3>2, <3>3, <3>4
  <2> QED
    BY <2>1, <2>2
<1>9. f = q
  BY <1>0, <1>6, <1>7, <1>8, SeqEqual
<1> QED
  BY <1>5, <1>9 DEF f, r, From

\* The folders of what has moved come from the folders of what it was.
LEMMA MovedFolders ==
  ASSUME NEW p \in Paths, NEW d \in Paths, NEW q \in Paths, NEW r \in Paths,
         IsPrefix(d, q), IsPrefix(q, r), From(r, p, d) \in Paths
  PROVE  From(q, p, d) \in Paths /\ IsPrefix(From(q, p, d), From(r, p, d))
         /\ IsPrefix(p, From(r, p, d))
<1>0. p \in Seq(STRING) /\ d \in Seq(STRING) /\ q \in Seq(STRING) /\ r \in Seq(STRING)
  BY PathsAreSequences
<1>1. Len(p) \in Nat /\ Len(d) \in Nat /\ Len(q) \in Nat /\ Len(r) \in Nat
  BY <1>0, LenProperties
<1>2. /\ Len(d) <= Len(q) /\ Len(q) <= Len(r)
      /\ \A i \in 1..Len(q) : q[i] = r[i]
  BY <1>0, PrefixMeans
<1> DEFINE f == From(q, p, d)
           g == From(r, p, d)
<1>3. /\ f \in Seq(STRING) /\ Len(f) = Len(p) + (Len(q) - Len(d))
      /\ \A i \in 1..Len(p) : f[i] = p[i]
      /\ \A i \in (Len(p) + 1)..Len(f) : f[i] = q[(i - Len(p)) + Len(d)]
  BY <1>0, <1>2, MovedPath
<1>4. Len(d) <= Len(r)
  BY <1>1, <1>2
<1>5. /\ g \in Seq(STRING) /\ Len(g) = Len(p) + (Len(r) - Len(d))
      /\ \A i \in 1..Len(p) : g[i] = p[i]
      /\ \A i \in (Len(p) + 1)..Len(g) : g[i] = r[(i - Len(p)) + Len(d)]
  BY <1>0, <1>4, MovedPath
<1>6. g \in Paths
  OBVIOUS
<1> HIDE DEF f, g
<1>7. Len(p) <= Len(f) /\ Len(f) <= Len(g) /\ Len(p) <= Len(g) /\ Len(f) \in Nat /\ Len(g) \in Nat
  BY <1>1, <1>2, <1>3, <1>5
<1>8. ASSUME NEW i \in 1..Len(f)
      PROVE  f[i] = g[i]
  <2>1. CASE i \in 1..Len(p)
    BY <2>1, <1>3, <1>5
  <2>2. CASE i \notin 1..Len(p)
    <3>1. i \in (Len(p) + 1)..Len(f) /\ i \in (Len(p) + 1)..Len(g)
          /\ (i - Len(p)) + Len(d) \in 1..Len(q)
      BY <1>1, <1>3, <1>7, <2>2
    <3> QED
      BY <3>1, <1>2, <1>3, <1>5
  <2> QED
    BY <2>1, <2>2
<1>9. IsPrefix(f, g) /\ IsPrefix(p, g)
  BY <1>0, <1>3, <1>5, <1>7, <1>8, PrefixMeans
<1>10. f \in Paths
  <2>1. f = SubSeq(g, 1, Len(f))
    <3>1. SubSeq(f, 1, Len(f)) = SubSeq(g, 1, Len(f))
      BY <1>9 DEF IsPrefix
    <3> QED
      BY <3>1, SubSeqFull, <1>3
  <2>2. CASE Len(f) \in 1..Len(g)
    BY <2>1, <2>2, <1>6, PathsAssumption
  <2>3. CASE Len(f) = 0
    <3>1. Len(p) = 0
      BY <2>3, <1>1, <1>7
    <3>2. f = p
      BY <1>0, <1>3, <2>3, <3>1, SeqEqual
    <3> QED
      BY <3>2
  <2> QED
    BY <2>2, <2>3, <1>7
<1> QED
  BY <1>9, <1>10 DEF f, g

-----------------------------------------------------------------------------
(* Turns: a step of a turn changes its own call, stage and answer.         *)

TurnsType ==
  /\ call = [t \in Turns |-> call[t]]
  /\ at = [t \in Turns |-> at[t]]
  /\ asked = [t \in Turns |-> asked[t]]

Moves(t, c, a, k) ==
  /\ call' = [call EXCEPT ![t] = c]
  /\ at' = [at EXCEPT ![t] = a]
  /\ asked' = [asked EXCEPT ![t] = k]

LEMMA MovesOneTurn ==
  ASSUME TurnsType, NEW t \in Turns, NEW c, NEW a, NEW k, Moves(t, c, a, k)
  PROVE  /\ TurnsType'
         /\ call'[t] = c /\ at'[t] = a /\ asked'[t] = k
         /\ \A u \in Turns \ {t} : call'[u] = call[u] /\ at'[u] = at[u] /\ asked'[u] = asked[u]
BY DEF TurnsType, Moves

LEMMA StayingIsMoving ==
  ASSUME TurnsType, NEW t \in Turns
  PROVE  /\ call = [call EXCEPT ![t] = call[t]]
         /\ at = [at EXCEPT ![t] = at[t]]
         /\ asked = [asked EXCEPT ![t] = asked[t]]
BY DEF TurnsType

LEMMA StepsMove ==
  ASSUME TurnsType, NEW t \in Turns
  PROVE  /\ \A c : Begins(t, c) => Moves(t, c, "call", asked[t])
         /\ Declines(t) => Moves(t, call[t], at[t], asked[t])
         /\ \A outcome : Ends(t, outcome) => Moves(t, NoCall, "idle", FALSE)
         /\ Refused(t) => Moves(t, NoCall, "idle", FALSE)
         /\ Asks(t) => Moves(t, call[t], "gate", asked[t])
         /\ Allows(t) => Moves(t, call[t], "allowed", TRUE)
         /\ Denies(t) => Moves(t, NoCall, "idle", FALSE)
         /\ \A done : Settles(t, done) => Moves(t, call[t], "after", asked[t])
<1> USE StayingIsMoving
<1>1. ASSUME NEW c, Begins(t, c) PROVE Moves(t, c, "call", asked[t])
  BY <1>1 DEF Begins, Moves
<1>2. ASSUME Declines(t) PROVE Moves(t, call[t], at[t], asked[t])
  BY <1>2 DEF Declines, Moves
<1>3. ASSUME NEW outcome, Ends(t, outcome) PROVE Moves(t, NoCall, "idle", FALSE)
  BY <1>3 DEF Ends, Moves
<1>4. ASSUME Refused(t) PROVE Moves(t, NoCall, "idle", FALSE)
  BY <1>3, <1>4 DEF Refused
<1>5. ASSUME Asks(t) PROVE Moves(t, call[t], "gate", asked[t])
  BY <1>5 DEF Asks, Moves
<1>6. ASSUME Allows(t) PROVE Moves(t, call[t], "allowed", TRUE)
  BY <1>6 DEF Allows, Moves
<1>7. ASSUME Denies(t) PROVE Moves(t, NoCall, "idle", FALSE)
  BY <1>3, <1>7 DEF Denies
<1>8. ASSUME NEW done, Settles(t, done) PROVE Moves(t, call[t], "after", asked[t])
  BY <1>8 DEF Settles, Moves
<1> QED
  BY <1>1, <1>2, <1>3, <1>4, <1>5, <1>6, <1>7, <1>8

-----------------------------------------------------------------------------
(* Network adapters.                                                       *)

Protects(c, a, k) ==
  /\ c # NoCall => IsDeviceCall(c)
  /\ (c # NoCall /\ c.op \in Disruptive /\ a = "allowed") => k
  /\ (c # NoCall /\ c.op \in Disruptive /\ a = "again") => c.seen # c.on

DevicesInv ==
  /\ TurnsType
  /\ \A t \in Turns : Protects(call[t], at[t], asked[t])

LEMMA DevicesStart == TurnsInit /\ DevicesInit => DevicesInv
BY DEF TurnsInit, DevicesInit, DevicesInv, TurnsType, Protects

\* It is enough to look at the turn that moves.
LEMMA DevicesMove ==
  ASSUME DevicesInv, NEW t \in Turns, NEW c, NEW a, NEW k, Moves(t, c, a, k), Protects(c, a, k)
  PROVE  DevicesInv'
<1>1. TurnsType
  BY DEF DevicesInv
<1>2. /\ TurnsType'
      /\ call'[t] = c /\ at'[t] = a /\ asked'[t] = k
      /\ \A u \in Turns \ {t} : call'[u] = call[u] /\ at'[u] = at[u] /\ asked'[u] = asked[u]
  BY <1>1, MovesOneTurn
<1>3. ASSUME NEW u \in Turns
      PROVE  Protects(call'[u], at'[u], asked'[u])
  <2>1. CASE u = t
    BY <2>1, <1>2
  <2>2. CASE u # t
    BY <2>2, <1>2 DEF DevicesInv
  <2> QED
    BY <2>1, <2>2
<1> QED
  BY <1>2, <1>3 DEF DevicesInv

LEMMA DeviceCallFields ==
  ASSUME NEW c, IsDeviceCall(c), NEW v, NEW o
  PROVE  /\ LET d == [c EXCEPT !.seen = v] IN
            IsDeviceCall(d) /\ d.op = c.op /\ d.on = c.on /\ d.seen = v
         /\ LET d == [c EXCEPT !.val = v] IN IsDeviceCall(d)
         /\ LET d == [c EXCEPT !.op = o, !.val = v] IN IsDeviceCall(d) /\ d.op = o
<1> DEFINE r == [op |-> c.op, on |-> c.on, val |-> c.val, seen |-> c.seen]
<1>1. c = r
  BY DEF IsDeviceCall
<1>2. [r EXCEPT !.seen = v] = [op |-> c.op, on |-> c.on, val |-> c.val, seen |-> v]
  OBVIOUS
<1>3. [r EXCEPT !.val = v] = [op |-> c.op, on |-> c.on, val |-> v, seen |-> c.seen]
  OBVIOUS
<1>4. ASSUME NEW s, NEW q, s = [op |-> o, on |-> c.on, val |-> q, seen |-> c.seen]
      PROVE  [s EXCEPT !.val = v] = [op |-> o, on |-> c.on, val |-> v, seen |-> c.seen]
  BY <1>4
<1>5. [r EXCEPT !.op = o] = [op |-> o, on |-> c.on, val |-> c.val, seen |-> c.seen]
  OBVIOUS
<1>6. [c EXCEPT !.op = o, !.val = v] = [[c EXCEPT !.op = o] EXCEPT !.val = v]
  OBVIOUS
<1> HIDE DEF r
<1>7. [c EXCEPT !.op = o, !.val = v] = [op |-> o, on |-> c.on, val |-> v, seen |-> c.seen]
  BY <1>1, <1>4, <1>5, <1>6
<1> QED
  BY <1>1, <1>2, <1>3, <1>7 DEF IsDeviceCall

\* A turn that settles, ends or is asked has nothing left to protect.
LEMMA DevicesStages ==
  ASSUME DevicesInv, NEW t \in Turns
  PROVE  /\ Protects(NoCall, "idle", FALSE)
         /\ Protects(call[t], at[t], asked[t])
         /\ Protects(call[t], "after", asked[t])
         /\ Protects(call[t], "allowed", TRUE)
BY DEF DevicesInv, Protects

LEMMA DevicesTurn ==
  ASSUME DevicesInv, NEW t \in Turns,
         \/ Declines(t) \/ (\E outcome : Ends(t, outcome)) \/ Allows(t) \/ Denies(t)
         \/ \E done : Settles(t, done)
  PROVE  DevicesInv'
<1>1. TurnsType
  BY DEF DevicesInv
<1>2. \/ Moves(t, call[t], at[t], asked[t]) \/ Moves(t, NoCall, "idle", FALSE)
      \/ Moves(t, call[t], "allowed", TRUE) \/ Moves(t, call[t], "after", asked[t])
  BY <1>1, StepsMove
<1> QED
  BY <1>2, DevicesStages, DevicesMove

LEMMA DevicesNextStep ==
  ASSUME DevicesInv, [DevicesNext]_<<turnVars, deviceVars>>
  PROVE  DevicesInv'
<1>0. TurnsType
  BY DEF DevicesInv
<1>1. CASE UNCHANGED turnVars
  BY <1>1 DEF turnVars, DevicesInv, TurnsType
<1>2. ASSUME NEW t \in Turns, StartsDevice(t)
      PROVE  DevicesInv'
  <2>1. PICK c \in DeviceCalls[t] : Begins(t, Clamped(c))
    BY <1>2 DEF StartsDevice
  <2>2. IsDeviceCall(c)
    BY DeviceCallsAssumption
  <2>3. IsDeviceCall(Clamped(c))
    BY <2>2, DeviceCallFields DEF Clamped
  <2>4. Moves(t, Clamped(c), "call", asked[t])
    BY <2>1, <1>0, StepsMove
  <2>5. Protects(Clamped(c), "call", asked[t])
    BY <2>3 DEF Protects
  <2> QED
    BY <2>4, <2>5, DevicesMove
<1>3. ASSUME NEW t \in Turns, ChecksAdapter(t)
      PROVE  DevicesInv'
  <2>1. PICK active : /\ call' = [call EXCEPT ![t].seen = active]
                      /\ at' = [at EXCEPT ![t] = IF active = call[t].on THEN "gate" ELSE "again"]
    BY <1>3 DEF ChecksAdapter
  <2> DEFINE c == [call[t] EXCEPT !.seen = active]
             a == IF active = call[t].on THEN "gate" ELSE "again"
  <2>2. call[t] # NoCall /\ asked' = asked
    BY <1>3 DEF ChecksAdapter, Does
  <2>3. IsDeviceCall(call[t])
    BY <2>2 DEF DevicesInv, Protects
  <2>4. IsDeviceCall(c) /\ c.op = call[t].op /\ c.on = call[t].on /\ c.seen = active
    BY <2>3, DeviceCallFields
  <2>5. Moves(t, c, a, asked[t])
    BY <2>1, <2>2, <1>0, StayingIsMoving DEF Moves
  <2> HIDE DEF c
  <2>6. Protects(c, a, asked[t])
    BY <2>4 DEF Protects
  <2> HIDE DEF a
  <2> QED
    BY <2>5, <2>6, DevicesMove
<1>4. ASSUME NEW t \in Turns, ReadsVolume(t)
      PROVE  DevicesInv'
  <2>1. PICK v : call' = [call EXCEPT ![t] = [call[t] EXCEPT !.op = "set_volume", !.val = v]]
    BY <1>4 DEF ReadsVolume
  <2> DEFINE c == [call[t] EXCEPT !.op = "set_volume", !.val = v]
  <2>2. call[t] # NoCall /\ asked' = asked /\ at' = at /\ at[t] = "call"
    BY <1>4 DEF ReadsVolume, Does
  <2>3. IsDeviceCall(call[t])
    BY <2>2 DEF DevicesInv, Protects
  <2>4. IsDeviceCall(c)
    BY <2>3, DeviceCallFields
  <2>5. Moves(t, c, "call", asked[t])
    BY <2>1, <2>2, <1>0, StayingIsMoving DEF Moves
  <2> HIDE DEF c
  <2>6. Protects(c, "call", asked[t])
    BY <2>4 DEF Protects
  <2> QED
    BY <2>5, <2>6, DevicesMove
<1>5. ASSUME NEW t \in Turns, DeviceStep(t)
      PROVE  DevicesInv'
  <2>1. CASE RejectsDevice(t) \/ Refuses(t)
    BY <2>1, DevicesTurn DEF RejectsDevice, Refuses
  <2>2. CASE AllowsDisruption(t) \/ DeniesDisruption(t)
    BY <2>2, DevicesTurn DEF AllowsDisruption, DeniesDisruption
  <2>3. CASE EnablesAdapter(t) \/ DisablesAdapter(t) \/ ConfiguresAdapter(t) \/ ReleasesAll(t)
             \/ Renews(t) \/ AdapterFails(t)
    BY <2>3, DevicesTurn
    DEF EnablesAdapter, DisablesAdapter, ConfiguresAdapter, ReleasesAll, Renews, AdapterFails
  <2>4. CASE SetsVolume(t) \/ RefusesVolume(t) \/ SetsMute(t) \/ PressesKey(t)
             \/ ShowsNotice(t) \/ SetsTooltip(t)
    BY <2>4, DevicesTurn
    DEF SetsVolume, RefusesVolume, SetsMute, PressesKey, ShowsNotice, SetsTooltip
  <2>5. CASE LooksAtNetwork(t) \/ LooksAtDevices(t) \/ LooksAtNotices(t) \/ DeviceFails(t)
             \/ ReturnsDevice(t)
    BY <2>5, DevicesTurn
    DEF LooksAtNetwork, LooksAtDevices, LooksAtNotices, DeviceFails, ShellFails, ReturnsDevice
  <2> QED
    BY <1>2, <1>3, <1>4, <1>5, <2>1, <2>2, <2>3, <2>4, <2>5 DEF DeviceStep
<1>6. RouteMoves => UNCHANGED turnVars
  BY DEF RouteMoves
<1>7. UNCHANGED <<turnVars, deviceVars>> => UNCHANGED turnVars
  OBVIOUS
<1> QED
  BY <1>1, <1>5, <1>6, <1>7 DEF DevicesNext

\* A step that touches the adapter of the connection is one of the three.
LEMMA DeviceStepTouches ==
  ASSUME DevicesInv, NEW t \in Turns, DeviceStep(t), NEW a \in Adapters, net'[a] # net[a],
         net = [b \in Adapters |-> net[b]]
  PROVE  \/ Checked(t) /\ call[t].on = a /\ (asked[t] \/ call[t].seen # a)
         \/ Does(t, {"release_dhcp"}) /\ call[t].on = NoAdapter
         \/ Does(t, {"renew_dhcp", "enable_network_adapter"})
<1>1. ASSUME Checked(t)
      PROVE  asked[t] \/ call[t].seen # call[t].on
  BY <1>1 DEF Checked, Does, DevicesInv, Protects
<1>2. CASE DisablesAdapter(t)
  <2>1. call[t].on = a
    BY <1>2 DEF DisablesAdapter
  <2> QED
    BY <2>1, <1>1, <1>2 DEF DisablesAdapter
<1>3. CASE ConfiguresAdapter(t)
  <2>1. PICK n : net' = [net EXCEPT ![call[t].on] = n]
    BY <1>3 DEF ConfiguresAdapter
  <2>2. call[t].on = a
    BY <2>1
  <2> QED
    BY <2>2, <1>1, <1>3 DEF ConfiguresAdapter
<1>4. CASE ReleasesAll(t)
  BY <1>4 DEF ReleasesAll
<1>5. CASE Renews(t) \/ EnablesAdapter(t)
  BY <1>5 DEF Renews, EnablesAdapter, Does
<1>6. CASE UNCHANGED net
  BY <1>6
<1>7. StartsDevice(t) \/ RejectsDevice(t) \/ Refuses(t) \/ ChecksAdapter(t)
      \/ AllowsDisruption(t) \/ DeniesDisruption(t) \/ AdapterFails(t) \/ ReadsVolume(t)
      \/ SetsVolume(t) \/ RefusesVolume(t) \/ SetsMute(t) \/ PressesKey(t)
      \/ ShowsNotice(t) \/ SetsTooltip(t) \/ LooksAtNetwork(t) \/ LooksAtDevices(t)
      \/ LooksAtNotices(t) \/ DeviceFails(t) \/ ReturnsDevice(t) => UNCHANGED net
  BY DEF StartsDevice, RejectsDevice, Refuses, ChecksAdapter, AllowsDisruption,
     DeniesDisruption, AdapterFails, ReadsVolume, SetsVolume, RefusesVolume, SetsMute,
     PressesKey, ShowsNotice, SetsTooltip, LooksAtNetwork, LooksAtDevices,
     LooksAtNotices, DeviceFails, ReturnsDevice, deviceVars
<1> QED
  BY <1>2, <1>3, <1>4, <1>5, <1>6, <1>7 DEF DeviceStep

NetType == net = [b \in Adapters |-> net[b]]

LEMMA NetTypeStep ==
  ASSUME NetType, [DevicesNext]_<<turnVars, deviceVars>>
  PROVE  NetType'
<1>1. CASE UNCHANGED net
  BY <1>1 DEF NetType
<1>2. ASSUME NEW t \in Turns, DeviceStep(t)
      PROVE  NetType'
  <2>1. CASE EnablesAdapter(t) \/ DisablesAdapter(t)
    BY <2>1 DEF EnablesAdapter, DisablesAdapter, NetType
  <2>2. CASE ConfiguresAdapter(t)
    <3>1. PICK n : net' = [net EXCEPT ![call[t].on] = n]
      BY <2>2 DEF ConfiguresAdapter
    <3> QED
      BY <3>1 DEF NetType
  <2>3. CASE ReleasesAll(t)
    BY <2>3 DEF ReleasesAll, NetType
  <2>4. CASE Renews(t)
    BY <2>4, <1>1 DEF Renews, NetType
  <2>5. StartsDevice(t) \/ RejectsDevice(t) \/ Refuses(t) \/ ChecksAdapter(t)
        \/ AllowsDisruption(t) \/ DeniesDisruption(t) \/ AdapterFails(t) \/ ReadsVolume(t)
        \/ SetsVolume(t) \/ RefusesVolume(t) \/ SetsMute(t) \/ PressesKey(t)
        \/ ShowsNotice(t) \/ SetsTooltip(t) \/ LooksAtNetwork(t) \/ LooksAtDevices(t)
        \/ LooksAtNotices(t) \/ DeviceFails(t) \/ ReturnsDevice(t) => UNCHANGED net
    BY DEF StartsDevice, RejectsDevice, Refuses, ChecksAdapter, AllowsDisruption,
       DeniesDisruption, AdapterFails, ReadsVolume, SetsVolume, RefusesVolume, SetsMute,
       PressesKey, ShowsNotice, SetsTooltip, LooksAtNetwork, LooksAtDevices,
       LooksAtNotices, DeviceFails, ReturnsDevice, deviceVars
  <2> QED
    BY <1>1, <1>2, <2>1, <2>2, <2>3, <2>4, <2>5 DEF DeviceStep
<1>3. RouteMoves \/ UNCHANGED <<turnVars, deviceVars>> => UNCHANGED net
  BY DEF RouteMoves, deviceVars
<1> QED
  BY <1>1, <1>2, <1>3 DEF DevicesNext

\* What a step may do to the adapter that carries the connection.
ProtectedStep ==
  \A a \in Adapters :
    (route = a /\ net'[a] # net[a] /\ (net[a].up => ~net'[a].up \/ net'[a].ip # net[a].ip
                                          \/ net'[a].dns # net[a].dns)) =>
      \E t \in Turns :
        \/ Checked(t) /\ call[t].on = a /\ (asked[t] \/ call[t].seen # a)
        \/ Does(t, {"release_dhcp"}) /\ call[t].on = NoAdapter
        \/ Does(t, {"renew_dhcp", "enable_network_adapter"})

\* For any turns, calls and adapters, and wherever the route moves between a
\* turn's check and its command: an adapter that was the active one when its
\* turn looked is not disabled or configured unless the person was asked
\* (NetworkManager.checkActiveAdapterProtection).
THEOREM ConnectionsAreProtected == DevicesSpec => ConnectionIsProtected
<1>1. TurnsInit /\ DevicesInit => DevicesInv /\ NetType
  BY DevicesStart DEF DevicesInit, NetType
<1>2. (DevicesInv /\ NetType) /\ [DevicesNext]_<<turnVars, deviceVars>> => (DevicesInv /\ NetType)'
  BY DevicesNextStep, NetTypeStep
<1>3. (DevicesInv /\ NetType) /\ [DevicesNext]_<<turnVars, deviceVars>>
        => [ProtectedStep]_<<turnVars, deviceVars>>
  <2> SUFFICES ASSUME DevicesInv, NetType, DevicesNext, NEW a \in Adapters, net'[a] # net[a]
               PROVE  \E t \in Turns :
                        \/ Checked(t) /\ call[t].on = a /\ (asked[t] \/ call[t].seen # a)
                        \/ Does(t, {"release_dhcp"}) /\ call[t].on = NoAdapter
                        \/ Does(t, {"renew_dhcp", "enable_network_adapter"})
    BY DEF ProtectedStep
  <2>1. ~RouteMoves
    BY DEF RouteMoves
  <2>2. PICK t \in Turns : DeviceStep(t)
    BY <2>1 DEF DevicesNext
  <2> QED
    BY <2>2, DeviceStepTouches DEF NetType
<1>4. QED
  BY <1>1, <1>2, <1>3, PTL DEF DevicesSpec, ConnectionIsProtected, ProtectedStep

-----------------------------------------------------------------------------
(* Services, scheduled tasks and the registry.                             *)

Answered(c, a, k) ==
  /\ (c # NoCall /\ c.op \in RegistryChanges) => Len(c.on) \in Nat
  /\ (c # NoCall /\ a = "allowed") => k
  /\ (c # NoCall /\ a = "again" /\ c.op \in {"stop_service", "restart_service"})
       => c.on \notin CriticalServices

ServicesInv ==
  /\ TurnsType
  /\ \A t \in Turns : Answered(call[t], at[t], asked[t])

LEMMA ServicesStart == TurnsInit /\ ServicesInit => ServicesInv
BY DEF TurnsInit, ServicesInit, ServicesInv, TurnsType, Answered

LEMMA ServicesMove ==
  ASSUME ServicesInv, NEW t \in Turns, NEW c, NEW a, NEW k, Moves(t, c, a, k), Answered(c, a, k)
  PROVE  ServicesInv'
<1>1. TurnsType
  BY DEF ServicesInv
<1>2. /\ TurnsType'
      /\ call'[t] = c /\ at'[t] = a /\ asked'[t] = k
      /\ \A u \in Turns \ {t} : call'[u] = call[u] /\ at'[u] = at[u] /\ asked'[u] = asked[u]
  BY <1>1, MovesOneTurn
<1>3. ASSUME NEW u \in Turns
      PROVE  Answered(call'[u], at'[u], asked'[u])
  <2>1. CASE u = t
    BY <2>1, <1>2
  <2>2. CASE u # t
    BY <2>2, <1>2 DEF ServicesInv
  <2> QED
    BY <2>1, <2>2
<1> QED
  BY <1>2, <1>3 DEF ServicesInv

LEMMA ServicesTurn ==
  ASSUME ServicesInv, NEW t \in Turns,
         \/ \E outcome : Ends(t, outcome)
         \/ Asks(t) \/ Allows(t) \/ Denies(t)
         \/ \E done : Settles(t, done)
  PROVE  ServicesInv'
<1>1. TurnsType
  BY DEF ServicesInv
<1>2. \/ Moves(t, NoCall, "idle", FALSE) \/ Moves(t, call[t], "gate", asked[t])
      \/ Moves(t, call[t], "allowed", TRUE) \/ Moves(t, call[t], "after", asked[t])
  BY <1>1, StepsMove
<1>3. /\ Answered(NoCall, "idle", FALSE) /\ Answered(call[t], "gate", asked[t])
      /\ Answered(call[t], "allowed", TRUE) /\ Answered(call[t], "after", asked[t])
  BY DEF ServicesInv, Answered
<1> QED
  BY <1>2, <1>3, ServicesMove

\* A turn that only goes on: its call and its answer stay.
LEMMA ServicesGoesOn ==
  ASSUME ServicesInv, NEW t \in Turns, NEW a, at' = [at EXCEPT ![t] = a],
         UNCHANGED <<call, asked>>, Answered(call[t], a, asked[t])
  PROVE  ServicesInv'
<1>1. Moves(t, call[t], a, asked[t])
  BY StayingIsMoving DEF Moves, ServicesInv
<1> QED
  BY <1>1, ServicesMove

LEMMA ServicesNextStep ==
  ASSUME ServicesInv, [ServicesNext]_<<turnVars, serviceVars>>
  PROVE  ServicesInv'
<1>0. TurnsType
  BY DEF ServicesInv
<1>1. CASE UNCHANGED turnVars
  BY <1>1 DEF turnVars, ServicesInv, TurnsType
<1>2. ASSUME NEW t \in Turns, StartsService(t)
      PROVE  ServicesInv'
  <2>1. PICK c \in ServiceCalls[t] : Begins(t, c)
    BY <1>2 DEF StartsService
  <2>2. Moves(t, c, "call", asked[t])
    BY <2>1, <1>0, StepsMove
  <2>3. Answered(c, "call", asked[t])
    BY ServiceCallsAssumption DEF Answered
  <2> QED
    BY <2>2, <2>3, ServicesMove
<1>3. ASSUME NEW t \in Turns, FindsService(t)
      PROVE  ServicesInv'
  <2>1. CASE ~Present(call[t].on)
    BY <1>3, <2>1, ServicesTurn DEF FindsService
  <2>2. CASE Asks(t)
    BY <2>2, ServicesTurn
  <2>3. CASE /\ call[t].on \notin CriticalServices
             /\ at' = [at EXCEPT ![t] = "again"] /\ UNCHANGED <<backend, call, ok, asked>>
    <3>1. Answered(call[t], "again", asked[t])
      BY <2>3 DEF Answered, ServicesInv
    <3> QED
      BY <2>3, <3>1, ServicesGoesOn
  <2> QED
    BY <1>3, <2>1, <2>2, <2>3 DEF FindsService
<1>4. ASSUME NEW t \in Turns, StopsService(t)
      PROVE  ServicesInv'
  <2>1. CASE call[t].op = "restart_service"
    <3>1. at' = [at EXCEPT ![t] = "last"] /\ UNCHANGED <<backend, call, ok, asked>>
      BY <1>4, <2>1 DEF StopsService
    <3>2. Answered(call[t], "last", asked[t])
      BY DEF Answered, ServicesInv
    <3> QED
      BY <3>1, <3>2, ServicesGoesOn
  <2>2. CASE call[t].op # "restart_service"
    BY <1>4, <2>2, ServicesTurn DEF StopsService
  <2> QED
    BY <2>1, <2>2
<1>5. ASSUME NEW t \in Turns, ServiceStep(t)
      PROVE  ServicesInv'
  <2>1. CASE BeginsService(t) \/ PausesService(t) \/ DeletesService(t) \/ ServiceFails(t)
    BY <2>1, ServicesTurn DEF BeginsService, PausesService, DeletesService, ServiceFails
  <2>2. CASE AsksFirst(t) \/ AllowsChange(t) \/ DeniesChange(t)
    BY <2>2, ServicesTurn DEF AsksFirst, AllowsChange, DeniesChange
  <2>3. CASE SwitchesTask(t) \/ CreatesTask(t) \/ DeletesTask(t) \/ TaskFails(t)
    BY <2>3, ServicesTurn DEF SwitchesTask, CreatesTask, DeletesTask, TaskFails
  <2>4. CASE WritesValue(t) \/ DeletesValue(t) \/ DeletesKey(t) \/ RegistryFails(t)
    BY <2>4, ServicesTurn DEF WritesValue, DeletesValue, DeletesKey, RegistryFails, ShellFails
  <2>5. CASE LooksAtService(t) \/ LooksAtTask(t) \/ LooksAtEntry(t) \/ ReturnsService(t)
    BY <2>5, ServicesTurn DEF LooksAtService, LooksAtTask, LooksAtEntry, ReturnsService
  <2> QED
    BY <1>2, <1>3, <1>4, <1>5, <2>1, <2>2, <2>3, <2>4, <2>5 DEF ServiceStep
<1>6. TaskEnds \/ UNCHANGED <<turnVars, serviceVars>> => UNCHANGED turnVars
  BY DEF TaskEnds
<1> QED
  BY <1>1, <1>5, <1>6 DEF ServicesNext

MachineType ==
  /\ status = [s \in Services |-> status[s]]
  /\ \A k \in tasks : IsTask(k)

\* Running, enabling or disabling a task leaves its name and its folder.
LEMMA SwitchedStays ==
  ASSUME NEW k, IsTask(k),
         NEW op \in {"run_scheduled_task", "enable_scheduled_task", "disable_scheduled_task"}
  PROVE  LET s == Switched(k, op) IN IsTask(s) /\ s.name = k.name /\ s.folder = k.folder
<1> DEFINE stays == IF backend = "reference" THEN FALSE ELSE k.running
<1>1. k = [name |-> k.name, folder |-> k.folder, enabled |-> k.enabled, running |-> k.running]
  BY DEF IsTask
<1>2. ASSUME NEW e, NEW r, NEW s,
             s = [name |-> k.name, folder |-> k.folder, enabled |-> e, running |-> r]
      PROVE  IsTask(s) /\ s.name = k.name /\ s.folder = k.folder
  BY <1>2 DEF IsTask
<1>3. ASSUME NEW e, NEW v, NEW s,
             s = [name |-> k.name, folder |-> k.folder, enabled |-> e, running |-> k.running]
      PROVE  [s EXCEPT !.running = v]
               = [name |-> k.name, folder |-> k.folder, enabled |-> e, running |-> v]
  BY <1>3
<1>4. ASSUME NEW e
      PROVE  [k EXCEPT !.enabled = e]
               = [name |-> k.name, folder |-> k.folder, enabled |-> e, running |-> k.running]
  BY <1>1
<1>5. ASSUME NEW e, NEW v
      PROVE  [k EXCEPT !.enabled = e, !.running = v]
               = [name |-> k.name, folder |-> k.folder, enabled |-> e, running |-> v]
  <2>1. [k EXCEPT !.enabled = e, !.running = v] = [[k EXCEPT !.enabled = e] EXCEPT !.running = v]
    OBVIOUS
  <2> QED
    BY <2>1, <1>3, <1>4
<1> HIDE DEF stays
<1>6. CASE op = "run_scheduled_task"
  <2>1. Switched(k, op) = [k EXCEPT !.running = TRUE]
    BY <1>6 DEF Switched
  <2>2. [k EXCEPT !.running = TRUE]
          = [name |-> k.name, folder |-> k.folder, enabled |-> k.enabled, running |-> TRUE]
    BY <1>1, <1>3
  <2> QED
    BY <2>1, <2>2, <1>2
<1>7. CASE op = "enable_scheduled_task"
  <2>1. Switched(k, op) = [k EXCEPT !.enabled = TRUE, !.running = stays]
    BY <1>7 DEF Switched, stays
  <2> QED
    BY <2>1, <1>5, <1>2
<1>8. CASE op = "disable_scheduled_task"
  <2>1. Switched(k, op) = [k EXCEPT !.enabled = FALSE, !.running = stays]
    BY <1>8 DEF Switched, stays
  <2> QED
    BY <2>1, <1>5, <1>2
<1> QED
  BY <1>6, <1>7, <1>8

LEMMA EndedStays ==
  ASSUME NEW k, IsTask(k)
  PROVE  LET s == [k EXCEPT !.running = FALSE] IN
         IsTask(s) /\ s.name = k.name /\ s.folder = k.folder
<1> DEFINE s == [k EXCEPT !.running = FALSE]
<1> DEFINE r == [name |-> k.name, folder |-> k.folder, enabled |-> k.enabled,
                 running |-> k.running]
<1>0. k = r
  BY DEF IsTask
<1>1. s = [name |-> k.name, folder |-> k.folder, enabled |-> k.enabled, running |-> FALSE]
  <2>1. ASSUME NEW j, NEW v, j = r
        PROVE  [j EXCEPT !.running = v]
                 = [name |-> k.name, folder |-> k.folder, enabled |-> k.enabled, running |-> v]
    BY <2>1
  <2> HIDE DEF r
  <2> QED
    BY <2>1, <1>0
<1> HIDE DEF s
<1>2. s.name = k.name /\ s.folder = k.folder /\ s.enabled = k.enabled /\ s.running = FALSE
  BY <1>1
<1>3. IsTask(s)
  BY <1>1, <1>2 DEF IsTask
<1> QED
  BY <1>2, <1>3 DEF s

\* Which steps touch what.
LEMMA ServicesElsewhere ==
  ASSUME NEW t \in Turns, ServiceStep(t)
  PROVE  /\ \/ UNCHANGED status
            \/ BeginsService(t) \/ StopsService(t) \/ PausesService(t) \/ DeletesService(t)
         /\ \/ UNCHANGED tasks
            \/ SwitchesTask(t) \/ CreatesTask(t) \/ DeletesTask(t)
         /\ \/ UNCHANGED entries
            \/ WritesValue(t) \/ DeletesValue(t) \/ DeletesKey(t)
<1>1. CASE StartsService(t) \/ FindsService(t) \/ ServiceFails(t) \/ AsksFirst(t)
           \/ AllowsChange(t) \/ DeniesChange(t) \/ TaskFails(t) \/ RegistryFails(t)
           \/ LooksAtService(t) \/ LooksAtTask(t) \/ LooksAtEntry(t) \/ ReturnsService(t)
  BY <1>1 DEF StartsService, FindsService, ServiceFails, AsksFirst, AllowsChange,
     DeniesChange, TaskFails, RegistryFails, LooksAtService, LooksAtTask, LooksAtEntry,
     ReturnsService, serviceVars
<1>2. BeginsService(t) \/ StopsService(t) \/ PausesService(t) \/ DeletesService(t)
        => UNCHANGED <<tasks, entries>>
  BY DEF BeginsService, StopsService, PausesService, DeletesService
<1>3. SwitchesTask(t) \/ CreatesTask(t) \/ DeletesTask(t) => UNCHANGED <<status, entries>>
  BY DEF SwitchesTask, CreatesTask, DeletesTask
<1>4. WritesValue(t) \/ DeletesValue(t) \/ DeletesKey(t) => UNCHANGED <<status, tasks>>
  BY DEF WritesValue, DeletesValue, DeletesKey
<1> QED
  BY <1>1, <1>2, <1>3, <1>4 DEF ServiceStep

LEMMA MachineTypeStep ==
  ASSUME MachineType, [ServicesNext]_<<turnVars, serviceVars>>
  PROVE  MachineType'
<1>1. ASSUME NEW t \in Turns, ServiceStep(t)
      PROVE  status' = [s \in Services |-> status'[s]]
  <2>1. ASSUME NEW s, SetsStatus(t, s)
        PROVE  status' = [status EXCEPT ![call[t].on] = s]
    BY <2>1 DEF SetsStatus, SetByReference, SetByCmdlet
  <2>2. UNCHANGED status \/ \E s : status' = [status EXCEPT ![call[t].on] = s]
    BY <1>1, <2>1, ServicesElsewhere
    DEF BeginsService, StopsService, PausesService, DeletesService
  <2> QED
    BY <2>2 DEF MachineType
<1>2. ASSUME NEW t \in Turns, ServiceStep(t)
      PROVE  \A k \in tasks' : IsTask(k)
  <2>1. CASE SwitchesTask(t)
    <3>1. \A k \in tasks' : k \in tasks \/ \E j \in tasks : k = Switched(j, call[t].op)
      BY <2>1 DEF SwitchesTask, Hit, HitByReference, HitByCmdlet, Twins
    <3>2. call[t].op \in {"run_scheduled_task", "enable_scheduled_task", "disable_scheduled_task"}
      BY <2>1 DEF SwitchesTask, Does
    <3> QED
      BY <3>1, <3>2, SwitchedStays DEF MachineType
  <2>2. CASE CreatesTask(t)
    <3>1. \A k \in tasks' : k \in tasks \/
             k = [name |-> call[t].on, folder |-> FolderOf(call[t]), enabled |-> TRUE, running |-> FALSE]
      BY <2>2 DEF CreatesTask
    <3>2. IsTask([name |-> call[t].on, folder |-> FolderOf(call[t]), enabled |-> TRUE,
                  running |-> FALSE])
      BY DEF IsTask
    <3> QED
      BY <3>1, <3>2 DEF MachineType
  <2>3. CASE DeletesTask(t)
    BY <2>3 DEF DeletesTask, MachineType
  <2> QED
    BY <1>2, <2>1, <2>2, <2>3, ServicesElsewhere DEF MachineType
<1>3. CASE TaskEnds
  <2>1. PICK k \in tasks : tasks' = (tasks \ {k}) \cup {[k EXCEPT !.running = FALSE]}
    BY <1>3 DEF TaskEnds
  <2>2. IsTask([k EXCEPT !.running = FALSE])
    BY EndedStays DEF MachineType
  <2> QED
    BY <1>3, <2>1, <2>2 DEF TaskEnds, MachineType
<1>4. CASE UNCHANGED <<turnVars, serviceVars>>
  BY <1>4 DEF serviceVars, MachineType
<1> QED
  BY <1>1, <1>2, <1>3, <1>4 DEF ServicesNext, MachineType

\* What a step may do to a service, a task and a registry value.
AskedService(s) ==
  /\ (s \in CriticalServices /\ status[s] # "stopped" /\ status'[s] = "stopped")
       => AskedFor({"stop_service", "restart_service"}, s)
  /\ (status[s] # "gone" /\ status'[s] = "gone") => AskedFor({"delete_service"}, s)

AskedTask(n, f) ==
  (\E k \in tasks : k.name = n /\ k.folder = f) # (\E k \in tasks' : k.name = n /\ k.folder = f)
    => AskedFor({"create_scheduled_task", "delete_scheduled_task"}, n)

AskedEntry(e) ==
  \E t \in Turns : Does(t, RegistryChanges) /\ asked[t] /\ IsPrefix(call[t].on, e.key)

\* Whoever is allowed was asked.
LEMMA AllowedIsAsked ==
  ASSUME ServicesInv, NEW t \in Turns, at[t] = "allowed", NEW ops, Does(t, ops)
  PROVE  asked[t] /\ AskedFor(ops, call[t].on)
<1>1. asked[t]
  BY DEF ServicesInv, Answered, Does
<1> QED
  BY <1>1 DEF AskedFor

LEMMA ServicesAreAsked ==
  ASSUME ServicesInv, MachineType, NEW t \in Turns, ServiceStep(t), NEW s \in Services
  PROVE  AskedService(s)
<1>1. ASSUME NEW v, SetsStatus(t, v), status'[s] # status[s]
      PROVE  call[t].on = s /\ status'[s] = v
  BY <1>1 DEF SetsStatus, SetByReference, SetByCmdlet, MachineType
<1>2. CASE UNCHANGED status
  BY <1>2 DEF AskedService
<1>3. CASE BeginsService(t)
  <2>1. status'[s] # status[s] => status'[s] = "running"
    BY <1>1, <1>3 DEF BeginsService
  <2> QED
    BY <2>1 DEF AskedService
<1>4. CASE PausesService(t)
  <2>1. status'[s] # status[s] => status'[s] \in {"paused", "running"}
    BY <1>1, <1>4 DEF PausesService
  <2> QED
    BY <2>1 DEF AskedService
<1>5. CASE StopsService(t)
  <2>1. status'[s] # status[s] => call[t].on = s /\ status'[s] = "stopped"
    BY <1>1, <1>5 DEF StopsService
  <2>2. Does(t, {"stop_service", "restart_service"}) /\ at[t] \in {"again", "allowed"}
    BY <1>5 DEF StopsService
  <2>3. ASSUME status'[s] # status[s], s \in CriticalServices
        PROVE  AskedFor({"stop_service", "restart_service"}, s)
    <3>1. at[t] # "again"
      BY <2>1, <2>2, <2>3 DEF ServicesInv, Answered, Does
    <3> QED
      BY <3>1, <2>1, <2>2, <2>3, AllowedIsAsked
  <2> QED
    BY <2>1, <2>3 DEF AskedService
<1>6. CASE DeletesService(t)
  <2>1. status'[s] # status[s] => call[t].on = s /\ status'[s] = "gone"
    BY <1>1, <1>6 DEF DeletesService
  <2>2. AskedFor({"delete_service"}, call[t].on)
    BY <1>6, AllowedIsAsked DEF DeletesService
  <2> QED
    BY <2>1, <2>2 DEF AskedService
<1> QED
  BY <1>2, <1>3, <1>4, <1>5, <1>6, ServicesElsewhere

LEMMA TasksAreAsked ==
  ASSUME ServicesInv, MachineType, NEW t \in Turns, ServiceStep(t), NEW n, NEW f
  PROVE  AskedTask(n, f)
<1>0. \A k \in Hit(call[t]) : k \in tasks /\ k.name = call[t].on
  BY DEF Hit, HitByReference, HitByCmdlet, Twins
<1>1. CASE UNCHANGED tasks
  BY <1>1 DEF AskedTask
<1>2. CASE SwitchesTask(t)
  <2> DEFINE op == call[t].op
             hit == Hit(call[t])
  <2>1. op \in {"run_scheduled_task", "enable_scheduled_task", "disable_scheduled_task"}
    BY <1>2 DEF SwitchesTask, Does
  <2>2. tasks' = (tasks \ hit) \cup {Switched(k, op) : k \in hit}
    BY <1>2 DEF SwitchesTask
  <2> HIDE DEF op, hit
  <2>3. \A k \in hit : k \in tasks /\ Switched(k, op).name = k.name /\ Switched(k, op).folder = k.folder
    BY <1>0, <2>1, SwitchedStays DEF hit, MachineType
  <2>4. ASSUME NEW k \in tasks, k.name = n, k.folder = f
        PROVE  \E j \in tasks' : j.name = n /\ j.folder = f
    <3>1. CASE k \in hit
      BY <3>1, <2>2, <2>3, <2>4
    <3>2. CASE k \notin hit
      BY <3>2, <2>2, <2>4
    <3> QED
      BY <3>1, <3>2
  <2>5. ASSUME NEW j \in tasks', j.name = n, j.folder = f
        PROVE  \E k \in tasks : k.name = n /\ k.folder = f
    BY <2>2, <2>3, <2>5
  <2> QED
    BY <2>4, <2>5 DEF AskedTask
<1>3. CASE CreatesTask(t)
  <2> DEFINE new == [name |-> call[t].on, folder |-> FolderOf(call[t]), enabled |-> TRUE,
                     running |-> FALSE]
  <2>1. tasks' = (tasks \ Hit(call[t])) \cup {new}
    BY <1>3 DEF CreatesTask
  <2>2. new.name = call[t].on
    OBVIOUS
  <2>3. AskedFor({"create_scheduled_task", "delete_scheduled_task"}, call[t].on)
    <3>1. Does(t, {"create_scheduled_task", "delete_scheduled_task"})
      BY <1>3 DEF CreatesTask, Does
    <3> QED
      BY <1>3, <3>1, AllowedIsAsked DEF CreatesTask
  <2> HIDE DEF new
  <2>4. CASE n = call[t].on
    BY <2>3, <2>4 DEF AskedTask
  <2>5. CASE n # call[t].on
    <3>1. \A k : k.name = n => (k \in tasks <=> k \in tasks')
      BY <1>0, <2>1, <2>2, <2>5
    <3> QED
      BY <3>1 DEF AskedTask
  <2> QED
    BY <2>4, <2>5
<1>4. CASE DeletesTask(t)
  <2>1. tasks' = tasks \ Hit(call[t])
    BY <1>4 DEF DeletesTask
  <2>2. AskedFor({"create_scheduled_task", "delete_scheduled_task"}, call[t].on)
    <3>1. Does(t, {"create_scheduled_task", "delete_scheduled_task"})
      BY <1>4 DEF DeletesTask, Does
    <3> QED
      BY <1>4, <3>1, AllowedIsAsked DEF DeletesTask
  <2>3. CASE n = call[t].on
    BY <2>2, <2>3 DEF AskedTask
  <2>4. CASE n # call[t].on
    <3>1. \A k : k.name = n => (k \in tasks <=> k \in tasks')
      BY <1>0, <2>1, <2>4
    <3> QED
      BY <3>1 DEF AskedTask
  <2> QED
    BY <2>3, <2>4
<1> QED
  BY <1>1, <1>2, <1>3, <1>4, ServicesElsewhere

LEMMA EntriesAreAsked ==
  ASSUME ServicesInv, NEW t \in Turns, ServiceStep(t),
         NEW e \in (entries \ entries') \cup (entries' \ entries)
  PROVE  AskedEntry(e)
<1>1. ASSUME Does(t, RegistryChanges)
      PROVE  IsPrefix(call[t].on, call[t].on)
  <2>1. Len(call[t].on) \in Nat
    BY <1>1 DEF Does, ServicesInv, Answered
  <2>2. Len(call[t].on) <= Len(call[t].on)
    BY <2>1
  <2> QED
    BY <2>2 DEF IsPrefix
<1>2. ASSUME Does(t, RegistryChanges), at[t] = "allowed", IsPrefix(call[t].on, e.key)
      PROVE  AskedEntry(e)
  BY <1>2, AllowedIsAsked DEF AskedEntry
<1>3. CASE WritesValue(t) \/ DeletesValue(t)
  <2>1. Does(t, RegistryChanges) /\ at[t] = "allowed"
    BY <1>3 DEF WritesValue, DeletesValue, Does, RegistryChanges
  <2>2. e.key = call[t].on
    <3> DEFINE new == [key |-> call[t].on, name |-> call[t].in, value |-> call[t].as]
    <3>1. entries' = (entries \ Same(call[t])) \cup {new} \/ entries' = entries \ Same(call[t])
      BY <1>3 DEF WritesValue, DeletesValue
    <3>2. new.key = call[t].on
      OBVIOUS
    <3> HIDE DEF new
    <3>3. \A x \in Same(call[t]) : x.key = call[t].on
      BY DEF Same
    <3> QED
      BY <3>1, <3>2, <3>3
  <2> QED
    BY <1>1, <1>2, <2>1, <2>2
<1>4. CASE DeletesKey(t)
  <2>1. Does(t, RegistryChanges) /\ at[t] = "allowed"
    BY <1>4 DEF DeletesKey, Does, RegistryChanges
  <2>2. e \in entries /\ (e.key = call[t].on \/ IsPrefix(call[t].on, e.key))
    BY <1>4 DEF DeletesKey, KeyByReference, KeyByCmdlet, Below
  <2> QED
    BY <1>1, <1>2, <2>1, <2>2
<1> QED
  BY <1>3, <1>4, ServicesElsewhere

\* What only a task does is no loss.
LEMMA EndsKeepTasks ==
  ASSUME MachineType, TaskEnds, NEW n, NEW f
  PROVE  AskedTask(n, f)
<1>1. PICK k \in tasks : tasks' = (tasks \ {k}) \cup {[k EXCEPT !.running = FALSE]}
  BY DEF TaskEnds
<1>2. [k EXCEPT !.running = FALSE].name = k.name /\ [k EXCEPT !.running = FALSE].folder = k.folder
  BY EndedStays DEF MachineType
<1> QED
  BY <1>1, <1>2 DEF AskedTask

DestructiveStep ==
  /\ \A s \in Services : AskedService(s)
  /\ \A n \in TaskNames : \A f \in TaskFolders : AskedTask(n, f)
  /\ \A e \in (entries \ entries') \cup (entries' \ entries) : AskedEntry(e)

\* For any turns and calls, over both systems: no critical service is
\* stopped, no service, task or registry value goes and no task or value is
\* written unless the person was asked in a call that names it
\* (ServiceManager, TaskSchedulerManager, RegistryInterface).
THEOREM DestructionsAreAsked == ServicesSpec => DestructionIsAsked
<1>1. TurnsInit /\ ServicesInit => ServicesInv /\ MachineType
  BY ServicesStart, InitialTasksAssumption DEF ServicesInit, MachineType
<1>2. (ServicesInv /\ MachineType) /\ [ServicesNext]_<<turnVars, serviceVars>>
        => (ServicesInv /\ MachineType)'
  BY ServicesNextStep, MachineTypeStep
<1>3. (ServicesInv /\ MachineType) /\ [ServicesNext]_<<turnVars, serviceVars>>
        => [DestructiveStep]_<<turnVars, serviceVars>>
  <2> SUFFICES ASSUME ServicesInv, MachineType, ServicesNext
               PROVE  DestructiveStep
    OBVIOUS
  <2>1. CASE TaskEnds
    <3>1. UNCHANGED <<status, entries>>
      BY <2>1 DEF TaskEnds
    <3> QED
      BY <2>1, <3>1, EndsKeepTasks DEF DestructiveStep, AskedService
  <2>2. ASSUME NEW t \in Turns, ServiceStep(t)
        PROVE  DestructiveStep
    BY <2>2, ServicesAreAsked, TasksAreAsked, EntriesAreAsked DEF DestructiveStep
  <2> QED
    BY <2>1, <2>2 DEF ServicesNext
<1>4. [DestructiveStep]_<<turnVars, serviceVars>> =>
      [/\ \A s \in Services :
            /\ (s \in CriticalServices /\ status[s] # "stopped" /\ status'[s] = "stopped")
                 => AskedFor({"stop_service", "restart_service"}, s)
            /\ (status[s] # "gone" /\ status'[s] = "gone") => AskedFor({"delete_service"}, s)
       /\ \A n \in TaskNames : \A f \in TaskFolders :
            LET there  == \E k \in tasks : k.name = n /\ k.folder = f
                stays == \E k \in tasks' : k.name = n /\ k.folder = f IN
            there # stays => AskedFor({"create_scheduled_task", "delete_scheduled_task"}, n)
       /\ \A e \in (entries \ entries') \cup (entries' \ entries) :
            \E t \in Turns : Does(t, RegistryChanges) /\ asked[t] /\ IsPrefix(call[t].on, e.key)
      ]_<<turnVars, serviceVars>>
  BY DEF DestructiveStep, AskedService, AskedTask, AskedEntry
<1> QED
  BY <1>1, <1>2, <1>3, <1>4, PTL DEF ServicesSpec, DestructionIsAsked

-----------------------------------------------------------------------------
(* Files: the turns.                                                       *)

Guarded == {"rename_file", "delete_file", "move_file"}

Granted(c, a, k) ==
  /\ c # NoCall => IsFileCall(c)
  /\ (c # NoCall /\ c.op \in Guarded) => c.path \notin Protected
  /\ (c # NoCall /\ a = "allowed" /\ c.op = "delete_file") => k

FileTurnsInv ==
  /\ TurnsType
  /\ reference # NoReference => reference.type \in {"url", "file", "folder"}
  /\ \A t \in Turns : Granted(call[t], at[t], asked[t])

LEMMA FileTurnsStart == TurnsInit /\ FilesInit => FileTurnsInv
BY DEF TurnsInit, FilesInit, FileTurnsInv, TurnsType, Granted

LEMMA FileTurnsMove ==
  ASSUME FileTurnsInv, NEW t \in Turns, NEW c, NEW a, NEW k, Moves(t, c, a, k), Granted(c, a, k),
         reference' # NoReference => reference'.type \in {"url", "file", "folder"}
  PROVE  FileTurnsInv'
<1>1. TurnsType
  BY DEF FileTurnsInv
<1>2. /\ TurnsType'
      /\ call'[t] = c /\ at'[t] = a /\ asked'[t] = k
      /\ \A u \in Turns \ {t} : call'[u] = call[u] /\ at'[u] = at[u] /\ asked'[u] = asked[u]
  BY <1>1, MovesOneTurn
<1>3. ASSUME NEW u \in Turns
      PROVE  Granted(call'[u], at'[u], asked'[u])
  <2>1. CASE u = t
    BY <2>1, <1>2
  <2>2. CASE u # t
    BY <2>2, <1>2 DEF FileTurnsInv
  <2> QED
    BY <2>1, <2>2
<1> QED
  BY <1>2, <1>3 DEF FileTurnsInv

LEMMA FileTurnsTurn ==
  ASSUME FileTurnsInv, NEW t \in Turns,
         \/ Declines(t) \/ (\E outcome : Ends(t, outcome)) \/ Refused(t)
         \/ Asks(t) \/ Allows(t) \/ Denies(t) \/ (\E done : Settles(t, done)),
         reference' # NoReference => reference'.type \in {"url", "file", "folder"}
  PROVE  FileTurnsInv'
<1>1. TurnsType
  BY DEF FileTurnsInv
<1>2. \/ Moves(t, call[t], at[t], asked[t]) \/ Moves(t, NoCall, "idle", FALSE)
      \/ Moves(t, call[t], "gate", asked[t]) \/ Moves(t, call[t], "allowed", TRUE)
      \/ Moves(t, call[t], "after", asked[t])
  BY <1>1, StepsMove
<1>3. /\ Granted(call[t], at[t], asked[t]) /\ Granted(NoCall, "idle", FALSE)
      /\ Granted(call[t], "gate", asked[t]) /\ Granted(call[t], "allowed", TRUE)
      /\ Granted(call[t], "after", asked[t])
  BY DEF FileTurnsInv, Granted
<1> QED
  BY <1>2, <1>3, FileTurnsMove

LEMMA FileCallFields ==
  ASSUME NEW c, IsFileCall(c), NEW p, NEW o
  PROVE  /\ LET d == [c EXCEPT !.path = p] IN IsFileCall(d) /\ d.op = c.op
         /\ LET d == [c EXCEPT !.op = o] IN IsFileCall(d) /\ d.op = o
         /\ LET d == [c EXCEPT !.path = p, !.op = o] IN IsFileCall(d) /\ d.op = o
<1> DEFINE r == [op |-> c.op, path |-> c.path, to |-> c.to, browser |-> c.browser]
<1>1. c = r
  BY DEF IsFileCall
<1>2. [r EXCEPT !.path = p] = [op |-> c.op, path |-> p, to |-> c.to, browser |-> c.browser]
  OBVIOUS
<1>3. [r EXCEPT !.op = o] = [op |-> o, path |-> c.path, to |-> c.to, browser |-> c.browser]
  OBVIOUS
<1>4. ASSUME NEW s, s = [op |-> c.op, path |-> p, to |-> c.to, browser |-> c.browser]
      PROVE  [s EXCEPT !.op = o] = [op |-> o, path |-> p, to |-> c.to, browser |-> c.browser]
  BY <1>4
<1>5. [c EXCEPT !.path = p, !.op = o] = [[c EXCEPT !.path = p] EXCEPT !.op = o]
  OBVIOUS
<1> HIDE DEF r
<1>6. [c EXCEPT !.path = p, !.op = o]
        = [op |-> o, path |-> p, to |-> c.to, browser |-> c.browser]
  BY <1>1, <1>2, <1>4, <1>5
<1>7. ASSUME NEW d, NEW x, NEW q, d = [op |-> x, path |-> q, to |-> c.to, browser |-> c.browser]
      PROVE  IsFileCall(d) /\ d.op = x
  BY <1>7 DEF IsFileCall
<1> QED
  BY <1>1, <1>2, <1>3, <1>6, <1>7

\* A turn that begins one of the tools has passed its checks.
LEMMA FileTurnsBegin ==
  ASSUME FileTurnsInv, NEW t \in Turns, Starts(t) \/ OpensNamed(t)
  PROVE  FileTurnsInv'
<1>0. TurnsType
  BY DEF FileTurnsInv
<1>1. reference' = reference
  BY DEF Starts, OpensNamed, fileVars
<1>2. ASSUME NEW c, Begins(t, c), Granted(c, "call", asked[t])
      PROVE  FileTurnsInv'
  <2>1. Moves(t, c, "call", asked[t])
    BY <1>0, <1>2, StepsMove
  <2> QED
    BY <1>1, <1>2, <2>1, FileTurnsMove DEF FileTurnsInv
<1>3. ASSUME NEW c \in Offered[t], Accepts(c)
      PROVE  Granted(c, "call", asked[t])
  <2>1. IsFileCall(c)
    BY OfferedAssumption
  <2>2. c.op \in Guarded => c.path \notin Protected
    BY <1>3 DEF Accepts, IsPermitted, Guarded
  <2> QED
    BY <2>1, <2>2 DEF Granted
<1>4. ASSUME reference # NoReference
      PROVE  Granted(Recalled, "call", asked[t])
  <2> DEFINE o == CASE reference.type = "url" -> "open_url"
                    [] reference.type = "file" -> "open_file"
                    [] reference.type = "folder" -> "open_folder"
  <2>1. o \in {"open_url", "open_file", "open_folder"}
    BY <1>4 DEF FileTurnsInv
  <2>2. Recalled = [op |-> o, path |-> reference.target, to |-> NoPath, browser |-> NoBrowser]
    BY DEF Recalled
  <2> HIDE DEF o
  <2>3. IsFileCall(Recalled) /\ Recalled.op = o
    BY <2>2 DEF IsFileCall
  <2> QED
    BY <2>1, <2>3 DEF Granted, Guarded
<1>5. ASSUME NEW c \in Offered[t]
      PROVE  Granted([c EXCEPT !.op = IF c.path \in Links THEN "open_url" ELSE "smart_open"],
                     "call", asked[t])
  <2> DEFINE o == IF c.path \in Links THEN "open_url" ELSE "smart_open"
             d == [c EXCEPT !.op = o]
  <2>1. IsFileCall(c)
    BY OfferedAssumption
  <2>3. o \in {"open_url", "smart_open"}
    OBVIOUS
  <2> HIDE DEF o
  <2>2. IsFileCall(d) /\ d.op = o
    BY <2>1, FileCallFields
  <2> HIDE DEF d
  <2>4. Granted(d, "call", asked[t])
    BY <2>2, <2>3 DEF Granted, Guarded
  <2> QED
    BY <2>4 DEF d, o
<1>6. CASE Starts(t)
  BY <1>2, <1>3, <1>4, <1>6 DEF Starts
<1>7. CASE OpensNamed(t)
  BY <1>2, <1>5, <1>7 DEF OpensNamed
<1> QED
  BY <1>6, <1>7

\* A turn that looks where to go, and goes on.
LEMMA FileTurnsGoOn ==
  ASSUME FileTurnsInv, NEW t \in Turns,
         MissesBrowser(t) \/ Resolves(t) \/ Classifies(t) \/ TriesAsFile(t)
  PROVE  FileTurnsInv'
<1>0. TurnsType
  BY DEF FileTurnsInv
<1>1. reference' = reference
  BY DEF MissesBrowser, Resolves, Classifies, TriesAsFile, fileVars
<1>2. ASSUME NEW c, NEW a, Moves(t, c, a, asked[t]), IsFileCall(c), c.op \notin Guarded
      PROVE  FileTurnsInv'
  <2>1. Granted(c, a, asked[t])
    BY <1>2 DEF Granted, Guarded
  <2> QED
    BY <1>1, <1>2, <2>1, FileTurnsMove DEF FileTurnsInv
<1>3. call[t] # NoCall => IsFileCall(call[t])
  BY DEF FileTurnsInv, Granted
<1>4. CASE MissesBrowser(t)
  <2>1. CASE \E done : Settles(t, done)
    BY <2>1, <1>1, FileTurnsTurn DEF FileTurnsInv
  <2>2. CASE call[t].op = "open_url" /\ at' = [at EXCEPT ![t] = "again"]
             /\ UNCHANGED <<backend, call, ok, asked>>
    <3>1. Moves(t, call[t], "again", asked[t])
      BY <2>2, <1>0, StayingIsMoving DEF Moves
    <3>2. call[t] # NoCall
      BY <1>4 DEF MissesBrowser
    <3>3. call[t].op \notin Guarded
      BY <2>2 DEF Guarded
    <3> QED
      BY <3>1, <3>2, <3>3, <1>2, <1>3
  <2> QED
    BY <2>1, <2>2, <1>4 DEF MissesBrowser
<1>5. CASE Resolves(t)
  <2>1. PICK p : call' = [call EXCEPT ![t].path = p]
    BY <1>5 DEF Resolves
  <2> DEFINE c == [call[t] EXCEPT !.path = p]
  <2>2. Does(t, {"open_folder", "list_files", "search_files"}) /\ asked' = asked
        /\ at' = [at EXCEPT ![t] = "again"]
    BY <1>5 DEF Resolves
  <2>3. Moves(t, c, "again", asked[t])
    BY <2>1, <2>2, <1>0, StayingIsMoving DEF Moves
  <2>4. IsFileCall(c) /\ c.op = call[t].op
    BY <2>2, <1>3, FileCallFields DEF Does
  <2> HIDE DEF c
  <2>5. c.op \notin Guarded
    BY <2>2, <2>4 DEF Does, Guarded
  <2> QED
    BY <2>3, <2>4, <2>5, <1>2
<1>6. CASE Classifies(t)
  <2>1. PICK p, b : call' = [call EXCEPT ![t].path = p,
                                         ![t].op = IF b THEN "smart_folder" ELSE "open_file"]
    BY <1>6 DEF Classifies
  <2> DEFINE o == IF b THEN "smart_folder" ELSE "open_file"
             c == [call[t] EXCEPT !.path = p, !.op = o]
  <2>2. call[t] # NoCall /\ asked' = asked /\ at' = at
    BY <1>6 DEF Classifies, Does
  <2>3. call' = [call EXCEPT ![t] = c]
    BY <2>1, <1>0 DEF TurnsType
  <2>6. o \in {"smart_folder", "open_file"}
    OBVIOUS
  <2> HIDE DEF o
  <2>4. Moves(t, c, at[t], asked[t])
    BY <2>2, <2>3, <1>0, StayingIsMoving DEF Moves
  <2>5. IsFileCall(c) /\ c.op = o
    BY <2>2, <1>3, FileCallFields
  <2> HIDE DEF c
  <2>7. c.op \notin Guarded
    BY <2>5, <2>6 DEF Guarded
  <2> QED
    BY <2>4, <2>5, <2>7, <1>2
<1>7. CASE TriesAsFile(t)
  <2> DEFINE c == [call[t] EXCEPT !.op = "open_file"]
  <2>1. call' = [call EXCEPT ![t] = c] /\ call[t] # NoCall /\ asked' = asked /\ at' = at
    BY <1>7 DEF TriesAsFile, Does
  <2>2. Moves(t, c, at[t], asked[t])
    BY <2>1, <1>0, StayingIsMoving DEF Moves
  <2>3. IsFileCall(c) /\ c.op = "open_file"
    BY <2>1, <1>3, FileCallFields
  <2> HIDE DEF c
  <2>4. c.op \notin Guarded
    BY <2>3 DEF Guarded
  <2> QED
    BY <2>2, <2>3, <2>4, <1>2
<1> QED
  BY <1>4, <1>5, <1>6, <1>7

LEMMA FileTurnsNextStep ==
  ASSUME FileTurnsInv, [FilesNext]_<<turnVars, fileVars>>
  PROVE  FileTurnsInv'
<1>1. CASE Expires \/ UNCHANGED <<turnVars, fileVars>>
  BY <1>1 DEF Expires, turnVars, fileVars, FileTurnsInv, TurnsType
<1>2. ASSUME NEW t \in Turns, FileStep(t)
      PROVE  FileTurnsInv'
  <2>0. reference # NoReference => reference.type \in {"url", "file", "folder"}
    BY DEF FileTurnsInv
  <2>1. CASE Starts(t) \/ OpensNamed(t)
    BY <2>1, FileTurnsBegin
  <2>2. CASE MissesBrowser(t) \/ Resolves(t) \/ Classifies(t) \/ TriesAsFile(t)
    BY <2>2, FileTurnsGoOn
  <2>3. CASE Rejects(t) \/ CreatesFolder(t) \/ CopiesFile(t) \/ MovesFile(t)
    BY <2>0, <2>3, FileTurnsTurn DEF Rejects, CreatesFolder, CopiesFile, MovesFile, fileVars
  <2>4. CASE AsksToDelete(t) \/ AllowsDelete(t) \/ DeniesDelete(t) \/ DeletesEntry(t)
             \/ DeletesPart(t)
    BY <2>0, <2>4, FileTurnsTurn
    DEF AsksToDelete, AllowsDelete, DeniesDelete, DeletesEntry, DeletesPart, fileVars
  <2>5. CASE OpensLink(t) \/ OpensFile(t) \/ OpensFolder(t) \/ FileFails(t)
    BY <2>0, <2>5, FileTurnsTurn DEF OpensLink, OpensFile, OpensFolder, FileFails, fileVars
  <2>6. CASE ListsFiles(t) \/ ReadsFile(t) \/ SearchesFiles(t) \/ TellsFolder(t) \/ ListsRecent(t)
    <3>1. LooksAt(t)
      BY <2>6 DEF ListsFiles, ReadsFile, SearchesFiles, TellsFolder, ListsRecent
    <3> QED
      BY <2>0, <3>1, FileTurnsTurn DEF LooksAt, fileVars
  <2>7. CASE Remembers(t)
    <3> DEFINE kind == CASE IsLink(call[t]) -> "url"
                         [] call[t].op = "open_file" -> "file"
                         [] OTHER -> "folder"
    <3>1. reference' = [type |-> kind, target |-> call[t].path] /\ Ends(t, TRUE)
      BY <2>7 DEF Remembers
    <3>2. kind \in {"url", "file", "folder"}
      OBVIOUS
    <3> HIDE DEF kind
    <3>3. reference'.type \in {"url", "file", "folder"}
      BY <3>1, <3>2
    <3> QED
      BY <3>1, <3>3, FileTurnsTurn
  <2>8. CASE Forgets(t) \/ ReturnsFile(t) \/ RefusedFile(t)
    <3>1. reference' \in {NoReference, reference}
      BY <2>8 DEF Forgets, ReturnsFile, RefusedFile, fileVars
    <3>2. (\E outcome : Ends(t, outcome)) \/ Refused(t)
      BY <2>8 DEF Forgets, ReturnsFile, RefusedFile
    <3> QED
      BY <2>0, <3>1, <3>2, FileTurnsTurn
  <2> QED
    BY <1>2, <2>1, <2>2, <2>3, <2>4, <2>5, <2>6, <2>7, <2>8 DEF FileStep
<1> QED
  BY <1>1, <1>2 DEF FilesNext

-----------------------------------------------------------------------------
(* Files: the tree.                                                        *)

TreeType ==
  /\ doc \in [Paths -> Contents \cup {NoContent}]
  /\ folders \subseteq Paths

\* With the cmdlets, what is there is so with the folders it is in.
Rooted ==
  backend # "reference" =>
    \A p, q \in Paths : Exists(p) /\ IsPrefix(q, p) => Exists(q)

LEMMA TreeStart == TurnsInit /\ FilesInit => TreeType /\ Rooted /\ ProtectedFoldersStand
<1> SUFFICES ASSUME FilesInit PROVE TreeType /\ Rooted /\ ProtectedFoldersStand
  OBVIOUS
<1>1. /\ doc = [p \in Paths |-> IF p \in DOMAIN InitialDocs THEN InitialDocs[p] ELSE NoContent]
      /\ folders = InitialFolders
  BY DEF FilesInit
<1>2. TreeType
  BY <1>1, InitialFilesAssumption DEF TreeType
<1>3. \A p \in Paths : Exists(p) <=> p \in DOMAIN InitialDocs \cup InitialFolders
  BY <1>1, InitialFilesAssumption DEF Exists, IsFile, IsFolder
<1>4. Rooted
  BY <1>3, InitialFilesAssumption DEF Rooted
<1>5. ProtectedFoldersStand
  BY <1>1, ProtectedAssumption DEF ProtectedFoldersStand
<1> QED
  BY <1>2, <1>4, <1>5

LEMMA FilesElsewhere ==
  ASSUME NEW t \in Turns, FileStep(t)
  PROVE  \/ UNCHANGED <<doc, folders>>
         \/ CreatesFolder(t) \/ CopiesFile(t) \/ MovesFile(t) \/ DeletesEntry(t) \/ DeletesPart(t)
<1>1. CASE Starts(t) \/ Rejects(t) \/ OpensNamed(t) \/ AsksToDelete(t) \/ AllowsDelete(t)
           \/ DeniesDelete(t) \/ OpensLink(t) \/ MissesBrowser(t) \/ OpensFile(t)
  BY <1>1 DEF Starts, Rejects, OpensNamed, AsksToDelete, AllowsDelete, DeniesDelete,
     OpensLink, MissesBrowser, OpensFile, fileVars
<1>2. CASE Resolves(t) \/ OpensFolder(t) \/ Classifies(t) \/ TriesAsFile(t) \/ FileFails(t)
           \/ Remembers(t) \/ Forgets(t) \/ ReturnsFile(t) \/ RefusedFile(t)
  BY <1>2 DEF Resolves, OpensFolder, Classifies, TriesAsFile, FileFails, Remembers, Forgets,
     ReturnsFile, RefusedFile, fileVars
<1>3. CASE ListsFiles(t) \/ ReadsFile(t) \/ SearchesFiles(t) \/ TellsFolder(t) \/ ListsRecent(t)
  BY <1>3 DEF ListsFiles, ReadsFile, SearchesFiles, TellsFolder, ListsRecent, LooksAt, fileVars
<1> QED
  BY <1>1, <1>2, <1>3 DEF FileStep

\* The implementation a turn talks to is the one the adapter began with.
LEMMA FileStepsKeepBackend ==
  ASSUME NEW t \in Turns, FileStep(t)
  PROVE  backend' = backend
<1>1. /\ \A c : Begins(t, c) => backend' = backend
      /\ \A o : Ends(t, o) => backend' = backend
      /\ \A o : Settles(t, o) => backend' = backend
  BY DEF Begins, Ends, Settles
<1>2. Declines(t) \/ Refused(t) \/ Asks(t) \/ Allows(t) \/ Denies(t) => backend' = backend
  BY <1>1 DEF Declines, Refused, Asks, Allows, Denies
<1>3. CASE Starts(t) \/ Rejects(t) \/ OpensNamed(t) \/ AsksToDelete(t) \/ AllowsDelete(t)
           \/ DeniesDelete(t)
  BY <1>1, <1>2, <1>3 DEF Starts, Rejects, OpensNamed, AsksToDelete, AllowsDelete, DeniesDelete
<1>4. CASE OpensLink(t) \/ MissesBrowser(t) \/ OpensFile(t) \/ Resolves(t) \/ OpensFolder(t)
           \/ Classifies(t) \/ TriesAsFile(t) \/ FileFails(t)
  BY <1>1, <1>4 DEF OpensLink, MissesBrowser, OpensFile, Resolves, OpensFolder, Classifies,
     TriesAsFile, FileFails
<1>5. CASE ListsFiles(t) \/ ReadsFile(t) \/ SearchesFiles(t) \/ TellsFolder(t) \/ ListsRecent(t)
           \/ Remembers(t) \/ Forgets(t) \/ ReturnsFile(t) \/ RefusedFile(t)
  BY <1>1, <1>2, <1>5 DEF ListsFiles, ReadsFile, SearchesFiles, TellsFolder, ListsRecent, LooksAt,
     Remembers, Forgets, ReturnsFile, RefusedFile
<1>6. CASE CreatesFolder(t) \/ CopiesFile(t) \/ MovesFile(t) \/ DeletesEntry(t) \/ DeletesPart(t)
  BY <1>1, <1>6 DEF CreatesFolder, CopiesFile, MovesFile, DeletesEntry, DeletesPart
<1> QED
  BY <1>3, <1>4, <1>5, <1>6 DEF FileStep

LEMMA BackendStays ==
  ASSUME NEW t \in Turns,
         CreatesFolder(t) \/ CopiesFile(t) \/ MovesFile(t) \/ DeletesEntry(t) \/ DeletesPart(t)
  PROVE  backend' = backend
BY DEF CreatesFolder, CopiesFile, MovesFile, DeletesEntry, DeletesPart, Settles

\* A move of the cmdlets, place by place.
LEMMA CmdletMoves ==
  ASSUME TreeType, NEW p, NEW d, MovedByCmdlet(p, d)
  PROVE  /\ p \in Paths /\ d \in Paths /\ ~IsPrefix(p, d) /\ ~Exists(d) /\ Exists(p)
         /\ Front(d) \in folders
         /\ \A r \in Inside(d) :
              /\ doc'[r] = IF From(r, p, d) \in Paths THEN doc[From(r, p, d)] ELSE NoContent
              /\ r \in folders' <=> (r \in folders \ Inside(p) \/ From(r, p, d) \in folders)
         /\ \A r \in Paths \ Inside(d) :
              /\ doc'[r] = IF r \in Inside(p) THEN NoContent ELSE doc[r]
              /\ r \in folders' <=> r \in folders \ Inside(p)
<1>1. p \in Paths /\ d \in Paths /\ ~IsPrefix(p, d) /\ ~Exists(d) /\ Exists(p) /\ Front(d) \in folders
  BY DEF MovedByCmdlet, TreeType, Exists, IsFile, IsFolder
<1>2. doc' = [r \in Paths |->
       IF r \in Inside(d) THEN (IF From(r, p, d) \in Paths THEN doc[From(r, p, d)] ELSE NoContent)
       ELSE IF r \in Inside(p) THEN NoContent ELSE doc[r]]
  BY DEF MovedByCmdlet
<1>3. folders' = (folders \ Inside(p)) \cup {r \in Inside(d) : From(r, p, d) \in folders}
  BY DEF MovedByCmdlet
<1>4. \A r \in Inside(d) : r \in Paths
  BY DEF Inside
<1>5. ASSUME NEW r \in Inside(d)
      PROVE  /\ doc'[r] = IF From(r, p, d) \in Paths THEN doc[From(r, p, d)] ELSE NoContent
             /\ r \in folders' <=> (r \in folders \ Inside(p) \/ From(r, p, d) \in folders)
  BY <1>2, <1>3, <1>4
<1>6. ASSUME NEW r \in Paths \ Inside(d)
      PROVE  /\ doc'[r] = IF r \in Inside(p) THEN NoContent ELSE doc[r]
             /\ r \in folders' <=> r \in folders \ Inside(p)
  BY <1>2, <1>3
<1> QED
  BY <1>1, <1>5, <1>6

\* A removal, by either system, place by place.
LEMMA FilesRemoved ==
  ASSUME TreeType, NEW t \in Turns, DeletesEntry(t) \/ DeletesPart(t)
  PROVE  /\ call[t].path \in Paths
         /\ \E gone \in SUBSET Inside(call[t].path) :
              /\ \A r \in Paths : doc'[r] = doc[r] \/ (r \in gone /\ doc'[r] = NoContent)
              /\ \A r \in folders \ folders' : r \in gone
              /\ doc' \in [Paths -> Contents \cup {NoContent}] /\ folders' \subseteq folders
              /\ backend # "reference" =>
                   \A r \in Paths : Exists(r)' <=> Exists(r) /\ r \notin gone
              /\ backend # "reference" => \A r \in gone : Inside(r) \subseteq gone
<1> DEFINE p == call[t].path
<1>1. p \in Paths
  <2>1. Exists(p)
    BY DEF DeletesEntry, DeletesPart, DeletedByReference, DeletedByCmdlet, Exists
  <2> QED
    BY <2>1 DEF Exists, IsFile, IsFolder, TreeType
<1>2. p \in Inside(p)
  BY <1>1, PrefixOrder DEF Inside
<1>3. ASSUME NEW gone \in SUBSET Inside(p), Removes(gone)
      PROVE  /\ \A r \in Paths : doc'[r] = doc[r] \/ (r \in gone /\ doc'[r] = NoContent)
             /\ \A r \in folders \ folders' : r \in gone
             /\ doc' \in [Paths -> Contents \cup {NoContent}] /\ folders' \subseteq folders
             /\ \A r \in Paths : Exists(r)' <=> Exists(r) /\ r \notin gone
  <2>1. doc' = [r \in Paths |-> IF r \in gone THEN NoContent ELSE doc[r]]
        /\ folders' = folders \ gone
    BY <1>3 DEF Removes
  <2>2. doc' \in [Paths -> Contents \cup {NoContent}]
    BY <2>1 DEF TreeType
  <2>3. \A r \in Paths : doc'[r] = IF r \in gone THEN NoContent ELSE doc[r]
    BY <2>1
  <2>4. \A r \in Paths : Exists(r)' <=> Exists(r) /\ r \notin gone
    BY <2>1, <2>3 DEF Exists, IsFile, IsFolder
  <2> QED
    BY <2>1, <2>2, <2>3, <2>4
<1>4. CASE DeletesEntry(t) /\ backend = "reference"
  <2>1. DeletedByReference(p)
    BY <1>4 DEF DeletesEntry
  <2>2. /\ doc' = [doc EXCEPT ![p] = NoContent] \/ doc' = doc
        /\ folders' = folders \ {p} \/ folders' = folders
    BY <2>1 DEF DeletedByReference
  <2>3. /\ \A r \in Paths : doc'[r] = doc[r] \/ (r = p /\ doc'[r] = NoContent)
        /\ doc' \in [Paths -> Contents \cup {NoContent}]
    BY <2>2 DEF TreeType
  <2>4. {p} \in SUBSET Inside(p)
    BY <1>2
  <2> QED
    BY <1>1, <1>4, <2>2, <2>3, <2>4
<1>5. CASE DeletesEntry(t) /\ backend # "reference"
  <2>1. Removes(Inside(p))
    BY <1>5 DEF DeletesEntry, DeletedByCmdlet
  <2>2. \A r \in Inside(p) : Inside(r) \subseteq Inside(p)
    BY <1>1, PrefixOrder DEF Inside
  <2> QED
    BY <1>1, <1>3, <2>1, <2>2
<1>6. CASE DeletesPart(t)
  <2>1. PICK gone \in SUBSET Inside(p) : (\A r \in gone : Inside(r) \subseteq gone) /\ Removes(gone)
    BY <1>6 DEF DeletesPart
  <2> QED
    BY <1>1, <1>3, <2>1
<1> QED
  BY <1>4, <1>5, <1>6

LEMMA TreeTypeStep ==
  ASSUME TreeType, [FilesNext]_<<turnVars, fileVars>>
  PROVE  TreeType'
<1>1. CASE UNCHANGED <<doc, folders>>
  BY <1>1 DEF TreeType
<1>2. ASSUME NEW t \in Turns, CreatesFolder(t)
      PROVE  TreeType'
  BY <1>2 DEF TreeType, CreatesFolder, CreatedByReference, CreatedByCmdlet
<1>3. ASSUME NEW t \in Turns, CopiesFile(t)
      PROVE  TreeType'
  <2>1. CASE backend = "reference"
    BY <1>3, <2>1 DEF TreeType, CopiesFile, CopiedByReference, IsFile
  <2>2. CASE backend # "reference"
    <3> DEFINE d == Landing(call[t])
    <3>1. CopiedByCmdlet(call[t], d)
      BY <1>3, <2>2 DEF CopiesFile
    <3> HIDE DEF d
    <3> QED
      BY <3>1 DEF TreeType, CopiedByCmdlet, IsFile
  <2> QED
    BY <2>1, <2>2
<1>4. ASSUME NEW t \in Turns, MovesFile(t)
      PROVE  TreeType'
  <2>1. CASE backend = "reference"
    BY <1>4, <2>1 DEF TreeType, MovesFile, MovedByReference, IsFile
  <2>2. CASE backend # "reference"
    <3>1. PICK p, d : MovedByCmdlet(p, d)
      BY <1>4, <2>2 DEF MovesFile
    <3>2. doc' = [r \in Paths |->
            IF r \in Inside(d) THEN (IF From(r, p, d) \in Paths THEN doc[From(r, p, d)] ELSE NoContent)
            ELSE IF r \in Inside(p) THEN NoContent ELSE doc[r]]
      BY <3>1 DEF MovedByCmdlet
    <3>3. folders' \subseteq Paths
      BY <3>1 DEF MovedByCmdlet, TreeType, Inside
    <3> QED
      BY <3>2, <3>3 DEF TreeType
  <2> QED
    BY <2>1, <2>2
<1>5. ASSUME NEW t \in Turns, DeletesEntry(t) \/ DeletesPart(t)
      PROVE  TreeType'
  BY <1>5, FilesRemoved DEF TreeType
<1>6. Expires \/ UNCHANGED <<turnVars, fileVars>> => UNCHANGED <<doc, folders>>
  BY DEF Expires, fileVars
<1> QED
  BY <1>1, <1>2, <1>3, <1>4, <1>5, <1>6, FilesElsewhere DEF FilesNext

LEMMA RootedAfterCreation ==
  ASSUME TreeType, Rooted, NEW t \in Turns, CreatesFolder(t)
  PROVE  Rooted'
<1> SUFFICES ASSUME backend # "reference", NEW p \in Paths, NEW q \in Paths,
                    Exists(p)', IsPrefix(q, p)
             PROVE  Exists(q)'
  BY BackendStays DEF Rooted
<1> DEFINE f == call[t].path
<1>1. f \in Paths /\ doc' = doc /\ folders' = folders \cup {r \in Paths : IsPrefix(r, f)}
  BY DEF CreatesFolder, CreatedByCmdlet
<1> HIDE DEF f
<1>2. CASE Exists(p)
  BY <1>1, <1>2 DEF Rooted, Exists, IsFile, IsFolder
<1>3. CASE ~Exists(p)
  <2>1. IsPrefix(p, f)
    BY <1>1, <1>3 DEF Exists, IsFile, IsFolder
  <2>2. IsPrefix(q, f)
    BY <1>1, <2>1, PrefixOrder
  <2> QED
    BY <1>1, <2>2 DEF Exists, IsFolder
<1> QED
  BY <1>2, <1>3

LEMMA RootedAfterCopy ==
  ASSUME TreeType, Rooted, NEW t \in Turns, CopiesFile(t)
  PROVE  Rooted'
<1> SUFFICES ASSUME backend # "reference", NEW p \in Paths, NEW q \in Paths,
                    Exists(p)', IsPrefix(q, p)
             PROVE  Exists(q)'
  BY BackendStays DEF Rooted
<1>1. PICK d : CopiedByCmdlet(call[t], d)
  BY DEF CopiesFile
<1>2. d \in Paths /\ Front(d) \in folders /\ Front(d) \in Paths
  BY <1>1 DEF CopiedByCmdlet, TreeType
<1>3. /\ \A r \in Paths \ {d} : Exists(r)' <=> Exists(r)
      /\ Exists(d)'
      /\ \A r \in Paths : Exists(r) => Exists(r)'
  <2>1. CASE IsFile(call[t].path) /\ doc' = [doc EXCEPT ![d] = doc[call[t].path]] /\ folders' = folders
    <3>1. doc[call[t].path] # NoContent
      BY <2>1 DEF IsFile
    <3>2. doc'[d] # NoContent /\ \A r \in Paths \ {d} : doc'[r] = doc[r]
      BY <2>1, <3>1, <1>2 DEF TreeType
    <3>3. Exists(d)'
      BY <3>2, <1>2 DEF Exists, IsFile
    <3>4. ASSUME NEW r \in Paths \ {d}
          PROVE  Exists(r)' <=> Exists(r)
      BY <2>1, <3>2 DEF Exists, IsFile, IsFolder
    <3> QED
      BY <3>3, <3>4
  <2>2. CASE folders' = folders \cup {d} /\ doc' = doc
    <3>1. Exists(d)'
      BY <2>2 DEF Exists, IsFolder
    <3>2. ASSUME NEW r \in Paths \ {d}
          PROVE  Exists(r)' <=> Exists(r)
      BY <2>2 DEF Exists, IsFile, IsFolder
    <3> QED
      BY <3>1, <3>2
  <2> QED
    BY <1>1, <2>1, <2>2 DEF CopiedByCmdlet
<1>4. CASE p # d
  BY <1>3, <1>4 DEF Rooted
<1>5. CASE p = d /\ q # d
  <2>1. IsPrefix(q, Front(d))
    BY <1>2, <1>5, FolderOfPath
  <2>2. Exists(Front(d))
    BY <1>2 DEF Exists, IsFolder
  <2> QED
    BY <1>2, <1>3, <2>1, <2>2 DEF Rooted
<1> QED
  BY <1>3, <1>4, <1>5

LEMMA RootedAfterRemoval ==
  ASSUME TreeType, Rooted, NEW t \in Turns, DeletesEntry(t) \/ DeletesPart(t)
  PROVE  Rooted'
<1> SUFFICES ASSUME backend # "reference", NEW p \in Paths, NEW q \in Paths,
                    Exists(p)', IsPrefix(q, p)
             PROVE  Exists(q)'
  BY BackendStays DEF Rooted
<1>1. PICK gone \in SUBSET Inside(call[t].path) :
        /\ \A r \in Paths : Exists(r)' <=> Exists(r) /\ r \notin gone
        /\ \A r \in gone : Inside(r) \subseteq gone
  BY FilesRemoved
<1>2. Exists(p) /\ p \notin gone
  BY <1>1
<1>3. Exists(q)
  BY <1>2 DEF Rooted
<1>4. q \notin gone
  <2>1. p \in Inside(q)
    BY DEF Inside
  <2> QED
    BY <1>1, <1>2, <2>1
<1> QED
  BY <1>1, <1>3, <1>4

LEMMA RootedAfterMove ==
  ASSUME TreeType, Rooted, NEW t \in Turns, MovesFile(t)
  PROVE  Rooted'
<1> SUFFICES ASSUME backend # "reference", NEW r \in Paths, NEW q \in Paths,
                    Exists(r)', IsPrefix(q, r)
             PROVE  Exists(q)'
  BY BackendStays DEF Rooted
<1>1. PICK p, d : MovedByCmdlet(p, d)
  BY DEF MovesFile
<1>2. /\ p \in Paths /\ d \in Paths /\ ~IsPrefix(p, d) /\ ~Exists(d)
      /\ Front(d) \in folders /\ Front(d) \in Paths
  BY <1>1, CmdletMoves DEF TreeType
<1>3. \A s \in Paths : s \in Inside(d) => ~Exists(s)
  BY <1>2 DEF Rooted, Inside
<1>4. \A s \in Paths : s \notin Inside(d) => (Exists(s)' <=> Exists(s) /\ s \notin Inside(p))
  <2> SUFFICES ASSUME NEW s \in Paths, s \notin Inside(d)
               PROVE  Exists(s)' <=> Exists(s) /\ s \notin Inside(p)
    OBVIOUS
  <2>1. /\ doc'[s] = IF s \in Inside(p) THEN NoContent ELSE doc[s]
        /\ s \in folders' <=> s \in folders \ Inside(p)
    BY <1>1, CmdletMoves
  <2> QED
    BY <2>1 DEF Exists, IsFile, IsFolder
<1>5. \A s \in Paths : s \in Inside(d) =>
         (Exists(s)' <=> From(s, p, d) \in Paths /\ Exists(From(s, p, d)))
  <2> SUFFICES ASSUME NEW s \in Paths, s \in Inside(d)
               PROVE  Exists(s)' <=> From(s, p, d) \in Paths /\ Exists(From(s, p, d))
    OBVIOUS
  <2> DEFINE f == From(s, p, d)
  <2>1. /\ doc'[s] = IF f \in Paths THEN doc[f] ELSE NoContent
        /\ s \in folders' <=> (s \in folders \ Inside(p) \/ f \in folders)
    BY <1>1, CmdletMoves
  <2>2. s \notin folders
    BY <1>3 DEF Exists, IsFolder
  <2> HIDE DEF f
  <2>3. Exists(s)' <=> f \in Paths /\ Exists(f)
    BY <2>1, <2>2 DEF Exists, IsFile, IsFolder, TreeType
  <2> QED
    BY <2>3 DEF f
<1>6. CASE r \notin Inside(d)
  <2>1. Exists(r) /\ r \notin Inside(p)
    BY <1>4, <1>6
  <2>2. q \notin Inside(d) /\ q \notin Inside(p)
    BY <1>2, <1>6, <2>1, PrefixOrder DEF Inside
  <2>3. Exists(q)
    BY <2>1 DEF Rooted
  <2> QED
    BY <1>4, <2>2, <2>3
<1>7. CASE r \in Inside(d) /\ q \in Inside(d)
  <2>1. From(r, p, d) \in Paths /\ Exists(From(r, p, d))
    BY <1>5, <1>7
  <2>2. From(q, p, d) \in Paths /\ IsPrefix(From(q, p, d), From(r, p, d))
    BY <1>2, <1>7, <2>1, MovedFolders DEF Inside
  <2>3. Exists(From(q, p, d))
    BY <2>1, <2>2 DEF Rooted
  <2> QED
    BY <1>5, <1>7, <2>2, <2>3
<1>8. CASE r \in Inside(d) /\ q \notin Inside(d)
  \* Two folders of one path lie in each other.
  <2>1. IsPrefix(d, r) /\ ~IsPrefix(d, q)
    BY <1>8 DEF Inside
  <2>2. IsPrefix(q, d)
    BY <2>1, <1>2, FoldersAreNested
  <2>3. q # d
    BY <2>1, <2>2
  <2>4. IsPrefix(q, Front(d))
    BY <1>2, <2>2, <2>3, FolderOfPath
  <2>5. Exists(q)
    <3>1. Exists(Front(d))
      BY <1>2 DEF Exists, IsFolder
    <3> QED
      BY <1>2, <2>4, <3>1 DEF Rooted
  <2>6. q \notin Inside(p)
    BY <1>2, <2>2, PrefixOrder DEF Inside
  <2> QED
    BY <1>4, <1>8, <2>5, <2>6
<1> QED
  BY <1>6, <1>7, <1>8

-----------------------------------------------------------------------------
(* Files: what goes was named, and what is kept.                           *)

FilesInv == FileTurnsInv /\ TreeType /\ Rooted

\* The call of this turn may make this path go.
NamedBy(t, p) ==
  /\ \/ Does(t, {"delete_file"}) /\ asked[t]
     \/ Does(t, {"move_file", "rename_file"})
  /\ p \in Inside(call[t].path)

LEMMA OnlyNamedGo ==
  ASSUME FilesInv, NEW t \in Turns, FileStep(t), NEW p \in Paths,
         (p \in folders /\ p \notin folders') \/ (doc[p] # NoContent /\ doc'[p] = NoContent)
  PROVE  NamedBy(t, p) /\ call[t].path \in Paths
<1>0. TreeType /\ FileTurnsInv /\ Rooted
  BY DEF FilesInv
<1>1. ~UNCHANGED <<doc, folders>>
  OBVIOUS
<1>2. ~CreatesFolder(t)
  BY DEF CreatesFolder, CreatedByReference, CreatedByCmdlet
<1>3. ~CopiesFile(t)
  <2> SUFFICES ASSUME CopiesFile(t) PROVE FALSE
    OBVIOUS
  <2>1. PICK d, f : /\ \/ d \in Paths /\ IsFile(f) /\ doc' = [doc EXCEPT ![d] = doc[f]]
                       \/ doc' = doc
                    /\ folders \subseteq folders'
    <3>1. CASE backend = "reference"
      BY <3>1 DEF CopiesFile, CopiedByReference
    <3>2. CASE backend # "reference"
      BY <3>2 DEF CopiesFile, CopiedByCmdlet
    <3> QED
      BY <3>1, <3>2
  <2> QED
    BY <2>1, <1>0 DEF IsFile, TreeType
<1>4. CASE MovesFile(t)
  <2>1. Does(t, {"move_file", "rename_file"})
    BY <1>4 DEF MovesFile
  <2>2. call[t].path \in Paths /\ p \in Inside(call[t].path)
    <3>1. CASE backend = "reference"
      <4>1. IsFile(call[t].path) /\ call[t].to \in Paths /\ folders \subseteq folders'
            /\ doc' = [[doc EXCEPT ![call[t].to] = doc[call[t].path]] EXCEPT ![call[t].path] = NoContent]
        BY <1>4, <3>1 DEF MovesFile, MovedByReference
      <4>2. call[t].path \in Paths /\ doc[call[t].path] # NoContent
        BY <4>1 DEF IsFile
      <4>3. p = call[t].path
        BY <1>0, <4>1, <4>2 DEF TreeType
      <4> QED
        BY <4>2, <4>3, PrefixOrder DEF Inside
    <3>2. CASE backend # "reference"
      <4>1. PICK d : MovedByCmdlet(call[t].path, d)
        BY <1>4, <3>2 DEF MovesFile
      <4>2. call[t].path \in Paths /\ d \in Paths /\ ~Exists(d)
        BY <1>0, <4>1, CmdletMoves
      <4>3. Exists(p)
        BY DEF Exists, IsFile, IsFolder
      <4>4. p \notin Inside(d)
        BY <1>0, <3>2, <4>2, <4>3 DEF Rooted, Inside
      <4>5. /\ doc'[p] = IF p \in Inside(call[t].path) THEN NoContent ELSE doc[p]
            /\ p \in folders' <=> p \in folders \ Inside(call[t].path)
        BY <1>0, <4>1, <4>4, CmdletMoves
      <4> QED
        BY <4>2, <4>5
    <3> QED
      BY <3>1, <3>2
  <2> QED
    BY <2>1, <2>2 DEF NamedBy
<1>5. CASE DeletesEntry(t) \/ DeletesPart(t)
  <2>1. Does(t, {"delete_file"}) /\ at[t] = "allowed"
    BY <1>5 DEF DeletesEntry, DeletesPart, MayAct
  <2>2. asked[t]
    BY <2>1, <1>0 DEF FileTurnsInv, Granted, Does
  <2>3. call[t].path \in Paths /\ p \in Inside(call[t].path)
    BY <1>0, <1>5, FilesRemoved
  <2> QED
    BY <2>1, <2>2, <2>3 DEF NamedBy
<1> QED
  BY <1>1, <1>2, <1>3, <1>4, <1>5, FilesElsewhere

LEMMA ProtectedStay ==
  ASSUME FilesInv, ProtectedFoldersStand, [FilesNext]_<<turnVars, fileVars>>
  PROVE  ProtectedFoldersStand'
<1>1. CASE UNCHANGED <<doc, folders>>
  BY <1>1 DEF ProtectedFoldersStand
<1>2. ASSUME NEW t \in Turns, FileStep(t)
      PROVE  ProtectedFoldersStand'
  <2> SUFFICES ASSUME NEW p \in Protected, p \notin folders' PROVE FALSE
    BY DEF ProtectedFoldersStand
  <2>1. p \in folders /\ p \in Paths
    BY DEF ProtectedFoldersStand, FilesInv, TreeType
  <2>2. NamedBy(t, p) /\ call[t].path \in Paths
    BY <1>2, <2>1, OnlyNamedGo
  <2>3. call[t].path \in Protected
    BY <2>2, ProtectedAssumption DEF NamedBy
  <2>4. call[t].path \notin Protected
    BY <2>2 DEF NamedBy, Does, FilesInv, FileTurnsInv, Granted, Guarded
  <2> QED
    BY <2>3, <2>4
<1>3. Expires \/ UNCHANGED <<turnVars, fileVars>> => UNCHANGED <<doc, folders>>
  BY DEF Expires, fileVars
<1> QED
  BY <1>1, <1>2, <1>3 DEF FilesNext

LEMMA FilesInvStep ==
  ASSUME FilesInv, [FilesNext]_<<turnVars, fileVars>>
  PROVE  FilesInv'
<1>1. FileTurnsInv' /\ TreeType'
  BY FileTurnsNextStep, TreeTypeStep DEF FilesInv
<1>2. Rooted'
  <2>1. ASSUME NEW t \in Turns, FileStep(t),
               CreatesFolder(t) \/ CopiesFile(t) \/ MovesFile(t) \/ DeletesEntry(t) \/ DeletesPart(t)
        PROVE  Rooted'
    BY <2>1, RootedAfterCreation, RootedAfterCopy, RootedAfterMove, RootedAfterRemoval DEF FilesInv
  <2>2. backend' = backend
    <3>1. ASSUME NEW t \in Turns, FileStep(t)
          PROVE  backend' = backend
      BY <3>1, FileStepsKeepBackend
    <3> QED
      BY <3>1 DEF FilesNext, Expires, turnVars
  <2>3. CASE UNCHANGED <<doc, folders>>
    BY <2>2, <2>3 DEF FilesInv, Rooted, Exists, IsFile, IsFolder
  <2>4. Expires \/ UNCHANGED <<turnVars, fileVars>> => UNCHANGED <<doc, folders>>
    BY DEF Expires, fileVars
  <2> QED
    BY <2>1, <2>3, <2>4, FilesElsewhere DEF FilesNext
<1> QED
  BY <1>1, <1>2 DEF FilesInv

LEMMA DocumentsStay ==
  ASSUME FilesInv, NEW t \in Turns, FileStep(t), NEW x \in Contents, NEW p \in Paths,
         doc[p] = x, \A q \in Paths : doc'[q] # x
  PROVE  \/ Does(t, {"delete_file"}) /\ asked[t] /\ p \in Inside(call[t].path)
         \/ Does(t, {"copy_file", "move_file", "rename_file"}) /\ Overwritten(call[t]) = p
<1>0. TreeType /\ FileTurnsInv /\ Rooted /\ x # NoContent
  BY InitialFilesAssumption DEF FilesInv
<1>1. IsFile(p) /\ Exists(p)
  BY <1>0 DEF IsFile, Exists
<1>2. ~UNCHANGED <<doc, folders>> /\ ~CreatesFolder(t)
  BY DEF CreatesFolder
<1>3. CASE CopiesFile(t)
  <2>1. Does(t, {"copy_file", "move_file", "rename_file"})
    BY <1>3 DEF CopiesFile, Does
  <2>2. PICK d, f : doc' = [doc EXCEPT ![d] = f] /\ d = Overwritten(call[t])
    <3>1. CASE backend = "reference"
      BY <1>3, <3>1 DEF CopiesFile, CopiedByReference, Overwritten
    <3>2. CASE backend # "reference"
      <4>1. CopiedByCmdlet(call[t], Landing(call[t]))
        BY <1>3, <3>2 DEF CopiesFile
      <4>2. doc' # doc
        OBVIOUS
      <4> QED
        BY <3>2, <4>1, <4>2 DEF CopiedByCmdlet, Overwritten
    <3> QED
      BY <3>1, <3>2
  <2>3. d = p
    BY <2>2, <1>0 DEF TreeType
  <2> QED
    BY <2>1, <2>2, <2>3
<1>4. CASE MovesFile(t) /\ backend = "reference"
  <2>1. Does(t, {"copy_file", "move_file", "rename_file"})
    BY <1>4 DEF MovesFile, Does
  <2> DEFINE c == call[t]
  <2>2. /\ doc' = [[doc EXCEPT ![c.to] = doc[c.path]] EXCEPT ![c.path] = NoContent]
        /\ c.to \in Paths
    BY <1>4 DEF MovesFile, MovedByReference
  <2>3. c.to = p
    <3> SUFFICES ASSUME c.to # p PROVE FALSE
      OBVIOUS
    <3>1. CASE p = c.path
      <4>1. doc'[c.to] = doc[c.path]
        BY <2>2, <3>1, <1>0 DEF TreeType
      <4> QED
        BY <2>2, <3>1, <4>1
    <3>2. CASE p # c.path
      <4>1. doc'[p] = doc[p]
        BY <2>2, <3>2, <1>0 DEF TreeType
      <4> QED
        BY <4>1
    <3> QED
      BY <3>1, <3>2
  <2> QED
    BY <2>1, <2>3, <1>4 DEF Overwritten
<1>5. CASE MovesFile(t) /\ backend # "reference"
  <2>1. PICK f, d : MovedByCmdlet(f, d)
    BY <1>5 DEF MovesFile
  <2>2. f \in Paths /\ d \in Paths /\ ~Exists(d)
    BY <2>1, <1>0, CmdletMoves
  <2>3. p \notin Inside(d)
    BY <1>0, <1>1, <1>5, <2>2 DEF Rooted, Inside
  <2>4. p \in Inside(f)
    <3>1. doc'[p] = IF p \in Inside(f) THEN NoContent ELSE doc[p]
      BY <1>0, <2>1, <2>3, CmdletMoves
    <3> QED
      BY <3>1
  <2> DEFINE r == d \o SubSeq(p, Len(f) + 1, Len(p))
  <2>5. r \in Paths
    BY <1>1, <2>1, <2>4 DEF MovedByCmdlet
  <2>6. IsPrefix(d, r) /\ From(r, f, d) = p
    BY <2>2, <2>4, <2>5, MovesThereAndBack DEF Inside
  <2> HIDE DEF r
  <2>7. r \in Inside(d)
    BY <2>5, <2>6 DEF Inside
  <2>8. doc'[r] = IF From(r, f, d) \in Paths THEN doc[From(r, f, d)] ELSE NoContent
    BY <1>0, <2>1, <2>7, CmdletMoves
  <2>9. doc'[r] = x
    BY <2>6, <2>8
  <2> QED
    BY <2>5, <2>9
<1>6. CASE DeletesEntry(t) \/ DeletesPart(t)
  <2>1. Does(t, {"delete_file"}) /\ at[t] = "allowed"
    BY <1>6 DEF DeletesEntry, DeletesPart, MayAct
  <2>2. asked[t]
    BY <2>1, <1>0 DEF FileTurnsInv, Granted, Does
  <2>3. p \in Inside(call[t].path)
    <3>1. doc'[p] # doc[p]
      OBVIOUS
    <3> QED
      BY <3>1, <1>0, <1>6, FilesRemoved
  <2> QED
    BY <2>1, <2>2, <2>3
<1> QED
  BY <1>2, <1>3, <1>4, <1>5, <1>6, FilesElsewhere

\* For any paths, documents and turns, over both file systems: no protected
\* folder is moved, renamed or deleted, although only the path that is named
\* is looked at and a cmdlet takes everything below it along
\* (desktop-actions.ts isProtectedSystemPath).
THEOREM ProtectedFoldersAreSafe == FilesSpec => []ProtectedFoldersStand
<1>1. TurnsInit /\ FilesInit => FilesInv /\ ProtectedFoldersStand
  BY FileTurnsStart, TreeStart DEF FilesInv
<1>2. (FilesInv /\ ProtectedFoldersStand) /\ [FilesNext]_<<turnVars, fileVars>>
        => (FilesInv /\ ProtectedFoldersStand)'
  BY FilesInvStep, ProtectedStay
<1> QED
  BY <1>1, <1>2, PTL DEF FilesSpec

KeptStep ==
  \A x \in Contents :
    (\E p \in Paths : doc[p] = x) /\ ~(\E p \in Paths : doc'[p] = x) => LosesByConsent(x)

\* The last copy of a document goes only in a deletion the person allowed, or
\* where another document is copied or moved over it, whatever the tools do
\* in which order (FileManager.delete, copyEntry, moveEntry).
THEOREM DocumentsAreNotLost == FilesSpec => DocumentsAreKept
<1>1. TurnsInit /\ FilesInit => FilesInv
  BY FileTurnsStart, TreeStart DEF FilesInv
<1>2. FilesInv /\ [FilesNext]_<<turnVars, fileVars>> => FilesInv'
  BY FilesInvStep
<1>3. FilesInv /\ [FilesNext]_<<turnVars, fileVars>> => [KeptStep]_<<turnVars, fileVars>>
  <2> SUFFICES ASSUME FilesInv, FilesNext, NEW x \in Contents, NEW p \in Paths, doc[p] = x,
                      ~(\E q \in Paths : doc'[q] = x)
               PROVE  LosesByConsent(x)
    BY DEF KeptStep
  <2>1. ~Expires
    BY DEF Expires
  <2>2. PICK t \in Turns : FileStep(t)
    BY <2>1 DEF FilesNext
  <2>3. \/ Does(t, {"delete_file"}) /\ asked[t] /\ p \in Inside(call[t].path)
        \/ Does(t, {"copy_file", "move_file", "rename_file"}) /\ Overwritten(call[t]) = p
    BY <2>2, DocumentsStay
  <2> QED
    BY <2>3 DEF LosesByConsent
<1> QED
  BY <1>1, <1>2, <1>3, PTL DEF FilesSpec, DocumentsAreKept, KeptStep

GoneStep ==
  \A p \in Paths : Exists(p) /\ ~Exists(p)' =>
    \E t \in Turns :
      /\ \/ Does(t, {"delete_file"}) /\ asked[t]
         \/ Does(t, {"move_file", "rename_file"})
      /\ p \in Inside(call[t].path)

\* What no turn was given, or was given a folder of, stays where it is; and
\* nothing is deleted unless the person was asked (FileManager.delete).
THEOREM NamedPathsGo == FilesSpec => OnlyNamedPathsGo
<1>1. TurnsInit /\ FilesInit => FilesInv
  BY FileTurnsStart, TreeStart DEF FilesInv
<1>2. FilesInv /\ [FilesNext]_<<turnVars, fileVars>> => FilesInv'
  BY FilesInvStep
<1>3. FilesInv /\ [FilesNext]_<<turnVars, fileVars>> => [GoneStep]_<<turnVars, fileVars>>
  <2> SUFFICES ASSUME FilesInv, FilesNext, NEW p \in Paths, Exists(p), ~Exists(p)'
               PROVE  \E t \in Turns : NamedBy(t, p)
    BY DEF GoneStep, NamedBy
  <2>1. (p \in folders /\ p \notin folders') \/ (doc[p] # NoContent /\ doc'[p] = NoContent)
    BY DEF Exists, IsFile, IsFolder
  <2>2. ~Expires
    BY <2>1 DEF Expires
  <2>3. PICK t \in Turns : FileStep(t)
    BY <2>2 DEF FilesNext
  <2> QED
    BY <2>1, <2>3, OnlyNamedGo
<1> QED
  BY <1>1, <1>2, <1>3, PTL DEF FilesSpec, OnlyNamedPathsGo, GoneStep

-----------------------------------------------------------------------------
(* Windows: what the list of windows keeps, and which one a handle means.  *)

LEMMA NatOrderIsWellFounded ==
  IsWellFoundedOn({ss \in Nat \X Nat : ss[1] < ss[2]}, Nat)
BY NatLessThanWellFounded, Zenon DEF OpToRel

\* Every set of natural numbers has a least element.
LEMMA LeastNumber ==
  ASSUME NEW T \in SUBSET Nat, T # {}
  PROVE  \E n \in T : \A m \in T : n <= m
<1> DEFINE R == {ss \in Nat \X Nat : ss[1] < ss[2]}
<1>1. IsWellFoundedOn(R, Nat)
  BY NatOrderIsWellFounded
<1> HIDE DEF R
<1>2. \E x \in T : \A y \in T : ~(<<y, x>> \in R)
  BY <1>1, WFMin, Zenon
<1>3. ASSUME NEW x \in T, NEW y \in T, ~(<<y, x>> \in R)
      PROVE  x <= y
  <2>1. x \in Nat /\ y \in Nat
    OBVIOUS
  <2>2. CASE y < x
    BY <1>3, <2>1, <2>2 DEF R
  <2> QED
    BY <2>1, <2>2
<1> QED
  BY <1>2, <1>3

\* What the filter has kept after n windows, when f says what it kept before.
Kept(wanted, f, n) ==
  IF n = 0 THEN <<>>
  ELSE IF windows[n] \in wanted THEN Append(f[n - 1], windows[n])
  ELSE f[n - 1]

\* f says what the filter has kept after each of the first m windows.
Keeps(wanted, m, f) == f = [n \in 0..m |-> Kept(wanted, f, n)]

\* q holds some of the first n windows, all of which are wanted.
Picked(q, n, wanted) ==
  /\ q \in Seq(Range(windows))
  /\ \A k \in 1..Len(q) : q[k] \in wanted /\ \E i \in 1..n : q[k] = windows[i]
  /\ \A k, l \in 1..Len(q) : q[k].handle = q[l].handle => k = l

LEMMA KeptOneMore ==
  ASSUME NEW wanted, NEW m \in Nat \ {0},
         NEW f, Keeps(wanted, m - 1, f)
  PROVE  \E g : Keeps(wanted, m, g)
<1> DEFINE e == Kept(wanted, f, m)
           g == [n \in 0..m |-> IF n = m THEN e ELSE f[n]]
<1>1. ASSUME NEW n \in 0..m
      PROVE  g[n] = Kept(wanted, g, n)
  <2>1. CASE n = m
    <3> HIDE DEF e
    <3>1. g[m] = e /\ g[m - 1] = f[m - 1]
      OBVIOUS
    <3> HIDE DEF g
    <3>2. Kept(wanted, g, m) = Kept(wanted, f, m)
      BY <3>1 DEF Kept
    <3> QED
      BY <2>1, <3>1, <3>2 DEF e
  <2>2. CASE n # m
    <3> HIDE DEF e
    <3>1. n \in 0..(m - 1) /\ g[n] = f[n] /\ (n # 0 => g[n - 1] = f[n - 1])
      BY <2>2
    <3> HIDE DEF g
    <3>2. f[n] = Kept(wanted, f, n)
      BY <3>1 DEF Keeps
    <3> QED
      BY <3>1, <3>2 DEF Kept
  <2> QED
    BY <2>1, <2>2
<1>2. g = [n \in 0..m |-> g[n]]
  OBVIOUS
<1> HIDE DEF g
<1>3. Keeps(wanted, m, g)
  BY <1>1, <1>2 DEF Keeps
<1> QED
  BY <1>3

LEMMA KeptIsPicked ==
  ASSUME IsListing(windows), NEW wanted, NEW m \in 1..Len(windows), NEW f, Picked(f[m - 1], m - 1, wanted)
  PROVE  Picked(Kept(wanted, f, m), m, wanted)
<1> DEFINE q == f[m - 1]
           w == windows[m]
<1>1. /\ Len(windows) \in Nat /\ DOMAIN windows = 1..Len(windows) /\ m \in Nat \ {0}
      /\ w \in Range(windows)
  BY DEF IsListing, Range
<1>2. Picked(q, m, wanted)
  BY <1>1 DEF Picked
<1>3. ASSUME w \in wanted
      PROVE  Picked(Append(q, w), m, wanted)
  <2> DEFINE a == Append(q, w)
  <2>1. q \in Seq(Range(windows)) /\ Len(q) \in Nat
    BY DEF Picked
  <2>2. /\ a \in Seq(Range(windows)) /\ Len(a) = Len(q) + 1
        /\ a[Len(q) + 1] = w
        /\ \A k \in 1..Len(q) : a[k] = q[k]
    BY <2>1, <1>1
  <2> HIDE DEF a
  <2>3. \A k \in 1..Len(q) : \E i \in 1..(m - 1) : q[k] = windows[i]
    BY DEF Picked
  <2>4. \A k \in 1..Len(q) : q[k].handle # w.handle
    <3>1. ASSUME NEW k \in 1..Len(q)
          PROVE  q[k].handle # w.handle
      <4>1. PICK i \in 1..(m - 1) : q[k] = windows[i]
        BY <2>3
      <4>2. i \in 1..Len(windows) /\ i # m
        BY <1>1
      <4>3. windows[i].handle # windows[m].handle
        BY <4>2, <1>1 DEF IsListing
      <4> QED
        BY <4>1, <4>3
    <3> QED
      BY <3>1
  <2>5. \A k \in 1..Len(a) : \E i \in 1..m : a[k] = windows[i]
    <3>1. ASSUME NEW k \in 1..Len(a)
          PROVE  \E i \in 1..m : a[k] = windows[i]
      <4>1. CASE k = Len(q) + 1
        BY <4>1, <2>2, <1>1
      <4>2. CASE k # Len(q) + 1
        <5>1. k \in 1..Len(q)
          BY <4>2, <2>1, <2>2
        <5>2. PICK i \in 1..(m - 1) : q[k] = windows[i]
          BY <5>1, <2>3
        <5>3. i \in 1..m
          BY <1>1
        <5> QED
          BY <5>1, <5>2, <5>3, <2>2
      <4> QED
        BY <4>1, <4>2
    <3> QED
      BY <3>1
  <2>6. \A k, l \in 1..Len(a) : a[k].handle = a[l].handle => k = l
    <3>1. ASSUME NEW k \in 1..Len(a), NEW l \in 1..Len(a), a[k].handle = a[l].handle
          PROVE  k = l
      <4>1. k \in 1..Len(q) \/ k = Len(q) + 1
        BY <2>1, <2>2
      <4>2. l \in 1..Len(q) \/ l = Len(q) + 1
        BY <2>1, <2>2
      <4> QED
        BY <4>1, <4>2, <3>1, <2>2, <2>4 DEF Picked
    <3> QED
      BY <3>1
  <2>7. \A k \in 1..Len(a) : a[k] \in wanted
    <3>1. \A k \in 1..Len(q) : q[k] \in wanted
      BY DEF Picked
    <3>2. \A k \in 1..Len(a) : k \in 1..Len(q) \/ k = Len(q) + 1
      BY <2>1, <2>2
    <3> QED
      BY <1>3, <2>2, <3>1, <3>2
  <2>8. Picked(a, m, wanted)
    BY <2>2, <2>5, <2>6, <2>7 DEF Picked
  <2> QED
    BY <2>8 DEF a
<1>4. m # 0
  BY <1>1
<1> QED
  BY <1>2, <1>3, <1>4 DEF Kept

\* A filter keeps windows that are listed, and each handle once.
LEMMA AmongIsPicked ==
  ASSUME IsListing(windows), NEW wanted
  PROVE  Picked(Among(wanted), Len(windows), wanted)
<1> DEFINE kept == CHOOSE g : g = [n \in 0..Len(windows) |-> Kept(wanted, g, n)]
<1>1. Len(windows) \in Nat
  BY DEF IsListing
<1>2. \E f : Keeps(wanted, Len(windows), f)
  <2> DEFINE T == {m \in 0..Len(windows) : ~ \E f : Keeps(wanted, m, f)}
  <2>1. SUFFICES ASSUME T # {} PROVE FALSE
    BY <1>1
  <2>2. T \in SUBSET Nat
    BY <1>1
  <2>3. PICK m \in T : \A n \in T : m <= n
    <3> HIDE DEF T
    <3> QED
      BY <2>1, <2>2, LeastNumber
  <2>4. m # 0
    <3> DEFINE e == [n \in 0..0 |-> <<>>]
    <3>1. Keeps(wanted, 0, e)
      BY DEF Kept, Keeps
    <3> QED
      BY <3>1
  <2>5. m - 1 \in 0..Len(windows) /\ m - 1 \notin T /\ m \in Nat \ {0}
    BY <1>1, <2>3, <2>4
  <2> QED
    BY <2>3, <2>5, KeptOneMore
<1>3. kept = [n \in 0..Len(windows) |-> Kept(wanted, kept, n)]
  BY <1>2 DEF Keeps
<1>4. Among(wanted) = kept[Len(windows)]
  BY DEF Among, Kept
<1> HIDE DEF kept
<1>5. \A n \in 0..Len(windows) : kept[n] = Kept(wanted, kept, n)
  BY <1>3
<1>6. \A n \in 0..Len(windows) : Picked(kept[n], n, wanted)
  <2> DEFINE T == {n \in 0..Len(windows) : ~Picked(kept[n], n, wanted)}
  <2>1. SUFFICES ASSUME T # {} PROVE FALSE
    OBVIOUS
  <2>2. T \in SUBSET Nat
    BY <1>1
  <2>3. PICK m \in T : \A n \in T : m <= n
    <3> HIDE DEF T
    <3> QED
      BY <2>1, <2>2, LeastNumber
  <2>4. m # 0
    <3>1. kept[0] = <<>>
      BY <1>1, <1>5 DEF Kept
    <3>2. Picked(<<>>, 0, wanted)
      BY DEF Picked
    <3> QED
      BY <3>1, <3>2
  <2>5. m - 1 \in 0..Len(windows) /\ m - 1 \notin T /\ m \in 1..Len(windows)
    BY <1>1, <2>3, <2>4
  <2>6. Picked(kept[m - 1], m - 1, wanted)
    BY <2>5
  <2>7. Picked(Kept(wanted, kept, m), m, wanted)
    BY <2>5, <2>6, KeptIsPicked
  <2> QED
    BY <2>7, <2>5, <2>3, <1>5, <1>1
<1> QED
  BY <1>1, <1>4, <1>6

\* The windows of u are windows that are listed now, or have a handle of new;
\* only one whose handle is in changed may be in another state or place.
Carries(u, changed, new) ==
  \A j \in 1..Len(u) :
    \/ u[j].handle \in new
    \/ \E i \in 1..Len(windows) :
         /\ u[j].handle = windows[i].handle /\ u[j].app = windows[i].app
         /\ \/ u[j].handle \in changed
            \/ u[j].state = windows[i].state /\ u[j].place = windows[i].place

LEMMA ListingMeans ==
  ASSUME NEW n \in Nat, NEW u, u = [i \in 1..n |-> u[i]],
         \A i \in 1..n : IsWindow(u[i]),
         \A i, j \in 1..n : u[i].handle = u[j].handle => i = j
  PROVE  IsListing(u) /\ Len(u) = n /\ u \in Seq(Range(u))
<1>1. u \in [1..n -> Range(u)]
  BY DEF Range
<1>2. u \in Seq(Range(u)) /\ Len(u) = n /\ DOMAIN u = 1..n
  BY <1>1
<1> QED
  BY <1>2 DEF IsListing

LEMMA PickedIsListing ==
  ASSUME IsListing(windows), NEW wanted, NEW q, Picked(q, Len(windows), wanted)
  PROVE  IsListing(q) /\ Carries(q, {}, {})
<1>1. q = [k \in 1..Len(q) |-> q[k]] /\ Len(q) \in Nat
  BY DEF Picked
<1>2. DOMAIN windows = 1..Len(windows)
  BY DEF IsListing
<1>3. \A k \in 1..Len(q) : IsWindow(q[k])
  BY <1>2 DEF Picked, IsListing
<1>4. \A k, l \in 1..Len(q) : q[k].handle = q[l].handle => k = l
  BY DEF Picked
<1>5. IsListing(q)
  BY <1>1, <1>3, <1>4, ListingMeans
<1>6. Carries(q, {}, {})
  BY DEF Picked, Carries
<1> QED
  BY <1>5, <1>6

\* A list whose windows keep their handles is a list of windows.
LEMMA EditedIsListing ==
  ASSUME IsListing(windows), NEW u, u = [i \in 1..Len(windows) |-> u[i]],
         \A i \in 1..Len(windows) : IsWindow(u[i]) /\ u[i].handle = windows[i].handle
  PROVE  IsListing(u) /\ Len(u) = Len(windows)
<1>1. Len(windows) \in Nat /\ DOMAIN windows = 1..Len(windows)
  BY DEF IsListing
<1>2. \A i, j \in 1..Len(windows) : windows[i].handle = windows[j].handle => i = j
  BY <1>1 DEF IsListing
<1>3. \A i, j \in 1..Len(windows) : u[i].handle = u[j].handle => i = j
  BY <1>2
<1> QED
  BY <1>1, <1>3, ListingMeans

LEMMA WindowFields ==
  ASSUME NEW w, IsWindow(w), NEW v
  PROVE  LET u == [w EXCEPT !.focused = v] IN
         /\ IsWindow(u)
         /\ u.handle = w.handle /\ u.app = w.app /\ u.state = w.state /\ u.place = w.place
<1> DEFINE r == [handle |-> w.handle, pid |-> w.pid, app |-> w.app,
                 state |-> w.state, place |-> w.place, focused |-> w.focused]
<1>1. w = r
  BY DEF IsWindow
<1>2. [r EXCEPT !.focused = v] =
        [handle |-> w.handle, pid |-> w.pid, app |-> w.app,
         state |-> w.state, place |-> w.place, focused |-> v]
  OBVIOUS
<1>3. w.handle \in Nat
  BY DEF IsWindow
<1> HIDE DEF r
<1> QED
  BY <1>1, <1>2, <1>3 DEF IsWindow

LEMMA FocusedIsListing ==
  ASSUME IsListing(windows), NEW h
  PROVE  IsListing(Focused(h)) /\ Carries(Focused(h), {}, {})
<1> DEFINE u == Focused(h)
<1>1. Len(windows) \in Nat /\ DOMAIN windows = 1..Len(windows)
  BY DEF IsListing
<1>2. u = [i \in 1..Len(windows) |-> [windows[i] EXCEPT !.focused = (windows[i].handle = h)]]
  BY <1>1 DEF Focused
<1>3. ASSUME NEW i \in 1..Len(windows)
      PROVE  /\ IsWindow(u[i]) /\ u[i].handle = windows[i].handle /\ u[i].app = windows[i].app
             /\ u[i].state = windows[i].state /\ u[i].place = windows[i].place
  <2>1. IsWindow(windows[i])
    BY <1>1 DEF IsListing
  <2>2. u[i] = [windows[i] EXCEPT !.focused = (windows[i].handle = h)]
    BY <1>2
  <2> HIDE DEF u
  <2> QED
    BY <2>1, <2>2, WindowFields
<1>4. u = [i \in 1..Len(windows) |-> u[i]]
  BY <1>2
<1> HIDE DEF u
<1>5. IsListing(u) /\ Len(u) = Len(windows)
  BY <1>3, <1>4, EditedIsListing
<1>6. Carries(u, {}, {})
  BY <1>3, <1>5 DEF Carries
<1> QED
  BY <1>5, <1>6 DEF u

LEMMA PatchFields ==
  ASSUME NEW w, IsWindow(w), NEW fields
  PROVE  LET u == With(w, fields) IN
         IsWindow(u) /\ u.handle = w.handle /\ u.app = w.app
<1> DEFINE state == IF "state" \in DOMAIN fields THEN fields.state ELSE w.state
           place == IF "place" \in DOMAIN fields THEN fields.place ELSE w.place
           v == [w EXCEPT !.state = state]
           u == [v EXCEPT !.place = place]
           W(s, x) == [handle |-> w.handle, pid |-> w.pid, app |-> w.app,
                       state |-> s, place |-> x, focused |-> w.focused]
<1>1. With(w, fields) = u
  BY DEF With
<1> HIDE DEF state, place
<1>2. w = W(w.state, w.place) /\ w.handle \in Nat
  BY DEF IsWindow
<1>3. v = W(state, w.place)
  <2>1. ASSUME NEW c, c = W(w.state, w.place)
        PROVE  [c EXCEPT !.state = state] = W(state, w.place)
    BY <2>1
  <2> QED
    BY <2>1, <1>2
<1> HIDE DEF v
<1>4. u = W(state, place)
  <2>1. ASSUME NEW c, c = W(state, w.place)
        PROVE  [c EXCEPT !.place = place] = W(state, place)
    BY <2>1
  <2> QED
    BY <2>1, <1>3
<1> HIDE DEF u
<1>5. IsWindow(u) /\ u.handle = w.handle /\ u.app = w.app
  BY <1>2, <1>4 DEF IsWindow
<1> QED
  BY <1>1, <1>5

LEMMA PatchedIsListing ==
  ASSUME IsListing(windows), NEW h, NEW fields,
         NEW u, u = [i \in DOMAIN windows |->
                       IF windows[i].handle = h THEN With(windows[i], fields) ELSE windows[i]]
  PROVE  IsListing(u) /\ Carries(u, {h}, {})
<1>1. Len(windows) \in Nat /\ DOMAIN windows = 1..Len(windows)
  BY DEF IsListing
<1>2. ASSUME NEW i \in 1..Len(windows)
      PROVE  /\ IsWindow(u[i]) /\ u[i].handle = windows[i].handle /\ u[i].app = windows[i].app
             /\ u[i].handle = h \/ (u[i].state = windows[i].state /\ u[i].place = windows[i].place)
  <2>1. IsWindow(windows[i])
    BY <1>1 DEF IsListing
  <2>2. u[i] = IF windows[i].handle = h THEN With(windows[i], fields) ELSE windows[i]
    BY <1>1
  <2> QED
    BY <2>1, <2>2, PatchFields
<1>3. u = [i \in 1..Len(windows) |-> u[i]]
  BY <1>1
<1>4. IsListing(u) /\ Len(u) = Len(windows)
  BY <1>2, <1>3, EditedIsListing
<1>5. Carries(u, {h}, {})
  BY <1>2, <1>4 DEF Carries
<1> QED
  BY <1>4, <1>5

\* The list when a window has opened.
Opened(u, app, pid, h) ==
  u = LET all == Append(windows, [handle |-> h, pid |-> pid, app |-> app,
                    state |-> "normal", place |-> "free", focused |-> TRUE]) IN
      [i \in DOMAIN all |-> [all[i] EXCEPT !.focused = (all[i].pid = pid)]]

LEMMA OpenedIsListing ==
  ASSUME IsListing(windows), NEW app, NEW pid, NEW h \in Nat, ~Listed(h),
         NEW u, Opened(u, app, pid, h)
  PROVE  IsListing(u) /\ Carries(u, {}, {h})
<1> DEFINE w == [handle |-> h, pid |-> pid, app |-> app,
                 state |-> "normal", place |-> "free", focused |-> TRUE]
           all == Append(windows, w)
           n == Len(windows) + 1
<1>1. Len(windows) \in Nat /\ DOMAIN windows = 1..Len(windows) /\ windows \in Seq(Range(windows))
  BY DEF IsListing
<1>2. IsWindow(w) /\ w.handle = h
  BY DEF IsWindow
<1>3. u = [i \in DOMAIN all |-> [all[i] EXCEPT !.focused = (all[i].pid = pid)]]
  BY DEF Opened
<1> HIDE DEF w
<1>4. /\ DOMAIN all = 1..n /\ all[n] = w
      /\ \A i \in 1..Len(windows) : all[i] = windows[i]
  BY <1>1
<1> HIDE DEF all
<1>5. n \in Nat /\ \A i \in 1..n : i = n \/ i \in 1..Len(windows)
  BY <1>1
<1>6. \A i \in 1..n : IsWindow(all[i])
  BY <1>1, <1>2, <1>4, <1>5 DEF IsListing
<1>7. u = [i \in 1..n |-> u[i]] /\ \A i \in 1..n : u[i] = [all[i] EXCEPT !.focused = (all[i].pid = pid)]
  BY <1>3, <1>4
<1>8. ASSUME NEW i \in 1..n
      PROVE  /\ IsWindow(u[i]) /\ u[i].handle = all[i].handle /\ u[i].app = all[i].app
             /\ u[i].state = all[i].state /\ u[i].place = all[i].place
  <2>1. ASSUME NEW x, IsWindow(x), NEW y, y = [x EXCEPT !.focused = (x.pid = pid)]
        PROVE  /\ IsWindow(y) /\ y.handle = x.handle /\ y.app = x.app
               /\ y.state = x.state /\ y.place = x.place
    BY <2>1, WindowFields
  <2>2. IsWindow(all[i]) /\ u[i] = [all[i] EXCEPT !.focused = (all[i].pid = pid)]
    BY <1>6, <1>7
  <2> QED
    BY <2>1, <2>2
<1> HIDE DEF n
<1>9. \A i, j \in 1..n : u[i].handle = u[j].handle => i = j
  <2>1. \A i \in 1..Len(windows) : windows[i].handle # h
    BY <1>1 DEF Listed
  <2>2. \A i, j \in 1..Len(windows) : windows[i].handle = windows[j].handle => i = j
    BY <1>1 DEF IsListing
  <2>3. ASSUME NEW i \in 1..n, NEW j \in 1..n, u[i].handle = u[j].handle
        PROVE  i = j
    <3>1. all[i].handle = all[j].handle
      BY <2>3, <1>8
    <3>2. CASE i = n \/ j = n
      BY <3>1, <3>2, <2>1, <1>2, <1>4, <1>5
    <3>3. CASE i # n /\ j # n
      BY <3>1, <3>3, <2>2, <1>4, <1>5
    <3> QED
      BY <3>2, <3>3
  <2> QED
    BY <2>3
<1>10. \A i \in 1..n : IsWindow(u[i])
  BY <1>8
<1>11. IsListing(u) /\ Len(u) = n
  <2>1. n \in Nat /\ u = [i \in 1..n |-> u[i]]
    BY <1>5, <1>7
  <2> QED
    BY <2>1, <1>9, <1>10, ListingMeans
<1>12. Carries(u, {}, {h})
  <2>1. ASSUME NEW j \in 1..Len(u)
        PROVE  \/ u[j].handle \in {h}
               \/ \E i \in 1..Len(windows) :
                    /\ u[j].handle = windows[i].handle /\ u[j].app = windows[i].app
                    /\ \/ u[j].handle \in {}
                       \/ u[j].state = windows[i].state /\ u[j].place = windows[i].place
    <3>1. j \in 1..n
      BY <1>11
    <3>2. CASE j = n
      BY <3>1, <3>2, <1>2, <1>4, <1>8
    <3>3. CASE j # n
      BY <3>1, <3>3, <1>4, <1>5, <1>8
    <3> QED
      BY <3>2, <3>3
  <2> QED
    BY <2>1 DEF Carries
<1> QED
  BY <1>11, <1>12

\* What a turn knows of the window it has found, when s is listed and the last
\* handle of the reference is n.
Means(c, a, s, n) ==
  /\ c # NoCall => IsWindowCall(c)
  /\ (c # NoCall /\ c.op \in WindowTools /\ a = "again" /\ backend = "reference") =>
       /\ c.handle \in Nat /\ c.handle <= n
       /\ \A i \in 1..Len(s) : s[i].handle = c.handle => c.on \in {NoQuery, s[i].app}

WindowsInv ==
  /\ TurnsType
  /\ IsListing(windows)
  /\ handles \in Nat
  /\ backend = "reference" => \A i \in 1..Len(windows) : windows[i].handle <= handles
  /\ \A t \in Turns : Means(call[t], at[t], windows, handles)

LEMMA WindowsStart == TurnsInit /\ WindowsInit => WindowsInv
<1> SUFFICES ASSUME TurnsInit, WindowsInit PROVE WindowsInv
  OBVIOUS
<1>1. TurnsType /\ \A t \in Turns : Means(call[t], at[t], windows, handles)
  BY DEF TurnsInit, TurnsType, Means
<1>2. IsListing(windows) /\ windows = InitialWindows /\ handles = Len(InitialWindows)
  BY InitialWindowsAssumption DEF WindowsInit
<1>3. Len(windows) \in Nat /\ DOMAIN windows = 1..Len(windows)
  BY <1>2 DEF IsListing
<1>4. handles \in Nat
  BY <1>2, <1>3
<1>5. \A i \in 1..Len(windows) : windows[i].handle \in 1..handles
  BY <1>2, <1>3, InitialWindowsAssumption
<1>6. \A i \in 1..Len(windows) : windows[i].handle <= handles
  BY <1>4, <1>5
<1> QED
  BY <1>1, <1>2, <1>4, <1>6 DEF WindowsInv

\* What a step does to the list of windows.
ChangesTo(u, n) ==
  /\ backend' = backend
  /\ IsListing(u)
  /\ n \in {handles, handles + 1}
  /\ \E changed, new :
       /\ Carries(u, changed, new)
       /\ \/ changed = {}
          \/ /\ backend = "reference"
             /\ \E t \in Turns :
                  changed = {call[t].handle} /\ HasHandle(t, WindowTools \cup HandleOperations)
       /\ \A h \in new : h \in Nat /\ ~Listed(h) /\ (backend = "reference" => h = handles + 1 /\ h = n)

\* What a turn has found is what it has found after any step.
LEMMA StillMeans ==
  ASSUME WindowsInv, NEW u, NEW n, ChangesTo(u, n),
         NEW c, NEW a, Means(c, a, windows, handles)
  PROVE  Means(c, a, u, n)
<1> SUFFICES ASSUME c # NoCall, c.op \in WindowTools, a = "again", backend = "reference"
             PROVE  /\ c.handle \in Nat /\ c.handle <= n
                    /\ \A i \in 1..Len(u) : u[i].handle = c.handle => c.on \in {NoQuery, u[i].app}
  BY DEF Means
<1>1. /\ c.handle \in Nat /\ c.handle <= handles
      /\ \A i \in 1..Len(windows) : windows[i].handle = c.handle => c.on \in {NoQuery, windows[i].app}
  BY DEF Means
<1>2. handles \in Nat /\ n \in {handles, handles + 1}
  BY DEF WindowsInv, ChangesTo
<1>3. c.handle <= n /\ c.handle # handles + 1
  BY <1>1, <1>2
<1>4. PICK changed, new :
        /\ Carries(u, changed, new)
        /\ \A h \in new : h = handles + 1
  BY DEF ChangesTo
<1>5. ASSUME NEW i \in 1..Len(u), u[i].handle = c.handle
      PROVE  c.on \in {NoQuery, u[i].app}
  <2>1. u[i].handle \notin new
    BY <1>3, <1>4, <1>5
  <2>2. PICK k \in 1..Len(windows) : u[i].handle = windows[k].handle /\ u[i].app = windows[k].app
    BY <1>4, <2>1 DEF Carries
  <2> QED
    BY <1>1, <1>5, <2>2
<1> QED
  BY <1>1, <1>3, <1>5

LEMMA StillListed ==
  ASSUME WindowsInv, NEW u, NEW n, ChangesTo(u, n)
  PROVE  /\ n \in Nat
         /\ backend = "reference" => \A i \in 1..Len(u) : u[i].handle <= n
<1>1. handles \in Nat /\ n \in {handles, handles + 1}
  BY DEF WindowsInv, ChangesTo
<1>2. ASSUME backend = "reference", NEW i \in 1..Len(u)
      PROVE  u[i].handle <= n
  <2>1. PICK changed, new :
          /\ Carries(u, changed, new)
          /\ \A h \in new : h = handles + 1 /\ h = n
    BY <1>2 DEF ChangesTo
  <2>2. CASE u[i].handle \in new
    BY <2>1, <2>2, <1>1
  <2>3. CASE u[i].handle \notin new
    <3>1. PICK k \in 1..Len(windows) : u[i].handle = windows[k].handle
      BY <2>1, <2>3 DEF Carries
    <3>2. windows[k].handle <= handles /\ windows[k].handle \in Nat
      BY <1>2 DEF WindowsInv, IsListing, IsWindow
    <3> QED
      BY <3>1, <3>2, <1>1
  <2> QED
    BY <2>2, <2>3
<1> QED
  BY <1>1, <1>2

LEMMA WindowsMove ==
  ASSUME WindowsInv, ChangesTo(windows', handles'), NEW t \in Turns, NEW c, NEW a, NEW k,
         Moves(t, c, a, k), Means(c, a, windows, handles)
  PROVE  WindowsInv'
<1>1. TurnsType
  BY DEF WindowsInv
<1>2. /\ TurnsType'
      /\ call'[t] = c /\ at'[t] = a
      /\ \A u \in Turns \ {t} : call'[u] = call[u] /\ at'[u] = at[u]
  BY <1>1, MovesOneTurn
<1>3. ASSUME NEW u \in Turns
      PROVE  Means(call'[u], at'[u], windows', handles')
  <2>1. CASE u = t
    BY <2>1, <1>2, StillMeans
  <2>2. CASE u # t
    <3>1. Means(call[u], at[u], windows, handles)
      BY DEF WindowsInv
    <3> QED
      BY <3>1, <2>2, <1>2, StillMeans
  <2> QED
    BY <2>1, <2>2
<1>4. backend' = backend /\ IsListing(windows')
  BY DEF ChangesTo
<1>5. ASSUME NEW u \in Turns
      PROVE  Means(call[u], at[u], windows, handles)'
  BY <1>3, <1>4 DEF Means
<1>6. /\ handles' \in Nat
      /\ backend = "reference" => \A i \in 1..Len(windows') : windows'[i].handle <= handles'
  BY StillListed
<1> QED
  BY <1>2, <1>4, <1>5, <1>6 DEF WindowsInv, IsListing

LEMMA WindowsUntouched ==
  ASSUME WindowsInv, backend' = backend, windows' = windows, handles' = handles
  PROVE  ChangesTo(windows', handles')
<1>1. IsListing(windows) /\ Carries(windows, {}, {})
  BY DEF WindowsInv, Carries
<1> QED
  BY <1>1 DEF ChangesTo

LEMMA WindowsRest ==
  ASSUME WindowsInv, backend' = backend, UNCHANGED windowVars
  PROVE  ChangesTo(windows', handles')
BY WindowsUntouched DEF windowVars

LEMMA WindowsKept ==
  ASSUME WindowsInv, backend' = backend, UNCHANGED handles, NEW wanted, windows' = Among(wanted)
  PROVE  ChangesTo(windows', handles')
<1>1. IsListing(Among(wanted)) /\ Carries(Among(wanted), {}, {})
  BY AmongIsPicked, PickedIsListing DEF WindowsInv
<1> QED
  BY <1>1 DEF ChangesTo

LEMMA WindowsFocused ==
  ASSUME WindowsInv, backend' = backend, UNCHANGED handles, NEW h, windows' = Focused(h)
  PROVE  ChangesTo(windows', handles')
<1>1. IsListing(Focused(h)) /\ Carries(Focused(h), {}, {})
  BY FocusedIsListing DEF WindowsInv
<1> QED
  BY <1>1 DEF ChangesTo

LEMMA WindowsPatched ==
  ASSUME WindowsInv, backend' = backend, UNCHANGED handles, NEW t \in Turns, NEW fields,
         HasHandle(t, WindowTools \cup HandleOperations), backend = "reference",
         Patched(call[t].handle, fields)
  PROVE  ChangesTo(windows', handles')
<1>1. IsListing(windows') /\ Carries(windows', {call[t].handle}, {})
  BY PatchedIsListing DEF WindowsInv, Patched
<1> QED
  BY <1>1 DEF ChangesTo

LEMMA WindowsOpened ==
  ASSUME WindowsInv, backend' = backend, NEW app, Launches(app)
  PROVE  ChangesTo(windows', handles')
<1>1. IsListing(windows) /\ handles \in Nat
  BY DEF WindowsInv
<1>2. CASE LaunchedByReference(app)
  <2>1. /\ backend = "reference" /\ handles' = handles + 1
        /\ \E pid \in Pids : Opened(windows', app, pid, handles + 1)
    BY <1>2 DEF LaunchedByReference, Launched, Opened
  <2>2. ~Listed(handles + 1) /\ handles + 1 \in Nat
    <3>1. \A i \in 1..Len(windows) : windows[i].handle <= handles
      BY <2>1 DEF WindowsInv
    <3>2. DOMAIN windows = 1..Len(windows)
      BY <1>1 DEF IsListing
    <3> QED
      BY <3>1, <3>2, <1>1 DEF Listed
  <2>3. IsListing(windows') /\ Carries(windows', {}, {handles + 1})
    BY <1>1, <2>1, <2>2, OpenedIsListing
  <2> QED
    BY <2>1, <2>2, <2>3 DEF ChangesTo
<1>3. CASE LaunchedByCmdlet(app)
  <2>1. backend = "powershell" /\ handles' = handles
    BY <1>3 DEF LaunchedByCmdlet
  <2>2. PICK pid \in Pids, h \in 1..MaxHandle : ~Listed(h) /\ Opened(windows', app, pid, h)
    BY <1>3 DEF LaunchedByCmdlet, Launched, Opened
  <2>3. h \in Nat
    OBVIOUS
  <2>4. IsListing(windows') /\ Carries(windows', {}, {h})
    BY <1>1, <2>2, <2>3, OpenedIsListing
  <2> QED
    BY <2>1, <2>2, <2>3, <2>4 DEF ChangesTo
<1> QED
  BY <1>2, <1>3 DEF Launches

LEMMA WindowCallFields ==
  ASSUME NEW c, IsWindowCall(c), NEW v
  PROVE  /\ LET d == [c EXCEPT !.handle = v] IN
            IsWindowCall(d) /\ d.op = c.op /\ d.on = c.on /\ d.handle = v
         /\ LET d == [c EXCEPT !.arg = v] IN IsWindowCall(d)
<1> DEFINE r == [op |-> c.op, on |-> c.on, arg |-> c.arg, handle |-> c.handle]
<1>1. c = r /\ (c.op \in HandleOperations => c.on = NoQuery)
  BY DEF IsWindowCall
<1>2. [r EXCEPT !.handle = v] = [op |-> c.op, on |-> c.on, arg |-> c.arg, handle |-> v]
  OBVIOUS
<1>3. [r EXCEPT !.arg = v] = [op |-> c.op, on |-> c.on, arg |-> v, handle |-> c.handle]
  OBVIOUS
<1> HIDE DEF r
<1> QED
  BY <1>1, <1>2, <1>3 DEF IsWindowCall

\* Only a turn that has just found a window has anything to mean.
LEMMA WindowStages ==
  ASSUME WindowsInv, NEW t \in Turns
  PROVE  /\ Means(NoCall, "idle", windows, handles)
         /\ Means(call[t], at[t], windows, handles)
         /\ \A a : a # "again" \/ (call[t] # NoCall /\ call[t].op \notin WindowTools) =>
                     Means(call[t], a, windows, handles)
BY DEF WindowsInv, Means

LEMMA WindowsTurn ==
  ASSUME WindowsInv, ChangesTo(windows', handles'), NEW t \in Turns,
         \/ Declines(t) \/ (\E outcome : Ends(t, outcome)) \/ Asks(t) \/ Allows(t) \/ Denies(t)
         \/ \E done : Settles(t, done)
  PROVE  WindowsInv'
<1>1. TurnsType
  BY DEF WindowsInv
<1>2. \/ Moves(t, call[t], at[t], asked[t]) \/ Moves(t, NoCall, "idle", FALSE)
      \/ Moves(t, call[t], "gate", asked[t])
      \/ Moves(t, call[t], "allowed", TRUE) \/ Moves(t, call[t], "after", asked[t])
  BY <1>1, StepsMove
<1> QED
  BY <1>2, WindowStages, WindowsMove

\* The turn keeps its call and goes on.
LEMMA WindowsGoesOn ==
  ASSUME WindowsInv, ChangesTo(windows', handles'), NEW t \in Turns, NEW a,
         at' = [at EXCEPT ![t] = a], UNCHANGED <<call, asked>>,
         a # "again" \/ (call[t] # NoCall /\ call[t].op \notin WindowTools)
  PROVE  WindowsInv'
<1>1. TurnsType
  BY DEF WindowsInv
<1>2. Moves(t, call[t], a, asked[t])
  BY <1>1, StayingIsMoving DEF Moves
<1> QED
  BY <1>2, WindowStages, WindowsMove

LEMMA StepsKeepBackend ==
  ASSUME NEW t \in Turns
  PROVE  /\ \A c : Begins(t, c) => backend' = backend
         /\ Declines(t) => backend' = backend
         /\ \A outcome : Ends(t, outcome) => backend' = backend
         /\ Asks(t) => backend' = backend
         /\ Allows(t) => backend' = backend
         /\ Denies(t) => backend' = backend
         /\ \A done : Settles(t, done) => backend' = backend
BY DEF Begins, Declines, Ends, Asks, Allows, Denies, Settles

\* The steps that look, ask or report leave the machine as it is.
LEMMA WindowsLook ==
  ASSUME WindowsInv, UNCHANGED windowVars, NEW t \in Turns,
         \/ Declines(t) \/ (\E outcome : Ends(t, outcome)) \/ Asks(t) \/ Allows(t) \/ Denies(t)
         \/ \E done : Settles(t, done)
  PROVE  WindowsInv' /\ ChangesTo(windows', handles')
BY StepsKeepBackend, WindowsRest, WindowsTurn

\* A turn that finds its window means it.
LEMMA FindsInv ==
  ASSUME WindowsInv, NEW t \in Turns, FindsWindow(t)
  PROVE  WindowsInv' /\ ChangesTo(windows', handles')
<1>1. CASE \E outcome : Ends(t, outcome)
  BY <1>1, WindowsLook DEF FindsWindow
<1>2. CASE ~ \E outcome : Ends(t, outcome)
  <2> DEFINE found == Matching(call[t].on)
             h == found[1].handle
             c == [call[t] EXCEPT !.handle = h]
  <2>1. /\ found # <<>>
        /\ call' = [call EXCEPT ![t] = c]
        /\ at' = [at EXCEPT ![t] = "again"]
        /\ UNCHANGED <<backend, ok, asked>> /\ UNCHANGED windowVars
        /\ call[t] # NoCall
    BY <1>2 DEF FindsWindow, Does
  <2>2. TurnsType /\ IsWindowCall(call[t]) /\ IsListing(windows)
    BY <2>1 DEF WindowsInv, Means
  <2>3. ChangesTo(windows', handles')
    BY <2>1, WindowsRest
  <2>4. PICK k \in 1..Len(windows) :
          /\ found[1] = windows[k]
          /\ IF call[t].on = NoQuery THEN windows[k].focused ELSE windows[k].app = call[t].on
    <3> DEFINE wanted == {w \in Range(windows) :
                            IF call[t].on = NoQuery THEN w.focused ELSE w.app = call[t].on}
    <3>1. found = Among(wanted)
      BY DEF Matching
    <3>2. Picked(found, Len(windows), wanted)
      BY <2>2, <3>1, AmongIsPicked
    <3> HIDE DEF found
    <3>3. 1 \in 1..Len(found)
      BY <2>1, <3>2 DEF Picked
    <3> HIDE DEF wanted
    <3>4. found[1] \in wanted
      BY <3>2, <3>3 DEF Picked
    <3>5. PICK k \in 1..Len(windows) : found[1] = windows[k]
      BY <3>2, <3>3 DEF Picked
    <3> QED
      BY <3>4, <3>5 DEF wanted
  <2> HIDE DEF found
  <2>5. h = windows[k].handle /\ h \in Nat /\ (backend = "reference" => h <= handles)
    BY <2>2, <2>4 DEF IsListing, IsWindow, WindowsInv
  <2> HIDE DEF h
  <2>6. IsWindowCall(c) /\ c.op = call[t].op /\ c.on = call[t].on /\ c.handle = h
    BY <2>2, WindowCallFields
  <2> HIDE DEF c
  <2>7. ASSUME NEW i \in 1..Len(windows), windows[i].handle = h
        PROVE  c.on \in {NoQuery, windows[i].app}
    <3>1. i = k
      BY <2>2, <2>5, <2>7 DEF IsListing
    <3> QED
      BY <3>1, <2>4, <2>6
  <2>8. Means(c, "again", windows, handles)
    BY <2>5, <2>6, <2>7 DEF Means
  <2>9. Moves(t, c, "again", asked[t])
    BY <2>1, <2>2, StayingIsMoving DEF Moves
  <2> QED
    BY <2>3, <2>8, <2>9, WindowsMove
<1> QED
  BY <1>1, <1>2

LEMMA WindowsNextStep ==
  ASSUME WindowsInv, [WindowsNext]_<<turnVars, windowVars>>
  PROVE  WindowsInv' /\ ChangesTo(windows', handles')
<1>0. TurnsType
  BY DEF WindowsInv
<1>1. CASE UNCHANGED turnVars /\ ChangesTo(windows', handles')
  <2>1. call' = call /\ at' = at /\ asked' = asked
    BY <1>1 DEF turnVars
  <2>2. CASE \E t \in Turns : TRUE
    <3>1. PICK t \in Turns : TRUE
      BY <2>2
    <3>2. Moves(t, call[t], at[t], asked[t])
      BY <1>0, <2>1, StayingIsMoving DEF Moves
    <3> QED
      BY <1>1, <3>2, WindowStages, WindowsMove
  <2>3. CASE Turns = {}
    <3>1. TurnsType' /\ backend' = backend /\ IsListing(windows')
      BY <1>0, <1>1, <2>1 DEF TurnsType, ChangesTo
    <3>2. /\ handles' \in Nat
          /\ backend = "reference" => \A i \in 1..Len(windows') : windows'[i].handle <= handles'
      BY <1>1, StillListed
    <3> QED
      BY <1>1, <2>3, <3>1, <3>2 DEF WindowsInv, IsListing
  <2> QED
    BY <2>2, <2>3
<1>2. CASE UNCHANGED <<turnVars, windowVars>>
  <2>1. backend' = backend /\ UNCHANGED windowVars /\ UNCHANGED turnVars
    BY <1>2 DEF turnVars
  <2> QED
    BY <2>1, <1>1, WindowsRest
<1>3. CASE PersonCloses \/ PersonTurns
  <2>1. backend' = backend /\ UNCHANGED turnVars
    BY <1>3 DEF PersonCloses, PersonTurns, turnVars
  <2>2. CASE PersonCloses
    <3>1. UNCHANGED handles /\ \E wanted : windows' = Among(wanted)
      BY <2>2 DEF PersonCloses, Without
    <3> QED
      BY <3>1, <2>1, <1>1, WindowsKept
  <2>3. CASE PersonTurns
    <3>1. UNCHANGED handles /\ \E h : windows' = Focused(h)
      BY <2>3 DEF PersonTurns
    <3> QED
      BY <3>1, <2>1, <1>1, WindowsFocused
  <2> QED
    BY <1>3, <2>2, <2>3
<1>4. ASSUME NEW t \in Turns, StartsWindow(t)
      PROVE  WindowsInv' /\ ChangesTo(windows', handles')
  <2>1. PICK c \in WindowCalls[t] : Begins(t, c)
    BY <1>4 DEF StartsWindow
  <2>2. IsWindowCall(c)
    BY WindowCallsAssumption
  <2>3. Means(c, "call", windows, handles)
    BY <2>2 DEF Means
  <2>4. ChangesTo(windows', handles')
    BY <2>1, <1>4, StepsKeepBackend, WindowsRest DEF StartsWindow
  <2>5. Moves(t, c, "call", asked[t])
    BY <2>1, <1>0, StepsMove
  <2> QED
    BY <2>3, <2>4, <2>5, WindowsMove
<1>5. ASSUME NEW t \in Turns, FindsNext(t)
      PROVE  WindowsInv' /\ ChangesTo(windows', handles')
  <2>1. CASE \E outcome : Ends(t, outcome)
    BY <2>1, <1>5, WindowsLook DEF FindsNext
  <2>2. CASE ~ \E outcome : Ends(t, outcome)
    <3>1. PICK h : /\ call' = [call EXCEPT ![t].handle = h]
                   /\ at' = [at EXCEPT ![t] = "again"]
                   /\ UNCHANGED <<backend, ok, asked>> /\ UNCHANGED windowVars
                   /\ call[t] # NoCall /\ call[t].op = "switch_window"
      BY <1>5, <2>2 DEF FindsNext, Does
    <3> DEFINE c == [call[t] EXCEPT !.handle = h]
    <3>2. IsWindowCall(call[t])
      BY <3>1 DEF WindowsInv, Means
    <3>3. IsWindowCall(c) /\ c.op = "switch_window"
      BY <3>1, <3>2, WindowCallFields
    <3>4. Moves(t, c, "again", asked[t])
      BY <3>1, <1>0, StayingIsMoving DEF Moves
    <3> HIDE DEF c
    <3>5. Means(c, "again", windows, handles)
      BY <3>3 DEF Means, WindowTools
    <3>6. ChangesTo(windows', handles')
      BY <3>1, WindowsRest
    <3> QED
      BY <3>4, <3>5, <3>6, WindowsMove
  <2> QED
    BY <2>1, <2>2
<1>6. ASSUME NEW t \in Turns, FocusesWindow(t)
      PROVE  WindowsInv' /\ ChangesTo(windows', handles')
  <2>1. Settles(t, TRUE) /\ handles' = handles
    BY <1>6 DEF FocusesWindow
  <2>2. backend' = backend
    BY <2>1 DEF Settles
  <2>3. windows' = windows \/ \E h : windows' = Focused(h)
    BY <1>6 DEF FocusesWindow, FocusedByReference, FocusedByCmdlet
  <2>4. ASSUME windows' = windows
        PROVE  ChangesTo(windows', handles')
    BY <2>1, <2>2, <2>4, WindowsUntouched
  <2>5. ChangesTo(windows', handles')
    BY <2>1, <2>2, <2>3, <2>4, WindowsFocused
  <2> QED
    BY <2>1, <2>5, WindowsTurn
<1>7. ASSUME NEW t \in Turns, SetsState(t) \/ SnapsWindow(t) \/ PlacesWindow(t)
      PROVE  WindowsInv' /\ ChangesTo(windows', handles')
  <2>1. /\ Settles(t, TRUE) /\ handles' = handles
        /\ HasHandle(t, WindowTools \cup HandleOperations)
        /\ \/ windows' = windows
           \/ backend = "reference" /\ \E fields : Patched(call[t].handle, fields)
    BY <1>7 DEF SetsState, SnapsWindow, PlacesWindow, Commented, SnappedByReference,
                PlacedByReference, HasHandle, Does, WindowTools
  <2>2. backend' = backend
    BY <2>1 DEF Settles
  <2>3. ASSUME windows' = windows
        PROVE  ChangesTo(windows', handles')
    BY <2>1, <2>2, <2>3, WindowsUntouched
  <2>4. ChangesTo(windows', handles')
    BY <2>1, <2>2, <2>3, WindowsPatched
  <2> QED
    BY <2>1, <2>4, WindowsTurn
<1>8. ASSUME NEW t \in Turns, LaunchesApp(t)
      PROVE  WindowsInv' /\ ChangesTo(windows', handles')
  <2>1. Settles(t, TRUE) /\ \E app : Launches(app)
    BY <1>8 DEF LaunchesApp
  <2>2. backend' = backend
    BY <2>1 DEF Settles
  <2>3. ChangesTo(windows', handles')
    BY <2>1, <2>2, WindowsOpened
  <2> QED
    BY <2>1, <2>3, WindowsTurn
<1>9. ASSUME NEW t \in Turns, ClosesApp(t)
      PROVE  WindowsInv' /\ ChangesTo(windows', handles')
  <2>1. /\ UNCHANGED handles /\ \E wanted : windows' = Among(wanted)
        /\ \/ \E done : Settles(t, done)
           \/ at' = [at EXCEPT ![t] = "last"] /\ UNCHANGED <<backend, call, ok, asked>>
    BY <1>9 DEF ClosesApp, Without
  <2>2. backend' = backend
    BY <2>1, StepsKeepBackend
  <2>3. ChangesTo(windows', handles')
    BY <2>1, <2>2, WindowsKept
  <2> QED
    BY <2>1, <2>3, WindowsTurn, WindowsGoesOn
<1>10. ASSUME NEW t \in Turns, FindsProcess(t)
       PROVE  WindowsInv' /\ ChangesTo(windows', handles')
  <2>1. /\ UNCHANGED windowVars /\ call[t] # NoCall /\ call[t].op \notin WindowTools
        /\ \/ (\E done : Settles(t, done)) \/ Asks(t)
           \/ at' = [at EXCEPT ![t] = "again"] /\ UNCHANGED <<backend, call, ok, asked>>
    BY <1>10 DEF FindsProcess, Does, ProcessOperations, WindowTools
  <2>2. backend' = backend
    BY <2>1, StepsKeepBackend
  <2>3. ChangesTo(windows', handles')
    BY <2>1, <2>2, WindowsRest
  <2> QED
    BY <2>1, <2>3, WindowsTurn, WindowsGoesOn
<1>11. ASSUME NEW t \in Turns, KillsProcess(t)
       PROVE  WindowsInv' /\ ChangesTo(windows', handles')
  <2>1. /\ UNCHANGED handles /\ \E wanted : windows' = Among(wanted)
        /\ call[t] # NoCall
        /\ \/ Settles(t, TRUE)
           \/ /\ \E app : call' = [call EXCEPT ![t].arg = app]
              /\ at' = [at EXCEPT ![t] = "last"]
              /\ UNCHANGED <<backend, ok, asked>>
    BY <1>11 DEF KillsProcess, Without, Does
  <2>2. backend' = backend
    BY <2>1, StepsKeepBackend
  <2>3. ChangesTo(windows', handles')
    BY <2>1, <2>2, WindowsKept
  <2>4. CASE Settles(t, TRUE)
    BY <2>3, <2>4, WindowsTurn
  <2>5. CASE ~Settles(t, TRUE)
    <3>1. PICK app : call' = [call EXCEPT ![t].arg = app]
      BY <2>1, <2>5
    <3> DEFINE c == [call[t] EXCEPT !.arg = app]
    <3>2. IsWindowCall(call[t])
      BY <2>1 DEF WindowsInv, Means
    <3>3. IsWindowCall(c)
      BY <3>2, WindowCallFields
    <3>4. Moves(t, c, "last", asked[t])
      BY <2>1, <2>5, <3>1, <1>0, StayingIsMoving DEF Moves
    <3> HIDE DEF c
    <3>5. Means(c, "last", windows, handles)
      BY <3>3 DEF Means
    <3> QED
      BY <2>3, <3>4, <3>5, WindowsMove
  <2> QED
    BY <2>4, <2>5
<1>12. ASSUME NEW t \in Turns, StartsAgain(t)
       PROVE  WindowsInv' /\ ChangesTo(windows', handles')
  <2>1. /\ Settles(t, TRUE)
        /\ \/ \E app : Launches(app)
           \/ windows' = windows /\ handles' = handles
    BY <1>12 DEF StartsAgain, Launches
  <2>2. backend' = backend
    BY <2>1 DEF Settles
  <2>3. ASSUME windows' = windows, handles' = handles
        PROVE  ChangesTo(windows', handles')
    BY <2>2, <2>3, WindowsUntouched
  <2>4. ChangesTo(windows', handles')
    BY <2>1, <2>2, <2>3, WindowsOpened
  <2> QED
    BY <2>1, <2>4, WindowsTurn
<1>13. ASSUME NEW t \in Turns,
              \/ RejectsWindow(t) \/ MissesWindow(t) \/ MissesApp(t) \/ AllowsKill(t) \/ DeniesKill(t)
              \/ MissesProcess(t) \/ WindowFails(t) \/ ReturnsWindow(t) \/ LooksAtWindows(t)
              \/ LooksAtWindow(t) \/ LooksAtProcesses(t) \/ LooksAtApps(t) \/ LooksAtBrowsers(t)
       PROVE  WindowsInv' /\ ChangesTo(windows', handles')
  <2>1. /\ UNCHANGED windowVars
        /\ \/ Declines(t) \/ (\E outcome : Ends(t, outcome)) \/ Allows(t) \/ Denies(t)
           \/ \E done : Settles(t, done)
    BY <1>13
    DEF RejectsWindow, MissesWindow, MissesApp, AllowsKill, DeniesKill, MissesProcess, WindowFails,
        ReturnsWindow, LooksAtWindows, LooksAtWindow, LooksAtProcesses, LooksAtApps, LooksAtBrowsers
  <2> QED
    BY <2>1, WindowsLook
<1>14. ASSUME NEW t \in Turns, WindowStep(t)
       PROVE  WindowsInv' /\ ChangesTo(windows', handles')
  BY <1>4, <1>5, <1>6, <1>7, <1>8, <1>9, <1>10, <1>11, <1>12, <1>13, <1>14, FindsInv DEF WindowStep
<1>15. WindowsNext \/ UNCHANGED <<turnVars, windowVars>>
  OBVIOUS
<1> QED
  BY <1>2, <1>3, <1>14, <1>15 DEF WindowsNext

\* OnlyFoundWindowsChange, without the temporal operators.
FoundWindowsChange ==
  \A i \in DOMAIN windows, j \in DOMAIN windows' :
    LET w == windows[i]  v == windows'[j] IN
    (w.handle = v.handle /\ <<w.state, w.place>> # <<v.state, v.place>>) =>
      \E t \in Turns :
        /\ HasHandle(t, WindowTools \cup HandleOperations)
        /\ call[t].handle = w.handle
        /\ call[t].on \in {NoQuery, w.app}

LEMMA FoundWindowsChangeStep ==
  ASSUME WindowsInv, ChangesTo(windows', handles')
  PROVE  FoundWindowsChange
<1> SUFFICES ASSUME NEW i \in DOMAIN windows, NEW j \in DOMAIN windows',
                    windows[i].handle = windows'[j].handle,
                    <<windows[i].state, windows[i].place>> #
                      <<windows'[j].state, windows'[j].place>>
             PROVE  \E t \in Turns :
                      /\ HasHandle(t, WindowTools \cup HandleOperations)
                      /\ call[t].handle = windows[i].handle
                      /\ call[t].on \in {NoQuery, windows[i].app}
  BY DEF FoundWindowsChange
<1>1. /\ IsListing(windows) /\ IsListing(windows')
      /\ DOMAIN windows = 1..Len(windows) /\ DOMAIN windows' = 1..Len(windows')
  BY DEF WindowsInv, ChangesTo, IsListing
<1>2. PICK changed, new :
        /\ Carries(windows', changed, new)
        /\ \/ changed = {}
           \/ /\ backend = "reference"
              /\ \E t \in Turns :
                   changed = {call[t].handle} /\ HasHandle(t, WindowTools \cup HandleOperations)
        /\ \A h \in new : ~Listed(h)
  BY DEF ChangesTo
<1>3. windows'[j].handle \notin new
  BY <1>2 DEF Listed
<1>4. PICK k \in 1..Len(windows) :
        /\ windows'[j].handle = windows[k].handle
        /\ \/ windows'[j].handle \in changed
           \/ windows'[j].state = windows[k].state /\ windows'[j].place = windows[k].place
  BY <1>1, <1>2, <1>3 DEF Carries
<1>5. k = i
  BY <1>1, <1>4 DEF IsListing
<1>6. windows[i].handle \in changed
  BY <1>4, <1>5
<1>7. PICK t \in Turns :
        /\ backend = "reference" /\ windows[i].handle = call[t].handle
        /\ HasHandle(t, WindowTools \cup HandleOperations)
  BY <1>2, <1>6
<1>8. call[t].on \in {NoQuery, windows[i].app}
  <2>1. Means(call[t], at[t], windows, handles) /\ call[t] # NoCall
        /\ call[t].op \in WindowTools \cup HandleOperations
    BY <1>7 DEF WindowsInv, HasHandle, Does
  <2>2. CASE call[t].op \in HandleOperations
    BY <2>1, <2>2 DEF Means, IsWindowCall
  <2>3. CASE call[t].op \notin HandleOperations
    <3>1. at[t] = "again" /\ call[t].op \in WindowTools
      BY <1>7, <2>1, <2>3 DEF HasHandle
    <3> QED
      BY <2>1, <3>1, <1>1, <1>7 DEF Means
  <2> QED
    BY <2>2, <2>3
<1> QED
  BY <1>7, <1>8

\* Only a turn that has found a window, or was given its handle, changes its
\* state or place, and it still is a window of the application that was asked
\* for, whatever opens and closes in between.
THEOREM FoundWindowsAreMeant == WindowsSpec => OnlyFoundWindowsChange
<1>1. WindowsInv /\ [WindowsNext]_<<turnVars, windowVars>>
        => [FoundWindowsChange]_<<turnVars, windowVars>>
  <2>1. ASSUME WindowsInv, [WindowsNext]_<<turnVars, windowVars>>
        PROVE  FoundWindowsChange
    BY <2>1, WindowsNextStep, FoundWindowsChangeStep
  <2> QED
    BY <2>1
<1>2. WindowsInv /\ [WindowsNext]_<<turnVars, windowVars>> => WindowsInv'
  BY WindowsNextStep
<1> QED
  BY <1>1, <1>2, WindowsStart, PTL DEF WindowsSpec, OnlyFoundWindowsChange, FoundWindowsChange
=============================================================================
