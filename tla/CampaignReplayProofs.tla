-------------------------- MODULE CampaignReplayProofs --------------------------
(***************************************************************************)
(* Proofs about the replays and the backups of CampaignJournal, for any      *)
(* number of processes, timelines, keys, events and faults.                *)
(*                                                                         *)
(* What a replay shows of a timeline's parents is a recursive function of    *)
(* the manifests. Its recursion is shown to exist, and two such functions to *)
(* agree, from the least-number principle; the rest is that no step changes  *)
(* what a known timeline inherits or had at a head it has (LineageInv), and  *)
(* that a kept replay is extended only from the head the append extended.    *)
(*                                                                         *)
(* A backup finds nobody inside a timeline (AloneInv), and what a timeline's *)
(* files lack is, until something fails, what its holder is about to write   *)
(* (WholeInv).                                                             *)
(***************************************************************************)
EXTENDS CampaignJournalProofs, WellFoundedInduction

-----------------------------------------------------------------------------
(* Recursion over the parents *)

\* A set of numbers that has an element has a least one.
LEMMA LeastNumber ==
    ASSUME NEW S \in SUBSET Nat, S # {}
    PROVE  \E n \in S : \A k \in S : ~ (k < n)
<1>. DEFINE R == OpToRel(<, Nat)
<1>1. IsWellFoundedOn(R, Nat)
  BY NatLessThanWellFounded
<1>2. \A k, n \in Nat : k < n => <<k, n>> \in R
  BY DEF OpToRel
<1>. HIDE DEF R
<1>3. PICK n \in S : \A k \in S : ~ (<<k, n>> \in R)
  BY <1>1, WFMin
<1>. QED  BY <1>2, <1>3

\* One row of a table of what the parents had: a timeline's is that of its parent, with
\* the row before, and the parent's own.
Row(g, T, P, W, n) ==
    [t \in T |-> IF n = 0 \/ P[t] = Nothing THEN <<>> ELSE g[n - 1][P[t]] \o W[t]]
Table(g, T, P, W, n)  == g = [m \in 0 .. n |-> Row(g, T, P, W, m)]
FullTable(f, T, P, W) == f = [n \in Nat |-> Row(f, T, P, W, n)]

\* A table of n rows makes one of n + 1.
LEMMA TableExtends ==
    ASSUME NEW T, NEW P, NEW W, NEW n \in Nat \ {0}, NEW g, Table(g, T, P, W, n - 1)
    PROVE  \E h : Table(h, T, P, W, n)
<1>. DEFINE h == [m \in 0 .. n |-> IF m = n THEN Row(g, T, P, W, n) ELSE g[m]]
<1>1. ASSUME NEW m \in 0 .. n
      PROVE  Row(h, T, P, W, m) = Row(g, T, P, W, m)
  <2>1. CASE m = 0
    BY <2>1 DEF Row
  <2>2. CASE m # 0
    <3>1. m - 1 \in 0 .. n /\ m - 1 # n
      BY <2>2
    <3>2. h[m - 1] = g[m - 1]
      BY <3>1
    <3>. HIDE DEF h
    <3>. QED  BY <3>2 DEF Row
  <2>. QED  BY <2>1, <2>2
<1>2. ASSUME NEW m \in 0 .. n
      PROVE  h[m] = Row(g, T, P, W, m)
  <2>1. CASE m = n
    BY <2>1
  <2>2. CASE m # n
    <3>1. m \in 0 .. n - 1
      BY <2>2
    <3>2. g[m] = Row(g, T, P, W, m)
      BY <3>1 DEF Table
    <3>. QED  BY <2>2, <3>2
  <2>. QED  BY <2>1, <2>2
<1>3. h = [m \in 0 .. n |-> h[m]]
  OBVIOUS
<1>. HIDE DEF h
<1>. QED  BY <1>1, <1>2, <1>3 DEF Table

\* There is a table of any length: the shortest that there is not would extend another.
LEMMA TableExists ==
    ASSUME NEW T, NEW P, NEW W
    PROVE  \A n \in Nat : \E g : Table(g, T, P, W, n)
<1>. DEFINE S == {n \in Nat : ~ \E g : Table(g, T, P, W, n)}
<1>1. SUFFICES ASSUME S # {} PROVE FALSE
  OBVIOUS
<1>2. PICK n \in S : \A k \in S : ~ (k < n)
  BY <1>1, LeastNumber
<1>3. CASE n = 0
  <2>. DEFINE g == [m \in 0 .. 0 |-> [t \in T |-> <<>>]]
  <2>1. \A m \in 0 .. 0 : Row(g, T, P, W, m) = [t \in T |-> <<>>]
    BY DEF Row
  <2>2. Table(g, T, P, W, 0)
    <3>1. g = [m \in 0 .. 0 |-> [t \in T |-> <<>>]]
      OBVIOUS
    <3>. HIDE DEF g
    <3>. QED  BY <2>1, <3>1 DEF Table
  <2>. QED  BY <1>3, <2>2
<1>4. CASE n # 0
  <2>1. n - 1 \in Nat /\ n - 1 < n /\ n \in Nat \ {0}
    BY <1>4
  <2>2. \E g : Table(g, T, P, W, n - 1)
    BY <1>2, <2>1
  <2>. QED  BY <2>1, <2>2, TableExtends
<1>. QED  BY <1>3, <1>4

\* Tables agree as far as they both go.
LEMMA TablesAgree ==
    ASSUME NEW T, NEW P, NEW W, NEW n \in Nat, NEW k \in Nat, NEW g, NEW h,
           Table(g, T, P, W, n), Table(h, T, P, W, k), NEW m \in Nat, m <= n, m <= k
    PROVE  g[m] = h[m]
<1>. DEFINE S == {j \in Nat : j <= m /\ g[j] # h[j]}
<1>1. SUFFICES ASSUME S # {} PROVE FALSE
  OBVIOUS
<1>2. PICK j \in S : \A i \in S : ~ (i < j)
  BY <1>1, LeastNumber
<1>3. g[j] = Row(g, T, P, W, j) /\ h[j] = Row(h, T, P, W, j)
  <2>1. j \in 0 .. n /\ j \in 0 .. k
    BY <1>2
  <2>. QED  BY <2>1 DEF Table
<1>4. j = 0 \/ g[j - 1] = h[j - 1]
  BY <1>2
<1>5. Row(g, T, P, W, j) = Row(h, T, P, W, j)
  BY <1>4 DEF Row
<1>. QED  BY <1>2, <1>3, <1>5

\* So there is the table of all rows, which is what a recursive definition chooses.
LEMMA RecursionExists ==
    ASSUME NEW T, NEW P, NEW W
    PROVE  \E f : FullTable(f, T, P, W)
<1>. DEFINE c(n) == CHOOSE g : Table(g, T, P, W, n)
            f    == [n \in Nat |-> c(n)[n]]
<1>1. \A n \in Nat : Table(c(n), T, P, W, n)
  BY TableExists
<1>2. ASSUME NEW n \in Nat
      PROVE  f[n] = Row(f, T, P, W, n)
  <2>1. f[n] = c(n)[n] /\ (n # 0 => f[n - 1] = c(n - 1)[n - 1])
    OBVIOUS
  <2>. HIDE DEF f, c
  <2>2. c(n)[n] = Row(c(n), T, P, W, n)
    <3>1. Table(c(n), T, P, W, n) /\ n \in 0 .. n
      BY <1>1
    <3>. QED  BY <3>1 DEF Table
  <2>3. ASSUME n # 0
        PROVE  c(n)[n - 1] = f[n - 1]
    <3>1. n - 1 \in Nat /\ n - 1 <= n /\ n - 1 <= n - 1
      BY <2>3
    <3>2. Table(c(n), T, P, W, n) /\ Table(c(n - 1), T, P, W, n - 1)
      BY <1>1, <3>1
    <3>3. c(n)[n - 1] = c(n - 1)[n - 1]
      BY <3>1, <3>2, TablesAgree
    <3>. QED  BY <2>1, <2>3, <3>3
  <2>4. Row(c(n), T, P, W, n) = Row(f, T, P, W, n)
    BY <2>3 DEF Row
  <2>. QED  BY <2>1, <2>2, <2>4
<1>3. f = [n \in Nat |-> f[n]]
  OBVIOUS
<1>. HIDE DEF f
<1>. QED  BY <1>2, <1>3 DEF FullTable

\* Two tables agree on timelines that have the same parent and the same part in both, and
\* whose parents are among them.
LEMMA TablesSame ==
    ASSUME NEW T, NEW P, NEW W, NEW f, FullTable(f, T, P, W),
           NEW Q, NEW V, NEW g, FullTable(g, T, Q, V), NEW U \in SUBSET T,
           \A u \in U : /\ Q[u] = P[u]
                        /\ P[u] # Nothing => V[u] = W[u] /\ P[u] \in U
    PROVE  \A n \in Nat : \A u \in U : f[n][u] = g[n][u]
<1>. DEFINE S == {n \in Nat : ~ \A u \in U : f[n][u] = g[n][u]}
<1>1. SUFFICES ASSUME S # {} PROVE FALSE
  OBVIOUS
<1>2. PICK n \in S : \A k \in S : ~ (k < n)
  BY <1>1, LeastNumber
<1>3. f[n] = Row(f, T, P, W, n) /\ g[n] = Row(g, T, Q, V, n)
  BY <1>2 DEF FullTable
<1>4. ASSUME n # 0
      PROVE  \A u \in U : f[n - 1][u] = g[n - 1][u]
  <2>1. n - 1 \in Nat /\ n - 1 < n
    BY <1>2, <1>4
  <2>. QED  BY <1>2, <2>1
<1>5. ASSUME NEW u \in U
      PROVE  f[n][u] = g[n][u]
  <2>1. u \in T /\ f[n][u] = Row(f, T, P, W, n)[u] /\ g[n][u] = Row(g, T, Q, V, n)[u]
    BY <1>3
  <2>2. CASE n = 0 \/ P[u] = Nothing
    BY <2>1, <2>2 DEF Row
  <2>3. CASE n # 0 /\ P[u] # Nothing
    <3>1. f[n - 1][P[u]] = g[n - 1][P[u]]
      BY <1>4, <2>3
    <3>. QED  BY <2>1, <2>3, <3>1 DEF Row
  <2>. QED  BY <2>2, <2>3
<1>. QED  BY <1>2, <1>5

\* A table of parts that are sequences is one of sequences.
LEMMA TableTyped ==
    ASSUME NEW T, NEW P, NEW W, NEW f, FullTable(f, T, P, W), NEW X,
           \A t \in T : P[t] # Nothing => P[t] \in T /\ W[t] \in Seq(X)
    PROVE  \A n \in Nat : \A t \in T : f[n][t] \in Seq(X)
<1>. DEFINE S == {n \in Nat : ~ \A t \in T : f[n][t] \in Seq(X)}
<1>1. SUFFICES ASSUME S # {} PROVE FALSE
  OBVIOUS
<1>2. PICK n \in S : \A k \in S : ~ (k < n)
  BY <1>1, LeastNumber
<1>3. f[n] = Row(f, T, P, W, n)
  BY <1>2 DEF FullTable
<1>4. ASSUME n # 0
      PROVE  \A t \in T : f[n - 1][t] \in Seq(X)
  <2>1. n - 1 \in Nat /\ n - 1 < n
    BY <1>2, <1>4
  <2>. QED  BY <1>2, <2>1
<1>5. ASSUME NEW t \in T
      PROVE  f[n][t] \in Seq(X)
  <2>1. CASE n = 0 \/ P[t] = Nothing
    BY <1>3, <2>1 DEF Row
  <2>2. CASE n # 0 /\ P[t] # Nothing
    <3>1. f[n - 1][P[t]] \in Seq(X) /\ W[t] \in Seq(X)
      BY <1>4, <2>2
    <3>2. f[n][t] = f[n - 1][P[t]] \o W[t]
      BY <1>3, <2>2 DEF Row
    <3>. QED  BY <3>1, <3>2, ConcatProperties
  <2>. QED  BY <2>1, <2>2
<1>. QED  BY <1>2, <1>5

-----------------------------------------------------------------------------
(* The invariants *)

\* A timeline is known once it is forked; the first one always is.
Known(t) == t = Main \/ manifest[t].parent # Nothing
\* A timeline is forked from a known one, at a head that one has, and nobody is told of a
\* timeline before.
LineageInv ==
    /\ manifest[Main].parent = Nothing
    /\ \A t \in Timelines : manifest[t].parent # Nothing =>
         Known(manifest[t].parent) /\ Found(manifest[t].parent, manifest[t].fork)
    /\ Known(active)
    /\ \A p \in Processes : Known(serves[p]) /\ Known(proc[p].timeline)
    /\ \A p \in Processes, t \in Timelines : cache[p][t] # Nothing =>
         Known(t) /\ Found(t, cache[p][t].head)

CacheType == cache \in [Processes -> [Timelines -> Replay \cup {Nothing}]]

\* A timeline has no event and no row before its row is made.
Blank(t) == events[t] = {} /\ manifest[t].head = 0
UnusedInv ==
    /\ \A t \in Timelines : ~ Known(t) => Blank(t) /\ catalog[t] = 0
    /\ \A p \in Processes : proc[p].pc = "fork_list" =>
         /\ Blank(proc[p].timeline) /\ active # proc[p].timeline
         /\ proc[p].timeline # Main
         /\ \A q \in Processes : serves[q] # proc[p].timeline
         /\ \A q \in Processes \ {p} : proc[q].timeline # proc[p].timeline

\* A backup is alone in the tree.
AloneInv ==
    \A p, q \in Processes : proc[p].pc \in Archives => proc[q].pc \notin Critical

\* Until something fails, what a timeline's files lack is what its holder is about to do.
Holding(t, steps) == \E p \in Processes : InPath(p, t) /\ proc[p].pc \in steps
WholeInv ==
    /\ \A p \in Processes : proc[p].pc \notin {"advance", "list"}
    /\ \A t \in Timelines :
         /\ manifest[t].seq = Length(t) \/ Holding(t, {"commit"})
         /\ catalog[t] = manifest[t].head \/ Holding(t, {"mark", "publish"})
         /\ \A e \in events[t] : e.key # NoKey =>
              \/ marker[t][e.key] = e.id
              \/ \E p \in Processes : /\ InPath(p, t) /\ proc[p].pc \in {"commit", "mark"}
                                      /\ proc[p].id = e.id

-----------------------------------------------------------------------------
(* What a timeline inherits *)

Parents == [t \in Timelines |-> manifest[t].parent]
Parts   == [t \in Timelines |-> Own(manifest[t].parent, manifest[t].fork)]
Ancestry ==
    \E f : /\ FullTable(f, Timelines, Parents, Parts)
           /\ Inherited = f[Cardinality(Timelines)]

\* What the definition of Inherited says, row by row.
LEMMA InheritedIs == Ancestry
<1>. DEFINE F(f) == [n \in Nat |->
          [t \in Timelines |->
             IF n = 0 \/ manifest[t].parent = Nothing THEN <<>>
             ELSE f[n - 1][manifest[t].parent]
                  \o Own(manifest[t].parent, manifest[t].fork)]]
<1>1. ASSUME NEW f
      PROVE  F(f) = [n \in Nat |-> Row(f, Timelines, Parents, Parts, n)]
  <2>1. \A n \in Nat : F(f)[n] = Row(f, Timelines, Parents, Parts, n)
    BY DEF Row, Parents, Parts
  <2>2. F(f) = [n \in Nat |-> F(f)[n]]
    OBVIOUS
  <2>. HIDE DEF F
  <2>. QED  BY <2>1, <2>2
<1>3. \E f : f = F(f)
  <2>1. PICK f : f = [n \in Nat |-> Row(f, Timelines, Parents, Parts, n)]
    <3>1. \E f : FullTable(f, Timelines, Parents, Parts)
      BY RecursionExists
    <3>. QED  BY <3>1 DEF FullTable
  <2>2. f = F(f)
    BY <1>1, <2>1
  <2>. QED  BY <2>2
<1>4. Inherited = (CHOOSE f : f = F(f))[Cardinality(Timelines)]
  BY DEF Inherited
<1>. HIDE DEF F
<1>5. PICK f : f = F(f) /\ f = (CHOOSE g : g = F(g))
  BY <1>3
<1>. QED  BY <1>1, <1>4, <1>5 DEF Ancestry, FullTable

-----------------------------------------------------------------------------
(* What a timeline has of its own *)

\* A chain of events no two of which have the same id.
Directory(S) ==
    /\ S \in SUBSET Event /\ ChainOf(S)
    /\ \A e, f \in S : e.id = f.id => e = f

\* Own and Found, of a directory.
FoundIn(S, target) == target = 0 \/ \E e \in S : e.id = target
OwnIn(S, target) ==
    IF target = 0 THEN <<>>
    ELSE LET last == CHOOSE e \in S : e.id = target
         IN [n \in 1 .. last.seq |-> EventIn(S, n).id]

\* Up to an event's id, they are the ids at its sequence and before.
LEMMA OwnOfEvent ==
    ASSUME NEW S, Directory(S), NEW e \in S
    PROVE  OwnIn(S, e.id) = [n \in 1 .. e.seq |-> EventIn(S, n).id]
<1>1. (CHOOSE f \in S : f.id = e.id) = e
  BY DEF Directory
<1>2. e.id # 0
  BY BoundAssumption DEF Directory, Event, Ids
<1>. QED  BY <1>1, <1>2 DEF OwnIn

\* Up to the head at a sequence, they are the ids up to that sequence.
LEMMA OwnOfHead ==
    ASSUME NEW S, Directory(S), NEW n \in 0 .. Cardinality(S)
    PROVE  /\ FoundIn(S, HeadIn(S, n))
           /\ OwnIn(S, HeadIn(S, n)) = [i \in 1 .. n |-> EventIn(S, i).id]
<1>1. CASE n = 0
  <2>1. HeadIn(S, n) = 0
    BY <1>1 DEF HeadIn
  <2>2. [i \in 1 .. 0 |-> EventIn(S, i).id] = <<>>
    OBVIOUS
  <2>. QED  BY <1>1, <2>1, <2>2 DEF FoundIn, OwnIn
<1>2. CASE n # 0
  <2>1. Cardinality(S) \in Nat
    BY FS_CardinalityType DEF Directory, ChainOf
  <2>2. EventIn(S, n) \in S /\ EventIn(S, n).seq = n
    BY <1>2, <2>1, ChainHasEvent DEF Directory
  <2>3. HeadIn(S, n) = EventIn(S, n).id
    BY <1>2 DEF HeadIn
  <2>4. OwnIn(S, EventIn(S, n).id) = [i \in 1 .. n |-> EventIn(S, i).id]
    BY <2>2, OwnOfEvent
  <2>. QED  BY <2>2, <2>3, <2>4 DEF FoundIn
<1>. QED  BY <1>1, <1>2

\* They are ids.
LEMMA OwnTyped ==
    ASSUME NEW S, Directory(S), NEW target, FoundIn(S, target)
    PROVE  OwnIn(S, target) \in Seq(Ids)
<1>1. CASE target = 0
  BY <1>1 DEF OwnIn
<1>2. CASE target # 0
  <2>1. PICK e \in S : e.id = target
    BY <1>2 DEF FoundIn
  <2>2. e.seq \in 1 .. Cardinality(S) /\ Cardinality(S) \in Nat
    BY EventOfChain DEF Directory
  <2>3. \A n \in 1 .. e.seq : EventIn(S, n).id \in Ids
    <3>1. ASSUME NEW n \in 1 .. e.seq
          PROVE  EventIn(S, n) \in Event
      <4>1. n \in 1 .. Cardinality(S)
        BY <2>2
      <4>. QED  BY <4>1, ChainHasEvent DEF Directory
    <3>. QED  BY <3>1 DEF Event
  <2>4. OwnIn(S, target) = [n \in 1 .. e.seq |-> EventIn(S, n).id]
    BY <2>1, OwnOfEvent
  <2>5. e.seq \in Nat
    BY <2>2
  <2>. QED  BY <2>3, <2>4, <2>5
<1>. QED  BY <1>1, <1>2

\* A directory T has the events of S, where they were.
Continues(S, T) ==
    /\ S \subseteq T
    /\ \A n \in 1 .. Cardinality(S) : EventIn(T, n) = EventIn(S, n)

\* What was found stays, and what was before it.
LEMMA OwnContinues ==
    ASSUME NEW S, Directory(S), NEW T, Directory(T), Continues(S, T),
           NEW target, FoundIn(S, target)
    PROVE  FoundIn(T, target) /\ OwnIn(T, target) = OwnIn(S, target)
<1>1. CASE target = 0
  BY <1>1 DEF FoundIn, OwnIn
<1>2. CASE target # 0
  <2>1. PICK e \in S : e.id = target
    BY <1>2 DEF FoundIn
  <2>2. e \in T
    BY <2>1 DEF Continues
  <2>3. e.seq \in 1 .. Cardinality(S) /\ Cardinality(S) \in Nat
    BY EventOfChain DEF Directory
  <2>4. \A n \in 1 .. e.seq : EventIn(T, n) = EventIn(S, n)
    BY <2>3 DEF Continues
  <2>5. OwnIn(S, target) = [n \in 1 .. e.seq |-> EventIn(S, n).id]
    BY <2>1, OwnOfEvent
  <2>6. OwnIn(T, target) = [n \in 1 .. e.seq |-> EventIn(T, n).id]
    BY <2>1, <2>2, OwnOfEvent
  <2>. QED  BY <2>1, <2>2, <2>4, <2>5, <2>6 DEF FoundIn
<1>. QED  BY <1>1, <1>2

\* The timelines' directories are such.
LEMMA Directories ==
    ASSUME IInv, NEW t \in Timelines
    PROVE  Directory(events[t])
  BY DEF IInv, Typed, FilesInv, IdsInv, Directory

\* The same, as a predicate that can be primed.
AllDirectories == \A t \in Timelines : Directory(events[t])
\* They all are.
LEMMA AreDirectories == IInv => AllDirectories
  BY Directories DEF AllDirectories

\* Own and Found are those of the directory.
OwnIsOfDirectory ==
    \A t, target : /\ Own(t, target) = OwnIn(events[t], target)
                   /\ Found(t, target) = FoundIn(events[t], target)
                   /\ HeadAt(t, target) = HeadIn(events[t], target)
\* They are.
LEMMA OwnIs == OwnIsOfDirectory
  BY DEF OwnIsOfDirectory, Own, OwnIn, Found, FoundIn, EventAt, EventIn, HeadAt, HeadIn

\* A step installs one event at most, after the others.
LEMMA FilesContinue ==
    ASSUME IInv, [Next]_vars, NEW t \in Timelines
    PROVE  Continues(events[t], events'[t])
<1>1. CASE events' = events
  BY <1>1 DEF Continues
<1>2. CASE events' # events
  <2>1. PICK p \in Processes : Install(p)
    <3>1. PICK p \in Processes : Request(p) \/ Step(p) \/ Raise(p) \/ Crash(p)
      BY <1>2 DEF Next, vars, diskVars
    <3>2. ~ Request(p)
      BY <1>2 DEF Request, Call, Resolve, Fork, Archive, diskVars
    <3>3. ~ (Raise(p) \/ Crash(p))
      BY <1>2 DEF Raise, Crash, diskVars
    <3>4. CASE Step(p)
      BY <1>2, <3>4 DEF Step, Recover, Advance, List, LookAtMarker, LookAtIndex, Remark,
         Commit, Mark, Publish, Materialize, ForkList, ReplayFork, Archived, diskVars
    <3>. QED  BY <3>1, <3>2, <3>3, <3>4
  <2>2. PICK u \in Timelines : u = proc[p].timeline /\ proc[p].pc = "install"
    BY <2>1 DEF IInv, Typed, Install
  <2>3. PICK id \in Ids :
          NewId(id) /\ events' = [events EXCEPT ![u] = @ \cup {NewEvent(p, id)}]
    BY <2>1, <2>2 DEF Install
  <2>. DEFINE T == events[u] \cup {NewEvent(p, id)}
  <2>4. Extends(u, T, NewEvent(p, id), proc[p].key, id)
    BY <2>2, <2>3, Installed
  <2>5. /\ events'[u] = T
        /\ \A v \in Timelines \ {u} : events'[v] = events[v]
    BY <2>3 DEF IInv, Typed
  <2>6. /\ events[u] \subseteq T
        /\ \A n \in 1 .. Cardinality(events[u]) : EventIn(T, n) = EventIn(events[u], n)
    BY <2>4 DEF Extends, Length, EventAt, EventIn
  <2>. HIDE DEF T
  <2>. QED  BY <2>5, <2>6 DEF Continues
<1>. QED  BY <1>1, <1>2

-----------------------------------------------------------------------------
(* What a step keeps of the lineage *)

\* Only a fork names a parent, and only for a timeline that was not known.
LEMMA ForksOnly ==
    ASSUME IInv, [Next]_vars, NEW u \in Timelines
    PROVE  \/ manifest'[u].parent = manifest[u].parent /\ manifest'[u].fork = manifest[u].fork
           \/ /\ ~ Known(u)
              /\ \E parent \in Timelines, head \in Heads :
                   /\ Known(parent) /\ Found(parent, head)
                   /\ manifest'[u].parent = parent /\ manifest'[u].fork = head
<1>1. CASE manifest' = manifest
  BY <1>1
<1>2. CASE manifest' # manifest
  <2>1. PICK p \in Processes : Request(p) \/ Step(p) \/ Raise(p) \/ Crash(p)
    BY <1>2 DEF Next, vars, diskVars
  <2>2. ~ (Raise(p) \/ Crash(p))
    BY <1>2 DEF Raise, Crash, diskVars
  <2>3. manifest \in [Timelines -> Manifest]
    BY DEF IInv, Typed
  <2>4. CASE Request(p)
    <3>1. PICK child \in Timelines, parent \in Timelines, head \in Heads :
            Fork(p, child, parent, head)
      BY <1>2, <2>4 DEF Request, Call, Resolve, Archive, diskVars
    <3>2. /\ Known(parent) /\ ~ Known(child) /\ Found(parent, head)
          /\ manifest' = [manifest EXCEPT ![child].parent = parent, ![child].fork = head]
      BY <3>1 DEF Fork, Known
    <3>. QED  BY <2>3, <3>2 DEF Manifest
  <2>5. CASE Step(p)
    <3>1. Advance(p) \/ Commit(p)
      BY <1>2, <2>5 DEF Step, Recover, List, LookAtMarker, LookAtIndex, Remark, Install,
         Mark, Publish, Materialize, ForkList, ReplayFork, Archived, diskVars
    <3>2. PICK t : /\ t = proc[p].timeline
                   /\ \E seq, head : manifest' =
                        [manifest EXCEPT ![t].seq = seq, ![t].head = head]
      <4>1. CASE Advance(p)
        BY <4>1 DEF Advance
      <4>2. CASE Commit(p)
        BY <4>2 DEF Commit
      <4>. QED  BY <3>1, <4>1, <4>2
    <3>. QED  BY <2>3, <3>2 DEF Manifest
  <2>. QED  BY <2>1, <2>2, <2>4, <2>5
<1>. QED  BY <1>1, <1>2

\* A known timeline keeps its parent and where it was forked.
LEMMA KnownKept ==
    ASSUME IInv, [Next]_vars, NEW u \in Timelines, Known(u)
    PROVE  /\ Known(u)'
           /\ manifest'[u].parent = manifest[u].parent
           /\ manifest'[u].fork = manifest[u].fork
  BY ForksOnly DEF Known

\* What was found in a timeline is found, and what was before it stays.
LEMMA OwnStays ==
    ASSUME IInv, [Next]_vars, NEW t \in Timelines, NEW target, FoundIn(events[t], target)
    PROVE  /\ FoundIn(events'[t], target)
           /\ OwnIn(events'[t], target) = OwnIn(events[t], target)
<1>1. IInv'
  BY NextInv
<1>2. AllDirectories /\ AllDirectories'
  BY <1>1, AreDirectories, PTL
<1>3. Directory(events[t]) /\ Directory(events'[t])
  BY <1>2 DEF AllDirectories
<1>. QED  BY <1>3, FilesContinue, OwnContinues

\* The parts of Inherited, of the directories.
LEMMA PartsAre ==
    /\ \A t \in Timelines :
         /\ Parents[t] = manifest[t].parent
         /\ Parts[t] = OwnIn(events[manifest[t].parent], manifest[t].fork)
    /\ \A t \in Timelines :
         /\ Parents'[t] = manifest'[t].parent
         /\ Parts'[t] = OwnIn(events'[manifest'[t].parent], manifest'[t].fork)
  BY DEF Parents, Parts, Own, OwnIn, EventAt, EventIn

\* A known timeline inherits what it did.
LEMMA InheritedStays ==
    ASSUME IInv, LineageInv, [Next]_vars, NEW u \in Timelines, Known(u)
    PROVE  Inherited'[u] = Inherited[u]
<1>. DEFINE U == {t \in Timelines : Known(t)}
            n == Cardinality(Timelines)
<1>1. PICK f : FullTable(f, Timelines, Parents, Parts) /\ Inherited = f[n]
  BY InheritedIs DEF Ancestry
<1>2. PICK g : FullTable(g, Timelines, Parents', Parts') /\ Inherited' = g[n]
  <2>1. Ancestry'
    BY InheritedIs, PTL
  <2>. QED  BY <2>1 DEF Ancestry
<1>3. ASSUME NEW t \in U
      PROVE  /\ Parents'[t] = Parents[t]
             /\ Parents[t] # Nothing => Parts'[t] = Parts[t] /\ Parents[t] \in U
  <2>1. t \in Timelines /\ Known(t)
    OBVIOUS
  <2>2. /\ manifest'[t].parent = manifest[t].parent
        /\ manifest'[t].fork = manifest[t].fork
    BY <2>1, KnownKept
  <2>3. ASSUME manifest[t].parent # Nothing
        PROVE  /\ manifest[t].parent \in U
               /\ OwnIn(events'[manifest[t].parent], manifest[t].fork) =
                    OwnIn(events[manifest[t].parent], manifest[t].fork)
    <3>1. manifest[t].parent \in Timelines
      BY <2>1, <2>3 DEF IInv, Typed, Manifest
    <3>2. Known(manifest[t].parent) /\ Found(manifest[t].parent, manifest[t].fork)
      BY <2>1, <2>3 DEF LineageInv
    <3>3. FoundIn(events[manifest[t].parent], manifest[t].fork)
      BY <3>2, OwnIs DEF OwnIsOfDirectory
    <3>. QED  BY <3>1, <3>2, <3>3, OwnStays
  <2>. HIDE DEF U
  <2>. QED  BY <2>1, <2>2, <2>3, PartsAre
<1>4. n \in Nat
  BY TimelineAssumption, FS_CardinalityType
<1>5. u \in U /\ U \in SUBSET Timelines
  OBVIOUS
<1>. HIDE DEF U, n
<1>6. \A m \in Nat : \A t \in U : f[m][t] = g[m][t]
  BY <1>1, <1>2, <1>3, <1>5, TablesSame
<1>. QED  BY <1>1, <1>2, <1>4, <1>5, <1>6

\* What a timeline inherits is a sequence of ids.
LEMMA InheritedTyped ==
    ASSUME IInv, LineageInv, NEW u \in Timelines
    PROVE  Inherited[u] \in Seq(Ids)
<1>. DEFINE n == Cardinality(Timelines)
<1>1. PICK f : FullTable(f, Timelines, Parents, Parts) /\ Inherited = f[n]
  BY InheritedIs DEF Ancestry
<1>2. ASSUME NEW t \in Timelines, Parents[t] # Nothing
      PROVE  Parents[t] \in Timelines /\ Parts[t] \in Seq(Ids)
  <2>1. manifest[t].parent \in Timelines /\ Parents[t] = manifest[t].parent
    BY <1>2, PartsAre DEF IInv, Typed, Manifest
  <2>2. FoundIn(events[manifest[t].parent], manifest[t].fork)
    BY <1>2, <2>1, OwnIs DEF LineageInv, OwnIsOfDirectory
  <2>3. Directory(events[manifest[t].parent])
    BY <2>1, Directories
  <2>. QED  BY <2>1, <2>2, <2>3, PartsAre, OwnTyped
<1>3. n \in Nat
  BY TimelineAssumption, FS_CardinalityType
<1>. HIDE DEF n
<1>4. \A m \in Nat : \A t \in Timelines : f[m][t] \in Seq(Ids)
  BY <1>1, <1>2, TableTyped
<1>. QED  BY <1>1, <1>3, <1>4

\* Materialized, of the directory.
LEMMA MaterializedIs ==
    \A t, target : /\ Materialized(t, target) = Inherited[t] \o OwnIn(events[t], target)
                   /\ Materialized(t, target)' = Inherited'[t] \o OwnIn(events'[t], target)
  BY DEF Materialized, Own, OwnIn, EventAt, EventIn

-----------------------------------------------------------------------------
(* What a process keeps of a replay *)

\* A materialization of the timeline a process holds, at its head.
Made(p, t) ==
    /\ t = proc[p].timeline /\ manifest' = manifest /\ events' = events
    /\ cache'[p][t] = [head |-> manifest[t].head,
                       log |-> Materialized(t, manifest[t].head)]
\* A replay extended by the event its process has appended.
Grown(p, t) ==
    /\ t = proc[p].timeline /\ proc[p].pc = "publish"
    /\ events' = events
    /\ cache[p][t] # Nothing /\ cache[p][t].head = HeadAt(t, manifest[t].seq - 1)
    /\ cache'[p][t] = [head |-> proc[p].id, log |-> Append(cache[p][t].log, proc[p].id)]

\* A replay is kept, dropped, made or extended.
LEMMA ReplaySteps ==
    ASSUME IInv, CacheType, [Next]_vars, NEW q \in Processes, NEW u \in Timelines
    PROVE  \/ cache'[q][u] \in {cache[q][u], Nothing}
           \/ Made(q, u) \/ Grown(q, u)
<1>1. CASE cache' = cache
  BY <1>1
<1>2. CASE cache' # cache
  <2>1. PICK p \in Processes : Request(p) \/ Step(p) \/ Raise(p) \/ Crash(p)
    BY <1>2 DEF Next, vars, cacheVars
  <2>2. ~ (Request(p) \/ Raise(p))
    BY <1>2 DEF Request, Call, Resolve, Fork, Archive, Raise, cacheVars
  <2>3. cache \in [Processes -> [Timelines -> Replay \cup {Nothing}]]
    BY DEF CacheType
  <2>4. CASE Crash(p)
    BY <2>3, <2>4 DEF Crash
  <2>5. CASE Step(p)
    <3>1. Advance(p) \/ Publish(p) \/ Materialize(p)
      BY <1>2, <2>5 DEF Step, Recover, List, LookAtMarker, LookAtIndex, Remark, Install,
         Commit, Mark, ForkList, ReplayFork, Archived, cacheVars
    <3>2. CASE Advance(p)
      BY <2>3, <3>2 DEF Advance
    <3>3. CASE Publish(p)
      <4>1. PICK t : t = proc[p].timeline
        OBVIOUS
      <4>2. /\ cache' = [cache EXCEPT ![p][t] = Extended(p, t)]
            /\ proc[p].pc = "publish" /\ events' = events
        BY <3>3, <4>1 DEF Publish
      <4>3. \/ Extended(p, t) = cache[p][t]
            \/ /\ cache[p][t] # Nothing
               /\ cache[p][t].head = HeadAt(t, manifest[t].seq - 1)
               /\ Extended(p, t) = [head |-> proc[p].id,
                                    log |-> Append(cache[p][t].log, proc[p].id)]
        BY DEF Extended, Cached
      <4>. QED  BY <2>3, <4>1, <4>2, <4>3 DEF Grown
    <3>4. CASE Materialize(p)
      <4>1. PICK t : t = proc[p].timeline
        OBVIOUS
      <4>2. /\ manifest' = manifest /\ events' = events
            /\ cache' = [cache EXCEPT ![p][t] =
                           [head |-> manifest[t].head,
                            log |-> Materialized(t, manifest[t].head)]]
        BY <1>2, <3>4, <4>1 DEF Materialize, diskVars
      <4>. QED  BY <2>3, <4>1, <4>2 DEF Made
    <3>. QED  BY <3>1, <3>2, <3>3, <3>4
  <2>. QED  BY <2>1, <2>2, <2>4, <2>5
<1>. QED  BY <1>1, <1>2

\* The caches stay a cache for each process and timeline.
LEMMA CacheShape ==
    ASSUME IInv, CacheType, [Next]_vars
    PROVE  cache' = [q \in Processes |-> [u \in Timelines |-> cache'[q][u]]]
<1>0. cache \in [Processes -> [Timelines -> Replay \cup {Nothing}]]
  BY DEF CacheType
<1>1. CASE cache' = cache
  BY <1>0, <1>1
<1>2. CASE cache' # cache
  <2>1. PICK p \in Processes : Request(p) \/ Step(p) \/ Raise(p) \/ Crash(p)
    BY <1>2 DEF Next, vars, cacheVars
  <2>2. ~ (Request(p) \/ Raise(p))
    BY <1>2 DEF Request, Call, Resolve, Fork, Archive, Raise, cacheVars
  <2>3. CASE Crash(p)
    BY <1>0, <2>3 DEF Crash
  <2>4. CASE Step(p)
    <3>1. Advance(p) \/ Publish(p) \/ Materialize(p)
      BY <1>2, <2>4 DEF Step, Recover, List, LookAtMarker, LookAtIndex, Remark, Install,
         Commit, Mark, ForkList, ReplayFork, Archived, cacheVars
    <3>2. \E t, v : cache' = [cache EXCEPT ![p][t] = v]
      BY <1>2, <3>1 DEF Advance, Publish, Materialize
    <3>3. PICK t, v : cache' = [cache EXCEPT ![p][t] = v]
      BY <3>2
    <3>. QED  BY <1>0, <3>3
  <2>. QED  BY <2>1, <2>2, <2>3, <2>4
<1>. QED  BY <1>1, <1>2

\* A kept replay's head and log are in their type.
LEMMA ReplayIn ==
    ASSUME CacheType, NEW q \in Processes, NEW u \in Timelines, cache[q][u] # Nothing
    PROVE  cache[q][u].head \in Heads /\ cache[q][u].log \in Seq(Ids)
  BY DEF CacheType, Replay

\* A process that publishes has appended the last event of its timeline.
LEMMA PublishesLast ==
    ASSUME IInv, NEW p \in Processes, proc[p].pc = "publish", NEW t \in Timelines,
           t = proc[p].timeline
    PROVE  /\ manifest[t].seq = Cardinality(events[t])
           /\ Cardinality(events[t]) \in Nat \ {0}
           /\ HeadIn(events[t], Cardinality(events[t])) = proc[p].id
           /\ EventIn(events[t], Cardinality(events[t])).id = proc[p].id
           /\ FoundIn(events[t], proc[p].id) /\ proc[p].id \in Ids
<1>1. /\ manifest[t].seq = Length(t) /\ HeadAt(t, Length(t)) = proc[p].id
      /\ Names(t, proc[p].id, proc[p].key)
  BY DEF IInv, ProcInv, Knows, Settled
<1>2. PICK e \in events[t] : e.id = proc[p].id
  BY <1>1 DEF Names
<1>3. Length(t) \in Nat /\ e.seq \in 1 .. Length(t)
  BY EventPlace DEF IInv
<1>4. Length(t) # 0
  BY <1>3
<1>5. HeadIn(events[t], Length(t)) = proc[p].id
  BY <1>1 DEF HeadAt, EventAt, HeadIn, EventIn
<1>6. EventIn(events[t], Length(t)).id = proc[p].id
  BY <1>4, <1>5 DEF HeadIn
<1>7. proc[p].id \in Ids
  BY <1>2 DEF IInv, Typed, Event
<1>. QED  BY <1>1, <1>2, <1>3, <1>4, <1>5, <1>6, <1>7 DEF Length, FoundIn

\* A manifest's head is one its timeline has.
LEMMA HeadIsFound ==
    ASSUME IInv, NEW t \in Timelines
    PROVE  FoundIn(events[t], manifest[t].head) /\ manifest[t].head \in Heads
<1>1. manifest[t].seq \in 0 .. Length(t) /\ Agrees(t)
  BY InRange DEF IInv, FilesInv
<1>2. manifest[t].head = HeadIn(events[t], manifest[t].seq)
  BY <1>1, OwnIs DEF Agrees, OwnIsOfDirectory
<1>3. manifest[t].head \in Heads
  BY DEF IInv, Typed, Manifest
<1>. QED  BY <1>1, <1>2, <1>3, Directories, OwnOfHead DEF Length

\* Kept replays stay in their type.
LEMMA CacheTypeStep ==
    ASSUME IInv, LineageInv, CacheType, [Next]_vars
    PROVE  CacheType'
<1>1. ASSUME NEW q \in Processes, NEW u \in Timelines
      PROVE  cache'[q][u] \in Replay \cup {Nothing}
  <2>1. cache[q][u] \in Replay \cup {Nothing}
    BY DEF CacheType
  <2>2. CASE cache'[q][u] \in {cache[q][u], Nothing}
    BY <2>1, <2>2
  <2>3. CASE Made(q, u)
    <3>1. FoundIn(events[u], manifest[u].head) /\ manifest[u].head \in Heads
      BY HeadIsFound
    <3>2. Inherited[u] \in Seq(Ids) /\ OwnIn(events[u], manifest[u].head) \in Seq(Ids)
      BY <3>1, InheritedTyped, Directories, OwnTyped
    <3>3. Inherited[u] \o OwnIn(events[u], manifest[u].head) \in Seq(Ids)
      BY <3>2, ConcatProperties
    <3>4. Materialized(u, manifest[u].head) \in Seq(Ids)
      BY <3>3, MaterializedIs
    <3>5. [head |-> manifest[u].head, log |-> Materialized(u, manifest[u].head)] \in Replay
      BY <3>1, <3>4 DEF Replay
    <3>. QED  BY <2>3, <3>5 DEF Made
  <2>4. CASE Grown(q, u)
    <3>1. cache[q][u].log \in Seq(Ids) /\ proc[q].id \in Ids
      BY <2>4, ReplayIn, PublishesLast DEF Grown
    <3>2. proc[q].id \in Heads
      BY <3>1, BoundAssumption DEF Ids, Heads
    <3>3. Append(cache[q][u].log, proc[q].id) \in Seq(Ids)
      BY <3>1, AppendProperties
    <3>4. [head |-> proc[q].id, log |-> Append(cache[q][u].log, proc[q].id)] \in Replay
      BY <3>2, <3>3 DEF Replay
    <3>. QED  BY <2>4, <3>4 DEF Grown
  <2>. QED  BY <2>2, <2>3, <2>4, ReplaySteps
<1>2. cache' = [q \in Processes |-> [u \in Timelines |-> cache'[q][u]]]
  BY CacheShape
<1>. QED  BY <1>1, <1>2 DEF CacheType

-----------------------------------------------------------------------------
(* Lineage and replays *)

\* A process goes on with its timeline, or takes the one it serves, the first one, or the
\* one it forks.
LEMMA TimelineSteps ==
    ASSUME IInv, [Next]_vars, NEW q \in Processes
    PROVE  /\ \/ proc'[q].timeline \in {Main, proc[q].timeline, serves[q]}
              \/ /\ manifest'[proc'[q].timeline].parent # Nothing
                 /\ proc'[q].timeline \in Timelines /\ ~ Known(proc'[q].timeline)
           /\ serves'[q] \in {serves[q], active}
<1>1. CASE UNCHANGED vars
  BY <1>1 DEF vars, callVars
<1>2. CASE Next
  <2>0. /\ proc \in [Processes -> ProcState]
        /\ serves \in [Processes -> Timelines]
        /\ manifest \in [Timelines -> Manifest]
    BY DEF IInv, Typed, ProcState, Steps
  <2>1. PICK p \in Processes : Request(p) \/ Step(p) \/ Raise(p) \/ Crash(p)
    BY <1>2 DEF Next
  <2>2. CASE Raise(p) \/ Crash(p)
    BY <2>0, <2>2 DEF Raise, Crash, Leave, NoWork, callVars
  <2>3. CASE Request(p)
    <3>1. ASSUME NEW op, NEW key, Call(p, op, key)
          PROVE  /\ serves' = serves /\ active' = active
                 /\ proc'[q].timeline \in {proc[q].timeline, serves[q]}
      BY <2>0, <3>1 DEF Call, callVars
    <3>2. CASE Resolve(p)
      BY <2>0, <3>2 DEF Resolve
    <3>3. CASE Archive(p)
      BY <2>0, <3>3 DEF Archive, callVars, ProcState
    <3>4. ASSUME NEW child \in Timelines, NEW parent \in Timelines, NEW head \in Heads,
                 Fork(p, child, parent, head)
          PROVE  /\ serves' = serves /\ active' = active
                 /\ \/ proc'[q].timeline = proc[q].timeline
                    \/ /\ manifest'[proc'[q].timeline].parent # Nothing
                       /\ proc'[q].timeline \in Timelines
                       /\ ~ Known(proc'[q].timeline)
      <4>1. /\ manifest' = [manifest EXCEPT ![child].parent = parent,
                                            ![child].fork = head]
            /\ proc' = [proc EXCEPT ![p] = [pc |-> "fork_list", op |-> "fork",
                                            timeline |-> child, key |-> NoKey, id |-> 0]]
            /\ serves' = serves /\ active' = active
        BY <3>4 DEF Fork, callVars
      <4>2. manifest'[child].parent # Nothing
        BY <2>0, <4>1, NullAssumption DEF Manifest
      <4>3. ~ Known(child)
        BY <3>4 DEF Fork, Known
      <4>. QED  BY <2>0, <4>1, <4>2, <4>3
    <3>. QED  BY <2>3, <3>1, <3>2, <3>3, <3>4 DEF Request
  <2>4. CASE Step(p)
    <3>1. serves' = serves
      BY <2>4 DEF Step, Recover, Advance, List, LookAtMarker, LookAtIndex, Remark, Install,
         Commit, Mark, Publish, Materialize, ForkList, ReplayFork, Archived, callVars
    <3>2. active' = active \/ active' = proc[p].timeline
      BY <2>4 DEF Step, Recover, Advance, List, LookAtMarker, LookAtIndex, Remark, Install,
         Commit, Mark, Publish, Materialize, ForkList, ReplayFork, Archived, callVars
    <3>3. proc'[q].timeline \in {Main, proc[q].timeline}
      <4>. USE <2>0 DEF NoWork, ProcState, Leave, Goto, Refuse
      <4>1. CASE Recover(p) \/ Advance(p) \/ List(p)
        BY <4>1 DEF Recover, Advance, List
      <4>2. CASE LookAtMarker(p) \/ LookAtIndex(p) \/ Remark(p)
        <5>1. CASE LookAtMarker(p) \/ Remark(p)
          <6>1. Leave(p)
            BY <5>1 DEF LookAtMarker, Remark, Answer
          <6>. QED  BY <6>1
        <5>2. CASE LookAtIndex(p)
          BY <5>2 DEF LookAtIndex
        <5>. QED  BY <4>2, <5>1, <5>2
      <4>3. CASE Install(p) \/ Commit(p) \/ Mark(p) \/ Publish(p)
        <5>1. CASE Install(p)
          BY <5>1 DEF Install
        <5>2. CASE Commit(p) \/ Mark(p) \/ Publish(p)
          BY <5>2 DEF Commit, Mark, Publish
        <5>. QED  BY <4>3, <5>1, <5>2
      <4>4. CASE Materialize(p) \/ ForkList(p) \/ ReplayFork(p) \/ Archived(p)
        BY <4>4 DEF Materialize, ForkList, ReplayFork, Archived
      <4>. QED  BY <2>4, <4>1, <4>2, <4>3, <4>4 DEF Step
    <3>. QED  BY <3>1, <3>2, <3>3
  <2>. QED  BY <2>1, <2>2, <2>3, <2>4
<1>. QED  BY <1>1, <1>2

\* The active timeline stays, or becomes that of a process.
LEMMA ActiveSteps ==
    ASSUME [Next]_vars
    PROVE  \/ active' = active
           \/ \E p \in Processes : proc[p].pc = "materialize" /\ active' = proc[p].timeline
<1>1. CASE UNCHANGED vars
  BY <1>1 DEF vars, callVars
<1>2. CASE Next
  <2>1. PICK p \in Processes : Request(p) \/ Step(p) \/ Raise(p) \/ Crash(p)
    BY <1>2 DEF Next
  <2>2. CASE Request(p) \/ Raise(p) \/ Crash(p)
    BY <2>2 DEF Request, Call, Resolve, Fork, Archive, Raise, Crash, callVars
  <2>3. CASE Step(p)
    BY <2>3 DEF Step, Recover, Advance, List, LookAtMarker, LookAtIndex, Remark, Install,
       Commit, Mark, Publish, Materialize, ForkList, ReplayFork, Archived, callVars
  <2>. QED  BY <2>1, <2>2, <2>3
<1>. QED  BY <1>1, <1>2

\* No step leaves the lineage.
LEMMA LineageStep ==
    ASSUME IInv, LineageInv, CacheType, [Next]_vars
    PROVE  LineageInv'
<1>0. /\ active \in Timelines /\ active' \in Timelines
      /\ \A q \in Processes : /\ proc[q].timeline \in Timelines
                              /\ serves[q] \in Timelines /\ serves'[q] \in Timelines
                              /\ proc'[q].timeline \in Timelines
  <2>1. IInv /\ IInv'
    BY NextInv
  <2>. QED  BY <2>1 DEF IInv, Typed
<1>1. manifest'[Main].parent = Nothing
  <2>1. Known(Main) /\ Main \in Timelines
    BY NullAssumption DEF Known
  <2>. QED  BY <2>1, KnownKept DEF LineageInv
<1>2. ASSUME NEW t \in Timelines, Known(t)
      PROVE  Known(t)'
  BY <1>2, KnownKept
<1>3. ASSUME NEW t \in Timelines, manifest'[t].parent # Nothing
      PROVE  Known(manifest[t].parent)' /\ Found(manifest[t].parent, manifest[t].fork)'
  <2>1. PICK parent, head :
          /\ parent \in Timelines /\ parent = manifest'[t].parent /\ head = manifest'[t].fork
          /\ Known(parent) /\ Found(parent, head)
    <3>1. CASE manifest'[t].parent = manifest[t].parent /\ manifest'[t].fork = manifest[t].fork
      <4>1. manifest[t].parent \in Timelines
        BY <1>3, <3>1 DEF IInv, Typed, Manifest
      <4>2. Known(manifest[t].parent) /\ Found(manifest[t].parent, manifest[t].fork)
        BY <1>3, <3>1 DEF LineageInv
      <4>. QED  BY <3>1, <4>1, <4>2
    <3>2. CASE \E parent \in Timelines, head \in Heads :
                 /\ Known(parent) /\ Found(parent, head)
                 /\ manifest'[t].parent = parent /\ manifest'[t].fork = head
      BY <3>2
    <3>. QED  BY <3>1, <3>2, ForksOnly
  <2>2. Known(parent)'
    BY <1>2, <2>1
  <2>3. FoundIn(events'[parent], head)
    BY <2>1, OwnIs, OwnStays DEF OwnIsOfDirectory
  <2>4. Found(parent, head)'
    BY <2>3 DEF Found, FoundIn
  <2>. QED  BY <2>1, <2>2, <2>4 DEF Known, Found
<1>4. Known(active)'
  <2>1. active' = active \/ \E p \in Processes : active' = proc[p].timeline
    BY ActiveSteps
  <2>2. PICK t \in Timelines : t = active' /\ Known(t)
    BY <1>0, <2>1 DEF LineageInv
  <2>3. Known(t)'
    BY <1>2, <2>2
  <2>. QED  BY <2>2, <2>3 DEF Known
<1>5. ASSUME NEW q \in Processes
      PROVE  Known(serves[q])' /\ Known(proc[q].timeline)'
  <2>1. PICK t \in Timelines : t = serves'[q] /\ Known(t)
    BY <1>0, TimelineSteps DEF LineageInv
  <2>2. Known(t)'
    BY <1>2, <2>1
  <2>3. PICK u \in Timelines : u = proc'[q].timeline
    BY <1>0
  <2>4. Known(u)'
    <3>1. CASE u \in {Main, proc[q].timeline, serves[q]}
      <4>1. Known(u)
        BY <3>1 DEF LineageInv, Known
      <4>. QED  BY <1>2, <4>1
    <3>2. CASE manifest'[u].parent # Nothing
      BY <3>2 DEF Known
    <3>. QED  BY <2>3, <3>1, <3>2, TimelineSteps
  <2>. QED  BY <2>1, <2>2, <2>3, <2>4 DEF Known
<1>6. ASSUME NEW q \in Processes, NEW t \in Timelines, cache'[q][t] # Nothing
      PROVE  Known(t)' /\ Found(t, cache[q][t].head)'
  <2>1. PICK h : h = cache'[q][t].head
    OBVIOUS
  <2>2. Known(t) /\ FoundIn(events[t], h)
    <3>1. CASE cache'[q][t] = cache[q][t]
      BY <1>6, <2>1, <3>1, OwnIs DEF LineageInv, OwnIsOfDirectory
    <3>2. CASE Made(q, t)
      BY <2>1, <3>2, HeadIsFound DEF Made, LineageInv
    <3>3. CASE Grown(q, t)
      BY <2>1, <3>3, PublishesLast DEF Grown, LineageInv
    <3>. QED  BY <1>6, <3>1, <3>2, <3>3, ReplaySteps
  <2>3. FoundIn(events'[t], h)
    BY <2>2, OwnStays
  <2>. QED  BY <1>2, <2>1, <2>2, <2>3 DEF Found, FoundIn
<1>. QED  BY <1>1, <1>3, <1>4, <1>5, <1>6 DEF LineageInv

\* An appended element goes to the end of what is concatenated.
LEMMA AppendAssociative ==
    ASSUME NEW s \in Seq(Ids), NEW r \in Seq(Ids), NEW x \in Ids
    PROVE  Append(s \o r, x) = s \o Append(r, x)
<1>1. <<x>> \in Seq(Ids)
  OBVIOUS
<1>2. \A a \in Seq(Ids) : Append(a, x) = a \o <<x>>
  OBVIOUS
<1>3. s \o r \in Seq(Ids)
  BY ConcatProperties
<1>4. (s \o r) \o <<x>> = s \o (r \o <<x>>)
  BY <1>1, ConcatAssociative
<1>5. Append(s \o r, x) = (s \o r) \o <<x>> /\ Append(r, x) = r \o <<x>>
  BY <1>2, <1>3
<1>. QED  BY <1>4, <1>5

\* The ids up to an event are those before it and its own.
LEMMA OwnGrows ==
    ASSUME NEW S, Directory(S), NEW n \in Nat \ {0}, n = Cardinality(S), NEW id \in Ids,
           EventIn(S, n).id = id, HeadIn(S, n) = id
    PROVE  OwnIn(S, id) = Append(OwnIn(S, HeadIn(S, n - 1)), id)
<1>. DEFINE a == OwnIn(S, HeadIn(S, n - 1))
            b == OwnIn(S, id)
<1>1. n - 1 \in 0 .. n /\ n \in 0 .. n
  OBVIOUS
<1>2. /\ a = [i \in 1 .. n - 1 |-> EventIn(S, i).id] /\ a \in Seq(Ids)
      /\ b = [i \in 1 .. n |-> EventIn(S, i).id] /\ b \in Seq(Ids)
  BY <1>1, OwnOfHead, OwnTyped
<1>. HIDE DEF a, b
<1>3. Len(a) = n - 1 /\ Len(b) = n
  BY <1>2
<1>4. /\ Append(a, id) \in Seq(Ids) /\ Len(Append(a, id)) = n
      /\ \A i \in 1 .. n : Append(a, id)[i] = IF i = n THEN id ELSE a[i]
  BY <1>2, <1>3, AppendProperties
<1>5. \A i \in 1 .. n : b[i] = Append(a, id)[i]
  BY <1>2, <1>4
<1>6. b = Append(a, id)
  BY <1>2, <1>3, <1>4, <1>5, SeqEqual
<1>. QED  BY <1>6 DEF a, b

\* A kept replay stays exact.
LEMMA ReplayStep ==
    ASSUME IInv, LineageInv, CacheType, ReplayIsExact, [Next]_vars
    PROVE  ReplayIsExact'
<1>1. ASSUME NEW q \in Processes, NEW t \in Timelines, cache'[q][t] # Nothing
      PROVE  cache'[q][t].log = Inherited'[t] \o OwnIn(events'[t], cache'[q][t].head)
  <2>1. CASE cache'[q][t] = cache[q][t]
    <3>1. Known(t) /\ FoundIn(events[t], cache[q][t].head)
      BY <1>1, <2>1, OwnIs DEF LineageInv, OwnIsOfDirectory
    <3>2. Inherited'[t] = Inherited[t]
      BY <3>1, InheritedStays
    <3>3. OwnIn(events'[t], cache[q][t].head) = OwnIn(events[t], cache[q][t].head)
      BY <3>1, OwnStays
    <3>4. cache[q][t].log = Inherited[t] \o OwnIn(events[t], cache[q][t].head)
      BY <1>1, <2>1, MaterializedIs DEF ReplayIsExact
    <3>. QED  BY <2>1, <3>2, <3>3, <3>4
  <2>2. CASE Made(q, t)
    <3>1. Known(t)
      BY <2>2 DEF Made, LineageInv
    <3>2. Inherited'[t] = Inherited[t] /\ events'[t] = events[t]
      BY <2>2, <3>1, InheritedStays DEF Made
    <3>3. PICK h : h = manifest[t].head
      OBVIOUS
    <3>4. cache'[q][t].head = h /\ cache'[q][t].log = Materialized(t, h)
      BY <2>2, <3>3 DEF Made
    <3>5. Materialized(t, h) = Inherited[t] \o OwnIn(events[t], h)
      BY MaterializedIs
    <3>. QED  BY <3>2, <3>4, <3>5
  <2>3. CASE Grown(q, t)
    <3>. DEFINE S == events[t]
                n == Cardinality(S)
                id == proc[q].id
                before == HeadIn(S, n - 1)
    <3>1. /\ n \in Nat \ {0} /\ HeadIn(S, n) = id /\ EventIn(S, n).id = id /\ id \in Ids
          /\ manifest[t].seq = n
      BY <2>3, PublishesLast DEF Grown
    <3>2. Known(t)
      BY <2>3 DEF Grown, LineageInv
    <3>3. Inherited'[t] = Inherited[t] /\ events'[t] = events[t]
      BY <2>3, <3>2, InheritedStays DEF Grown
    <3>4. /\ cache[q][t] # Nothing /\ cache[q][t].head = before
          /\ cache'[q][t].head = id /\ cache'[q][t].log = Append(cache[q][t].log, id)
      <4>1. /\ cache[q][t] # Nothing
            /\ cache[q][t].head = HeadAt(t, manifest[t].seq - 1)
            /\ cache'[q][t] = [head |-> id, log |-> Append(cache[q][t].log, id)]
        BY <2>3 DEF Grown
      <4>2. HeadAt(t, n - 1) = before
        <5>1. HeadAt(t, n - 1) = HeadIn(events[t], n - 1)
          BY OwnIs DEF OwnIsOfDirectory
        <5>. QED  BY <5>1
      <4>3. HeadAt(t, manifest[t].seq - 1) = HeadAt(t, n - 1)
        BY <3>1
      <4>4. /\ cache'[q][t].head = id
            /\ cache'[q][t].log = Append(cache[q][t].log, id)
        BY <4>1
      <4>. QED  BY <4>1, <4>2, <4>3, <4>4
    <3>5. cache[q][t].log = Inherited[t] \o OwnIn(S, before)
      BY <3>4, MaterializedIs DEF ReplayIsExact
    <3>6. OwnIn(S, id) = Append(OwnIn(S, before), id)
      BY <3>1, Directories, OwnGrows
    <3>7. Inherited[t] \in Seq(Ids) /\ OwnIn(S, before) \in Seq(Ids)
      <4>1. n - 1 \in 0 .. n
        BY <3>1
      <4>. QED  BY <4>1, InheritedTyped, Directories, OwnOfHead, OwnTyped
    <3>. HIDE DEF S, id, before
    <3>8. Append(Inherited[t] \o OwnIn(S, before), id) =
            Inherited[t] \o Append(OwnIn(S, before), id)
      BY <3>1, <3>7, AppendAssociative
    <3>9. OwnIn(events'[t], cache'[q][t].head) = OwnIn(S, id)
      BY <3>3, <3>4 DEF S
    <3>. QED  BY <3>3, <3>4, <3>5, <3>6, <3>8, <3>9
  <2>. QED  BY <1>1, <2>1, <2>2, <2>3, ReplaySteps
<1>2. ASSUME NEW q \in Processes, NEW t \in Timelines, cache'[q][t] # Nothing
      PROVE  cache'[q][t].log = Materialized(t, cache[q][t].head)'
  <2>1. PICK h : h = cache'[q][t].head
    OBVIOUS
  <2>2. Materialized(t, h)' = Inherited'[t] \o OwnIn(events'[t], h)
    BY MaterializedIs
  <2>3. Materialized(t, cache[q][t].head)' = Materialized(t, h)'
    BY <2>1 DEF Materialized, Own
  <2>. QED  BY <1>1, <1>2, <2>1, <2>2, <2>3
<1>. QED  BY <1>2 DEF ReplayIsExact

-----------------------------------------------------------------------------
(* Replays are exact *)

ReplayInv == IInv /\ LineageInv /\ CacheType /\ ReplayIsExact

\* An empty journal has no replay.
LEMMA InitReplay == Init => ReplayInv
<1>. SUFFICES ASSUME Init PROVE ReplayInv
  OBVIOUS
<1>. USE NullAssumption DEF Init
<1>1. IInv
  BY InitInv
<1>2. LineageInv
  BY DEF LineageInv, Known, NoWork
<1>3. CacheType /\ ReplayIsExact
  BY DEF CacheType, ReplayIsExact
<1>. QED  BY <1>1, <1>2, <1>3 DEF ReplayInv

\* No step leaves it.
LEMMA NextReplay ==
    ASSUME ReplayInv, [Next]_vars
    PROVE  ReplayInv'
<1>1. IInv /\ LineageInv /\ CacheType /\ ReplayIsExact
  BY DEF ReplayInv
<1>2. IInv'
  BY <1>1, NextInv
<1>3. LineageInv'
  BY <1>1, LineageStep
<1>4. CacheType'
  BY <1>1, CacheTypeStep
<1>5. ReplayIsExact'
  BY <1>1, ReplayStep
<1>. QED  BY <1>2, <1>3, <1>4, <1>5 DEF ReplayInv

\* It holds of every reachable state.
LEMMA ReplayInvariant == Spec => []ReplayInv
<1>. QED  BY InitReplay, NextReplay, PTL DEF Spec

\* Every variable is in its type, the replays that processes keep included.
THEOREM TypeCorrect == Spec => []TypeOK
<1>1. ReplayInv => TypeOK
  BY DEF ReplayInv, IInv, Typed, CacheType, TypeOK
<1>. QED  BY <1>1, ReplayInvariant, PTL

\* A kept replay is what the files hold up to its head, the parents' part included.
THEOREM ReplaysAreExact == Spec => []ReplayIsExact
<1>1. ReplayInv => ReplayIsExact
  BY DEF ReplayInv
<1>. QED  BY <1>1, ReplayInvariant, PTL

-----------------------------------------------------------------------------
(* A backup is alone *)

\* One process steps, and enters the locks of its timeline only when nobody archives.
LEMMA LockSteps ==
    ASSUME IInv, [Next]_vars
    PROVE  \/ proc' = proc
           \/ \E p \in Processes :
                /\ \A q \in Processes \ {p} : proc'[q] = proc[q]
                /\ proc'[p].pc \in Critical => proc[p].pc \in Critical \/ ~ Archiving
                /\ proc'[p].pc \in Archives => \A q \in Processes : proc[q].pc \notin Critical
<1>1. CASE UNCHANGED vars
  BY <1>1 DEF vars
<1>2. CASE Next
  <2>0. Typed
    BY DEF IInv
  <2>1. PICK p \in Processes : Request(p) \/ Step(p) \/ Raise(p) \/ Crash(p)
    BY <1>2 DEF Next
  <2>. DEFINE Good == /\ \A q \in Processes \ {p} : proc'[q] = proc[q]
                      /\ proc'[p].pc \in Critical => proc[p].pc \in Critical \/ ~ Archiving
                      /\ proc'[p].pc \in Archives =>
                           \A q \in Processes : proc[q].pc \notin Critical
  <2>. SUFFICES Good \/ proc' = proc
    OBVIOUS
  <2>2. ASSUME Leave(p)
        PROVE  Good
    BY <2>0, <2>2, Moving DEF NoWork, Critical, Archives
  <2>3. ASSUME NEW pc \in Steps \ Archives, Goto(p, pc),
               proc[p].pc \in Critical \/ pc \notin Critical \/ ~ Archiving
        PROVE  Good
    <3>1. proc'[p] = [proc[p] EXCEPT !.pc = pc] /\ \A q \in Processes \ {p} : proc'[q] = proc[q]
      BY <2>0, <2>3, Moving
    <3>2. proc'[p].pc = pc
      BY <2>0, <3>1, ProcUpdates DEF ProcState
    <3>. QED  BY <2>3, <3>1, <3>2
  <2>4. proc \in [Processes -> ProcState]
    BY <2>0, ProcUpdates
  <2>5. CASE Request(p)
    <3>1. ASSUME NEW op, NEW key, Call(p, op, key)
          PROVE  Good
      BY <2>4, <3>1 DEF Call, Unlocked, Archives
    <3>2. CASE Resolve(p)
      BY <3>2 DEF Resolve
    <3>3. ASSUME NEW child, NEW parent, NEW head, Fork(p, child, parent, head)
          PROVE  Good
      BY <2>4, <3>3 DEF Fork, Critical, Archives
    <3>4. CASE Archive(p)
      <4>1. \A q \in Processes : proc[q].pc \notin Critical
        BY <3>4 DEF Archive, InRoot
      <4>2. /\ \A q \in Processes \ {p} : proc'[q] = proc[q]
            /\ proc'[p].pc = "archiving"
        BY <2>4, <3>4 DEF Archive, ProcState
      <4>3. "archiving" \notin Critical
        BY DEF Critical
      <4>. QED  BY <4>1, <4>2, <4>3
    <3>. HIDE DEF Good
    <3>. QED  BY <2>5, <3>1, <3>2, <3>3, <3>4 DEF Request
  <2>6. CASE Raise(p) \/ Crash(p)
    BY <2>2, <2>6 DEF Raise, Crash
  <2>7. CASE Step(p)
    <3>. HIDE DEF Good
    <3>1. {"recover", "advance", "list", "look", "remark", "install", "commit",
           "mark", "publish", "materialize", "forked"} \subseteq Steps \ Archives
      BY StepNames DEF Archives
    <3>2. {"recover", "advance", "list", "look", "remark", "install", "commit",
           "mark", "publish", "materialize"} \subseteq Critical /\ "forked" \notin Critical
      BY DEF Critical
    <3>3. CASE Recover(p) \/ List(p)
      <4>1. AfterRecovery(p) \in {"materialize", "install", "look"}
        BY <2>0, AfterRecoveryIs
      <4>2. proc[p].pc \in Critical
        BY <3>2, <3>3 DEF Recover, List
      <4>3. Leave(p) \/ Goto(p, AfterRecovery(p)) \/ Goto(p, "advance")
        BY <3>3 DEF Recover, List, Refuse
      <4>. QED  BY <2>2, <2>3, <3>1, <4>1, <4>2, <4>3
    <3>4. CASE Advance(p) \/ Commit(p) \/ Mark(p)
      <4>1. proc[p].pc \in Critical
        BY <3>2, <3>4 DEF Advance, Commit, Mark
      <4>2. Goto(p, "list") \/ Goto(p, "mark") \/ Goto(p, "publish")
        BY <3>4 DEF Advance, Commit, Mark
      <4>. QED  BY <2>3, <3>1, <4>1, <4>2
    <3>5. CASE LookAtMarker(p) \/ Remark(p) \/ Publish(p) \/ Materialize(p) \/ Archived(p)
      BY <2>2, <3>5 DEF LookAtMarker, Remark, Publish, Materialize, Archived, Answer, Refuse
    <3>6. CASE LookAtIndex(p) \/ Install(p)
      <4>1. proc[p].pc \in Critical
        BY <3>2, <3>6 DEF LookAtIndex, Install
      <4>2. \/ Goto(p, "install")
            \/ \E pc \in {"remark", "commit"} : \E id :
                 proc' = [proc EXCEPT ![p].pc = pc, ![p].id = id]
        BY <3>6 DEF LookAtIndex, Install
      <4>3. CASE Goto(p, "install")
        BY <2>3, <3>1, <4>1, <4>3
      <4>4. CASE ~ Goto(p, "install")
        <5>1. PICK pc \in {"remark", "commit"} :
                \E id : proc' = [proc EXCEPT ![p].pc = pc, ![p].id = id]
          BY <4>2, <4>4
        <5>2. PICK id : proc' = [proc EXCEPT ![p].pc = pc, ![p].id = id]
          BY <5>1
        <5>3. proc'[p].pc = pc /\ \A q \in Processes \ {p} : proc'[q] = proc[q]
          BY <2>4, <5>2 DEF ProcState
        <5>. QED  BY <4>1, <5>1, <5>3 DEF Good, Archives
      <4>. QED  BY <4>3, <4>4
    <3>7. CASE ForkList(p) \/ ReplayFork(p)
      <4>1. CASE ForkList(p)
        BY <2>2, <2>3, <3>1, <3>2, <4>1 DEF ForkList
      <4>2. CASE ReplayFork(p)
        BY <2>3, <3>1, <4>2 DEF ReplayFork, Unlocked
      <4>. QED  BY <3>7, <4>1, <4>2
    <3>. QED  BY <2>7, <3>3, <3>4, <3>5, <3>6, <3>7 DEF Step
  <2>. HIDE DEF Good
  <2>. QED  BY <2>1, <2>5, <2>6, <2>7
<1>. QED  BY <1>1, <1>2

\* A backup stays alone.
LEMMA AloneStep ==
    ASSUME IInv, AloneInv, [Next]_vars
    PROVE  AloneInv'
<1>1. CASE proc' = proc
  BY <1>1 DEF AloneInv
<1>2. CASE proc' # proc
  <2>1. PICK p \in Processes :
          /\ \A q \in Processes \ {p} : proc'[q] = proc[q]
          /\ proc'[p].pc \in Critical => proc[p].pc \in Critical \/ ~ Archiving
          /\ proc'[p].pc \in Archives => \A q \in Processes : proc[q].pc \notin Critical
    BY <1>2, LockSteps
  <2>2. ASSUME NEW a \in Processes, NEW q \in Processes, proc'[a].pc \in Archives,
               proc'[q].pc \in Critical
        PROVE  FALSE
    <3>1. CASE a = p
      <4>1. q # p
        BY <2>2, <3>1 DEF Archives, Critical
      <4>. QED  BY <2>1, <2>2, <3>1, <4>1
    <3>2. CASE a # p
      <4>1. proc[a].pc \in Archives /\ Archiving
        BY <2>1, <2>2, <3>2 DEF Archiving
      <4>2. proc[q].pc \in Critical
        BY <2>1, <2>2, <4>1
      <4>. QED  BY <4>1, <4>2 DEF AloneInv
    <3>. QED  BY <3>1, <3>2
  <2>. QED  BY <2>2 DEF AloneInv
<1>. QED  BY <1>1, <1>2

-----------------------------------------------------------------------------
(* A timeline is unused until its row is made *)

\* A step writes the files of a timeline, or its row, only at a step of a process that
\* is in a method of it.
DiskKept(t) ==
    /\ events'[t] = events[t] /\ marker'[t] = marker[t] /\ catalog'[t] = catalog[t]
    /\ manifest'[t].seq = manifest[t].seq /\ manifest'[t].head = manifest[t].head
\* It does.
LEMMA DiskSteps ==
    ASSUME IInv, [Next]_vars, NEW t \in Timelines
    PROVE  \/ DiskKept(t)
           \/ \E p \in Processes : /\ proc[p].timeline = t
                                   /\ Advance(p) \/ List(p) \/ Remark(p) \/ Install(p)
                                      \/ Commit(p) \/ Mark(p) \/ Publish(p) \/ ForkList(p)
<1>1. CASE UNCHANGED vars
  BY <1>1 DEF vars, diskVars, DiskKept
<1>2. CASE Next
  <2>0. /\ events \in [Timelines -> SUBSET Event] /\ manifest \in [Timelines -> Manifest]
        /\ marker \in [Timelines -> [Keys -> Heads]] /\ catalog \in [Timelines -> Heads]
    BY DEF IInv, Typed
  <2>1. PICK p \in Processes : Request(p) \/ Step(p) \/ Raise(p) \/ Crash(p)
    BY <1>2 DEF Next
  <2>2. CASE Raise(p) \/ Crash(p)
    BY <2>2 DEF Raise, Crash, diskVars, DiskKept
  <2>3. CASE Request(p)
    <3>1. CASE \E child, parent \in Timelines, head \in Heads : Fork(p, child, parent, head)
      BY <2>0, <3>1 DEF Fork, DiskKept, Manifest
    <3>2. CASE ~ \E child, parent \in Timelines, head \in Heads :
                   Fork(p, child, parent, head)
      BY <2>3, <3>2 DEF Request, Call, Resolve, Archive, diskVars, DiskKept
    <3>. QED  BY <3>1, <3>2
  <2>4. CASE Step(p)
    <3>1. CASE Recover(p) \/ LookAtMarker(p) \/ LookAtIndex(p) \/ Materialize(p)
               \/ ReplayFork(p) \/ Archived(p)
      BY <3>1 DEF Recover, LookAtMarker, LookAtIndex, Materialize, ReplayFork, Archived,
         diskVars, DiskKept
    <3>2. CASE /\ Advance(p) \/ List(p) \/ Remark(p) \/ Install(p)
                  \/ Commit(p) \/ Mark(p) \/ Publish(p) \/ ForkList(p)
               /\ proc[p].timeline # t
      <4>1. CASE Advance(p) \/ Commit(p)
        BY <2>0, <3>2, <4>1 DEF Advance, Commit, DiskKept
      <4>2. CASE List(p) \/ Publish(p) \/ ForkList(p)
        BY <2>0, <3>2, <4>2 DEF List, Publish, ForkList, DiskKept
      <4>3. CASE Remark(p) \/ Mark(p)
        BY <2>0, <3>2, <4>3 DEF Remark, Mark, DiskKept
      <4>4. CASE Install(p)
        BY <2>0, <3>2, <4>4 DEF Install, DiskKept
      <4>. QED  BY <3>2, <4>1, <4>2, <4>3, <4>4
    <3>. QED  BY <2>4, <3>1, <3>2 DEF Step
  <2>. QED  BY <2>1, <2>2, <2>3, <2>4
<1>. QED  BY <1>1, <1>2

\* A process is about to make a row from its fork to its next step.
LEMMA ForkListSteps ==
    ASSUME IInv, [Next]_vars, NEW p \in Processes, proc'[p].pc = "fork_list"
    PROVE  \/ proc'[p] = proc[p] /\ ~ ForkList(p)
           \/ /\ \A q \in Processes \ {p} : proc'[q] = proc[q]
              /\ \E child \in Timelines, parent \in Timelines, head \in Heads :
                   Fork(p, child, parent, head) /\ proc'[p].timeline = child
<1>0. proc \in [Processes -> ProcState] /\ Typed
  BY ProcUpdates DEF IInv
<1>1. CASE UNCHANGED vars
  <2>1. ~ ForkList(p)
    BY <1>0, <1>1 DEF ForkList, vars, Goto, Leave, NoWork, ProcState
  <2>. QED  BY <1>1, <2>1 DEF vars
<1>2. CASE Next
  <2>1. PICK r \in Processes : Request(r) \/ Step(r) \/ Raise(r) \/ Crash(r)
    BY <1>2 DEF Next
  <2>. USE <1>0
  <2>2. ~ ForkList(p)
    <3>1. ForkList(p) => proc'[p].pc \in {"forked", "idle"}
      BY DEF ForkList, Goto, Leave, NoWork, ProcState
    <3>. QED  BY <3>1
  <2>3. CASE \E child, parent \in Timelines, head \in Heads : Fork(r, child, parent, head)
    <3>1. PICK child \in Timelines, parent \in Timelines, head \in Heads :
            Fork(r, child, parent, head)
      BY <2>3
    <3>2. /\ \A q \in Processes \ {r} : proc'[q] = proc[q]
          /\ proc'[r].timeline = child
      BY <3>1 DEF Fork
    <3>. QED  BY <2>2, <3>1, <3>2
  <2>4. CASE ~ \E child, parent \in Timelines, head \in Heads : Fork(r, child, parent, head)
    <3>1. proc' = proc \/ \E w : proc' = [proc EXCEPT ![r] = w] /\ w.pc # "fork_list"
      <4>. USE DEF NoWork, Leave, Goto, Refuse, ProcState
      <4>1. CASE Request(r)
        BY <2>4, <4>1 DEF Request, Call, Resolve, Archive
      <4>2. CASE Raise(r) \/ Crash(r)
        BY <4>2 DEF Raise, Crash
      <4>3. CASE Recover(r) \/ List(r)
        <5>1. AfterRecovery(r) # "fork_list"
          BY AfterRecoveryIs
        <5>. QED  BY <4>3, <5>1 DEF Recover, List
      <4>4. CASE Advance(r) \/ Install(r) \/ Commit(r) \/ Mark(r) \/ Publish(r)
        BY <4>4 DEF Advance, Install, Commit, Mark, Publish
      <4>5. CASE LookAtMarker(r) \/ LookAtIndex(r) \/ Remark(r)
        BY <4>5 DEF LookAtMarker, LookAtIndex, Remark, Answer
      <4>6. CASE Materialize(r) \/ ForkList(r) \/ ReplayFork(r) \/ Archived(r)
        BY <4>6 DEF Materialize, ForkList, ReplayFork, Archived
      <4>. QED  BY <2>1, <4>1, <4>2, <4>3, <4>4, <4>5, <4>6 DEF Step
    <3>2. proc'[p] = proc[p]
      BY <3>1
    <3>. QED  BY <2>2, <3>2
  <2>. QED  BY <2>3, <2>4
<1>. QED  BY <1>1, <1>2

\* No step uses a timeline before its row is made.
LEMMA UnusedStep ==
    ASSUME IInv, LineageInv, UnusedInv, [Next]_vars
    PROVE  UnusedInv'
<1>0. \A q \in Processes : proc[q].timeline \in Timelines /\ Known(proc[q].timeline)
  BY DEF IInv, Typed, LineageInv
<1>1. ASSUME NEW t \in Timelines, ~ Known(t)
      PROVE  Blank(t)' /\ catalog'[t] = 0
  <2>1. DiskKept(t)
    BY <1>0, <1>1, DiskSteps
  <2>. QED  BY <1>1, <2>1 DEF UnusedInv, DiskKept, Blank
<1>2. ASSUME NEW t \in Timelines, ~ Known(t)'
      PROVE  ~ Known(t)
  BY <1>2, KnownKept
<1>3. ASSUME NEW p \in Processes, proc'[p].pc = "fork_list", NEW t, t = proc'[p].timeline
      PROVE  /\ Blank(t)' /\ active' # t /\ t # Main
             /\ \A q \in Processes : serves'[q] # t
             /\ \A q \in Processes \ {p} : proc'[q].timeline # t
  <2>1. CASE proc'[p] = proc[p] /\ ~ ForkList(p)
    <3>1. /\ t = proc[p].timeline /\ t \in Timelines /\ Known(t) /\ proc[p].pc = "fork_list"
          /\ Blank(t) /\ active # t /\ t # Main
          /\ \A q \in Processes : serves[q] # t
          /\ \A q \in Processes \ {p} : proc[q].timeline # t
      BY <1>0, <1>3, <2>1 DEF UnusedInv
    <3>2. DiskKept(t)
      <4>1. ~ (Advance(p) \/ List(p) \/ Remark(p) \/ Install(p) \/ Commit(p) \/ Mark(p)
               \/ Publish(p))
        BY <3>1 DEF Advance, List, Remark, Install, Commit, Mark, Publish
      <4>. QED  BY <2>1, <3>1, <4>1, DiskSteps
    <3>3. active' # t
      BY <3>1, ActiveSteps
    <3>4. ASSUME NEW q \in Processes
          PROVE  serves'[q] # t /\ (q # p => proc'[q].timeline # t)
      BY <3>1, TimelineSteps
    <3>. QED  BY <3>1, <3>2, <3>3, <3>4 DEF DiskKept, Blank
  <2>2. CASE /\ \A q \in Processes \ {p} : proc'[q] = proc[q]
             /\ \E child \in Timelines, parent \in Timelines, head \in Heads :
                  Fork(p, child, parent, head) /\ proc'[p].timeline = child
    <3>1. PICK parent, head : Fork(p, t, parent, head) /\ t \in Timelines
      BY <1>3, <2>2
    <3>2. ~ Known(t) /\ active' = active /\ serves' = serves
      BY <3>1 DEF Fork, Known, callVars
    <3>3. Blank(t)'
      BY <1>1, <3>1, <3>2
    <3>. QED  BY <1>0, <2>2, <3>2, <3>3 DEF LineageInv, Known
  <2>. QED  BY <1>3, <2>1, <2>2, ForkListSteps
<1>4. ASSUME NEW p \in Processes, proc'[p].pc = "fork_list"
      PROVE  /\ Blank(proc[p].timeline)' /\ active' # proc'[p].timeline
             /\ proc'[p].timeline # Main
             /\ \A q \in Processes : serves'[q] # proc'[p].timeline
             /\ \A q \in Processes \ {p} : proc'[q].timeline # proc'[p].timeline
  <2>1. PICK t : t = proc'[p].timeline
    OBVIOUS
  <2>2. Blank(t)'
    BY <1>3, <1>4, <2>1
  <2>. QED  BY <1>3, <1>4, <2>1, <2>2 DEF Blank
<1>. QED  BY <1>1, <1>2, <1>4 DEF UnusedInv

-----------------------------------------------------------------------------
(* Nothing is missing until something fails *)

\* WholeInv, of one timeline.
WholeAt(t) ==
    /\ manifest[t].seq = Length(t) \/ Holding(t, {"commit"})
    /\ catalog[t] = manifest[t].head \/ Holding(t, {"mark", "publish"})
    /\ \A e \in events[t] : e.key # NoKey =>
         \/ marker[t][e.key] = e.id
         \/ \E p \in Processes : /\ InPath(p, t) /\ proc[p].pc \in {"commit", "mark"}
                                 /\ proc[p].id = e.id
NoRecovery == \A p \in Processes : proc[p].pc \notin {"advance", "list"}
\* WholeInv is of each timeline.
LEMMA WholeIs == WholeInv <=> NoRecovery /\ \A t \in Timelines : WholeAt(t)
  BY DEF WholeInv, WholeAt, NoRecovery

\* Nobody but the holder of a timeline is about to write it.
LEMMA HolderAlone ==
    ASSUME IInv, NEW t \in Timelines, WholeAt(t), NEW p \in Processes, InPath(p, t)
    PROVE  /\ manifest[t].seq = Length(t) \/ proc[p].pc = "commit"
           /\ catalog[t] = manifest[t].head \/ proc[p].pc \in {"mark", "publish"}
           /\ \A e \in events[t] : e.key # NoKey =>
                \/ marker[t][e.key] = e.id
                \/ proc[p].pc \in {"commit", "mark"} /\ proc[p].id = e.id
<1>1. \A q \in Processes : InPath(q, t) => q = p
  BY DEF IInv, LocksInv, InPath
<1>. QED  BY <1>1 DEF WholeAt, Holding

\* A timeline stays whole when its files stay and the process that steps has nothing to
\* write there.
LEMMA WholeKept ==
    ASSUME NEW t \in Timelines, WholeAt(t), DiskKept(t), NEW p \in Processes,
           \A q \in Processes \ {p} : proc'[q] = proc[q],
           proc[p].pc \notin {"commit", "mark", "publish"} \/ proc[p].timeline # t
    PROVE  WholeAt(t)'
<1>1. ASSUME NEW q \in Processes, InPath(q, t), proc[q].pc \in {"commit", "mark", "publish"}
      PROVE  InPath(q, t)' /\ proc'[q] = proc[q]
  BY <1>1 DEF InPath
<1>2. Length(t)' = Length(t)
  BY DEF DiskKept, Length
<1>3. Holding(t, {"commit"}) => Holding(t, {"commit"})'
  BY <1>1 DEF Holding, InPath
<1>4. Holding(t, {"mark", "publish"}) => Holding(t, {"mark", "publish"})'
  BY <1>1 DEF Holding, InPath
<1>5. manifest'[t].seq = Length(t)' \/ Holding(t, {"commit"})'
  BY <1>2, <1>3 DEF WholeAt, DiskKept
<1>6. catalog'[t] = manifest'[t].head \/ Holding(t, {"mark", "publish"})'
  BY <1>4 DEF WholeAt, DiskKept
<1>7. ASSUME NEW e \in events'[t], e.key # NoKey
      PROVE  \/ marker'[t][e.key] = e.id
             \/ \E q \in Processes : /\ InPath(q, t)' /\ proc'[q].pc \in {"commit", "mark"}
                                     /\ proc'[q].id = e.id
  <2>1. e \in events[t] /\ marker'[t] = marker[t]
    BY DEF DiskKept
  <2>2. CASE marker[t][e.key] = e.id
    BY <2>1, <2>2
  <2>3. CASE marker[t][e.key] # e.id
    <3>1. PICK q \in Processes : /\ InPath(q, t) /\ proc[q].pc \in {"commit", "mark"}
                                 /\ proc[q].id = e.id
      BY <1>7, <2>1, <2>3 DEF WholeAt
    <3>. QED  BY <1>1, <3>1
  <2>. QED  BY <2>2, <2>3
<1>. QED  BY <1>5, <1>6, <1>7 DEF WholeAt

\* A timeline that its holder leaves with nothing missing is whole.
LEMMA WholeLeft ==
    ASSUME NEW t \in Timelines, manifest'[t].seq = Length(t)',
           catalog'[t] = manifest'[t].head,
           \A e \in events'[t] : e.key # NoKey => marker'[t][e.key] = e.id
    PROVE  WholeAt(t)'
  BY DEF WholeAt

\* The steps that write a timeline leave it whole, or are at the step that makes it so:
\* installing an event, its manifest and its marker are to come.
LEMMA InstallWhole ==
    ASSUME IInv, NEW p \in Processes, Install(p), NEW t, t = proc[p].timeline,
           t \in Timelines, WholeAt(t)
    PROVE  WholeAt(t)'
<1>0. proc \in [Processes -> ProcState] /\ events \in [Timelines -> SUBSET Event]
  <2>1. Typed
    BY DEF IInv
  <2>2. proc \in [Processes -> ProcState]
    BY <2>1, ProcUpdates
  <2>3. events \in [Timelines -> SUBSET Event]
    BY <2>1 DEF Typed
  <2>. QED  BY <2>2, <2>3
<1>1. PICK id \in Ids :
        /\ events' = [events EXCEPT ![t] = @ \cup {NewEvent(p, id)}]
        /\ proc' = [proc EXCEPT ![p].pc = "commit", ![p].id = id]
        /\ manifest' = manifest /\ marker' = marker /\ catalog' = catalog
        /\ proc[p].pc = "install"
  BY DEF Install
<1>2. InPath(p, t)
  BY <1>1 DEF InPath, Critical
<1>3. /\ catalog[t] = manifest[t].head
      /\ \A e \in events[t] : e.key # NoKey => marker[t][e.key] = e.id
  BY <1>1, <1>2, HolderAlone
<1>4. InPath(p, t)' /\ proc'[p].pc = "commit" /\ proc'[p].id = id
  BY <1>0, <1>1 DEF InPath, Critical, ProcState
<1>5. Holding(t, {"commit"})'
  BY <1>4 DEF Holding, InPath
<1>6. \A e \in events'[t] : e \in events[t] \/ e.id = id
  BY <1>0, <1>1 DEF NewEvent
<1>7. ASSUME NEW e \in events'[t], e.key # NoKey
      PROVE  \/ marker'[t][e.key] = e.id
             \/ \E q \in Processes : /\ InPath(q, t)' /\ proc'[q].pc \in {"commit", "mark"}
                                     /\ proc'[q].id = e.id
  <2>1. CASE e.id = id
    BY <1>4, <2>1
  <2>2. CASE e \in events[t]
    BY <1>1, <1>3, <1>7, <2>2
  <2>. QED  BY <1>6, <2>1, <2>2
<1>. QED  BY <1>1, <1>3, <1>5, <1>7 DEF WholeAt

\* Committing an event: its manifest has it, its row and its marker are to come.
LEMMA CommitWhole ==
    ASSUME IInv, NEW p \in Processes, Commit(p), NEW t, t = proc[p].timeline,
           t \in Timelines, WholeAt(t)
    PROVE  WholeAt(t)'
<1>0. proc \in [Processes -> ProcState] /\ manifest \in [Timelines -> Manifest]
  <2>1. Typed
    BY DEF IInv
  <2>. QED  BY <2>1, ProcUpdates DEF Typed
<1>1. /\ proc[p].pc = "commit" /\ proc' = [proc EXCEPT ![p].pc = "mark"]
      /\ events' = events /\ marker' = marker /\ catalog' = catalog
      /\ manifest' = [manifest EXCEPT ![t].seq = @ + 1, ![t].head = proc[p].id]
  BY DEF Commit, Goto
<1>2. InPath(p, t)
  BY <1>1 DEF InPath, Critical
<1>3. \A e \in events[t] : e.key # NoKey =>
         marker[t][e.key] = e.id \/ proc[p].id = e.id
  BY <1>1, <1>2, HolderAlone
<1>4. InPath(p, t)' /\ proc'[p].pc = "mark" /\ proc'[p].id = proc[p].id
  BY <1>0, <1>1 DEF InPath, Critical, ProcState
<1>5. Holding(t, {"mark", "publish"})'
  BY <1>4 DEF Holding, InPath
<1>6. manifest'[t].seq = Length(t)'
  <2>1. Length(t) = manifest[t].seq + 1
    BY <1>1 DEF IInv, ProcInv, Knows
  <2>2. Length(t)' = Length(t)
    BY <1>1 DEF Length
  <2>. QED  BY <1>0, <1>1, <2>1, <2>2 DEF Manifest
<1>7. ASSUME NEW e \in events'[t], e.key # NoKey
      PROVE  \/ marker'[t][e.key] = e.id
             \/ \E q \in Processes : /\ InPath(q, t)' /\ proc'[q].pc \in {"commit", "mark"}
                                     /\ proc'[q].id = e.id
  BY <1>1, <1>3, <1>4, <1>7
<1>. QED  BY <1>5, <1>6, <1>7 DEF WholeAt

\* Marking it: its row is to come.
LEMMA MarkWhole ==
    ASSUME IInv, NEW p \in Processes, Mark(p), NEW t, t = proc[p].timeline,
           t \in Timelines, WholeAt(t)
    PROVE  WholeAt(t)'
<1>0. /\ proc \in [Processes -> ProcState] /\ marker \in [Timelines -> [Keys -> Heads]]
      /\ \A e \in events[t] : e.key \in Keys \cup {NoKey}
  <2>1. Typed
    BY DEF IInv
  <2>2. proc \in [Processes -> ProcState]
    BY <2>1, ProcUpdates
  <2>3. marker \in [Timelines -> [Keys -> Heads]] /\ events[t] \in SUBSET Event
    BY <2>1 DEF Typed
  <2>. QED  BY <2>2, <2>3 DEF Event
<1>1. /\ proc[p].pc = "mark" /\ proc' = [proc EXCEPT ![p].pc = "publish"]
      /\ events' = events /\ manifest' = manifest /\ catalog' = catalog
      /\ marker' = IF proc[p].key = NoKey THEN marker
                   ELSE [marker EXCEPT ![t][proc[p].key] = proc[p].id]
  BY DEF Mark, Goto
<1>2. InPath(p, t)
  BY <1>1 DEF InPath, Critical
<1>3. /\ manifest[t].seq = Length(t)
      /\ \A e \in events[t] : e.key # NoKey =>
           marker[t][e.key] = e.id \/ proc[p].id = e.id
  BY <1>1, <1>2, HolderAlone
<1>4. InPath(p, t)' /\ proc'[p].pc = "publish"
  BY <1>0, <1>1 DEF InPath, Critical, ProcState
<1>5. Holding(t, {"mark", "publish"})'
  BY <1>4 DEF Holding, InPath
<1>6. manifest'[t].seq = Length(t)'
  BY <1>1, <1>3 DEF Length
<1>7. PICK f \in events[t] : f.id = proc[p].id /\ f.key = proc[p].key
  BY <1>1 DEF IInv, ProcInv, Knows, Names
<1>8. ASSUME NEW e \in events[t], e.key # NoKey
      PROVE  marker'[t][e.key] = e.id
  <2>1. e.key \in Keys
    BY <1>0, <1>8
  <2>2. CASE e.key = proc[p].key
    <3>1. e = f
      BY <1>7, <2>1, <2>2 DEF IInv, KeysInv
    <3>. QED  BY <1>0, <1>1, <1>7, <1>8, <2>1, <2>2, <3>1
  <2>3. CASE e.key # proc[p].key
    <3>1. e.id # proc[p].id
      BY <1>7, <2>3 DEF IInv, IdsInv
    <3>2. marker[t][e.key] = e.id
      BY <1>3, <1>8, <3>1
    <3>. QED  BY <1>0, <1>1, <2>1, <2>3, <3>2
  <2>. QED  BY <2>2, <2>3
<1>. QED  BY <1>1, <1>5, <1>6, <1>8 DEF WholeAt

\* Marking an event that a process before has installed.
LEMMA RemarkWhole ==
    ASSUME IInv, NEW p \in Processes, Remark(p), NEW t, t = proc[p].timeline,
           t \in Timelines, WholeAt(t)
    PROVE  WholeAt(t)'
<1>0. /\ marker \in [Timelines -> [Keys -> Heads]]
      /\ \A e \in events[t] : e.key \in Keys \cup {NoKey}
  BY DEF IInv, Typed, Event
<1>1. /\ proc[p].pc = "remark"
      /\ events' = events /\ manifest' = manifest /\ catalog' = catalog
      /\ marker' = [marker EXCEPT ![t][proc[p].key] = proc[p].id]
  BY DEF Remark
<1>2. InPath(p, t)
  BY <1>1 DEF InPath, Critical
<1>3. /\ manifest[t].seq = Length(t) /\ catalog[t] = manifest[t].head
      /\ \A e \in events[t] : e.key # NoKey => marker[t][e.key] = e.id
  BY <1>1, <1>2, HolderAlone
<1>4. PICK f \in events[t] : f.id = proc[p].id /\ f.key = proc[p].key
  BY <1>1 DEF IInv, ProcInv, Knows, Names
<1>5. ASSUME NEW e \in events[t], e.key # NoKey
      PROVE  marker'[t][e.key] = e.id
  <2>1. e.key \in Keys
    BY <1>0, <1>5
  <2>2. CASE e.key = proc[p].key
    <3>1. e = f
      BY <1>4, <2>1, <2>2 DEF IInv, KeysInv
    <3>. QED  BY <1>0, <1>1, <1>4, <2>1, <2>2, <3>1
  <2>3. CASE e.key # proc[p].key
    BY <1>0, <1>1, <1>3, <1>5, <2>1, <2>3
  <2>. QED  BY <2>2, <2>3
<1>6. manifest'[t].seq = Length(t)'
  BY <1>1, <1>3 DEF Length
<1>. QED  BY <1>1, <1>3, <1>5, <1>6, WholeLeft

\* Writing its row, the last of it.
LEMMA PublishWhole ==
    ASSUME IInv, NEW p \in Processes, Publish(p), NEW t, t = proc[p].timeline,
           t \in Timelines, WholeAt(t)
    PROVE  WholeAt(t)'
<1>0. catalog \in [Timelines -> Heads]
  BY DEF IInv, Typed
<1>1. /\ proc[p].pc = "publish"
      /\ events' = events /\ manifest' = manifest /\ marker' = marker
      /\ catalog' = [catalog EXCEPT ![t] = manifest[t].head]
  BY DEF Publish
<1>2. InPath(p, t)
  BY <1>1 DEF InPath, Critical
<1>3. /\ manifest[t].seq = Length(t)
      /\ \A e \in events[t] : e.key # NoKey => marker[t][e.key] = e.id
  BY <1>1, <1>2, HolderAlone
<1>4. manifest'[t].seq = Length(t)' /\ catalog'[t] = manifest'[t].head
  BY <1>0, <1>1, <1>3 DEF Length
<1>. QED  BY <1>1, <1>3, <1>4, WholeLeft

\* A step of one process with nothing to write, that goes to no recovery, keeps everything
\* whole.
LEMMA QuietWhole ==
    ASSUME WholeInv, NEW p \in Processes, UNCHANGED <<events, marker, catalog>>,
           \A t \in Timelines : /\ manifest'[t].seq = manifest[t].seq
                                /\ manifest'[t].head = manifest[t].head,
           \A q \in Processes \ {p} : proc'[q] = proc[q],
           proc[p].pc \notin {"commit", "mark", "publish"},
           proc'[p].pc \notin {"advance", "list"}
    PROVE  WholeInv'
<1>1. NoRecovery /\ \A t \in Timelines : WholeAt(t)
  BY WholeIs
<1>2. NoRecovery'
  BY <1>1 DEF NoRecovery
<1>3. ASSUME NEW t \in Timelines
      PROVE  WholeAt(t)'
  <2>1. DiskKept(t)
    BY DEF DiskKept
  <2>. QED  BY <1>1, <2>1, WholeKept
<1>. QED  BY <1>2, <1>3 DEF WholeInv, WholeAt, NoRecovery

\* A step that writes one timeline, and leaves it whole, keeps everything whole.
LEMMA WritingWhole ==
    ASSUME IInv, WholeInv, [Next]_vars, NEW p \in Processes,
           NEW t \in Timelines, t = proc[p].timeline, WholeAt(t)',
           \A q \in Processes \ {p} : proc'[q] = proc[q],
           \A u \in Timelines \ {t} : DiskKept(u),
           proc'[p].pc \notin {"advance", "list"}
    PROVE  WholeInv'
<1>1. NoRecovery /\ \A u \in Timelines : WholeAt(u)
  BY WholeIs
<1>2. NoRecovery'
  BY <1>1 DEF NoRecovery
<1>3. ASSUME NEW u \in Timelines, u # t
      PROVE  WholeAt(u)'
  BY <1>1, <1>3, WholeKept
<1>. QED  BY <1>2, <1>3 DEF WholeInv, WholeAt, NoRecovery

\* Without a fault no step leaves anything missing that its process is not about to write.
LEMMA WholeStep ==
    ASSUME IInv, UnusedInv, WholeInv, [Next]_vars, faults = 0, faults' = 0
    PROVE  WholeInv'
<1>0. /\ proc \in [Processes -> ProcState] /\ events \in [Timelines -> SUBSET Event]
      /\ manifest \in [Timelines -> Manifest] /\ marker \in [Timelines -> [Keys -> Heads]]
      /\ catalog \in [Timelines -> Heads] /\ Typed
      /\ \A p \in Processes : proc[p].timeline \in Timelines
  <2>1. Typed
    BY DEF IInv
  <2>. QED  BY <2>1, ProcUpdates DEF Typed
<1>1. CASE UNCHANGED vars
  <2>1. events' = events /\ manifest' = manifest /\ marker' = marker /\ catalog' = catalog
        /\ proc' = proc
    BY <1>1 DEF vars, diskVars
  <2>. QED  BY <2>1 DEF WholeInv, Holding, InPath, Length
<1>2. CASE Next
  <2>1. PICK p \in Processes : Request(p) \/ Step(p) \/ Raise(p) \/ Crash(p)
    BY <1>2 DEF Next
  <2>2. PICK t \in Timelines : t = proc[p].timeline
    BY <1>0
  <2>3. WholeAt(t) /\ proc[p].pc \notin {"advance", "list"}
    BY WholeIs DEF NoRecovery
  <2>4. CASE Request(p)
    <3>1. /\ proc[p].pc = "idle" /\ UNCHANGED <<events, marker, catalog>>
          /\ \A u \in Timelines : /\ manifest'[u].seq = manifest[u].seq
                                  /\ manifest'[u].head = manifest[u].head
      <4>1. CASE \E child, parent \in Timelines, head \in Heads : Fork(p, child, parent, head)
        BY <1>0, <4>1 DEF Fork, Manifest
      <4>2. CASE ~ \E child, parent \in Timelines, head \in Heads :
                     Fork(p, child, parent, head)
        BY <2>4, <4>2 DEF Request, Call, Resolve, Archive, diskVars
      <4>. QED  BY <4>1, <4>2
    <3>2. /\ \A q \in Processes \ {p} : proc'[q] = proc[q]
          /\ proc'[p].pc \notin {"advance", "list"}
      <4>1. CASE \E op, key : Call(p, op, key)
        BY <1>0, <4>1 DEF Call
      <4>2. CASE Resolve(p)
        BY <3>1, <4>2 DEF Resolve
      <4>3. CASE Archive(p)
        BY <1>0, <4>3 DEF Archive, ProcState
      <4>4. CASE \E child, parent, head : Fork(p, child, parent, head)
        BY <1>0, <4>4 DEF Fork
      <4>. QED  BY <2>4, <4>1, <4>2, <4>3, <4>4 DEF Request
    <3>. QED  BY <3>1, <3>2, QuietWhole
  <2>5. CASE Raise(p) \/ Crash(p)
    <3>1. Raise(p) /\ proc[p].pc = "install"
      BY <2>5, BoundAssumption DEF Raise, Crash
    <3>2. /\ UNCHANGED <<events, marker, catalog>> /\ manifest' = manifest
          /\ \A q \in Processes \ {p} : proc'[q] = proc[q]
          /\ proc'[p].pc = "idle"
      BY <1>0, <3>1 DEF Raise, Leave, NoWork, diskVars
    <3>. QED  BY <3>1, <3>2, QuietWhole
  <2>6. CASE Recover(p)
    <3>1. /\ proc[p].pc = "recover" /\ UNCHANGED <<events, marker, catalog>>
          /\ manifest' = manifest
      BY <2>6 DEF Recover, diskVars
    <3>2. InPath(p, t)
      BY <2>2, <3>1 DEF InPath, Critical
    <3>3. manifest[t].seq = Length(t)
      BY <2>3, <3>1, <3>2, HolderAlone
    <3>4. Length(t) \in Nat
      BY InRange DEF IInv
    <3>5. Leave(p) \/ Goto(p, AfterRecovery(p))
      BY <2>2, <2>6, <3>3, <3>4 DEF Recover, Refuse
    <3>6. /\ \A q \in Processes \ {p} : proc'[q] = proc[q]
          /\ proc'[p].pc \notin {"advance", "list"}
      <4>1. AfterRecovery(p) \in {"materialize", "install", "look"}
        BY <1>0, AfterRecoveryIs
      <4>. QED  BY <1>0, <3>5, <4>1 DEF Leave, Goto, NoWork, ProcState
    <3>. QED  BY <3>1, <3>6, QuietWhole
  <2>7. CASE LookAtMarker(p) \/ LookAtIndex(p) \/ Materialize(p) \/ ReplayFork(p)
             \/ Archived(p)
    <3>1. /\ proc[p].pc \notin {"commit", "mark", "publish"}
          /\ UNCHANGED <<events, marker, catalog>> /\ manifest' = manifest
      BY <2>7 DEF LookAtMarker, LookAtIndex, Materialize, ReplayFork, Archived, diskVars
    <3>2. /\ \A q \in Processes \ {p} : proc'[q] = proc[q]
          /\ proc'[p].pc \notin {"advance", "list"}
      <4>. USE DEF Leave, Goto, Refuse, NoWork, ProcState
      <4>1. CASE LookAtMarker(p) \/ LookAtIndex(p)
        BY <1>0, <4>1 DEF LookAtMarker, LookAtIndex, Answer
      <4>2. CASE Materialize(p) \/ ReplayFork(p) \/ Archived(p)
        BY <1>0, <4>2 DEF Materialize, ReplayFork, Archived
      <4>. QED  BY <2>7, <4>1, <4>2
    <3>. QED  BY <3>1, <3>2, QuietWhole
  <2>8. CASE Remark(p) \/ Install(p) \/ Commit(p) \/ Mark(p) \/ Publish(p)
    <3>1. WholeAt(t)'
      BY <2>2, <2>3, <2>8, RemarkWhole, InstallWhole, CommitWhole, MarkWhole, PublishWhole
    <3>2. /\ \A q \in Processes \ {p} : proc'[q] = proc[q]
          /\ proc'[p].pc \notin {"advance", "list"}
      <4>. USE DEF Leave, Goto, Refuse, NoWork, ProcState
      <4>1. CASE Remark(p) \/ Publish(p)
        BY <1>0, <4>1 DEF Remark, Publish, Answer
      <4>2. CASE Install(p) \/ Commit(p) \/ Mark(p)
        BY <1>0, <4>2 DEF Install, Commit, Mark
      <4>. QED  BY <2>8, <4>1, <4>2
    <3>3. ASSUME NEW u \in Timelines \ {t}
          PROVE  DiskKept(u)
      <4>1. CASE Remark(p) \/ Mark(p)
        BY <1>0, <2>2, <4>1 DEF Remark, Mark, DiskKept
      <4>2. CASE Install(p)
        BY <1>0, <2>2, <4>2 DEF Install, DiskKept
      <4>3. CASE Commit(p)
        BY <1>0, <2>2, <4>3 DEF Commit, DiskKept
      <4>4. CASE Publish(p)
        BY <1>0, <2>2, <4>4 DEF Publish, DiskKept
      <4>. QED  BY <2>8, <4>1, <4>2, <4>3, <4>4
    <3>. QED  BY <2>2, <3>1, <3>2, <3>3, WritingWhole
  <2>9. CASE ForkList(p)
    <3>1. /\ proc[p].pc = "fork_list" /\ events' = events /\ manifest' = manifest
          /\ marker' = marker /\ catalog' = [catalog EXCEPT ![t] = 0]
      BY <2>2, <2>9 DEF ForkList
    <3>2. events[t] = {} /\ manifest[t].head = 0
      BY <2>2, <3>1 DEF UnusedInv, Blank
    <3>3. WholeAt(t)'
      <4>1. manifest[t].seq \in 0 .. Length(t) /\ Length(t) = 0
        BY <3>2, InRange, EmptyChain DEF IInv, Length
      <4>2. manifest'[t].seq = Length(t)'
        BY <3>1, <4>1 DEF Length
      <4>. QED  BY <1>0, <3>1, <3>2, <4>2, WholeLeft
    <3>4. /\ \A q \in Processes \ {p} : proc'[q] = proc[q]
          /\ proc'[p].pc \notin {"advance", "list"}
      BY <1>0, <2>9 DEF ForkList, Leave, Goto, NoWork, ProcState
    <3>5. \A u \in Timelines \ {t} : DiskKept(u)
      BY <1>0, <3>1 DEF DiskKept
    <3>. QED  BY <2>2, <3>3, <3>4, <3>5, WritingWhole
  <2>10. ~ (Advance(p) \/ List(p))
    BY <2>3 DEF Advance, List
  <2>. QED  BY <2>1, <2>4, <2>5, <2>6, <2>7, <2>8, <2>9, <2>10 DEF Step
<1>. QED  BY <1>1, <1>2

-----------------------------------------------------------------------------
(* Backups are whole *)

ArchiveInvariant == ReplayInv /\ UnusedInv /\ AloneInv /\ (faults = 0 => WholeInv)

\* An empty journal is whole.
LEMMA InitArchive == Init => ArchiveInvariant
<1>. SUFFICES ASSUME Init PROVE ArchiveInvariant
  OBVIOUS
<1>1. ReplayInv
  BY InitReplay
<1>2. UnusedInv /\ AloneInv
  BY DEF Init, UnusedInv, AloneInv, Blank, Known, NoWork, Archives
<1>3. WholeInv
  <2>1. \A t \in Timelines : Length(t) = 0
    BY EmptyChain DEF Init, Length
  <2>. QED  BY <2>1 DEF Init, WholeInv, NoWork
<1>. QED  BY <1>1, <1>2, <1>3 DEF ArchiveInvariant

\* Faults are counted.
LEMMA FaultsGrow == ASSUME IInv, [Next]_vars, faults' = 0 PROVE faults = 0
<1>1. faults \in Nat
  BY BoundAssumption DEF IInv, Typed
<1>2. CASE faults' = faults
  BY <1>2
<1>3. CASE faults' # faults
  <2>1. PICK p \in Processes : Request(p) \/ Step(p) \/ Raise(p) \/ Crash(p)
    BY <1>3 DEF Next, vars
  <2>2. ~ Request(p)
    BY <1>3 DEF Request, Call, Resolve, Fork, Archive
  <2>3. CASE Raise(p) \/ Crash(p)
    BY <1>1, <1>3, <2>3 DEF Raise, Crash
  <2>4. CASE Step(p)
    <3>1. CASE Publish(p) \/ ForkList(p)
      BY <1>1, <1>3, <3>1 DEF Publish, ForkList, GitRaises
    <3>2. CASE ~ (Publish(p) \/ ForkList(p))
      BY <1>3, <2>4, <3>2 DEF Step, Recover, Advance, List, LookAtMarker, LookAtIndex,
         Remark, Install, Commit, Mark, Materialize, ReplayFork, Archived
    <3>. QED  BY <3>1, <3>2
  <2>. QED  BY <2>1, <2>2, <2>3, <2>4
<1>. QED  BY <1>2, <1>3

\* No step leaves it.
LEMMA NextArchive ==
    ASSUME ArchiveInvariant, [Next]_vars
    PROVE  ArchiveInvariant'
<1>1. IInv /\ LineageInv /\ ReplayInv /\ UnusedInv /\ AloneInv
  BY DEF ArchiveInvariant, ReplayInv
<1>2. ReplayInv'
  BY <1>1, NextReplay
<1>3. UnusedInv'
  BY <1>1, UnusedStep
<1>4. AloneInv'
  BY <1>1, AloneStep
<1>5. ASSUME faults' = 0
      PROVE  WholeInv'
  <2>1. faults = 0
    BY <1>1, <1>5, FaultsGrow
  <2>2. WholeInv
    BY <2>1 DEF ArchiveInvariant
  <2>. QED  BY <1>1, <1>5, <2>1, <2>2, WholeStep
<1>. QED  BY <1>2, <1>3, <1>4, <1>5 DEF ArchiveInvariant

\* A backup is of journals that recovery can finish, and of finished ones if nothing failed.
THEOREM ArchivesAreWhole == Spec => []ArchiveIsWhole
<1>1. ArchiveInvariant => ArchiveIsWhole
  <2>. SUFFICES ASSUME ArchiveInvariant, Archiving, NEW t \in Timelines
                PROVE  /\ Chained(t) /\ Agrees(t)
                       /\ faults = 0 =>
                            /\ manifest[t].seq = Length(t) /\ catalog[t] = manifest[t].head
                            /\ \A e \in events[t] : e.key # NoKey => marker[t][e.key] = e.id
    BY DEF ArchiveIsWhole
  <2>1. Chained(t) /\ Agrees(t)
    BY NeverBroken DEF ArchiveInvariant, ReplayInv, IInv
  <2>2. \A p \in Processes : ~ InPath(p, t)
    BY DEF ArchiveInvariant, AloneInv, Archiving, InPath
  <2>3. faults = 0 => WholeAt(t)
    BY WholeIs DEF ArchiveInvariant
  <2>. QED  BY <2>1, <2>2, <2>3 DEF WholeAt, Holding
<1>2. Spec => []ArchiveInvariant
  BY InitArchive, NextArchive, PTL DEF Spec
<1>. QED  BY <1>1, <1>2, PTL
=============================================================================
