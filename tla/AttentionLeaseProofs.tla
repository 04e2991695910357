------------------------ MODULE AttentionLeaseProofs ------------------------
(***************************************************************************)
(* Proofs about AttentionLease, for any number of items, leases, episodes, *)
(* cursors and faults and any size of leases and contexts.                 *)
(*                                                                         *)
(* IInv is the inductive invariant.  Its point is what a lease id stands   *)
(* for: whoever has been shown an id has been shown all that the lease     *)
(* still lists (ShownInv), because what a context had no room for left the *)
(* lease first (ThreadInv), and an id is used again only when no thread,   *)
(* answer or provider refers to it.                                        *)
(***************************************************************************)
EXTENDS AttentionLease, TLAPS, WellFoundedInduction

-----------------------------------------------------------------------------
(* The invariant *)

ItemStatus == {"none", "queued", "leased", "responded", "acknowledged"}
ItemRow    == [status: ItemStatus, cursor: Cursors, critical: BOOLEAN]
LeaseRow   == [status: {"none", "acknowledged", "abandoned"} \cup LiveStatus,
               episode: Episodes \cup {NoEpisode}, items: SUBSET Positions,
               lapsed: BOOLEAN]
ThreadRow  == [pc: {"none", "authorize", "lease", "restrict", "place"}, cap: Cursors,
               lease: Leases \cup {NoLease}, was: LiveStatus, items: SUBSET Positions]
HarnessStep == {"down", "idle", "asking", "thinking", "posting", "acting", "leaving"}

ItemType  == item \in [Positions -> ItemRow]
LeaseType == lease \in [Leases -> LeaseRow]
ClockType ==
    /\ next \in 1 .. MaxItems + 1 /\ acked \in 0 .. MaxItems
    /\ committed \in Cursors /\ faults \in 0 .. MaxFaults
SovereignType ==
    sovereign \in [status: {"none", "active", "expired", "cancelled", "committed"},
                   episode: Episodes \cup {NoEpisode}, lapsed: BOOLEAN]
BuildType == build \in [Episodes -> ThreadRow]
HarnessType ==
    /\ harness \in [pc: HarnessStep, episode: Episodes \cup {NoEpisode},
                    lease: Leases \cup {NoLease}]
    /\ harness.pc # "down" => harness.episode \in Episodes
SetType ==
    /\ tokens \subseteq Episodes
    /\ posts \subseteq Leases /\ answers \subseteq Leases
    /\ shown \subseteq Leases /\ delivered \subseteq Positions
TypeOK ==
    /\ ItemType /\ LeaseType /\ ClockType /\ SovereignType /\ BuildType /\ HarnessType
    /\ SetType

\* The queue is filled from its head on.
QueueInv == \A i \in Positions : item[i].status = "none" <=> i >= next

\* What a thread is about to show is installed, and so is what came before it.
Installed(i) == Deliverable(i, committed)
ThreadKnows(e) ==
    /\ build[e].pc \in {"restrict", "place"} => build[e].lease \in Leases
    /\ build[e].pc = "restrict" =>
         \A i \in lease[build[e].lease].items : Installed(i)
    /\ build[e].pc = "place" =>
         /\ \A i \in build[e].items : Installed(i)
         /\ lease[build[e].lease].items \subseteq build[e].items
ThreadInv == \A e \in Episodes : ThreadKnows(e)

\* Whoever has seen a lease's id has been shown all that the lease lists.
ShownInv ==
    /\ \A l \in shown : lease[l].items \subseteq delivered
    /\ posts \cup answers \subseteq shown
    /\ harness.pc \in {"thinking", "posting", "acting"} => harness.lease \in shown
    /\ \A i \in delivered : Installed(i)

\* A leased item is in a live lease; what left the queue otherwise has been shown.
HeldInv ==
    \A i \in Positions :
        /\ item[i].status = "leased" => \E l \in Leases : Live(l) /\ i \in lease[l].items
        /\ item[i].status \in {"responded", "acknowledged"} => i \in delivered

IInv == TypeOK /\ QueueInv /\ ThreadInv /\ ShownInv /\ HeldInv

-----------------------------------------------------------------------------
(* Rows *)

\* Every update of a row that the code makes gives a row.
LEMMA RowUpdates ==
    /\ \A r \in ItemRow : \A s \in ItemStatus :
         /\ [r EXCEPT !.status = s] \in ItemRow
         /\ [r EXCEPT !.status = s].status = s
         /\ [r EXCEPT !.status = s].cursor = r.cursor
    /\ \A r \in LeaseRow :
         /\ \A s \in {"none", "acknowledged", "abandoned"} \cup LiveStatus :
              /\ [r EXCEPT !.status = s] \in LeaseRow
              /\ [r EXCEPT !.status = s].items = r.items
              /\ [r EXCEPT !.status = s].status = s
         /\ \A x \in SUBSET Positions :
              /\ [r EXCEPT !.items = x] \in LeaseRow
              /\ [r EXCEPT !.items = x].items = x
              /\ [r EXCEPT !.items = x].status = r.status
         /\ /\ [r EXCEPT !.lapsed = TRUE] \in LeaseRow
            /\ [r EXCEPT !.lapsed = TRUE].items = r.items
            /\ [r EXCEPT !.lapsed = TRUE].status = r.status
         /\ /\ [r EXCEPT !.episode = NoEpisode] \in LeaseRow
            /\ [r EXCEPT !.episode = NoEpisode].items = r.items
            /\ [r EXCEPT !.episode = NoEpisode].status = r.status
  BY DEF ItemRow, LeaseRow

\* _abandon_locked puts what was leased or responded back, and nothing else.
LEMMA RequeueEffect ==
    ASSUME ItemType, NEW ls
    PROVE  /\ Requeue(ls) \in [Positions -> ItemRow]
           /\ \A i \in Positions :
                /\ Requeue(ls)[i].cursor = item[i].cursor
                /\ Requeue(ls)[i].status =
                     IF i \in Items(ls) /\ Requeued(item[i].status)
                     THEN "queued" ELSE item[i].status
<1>. DEFINE it(i) == IF i \in Items(ls) /\ Requeued(item[i].status)
                     THEN [item[i] EXCEPT !.status = "queued"] ELSE item[i]
<1>1. ASSUME NEW i \in Positions
      PROVE  /\ it(i) \in ItemRow
             /\ it(i).cursor = item[i].cursor
             /\ it(i).status = IF i \in Items(ls) /\ Requeued(item[i].status)
                               THEN "queued" ELSE item[i].status
  <2>1. item[i] \in ItemRow /\ "queued" \in ItemStatus
    BY DEF ItemType, ItemStatus
  <2>. QED  BY <2>1, RowUpdates
<1>2. Requeue(ls) = [i \in Positions |-> it(i)]
  BY DEF Requeue
<1>. HIDE DEF it
<1>. QED  BY <1>1, <1>2

\* A lease's row as Ended leaves it.
LEMMA EndedEffect ==
    ASSUME LeaseType, NEW l \in Leases, NEW s \in {"acknowledged", "abandoned"}
    PROVE  /\ Ended(l, s) \in LeaseRow
           /\ Ended(l, s).items = lease[l].items
           /\ Ended(l, s).status = s
<1>1. lease[l] \in LeaseRow
  BY DEF LeaseType
<1>. QED  BY <1>1 DEF Ended, LeaseRow

\* _abandon_locked ends the leases it is told to, and no lease loses an item.
LEMMA AbandonedEffect ==
    ASSUME LeaseType, NEW ls
    PROVE  /\ Abandoned(ls) \in [Leases -> LeaseRow]
           /\ \A l \in Leases :
                /\ Abandoned(ls)[l].items = lease[l].items
                /\ l \in ls => Abandoned(ls)[l].status = "abandoned"
                /\ l \notin ls => Abandoned(ls)[l] = lease[l]
<1>1. \A l \in Leases : /\ Ended(l, "abandoned") \in LeaseRow
                        /\ Ended(l, "abandoned").items = lease[l].items
                        /\ Ended(l, "abandoned").status = "abandoned"
  BY EndedEffect
<1>. QED  BY <1>1 DEF Abandoned, LeaseType

\* A new use of an episode's id takes no lease's items or status.
LEMMA OlderEffect ==
    ASSUME NEW ls \in [Leases -> LeaseRow], NEW e
    PROVE  /\ Older(e, ls) \in [Leases -> LeaseRow]
           /\ \A l \in Leases : /\ Older(e, ls)[l].items = ls[l].items
                                /\ Older(e, ls)[l].status = ls[l].status
<1>. DEFINE row(l) == IF ls[l].episode = e THEN [ls[l] EXCEPT !.episode = NoEpisode]
                                           ELSE ls[l]
<1>1. \A l \in Leases : /\ row(l) \in LeaseRow /\ row(l).items = ls[l].items
                        /\ row(l).status = ls[l].status
  BY RowUpdates
<1>2. Older(e, ls) = [l \in Leases |-> row(l)]
  BY DEF Older
<1>. HIDE DEF row
<1>. QED  BY <1>1, <1>2

-----------------------------------------------------------------------------
(* Which steps write what *)

\* The steps that write an item's row.
LEMMA ItemWriters ==
    ASSUME Next
    PROVE  \/ UNCHANGED item
           \/ \E e \in Episodes :
                \/ Acquire(e) \/ Launch(e)
                \/ \E cap \in Cursors : TakeLease(e, cap)
                \/ \E visible \in SUBSET Positions : Restrict(e, visible)
           \/ \E l \in Leases :
                \/ RespondItems(l)
                \/ \E eligible \in SUBSET Positions : Acknowledge(l, eligible)
           \/ \E outcome \in {"committed", "cancelled"} : EndEpisode(outcome)
           \/ \E cursor \in Cursors, critical \in Criticality : Enqueue(cursor, critical)
<1>. USE DEF queueVars
<1>1. CASE Harness
  BY <1>1 DEF Harness, Ask, Post, Posted, GoOn
<1>2. CASE Environment
  BY <1>2 DEF Environment, Publish, SovereignLapses, ReadAuthority, HarnessDies,
              ServerDies, LeaseLapses, BuildFails
<1>3. ASSUME NEW e \in Episodes, Server(e)
      PROVE  \/ UNCHANGED item
             \/ Acquire(e)
             \/ \E cap \in Cursors : TakeLease(e, cap)
             \/ \E visible \in SUBSET Positions : Restrict(e, visible)
  BY <1>3 DEF Server, Renew, Place
<1>4. ASSUME NEW l \in Leases, RespondLease(l)
      PROVE  UNCHANGED item
  BY <1>4 DEF RespondLease
<1>. QED  BY <1>1, <1>2, <1>3, <1>4 DEF Next

\* The steps that write a lease's row.
LEMMA LeaseWriters ==
    ASSUME Next
    PROVE  \/ UNCHANGED lease
           \/ \E e \in Episodes :
                \/ Acquire(e) \/ Launch(e) \/ Place(e)
                \/ \E cap \in Cursors : TakeLease(e, cap)
                \/ \E visible \in SUBSET Positions : Restrict(e, visible)
           \/ \E l \in Leases :
                \/ RespondLease(l) \/ LeaseLapses(l)
                \/ \E eligible \in SUBSET Positions : Acknowledge(l, eligible)
           \/ \E outcome \in {"committed", "cancelled"} : EndEpisode(outcome)
<1>1. CASE Harness
  BY <1>1 DEF Harness, Ask, Post, Posted, GoOn
<1>2. CASE Environment
  BY <1>2 DEF Environment, Enqueue, Publish, SovereignLapses, ReadAuthority, HarnessDies,
              ServerDies, BuildFails
<1>3. ASSUME NEW e \in Episodes, Server(e)
      PROVE  \/ UNCHANGED lease
             \/ Acquire(e) \/ Place(e)
             \/ \E cap \in Cursors : TakeLease(e, cap)
             \/ \E visible \in SUBSET Positions : Restrict(e, visible)
  BY <1>3 DEF Server, Renew
<1>4. ASSUME NEW l \in Leases, RespondItems(l)
      PROVE  UNCHANGED lease
  BY <1>4 DEF RespondItems
<1>. QED  BY <1>1, <1>2, <1>3, <1>4 DEF Next

\* The steps that write a thread of the server.
LEMMA BuildWriters ==
    ASSUME Next
    PROVE  \/ UNCHANGED build
           \/ Ask \/ ServerDies
           \/ \E e \in Episodes :
                \/ Renew(e) \/ Acquire(e) \/ Place(e) \/ BuildFails(e)
                \/ \E cap \in Cursors : TakeLease(e, cap)
                \/ \E visible \in SUBSET Positions : Restrict(e, visible)
<1>. USE DEF serverVars
<1>1. CASE Harness
  BY <1>1 DEF Harness, Post, Posted, GoOn, Launch, EndEpisode
<1>2. CASE Environment
  BY <1>2 DEF Environment, Enqueue, Publish, SovereignLapses, ReadAuthority, HarnessDies,
              LeaseLapses
<1>3. ASSUME NEW e \in Episodes, Server(e)
      PROVE  \/ Renew(e) \/ Acquire(e) \/ Place(e)
             \/ \E cap \in Cursors : TakeLease(e, cap)
             \/ \E visible \in SUBSET Positions : Restrict(e, visible)
  BY <1>3 DEF Server
<1>4. ASSUME NEW l \in Leases,
             \/ RespondLease(l) \/ RespondItems(l)
             \/ \E eligible \in SUBSET Positions : Acknowledge(l, eligible)
      PROVE  UNCHANGED build
  BY <1>4 DEF RespondLease, RespondItems, Acknowledge
<1>. QED  BY <1>1, <1>2, <1>3, <1>4 DEF Next

-----------------------------------------------------------------------------
(* Items *)

\* What every writer but enqueue leaves of an item: its cursor, and that it exists.
ItemKept(i) ==
    /\ item'[i].cursor = item[i].cursor
    /\ item'[i].status = "none" <=> item[i].status = "none"

ItemsKept == ItemType' /\ \A i \in Positions : ItemKept(i)

\* lease, as far as it touches the queue: some leases are abandoned, and what a new
\* lease takes of the queue, which the captured world shows, becomes leased. The lease
\* is the episode's own, or one that nothing refers to.
Takes(cap, gone, taken) ==
    /\ \A i \in taken : Requeue(gone)[i].status = "queued" /\ Deliverable(i, cap)
    /\ item' = [i \in Positions |-> IF i \in taken THEN [item[i] EXCEPT !.status = "leased"]
                                                 ELSE Requeue(gone)[i]]
HandsOutAgain(e, cap, gone, l) ==
    /\ Live(l) /\ l \notin gone /\ lease[l].episode = e
    /\ \A i \in lease[l].items : Deliverable(i, cap)
    /\ lease' = Abandoned(gone) /\ shown' = shown
    /\ build' = [build EXCEPT ![e] = [NoBuild EXCEPT !.pc = "restrict", !.lease = l,
                                                     !.was = lease[l].status]]
HandsOutNew(e, gone, taken, l) ==
    /\ FreshLease(l) /\ (Live(l) => l \in gone)
    /\ lease' = [Abandoned(gone) EXCEPT ![l] =
         [status |-> "leased", episode |-> e, items |-> taken, lapsed |-> FALSE]]
    /\ shown' = shown \ {l}
    /\ build' = [build EXCEPT ![e] = [NoBuild EXCEPT !.pc = "restrict", !.lease = l]]
LEMMA TakeLeaseEffect ==
    ASSUME NEW e \in Episodes, NEW cap \in Cursors, TakeLease(e, cap)
    PROVE  \E gone \in SUBSET Leases, taken \in SUBSET Positions, l \in Leases :
             /\ Takes(cap, gone, taken)
             /\ \/ HandsOutAgain(e, cap, gone, l) /\ taken = {}
                \/ HandsOutNew(e, gone, taken, l)
<1>. DEFINE expired == {l \in Leases : Live(l) /\ lease[l].lapsed}
            held    == LiveOf(e) \ expired
            waiting == {i \in Positions : Requeue(expired)[i].status = "queued"
                                          /\ Deliverable(i, cap)}
            stale   == {l \in held : \/ \E i \in lease[l].items : ~ Deliverable(i, cap)
                                     \/ lease[l].status = "responded" /\ waiting # {}}
            gone    == expired \cup stale
            queue   == {i \in Positions : Requeue(gone)[i].status = "queued"
                                          /\ Deliverable(i, cap)}
<1>1. gone \in SUBSET Leases
  BY DEF LiveOf
<1>2. CASE \E l \in held \ stale :
             /\ Abandon(gone)
             /\ Continue(e, [NoBuild EXCEPT !.pc = "restrict", !.lease = l,
                                            !.was = lease[l].status])
             /\ UNCHANGED shown
  <2>1. PICK l \in held \ stale :
             /\ Abandon(gone)
             /\ Continue(e, [NoBuild EXCEPT !.pc = "restrict", !.lease = l,
                                            !.was = lease[l].status])
             /\ UNCHANGED shown
    BY <1>2
  <2>2. /\ l \in Leases \ gone /\ Live(l) /\ lease[l].episode = e
        /\ \A i \in lease[l].items : Deliverable(i, cap)
    BY <2>1 DEF LiveOf
  <2>3. Takes(cap, gone, {})
    <3>1. Requeue(gone) = [i \in Positions |-> Requeue(gone)[i]]
      BY DEF Requeue
    <3>. HIDE DEF gone
    <3>. QED  BY <2>1, <3>1 DEF Abandon, Takes
  <2>4. HandsOutAgain(e, cap, gone, l)
    <3>. HIDE DEF gone
    <3>. QED  BY <2>1, <2>2 DEF Abandon, Continue, HandsOutAgain
  <2>. HIDE DEF gone
  <2>. QED  BY <1>1, <2>2, <2>3, <2>4
<1>3. CASE \E l \in Leases, taken \in SUBSET queue :
             /\ FreshLease(l) /\ (Live(l) => l \in gone)
             /\ Leading(taken, queue)
             /\ \/ taken = queue /\ Cardinality(queue) <= LeaseLimit
                \/ Cardinality(taken) = LeaseLimit
             /\ item' = [i \in Positions |->
                  IF i \in taken THEN [item[i] EXCEPT !.status = "leased"]
                                 ELSE Requeue(gone)[i]]
             /\ lease' = [Abandoned(gone) EXCEPT ![l] =
                  [status |-> "leased", episode |-> e, items |-> taken,
                   lapsed |-> FALSE]]
             /\ Continue(e, [NoBuild EXCEPT !.pc = "restrict", !.lease = l])
             /\ shown' = shown \ {l}
  <2>1. \A taken \in SUBSET queue :
          /\ taken \in SUBSET Positions
          /\ \A i \in taken : Requeue(gone)[i].status = "queued" /\ Deliverable(i, cap)
    OBVIOUS
  <2>. HIDE DEF gone, queue
  <2>2. PICK l \in Leases, taken \in SUBSET queue :
             /\ FreshLease(l) /\ (Live(l) => l \in gone)
             /\ item' = [i \in Positions |->
                  IF i \in taken THEN [item[i] EXCEPT !.status = "leased"]
                                 ELSE Requeue(gone)[i]]
             /\ lease' = [Abandoned(gone) EXCEPT ![l] =
                  [status |-> "leased", episode |-> e, items |-> taken,
                   lapsed |-> FALSE]]
             /\ Continue(e, [NoBuild EXCEPT !.pc = "restrict", !.lease = l])
             /\ shown' = shown \ {l}
    BY <1>3
  <2>3. Takes(cap, gone, taken) /\ HandsOutNew(e, gone, taken, l)
    BY <2>1, <2>2 DEF Continue, Takes, HandsOutNew
  <2>. QED  BY <1>1, <2>1, <2>2, <2>3
<1>. QED  BY <1>2, <1>3 DEF TakeLease

\* Every step keeps the type of the items; only enqueue makes one, at the head's place.
LEMMA ItemStep ==
    ASSUME IInv, Next
    PROVE  /\ ItemType'
           /\ \/ \A i \in Positions : ItemKept(i)
              \/ \E cursor \in Cursors, critical \in Criticality : Enqueue(cursor, critical)
<1>0. TypeOK /\ \A i \in Positions : item[i] \in ItemRow
  BY DEF IInv, TypeOK, ItemType
<1>1. ASSUME UNCHANGED item
      PROVE  ItemsKept
  BY <1>0, <1>1 DEF ItemsKept, TypeOK, ItemType, ItemKept, ItemRow, ItemStatus, Cursors, Positions
<1>2. ASSUME NEW ls, item' = Requeue(ls)
      PROVE  ItemsKept
  BY <1>0, <1>2, RequeueEffect DEF ItemsKept, TypeOK, ItemType, ItemKept, Requeued, ItemRow, ItemStatus,
     Cursors, Positions
<1>3. ASSUME NEW part \in SUBSET Positions, NEW s \in ItemStatus \ {"none"},
             \A i \in part : item[i].status # "none",
             item' = [i \in Positions |->
                        IF i \in part THEN [item[i] EXCEPT !.status = s] ELSE item[i]]
      PROVE  ItemsKept
  <2>1. \A i \in Positions :
          /\ item'[i] \in ItemRow /\ item'[i].cursor = item[i].cursor
          /\ item'[i].status = "none" <=> item[i].status = "none"
    BY <1>0, <1>3, RowUpdates
  <2>. QED  BY <1>3, <2>1 DEF ItemsKept, ItemType, ItemKept, ItemRow, ItemStatus, Cursors, Positions
<1>4. ASSUME NEW e \in Episodes, NEW cap \in Cursors, TakeLease(e, cap)
      PROVE  ItemsKept
  <2>1. PICK gone \in SUBSET Leases, taken \in SUBSET Positions : Takes(cap, gone, taken)
    BY <1>4, TakeLeaseEffect
  <2>2. \A i \in taken : item[i].status # "none"
    BY <1>0, <2>1, RequeueEffect DEF Takes, Requeued, TypeOK
  <2>3. \A i \in Positions :
          /\ item'[i] \in ItemRow /\ item'[i].cursor = item[i].cursor
          /\ item'[i].status = "none" <=> item[i].status = "none"
    <3>1. ASSUME NEW i \in taken
          PROVE  /\ item'[i] \in ItemRow /\ item'[i].cursor = item[i].cursor
                 /\ item'[i].status = "leased"
      BY <1>0, <2>1, RowUpdates DEF Takes, ItemStatus
    <3>2. ASSUME NEW i \in Positions \ taken
          PROVE  item'[i] = Requeue(gone)[i]
      BY <2>1 DEF Takes
    <3>. QED  BY <1>0, <2>2, <3>1, <3>2, RequeueEffect DEF Requeued, TypeOK
  <2>. QED  BY <2>1, <2>3 DEF Takes, ItemsKept, ItemType, ItemKept, ItemRow, ItemStatus, Cursors, Positions
<1>5. ASSUME NEW e \in Episodes, Acquire(e)
      PROVE  ItemsKept
  BY <1>1, <1>2, <1>5 DEF Acquire, Abandon
<1>6. ASSUME NEW e \in Episodes, Launch(e)
      PROVE  ItemsKept
  BY <1>2, <1>6 DEF Launch
<1>7. ASSUME NEW outcome \in {"committed", "cancelled"}, EndEpisode(outcome)
      PROVE  ItemsKept
  BY <1>2, <1>7 DEF EndEpisode
<1>8. ASSUME NEW e \in Episodes, NEW visible \in SUBSET Positions, Restrict(e, visible)
      PROVE  ItemsKept
  <2>1. CASE UNCHANGED item
    BY <1>1, <2>1
  <2>2. CASE item' = [i \in Positions |->
                        IF i \in lease[build[e].lease].items \ visible /\ OmittedReturns(i)
                        THEN [item[i] EXCEPT !.status = "queued"] ELSE item[i]]
    <3>. DEFINE part == {i \in Positions : i \in lease[build[e].lease].items \ visible
                                            /\ OmittedReturns(i)}
    <3>1. /\ part \in SUBSET Positions /\ \A i \in part : item[i].status # "none"
          /\ item' = [i \in Positions |->
                        IF i \in part THEN [item[i] EXCEPT !.status = "queued"] ELSE item[i]]
      BY <2>2 DEF OmittedReturns
    <3>. HIDE DEF part
    <3>. QED  BY <1>3, <3>1 DEF ItemStatus
  <2>. QED  BY <1>8, <2>1, <2>2 DEF Restrict
<1>9. \A l \in shown : \A i \in lease[l].items : item[i].status # "none"
  <2>1. \A l \in shown : \A i \in lease[l].items : i \in delivered /\ Installed(i)
    BY DEF IInv, ShownInv
  <2>2. \A i \in delivered : i \in 1 .. i
    BY <1>0 DEF TypeOK, SetType, Positions
  <2>. QED  BY <2>1, <2>2 DEF Installed, Deliverable
<1>10. ASSUME NEW l \in Leases, RespondItems(l)
       PROVE  ItemsKept
  <2>1. l \in shown
    BY <1>10 DEF RespondItems, IInv, ShownInv
  <2>2. lease[l].items \in SUBSET Positions
    BY <1>0 DEF TypeOK, LeaseType, LeaseRow
  <2>3. item' = [i \in Positions |-> IF i \in lease[l].items
                                     THEN [item[i] EXCEPT !.status = "responded"]
                                     ELSE item[i]]
    BY <1>10 DEF RespondItems
  <2>. QED  BY <1>3, <1>9, <2>1, <2>2, <2>3 DEF ItemStatus
<1>11. ASSUME NEW l \in Leases, NEW eligible \in SUBSET Positions, Acknowledge(l, eligible)
       PROVE  ItemsKept
  <2>1. /\ l \in shown /\ eligible \subseteq lease[l].items
        /\ item' = [i \in Positions |->
             IF i \in eligible THEN [item[i] EXCEPT !.status = "acknowledged"]
             ELSE IF i \in lease[l].items /\ RemainderReturns(i)
             THEN [item[i] EXCEPT !.status = "queued"] ELSE item[i]]
    BY <1>11 DEF Acknowledge
  <2>2. \A i \in Positions :
          /\ item'[i] \in ItemRow /\ item'[i].cursor = item[i].cursor
          /\ item'[i].status = "none" <=> item[i].status = "none"
    <3>1. ASSUME NEW i \in Positions
          PROVE  \/ item'[i] = item[i]
                 \/ /\ i \in lease[l].items
                    /\ \E x \in {"acknowledged", "queued"} :
                         item'[i] = [item[i] EXCEPT !.status = x]
      BY <2>1
    <3>2. ASSUME NEW i \in Positions, i \in lease[l].items
          PROVE  item[i].status # "none"
      BY <1>9, <2>1, <3>2
    <3>3. ASSUME NEW i \in Positions, NEW x \in {"acknowledged", "queued"}
          PROVE  /\ [item[i] EXCEPT !.status = x] \in ItemRow
                 /\ [item[i] EXCEPT !.status = x].cursor = item[i].cursor
                 /\ [item[i] EXCEPT !.status = x].status # "none"
      <4>1. item[i] \in ItemRow /\ x \in ItemStatus /\ x # "none"
        BY <1>0 DEF ItemStatus
      <4>. QED  BY <4>1, RowUpdates
    <3>. SUFFICES ASSUME NEW i \in Positions
                  PROVE  /\ item'[i] \in ItemRow /\ item'[i].cursor = item[i].cursor
                         /\ item'[i].status = "none" <=> item[i].status = "none"
      OBVIOUS
    <3>4. CASE item'[i] = item[i]
      BY <1>0, <3>4
    <3>5. CASE item'[i] # item[i]
      BY <3>1, <3>2, <3>3, <3>5
    <3>. QED  BY <3>4, <3>5
  <2>. QED  BY <2>1, <2>2 DEF ItemsKept, ItemType, ItemKept, ItemRow, ItemStatus, Cursors, Positions
<1>12. ASSUME NEW cursor \in Cursors, NEW critical \in Criticality,
              Enqueue(cursor, critical)
       PROVE  ItemType'
  <2>1. [status |-> "queued", cursor |-> cursor, critical |-> critical] \in ItemRow
    BY BoundAssumption DEF ItemRow, ItemStatus
  <2>2. item' \in [Positions -> ItemRow]
    BY <1>0, <1>12, <2>1 DEF Enqueue, TypeOK, ItemType
  <2>. QED  BY <2>2 DEF ItemType, ItemRow, ItemStatus, Cursors, Positions
<1>13. ItemsKept \/ \E cursor \in Cursors, critical \in Criticality : Enqueue(cursor, critical)
  BY <1>1, <1>4, <1>5, <1>6, <1>7, <1>8, <1>10, <1>11, ItemWriters
<1>. QED  BY <1>12, <1>13 DEF ItemsKept

\* Whatever is installed stays installed: items keep their cursor, the queue its order
\* and the world head its observations.
LEMMA InstalledStays ==
    ASSUME IInv, Next, NEW i \in Positions, Installed(i)
    PROVE  Installed(i)'
<1>1. \A j \in 1 .. i : j \in Positions /\ item[j].status # "none"
                        /\ item[j].cursor \in Cursors /\ item[j].cursor <= committed
  <2>1. \A j \in 1 .. i : j \in Positions
    BY BoundAssumption DEF Positions
  <2>. QED  BY <2>1 DEF Installed, Deliverable, IInv, TypeOK, ItemType, ItemRow
<1>2. committed \in Cursors /\ committed' \in Cursors /\ committed <= committed'
  <2>1. committed \in Cursors
    BY DEF IInv, TypeOK, ClockType
  <2>2. committed' = committed \/ Publish
    <3>1. CASE Harness
      BY <3>1 DEF Harness, Ask, Post, Posted, GoOn, Launch, EndEpisode
    <3>2. CASE Environment
      BY <3>2 DEF Environment, Enqueue, SovereignLapses, ReadAuthority, HarnessDies,
         ServerDies, LeaseLapses, BuildFails
    <3>3. ASSUME NEW e \in Episodes, Server(e)
          PROVE  committed' = committed
      BY <3>3 DEF Server, Renew, Acquire, TakeLease, Restrict, Place
    <3>. QED  BY <3>1, <3>2, <3>3 DEF Next, RespondLease, RespondItems, Acknowledge
  <2>. QED  BY <2>1, <2>2, BoundAssumption DEF Publish, Cursors
<1>3. \A j \in 1 .. i : item'[j].status # "none" /\ item'[j].cursor = item[j].cursor
  <2>1. CASE \A j \in Positions : ItemKept(j)
    BY <1>1, <2>1 DEF ItemKept
  <2>2. ASSUME NEW cursor \in Cursors, NEW critical \in Criticality,
               Enqueue(cursor, critical)
        PROVE  \A j \in 1 .. i : item'[j] = item[j]
    <3>1. \A j \in 1 .. i : j # next
      BY <1>1 DEF IInv, QueueInv, TypeOK, ClockType, Positions
    <3>. QED  BY <1>1, <2>2, <3>1 DEF Enqueue, IInv, TypeOK, ItemType
  <2>. QED  BY <1>1, <2>1, <2>2, ItemStep
<1>. QED  BY <1>1, <1>2, <1>3 DEF Installed, Deliverable, Cursors

-----------------------------------------------------------------------------
(* Leases *)

\* What every step but the making of a lease leaves of the leases: none gains an item.
LeasesKept == LeaseType' /\ \A l \in Leases : lease'[l].items \subseteq lease[l].items

\* Every step keeps the type of the leases, and no lease gains an item but a new one.
LEMMA LeaseStep ==
    ASSUME IInv, Next
    PROVE  /\ LeaseType'
           /\ \/ LeasesKept
              \/ \E e \in Episodes, cap \in Cursors : TakeLease(e, cap)
<1>0. LeaseType /\ \A l \in Leases : lease[l] \in LeaseRow
  BY DEF IInv, TypeOK, LeaseType
<1>1. ASSUME lease' \in [Leases -> LeaseRow],
             \A l \in Leases : lease'[l].items \subseteq lease[l].items
      PROVE  LeasesKept
  BY <1>1 DEF LeasesKept, LeaseType, LeaseRow, LiveStatus, Positions
<1>2. ASSUME UNCHANGED lease
      PROVE  LeasesKept
  BY <1>0, <1>1, <1>2 DEF LeaseType
<1>3. ASSUME NEW ls, lease' = Abandoned(ls) \/ \E e : lease' = Older(e, Abandoned(ls))
      PROVE  LeasesKept
  <2>1. /\ Abandoned(ls) \in [Leases -> LeaseRow]
        /\ \A l \in Leases : Abandoned(ls)[l].items = lease[l].items
    BY <1>0, AbandonedEffect
  <2>2. \A e : /\ Older(e, Abandoned(ls)) \in [Leases -> LeaseRow]
               /\ \A l \in Leases : Older(e, Abandoned(ls))[l].items = lease[l].items
    BY <2>1, OlderEffect
  <2>. QED  BY <1>1, <1>3, <2>1, <2>2
<1>4. ASSUME NEW l \in Leases, NEW r \in LeaseRow, r.items \subseteq lease[l].items,
             lease' = [lease EXCEPT ![l] = r]
      PROVE  LeasesKept
  BY <1>0, <1>1, <1>4 DEF LeaseType
<1>5. ASSUME NEW e \in Episodes, Acquire(e)
      PROVE  LeasesKept
  BY <1>2, <1>3, <1>5 DEF Acquire, Abandon
<1>6. ASSUME NEW e \in Episodes, Launch(e)
      PROVE  LeasesKept
  BY <1>3, <1>6 DEF Launch
<1>7. ASSUME NEW outcome \in {"committed", "cancelled"}, EndEpisode(outcome)
      PROVE  LeasesKept
  BY <1>3, <1>7 DEF EndEpisode
<1>8. ASSUME NEW e \in Episodes, Place(e)
      PROVE  LeasesKept
  <2>1. CASE UNCHANGED lease
    BY <1>2, <2>1
  <2>2. CASE /\ build[e].pc = "place"
             /\ lease' = [lease EXCEPT ![build[e].lease] = [@ EXCEPT !.status = "placed"]]
    <3>1. build[e].lease \in Leases
      BY <2>2 DEF IInv, ThreadInv, ThreadKnows
    <3>2. /\ [lease[build[e].lease] EXCEPT !.status = "placed"] \in LeaseRow
          /\ [lease[build[e].lease] EXCEPT !.status = "placed"].items
               = lease[build[e].lease].items
      BY <1>0, <3>1, RowUpdates DEF LiveStatus
    <3>. QED  BY <1>4, <2>2, <3>1, <3>2
  <2>. QED  BY <1>8, <2>1, <2>2 DEF Place
<1>9. ASSUME NEW e \in Episodes, NEW visible \in SUBSET Positions, Restrict(e, visible)
      PROVE  LeasesKept
  <2>1. CASE UNCHANGED lease
    BY <1>2, <2>1
  <2>2. CASE /\ build[e].pc = "restrict" /\ visible \subseteq lease[build[e].lease].items
             /\ lease' = Detach(build[e].lease, visible)
    <3>1. build[e].lease \in Leases
      BY <2>2 DEF IInv, ThreadInv, ThreadKnows
    <3>2. /\ [lease[build[e].lease] EXCEPT !.items = visible] \in LeaseRow
          /\ [lease[build[e].lease] EXCEPT !.items = visible].items = visible
      BY <1>0, <3>1, RowUpdates
    <3>. QED  BY <1>4, <2>2, <3>1, <3>2 DEF Detach
  <2>. QED  BY <1>9, <2>1, <2>2 DEF Restrict, Leading
<1>10. ASSUME NEW l \in Leases, RespondLease(l)
       PROVE  LeasesKept
  <2>1. /\ [lease[l] EXCEPT !.status = "responded"] \in LeaseRow
        /\ [lease[l] EXCEPT !.status = "responded"].items = lease[l].items
    BY <1>0, RowUpdates DEF LiveStatus
  <2>. QED  BY <1>2, <1>4, <1>10, <2>1 DEF RespondLease
<1>11. ASSUME NEW l \in Leases, LeaseLapses(l)
       PROVE  LeasesKept
  <2>1. /\ [lease[l] EXCEPT !.lapsed = TRUE] \in LeaseRow
        /\ [lease[l] EXCEPT !.lapsed = TRUE].items = lease[l].items
    BY <1>0, RowUpdates
  <2>. QED  BY <1>4, <1>11, <2>1 DEF LeaseLapses
<1>12. ASSUME NEW l \in Leases, NEW eligible \in SUBSET Positions, Acknowledge(l, eligible)
       PROVE  LeasesKept
  <2>1. lease' = [lease EXCEPT ![l] = Ended(l, "acknowledged")]
    BY <1>12 DEF Acknowledge
  <2>. QED  BY <1>0, <1>4, <2>1, EndedEffect
<1>13. ASSUME NEW e \in Episodes, NEW cap \in Cursors, TakeLease(e, cap)
       PROVE  LeaseType'
  <2>1. PICK gone \in SUBSET Leases, taken \in SUBSET Positions, l \in Leases :
             HandsOutAgain(e, cap, gone, l) \/ HandsOutNew(e, gone, taken, l)
    BY <1>13, TakeLeaseEffect
  <2>2. [status |-> "leased", episode |-> e, items |-> taken, lapsed |-> FALSE] \in LeaseRow
    BY DEF LeaseRow, LiveStatus
  <2>3. Abandoned(gone) \in [Leases -> LeaseRow]
    BY <1>0, AbandonedEffect
  <2>4. lease' \in [Leases -> LeaseRow]
    BY <2>1, <2>2, <2>3 DEF HandsOutAgain, HandsOutNew
  <2>. QED  BY <2>4 DEF LeaseType, LeaseRow, LiveStatus, Positions
<1>. QED  BY <1>2, <1>5, <1>6, <1>7, <1>8, <1>9, <1>10, <1>11, <1>12, <1>13,
             LeaseWriters DEF LeasesKept

-----------------------------------------------------------------------------
(* The cursor *)

\* A set of numbers that has an element has a least one.
LEMMA LeastNumber ==
    ASSUME NEW S \in SUBSET Nat, S # {}
    PROVE  \E n \in S : \A k \in S : ~ (k < n)
<1>. DEFINE R == OpToRel(<, Nat)
<1>1. IsWellFoundedOn(R, Nat)
  BY NatLessThanWellFounded
<1>2. \A k, n \in Nat : k < n => <<k, n>> \in R
  BY DEF OpToRel
<1>. HIDE DEF R
<1>3. PICK n \in S : \A k \in S : ~ (<<k, n>> \in R)
  BY <1>1, WFMin
<1>. QED  BY <1>2, <1>3

\* The acknowledged cursor moves to the end of an unbroken run of what is done.
LEMMA ContiguousEffect ==
    ASSUME acked \in 0 .. MaxItems, NEW done \in SUBSET Positions
    PROVE  /\ Contiguous(done) \in acked .. MaxItems
           /\ \A i \in acked + 1 .. Contiguous(done) : i \in done
<1>. DEFINE ends == {n \in acked .. MaxItems : n + 1 \notin done}
            good(n) == /\ \A i \in acked + 1 .. n : i \in done
                       /\ n + 1 \notin done
<1>1. ends \in SUBSET Nat
  BY BoundAssumption
<1>2. MaxItems \in ends
  BY BoundAssumption DEF Positions
<1>3. PICK n \in ends : \A k \in ends : ~ (k < n)
  BY <1>1, <1>2, LeastNumber
<1>4. good(n)
  <2>1. ASSUME NEW i \in acked + 1 .. n
        PROVE  i \in done
    <3>1. i - 1 \in acked .. MaxItems /\ i - 1 < n /\ (i - 1) + 1 = i
      BY <1>3, BoundAssumption
    <3>. QED  BY <1>3, <3>1
  <2>. QED  BY <1>3, <2>1
<1>5. n \in acked .. MaxItems
  BY <1>3
<1>. HIDE DEF good
<1>6. Contiguous(done) = CHOOSE k \in acked .. MaxItems : good(k)
  BY DEF Contiguous, good
<1>7. Contiguous(done) \in acked .. MaxItems /\ good(Contiguous(done))
  BY <1>4, <1>5, <1>6
<1>. QED  BY <1>7 DEF good

-----------------------------------------------------------------------------
(* Types *)

\* Every step of a thread leaves a thread.
LEMMA ThreadRows ==
    /\ NoBuild \in ThreadRow
    /\ \A pc \in {"authorize", "place"} : \A r \in ThreadRow : [r EXCEPT !.pc = pc] \in ThreadRow
    /\ \A r \in ThreadRow, x \in SUBSET Positions :
         [r EXCEPT !.pc = "place", !.items = x] \in ThreadRow
    /\ \A c \in Cursors : [NoBuild EXCEPT !.pc = "lease", !.cap = c] \in ThreadRow
    /\ \A l \in Leases : [NoBuild EXCEPT !.pc = "restrict", !.lease = l] \in ThreadRow
    /\ \A l \in Leases, s \in LiveStatus :
         [NoBuild EXCEPT !.pc = "restrict", !.lease = l, !.was = s] \in ThreadRow
<1>1. 0 \in Cursors /\ "leased" \in LiveStatus
  BY BoundAssumption DEF Cursors, LiveStatus
<1>. QED  BY <1>1 DEF ThreadRow, NoBuild

\* Every step keeps the type of the server's threads.
LEMMA BuildTypeStep ==
    ASSUME TypeOK, Next
    PROVE  BuildType'
<1>0. BuildType /\ committed \in Cursors /\ \A e \in Episodes : build[e] \in ThreadRow
  BY DEF TypeOK, BuildType, ClockType
<1>1. ASSUME build' \in [Episodes -> ThreadRow]
      PROVE  BuildType'
  BY <1>1 DEF BuildType, ThreadRow, LiveStatus, Positions, Cursors
<1>2. CASE UNCHANGED build
  BY <1>0, <1>1, <1>2 DEF BuildType
<1>3. ASSUME NEW e \in Episodes, NEW r \in ThreadRow, build' = [build EXCEPT ![e] = r]
      PROVE  BuildType'
  BY <1>0, <1>1, <1>3 DEF BuildType
<1>4. CASE Ask
  <2>1. build' = [build EXCEPT ![harness.episode] = [@ EXCEPT !.pc = "authorize"]]
    BY <1>4 DEF Ask
  <2>2. build' \in [Episodes -> ThreadRow]
    BY <1>0, <2>1, ThreadRows DEF BuildType
  <2>. QED  BY <1>1, <2>2
<1>5. CASE ServerDies
  BY <1>1, <1>5, ThreadRows DEF ServerDies
<1>6. ASSUME NEW e \in Episodes, Renew(e) \/ Acquire(e)
      PROVE  BuildType'
  BY <1>0, <1>3, <1>6, ThreadRows DEF Renew, Acquire, Refuse, Continue, Authorized
<1>7. ASSUME NEW e \in Episodes, Place(e) \/ BuildFails(e)
      PROVE  BuildType'
  BY <1>3, <1>7, ThreadRows DEF Place, BuildFails, Refuse
<1>8. ASSUME NEW e \in Episodes, NEW cap \in Cursors, TakeLease(e, cap)
      PROVE  BuildType'
  <2>1. PICK gone \in SUBSET Leases, taken \in SUBSET Positions, l \in Leases :
             HandsOutAgain(e, cap, gone, l) \/ HandsOutNew(e, gone, taken, l)
    BY <1>8, TakeLeaseEffect
  <2>. QED  BY <1>3, <2>1, ThreadRows DEF HandsOutAgain, HandsOutNew, Live
<1>9. ASSUME NEW e \in Episodes, NEW visible \in SUBSET Positions, Restrict(e, visible)
      PROVE  BuildType'
  BY <1>0, <1>3, <1>9, ThreadRows DEF Restrict, Refuse, Continue
<1>. QED  BY <1>2, <1>4, <1>5, <1>6, <1>7, <1>8, <1>9, BuildWriters

\* A refused request sends the provider that made it away; it does nothing else to it.
LEMMA RefuseEffect ==
    ASSUME HarnessType, NEW e, Refuse(e) \/ UNCHANGED harness
    PROVE  /\ HarnessType'
           /\ harness' = harness
              \/ /\ harness.pc = "asking" /\ harness.episode = e
                 /\ harness' = [harness EXCEPT !.pc = "leaving"]
                 /\ harness'.pc = "leaving"
                 /\ harness'.episode = harness.episode /\ harness'.lease = harness.lease
  BY DEF Refuse, HarnessType, HarnessStep

\* Every step keeps the type of the provider.
LEMMA HarnessTypeStep ==
    ASSUME IInv, Next
    PROVE  HarnessType'
<1>0. HarnessType /\ ThreadInv
  BY DEF IInv, TypeOK
<1>1. CASE Harness
  <2>1. CASE Ask \/ Post \/ Posted \/ GoOn
    BY <1>0, <2>1 DEF Ask, Post, Posted, GoOn, Becomes, HarnessType, HarnessStep
  <2>2. ASSUME NEW e \in Episodes, Begins(e)
        PROVE  HarnessType'
    BY <2>2 DEF Begins, HarnessType, HarnessStep
  <2>3. CASE harness' = Down
    BY <2>3 DEF Down, HarnessType, HarnessStep
  <2>4. ASSUME NEW e \in Episodes, Launch(e)
        PROVE  HarnessType'
    BY <2>2, <2>4 DEF Launch
  <2>5. ASSUME NEW outcome \in {"committed", "cancelled"}, EndEpisode(outcome)
        PROVE  HarnessType'
    BY <2>2, <2>3, <2>5 DEF EndEpisode
  <2>. QED  BY <1>1, <2>1, <2>4, <2>5 DEF Harness
<1>2. CASE Environment
  <2>1. CASE UNCHANGED harness
    BY <1>0, <2>1, RefuseEffect
  <2>2. CASE HarnessDies
    BY <2>2 DEF HarnessDies, Down, HarnessType, HarnessStep
  <2>3. CASE ServerDies
    BY <1>0, <2>3 DEF ServerDies, HarnessType, HarnessStep
  <2>4. ASSUME NEW e \in Episodes, BuildFails(e)
        PROVE  HarnessType'
    BY <1>0, <2>4, RefuseEffect DEF BuildFails
  <2>. QED  BY <1>2, <2>1, <2>2, <2>3, <2>4
            DEF Environment, Enqueue, Publish, SovereignLapses, ReadAuthority, LeaseLapses
<1>3. ASSUME NEW e \in Episodes, Server(e)
      PROVE  HarnessType'
  <2>1. CASE Renew(e) \/ Acquire(e)
    BY <1>0, <2>1, RefuseEffect DEF Renew, Acquire, Continue
  <2>2. ASSUME NEW cap \in Cursors, TakeLease(e, cap)
        PROVE  HarnessType'
    BY <1>0, <2>2, RefuseEffect DEF TakeLease, Continue
  <2>3. ASSUME NEW visible \in SUBSET Positions, Restrict(e, visible)
        PROVE  HarnessType'
    BY <1>0, <2>3, RefuseEffect DEF Restrict, Continue
  <2>4. CASE Place(e)
    <3>1. build[e].lease \in Leases
      BY <1>0, <2>4 DEF Place, ThreadInv, ThreadKnows
    <3>2. CASE Refuse(e) \/ UNCHANGED harness
      BY <1>0, <3>2, RefuseEffect
    <3>3. CASE /\ harness.pc = "asking"
               /\ harness' = [harness EXCEPT !.pc = "thinking", !.lease = build[e].lease]
      BY <1>0, <3>1, <3>3 DEF HarnessType, HarnessStep
    <3>. QED  BY <2>4, <3>2, <3>3 DEF Place
  <2>. QED  BY <1>3, <2>1, <2>2, <2>3, <2>4 DEF Server
<1>4. ASSUME NEW l \in Leases,
             \/ RespondLease(l) \/ RespondItems(l)
             \/ \E eligible \in SUBSET Positions : Acknowledge(l, eligible)
      PROVE  HarnessType'
  BY <1>0, <1>4, RefuseEffect DEF RespondLease, RespondItems, Acknowledge
<1>. QED  BY <1>1, <1>2, <1>3, <1>4 DEF Next

\* The steps that write the sovereign lease.
LEMMA SovereignTypeStep ==
    ASSUME TypeOK, Next
    PROVE  SovereignType'
<1>0. SovereignType
  BY DEF TypeOK
<1>1. CASE UNCHANGED sovereign
  BY <1>0, <1>1 DEF SovereignType
<1>2. ASSUME NEW s \in {"expired", "cancelled", "committed"},
             sovereign' = [sovereign EXCEPT !.status = s]
      PROVE  SovereignType'
  BY <1>0, <1>2 DEF SovereignType
<1>3. ASSUME NEW e \in Episodes, Acquire(e)
      PROVE  SovereignType'
  <2>1. CASE sovereign' = [status |-> "active", episode |-> e, lapsed |-> FALSE]
    BY <2>1 DEF SovereignType
  <2>. QED  BY <1>1, <1>2, <1>3, <2>1 DEF Acquire
<1>4. ASSUME NEW e \in Episodes, Launch(e)
      PROVE  SovereignType'
  BY <1>1, <1>2, <1>4 DEF Launch
<1>5. ASSUME NEW outcome \in {"committed", "cancelled"}, EndEpisode(outcome)
      PROVE  SovereignType'
  BY <1>1, <1>2, <1>5 DEF EndEpisode
<1>6. CASE SovereignLapses
  BY <1>0, <1>6 DEF SovereignLapses, SovereignType
<1>7. CASE ReadAuthority
  BY <1>2, <1>7 DEF ReadAuthority
<1>8. CASE Harness
  BY <1>1, <1>4, <1>5, <1>8 DEF Harness, Ask, Post, Posted, GoOn
<1>9. CASE Environment
  BY <1>1, <1>6, <1>7, <1>9 DEF Environment, Enqueue, Publish, HarnessDies, ServerDies,
     LeaseLapses, BuildFails
<1>10. ASSUME NEW e \in Episodes, Server(e)
       PROVE  SovereignType'
  BY <1>1, <1>3, <1>10 DEF Server, Renew, TakeLease, Restrict, Place
<1>. QED  BY <1>1, <1>8, <1>9, <1>10 DEF Next, RespondLease, RespondItems, Acknowledge

\* Every step keeps head, cursors and the count of faults within their bounds.
LEMMA ClockTypeStep ==
    ASSUME TypeOK, Next
    PROVE  ClockType'
<1>0. ClockType /\ ItemType
  BY DEF TypeOK
<1>1. CASE UNCHANGED <<next, acked, committed>> /\ faults' \in {faults, faults + 1}
           /\ (faults' # faults => faults < MaxFaults)
  BY <1>0, <1>1, BoundAssumption DEF ClockType, Cursors
<1>2. CASE Publish
  BY <1>0, <1>2, BoundAssumption DEF Publish, queueVars, ClockType, Cursors
<1>3. ASSUME NEW cursor \in Cursors, NEW critical \in Criticality, Enqueue(cursor, critical)
      PROVE  ClockType'
  BY <1>0, <1>3, BoundAssumption DEF Enqueue, ClockType, Cursors
<1>4. ASSUME NEW l \in Leases, NEW eligible \in SUBSET Positions, Acknowledge(l, eligible)
      PROVE  ClockType'
  <2>1. \E done \in SUBSET Positions : acked' = Contiguous(done)
    BY <1>4 DEF Acknowledge
  <2>2. acked' \in 0 .. MaxItems
    BY <1>0, <2>1, ContiguousEffect, BoundAssumption DEF ClockType
  <2>. QED  BY <1>0, <1>4, <2>2 DEF Acknowledge, ClockType, Cursors
<1>. USE DEF queueVars
<1>5. CASE Harness
  BY <1>1, <1>5 DEF Harness, Ask, Post, Posted, GoOn, Launch, EndEpisode
<1>6. CASE Environment
  BY <1>1, <1>2, <1>3, <1>6 DEF Environment, SovereignLapses, ReadAuthority, HarnessDies,
     ServerDies, LeaseLapses, BuildFails
<1>7. ASSUME NEW e \in Episodes, Server(e)
      PROVE  ClockType'
  BY <1>1, <1>7 DEF Server, Renew, Acquire, TakeLease, Restrict, Place
<1>. QED  BY <1>1, <1>4, <1>5, <1>6, <1>7 DEF Next, RespondLease, RespondItems

-----------------------------------------------------------------------------
(* What has been shown *)

\* Only lease and placed change what has been shown, and what they do not.
LEMMA SeenWriters ==
    ASSUME Next
    PROVE  \/ UNCHANGED <<shown, delivered>>
           \/ \E e \in Episodes :
                \/ Place(e)
                \/ \E cap \in Cursors : TakeLease(e, cap)
<1>. USE DEF seenVars
<1>1. CASE Harness
  BY <1>1 DEF Harness, Ask, Post, Posted, GoOn, Launch, EndEpisode
<1>2. CASE Environment
  BY <1>2 DEF Environment, Enqueue, Publish, SovereignLapses, ReadAuthority, HarnessDies,
     ServerDies, LeaseLapses, BuildFails
<1>3. ASSUME NEW e \in Episodes, Server(e)
      PROVE  \/ UNCHANGED <<shown, delivered>>
             \/ Place(e)
             \/ \E cap \in Cursors : TakeLease(e, cap)
  BY <1>3 DEF Server, Renew, Acquire, Restrict
<1>. QED  BY <1>1, <1>2, <1>3 DEF Next, RespondLease, RespondItems, Acknowledge

\* The steps of the response marker.
LEMMA PostWriters ==
    ASSUME Next
    PROVE  \/ UNCHANGED <<posts, answers>>
           \/ Post \/ ServerDies
           \/ \E l \in Leases : RespondLease(l) \/ RespondItems(l)
<1>. USE DEF serverVars
<1>1. CASE Harness
  BY <1>1 DEF Harness, Ask, Posted, GoOn, Launch, EndEpisode
<1>2. CASE Environment
  BY <1>2 DEF Environment, Enqueue, Publish, SovereignLapses, ReadAuthority, HarnessDies,
     LeaseLapses, BuildFails
<1>3. ASSUME NEW e \in Episodes, Server(e)
      PROVE  UNCHANGED <<posts, answers>>
  BY <1>3 DEF Server, Renew, Acquire, TakeLease, Restrict, Place
<1>. QED  BY <1>1, <1>2, <1>3 DEF Next, Acknowledge

\* placed either shows what the thread has built and hands over the lease's id, or
\* shows nothing.
LEMMA PlaceShows ==
    ASSUME NEW e, Place(e)
    PROVE  \/ UNCHANGED <<shown, delivered>> /\ (Refuse(e) \/ UNCHANGED harness)
           \/ /\ build[e].pc = "place"
              /\ harness.pc = "asking" /\ harness.episode = e
              /\ shown' = shown \cup {build[e].lease}
              /\ delivered' = delivered \cup build[e].items
              /\ harness' = [harness EXCEPT !.pc = "thinking", !.lease = build[e].lease]
  BY DEF Place, seenVars

\* What has been shown stays so, and the ids handed over do but for a lease made anew.
LEMMA ShownHistory ==
    ASSUME Next
    PROVE  /\ delivered \subseteq delivered'
           /\ \/ shown \subseteq shown'
              \/ \E e \in Episodes, cap \in Cursors : TakeLease(e, cap)
<1>1. ASSUME NEW e \in Episodes, NEW cap \in Cursors, TakeLease(e, cap)
      PROVE  delivered' = delivered
  BY <1>1 DEF TakeLease
<1>. QED  BY <1>1, SeenWriters, PlaceShows

\* Sets keep their types.
LEMMA SetTypeStep ==
    ASSUME IInv, Next
    PROVE  SetType'
<1>0. SetType /\ HarnessType /\ ThreadInv /\ ShownInv /\ BuildType
  BY DEF IInv, TypeOK
<1>1. tokens' \subseteq Episodes
  <2>. USE <1>0 DEF SetType, serverVars
  <2>1. CASE Harness
    BY <2>1 DEF Harness, Ask, Post, Posted, GoOn, Launch, EndEpisode
  <2>2. CASE Environment
    BY <2>2 DEF Environment, Enqueue, Publish, SovereignLapses, ReadAuthority, HarnessDies,
       ServerDies, LeaseLapses, BuildFails
  <2>3. ASSUME NEW e \in Episodes, Server(e)
        PROVE  tokens' \subseteq Episodes
    BY <2>3 DEF Server, Renew, Acquire, TakeLease, Restrict, Place
  <2>. QED  BY <2>1, <2>2, <2>3 DEF Next, RespondLease, RespondItems, Acknowledge
<1>2. posts' \subseteq Leases /\ answers' \subseteq Leases
  <2>1. CASE Post
    BY <1>0, <2>1 DEF Post, SetType, ShownInv
  <2>. QED  BY <1>0, <2>1, PostWriters DEF ServerDies, RespondLease, RespondItems, SetType
<1>3. shown' \subseteq Leases /\ delivered' \subseteq Positions
  <2>1. ASSUME NEW e \in Episodes, NEW cap \in Cursors, TakeLease(e, cap)
        PROVE  shown' \subseteq shown /\ delivered' = delivered
    BY <2>1 DEF TakeLease
  <2>2. ASSUME NEW e \in Episodes, Place(e)
        PROVE  build[e].lease \in Leases /\ build[e].items \subseteq Positions
    BY <1>0, <2>2 DEF Place, ThreadInv, ThreadKnows, BuildType, ThreadRow
  <2>3. ASSUME NEW e \in Episodes, Place(e)
        PROVE  shown' \subseteq Leases /\ delivered' \subseteq Positions
    <3>1. /\ shown' \subseteq shown \cup {build[e].lease}
          /\ delivered' \subseteq delivered \cup build[e].items
      BY <2>3, PlaceShows
    <3>. QED  BY <1>0, <2>2, <2>3, <3>1 DEF SetType
  <2>. QED  BY <1>0, <2>1, <2>3, SeenWriters DEF SetType
<1>. QED  BY <1>1, <1>2, <1>3 DEF SetType, Positions

\* enqueue alone makes an item, at the head's place, and moves the head past it.
LEMMA QueueStep ==
    ASSUME IInv, Next
    PROVE  QueueInv'
<1>0. ItemType /\ ClockType /\ QueueInv
  BY DEF IInv, TypeOK
<1>1. ASSUME NEW cursor \in Cursors, NEW critical \in Criticality, Enqueue(cursor, critical)
      PROVE  QueueInv'
  <2>1. ASSUME NEW i \in Positions
        PROVE  item'[i].status = "none" <=> i >= next'
    <3>1. CASE i = next
      BY <1>0, <1>1, <3>1 DEF Enqueue, ItemType, Positions
    <3>2. CASE i # next
      <4>1. item'[i] = item[i] /\ next' = next + 1 /\ next \in Nat /\ i \in Nat
        BY <1>0, <1>1, <3>2 DEF Enqueue, ItemType, ClockType, Positions
      <4>2. item[i].status = "none" <=> i >= next
        BY <1>0 DEF QueueInv
      <4>. QED  BY <3>2, <4>1, <4>2
    <3>. QED  BY <3>1, <3>2
  <2>. QED  BY <2>1 DEF QueueInv, Positions
<1>2. ASSUME \A i \in Positions : ItemKept(i), next' = next
      PROVE  QueueInv'
  BY <1>0, <1>2 DEF QueueInv, ItemKept, Positions
<1>3. next' = next \/ \E cursor \in Cursors, critical \in Criticality :
                        Enqueue(cursor, critical)
  <2>. USE DEF queueVars
  <2>1. CASE Harness
    BY <2>1 DEF Harness, Ask, Post, Posted, GoOn, Launch, EndEpisode
  <2>2. CASE Environment
    BY <2>2 DEF Environment, Publish, SovereignLapses, ReadAuthority, HarnessDies,
       ServerDies, LeaseLapses, BuildFails
  <2>3. ASSUME NEW e \in Episodes, Server(e)
        PROVE  next' = next
    BY <2>3 DEF Server, Renew, Acquire, TakeLease, Restrict, Place
  <2>. QED  BY <2>1, <2>2, <2>3 DEF Next, RespondLease, RespondItems, Acknowledge
<1>. QED  BY <1>1, <1>2, <1>3, ItemStep

\* Every step keeps every type.
LEMMA TypeStep ==
    ASSUME IInv, Next
    PROVE  TypeOK'
<1>1. TypeOK
  BY DEF IInv
<1>2. ItemType' /\ LeaseType'
  BY ItemStep, LeaseStep
<1>3. ClockType' /\ SovereignType' /\ BuildType'
  BY <1>1, ClockTypeStep, SovereignTypeStep, BuildTypeStep
<1>4. HarnessType' /\ SetType'
  BY HarnessTypeStep, SetTypeStep
<1>. QED  BY <1>2, <1>3, <1>4 DEF TypeOK

\* What a captured world shows that is not newer than the installed one is installed.
LEMMA CapturedIsInstalled ==
    ASSUME TypeOK, NEW i \in Positions, NEW cap \in Cursors, cap <= committed,
           Deliverable(i, cap)
    PROVE  Installed(i)
<1>1. committed \in Cursors
  BY DEF TypeOK, ClockType
<1>2. \A j \in 1 .. i : j \in Positions /\ item[j].cursor \in Cursors
  <2>1. \A j \in 1 .. i : j \in Positions
    BY BoundAssumption DEF Positions
  <2>. QED  BY <2>1 DEF TypeOK, ItemType, ItemRow
<1>. QED  BY <1>1, <1>2 DEF Installed, Deliverable, Cursors

\* A lease that anyone refers to gains no item.
LEMMA ReferencedLease ==
    ASSUME IInv, Next, NEW l \in Leases, ~ FreshLease(l)
    PROVE  lease'[l].items \subseteq lease[l].items
<1>0. LeaseType
  BY DEF IInv, TypeOK
<1>1. ASSUME NEW e \in Episodes, NEW cap \in Cursors, TakeLease(e, cap)
      PROVE  lease'[l].items \subseteq lease[l].items
  <2>1. PICK gone \in SUBSET Leases, taken \in SUBSET Positions, k \in Leases :
             HandsOutAgain(e, cap, gone, k) \/ HandsOutNew(e, gone, taken, k)
    BY <1>1, TakeLeaseEffect
  <2>2. /\ Abandoned(gone) \in [Leases -> LeaseRow]
        /\ Abandoned(gone)[l].items = lease[l].items
    BY <1>0, AbandonedEffect
  <2>3. CASE HandsOutAgain(e, cap, gone, k)
    BY <2>2, <2>3 DEF HandsOutAgain
  <2>4. CASE HandsOutNew(e, gone, taken, k)
    <3>1. k # l
      BY <2>4 DEF HandsOutNew
    <3>. QED  BY <2>2, <2>4, <3>1 DEF HandsOutNew
  <2>. QED  BY <2>1, <2>3, <2>4
<1>. QED  BY <1>1, LeaseStep DEF LeasesKept

\* Every step keeps what a thread knows of the lease it works for.
LEMMA ThreadStep ==
    ASSUME IInv, Next
    PROVE  ThreadInv'
<1>. SUFFICES ASSUME NEW e \in Episodes
              PROVE  ThreadKnows(e)'
  BY DEF ThreadInv
<1>0. TypeOK /\ ThreadKnows(e) /\ build \in [Episodes -> ThreadRow]
  BY DEF IInv, ThreadInv, TypeOK, BuildType
<1>1. \A i \in Positions : Installed(i) => Installed(i)'
  BY InstalledStays
<1>2. CASE build'[e] = build[e]
  <2>1. ASSUME build[e].pc \in {"restrict", "place"}
        PROVE  /\ build[e].lease \in Leases
               /\ lease'[build[e].lease].items \subseteq lease[build[e].lease].items
               /\ lease[build[e].lease].items \subseteq Positions
    <3>1. build[e].lease \in Leases
      BY <1>0, <2>1 DEF ThreadKnows
    <3>2. ~ FreshLease(build[e].lease)
      BY DEF FreshLease
    <3>. QED  BY <1>0, <3>1, <3>2, ReferencedLease DEF TypeOK, LeaseType, LeaseRow
  <2>2. build[e].items \subseteq Positions
    BY <1>0 DEF ThreadRow
  <2>. QED  BY <1>0, <1>1, <1>2, <2>1, <2>2 DEF ThreadKnows
<1>3. CASE build'[e].pc \in {"none", "authorize", "lease"}
  BY <1>3 DEF ThreadKnows
<1>4. ASSUME NEW f \in Episodes, NEW r \in ThreadRow, build' = [build EXCEPT ![f] = r],
             r.pc \in {"none", "authorize", "lease"}
      PROVE  ThreadKnows(e)'
  BY <1>0, <1>2, <1>3, <1>4
<1>5. NoBuild \in ThreadRow /\ NoBuild.pc = "none"
  BY ThreadRows DEF NoBuild
<1>6. CASE Ask
  <2>1. build' = [build EXCEPT ![harness.episode] = [@ EXCEPT !.pc = "authorize"]]
    BY <1>6 DEF Ask
  <2>2. build'[e] = build[e] \/ build'[e].pc = "authorize"
    BY <1>0, <2>1 DEF ThreadRow
  <2>. QED  BY <1>2, <1>3, <2>2
<1>7. CASE ServerDies
  BY <1>3, <1>5, <1>7 DEF ServerDies
<1>8. ASSUME NEW f \in Episodes, Place(f) \/ BuildFails(f)
      PROVE  ThreadKnows(e)'
  BY <1>4, <1>5, <1>8 DEF Place, BuildFails, Refuse
<1>9. ASSUME NEW f \in Episodes, Renew(f) \/ Acquire(f)
      PROVE  ThreadKnows(e)'
  <2>1. Authorized \in ThreadRow /\ Authorized.pc = "lease"
    BY <1>0, ThreadRows DEF Authorized, NoBuild, TypeOK, ClockType
  <2>. QED  BY <1>4, <1>5, <1>9, <2>1 DEF Renew, Acquire, Refuse, Continue
<1>10. ASSUME NEW f \in Episodes, NEW cap \in Cursors, TakeLease(f, cap)
       PROVE  ThreadKnows(e)'
  <2>1. PICK gone \in SUBSET Leases, taken \in SUBSET Positions, l \in Leases :
             /\ Takes(cap, gone, taken)
             /\ \/ HandsOutAgain(f, cap, gone, l) /\ taken = {}
                \/ HandsOutNew(f, gone, taken, l)
    BY <1>10, TakeLeaseEffect
  <2>2. cap <= committed
    <3>1. cap \in build[f].cap .. committed
      BY <1>10 DEF TakeLease
    <3>. QED  BY <1>0, <3>1 DEF TypeOK, ClockType, ThreadRow, Cursors
  <2>3. \A i \in Positions : Deliverable(i, cap) => Installed(i)'
    BY <1>0, <1>1, <2>2, CapturedIsInstalled
  <2>4. /\ Abandoned(gone) \in [Leases -> LeaseRow]
        /\ Abandoned(gone)[l].items = lease[l].items /\ lease[l].items \subseteq Positions
    BY <1>0, AbandonedEffect DEF TypeOK, LeaseType, LeaseRow
  <2>5. \A i \in lease'[l].items : Installed(i)'
    <3>1. CASE HandsOutAgain(f, cap, gone, l)
      BY <2>3, <2>4, <3>1 DEF HandsOutAgain
    <3>2. CASE HandsOutNew(f, gone, taken, l)
      <4>1. lease'[l].items = taken
        BY <2>4, <3>2 DEF HandsOutNew
      <4>. QED  BY <2>1, <2>3, <4>1 DEF Takes
    <3>. QED  BY <2>1, <3>1, <3>2
  <2>6. PICK r \in ThreadRow : /\ build' = [build EXCEPT ![f] = r]
                               /\ r.pc = "restrict" /\ r.lease = l
    <3>1. CASE HandsOutAgain(f, cap, gone, l)
      <4>. DEFINE r == [NoBuild EXCEPT !.pc = "restrict", !.lease = l, !.was = lease[l].status]
      <4>1. r \in ThreadRow /\ r.pc = "restrict" /\ r.lease = l
        BY <3>1, ThreadRows DEF HandsOutAgain, Live, NoBuild
      <4>. QED  BY <3>1, <4>1 DEF HandsOutAgain
    <3>2. CASE HandsOutNew(f, gone, taken, l)
      <4>. DEFINE r == [NoBuild EXCEPT !.pc = "restrict", !.lease = l]
      <4>1. r \in ThreadRow /\ r.pc = "restrict" /\ r.lease = l
        BY ThreadRows DEF NoBuild
      <4>. QED  BY <3>2, <4>1 DEF HandsOutNew
    <3>. QED  BY <2>1, <3>1, <3>2
  <2>7. CASE f # e
    BY <1>0, <1>2, <2>6, <2>7
  <2>8. CASE f = e
    <3>1. build'[e] = r
      BY <1>0, <2>6, <2>8
    <3>. QED  BY <2>5, <2>6, <3>1 DEF ThreadKnows
  <2>. QED  BY <2>7, <2>8
<1>11. ASSUME NEW f \in Episodes, NEW visible \in SUBSET Positions, Restrict(f, visible)
       PROVE  ThreadKnows(e)'
  <2>1. CASE Refuse(f)
    BY <1>4, <1>5, <2>1 DEF Refuse
  <2>2. CASE f # e
    BY <1>0, <1>2, <1>11, <2>2 DEF Restrict, Refuse, Continue
  <2>3. CASE /\ f = e /\ ~ Refuse(f)
    <3>. DEFINE l == build[e].lease
    <3>1. /\ build[e].pc = "restrict" /\ visible \subseteq lease[l].items
          /\ lease' = [lease EXCEPT ![l] = [@ EXCEPT !.items = visible]]
          /\ build' = [build EXCEPT ![e] = [build[e] EXCEPT !.pc = "place", !.items = visible]]
      BY <1>11, <2>3 DEF Restrict, Leading, Detach, Continue
    <3>2. l \in Leases /\ \A i \in lease[l].items : Installed(i)
      BY <1>0, <3>1 DEF ThreadKnows
    <3>3. lease'[l].items = visible
      BY <1>0, <3>1, <3>2, RowUpdates DEF TypeOK, LeaseType
    <3>4. build'[e].pc = "place" /\ build'[e].lease = l /\ build'[e].items = visible
      BY <1>0, <3>1 DEF ThreadRow
    <3>5. \A i \in visible : Installed(i)'
      BY <1>1, <3>1, <3>2
    <3>. HIDE DEF l
    <3>. QED  BY <3>2, <3>3, <3>4, <3>5 DEF ThreadKnows
  <2>. QED  BY <2>1, <2>2, <2>3
<1>12. CASE UNCHANGED build
  BY <1>2, <1>12
<1>. QED  BY <1>6, <1>7, <1>8, <1>9, <1>10, <1>11, <1>12, BuildWriters

\* The id of a lease that anyone refers to stays with whoever has it.
LEMMA ReferencedShown ==
    ASSUME Next, NEW l \in shown, ~ FreshLease(l)
    PROVE  l \in shown'
<1>1. ASSUME NEW e \in Episodes, NEW cap \in Cursors, TakeLease(e, cap)
      PROVE  l \in shown'
  <2>1. PICK gone \in SUBSET Leases, taken \in SUBSET Positions, k \in Leases :
             HandsOutAgain(e, cap, gone, k) \/ HandsOutNew(e, gone, taken, k)
    BY <1>1, TakeLeaseEffect
  <2>. QED  BY <2>1 DEF HandsOutAgain, HandsOutNew
<1>. QED  BY <1>1, ShownHistory

Answering == {"thinking", "posting", "acting"}

\* A provider answers for the lease it was given: only placed gives it one.
LEMMA AnsweringStep ==
    ASSUME IInv, Next, harness'.pc \in Answering
    PROVE  \/ harness.pc \in Answering /\ harness'.lease = harness.lease
           \/ \E e \in Episodes : /\ Place(e) /\ harness.pc = "asking"
                                  /\ shown' = shown \cup {build[e].lease}
                                  /\ harness'.lease = build[e].lease
<1>0. HarnessType
  BY DEF IInv, TypeOK
<1>. DEFINE Kept == harness.pc \in Answering /\ harness'.lease = harness.lease
<1>1. ASSUME NEW e, Refuse(e) \/ UNCHANGED harness
      PROVE  Kept
  BY <1>0, <1>1, RefuseEffect DEF Answering
<1>2. CASE Harness
  <2>1. CASE Ask \/ Post \/ Posted \/ GoOn
    BY <1>0, <2>1 DEF Ask, Post, Posted, GoOn, Becomes, Answering, HarnessType
  <2>2. ASSUME NEW e \in Episodes, Launch(e) \/ Begins(e)
        PROVE  FALSE
    BY <2>2 DEF Launch, Begins, Answering
  <2>3. ASSUME NEW outcome, EndEpisode(outcome)
        PROVE  FALSE
    BY <2>2, <2>3 DEF EndEpisode, Down, Answering
  <2>. QED  BY <1>2, <2>1, <2>2, <2>3 DEF Harness
<1>3. CASE Environment
  <2>1. CASE UNCHANGED harness
    BY <1>1, <2>1
  <2>2. CASE HarnessDies
    BY <2>2 DEF HarnessDies, Down, Answering
  <2>3. CASE ServerDies
    BY <1>0, <2>3 DEF ServerDies, HarnessType, Answering
  <2>4. ASSUME NEW e \in Episodes, BuildFails(e)
        PROVE  Kept
    BY <1>1, <2>4 DEF BuildFails
  <2>. QED  BY <1>3, <2>1, <2>2, <2>3, <2>4
            DEF Environment, Enqueue, Publish, SovereignLapses, ReadAuthority, LeaseLapses
<1>4. ASSUME NEW e \in Episodes, Server(e)
      PROVE  Kept \/ /\ Place(e) /\ harness.pc = "asking"
                     /\ shown' = shown \cup {build[e].lease}
                     /\ harness'.lease = build[e].lease
  <2>1. CASE Renew(e) \/ Acquire(e)
    BY <1>1, <2>1 DEF Renew, Acquire, Continue
  <2>2. ASSUME NEW cap \in Cursors, TakeLease(e, cap)
        PROVE  Kept
    BY <1>1, <2>2 DEF TakeLease, Continue
  <2>3. ASSUME NEW visible \in SUBSET Positions, Restrict(e, visible)
        PROVE  Kept
    BY <1>1, <2>3 DEF Restrict, Continue
  <2>4. CASE Place(e)
    <3>1. CASE Refuse(e) \/ UNCHANGED harness
      BY <1>1, <3>1
    <3>2. CASE /\ harness.pc = "asking" /\ shown' = shown \cup {build[e].lease}
               /\ harness' = [harness EXCEPT !.pc = "thinking", !.lease = build[e].lease]
      BY <1>0, <2>4, <3>2 DEF HarnessType
    <3>. QED  BY <2>4, <3>1, <3>2, PlaceShows
  <2>. QED  BY <1>4, <2>1, <2>2, <2>3, <2>4 DEF Server
<1>5. ASSUME NEW l \in Leases,
             \/ RespondLease(l) \/ RespondItems(l)
             \/ \E eligible \in SUBSET Positions : Acknowledge(l, eligible)
      PROVE  UNCHANGED harness
  BY <1>5 DEF RespondLease, RespondItems, Acknowledge
<1>. QED  BY <1>1, <1>2, <1>3, <1>4, <1>5 DEF Next

\* Every step keeps the link between a lease's id and what its holder has been shown.
LEMMA ShownStep ==
    ASSUME IInv, Next
    PROVE  ShownInv'
<1>0. TypeOK /\ ShownInv /\ TypeOK'
  BY TypeStep DEF IInv
<1>1. ASSUME NEW e \in Episodes, build[e].pc = "place"
      PROVE  /\ build[e].lease \in Leases
             /\ lease[build[e].lease].items \subseteq build[e].items
             /\ \A i \in build[e].items : Installed(i)
  BY <1>1 DEF IInv, ThreadInv, ThreadKnows
<1>2. ASSUME NEW l \in shown'
      PROVE  lease'[l].items \subseteq delivered'
  <2>1. l \in Leases /\ (l \in shown => lease[l].items \subseteq delivered')
    BY <1>0, ShownHistory DEF ShownInv, TypeOK, SetType
  <2>2. ASSUME NEW e \in Episodes, NEW cap \in Cursors, TakeLease(e, cap)
        PROVE  lease'[l].items \subseteq delivered'
    <3>1. PICK gone \in SUBSET Leases, taken \in SUBSET Positions, k \in Leases :
               HandsOutAgain(e, cap, gone, k) \/ HandsOutNew(e, gone, taken, k)
      BY <2>2, TakeLeaseEffect
    <3>2. /\ Abandoned(gone) \in [Leases -> LeaseRow]
          /\ Abandoned(gone)[l].items = lease[l].items
      BY <1>0, <2>1, AbandonedEffect DEF TypeOK
    <3>. QED  BY <1>2, <2>1, <3>1, <3>2 DEF HandsOutAgain, HandsOutNew
  <2>3. CASE LeasesKept
    <3>1. lease'[l].items \subseteq lease[l].items
      BY <2>1, <2>3 DEF LeasesKept
    <3>2. CASE l \in shown
      BY <2>1, <3>1, <3>2
    <3>3. ASSUME l \notin shown, NEW e \in Episodes, Place(e)
          PROVE  lease'[l].items \subseteq delivered'
      <4>1. /\ build[e].pc = "place" /\ l = build[e].lease
            /\ delivered' = delivered \cup build[e].items
        BY <1>2, <3>3, PlaceShows
      <4>. QED  BY <1>1, <3>1, <4>1
    <3>. QED  BY <1>2, <2>2, <3>2, <3>3, SeenWriters
  <2>. QED  BY <2>2, <2>3, LeaseStep
<1>3. posts' \cup answers' \subseteq shown'
  <2>1. ASSUME NEW l \in shown, l \in posts \cup answers \/ harness.lease = l
        PROVE  l \in shown'
    BY <2>1, ReferencedShown DEF FreshLease
  <2>2. CASE Post
    <3>1. harness.lease \in shown /\ posts' = posts \cup {harness.lease} /\ answers' = answers
      BY <1>0, <2>2 DEF Post, ShownInv
    <3>. QED  BY <1>0, <2>1, <3>1 DEF ShownInv
  <2>3. CASE posts' \cup answers' \subseteq posts \cup answers
    BY <1>0, <2>1, <2>3 DEF ShownInv
  <2>. QED  BY <2>2, <2>3, PostWriters DEF ServerDies, RespondLease, RespondItems
<1>4. harness'.pc \in Answering => harness'.lease \in shown'
  <2>1. CASE harness.pc \in Answering /\ harness'.lease = harness.lease
    <3>1. harness.lease \in shown /\ ~ FreshLease(harness.lease)
      BY <1>0, <2>1 DEF ShownInv, FreshLease, Answering
    <3>. QED  BY <2>1, <3>1, ReferencedShown
  <2>. QED  BY <2>1, AnsweringStep
<1>5. \A i \in delivered' : Installed(i)'
  <2>1. \A i \in Positions : Installed(i) => Installed(i)'
    BY InstalledStays
  <2>2. \A i \in delivered' : i \in Positions
    BY <1>0, TypeStep DEF TypeOK, SetType, Positions
  <2>3. CASE delivered' = delivered
    BY <1>0, <2>1, <2>2, <2>3 DEF ShownInv
  <2>4. ASSUME NEW e \in Episodes, Place(e)
        PROVE  \A i \in delivered' : Installed(i)
    <3>1. \/ delivered' = delivered
          \/ build[e].pc = "place" /\ delivered' = delivered \cup build[e].items
      BY <2>4, PlaceShows
    <3>. QED  BY <1>0, <1>1, <3>1 DEF ShownInv
  <2>5. ASSUME NEW e \in Episodes, NEW cap \in Cursors, TakeLease(e, cap)
        PROVE  delivered' = delivered
    BY <2>5 DEF TakeLease
  <2>. QED  BY <2>1, <2>2, <2>3, <2>4, <2>5, SeenWriters
<1>. QED  BY <1>2, <1>3, <1>4, <1>5 DEF ShownInv, Answering

-----------------------------------------------------------------------------
(* What holds an item *)

Held(i) == \E l \in Leases : Live(l) /\ i \in lease[l].items

\* What is responded or acknowledged is so by a step that says it of a lease the
\* provider was shown; a lease taken anew is the only way into a lease.
LEMMA StatusStep ==
    ASSUME IInv, Next, NEW i \in Positions
    PROVE  \/ item'[i].status \in {item[i].status, "queued"}
           \/ /\ item'[i].status \in {"responded", "acknowledged"}
              /\ \E l \in shown : i \in lease[l].items
           \/ item'[i].status = "leased" /\ \E e \in Episodes, cap \in Cursors : TakeLease(e, cap)
<1>0. ItemType /\ item[i] \in ItemRow
  BY DEF IInv, TypeOK, ItemType
<1>. DEFINE Goal == \/ item'[i].status \in {item[i].status, "queued"}
                    \/ /\ item'[i].status \in {"responded", "acknowledged"}
                       /\ \E l \in shown : i \in lease[l].items
                    \/ /\ item'[i].status = "leased"
                       /\ \E e \in Episodes, cap \in Cursors : TakeLease(e, cap)
<1>1. ASSUME NEW ls, item' = Requeue(ls)
      PROVE  item'[i].status \in {item[i].status, "queued"}
  BY <1>0, <1>1, RequeueEffect
<1>2. ASSUME NEW e \in Episodes, Acquire(e) \/ Launch(e)
      PROVE  item'[i].status \in {item[i].status, "queued"}
  BY <1>1, <1>2 DEF Acquire, Launch, Abandon
<1>3. ASSUME NEW outcome, EndEpisode(outcome)
      PROVE  item'[i].status \in {item[i].status, "queued"}
  BY <1>1, <1>3 DEF EndEpisode
<1>4. ASSUME NEW e \in Episodes, NEW cap \in Cursors, TakeLease(e, cap)
      PROVE  Goal
  <2>1. PICK gone \in SUBSET Leases, taken \in SUBSET Positions : Takes(cap, gone, taken)
    BY <1>4, TakeLeaseEffect
  <2>2. CASE i \in taken
    BY <1>0, <1>4, <2>1, <2>2, RowUpdates DEF Takes, ItemStatus
  <2>3. CASE i \notin taken
    BY <1>0, <2>1, <2>3, RequeueEffect DEF Takes
  <2>. QED  BY <2>2, <2>3
<1>5. ASSUME NEW e \in Episodes, NEW visible \in SUBSET Positions, Restrict(e, visible)
      PROVE  item'[i].status \in {item[i].status, "queued"}
  <2>1. \/ item'[i] = item[i] \/ item'[i] = [item[i] EXCEPT !.status = "queued"]
    BY <1>5 DEF Restrict
  <2>2. [item[i] EXCEPT !.status = "queued"].status = "queued"
    BY <1>0, RowUpdates DEF ItemStatus
  <2>. QED  BY <2>1, <2>2
<1>6. ASSUME NEW l \in Leases, RespondItems(l)
      PROVE  Goal
  <2>1. l \in shown
    BY <1>6 DEF RespondItems, IInv, ShownInv
  <2>2. item'[i] = IF i \in lease[l].items
                   THEN [item[i] EXCEPT !.status = "responded"] ELSE item[i]
    BY <1>6 DEF RespondItems
  <2>. QED  BY <1>0, <2>1, <2>2, RowUpdates DEF ItemStatus
<1>7. ASSUME NEW l \in Leases, NEW eligible \in SUBSET Positions, Acknowledge(l, eligible)
      PROVE  Goal
  <2>1. /\ l \in shown /\ eligible \subseteq lease[l].items
        /\ item'[i] = IF i \in eligible THEN [item[i] EXCEPT !.status = "acknowledged"]
                      ELSE IF i \in lease[l].items /\ RemainderReturns(i)
                      THEN [item[i] EXCEPT !.status = "queued"] ELSE item[i]
    BY <1>7 DEF Acknowledge
  <2>. QED  BY <1>0, <2>1, RowUpdates DEF ItemStatus
<1>8. ASSUME NEW cursor \in Cursors, NEW critical \in Criticality, Enqueue(cursor, critical)
      PROVE  item'[i].status \in {item[i].status, "queued"}
  BY <1>0, <1>8 DEF Enqueue, ItemType
<1>. QED  BY <1>2, <1>3, <1>4, <1>5, <1>6, <1>7, <1>8, ItemWriters

\* A leased item that stays leased stays in a live lease: what ends a lease, or takes an
\* item out of it, puts the item back.
LEMMA LeasedStaysHeld ==
    ASSUME IInv, Next, NEW i \in Positions,
           item[i].status = "leased", item'[i].status = "leased", Held(i)
    PROVE  Held(i)'
<1>0. TypeOK /\ ItemType /\ LeaseType /\ item[i] \in ItemRow /\ \A l \in Leases : lease[l] \in LeaseRow
  BY DEF IInv, TypeOK, ItemType, LeaseType
<1>1. PICK l \in Leases : lease[l].status \in LiveStatus /\ i \in lease[l].items
  BY DEF Held, Live
<1>2. ASSUME lease'[l].status \in LiveStatus, i \in lease'[l].items
      PROVE  Held(i)'
  BY <1>2 DEF Held, Live
<1>3. ASSUME NEW ls, item' = Requeue(ls),
             lease' = Abandoned(ls) \/ \E e : lease' = Older(e, Abandoned(ls))
      PROVE  Held(i)'
  <2>1. i \notin Items(ls)
    BY <1>0, <1>3, RequeueEffect DEF Requeued
  <2>2. l \notin ls
    BY <1>1, <2>1 DEF Items
  <2>3. Abandoned(ls) \in [Leases -> LeaseRow] /\ Abandoned(ls)[l] = lease[l]
    BY <1>0, <2>2, AbandonedEffect
  <2>4. lease'[l].status = lease[l].status /\ lease'[l].items = lease[l].items
    BY <1>3, <2>3, OlderEffect
  <2>. QED  BY <1>1, <1>2, <2>4
<1>4. ASSUME NEW k \in Leases, NEW s \in LiveStatus,
             lease' = [lease EXCEPT ![k] = [@ EXCEPT !.status = s]]
      PROVE  Held(i)'
  <2>1. lease'[l] = lease[l] \/ lease'[l] = [lease[l] EXCEPT !.status = s]
    BY <1>0, <1>4 DEF LeaseType
  <2>2. /\ [lease[l] EXCEPT !.status = s].items = lease[l].items
        /\ [lease[l] EXCEPT !.status = s].status = s
    BY <1>0, RowUpdates
  <2>. QED  BY <1>1, <1>2, <1>4, <2>1, <2>2
<1>5. CASE UNCHANGED lease
  BY <1>1, <1>2, <1>5
<1>6. ASSUME NEW e \in Episodes, Acquire(e)
      PROVE  Held(i)'
  BY <1>3, <1>5, <1>6 DEF Acquire, Abandon
<1>7. ASSUME NEW e \in Episodes, Launch(e)
      PROVE  Held(i)'
  BY <1>3, <1>7 DEF Launch
<1>8. ASSUME NEW outcome, EndEpisode(outcome)
      PROVE  Held(i)'
  BY <1>3, <1>8 DEF EndEpisode
<1>9. ASSUME NEW e \in Episodes, Place(e)
      PROVE  Held(i)'
  <2>1. \/ UNCHANGED lease
        \/ /\ build[e].pc = "place"
           /\ lease' = [lease EXCEPT ![build[e].lease] = [@ EXCEPT !.status = "placed"]]
    BY <1>9 DEF Place
  <2>2. build[e].pc = "place" => build[e].lease \in Leases
    BY DEF IInv, ThreadInv, ThreadKnows
  <2>. QED  BY <1>4, <1>5, <2>1, <2>2 DEF LiveStatus
<1>10. ASSUME NEW k \in Leases, RespondLease(k)
       PROVE  Held(i)'
  BY <1>4, <1>5, <1>10 DEF RespondLease, LiveStatus
<1>11. ASSUME NEW k \in Leases, LeaseLapses(k)
       PROVE  Held(i)'
  <2>1. lease'[l] = lease[l] \/ lease'[l] = [lease[l] EXCEPT !.lapsed = TRUE]
    BY <1>0, <1>11 DEF LeaseLapses, LeaseType
  <2>. QED  BY <1>0, <1>1, <1>2, <2>1, RowUpdates
<1>12. ASSUME NEW e \in Episodes, NEW cap \in Cursors, TakeLease(e, cap)
       PROVE  Held(i)'
  <2>1. PICK gone \in SUBSET Leases, taken \in SUBSET Positions, k \in Leases :
             /\ Takes(cap, gone, taken)
             /\ \/ HandsOutAgain(e, cap, gone, k) /\ taken = {}
                \/ HandsOutNew(e, gone, taken, k)
    BY <1>12, TakeLeaseEffect
  <2>2. /\ Abandoned(gone) \in [Leases -> LeaseRow]
        /\ \A m \in Leases : m \notin gone => Abandoned(gone)[m] = lease[m]
    BY <1>0, AbandonedEffect
  <2>3. CASE i \in taken
    <3>1. lease'[k].status = "leased" /\ lease'[k].items = taken
      BY <2>1, <2>2, <2>3 DEF HandsOutNew
    <3>. QED  BY <2>3, <3>1 DEF Held, Live, LiveStatus
  <2>4. CASE i \notin taken
    <3>1. Requeue(gone)[i].status = "leased"
      BY <2>1, <2>4 DEF Takes
    <3>2. i \notin Items(gone)
      BY <1>0, <3>1, RequeueEffect DEF Requeued
    <3>3. l \notin gone
      BY <1>1, <3>2 DEF Items
    <3>4. lease'[l] = lease[l]
      BY <1>1, <2>1, <2>2, <3>3 DEF HandsOutAgain, HandsOutNew, Live
    <3>. QED  BY <1>1, <1>2, <3>4
  <2>. QED  BY <2>3, <2>4
<1>13. ASSUME NEW e \in Episodes, NEW visible \in SUBSET Positions, Restrict(e, visible)
       PROVE  Held(i)'
  <2>1. CASE UNCHANGED lease
    BY <1>5, <2>1
  <2>2. CASE ~ UNCHANGED lease
    <3>. DEFINE b == build[e].lease
    <3>1. /\ build[e].pc = "restrict" /\ lease' = [lease EXCEPT ![b] = [@ EXCEPT !.items = visible]]
          /\ i \in lease[b].items \ visible /\ OmittedReturns(i)
               => item'[i] = [item[i] EXCEPT !.status = "queued"]
      BY <1>13, <2>2 DEF Restrict, Detach
    <3>2. i \in lease[b].items => i \in visible
      BY <1>0, <3>1, RowUpdates DEF OmittedReturns, ItemStatus
    <3>3. \/ lease'[l] = lease[l]
          \/ l = b /\ lease'[l] = [lease[l] EXCEPT !.items = visible]
      BY <1>0, <3>1 DEF LeaseType
    <3>4. /\ [lease[l] EXCEPT !.items = visible].items = visible
          /\ [lease[l] EXCEPT !.items = visible].status = lease[l].status
      BY <1>0, RowUpdates
    <3>. HIDE DEF b
    <3>. QED  BY <1>1, <1>2, <3>2, <3>3, <3>4
  <2>. QED  BY <2>1, <2>2
<1>14. ASSUME NEW k \in Leases, NEW eligible \in SUBSET Positions, Acknowledge(k, eligible)
       PROVE  Held(i)'
  <2>1. /\ eligible \subseteq lease[k].items
        /\ item'[i] = IF i \in eligible THEN [item[i] EXCEPT !.status = "acknowledged"]
                      ELSE IF i \in lease[k].items /\ RemainderReturns(i)
                      THEN [item[i] EXCEPT !.status = "queued"] ELSE item[i]
        /\ lease' = [lease EXCEPT ![k] = Ended(k, "acknowledged")]
    BY <1>14 DEF Acknowledge
  <2>2. i \notin lease[k].items
    BY <1>0, <2>1, RowUpdates DEF ItemStatus, RemainderReturns
  <2>3. lease'[l] = lease[l]
    BY <1>0, <1>1, <2>1, <2>2 DEF LeaseType
  <2>. QED  BY <1>1, <1>2, <2>3
<1>. QED  BY <1>5, <1>6, <1>7, <1>8, <1>9, <1>10, <1>11, <1>12, <1>13, <1>14, LeaseWriters

\* Every step keeps what holds the items that are not in the queue.
LEMMA HeldStep ==
    ASSUME IInv, Next
    PROVE  HeldInv'
<1>0. TypeOK /\ ShownInv /\ HeldInv
  BY DEF IInv
<1>1. ASSUME NEW i \in Positions
      PROVE  /\ item'[i].status = "leased" => Held(i)'
             /\ item'[i].status \in {"responded", "acknowledged"} => i \in delivered'
  <2>1. /\ item[i].status = "leased" => Held(i)
        /\ item[i].status \in {"responded", "acknowledged"} => i \in delivered'
    BY <1>0, ShownHistory DEF HeldInv, Held
  <2>2. ASSUME NEW l \in shown, i \in lease[l].items
        PROVE  i \in delivered'
    BY <1>0, <2>2, ShownHistory DEF ShownInv
  <2>3. item'[i].status \in {"responded", "acknowledged"} => i \in delivered'
    BY <2>1, <2>2, StatusStep
  <2>4. ASSUME NEW e \in Episodes, NEW cap \in Cursors, TakeLease(e, cap),
               item'[i].status = "leased", item[i].status # "leased"
        PROVE  Held(i)'
    <3>1. PICK gone \in SUBSET Leases, taken \in SUBSET Positions, k \in Leases :
             /\ Takes(cap, gone, taken)
             /\ \/ HandsOutAgain(e, cap, gone, k) /\ taken = {}
                \/ HandsOutNew(e, gone, taken, k)
      BY <2>4, TakeLeaseEffect
    <3>2. i \in taken
      <4>1. Requeue(gone)[i].status \in {item[i].status, "queued"}
        BY <1>0, RequeueEffect DEF TypeOK
      <4>2. i \notin taken => item'[i] = Requeue(gone)[i]
        BY <3>1 DEF Takes
      <4>. QED  BY <2>4, <4>1, <4>2
    <3>3. Abandoned(gone) \in [Leases -> LeaseRow]
      BY <1>0, AbandonedEffect DEF TypeOK
    <3>4. lease'[k].status = "leased" /\ lease'[k].items = taken
      BY <3>1, <3>2, <3>3 DEF HandsOutNew
    <3>. QED  BY <3>2, <3>4 DEF Held, Live, LiveStatus
  <2>5. ASSUME item'[i].status = "leased"
        PROVE  Held(i)'
    <3>1. CASE item[i].status = "leased"
      BY <2>1, <2>5, <3>1, LeasedStaysHeld
    <3>2. CASE item[i].status # "leased"
      BY <2>4, <2>5, <3>2, StatusStep
    <3>. QED  BY <3>1, <3>2
  <2>. QED  BY <2>3, <2>5
<1>. QED  BY <1>1 DEF HeldInv, Held, Live, Positions

-----------------------------------------------------------------------------
(* The invariant holds *)

LEMMA InitInvariant == Init => IInv
<1>. SUFFICES ASSUME Init
              PROVE  IInv
  OBVIOUS
<1>. USE DEF Init
<1>0. 0 \in Cursors /\ "leased" \in LiveStatus
  BY BoundAssumption DEF Cursors, LiveStatus
<1>1. ItemType /\ LeaseType /\ SovereignType
  BY <1>0 DEF ItemType, ItemRow, ItemStatus, NoItem, LeaseType, LeaseRow, UnusedLease,
              SovereignType
<1>2. BuildType /\ \A e \in Episodes : build[e].pc = "none"
  BY ThreadRows DEF BuildType, NoBuild
<1>3. ClockType /\ HarnessType /\ SetType
  BY <1>0, BoundAssumption DEF ClockType, HarnessType, HarnessStep, SetType, Down
<1>4. QueueInv
  BY DEF QueueInv, NoItem, Positions
<1>5. ThreadInv
  BY <1>2 DEF ThreadInv, ThreadKnows
<1>6. ShownInv
  BY DEF ShownInv, Down
<1>7. HeldInv
  BY DEF HeldInv, NoItem
<1>. QED  BY <1>1, <1>2, <1>3, <1>4, <1>5, <1>6, <1>7 DEF IInv, TypeOK

LEMMA StutterInvariant == IInv /\ UNCHANGED vars => IInv'
<1>. SUFFICES ASSUME IInv, UNCHANGED vars
              PROVE  IInv'
  OBVIOUS
<1>. USE DEF vars, queueVars, serverVars, seenVars
<1>1. TypeOK'
  BY DEF IInv, TypeOK, ItemType, LeaseType, ClockType, SovereignType, BuildType,
         HarnessType, SetType
<1>2. QueueInv' /\ HeldInv'
  BY DEF IInv, QueueInv, HeldInv, Live
<1>3. ThreadInv' /\ ShownInv'
  BY DEF IInv, ThreadInv, ThreadKnows, ShownInv, Installed, Deliverable
<1>. QED  BY <1>1, <1>2, <1>3 DEF IInv

\* What an id stands for is kept by every step of server, provider and manager.
THEOREM Invariant == Spec => []IInv
<1>1. IInv /\ [Next]_vars => IInv'
  <2>1. ASSUME IInv, Next
        PROVE  IInv'
    BY <2>1, TypeStep, QueueStep, ThreadStep, ShownStep, HeldStep DEF IInv
  <2>. QED  BY <2>1, StutterInvariant
<1>. QED  BY InitInvariant, <1>1, PTL DEF Spec

\* No provider is shown an item, or one that came after it, that belongs to an
\* observation the world head has not installed: a lease stops at the first item the
\* captured world lacks, and the head only moves on.
THEOREM NothingEarly == Spec => []NothingShownEarly
<1>1. IInv => NothingShownEarly
  BY DEF IInv, ShownInv, Installed, Deliverable, NothingShownEarly
<1>. QED  BY <1>1, Invariant, PTL

\* No item is lost before it is shown: until then it is in the queue or in a live lease,
\* through every expiry, cancel, restart, omission and refused request.
THEOREM NoneLost == Spec => []AtLeastOnce
<1>1. IInv => AtLeastOnce
  <2>1. ASSUME IInv, NEW i \in Positions
        PROVE  item[i].status \in ItemStatus
    BY <2>1 DEF IInv, TypeOK, ItemType, ItemRow
  <2>. QED  BY <2>1 DEF IInv, HeldInv, AtLeastOnce, ItemStatus
<1>. QED  BY <1>1, Invariant, PTL

\* Nothing is acknowledged that no provider was shown.
THEOREM NoneAcknowledgedUnseen == Spec => []AcknowledgedWasShown
<1>1. IInv => AcknowledgedWasShown
  BY DEF IInv, HeldInv, AcknowledgedWasShown
<1>. QED  BY <1>1, Invariant, PTL

-----------------------------------------------------------------------------
(* Without faults *)

\* While no process is lost and no request is refused or times out, the provider waits
\* for its marker before it acts: the marker is never applied late.
MarkerInv ==
    posts \cup answers \subseteq IF harness.pc = "posting" THEN {harness.lease} ELSE {}
\* The server works for the provider that waits for it, and for no other episode.
OneThread ==
    \A e \in Episodes :
        build[e].pc # "none" => harness.pc = "asking" /\ harness.episode = e
Working(e, l) == build[e].pc \in {"restrict", "place"} /\ build[e].lease = l
\* A placed lease is one the provider is about to answer for.
PlacedInv ==
    \A l \in Leases : lease[l].status = "placed" =>
        /\ harness.lease = l
        /\ harness.pc = "thinking" \/ (harness.pc = "posting" /\ l \in posts)
\* An episode that goes on leaves no lease behind that it was not shown.
NoLeftover ==
    \A l \in Leases :
        lease[l].status = "leased" /\ lease[l].episode = harness.episode
        /\ harness.pc \notin {"down", "leaving"}
        => Working(harness.episode, l) /\ build[harness.episode].was = "leased"
\* A lease that a marker can still be applied to lists nothing acknowledged.
Markable(l) ==
    \/ lease[l].status = "placed" \/ l \in answers
    \/ lease[l].status = "leased" /\ \E e \in Episodes : Working(e, l)
Unmarked ==
    \A l \in Leases : Markable(l) => \A i \in lease[l].items : item[i].status # "acknowledged"

CalmInv == MarkerInv /\ OneThread /\ PlacedInv /\ NoLeftover /\ Unmarked

\* Only an acknowledgement makes an item acknowledged, and only the marker of a lease
\* that lists it can undo that.
LEMMA AcknowledgedStep ==
    ASSUME IInv, Next, NEW i \in Positions
    PROVE  /\ item[i].status = "acknowledged" /\ item'[i].status # "acknowledged"
                => \E l \in Leases : RespondItems(l) /\ i \in lease[l].items
           /\ item[i].status # "acknowledged" /\ item'[i].status = "acknowledged"
                => \E l \in Leases, eligible \in SUBSET Positions : Acknowledge(l, eligible)
<1>0. ItemType /\ QueueInv /\ ClockType /\ item[i] \in ItemRow
  BY DEF IInv, TypeOK, ItemType
<1>. DEFINE Same == item'[i].status = "acknowledged" <=> item[i].status = "acknowledged"
<1>1. ASSUME NEW ls, item' = Requeue(ls)
      PROVE  Same
  BY <1>0, <1>1, RequeueEffect DEF Requeued
<1>2. ASSUME NEW e \in Episodes, Acquire(e) \/ Launch(e)
      PROVE  Same
  BY <1>1, <1>2 DEF Acquire, Launch, Abandon
<1>3. ASSUME NEW outcome, EndEpisode(outcome)
      PROVE  Same
  BY <1>1, <1>3 DEF EndEpisode
<1>4. ASSUME NEW e \in Episodes, NEW cap \in Cursors, TakeLease(e, cap)
      PROVE  Same
  <2>1. PICK gone \in SUBSET Leases, taken \in SUBSET Positions : Takes(cap, gone, taken)
    BY <1>4, TakeLeaseEffect
  <2>2. CASE i \in taken
    <3>1. item'[i].status = "leased"
      BY <1>0, <2>1, <2>2, RowUpdates DEF Takes, ItemStatus
    <3>2. item[i].status # "acknowledged"
      BY <1>0, <2>1, <2>2, RequeueEffect DEF Takes, Requeued
    <3>. QED  BY <3>1, <3>2
  <2>3. CASE i \notin taken
    BY <1>0, <2>1, <2>3, RequeueEffect DEF Takes, Requeued
  <2>. QED  BY <2>2, <2>3
<1>5. ASSUME NEW e \in Episodes, NEW visible \in SUBSET Positions, Restrict(e, visible)
      PROVE  Same
  <2>1. \/ item'[i] = item[i]
        \/ item[i].status = "leased" /\ item'[i] = [item[i] EXCEPT !.status = "queued"]
    BY <1>5 DEF Restrict, OmittedReturns
  <2>2. [item[i] EXCEPT !.status = "queued"].status = "queued"
    BY <1>0, RowUpdates DEF ItemStatus
  <2>. QED  BY <2>1, <2>2
<1>6. ASSUME NEW l \in Leases, RespondItems(l), i \notin lease[l].items
      PROVE  Same
  BY <1>6 DEF RespondItems
<1>7. ASSUME NEW l \in Leases, RespondItems(l), i \in lease[l].items
      PROVE  item'[i].status = "responded"
  <2>1. item'[i] = [item[i] EXCEPT !.status = "responded"]
    BY <1>7 DEF RespondItems
  <2>. QED  BY <1>0, <2>1, RowUpdates DEF ItemStatus
<1>8. ASSUME NEW l \in Leases, NEW eligible \in SUBSET Positions, Acknowledge(l, eligible)
      PROVE  item[i].status = "acknowledged" => item'[i].status = "acknowledged"
  <2>1. item'[i] = IF i \in eligible THEN [item[i] EXCEPT !.status = "acknowledged"]
                   ELSE IF i \in lease[l].items /\ RemainderReturns(i)
                   THEN [item[i] EXCEPT !.status = "queued"] ELSE item[i]
    BY <1>8 DEF Acknowledge
  <2>2. [item[i] EXCEPT !.status = "acknowledged"].status = "acknowledged"
    BY <1>0, RowUpdates DEF ItemStatus
  <2>. QED  BY <2>1, <2>2 DEF RemainderReturns
<1>9. ASSUME NEW cursor \in Cursors, NEW critical \in Criticality, Enqueue(cursor, critical)
      PROVE  Same
  <2>1. CASE i = next
    <3>1. item'[i].status = "queued"
      BY <1>0, <1>9, <2>1 DEF Enqueue, ItemType
    <3>2. item[i].status = "none"
      BY <1>0, <2>1 DEF QueueInv, ClockType
    <3>. QED  BY <3>1, <3>2
  <2>2. CASE i # next
    BY <1>0, <1>9, <2>2 DEF Enqueue, ItemType
  <2>. QED  BY <2>1, <2>2
<1>. QED  BY <1>2, <1>3, <1>4, <1>5, <1>6, <1>7, <1>8, <1>9, ItemWriters

\* While the provider neither waits nor answers, there is no thread, marker or placed lease.
Still ==
    /\ posts = {} /\ answers = {}
    /\ \A e \in Episodes : build[e].pc = "none"
    /\ \A l \in Leases : lease[l].status # "placed"
LEMMA StillBetween ==
    ASSUME CalmInv, harness.pc \notin {"asking", "thinking", "posting"}
    PROVE  Still
  BY DEF CalmInv, MarkerInv, OneThread, PlacedInv, Still
LEMMA StillIsCalm ==
    ASSUME Still', NoLeftover'
    PROVE  CalmInv'
  BY DEF CalmInv, MarkerInv, OneThread, PlacedInv, Unmarked, Markable, Working, Still

\* What the server's thread finds: it is alone, and the provider waits for it.
LEMMA ThreadIsAlone ==
    ASSUME CalmInv, NEW e \in Episodes, build[e].pc # "none"
    PROVE  /\ harness.pc = "asking" /\ harness.episode = e
           /\ posts = {} /\ answers = {}
           /\ \A f \in Episodes \ {e} : build[f].pc = "none"
           /\ \A l \in Leases : lease[l].status # "placed"
           /\ \A l \in Leases : lease[l].status = "leased" /\ lease[l].episode = e
                                => Working(e, l) /\ build[e].was = "leased"
  BY DEF CalmInv, MarkerInv, OneThread, PlacedInv, NoLeftover

\* No lease becomes leased or placed, and none changes hands.
LeasesQuiet ==
    \A l \in Leases :
        \/ lease'[l].status \notin {"leased", "placed"}
        \/ /\ lease'[l].status = lease[l].status
           /\ lease'[l].episode \in {lease[l].episode, NoEpisode}
LEMMA AbandonQuiet ==
    ASSUME LeaseType, NEW ls,
           lease' = Abandoned(ls) \/ \E e : lease' = Older(e, Abandoned(ls))
    PROVE  LeasesQuiet
<1>1. \A l \in Leases :
        /\ Abandoned(ls)[l] \in LeaseRow
        /\ l \in ls => Abandoned(ls)[l].status = "abandoned"
        /\ l \notin ls => Abandoned(ls)[l] = lease[l]
  BY AbandonedEffect
<1>2. \A r \in LeaseRow : /\ [r EXCEPT !.episode = NoEpisode].status = r.status
                          /\ [r EXCEPT !.episode = NoEpisode].episode = NoEpisode
  BY DEF LeaseRow
<1>3. ASSUME NEW e, lease' = Older(e, Abandoned(ls)), NEW l \in Leases
      PROVE  /\ lease'[l].status = Abandoned(ls)[l].status
             /\ lease'[l].episode \in {Abandoned(ls)[l].episode, NoEpisode}
  <2>1. lease'[l] = IF Abandoned(ls)[l].episode = e
                    THEN [Abandoned(ls)[l] EXCEPT !.episode = NoEpisode]
                    ELSE Abandoned(ls)[l]
    BY <1>3 DEF Older
  <2>. QED  BY <1>1, <1>2, <2>1
<1>. QED  BY <1>1, <1>3 DEF LeasesQuiet

\* An episode that has just begun has no lease of an earlier use of its id.
LEMMA OlderHasNone ==
    ASSUME NEW ls \in [Leases -> LeaseRow], NEW e \in Episodes
    PROVE  \A l \in Leases : Older(e, ls)[l].episode # e
<1>1. \A r \in LeaseRow : [r EXCEPT !.episode = NoEpisode].episode = NoEpisode
  BY DEF LeaseRow
<1>. QED  BY <1>1, NullAssumption DEF Older

\* The threads' steps that take no lease.
LEMMA CalmThread ==
    ASSUME IInv, CalmInv, NEW e \in Episodes, build[e].pc # "none",
           LeasesQuiet, UNCHANGED <<posts, answers>>,
           \/ Refuse(e)
           \/ build[e].pc = "authorize" /\ Continue(e, Authorized)
    PROVE  CalmInv'
<1>0. HarnessType /\ build \in [Episodes -> ThreadRow]
  BY DEF IInv, TypeOK, BuildType
<1>1. /\ harness.pc = "asking" /\ harness.episode = e
      /\ posts = {} /\ answers = {}
      /\ \A f \in Episodes \ {e} : build[f].pc = "none"
      /\ \A l \in Leases : lease[l].status # "placed"
      /\ \A l \in Leases : lease[l].status = "leased" /\ lease[l].episode = e
                           => Working(e, l)
  BY ThreadIsAlone
<1>2. posts' = {} /\ answers' = {} /\ \A l \in Leases : lease'[l].status # "placed"
  BY <1>1 DEF LeasesQuiet
<1>3. CASE Refuse(e)
  <2>1. harness'.pc = "leaving"
    BY <1>0, <1>1, <1>3 DEF Refuse, HarnessType
  <2>2. \A f \in Episodes : build'[f].pc = "none"
    BY <1>0, <1>1, <1>3 DEF Refuse, NoBuild
  <2>3. Still' /\ NoLeftover'
    BY <1>2, <2>1, <2>2 DEF Still, NoLeftover
  <2>. QED  BY <2>3, StillIsCalm
<1>4. CASE build[e].pc = "authorize" /\ Continue(e, Authorized)
  <2>1. harness' = harness /\ build' = [build EXCEPT ![e] = Authorized]
    BY <1>4 DEF Continue
  <2>2. /\ build'[e].pc = "lease" /\ \A f \in Episodes \ {e} : build'[f].pc = "none"
    BY <1>0, <1>1, <2>1 DEF Authorized, NoBuild
  <2>3. MarkerInv' /\ OneThread' /\ PlacedInv'
    BY <1>1, <1>2, <2>1, <2>2 DEF MarkerInv, OneThread, PlacedInv
  <2>4. \A l \in Leases : ~ (lease'[l].status = "leased" /\ lease'[l].episode = e)
    <3>1. \A l \in Leases : ~ (lease[l].status = "leased" /\ lease[l].episode = e)
      BY <1>1, <1>4 DEF Working
    <3>. QED  BY <3>1, NullAssumption DEF LeasesQuiet
  <2>5. NoLeftover'
    BY <1>1, <2>1, <2>4 DEF NoLeftover
  <2>6. Unmarked'
    BY <1>2, <2>2 DEF Unmarked, Markable, Working
  <2>. QED  BY <2>3, <2>5, <2>6 DEF CalmInv
<1>. QED  BY <1>3, <1>4

LEMMA CalmTakeLease ==
    ASSUME IInv, CalmInv, NEW e \in Episodes, NEW cap \in Cursors, TakeLease(e, cap)
    PROVE  CalmInv'
<1>0. /\ ItemType /\ LeaseType /\ build \in [Episodes -> ThreadRow]
      /\ posts' = posts /\ answers' = answers /\ build[e].pc = "lease"
  BY DEF IInv, TypeOK, BuildType, TakeLease
<1>1. /\ harness.pc = "asking" /\ harness.episode = e
      /\ posts = {} /\ answers = {}
      /\ \A f \in Episodes \ {e} : build[f].pc = "none"
      /\ \A l \in Leases : lease[l].status # "placed"
      /\ \A l \in Leases : ~ (lease[l].status = "leased" /\ lease[l].episode = e)
  BY <1>0, ThreadIsAlone DEF Working
<1>2. harness' = harness
  BY DEF TakeLease, Continue
<1>3. PICK gone \in SUBSET Leases, taken \in SUBSET Positions, l \in Leases :
             /\ Takes(cap, gone, taken)
             /\ \/ HandsOutAgain(e, cap, gone, l) /\ taken = {}
                \/ HandsOutNew(e, gone, taken, l)
  BY TakeLeaseEffect
<1>4. /\ Abandoned(gone) \in [Leases -> LeaseRow]
      /\ \A k \in Leases : Abandoned(gone)[k].status = "abandoned"
                           \/ Abandoned(gone)[k] = lease[k]
  BY <1>0, AbandonedEffect
<1>5. /\ build'[e].pc = "restrict" /\ build'[e].lease = l
      /\ \A f \in Episodes \ {e} : build'[f].pc = "none"
  <2>1. CASE HandsOutAgain(e, cap, gone, l)
    BY <1>0, <1>1, <2>1 DEF HandsOutAgain, NoBuild
  <2>2. CASE HandsOutNew(e, gone, taken, l)
    BY <1>0, <1>1, <2>2 DEF HandsOutNew, NoBuild
  <2>. QED  BY <1>3, <2>1, <2>2
<1>6. CASE HandsOutAgain(e, cap, gone, l)
  <2>1. lease' = Abandoned(gone) /\ lease'[l].status # "leased"
    <3>1. lease[l].status # "leased"
      BY <1>1, <1>6 DEF HandsOutAgain
    <3>. QED  BY <1>4, <1>6, <3>1 DEF HandsOutAgain
  <2>2. \A k \in Leases : /\ lease'[k].status # "placed"
                          /\ ~ (lease'[k].status = "leased" /\ lease'[k].episode = e)
    BY <1>1, <1>4, <2>1
  <2>3. MarkerInv' /\ OneThread' /\ PlacedInv'
    BY <1>0, <1>1, <1>2, <1>5, <2>2 DEF MarkerInv, OneThread, PlacedInv
  <2>4. NoLeftover'
    BY <1>1, <1>2, <2>2 DEF NoLeftover
  <2>5. Unmarked'
    BY <1>0, <1>1, <1>5, <2>1, <2>2 DEF Unmarked, Markable, Working
  <2>. QED  BY <2>3, <2>4, <2>5 DEF CalmInv
<1>7. CASE HandsOutNew(e, gone, taken, l)
  <2>1. /\ lease'[l] = [status |-> "leased", episode |-> e, items |-> taken, lapsed |-> FALSE]
        /\ \A k \in Leases \ {l} : lease'[k] = Abandoned(gone)[k]
    BY <1>4, <1>7 DEF HandsOutNew
  <2>2. \A k \in Leases : /\ lease'[k].status # "placed"
                          /\ lease'[k].status = "leased" /\ lease'[k].episode = e => k = l
    BY <1>1, <1>4, <2>1
  <2>3. MarkerInv' /\ OneThread' /\ PlacedInv'
    BY <1>0, <1>1, <1>2, <1>5, <2>2 DEF MarkerInv, OneThread, PlacedInv
  <2>4. build'[e].was = "leased"
    BY <1>0, <1>7 DEF HandsOutNew, NoBuild
  <2>5. NoLeftover'
    BY <1>1, <1>2, <1>5, <2>2, <2>4 DEF NoLeftover, Working
  <2>6. \A i \in taken : item'[i].status = "leased"
    BY <1>0, <1>3, RowUpdates DEF Takes, ItemStatus, ItemType
  <2>7. Unmarked'
    BY <1>0, <1>1, <1>5, <2>1, <2>2, <2>6 DEF Unmarked, Markable, Working
  <2>. QED  BY <2>3, <2>5, <2>7 DEF CalmInv
<1>. QED  BY <1>3, <1>6, <1>7

LEMMA CalmRestrict ==
    ASSUME IInv, CalmInv, NEW e \in Episodes, NEW visible \in SUBSET Positions,
           Restrict(e, visible)
    PROVE  CalmInv'
<1>. DEFINE l == build[e].lease
<1>0. /\ IInv /\ LeaseType /\ build \in [Episodes -> ThreadRow] /\ l \in Leases
      /\ posts' = posts /\ answers' = answers /\ build[e].pc = "restrict"
      /\ lease[l] \in LeaseRow
  BY DEF IInv, TypeOK, BuildType, LeaseType, Restrict, ThreadInv, ThreadKnows
<1>1. /\ harness.pc = "asking" /\ harness.episode = e
      /\ posts = {} /\ answers = {}
      /\ \A f \in Episodes \ {e} : build[f].pc = "none"
      /\ \A k \in Leases : lease[k].status # "placed"
      /\ \A k \in Leases : lease[k].status = "leased" /\ lease[k].episode = e
                           => k = l /\ build[e].was = "leased"
  BY <1>0, ThreadIsAlone DEF Working
<1>2. CASE Refuse(e) /\ UNCHANGED lease
  <2>1. LeasesQuiet
    BY <1>2 DEF LeasesQuiet
  <2>. QED  BY <1>0, <1>2, <2>1, CalmThread
<1>3. CASE /\ visible \subseteq lease[l].items
           /\ lease' = [lease EXCEPT ![l] = [@ EXCEPT !.items = visible]]
           /\ build' = [build EXCEPT ![e] = [build[e] EXCEPT !.pc = "place", !.items = visible]]
           /\ harness' = harness
           /\ \A i \in Positions : item'[i] = item[i] \/ item'[i] = [item[i] EXCEPT !.status = "queued"]
  <2>1. /\ build'[e].pc = "place" /\ build'[e].lease = l /\ build'[e].was = build[e].was
        /\ \A f \in Episodes \ {e} : build'[f].pc = "none"
    BY <1>0, <1>1, <1>3 DEF ThreadRow
  <2>2. /\ lease'[l].items = visible /\ lease'[l].status = lease[l].status
        /\ lease'[l].episode = lease[l].episode
        /\ \A k \in Leases \ {l} : lease'[k] = lease[k]
    BY <1>0, <1>3 DEF LeaseType, LeaseRow
  <2>3. MarkerInv' /\ OneThread' /\ PlacedInv'
    BY <1>0, <1>1, <1>3, <2>1, <2>2 DEF MarkerInv, OneThread, PlacedInv
  <2>4. NoLeftover'
    BY <1>0, <1>1, <1>3, <2>1, <2>2 DEF NoLeftover, Working
  <2>5. Unmarked'
    <3>1. ASSUME NEW k \in Leases, Markable(k)'
          PROVE  k = l /\ lease[l].status = "leased"
      BY <1>0, <1>1, <2>1, <2>2, <3>1 DEF Markable, Working
    <3>2. ASSUME lease[l].status = "leased", NEW i \in visible
          PROVE  item'[i].status # "acknowledged"
      <4>1. Markable(l) /\ i \in lease[l].items
        BY <1>0, <1>3, <3>2 DEF Markable, Working
      <4>2. item[i].status # "acknowledged" /\ item[i] \in ItemRow
        BY <1>0, <4>1 DEF CalmInv, Unmarked, IInv, TypeOK, ItemType
      <4>3. [item[i] EXCEPT !.status = "queued"].status = "queued"
        BY <4>2, RowUpdates DEF ItemStatus
      <4>. QED  BY <1>3, <4>2, <4>3
    <3>. QED  BY <2>2, <3>1, <3>2 DEF Unmarked
  <2>. QED  BY <2>3, <2>4, <2>5 DEF CalmInv
<1>. QED
  <2>1. \A i \in Positions : \/ Refuse(e) /\ UNCHANGED lease
                             \/ item'[i] = item[i] \/ item'[i] = [item[i] EXCEPT !.status = "queued"]
    BY DEF Restrict
  <2>. QED  BY <1>2, <1>3, <2>1 DEF Restrict, Leading, Detach, Continue

LEMMA CalmPlace ==
    ASSUME IInv, CalmInv, NEW e \in Episodes, Place(e)
    PROVE  CalmInv'
<1>. DEFINE l == build[e].lease
<1>0. /\ LeaseType /\ HarnessType /\ build \in [Episodes -> ThreadRow] /\ l \in Leases
      /\ posts' = posts /\ answers' = answers /\ build[e].pc = "place" /\ item' = item
      /\ lease[l] \in LeaseRow
  BY DEF IInv, TypeOK, BuildType, LeaseType, Place, ThreadInv, ThreadKnows, queueVars
<1>1. /\ harness.pc = "asking" /\ harness.episode = e
      /\ posts = {} /\ answers = {}
      /\ \A f \in Episodes \ {e} : build[f].pc = "none"
      /\ \A k \in Leases : lease[k].status # "placed"
      /\ \A k \in Leases : lease[k].status = "leased" /\ lease[k].episode = e
                           => k = l /\ build[e].was = "leased"
  BY <1>0, ThreadIsAlone DEF Working
<1>2. CASE Refuse(e) /\ UNCHANGED lease
  <2>1. LeasesQuiet
    BY <1>2 DEF LeasesQuiet
  <2>. QED  BY <1>0, <1>2, <2>1, CalmThread
<1>3. CASE /\ build' = [build EXCEPT ![e] = NoBuild]
           /\ harness' = [harness EXCEPT !.pc = "thinking", !.lease = l]
           /\ \/ /\ build[e].was = "leased" /\ lease[l].status = "leased"
                 /\ lease' = [lease EXCEPT ![l] = [@ EXCEPT !.status = "placed"]]
              \/ build[e].was # "leased" /\ lease' = lease
  <2>1. \A f \in Episodes : build'[f].pc = "none"
    BY <1>0, <1>1, <1>3 DEF NoBuild
  <2>2. harness'.pc = "thinking" /\ harness'.lease = l /\ harness'.episode = e
    BY <1>0, <1>1, <1>3 DEF HarnessType
  <2>3. /\ \A k \in Leases \ {l} : lease'[k] = lease[k]
        /\ lease'[l].items = lease[l].items
        /\ \/ lease'[l].status = "placed" /\ lease[l].status = "leased"
           \/ lease'[l] = lease[l] /\ build[e].was # "leased"
    <3>1. /\ [lease[l] EXCEPT !.status = "placed"].items = lease[l].items
          /\ [lease[l] EXCEPT !.status = "placed"].status = "placed"
      BY <1>0, RowUpdates DEF LiveStatus
    <3>2. CASE lease' = lease /\ build[e].was # "leased"
      BY <3>2
    <3>3. CASE /\ lease[l].status = "leased"
               /\ lease' = [lease EXCEPT ![l] = [@ EXCEPT !.status = "placed"]]
      <4>1. /\ \A k \in Leases \ {l} : lease'[k] = lease[k]
            /\ lease'[l] = [lease[l] EXCEPT !.status = "placed"]
        BY <1>0, <3>3 DEF LeaseType
      <4>. QED  BY <3>1, <3>3, <4>1
    <3>. QED  BY <1>3, <3>2, <3>3
  <2>4. MarkerInv' /\ OneThread' /\ PlacedInv'
    BY <1>0, <1>1, <2>1, <2>2, <2>3 DEF MarkerInv, OneThread, PlacedInv
  <2>5. NoLeftover'
    BY <1>1, <2>2, <2>3 DEF NoLeftover
  <2>6. Unmarked'
    <3>1. ASSUME NEW k \in Leases, Markable(k)'
          PROVE  k = l /\ Markable(l)
      BY <1>0, <1>1, <2>1, <2>3, <3>1 DEF Markable, Working
    <3>. QED  BY <1>0, <2>3, <3>1 DEF Unmarked, CalmInv
  <2>. QED  BY <2>4, <2>5, <2>6 DEF CalmInv
<1>. QED  BY <1>1, <1>2, <1>3 DEF Place

\* The steps of nobody in the exchange: no lease becomes leased or placed, and nothing
\* is acknowledged.
LEMMA CalmElsewhere ==
    ASSUME IInv, CalmInv, LeaseType', UNCHANGED <<posts, answers, build, harness>>,
           \A l \in Leases : /\ lease'[l].status = lease[l].status
                             /\ lease'[l].episode = lease[l].episode
                             /\ lease'[l].items = lease[l].items,
           \A i \in Positions : item'[i].status = "acknowledged"
                                => item[i].status = "acknowledged"
    PROVE  CalmInv'
<1>1. MarkerInv' /\ OneThread' /\ PlacedInv'
  BY DEF CalmInv, MarkerInv, OneThread, PlacedInv
<1>2. NoLeftover'
  BY DEF CalmInv, NoLeftover, Working
<1>3. Unmarked'
  <2>1. ASSUME NEW l \in Leases, Markable(l)', NEW i \in lease'[l].items
        PROVE  item'[i].status # "acknowledged"
    <3>1. Markable(l)
      BY <2>1 DEF Markable, Working
    <3>2. i \in lease[l].items /\ i \in Positions
      BY <2>1 DEF IInv, TypeOK, LeaseType, LeaseRow
    <3>. QED  BY <3>1, <3>2 DEF CalmInv, Unmarked
  <2>. QED  BY <2>1 DEF Unmarked
<1>. QED  BY <1>1, <1>2, <1>3 DEF CalmInv

LEMMA CalmWorld ==
    ASSUME IInv, CalmInv, Next, Environment, faults = 0, faults' = 0
    PROVE  CalmInv'
<1>0. ItemType /\ LeaseType /\ LeaseType' /\ \A l \in Leases : lease[l] \in LeaseRow
  BY TypeStep DEF IInv, TypeOK, LeaseType
<1>. USE DEF queueVars, serverVars
<1>1. ASSUME UNCHANGED <<item, lease, posts, answers, build, harness>>
      PROVE  CalmInv'
  BY <1>0, <1>1, CalmElsewhere
<1>2. ASSUME NEW cursor \in Cursors, NEW critical \in Criticality, Enqueue(cursor, critical)
      PROVE  CalmInv'
  <2>1. \A i \in Positions : item'[i] = item[i] \/ item'[i].status = "queued"
    BY <1>0, <1>2 DEF Enqueue, ItemType
  <2>2. UNCHANGED <<lease, posts, answers, build, harness>>
    BY <1>2 DEF Enqueue
  <2>. QED  BY <1>0, <2>1, <2>2, CalmElsewhere
<1>3. ASSUME NEW l \in Leases, LeaseLapses(l)
      PROVE  CalmInv'
  <2>1. /\ [lease[l] EXCEPT !.lapsed = TRUE].status = lease[l].status
        /\ [lease[l] EXCEPT !.lapsed = TRUE].episode = lease[l].episode
        /\ [lease[l] EXCEPT !.lapsed = TRUE].items = lease[l].items
    BY <1>0 DEF LeaseRow
  <2>2. \A k \in Leases : \/ lease'[k] = lease[k]
                          \/ k = l /\ lease'[k] = [lease[l] EXCEPT !.lapsed = TRUE]
    BY <1>0, <1>3 DEF LeaseLapses, LeaseType
  <2>3. UNCHANGED <<item, posts, answers, build, harness>>
    BY <1>3 DEF LeaseLapses
  <2>4. \A k \in Leases : /\ lease'[k].status = lease[k].status
                          /\ lease'[k].episode = lease[k].episode
                          /\ lease'[k].items = lease[k].items
    BY <2>1, <2>2
  <2>. QED  BY <1>0, <2>3, <2>4, CalmElsewhere
<1>4. CASE Publish \/ SovereignLapses \/ ReadAuthority
  BY <1>1, <1>4 DEF Publish, SovereignLapses, ReadAuthority
<1>. QED  BY <1>2, <1>3, <1>4 DEF Environment, HarnessDies, ServerDies, BuildFails

\* The response marker reaches the server while the provider waits for it.
LEMMA CalmMarker ==
    ASSUME IInv, CalmInv, NEW l \in Leases, RespondLease(l) \/ RespondItems(l)
    PROVE  CalmInv'
<1>0. LeaseType /\ \A k \in Leases : lease[k] \in LeaseRow
  BY DEF IInv, TypeOK, LeaseType
<1>1. /\ harness.pc = "posting" /\ harness.lease = l
      /\ posts \cup answers \subseteq {l}
      /\ \A e \in Episodes : build[e].pc = "none"
      /\ \A k \in Leases : lease[k].status = "placed" => k = l /\ l \in posts
      /\ \A k \in Leases : ~ (lease[k].status = "leased" /\ lease[k].episode = harness.episode)
  BY <1>0 DEF CalmInv, MarkerInv, OneThread, PlacedInv, NoLeftover, Working, RespondLease,
              RespondItems, IInv, TypeOK, HarnessType
<1>2. UNCHANGED <<build, harness>>
  BY DEF RespondLease, RespondItems
<1>3. CASE RespondLease(l)
  <2>1. /\ item' = item /\ posts' = posts \ {l}
        /\ \/ lease[l].status # "placed" /\ lease' = lease /\ answers' = answers
           \/ /\ lease[l].status = "placed" /\ answers' = answers \cup {l}
              /\ lease' = [lease EXCEPT ![l] = [@ EXCEPT !.status = "responded"]]
    BY <1>3 DEF RespondLease, queueVars
  <2>2. /\ [lease[l] EXCEPT !.status = "responded"].status = "responded"
        /\ [lease[l] EXCEPT !.status = "responded"].items = lease[l].items
    BY <1>0, RowUpdates DEF LiveStatus
  <2>3. /\ \A k \in Leases \ {l} : lease'[k] = lease[k]
        /\ lease'[l].items = lease[l].items
        /\ lease'[l].status \notin {"placed"}
        /\ lease'[l] = lease[l] \/ lease'[l].status = "responded"
    BY <1>0, <2>1, <2>2 DEF LeaseType
  <2>4. MarkerInv' /\ OneThread' /\ PlacedInv'
    BY <1>1, <1>2, <2>1, <2>3 DEF MarkerInv, OneThread, PlacedInv
  <2>5. NoLeftover'
    BY <1>1, <1>2, <2>3 DEF NoLeftover
  <2>6. Unmarked'
    <3>1. ASSUME NEW k \in Leases, Markable(k)'
          PROVE  Markable(k) /\ lease'[k].items = lease[k].items
      BY <1>1, <1>2, <2>1, <2>3, <3>1 DEF Markable, Working
    <3>. QED  BY <2>1, <3>1 DEF CalmInv, Unmarked
  <2>. QED  BY <2>4, <2>5, <2>6 DEF CalmInv
<1>4. CASE RespondItems(l)
  <2>1. /\ lease' = lease /\ posts' = posts /\ answers' = answers \ {l}
        /\ \A i \in Positions : item'[i] = item[i] \/ item'[i] = [item[i] EXCEPT !.status = "responded"]
    BY <1>4 DEF RespondItems
  <2>2. \A i \in Positions : item'[i].status = "acknowledged" => item[i].status = "acknowledged"
    <3>1. \A i \in Positions : [item[i] EXCEPT !.status = "responded"].status = "responded"
      BY RowUpdates DEF IInv, TypeOK, ItemType, ItemStatus
    <3>. QED  BY <2>1, <3>1
  <2>3. MarkerInv' /\ OneThread' /\ PlacedInv' /\ NoLeftover'
    BY <1>1, <1>2, <2>1 DEF MarkerInv, OneThread, PlacedInv, NoLeftover
  <2>4. Unmarked'
    <3>1. ASSUME NEW k \in Leases, Markable(k)'
          PROVE  Markable(k) /\ lease'[k].items = lease[k].items /\ lease[k].items \subseteq Positions
      BY <1>0, <1>1, <1>2, <2>1, <3>1 DEF Markable, Working, LeaseRow
    <3>. QED  BY <2>2, <3>1 DEF CalmInv, Unmarked
  <2>. QED  BY <2>3, <2>4 DEF CalmInv
<1>. QED  BY <1>3, <1>4

\* The provider's steps and the harness manager's.
LEMMA CalmHarness ==
    ASSUME IInv, CalmInv, Next, Harness, faults = 0, faults' = 0
    PROVE  CalmInv'
<1>0. /\ HarnessType /\ LeaseType /\ build \in [Episodes -> ThreadRow]
      /\ \A k \in Leases : lease[k] \in LeaseRow
  BY DEF IInv, TypeOK, LeaseType, BuildType
<1>. USE DEF serverVars, queueVars
<1>1. CASE Ask
  <2>1. Still /\ harness.episode \in Episodes
    BY <1>0, <1>1, StillBetween DEF Ask, HarnessType
  <2>2. /\ harness' = [harness EXCEPT !.pc = "asking"]
        /\ build' = [build EXCEPT ![harness.episode] = [@ EXCEPT !.pc = "authorize"]]
        /\ UNCHANGED <<item, lease, posts, answers>>
    BY <1>1 DEF Ask, Becomes
  <2>3. /\ harness'.pc = "asking" /\ harness'.episode = harness.episode
        /\ harness'.lease = harness.lease
        /\ build'[harness.episode].pc = "authorize"
        /\ \A e \in Episodes \ {harness.episode} : build'[e] = build[e]
    BY <1>0, <2>1, <2>2 DEF HarnessType, ThreadRow
  <2>4. MarkerInv' /\ OneThread' /\ PlacedInv'
    BY <2>1, <2>2, <2>3 DEF MarkerInv, OneThread, PlacedInv, Still
  <2>5. NoLeftover'
    BY <1>1, <2>1, <2>2, <2>3 DEF CalmInv, NoLeftover, Working, Still, Ask
  <2>6. Unmarked'
    BY <2>1, <2>2, <2>3 DEF Unmarked, Markable, Working, Still
  <2>. QED  BY <2>4, <2>5, <2>6 DEF CalmInv
<1>2. CASE Post
  <2>1. /\ harness.pc = "thinking" /\ harness' = [harness EXCEPT !.pc = "posting"]
        /\ posts' = posts \cup {harness.lease}
        /\ UNCHANGED <<item, lease, build, answers>>
    BY <1>2 DEF Post, Becomes
  <2>2. /\ harness'.pc = "posting" /\ harness'.episode = harness.episode
        /\ harness'.lease = harness.lease
    BY <1>0, <2>1 DEF HarnessType
  <2>3. MarkerInv' /\ OneThread' /\ PlacedInv'
    BY <2>1, <2>2 DEF CalmInv, MarkerInv, OneThread, PlacedInv
  <2>4. NoLeftover'
    BY <2>1, <2>2 DEF CalmInv, NoLeftover, Working
  <2>5. Unmarked'
    BY <2>1 DEF CalmInv, Unmarked, Markable, Working
  <2>. QED  BY <2>3, <2>4, <2>5 DEF CalmInv
<1>3. CASE Posted
  <2>1. /\ harness.pc = "posting" /\ harness.lease \notin posts \cup answers
        /\ harness' = [harness EXCEPT !.pc = "acting"]
        /\ UNCHANGED <<item, lease, build, posts, answers>>
    BY <1>3 DEF Posted, Becomes
  <2>2. harness'.pc = "acting" /\ harness'.episode = harness.episode
    BY <1>0, <2>1 DEF HarnessType
  <2>3. Still'
    BY <2>1 DEF CalmInv, MarkerInv, OneThread, PlacedInv, Still
  <2>4. NoLeftover'
    BY <2>1, <2>2 DEF CalmInv, NoLeftover, Working
  <2>. QED  BY <2>3, <2>4, StillIsCalm
<1>4. CASE GoOn
  <2>1. /\ harness.pc = "acting" /\ harness'.pc \in {"idle", "leaving"}
        /\ harness'.episode = harness.episode
        /\ UNCHANGED <<item, lease, build, posts, answers>>
    BY <1>0, <1>4 DEF GoOn, HarnessType
  <2>2. Still' /\ NoLeftover'
    BY <2>1, StillBetween DEF Still, CalmInv, NoLeftover, Working
  <2>. QED  BY <2>2, StillIsCalm
<1>5. ASSUME NEW ls, lease' = Abandoned(ls) \/ \E e : lease' = Older(e, Abandoned(ls)),
             harness.pc \in {"down", "leaving"}, UNCHANGED <<build, posts, answers>>
      PROVE  Still'
  <2>1. LeasesQuiet
    BY <1>0, <1>5, AbandonQuiet
  <2>. QED  BY <1>5, <2>1, StillBetween DEF Still, LeasesQuiet
<1>6. ASSUME NEW e \in Episodes, NEW ls, Begins(e), lease' = Older(e, Abandoned(ls))
      PROVE  NoLeftover'
  <2>1. Abandoned(ls) \in [Leases -> LeaseRow]
    BY <1>0, AbandonedEffect
  <2>2. harness'.episode = e /\ \A l \in Leases : lease'[l].episode # e
    BY <1>6, <2>1, OlderHasNone DEF Begins
  <2>. QED  BY <2>2 DEF NoLeftover
<1>7. ASSUME NEW e \in Episodes, Launch(e)
      PROVE  CalmInv'
  <2>1. PICK ls : lease' = Older(e, Abandoned(ls))
    BY <1>7 DEF Launch
  <2>2. /\ harness.pc = "down" /\ Begins(e) /\ UNCHANGED <<build, posts, answers>>
    BY <1>7 DEF Launch
  <2>. QED  BY <1>5, <1>6, <2>1, <2>2, StillIsCalm
<1>8. ASSUME NEW outcome, EndEpisode(outcome)
      PROVE  CalmInv'
  <2>1. PICK ls : \/ harness' = Down /\ lease' = Abandoned(ls)
                  \/ \E f \in Episodes : Begins(f) /\ lease' = Older(f, Abandoned(ls))
    BY <1>8 DEF EndEpisode
  <2>2. /\ harness.pc = "leaving" /\ UNCHANGED <<build, posts, answers>>
    BY <1>8 DEF EndEpisode
  <2>3. Still'
    BY <1>5, <2>1, <2>2
  <2>4. NoLeftover'
    <3>1. CASE harness' = Down
      BY <3>1 DEF Down, NoLeftover
    <3>. QED  BY <1>6, <2>1, <3>1
  <2>. QED  BY <2>3, <2>4, StillIsCalm
<1>. QED  BY <1>1, <1>2, <1>3, <1>4, <1>7, <1>8 DEF Harness

\* The provider acknowledges between requests, when no marker is under way.
LEMMA CalmAcknowledge ==
    ASSUME IInv, CalmInv, NEW l \in Leases, NEW eligible \in SUBSET Positions,
           Acknowledge(l, eligible)
    PROVE  CalmInv'
<1>0. LeaseType /\ \A k \in Leases : lease[k] \in LeaseRow
  BY DEF IInv, TypeOK, LeaseType
<1>1. /\ harness.pc = "acting" /\ UNCHANGED <<posts, answers, build, harness>>
      /\ lease' = [lease EXCEPT ![l] = Ended(l, "acknowledged")]
  BY DEF Acknowledge, serverVars
<1>2. /\ lease'[l].status = "acknowledged" /\ \A k \in Leases \ {l} : lease'[k] = lease[k]
  BY <1>0, <1>1, EndedEffect DEF LeaseType
<1>3. Still'
  BY <1>1, <1>2, StillBetween DEF Still
<1>4. NoLeftover'
  BY <1>1, <1>2 DEF CalmInv, NoLeftover, Working
<1>. QED  BY <1>3, <1>4, StillIsCalm

\* Without a fault, every step keeps the exchange calm.
LEMMA CalmStep ==
    ASSUME IInv, CalmInv, [Next]_vars, faults = 0, faults' = 0
    PROVE  CalmInv'
<1>1. ASSUME NEW e \in Episodes, Server(e)
      PROVE  CalmInv'
  <2>1. CASE Renew(e)
    <3>1. LeasesQuiet
      BY <2>1 DEF Renew, LeasesQuiet
    <3>. QED  BY <2>1, <3>1, CalmThread DEF Renew
  <2>2. CASE Acquire(e)
    <3>1. LeaseType
      BY DEF IInv, TypeOK
    <3>2. LeasesQuiet
      <4>1. CASE UNCHANGED lease
        BY <4>1 DEF LeasesQuiet
      <4>2. CASE \E ls : Abandon(ls)
        BY <3>1, <4>2, AbandonQuiet DEF Abandon
      <4>. QED  BY <2>2, <4>1, <4>2 DEF Acquire
    <3>. QED  BY <2>2, <3>2, CalmThread DEF Acquire
  <2>. QED  BY <1>1, <2>1, <2>2, CalmTakeLease, CalmRestrict, CalmPlace DEF Server
<1>2. CASE Next
  BY <1>1, <1>2, CalmHarness, CalmWorld, CalmMarker, CalmAcknowledge DEF Next
<1>3. CASE UNCHANGED vars
  <2>. USE <1>3 DEF vars, queueVars, serverVars, seenVars
  <2>1. MarkerInv' /\ OneThread' /\ PlacedInv'
    BY DEF CalmInv, MarkerInv, OneThread, PlacedInv
  <2>2. NoLeftover' /\ Unmarked'
    BY DEF CalmInv, NoLeftover, Unmarked, Markable, Working
  <2>. QED  BY <2>1, <2>2 DEF CalmInv
<1>. QED  BY <1>2, <1>3

\* The behaviours in which no process is lost and no request is refused or times out.
Faultless == [](faults = 0)

LEMMA CalmInvariant == Spec /\ Faultless => []CalmInv
<1>1. Init => CalmInv
  <2>1. Init => Still /\ NoLeftover
    BY DEF Init, Still, NoLeftover, NoBuild, UnusedLease, Down
  <2>. QED  BY <2>1 DEF CalmInv, MarkerInv, OneThread, PlacedInv, Unmarked, Markable,
                        Working, Still
<1>2. IInv /\ CalmInv /\ [Next]_vars /\ faults = 0 /\ (faults = 0)' => CalmInv'
  BY CalmStep
<1>. QED  BY <1>1, <1>2, Invariant, PTL DEF Spec, Faultless

Final == \A i \in Positions : item[i].status = "acknowledged"
                              => item'[i].status = "acknowledged"

LEMMA FinalStep ==
    ASSUME IInv, CalmInv, [Next]_vars
    PROVE  Final
<1>1. ASSUME Next, NEW i \in Positions, item[i].status = "acknowledged"
      PROVE  item'[i].status = "acknowledged"
  <2>1. ASSUME NEW l \in Leases, RespondItems(l), i \in lease[l].items
        PROVE  FALSE
    BY <1>1, <2>1 DEF RespondItems, CalmInv, Unmarked, Markable
  <2>. QED  BY <1>1, <2>1, AcknowledgedStep
<1>2. CASE UNCHANGED vars
  BY <1>2 DEF vars, queueVars, Final
<1>. QED  BY <1>1, <1>2 DEF Final

\* In a behaviour without faults an acknowledgement is final: the response marker, which
\* would overwrite it, is waited for before the provider acts, and every lease a marker
\* can still reach lists nothing acknowledged.
THEOREM MarkerKeepsAcknowledgement == Spec /\ Faultless => AcknowledgementFinal
<1>1. IInv /\ CalmInv /\ [Next]_vars => [Final]_vars
  BY FinalStep
<1>2. [][Final]_vars => AcknowledgementFinal
  BY DEF AcknowledgementFinal, Final
<1>. QED  BY <1>1, <1>2, Invariant, CalmInvariant, PTL DEF Spec

\* Then the acknowledged cursor stands for what it says: all up to it is acknowledged.
THEOREM CursorIsTruthful == Spec /\ Faultless => []CursorTruthful
<1>1. Init => CursorTruthful
  BY DEF Init, CursorTruthful
<1>2. IInv /\ CalmInv /\ CursorTruthful /\ [Next]_vars => CursorTruthful'
  <2>. SUFFICES ASSUME IInv, CalmInv, CursorTruthful, [Next]_vars
                PROVE  CursorTruthful'
    OBVIOUS
  <2>1. acked \in 0 .. MaxItems /\ Final
    BY FinalStep DEF IInv, TypeOK, ClockType
  <2>2. \A i \in 1 .. acked : item'[i].status = "acknowledged"
    <3>1. \A i \in 1 .. acked : i \in Positions
      BY <2>1, BoundAssumption DEF Positions
    <3>. QED  BY <2>1, <3>1 DEF CursorTruthful, Final
  <2>3. CASE acked' = acked
    BY <2>2, <2>3 DEF CursorTruthful
  <2>4. ASSUME NEW l \in Leases, NEW eligible \in SUBSET Positions, Acknowledge(l, eligible)
        PROVE  CursorTruthful'
    <3>. DEFINE done == {i \in Positions : item'[i].status = "acknowledged"}
    <3>1. acked' = Contiguous(done)
      BY <2>4 DEF Acknowledge
    <3>2. acked' \in acked .. MaxItems /\ \A i \in acked + 1 .. acked' : i \in done
      BY <2>1, <3>1, ContiguousEffect
    <3>3. \A i \in 1 .. acked' : i \in 1 .. acked \/ i \in acked + 1 .. acked'
      BY <2>1, <3>2, BoundAssumption
    <3>. QED  BY <2>2, <3>2, <3>3 DEF CursorTruthful
  <2>5. acked' = acked \/ \E l \in Leases, eligible \in SUBSET Positions :
                            Acknowledge(l, eligible)
    <3>. USE DEF vars, queueVars
    <3>1. CASE Harness
      BY <3>1 DEF Harness, Ask, Post, Posted, GoOn, Launch, EndEpisode
    <3>2. CASE Environment
      BY <3>2 DEF Environment, Enqueue, Publish, SovereignLapses, ReadAuthority,
         HarnessDies, ServerDies, LeaseLapses, BuildFails
    <3>3. ASSUME NEW e \in Episodes, Server(e)
          PROVE  acked' = acked
      BY <3>3 DEF Server, Renew, Acquire, TakeLease, Restrict, Place
    <3>. QED  BY <3>1, <3>2, <3>3 DEF Next, RespondLease, RespondItems
  <2>. QED  BY <2>3, <2>4, <2>5
<1>. QED  BY <1>1, <1>2, Invariant, CalmInvariant, PTL DEF Spec

=============================================================================
