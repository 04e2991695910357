----------------------- MODULE ObservationFeedProofs -----------------------
(***************************************************************************)
(* Proofs about ObservationFeed: for a ring and pages of any size, any     *)
(* number of events, changes, kills and failed calls, each event is        *)
(* published once and in order or announced as lost, a publication that    *)
(* claims a matching snapshot has one, and what left the stage is          *)
(* captured.                                                               *)
(*                                                                         *)
(* None of these is inductive.  They take that a publication once begun    *)
(* stands still (its frozen package is what the stage holds), that the     *)
(* stage holds exactly the events between the committed boundary and its   *)
(* cursor, or a gap, and that an entry of the journal is either that of    *)
(* the frozen package or behind the committed boundary.                    *)
(***************************************************************************)
EXTENDS ObservationFeed, TLAPS

-----------------------------------------------------------------------------
(* The inductive invariant.                                                *)

Begun == stage.manifest # Nothing

(* Events behind the committed boundary have left the stage, and the       *)
(* collector's cursor is the stage's.                                      *)
StageInv ==
  /\ stage.committed <= stage.after
  /\ \A e \in stage.events : stage.committed < e /\ e <= stage.after
  /\ collector.after = stage.after

(* The collector reads while no publication is begun, and publishes while  *)
(* one is.                                                                 *)
PlaceInv ==
  /\ collector.at \in Reading => ~Begun
  /\ collector.at \in Publishing => Begun

(* A page that waits to be staged begins behind the stage's cursor, and    *)
(* misses nothing it does not admit, unless the collector has seen nothing. *)
PageInv ==
  collector.at = "stage" =>
    LET page == collector.page
    IN /\ page \in Pages
       /\ page.after = stage.after /\ stage.after <= page.next /\ page.next <= Newest
       /\ \A e \in page.events : stage.after < e /\ e <= page.next
       /\ page.events # {} => Min(page.events) \in Nat
       /\ ~page.gap =>
            \A s \in stage.after + 1 .. page.next :
              \/ s \in page.events
              \/ stage.after = 0 /\ \A e \in page.events : s < e

(* The cursor in memory is not behind the head's.                          *)
CursorInv ==
  /\ collector.cursor = 0 \/ collector.cursor >= head.cursor
  /\ collector.at # "idle" => collector.cursor >= head.cursor
  /\ collector.at \in { "events", "reconciled", "head" } => collector.cursor = sidecar.cursor

(* A frozen package holds what the stage holds.                            *)
Frozen ==
  /\ sidecar \in Packages
  /\ sidecar.through = stage.after /\ sidecar.events = stage.events
  /\ stage.gaps # << >> => sidecar.gap # Nothing
  /\ sidecar.stable => \A e \in sidecar.events : produced[e] <= sidecar.bundle

FrozenInv ==
  /\ collector.at = "manifest" =>
       Frozen /\ sidecar.cursor = collector.cursor /\ sidecar.cursor > head.cursor
  /\ Begun =>
       /\ Frozen /\ head.cursor <= sidecar.cursor
       /\ stage.manifest = [cursor |-> sidecar.cursor, through |-> sidecar.through]

(* A publication is of the frozen package, or is over.                     *)
Over(package) ==
  /\ package.cursor \in captured /\ package.cursor <= head.cursor
  /\ package.through <= stage.committed
  /\ \A e \in package.events : e <= stage.committed
  /\ Begun => package.cursor < sidecar.cursor

PublishedInv ==
  \A n \in Published :
    Over(journal[n].package) \/ (Begun /\ journal[n].package = sidecar)

(* The head shows a package, and its notices are captured, only when it is *)
(* in the journal, its gap first.                                          *)
HeadInv ==
  /\ collector.at \in { "capture", "acknowledge" } => head.cursor >= sidecar.cursor
  /\ collector.at = "acknowledge" => sidecar.cursor \in captured

GapEntry(n) == journal[n] = [kind |-> "gap", package |-> sidecar]

JournalledInv ==
  /\ collector.at \in { "reconciled", "head" } \/ (Begun /\ head.cursor >= sidecar.cursor) =>
       \E n \in Published : journal[n].package = sidecar
  /\ Begun /\ sidecar.gap # Nothing =>
       /\ collector.at = "events" => \E n \in DOMAIN journal : GapEntry(n)
       /\ \A m \in Published : journal[m].package = sidecar =>
            \E n \in DOMAIN journal : n < m /\ GapEntry(n)

(* What the collector has gone past and not committed is staged, or the    *)
(* stage has a gap, or it is older than all that was ever seen.            *)
StagedInv ==
  \A s \in stage.committed + 1 .. stage.after :
    \/ s \in stage.events
    \/ stage.gaps # << >>
    \/ /\ \A e \in stage.events : s < e
       /\ \A n \in Published : \A e \in Events(n) : s < e

(* No event tells of a world that is not yet.                              *)
ToldInv ==
  /\ \A e \in 1 .. Newest : produced[e] <= world
  /\ collector.at = "freeze" /\ collector.stable =>
       \A e \in stage.events : produced[e] <= collector.bundle

ReadInv == StageInv /\ PlaceInv /\ PageInv /\ CursorInv /\ ToldInv
PublishInv == FrozenInv /\ PublishedInv /\ HeadInv /\ JournalledInv
LossInv == StagedInv /\ LossAnnounced

IInv ==
  /\ TypeOK /\ ReadInv /\ PublishInv /\ LossInv
  /\ PublishedOnceInOrder /\ SnapshotCoversEvents

-----------------------------------------------------------------------------
(* Numbers and pages.                                                      *)

LEMMA MaxOfTwo ==
  ASSUME NEW a \in Nat, NEW b \in Nat
  PROVE  Max({ a, b }) = IF a >= b THEN a ELSE b
<1>1. CASE a >= b
  <2>1. \A y \in { a, b } : a >= y
    BY <1>1
  <2>2. \A x \in { a, b } : (\A y \in { a, b } : x >= y) => x = a
    BY <1>1
  <2> QED BY <1>1, <2>1, <2>2 DEF Max
<1>2. CASE ~(a >= b)
  <2>1. \A y \in { a, b } : b >= y
    BY <1>2
  <2>2. \A x \in { a, b } : (\A y \in { a, b } : x >= y) => x = b
    BY <1>2
  <2> QED BY <1>2, <2>1, <2>2 DEF Max
<1> QED BY <1>1, <1>2

LEMMA MinOfTwo ==
  ASSUME NEW a \in Nat, NEW b \in Nat
  PROVE  Min({ a, b }) = IF a <= b THEN a ELSE b
<1>1. CASE a <= b
  <2>1. \A y \in { a, b } : a <= y
    BY <1>1
  <2>2. \A x \in { a, b } : (\A y \in { a, b } : x <= y) => x = a
    BY <1>1
  <2> QED BY <1>1, <2>1, <2>2 DEF Min
<1>2. CASE ~(a <= b)
  <2>1. \A y \in { a, b } : b <= y
    BY <1>2
  <2>2. \A x \in { a, b } : (\A y \in { a, b } : x <= y) => x = b
    BY <1>2
  <2> QED BY <1>2, <2>1, <2>2 DEF Min
<1> QED BY <1>1, <1>2

LEMMA MinOfInterval ==
  ASSUME NEW a \in Nat, NEW b \in Nat, a <= b
  PROVE  Min(a .. b) \in Nat
<1>1. a \in a .. b /\ \A y \in a .. b : a <= y
  OBVIOUS
<1>2. (CHOOSE x \in a .. b : \A y \in a .. b : x <= y) \in a .. b
  BY <1>1
<1> QED BY <1>2 DEF Min

(* The ring the feed reads, with the event the request itself may append.  *)
LEMMA RingRead ==
  ASSUME TypeOK
  PROVE  /\ FeedEvents \in Seq(Nat) /\ Len(FeedEvents) \in Nat /\ Newest \in Nat
         /\ Newest <= Len(FeedEvents)
         /\ \A e \in 1 .. Newest : FeedEvents[e] = produced[e]
         /\ \A e \in 1 .. Len(FeedEvents) :
              FeedEvents[e] = 0 \/ (e <= Newest /\ FeedEvents[e] = produced[e])
<1>1. produced \in Seq(Nat) /\ Len(produced) \in Nat
  BY DEF TypeOK
<1>2. CASE observed = world
  BY <1>1, <1>2 DEF FeedEvents, Newest
<1>3. CASE observed # world
  <2>1. FeedEvents = Append(produced, 0)
    BY <1>3 DEF FeedEvents
  <2>2. FeedEvents \in Seq(Nat) /\ Len(FeedEvents) = Len(produced) + 1
    BY <1>1, <2>1
  <2>3. \A e \in 1 .. Len(produced) : FeedEvents[e] = produced[e]
    BY <1>1, <2>1
  <2>4. FeedEvents[Len(produced) + 1] = 0
    BY <1>1, <2>1
  <2>5. \A e \in 1 .. Len(FeedEvents) : e = Len(produced) + 1 \/ e \in 1 .. Len(produced)
    BY <1>1, <2>2
  <2> QED BY <1>1, <2>2, <2>3, <2>4, <2>5 DEF Newest
<1> QED BY <1>2, <1>3

LEMMA OldestTyped ==
  ASSUME TypeOK, NEW events \in Seq(Nat)
  PROVE  OldestOf(events) \in Numbers
<1>1. Len(events) \in Nat
  OBVIOUS
<1>2. MaxObservationEvents \in Numbers
  BY FeedBounds DEF Numbers
<1> QED BY <1>1, <1>2 DEF OldestOf, TypeOK, Numbers

(* A page begins behind the cursor it was asked for, and misses nothing it *)
(* does not admit.                                                         *)
LEMMA PageOfFeed ==
  ASSUME TypeOK, NEW after \in Nat, after <= Newest, NEW limit \in Numbers,
         NEW page, page = Feed(after, limit)
  PROVE  /\ page \in Pages
         /\ page.after = after /\ after <= page.next /\ page.next <= Len(FeedEvents)
         /\ \A e \in page.events : after < e /\ e <= page.next
         /\ page.events # {} => Min(page.events) \in Nat
         /\ ~page.gap =>
              \A s \in after + 1 .. page.next :
                \/ s \in page.events
                \/ after = 0 /\ \A e \in page.events : s < e
<1> DEFINE newest == Len(FeedEvents)
           old == OldestOf(FeedEvents)
           first == Max({ after + 1, old })
           last == Min({ newest, first + limit - 1 })
<1>1. newest \in Nat /\ old \in Numbers /\ after <= newest
  BY RingRead, OldestTyped
<1>2. first \in Numbers /\ first >= after + 1 /\ (first = after + 1 \/ first = old)
  BY <1>1, MaxOfTwo DEF Numbers
<1>3. first + limit - 1 \in Nat
  BY <1>2 DEF Numbers
<1> HIDE DEF first
<1>4. last \in Nat /\ last <= newest
  BY <1>1, <1>3, MinOfTwo
<1>5. first <= last => Min(first .. last) \in Nat
  BY <1>2, <1>4, MinOfInterval DEF Numbers
<1> HIDE DEF last
<1>6. /\ page.events = first .. last
      /\ page.next = IF first <= last THEN last ELSE after
      /\ page.more = (newest > last /\ first <= last)
      /\ page.gap = (after # 0 /\ after + 1 < old)
      /\ page.after = after /\ page.revision = world
      /\ page = [events |-> page.events, next |-> page.next, more |-> page.more,
                 gap |-> page.gap, after |-> page.after, revision |-> page.revision]
  BY DEF Feed, first, last
<1> HIDE DEF newest, old
<1>7. page.events \in SUBSET Numbers
  BY <1>2, <1>4, <1>6 DEF Numbers
<1>8. page.next \in Nat /\ after <= page.next /\ page.next <= newest
  BY <1>1, <1>2, <1>4, <1>6 DEF Numbers
<1>9. page \in Pages
  BY <1>6, <1>7, <1>8 DEF Pages, TypeOK
<1>10. \A e \in page.events : after < e /\ e <= page.next
  BY <1>2, <1>4, <1>6 DEF Numbers
<1>11. page.events # {} => Min(page.events) \in Nat
  BY <1>2, <1>4, <1>5, <1>6 DEF Numbers
<1>12. ASSUME ~page.gap, NEW s \in after + 1 .. page.next
       PROVE  s \in page.events \/ (after = 0 /\ \A e \in page.events : s < e)
  <2>1. s \in Nat /\ first <= last /\ page.next = last /\ s <= last
    BY <1>2, <1>4, <1>6, <1>8, <1>12
  <2>2. CASE after = 0
    BY <1>2, <1>4, <1>6, <2>1, <2>2 DEF Numbers
  <2>3. CASE after # 0
    <3>1. old <= after + 1
      <4>1. ~(after # 0 /\ after + 1 < old)
        BY <1>6, <1>12
      <4> QED BY <1>1, <2>3, <4>1 DEF Numbers
    <3>2. first = after + 1
      BY <1>1, <1>2, <3>1 DEF Numbers
    <3> QED BY <1>2, <1>4, <1>6, <1>12, <2>1, <3>2 DEF Numbers
  <2> QED BY <2>2, <2>3
<1> QED BY <1>6, <1>8, <1>9, <1>10, <1>11, <1>12 DEF newest

-----------------------------------------------------------------------------
(* Steps that leave the disk alone.                                        *)

Collectors ==
  [at : Places, pages : Nat, incomplete : BOOLEAN, late : BOOLEAN, attempt : Nat,
   page : Pages \cup { Nothing }, bundle : Nat, stable : BOOLEAN, after : Nat,
   revision : Nat, cursor : Nat]

Entries == [kind : { "gap", "events", "reconciled" }, package : Packages]

(* The ring only grows, and never tells of a world that is not yet.        *)
Grown ==
  /\ produced' \in Seq(Nat) /\ Newest <= Newest'
  /\ \A e \in 1 .. Newest : produced'[e] = produced[e]
  /\ \A e \in 1 .. Newest' : produced'[e] <= world'
  /\ world' \in Nat /\ sampled' \in Nat /\ observed' \in Nat /\ oldest' \in Numbers

LEMMA AppendedRing ==
  ASSUME TypeOK, ToldInv, NEW change \in Nat, change <= world', world <= world', world' \in Nat,
         AppendEvent(change), sampled' \in Nat, observed' \in Nat
  PROVE  Grown
<1>1. produced \in Seq(Nat) /\ Len(produced) \in Nat /\ world \in Nat
  BY DEF TypeOK
<1>2. produced' = Append(produced, change)
  BY DEF AppendEvent
<1>3. produced' \in Seq(Nat) /\ Len(produced') = Len(produced) + 1
  BY <1>1, <1>2
<1>4. \A e \in 1 .. Len(produced) : produced'[e] = produced[e]
  BY <1>1, <1>2
<1>5. produced'[Len(produced) + 1] = change
  BY <1>1, <1>2
<1>6. oldest' \in Numbers
  BY <1>3, OldestTyped DEF AppendEvent
<1>7. \A e \in 1 .. Len(produced) : produced[e] \in Nat /\ produced[e] <= world
  BY <1>1 DEF ToldInv, Newest
<1>8. \A e \in 1 .. Len(produced') : produced'[e] <= world'
  <2> SUFFICES ASSUME NEW e \in 1 .. Len(produced') PROVE produced'[e] <= world'
    OBVIOUS
  <2>1. CASE e \in 1 .. Len(produced)
    BY <1>1, <1>4, <1>7, <2>1
  <2>2. CASE e = Len(produced) + 1
    BY <1>5, <2>2
  <2> QED BY <1>1, <1>3, <2>1, <2>2
<1> QED BY <1>1, <1>3, <1>4, <1>6, <1>8 DEF Grown, Newest

LEMMA Growth ==
  ASSUME TypeOK, ToldInv, Change \/ Sample \/ Report \/ Asked \/ UNCHANGED gameVars
  PROVE  Grown
<1>1. produced \in Seq(Nat) /\ Len(produced) \in Nat /\ world \in Nat /\ sampled \in Nat
      /\ observed \in Nat /\ oldest \in Numbers
  BY DEF TypeOK
<1>2. \A e \in 1 .. Newest : produced[e] \in Nat /\ produced[e] <= world
  BY <1>1 DEF ToldInv, Newest
<1>3. CASE Change
  BY <1>1, <1>2, <1>3 DEF Change, Grown, Newest
<1>4. CASE Sample
  <2>1. AppendEvent(world) /\ world' = world /\ sampled' = world /\ observed' = observed
    BY <1>4 DEF Sample
  <2> QED BY <1>1, <2>1, AppendedRing
<1>5. CASE Report
  <2>1. AppendEvent(0) /\ world' = world /\ sampled' = sampled /\ observed' = observed
    BY <1>5 DEF Report
  <2> QED BY <1>1, <2>1, AppendedRing
<1>6. CASE Asked
  <2>1. /\ observed' = world /\ produced' = FeedEvents /\ world' = world /\ sampled' = sampled
        /\ oldest' = OldestOf(FeedEvents)
    BY <1>6 DEF Asked
  <2>2. oldest' \in Numbers
    BY <2>1, RingRead, OldestTyped
  <2>3. \A e \in 1 .. Len(FeedEvents) : FeedEvents[e] <= world
    BY <1>1, <1>2, RingRead
  <2> QED BY <1>1, <2>1, <2>2, <2>3, RingRead DEF Grown, Newest
<1>7. CASE UNCHANGED gameVars
  BY <1>1, <1>2, <1>7 DEF gameVars, Grown, Newest
<1> QED BY <1>3, <1>4, <1>5, <1>6, <1>7

(* What is staged, frozen or published is in the ring's past.              *)
LEMMA PublishedIsPast ==
  ASSUME TypeOK, StageInv, FrozenInv, PublishedInv, NEW n \in Published
  PROVE  /\ n \in DOMAIN journal /\ journal[n].package \in Packages
         /\ \A e \in Events(n) : e \in 1 .. Newest /\ e <= stage.after
<1>1. n \in DOMAIN journal /\ journal[n].package \in Packages
  <2>1. journal \in Seq(Entries)
    BY DEF TypeOK, Entries
  <2>2. n \in 1 .. Len(journal) /\ n \in DOMAIN journal
    BY <2>1 DEF Published
  <2>3. journal[n] \in Entries
    BY <2>1, <2>2
  <2> QED BY <2>2, <2>3 DEF Entries
<1>2. Events(n) \in SUBSET Numbers
  BY <1>1 DEF Packages, Events
<1>3. stage.committed \in Nat /\ stage.after \in 0 .. Newest /\ Newest \in Nat
      /\ stage.committed <= stage.after
  BY DEF TypeOK, StageInv, Newest
<1>4. CASE Over(journal[n].package)
  BY <1>1, <1>2, <1>3, <1>4 DEF Over, Events, Numbers
<1>5. CASE Begun /\ journal[n].package = sidecar
  <2>1. Events(n) = stage.events
    BY <1>5 DEF FrozenInv, Frozen, Events
  <2> QED BY <1>1, <1>2, <1>3, <2>1 DEF StageInv, Numbers
<1> QED BY <1>4, <1>5 DEF PublishedInv

LEMMA DiskStill ==
  ASSUME IInv, Grown, UNCHANGED diskVars
  PROVE  /\ PublishedInv' /\ LossInv' /\ PublishedOnceInOrder' /\ SnapshotCoversEvents'
         /\ (Begun' <=> Begun) /\ Published' = Published
         /\ Frozen => Frozen'
         /\ stage.events \subseteq 1 .. Newest /\ stage.after \in 0 .. Newest
         /\ stage.after \in Nat
<1>1. stage' = stage /\ sidecar' = sidecar /\ journal' = journal /\ head' = head
      /\ captured' = captured
  BY DEF diskVars
<1>2. TypeOK /\ StageInv /\ FrozenInv /\ PublishedInv /\ LossInv
  BY DEF IInv, ReadInv, PublishInv
<1>3. (Begun' <=> Begun) /\ Published' = Published
  BY <1>1 DEF Begun, Published
<1>4. PublishedInv'
  BY <1>1, <1>2, <1>3 DEF PublishedInv, Over
<1>5. LossInv'
  BY <1>1, <1>2, <1>3 DEF LossInv, StagedInv, LossAnnounced, Events
<1>6. PublishedOnceInOrder'
  BY <1>1, <1>3 DEF IInv, PublishedOnceInOrder, Events
<1>7. SnapshotCoversEvents'
  <2> SUFFICES ASSUME NEW n \in Published, journal[n].package.stable, NEW e \in Events(n)
               PROVE  produced'[e] <= journal[n].package.bundle
    BY <1>1, <1>3 DEF SnapshotCoversEvents, Events
  <2>1. e \in 1 .. Newest
    BY <1>2, PublishedIsPast
  <2>2. produced[e] <= journal[n].package.bundle
    BY DEF IInv, SnapshotCoversEvents
  <2> QED BY <2>1, <2>2 DEF Grown
<1>8. stage.events \subseteq 1 .. Newest /\ stage.after \in 0 .. Newest /\ stage.after \in Nat
  BY <1>2 DEF TypeOK, Newest
<1>9. ASSUME Frozen PROVE Frozen'
  <2>1. \A e \in sidecar.events : e \in 1 .. Newest
    BY <1>8, <1>9 DEF Frozen
  <2> QED BY <1>1, <1>9, <2>1 DEF Frozen, Grown
<1> QED BY <1>3, <1>4, <1>5, <1>6, <1>7, <1>8, <1>9

(* A step that leaves the disk alone keeps the invariant, when it leaves   *)
(* the collector where it was or in a place that asks nothing of the disk. *)
LEMMA MemoryStep ==
  ASSUME IInv, Grown, UNCHANGED diskVars, faults' \in Nat,
         collector' \in Collectors, collector'.after = stage.after,
         collector'.at \in Reading => ~Begun,
         collector'.at \in Publishing => Begun,
         collector'.cursor = 0 \/ collector'.cursor >= head.cursor,
         collector'.at # "idle" => collector'.cursor >= head.cursor,
         collector'.at \in { "manifest", "events", "reconciled", "head", "acknowledge" } =>
           collector' = collector,
         collector'.at = "capture" => collector' = collector \/ head.cursor >= sidecar.cursor,
         PageInv',
         collector'.at = "freeze" /\ collector'.stable =>
           \A e \in stage.events : produced'[e] <= collector'.bundle
  PROVE  IInv'
<1>1. stage' = stage /\ sidecar' = sidecar /\ journal' = journal /\ head' = head
      /\ captured' = captured
  BY DEF diskVars
<1>2. TypeOK /\ StageInv /\ CursorInv /\ FrozenInv /\ HeadInv /\ JournalledInv
  BY DEF IInv, ReadInv, PublishInv
<1>3. Newest \in Nat /\ Newest' \in Nat /\ Newest <= Newest'
  <2>1. produced \in Seq(Nat)
    BY <1>2 DEF TypeOK
  <2>2. produced' \in Seq(Nat) /\ Newest <= Newest'
    BY DEF Grown
  <2> QED BY <2>1, <2>2 DEF Newest
<1>4. stage.after \in 0 .. Newest' /\ stage.events \subseteq 1 .. Newest'
  BY <1>3, DiskStill
<1>5. TypeOK'
  <2>1. stage' \in [after : 0 .. Newest', committed : Nat, events : SUBSET (1 .. Newest'),
                    gaps : Seq(Gaps), manifest : Manifests \cup { Nothing }]
    BY <1>1, <1>2, <1>4 DEF TypeOK
  <2> QED BY <1>1, <1>2, <2>1 DEF TypeOK, Grown, Collectors
<1>6. StageInv' /\ PlaceInv'
  BY <1>1, <1>2, DiskStill DEF StageInv, PlaceInv
<1>7. CursorInv'
  BY <1>1, <1>2 DEF CursorInv
<1>8. ToldInv'
  BY <1>1 DEF ToldInv, Grown
<1>9. FrozenInv'
  BY <1>1, <1>2, DiskStill DEF FrozenInv
<1>10. HeadInv'
  BY <1>1, <1>2 DEF HeadInv
<1>11. JournalledInv'
  BY <1>1, <1>2, DiskStill DEF JournalledInv, GapEntry
<1> QED BY <1>5, <1>6, <1>7, <1>8, <1>9, <1>10, <1>11, DiskStill
        DEF IInv, ReadInv, PublishInv

(* The game moves while the collector stands.                              *)
LEMMA GameStep ==
  ASSUME IInv, Grown, UNCHANGED << diskVars, collector, faults >>
  PROVE  IInv'
<1>1. TypeOK /\ StageInv /\ PlaceInv /\ PageInv /\ CursorInv /\ ToldInv
  BY DEF IInv, ReadInv
<1>2. UNCHANGED diskVars /\ collector' = collector /\ stage' = stage /\ faults' = faults
  BY DEF diskVars
<1>3. collector' \in Collectors /\ faults' \in Nat /\ collector'.after = stage.after
  BY <1>1, <1>2 DEF TypeOK, Collectors, StageInv
<1>4. Newest \in Nat /\ Newest' \in Nat /\ Newest <= Newest'
  BY <1>1 DEF Grown, TypeOK, Newest
<1>5. PageInv'
  <2> SUFFICES ASSUME collector.at = "stage" PROVE PageInv'
    BY <1>2 DEF PageInv
  <2>1. collector.page.next \in Nat
    BY <1>1 DEF PageInv, Pages
  <2> QED BY <1>1, <1>2, <1>4, <2>1 DEF PageInv
<1>6. collector.at = "freeze" /\ collector.stable =>
        \A e \in stage.events : produced'[e] <= collector.bundle
  BY <1>1, <1>2, DiskStill DEF ToldInv, Grown
<1>7. /\ collector'.at \in Reading => ~Begun
      /\ collector'.at \in Publishing => Begun
      /\ collector'.cursor = 0 \/ collector'.cursor >= head.cursor
      /\ collector'.at # "idle" => collector'.cursor >= head.cursor
  BY <1>1, <1>2 DEF PlaceInv, CursorInv
<1> QED BY <1>2, <1>3, <1>5, <1>6, <1>7, MemoryStep

(* A collection begins again from the stage.                               *)
LEMMA IdleTyped ==
  ASSUME TypeOK, NEW revision \in Nat, NEW cursor \in Nat
  PROVE  /\ Idle(revision, cursor) \in Collectors
         /\ Idle(revision, cursor).at = "idle"
         /\ Idle(revision, cursor).after = stage.after
         /\ Idle(revision, cursor).cursor = cursor
<1>1. stage.after \in Nat
  BY DEF TypeOK, Newest
<1> QED BY <1>1 DEF Idle, Collectors, Places

LEMMA IdleStep ==
  ASSUME IInv, Grown, UNCHANGED diskVars, faults' \in Nat,
         NEW revision \in Nat, NEW cursor \in Nat, cursor = 0 \/ cursor >= head.cursor,
         collector' = Idle(revision, cursor)
  PROVE  IInv'
<1>1. TypeOK
  BY DEF IInv
<1>2. collector' \in Collectors /\ collector'.at = "idle" /\ collector'.after = stage.after
      /\ collector'.cursor = cursor
  BY <1>1, IdleTyped
<1>3. PageInv'
  BY <1>2 DEF PageInv
<1>4. collector'.at \notin Reading /\ collector'.at \notin Publishing
  BY <1>2 DEF Reading, Publishing
<1> QED BY <1>2, <1>3, <1>4, MemoryStep

(* The collector stays in the reading part: it neither waits with a page   *)
(* nor writes.                                                             *)
LEMMA ReadStep ==
  ASSUME IInv, Grown, UNCHANGED << diskVars, faults >>, ~Begun,
         collector' \in Collectors, collector'.after = stage.after,
         collector'.at \in { "drain", "bundle", "bundled", "probe", "freeze" },
         collector'.cursor = collector.cursor, collector.at # "idle",
         collector'.at = "freeze" /\ collector'.stable =>
           \A e \in stage.events : produced'[e] <= collector'.bundle
  PROVE  IInv'
<1>1. TypeOK /\ CursorInv
  BY DEF IInv, ReadInv
<1>2. faults' \in Nat /\ UNCHANGED diskVars
  BY <1>1 DEF TypeOK
<1>3. PageInv'
  BY DEF PageInv
<1>4. collector'.at \notin Publishing
  BY DEF Publishing
<1>5. collector'.cursor >= head.cursor
  BY <1>1 DEF CursorInv
<1> QED BY <1>2, <1>3, <1>4, <1>5, MemoryStep

-----------------------------------------------------------------------------
(* The steps of the game and of the reading collector.                     *)

LEMMA Starts == Init => IInv
<1> SUFFICES ASSUME Init PROVE IInv
  OBVIOUS
<1>1. /\ stage = [after |-> 0, committed |-> 0, events |-> {}, gaps |-> << >>,
                  manifest |-> Nothing]
      /\ produced = << >> /\ journal = << >> /\ captured = {} /\ sidecar = Nothing
      /\ head = [cursor |-> 0, revision |-> 0] /\ collector = Idle(0, 0)
      /\ world = 1 /\ sampled = 1 /\ oldest = 1 /\ observed = 0 /\ faults = 0
  BY DEF Init
<1>2. Newest = 0 /\ produced \in Seq(Nat)
  BY <1>1 DEF Newest
<1>3. journal \in Seq(Entries) /\ DOMAIN journal = {} /\ Published = {}
  BY <1>1 DEF Published
<1>4. stage \in [after : 0 .. Newest, committed : Nat, events : SUBSET (1 .. Newest),
                 gaps : Seq(Gaps), manifest : Manifests \cup { Nothing }]
  BY <1>1, <1>2
<1>5. collector \in Collectors /\ collector.at = "idle" /\ collector.after = 0
      /\ collector.cursor = 0
  BY <1>1 DEF Idle, Collectors, Places
<1>6. TypeOK
  BY <1>1, <1>2, <1>3, <1>4, <1>5 DEF TypeOK, Entries, Collectors, Numbers
<1>7. ~Begun /\ collector.at \notin Reading /\ collector.at \notin Publishing
  BY <1>1, <1>5 DEF Begun, Reading, Publishing
<1>8. ReadInv
  BY <1>1, <1>2, <1>5, <1>7
     DEF ReadInv, StageInv, PlaceInv, PageInv, CursorInv, ToldInv
<1>9. PublishInv
  BY <1>3, <1>5, <1>7 DEF PublishInv, FrozenInv, PublishedInv, HeadInv, JournalledInv
<1>10. LossInv
  BY <1>1 DEF LossInv, StagedInv, LossAnnounced
<1> QED BY <1>3, <1>6, <1>8, <1>9, <1>10 DEF IInv, PublishedOnceInOrder, SnapshotCoversEvents

LEMMA GameMoves ==
  ASSUME IInv, Change \/ Sample \/ Report
  PROVE  IInv'
<1>1. Grown
  BY Growth DEF IInv, ReadInv
<1>2. UNCHANGED << diskVars, collector, faults >>
  BY DEF Change, Sample, Report
<1> QED BY <1>1, <1>2, GameStep

LEMMA BeginStep ==
  ASSUME IInv, Begin
  PROVE  IInv'
<1> DEFINE cursor == IF collector.cursor = 0 THEN head.cursor ELSE collector.cursor
           place == IF stage.manifest = Nothing THEN "drain"
                    ELSE IF head.cursor >= stage.manifest.cursor THEN "capture" ELSE "gap"
<1>1. TypeOK /\ CursorInv /\ FrozenInv /\ ToldInv
  BY DEF IInv, ReadInv, PublishInv
<1>2. collector' = [Idle(collector.revision, cursor) EXCEPT !.at = place]
      /\ UNCHANGED gameVars /\ UNCHANGED diskVars /\ faults' = faults
  BY DEF Begin
<1>3. collector.revision \in Nat /\ collector.cursor \in Nat /\ head.cursor \in Nat
      /\ faults \in Nat
  BY <1>1 DEF TypeOK
<1>4. cursor \in Nat /\ cursor >= head.cursor
  BY <1>1, <1>3 DEF CursorInv
<1> HIDE DEF cursor
<1>5. place \in Places /\ place \in { "drain", "capture", "gap" }
  BY DEF Places, Reading, Publishing
<1>6. place = "drain" <=> ~Begun
  BY DEF Begun
<1>7. place = "capture" => head.cursor >= sidecar.cursor
  BY <1>1 DEF FrozenInv, Begun
<1> HIDE DEF place
<1>8. Idle(collector.revision, cursor) \in Collectors
      /\ Idle(collector.revision, cursor).after = stage.after
      /\ Idle(collector.revision, cursor).cursor = cursor
  BY <1>1, <1>3, <1>4, IdleTyped
<1>9. collector' \in Collectors /\ collector'.after = stage.after /\ collector'.at = place
      /\ collector'.cursor = cursor
  BY <1>2, <1>5, <1>8 DEF Collectors
<1>10. PageInv'
  BY <1>5, <1>9 DEF PageInv
<1>11. /\ collector'.at \in Reading => ~Begun
       /\ collector'.at \in Publishing => Begun
  BY <1>5, <1>6, <1>9 DEF Reading, Publishing
<1>12. Grown
  BY <1>1, <1>2, Growth
<1> QED BY <1>2, <1>3, <1>4, <1>5, <1>7, <1>9, <1>10, <1>11, <1>12, MemoryStep

LEMMA DrainStep ==
  ASSUME IInv, Drain
  PROVE  IInv'
<1>1. TypeOK /\ StageInv /\ PlaceInv /\ CursorInv /\ ToldInv
  BY DEF IInv, ReadInv
<1>2. collector.at = "drain" /\ Asked /\ UNCHANGED diskVars /\ faults' = faults
      /\ collector' = [collector EXCEPT !.at = "stage",
                                        !.page = Feed(collector.after, PageLimit)]
  BY DEF Drain
<1>3. collector \in Collectors /\ faults \in Nat /\ collector.cursor \in Nat
  BY <1>1 DEF TypeOK, Collectors
<1>4. stage.after \in Nat /\ stage.after <= Newest /\ collector.after = stage.after
  BY <1>1 DEF TypeOK, StageInv, Newest
<1>5. PageLimit \in Numbers
  BY FeedBounds DEF Numbers
<1> DEFINE page == Feed(collector.after, PageLimit)
<1>6. /\ page \in Pages
      /\ page.after = stage.after /\ stage.after <= page.next /\ page.next <= Len(FeedEvents)
      /\ \A e \in page.events : stage.after < e /\ e <= page.next
      /\ page.events # {} => Min(page.events) \in Nat
      /\ ~page.gap =>
           \A s \in stage.after + 1 .. page.next :
             \/ s \in page.events
             \/ stage.after = 0 /\ \A e \in page.events : s < e
  BY <1>1, <1>4, <1>5, PageOfFeed
<1> HIDE DEF page
<1>7. collector' \in Collectors /\ collector'.at = "stage" /\ collector'.page = page
      /\ collector'.after = stage.after /\ collector'.cursor = collector.cursor
  <2>1. collector' = [collector EXCEPT !.at = "stage", !.page = page]
    BY <1>2 DEF page
  <2>2. "stage" \in Places
    BY DEF Places, Reading
  <2> QED BY <1>3, <1>4, <1>6, <2>1, <2>2 DEF Collectors
<1>8. stage' = stage /\ Newest' = Len(FeedEvents)
  BY <1>2 DEF diskVars, Asked, Newest
<1>9. PageInv'
  BY <1>6, <1>7, <1>8 DEF PageInv
<1>10. Grown
  BY <1>1, <1>2, Growth
<1>11. ~Begun /\ collector.cursor >= head.cursor
  BY <1>1, <1>2 DEF PlaceInv, Reading, CursorInv
<1>12. collector'.at \notin Publishing
  BY <1>7 DEF Publishing
<1> QED BY <1>2, <1>3, <1>7, <1>9, <1>10, <1>11, <1>12, MemoryStep

LEMMA BundleStep ==
  ASSUME IInv, Bundle
  PROVE  IInv'
<1>1. TypeOK /\ StageInv /\ PlaceInv /\ ToldInv
  BY DEF IInv, ReadInv
<1>2. collector.at = "bundle" /\ UNCHANGED gameVars /\ UNCHANGED << diskVars, faults >>
      /\ collector' = [collector EXCEPT !.at = "bundled", !.bundle = world]
  BY DEF Bundle
<1>3. collector \in Collectors /\ collector.after = stage.after /\ world \in Nat
  BY <1>1 DEF TypeOK, Collectors, StageInv
<1>4. "bundled" \in Places /\ ~Begun
  BY <1>1, <1>2 DEF Places, Reading, PlaceInv
<1>5. collector' \in Collectors /\ collector'.after = stage.after /\ collector'.at = "bundled"
      /\ collector'.cursor = collector.cursor
  BY <1>2, <1>3, <1>4 DEF Collectors
<1>6. Grown
  BY <1>1, <1>2, Growth
<1> QED BY <1>2, <1>4, <1>5, <1>6, ReadStep

LEMMA BundledStep ==
  ASSUME IInv, Bundled
  PROVE  IInv'
<1>1. TypeOK /\ StageInv /\ PlaceInv /\ CursorInv /\ ToldInv
  BY DEF IInv, ReadInv
<1>2. collector.at = "bundled" /\ UNCHANGED gameVars /\ UNCHANGED << diskVars, faults >>
      /\ UNCHANGED diskVars /\ faults' = faults
  BY DEF Bundled
<1>3. collector \in Collectors /\ collector.after = stage.after /\ faults \in Nat
      /\ collector.revision \in Nat /\ collector.cursor \in Nat /\ collector.attempt \in Nat
  BY <1>1 DEF TypeOK, Collectors, StageInv
<1>4. { "probe", "bundle" } \subseteq Places /\ ~Begun
  BY <1>1, <1>2 DEF Places, Reading, PlaceInv
<1>5. Grown
  BY <1>1, <1>2, Growth
<1>6. CASE collector' = Idle(collector.revision, collector.cursor)
  <2>1. collector.cursor >= head.cursor
    BY <1>1, <1>2 DEF CursorInv
  <2> QED BY <1>2, <1>3, <1>5, <1>6, <2>1, IdleStep
<1>7. CASE collector' = [collector EXCEPT !.at = "probe"]
  <2>1. collector' \in Collectors /\ collector'.after = stage.after /\ collector'.at = "probe"
        /\ collector'.cursor = collector.cursor
    BY <1>3, <1>4, <1>7 DEF Collectors
  <2> QED BY <1>2, <1>4, <1>5, <2>1, ReadStep
<1>8. CASE collector' = [collector EXCEPT !.at = "bundle", !.attempt = @ + 1]
  <2> DEFINE attempt == collector.attempt + 1
  <2>1. attempt \in Nat
    BY <1>3
  <2>2. collector' = [collector EXCEPT !.at = "bundle", !.attempt = attempt]
    BY <1>3, <1>8 DEF Collectors
  <2> HIDE DEF attempt
  <2>3. collector' \in Collectors /\ collector'.after = stage.after /\ collector'.at = "bundle"
        /\ collector'.cursor = collector.cursor
    BY <1>3, <1>4, <2>1, <2>2 DEF Collectors
  <2> QED BY <1>2, <1>4, <1>5, <2>3, ReadStep
<1> QED BY <1>6, <1>7, <1>8 DEF Bundled

LEMMA ProbeStep ==
  ASSUME IInv, Probe \/ Reprobe
  PROVE  IInv'
<1>1. TypeOK /\ StageInv /\ PlaceInv /\ ToldInv
  BY DEF IInv, ReadInv
<1>2. collector.at \in { "probe", "reprobe" } /\ Asked /\ UNCHANGED << diskVars, faults >>
      /\ UNCHANGED diskVars
  BY DEF Probe, Reprobe
<1>3. collector \in Collectors /\ collector.after = stage.after /\ collector.attempt \in Nat
  BY <1>1 DEF TypeOK, Collectors, StageInv
<1>4. { "drain", "bundle", "freeze" } \subseteq Places /\ ~Begun
  BY <1>1, <1>2 DEF Places, Reading, PlaceInv
<1>5. Grown
  BY <1>1, <1>2, Growth
<1>6. CASE Matches /\ collector' = [collector EXCEPT !.at = "freeze", !.stable = TRUE]
  <2>1. collector' \in Collectors /\ collector'.after = stage.after /\ collector'.at = "freeze"
        /\ collector'.cursor = collector.cursor /\ collector'.bundle = collector.bundle
    BY <1>3, <1>4, <1>6 DEF Collectors
  <2>2. Feed(collector.after, 1).revision = world
    BY DEF Feed
  <2>3. collector.bundle = world
    BY <1>6, <2>2 DEF Matches
  <2>4. \A e \in 1 .. Newest' : produced'[e] <= world
    BY <1>2, <1>5 DEF Grown, Asked
  <2>5. stage.events \subseteq 1 .. Newest /\ Newest \in Nat /\ Newest' \in Nat
        /\ Newest <= Newest'
    BY <1>1, <1>5 DEF TypeOK, Grown, Newest
  <2>6. \A e \in stage.events : produced'[e] <= collector'.bundle
    BY <2>1, <2>3, <2>4, <2>5
  <2> QED BY <1>2, <1>4, <1>5, <2>1, <2>6, ReadStep
<1>7. CASE collector' = [collector EXCEPT !.at = "drain", !.late = TRUE, !.pages = 0]
  <2>1. collector' \in Collectors /\ collector'.after = stage.after /\ collector'.at = "drain"
        /\ collector'.cursor = collector.cursor
    BY <1>3, <1>4, <1>7 DEF Collectors
  <2> QED BY <1>2, <1>4, <1>5, <2>1, ReadStep
<1>8. CASE collector' = [collector EXCEPT !.at = "bundle", !.late = FALSE, !.attempt = @ + 1]
  <2> DEFINE attempt == collector.attempt + 1
  <2>1. attempt \in Nat
    BY <1>3
  <2>2. collector' = [collector EXCEPT !.at = "bundle", !.late = FALSE, !.attempt = attempt]
    BY <1>3, <1>8 DEF Collectors
  <2> HIDE DEF attempt
  <2>3. collector' \in Collectors /\ collector'.after = stage.after /\ collector'.at = "bundle"
        /\ collector'.cursor = collector.cursor
    BY <1>3, <1>4, <2>1, <2>2 DEF Collectors
  <2> QED BY <1>2, <1>4, <1>5, <2>3, ReadStep
<1>9. CASE collector' = [collector EXCEPT !.at = "freeze", !.stable = FALSE]
  <2>1. collector' \in Collectors /\ collector'.after = stage.after /\ collector'.at = "freeze"
        /\ collector'.cursor = collector.cursor /\ collector'.stable = FALSE
    BY <1>3, <1>4, <1>9 DEF Collectors
  <2> QED BY <1>2, <1>4, <1>5, <2>1, ReadStep
<1> QED BY <1>6, <1>7, <1>8, <1>9 DEF Probe, Reprobe

LEMMA FaultStep ==
  ASSUME IInv, Fail \/ Crash
  PROVE  IInv'
<1>1. TypeOK /\ CursorInv /\ ToldInv
  BY DEF IInv, ReadInv
<1>2. UNCHANGED gameVars /\ UNCHANGED diskVars /\ faults' = faults + 1
  BY DEF Fail, Crash
<1>3. faults' \in Nat /\ collector.revision \in Nat /\ collector.cursor \in Nat
  BY <1>1, <1>2 DEF TypeOK
<1>4. Grown
  BY <1>1, <1>2, Growth
<1>5. CASE Fail
  <2>1. collector' = Idle(collector.revision, collector.cursor)
    BY <1>5 DEF Fail
  <2> QED BY <1>1, <1>2, <1>3, <1>4, <2>1, IdleStep DEF CursorInv
<1>6. CASE Crash
  <2>1. collector' = Idle(0, 0)
    BY <1>6 DEF Crash
  <2> QED BY <1>2, <1>3, <1>4, <2>1, IdleStep
<1> QED BY <1>5, <1>6

-----------------------------------------------------------------------------
(* The steps that write the stage and the package.                         *)

LEMMA StageStep ==
  ASSUME IInv, Stage
  PROVE  IInv'
<1> DEFINE page == collector.page
           pages == collector.pages + 1
           after == stage'.after
           place == IF page.more
                    THEN IF pages < MaxPages THEN "drain" ELSE "idle"
                    ELSE IF collector.late THEN "reprobe"
                    ELSE IF \/ page.revision # collector.revision
                            \/ stage'.events # {}
                            \/ head.cursor = 0
                         THEN "bundle" ELSE "idle"
           incomplete == collector.incomplete \/ page.gap
           gaps == IF page.gap
                   THEN Append(stage.gaps,
                               [after |-> page.after,
                                before |-> IF page.events = {} THEN page.next + 1
                                           ELSE Min(page.events)])
                   ELSE stage.gaps
<1>1. /\ TypeOK /\ StageInv /\ PlaceInv /\ PageInv /\ CursorInv /\ ToldInv
      /\ FrozenInv /\ PublishedInv /\ StagedInv /\ LossAnnounced
  BY DEF IInv, ReadInv, PublishInv, LossInv
<1>2. /\ collector.at = "stage" /\ stage' = Staged(page)
      /\ UNCHANGED << gameVars, sidecar, journal, head, captured, faults >>
      /\ collector' = [collector EXCEPT !.page = Nothing, !.pages = pages,
                                        !.incomplete = incomplete, !.after = after,
                                        !.at = place]
  BY DEF Stage
<1>3. /\ world' = world /\ sampled' = sampled /\ produced' = produced /\ oldest' = oldest
      /\ observed' = observed /\ sidecar' = sidecar /\ journal' = journal /\ head' = head
      /\ captured' = captured /\ faults' = faults /\ Newest' = Newest
  BY <1>2 DEF gameVars, Newest
<1>4. /\ page \in Pages /\ page.after = stage.after /\ stage.after <= page.next
      /\ page.next <= Newest
      /\ \A e \in page.events : stage.after < e /\ e <= page.next
      /\ page.events # {} => Min(page.events) \in Nat
      /\ ~page.gap =>
           \A s \in stage.after + 1 .. page.next :
             \/ s \in page.events
             \/ stage.after = 0 /\ \A e \in page.events : s < e
  BY <1>1, <1>2 DEF PageInv
<1>5. /\ page.next \in Nat /\ page.after \in Nat /\ page.events \in SUBSET Numbers
      /\ page.gap \in BOOLEAN
  BY <1>4 DEF Pages
<1>6. /\ stage.after \in Nat /\ stage.committed \in Nat /\ stage.gaps \in Seq(Gaps)
      /\ stage.events \in SUBSET (1 .. Newest) /\ Newest \in Nat
      /\ collector \in Collectors /\ collector.pages \in Nat
      /\ collector.incomplete \in BOOLEAN
  BY <1>1 DEF TypeOK, Newest, Collectors
<1>7. ~Begun /\ stage.manifest = Nothing
  BY <1>1, <1>2 DEF PlaceInv, Reading, Begun
<1>8. Max({ stage.after, page.next }) = page.next
  BY <1>4, <1>5, <1>6, MaxOfTwo
<1>9. gaps \in Seq(Gaps) /\ (page.gap => gaps # << >>) /\ (stage.gaps # << >> => gaps # << >>)
  <2> DEFINE gap == [after |-> page.after,
                     before |-> IF page.events = {} THEN page.next + 1
                                ELSE Min(page.events)]
  <2>1. gap \in Gaps
    BY <1>4, <1>5 DEF Gaps
  <2> HIDE DEF gap
  <2>2. gaps = IF page.gap THEN Append(stage.gaps, gap) ELSE stage.gaps
    BY DEF gap
  <2>3. Append(stage.gaps, gap) \in Seq(Gaps) /\ Append(stage.gaps, gap) # << >>
    BY <1>6, <2>1
  <2> QED BY <1>6, <2>2, <2>3
<1> HIDE DEF gaps
<1>10. stage' = [after |-> page.next, committed |-> stage.committed,
                 events |-> stage.events \cup page.events, gaps |-> gaps,
                 manifest |-> Nothing]
  <2>1. stage' = [stage EXCEPT !.after = page.next, !.events = stage.events \cup page.events,
                               !.gaps = gaps]
    BY <1>2, <1>8 DEF Staged, gaps
  <2>2. stage = [after |-> stage.after, committed |-> stage.committed, events |-> stage.events,
                 gaps |-> stage.gaps, manifest |-> stage.manifest]
    BY <1>1 DEF TypeOK
  <2> QED BY <1>7, <2>1, <2>2
<1>11. \A e \in stage.events \cup page.events :
         e \in 1 .. Newest /\ stage.committed < e /\ e <= page.next
  BY <1>1, <1>4, <1>5, <1>6 DEF StageInv, Numbers
<1>12. place \in { "drain", "idle", "reprobe", "bundle" } /\ place \in Places
  BY DEF Places, Reading
<1> HIDE DEF place
<1>13. collector' \in Collectors /\ collector'.at = place /\ collector'.after = page.next
       /\ collector'.cursor = collector.cursor
  <2>1. after = page.next /\ after \in Nat
    BY <1>5, <1>10
  <2>2. pages \in Nat /\ incomplete \in BOOLEAN
    BY <1>5, <1>6
  <2> HIDE DEF after, pages, incomplete
  <2>3. collector' = [collector EXCEPT !.page = Nothing, !.pages = pages,
                                       !.incomplete = incomplete, !.after = after,
                                       !.at = place]
    BY <1>2 DEF after, pages, incomplete
  <2> QED BY <1>6, <1>12, <2>1, <2>2, <2>3 DEF Collectors
<1> HIDE DEF page
<1>14. TypeOK'
  <2>1. stage' \in [after : 0 .. Newest, committed : Nat, events : SUBSET (1 .. Newest),
                    gaps : Seq(Gaps), manifest : Manifests \cup { Nothing }]
    BY <1>4, <1>5, <1>6, <1>9, <1>10, <1>11
  <2>2. collector' \in
          [at : Places, pages : Nat, incomplete : BOOLEAN, late : BOOLEAN, attempt : Nat,
           page : Pages \cup { Nothing }, bundle : Nat, stable : BOOLEAN, after : Nat,
           revision : Nat, cursor : Nat]
    BY <1>13 DEF Collectors
  <2> QED BY <1>1, <1>3, <2>1, <2>2 DEF TypeOK
<1>15. StageInv'
  BY <1>1, <1>4, <1>5, <1>6, <1>10, <1>11, <1>13 DEF StageInv
<1>16. ~Begun' /\ Published' = Published
  BY <1>3, <1>10 DEF Begun, Published
<1>17. PlaceInv' /\ PageInv' /\ CursorInv' /\ ToldInv'
  BY <1>1, <1>2, <1>3, <1>12, <1>13, <1>16
     DEF PlaceInv, PageInv, CursorInv, ToldInv, Publishing
<1>18. FrozenInv' /\ HeadInv' /\ JournalledInv'
  BY <1>12, <1>13, <1>16 DEF FrozenInv, HeadInv, JournalledInv
<1>19. PublishedInv'
  BY <1>1, <1>3, <1>7, <1>10, <1>16 DEF PublishedInv, Over
<1>20. StagedInv'
  <2> SUFFICES ASSUME NEW s \in stage.committed + 1 .. page.next,
                      s \notin stage.events, s \notin page.events, gaps = << >>
               PROVE  /\ \A e \in stage.events \cup page.events : s < e
                      /\ \A n \in Published : \A e \in Events(n) : s < e
    BY <1>3, <1>10, <1>16 DEF StagedInv, Events
  <2>1. s \in Nat
    BY <1>6
  <2>2. CASE s <= stage.after
    <3>1. /\ \A e \in stage.events : s < e
          /\ \A n \in Published : \A e \in Events(n) : s < e
      BY <1>1, <1>6, <1>9, <2>1, <2>2 DEF StagedInv
    <3>2. \A e \in page.events : s < e
      BY <1>4, <1>5, <1>6, <2>1, <2>2 DEF Numbers
    <3> QED BY <3>1, <3>2
  <2>3. CASE ~(s <= stage.after)
    <3>1. stage.after = 0 /\ \A e \in page.events : s < e
      BY <1>4, <1>5, <1>6, <1>9, <2>1, <2>3
    <3>2. stage.events = {}
      BY <1>1, <1>6, <3>1 DEF StageInv
    <3>3. \A n \in Published : \A e \in Events(n) : FALSE
      BY <1>1, <1>6, <3>1, PublishedIsPast
    <3> QED BY <3>1, <3>2, <3>3
  <2> QED BY <2>2, <2>3
<1>21. LossAnnounced' /\ PublishedOnceInOrder' /\ SnapshotCoversEvents'
  BY <1>1, <1>3, <1>10, <1>16
     DEF IInv, LossAnnounced, PublishedOnceInOrder, SnapshotCoversEvents, Events
<1> QED BY <1>14, <1>15, <1>17, <1>18, <1>19, <1>20, <1>21
        DEF IInv, ReadInv, PublishInv, LossInv

LEMMA FreezeStep ==
  ASSUME IInv, Freeze
  PROVE  IInv'
<1>1. /\ TypeOK /\ StageInv /\ PlaceInv /\ CursorInv /\ ToldInv
      /\ PublishedInv /\ StagedInv /\ LossAnnounced
  BY DEF IInv, ReadInv, PublishInv, LossInv
<1>2. /\ collector.at = "freeze" /\ sidecar' = Package
      /\ collector' = [collector EXCEPT !.at = "manifest", !.cursor = @ + 1]
      /\ UNCHANGED << gameVars, stage, journal, head, captured, faults >>
  BY DEF Freeze
<1>3. /\ world' = world /\ sampled' = sampled /\ produced' = produced /\ oldest' = oldest
      /\ observed' = observed /\ stage' = stage /\ journal' = journal /\ head' = head
      /\ captured' = captured /\ faults' = faults /\ Newest' = Newest
  BY <1>2 DEF gameVars, Newest
<1>4. /\ stage.after \in Nat /\ stage.events \in SUBSET (1 .. Newest) /\ Newest \in Nat
      /\ stage.gaps \in Seq(Gaps) /\ collector \in Collectors /\ collector.cursor \in Nat
      /\ collector.bundle \in Nat /\ collector.stable \in BOOLEAN
      /\ collector.incomplete \in BOOLEAN /\ head.cursor \in Nat
  BY <1>1 DEF TypeOK, Collectors, Newest
<1>5. ~Begun /\ ~Begun' /\ Published' = Published
  BY <1>1, <1>2, <1>3 DEF PlaceInv, Reading, Begun, Published
<1> DEFINE gap == IF stage.gaps = << >> THEN Nothing ELSE Last(stage.gaps)
           cursor == collector.cursor + 1
<1>6. gap \in Gaps \cup { Nothing } /\ (stage.gaps # << >> => gap # Nothing)
  <2>1. ASSUME stage.gaps # << >> PROVE gap \in Gaps
    BY <1>4, <2>1 DEF Last
  <2> QED BY <2>1, NothingIsNone
<1> HIDE DEF gap
<1>7. cursor \in Nat /\ cursor > head.cursor
  BY <1>1, <1>2, <1>4 DEF CursorInv
<1>8. sidecar' = [cursor |-> cursor, through |-> stage.after, events |-> stage.events,
                  stable |-> collector.stable, bundle |-> collector.bundle,
                  incomplete |-> collector.incomplete, gap |-> gap]
  BY <1>2 DEF Package, gap
<1>9. collector' = [collector EXCEPT !.at = "manifest", !.cursor = cursor]
  BY <1>2, <1>4 DEF Collectors
<1> HIDE DEF cursor
<1>10. collector' \in Collectors /\ collector'.at = "manifest" /\ collector'.cursor = cursor
       /\ collector'.after = collector.after
  <2>1. "manifest" \in Places
    BY DEF Places, Reading
  <2> QED BY <1>4, <1>7, <1>9, <2>1 DEF Collectors
<1>11. sidecar' \in Packages
  <2>1. stage.events \in SUBSET Numbers
    BY <1>4 DEF Numbers
  <2> QED BY <1>4, <1>6, <1>7, <1>8, <2>1 DEF Packages
<1>12. sidecar'.stable => \A e \in sidecar'.events : produced[e] <= sidecar'.bundle
  BY <1>1, <1>2, <1>8 DEF ToldInv
<1>13. Frozen' /\ sidecar'.cursor = cursor
  BY <1>3, <1>6, <1>8, <1>11, <1>12 DEF Frozen
<1>14. FrozenInv'
  BY <1>3, <1>5, <1>7, <1>10, <1>13 DEF FrozenInv
<1>15. TypeOK'
  BY <1>1, <1>3, <1>10, <1>11 DEF TypeOK, Collectors
<1>16. StageInv' /\ PlaceInv' /\ PageInv' /\ ToldInv'
  BY <1>1, <1>3, <1>5, <1>10 DEF StageInv, PlaceInv, PageInv, ToldInv, Publishing
<1>17. CursorInv'
  BY <1>3, <1>4, <1>7, <1>10 DEF CursorInv
<1>18. HeadInv' /\ JournalledInv'
  BY <1>5, <1>10 DEF HeadInv, JournalledInv
<1>19. PublishedInv'
  BY <1>1, <1>3, <1>5 DEF PublishedInv, Over
<1>20. StagedInv' /\ LossAnnounced' /\ PublishedOnceInOrder' /\ SnapshotCoversEvents'
  BY <1>1, <1>3, <1>5
     DEF IInv, StagedInv, LossAnnounced, PublishedOnceInOrder, SnapshotCoversEvents, Events
<1> QED BY <1>14, <1>15, <1>16, <1>17, <1>18, <1>19, <1>20
        DEF IInv, ReadInv, PublishInv, LossInv

LEMMA ManifestStep ==
  ASSUME IInv, WriteManifest
  PROVE  IInv'
<1>1. /\ TypeOK /\ StageInv /\ PlaceInv /\ CursorInv /\ ToldInv
      /\ FrozenInv /\ PublishedInv /\ StagedInv /\ LossAnnounced
  BY DEF IInv, ReadInv, PublishInv, LossInv
<1>2. /\ collector.at = "manifest"
      /\ stage' = [stage EXCEPT !.manifest = [cursor |-> sidecar.cursor,
                                              through |-> sidecar.through]]
      /\ collector' = [collector EXCEPT !.at = "gap"]
      /\ UNCHANGED << gameVars, sidecar, journal, head, captured, faults >>
  BY DEF WriteManifest, Goto
<1>3. /\ world' = world /\ sampled' = sampled /\ produced' = produced /\ oldest' = oldest
      /\ observed' = observed /\ sidecar' = sidecar /\ journal' = journal /\ head' = head
      /\ captured' = captured /\ faults' = faults /\ Newest' = Newest
  BY <1>2 DEF gameVars, Newest
<1>4. Frozen /\ sidecar.cursor = collector.cursor /\ sidecar.cursor > head.cursor
  BY <1>1, <1>2 DEF FrozenInv
<1>5. /\ sidecar.cursor \in Nat /\ sidecar.through \in Nat /\ head.cursor \in Nat
      /\ collector \in Collectors
  BY <1>1, <1>4 DEF Frozen, Packages, TypeOK, Collectors
<1>6. ~Begun /\ stage.manifest = Nothing
  BY <1>1, <1>2 DEF PlaceInv, Reading, Begun
<1> DEFINE manifest == [cursor |-> sidecar.cursor, through |-> sidecar.through]
<1>7. manifest \in Manifests /\ manifest # Nothing
  BY <1>5, NothingIsNone DEF Manifests
<1>8. stage' = [stage EXCEPT !.manifest = manifest]
  BY <1>2
<1> HIDE DEF manifest
<1>9. /\ stage'.after = stage.after /\ stage'.committed = stage.committed
      /\ stage'.events = stage.events /\ stage'.gaps = stage.gaps
      /\ stage'.manifest = manifest
      /\ stage' \in [after : 0 .. Newest, committed : Nat, events : SUBSET (1 .. Newest),
                     gaps : Seq(Gaps), manifest : Manifests \cup { Nothing }]
  BY <1>1, <1>7, <1>8 DEF TypeOK
<1>10. collector' \in Collectors /\ collector'.at = "gap"
       /\ collector'.cursor = collector.cursor /\ collector'.after = collector.after
  <2>1. "gap" \in Places
    BY DEF Places, Publishing
  <2> QED BY <1>2, <1>5, <2>1 DEF Collectors
<1>11. Begun' /\ Published' = Published
  BY <1>3, <1>7, <1>9 DEF Begun, Published
<1>12. TypeOK'
  BY <1>1, <1>3, <1>9, <1>10 DEF TypeOK, Collectors
<1>13. StageInv' /\ PlaceInv' /\ PageInv' /\ ToldInv'
  BY <1>1, <1>3, <1>9, <1>10, <1>11 DEF StageInv, PlaceInv, PageInv, ToldInv, Reading
<1>14. CursorInv'
  BY <1>1, <1>2, <1>3, <1>10 DEF CursorInv
<1>15. FrozenInv'
  BY <1>3, <1>4, <1>5, <1>9, <1>10 DEF FrozenInv, Frozen, manifest
<1>16. \A n \in Published : Over(journal[n].package)
  BY <1>1, <1>6 DEF PublishedInv
<1>17. \A n \in Published : journal[n].package.cursor < sidecar.cursor
  <2> SUFFICES ASSUME NEW n \in Published PROVE journal[n].package.cursor < sidecar.cursor
    OBVIOUS
  <2>1. journal[n].package.cursor \in Nat
    BY <1>1, PublishedIsPast DEF Packages
  <2>2. journal[n].package.cursor <= head.cursor
    BY <1>16 DEF Over
  <2> QED BY <1>4, <1>5, <2>1, <2>2
<1>18. PublishedInv'
  BY <1>3, <1>9, <1>11, <1>16, <1>17 DEF PublishedInv, Over
<1>19. HeadInv'
  BY <1>10 DEF HeadInv
<1>20. JournalledInv'
  <2>1. ~(head.cursor >= sidecar.cursor)
    BY <1>4, <1>5
  <2>2. \A n \in Published : journal[n].package # sidecar
    BY <1>5, <1>17
  <2> QED BY <1>3, <1>10, <1>11, <2>1, <2>2 DEF JournalledInv
<1>21. StagedInv' /\ LossAnnounced' /\ PublishedOnceInOrder' /\ SnapshotCoversEvents'
  BY <1>1, <1>3, <1>9, <1>11
     DEF IInv, StagedInv, LossAnnounced, PublishedOnceInOrder, SnapshotCoversEvents, Events
<1> QED BY <1>12, <1>13, <1>14, <1>15, <1>18, <1>19, <1>20, <1>21
        DEF IInv, ReadInv, PublishInv, LossInv

-----------------------------------------------------------------------------
(* The steps that write the journal.                                       *)

Entry(kind) == [kind |-> kind, package |-> sidecar]

(* The journal keeps what it has, and gains at most the entry of the       *)
(* package, once.                                                          *)
Recording(kind) ==
  /\ journal' \in Seq(Entries) /\ Len(journal') \in Nat /\ Len(journal) <= Len(journal')
  /\ \A i \in 1 .. Len(journal) : journal'[i] = journal[i]
  /\ \A i \in 1 .. Len(journal') :
       \/ i \in 1 .. Len(journal)
       \/ /\ i = Len(journal) + 1 /\ journal'[i] = Entry(kind)
          /\ \A j \in 1 .. Len(journal) : journal[j] # Entry(kind)

LEMMA JournalTyped ==
  ASSUME TypeOK
  PROVE  /\ journal \in Seq(Entries) /\ Len(journal) \in Nat
         /\ DOMAIN journal = 1 .. Len(journal)
         /\ \A i \in 1 .. Len(journal) : journal[i] \in Entries
<1>1. journal \in Seq(Entries)
  BY DEF TypeOK, Entries
<1> QED BY <1>1

LEMMA Unrecorded ==
  ASSUME TypeOK, journal' = journal, NEW kind
  PROVE  Recording(kind)
BY JournalTyped DEF Recording

LEMMA RecordedEntry ==
  ASSUME TypeOK, sidecar \in Packages, NEW kind \in { "gap", "events", "reconciled" },
         journal' = Recorded(kind)
  PROVE  /\ Recording(kind)
         /\ \E i \in 1 .. Len(journal') : journal'[i] = Entry(kind)
<1>1. /\ journal \in Seq(Entries) /\ Len(journal) \in Nat
      /\ \A i \in 1 .. Len(journal) : journal[i] \in Entries
  BY JournalTyped
<1>2. journal' = IF Entry(kind) \in ToSet(journal) THEN journal
                 ELSE Append(journal, Entry(kind))
  BY DEF Recorded, Entry
<1>3. ToSet(journal) = { journal[i] : i \in 1 .. Len(journal) }
  BY <1>1 DEF ToSet
<1>4. Entry(kind) \in Entries
  BY DEF Entry, Entries
<1>5. CASE Entry(kind) \in ToSet(journal)
  <2>1. journal' = journal /\ \E i \in 1 .. Len(journal) : journal[i] = Entry(kind)
    BY <1>2, <1>3, <1>5
  <2> QED BY <2>1, Unrecorded
<1>6. CASE Entry(kind) \notin ToSet(journal)
  <2>1. journal' = Append(journal, Entry(kind))
    BY <1>2, <1>6
  <2>2. journal' \in Seq(Entries) /\ Len(journal') = Len(journal) + 1
    BY <1>1, <1>4, <2>1
  <2>3. /\ \A i \in 1 .. Len(journal) : journal'[i] = journal[i]
        /\ journal'[Len(journal) + 1] = Entry(kind)
    BY <1>1, <1>4, <2>1
  <2>4. \A j \in 1 .. Len(journal) : journal[j] # Entry(kind)
    BY <1>3, <1>6
  <2>5. /\ Len(journal) + 1 \in 1 .. Len(journal')
        /\ \A i \in 1 .. Len(journal') : i \in 1 .. Len(journal) \/ i = Len(journal) + 1
        /\ Len(journal') \in Nat /\ Len(journal) <= Len(journal')
    BY <1>1, <2>2
  <2>6. Recording(kind)
    BY <2>2, <2>3, <2>4, <2>5 DEF Recording
  <2> QED BY <2>3, <2>5, <2>6
<1> QED BY <1>5, <1>6

(* What was published stays published; what is new is of the package.      *)
LEMMA PublishedAfter ==
  ASSUME TypeOK, NEW kind, Recording(kind)
  PROVE  /\ DOMAIN journal \subseteq DOMAIN journal'
         /\ \A n \in DOMAIN journal : journal'[n] = journal[n] /\ n \in 1 .. Len(journal)
         /\ Published \subseteq Published'
         /\ \A n \in Published' :
              \/ n \in Published
              \/ /\ kind = "events" /\ n = Len(journal) + 1 /\ journal'[n].package = sidecar
                 /\ \A m \in Published : journal[m].package # sidecar
         /\ kind # "events" => Published' = Published
<1>1. /\ Len(journal) \in Nat /\ DOMAIN journal = 1 .. Len(journal)
      /\ \A i \in 1 .. Len(journal) : journal[i] \in Entries
  BY JournalTyped
<1>2. Len(journal') \in Nat /\ DOMAIN journal' = 1 .. Len(journal')
      /\ Len(journal) <= Len(journal')
  BY DEF Recording
<1>3. DOMAIN journal \subseteq DOMAIN journal'
      /\ \A n \in DOMAIN journal : journal'[n] = journal[n]
  BY <1>1, <1>2 DEF Recording
<1>4. Published \subseteq Published'
  BY <1>3 DEF Published
<1>5. ASSUME NEW n \in Published', n \notin Published
      PROVE  /\ kind = "events" /\ n = Len(journal) + 1 /\ journal'[n].package = sidecar
             /\ \A m \in Published : journal[m].package # sidecar
  <2>1. n \in 1 .. Len(journal') /\ journal'[n].kind = "events"
    BY <1>2 DEF Published
  <2>2. n \notin 1 .. Len(journal)
    BY <1>1, <1>3, <1>5, <2>1 DEF Published
  <2>3. n = Len(journal) + 1 /\ journal'[n] = Entry(kind)
        /\ \A j \in 1 .. Len(journal) : journal[j] # Entry(kind)
    BY <2>1, <2>2 DEF Recording
  <2>4. kind = "events" /\ journal'[n].package = sidecar
    BY <2>1, <2>3 DEF Entry
  <2>5. ASSUME NEW m \in Published PROVE journal[m].package # sidecar
    <3>1. m \in 1 .. Len(journal) /\ journal[m].kind = "events"
      BY <1>1 DEF Published
    <3>2. journal[m] \in Entries /\ journal[m] # Entry("events")
      BY <1>1, <2>3, <2>4, <3>1
    <3> QED BY <3>1, <3>2 DEF Entries, Entry
  <2> QED BY <2>3, <2>4, <2>5
<1>6. kind # "events" => Published' = Published
  BY <1>4, <1>5
<1> QED BY <1>1, <1>3, <1>4, <1>5, <1>6

(* An entry that is not a publication disturbs none of what is said of     *)
(* publications.                                                           *)
LEMMA EntryStep ==
  ASSUME IInv, NEW kind, kind # "events", Recording(kind), Begun,
         UNCHANGED << gameVars, stage, sidecar, head, captured, faults >>,
         collector' \in Collectors, collector'.after = collector.after,
         collector'.at \in { "events", "head" }, collector'.cursor = sidecar.cursor,
         collector'.at = "head" => collector.at = "reconciled",
         collector'.at = "events" /\ sidecar.gap # Nothing =>
           \E n \in DOMAIN journal' : journal'[n] = Entry("gap")
  PROVE  IInv'
<1>1. /\ TypeOK /\ StageInv /\ PlaceInv /\ CursorInv /\ ToldInv
      /\ FrozenInv /\ PublishedInv /\ JournalledInv /\ StagedInv /\ LossAnnounced
  BY DEF IInv, ReadInv, PublishInv, LossInv
<1>2. /\ world' = world /\ sampled' = sampled /\ produced' = produced /\ oldest' = oldest
      /\ observed' = observed /\ stage' = stage /\ sidecar' = sidecar /\ head' = head
      /\ captured' = captured /\ faults' = faults /\ Newest' = Newest
  BY DEF gameVars, Newest
<1>3. /\ DOMAIN journal \subseteq DOMAIN journal'
      /\ \A n \in DOMAIN journal : journal'[n] = journal[n]
      /\ Published' = Published
      /\ \A n \in Published : n \in DOMAIN journal /\ journal'[n] = journal[n]
  BY <1>1, PublishedAfter DEF Published
<1>4. TypeOK'
  <2>1. journal' \in Seq(Entries)
    BY DEF Recording
  <2> QED BY <1>1, <1>2, <2>1 DEF TypeOK, Collectors, Entries
<1>5. Begun' /\ collector'.at \notin Reading
  BY <1>2 DEF Begun, Reading
<1>6. StageInv' /\ PlaceInv' /\ PageInv' /\ ToldInv'
  BY <1>1, <1>2, <1>5 DEF StageInv, PlaceInv, PageInv, ToldInv
<1>7. FrozenInv'
  BY <1>1, <1>2, <1>5 DEF FrozenInv, Frozen
<1>8. CursorInv'
  BY <1>1, <1>2 DEF CursorInv, FrozenInv
<1>9. PublishedInv'
  BY <1>1, <1>2, <1>3, <1>5 DEF PublishedInv, Over
<1>10. HeadInv'
  BY DEF HeadInv
<1>11. JournalledInv'
  <2>1. collector'.at \in { "reconciled", "head" } \/ head.cursor >= sidecar.cursor =>
          \E n \in Published : journal[n].package = sidecar
    BY <1>1 DEF JournalledInv
  <2>2. ASSUME sidecar.gap # Nothing, NEW m \in Published, journal[m].package = sidecar
        PROVE  \E n \in DOMAIN journal' : n < m /\ journal'[n] = Entry("gap")
    <3>1. PICK n \in DOMAIN journal : n < m /\ GapEntry(n)
      BY <1>1, <2>2 DEF JournalledInv
    <3> QED BY <1>3, <3>1 DEF GapEntry, Entry
  <2> QED BY <1>2, <1>3, <2>1, <2>2 DEF JournalledInv, GapEntry, Entry
<1>12. StagedInv'
  BY <1>1, <1>2, <1>3 DEF StagedInv, Events
<1>13. LossAnnounced'
  <2> SUFFICES ASSUME NEW s \in 1 .. stage.committed
               PROVE  \/ \E n \in Published : s \in journal[n].package.events
                      \/ \A n \in Published : \A e \in journal[n].package.events : s < e
                      \/ \E n \in DOMAIN journal :
                           /\ journal[n].kind = "gap" /\ journal[n].package.through >= s
                           /\ \A m \in Published : m < n => journal[m].package.through < s
    BY <1>2, <1>3 DEF LossAnnounced, Events
  <2> QED BY <1>1 DEF LossAnnounced, Events
<1>14. PublishedOnceInOrder' /\ SnapshotCoversEvents'
  BY <1>2, <1>3 DEF IInv, PublishedOnceInOrder, SnapshotCoversEvents, Events
<1> QED BY <1>4, <1>6, <1>7, <1>8, <1>9, <1>10, <1>11, <1>12, <1>13, <1>14
        DEF IInv, ReadInv, PublishInv, LossInv

LEMMA GapStep ==
  ASSUME IInv, PublishGap
  PROVE  IInv'
<1>1. TypeOK /\ PlaceInv /\ FrozenInv
  BY DEF IInv, ReadInv, PublishInv
<1>2. /\ collector.at = "gap"
      /\ journal' = IF sidecar.gap = Nothing THEN journal ELSE Recorded("gap")
      /\ collector' = [collector EXCEPT !.at = "events", !.cursor = sidecar.cursor]
      /\ UNCHANGED << gameVars, stage, sidecar, head, captured, faults >>
  BY DEF PublishGap
<1>3. Begun /\ sidecar \in Packages
  BY <1>1, <1>2 DEF PlaceInv, Publishing, FrozenInv, Frozen
<1>4. Recording("gap") /\ (sidecar.gap # Nothing =>
                             \E n \in DOMAIN journal' : journal'[n] = Entry("gap"))
  <2>1. CASE sidecar.gap = Nothing
    BY <1>1, <1>2, <2>1, Unrecorded
  <2>2. CASE sidecar.gap # Nothing
    <3>1. journal' = Recorded("gap")
      BY <1>2, <2>2
    <3>2. Recording("gap") /\ \E i \in 1 .. Len(journal') : journal'[i] = Entry("gap")
      BY <1>1, <1>3, <3>1, RecordedEntry
    <3> QED BY <3>2 DEF Recording
  <2> QED BY <2>1, <2>2
<1>5. collector' \in Collectors /\ collector'.after = collector.after
      /\ collector'.at = "events" /\ collector'.cursor = sidecar.cursor
  <2>1. "events" \in Places /\ sidecar.cursor \in Nat /\ collector \in Collectors
    BY <1>1, <1>3 DEF Places, Publishing, Packages, TypeOK, Collectors
  <2> QED BY <1>2, <2>1 DEF Collectors
<1> QED BY <1>2, <1>3, <1>4, <1>5, EntryStep

LEMMA ReconciledStep ==
  ASSUME IInv, PublishReconciled
  PROVE  IInv'
<1>1. TypeOK /\ PlaceInv /\ FrozenInv /\ CursorInv
  BY DEF IInv, ReadInv, PublishInv
<1>2. /\ collector.at = "reconciled" /\ journal' = Recorded("reconciled")
      /\ collector' = [collector EXCEPT !.at = "head"]
      /\ UNCHANGED << gameVars, stage, sidecar, head, captured, faults >>
  BY DEF PublishReconciled, Goto
<1>3. Begun /\ sidecar \in Packages
  BY <1>1, <1>2 DEF PlaceInv, Publishing, FrozenInv, Frozen
<1>4. Recording("reconciled")
  BY <1>1, <1>2, <1>3, RecordedEntry
<1>5. collector' \in Collectors /\ collector'.after = collector.after
      /\ collector'.at = "head" /\ collector'.cursor = sidecar.cursor
  <2>1. "head" \in Places /\ collector \in Collectors /\ collector.cursor = sidecar.cursor
    BY <1>1, <1>2 DEF Places, Publishing, TypeOK, Collectors, CursorInv
  <2> QED BY <1>2, <2>1 DEF Collectors
<1> QED BY <1>2, <1>3, <1>4, <1>5, EntryStep

(* The one step that publishes.                                            *)
LEMMA EventsStep ==
  ASSUME IInv, PublishEvents
  PROVE  IInv'
<1>1. /\ TypeOK /\ StageInv /\ PlaceInv /\ CursorInv /\ ToldInv
      /\ FrozenInv /\ PublishedInv /\ JournalledInv /\ StagedInv /\ LossAnnounced
      /\ PublishedOnceInOrder /\ SnapshotCoversEvents
  BY DEF IInv, ReadInv, PublishInv, LossInv
<1>2. /\ collector.at = "events" /\ journal' = Recorded("events")
      /\ collector' = [collector EXCEPT !.at = "reconciled"]
      /\ UNCHANGED << gameVars, stage, sidecar, head, captured, faults >>
  BY DEF PublishEvents, Goto
<1>3. /\ world' = world /\ sampled' = sampled /\ produced' = produced /\ oldest' = oldest
      /\ observed' = observed /\ stage' = stage /\ sidecar' = sidecar /\ head' = head
      /\ captured' = captured /\ faults' = faults /\ Newest' = Newest
  BY <1>2 DEF gameVars, Newest
<1>4. Begun /\ Begun' /\ Frozen /\ sidecar \in Packages
  BY <1>1, <1>2, <1>3 DEF PlaceInv, Publishing, FrozenInv, Frozen, Begun
<1>5. Recording("events") /\ \E i \in 1 .. Len(journal') : journal'[i] = Entry("events")
  BY <1>1, <1>2, <1>4, RecordedEntry
<1>6. /\ DOMAIN journal \subseteq DOMAIN journal'
      /\ \A n \in DOMAIN journal : journal'[n] = journal[n] /\ n \in 1 .. Len(journal)
      /\ Published \subseteq Published'
  BY <1>1, <1>5, PublishedAfter
<1>7. \A n \in Published' :
        \/ n \in Published
        \/ /\ n = Len(journal) + 1 /\ journal'[n].package = sidecar
           /\ \A m \in Published : journal[m].package # sidecar
  BY <1>1, <1>5, PublishedAfter
<1>8. \A n \in Published : n \in DOMAIN journal /\ journal'[n] = journal[n]
                           /\ n \in Nat /\ n <= Len(journal) /\ Len(journal) \in Nat
  <2>1. Len(journal) \in Nat
    BY <1>1, JournalTyped
  <2> QED BY <1>6, <2>1 DEF Published
<1>9. \E n \in Published' : journal'[n].package = sidecar
  <2>1. PICK i \in 1 .. Len(journal') : journal'[i] = Entry("events")
    BY <1>5
  <2>2. i \in DOMAIN journal'
    BY <1>5 DEF Recording
  <2> QED BY <2>1, <2>2 DEF Published, Entry
<1>10. sidecar.events = stage.events /\ sidecar.through = stage.after
  BY <1>4 DEF Frozen
<1>11. stage.committed \in Nat /\ stage.after \in Nat /\ stage.events \in SUBSET Nat
       /\ \A e \in stage.events : stage.committed < e
  BY <1>1 DEF TypeOK, StageInv, Newest
<1>12. collector' \in Collectors /\ collector'.after = collector.after
       /\ collector'.at = "reconciled" /\ collector'.cursor = collector.cursor
  <2>1. "reconciled" \in Places /\ collector \in Collectors
    BY <1>1 DEF Places, Publishing, TypeOK, Collectors
  <2> QED BY <1>2, <2>1 DEF Collectors
<1>13. TypeOK'
  <2>1. journal' \in Seq(Entries)
    BY <1>5 DEF Recording
  <2> QED BY <1>1, <1>3, <1>12, <2>1 DEF TypeOK, Collectors, Entries
<1>14. StageInv' /\ PlaceInv' /\ PageInv' /\ CursorInv' /\ ToldInv'
  BY <1>1, <1>2, <1>3, <1>4, <1>12
     DEF StageInv, PlaceInv, PageInv, CursorInv, ToldInv, Reading
<1>15. FrozenInv' /\ HeadInv'
  BY <1>1, <1>3, <1>4, <1>12 DEF FrozenInv, Frozen, HeadInv
<1>16. PublishedInv'
  <2> SUFFICES ASSUME NEW n \in Published', journal'[n].package # sidecar
               PROVE  LET package == journal'[n].package
                      IN /\ package.cursor \in captured /\ package.cursor <= head.cursor
                         /\ package.through <= stage.committed
                         /\ \A e \in package.events : e <= stage.committed
                         /\ package.cursor < sidecar.cursor
    BY <1>3, <1>4 DEF PublishedInv, Over
  <2>1. n \in Published /\ journal'[n] = journal[n]
    BY <1>7, <1>8
  <2>2. Over(journal[n].package)
    BY <1>1, <2>1 DEF PublishedInv
  <2> QED BY <1>4, <2>1, <2>2 DEF Over
<1>17. JournalledInv'
  <2>1. ASSUME sidecar.gap # Nothing, NEW m \in Published', journal'[m].package = sidecar
        PROVE  \E n \in DOMAIN journal' : n < m /\ journal'[n] = Entry("gap")
    <3>1. CASE m \in Published
      <4>1. journal[m].package = sidecar
        BY <1>8, <2>1, <3>1
      <4>2. PICK n \in DOMAIN journal : n < m /\ GapEntry(n)
        BY <1>1, <1>4, <2>1, <3>1, <4>1 DEF JournalledInv
      <4> QED BY <1>6, <4>2 DEF GapEntry, Entry
    <3>2. CASE m \notin Published
      <4>1. m = Len(journal) + 1
        BY <1>7, <3>2
      <4>2. PICK n \in DOMAIN journal : GapEntry(n)
        BY <1>1, <1>2, <1>4, <2>1 DEF JournalledInv
      <4>3. n < m
        <5>1. n \in 1 .. Len(journal) /\ Len(journal) \in Nat
          BY <1>1, <1>6, <4>2, JournalTyped
        <5> QED BY <4>1, <5>1
      <4> QED BY <1>6, <4>2, <4>3 DEF GapEntry, Entry
    <3> QED BY <3>1, <3>2
  <2> QED BY <1>3, <1>9, <1>12, <2>1 DEF JournalledInv, GapEntry, Entry
<1>18. StagedInv'
  <2> SUFFICES ASSUME NEW s \in stage.committed + 1 .. stage.after,
                      s \notin stage.events, stage.gaps = << >>
               PROVE  /\ \A e \in stage.events : s < e
                      /\ \A n \in Published' : \A e \in journal'[n].package.events : s < e
    BY <1>3 DEF StagedInv, Events
  <2>1. /\ \A e \in stage.events : s < e
        /\ \A n \in Published : \A e \in journal[n].package.events : s < e
    BY <1>1 DEF StagedInv, Events
  <2> QED BY <1>7, <1>8, <1>10, <2>1
<1>19. LossAnnounced'
  <2> SUFFICES ASSUME NEW s \in 1 .. stage.committed
               PROVE  \/ \E n \in Published' : s \in journal'[n].package.events
                      \/ \A n \in Published' : \A e \in journal'[n].package.events : s < e
                      \/ \E n \in DOMAIN journal' :
                           /\ journal'[n].kind = "gap" /\ journal'[n].package.through >= s
                           /\ \A m \in Published' : m < n => journal'[m].package.through < s
    BY <1>3 DEF LossAnnounced, Events
  <2>1. CASE \E n \in Published : s \in journal[n].package.events
    BY <1>6, <1>8, <2>1
  <2>2. CASE \A n \in Published : \A e \in journal[n].package.events : s < e
    <3>1. \A e \in stage.events : s < e
      BY <1>11
    <3> QED BY <1>7, <1>8, <1>10, <2>2, <3>1
  <2>3. CASE \E n \in DOMAIN journal :
               /\ journal[n].kind = "gap" /\ journal[n].package.through >= s
               /\ \A m \in Published : m < n => journal[m].package.through < s
    <3>1. PICK n \in DOMAIN journal :
                 /\ journal[n].kind = "gap" /\ journal[n].package.through >= s
                 /\ \A m \in Published : m < n => journal[m].package.through < s
      BY <2>3
    <3>2. n \in 1 .. Len(journal) /\ Len(journal) \in Nat
      BY <1>1, <1>6, JournalTyped
    <3>3. \A m \in Published' : m < n => m \in Published
      BY <1>7, <3>2
    <3> QED BY <1>6, <1>8, <3>1, <3>3
  <2> QED BY <1>1, <2>1, <2>2, <2>3 DEF LossAnnounced, Events
<1>20. PublishedOnceInOrder'
  <2> SUFFICES ASSUME NEW m \in Published', NEW n \in Published', m < n
               PROVE  /\ journal'[m].package.cursor < journal'[n].package.cursor
                      /\ \A e \in journal'[m].package.events,
                            f \in journal'[n].package.events : e < f
    BY DEF PublishedOnceInOrder, Events
  <2>1. CASE m \in Published /\ n \in Published
    BY <1>1, <1>8, <2>1 DEF PublishedOnceInOrder, Events
  <2>2. CASE n \notin Published
    <3>1. m \in Published
      BY <1>7, <2>2
    <3>2. journal[m].package # sidecar /\ journal'[n].package = sidecar
      BY <1>7, <2>2, <3>1
    <3>3. Over(journal[m].package)
      BY <1>1, <3>1, <3>2 DEF PublishedInv
    <3>4. journal[m].package.events \subseteq Nat
      BY <1>1, <3>1, PublishedIsPast DEF Packages, Numbers
    <3>5. \A e \in journal[m].package.events, f \in stage.events : e < f
      BY <1>11, <3>3, <3>4 DEF Over
    <3> QED BY <1>4, <1>8, <1>10, <3>1, <3>2, <3>3, <3>5 DEF Over
  <2>3. CASE m \notin Published /\ n \in Published
    BY <1>7, <1>8, <2>3
  <2> QED BY <2>1, <2>2, <2>3
<1>21. SnapshotCoversEvents'
  <2> SUFFICES ASSUME NEW n \in Published', journal'[n].package.stable,
                      NEW e \in journal'[n].package.events
               PROVE  produced[e] <= journal'[n].package.bundle
    BY <1>3 DEF SnapshotCoversEvents, Events
  <2>1. CASE n \in Published
    BY <1>1, <1>8, <2>1 DEF SnapshotCoversEvents, Events
  <2>2. CASE n \notin Published
    BY <1>4, <1>7, <2>2 DEF Frozen
  <2> QED BY <2>1, <2>2
<1> QED BY <1>13, <1>14, <1>15, <1>16, <1>17, <1>18, <1>19, <1>20, <1>21
        DEF IInv, ReadInv, PublishInv, LossInv

-----------------------------------------------------------------------------
(* The steps that end a publication.                                       *)

LEMMA HeadStep ==
  ASSUME IInv, ReplaceHead
  PROVE  IInv'
<1>1. /\ TypeOK /\ StageInv /\ PlaceInv /\ CursorInv /\ ToldInv
      /\ FrozenInv /\ PublishedInv /\ JournalledInv /\ StagedInv /\ LossAnnounced
  BY DEF IInv, ReadInv, PublishInv, LossInv
<1>2. /\ collector.at = "head"
      /\ head' = [cursor |-> sidecar.cursor, revision |-> sidecar.bundle]
      /\ collector' = [collector EXCEPT !.at = "capture"]
      /\ UNCHANGED << gameVars, stage, sidecar, journal, captured, faults >>
  BY DEF ReplaceHead, Goto
<1>3. /\ world' = world /\ sampled' = sampled /\ produced' = produced /\ oldest' = oldest
      /\ observed' = observed /\ stage' = stage /\ sidecar' = sidecar /\ journal' = journal
      /\ captured' = captured /\ faults' = faults /\ Newest' = Newest
  BY <1>2 DEF gameVars, Newest
<1>4. Begun /\ Begun' /\ Published' = Published /\ sidecar \in Packages
      /\ head.cursor <= sidecar.cursor
  BY <1>1, <1>2, <1>3 DEF PlaceInv, Publishing, FrozenInv, Frozen, Begun, Published
<1>5. sidecar.cursor \in Nat /\ sidecar.bundle \in Nat /\ head.cursor \in Nat
      /\ collector \in Collectors /\ collector.cursor = sidecar.cursor
  BY <1>1, <1>2, <1>4 DEF Packages, TypeOK, Collectors, CursorInv
<1>6. collector' \in Collectors /\ collector'.after = collector.after
      /\ collector'.at = "capture" /\ collector'.cursor = collector.cursor
  <2>1. "capture" \in Places
    BY DEF Places, Publishing
  <2> QED BY <1>2, <1>5, <2>1 DEF Collectors
<1>7. head'.cursor = sidecar.cursor /\ head' \in [cursor : Nat, revision : Nat]
  BY <1>2, <1>5
<1>8. TypeOK'
  BY <1>1, <1>3, <1>6, <1>7 DEF TypeOK, Collectors
<1>9. StageInv' /\ PlaceInv' /\ PageInv' /\ CursorInv' /\ ToldInv'
  BY <1>1, <1>3, <1>4, <1>5, <1>6, <1>7
     DEF StageInv, PlaceInv, PageInv, CursorInv, ToldInv, Reading
<1>10. FrozenInv' /\ HeadInv'
  BY <1>1, <1>3, <1>4, <1>5, <1>6, <1>7 DEF FrozenInv, Frozen, HeadInv
<1>11. PublishedInv'
  <2> SUFFICES ASSUME NEW n \in Published, Over(journal[n].package)
               PROVE  journal[n].package.cursor <= head'.cursor
    BY <1>1, <1>3, <1>4 DEF PublishedInv, Over
  <2>1. journal[n].package.cursor \in Nat
    BY <1>1, PublishedIsPast DEF Packages
  <2> QED BY <1>4, <1>5, <1>7, <2>1 DEF Over
<1>12. JournalledInv'
  BY <1>1, <1>2, <1>3, <1>4, <1>6 DEF JournalledInv, GapEntry
<1>13. StagedInv' /\ LossAnnounced' /\ PublishedOnceInOrder' /\ SnapshotCoversEvents'
  BY <1>1, <1>3, <1>4
     DEF IInv, StagedInv, LossAnnounced, PublishedOnceInOrder, SnapshotCoversEvents, Events
<1> QED BY <1>8, <1>9, <1>10, <1>11, <1>12, <1>13 DEF IInv, ReadInv, PublishInv, LossInv

LEMMA CaptureStep ==
  ASSUME IInv, Capture
  PROVE  IInv'
<1>1. /\ TypeOK /\ StageInv /\ PlaceInv /\ CursorInv /\ ToldInv
      /\ FrozenInv /\ PublishedInv /\ HeadInv /\ JournalledInv /\ StagedInv /\ LossAnnounced
  BY DEF IInv, ReadInv, PublishInv, LossInv
<1>2. /\ collector.at = "capture"
      /\ captured' = captured \cup { stage.manifest.cursor }
      /\ collector' = [collector EXCEPT !.at = "acknowledge"]
      /\ UNCHANGED << gameVars, stage, sidecar, journal, head, faults >>
  BY DEF Capture, Goto
<1>3. /\ world' = world /\ sampled' = sampled /\ produced' = produced /\ oldest' = oldest
      /\ observed' = observed /\ stage' = stage /\ sidecar' = sidecar /\ journal' = journal
      /\ head' = head /\ faults' = faults /\ Newest' = Newest
  BY <1>2 DEF gameVars, Newest
<1>4. Begun /\ Begun' /\ Published' = Published /\ sidecar \in Packages
      /\ stage.manifest.cursor = sidecar.cursor
  BY <1>1, <1>2, <1>3 DEF PlaceInv, Publishing, FrozenInv, Frozen, Begun, Published
<1>5. sidecar.cursor \in Nat /\ collector \in Collectors
  BY <1>1, <1>4 DEF Packages, TypeOK, Collectors
<1>6. collector' \in Collectors /\ collector'.after = collector.after
      /\ collector'.at = "acknowledge" /\ collector'.cursor = collector.cursor
  <2>1. "acknowledge" \in Places
    BY DEF Places, Publishing
  <2> QED BY <1>2, <1>5, <2>1 DEF Collectors
<1>7. captured' \in SUBSET Nat /\ captured \subseteq captured' /\ sidecar.cursor \in captured'
  <2>1. captured \in SUBSET Nat
    BY <1>1 DEF TypeOK
  <2> QED BY <1>2, <1>4, <1>5, <2>1
<1>8. TypeOK'
  BY <1>1, <1>3, <1>6, <1>7 DEF TypeOK, Collectors
<1>9. StageInv' /\ PlaceInv' /\ PageInv' /\ CursorInv' /\ ToldInv'
  BY <1>1, <1>2, <1>3, <1>4, <1>6
     DEF StageInv, PlaceInv, PageInv, CursorInv, ToldInv, Reading
<1>10. FrozenInv' /\ HeadInv'
  BY <1>1, <1>2, <1>3, <1>4, <1>6, <1>7 DEF FrozenInv, Frozen, HeadInv
<1>11. PublishedInv'
  BY <1>1, <1>3, <1>4, <1>7 DEF PublishedInv, Over
<1>12. JournalledInv'
  BY <1>1, <1>3, <1>4, <1>6 DEF JournalledInv, GapEntry
<1>13. StagedInv' /\ LossAnnounced' /\ PublishedOnceInOrder' /\ SnapshotCoversEvents'
  BY <1>1, <1>3, <1>4
     DEF IInv, StagedInv, LossAnnounced, PublishedOnceInOrder, SnapshotCoversEvents, Events
<1> QED BY <1>8, <1>9, <1>10, <1>11, <1>12, <1>13 DEF IInv, ReadInv, PublishInv, LossInv

(* What the acknowledgement moves past was published, or its gap was       *)
(* journalled before the publication that moved past it.                   *)
LEMMA AcknowledgedLoss ==
  ASSUME IInv, collector.at = "acknowledge", NEW s \in 1 .. stage.after
  PROVE  \/ \E n \in Published : s \in Events(n)
         \/ \A n \in Published : \A e \in Events(n) : s < e
         \/ \E n \in DOMAIN journal :
              /\ journal[n].kind = "gap"
              /\ journal[n].package.through >= s
              /\ \A m \in Published : m < n => journal[m].package.through < s
<1>1. /\ TypeOK /\ StageInv /\ PlaceInv /\ FrozenInv /\ PublishedInv /\ HeadInv
      /\ JournalledInv /\ StagedInv /\ LossAnnounced /\ PublishedOnceInOrder
  BY DEF IInv, ReadInv, PublishInv, LossInv
<1>2. stage.committed \in Nat /\ stage.after \in Nat /\ s \in Nat
  BY <1>1 DEF TypeOK, Newest
<1>3. Begun /\ Frozen /\ head.cursor >= sidecar.cursor
  BY <1>1 DEF PlaceInv, Publishing, FrozenInv, HeadInv
<1>4. PICK p \in Published : journal[p].package = sidecar
  BY <1>1, <1>3 DEF JournalledInv
<1>5. CASE s <= stage.committed
  <2>1. s \in 1 .. stage.committed
    BY <1>2, <1>5
  <2> QED BY <1>1, <2>1 DEF LossAnnounced
<1>6. CASE ~(s <= stage.committed)
  <2>1. s \in stage.committed + 1 .. stage.after
    BY <1>2, <1>6
  <2>2. CASE s \in stage.events
    BY <1>3, <1>4, <2>2 DEF Frozen, Events
  <2>3. CASE stage.gaps # << >>
    <3>1. sidecar.gap # Nothing
      BY <1>3, <2>3 DEF Frozen
    <3>2. PICK n \in DOMAIN journal : n < p /\ GapEntry(n)
      BY <1>1, <1>3, <1>4, <3>1 DEF JournalledInv
    <3>3. journal[n].kind = "gap" /\ journal[n].package.through >= s
      BY <1>2, <1>3, <2>1, <3>2 DEF GapEntry, Frozen
    <3>4. ASSUME NEW m \in Published, m < n PROVE journal[m].package.through < s
      <4>1. m \in Nat /\ n \in Nat /\ p \in Nat
        <5>1. DOMAIN journal = 1 .. Len(journal) /\ Len(journal) \in Nat
          BY <1>1, JournalTyped
        <5> QED BY <5>1 DEF Published
      <4>2. m < p
        BY <3>2, <3>4, <4>1
      <4>3. journal[m].package.cursor < sidecar.cursor
        BY <1>1, <1>4, <4>2 DEF PublishedOnceInOrder
      <4>4. sidecar.cursor \in Nat /\ journal[m].package \in Packages
        BY <1>1, <1>3, PublishedIsPast DEF Frozen, Packages
      <4>5. Over(journal[m].package)
        BY <1>1, <4>3, <4>4 DEF PublishedInv, Packages
      <4>6. journal[m].package.through \in Nat
        BY <4>4 DEF Packages
      <4> QED BY <1>2, <1>6, <4>5, <4>6 DEF Over
    <3> QED BY <3>3, <3>4
  <2>4. CASE \A n \in Published : \A e \in Events(n) : s < e
    BY <2>4
  <2> QED BY <1>1, <2>1, <2>2, <2>3, <2>4 DEF StagedInv
<1> QED BY <1>5, <1>6

LEMMA AcknowledgeStep ==
  ASSUME IInv, Acknowledge
  PROVE  IInv'
<1>1. /\ TypeOK /\ StageInv /\ PlaceInv /\ CursorInv /\ ToldInv
      /\ FrozenInv /\ PublishedInv /\ HeadInv
  BY DEF IInv, ReadInv, PublishInv
<1> DEFINE through == stage.manifest.through
           after == stage'.after
<1>2. /\ collector.at = "acknowledge"
      /\ stage' = [after |-> Max({ stage.committed, through }),
                   committed |-> Max({ stage.committed, through }),
                   events |-> { n \in stage.events : n > through }, gaps |-> << >>,
                   manifest |-> Nothing]
      /\ sidecar' = Nothing
      /\ collector' = [Idle(sidecar.bundle, collector.cursor) EXCEPT !.after = after]
      /\ UNCHANGED << gameVars, journal, head, captured, faults >>
  BY DEF Acknowledge
<1>3. /\ world' = world /\ sampled' = sampled /\ produced' = produced /\ oldest' = oldest
      /\ observed' = observed /\ journal' = journal /\ head' = head
      /\ captured' = captured /\ faults' = faults /\ Newest' = Newest
  BY <1>2 DEF gameVars, Newest
<1>4. /\ Begun /\ Frozen /\ sidecar.cursor \in captured /\ head.cursor >= sidecar.cursor
      /\ through = stage.after /\ head.cursor <= sidecar.cursor
  BY <1>1, <1>2 DEF PlaceInv, Publishing, FrozenInv, Frozen, HeadInv
<1>5. stage.committed \in Nat /\ stage.after \in Nat /\ stage.after \in 0 .. Newest
      /\ stage.committed <= stage.after /\ stage.events \in SUBSET (1 .. Newest)
      /\ \A e \in stage.events : e <= stage.after
  BY <1>1 DEF TypeOK, StageInv, Newest
<1>6. Max({ stage.committed, through }) = stage.after
  BY <1>4, <1>5, MaxOfTwo
<1>7. { n \in stage.events : n > through } = {}
  BY <1>4, <1>5
<1>8. stage' = [after |-> stage.after, committed |-> stage.after, events |-> {},
                gaps |-> << >>, manifest |-> Nothing]
  BY <1>2, <1>6, <1>7
<1>9. stage' \in [after : 0 .. Newest, committed : Nat, events : SUBSET (1 .. Newest),
                  gaps : Seq(Gaps), manifest : Manifests \cup { Nothing }]
  BY <1>5, <1>8
<1>10. ~Begun' /\ Published' = Published
  BY <1>3, <1>8 DEF Begun, Published
<1>11. sidecar.bundle \in Nat /\ collector.cursor \in Nat /\ sidecar.cursor \in Nat
       /\ head.cursor \in Nat
  BY <1>1, <1>4 DEF Frozen, Packages, TypeOK
<1>12. collector' \in Collectors /\ collector'.at = "idle" /\ collector'.after = stage.after
       /\ collector'.cursor = collector.cursor
  <2>1. after = stage.after
    BY <1>8
  <2> HIDE DEF after
  <2>2. collector' = [Idle(sidecar.bundle, collector.cursor) EXCEPT !.after = after]
    BY <1>2 DEF after
  <2>3. /\ Idle(sidecar.bundle, collector.cursor) \in Collectors
        /\ Idle(sidecar.bundle, collector.cursor).at = "idle"
        /\ Idle(sidecar.bundle, collector.cursor).cursor = collector.cursor
    BY <1>1, <1>11, IdleTyped
  <2> QED BY <1>5, <2>1, <2>2, <2>3 DEF Collectors
<1> HIDE DEF through, after
<1>13. TypeOK'
  <2>1. sidecar' \in Packages \cup { Nothing }
    BY <1>2
  <2> QED BY <1>1, <1>3, <1>9, <1>12, <2>1 DEF TypeOK, Collectors
<1>14. StageInv' /\ PlaceInv' /\ PageInv' /\ ToldInv'
  BY <1>1, <1>3, <1>5, <1>8, <1>12
     DEF StageInv, PlaceInv, PageInv, ToldInv, Reading, Publishing
<1>15. CursorInv'
  BY <1>1, <1>2, <1>3, <1>12 DEF CursorInv
<1>16. FrozenInv' /\ HeadInv' /\ JournalledInv'
  BY <1>10, <1>12 DEF FrozenInv, HeadInv, JournalledInv
<1>17. PublishedInv'
  <2> SUFFICES ASSUME NEW n \in Published
               PROVE  /\ journal[n].package.cursor \in captured
                      /\ journal[n].package.cursor <= head.cursor
                      /\ journal[n].package.through <= stage.after
                      /\ \A e \in journal[n].package.events : e <= stage.after
    BY <1>3, <1>8, <1>10 DEF PublishedInv, Over
  <2>1. journal[n].package \in Packages
    BY <1>1, PublishedIsPast
  <2>2. journal[n].package.through \in Nat /\ journal[n].package.events \subseteq Nat
    BY <2>1 DEF Packages, Numbers
  <2>3. CASE Over(journal[n].package)
    BY <1>5, <2>2, <2>3 DEF Over
  <2>4. CASE journal[n].package = sidecar
    BY <1>4, <1>5, <1>11, <2>4 DEF Frozen
  <2> QED BY <1>1, <2>3, <2>4 DEF PublishedInv
<1>18. StagedInv'
  BY <1>5, <1>8 DEF StagedInv
<1>19. LossAnnounced'
  <2> SUFFICES ASSUME NEW s \in 1 .. stage.after
               PROVE  \/ \E n \in Published : s \in Events(n)
                      \/ \A n \in Published : \A e \in Events(n) : s < e
                      \/ \E n \in DOMAIN journal :
                           /\ journal[n].kind = "gap"
                           /\ journal[n].package.through >= s
                           /\ \A m \in Published : m < n => journal[m].package.through < s
    BY <1>3, <1>8, <1>10 DEF LossAnnounced, Events
  <2> QED BY <1>2, AcknowledgedLoss
<1>20. PublishedOnceInOrder' /\ SnapshotCoversEvents'
  BY <1>3, <1>10 DEF IInv, PublishedOnceInOrder, SnapshotCoversEvents, Events
<1> QED BY <1>13, <1>14, <1>15, <1>16, <1>17, <1>18, <1>19, <1>20
        DEF IInv, ReadInv, PublishInv, LossInv

-----------------------------------------------------------------------------
(* The theorems.                                                           *)

LEMMA Keeps == IInv /\ [Next]_vars => IInv'
<1> SUFFICES ASSUME IInv, [Next]_vars PROVE IInv'
  OBVIOUS
<1>1. CASE Change \/ Sample \/ Report
  BY <1>1, GameMoves
<1>2. CASE Begin
  BY <1>2, BeginStep
<1>3. CASE Drain
  BY <1>3, DrainStep
<1>4. CASE Stage
  BY <1>4, StageStep
<1>5. CASE Bundle
  BY <1>5, BundleStep
<1>6. CASE Bundled
  BY <1>6, BundledStep
<1>7. CASE Probe \/ Reprobe
  BY <1>7, ProbeStep
<1>8. CASE Freeze
  BY <1>8, FreezeStep
<1>9. CASE WriteManifest
  BY <1>9, ManifestStep
<1>10. CASE PublishGap
  BY <1>10, GapStep
<1>11. CASE PublishEvents
  BY <1>11, EventsStep
<1>12. CASE PublishReconciled
  BY <1>12, ReconciledStep
<1>13. CASE ReplaceHead
  BY <1>13, HeadStep
<1>14. CASE Capture
  BY <1>14, CaptureStep
<1>15. CASE Acknowledge
  BY <1>15, AcknowledgeStep
<1>16. CASE Fail \/ Crash
  BY <1>16, FaultStep
<1>17. CASE UNCHANGED vars
  <2>1. UNCHANGED gameVars /\ UNCHANGED << diskVars, collector, faults >>
    BY <1>17 DEF vars
  <2>2. Grown
    BY <2>1, Growth DEF IInv, ReadInv
  <2> QED BY <2>1, <2>2, GameStep
<1> QED
  BY <1>1, <1>2, <1>3, <1>4, <1>5, <1>6, <1>7, <1>8, <1>9, <1>10, <1>11, <1>12, <1>13,
     <1>14, <1>15, <1>16, <1>17 DEF Next, Collect

(* The inductive invariant holds in every reachable state, whatever the    *)
(* sizes of the ring and of its pages, the kills and the failed calls.     *)
THEOREM FeedInvariant == Spec => []IInv
BY Starts, Keeps, PTL DEF Spec

(* The state has its types: what waits to be published is never ahead of   *)
(* the ring the stage was drained from.                                    *)
THEOREM TypeCorrect == Spec => []TypeOK
<1>1. IInv => TypeOK
  BY DEF IInv
<1> QED BY <1>1, FeedInvariant, PTL

(* Each publication leaves one entry however often its steps are repeated, *)
(* publications follow the ring, and no event is in two of them.           *)
THEOREM PublicationsInOrder == Spec => []PublishedOnceInOrder
<1>1. IInv => PublishedOnceInOrder
  BY DEF IInv
<1> QED BY <1>1, FeedInvariant, PTL

(* No event that the collector saw being lost is committed in silence: it  *)
(* is published, or the gap is journalled before what comes after it.      *)
THEOREM LossesAnnounced == Spec => []LossAnnounced
<1>1. IInv => LossAnnounced
  BY DEF IInv, LossInv
<1> QED BY <1>1, FeedInvariant, PTL

(* A snapshot published as matching its feed is not older than any event   *)
(* published with it.                                                      *)
THEOREM SnapshotsCover == Spec => []SnapshotCoversEvents
<1>1. IInv => SnapshotCoversEvents
  BY DEF IInv
<1> QED BY <1>1, FeedInvariant, PTL

(* What has left the stage is in the head and its notices are durable,     *)
(* though the process that finishes a publication may not be the one that  *)
(* began it.                                                               *)
THEOREM AcknowledgedCaptured == Spec => []AcknowledgedIsCaptured
<1>1. IInv => AcknowledgedIsCaptured
  <2> SUFFICES ASSUME IInv, NEW n \in Published
               PROVE  \/ /\ stage.manifest # Nothing
                         /\ stage.manifest.cursor = journal[n].package.cursor
                      \/ /\ journal[n].package.cursor \in captured
                         /\ head.cursor >= journal[n].package.cursor
    BY DEF AcknowledgedIsCaptured
  <2>1. TypeOK /\ StageInv /\ FrozenInv /\ PublishedInv
    BY DEF IInv, ReadInv, PublishInv
  <2>2. head.cursor \in Nat /\ journal[n].package.cursor \in Nat
    BY <2>1, PublishedIsPast DEF TypeOK, Packages
  <2>3. CASE Over(journal[n].package)
    BY <2>2, <2>3 DEF Over
  <2>4. CASE Begun /\ journal[n].package = sidecar
    BY <2>1, <2>4 DEF FrozenInv, Begun
  <2> QED BY <2>1, <2>3, <2>4 DEF PublishedInv
<1> QED BY <1>1, FeedInvariant, PTL

=============================================================================
