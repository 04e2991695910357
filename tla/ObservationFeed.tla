--------------------------- MODULE ObservationFeed ---------------------------
(***************************************************************************)
(* The observation feed, from the ring of the game process                 *)
(* (src/bridge/src/agent_bridge.cpp) to the journal and the world head of  *)
(* the observation collector (src/src/smacx_observation.py,                *)
(* src/src/smacx_world_store.py).                                          *)
(*                                                                         *)
(* The ring keeps the last MaxObservationEvents events, and a timer appends *)
(* the changes it finds by sampling.  The collector reads pages, makes each *)
(* durable in its private stage, takes a snapshot of the world, freezes    *)
(* both in one package, publishes the package in several durable steps and *)
(* acknowledges it.  Its process may be killed between any two steps, and a *)
(* call may fail.                                                          *)
(*                                                                         *)
(* A game process that restarts is always followed by a memory restore,    *)
(* which starts a new timeline with an empty stage: one behaviour of this  *)
(* module is one timeline.                                                 *)
(***************************************************************************)
EXTENDS Naturals, Sequences, FiniteSets, FiniteSetsExt, SequencesExt

CONSTANTS
  MaxObservationEvents, (* the capacity of the ring                        *)
  PageLimit,            (* the most events of one page                     *)
  MaxPages,             (* pages of one drain                              *)
  MaxAttempts,          (* snapshots of one collection                     *)
  Nothing,              (* no package                                      *)
  MaxEvents,            (* bound: events the game reports by itself        *)
  MaxChanges,           (* bound: changes of the world                     *)
  MaxFaults             (* bound: kills and failed calls                   *)

ASSUME FeedBounds ==
  /\ { MaxObservationEvents, PageLimit, MaxPages, MaxAttempts } \subseteq Nat \ {0}
  /\ MaxObservationEvents <= PageLimit * MaxPages
  /\ { MaxEvents, MaxChanges, MaxFaults } \subseteq Nat

(* What is written to disk, and a page of the feed.                        *)
Numbers == Nat \ {0}
Gaps == [after : Nat, before : Nat]
Manifests == [cursor : Nat, through : Nat]
Packages ==
  [cursor : Nat, through : Nat, events : SUBSET Numbers, stable : BOOLEAN, bundle : Nat,
   incomplete : BOOLEAN, gap : Gaps \cup { Nothing }]
Pages ==
  [events : SUBSET Numbers, next : Nat, more : BOOLEAN, gap : BOOLEAN, after : Nat,
   revision : Nat]

(* Where a collection is: reading, or publishing what it has frozen.       *)
Reading ==
  { "drain", "stage", "bundle", "bundled", "probe", "reprobe", "freeze", "manifest" }
Publishing == { "gap", "events", "reconciled", "head", "capture", "acknowledge" }
Places == { "idle" } \cup Reading \cup Publishing

ASSUME NothingIsNone == Nothing \notin Manifests \cup Gaps

VARIABLES
  world,      (* changes of the fair world so far; also its revision       *)
  sampled,    (* the last change the timer has looked at                   *)
  produced,   (* the world an event tells of, for each event ever appended *)
  oldest,     (* sequence of the oldest event in the ring                  *)
  observed,   (* last_observed_action_revision                             *)
  collector,  (* memory of the collector's process                         *)
  stage,      (* the durable private stage                                 *)
  sidecar,    (* the package beside it                                     *)
  journal,    (* entries of the campaign journal                           *)
  head,       (* observation cursor and revision of the world head         *)
  captured,   (* cursors whose transition notices are durable              *)
  faults

gameVars == << world, sampled, produced, oldest, observed >>
diskVars == << stage, sidecar, journal, head, captured >>
vars == << gameVars, diskVars, collector, faults >>

Newest == Len(produced)

(* append_observation_event: the oldest event makes room for the new one.  *)
(* An event that tells of no change tells of the world 0.                  *)
OldestOf(events) ==
  IF Len(events) - oldest >= MaxObservationEvents
  THEN Len(events) - MaxObservationEvents + 1
  ELSE oldest

AppendEvent(change) ==
  /\ produced' = Append(produced, change)
  /\ oldest' = OldestOf(produced')

Idle(revision, cursor) ==
  [at |-> "idle", pages |-> 0, incomplete |-> FALSE, late |-> FALSE,
   attempt |-> 0, page |-> Nothing, bundle |-> 0, stable |-> FALSE,
   after |-> stage.after, revision |-> revision, cursor |-> cursor]

Init ==
  /\ world = 1 /\ sampled = 1
  /\ produced = << >> /\ oldest = 1 /\ observed = 0
  /\ stage = [after |-> 0, committed |-> 0, events |-> {}, gaps |-> << >>,
              manifest |-> Nothing]
  /\ sidecar = Nothing
  /\ journal = << >>
  /\ head = [cursor |-> 0, revision |-> 0]
  /\ captured = {}
  /\ collector = Idle(0, 0)
  /\ faults = 0

-----------------------------------------------------------------------------
(* The game.                                                               *)

(* The world changes, and only its revision tells.                         *)
Change ==
  /\ world <= MaxChanges
  /\ world' = world + 1
  /\ UNCHANGED << sampled, produced, oldest, observed, diskVars, collector, faults >>

(* semantic_observation_timer_proc compares the world with its last sample. *)
Sample ==
  /\ sampled < world
  /\ sampled' = world
  /\ AppendEvent(world)
  /\ UNCHANGED << world, observed, diskVars, collector, faults >>

(* A hook, a popup or a chat message appends an event of its own.          *)
Report ==
  /\ Newest < MaxEvents
  /\ AppendEvent(0)
  /\ UNCHANGED << world, sampled, observed, diskVars, collector, faults >>

-----------------------------------------------------------------------------
(* observation_feed_response.  The request itself appends an event when    *)
(* the revision is not the one of the request before.                      *)

FeedEvents == IF observed = world THEN produced ELSE Append(produced, 0)

Feed(after, limit) ==
  LET newest == Len(FeedEvents)
      first  == Max({ after + 1, OldestOf(FeedEvents) })
      last   == Min({ newest, first + limit - 1 })
  IN [events |-> first .. last,
      next   |-> IF first <= last THEN last ELSE after,
      more   |-> newest > last /\ first <= last,
      gap    |-> after # 0 /\ after + 1 < OldestOf(FeedEvents),
      after  |-> after,
      revision |-> world]

Asked ==
  /\ observed' = world
  /\ produced' = FeedEvents
  /\ oldest' = OldestOf(FeedEvents)
  /\ UNCHANGED << world, sampled >>

-----------------------------------------------------------------------------
(* The collector: one collect_once at a time.                              *)

Goto(place) == collector' = [collector EXCEPT !.at = place]

(* mutant: a restarted collector acknowledges what the head already shows  *)
BeginAcknowledging ==
  /\ collector.at = "idle"
  /\ LET cursor == IF collector.cursor = 0 THEN head.cursor ELSE collector.cursor
     IN collector' =
          [Idle(collector.revision, cursor) EXCEPT !.at =
             IF stage.manifest = Nothing THEN "drain"
             ELSE IF head.cursor >= stage.manifest.cursor THEN "acknowledge"
             ELSE "gap"]
  /\ UNCHANGED << gameVars, diskVars, faults >>

(* _collect_once_locked: a publication that was begun is finished first.   *)
Begin ==
  /\ collector.at = "idle"
  /\ LET cursor == IF collector.cursor = 0 THEN head.cursor ELSE collector.cursor
     IN collector' =
          [Idle(collector.revision, cursor) EXCEPT !.at =
             IF stage.manifest = Nothing THEN "drain"
             ELSE IF head.cursor >= stage.manifest.cursor THEN "capture"
             ELSE "gap"]
  /\ UNCHANGED << gameVars, diskVars, faults >>

(* _drain_native_feed asks for the next page ...                           *)
Drain ==
  /\ collector.at = "drain"
  /\ collector' = [collector EXCEPT !.at = "stage",
                                    !.page = Feed(collector.after, PageLimit)]
  /\ Asked
  /\ UNCHANGED << diskVars, faults >>

(* mutant: the stage takes the last sequence of the page without its gap   *)
StagedWithoutGap(page) ==
  [stage EXCEPT !.after = Max({ @, page.next }), !.events = @ \cup page.events]
(* mutant: the stage remembers the sequence to ask for next               *)
StagedNext(page) ==
  [stage EXCEPT !.after = Max({ @, page.next + 1 }), !.events = @ \cup page.events]
(* stage_native_observation_feed: the page, its gap and the cursor in one  *)
(* write.                                                                  *)
Staged(page) ==
  [stage EXCEPT
     !.after = Max({ @, page.next }),
     !.events = @ \cup page.events,
     !.gaps = IF page.gap
              THEN Append(@, [after |-> page.after,
                              before |-> IF page.events = {} THEN page.next + 1
                                         ELSE Min(page.events)])
              ELSE @]

(* ... and makes it durable before it asks for another.                    *)
Stage ==
  LET page == collector.page
      pages == collector.pages + 1
  IN /\ collector.at = "stage"
     /\ stage' = Staged(page)
     /\ collector' =
          [collector EXCEPT
             !.page = Nothing, !.pages = pages,
             !.incomplete = @ \/ page.gap,
             !.after = stage'.after,
             !.at = IF page.more
                    THEN IF pages < MaxPages THEN "drain" ELSE "idle"
                    ELSE IF collector.late THEN "reprobe"
                    ELSE IF \/ page.revision # collector.revision
                            \/ stage'.events # {}
                            \/ head.cursor = 0
                         THEN "bundle" ELSE "idle"]
     /\ UNCHANGED << gameVars, sidecar, journal, head, captured, faults >>

(* _bundle reads many pages; it is coherent when all have one revision.    *)
Bundle ==
  /\ collector.at = "bundle"
  /\ collector' = [collector EXCEPT !.at = "bundled", !.bundle = world]
  /\ UNCHANGED << gameVars, diskVars, faults >>

Bundled ==
  /\ collector.at = "bundled"
  /\ collector' =
       IF collector.bundle = world THEN [collector EXCEPT !.at = "probe"]
       ELSE IF collector.attempt + 1 < MaxAttempts
       THEN [collector EXCEPT !.at = "bundle", !.attempt = @ + 1]
       ELSE Idle(collector.revision, collector.cursor)
  /\ UNCHANGED << gameVars, diskVars, faults >>

(* _snapshot_matches_feed_cut, a feed request whose events are not staged. *)
Matches ==
  LET probe == Feed(collector.after, 1)
  IN /\ probe.events = {}
     /\ ~probe.more
     /\ ~probe.gap
     /\ probe.revision = collector.bundle

Probe ==
  /\ collector.at = "probe"
  /\ collector' =
       IF Matches THEN [collector EXCEPT !.at = "freeze", !.stable = TRUE]
       ELSE [collector EXCEPT !.at = "drain", !.late = TRUE, !.pages = 0]
  /\ Asked
  /\ UNCHANGED << diskVars, faults >>

(* mutant: after the late drain the bundle is taken to match               *)
ReprobeUnasked ==
  /\ collector.at = "reprobe"
  /\ collector' = [collector EXCEPT !.at = "freeze", !.stable = TRUE]
  /\ Asked
  /\ UNCHANGED << diskVars, faults >>

(* After the late drain the same snapshot is kept if a fresh probe agrees; *)
(* the last attempt publishes it as one that does not match.               *)
Reprobe ==
  /\ collector.at = "reprobe"
  /\ collector' =
       IF Matches THEN [collector EXCEPT !.at = "freeze", !.stable = TRUE]
       ELSE IF collector.attempt + 1 < MaxAttempts
       THEN [collector EXCEPT !.at = "bundle", !.late = FALSE, !.attempt = @ + 1]
       ELSE [collector EXCEPT !.at = "freeze", !.stable = FALSE]
  /\ Asked
  /\ UNCHANGED << diskVars, faults >>

-----------------------------------------------------------------------------
(* Publication.                                                            *)

Package ==
  [cursor |-> collector.cursor + 1, through |-> stage.after,
   events |-> stage.events, stable |-> collector.stable, bundle |-> collector.bundle,
   incomplete |-> collector.incomplete,
   gap |-> IF stage.gaps = << >> THEN Nothing ELSE Last(stage.gaps)]

(* begin_native_observation_publication: the package beside the stage ...  *)
Freeze ==
  /\ collector.at = "freeze"
  /\ sidecar' = Package
  /\ collector' = [collector EXCEPT !.at = "manifest", !.cursor = @ + 1]
  /\ UNCHANGED << gameVars, stage, journal, head, captured, faults >>

(* ... and then the manifest in it.                                        *)
WriteManifest ==
  /\ collector.at = "manifest"
  /\ stage' = [stage EXCEPT !.manifest = [cursor |-> sidecar.cursor,
                                          through |-> sidecar.through]]
  /\ Goto("gap")
  /\ UNCHANGED << gameVars, sidecar, journal, head, captured, faults >>

(* mutant: journal.append without the idempotency key                      *)
RecordedAgain(kind) ==
  Append(journal, [kind |-> kind, package |-> sidecar])

(* journal.append with an idempotency key made of the package's hash.      *)
Recorded(kind) ==
  LET entry == [kind |-> kind, package |-> sidecar]
  IN IF entry \in ToSet(journal) THEN journal ELSE Append(journal, entry)

(* _publish_frozen_observation: the gap and its attention item ...         *)
PublishGap ==
  /\ collector.at = "gap"
  /\ journal' = IF sidecar.gap = Nothing THEN journal ELSE Recorded("gap")
  /\ collector' = [collector EXCEPT !.at = "events", !.cursor = sidecar.cursor]
  /\ UNCHANGED << gameVars, stage, sidecar, head, captured, faults >>

(* ... the batches of deltas and events with their attention ...           *)
PublishEvents ==
  /\ collector.at = "events"
  /\ journal' = Recorded("events")
  /\ Goto("reconciled")
  /\ UNCHANGED << gameVars, stage, sidecar, head, captured, faults >>

(* ... the closing entry ...                                               *)
PublishReconciled ==
  /\ collector.at = "reconciled"
  /\ journal' = Recorded("reconciled")
  /\ Goto("head")
  /\ UNCHANGED << gameVars, stage, sidecar, head, captured, faults >>

(* ... and the world head.                                                 *)
ReplaceHead ==
  /\ collector.at = "head"
  /\ head' = [cursor |-> sidecar.cursor, revision |-> sidecar.bundle]
  /\ Goto("capture")
  /\ UNCHANGED << gameVars, stage, sidecar, journal, captured, faults >>

(* The notices of the transition are made against the new head.            *)
Capture ==
  /\ collector.at = "capture"
  /\ captured' = captured \cup { stage.manifest.cursor }
  /\ Goto("acknowledge")
  /\ UNCHANGED << gameVars, stage, sidecar, journal, head, faults >>

(* mutant: the manifest stays in the acknowledged stage                    *)
AcknowledgeKeepingManifest ==
  /\ collector.at = "acknowledge"
  /\ stage' = [stage EXCEPT !.committed = Max({ @, stage.manifest.through }),
                            !.events = {}, !.gaps = << >>]
  /\ collector' = Idle(sidecar.bundle, collector.cursor)
  /\ UNCHANGED << gameVars, sidecar, journal, head, captured, faults >>

(* acknowledge_native_observation_publication; the sidecar is removed.     *)
Acknowledge ==
  LET through == stage.manifest.through
  IN /\ collector.at = "acknowledge"
     /\ stage' = [after |-> Max({ stage.committed, through }),
                  committed |-> Max({ stage.committed, through }),
                  events |-> { n \in stage.events : n > through }, gaps |-> << >>, manifest |-> Nothing]
     /\ sidecar' = Nothing
     /\ collector' = [Idle(sidecar.bundle, collector.cursor) EXCEPT !.after = stage'.after]
     /\ UNCHANGED << gameVars, journal, head, captured, faults >>

-----------------------------------------------------------------------------
(* Faults.                                                                 *)

(* A bridge call or a write raises: the memory is rebuilt from the stage.  *)
Fail ==
  /\ collector.at # "idle"
  /\ faults < MaxFaults
  /\ faults' = faults + 1
  /\ collector' = Idle(collector.revision, collector.cursor)
  /\ UNCHANGED << gameVars, diskVars >>

(* The process is killed; another starts from the disk.                    *)
Crash ==
  /\ faults < MaxFaults
  /\ faults' = faults + 1
  /\ collector' = Idle(0, 0)
  /\ UNCHANGED << gameVars, diskVars >>

Collect ==
  \/ Begin \/ Drain \/ Stage \/ Bundle \/ Bundled \/ Probe \/ Reprobe
  \/ Freeze \/ WriteManifest \/ PublishGap \/ PublishEvents \/ PublishReconciled
  \/ ReplaceHead \/ Capture \/ Acknowledge

Next == Change \/ Sample \/ Report \/ Collect \/ Fail \/ Crash

Spec == Init /\ [][Next]_vars
(* The collector's thread polls for as long as it lives.                   *)
FairSpec == Spec /\ WF_vars(Collect)


-----------------------------------------------------------------------------
(* Properties.                                                             *)

Published == { n \in DOMAIN journal : journal[n].kind = "events" }
Events(n) == journal[n].package.events

(* The types of the state; the stage is never ahead of the ring.           *)
TypeOK ==
  /\ world \in Nat /\ sampled \in Nat /\ observed \in Nat /\ faults \in Nat
  /\ produced \in Seq(Nat) /\ oldest \in Numbers
  /\ stage \in [after : 0 .. Newest, committed : Nat, events : SUBSET (1 .. Newest),
                gaps : Seq(Gaps), manifest : Manifests \cup { Nothing }]
  /\ sidecar \in Packages \cup { Nothing }
  /\ journal \in Seq([kind : { "gap", "events", "reconciled" }, package : Packages])
  /\ head \in [cursor : Nat, revision : Nat]
  /\ captured \in SUBSET Nat
  /\ collector \in
       [at : Places, pages : Nat, incomplete : BOOLEAN, late : BOOLEAN, attempt : Nat,
        page : Pages \cup { Nothing }, bundle : Nat, stable : BOOLEAN, after : Nat,
        revision : Nat, cursor : Nat]

(* Crashes, failures and retries leave one journal entry for each          *)
(* publication, publications in the order of the ring, and no event in two *)
(* of them (the idempotency keys, the frozen package and the boundary its  *)
(* acknowledgement moves).                                                 *)
PublishedOnceInOrder ==
  \A m, n \in Published : m < n =>
    /\ journal[m].package.cursor < journal[n].package.cursor
    /\ \A e \in Events(m), f \in Events(n) : e < f

(* An event the collector has gone past is in a publication, or the        *)
(* publication that went past it carries a journalled gap; only events     *)
(* lost before the collector's first page are neither.                     *)
LossAnnounced ==
  \A s \in 1 .. stage.committed :
    \/ \E n \in Published : s \in Events(n)
    \/ \A n \in Published : \A e \in Events(n) : s < e
    \/ \E n \in DOMAIN journal :
         /\ journal[n].kind = "gap"
         /\ journal[n].package.through >= s
         /\ \A m \in Published : m < n => journal[m].package.through < s

(* A publication that claims a snapshot at the cut of its feed has no event *)
(* that tells of a world later than the snapshot, though the late drain    *)
(* keeps a snapshot taken before those events were read.                   *)
SnapshotCoversEvents ==
  \A n \in Published :
    journal[n].package.stable =>
      \A e \in Events(n) : produced[e] <= journal[n].package.bundle

(* A publication leaves the stage only when its head is installed and its  *)
(* transition notices are durable, whichever process finishes it.          *)
AcknowledgedIsCaptured ==
  \A n \in Published :
    \/ /\ stage.manifest # Nothing
       /\ stage.manifest.cursor = journal[n].package.cursor
    \/ /\ journal[n].package.cursor \in captured
       /\ head.cursor >= journal[n].package.cursor

(* Every event the game appends is at last behind the committed boundary:  *)
(* published, or announced as lost.                                        *)
EveryEventIsCommitted ==
  \A s \in 1 .. MaxEvents + 2 * MaxChanges + 1 :
    Newest >= s ~> stage.committed >= s
=============================================================================
