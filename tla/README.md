# A verification development for smacx-agent

smacx-agent plays *Sid Meier's Alpha Centauri* with language models. Around the
game it keeps a control plane in Python (one SQLite database, one append-only
journal for each timeline of a match), a web portal in .NET, and a bridge inside the
game's process. Processes are restarted by their containers, share state through the
database and the journal, and are written so that what one of them had begun is
repaired by another. This directory holds TLA+ models of the parts where that is
hard, what TLC checks of them, and proofs for five of them.

Reproduce with `tlc -config <name>.cfg MC<module>.tla` and
`tlapm <module>Proofs.tla`; `PROJECT.json` lists every run, what a seeded
bug in each property's code would break (mutants), and the lines of the source each
definition stands for.

## 1. The system

Paths are relative to the repository. `S` is `src/smacx_specialists.py`, `V` is
`src/smacx_specialist_supervisor.py`, `A` is `src/smacx_attention.py`.

| Component | State it keeps | Operations | Hard because | Correct when |
|---|---|---|---|---|
| Specialist missions (`S`) | missions, attempts, snapshot pins, result events | commission, cancel, retry, begin, heartbeat, validate, accept, fail, expire, reconcile | four processes, no lock, one transaction at a time; crash between any two | one result, journalled first, final; every mission ends; pins follow missions |
| Specialist supervisor (`V`) | futures, children, stop event | housekeeping, admission, one thread for each attempt | threads outlive the missions they work for | concurrency limits; every child ends; restart finds the work again |
| Attention queue (`A`) | items, heads, leases, sovereign authority | enqueue, lease, restrict, placed, responded, acknowledge, abandon; acquire, renew, release, cancel | request threads outlive requests; leases expire while in use; tokens only in memory | at least once; nothing early; acknowledged means shown; critical items are shown |
| Runtime-context server (`src/smacx_mcp.py`, `src/smacx_runtime_context.py`) | episode tokens in memory | build a context, take the response marker, end the episode | restart loses tokens, not leases | a lost token never strands an authority |
| Strict-prompt harness (`harness/smacx_strict_prompt.py`) | current episode and lease | fetch, mark, end | every request can time out | never acts on an authority it lost |
| Campaign journal (`src/smacx_journal.py`) | event files, manifest, idempotency markers, catalog | append, recover, fork, verify, archive | crash between any two renames; appends of several processes | one event per key, contiguous hash chain, acknowledged append survives |
| World store (`src/smacx_world_store.py`) | projection, heads, snapshots, pins | replace projection, snapshot, pin, collect | files and rows are not one transaction | a pinned snapshot's file exists |
| Observation collector (`src/smacx_observation.py`, stage in `src/smacx_world_store.py`) | memory cursors, durable stage, frozen package | drain, stage, snapshot, freeze, publish, capture, acknowledge | crash between any two durable steps; the ring overflows and the world changes while it reads | each bridge event journalled once and in order, or announced as lost; at last committed |
| Worker manager (`src/smacx_worker_manager.py`) | instances, checkpoints | start, stop, park, recover, restore | Docker calls are not transactional | a restored match runs on one timeline |
| Harness manager (`src/smacx_harness_manager.py`) | provider runs | start, stop, reconcile | desired and actual state | at most one provider for each seat |
| Cognitive operations, control plane server, controller | plans, settings, choices | request handlers | retries of tool calls | a choice is executed at most once |
| Graphiti projector, provider meter | cursors, usage counters | project, meter | external services | each event projected; headroom never overdrawn |
| Portal (`portal/`) | controller leases, votes, match state | lease, vote, pause, resume | two human controllers; reconnects | one controller for each seat |
| Game bridge (`bridge/src/agent_bridge.cpp`) | one request slot, deferred identifiers, one receipt, event ring, unit handles | store, post, take, publish, time out; queue, start and finish a native action; sample, feed | the UI thread is re-entered from inside native calls; requests time out and are executed later | executed at most once, own answer, true receipts, nothing stranded |
| Thinker's unit array (`bridge/src/veh.cpp`) | rows, links of each tile's stack, tile bits | init, put, load, sort, fix, board, wake, kill | rows move when a unit dies; row numbers are kept in links, orders and handles | every reference stays with its unit |
| World model, mechanics, prompts, doctrine, knowledge service, UI, packaging | pure data | computations, static pages | large tables | unit tests |

How they meet: the sovereign (the provider's agent loop in the harness) asks the
runtime-context server for a context before each provider request; the context holds
the attention it is leased. Through the MCP tool server it commissions specialist
missions, whose supervisor runs a child process for each attempt and puts a
completion notice into the attention queue. The collector turns bridge events into
journal events, a world projection and attention. The control service can restore a
checkpoint: it forks the journal, activates a new timeline, cancels the missions of the
others and discards their queues. Everything but the journal files and the snapshots
is in the database; a SQLite transaction is the only thing that is atomic.

## 2. Modules

| Module | What it is |
|---|---|
| `SpecialistMissions` | missions, attempts, pins, result events and notices; the tool server, the supervisor's main thread and attempt threads, the restore; crash, stop, lost callers |
| `SpecialistPublication` | the abstract specification of publication: choose once, record, show, or close |
| `SpecialistMissionsProofs` | TLAPS proofs about `SpecialistMissions`: its inductive invariant, publication and its finality |
| `SpecialistPublicationProofs` | on it: `SpecialistMissions` implements `SpecialistPublication`; live attempts, notices, pins |
| `AttentionLease` | the attention queue of one perspective, its leases and the sovereign's authority; the request threads of the context server, the provider process, expiry and loss |
| `AttentionLeaseProofs` | TLAPS proofs about `AttentionLease` |
| `CampaignJournal` | the append-only journal of one perspective: event files, manifests, markers, catalog, the caches of each process; append, recovery, replay, fork, archive; a process killed or a write that raises between any two files |
| `EventLog` | the abstract specification of the journal: lists that grow at their end, one event per key, answers only for what is recorded |
| `CampaignJournalProofs` | TLAPS proofs about `CampaignJournal`: its inductive invariant and the refinement of `EventLog` |
| `CampaignReplayProofs` | on it: what timelines inherit, the replays kept in memory, backups |
| `BridgeRequests` | the request slot of the bridge: pipe worker and UI thread, window messages, nested native calls, deferred actions, their one receipt, the end of turn |
| `BridgeRequestsProofs` | TLAPS proofs about `BridgeRequests`: its inductive invariant, requests, answers, revisions; the receipt, for operations that exclude each other |
| `ObservationFeed` | the ring of native events, the collector that drains it, its durable stage and the publication of a frozen package |
| `ObservationFeedProofs` | TLAPS proofs about `ObservationFeed` |
| `UnitStacks` | the abstract specification of the unit array: a stack of units for each tile, boarded units, handles |
| `UnitTable` | the unit array itself: rows, links, tile bits, loading, sorting and the compaction after a death, with the bridge's handles |
| `UnitTableProofs` | TLAPS proofs about `UnitTable`: what each operation does to the ranking of a stack, lists that stay lists, the order of a fixed stack, the refinement of `UnitStacks` |
| `MCSpecialistMissions`, `MCAttentionLease`, `MCCampaignJournal`, `MCBridgeRequests`, `MCObservationFeed`, `MCUnitTable` | symmetry sets for TLC, and the view the journal is explored under |

### 2.1 SpecialistMissions

State. `mission[m]` is a row of `specialist_missions` (a commission that has pinned its
snapshot and not yet inserted its row is `draft`, one that gave up is `dropped`);
`chosen` is `accepted_attempt_id`, `verdict` the result's status, `filed` the timeline
`completion_journal_sequence` belongs to, `count` is `attempt_count`, `view` whether the
snapshot column is set, `due` whether the deadline (or, of a failed mission, the
manual-retry horizon) has passed. `attempt[a]` is a row of `specialist_attempts`:
`mine` whether `runtime_owner` is the current supervisor process, `fresh` whether
the heartbeat has not expired. `journal` holds the result events with the timeline they
were appended to, `notices` what was ever put in the attention queue.

Steps. One action is one transaction, journal append or queue write, so that a process
may be lost and any other may run between two of them. A program counter stands for
what a thread has done: `worker[a].pc` for `_run_attempt` and `accept_attempt`,
`main.pc` for housekeeping and the main loop, `restore.pc` for the control service,
`closing` for a cancel that has committed and not yet unpinned, `asked` for a retry that
has made its reads.

Merged or left out, and why nothing is lost:
- `accept_attempt` reads mission, attempt, timeline and epoch in several reads before its
  first write; `CheckResult` takes them at once. Each of them may change right after
  `CheckResult`, before `Prepare`, which is where a later read could have differed.
- counting the active missions and beginning an attempt are one step: only the main
  thread, which does both, ever makes the count grow.
- `cancel`'s unpin and journal event are one step (no code reads that event back); so are
  the notice and the journal event of `fail_attempt`; the event of `commission` is left out.
- `starting` and `running` are one status; no guard tells them apart.
- what a result depends on, schema repair and budgets are free choices (`Visible`,
  `Mishaps`); the round-robin order among seats is left out, any admissible mission may
  be begun.
- deadlines and heartbeats are Booleans that the environment flips.

### 2.2 AttentionLease

State. `item[i]` is the row with `attention_sequence` i; `critical` stands for
the whole sort key before the sequence (critical, then priority); `lease[l]` is a row of
`attention_leases` with its `attention_lease_items`; `through_cursor` is always the
highest listed item and therefore not a variable; `sovereign` is the row of
`sovereign_leases`; `tokens` is the in-memory `RUNTIME_EPISODE_TOKENS`; `build[e]` the
thread that serves the current context request of an episode; `posts` and `answers` are
response markers sent and not handled, and handled by half: `responded` is two
transactions. `shown` and `delivered` are history: what the provider has been given.

Abstracted: a producer's duplicate check and insert are one step, though the code
checks outside the transaction (listed among the hazards, not covered); journal,
telemetry and the text of items are left out; `superseded` is never written by the code;
how many items fit a context is a free choice of a leading part (`_bounded_attention`
stops at the first item that does not fit); the owner check against `harness_runs` is
one of the reasons of `BuildFails`; an episode has one request in progress (the
harness waits for the answer); ids of episodes and leases are used again once nothing
refers to them, which keeps the state space finite although the code's ids are fresh.

### 2.3 CampaignJournal

State. `events[t]` is the directory of event files of timeline t, `manifest[t]` its
`manifest.json` (sequence, head, parent, fork), `marker[t]` its `idempotency/` directory,
`catalog[t]` its row in the `campaign.json` of the match. `memo`, `index` and `cache` are
`_recovered_heads`, `_idempotency_event_index` and `_replay_cache` of each process, which
has a `CampaignJournal` of its own. `proc[p]` says where in which method a process is, on
which timeline. `active` is the match's `active_memory_timeline`; `serves[p]` is the
timeline the process has last resolved and may lag behind it, as a collector's does.
`answered` and `refused` are history: events whose append has returned them, and whether a
method ever raised that the journal is broken.

Steps. A step is one file that `_atomic_json` installs, with what the process changes in
its memory between that file and the next. Between two steps the process may be killed
(`Crash`: its caches are lost) or the write may raise (`Raise`: they stay); either lets go
of its locks. `Unlocked` and `InRoot` are the three locks: the root's shared, or
exclusive for `archive_to`, and the timeline's. A method waits for both before it reads
anything, so waiting is no state, and takes them in one order, so that waiting cannot
become a cycle; the lock of the catalog is held for one step only.

What an abstraction here rests on:
- an event's hash is its id, and covers the chain before it: `Chained` compares ids.
- an event directory's modification time is the number of its files: every file that is
  added changes it. (A file system with a coarse clock may break that; see the hazards.)
- `fork_timeline` is called, by the restore, with a fresh id for the child and with the
  head to fork at; its branch for a child that exists is not reached. The check of the head
  and the child's manifest are one step, because the part of the parent it looks at never
  changes. The restore's replay of the child and its change of the active timeline follow
  under `ReplayFork` and `Materialize`.
- the limit of the caches (2 entries for `memo` and `index`) is not reached with two
  timelines; evidence events, the notebook of a perspective, damaged files and loss of power (which
  `fsync` is for) are left out.
- a key belongs to a timeline: the code lets a child append a key that the inherited part
  of its parent has, and so does the model.

### 2.4 BridgeRequests

State. `slot` is what `request_lock` guards (`pending_*`, `request_in_progress`,
`response_*`) and the response event; `worker` the pipe worker between two of its critical
sections; `messages` the window messages of the game's window; `stack` the frames on the
UI thread, innermost first: a request in execution or a native call, which may be running
or in a dialog. `barrier` is `native_move_on_stack`, `queued` the kinds whose
`deferred_*` identifier is set, `sent` `deferred_development_sent`, `endTurn` the
deferred end of turn with its timer, `action` the one `deferred_action` receipt,
`generation` `semantic_mutation_generation`. `history` is history: executions of each
request, what each action's own native call said, the revisions accepted.

Steps. A critical section, a message retrieved, a native call entered or left is one step.
The UI thread is one thread: a step of it belongs to the innermost frame, or is a message
that this frame's pump retrieves (`Pumping`): a native call pumps while it shows a dialog or
animates, a request never does. The end of a barrier posts the request message again; wait tasks need no message
(`WaitTask`). A request that timed out stays in the slot, or on the stack, until the UI
thread gets to it, and the next one replaces it under the lock.

Abstracted: what a command does to the game, other than the receipt, the revision and
the turn; a revision is the tuple of the values the guard of `validate_semantic_guard`
hashes that this module has; a game is a network game or not for good, which decides the
commands offered (`Offered`), so that a disband and a development are never queued
together and the early return for a development already sent cannot be reached by a further
message; `agent_bridge_stop` and an empty request line (which would leave
`request_in_progress` set; no client sends one) are left out.

### 2.5 ObservationFeed

State. The game: `world` counts changes of what the seat may see, `sampled` is what
`semantic_observation_timer_proc` has compared with, `produced` every event ever appended
with the change it tells of, `oldest` the first one still in the ring, `observed`
`last_observed_action_revision`. The disk: `stage` is the private stage (events, gaps,
`after`, `committed`, the manifest of a publication begun), `sidecar` the frozen package,
`journal` its entries under their idempotency keys, `head` the world head, `captured` the
durable transition notices. `collector` is the memory of the collector's process and where
in a pass it is.

Steps. One step is one request to the bridge, or one durable write; `Fail` and `Crash` fall
between any two. Publication is four durable steps before the acknowledgement (`PublishGap`,
`PublishEvents`, `PublishReconciled`, `ReplaceHead`) and `Capture`; a restarted collector
goes on with the frozen package. A game that restarts is always followed by a restore,
which starts an empty stage on a new timeline: a behaviour is one timeline. Batches of
events are one entry each, their order within a package is the order of the ring.

### 2.6 UnitTable and UnitStacks

`vehs` is `Vehs[0 .. *VehCount - 1]`, each row with its unit (an identity the code does not
have), its place, its two links and its order; `inTile` is `BIT_VEH_IN_TILE`; `handles`
and `nextHandle` are the bridge's. The table operations are functions of array and bits,
in the code's order, one operator for one function; an action is one call by the rest of
the game. The places off the map that `veh_lift`, `stack_veh` and `stack_sort` use are
places like others here. A walk along the links is `Path`, the list of the rows met from one
row on, defined by recursion on the number of rows: a loop in the links would make
it as long as the array and no longer. A loop of the code over a stack (`stack_put`, `stack_sort`, `stack_veh`) walks the
list taken before its first step: what it puts aside goes above all it has not met yet, and
leaves their links down alone. `UnitStacks` knows neither rows nor links: for it a stack is
the set of units under each of its units, and a step says which of these sets change.
`UnitTable` implements it by reading those sets off the links.

Left out: air units and carriers of air units, `stack_sort_2`, other factions on the tile,
`VSTATE_IN_TRANSPORT` outside the call that sets it, `rebuild_vehicle_bits` (which does
nothing while `StacksAreWhole` holds), the interface's own row references
(`MapWin->iUnit`, `*CurrentVehID`). Which units a computer's plan sends along is a
free choice (`willing`).

## 3. What TLC checks

Specialist missions (`MCSpecialistMissions`, missions and attempts symmetric):

| Run | Question |
|---|---|
| `publication` | one result, journalled before it is visible, final; one live attempt; a notice only of what is shown; implements `SpecialistPublication`. Two timelines, two attempts, a kill or stop or lost caller |
| `retention` | the pin of a mission that may run is kept; two missions of two seats, manual retry, sweep, duplicate commission |
| `ending` | every mission ends and is announced, under fairness, across one fault and a restore whose own revocation may abort |

Attention (`MCAttentionLease`, episodes and leases symmetric):

| Run | Question |
|---|---|
| `attention_delivery` | nothing shown early, nothing lost before it is shown, nothing unseen acknowledged; two items, one fault |
| `attention_shown` | a critical item is shown although a context may have room for one only; when no request times out an acknowledgement is final and the cursor truthful |

Journal (`MCCampaignJournal`, processes and keys symmetric):

| Run | Question |
|---|---|
| `journal` | nothing refused after any death, one event per key, what was answered is durable, a kept replay is exact, an archive is whole; implements `EventLog`. Two processes, two timelines, three events, one fault |

Bridge, feed and units (`MCBridgeRequests`, `MCObservationFeed`, `MCUnitTable`):

| Run | Question |
|---|---|
| `bridge_slot` | executed at most once, own answer, one revision accepted once; five requests with disbands, moves and snapshots |
| `bridge_receipts` | a completed receipt is true, pending actions exclude each other, what is in the slot or queued is taken, an answer to a dialog is taken; three requests of six kinds |
| `feed` | each event published once and in order or announced as lost, a stable snapshot covers its events, acknowledged means captured; every event is committed at last. A ring of two, one change, one fault |
| `units` | links, bits, transports and handles stay with their units while rows move; implements `UnitStacks`; peers get one order. A transport and two land units, two tiles |

The journal is explored under a `VIEW` that forgets cache entries nobody can use: an
entry whose signature, file count or head is no longer the last one of its directory
fails the comparison before every use, and cannot match again, for files only get more;
and an entry of a timeline which the process will not resolve again. States that differ only in
those count as one, with `ReplayIsExact` checked of the one that was reached first.

Bounds. Two attempts are needed, and enough, for a superseded attempt to race its
successor: the code's races are between one late attempt and the current one. One mission
shows every race inside a mission, for missions meet only in the limits, the duplicate
commission and the lists the repair works through; `retention` has two of them, in two
seats. Liveness is checked with one attempt and a restore; with two attempts and automatic
retries, and no restore, `EveryMissionEnds` and `CompletionDelivered` hold too (48 s), but the
product of fault, retry and restore is out of reach. Two timelines are one restore. Two attention items are needed for an order, a
partial acknowledgement, an omission, and a cursor that could skip; two episodes and two
leases for a stale thread beside a current one. Of the journal, two processes are one
whose caches are stale and one that made them so; three events are one before a fork, one
torn by the fault and one that meets it. One fault falls between any two steps.
Of the bridge, three requests
are one that is late, one that queues and one that polls or answers; with four (moves and
obliterations) the receipts hold as well. Of the ring, two events are enough to
overflow between two pages; three events with pages of two, two changes and two faults hold as well. Of
the units, three are a transport, its cargo and one that is not; one row can
then die above, between and below the others.
The proofs of section 4 hold without these bounds. Ids run out under them; where that
stops the system the configuration says `CHECK_DEADLOCK FALSE`.

Fairness. Of the supervisor: its process is restarted (`compose.yaml`,
`restart: unless-stopped`), its threads run, a child ends at its deadline at the latest
because the thread kills it, wall time passes, and a call that began goes on. Expiring
and beginning are strongly fair, for each iteration of the loop tries them and
housekeeping only keeps interrupting. Nothing is assumed of the sovereign, of the restore
or of faults. Of attention: the request threads and the provider's loop run, leases
expire, and the sovereign acknowledges a whole batch time and again
(`critical_attention_requires_review` refuses to end its turn before); a context has room
for the first item at least (`MinimumRoom = 1`). Of the bridge: the worker and the UI thread
run, native calls return and a dialog that was answered is left; no deadline has to pass,
no dialog has to open and no client has to write. Of the feed: the collector polls.

### Where the code and its documentation differ

Each is a run that must fail; `PROJECT.json` quotes the sentence and the lines.

| Run | What happens |
|---|---|
| `stranded` | an item omitted from a lease handed out again after a response belongs to no lease and is not queued |
| `bridge_answer_starved` | a dialog of a native move waits for an answer that the move's own read barrier keeps in the slot |

Smaller ones were seen with the same models and have no run of their own:
- housekeeping can take the pin of a commission in progress for an orphan: the snapshot is
  pinned before the mission has a row, and `gc_orphaned_specialist_snapshot_pins` looks for rows.
- `accept_attempt` reads the timeline once, before its compare-and-swap: a restore between the two does not
  cancel the late publication (docs/specialists.md says it does).
- `responded` is two transactions; when its request was given up after five seconds and the
  sovereign acknowledged meanwhile, the late second one makes acknowledged items responded again.
- two disbands can be pending at once: `deferred_native_action_pending` does not look at
  `deferred_disband_unit_id`, and the first one's return writes the receipt of the second.
- a pass that staged a gap and failed leaves the gap to the next pass, which journals it but
  reports the continuity of its own drain (docs/strategic-world.md); of two gaps in one window only the last interval is journalled.
- "exactly one running child per sovereign seat" (docs/specialists.md) holds of active
  missions, not of children: a seat's next child may start while the cancelled one still
  runs, until its thread's next poll.
- `reconcile_terminal_attention` announces a failed mission again as `failed`, after
  `fail_attempt` announced it under its type (`timed_out`, `orphaned`).
- a caller lost between `cancel`'s transaction and its unpin leaves the pin for ever; no
  sweep looks at cancelled missions.
- an attempt whose superseded predecessor's result was published keeps its row `running`.

## 4. What is proved

`SpecialistMissionsProofs`, for all values of the constants that satisfy the three
assumptions of `SpecialistMissions` (finite bounds, NULLs outside the id sets):

- `TypeCorrect`: `Spec => []TypeOK`
- `PublicationCorrect`: `Spec => []PublicationFollowsJournal`
- `OneResult`: `Spec => []OneResultPerMission`
- `EndIsFinal`: `Spec => EndedIsFinal`

They rest on `Invariant`: `Spec => []IInv`. None of the safety properties is inductive
by itself, because what a thread does next depends on what it remembers from an earlier
transaction. `IInv` says what that memory is worth: a thread past its
compare-and-swap knows the mission's chosen attempt to be its own and its verdict to be
what it says, for a chosen attempt is never replaced; a thread past its append finds its
event in the journal on the timeline it remembers; the same for the repair's
`main.item`; every journal event names the attempt chosen for its mission; a mission with
a status of its result has it chosen and filed. Each action is a lemma or a named step;
under it, one step for each part of `IInv` it can disturb. `EndIsFinal` needs the
invariant too: an ended mission is left alone because the two steps that write a result
look for `active`, and because a chosen mission cannot be chosen again.

`SpecialistPublicationProofs` adds, from the same `IInv`:

- `MissionsImplementPublication`: `Spec => ImplementsPublication`
- `LiveAttempts`: `Spec => []OneLiveAttempt`
- `NoticesTruthful`: `Spec => []NoticeFollowsPublication`
- `PinsKept`: `Spec => PinKeptWhileRunnable`

The abstract specification has one mission; the refinement is shown for each. A step
that changes what it sees of a mission (status, chosen, verdict) changes no other
mission. The compare-and-swap is `Choose` (`PrepareImplements`), the append is `Record`, and what
changes a status shows what was chosen and recorded or closes what was not
(`StatusImplements`, `UnchosenInv`): `IInv` tells the thread that shows from a late one. `OneLiveAttempt` and `NoticeFollowsPublication` are inductive beside
`IInv`; what they need is that a thread's publication ends its own attempt and no other, and
that what it announces is what it remembers of a mission that has filed it. `PinsKept` needs
`EndedInv`: whoever is about to unpin has ended the mission, or has seen it end.

`AttentionLeaseProofs`, for all values of the constants that satisfy the assumptions of
`AttentionLease`:

- `Invariant`: `Spec => []IInv`
- `NothingEarly`: `Spec => []NothingShownEarly`
- `NoneLost`: `Spec => []AtLeastOnce`
- `NoneAcknowledgedUnseen`: `Spec => []AcknowledgedWasShown`
- `MarkerKeepsAcknowledgement`: `Spec /\ Faultless => AcknowledgementFinal`
- `CursorIsTruthful`: `Spec /\ Faultless => []CursorTruthful`

An id is all a provider or a late request keeps of a lease, and a lease's list shrinks, and a
lease of the same episode is handed out again. `IInv` therefore says what an id is worth: who
has seen it was shown everything the lease still lists (`ShownInv`), since a thread that
places a lease has already taken out of it what its context had no room for
(`ThreadInv`); a leased item is in a live lease, an answered one was shown (`HeldInv`).
The last two theorems are false without their hypothesis `Faultless`, `[](faults = 0)`:
a marker that was given up and applied late takes an acknowledgement back (section 3). They
say of all behaviours with no lost process and no refused or timed-out request, whatever
`MaxFaults` is, what the run `attention_shown` checks with `MaxFaults = 0`. There the provider waits for its marker
(`MarkerInv`), one thread works at a time and for it (`OneThread`), a placed lease is the
provider's (`PlacedInv`), an episode that goes on has no other lease (`NoLeftover`), and so
a lease that a marker can still reach lists nothing acknowledged (`Unmarked`).

`CampaignJournalProofs`, for all values of the constants that satisfy the assumptions of
`CampaignJournal` (finite bounds, NULLs outside the sets they are NULLs of):

- `FilesImplementLog`: `Spec => ImplementsEventLog`
- `NeverRefused`: `Spec => []NothingRefused`
- `KeysAreUnique`: `Spec => []OneEventPerKey`
- `AnswersAreDurable`: `Spec => []AnsweredIsDurable`

Again one `Invariant`: `Spec => []IInv`. That no key has two events cannot be seen from
the files alone. It takes that a process which is about to install knows the key to be
new (`Knows`), which it knows from its index; that an index which has seen as many files as
there are names each of them (`IndexInv`), although other processes wrote some; and that
nobody else is in the timeline meanwhile (`LocksInv`). That recovery refuses nothing takes
that the files of a timeline are a chain with the manifest's head in it (`FilesInv`) and, where
recovery is skipped, that what is remembered was recovered (`MemoInv`). The lemmas about
chains (`ChainExtended` above all) are about sets of events and know nothing of the
protocol. The refinement then has one interesting step, `Install`, which is `Record`: its
proof is that the new file comes last in the sequence, with an id and a key that the list
does not have.

`CampaignReplayProofs` adds:

- `TypeCorrect`: `Spec => []TypeOK`
- `ReplaysAreExact`: `Spec => []ReplayIsExact`
- `ArchivesAreWhole`: `Spec => []ArchiveIsWhole`

What a replay shows of a timeline's parents, `Inherited`, is a recursive function of the
manifests. An induction theorem cannot be cited for it (its predicate is an operator),
but the least-number principle can (`LeastNumber`, from the library's
`WFMin`): the shortest table of the recursion that does not exist would extend a shorter
one (`TableExists`), and two tables cannot differ first at any depth. From that, no step
changes what a known timeline inherits: its parent and its fork stay, the fork is a head
the parent has (`LineageInv`), and an append only adds events behind a parent's head. Depths are
bounded because there are finitely many timelines (`TimelineAssumption`). A kept replay is
extended only from the head the append extended, so it stays exact. For the
backup: it finds nobody inside a timeline (`AloneInv`), a timeline not yet forked has no
files (`UnusedInv`), and until something fails, what a timeline's files lack is what its
holder is about to write (`WholeInv`).

`BridgeRequestsProofs`, for all values of the constants that satisfy `RequestBounds`:

- `TypeCorrect`: `Spec => []TypeOK`
- `RequestsExecutedOnce`: `Spec => []ExecutedOnce`
- `AnswersAreOwn`: `Spec => []AnsweredByItself`
- `RevisionsAcceptedOnce`: `Spec => []AcceptedOnce`

`IInv` is the types and what the thread's frames, the slot and the worker know of each
other. A request never pumps messages, so only the innermost frame can be one (`Nested`),
and it is in progress exactly when the slot says so (`InProgressInv`); the worker waits for
the newest request only (`WorkerInv`), so a response with its number is its own
(`ResponseInv`); a request is executed when its frame is past `taken`, and a pending one was
not executed yet unless it is that frame's (`ExecutionInv`); every accepted revision has a
generation below the next (`AcceptedInv`), which is why no guard accepts it again.

Of the receipts (second part of the module), for all operations and dialogs that satisfy `OneAtATime`, and any number of
requests and dialogs:

- `ReceiptsAreTrue`: `Spec => []CompletedIsTrue`
- `NoneBegunWhilePending`: `Spec => OneBlockingAction`

`OneAtATime` excludes what breaks them. The pending gate does not look at the disband's
identifier. And a kind that clears its identifier before its native call (`ClearedFirst`)
without the barrier of a move must not pump messages: while a probe or a missile animates, or a
dialog of a council, a staple or a diplomacy is open, no identifier says so, and a client that
took a snapshot inside may command again. TLC finds both properties violated for a probe and a move
within five requests. Moves, developments, destroy and obliterate orders, with or without dialogs, and
the end of turn satisfy it, and so does the run `bridge_receipts`.

`ReceiptInv` says that there is one action and where it is: queued, with at most one
deferred message (`MessageInv`), or in the innermost native call (`CallInv`; below it
are end turns only, `DeepInv`), or the pending end turn (`EndTurnInv`); and the receipt
has its identifier each time. A request nested inside an action's call is barred or sees its
identifier (`InsideInv`), so an accepted command finds nothing going on (`AcceptedAlone`),
and every return writes its own receipt. That nothing is pending then is not a matter of identifiers alone: an
end turn that is over stays pending on its receipt until somebody refreshes it, and the command that refreshes is
already accepted. What excludes it is the revision: a snapshot refreshes before it is taken, so
no revision that anyone knows is of this turn and shows the receipt of a turn that is over (`SeenInv`), and
a turn that returned uncommitted was refused on the spot (`TurnInv`).

`ObservationFeedProofs`, for all values of the constants that satisfy `FeedBounds` and
`NothingIsNone` (the NULL is neither a gap nor a manifest):

- `TypeCorrect`: `Spec => []TypeOK`
- `PublicationsInOrder`: `Spec => []PublishedOnceInOrder`
- `LossesAnnounced`: `Spec => []LossAnnounced`
- `SnapshotsCover`: `Spec => []SnapshotCoversEvents`
- `AcknowledgedCaptured`: `Spec => []AcknowledgedIsCaptured`

The first fact of `IInv` is that a publication once begun stands still: from
the manifest to the acknowledgement the stage is what the sidecar froze (`FrozenInv`), for
the collector reads only while nothing is begun (`PlaceInv`). A journal entry is then of
the frozen package or of one that is over: captured, in the head, behind the committed
boundary (`PublishedInv`), and so the one step that publishes cannot repeat an event. For
losses, the events between the boundary and the stage's cursor are staged, or the stage
has a gap, or nothing older was ever seen (`StagedInv`). A page waiting in memory keeps
that (`PageInv`, from `PageOfFeed` about `observation_feed_response`), and the gap is in
the journal before the publication that moves past it (`JournalledInv`): with the strict
order of publications, `AcknowledgedLoss` follows. `MemoryStep` takes all steps that leave
the disk alone at once. `FeedBounds` asks that pages of one drain can hold the ring; the
proofs of safety need only that the limits are positive.

`UnitTableProofs`, for all values of the constants that satisfy `UnitBounds` and
`OffMapIsNoTile` (the coordinates below zero are those of no tile):

- `TableIsArranged`: `Spec => []Arranged`
- `StacksStayWhole`: `Spec => []StacksAreWhole`
- `FixedOrderHolds`: `Spec => FixedOrderIsOfTheArray`
- `TableImplementsStacks`: `Spec => ImplementsUnitStacks`, the refinement of `UnitStacks`

`StacksAreWhole` is not inductive: two rows of a tile that point at each other have every
link answered, and the next lift leaves a row nobody can reach. The invariant `Arranged`
asks that some ranking of the rows exists in which a row's links lead to the next rank of its
place, up and down (`Linked`); the same holds of the places off the map in the middle of a call. The
ranking is what makes a walk end (`PathEnds`: ranks grow along it, so it has no more steps
than there are rows), stay on its tile (`PathStays`) and meet all of it in order
(`PathCovers`, `StackFromIs`, `VehTopIs`). Every operation is then described by the ranking
it leaves, never by links: a lift keeps it (`LiftRanked`), a drop ranks its unit above all
(`DropRanked`), `veh_demote` below the last (`VehDemoteIs`), a death closes one rank up while
rows and links are renumbered (`VehKillIs`). A loop of the code is an induction over the
table it has after k steps: such a table exists (`LoopExists`, from the least-number
principle `LeastRow`), and carries what was said of each step, the order of the moved among
themselves turned over (`PutEachIs`), the carriers above the rest (`StackSortIs`), the rows
promoted so far above those still to come (`FixOrderGrows`), those already killed gone
(`StackKillIs`). The order of a fixed stack is `FixOrder` after the last row.

The refinement reads the abstract state off an arranged table: with one row for a unit
(`Listed`, the invariant of that proof) a unit's tile, the units under it, its transport and
its handle are determined by the rows and the ranking alone (`IsTile`, `IsUnder`,
`IsBoarding`, `IsNaming`, `OneView`), so a call is understood from the ranking it leaves. Units that
go to a place together leave the others in order and are on top of it in some order
(`LeavesIs`); what `stack_fix` and `stack_sort` leave is an order `UnitStacks` allows
(`FixedStack`, `SortedStack`); a death takes one unit out of every view and disturbs no
other, rows, links and handles renumbered (`KillDies`), and the deaths of a loop add up
(`DeathsTwice`, `StackDies`). There is one lemma for each call (`PutMaps` to `ObserveMaps`),
and `CallMaps` puts them together.

Only model-checked: liveness of every module (the prover has no `ENABLED`).

## 5. What would come next

In this order; each with its own MC module, runs, mutants and map:

1. `ParkRestore`: park, recovery and memory restore of the worker manager, composed with
   the restore of `SpecialistMissions`.
2. `HarnessReconcile`, `ControllerLease`, `ChoiceExecution`, `ProviderMeter`,
   `GraphitiProjector`, `MatchGovernance`.
3. Of the engine: the goal table (`goal.cpp`) and the tile search (`path.cpp`), as pure
   algorithms against a reference definition.

## 6. Not modelled

Most of the lines in `bridge/src` are not the program's own protocol: they are the Thinker
patch of the game (AI plans, production, movement costs, combat, map generation, dialogs, addresses
and structures of the executable), sequential computation over data whose meaning is in a
binary that is not in the repository, and, in `agent_bridge.cpp`, some three hundred queries
and commands that print game data as JSON. What of it has state that outlives a call and can
go wrong in an order nobody tested, the slot, the deferred actions, the event ring, the
handles and the unit array, is modelled; the rest would be a transliteration of
tables. The map therefore covers a small share of those files, and most of the
definitions stand for the Python services.

The world model, mechanics and topology are pure computations over game data; prompts,
doctrine and the reference corpus are text; the portal's pages, the control center and
packaging keep no state of their own.

Hazards that were seen and have no property, beyond those of `PROJECT.json`:
- a snapshot file may be reused by one caller while the zero-pin collection deletes it for
  another (`src/smacx_world_store.py:758`); the files are not modelled.
- the duplicate check of an attention item is made outside the transaction that inserts it
  (`src/smacx_attention.py:63`).
- two puts of one note write the same revision (`src/smacx_journal.py:473`); two event files
  within one tick of the file system look like one (`:193`); a rename is not followed by a
  sync of the directory (`:71`).
- a restore that aborts after it activated its timeline has not discarded the other
  queues (`src/smacx_worker_manager.py:4099`).
- `agent_bridge_stop` deletes the lock after two seconds, while a worker may wait for thirty
  (`bridge/src/agent_bridge.cpp:21814`).
- a saved game loaded between two ticks of the timer brings other units under rows whose
  handles are kept (`bridge/src/agent_bridge.cpp:309`).
- a rejected transport in `board_carrier` restores a whole copy of the unit's row, links
  included (`bridge/src/agent_bridge.cpp:18320`).
