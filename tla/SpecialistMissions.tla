------------------------- MODULE SpecialistMissions -------------------------
(***************************************************************************)
(* The durable authority of disposable specialist investigations           *)
(* (smacx_specialists.py) together with the supervisor that runs them      *)
(* (smacx_specialist_supervisor.py).                                       *)
(*                                                                         *)
(* Four kinds of process share one SQLite database, one journal per        *)
(* timeline and one attention queue, and nothing but a transaction is      *)
(* atomic among them:                                                      *)
(*   - the sovereign's tool server: commission, cancel and retry;          *)
(*   - the supervisor's main thread: housekeeping, expiry, admission;      *)
(*   - one supervisor thread for each attempt: run the child, publish;     *)
(*   - the control service: restore a checkpoint onto a new timeline.      *)
(* A step below is one transaction, one journal append, or one queue       *)
(* write, so a crash may fall between any two of them.                     *)
(***************************************************************************)
EXTENDS Naturals, FiniteSets

CONSTANTS
    Missions,                \* mission ids (uuid4, never reused)
    Attempts,                \* attempt ids; their number bounds the run
    NoMission, NoAttempt,    \* the NULL of each column
    Seats,                   \* (match, perspective) pairs of one match
    Objectives,              \* what a commission asks; part of its idempotency key
    Faculties,               \* "world" missions pin a snapshot, "reference" ones do not
    Mishaps,                 \* the failures a child may end in by itself
    AutomaticRetries,        \* policy.automatic_retries
    SchemaRepairs,           \* policy.schema_repairs
    SeatConcurrency,         \* policy.seat_concurrency
    InstallationConcurrency, \* policy.installation_concurrency
    SeatQueue,               \* admission limit of one seat on one timeline
    InstallationQueue,       \* admission limit of the installation
    MaxTimeline,             \* bound: timelines 1..MaxTimeline
    MaxEpoch,                \* bound: world epochs 1..MaxEpoch
    MaxManualRetries,        \* bound: manual retries begun
    MaxFaults                \* bound: kills, stops and lost callers

ASSUME PolicyAssumption ==
    /\ AutomaticRetries \in Nat /\ SchemaRepairs \in Nat
    /\ SeatConcurrency \in Nat \ {0} /\ InstallationConcurrency \in Nat \ {0}
    /\ SeatQueue \in Nat /\ InstallationQueue \in Nat
    /\ MaxTimeline \in Nat \ {0} /\ MaxEpoch \in Nat \ {0}
    /\ MaxManualRetries \in Nat /\ MaxFaults \in Nat

ASSUME NullAssumption ==
    /\ NoMission \notin Missions
    /\ NoAttempt \notin Attempts
    /\ {"none", "parent", "restore", "main"} \cap Attempts = {}

ASSUME DataAssumption ==
    /\ Faculties \subseteq {"world", "reference"}
    /\ Mishaps \subseteq {"provider_failed", "mcp_failed", "invalid_schema",
                          "token_budget_exhausted", "tool_budget_exhausted"}
    /\ Seats # {} /\ Objectives # {}

VARIABLES
    timeline,   \* matches.metadata.active_memory_timeline
    epoch,      \* world epoch of the installed projection
    mission,    \* specialist_missions, and the commissions not yet inserted
    attempt,    \* specialist_attempts
    pins,       \* missions that own a row of world_snapshot_pins
    journal,    \* specialist.result_accepted events, by the timeline that holds them
    notices,    \* specialist_completion items ever put in the attention queue
    closing,    \* who has committed a cancel and not yet unpinned and journalled
    asked,      \* retry calls that passed their reads, before their transaction
    worker,     \* the supervisor's thread for each attempt
    main,       \* the supervisor's main thread
    stopping,   \* the supervisor's stop_event
    restore,    \* the control service's checkpoint restore
    budget      \* what the bounds have left: manual retries begun, faults

dbVars      == <<mission, attempt, pins>>
outVars     == <<journal, notices>>
clockVars   == <<timeline, epoch>>
superVars   == <<worker, main, stopping>>
callerVars  == <<closing, asked, restore, budget>>
vars == <<dbVars, outVars, clockVars, superVars, callerVars>>

-----------------------------------------------------------------------------
(* Values *)

Outstanding == {"queued", "active", "retry_wait"}
Waiting     == {"queued", "retry_wait"}
Visible     == {"accepted", "stale"}
Unborn      == {"none", "draft", "dropped"}      \* ids with no row in the table
MissionStatus == Unborn \cup Outstanding \cup Visible \cup {"failed", "cancelled"}

\* "starting" and "running" are one state here: no guard of the code tells them
\* apart.
Live == {"running", "validating"}
AttemptFailures == {"provider_failed", "mcp_failed", "invalid_schema",
                    "token_budget_exhausted", "tool_budget_exhausted",
                    "timed_out", "orphaned", "cancelled"}
Transient == {"provider_failed", "mcp_failed", "orphaned"}
AttemptStatus == {"unused", "completed"} \cup Live \cup AttemptFailures

WorkerStep == {"none", "child", "validate", "checked", "prepared", "filed",
               "published", "announced", "failing", "report", "done"}
MainStep == {"down", "sweep", "orphans", "reportOrphan", "revoke",
             "repair", "finalize", "deliver", "schedule",
             "reportExpiry", "exit"}

Timelines == 1 .. MaxTimeline
Epochs    == 1 .. MaxEpoch

\* The other specialist events (commissioned, cancelled, failed) are appended and
\* never read again by this code; they are left out.
ResultEvent(t, m, a, v) ==
    [timeline |-> t, mission |-> m, attempt |-> a, verdict |-> v]
Notice(m, t, about) == [mission |-> m, timeline |-> t, about |-> about]

BlankMission ==
    [status |-> "none", seat |-> CHOOSE s \in Seats : TRUE,
     objective |-> CHOOSE o \in Objectives : TRUE, timeline |-> 1, epoch |-> 1,
     world |-> FALSE, view |-> FALSE, chosen |-> NoAttempt, verdict |-> "none",
     filed |-> 0, count |-> 0, due |-> FALSE]
BlankAttempt == [mission |-> NoMission, status |-> "unused",
                 mine |-> FALSE, fresh |-> FALSE]
IdleWorker   == [pc |-> "none", says |-> "none", at |-> 0]

MissionRow ==
    [status: MissionStatus, seat: Seats, objective: Objectives,
     timeline: Timelines, epoch: Epochs, world: BOOLEAN, view: BOOLEAN,
     chosen: Attempts \cup {NoAttempt}, verdict: Visible \cup {"none"},
     filed: Timelines \cup {0}, count: Nat, due: BOOLEAN]
AttemptRow ==
    [mission: Missions \cup {NoMission}, status: AttemptStatus,
     mine: BOOLEAN, fresh: BOOLEAN]
ThreadState ==
    [pc: WorkerStep, says: Visible \cup AttemptFailures \cup {"none"},
     at: Timelines \cup {0}]
MissionType == mission \in [Missions -> MissionRow]
AttemptType == attempt \in [Attempts -> AttemptRow]
OutputType ==
    /\ journal \subseteq [timeline: Timelines, mission: Missions,
                         attempt: Attempts, verdict: Visible]
    /\ notices \subseteq [mission: Missions, timeline: Timelines,
                         about: Visible \cup AttemptFailures \cup {"failed"}]
WorkerType == worker \in [Attempts -> ThreadState]
MainType ==
    /\ main \in [pc: MainStep, todo: SUBSET (Missions \cup Attempts),
                at: Timelines, item: Missions \cup {NoMission}]
    /\ stopping \in BOOLEAN
CallerType ==
    /\ closing \in [Missions -> {"none", "parent", "restore", "main"} \cup Attempts]
    /\ asked \subseteq Missions
    /\ restore \in [pc: {"idle", "activated", "revoke"}, todo: SUBSET Missions]
    /\ budget \in [retries: 0 .. MaxManualRetries, faults: 0 .. MaxFaults]
TypeOK ==
    /\ timeline \in Timelines /\ epoch \in Epochs /\ pins \subseteq Missions
    /\ MissionType /\ AttemptType /\ OutputType
    /\ WorkerType /\ MainType /\ CallerType

Init ==
    /\ timeline = 1 /\ epoch = 1
    /\ mission = [m \in Missions |-> BlankMission]
    /\ attempt = [a \in Attempts |-> BlankAttempt]
    /\ pins = {} /\ journal = {} /\ notices = {}
    /\ closing = [m \in Missions |-> "none"]
    /\ asked = {}
    /\ worker = [a \in Attempts |-> IdleWorker]
    /\ main = [pc |-> "down", todo |-> {}, at |-> 1, item |-> NoMission]
    /\ stopping = FALSE
    /\ restore = [pc |-> "idle", todo |-> {}]
    /\ budget = [retries |-> 0, faults |-> 0]

-----------------------------------------------------------------------------
(* What the code reads *)

Stored(m)   == mission[m].status \notin Unborn
Alive(a)    == attempt[a].status \in Live
PreparedAccepted(m) ==      \* mutant: only accepted results are repaired
    /\ mission[m].status = "active" /\ mission[m].chosen # NoAttempt
    /\ mission[m].verdict = "accepted"
Prepared(m) == mission[m].status = "active" /\ mission[m].chosen # NoAttempt
\* The idempotency key, over the columns of a mission that enter its hash.
Known(s, o, t, e, w) ==
    \E n \in Missions :
        /\ Stored(n)
        /\ mission[n].seat = s /\ mission[n].objective = o
        /\ mission[n].timeline = t /\ mission[n].epoch = e /\ mission[n].world = w
Duplicate(m) == Known(mission[m].seat, mission[m].objective, mission[m].timeline,
                      mission[m].epoch, mission[m].world)

Rows(statuses) == {m \in Missions : mission[m].status \in statuses}
SeatLoad(s) == Cardinality({m \in Rows(Outstanding) :
                              mission[m].seat = s /\ mission[m].timeline = timeline})
InstallationLoad == Cardinality(Rows(Outstanding))
Running(s) == Cardinality({m \in Rows({"active"}) : mission[m].seat = s})
RunningAll == Cardinality(Rows({"active"}))

\* cancel_for_rollback: what is outstanding on every other timeline.
AbandonedWaiting ==         \* mutant: what has begun is left to its thread
    {m \in Rows(Waiting) : mission[m].timeline # timeline}
Abandoned == {m \in Rows(Outstanding) : mission[m].timeline # timeline}

\* _enqueue_terminal_attention: suppressed off the active timeline, otherwise
\* enqueue deduplicates on mission, content and status, which a set does.
NoticeFor(m, about) ==
    IF mission[m].timeline = timeline THEN {Notice(m, timeline, about)} ELSE {}

-----------------------------------------------------------------------------
(* The sovereign's tool server *)

\* commission, first half: refuse a known key and a full queue, then freeze the
\* world and pin it for an id whose mission is not in the database yet.
Draft(m, s, o, f) ==
    /\ mission[m].status = "none"
    /\ ~ Known(s, o, timeline, epoch, f = "world")
    /\ InstallationLoad < InstallationQueue
    /\ SeatLoad(s) < SeatQueue
    /\ mission' = [mission EXCEPT ![m] =
         [BlankMission EXCEPT !.status = "draft", !.seat = s, !.objective = o,
                              !.timeline = timeline, !.epoch = epoch,
                              !.world = (f = "world"), !.view = (f = "world")]]
    /\ pins' = IF f = "world" THEN pins \cup {m} ELSE pins
    /\ UNCHANGED <<attempt, outVars, clockVars, superVars, callerVars>>

\* commission, second half: the insert.
Insert(m) ==
    /\ mission[m].status = "draft"
    /\ ~ Duplicate(m)
    /\ mission' = [mission EXCEPT ![m] = [@ EXCEPT !.status = "queued"]]
    /\ UNCHANGED <<attempt, pins, outVars, clockVars, superVars, callerVars>>

\* A concurrent commission of the same key was first: give the pin back.
InsertDuplicate(m) ==
    /\ mission[m].status = "draft"
    /\ Duplicate(m)
    /\ mission' = [mission EXCEPT ![m] = [@ EXCEPT !.status = "dropped"]]
    /\ pins' = pins \ {m}
    /\ UNCHANGED <<attempt, outVars, clockVars, superVars, callerVars>>

\* The last update of an attempt's row; its owner and heartbeat are not read after.
Ended(a, status) == [attempt[a] EXCEPT !.status = status,
                                       !.mine = FALSE, !.fresh = FALSE]

\* cancel, cancel_for_operation, cancel_for_turn_handoff: one transaction that
\* ends the mission and every live attempt of it.
Cancellable(m, authoritative) ==
    /\ mission[m].status \in Outstanding
    /\ authoritative \/ mission[m].chosen = NoAttempt
CancelMissionOnly(m, by) == \* mutant: the live attempts are forgotten
    /\ mission' = [mission EXCEPT ![m] = [@ EXCEPT !.status = "cancelled"]]
    /\ closing' = [closing EXCEPT ![m] = by]
    /\ UNCHANGED attempt
Cancel(m, by) ==
    /\ mission' = [mission EXCEPT ![m] = [@ EXCEPT !.status = "cancelled"]]
    /\ attempt' = [a \in Attempts |->
                     IF attempt[a].mission = m /\ Alive(a)
                     THEN Ended(a, "cancelled")
                     ELSE attempt[a]]
    /\ closing' = [closing EXCEPT ![m] = by]
CancelByParent(m) ==
    /\ Cancellable(m, FALSE)
    /\ Cancel(m, "parent")
    /\ UNCHANGED <<pins, outVars, clockVars, superVars, asked, restore, budget>>

\* The rest of cancel, after its transaction: unpin (and journal).
FinishCancel(m) ==
    /\ closing[m] # "none"
    /\ closing' = [closing EXCEPT ![m] = "none"]
    /\ pins' = pins \ {m}
    /\ UNCHANGED <<mission, attempt, outVars, clockVars, superVars,
                   asked, restore, budget>>

\* retry: every read is made before the transaction ...
AskRetry(m) ==
    /\ m \notin asked
    /\ budget.retries < MaxManualRetries
    /\ mission[m].status = "failed" /\ ~ mission[m].due
    /\ mission[m].timeline = timeline /\ mission[m].epoch = epoch
    /\ mission[m].world => (mission[m].view /\ m \in pins)
    /\ asked' = asked \cup {m}
    /\ budget' = [budget EXCEPT !.retries = @ + 1]
    /\ UNCHANGED <<dbVars, outVars, clockVars, superVars, closing, restore>>

\* ... which re-checks the status, the deadline and the snapshot column, and
\* takes the pin again.
Retriable(m) ==
    /\ mission[m].status = "failed" /\ ~ mission[m].due
    /\ mission[m].world => mission[m].view
CommitRetry(m) ==
    /\ m \in asked
    /\ asked' = asked \ {m}
    /\ IF Retriable(m)
       THEN /\ mission' = [mission EXCEPT ![m] = [@ EXCEPT !.status = "queued"]]
            /\ pins' = IF mission[m].world THEN pins \cup {m} ELSE pins
       ELSE UNCHANGED <<mission, pins>>
    /\ UNCHANGED <<attempt, outVars, clockVars, superVars, closing, restore, budget>>

\* The tool server or the control service dies inside a call.
LoseCaller(m) ==
    /\ budget.faults < MaxFaults
    /\ budget' = [budget EXCEPT !.faults = @ + 1]
    /\ \/ /\ mission[m].status = "draft"
          /\ mission' = [mission EXCEPT ![m] = [@ EXCEPT !.status = "dropped"]]
          /\ UNCHANGED closing
       \/ /\ closing[m] = "parent"
          /\ closing' = [closing EXCEPT ![m] = "none"]
          /\ UNCHANGED mission
    /\ UNCHANGED <<attempt, pins, outVars, clockVars, superVars, asked, restore>>

-----------------------------------------------------------------------------
(* The control service and the game *)

\* The restore activates the forked timeline first ...
Activate ==
    /\ restore.pc = "idle" /\ timeline < MaxTimeline
    /\ timeline' = timeline + 1
    /\ restore' = [pc |-> "activated", todo |-> {}]
    /\ UNCHANGED <<epoch, dbVars, outVars, superVars, closing, asked, budget>>

\* ... then revokes what it finds outstanding on every other timeline, one cancel
\* at a time; a cancel that comes too late raises and abandons the restore ...
ListRevocations ==
    /\ restore.pc = "activated"
    /\ restore' = [pc |-> "revoke", todo |-> Abandoned]
    /\ UNCHANGED <<dbVars, outVars, clockVars, superVars, closing, asked, budget>>
Closing(who) == \E m \in Missions : closing[m] = who
RestoreRevokes(m) ==
    /\ restore.pc = "revoke" /\ m \in restore.todo /\ ~ Closing("restore")
    /\ IF Cancellable(m, TRUE)
       THEN /\ Cancel(m, "restore")
            /\ restore' = [restore EXCEPT !.todo = @ \ {m}]
       ELSE /\ restore' = [pc |-> "idle", todo |-> {}]
            /\ UNCHANGED <<mission, attempt, closing>>
    /\ UNCHANGED <<pins, outVars, clockVars, superVars, asked, budget>>

\* ... and discards what other timelines had queued.
Discard ==
    /\ restore.pc = "revoke" /\ restore.todo = {} /\ ~ Closing("restore")
    /\ restore' = [pc |-> "idle", todo |-> {}]
    /\ notices' = {n \in notices : n.timeline = timeline}
    /\ UNCHANGED <<dbVars, journal, clockVars, superVars, closing, asked, budget>>

NewEpoch ==
    /\ epoch < MaxEpoch
    /\ epoch' = epoch + 1
    /\ UNCHANGED <<timeline, dbVars, outVars, superVars, callerVars>>

\* Wall time: a mission's deadline, and the 30 seconds of an attempt's heartbeat.
DeadlinePasses(m) ==
    /\ mission[m].status \in Outstanding \cup {"failed"} /\ ~ mission[m].due
    /\ mission' = [mission EXCEPT ![m] = [@ EXCEPT !.due = TRUE]]
    /\ UNCHANGED <<attempt, pins, outVars, clockVars, superVars, callerVars>>
HeartbeatLapses(a) ==
    /\ Alive(a) /\ attempt[a].fresh
    /\ attempt' = [attempt EXCEPT ![a] = [@ EXCEPT !.fresh = FALSE]]
    /\ UNCHANGED <<mission, pins, outVars, clockVars, superVars, callerVars>>

-----------------------------------------------------------------------------
(* One thread of the supervisor for each attempt: _run_attempt *)

Go(a, pc)         == worker' = [worker EXCEPT ![a] = [@ EXCEPT !.pc = pc]]
GoSaying(a, pc, x) == worker' = [worker EXCEPT ![a] = [@ EXCEPT !.pc = pc, !.says = x]]
Done(a)           == worker' = [worker EXCEPT ![a] = [IdleWorker EXCEPT !.pc = "done"]]
RefusedByName(a)  ==        \* mutant: the error's name is not a typed outcome
    GoSaying(a, "failing", "specialist_late_result_rejected")
Refused(a)        == GoSaying(a, "failing", "provider_failed")
Of(a)             == attempt[a].mission

\* The loop renews the heartbeat while the child runs, and so does every tool call
\* the child makes; the loop ignores whether the renewal found the attempt.
Heartbeat(a) ==
    /\ worker[a].pc = "child" /\ Alive(a) /\ ~ attempt[a].fresh
    /\ attempt' = [attempt EXCEPT ![a] = [@ EXCEPT !.fresh = TRUE]]
    /\ UNCHANGED <<mission, pins, outVars, clockVars, superVars, callerVars>>

\* The child is killed: the stop event, a mission no longer active, the deadline
\* read when the attempt began. (A superseded attempt's deadline is not kept.)
KillChild(a) ==
    /\ worker[a].pc = "child"
    /\ \/ /\ stopping \/ mission[Of(a)].status # "active"
          /\ GoSaying(a, "failing", "cancelled")
       \/ /\ mission[Of(a)].due \/ ~ Alive(a)
          /\ GoSaying(a, "failing", "timed_out")
    /\ UNCHANGED <<dbVars, outVars, clockVars, main, stopping, callerVars>>

\* The child exits by itself without a result to publish.
ChildFails(a, outcome) ==
    /\ worker[a].pc = "child"
    /\ outcome \in Mishaps
    /\ GoSaying(a, "failing", outcome)
    /\ UNCHANGED <<dbVars, outVars, clockVars, main, stopping, callerVars>>

\* The child exits with a result: mark_validating.
ChildAnswers(a) ==
    /\ worker[a].pc = "child"
    /\ IF attempt[a].mine /\ attempt[a].status = "running"
       THEN /\ attempt' = [attempt EXCEPT ![a] =
                               [@ EXCEPT !.status = "validating", !.fresh = TRUE]]
            /\ Go(a, "validate")
       ELSE /\ Refused(a)
            /\ UNCHANGED attempt
    /\ UNCHANGED <<mission, pins, outVars, clockVars, main, stopping, callerVars>>

\* accept_attempt up to its first write: the mission, the attempt's lease, the
\* timeline and the epoch are read once here. A foreign timeline or epoch cancels
\* the mission; what the result depends on decides accepted or stale.
CheckResult(a, v) ==
    LET m == Of(a) IN
    /\ worker[a].pc = "validate" /\ ~ Closing(a)
    /\ IF mission[m].status # "active" \/ ~ Alive(a) \/ ~ attempt[a].fresh
       THEN /\ Refused(a)
            /\ UNCHANGED <<mission, attempt, closing>>
       ELSE IF mission[m].timeline # timeline \/ mission[m].epoch # epoch
       THEN /\ Cancel(m, a)
            /\ Refused(a)
       ELSE /\ \/ /\ v \in Visible
                  /\ GoSaying(a, "checked", v)
               \/ /\ v \in Mishaps \cap {"invalid_schema", "token_budget_exhausted"}
                  /\ GoSaying(a, "failing", v)
            /\ UNCHANGED <<mission, attempt, closing>>
    /\ UNCHANGED <<pins, outVars, clockVars, main, stopping, asked, restore, budget>>

\* accept_attempt's compare-and-swap: the mission is active and nobody's result
\* was chosen. Neither the attempt's lease nor the timeline is read again.
ChoosableIfActive(m) == mission[m].status = "active"   \* mutant
Choosable(m) == mission[m].status = "active" /\ mission[m].chosen = NoAttempt
Prepare(a) ==
    LET m == Of(a) IN
    /\ worker[a].pc = "checked"
    /\ IF Choosable(m)
       THEN /\ mission' = [mission EXCEPT ![m] =
                 [@ EXCEPT !.chosen = a, !.verdict = worker[a].says, !.filed = 0]]
            /\ Go(a, "prepared")
       ELSE Refused(a) /\ UNCHANGED mission
    /\ UNCHANGED <<attempt, pins, outVars, clockVars, main, stopping, callerVars>>

\* journal.append without a timeline: it resolves to the one active now.
FileResultIfCurrent(a) ==   \* mutant: suppressed off the timeline, as notices are
    /\ worker[a].pc = "prepared"
    /\ journal' = IF mission[Of(a)].timeline = timeline
                  THEN journal \cup {ResultEvent(timeline, Of(a), a, worker[a].says)}
                  ELSE journal
    /\ worker' = [worker EXCEPT ![a] = [@ EXCEPT !.pc = "filed", !.at = timeline]]
    /\ UNCHANGED <<dbVars, notices, clockVars, main, stopping, callerVars>>
FileResult(a) ==
    /\ worker[a].pc = "prepared"
    /\ journal' = journal \cup {ResultEvent(timeline, Of(a), a, worker[a].says)}
    /\ worker' = [worker EXCEPT ![a] = [@ EXCEPT !.pc = "filed", !.at = timeline]]
    /\ UNCHANGED <<dbVars, notices, clockVars, main, stopping, callerVars>>

\* _finalize_prepared_result: either this call makes the result visible, or it
\* finds the very same publication already made, or it raises.
FinalizableIfChosen(m, a) == mission[m].chosen = a     \* mutant
Finalizable(m, a) == mission[m].status = "active" /\ mission[m].chosen = a
Finalized(m, a, t) ==
    /\ mission[m].status = mission[m].verdict
    /\ mission[m].chosen = a /\ mission[m].filed = t
Show(m, a, t) ==
    /\ mission' = [mission EXCEPT ![m] =
                     [@ EXCEPT !.status = mission[m].verdict, !.filed = t]]
    /\ attempt' = IF Alive(a) THEN [attempt EXCEPT ![a] = Ended(a, "completed")]
                              ELSE attempt
Publish(a) ==
    LET m == Of(a) IN
    /\ worker[a].pc = "filed"
    /\ IF Finalizable(m, a)
       THEN Show(m, a, worker[a].at) /\ Go(a, "published")
       ELSE /\ IF Finalized(m, a, worker[a].at) THEN Go(a, "published")
                                                ELSE Refused(a)
            /\ UNCHANGED <<mission, attempt>>
    /\ UNCHANGED <<pins, outVars, clockVars, main, stopping, callerVars>>

AnnounceUnpublished(a) ==   \* mutant: announced as soon as the journal has it
    /\ worker[a].pc = "filed"
    /\ notices' = notices \cup NoticeFor(Of(a), worker[a].says)
    /\ Go(a, "announced")
    /\ UNCHANGED <<dbVars, journal, clockVars, main, stopping, callerVars>>
Announce(a) ==
    /\ worker[a].pc = "published"
    /\ notices' = notices \cup NoticeFor(Of(a), worker[a].says)
    /\ Go(a, "announced")
    /\ UNCHANGED <<dbVars, journal, clockVars, main, stopping, callerVars>>

Release(a) ==
    /\ worker[a].pc = "announced"
    /\ pins' = pins \ {Of(a)}
    /\ Done(a)
    /\ UNCHANGED <<mission, attempt, outVars, clockVars, main, stopping, callerVars>>

\* fail_attempt: a typed outcome for a live attempt of an unprepared mission, and
\* with it the mission's next state. Anything else is a late outcome: it raises.
Failable(m, a) ==
    /\ mission[m].status = "active" /\ mission[m].chosen = NoAttempt
    /\ Alive(a)
Retries(m, outcome, allow) ==
    /\ allow
    /\ \/ outcome \in Transient /\ mission[m].count <= AutomaticRetries
       \/ outcome = "invalid_schema" /\ mission[m].count <= SchemaRepairs
Fail(m, a, outcome, allow) ==
    /\ attempt' = [attempt EXCEPT ![a] = Ended(a, outcome)]
    /\ mission' = [mission EXCEPT ![m] = [@ EXCEPT
         !.status = IF Retries(m, outcome, allow) THEN "retry_wait" ELSE "failed",
         !.due = FALSE]]
FailAttempt(a) ==
    LET m == Of(a) IN
    /\ worker[a].pc = "failing" /\ ~ Closing(a)
    /\ IF Failable(m, a)
       THEN /\ Fail(m, a, worker[a].says, ~ stopping)
            /\ IF Retries(m, worker[a].says, ~ stopping) THEN Done(a)
                                                         ELSE Go(a, "report")
       ELSE Done(a) /\ UNCHANGED <<mission, attempt>>
    /\ UNCHANGED <<pins, outVars, clockVars, main, stopping, callerVars>>

\* fail_attempt after its transaction: (the journal event and) the notice.
ReportFailure(a) ==
    /\ worker[a].pc = "report"
    /\ notices' = notices \cup NoticeFor(Of(a), worker[a].says)
    /\ Done(a)
    /\ UNCHANGED <<dbVars, journal, clockVars, main, stopping, callerVars>>

Worker(a) ==
    \/ Heartbeat(a) \/ KillChild(a)
    \/ \E x \in Mishaps : ChildFails(a, x)
    \/ ChildAnswers(a)
    \/ \E v \in Visible \cup AttemptFailures : CheckResult(a, v)
    \/ Prepare(a) \/ FileResult(a) \/ Publish(a) \/ Announce(a) \/ Release(a)
    \/ FailAttempt(a) \/ ReportFailure(a)

-----------------------------------------------------------------------------
(* The supervisor's main thread *)

At(pc)       == main.pc = pc
To(pc, todo) == main' = [pc |-> pc, todo |-> todo, at |-> 1, item |-> NoMission]

\* A new process: it owns none of the attempts it finds.
Start ==
    /\ At("down")
    /\ To("sweep", {})
    /\ stopping' = FALSE
    /\ attempt' = [a \in Attempts |-> [attempt[a] EXCEPT !.mine = FALSE]]
    /\ UNCHANGED <<mission, pins, outVars, clockVars, worker, callerVars>>

\* An exception in the main thread: it stops the loop, and shutdown follows.
Raise ==
    /\ To("exit", {})
    /\ stopping' = TRUE

\* gc_orphaned_specialist_snapshot_pins: a pin whose mission has no row goes. A
\* failed mission past its manual-retry horizon gives up view and pin. Then the
\* live attempts that are another process's or have lapsed are listed.
HorizonIgnored(m) == mission[m].view                    \* mutant
HorizonPassed(m) == mission[m].due /\ mission[m].view
Sweep ==
    LET gone == {m \in Rows({"failed"}) : HorizonPassed(m)}
    IN /\ At("sweep")
       /\ mission' = [m \in Missions |->
                        IF m \in gone THEN [mission[m] EXCEPT !.view = FALSE]
                                      ELSE mission[m]]
       /\ pins' = {m \in pins : Stored(m)} \ gone
       /\ To("orphans", {a \in Attempts :
                           /\ Alive(a) /\ (~ attempt[a].mine \/ ~ attempt[a].fresh)
                           /\ mission[Of(a)].status = "active"
                           /\ mission[Of(a)].chosen = NoAttempt})
       /\ UNCHANGED <<attempt, outVars, clockVars, worker, stopping, callerVars>>

\* reconcile_orphans; fail_attempt raises when the list is out of date.
FailOrphan(a) ==
    LET m == Of(a) IN
    /\ At("orphans") /\ a \in main.todo
    /\ IF Failable(m, a)
       THEN /\ Fail(m, a, "orphaned", TRUE)
            /\ main' = [main EXCEPT
                 !.todo = @ \ {a},
                 !.pc = IF Retries(m, "orphaned", TRUE) THEN @ ELSE "reportOrphan",
                 !.item = IF Retries(m, "orphaned", TRUE) THEN @ ELSE m]
            /\ UNCHANGED stopping
       ELSE Raise /\ UNCHANGED <<mission, attempt>>
    /\ UNCHANGED <<pins, outVars, clockVars, worker, callerVars>>

\* The notice of a mission the main thread failed.
MainReports ==
    /\ \/ /\ At("reportOrphan")
          /\ notices' = notices \cup NoticeFor(main.item, "orphaned")
          /\ main' = [main EXCEPT !.pc = "orphans", !.item = NoMission]
       \/ /\ At("reportExpiry")
          /\ notices' = notices \cup NoticeFor(main.item, "timed_out")
          /\ To("schedule", {})
    /\ UNCHANGED <<dbVars, journal, clockVars, worker, stopping, callerVars>>

\* reconcile_prepared_results begins with the rollback it may have missed.
ListAbandoned ==
    /\ At("orphans") /\ main.todo = {}
    /\ main' = [main EXCEPT !.pc = "revoke", !.at = timeline, !.todo = Abandoned]
    /\ UNCHANGED <<dbVars, outVars, clockVars, worker, stopping, callerVars>>
MainRevokes(m) ==
    /\ At("revoke") /\ m \in main.todo /\ ~ Closing("main")
    /\ IF Cancellable(m, TRUE)
       THEN /\ Cancel(m, "main")
            /\ main' = [main EXCEPT !.todo = @ \ {m}]
            /\ UNCHANGED stopping
       ELSE Raise /\ UNCHANGED <<mission, attempt, closing>>
    /\ UNCHANGED <<pins, outVars, clockVars, worker, asked, restore, budget>>

\* Then every result prepared on the timeline it read, and not yet visible, is
\* filed there, finalized and delivered, one mission after the other.
ListPrepared ==
    /\ At("revoke") /\ main.todo = {} /\ ~ Closing("main")
    /\ To("repair", {m \in Missions : Prepared(m) /\ mission[m].timeline = main.at})
    /\ UNCHANGED <<dbVars, outVars, clockVars, worker, stopping, callerVars>>
RepairFileIfCurrent(m) ==   \* mutant: suppressed off the timeline, as notices are
    /\ At("repair") /\ m \in main.todo
    /\ journal' = IF mission[m].timeline # timeline THEN journal ELSE journal \cup
         {ResultEvent(mission[m].timeline, m, mission[m].chosen, mission[m].verdict)}
    /\ main' = [main EXCEPT !.pc = "finalize", !.todo = @ \ {m}, !.item = m]
    /\ UNCHANGED <<dbVars, notices, clockVars, worker, stopping, callerVars>>
RepairFile(m) ==
    /\ At("repair") /\ m \in main.todo
    /\ journal' = journal \cup
         {ResultEvent(mission[m].timeline, m, mission[m].chosen, mission[m].verdict)}
    /\ main' = [main EXCEPT !.pc = "finalize", !.todo = @ \ {m}, !.item = m]
    /\ UNCHANGED <<dbVars, notices, clockVars, worker, stopping, callerVars>>
RepairPublish ==
    LET m == main.item IN
    /\ At("finalize")
    /\ IF Prepared(m)
       THEN /\ Show(m, mission[m].chosen, mission[m].timeline)
            /\ main' = [main EXCEPT !.pc = "deliver"]
            /\ UNCHANGED stopping
       ELSE /\ IF Finalized(m, mission[m].chosen, mission[m].timeline)
               THEN main' = [main EXCEPT !.pc = "deliver"] /\ UNCHANGED stopping
               ELSE Raise
            /\ UNCHANGED <<mission, attempt>>
    /\ UNCHANGED <<pins, outVars, clockVars, worker, callerVars>>
RepairDeliver ==
    LET m == main.item IN
    /\ At("deliver")
    /\ notices' = notices \cup NoticeFor(m, mission[m].verdict)
    /\ pins' = pins \ {m}
    /\ main' = [main EXCEPT !.pc = "repair", !.item = NoMission]
    /\ UNCHANGED <<mission, attempt, journal, clockVars, worker, stopping, callerVars>>

AnnouncedWithoutStale == {"accepted", "failed"}         \* mutant
AnnouncedStates == Visible \cup {"failed"}
\* reconcile_terminal_attention: what the active timeline ended is announced
\* again, under the status its row has.
AnnounceTerminal ==
    /\ At("repair") /\ main.todo = {}
    /\ notices' = notices \cup
         UNION {NoticeFor(m, mission[m].status) :
                  m \in Rows(AnnouncedStates)}
    /\ To("schedule", {})
    /\ UNCHANGED <<dbVars, journal, clockVars, worker, stopping, callerVars>>

\* _available and expire: a waiting mission whose deadline has passed.
Expire(m) ==
    /\ At("schedule")
    /\ mission[m].status \in Waiting /\ mission[m].due
    /\ mission' = [mission EXCEPT ![m] = [@ EXCEPT !.status = "failed", !.due = FALSE]]
    /\ main' = [main EXCEPT !.pc = "reportExpiry", !.item = m]
    /\ UNCHANGED <<attempt, pins, outVars, clockVars, worker, stopping, callerVars>>

\* _available and begin_attempt: within both concurrency limits.
Admits(m) == /\ RunningAll < InstallationConcurrency
             /\ Running(mission[m].seat) < SeatConcurrency
Begin(m, a) ==
    /\ At("schedule")
    /\ mission[m].status \in Waiting /\ ~ mission[m].due
    /\ Admits(m)
    /\ attempt[a].status = "unused"
    /\ attempt' = [attempt EXCEPT ![a] =
         [mission |-> m, status |-> "running", mine |-> TRUE, fresh |-> TRUE]]
    /\ mission' = [mission EXCEPT ![m] =
                     [@ EXCEPT !.status = "active", !.count = mission[m].count + 1]]
    /\ worker' = [worker EXCEPT ![a] = [IdleWorker EXCEPT !.pc = "child"]]
    /\ UNCHANGED <<pins, outVars, clockVars, main, stopping, callerVars>>

\* The loop's head: leave when stopped, otherwise housekeeping when it is due.
Housekeep ==
    /\ At("schedule") /\ ~ stopping
    /\ To("sweep", {})
    /\ UNCHANGED <<dbVars, outVars, clockVars, worker, stopping, callerVars>>
Leave ==
    /\ At("schedule") /\ stopping
    /\ To("exit", {})
    /\ UNCHANGED <<dbVars, outVars, clockVars, worker, stopping, callerVars>>

\* shutdown waits for every worker thread.
Shutdown ==
    /\ At("exit") /\ stopping
    /\ \A a \in Attempts : worker[a].pc \in {"none", "done"}
    /\ To("down", {})
    /\ UNCHANGED <<dbVars, outVars, clockVars, worker, stopping, callerVars>>

Main ==
    \/ Start \/ Sweep \/ MainReports \/ ListAbandoned
    \/ ListPrepared \/ RepairPublish \/ RepairDeliver \/ AnnounceTerminal
    \/ Housekeep \/ Leave \/ Shutdown
    \/ \E a \in Attempts : FailOrphan(a)
    \/ \E m \in Missions : \/ MainRevokes(m) \/ RepairFile(m) \/ Expire(m)
                           \/ \E a \in Attempts : Begin(m, a)

\* SIGTERM sets the stop event; SIGKILL or power loss takes every thread at once.
Stop ==
    /\ ~ At("down") /\ ~ stopping /\ budget.faults < MaxFaults
    /\ stopping' = TRUE
    /\ budget' = [budget EXCEPT !.faults = @ + 1]
    /\ UNCHANGED <<dbVars, outVars, clockVars, worker, main, closing, asked, restore>>
Kill ==
    /\ ~ At("down") /\ budget.faults < MaxFaults
    /\ To("down", {})
    /\ worker' = [a \in Attempts |-> IdleWorker]
    /\ closing' = [m \in Missions |-> IF closing[m] \in {"main"} \cup Attempts
                                      THEN "none" ELSE closing[m]]
    /\ stopping' = FALSE
    /\ budget' = [budget EXCEPT !.faults = @ + 1]
    /\ UNCHANGED <<dbVars, outVars, clockVars, asked, restore>>

-----------------------------------------------------------------------------

ToolServer(m) ==
    \/ \E s \in Seats, o \in Objectives, f \in Faculties : Draft(m, s, o, f)
    \/ Insert(m) \/ InsertDuplicate(m) \/ CancelByParent(m)
    \/ AskRetry(m) \/ CommitRetry(m)
Control ==
    \/ Activate \/ ListRevocations \/ Discard
    \/ \E m \in Missions : RestoreRevokes(m)
Environment ==
    \/ NewEpoch \/ Stop \/ Kill
    \/ \E m \in Missions : DeadlinePasses(m) \/ LoseCaller(m)
    \/ \E a \in Attempts : HeartbeatLapses(a)

Next ==
    \/ Main \/ Control \/ Environment
    \/ \E m \in Missions : ToolServer(m) \/ FinishCancel(m)
    \/ \E a \in Attempts : Worker(a)

Spec == Init /\ [][Next]_vars

\* What the code's scheduling justifies. The process is restarted (compose.yaml:
\* restart unless-stopped); its main thread and its worker threads run; a child is
\* killed at its deadline at the latest; wall time passes; a call in progress goes
\* on. Every iteration of the loop expires and admits (strong fairness: housekeeping
\* keeps interrupting). Nothing is assumed of the sovereign, the restore, or faults.
Ends(a) == \/ KillChild(a) \/ \E x \in Mishaps : ChildFails(a, x)
           \/ ChildAnswers(a)
           \/ \E v \in Visible \cup AttemptFailures : CheckResult(a, v)
           \/ Prepare(a) \/ FileResult(a) \/ Publish(a) \/ Announce(a) \/ Release(a)
           \/ FailAttempt(a) \/ ReportFailure(a)
Fairness ==
    /\ WF_vars(Main)
    /\ SF_vars(\E m \in Missions : Expire(m))
    /\ SF_vars(\E m \in Missions, a \in Attempts : Begin(m, a))
    /\ \A a \in Attempts : WF_vars(Ends(a))
    /\ \A m \in Missions : WF_vars(FinishCancel(m)) /\ WF_vars(DeadlinePasses(m))
FairSpec == Spec /\ Fairness

-----------------------------------------------------------------------------
(* Safety *)

\* A result the sovereign can see is in the journal already, on the timeline its
\* completion sequence points to, from the attempt and with the verdict the mission
\* shows (accept_attempt and reconcile_prepared_results race to publish it, and a
\* crash may separate any two of their steps).
PublicationFollowsJournal ==
    \A m \in Missions : mission[m].status \in Visible =>
        /\ mission[m].status = mission[m].verdict
        /\ ResultEvent(mission[m].filed, m, mission[m].chosen, mission[m].verdict)
             \in journal

\* Whatever timelines hold result events of a mission, they agree on the attempt and
\* on the verdict: no second attempt is ever published for a mission.
OneResultPerMission ==
    \A e, f \in journal : e.mission = f.mission =>
        e.attempt = f.attempt /\ e.verdict = f.verdict

\* A mission never has two live attempts, and a mission that waits, has failed or was
\* cancelled has none: each way out of "active" ends the attempt it belongs to.
OneLiveAttempt ==
    /\ \A a, b \in Attempts : Alive(a) /\ Alive(b) /\ Of(a) = Of(b) => a = b
    /\ \A a \in Attempts : Alive(a) =>
         mission[Of(a)].status \in {"active"} \cup Visible

\* A completion notice says accepted or stale only of a mission that shows it.
NoticeFollowsPublication ==
    \A n \in notices : n.about \in Visible => mission[n.mission].status = n.about

-----------------------------------------------------------------------------
(* Action properties *)

\* What was published or cancelled stays exactly as it is: a late result, outcome,
\* retry, expiry or repair changes nothing of it.
EndedIsFinal ==
    [][\A m \in Missions : mission[m].status \in Visible \cup {"cancelled"} =>
          /\ mission'[m].status = mission[m].status
          /\ mission'[m].chosen = mission[m].chosen
          /\ mission'[m].verdict = mission[m].verdict
          /\ mission'[m].filed = mission[m].filed]_vars

\* A stored mission loses its pin only when it has ended for good, or with a view
\* whose manual-retry horizon has passed.
PinKeptWhileRunnable ==
    [][\A m \in Missions : Stored(m) /\ m \in pins /\ m \notin pins' =>
          \/ mission[m].status \in Visible \cup {"cancelled"}
          \/ mission[m].status = "failed" /\ mission[m].due /\ ~ mission'[m].view]_vars

-----------------------------------------------------------------------------
(* Liveness *)

\* Every commissioned mission leaves the queue for good or fails: no interleaving of
\* crashes, cancels, restores and late attempts leaves one waiting or active forever.
EveryMissionEnds ==
    \A m \in Missions : mission[m].status \in Outstanding
                        ~> mission[m].status \notin Outstanding

\* A published result reaches the sovereign's attention queue, unless a restore has
\* abandoned its timeline.
CompletionDelivered ==
    \A m \in Missions : mission[m].status \in Visible
      ~> \/ mission[m].timeline # timeline
         \/ Notice(m, mission[m].timeline, mission[m].status) \in notices

-----------------------------------------------------------------------------
(* Refinement *)

Phase == [m \in Missions |->
            CASE mission[m].status \in Visible   -> "visible"
              [] mission[m].status = "cancelled" -> "closed"
              [] OTHER -> IF mission[m].chosen = NoAttempt THEN "open" ELSE "chosen"]
Publication == INSTANCE SpecialistPublication WITH
    phase   <- Phase,
    chosen  <- [m \in Missions |-> mission[m].chosen],
    verdict <- [m \in Missions |-> mission[m].verdict],
    ledger  <- {<<e.mission, e.attempt, e.verdict>> : e \in journal}

\* All the steps of accept_attempt, of the repair after a crash and of every way to
\* end a mission, in any interleaving, amount to: choose once, record, show, or close.
ImplementsPublication == Publication!Spec
=============================================================================
