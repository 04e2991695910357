---------------------- MODULE SpecialistMissionsProofs ----------------------
(***************************************************************************)
(* Proofs about SpecialistMissions, for any number of missions, attempts,  *)
(* seats, timelines, epochs, retries and faults.                           *)
(*                                                                         *)
(* IInv is the inductive invariant.  What the safety properties say of     *)
(* missions and journal has to be carried through the program counters of  *)
(* the threads: WorkerInv and MainInv say what each thread already knows   *)
(* at each of its steps, and stays true whatever the others do because a   *)
(* chosen result is kept, an attempt keeps its mission and the journal     *)
(* only grows (ResultKept, OwnerKept, JournalKept).                        *)
(***************************************************************************)
EXTENDS SpecialistMissions, TLAPS

\* An attempt that has begun belongs to a mission.
AttemptInv ==
    \A a \in Attempts : IF attempt[a].status = "unused" THEN Of(a) = NoMission
                                                        ELSE Of(a) \in Missions

\* What a worker thread relies on.
WorkerKnows(a) ==
    /\ worker[a].pc \notin {"none", "done"} => Of(a) \in Missions
    /\ worker[a].pc \in {"failing", "report"} => worker[a].says \in AttemptFailures
    /\ worker[a].pc \in {"checked", "prepared", "filed", "published"}
         => worker[a].says \in Visible
    /\ worker[a].pc \in {"prepared", "filed", "published"} =>
         mission[Of(a)].chosen = a /\ mission[Of(a)].verdict = worker[a].says
    /\ worker[a].pc = "filed" =>
         /\ worker[a].at \in Timelines
         /\ ResultEvent(worker[a].at, Of(a), a, worker[a].says) \in journal
    /\ worker[a].pc = "published" => mission[Of(a)].status = worker[a].says
WorkerInv == \A a \in Attempts : WorkerKnows(a)

\* What the main thread relies on.
Recorded(m) ==
    /\ mission[m].chosen # NoAttempt
    /\ ResultEvent(mission[m].timeline, m, mission[m].chosen, mission[m].verdict)
         \in journal
MainInv ==
    /\ main.pc \in {"reportOrphan", "reportExpiry", "finalize", "deliver"}
         => main.item \in Missions
    /\ main.pc \in {"repair", "finalize", "deliver"} =>
         \A m \in main.todo \cap Missions : mission[m].chosen # NoAttempt
    /\ main.pc \in {"finalize", "deliver"} => Recorded(main.item)
    /\ main.pc = "deliver" => mission[main.item].status = mission[main.item].verdict

\* A result is chosen only of a mission that was active, and is what it shows.
ChosenInv ==
    \A m \in Missions :
        /\ mission[m].chosen # NoAttempt =>
             /\ mission[m].verdict \in Visible
             /\ mission[m].status \in {"active", "cancelled"} \cup Visible
        /\ mission[m].status \in Visible =>
             mission[m].chosen # NoAttempt /\ mission[m].filed \in Timelines

\* The journal holds nothing but chosen results.
LedgerInv ==
    \A e \in journal : /\ mission[e.mission].chosen = e.attempt
                       /\ mission[e.mission].verdict = e.verdict

IInv == /\ TypeOK /\ AttemptInv /\ WorkerInv /\ MainInv /\ ChosenInv /\ LedgerInv
        /\ PublicationFollowsJournal

\* What no step takes back.
RowKept(m) ==
    /\ mission[m].chosen # NoAttempt =>
         /\ mission'[m].chosen = mission[m].chosen
         /\ mission'[m].verdict = mission[m].verdict
         /\ mission'[m].timeline = mission[m].timeline
         /\ mission'[m].status \in {"active", "cancelled"} \cup Visible
    /\ mission[m].status \in Visible \cup {"cancelled"} =>
         /\ mission'[m].status = mission[m].status
         /\ mission'[m].chosen = mission[m].chosen
         /\ mission'[m].verdict = mission[m].verdict
         /\ mission'[m].filed = mission[m].filed
ResultKept == \A m \in Missions : RowKept(m)
OwnerKept == \A a \in Attempts : Of(a) \in Missions => Of(a)' = Of(a)
JournalKept == journal \subseteq journal'

-----------------------------------------------------------------------------
(* Rows *)

\* Every update of a mission's row that the code makes gives a row.
LEMMA MissionRowUpdates ==
    ASSUME NEW r \in MissionRow
    PROVE  /\ \A x \in MissionStatus :
                /\ [r EXCEPT !.status = x] \in MissionRow
                /\ [r EXCEPT !.status = x, !.due = FALSE] \in MissionRow
                /\ [r EXCEPT !.status = x, !.count = r.count + 1] \in MissionRow
                /\ \A t \in Timelines :
                     [r EXCEPT !.status = x, !.filed = t] \in MissionRow
           /\ \A a \in Attempts, v \in Visible :
                [r EXCEPT !.chosen = a, !.verdict = v, !.filed = 0] \in MissionRow
           /\ [r EXCEPT !.due = TRUE] \in MissionRow
           /\ [r EXCEPT !.view = FALSE] \in MissionRow
<1>1. r.count + 1 \in Nat
  BY DEF MissionRow
<1>2. ASSUME NEW x \in MissionStatus, NEW c \in Nat
      PROVE  [r EXCEPT !.status = x, !.count = c] \in MissionRow
  BY DEF MissionRow
<1>. QED  BY <1>1, <1>2 DEF MissionRow

\* Every update of an attempt's row that the code makes gives a row.
LEMMA AttemptRowUpdates ==
    ASSUME NEW r \in AttemptRow
    PROVE  /\ [r EXCEPT !.mine = FALSE] \in AttemptRow
           /\ [r EXCEPT !.fresh = FALSE] \in AttemptRow
           /\ [r EXCEPT !.fresh = TRUE] \in AttemptRow
           /\ \A x \in AttemptStatus :
                /\ [r EXCEPT !.status = x, !.mine = FALSE, !.fresh = FALSE] \in AttemptRow
                /\ [r EXCEPT !.status = x, !.fresh = TRUE] \in AttemptRow
  BY DEF AttemptRow

\* An attempt's row as Ended leaves it.
LEMMA EndedRow ==
    ASSUME AttemptType, NEW a \in Attempts, NEW s \in AttemptStatus
    PROVE  /\ Ended(a, s) \in AttemptRow
           /\ Ended(a, s).status = s
           /\ Ended(a, s).mission = Of(a)
<1>1. attempt[a] \in AttemptRow
  BY DEF AttemptType
<1>2. Ended(a, s) \in AttemptRow
  BY <1>1, AttemptRowUpdates DEF Ended
<1>3. Ended(a, s).status = s /\ Ended(a, s).mission = attempt[a].mission
  BY <1>1 DEF Ended, AttemptRow
<1>. QED  BY <1>2, <1>3 DEF Of

\* Every step of a thread leaves a thread's state.
LEMMA ThreadUpdates ==
    ASSUME NEW r \in ThreadState, NEW pc \in WorkerStep
    PROVE  /\ [r EXCEPT !.pc = pc] \in ThreadState
           /\ \A x \in Visible \cup AttemptFailures :
                [r EXCEPT !.pc = pc, !.says = x] \in ThreadState
           /\ \A t \in Timelines : [r EXCEPT !.pc = pc, !.at = t] \in ThreadState
           /\ [IdleWorker EXCEPT !.pc = pc] \in ThreadState
  BY DEF ThreadState, IdleWorker, WorkerStep

\* Init gives every row its type.
LEMMA InitialRows ==
    /\ BlankMission \in MissionRow
    /\ BlankAttempt \in AttemptRow
    /\ IdleWorker \in ThreadState
<1>1. /\ (CHOOSE s \in Seats : TRUE) \in Seats
      /\ (CHOOSE o \in Objectives : TRUE) \in Objectives
      /\ 1 \in Timelines /\ 1 \in Epochs
  BY DataAssumption, PolicyAssumption DEF Timelines, Epochs
<1>2. BlankMission \in MissionRow
  BY <1>1 DEF MissionRow, BlankMission, MissionStatus, Unborn
<1>. QED  BY <1>2 DEF AttemptRow, BlankAttempt, AttemptStatus, ThreadState, IdleWorker, WorkerStep

\* cancel ends one mission and exactly its live attempts.
LEMMA CancelEffect ==
    ASSUME MissionType, AttemptType, NEW m \in Missions, NEW by, Cancel(m, by)
    PROVE  /\ MissionType' /\ AttemptType'
           /\ mission'[m].status = "cancelled"
           /\ \A n \in Missions :
                /\ n # m => mission'[n] = mission[n]
                /\ mission'[n].chosen = mission[n].chosen
                /\ mission'[n].verdict = mission[n].verdict
                /\ mission'[n].filed = mission[n].filed
                /\ mission'[n].timeline = mission[n].timeline
           /\ \A a \in Attempts :
                /\ Of(a)' = Of(a)
                /\ Alive(a)' <=> Alive(a) /\ Of(a) # m
                /\ attempt'[a].status = "unused" <=> attempt[a].status = "unused"
<1>1. mission' = [mission EXCEPT ![m] = [@ EXCEPT !.status = "cancelled"]]
  BY DEF Cancel
<1>2. MissionType'
  BY <1>1, MissionRowUpdates DEF MissionType, MissionStatus
<1>3. /\ mission'[m].status = "cancelled"
      /\ \A n \in Missions :
           /\ n # m => mission'[n] = mission[n]
           /\ mission'[n].chosen = mission[n].chosen
           /\ mission'[n].verdict = mission[n].verdict
           /\ mission'[n].filed = mission[n].filed
           /\ mission'[n].timeline = mission[n].timeline
  BY <1>1 DEF MissionType, MissionRow
<1>4. \A a \in Attempts : attempt'[a] = IF Of(a) = m /\ Alive(a)
                                       THEN Ended(a, "cancelled") ELSE attempt[a]
  BY DEF Cancel, Of
<1>5. \A a \in Attempts :
        /\ Ended(a, "cancelled") \in AttemptRow
        /\ Ended(a, "cancelled").status = "cancelled"
        /\ Ended(a, "cancelled").mission = Of(a)
  <2>1. "cancelled" \in AttemptStatus
    BY DEF AttemptStatus, AttemptFailures
  <2>. QED  BY <2>1, EndedRow
<1>6. AttemptType'
  BY <1>5 DEF Cancel, AttemptType
<1>. QED  BY <1>2, <1>3, <1>4, <1>5, <1>6 DEF Of, Alive, Live

\* fail_attempt ends one attempt and moves its mission to retry_wait or failed.
LEMMA FailEffect ==
    ASSUME MissionType, AttemptType, NEW m \in Missions, NEW a \in Attempts,
           NEW outcome \in AttemptFailures, NEW allow, Fail(m, a, outcome, allow)
    PROVE  /\ MissionType' /\ AttemptType'
           /\ mission'[m].status \in {"retry_wait", "failed"}
           /\ \A n \in Missions :
                /\ n # m => mission'[n] = mission[n]
                /\ mission'[n].chosen = mission[n].chosen
                /\ mission'[n].verdict = mission[n].verdict
                /\ mission'[n].filed = mission[n].filed
                /\ mission'[n].timeline = mission[n].timeline
                /\ mission'[n].world = mission[n].world
                /\ mission'[n].view = mission[n].view
           /\ \A b \in Attempts :
                /\ Of(b)' = Of(b)
                /\ b # a => attempt'[b] = attempt[b]
           /\ attempt'[a].status = outcome
<1>. DEFINE s == IF Retries(m, outcome, allow) THEN "retry_wait" ELSE "failed"
<1>1. s \in MissionStatus /\ s \in {"retry_wait", "failed"}
  BY DEF MissionStatus, Outstanding
<1>2. mission' = [mission EXCEPT ![m] = [@ EXCEPT !.status = s, !.due = FALSE]]
  BY DEF Fail
<1>. HIDE DEF s
<1>3. MissionType'
  BY <1>1, <1>2, MissionRowUpdates DEF MissionType
<1>4. /\ mission'[m].status = s
      /\ \A n \in Missions :
           /\ n # m => mission'[n] = mission[n]
           /\ mission'[n].chosen = mission[n].chosen
           /\ mission'[n].verdict = mission[n].verdict
           /\ mission'[n].filed = mission[n].filed
           /\ mission'[n].timeline = mission[n].timeline
           /\ mission'[n].world = mission[n].world
           /\ mission'[n].view = mission[n].view
  BY <1>2 DEF MissionType, MissionRow
<1>5. attempt' = [attempt EXCEPT ![a] = Ended(a, outcome)]
  BY DEF Fail
<1>6. /\ Ended(a, outcome) \in AttemptRow
      /\ Ended(a, outcome).status = outcome
      /\ Ended(a, outcome).mission = Of(a)
  <2>1. outcome \in AttemptStatus
    BY DEF AttemptStatus
  <2>. QED  BY <2>1, EndedRow
<1>. QED  BY <1>1, <1>3, <1>4, <1>5, <1>6 DEF AttemptType, Of

\* _finalize_prepared_result shows the verdict chosen, and completes the attempt.
LEMMA ShowEffect ==
    ASSUME MissionType, AttemptType, NEW m \in Missions, NEW a \in Attempts,
           NEW t \in Timelines, mission[m].verdict \in Visible, Show(m, a, t)
    PROVE  /\ MissionType' /\ AttemptType'
           /\ mission'[m].status = mission[m].verdict
           /\ mission'[m].filed = t
           /\ \A n \in Missions :
                /\ n # m => mission'[n] = mission[n]
                /\ mission'[n].chosen = mission[n].chosen
                /\ mission'[n].verdict = mission[n].verdict
                /\ mission'[n].timeline = mission[n].timeline
           /\ \A b \in Attempts :
                /\ Of(b)' = Of(b)
                /\ Alive(b)' <=> Alive(b) /\ b # a
                /\ attempt'[b].status = "unused" <=> attempt[b].status = "unused"
<1>1. mission' = [mission EXCEPT ![m] =
                    [@ EXCEPT !.status = mission[m].verdict, !.filed = t]]
  BY DEF Show
<1>2. mission[m].verdict \in MissionStatus
  BY DEF MissionStatus
<1>3. MissionType'
  BY <1>1, <1>2, MissionRowUpdates DEF MissionType
<1>4. /\ mission'[m].status = mission[m].verdict
      /\ mission'[m].filed = t
      /\ \A n \in Missions :
           /\ n # m => mission'[n] = mission[n]
           /\ mission'[n].chosen = mission[n].chosen
           /\ mission'[n].verdict = mission[n].verdict
           /\ mission'[n].timeline = mission[n].timeline
  BY <1>1 DEF MissionType, MissionRow
<1>5. attempt' = IF Alive(a) THEN [attempt EXCEPT ![a] = Ended(a, "completed")]
                             ELSE attempt
  BY DEF Show
<1>6. /\ Ended(a, "completed") \in AttemptRow
      /\ Ended(a, "completed").status = "completed"
      /\ Ended(a, "completed").mission = Of(a)
  <2>1. "completed" \in AttemptStatus
    BY DEF AttemptStatus
  <2>. QED  BY <2>1, EndedRow
<1>. QED  BY <1>3, <1>4, <1>5, <1>6 DEF AttemptType, Of, Alive, Live

-----------------------------------------------------------------------------
(* Which steps write what *)

\* The steps that write a mission's row.
LEMMA MissionWriters ==
    ASSUME Next
    PROVE  \/ UNCHANGED mission
           \/ Sweep \/ RepairPublish
           \/ \E m \in Missions :
                \/ MainRevokes(m) \/ Expire(m) \/ RestoreRevokes(m)
                \/ DeadlinePasses(m) \/ LoseCaller(m) \/ Insert(m)
                \/ InsertDuplicate(m) \/ CancelByParent(m) \/ CommitRetry(m)
                \/ \E s \in Seats, o \in Objectives, f \in Faculties : Draft(m, s, o, f)
                \/ \E a \in Attempts : Begin(m, a)
           \/ \E a \in Attempts :
                \/ FailOrphan(a) \/ Prepare(a) \/ Publish(a) \/ FailAttempt(a)
                \/ \E v \in Visible \cup AttemptFailures : CheckResult(a, v)
<1>. USE DEF dbVars
<1>1. CASE Main
  BY <1>1 DEF Main, Start, MainReports, ListAbandoned, ListPrepared,
              RepairDeliver, AnnounceTerminal, Housekeep, Leave, Shutdown,
              RepairFile
<1>2. CASE Control
  BY <1>2 DEF Control, Activate, ListRevocations, Discard
<1>3. CASE Environment
  BY <1>3 DEF Environment, NewEpoch, Stop, Kill, HeartbeatLapses
<1>4. CASE \E m \in Missions : ToolServer(m) \/ FinishCancel(m)
  BY <1>4 DEF ToolServer, AskRetry, FinishCancel
<1>5. CASE \E a \in Attempts : Worker(a)
  BY <1>5 DEF Worker, Heartbeat, KillChild, ChildFails, ChildAnswers, FileResult,
              Announce, Release, ReportFailure
<1>. QED  BY <1>1, <1>2, <1>3, <1>4, <1>5 DEF Next

\* The steps that write an attempt's row.
LEMMA AttemptWriters ==
    ASSUME Next
    PROVE  \/ UNCHANGED attempt
           \/ Start \/ RepairPublish
           \/ \E m \in Missions :
                \/ MainRevokes(m) \/ RestoreRevokes(m) \/ CancelByParent(m)
                \/ \E a \in Attempts : Begin(m, a)
           \/ \E a \in Attempts :
                \/ FailOrphan(a) \/ HeartbeatLapses(a) \/ Heartbeat(a)
                \/ ChildAnswers(a) \/ Publish(a) \/ FailAttempt(a)
                \/ \E v \in Visible \cup AttemptFailures : CheckResult(a, v)
<1>. USE DEF dbVars
<1>1. CASE Main
  BY <1>1 DEF Main, Sweep, MainReports, ListAbandoned, ListPrepared,
              RepairDeliver, AnnounceTerminal, Housekeep, Leave, Shutdown,
              RepairFile, Expire
<1>2. CASE Control
  BY <1>2 DEF Control, Activate, ListRevocations, Discard
<1>3. CASE Environment
  BY <1>3 DEF Environment, NewEpoch, Stop, Kill, DeadlinePasses, LoseCaller
<1>4. CASE \E m \in Missions : ToolServer(m) \/ FinishCancel(m)
  BY <1>4 DEF ToolServer, Draft, Insert, InsertDuplicate, AskRetry, CommitRetry,
              FinishCancel
<1>5. CASE \E a \in Attempts : Worker(a)
  BY <1>5 DEF Worker, KillChild, ChildFails, Prepare, FileResult, Announce,
              Release, ReportFailure
<1>. QED  BY <1>1, <1>2, <1>3, <1>4, <1>5 DEF Next

\* The steps of the worker threads, as far as their program counters go.
LEMMA WorkerWriters ==
    ASSUME Next
    PROVE  \/ UNCHANGED worker
           \/ Kill
           \/ \E m \in Missions :
                \/ \E a \in Attempts : Begin(m, a)
           \/ \E a \in Attempts :
                \/ KillChild(a) \/ ChildAnswers(a) \/ Prepare(a) \/ FileResult(a)
                \/ Publish(a) \/ Announce(a) \/ Release(a) \/ FailAttempt(a)
                \/ ReportFailure(a)
                \/ \E x \in Mishaps : ChildFails(a, x)
                \/ \E v \in Visible \cup AttemptFailures : CheckResult(a, v)
<1>. USE DEF superVars
<1>1. CASE Main
  BY <1>1 DEF Main, Start, Sweep, MainReports, ListAbandoned, ListPrepared,
              RepairPublish, RepairDeliver, AnnounceTerminal, Housekeep, Leave,
              Shutdown, FailOrphan, MainRevokes, RepairFile, Expire
<1>2. CASE Control
  BY <1>2 DEF Control, Activate, ListRevocations, Discard, RestoreRevokes
<1>3. CASE Environment
  BY <1>3 DEF Environment, NewEpoch, Stop, DeadlinePasses, LoseCaller,
              HeartbeatLapses
<1>4. CASE \E m \in Missions : ToolServer(m) \/ FinishCancel(m)
  BY <1>4 DEF ToolServer, Draft, Insert, InsertDuplicate, CancelByParent,
              AskRetry, CommitRetry, FinishCancel
<1>5. CASE \E a \in Attempts : Worker(a)
  BY <1>5 DEF Worker, Heartbeat
<1>. QED  BY <1>1, <1>2, <1>3, <1>4, <1>5 DEF Next

\* The steps that move the main thread or its stop event.
LEMMA MainWriters ==
    ASSUME Next
    PROVE  \/ UNCHANGED <<main, stopping>>
           \/ Start \/ Sweep \/ MainReports \/ ListAbandoned \/ ListPrepared
           \/ RepairPublish \/ RepairDeliver \/ AnnounceTerminal \/ Housekeep
           \/ Leave \/ Shutdown \/ Stop \/ Kill
           \/ \E m \in Missions :
                \/ MainRevokes(m) \/ RepairFile(m) \/ Expire(m)
           \/ \E a \in Attempts :
                \/ FailOrphan(a)
<1>. USE DEF superVars
<1>1. CASE Main
  BY <1>1 DEF Main, Begin
<1>2. CASE Control
  BY <1>2 DEF Control, Activate, ListRevocations, Discard, RestoreRevokes
<1>3. CASE Environment
  BY <1>3 DEF Environment, NewEpoch, DeadlinePasses, LoseCaller, HeartbeatLapses
<1>4. CASE \E m \in Missions : ToolServer(m) \/ FinishCancel(m)
  BY <1>4 DEF ToolServer, Draft, Insert, InsertDuplicate, CancelByParent,
              AskRetry, CommitRetry, FinishCancel
<1>5. CASE \E a \in Attempts : Worker(a)
  BY <1>5 DEF Worker, Heartbeat, KillChild, ChildFails, ChildAnswers, CheckResult,
              Prepare, FileResult, Publish, Announce, Release, FailAttempt,
              ReportFailure
<1>. QED  BY <1>1, <1>2, <1>3, <1>4, <1>5 DEF Next

\* The steps that write the journal or the attention queue.
LEMMA OutputWriters ==
    ASSUME Next
    PROVE  \/ UNCHANGED <<journal, notices>>
           \/ MainReports \/ RepairDeliver \/ AnnounceTerminal \/ Discard
           \/ \E m \in Missions :
                \/ RepairFile(m)
           \/ \E a \in Attempts :
                \/ FileResult(a) \/ Announce(a) \/ ReportFailure(a)
<1>. USE DEF outVars
<1>1. CASE Main
  BY <1>1 DEF Main, Start, Sweep, ListAbandoned, ListPrepared, RepairPublish,
              Housekeep, Leave, Shutdown, FailOrphan, MainRevokes, Expire, Begin
<1>2. CASE Control
  BY <1>2 DEF Control, Activate, ListRevocations, RestoreRevokes
<1>3. CASE Environment
  BY <1>3 DEF Environment, NewEpoch, Stop, Kill, DeadlinePasses, LoseCaller,
              HeartbeatLapses
<1>4. CASE \E m \in Missions : ToolServer(m) \/ FinishCancel(m)
  BY <1>4 DEF ToolServer, Draft, Insert, InsertDuplicate, CancelByParent,
              AskRetry, CommitRetry, FinishCancel
<1>5. CASE \E a \in Attempts : Worker(a)
  BY <1>5 DEF Worker, Heartbeat, KillChild, ChildFails, ChildAnswers, CheckResult,
              Prepare, Publish, Release, FailAttempt
<1>. QED  BY <1>1, <1>2, <1>3, <1>4, <1>5 DEF Next

\* The steps of the callers, and those the bounds count.
LEMMA CallerWriters ==
    ASSUME Next
    PROVE  \/ UNCHANGED <<closing, asked, restore, budget>>
           \/ Activate \/ ListRevocations \/ Discard \/ Stop \/ Kill
           \/ \E m \in Missions :
                \/ MainRevokes(m) \/ RestoreRevokes(m) \/ LoseCaller(m)
                \/ CancelByParent(m) \/ AskRetry(m) \/ CommitRetry(m)
                \/ FinishCancel(m)
           \/ \E a \in Attempts :
                \/ \E v \in Visible \cup AttemptFailures : CheckResult(a, v)
<1>. USE DEF callerVars
<1>1. CASE Main
  BY <1>1 DEF Main, Start, Sweep, MainReports, ListAbandoned, ListPrepared,
              RepairPublish, RepairDeliver, AnnounceTerminal, Housekeep, Leave,
              Shutdown, FailOrphan, RepairFile, Expire, Begin
<1>2. CASE Control
  BY <1>2 DEF Control
<1>3. CASE Environment
  BY <1>3 DEF Environment, NewEpoch, DeadlinePasses, HeartbeatLapses
<1>4. CASE \E m \in Missions : ToolServer(m) \/ FinishCancel(m)
  BY <1>4 DEF ToolServer, Draft, Insert, InsertDuplicate
<1>5. CASE \E a \in Attempts : Worker(a)
  BY <1>5 DEF Worker, Heartbeat, KillChild, ChildFails, ChildAnswers, Prepare,
              FileResult, Publish, Announce, Release, FailAttempt, ReportFailure
<1>. QED  BY <1>1, <1>2, <1>3, <1>4, <1>5 DEF Next

\* The steps that write a pin or a clock.
LEMMA RestWriters ==
    ASSUME Next
    PROVE  \/ UNCHANGED <<timeline, epoch, pins>>
           \/ Sweep \/ RepairDeliver \/ Activate \/ NewEpoch
           \/ \E m \in Missions :
                \/ InsertDuplicate(m) \/ CommitRetry(m) \/ FinishCancel(m)
                \/ \E s \in Seats, o \in Objectives, f \in Faculties : Draft(m, s, o, f)
           \/ \E a \in Attempts :
                \/ Release(a)
<1>. USE DEF dbVars, clockVars
<1>1. CASE Main
  BY <1>1 DEF Main, Start, MainReports, ListAbandoned, ListPrepared,
              RepairPublish, AnnounceTerminal, Housekeep, Leave, Shutdown,
              FailOrphan, MainRevokes, RepairFile, Expire, Begin
<1>2. CASE Control
  BY <1>2 DEF Control, ListRevocations, Discard, RestoreRevokes
<1>3. CASE Environment
  BY <1>3 DEF Environment, Stop, Kill, DeadlinePasses, LoseCaller, HeartbeatLapses
<1>4. CASE \E m \in Missions : ToolServer(m) \/ FinishCancel(m)
  BY <1>4 DEF ToolServer, Insert, CancelByParent, AskRetry
<1>5. CASE \E a \in Attempts : Worker(a)
  BY <1>5 DEF Worker, Heartbeat, KillChild, ChildFails, ChildAnswers, CheckResult,
              Prepare, FileResult, Publish, Announce, FailAttempt, ReportFailure
<1>. QED  BY <1>1, <1>2, <1>3, <1>4, <1>5 DEF Next


-----------------------------------------------------------------------------
(* Types *)

\* A row written in place of a row keeps the type of the missions' table; so does a
\* status.
LEMMA RowWritten ==
    ASSUME MissionType, NEW m \in Missions, NEW r \in MissionRow,
           mission' = [mission EXCEPT ![m] = r]
    PROVE  MissionType'
  BY DEF MissionType
LEMMA StatusWritten ==
    ASSUME MissionType, NEW m \in Missions, NEW x \in MissionStatus,
           mission' = [mission EXCEPT ![m] = [@ EXCEPT !.status = x]]
    PROVE  MissionType'
  BY MissionRowUpdates DEF MissionType

\* Every step keeps the type of the missions' table.
LEMMA MissionTypeStep ==
    ASSUME IInv, Next
    PROVE  MissionType'
<1>1. /\ MissionType /\ AttemptType /\ AttemptInv /\ WorkerInv /\ MainInv /\ ChosenInv
      /\ timeline \in Timelines /\ epoch \in Epochs /\ WorkerType
  BY DEF IInv, TypeOK
<1>2. CASE UNCHANGED mission
  BY <1>1, <1>2 DEF MissionType
<1>3. CASE Sweep
  BY <1>1, <1>3, MissionRowUpdates DEF Sweep, MissionType
<1>4. CASE RepairPublish
  <2>1. main.item \in Missions
    BY <1>1, <1>4 DEF MainInv, RepairPublish, At
  <2>2. CASE UNCHANGED mission
    BY <1>1, <2>2 DEF MissionType
  <2>3. CASE Prepared(main.item) /\ Show(main.item, mission[main.item].chosen,
                                         mission[main.item].timeline)
    <3>1. /\ mission[main.item].chosen \in Attempts
          /\ mission[main.item].timeline \in Timelines
          /\ mission[main.item].verdict \in Visible
      BY <1>1, <2>1, <2>3 DEF Prepared, ChosenInv, MissionType, MissionRow
    <3>. QED  BY <1>1, <2>1, <2>3, <3>1, ShowEffect
  <2>. QED  BY <1>4, <2>2, <2>3 DEF RepairPublish
<1>5. ASSUME NEW m \in Missions,
             MainRevokes(m) \/ RestoreRevokes(m) \/ CancelByParent(m)
      PROVE  MissionType'
  <2>1. CASE UNCHANGED mission
    BY <1>1, <2>1 DEF MissionType
  <2>2. CASE \E by : Cancel(m, by)
    BY <1>1, <2>2, CancelEffect
  <2>. QED  BY <1>5, <2>1, <2>2 DEF MainRevokes, RestoreRevokes, CancelByParent
<1>6. ASSUME NEW m \in Missions,
             \/ Expire(m) \/ DeadlinePasses(m) \/ LoseCaller(m)
             \/ Insert(m) \/ InsertDuplicate(m) \/ CommitRetry(m)
      PROVE  MissionType'
  <2>1. {"failed", "dropped", "queued"} \subseteq MissionStatus
    BY DEF MissionStatus, Unborn, Outstanding
  <2>2. CASE Expire(m)
    BY <1>1, <2>1, <2>2, MissionRowUpdates DEF Expire, MissionType
  <2>3. CASE DeadlinePasses(m)
    BY <1>1, <2>3, MissionRowUpdates DEF DeadlinePasses, MissionType
  <2>4. CASE \/ UNCHANGED mission
             \/ \E x \in {"dropped", "queued"} :
                  mission' = [mission EXCEPT ![m] = [@ EXCEPT !.status = x]]
    <3>1. CASE UNCHANGED mission
      BY <1>1, <3>1 DEF MissionType
    <3>. QED  BY <1>1, <2>1, <2>4, <3>1, StatusWritten
  <2>. QED  BY <1>6, <2>2, <2>3, <2>4 DEF LoseCaller, Insert, InsertDuplicate, CommitRetry
<1>7. ASSUME NEW m \in Missions, NEW s \in Seats, NEW o \in Objectives,
             NEW f \in Faculties, Draft(m, s, o, f)
      PROVE  MissionType'
  <2>. DEFINE w == (f = "world")
              r == [BlankMission EXCEPT !.status = "draft", !.seat = s, !.objective = o,
                                        !.timeline = timeline, !.epoch = epoch,
                                        !.world = w, !.view = w]
  <2>1. w \in BOOLEAN
    OBVIOUS
  <2>2. "draft" \in MissionStatus
    BY DEF MissionStatus, Unborn
  <2>3. mission' = [mission EXCEPT ![m] = r]
    BY <1>7 DEF Draft
  <2>. HIDE DEF w
  <2>4. r \in MissionRow
    BY <1>1, <2>1, <2>2, InitialRows DEF MissionRow
  <2>. QED  BY <1>1, <2>3, <2>4 DEF MissionType
<1>8. ASSUME NEW m \in Missions, NEW a \in Attempts, Begin(m, a)
      PROVE  MissionType'
  <2>. DEFINE r == [mission[m] EXCEPT !.status = "active", !.count = mission[m].count + 1]
  <2>1. "active" \in MissionStatus /\ mission[m] \in MissionRow
    BY <1>1 DEF MissionType, MissionStatus, Outstanding
  <2>2. r \in MissionRow
    BY <2>1, MissionRowUpdates
  <2>3. mission' = [mission EXCEPT ![m] = r]
    BY <1>8 DEF Begin
  <2>. HIDE DEF r
  <2>. QED  BY <1>1, <2>2, <2>3, RowWritten
<1>9. ASSUME NEW a \in Attempts, FailOrphan(a) \/ FailAttempt(a)
      PROVE  MissionType'
  <2>1. CASE UNCHANGED mission
    BY <1>1, <2>1 DEF MissionType
  <2>2. CASE /\ Failable(Of(a), a)
             /\ \E x \in AttemptFailures, allow \in BOOLEAN : Fail(Of(a), a, x, allow)
    <3>1. Of(a) \in Missions
      BY <1>1, <2>2 DEF Failable, Alive, Live, AttemptInv
    <3>. QED  BY <1>1, <2>2, <3>1, FailEffect
  <2>. QED  BY <1>1, <1>9, <2>1, <2>2
            DEF FailOrphan, FailAttempt, WorkerInv, WorkerKnows, AttemptFailures
<1>10. ASSUME NEW a \in Attempts, NEW v \in Visible \cup AttemptFailures,
              CheckResult(a, v)
       PROVE  MissionType'
  <2>1. Of(a) \in Missions
    BY <1>1, <1>10 DEF WorkerInv, WorkerKnows, CheckResult
  <2>. QED  BY <1>1, <1>10, <2>1, CancelEffect DEF CheckResult, MissionType
<1>11. ASSUME NEW a \in Attempts, Prepare(a)
       PROVE  MissionType'
  <2>1. Of(a) \in Missions /\ worker[a].says \in Visible
    BY <1>1, <1>11 DEF WorkerInv, WorkerKnows, Prepare
  <2>2. CASE UNCHANGED mission
    BY <1>1, <2>2 DEF MissionType
  <2>3. CASE mission' = [mission EXCEPT ![Of(a)] =
                           [@ EXCEPT !.chosen = a, !.verdict = worker[a].says, !.filed = 0]]
    BY <1>1, <2>1, <2>3, MissionRowUpdates DEF MissionType
  <2>. QED  BY <1>11, <2>2, <2>3 DEF Prepare
<1>12. ASSUME NEW a \in Attempts, Publish(a)
       PROVE  MissionType'
  <2>1. /\ Of(a) \in Missions /\ worker[a].at \in Timelines
        /\ mission[Of(a)].verdict \in Visible
    BY <1>1, <1>12 DEF WorkerInv, WorkerKnows, Publish
  <2>. QED  BY <1>1, <1>12, <2>1, ShowEffect DEF Publish, MissionType
<1>. QED  BY <1>2, <1>3, <1>4, <1>5, <1>6, <1>7, <1>8, <1>9, <1>10, <1>11, <1>12,
             MissionWriters
\* Every step keeps the type of the attempts' table.
LEMMA AttemptTypeStep ==
    ASSUME IInv, Next
    PROVE  AttemptType'
<1>1. /\ MissionType /\ AttemptType /\ AttemptInv /\ WorkerInv /\ MainInv /\ ChosenInv
      /\ WorkerType
  BY DEF IInv, TypeOK
<1>2. CASE UNCHANGED attempt
  BY <1>1, <1>2 DEF AttemptType
<1>3. CASE Start
  BY <1>1, <1>3, AttemptRowUpdates DEF Start, AttemptType
<1>4. CASE RepairPublish
  <2>1. main.item \in Missions
    BY <1>1, <1>4 DEF MainInv, RepairPublish, At
  <2>2. CASE Prepared(main.item) /\ Show(main.item, mission[main.item].chosen,
                                         mission[main.item].timeline)
    <3>1. /\ mission[main.item].chosen \in Attempts
          /\ mission[main.item].timeline \in Timelines
          /\ mission[main.item].verdict \in Visible
      BY <1>1, <2>1, <2>2 DEF Prepared, ChosenInv, MissionType, MissionRow
    <3>. QED  BY <1>1, <2>1, <2>2, <3>1, ShowEffect
  <2>. QED  BY <1>2, <1>4, <2>2 DEF RepairPublish
<1>5. ASSUME NEW m \in Missions,
             MainRevokes(m) \/ RestoreRevokes(m) \/ CancelByParent(m)
      PROVE  AttemptType'
  <2>1. CASE \E by : Cancel(m, by)
    BY <1>1, <2>1, CancelEffect
  <2>. QED  BY <1>2, <1>5, <2>1 DEF MainRevokes, RestoreRevokes, CancelByParent
<1>6. ASSUME NEW m \in Missions, NEW a \in Attempts, Begin(m, a)
      PROVE  AttemptType'
  <2>1. [mission |-> m, status |-> "running", mine |-> TRUE, fresh |-> TRUE]
          \in AttemptRow
    BY DEF AttemptRow, AttemptStatus, Live
  <2>. QED  BY <1>1, <1>6, <2>1 DEF Begin, AttemptType
<1>7. ASSUME NEW a \in Attempts, FailOrphan(a) \/ FailAttempt(a)
      PROVE  AttemptType'
  <2>1. CASE /\ Failable(Of(a), a)
             /\ \E x \in AttemptFailures, allow \in BOOLEAN : Fail(Of(a), a, x, allow)
    <3>1. Of(a) \in Missions
      BY <1>1, <2>1 DEF Failable, Alive, Live, AttemptInv
    <3>. QED  BY <1>1, <2>1, <3>1, FailEffect
  <2>2. CASE FailOrphan(a)
    <3>1. CASE Failable(Of(a), a)
      <4>1. Fail(Of(a), a, "orphaned", TRUE) /\ "orphaned" \in AttemptFailures
        BY <2>2, <3>1 DEF FailOrphan, AttemptFailures
      <4>. QED  BY <2>1, <3>1, <4>1
    <3>2. CASE ~ Failable(Of(a), a)
      BY <1>1, <2>2, <3>2 DEF FailOrphan, AttemptType
    <3>. QED  BY <3>1, <3>2
  <2>3. CASE FailAttempt(a)
    BY <1>1, <1>2, <2>1, <2>3 DEF FailAttempt, WorkerInv, WorkerKnows
  <2>. QED  BY <1>7, <2>2, <2>3
<1>8. ASSUME NEW a \in Attempts, HeartbeatLapses(a) \/ Heartbeat(a)
      PROVE  AttemptType'
  BY <1>1, <1>8, AttemptRowUpdates DEF HeartbeatLapses, Heartbeat, AttemptType
<1>9. ASSUME NEW a \in Attempts, ChildAnswers(a)
      PROVE  AttemptType'
  <2>1. "validating" \in AttemptStatus
    BY DEF AttemptStatus, Live
  <2>2. [attempt[a] EXCEPT !.status = "validating", !.fresh = TRUE] \in AttemptRow
    BY <1>1, <2>1, AttemptRowUpdates DEF AttemptType
  <2>3. CASE attempt' = [attempt EXCEPT ![a] =
                           [@ EXCEPT !.status = "validating", !.fresh = TRUE]]
    BY <1>1, <2>2, <2>3 DEF AttemptType
  <2>. QED  BY <1>2, <1>9, <2>3 DEF ChildAnswers
<1>10. ASSUME NEW a \in Attempts, Publish(a)
       PROVE  AttemptType'
  <2>1. /\ Of(a) \in Missions /\ worker[a].at \in Timelines
        /\ mission[Of(a)].verdict \in Visible
    BY <1>1, <1>10 DEF WorkerInv, WorkerKnows, Publish
  <2>. QED  BY <1>1, <1>2, <1>10, <2>1, ShowEffect DEF Publish
<1>11. ASSUME NEW a \in Attempts, NEW v \in Visible \cup AttemptFailures,
              CheckResult(a, v)
       PROVE  AttemptType'
  <2>1. Of(a) \in Missions
    BY <1>1, <1>11 DEF WorkerInv, WorkerKnows, CheckResult
  <2>. QED  BY <1>1, <1>2, <1>11, <2>1, CancelEffect DEF CheckResult
<1>. QED  BY <1>2, <1>3, <1>4, <1>5, <1>6, <1>7, <1>8, <1>9, <1>10, <1>11,
             AttemptWriters

\* Every step of a worker thread leaves it in a state it may have.
LEMMA WorkerTypeStep ==
    ASSUME IInv, Next
    PROVE  WorkerType'
<1>1. WorkerType /\ timeline \in Timelines
  BY DEF IInv, TypeOK
<1>2. CASE UNCHANGED worker
  BY <1>1, <1>2 DEF WorkerType
<1>3. ASSUME NEW a \in Attempts, NEW pc \in WorkerStep
      PROVE  /\ Go(a, pc) => WorkerType'
             /\ \A x \in Visible \cup AttemptFailures : GoSaying(a, pc, x) => WorkerType'
  <2>1. worker[a] \in ThreadState
    BY <1>1 DEF WorkerType
  <2>2. [worker[a] EXCEPT !.pc = pc] \in ThreadState
    BY <2>1, ThreadUpdates
  <2>3. ASSUME NEW x \in Visible \cup AttemptFailures
        PROVE  [worker[a] EXCEPT !.pc = pc, !.says = x] \in ThreadState
    BY <2>1, ThreadUpdates
  <2>. QED  BY <1>1, <2>2, <2>3 DEF Go, GoSaying, WorkerType
<1>4. \A a \in Attempts : /\ Refused(a) => WorkerType'
                          /\ Done(a) => WorkerType'
  <2>1. "failing" \in WorkerStep /\ "done" \in WorkerStep
        /\ "provider_failed" \in AttemptFailures
    BY DEF WorkerStep, AttemptFailures
  <2>. QED  BY <1>1, <1>3, <2>1, InitialRows, ThreadUpdates DEF Refused, Done, WorkerType
<1>5. ASSUME NEW m \in Missions, NEW a \in Attempts, Begin(m, a)
      PROVE  WorkerType'
  <2>1. "child" \in WorkerStep
    BY DEF WorkerStep
  <2>. QED  BY <1>1, <1>5, <2>1, InitialRows, ThreadUpdates DEF Begin, WorkerType
<1>6. CASE Kill
  BY <1>6, InitialRows DEF Kill, WorkerType
<1>7. ASSUME NEW a \in Attempts, NEW v \in Visible \cup AttemptFailures,
             \/ KillChild(a) \/ ChildAnswers(a) \/ Prepare(a) \/ CheckResult(a, v)
             \/ Publish(a) \/ Announce(a) \/ Release(a) \/ FailAttempt(a)
             \/ ReportFailure(a)
      PROVE  WorkerType'
  <2>1. /\ {"failing", "validate", "checked", "prepared", "published", "announced",
            "report"} \subseteq WorkerStep
        /\ {"cancelled", "timed_out"} \subseteq AttemptFailures
    BY DEF WorkerStep, AttemptFailures
  <2>. QED  BY <1>2, <1>3, <1>4, <1>7, <2>1
            DEF KillChild, ChildAnswers, Prepare, CheckResult, Publish, Announce,
                Release, FailAttempt, ReportFailure
<1>8. ASSUME NEW a \in Attempts, NEW x \in Mishaps, ChildFails(a, x)
      PROVE  WorkerType'
  <2>1. x \in AttemptFailures /\ "failing" \in WorkerStep
    BY DataAssumption DEF AttemptFailures, WorkerStep
  <2>. QED  BY <1>3, <1>8, <2>1 DEF ChildFails
<1>9. ASSUME NEW a \in Attempts, FileResult(a)
      PROVE  WorkerType'
  <2>1. "filed" \in WorkerStep
    BY DEF WorkerStep
  <2>. QED  BY <1>1, <1>9, <2>1, ThreadUpdates DEF FileResult, WorkerType
<1>. QED  BY <1>2, <1>5, <1>6, <1>7, <1>8, <1>9, WorkerWriters DEF AttemptFailures
\* Every step of the main thread leaves it in a state it may have.
LEMMA MainTypeStep ==
    ASSUME IInv, Next
    PROVE  MainType'
<1>1. /\ MainType /\ AttemptInv /\ timeline \in Timelines
      /\ main.todo \subseteq Missions \cup Attempts
  BY DEF IInv, TypeOK, MainType
<1>2. CASE UNCHANGED <<main, stopping>>
  BY <1>1, <1>2 DEF MainType
<1>3. ASSUME NEW pc \in MainStep, NEW s \in SUBSET (Missions \cup Attempts),
             NEW item \in Missions \cup {NoMission}, stopping' \in BOOLEAN
      PROVE  /\ To(pc, s) => MainType'
             /\ main' = [main EXCEPT !.pc = pc, !.item = item] => MainType'
             /\ main' = [main EXCEPT !.pc = pc] => MainType'
             /\ main' = [main EXCEPT !.todo = s] => MainType'
             /\ main' = [main EXCEPT !.todo = s, !.pc = pc, !.item = item] => MainType'
             /\ main' = [main EXCEPT !.pc = pc, !.todo = s, !.item = item] => MainType'
             /\ \A t \in Timelines :
                  main' = [main EXCEPT !.pc = pc, !.at = t, !.todo = s] => MainType'
  <2>1. 1 \in Timelines
    BY PolicyAssumption DEF Timelines
  <2>2. ASSUME To(pc, s)
        PROVE  MainType'
    <3>1. main' \in [pc: MainStep, todo: SUBSET (Missions \cup Attempts),
                     at: Timelines, item: Missions \cup {NoMission}]
      BY <1>3, <2>1, <2>2 DEF To
    <3>. QED  BY <1>3, <3>1 DEF MainType
  <2>3. /\ main' = [main EXCEPT !.pc = pc, !.item = item] => MainType'
        /\ main' = [main EXCEPT !.pc = pc] => MainType'
    BY <1>1, <1>3 DEF MainType
  <2>4. /\ main' = [main EXCEPT !.todo = s] => MainType'
        /\ main' = [main EXCEPT !.todo = s, !.pc = pc, !.item = item] => MainType'
    BY <1>1, <1>3 DEF MainType
  <2>5. main' = [main EXCEPT !.pc = pc, !.todo = s, !.item = item] => MainType'
    BY <1>1, <1>3 DEF MainType
  <2>6. ASSUME NEW t \in Timelines, main' = [main EXCEPT !.pc = pc, !.at = t, !.todo = s]
        PROVE  MainType'
    BY <1>1, <1>3, <2>6 DEF MainType
  <2>. QED  BY <2>2, <2>3, <2>4, <2>5, <2>6
<1>4. /\ stopping \in BOOLEAN /\ main.pc \in MainStep
      /\ main.item \in Missions \cup {NoMission}
  BY <1>1 DEF MainType
<1>5. MainStep = {"down", "sweep", "orphans", "reportOrphan", "revoke",
                  "repair", "finalize", "deliver", "schedule",
                  "reportExpiry", "exit"}
  BY DEF MainStep
<1>6. ASSUME Raise
      PROVE  MainType'
  <2>1. stopping' \in BOOLEAN /\ To("exit", {})
    BY <1>6 DEF Raise
  <2>. QED  BY <1>3, <1>5, <2>1
<1>7. CASE Start \/ Sweep
  <2>1. stopping' \in BOOLEAN
    BY <1>4, <1>7 DEF Start, Sweep
  <2>. QED  BY <1>3, <1>5, <1>7, <2>1 DEF Start, Sweep
<1>8. CASE \/ MainReports \/ ListAbandoned \/ ListPrepared \/ AnnounceTerminal
           \/ Housekeep \/ Leave \/ Shutdown \/ RepairDeliver
  <2>1. stopping' \in BOOLEAN
    BY <1>4, <1>8 DEF MainReports, ListAbandoned, ListPrepared, AnnounceTerminal,
                      Housekeep, Leave, Shutdown, RepairDeliver
  <2>2. CASE MainReports \/ RepairDeliver
    BY <1>3, <1>5, <2>1, <2>2 DEF MainReports, RepairDeliver
  <2>3. CASE ListAbandoned
    <3>1. Abandoned \subseteq Missions
      BY DEF Abandoned, Rows
    <3>. QED  BY <1>1, <1>3, <1>5, <2>1, <2>3, <3>1 DEF ListAbandoned
  <2>. QED  BY <1>3, <1>5, <1>8, <2>1, <2>2, <2>3
            DEF ListPrepared, AnnounceTerminal, Housekeep, Leave, Shutdown
<1>9. CASE RepairPublish
  <2>1. stopping' = stopping => stopping' \in BOOLEAN
    BY <1>4
  <2>. QED  BY <1>3, <1>5, <1>6, <1>9, <2>1, <1>4 DEF RepairPublish
<1>10. CASE Stop \/ Kill
  <2>1. stopping' \in BOOLEAN
    BY <1>10 DEF Stop, Kill
  <2>2. CASE Stop
    BY <1>1, <2>1, <2>2 DEF Stop, MainType
  <2>. QED  BY <1>3, <1>5, <1>10, <2>1, <2>2 DEF Kill
<1>11. ASSUME NEW m \in Missions, MainRevokes(m) \/ RepairFile(m) \/ Expire(m)
       PROVE  MainType'
  <2>1. main.todo \ {m} \subseteq Missions \cup Attempts
    BY <1>1
  <2>2. CASE Raise
    BY <1>6, <2>2
  <2>3. CASE MainRevokes(m) /\ UNCHANGED stopping
    BY <1>3, <1>4, <1>5, <1>6, <2>1, <2>3 DEF MainRevokes
  <2>4. CASE RepairFile(m) \/ Expire(m)
    BY <1>3, <1>4, <1>5, <2>1, <2>4 DEF RepairFile, Expire
  <2>. QED  BY <1>11, <2>2, <2>3, <2>4 DEF MainRevokes
<1>12. ASSUME NEW a \in Attempts, FailOrphan(a)
       PROVE  MainType'
  <2>1. main.todo \ {a} \subseteq Missions \cup Attempts
    BY <1>1
  <2>2. CASE Raise
    BY <1>6, <2>2
  <2>3. CASE Failable(Of(a), a) /\ UNCHANGED stopping
    <3>1. Of(a) \in Missions
      BY <1>1, <2>3 DEF Failable, Alive, Live, AttemptInv
    <3>. DEFINE again == Retries(Of(a), "orphaned", TRUE)
                pc    == IF again THEN main.pc ELSE "reportOrphan"
                item  == IF again THEN main.item ELSE Of(a)
    <3>2. pc \in MainStep /\ item \in Missions \cup {NoMission}
      BY <1>4, <1>5, <3>1
    <3>3. main' = [main EXCEPT !.todo = main.todo \ {a}, !.pc = pc, !.item = item]
      BY <1>12, <2>3 DEF FailOrphan
    <3>. HIDE DEF pc, item
    <3>. QED  BY <1>3, <1>4, <2>1, <2>3, <3>2, <3>3
  <2>. QED  BY <1>12, <2>2, <2>3 DEF FailOrphan
<1>. QED  BY <1>2, <1>7, <1>8, <1>9, <1>10, <1>11, <1>12, MainWriters

\* Every event and every notice written is one.
LEMMA OutputTypeStep ==
    ASSUME IInv, Next
    PROVE  OutputType'
<1>1. /\ OutputType /\ MissionType /\ WorkerInv /\ MainInv /\ ChosenInv
      /\ timeline \in Timelines
  BY DEF IInv, TypeOK
<1>2. CASE UNCHANGED <<journal, notices>>
  BY <1>1, <1>2 DEF OutputType
<1>3. ASSUME NEW m \in Missions, NEW about \in Visible \cup AttemptFailures \cup {"failed"}
      PROVE  NoticeFor(m, about) \subseteq
               [mission: Missions, timeline: Timelines,
                about: Visible \cup AttemptFailures \cup {"failed"}]
  BY <1>1 DEF NoticeFor, Notice
<1>4. /\ {"orphaned", "timed_out"} \subseteq AttemptFailures
      /\ AnnouncedStates = Visible \cup {"failed"}
  BY DEF AttemptFailures, AnnouncedStates
<1>5. CASE MainReports
  <2>1. main.item \in Missions
    BY <1>1, <1>5 DEF MainReports, MainInv, At
  <2>. QED  BY <1>1, <1>3, <1>4, <1>5, <2>1 DEF MainReports, OutputType
<1>6. CASE RepairDeliver
  <2>1. main.item \in Missions /\ mission[main.item].verdict \in Visible
    BY <1>1, <1>6 DEF RepairDeliver, MainInv, Recorded, ChosenInv, At
  <2>. QED  BY <1>1, <1>3, <1>6, <2>1 DEF RepairDeliver, OutputType
<1>7. CASE AnnounceTerminal
  <2>1. \A m \in Rows(AnnouncedStates) :
          m \in Missions /\ mission[m].status \in Visible \cup AttemptFailures \cup {"failed"}
    BY <1>4 DEF Rows
  <2>. QED  BY <1>1, <1>3, <1>7, <2>1 DEF AnnounceTerminal, OutputType
<1>8. CASE Discard
  BY <1>1, <1>8 DEF Discard, OutputType
<1>9. ASSUME NEW m \in Missions, RepairFile(m)
      PROVE  OutputType'
  <2>1. /\ mission[m].chosen \in Attempts /\ mission[m].verdict \in Visible
        /\ mission[m].timeline \in Timelines
    BY <1>1, <1>9 DEF RepairFile, MainInv, ChosenInv, MissionType, MissionRow, At
  <2>. QED  BY <1>1, <1>9, <2>1 DEF RepairFile, OutputType, ResultEvent
<1>10. ASSUME NEW a \in Attempts, FileResult(a) \/ Announce(a) \/ ReportFailure(a)
       PROVE  OutputType'
  <2>1. Of(a) \in Missions /\ worker[a].says \in Visible \cup AttemptFailures
    BY <1>1, <1>10 DEF FileResult, Announce, ReportFailure, WorkerInv, WorkerKnows
  <2>2. CASE FileResult(a)
    <3>1. worker[a].says \in Visible
      BY <1>1, <2>2 DEF FileResult, WorkerInv, WorkerKnows
    <3>. QED  BY <1>1, <2>1, <2>2, <3>1 DEF FileResult, OutputType, ResultEvent
  <2>. QED  BY <1>1, <1>3, <1>10, <2>1, <2>2 DEF Announce, ReportFailure, OutputType
<1>. QED  BY <1>2, <1>5, <1>6, <1>7, <1>8, <1>9, <1>10, OutputWriters
\* Every step keeps the type of the callers' variables and of what the bounds count.
LEMMA CallerTypeStep ==
    ASSUME IInv, Next
    PROVE  CallerType'
<1>1. CallerType /\ AttemptType
  BY DEF IInv, TypeOK
<1>2. CASE UNCHANGED <<closing, asked, restore, budget>>
  BY <1>1, <1>2 DEF CallerType
<1>3. Abandoned \subseteq Missions
  BY DEF Abandoned, Rows
<1>4. ASSUME NEW m \in Missions, NEW by \in {"none", "parent", "restore", "main"}
                                             \cup Attempts,
             closing' = [closing EXCEPT ![m] = by]
      PROVE  closing' \in [Missions -> {"none", "parent", "restore", "main"} \cup Attempts]
  BY <1>1, <1>4 DEF CallerType
<1>5. /\ budget.faults < MaxFaults =>
           [budget EXCEPT !.faults = @ + 1]
             \in [retries: 0 .. MaxManualRetries, faults: 0 .. MaxFaults]
      /\ budget.retries < MaxManualRetries =>
           [budget EXCEPT !.retries = @ + 1]
             \in [retries: 0 .. MaxManualRetries, faults: 0 .. MaxFaults]
  BY <1>1, PolicyAssumption DEF CallerType
<1>6. CASE Activate \/ ListRevocations \/ Discard
  BY <1>1, <1>3, <1>6 DEF Activate, ListRevocations, Discard, CallerType
<1>7. CASE Stop
  BY <1>1, <1>5, <1>7 DEF Stop, CallerType
<1>8. CASE Kill
  <2>1. closing' \in [Missions -> {"none", "parent", "restore", "main"} \cup Attempts]
    BY <1>1, <1>8 DEF Kill, CallerType
  <2>. QED  BY <1>1, <1>5, <1>8, <2>1 DEF Kill, CallerType
<1>9. ASSUME NEW m \in Missions,
             MainRevokes(m) \/ CancelByParent(m) \/ FinishCancel(m)
      PROVE  CallerType'
  <2>1. \/ UNCHANGED closing
        \/ \E by \in {"none", "parent", "main"} : closing' = [closing EXCEPT ![m] = by]
    BY <1>9 DEF MainRevokes, CancelByParent, FinishCancel, Cancel
  <2>2. closing' \in [Missions -> {"none", "parent", "restore", "main"} \cup Attempts]
    BY <1>1, <1>4, <2>1 DEF CallerType
  <2>. QED  BY <1>1, <1>9, <2>2 DEF MainRevokes, CancelByParent, FinishCancel, CallerType
<1>10. ASSUME NEW m \in Missions, RestoreRevokes(m)
       PROVE  CallerType'
  <2>1. \/ UNCHANGED closing
        \/ closing' = [closing EXCEPT ![m] = "restore"]
    BY <1>10 DEF RestoreRevokes, Cancel
  <2>2. closing' \in [Missions -> {"none", "parent", "restore", "main"} \cup Attempts]
    BY <1>1, <1>4, <2>1 DEF CallerType
  <2>3. restore' \in [pc: {"idle", "activated", "revoke"}, todo: SUBSET Missions]
    <3>1. restore.todo \ {m} \in SUBSET Missions
      BY <1>1 DEF CallerType
    <3>2. \/ restore' = [restore EXCEPT !.todo = restore.todo \ {m}]
          \/ restore' = [pc |-> "idle", todo |-> {}]
      BY <1>10 DEF RestoreRevokes
    <3>. QED  BY <1>1, <3>1, <3>2 DEF CallerType
  <2>. QED  BY <1>1, <1>10, <2>2, <2>3 DEF RestoreRevokes, CallerType
<1>11. ASSUME NEW m \in Missions, LoseCaller(m)
       PROVE  CallerType'
  <2>1. closing' \in [Missions -> {"none", "parent", "restore", "main"} \cup Attempts]
    BY <1>1, <1>4, <1>11 DEF LoseCaller, CallerType
  <2>. QED  BY <1>1, <1>5, <1>11, <2>1 DEF LoseCaller, CallerType
<1>12. ASSUME NEW m \in Missions, AskRetry(m) \/ CommitRetry(m)
       PROVE  CallerType'
  BY <1>1, <1>5, <1>12 DEF AskRetry, CommitRetry, CallerType
<1>13. ASSUME NEW a \in Attempts, NEW v \in Visible \cup AttemptFailures,
              CheckResult(a, v)
       PROVE  CallerType'
  <2>1. Of(a) \in Missions
    BY <1>13 DEF IInv, WorkerInv, WorkerKnows, CheckResult
  <2>2. \/ UNCHANGED closing
        \/ closing' = [closing EXCEPT ![Of(a)] = a]
    BY <1>13 DEF CheckResult, Cancel
  <2>3. closing' \in [Missions -> {"none", "parent", "restore", "main"} \cup Attempts]
    BY <1>1, <1>4, <2>1, <2>2 DEF CallerType
  <2>. QED  BY <1>1, <1>13, <2>3 DEF CheckResult, CallerType
<1>. QED  BY <1>2, <1>6, <1>7, <1>8, <1>9, <1>10, <1>11, <1>12, <1>13, CallerWriters

\* Every step keeps every variable in its type.
LEMMA TypeStep ==
    ASSUME IInv, Next
    PROVE  TypeOK'
<1>1. TypeOK
  BY DEF IInv
<1>2. timeline' \in Timelines /\ epoch' \in Epochs /\ pins' \subseteq Missions
  <2>1. CASE UNCHANGED <<timeline, epoch, pins>>
    BY <1>1, <2>1 DEF TypeOK
  <2>2. CASE Activate \/ NewEpoch
    BY <1>1, <2>2, PolicyAssumption
       DEF TypeOK, Activate, NewEpoch, Timelines, Epochs, dbVars
  <2>3. CASE Sweep \/ RepairDeliver
    BY <1>1, <2>3 DEF TypeOK, Sweep, RepairDeliver, clockVars
  <2>4. ASSUME NEW m \in Missions,
               InsertDuplicate(m) \/ CommitRetry(m) \/ FinishCancel(m)
        PROVE  timeline' \in Timelines /\ epoch' \in Epochs /\ pins' \subseteq Missions
    BY <1>1, <2>4 DEF TypeOK, InsertDuplicate, CommitRetry, FinishCancel, clockVars
  <2>5. ASSUME NEW m \in Missions, NEW s \in Seats, NEW o \in Objectives,
               NEW f \in Faculties, Draft(m, s, o, f)
        PROVE  timeline' \in Timelines /\ epoch' \in Epochs /\ pins' \subseteq Missions
    BY <1>1, <2>5 DEF TypeOK, Draft, clockVars
  <2>6. ASSUME NEW a \in Attempts, Release(a)
        PROVE  timeline' \in Timelines /\ epoch' \in Epochs /\ pins' \subseteq Missions
    BY <1>1, <2>6 DEF TypeOK, Release, clockVars
  <2>. QED  BY <2>1, <2>2, <2>3, <2>4, <2>5, <2>6, RestWriters
<1>. QED  BY <1>2, MissionTypeStep, AttemptTypeStep, OutputTypeStep, WorkerTypeStep,
             MainTypeStep, CallerTypeStep DEF TypeOK
-----------------------------------------------------------------------------
(* What no step takes back *)

\* A mission keeps the result it chose, and stays as it is once it is visible
\* or cancelled.
LEMMA MissionHistory ==
    ASSUME IInv, Next
    PROVE  ResultKept
<1>1. /\ MissionType /\ AttemptType /\ AttemptInv /\ WorkerInv /\ MainInv /\ ChosenInv
      /\ WorkerType
  BY DEF IInv, TypeOK
<1>2. \A m \in Missions : mission'[m] = mission[m] => RowKept(m)
  BY <1>1 DEF ChosenInv, RowKept
<1>3. ASSUME NEW m \in Missions, \A n \in Missions \ {m} : mission'[n] = mission[n],
             \/ mission[m].chosen = NoAttempt
             \/ /\ mission'[m].chosen = mission[m].chosen
                /\ mission'[m].verdict = mission[m].verdict
                /\ mission'[m].timeline = mission[m].timeline
                /\ mission'[m].status \in {"active", "cancelled"} \cup Visible,
             mission[m].status \notin Visible \cup {"cancelled"}
      PROVE  ResultKept
  BY <1>2, <1>3 DEF RowKept, ResultKept
<1>4. CASE UNCHANGED mission
  BY <1>2, <1>4 DEF ResultKept
<1>5. CASE Sweep
  <2>1. ASSUME NEW m \in Missions
        PROVE  RowKept(m)
    <3>1. /\ mission'[m].status = mission[m].status
          /\ mission'[m].chosen = mission[m].chosen
          /\ mission'[m].verdict = mission[m].verdict
          /\ mission'[m].filed = mission[m].filed
          /\ mission'[m].timeline = mission[m].timeline
      BY <1>1, <1>5 DEF Sweep, MissionType, MissionRow
    <3>. QED  BY <1>1, <3>1 DEF RowKept, ChosenInv
  <2>. QED  BY <2>1 DEF ResultKept
<1>6. CASE RepairPublish
  <2>1. main.item \in Missions
    BY <1>1, <1>6 DEF MainInv, RepairPublish, At
  <2>2. CASE Prepared(main.item) /\ Show(main.item, mission[main.item].chosen,
                                         mission[main.item].timeline)
    <3>1. /\ mission[main.item].chosen \in Attempts
          /\ mission[main.item].timeline \in Timelines
          /\ mission[main.item].verdict \in Visible
          /\ mission[main.item].status \notin Visible \cup {"cancelled"}
      BY <1>1, <2>1, <2>2 DEF Prepared, ChosenInv, MissionType, MissionRow, Visible
    <3>. QED  BY <1>1, <1>3, <2>1, <2>2, <3>1, ShowEffect
  <2>. QED  BY <1>4, <1>6, <2>2 DEF RepairPublish
<1>7. ASSUME NEW m \in Missions,
             MainRevokes(m) \/ RestoreRevokes(m) \/ CancelByParent(m)
      PROVE  ResultKept
  <2>1. CASE Cancellable(m, TRUE) /\ \E by : Cancel(m, by)
    <3>1. mission[m].status \notin Visible \cup {"cancelled"}
      BY <2>1 DEF Cancellable, Outstanding, Visible
    <3>. QED  BY <1>1, <1>3, <2>1, <3>1, CancelEffect
  <2>. QED  BY <1>4, <1>7, <2>1 DEF MainRevokes, RestoreRevokes, CancelByParent, Cancellable
<1>8. ASSUME NEW m \in Missions,
             \/ Expire(m) \/ LoseCaller(m) \/ Insert(m) \/ InsertDuplicate(m)
             \/ CommitRetry(m) \/ (\E a \in Attempts : Begin(m, a))
             \/ \E s \in Seats, o \in Objectives, f \in Faculties : Draft(m, s, o, f)
      PROVE  ResultKept
  <2>1. CASE UNCHANGED mission
    BY <1>4, <2>1
  <2>2. CASE /\ mission[m].status \in Waiting \cup {"none", "draft", "failed"}
             /\ \E r : mission' = [mission EXCEPT ![m] = r]
    <3>1. /\ mission[m].chosen = NoAttempt
          /\ mission[m].status \notin Visible \cup {"cancelled"}
      BY <1>1, <2>2 DEF ChosenInv, Visible, Waiting
    <3>2. \A n \in Missions \ {m} : mission'[n] = mission[n]
      BY <1>1, <2>2 DEF MissionType
    <3>. QED  BY <1>3, <3>1, <3>2
  <2>3. \/ UNCHANGED mission
        \/ /\ mission[m].status \in Waiting \cup {"none", "draft", "failed"}
           /\ \E r : mission' = [mission EXCEPT ![m] = r]
    BY <1>8 DEF Expire, LoseCaller, Insert, InsertDuplicate, CommitRetry, Retriable,
                Begin, Draft
  <2>. QED  BY <2>1, <2>2, <2>3
<1>9. ASSUME NEW m \in Missions, DeadlinePasses(m)
      PROVE  ResultKept
  <2>1. mission[m].status \notin Visible \cup {"cancelled"}
    BY <1>9 DEF DeadlinePasses, Outstanding, Visible
  <2>2. /\ mission'[m].status = mission[m].status
        /\ mission'[m].chosen = mission[m].chosen
        /\ mission'[m].verdict = mission[m].verdict
        /\ mission'[m].timeline = mission[m].timeline
        /\ \A n \in Missions \ {m} : mission'[n] = mission[n]
    BY <1>1, <1>9 DEF DeadlinePasses, MissionType, MissionRow
  <2>. QED  BY <1>1, <1>3, <2>1, <2>2 DEF ChosenInv
<1>10. ASSUME NEW a \in Attempts, FailOrphan(a) \/ FailAttempt(a)
       PROVE  ResultKept
  <2>1. CASE /\ Failable(Of(a), a)
             /\ \E x \in AttemptFailures, allow \in BOOLEAN : Fail(Of(a), a, x, allow)
    <3>1. /\ Of(a) \in Missions /\ mission[Of(a)].chosen = NoAttempt
          /\ mission[Of(a)].status \notin Visible \cup {"cancelled"}
      BY <1>1, <2>1 DEF Failable, Alive, Live, AttemptInv, Visible
    <3>. QED  BY <1>1, <1>3, <2>1, <3>1, FailEffect
  <2>. QED  BY <1>1, <1>4, <1>10, <2>1
            DEF FailOrphan, FailAttempt, WorkerInv, WorkerKnows, AttemptFailures
<1>11. ASSUME NEW a \in Attempts, NEW v \in Visible \cup AttemptFailures,
              CheckResult(a, v)
       PROVE  ResultKept
  <2>1. Of(a) \in Missions
    BY <1>1, <1>11 DEF WorkerInv, WorkerKnows, CheckResult
  <2>2. CASE mission[Of(a)].status = "active" /\ Cancel(Of(a), a)
    <3>1. mission[Of(a)].status \notin Visible \cup {"cancelled"}
      BY <2>2 DEF Visible
    <3>. QED  BY <1>1, <1>3, <2>1, <2>2, <3>1, CancelEffect
  <2>. QED  BY <1>4, <1>11, <2>2 DEF CheckResult
<1>12. ASSUME NEW a \in Attempts, Prepare(a)
       PROVE  ResultKept
  <2>1. Of(a) \in Missions
    BY <1>1, <1>12 DEF WorkerInv, WorkerKnows, Prepare
  <2>2. CASE Choosable(Of(a)) /\ \E r : mission' = [mission EXCEPT ![Of(a)] = r]
    <3>1. /\ mission[Of(a)].chosen = NoAttempt
          /\ mission[Of(a)].status \notin Visible \cup {"cancelled"}
          /\ \A n \in Missions \ {Of(a)} : mission'[n] = mission[n]
      BY <1>1, <2>2 DEF Choosable, Visible, MissionType
    <3>. QED  BY <1>3, <2>1, <3>1
  <2>. QED  BY <1>4, <1>12, <2>2 DEF Prepare
<1>13. ASSUME NEW a \in Attempts, Publish(a)
       PROVE  ResultKept
  <2>1. /\ Of(a) \in Missions /\ worker[a].at \in Timelines
        /\ mission[Of(a)].verdict \in Visible
    BY <1>1, <1>13 DEF WorkerInv, WorkerKnows, Publish
  <2>2. CASE Finalizable(Of(a), a) /\ Show(Of(a), a, worker[a].at)
    <3>1. mission[Of(a)].status \notin Visible \cup {"cancelled"}
      BY <2>2 DEF Finalizable, Visible
    <3>. QED  BY <1>1, <1>3, <2>1, <2>2, <3>1, ShowEffect
  <2>. QED  BY <1>4, <1>13, <2>2 DEF Publish
<1>. QED  BY <1>4, <1>5, <1>6, <1>7, <1>8, <1>9, <1>10, <1>11, <1>12, <1>13,
             MissionWriters

\* An attempt that has begun keeps its mission, and a blank one has none.
LEMMA AttemptHistory ==
    ASSUME IInv, Next
    PROVE  OwnerKept /\ AttemptInv'
<1>1. /\ MissionType /\ AttemptType /\ AttemptInv /\ WorkerInv /\ MainInv /\ ChosenInv
      /\ WorkerType
  BY DEF IInv, TypeOK
<1>. USE NullAssumption
<1>2. ASSUME \A a \in Attempts :
               Of(a)' = Of(a) /\ (attempt'[a].status = "unused"
                                    <=> attempt[a].status = "unused")
      PROVE  OwnerKept /\ AttemptInv'
  BY <1>1, <1>2 DEF OwnerKept, AttemptInv
<1>3. CASE UNCHANGED attempt
  BY <1>2, <1>3 DEF Of
<1>4. CASE Start
  BY <1>1, <1>2, <1>4 DEF Start, AttemptType, AttemptRow, Of
<1>5. CASE RepairPublish
  <2>1. main.item \in Missions
    BY <1>1, <1>5 DEF MainInv, RepairPublish, At
  <2>2. CASE Prepared(main.item) /\ Show(main.item, mission[main.item].chosen,
                                         mission[main.item].timeline)
    <3>1. /\ mission[main.item].chosen \in Attempts
          /\ mission[main.item].timeline \in Timelines
          /\ mission[main.item].verdict \in Visible
      BY <1>1, <2>1, <2>2 DEF Prepared, ChosenInv, MissionType, MissionRow
    <3>. QED  BY <1>1, <1>2, <2>1, <2>2, <3>1, ShowEffect
  <2>. QED  BY <1>3, <1>5, <2>2 DEF RepairPublish
<1>6. ASSUME NEW m \in Missions,
             MainRevokes(m) \/ RestoreRevokes(m) \/ CancelByParent(m)
      PROVE  OwnerKept /\ AttemptInv'
  <2>1. CASE \E by : Cancel(m, by)
    BY <1>1, <1>2, <2>1, CancelEffect
  <2>. QED  BY <1>3, <1>6, <2>1 DEF MainRevokes, RestoreRevokes, CancelByParent
<1>7. ASSUME NEW m \in Missions, NEW a \in Attempts, Begin(m, a)
      PROVE  OwnerKept /\ AttemptInv'
  <2>1. Of(a) = NoMission
    BY <1>1, <1>7 DEF Begin, AttemptInv
  <2>2. /\ attempt'[a].mission = m /\ attempt'[a].status = "running"
        /\ \A b \in Attempts \ {a} : attempt'[b] = attempt[b]
    BY <1>1, <1>7 DEF Begin, AttemptType
  <2>. QED  BY <1>1, <2>1, <2>2 DEF OwnerKept, AttemptInv, Of
<1>8. ASSUME NEW a \in Attempts, FailOrphan(a) \/ FailAttempt(a)
      PROVE  OwnerKept /\ AttemptInv'
  <2>1. CASE /\ Failable(Of(a), a)
             /\ \E x \in AttemptFailures, allow \in BOOLEAN : Fail(Of(a), a, x, allow)
    <3>1. Of(a) \in Missions /\ attempt[a].status # "unused"
      BY <1>1, <2>1 DEF Failable, Alive, Live, AttemptInv
    <3>2. "unused" \notin AttemptFailures
      BY DEF AttemptFailures
    <3>. QED  BY <1>1, <1>2, <2>1, <3>1, <3>2, FailEffect
  <2>. QED  BY <1>1, <1>3, <1>8, <2>1
            DEF FailOrphan, FailAttempt, WorkerInv, WorkerKnows, AttemptFailures
<1>9. ASSUME NEW a \in Attempts, HeartbeatLapses(a) \/ Heartbeat(a) \/ ChildAnswers(a)
      PROVE  OwnerKept /\ AttemptInv'
  <2>1. CASE UNCHANGED attempt
    BY <1>3, <2>1
  <2>2. CASE \E x \in BOOLEAN : attempt' = [attempt EXCEPT ![a] = [@ EXCEPT !.fresh = x]]
    BY <1>1, <1>2, <2>2 DEF AttemptType, AttemptRow, Of
  <2>3. CASE /\ attempt[a].status = "running"
             /\ attempt' = [attempt EXCEPT ![a] =
                              [@ EXCEPT !.status = "validating", !.fresh = TRUE]]
    BY <1>1, <1>2, <2>3 DEF AttemptType, AttemptRow, Of
  <2>. QED  BY <1>9, <2>1, <2>2, <2>3 DEF HeartbeatLapses, Heartbeat, ChildAnswers
<1>10. ASSUME NEW a \in Attempts, Publish(a)
       PROVE  OwnerKept /\ AttemptInv'
  <2>1. /\ Of(a) \in Missions /\ worker[a].at \in Timelines
        /\ mission[Of(a)].verdict \in Visible
    BY <1>1, <1>10 DEF WorkerInv, WorkerKnows, Publish
  <2>. QED  BY <1>1, <1>2, <1>3, <1>10, <2>1, ShowEffect DEF Publish
<1>11. ASSUME NEW a \in Attempts, NEW v \in Visible \cup AttemptFailures,
              CheckResult(a, v)
       PROVE  OwnerKept /\ AttemptInv'
  <2>1. Of(a) \in Missions
    BY <1>1, <1>11 DEF WorkerInv, WorkerKnows, CheckResult
  <2>. QED  BY <1>1, <1>2, <1>3, <1>11, <2>1, CancelEffect DEF CheckResult
<1>. QED  BY <1>3, <1>4, <1>5, <1>6, <1>7, <1>8, <1>9, <1>10, <1>11, AttemptWriters

\* The journal only grows.
LEMMA JournalHistory ==
    ASSUME Next
    PROVE  JournalKept
<1>1. CASE UNCHANGED <<journal, notices>>
  BY <1>1 DEF JournalKept
<1>. QED  BY <1>1, OutputWriters
          DEF JournalKept, MainReports, RepairDeliver, AnnounceTerminal, Discard,
              RepairFile, FileResult, Announce, ReportFailure
-----------------------------------------------------------------------------
(* The rest of the invariant *)

\* A mission becomes visible only when the attempt it chose, or the repair after a
\* crash, publishes it: with the verdict it chose, and under the sequence of an event.
LEMMA BecomesVisible ==
    ASSUME IInv, Next, NEW m \in Missions,
           mission[m].status \notin Visible, mission'[m].status \in Visible
    PROVE  /\ mission[m].chosen # NoAttempt
           /\ mission'[m].status = mission[m].verdict
           /\ mission'[m].filed \in Timelines
           /\ ResultEvent(mission'[m].filed, m, mission[m].chosen, mission[m].verdict)
                \in journal
<1>1. /\ MissionType /\ AttemptType /\ AttemptInv /\ WorkerInv /\ MainInv /\ ChosenInv
      /\ WorkerType
  BY DEF IInv, TypeOK
<1>. DEFINE Goal ==
       /\ mission[m].chosen # NoAttempt
       /\ mission'[m].status = mission[m].verdict
       /\ mission'[m].filed \in Timelines
       /\ ResultEvent(mission'[m].filed, m, mission[m].chosen, mission[m].verdict)
            \in journal
<1>2. mission' # mission
  OBVIOUS
<1>3. ~ Sweep
  BY <1>1 DEF Sweep, MissionType, MissionRow
<1>4. CASE RepairPublish
  <2>. DEFINE n == main.item
  <2>1. n \in Missions
    BY <1>1, <1>4 DEF MainInv, RepairPublish, At
  <2>2. Prepared(n) /\ Show(n, mission[n].chosen, mission[n].timeline)
    BY <1>2, <1>4 DEF RepairPublish
  <2>3. /\ mission[n].chosen \in Attempts /\ mission[n].timeline \in Timelines
        /\ mission[n].verdict \in Visible
    BY <1>1, <2>1, <2>2 DEF Prepared, ChosenInv, MissionType, MissionRow
  <2>4. n = m
    BY <1>1, <2>1, <2>2, <2>3, ShowEffect
  <2>5. ResultEvent(mission[n].timeline, n, mission[n].chosen, mission[n].verdict)
          \in journal
    BY <1>1, <1>4 DEF RepairPublish, MainInv, Recorded, At
  <2>. QED  BY <1>1, <2>1, <2>2, <2>3, <2>4, <2>5, NullAssumption, ShowEffect
<1>5. ASSUME NEW n \in Missions,
             MainRevokes(n) \/ RestoreRevokes(n) \/ CancelByParent(n)
      PROVE  FALSE
  <2>1. \E by : Cancel(n, by)
    BY <1>2, <1>5 DEF MainRevokes, RestoreRevokes, CancelByParent
  <2>. QED  BY <1>1, <2>1, CancelEffect DEF Visible
<1>6. ASSUME NEW n \in Missions,
             \/ Expire(n) \/ DeadlinePasses(n) \/ LoseCaller(n)
             \/ Insert(n) \/ InsertDuplicate(n) \/ CommitRetry(n)
      PROVE  FALSE
  <2>. USE <1>1 DEF MissionType, MissionRow, Visible
  <2>1. CASE Expire(n)
    BY <2>1 DEF Expire
  <2>2. CASE DeadlinePasses(n)
    BY <2>2 DEF DeadlinePasses
  <2>3. CASE LoseCaller(n)
    BY <2>3 DEF LoseCaller
  <2>4. CASE Insert(n) \/ InsertDuplicate(n)
    BY <2>4 DEF Insert, InsertDuplicate
  <2>5. CASE CommitRetry(n)
    BY <2>5 DEF CommitRetry
  <2>. QED  BY <1>6, <2>1, <2>2, <2>3, <2>4, <2>5
<1>7. ASSUME NEW n \in Missions, NEW s \in Seats, NEW o \in Objectives,
             NEW f \in Faculties, Draft(n, s, o, f)
      PROVE  FALSE
  BY <1>1, <1>7 DEF Draft, MissionType, BlankMission, Visible
<1>8. ASSUME NEW n \in Missions, NEW a \in Attempts, Begin(n, a)
      PROVE  FALSE
  BY <1>1, <1>8 DEF Begin, MissionType, MissionRow, Visible
<1>9. ASSUME NEW a \in Attempts, FailOrphan(a) \/ FailAttempt(a)
      PROVE  FALSE
  <2>1. /\ Failable(Of(a), a)
        /\ \E x \in AttemptFailures, allow \in BOOLEAN : Fail(Of(a), a, x, allow)
    BY <1>1, <1>2, <1>9
       DEF FailOrphan, FailAttempt, WorkerInv, WorkerKnows, AttemptFailures
  <2>2. Of(a) \in Missions
    BY <1>1, <2>1 DEF Failable, Alive, Live, AttemptInv
  <2>. QED  BY <1>1, <2>1, <2>2, FailEffect DEF Visible
<1>10. ASSUME NEW a \in Attempts, NEW v \in Visible \cup AttemptFailures,
              CheckResult(a, v)
       PROVE  FALSE
  <2>1. Of(a) \in Missions /\ Cancel(Of(a), a)
    BY <1>1, <1>2, <1>10 DEF WorkerInv, WorkerKnows, CheckResult
  <2>. QED  BY <1>1, <2>1, CancelEffect DEF Visible
<1>11. ASSUME NEW a \in Attempts, Prepare(a)
       PROVE  FALSE
  <2>1. Of(a) \in Missions
    BY <1>1, <1>11 DEF WorkerInv, WorkerKnows, Prepare
  <2>2. mission' = [mission EXCEPT ![Of(a)] =
                     [@ EXCEPT !.chosen = a, !.verdict = worker[a].says, !.filed = 0]]
    BY <1>2, <1>11 DEF Prepare
  <2>3. mission'[m].status = mission[m].status
    BY <1>1, <2>1, <2>2 DEF MissionType, MissionRow
  <2>. QED  BY <2>3
<1>12. ASSUME NEW a \in Attempts, Publish(a)
       PROVE  Goal
  <2>1. /\ Of(a) \in Missions /\ worker[a].at \in Timelines
        /\ mission[Of(a)].chosen = a /\ mission[Of(a)].verdict = worker[a].says
        /\ mission[Of(a)].verdict \in Visible
        /\ ResultEvent(worker[a].at, Of(a), a, worker[a].says) \in journal
    BY <1>1, <1>12 DEF WorkerInv, WorkerKnows, Publish
  <2>2. Show(Of(a), a, worker[a].at)
    BY <1>2, <1>12 DEF Publish
  <2>3. Of(a) = m
    BY <1>1, <2>1, <2>2, ShowEffect
  <2>. QED  BY <1>1, <2>1, <2>2, <2>3, NullAssumption, ShowEffect
<1>. QED  BY <1>2, <1>3, <1>4, <1>5, <1>6, <1>7, <1>8, <1>9, <1>10, <1>11, <1>12,
             MissionWriters

\* A result is chosen by a thread that checked it, of an active mission without one.
LEMMA BecomesChosen ==
    ASSUME IInv, Next, NEW m \in Missions,
           mission[m].chosen = NoAttempt, mission'[m].chosen # NoAttempt
    PROVE  \E a \in Attempts : /\ Prepare(a) /\ Of(a) = m /\ Choosable(m)
                               /\ mission'[m].status = "active"
                               /\ mission'[m].chosen = a
                               /\ mission'[m].verdict = worker[a].says
                               /\ worker[a].says \in Visible
<1>1. /\ MissionType /\ AttemptType /\ AttemptInv /\ WorkerInv /\ MainInv /\ ChosenInv
      /\ WorkerType
  BY DEF IInv, TypeOK
<1>2. mission' # mission
  OBVIOUS
<1>3. ~ Sweep
  BY <1>1 DEF Sweep, MissionType, MissionRow
<1>4. ~ RepairPublish
  <2>. SUFFICES ASSUME RepairPublish
                PROVE  FALSE
    OBVIOUS
  <2>. DEFINE n == main.item
  <2>1. n \in Missions
    BY <1>1 DEF MainInv, RepairPublish, At
  <2>2. Prepared(n) /\ Show(n, mission[n].chosen, mission[n].timeline)
    BY <1>2 DEF RepairPublish
  <2>3. /\ mission[n].chosen \in Attempts /\ mission[n].timeline \in Timelines
        /\ mission[n].verdict \in Visible
    BY <1>1, <2>1, <2>2 DEF Prepared, ChosenInv, MissionType, MissionRow
  <2>. QED  BY <1>1, <2>1, <2>2, <2>3, ShowEffect
<1>5. ASSUME NEW n \in Missions,
             MainRevokes(n) \/ RestoreRevokes(n) \/ CancelByParent(n)
      PROVE  FALSE
  <2>1. \E by : Cancel(n, by)
    BY <1>2, <1>5 DEF MainRevokes, RestoreRevokes, CancelByParent
  <2>. QED  BY <1>1, <2>1, CancelEffect
<1>6. ASSUME NEW n \in Missions,
             \/ Expire(n) \/ DeadlinePasses(n) \/ LoseCaller(n)
             \/ Insert(n) \/ InsertDuplicate(n) \/ CommitRetry(n)
      PROVE  FALSE
  <2>. USE <1>1 DEF MissionType, MissionRow
  <2>1. CASE Expire(n)
    BY <2>1 DEF Expire
  <2>2. CASE DeadlinePasses(n)
    BY <2>2 DEF DeadlinePasses
  <2>3. CASE LoseCaller(n)
    BY <2>3 DEF LoseCaller
  <2>4. CASE Insert(n) \/ InsertDuplicate(n)
    BY <2>4 DEF Insert, InsertDuplicate
  <2>5. CASE CommitRetry(n)
    BY <2>5 DEF CommitRetry
  <2>. QED  BY <1>6, <2>1, <2>2, <2>3, <2>4, <2>5
<1>7. ASSUME NEW n \in Missions, NEW s \in Seats, NEW o \in Objectives,
             NEW f \in Faculties, Draft(n, s, o, f)
      PROVE  FALSE
  BY <1>1, <1>7 DEF Draft, MissionType, BlankMission
<1>8. ASSUME NEW n \in Missions, NEW a \in Attempts, Begin(n, a)
      PROVE  FALSE
  BY <1>1, <1>8 DEF Begin, MissionType, MissionRow
<1>9. ASSUME NEW a \in Attempts, FailOrphan(a) \/ FailAttempt(a)
      PROVE  FALSE
  <2>1. /\ Failable(Of(a), a)
        /\ \E x \in AttemptFailures, allow \in BOOLEAN : Fail(Of(a), a, x, allow)
    BY <1>1, <1>2, <1>9
       DEF FailOrphan, FailAttempt, WorkerInv, WorkerKnows, AttemptFailures
  <2>2. Of(a) \in Missions
    BY <1>1, <2>1 DEF Failable, Alive, Live, AttemptInv
  <2>. QED  BY <1>1, <2>1, <2>2, FailEffect
<1>10. ASSUME NEW a \in Attempts, NEW v \in Visible \cup AttemptFailures,
              CheckResult(a, v)
       PROVE  FALSE
  <2>1. Of(a) \in Missions /\ Cancel(Of(a), a)
    BY <1>1, <1>2, <1>10 DEF WorkerInv, WorkerKnows, CheckResult
  <2>. QED  BY <1>1, <2>1, CancelEffect
<1>11. ASSUME NEW a \in Attempts, Publish(a)
       PROVE  FALSE
  <2>1. /\ Of(a) \in Missions /\ worker[a].at \in Timelines
        /\ mission[Of(a)].verdict \in Visible
    BY <1>1, <1>11 DEF WorkerInv, WorkerKnows, Publish
  <2>2. Show(Of(a), a, worker[a].at)
    BY <1>2, <1>11 DEF Publish
  <2>. QED  BY <1>1, <2>1, <2>2, ShowEffect
<1>12. ASSUME NEW a \in Attempts, Prepare(a)
       PROVE  /\ Of(a) = m /\ Choosable(m) /\ mission'[m].status = "active"
              /\ mission'[m].chosen = a /\ mission'[m].verdict = worker[a].says
              /\ worker[a].says \in Visible
  <2>1. /\ Of(a) \in Missions /\ worker[a].says \in Visible
    BY <1>1, <1>12 DEF WorkerInv, WorkerKnows, Prepare
  <2>. QED  BY <1>1, <1>2, <1>12, <2>1 DEF Prepare, Choosable, MissionType, MissionRow
<1>. QED  BY <1>2, <1>3, <1>4, <1>5, <1>6, <1>7, <1>8, <1>9, <1>10, <1>11, <1>12,
             MissionWriters
\* A chosen result has a verdict, and a visible one a result and a sequence.
LEMMA ChosenStep ==
    ASSUME IInv, Next
    PROVE  ChosenInv'
<1>. SUFFICES ASSUME NEW m \in Missions
              PROVE  /\ mission'[m].chosen # NoAttempt =>
                          /\ mission'[m].verdict \in Visible
                          /\ mission'[m].status \in {"active", "cancelled"} \cup Visible
                     /\ mission'[m].status \in Visible =>
                          /\ mission'[m].chosen # NoAttempt
                          /\ mission'[m].filed \in Timelines
  BY DEF ChosenInv
<1>1. ChosenInv /\ RowKept(m)
  BY MissionHistory DEF IInv, ResultKept
<1>2. CASE mission[m].chosen # NoAttempt
  BY <1>1, <1>2, BecomesVisible DEF ChosenInv, RowKept
<1>3. CASE mission[m].chosen = NoAttempt
  BY <1>1, <1>3, BecomesVisible, BecomesChosen DEF ChosenInv, RowKept
<1>. QED  BY <1>2, <1>3

\* The journal gains only the result its mission has chosen.
LEMMA LedgerStep ==
    ASSUME IInv, Next
    PROVE  LedgerInv'
<1>1. /\ LedgerInv /\ OutputType /\ WorkerInv /\ MainInv /\ ResultKept
  BY MissionHistory DEF IInv, TypeOK
<1>2. ASSUME NEW e \in journal
      PROVE  mission'[e.mission].chosen = e.attempt /\ mission'[e.mission].verdict = e.verdict
  <2>1. e.mission \in Missions /\ e.attempt \in Attempts
    BY <1>1 DEF OutputType
  <2>. QED  BY <1>1, <2>1, NullAssumption DEF LedgerInv, ResultKept, RowKept
<1>3. CASE journal' \subseteq journal
  BY <1>2, <1>3 DEF LedgerInv
<1>4. ASSUME NEW m \in Missions, RepairFile(m)
      PROVE  LedgerInv'
  <2>1. /\ journal' = journal \cup {ResultEvent(mission[m].timeline, m,
                                     mission[m].chosen, mission[m].verdict)}
        /\ mission[m].chosen # NoAttempt
    BY <1>1, <1>4 DEF RepairFile, MainInv, At
  <2>. QED  BY <1>1, <1>2, <2>1 DEF LedgerInv, ResultKept, RowKept, ResultEvent
<1>5. ASSUME NEW a \in Attempts, FileResult(a)
      PROVE  LedgerInv'
  <2>1. /\ journal' = journal \cup {ResultEvent(timeline, Of(a), a, worker[a].says)}
        /\ Of(a) \in Missions /\ mission[Of(a)].chosen = a
        /\ mission[Of(a)].verdict = worker[a].says
    BY <1>1, <1>5 DEF FileResult, WorkerInv, WorkerKnows
  <2>2. mission'[Of(a)].chosen = a /\ mission'[Of(a)].verdict = worker[a].says
    BY <1>1, <2>1, NullAssumption DEF ResultKept, RowKept
  <2>. QED  BY <1>2, <2>1, <2>2 DEF LedgerInv, ResultEvent
<1>. QED  BY <1>3, <1>4, <1>5, OutputWriters
          DEF MainReports, RepairDeliver, AnnounceTerminal, Discard, Announce, ReportFailure

\* What is visible was in the journal first, and stays in it.
LEMMA PublicationStep ==
    ASSUME IInv, Next
    PROVE  PublicationFollowsJournal'
<1>1. /\ PublicationFollowsJournal /\ ChosenInv /\ ResultKept /\ JournalKept
  BY MissionHistory, JournalHistory DEF IInv
<1>2. ASSUME NEW m \in Missions, mission'[m].status \in Visible
      PROVE  /\ mission'[m].status = mission'[m].verdict
             /\ ResultEvent(mission'[m].filed, m, mission'[m].chosen, mission'[m].verdict)
                  \in journal'
  <2>1. CASE mission[m].status \in Visible
    BY <1>1, <2>1
       DEF PublicationFollowsJournal, ChosenInv, ResultKept, RowKept, JournalKept
  <2>2. CASE mission[m].status \notin Visible
    <3>1. /\ mission[m].chosen # NoAttempt
          /\ mission'[m].status = mission[m].verdict
          /\ ResultEvent(mission'[m].filed, m, mission[m].chosen, mission[m].verdict)
               \in journal
      BY <1>2, <2>2, BecomesVisible
    <3>. QED  BY <1>1, <3>1 DEF ResultKept, RowKept, JournalKept
  <2>. QED  BY <2>1, <2>2
<1>. QED  BY <1>2 DEF PublicationFollowsJournal

\* A thread that does not move keeps what it relies on, whatever the others do.
LEMMA WorkerFrame ==
    ASSUME IInv, Next, NEW a \in Attempts, worker'[a] = worker[a]
    PROVE  WorkerKnows(a)'
<1>1. /\ WorkerKnows(a) /\ ResultKept /\ OwnerKept /\ JournalKept
      /\ worker[a].pc # "none" /\ worker[a].pc # "done" => Of(a) \in Missions
  BY MissionHistory, AttemptHistory, JournalHistory DEF IInv, WorkerInv, WorkerKnows
<1>2. CASE worker[a].pc \in {"none", "done"}
  BY <1>2 DEF WorkerKnows
<1>3. CASE worker[a].pc \notin {"none", "done"}
  <2>1. Of(a) \in Missions /\ Of(a)' = Of(a) /\ RowKept(Of(a))
    BY <1>1, <1>3 DEF OwnerKept, ResultKept
  <2>. QED  BY <1>1, <2>1, NullAssumption DEF WorkerKnows, RowKept, JournalKept
<1>. QED  BY <1>2, <1>3

\* Each step of a thread establishes what its next step relies on.
LEMMA WorkerStepInv ==
    ASSUME IInv, Next
    PROVE  WorkerInv'
<1>1. /\ MissionType /\ AttemptType /\ AttemptInv /\ WorkerInv /\ MainInv /\ ChosenInv
      /\ WorkerType /\ timeline \in Timelines
      /\ ResultKept /\ OwnerKept /\ JournalKept
  BY MissionHistory, AttemptHistory, JournalHistory DEF IInv, TypeOK
<1>2. CASE UNCHANGED worker
  BY <1>2, WorkerFrame DEF WorkerInv
<1>3. CASE Kill
  BY <1>3 DEF Kill, IdleWorker, WorkerInv, WorkerKnows
<1>4. ASSUME NEW a \in Attempts, WorkerKnows(a)',
             \A b \in Attempts \ {a} : worker'[b] = worker[b]
      PROVE  WorkerInv'
  BY <1>4, WorkerFrame DEF WorkerInv
<1>5. ASSUME NEW a \in Attempts, NEW r, worker' = [worker EXCEPT ![a] = r]
      PROVE  /\ worker'[a] = r
             /\ \A b \in Attempts \ {a} : worker'[b] = worker[b]
  BY <1>1, <1>5 DEF WorkerType
<1>6. ASSUME NEW a \in Attempts, Done(a)
      PROVE  WorkerInv'
  <2>1. worker'[a].pc = "done"
    BY <1>1, <1>6 DEF Done, IdleWorker, WorkerType
  <2>2. WorkerKnows(a)'
    BY <2>1 DEF WorkerKnows
  <2>. QED  BY <1>4, <1>5, <1>6, <2>2 DEF Done
<1>7. ASSUME NEW a \in Attempts, NEW pc, NEW x, GoSaying(a, pc, x)
      PROVE  /\ worker'[a].pc = pc /\ worker'[a].says = x
             /\ \A b \in Attempts \ {a} : worker'[b] = worker[b]
  BY <1>1, <1>7 DEF GoSaying, WorkerType, ThreadState
<1>8. ASSUME NEW a \in Attempts, NEW pc, Go(a, pc)
      PROVE  /\ worker'[a].pc = pc /\ worker'[a].says = worker[a].says
             /\ \A b \in Attempts \ {a} : worker'[b] = worker[b]
  BY <1>1, <1>8 DEF Go, WorkerType, ThreadState
<1>9. ASSUME NEW a \in Attempts, NEW x \in AttemptFailures, Of(a)' \in Missions,
             GoSaying(a, "failing", x)
      PROVE  WorkerInv'
  BY <1>4, <1>7, <1>9 DEF WorkerKnows
<1>10. ASSUME NEW a \in Attempts, Of(a)' \in Missions, Refused(a)
       PROVE  WorkerInv'
  BY <1>9, <1>10 DEF Refused, AttemptFailures
<1>11. ASSUME NEW a \in Attempts, worker[a].pc \notin {"none", "done"}
       PROVE  Of(a) \in Missions /\ Of(a)' = Of(a) /\ RowKept(Of(a)) /\ WorkerKnows(a)
  BY <1>1, <1>11 DEF WorkerInv, WorkerKnows, OwnerKept, ResultKept
<1>12. ASSUME NEW m \in Missions, NEW a \in Attempts, Begin(m, a)
       PROVE  WorkerInv'
  <2>1. /\ worker'[a].pc = "child"
        /\ \A b \in Attempts \ {a} : worker'[b] = worker[b]
    BY <1>1, <1>12 DEF Begin, IdleWorker, WorkerType
  <2>2. Of(a)' \in Missions
    BY <1>1, <1>12 DEF Begin, AttemptType, Of
  <2>. QED  BY <1>4, <2>1, <2>2 DEF WorkerKnows
<1>13. ASSUME NEW a \in Attempts, KillChild(a) \/ \E x \in Mishaps : ChildFails(a, x)
       PROVE  WorkerInv'
  <2>1. worker[a].pc = "child"
    BY <1>13 DEF KillChild, ChildFails
  <2>2. \E x \in AttemptFailures : GoSaying(a, "failing", x)
    BY <1>13, DataAssumption DEF KillChild, ChildFails, AttemptFailures
  <2>. QED  BY <1>9, <1>11, <2>1, <2>2
<1>14. ASSUME NEW a \in Attempts, ChildAnswers(a)
       PROVE  WorkerInv'
  <2>1. Of(a)' \in Missions
    BY <1>11, <1>14 DEF ChildAnswers
  <2>2. CASE Go(a, "validate")
    BY <1>4, <1>8, <2>1, <2>2 DEF WorkerKnows
  <2>. QED  BY <1>10, <1>14, <2>1, <2>2 DEF ChildAnswers
<1>15. ASSUME NEW a \in Attempts, NEW v \in Visible \cup AttemptFailures,
              CheckResult(a, v)
       PROVE  WorkerInv'
  <2>1. Of(a)' \in Missions
    BY <1>11, <1>15 DEF CheckResult
  <2>2. CASE v \in Visible /\ GoSaying(a, "checked", v)
    BY <1>4, <1>7, <2>1, <2>2 DEF WorkerKnows
  <2>3. CASE v \in AttemptFailures /\ GoSaying(a, "failing", v)
    BY <1>9, <2>1, <2>3
  <2>. QED  BY <1>10, <1>15, <2>1, <2>2, <2>3, DataAssumption
            DEF CheckResult, AttemptFailures
<1>16. ASSUME NEW a \in Attempts, Prepare(a)
       PROVE  WorkerInv'
  <2>1. /\ Of(a) \in Missions /\ Of(a)' = Of(a) /\ worker[a].says \in Visible
    BY <1>11, <1>16 DEF Prepare, WorkerKnows
  <2>2. CASE Choosable(Of(a)) /\ Go(a, "prepared")
    <3>1. mission'[Of(a)].chosen = a /\ mission'[Of(a)].verdict = worker[a].says
      BY <1>1, <1>16, <2>1, <2>2 DEF Prepare, MissionType, MissionRow
    <3>. QED  BY <1>4, <1>8, <2>1, <2>2, <3>1 DEF WorkerKnows
  <2>. QED  BY <1>10, <1>16, <2>1, <2>2 DEF Prepare
<1>17. ASSUME NEW a \in Attempts, FileResult(a)
       PROVE  WorkerInv'
  <2>1. /\ Of(a) \in Missions /\ Of(a)' = Of(a) /\ worker[a].says \in Visible
        /\ mission[Of(a)].chosen = a /\ mission[Of(a)].verdict = worker[a].says
        /\ RowKept(Of(a))
    BY <1>11, <1>17 DEF FileResult, WorkerKnows
  <2>2. mission'[Of(a)].chosen = a /\ mission'[Of(a)].verdict = worker[a].says
    BY <2>1, NullAssumption DEF RowKept
  <2>3. /\ worker'[a].pc = "filed" /\ worker'[a].says = worker[a].says
        /\ worker'[a].at = timeline
        /\ \A b \in Attempts \ {a} : worker'[b] = worker[b]
    BY <1>1, <1>17 DEF FileResult, WorkerType, ThreadState
  <2>4. ResultEvent(timeline, Of(a), a, worker[a].says) \in journal'
    BY <1>17 DEF FileResult
  <2>. QED  BY <1>1, <1>4, <2>1, <2>2, <2>3, <2>4 DEF WorkerKnows
<1>18. ASSUME NEW a \in Attempts, Publish(a)
       PROVE  WorkerInv'
  <2>1. /\ Of(a) \in Missions /\ Of(a)' = Of(a) /\ worker[a].says \in Visible
        /\ mission[Of(a)].chosen = a /\ mission[Of(a)].verdict = worker[a].says
        /\ RowKept(Of(a)) /\ worker[a].at \in Timelines
    BY <1>11, <1>18 DEF Publish, WorkerKnows
  <2>2. mission'[Of(a)].chosen = a /\ mission'[Of(a)].verdict = worker[a].says
    BY <2>1, NullAssumption DEF RowKept
  <2>3. CASE Show(Of(a), a, worker[a].at) /\ Go(a, "published")
    <3>1. mission'[Of(a)].status = worker[a].says
      BY <1>1, <2>1, <2>3, ShowEffect
    <3>. QED  BY <1>4, <1>8, <2>1, <2>2, <2>3, <3>1 DEF WorkerKnows
  <2>4. CASE Finalized(Of(a), a, worker[a].at) /\ Go(a, "published") /\ UNCHANGED mission
    BY <1>4, <1>8, <2>1, <2>2, <2>4 DEF WorkerKnows, Finalized
  <2>. QED  BY <1>10, <1>18, <2>1, <2>3, <2>4 DEF Publish
<1>19. ASSUME NEW a \in Attempts,
              Announce(a) \/ Release(a) \/ FailAttempt(a) \/ ReportFailure(a)
       PROVE  WorkerInv'
  <2>1. Of(a) \in Missions /\ Of(a)' = Of(a) /\ WorkerKnows(a)
    BY <1>11, <1>19 DEF Announce, Release, FailAttempt, ReportFailure
  <2>2. CASE Go(a, "announced")
    BY <1>4, <1>8, <2>1, <2>2 DEF WorkerKnows
  <2>3. CASE worker[a].pc = "failing" /\ Go(a, "report")
    BY <1>4, <1>8, <2>1, <2>3 DEF WorkerKnows
  <2>. QED  BY <1>6, <1>19, <2>2, <2>3 DEF Announce, Release, FailAttempt, ReportFailure
<1>. QED  BY <1>2, <1>3, <1>12, <1>13, <1>14, <1>15, <1>16, <1>17, <1>18, <1>19,
             WorkerWriters
\* Each step of the main thread establishes what its next step relies on.
LEMMA MainStepInv ==
    ASSUME IInv, Next
    PROVE  MainInv'
<1>1. /\ MissionType /\ AttemptType /\ AttemptInv /\ WorkerInv /\ MainInv /\ ChosenInv
      /\ MainType /\ ResultKept /\ OwnerKept /\ JournalKept
  BY MissionHistory, AttemptHistory, JournalHistory DEF IInv, TypeOK
<1>2. ASSUME NEW m \in Missions, Recorded(m)
      PROVE  Recorded(m)'
  BY <1>1, <1>2 DEF ResultKept, RowKept, JournalKept, Recorded
<1>3. ASSUME main'.todo \subseteq main.todo, main.pc \in {"repair", "finalize", "deliver"}
      PROVE  \A m \in main'.todo \cap Missions : mission'[m].chosen # NoAttempt
  BY <1>1, <1>3 DEF MainInv, ResultKept, RowKept
<1>4. ASSUME NEW pc, NEW s, To(pc, s),
             pc \notin {"reportOrphan", "reportExpiry", "repair", "finalize", "deliver"}
      PROVE  MainInv'
  BY <1>4 DEF To, MainInv
<1>5. ASSUME UNCHANGED main
      PROVE  MainInv'
  <2>1. main.pc \in {"finalize", "deliver"} => Recorded(main.item)'
    BY <1>1, <1>2, <1>5 DEF MainInv, Recorded
  <2>2. main.pc = "deliver" => mission'[main.item].status = mission'[main.item].verdict
    <3>. SUFFICES ASSUME main.pc = "deliver"
                  PROVE  mission'[main.item].status = mission'[main.item].verdict
      OBVIOUS
    <3>1. /\ main.item \in Missions /\ mission[main.item].chosen # NoAttempt
          /\ mission[main.item].status = mission[main.item].verdict
          /\ mission[main.item].verdict \in Visible
      BY <1>1 DEF MainInv, Recorded, ChosenInv
    <3>. QED  BY <1>1, <3>1 DEF ResultKept, RowKept
  <2>3. main.pc \in {"repair", "finalize", "deliver"} =>
          \A m \in main'.todo \cap Missions : mission'[m].chosen # NoAttempt
    BY <1>3, <1>5
  <2>. QED  BY <1>1, <1>5, <2>1, <2>2, <2>3 DEF MainInv
<1>6. CASE \/ Start \/ Sweep \/ AnnounceTerminal \/ Housekeep \/ Leave \/ Shutdown \/ Kill
  BY <1>4, <1>6 DEF Start, Sweep, AnnounceTerminal, Housekeep, Leave, Shutdown, Kill
<1>7. CASE Raise
  BY <1>4, <1>7 DEF Raise
<1>8. ASSUME main'.pc \in {"orphans", "revoke"}
      PROVE  MainInv'
  BY <1>8 DEF MainInv
<1>9. CASE MainReports
  <2>1. CASE main' = [main EXCEPT !.pc = "orphans", !.item = NoMission]
    BY <1>1, <1>8, <2>1 DEF MainType
  <2>. QED  BY <1>4, <1>9, <2>1 DEF MainReports
<1>10. CASE Stop
  BY <1>5, <1>10 DEF Stop
<1>11. CASE ListAbandoned
  BY <1>1, <1>8, <1>11 DEF ListAbandoned, MainType
<1>12. CASE ListPrepared
  <2>1. /\ main'.pc = "repair" /\ mission' = mission
        /\ \A m \in main'.todo : mission[m].chosen # NoAttempt
    BY <1>12 DEF ListPrepared, To, Prepared, dbVars
  <2>. QED  BY <2>1 DEF MainInv
<1>13. CASE RepairPublish
  <2>. DEFINE m == main.item
  <2>1. m \in Missions /\ Recorded(m) /\ main.pc = "finalize"
    BY <1>1, <1>13 DEF RepairPublish, MainInv, At
  <2>2. ASSUME main' = [main EXCEPT !.pc = "deliver"],
               mission'[m].status = mission'[m].verdict
        PROVE  MainInv'
    <3>1. main'.pc = "deliver" /\ main'.item = m /\ main'.todo = main.todo
      BY <1>1, <2>2 DEF MainType
    <3>2. Recorded(m)'
      BY <1>2, <2>1, <3>1 DEF Recorded
    <3>3. \A n \in main'.todo \cap Missions : mission'[n].chosen # NoAttempt
      BY <1>3, <2>1, <3>1
    <3>. QED  BY <2>1, <2>2, <3>1, <3>2, <3>3 DEF MainInv
  <2>3. CASE Prepared(m) /\ Show(m, mission[m].chosen, mission[m].timeline)
    <3>1. /\ mission[m].chosen \in Attempts /\ mission[m].timeline \in Timelines
          /\ mission[m].verdict \in Visible
      BY <1>1, <2>1 DEF Recorded, ChosenInv, MissionType, MissionRow
    <3>2. mission'[m].status = mission'[m].verdict
      BY <1>1, <2>1, <2>3, <3>1, ShowEffect
    <3>. QED  BY <1>13, <2>2, <2>3, <3>2 DEF RepairPublish
  <2>4. CASE Finalized(m, mission[m].chosen, mission[m].timeline) /\ UNCHANGED mission
    BY <1>7, <1>13, <2>2, <2>4 DEF RepairPublish, Finalized
  <2>. QED  BY <1>7, <1>13, <2>3, <2>4 DEF RepairPublish
<1>14. CASE RepairDeliver
  <2>1. /\ main.pc = "deliver" /\ main'.pc = "repair" /\ main'.todo = main.todo
    BY <1>1, <1>14 DEF RepairDeliver, At, MainType
  <2>. QED  BY <1>3, <2>1 DEF MainInv
<1>15. ASSUME NEW n \in Missions, MainRevokes(n)
       PROVE  MainInv'
  <2>1. CASE At("revoke") /\ main' = [main EXCEPT !.todo = @ \ {n}]
    BY <1>1, <1>8, <2>1 DEF At, MainType
  <2>. QED  BY <1>7, <1>15, <2>1 DEF MainRevokes
<1>16. ASSUME NEW n \in Missions, RepairFile(n)
       PROVE  MainInv'
  <2>1. /\ main.pc = "repair" /\ main'.pc = "finalize" /\ main'.item = n
        /\ main'.todo = main.todo \ {n} /\ n \in main.todo
    BY <1>1, <1>16 DEF RepairFile, At, MainType
  <2>2. mission[n].chosen # NoAttempt /\ mission' = mission
    BY <1>1, <1>16, <2>1 DEF MainInv, RepairFile, dbVars
  <2>3. Recorded(n)'
    BY <1>16, <2>2 DEF RepairFile, Recorded
  <2>. QED  BY <1>3, <2>1, <2>3 DEF MainInv
<1>17. ASSUME NEW n \in Missions, Expire(n)
       PROVE  MainInv'
  <2>1. main'.pc = "reportExpiry" /\ main'.item = n
    BY <1>1, <1>17 DEF Expire, MainType
  <2>. QED  BY <2>1 DEF MainInv
<1>18. ASSUME NEW a \in Attempts, FailOrphan(a)
       PROVE  MainInv'
  <2>1. CASE Failable(Of(a), a) /\ At("orphans")
    <3>1. Of(a) \in Missions
      BY <1>1, <2>1 DEF Failable, Alive, Live, AttemptInv
    <3>2. \/ main'.pc = "orphans"
          \/ main'.pc = "reportOrphan" /\ main'.item = Of(a)
      BY <1>1, <1>18, <2>1 DEF FailOrphan, At, MainType
    <3>. QED  BY <1>8, <3>1, <3>2 DEF MainInv
  <2>. QED  BY <1>7, <1>18, <2>1 DEF FailOrphan
<1>. QED  BY <1>5, <1>6, <1>9, <1>10, <1>11, <1>12, <1>13, <1>14, <1>15, <1>16, <1>17,
             <1>18, MainWriters

-----------------------------------------------------------------------------
(* Theorems *)

\* The initial state satisfies the invariant.
LEMMA InitInv ==
    ASSUME Init
    PROVE  IInv
<1>1. 1 \in Timelines /\ 1 \in Epochs /\ 0 \in 0 .. MaxManualRetries /\ 0 \in 0 .. MaxFaults
  BY PolicyAssumption DEF Timelines, Epochs
<1>2. TypeOK
  BY <1>1, InitialRows
     DEF Init, TypeOK, MissionType, AttemptType, OutputType, WorkerType, MainType,
         CallerType, MainStep
<1>3. /\ \A m \in Missions : mission[m].status = "none" /\ mission[m].chosen = NoAttempt
      /\ \A a \in Attempts : /\ attempt[a].status = "unused"
                             /\ attempt[a].mission = NoMission /\ worker[a].pc = "none"
  BY DEF Init, BlankMission, BlankAttempt, IdleWorker
<1>4. AttemptInv /\ WorkerInv
  BY <1>3 DEF AttemptInv, WorkerInv, WorkerKnows, Of
<1>5. MainInv /\ LedgerInv
  BY DEF Init, MainInv, LedgerInv
<1>6. ChosenInv /\ PublicationFollowsJournal
  BY <1>3 DEF ChosenInv, PublicationFollowsJournal, Visible
<1>. QED  BY <1>2, <1>4, <1>5, <1>6 DEF IInv

\* No step leaves the invariant.
LEMMA NextInv ==
    ASSUME IInv, [Next]_vars
    PROVE  IInv'
<1>1. CASE Next
  BY <1>1, TypeStep, AttemptHistory, WorkerStepInv, MainStepInv, ChosenStep, LedgerStep,
     PublicationStep DEF IInv
<1>2. CASE UNCHANGED vars
  <2>. USE <1>2 DEF vars, dbVars, outVars, clockVars, superVars, callerVars
  <2>1. TypeOK'
    BY DEF IInv, TypeOK, MissionType, AttemptType, OutputType, WorkerType, MainType,
           CallerType
  <2>2. AttemptInv' /\ WorkerInv' /\ MainInv'
    BY DEF IInv, AttemptInv, WorkerInv, WorkerKnows, MainInv, Recorded, Of
  <2>3. ChosenInv' /\ LedgerInv' /\ PublicationFollowsJournal'
    BY DEF IInv, ChosenInv, LedgerInv, PublicationFollowsJournal
  <2>. QED  BY <2>1, <2>2, <2>3 DEF IInv
<1>. QED  BY <1>1, <1>2

\* The invariant holds of every reachable state.
THEOREM Invariant == Spec => []IInv
<1>. QED  BY InitInv, NextInv, PTL DEF Spec

\* Every row, thread and queue entry keeps its type in every reachable state.
THEOREM TypeCorrect == Spec => []TypeOK
<1>1. IInv => TypeOK
  BY DEF IInv
<1>. QED  BY <1>1, Invariant, PTL

\* A visible result was in the journal first, at the sequence and with the verdict
\* the mission shows.
THEOREM PublicationCorrect == Spec => []PublicationFollowsJournal
<1>1. IInv => PublicationFollowsJournal
  BY DEF IInv
<1>. QED  BY <1>1, Invariant, PTL

\* The events of a mission never disagree, whatever timelines hold them.
THEOREM OneResult == Spec => []OneResultPerMission
<1>1. IInv => OneResultPerMission
  BY DEF IInv, LedgerInv, OneResultPerMission
<1>. QED  BY <1>1, Invariant, PTL

\* What was published or cancelled is never changed again.
THEOREM EndIsFinal == Spec => EndedIsFinal
<1>1. ASSUME IInv, [Next]_vars
      PROVE  [\A m \in Missions : mission[m].status \in Visible \cup {"cancelled"} =>
                 /\ mission'[m].status = mission[m].status
                 /\ mission'[m].chosen = mission[m].chosen
                 /\ mission'[m].verdict = mission[m].verdict
                 /\ mission'[m].filed = mission[m].filed]_vars
  BY <1>1, MissionHistory DEF ResultKept, RowKept
<1>. QED  BY <1>1, Invariant, PTL DEF Spec, EndedIsFinal

-----------------------------------------------------------------------------
=============================================================================
