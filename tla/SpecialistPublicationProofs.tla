--------------------- MODULE SpecialistPublicationProofs ---------------------
(***************************************************************************)
(* More of SpecialistMissions, proved for every value of its constants:    *)
(* that SpecialistMissions implements SpecialistPublication, that a        *)
(* mission never has two live attempts, that a completion notice is never  *)
(* ahead of the publication it announces, and that a mission that may      *)
(* still run keeps the world it pinned.                                    *)
(*                                                                         *)
(* All four rest on IInv, which SpecialistMissionsProofs shows inductive.  *)
(* What each needs besides is one more conjunct about what a thread may    *)
(* still do: UnchosenInv for the refinement, EndedInv for the pins, and    *)
(* each of the other two is inductive as it stands.                        *)
(***************************************************************************)
EXTENDS SpecialistMissionsProofs

\* As long as no result is chosen there is no verdict.
UnchosenInv ==
    \A m \in Missions : mission[m].chosen = NoAttempt => mission[m].verdict = "none"

\* Who is about to unpin a mission has ended it, or has seen it end.
EndedInv ==
    /\ \A m \in Missions : closing[m] # "none" => mission[m].status = "cancelled"
    /\ \A a \in Attempts : worker[a].pc = "announced" =>
         mission[Of(a)].status \in Visible

\* What the abstract specification sees of a mission's row.
SameResult(m) ==
    /\ mission'[m].status = mission[m].status
    /\ mission'[m].chosen = mission[m].chosen
    /\ mission'[m].verdict = mission[m].verdict

-----------------------------------------------------------------------------
(* One live attempt *)

\* A step that brings no attempt to life, and leaves the live ones with a mission
\* that may have them, keeps OneLiveAttempt.
LEMMA LiveFrame ==
    ASSUME OneLiveAttempt,
           \A a \in Attempts : Alive(a)' =>
               /\ Alive(a) /\ Of(a)' = Of(a)
               /\ mission'[Of(a)].status \in {"active"} \cup Visible
    PROVE  OneLiveAttempt'
<1>1. \A a, b \in Attempts : Alive(a)' /\ Alive(b)' /\ Of(a)' = Of(b)' => a = b
  BY DEF OneLiveAttempt
<1>2. \A a \in Attempts : Alive(a)' => mission'[Of(a)'].status \in {"active"} \cup Visible
  OBVIOUS
<1>. QED  BY <1>1, <1>2 DEF OneLiveAttempt

\* A live attempt is one that has begun, so it has a mission.
LEMMA LiveHasMission ==
    ASSUME AttemptInv, NEW a \in Attempts, Alive(a)
    PROVE  Of(a) \in Missions
  BY DEF AttemptInv, Alive, Live

\* cancel ends the live attempts of the mission it ends.
LEMMA CancelKeepsOne ==
    ASSUME MissionType, AttemptType, AttemptInv, OneLiveAttempt,
           NEW m \in Missions, NEW by, Cancel(m, by)
    PROVE  OneLiveAttempt'
<1>1. ASSUME NEW a \in Attempts, Alive(a)'
      PROVE  /\ Alive(a) /\ Of(a)' = Of(a)
             /\ mission'[Of(a)].status \in {"active"} \cup Visible
  <2>1. Alive(a) /\ Of(a) # m /\ Of(a)' = Of(a)
    BY <1>1, CancelEffect
  <2>2. Of(a) \in Missions
    BY <2>1, LiveHasMission
  <2>3. mission'[Of(a)] = mission[Of(a)]
    BY <2>1, <2>2, CancelEffect
  <2>. QED  BY <2>1, <2>3 DEF OneLiveAttempt
<1>. QED  BY <1>1, LiveFrame

\* fail_attempt ends the one live attempt of the mission it fails or requeues.
LEMMA FailKeepsOne ==
    ASSUME MissionType, AttemptType, AttemptInv, OneLiveAttempt,
           NEW a \in Attempts, Alive(a), NEW outcome \in AttemptFailures,
           NEW allow, Fail(Of(a), a, outcome, allow)
    PROVE  OneLiveAttempt'
<1>1. Of(a) \in Missions
  BY LiveHasMission
<1>2. attempt'[a].status = outcome /\ outcome \notin Live
  BY <1>1, FailEffect DEF AttemptFailures, Live
<1>3. ASSUME NEW b \in Attempts, Alive(b)'
      PROVE  /\ Alive(b) /\ Of(b)' = Of(b)
             /\ mission'[Of(b)].status \in {"active"} \cup Visible
  <2>1. b # a
    BY <1>2, <1>3 DEF Alive
  <2>2. Of(b)' = Of(b) /\ attempt'[b] = attempt[b]
    BY <1>1, <2>1, FailEffect
  <2>3. Alive(b)
    BY <1>3, <2>2 DEF Alive
  <2>4. Of(b) # Of(a) /\ Of(b) \in Missions
    BY <2>1, <2>3, LiveHasMission DEF OneLiveAttempt
  <2>5. mission'[Of(b)] = mission[Of(b)]
    BY <1>1, <2>4, FailEffect
  <2>. QED  BY <2>2, <2>3, <2>5 DEF OneLiveAttempt
<1>. QED  BY <1>3, LiveFrame

\* Publishing a result ends the attempt that gave it and no other: an attempt that
\* began after its lease was lost may run on.
LEMMA ShowKeepsOne ==
    ASSUME MissionType, AttemptType, AttemptInv, OneLiveAttempt,
           NEW m \in Missions, NEW a \in Attempts, NEW t \in Timelines,
           mission[m].verdict \in Visible, Show(m, a, t)
    PROVE  OneLiveAttempt'
<1>1. ASSUME NEW b \in Attempts, Alive(b)'
      PROVE  /\ Alive(b) /\ Of(b)' = Of(b)
             /\ mission'[Of(b)].status \in {"active"} \cup Visible
  <2>1. Alive(b) /\ Of(b)' = Of(b)
    BY <1>1, ShowEffect
  <2>2. Of(b) \in Missions
    BY <2>1, LiveHasMission
  <2>3. mission'[Of(b)].status \in {mission[Of(b)].status} \cup Visible
    BY <2>2, ShowEffect
  <2>. QED  BY <2>1, <2>3 DEF OneLiveAttempt
<1>. QED  BY <1>1, LiveFrame

\* begin_attempt takes a mission that waits, so one that has no live attempt.
LEMMA BeginKeepsOne ==
    ASSUME MissionType, AttemptType, AttemptInv, OneLiveAttempt,
           NEW m \in Missions, NEW a \in Attempts, Begin(m, a)
    PROVE  OneLiveAttempt'
<1>1. /\ mission[m].status \notin {"active"} \cup Visible
      /\ mission'[m].status = "active"
      /\ \A n \in Missions \ {m} : mission'[n] = mission[n]
  BY DEF Begin, MissionType, MissionRow, Waiting, Visible
<1>2. /\ Of(a)' = m
      /\ \A b \in Attempts \ {a} : attempt'[b] = attempt[b]
  BY DEF Begin, AttemptType, Of
<1>3. ASSUME NEW b \in Attempts \ {a}, Alive(b)'
      PROVE  /\ Alive(b) /\ Of(b)' = Of(b) /\ Of(b) # m
             /\ mission'[Of(b)].status \in {"active"} \cup Visible
  <2>1. Alive(b) /\ Of(b)' = Of(b)
    BY <1>2, <1>3 DEF Alive, Of
  <2>2. mission[Of(b)].status \in {"active"} \cup Visible
    BY <2>1 DEF OneLiveAttempt
  <2>3. Of(b) \in Missions \ {m}
    BY <1>1, <2>1, <2>2, LiveHasMission
  <2>. QED  BY <1>1, <2>1, <2>2, <2>3
<1>4. \A b, c \in Attempts : Alive(b)' /\ Alive(c)' /\ Of(b)' = Of(c)' => b = c
  BY <1>2, <1>3 DEF OneLiveAttempt
<1>5. \A b \in Attempts : Alive(b)' => mission'[Of(b)'].status \in {"active"} \cup Visible
  BY <1>1, <1>2, <1>3
<1>. QED  BY <1>4, <1>5 DEF OneLiveAttempt

\* A step that writes no attempt, and leaves every mission that is active or visible
\* so, keeps OneLiveAttempt.
LEMMA StatusFrame ==
    ASSUME AttemptInv, OneLiveAttempt, UNCHANGED attempt,
           \A m \in Missions : mission[m].status \in {"active"} \cup Visible
                               => mission'[m].status \in {"active"} \cup Visible
    PROVE  OneLiveAttempt'
<1>1. ASSUME NEW a \in Attempts, Alive(a)'
      PROVE  /\ Alive(a) /\ Of(a)' = Of(a)
             /\ mission'[Of(a)].status \in {"active"} \cup Visible
  <2>1. Alive(a) /\ Of(a)' = Of(a)
    BY <1>1 DEF Alive, Of
  <2>. QED  BY <2>1, LiveHasMission DEF OneLiveAttempt
<1>. QED  BY <1>1, LiveFrame

\* No step gives a mission a second live attempt.
LEMMA OneLiveStep ==
    ASSUME IInv, OneLiveAttempt, Next
    PROVE  OneLiveAttempt'
<1>1. /\ MissionType /\ AttemptType /\ AttemptInv /\ WorkerInv /\ MainInv /\ ChosenInv
      /\ WorkerType
  BY DEF IInv, TypeOK
<1>2. CASE UNCHANGED <<mission, attempt>>
  BY <1>1, <1>2, StatusFrame
<1>3. CASE Sweep
  <2>1. UNCHANGED attempt /\ \A m \in Missions : mission'[m].status = mission[m].status
    BY <1>1, <1>3 DEF Sweep, MissionType, MissionRow
  <2>. QED  BY <1>1, <2>1, StatusFrame
<1>4. CASE RepairPublish
  <2>1. main.item \in Missions
    BY <1>1, <1>4 DEF MainInv, RepairPublish, At
  <2>2. CASE Prepared(main.item) /\ Show(main.item, mission[main.item].chosen,
                                         mission[main.item].timeline)
    <3>1. /\ mission[main.item].chosen \in Attempts
          /\ mission[main.item].timeline \in Timelines
          /\ mission[main.item].verdict \in Visible
      BY <1>1, <2>1, <2>2 DEF Prepared, ChosenInv, MissionType, MissionRow
    <3>. QED  BY <1>1, <2>1, <2>2, <3>1, ShowKeepsOne
  <2>. QED  BY <1>2, <1>4, <2>2 DEF RepairPublish
<1>5. ASSUME NEW m \in Missions,
             MainRevokes(m) \/ RestoreRevokes(m) \/ CancelByParent(m)
      PROVE  OneLiveAttempt'
  <2>1. CASE \E by : Cancel(m, by)
    BY <1>1, <2>1, CancelKeepsOne
  <2>. QED  BY <1>2, <1>5, <2>1 DEF MainRevokes, RestoreRevokes, CancelByParent
<1>6. ASSUME NEW m \in Missions,
             \/ Expire(m) \/ LoseCaller(m) \/ Insert(m) \/ InsertDuplicate(m)
             \/ CommitRetry(m)
             \/ \E s \in Seats, o \in Objectives, f \in Faculties : Draft(m, s, o, f)
      PROVE  OneLiveAttempt'
  <2>1. /\ UNCHANGED attempt
        /\ \/ UNCHANGED mission
           \/ /\ mission[m].status \in Waiting \cup {"none", "draft", "failed"}
              /\ \E r : mission' = [mission EXCEPT ![m] = r]
    BY <1>6 DEF Expire, LoseCaller, Insert, InsertDuplicate, CommitRetry, Retriable,
                Draft
  <2>2. \A n \in Missions : mission[n].status \in {"active"} \cup Visible
                            => mission'[n] = mission[n]
    BY <1>1, <2>1 DEF MissionType, Waiting, Visible
  <2>. QED  BY <1>1, <2>1, <2>2, StatusFrame
<1>7. ASSUME NEW m \in Missions, DeadlinePasses(m)
      PROVE  OneLiveAttempt'
  <2>1. UNCHANGED attempt /\ \A n \in Missions : mission'[n].status = mission[n].status
    BY <1>1, <1>7 DEF DeadlinePasses, MissionType, MissionRow
  <2>. QED  BY <1>1, <2>1, StatusFrame
<1>8. ASSUME NEW m \in Missions, NEW a \in Attempts, Begin(m, a)
      PROVE  OneLiveAttempt'
  BY <1>1, <1>8, BeginKeepsOne
<1>9. ASSUME NEW a \in Attempts, FailOrphan(a) \/ FailAttempt(a)
      PROVE  OneLiveAttempt'
  <2>1. CASE /\ Failable(Of(a), a)
             /\ \E x \in AttemptFailures, allow \in BOOLEAN : Fail(Of(a), a, x, allow)
    BY <1>1, <2>1, FailKeepsOne DEF Failable
  <2>. QED  BY <1>1, <1>2, <1>9, <2>1
            DEF FailOrphan, FailAttempt, WorkerInv, WorkerKnows, AttemptFailures
<1>10. ASSUME NEW a \in Attempts, NEW v \in Visible \cup AttemptFailures,
              CheckResult(a, v)
       PROVE  OneLiveAttempt'
  <2>1. Of(a) \in Missions
    BY <1>1, <1>10 DEF WorkerInv, WorkerKnows, CheckResult
  <2>. QED  BY <1>1, <1>2, <1>10, <2>1, CancelKeepsOne DEF CheckResult
<1>11. ASSUME NEW a \in Attempts, Prepare(a)
       PROVE  OneLiveAttempt'
  <2>1. UNCHANGED attempt
    BY <1>11 DEF Prepare
  <2>2. CASE mission' = [mission EXCEPT ![Of(a)] =
                 [@ EXCEPT !.chosen = a, !.verdict = worker[a].says, !.filed = 0]]
    <3>1. \A n \in Missions : mission'[n].status = mission[n].status
      BY <1>1, <2>2 DEF MissionType, MissionRow
    <3>. QED  BY <1>1, <2>1, <3>1, StatusFrame
  <2>. QED  BY <1>2, <1>11, <2>1, <2>2 DEF Prepare
<1>12. ASSUME NEW a \in Attempts, Publish(a)
       PROVE  OneLiveAttempt'
  <2>1. /\ Of(a) \in Missions /\ worker[a].at \in Timelines
        /\ mission[Of(a)].verdict \in Visible
    BY <1>1, <1>12 DEF WorkerInv, WorkerKnows, Publish
  <2>. QED  BY <1>1, <1>2, <1>12, <2>1, ShowKeepsOne DEF Publish
<1>13. ASSUME UNCHANGED mission,
              \/ Start
              \/ \E a \in Attempts : HeartbeatLapses(a) \/ Heartbeat(a) \/ ChildAnswers(a)
       PROVE  OneLiveAttempt'
  <2>. DEFINE Tame == \A a \in Attempts : Of(a)' = Of(a) /\ (Alive(a)' => Alive(a))
  <2>1. CASE Start
    <3>1. Tame
      BY <1>1, <2>1 DEF Start, AttemptType, AttemptRow, Alive, Of
    <3>. QED  BY <1>13, <3>1, LiveFrame DEF OneLiveAttempt
  <2>2. ASSUME NEW a \in Attempts, HeartbeatLapses(a) \/ Heartbeat(a) \/ ChildAnswers(a)
        PROVE  OneLiveAttempt'
    <3>1. CASE UNCHANGED attempt
      BY <1>2, <1>13, <3>1
    <3>2. CASE \E x \in BOOLEAN : attempt' = [attempt EXCEPT ![a] = [@ EXCEPT !.fresh = x]]
      <4>1. Tame
        BY <1>1, <3>2 DEF AttemptType, AttemptRow, Alive, Of
      <4>. QED  BY <1>13, <4>1, LiveFrame DEF OneLiveAttempt
    <3>3. CASE /\ attempt[a].status = "running"
               /\ attempt' = [attempt EXCEPT ![a] =
                                [@ EXCEPT !.status = "validating", !.fresh = TRUE]]
      <4>1. Tame
        BY <1>1, <3>3 DEF AttemptType, AttemptRow, Alive, Live, Of
      <4>. QED  BY <1>13, <4>1, LiveFrame DEF OneLiveAttempt
    <3>. QED  BY <2>2, <3>1, <3>2, <3>3 DEF HeartbeatLapses, Heartbeat, ChildAnswers
  <2>. QED  BY <1>13, <2>1, <2>2
<1>14. CASE UNCHANGED mission
  BY <1>2, <1>4, <1>5, <1>8, <1>9, <1>10, <1>12, <1>13, <1>14, AttemptWriters
<1>. QED  BY <1>3, <1>4, <1>5, <1>6, <1>7, <1>8, <1>9, <1>10, <1>11, <1>12, <1>14,
             MissionWriters

\* No interleaving of begin, failure, orphaning, cancel and publication gives a
\* mission two live attempts, or leaves one alive when its mission has left "active"
\* other than by a publication.
THEOREM LiveAttempts == Spec => []OneLiveAttempt
<1>1. Init => OneLiveAttempt
  BY DEF Init, OneLiveAttempt, Alive, Live, BlankAttempt
<1>2. IInv /\ OneLiveAttempt /\ [Next]_vars => OneLiveAttempt'
  <2>1. ASSUME IInv, OneLiveAttempt, UNCHANGED vars
        PROVE  OneLiveAttempt'
    BY <2>1, StatusFrame DEF IInv, vars, dbVars
  <2>. QED  BY <2>1, OneLiveStep
<1>. QED  BY <1>1, <1>2, Invariant, PTL DEF Spec

-----------------------------------------------------------------------------
(* Notices *)

\* Notices that were truthful stay so, and a step that puts new ones only for
\* missions that already show what they say keeps NoticeFollowsPublication.
LEMMA NoticeFrame ==
    ASSUME IInv, NoticeFollowsPublication, Next,
           \A n \in notices' \ notices :
               /\ n.mission \in Missions
               /\ n.about \in Visible => mission[n.mission].status = n.about
    PROVE  NoticeFollowsPublication'
<1>1. ASSUME NEW n \in notices', n.about \in Visible
      PROVE  n.mission \in Missions /\ mission[n.mission].status = n.about
  <2>1. CASE n \in notices
    BY <1>1, <2>1 DEF IInv, TypeOK, OutputType, NoticeFollowsPublication
  <2>. QED  BY <1>1, <2>1
<1>2. ASSUME NEW n \in notices', n.about \in Visible
      PROVE  mission'[n.mission].status = n.about
  BY <1>1, <1>2, MissionHistory DEF ResultKept, RowKept
<1>. QED  BY <1>2 DEF NoticeFollowsPublication

\* What NoticeFor puts is about its mission, and says what it is told to.
LEMMA NoticeSays ==
    ASSUME NEW m, NEW about, NEW n \in NoticeFor(m, about)
    PROVE  n.mission = m /\ n.about = about
  BY DEF NoticeFor, Notice

\* Every writer of the attention queue knows what it announces: the thread has
\* published it, the repair has found it published, the reconciliation reads the row,
\* and a failure is announced as a failure.
LEMMA NoticeStep ==
    ASSUME IInv, NoticeFollowsPublication, Next
    PROVE  NoticeFollowsPublication'
<1>1. WorkerInv /\ MainInv
  BY DEF IInv
<1>2. CASE notices' \subseteq notices
  BY <1>2, NoticeFrame
<1>3. ASSUME NEW m \in Missions, NEW about,
             about \in Visible => mission[m].status = about,
             notices' = notices \cup NoticeFor(m, about)
      PROVE  NoticeFollowsPublication'
  <2>1. \A n \in notices' \ notices : n.mission = m /\ n.about = about
    BY <1>3, NoticeSays
  <2>. QED  BY <1>3, <2>1, NoticeFrame
<1>4. CASE MainReports
  <2>1. main.item \in Missions
    BY <1>1, <1>4 DEF MainReports, MainInv, At
  <2>2. \E about \in {"orphaned", "timed_out"} :
          notices' = notices \cup NoticeFor(main.item, about)
    BY <1>4 DEF MainReports
  <2>. QED  BY <1>3, <2>1, <2>2 DEF Visible
<1>5. CASE RepairDeliver
  <2>1. /\ main.item \in Missions
        /\ mission[main.item].status = mission[main.item].verdict
        /\ notices' = notices \cup NoticeFor(main.item, mission[main.item].verdict)
    BY <1>1, <1>5 DEF RepairDeliver, MainInv, At
  <2>. QED  BY <1>3, <2>1
<1>6. CASE AnnounceTerminal
  <2>1. ASSUME NEW n \in notices' \ notices
        PROVE  n.mission \in Missions /\ mission[n.mission].status = n.about
    <3>1. PICK m \in Missions : n \in NoticeFor(m, mission[m].status)
      BY <1>6, <2>1 DEF AnnounceTerminal, Rows
    <3>. QED  BY <3>1, NoticeSays
  <2>. QED  BY <2>1, NoticeFrame
<1>7. ASSUME NEW a \in Attempts, Announce(a)
      PROVE  NoticeFollowsPublication'
  <2>1. /\ Of(a) \in Missions /\ mission[Of(a)].status = worker[a].says
        /\ notices' = notices \cup NoticeFor(Of(a), worker[a].says)
    BY <1>1, <1>7 DEF Announce, WorkerInv, WorkerKnows
  <2>. QED  BY <1>3, <2>1
<1>8. ASSUME NEW a \in Attempts, ReportFailure(a)
      PROVE  NoticeFollowsPublication'
  <2>1. /\ Of(a) \in Missions /\ worker[a].says \notin Visible
        /\ notices' = notices \cup NoticeFor(Of(a), worker[a].says)
    BY <1>1, <1>8 DEF ReportFailure, WorkerInv, WorkerKnows, AttemptFailures, Visible
  <2>. QED  BY <1>3, <2>1
<1>. QED  BY <1>2, <1>4, <1>5, <1>6, <1>7, <1>8, OutputWriters
          DEF Discard, RepairFile, FileResult

\* No notice is ahead of the publication it announces, whether the thread, the repair
\* after a crash or the reconciliation put it, and whatever a restore discards.
THEOREM NoticesTruthful == Spec => []NoticeFollowsPublication
<1>1. Init => NoticeFollowsPublication
  BY DEF Init, NoticeFollowsPublication
<1>2. IInv /\ NoticeFollowsPublication /\ [Next]_vars => NoticeFollowsPublication'
  <2>1. ASSUME NoticeFollowsPublication, UNCHANGED vars
        PROVE  NoticeFollowsPublication'
    BY <2>1 DEF NoticeFollowsPublication, vars, dbVars, outVars
  <2>. QED  BY <2>1, NoticeStep
<1>. QED  BY <1>1, <1>2, Invariant, PTL DEF Spec

-----------------------------------------------------------------------------
(* Pins *)

\* A step that leaves who is closing a mission as it is or gives it up keeps what
\* EndedInv says of them: a cancelled mission stays cancelled.
LEMMA ClosingFrame ==
    ASSUME IInv, Next, EndedInv,
           \A m \in Missions : closing'[m] # "none" =>
               closing[m] # "none" \/ mission'[m].status = "cancelled"
    PROVE  \A m \in Missions : closing'[m] # "none" => mission'[m].status = "cancelled"
<1>1. ResultKept
  BY MissionHistory
<1>. QED  BY <1>1 DEF EndedInv, ResultKept, RowKept

\* Only a cancel's own transaction makes anybody its closer.
LEMMA ClosingStep ==
    ASSUME IInv, Next, EndedInv
    PROVE  \A m \in Missions : closing'[m] # "none" => mission'[m].status = "cancelled"
<1>1. /\ MissionType /\ AttemptType /\ WorkerInv /\ CallerType
  BY DEF IInv, TypeOK
<1>2. CASE UNCHANGED closing
  BY <1>2, ClosingFrame
<1>3. ASSUME NEW m \in Missions, NEW by, Cancel(m, by)
      PROVE  \A n \in Missions : closing'[n] # "none" => mission'[n].status = "cancelled"
  <2>1. mission'[m].status = "cancelled"
    BY <1>1, <1>3, CancelEffect
  <2>2. \A n \in Missions \ {m} : closing'[n] = closing[n]
    BY <1>1, <1>3 DEF Cancel, CallerType
  <2>. QED  BY <2>1, <2>2, ClosingFrame
<1>4. CASE Kill
  <2>1. \A m \in Missions : closing'[m] \in {"none", closing[m]}
    BY <1>4 DEF Kill
  <2>. QED  BY <2>1, ClosingFrame
<1>5. ASSUME NEW m \in Missions, FinishCancel(m) \/ LoseCaller(m)
      PROVE  \A n \in Missions : closing'[n] # "none" => mission'[n].status = "cancelled"
  <2>1. \A n \in Missions : closing'[n] \in {"none", closing[n]}
    BY <1>1, <1>5 DEF FinishCancel, LoseCaller, CallerType
  <2>. QED  BY <2>1, ClosingFrame
<1>6. ASSUME NEW a \in Attempts, NEW v \in Visible \cup AttemptFailures,
             CheckResult(a, v)
      PROVE  \A n \in Missions : closing'[n] # "none" => mission'[n].status = "cancelled"
  <2>1. Of(a) \in Missions
    BY <1>1, <1>6 DEF WorkerInv, WorkerKnows, CheckResult
  <2>. QED  BY <1>2, <1>3, <1>6, <2>1 DEF CheckResult
<1>7. ASSUME NEW m \in Missions,
             MainRevokes(m) \/ RestoreRevokes(m) \/ CancelByParent(m)
      PROVE  \A n \in Missions : closing'[n] # "none" => mission'[n].status = "cancelled"
  BY <1>2, <1>3, <1>7 DEF MainRevokes, RestoreRevokes, CancelByParent
<1>. QED  BY <1>2, <1>4, <1>5, <1>6, <1>7, CallerWriters
          DEF Activate, ListRevocations, Discard, Stop, AskRetry, CommitRetry

\* A thread announces only what it has published, and that stays visible.
LEMMA AnnouncedStep ==
    ASSUME IInv, Next, EndedInv
    PROVE  \A a \in Attempts : worker'[a].pc = "announced" =>
             mission'[Of(a)'].status \in Visible
<1>1. WorkerInv /\ WorkerType /\ ResultKept /\ OwnerKept
  BY MissionHistory, AttemptHistory DEF IInv, TypeOK
<1>2. ASSUME NEW a \in Attempts, Of(a) \in Missions, mission[Of(a)].status \in Visible
      PROVE  mission'[Of(a)'].status \in Visible
  <2>1. Of(a)' = Of(a) /\ mission'[Of(a)].status = mission[Of(a)].status
    BY <1>1, <1>2 DEF OwnerKept, ResultKept, RowKept
  <2>. QED  BY <1>2, <2>1
<1>3. ASSUME NEW a \in Attempts, worker'[a].pc = "announced", worker[a].pc = "announced"
      PROVE  mission'[Of(a)'].status \in Visible
  BY <1>1, <1>2, <1>3 DEF EndedInv, WorkerInv, WorkerKnows
<1>4. ASSUME NEW a \in Attempts, worker'[a].pc = "announced", worker[a].pc # "announced"
      PROVE  Announce(a)
  <2>1. worker' # worker
    BY <1>4
  <2>2. ~ Kill
    BY <1>4 DEF Kill, IdleWorker
  <2>3. ASSUME NEW b \in Attempts, NEW r, r.pc # "announced",
               worker' = [worker EXCEPT ![b] = r]
        PROVE  FALSE
    BY <1>1, <1>4, <2>3 DEF WorkerType
  <2>4. ASSUME NEW m \in Missions, NEW b \in Attempts, Begin(m, b)
        PROVE  FALSE
    <3>1. [IdleWorker EXCEPT !.pc = "child"].pc # "announced"
      BY DEF IdleWorker
    <3>. QED  BY <2>3, <2>4, <3>1 DEF Begin
  <2>5. ASSUME NEW b \in Attempts, NEW pc \in WorkerStep \ {"announced"}
        PROVE  /\ [worker[b] EXCEPT !.pc = pc].pc # "announced"
               /\ \A x : [worker[b] EXCEPT !.pc = pc, !.says = x].pc # "announced"
               /\ \A t : [worker[b] EXCEPT !.pc = pc, !.at = t].pc # "announced"
               /\ [IdleWorker EXCEPT !.pc = "done"].pc # "announced"
    BY <1>1, <2>5 DEF WorkerType, ThreadState, IdleWorker
  <2>6. ASSUME NEW b \in Attempts, NEW pc \in WorkerStep \ {"announced"},
               \/ Go(b, pc) \/ Done(b)
               \/ \E x : GoSaying(b, pc, x)
               \/ \E t : worker' = [worker EXCEPT ![b] = [@ EXCEPT !.pc = pc, !.at = t]]
        PROVE  FALSE
    BY <2>3, <2>5, <2>6 DEF Go, Done, GoSaying
  <2>7. ASSUME NEW b \in Attempts,
               \/ KillChild(b) \/ ChildAnswers(b) \/ Prepare(b) \/ FileResult(b)
               \/ Publish(b) \/ Release(b) \/ FailAttempt(b) \/ ReportFailure(b)
               \/ \E x \in Mishaps : ChildFails(b, x)
               \/ \E v \in Visible \cup AttemptFailures : CheckResult(b, v)
        PROVE  FALSE
    <3>1. {"failing", "validate", "checked", "prepared", "filed", "published", "report",
           "done"} \subseteq WorkerStep \ {"announced"}
      BY DEF WorkerStep
    <3>2. CASE KillChild(b)
      BY <2>6, <3>1, <3>2 DEF KillChild
    <3>3. CASE ChildAnswers(b)
      BY <2>6, <3>1, <3>3 DEF ChildAnswers, Refused
    <3>4. CASE Prepare(b)
      BY <2>6, <3>1, <3>4 DEF Prepare, Refused
    <3>5. CASE FileResult(b)
      BY <2>6, <3>1, <3>5 DEF FileResult
    <3>6. CASE Publish(b)
      BY <2>6, <3>1, <3>6 DEF Publish, Refused
    <3>7. CASE Release(b) \/ ReportFailure(b)
      BY <2>6, <3>1, <3>7 DEF Release, ReportFailure
    <3>8. CASE FailAttempt(b)
      BY <2>6, <3>1, <3>8 DEF FailAttempt
    <3>9. ASSUME NEW x \in Mishaps, ChildFails(b, x)
           PROVE  FALSE
      BY <2>6, <3>1, <3>9 DEF ChildFails
    <3>10. ASSUME NEW v \in Visible \cup AttemptFailures, CheckResult(b, v)
           PROVE  FALSE
      BY <2>6, <3>1, <3>10 DEF CheckResult, Refused
    <3>. QED  BY <2>7, <3>2, <3>3, <3>4, <3>5, <3>6, <3>7, <3>8, <3>9, <3>10
  <2>8. PICK b \in Attempts : Announce(b)
    BY <2>1, <2>2, <2>4, <2>7, WorkerWriters
  <2>9. b = a
    BY <1>1, <1>4, <2>8 DEF Announce, Go, WorkerType
  <2>. QED  BY <2>8, <2>9
<1>5. ASSUME NEW a \in Attempts, Announce(a)
      PROVE  mission'[Of(a)'].status \in Visible
  BY <1>1, <1>2, <1>5 DEF Announce, WorkerInv, WorkerKnows
<1>. QED  BY <1>3, <1>4, <1>5

\* What EndedInv says holds of every reachable state.
LEMMA EndedInvariant == Spec => []EndedInv
<1>1. Init => EndedInv
  BY DEF Init, EndedInv, IdleWorker
<1>2. IInv /\ EndedInv /\ [Next]_vars => EndedInv'
  <2>1. ASSUME IInv, EndedInv, Next
        PROVE  EndedInv'
    BY <2>1, ClosingStep, AnnouncedStep DEF EndedInv
  <2>2. ASSUME EndedInv, UNCHANGED vars
        PROVE  EndedInv'
    BY <2>2 DEF EndedInv, Of, vars, dbVars, superVars, callerVars
  <2>. QED  BY <2>1, <2>2
<1>. QED  BY <1>1, <1>2, Invariant, PTL DEF Spec

\* A step that takes a stored mission's pin has found it ended for good, or past its
\* horizon and gives up its view with it.
LEMMA PinsStep ==
    ASSUME IInv, EndedInv, Next, NEW m \in Missions,
           Stored(m), m \in pins, m \notin pins'
    PROVE  \/ mission[m].status \in Visible \cup {"cancelled"}
           \/ mission[m].status = "failed" /\ mission[m].due /\ ~ mission'[m].view
<1>1. /\ MissionType /\ WorkerInv /\ MainInv /\ ChosenInv
  BY DEF IInv, TypeOK
<1>2. CASE Sweep
  BY <1>1, <1>2 DEF Sweep, Rows, HorizonPassed, MissionType, MissionRow
<1>3. CASE RepairDeliver
  <2>1. m = main.item /\ At("deliver")
    BY <1>3 DEF RepairDeliver
  <2>. QED  BY <1>1, <2>1 DEF At, MainInv, Recorded, ChosenInv
<1>4. ASSUME NEW n \in Missions, InsertDuplicate(n)
      PROVE  FALSE
  BY <1>4 DEF InsertDuplicate, Stored, Unborn
<1>5. ASSUME NEW n \in Missions, FinishCancel(n)
      PROVE  mission[m].status = "cancelled"
  BY <1>5 DEF FinishCancel, EndedInv
<1>6. ASSUME NEW a \in Attempts, Release(a)
      PROVE  mission[m].status \in Visible
  BY <1>6 DEF Release, EndedInv
<1>7. ASSUME NEW n \in Missions, CommitRetry(n)
      PROVE  FALSE
  BY <1>7 DEF CommitRetry
<1>8. ASSUME NEW n \in Missions, NEW s \in Seats, NEW o \in Objectives,
             NEW f \in Faculties, Draft(n, s, o, f)
      PROVE  FALSE
  BY <1>8 DEF Draft
<1>. QED  BY <1>2, <1>3, <1>4, <1>5, <1>6, <1>7, <1>8, RestWriters
          DEF Activate, NewEpoch, dbVars

\* Whoever unpins a mission that is in the table, and however its unpinning races with
\* retries and the sweep, the mission has ended for good or has given up its view.
THEOREM PinsKept == Spec => PinKeptWhileRunnable
<1>1. ASSUME IInv, EndedInv, [Next]_vars
      PROVE  [\A m \in Missions : Stored(m) /\ m \in pins /\ m \notin pins' =>
                \/ mission[m].status \in Visible \cup {"cancelled"}
                \/ mission[m].status = "failed" /\ mission[m].due /\ ~ mission'[m].view]_vars
  BY <1>1, PinsStep
<1>. QED  BY <1>1, Invariant, EndedInvariant, PTL DEF Spec, PinKeptWhileRunnable

-----------------------------------------------------------------------------
(* Refinement *)

\* A step moves at most one mission in the eyes of the abstract specification; unless
\* it chooses a result, the mission keeps its choice, or is drafted without one.
Moves(m) ==
    /\ \A n \in Missions \ {m} : SameResult(n)
    /\ \/ mission'[m].chosen = mission[m].chosen /\ mission'[m].verdict = mission[m].verdict
       \/ mission'[m].chosen = NoAttempt /\ mission'[m].verdict = "none"
       \/ mission'[m].chosen # NoAttempt
LEMMA OneMissionMoves ==
    ASSUME IInv, Next
    PROVE  (\A n \in Missions : SameResult(n)) \/ \E m \in Missions : Moves(m)
<1>. DEFINE Goal == (\A n \in Missions : SameResult(n)) \/ \E m \in Missions : Moves(m)
<1>1. /\ MissionType /\ AttemptType /\ AttemptInv /\ WorkerInv /\ MainInv /\ ChosenInv
      /\ WorkerType
  BY DEF IInv, TypeOK
<1>2. CASE UNCHANGED mission
  BY <1>2 DEF SameResult
<1>3. CASE Sweep
  BY <1>1, <1>3 DEF Sweep, MissionType, MissionRow, SameResult
<1>4. ASSUME NEW m \in Missions, \A n \in Missions \ {m} : mission'[n] = mission[n],
             mission'[m].chosen = mission[m].chosen, mission'[m].verdict = mission[m].verdict
      PROVE  Goal
  BY <1>4 DEF Moves, SameResult
<1>5. CASE RepairPublish
  <2>1. main.item \in Missions
    BY <1>1, <1>5 DEF MainInv, RepairPublish, At
  <2>2. CASE Prepared(main.item) /\ Show(main.item, mission[main.item].chosen,
                                         mission[main.item].timeline)
    <3>1. /\ mission[main.item].chosen \in Attempts
          /\ mission[main.item].timeline \in Timelines
          /\ mission[main.item].verdict \in Visible
      BY <1>1, <2>1, <2>2 DEF Prepared, ChosenInv, MissionType, MissionRow
    <3>. QED  BY <1>1, <1>4, <2>1, <2>2, <3>1, ShowEffect
  <2>. QED  BY <1>2, <1>5, <2>2 DEF RepairPublish
<1>6. ASSUME NEW m \in Missions,
             MainRevokes(m) \/ RestoreRevokes(m) \/ CancelByParent(m)
      PROVE  Goal
  <2>1. CASE \E by : Cancel(m, by)
    BY <1>1, <1>4, <2>1, CancelEffect
  <2>. QED  BY <1>2, <1>6, <2>1 DEF MainRevokes, RestoreRevokes, CancelByParent
<1>7. ASSUME NEW m \in Missions,
             \/ Expire(m) \/ DeadlinePasses(m) \/ LoseCaller(m)
             \/ Insert(m) \/ InsertDuplicate(m) \/ CommitRetry(m)
      PROVE  Goal
  <2>1. CASE UNCHANGED mission
    BY <1>2, <2>1
  <2>2. CASE \E x : mission' = [mission EXCEPT ![m] = [@ EXCEPT !.status = x]]
    BY <1>1, <1>4, <2>2 DEF MissionType, MissionRow
  <2>3. CASE \/ mission' = [mission EXCEPT ![m] = [@ EXCEPT !.status = "failed", !.due = FALSE]]
             \/ mission' = [mission EXCEPT ![m] = [@ EXCEPT !.due = TRUE]]
    <3>1. CASE mission' = [mission EXCEPT ![m] = [@ EXCEPT !.due = TRUE]]
      BY <1>1, <1>4, <3>1 DEF MissionType, MissionRow
    <3>2. CASE mission' = [mission EXCEPT ![m] = [@ EXCEPT !.status = "failed", !.due = FALSE]]
      BY <1>1, <1>4, <3>2 DEF MissionType, MissionRow
    <3>. QED  BY <2>3, <3>1, <3>2
  <2>4. CASE Expire(m) \/ DeadlinePasses(m)
    BY <2>3, <2>4 DEF Expire, DeadlinePasses
  <2>5. CASE LoseCaller(m) \/ CommitRetry(m)
    BY <2>1, <2>2, <2>5 DEF LoseCaller, CommitRetry
  <2>6. CASE Insert(m) \/ InsertDuplicate(m)
    BY <2>2, <2>6 DEF Insert, InsertDuplicate
  <2>. QED  BY <1>7, <2>4, <2>5, <2>6
<1>8. ASSUME NEW m \in Missions, NEW s \in Seats, NEW o \in Objectives,
             NEW f \in Faculties, Draft(m, s, o, f)
      PROVE  Goal
  <2>1. /\ \A n \in Missions \ {m} : mission'[n] = mission[n]
        /\ mission'[m].chosen = NoAttempt /\ mission'[m].verdict = "none"
    BY <1>1, <1>8 DEF Draft, MissionType, BlankMission
  <2>. QED  BY <2>1 DEF Moves, SameResult
<1>9. ASSUME NEW m \in Missions, NEW a \in Attempts, Begin(m, a)
      PROVE  Goal
  BY <1>1, <1>4, <1>9 DEF Begin, MissionType, MissionRow
<1>10. ASSUME NEW a \in Attempts, FailOrphan(a) \/ FailAttempt(a)
       PROVE  Goal
  <2>1. CASE /\ Failable(Of(a), a)
             /\ \E x \in AttemptFailures, allow \in BOOLEAN : Fail(Of(a), a, x, allow)
    <3>1. Of(a) \in Missions
      BY <1>1, <2>1 DEF Failable, Alive, Live, AttemptInv
    <3>. QED  BY <1>1, <1>4, <2>1, <3>1, FailEffect
  <2>. QED  BY <1>1, <1>2, <1>10, <2>1
            DEF FailOrphan, FailAttempt, WorkerInv, WorkerKnows, AttemptFailures
<1>11. ASSUME NEW a \in Attempts, NEW v \in Visible \cup AttemptFailures,
              CheckResult(a, v)
       PROVE  Goal
  <2>1. Of(a) \in Missions
    BY <1>1, <1>11 DEF WorkerInv, WorkerKnows, CheckResult
  <2>2. CASE Cancel(Of(a), a)
    BY <1>1, <1>4, <2>1, <2>2, CancelEffect
  <2>. QED  BY <1>2, <1>11, <2>2 DEF CheckResult
<1>12. ASSUME NEW a \in Attempts, Prepare(a)
       PROVE  Goal
  <2>1. Of(a) \in Missions
    BY <1>1, <1>12 DEF WorkerInv, WorkerKnows, Prepare
  <2>2. CASE mission' = [mission EXCEPT ![Of(a)] =
                 [@ EXCEPT !.chosen = a, !.verdict = worker[a].says, !.filed = 0]]
    <3>1. /\ mission'[Of(a)].chosen = a
          /\ \A n \in Missions \ {Of(a)} : mission'[n] = mission[n]
      BY <1>1, <2>1, <2>2 DEF MissionType, MissionRow
    <3>. QED  BY <2>1, <3>1, NullAssumption DEF Moves, SameResult
  <2>. QED  BY <1>2, <1>12, <2>2 DEF Prepare
<1>13. ASSUME NEW a \in Attempts, Publish(a)
       PROVE  Goal
  <2>1. /\ Of(a) \in Missions /\ worker[a].at \in Timelines
        /\ mission[Of(a)].verdict \in Visible
    BY <1>1, <1>13 DEF WorkerInv, WorkerKnows, Publish
  <2>2. CASE Show(Of(a), a, worker[a].at)
    BY <1>1, <1>4, <2>1, <2>2, ShowEffect
  <2>. QED  BY <1>2, <1>13, <2>2 DEF Publish
<1>. HIDE DEF Goal
<1>14. Goal
  BY <1>2, <1>3, <1>5, <1>6, <1>7, <1>8, <1>9, <1>10, <1>11, <1>12, <1>13,
     MissionWriters DEF Goal
<1>. QED  BY <1>14 DEF Goal

\* A verdict comes with a choice.
LEMMA UnchosenInvariant == Spec => []UnchosenInv
<1>1. Init => UnchosenInv
  BY DEF Init, UnchosenInv, BlankMission
<1>2. IInv /\ UnchosenInv /\ [Next]_vars => UnchosenInv'
  <2>1. ASSUME IInv, UnchosenInv, Next, NEW m \in Missions, mission'[m].chosen = NoAttempt
        PROVE  mission'[m].verdict = "none"
    BY <2>1, OneMissionMoves DEF SameResult, Moves, UnchosenInv
  <2>2. ASSUME UnchosenInv, UNCHANGED vars
        PROVE  UnchosenInv'
    BY <2>2 DEF UnchosenInv, vars, dbVars
  <2>. QED  BY <2>1, <2>2 DEF UnchosenInv
<1>. QED  BY <1>1, <1>2, Invariant, PTL DEF Spec

\* What the abstract variables are.
Choices  == [m \in Missions |-> mission[m].chosen]
Verdicts == [m \in Missions |-> mission[m].verdict]
Ledger   == {<<e.mission, e.attempt, e.verdict>> : e \in journal}

\* The phase of a mission, before a step and after it.
LEMMA PhaseOf ==
    ASSUME NEW m \in Missions
    PROVE  /\ mission[m].status \in Visible => Phase[m] = "visible"
           /\ mission[m].status = "cancelled" => Phase[m] = "closed"
           /\ mission[m].status \notin Visible \cup {"cancelled"} =>
                Phase[m] = IF mission[m].chosen = NoAttempt THEN "open" ELSE "chosen"
           /\ mission'[m].status \in Visible => Phase'[m] = "visible"
           /\ mission'[m].status = "cancelled" => Phase'[m] = "closed"
           /\ mission'[m].status \notin Visible \cup {"cancelled"} =>
                Phase'[m] = IF mission'[m].chosen = NoAttempt THEN "open" ELSE "chosen"
  BY DEF Phase, Visible

\* A mission whose result and status stay has the same phase, choice and verdict, and
\* a step that moves one mission updates the abstract variables at it.
LEMMA MovesOne ==
    ASSUME NEW m \in Missions, \A n \in Missions \ {m} : SameResult(n)
    PROVE  /\ Phase' = [Phase EXCEPT ![m] = Phase'[m]]
           /\ Choices' = [Choices EXCEPT ![m] = mission'[m].chosen]
           /\ Verdicts' = [Verdicts EXCEPT ![m] = mission'[m].verdict]
<1>1. \A n \in Missions \ {m} : Phase'[n] = Phase[n]
  BY DEF SameResult, Phase
<1>2. /\ Phase = [n \in Missions |-> Phase[n]]
      /\ Phase' = [n \in Missions |-> Phase'[n]]
  BY DEF Phase
<1>. QED  BY <1>1, <1>2 DEF SameResult, Choices, Verdicts
LEMMA MovesNone ==
    ASSUME \A n \in Missions : SameResult(n)
    PROVE  Phase' = Phase /\ Choices' = Choices /\ Verdicts' = Verdicts
<1>1. \A n \in Missions : Phase'[n] = Phase[n]
  BY DEF SameResult, Phase
<1>2. /\ Phase = [n \in Missions |-> Phase[n]]
      /\ Phase' = [n \in Missions |-> Phase'[n]]
  BY DEF Phase
<1>. QED  BY <1>1, <1>2 DEF SameResult, Choices, Verdicts

\* An event in the journal is a result in the ledger, and a new event a new result.
LEMMA LedgerHas ==
    ASSUME NEW t, NEW m, NEW a, NEW v
    PROVE  /\ ResultEvent(t, m, a, v) \in journal => <<m, a, v>> \in Ledger
           /\ journal' = journal \cup {ResultEvent(t, m, a, v)}
                => Ledger' = Ledger \cup {<<m, a, v>>}
<1>. DEFINE e == ResultEvent(t, m, a, v)
<1>1. e.mission = m /\ e.attempt = a /\ e.verdict = v
  BY DEF ResultEvent
<1>. HIDE DEF e
<1>2. e \in journal => <<m, a, v>> \in Ledger
  BY <1>1 DEF Ledger
<1>3. ASSUME journal' = journal \cup {e}
      PROVE  Ledger' = Ledger \cup {<<m, a, v>>}
  BY <1>1, <1>3 DEF Ledger
<1>. QED  BY <1>2, <1>3 DEF e

\* The initial state is the abstract initial state.
LEMMA InitImplements == Init => Publication!Init
<1>. SUFFICES ASSUME Init PROVE Publication!Init
  OBVIOUS
<1>1. \A m \in Missions : /\ mission[m].status = "none" /\ mission[m].verdict = "none"
                          /\ mission[m].chosen = NoAttempt
  BY DEF Init, BlankMission
<1>2. Phase = [m \in Missions |-> "open"]
  <2>1. \A m \in Missions : Phase[m] = "open"
    BY <1>1, PhaseOf DEF Visible
  <2>2. Phase = [m \in Missions |-> Phase[m]]
    BY DEF Phase
  <2>. QED  BY <2>1, <2>2
<1>3. Choices = [m \in Missions |-> NoAttempt] /\ Verdicts = [m \in Missions |-> "none"]
  BY <1>1 DEF Choices, Verdicts
<1>4. Ledger = {}
  BY DEF Init, Ledger
<1>. QED  BY <1>2, <1>3, <1>4 DEF Publication!Init, Choices, Verdicts, Ledger

\* accept_attempt's compare-and-swap chooses.
LEMMA PrepareImplements ==
    ASSUME IInv, Next, NEW m \in Missions,
           \A n \in Missions \ {m} : SameResult(n),
           mission[m].chosen = NoAttempt, mission'[m].chosen # NoAttempt
    PROVE  Publication!Next
<1>1. PICK a \in Attempts : /\ Prepare(a) /\ Of(a) = m /\ Choosable(m)
                            /\ mission'[m].status = "active"
                            /\ mission'[m].chosen = a
                            /\ mission'[m].verdict = worker[a].says
                            /\ worker[a].says \in Visible
  BY BecomesChosen
<1>2. Phase[m] = "open"
  BY <1>1, PhaseOf DEF Choosable, Visible
<1>3. Phase'[m] = "chosen"
  BY <1>1, PhaseOf DEF Visible
<1>4. Ledger' = Ledger
  BY <1>1 DEF Prepare, outVars, Ledger
<1>5. /\ Phase' = [Phase EXCEPT ![m] = "chosen"]
      /\ Choices' = [Choices EXCEPT ![m] = a]
      /\ Verdicts' = [Verdicts EXCEPT ![m] = worker[a].says]
  BY <1>1, <1>3, MovesOne
<1>6. PICK v \in {"accepted", "stale"} : worker[a].says = v
  BY <1>1 DEF Visible
<1>7. Publication!Choose(m, a, v)
  BY <1>2, <1>4, <1>5, <1>6 DEF Publication!Choose, Choices, Verdicts, Ledger
<1>. QED  BY <1>7 DEF Publication!Next

\* The journal's append records, whoever makes it and on whatever timeline.
LEMMA FileImplements ==
    ASSUME IInv, Next, UNCHANGED mission, journal' # journal
    PROVE  Publication!Next
<1>1. WorkerInv /\ MainInv
  BY DEF IInv
<1>2. ASSUME NEW m \in Missions, NEW t, mission[m].chosen # NoAttempt,
             journal' = journal \cup
               {ResultEvent(t, m, mission[m].chosen, mission[m].verdict)}
      PROVE  Publication!Next
  <2>1. Choices[m] # NoAttempt
    BY <1>2 DEF Choices
  <2>2. Ledger' = Ledger \cup {<<m, Choices[m], Verdicts[m]>>}
    BY <1>2, LedgerHas DEF Choices, Verdicts
  <2>3. Phase' = Phase /\ Choices' = Choices /\ Verdicts' = Verdicts
    BY MovesNone DEF SameResult
  <2>4. Publication!Record(m)
    BY <2>1, <2>2, <2>3 DEF Publication!Record, Choices, Verdicts, Ledger
  <2>. QED  BY <2>4 DEF Publication!Next
<1>3. ASSUME NEW m \in Missions, RepairFile(m)
      PROVE  Publication!Next
  BY <1>1, <1>2, <1>3 DEF RepairFile, MainInv, At
<1>4. ASSUME NEW a \in Attempts, FileResult(a)
      PROVE  Publication!Next
  <2>1. /\ Of(a) \in Missions /\ mission[Of(a)].chosen = a
        /\ mission[Of(a)].verdict = worker[a].says
    BY <1>1, <1>4 DEF FileResult, WorkerInv, WorkerKnows
  <2>. QED  BY <1>2, <1>4, <2>1, NullAssumption DEF FileResult
<1>5. ~ (MainReports \/ RepairDeliver \/ AnnounceTerminal \/ Discard)
  BY DEF MainReports, RepairDeliver, AnnounceTerminal, Discard
<1>6. \A a \in Attempts : ~ (Announce(a) \/ ReportFailure(a))
  BY DEF Announce, ReportFailure
<1>. QED  BY <1>3, <1>4, <1>5, <1>6, OutputWriters

\* Whatever else moves a mission shows its choice, closes it, or is not seen.
LEMMA StatusImplements ==
    ASSUME IInv, Next, journal' = journal, NEW m \in Missions,
           \A n \in Missions \ {m} : SameResult(n),
           mission'[m].chosen = mission[m].chosen,
           mission'[m].verdict = mission[m].verdict
    PROVE  [Publication!Next]_(Publication!vars)
<1>1. Ledger' = Ledger
  BY DEF Ledger
<1>2. Choices' = Choices /\ Verdicts' = Verdicts
  BY DEF SameResult, Choices, Verdicts
<1>3. Phase' = [Phase EXCEPT ![m] = Phase'[m]]
  BY MovesOne
<1>4. CASE Phase'[m] = Phase[m]
  <2>1. Phase' = Phase
    <3>1. Phase = [n \in Missions |-> Phase[n]]
      BY DEF Phase
    <3>. QED  BY <1>3, <1>4, <3>1
  <2>. QED  BY <1>1, <1>2, <2>1 DEF Publication!vars, Choices, Verdicts, Ledger
<1>5. CASE Phase'[m] # Phase[m]
  <2>1. mission[m].status \notin Visible \cup {"cancelled"}
    BY <1>5, MissionHistory, PhaseOf DEF ResultKept, RowKept
  <2>2. Phase[m] = IF mission[m].chosen = NoAttempt THEN "open" ELSE "chosen"
    BY <2>1, PhaseOf
  <2>3. CASE mission'[m].status \in Visible
    <3>1. /\ mission[m].chosen # NoAttempt
          /\ ResultEvent(mission'[m].filed, m, mission[m].chosen, mission[m].verdict)
               \in journal
      BY <2>1, <2>3, BecomesVisible
    <3>2. Phase[m] = "chosen" /\ Phase' = [Phase EXCEPT ![m] = "visible"]
      BY <1>3, <2>2, <2>3, <3>1, PhaseOf
    <3>3. <<m, Choices[m], Verdicts[m]>> \in Ledger
      BY <3>1, LedgerHas DEF Choices, Verdicts
    <3>4. Publication!Show(m)
      BY <1>1, <1>2, <3>2, <3>3 DEF Publication!Show, Choices, Verdicts, Ledger
    <3>. QED  BY <3>4 DEF Publication!Next
  <2>4. CASE mission'[m].status = "cancelled"
    <3>1. Phase[m] \in {"open", "chosen"} /\ Phase' = [Phase EXCEPT ![m] = "closed"]
      BY <1>3, <2>2, <2>4, PhaseOf
    <3>2. Publication!Close(m)
      BY <1>1, <1>2, <3>1 DEF Publication!Close, Choices, Verdicts, Ledger
    <3>. QED  BY <3>2 DEF Publication!Next
  <2>5. CASE mission'[m].status \notin Visible \cup {"cancelled"}
    BY <1>5, <2>2, <2>5, PhaseOf
  <2>. QED  BY <2>3, <2>4, <2>5
<1>. QED  BY <1>4, <1>5

\* No step writes the journal and a mission.
LEMMA JournalAlone ==
    ASSUME Next, journal' # journal
    PROVE  UNCHANGED mission
  BY OutputWriters
     DEF MainReports, RepairDeliver, AnnounceTerminal, Discard, RepairFile, FileResult,
         Announce, ReportFailure, dbVars

\* Every step chooses, records, shows, closes, or is not seen.
LEMMA NextImplements ==
    ASSUME IInv, UnchosenInv, UnchosenInv', [Next]_vars
    PROVE  [Publication!Next]_(Publication!vars)
<1>1. ASSUME journal' = journal, \A n \in Missions : SameResult(n)
      PROVE  UNCHANGED Publication!vars
  <2>1. Phase' = Phase /\ Choices' = Choices /\ Verdicts' = Verdicts /\ Ledger' = Ledger
    BY <1>1, MovesNone DEF Ledger
  <2>. QED  BY <2>1 DEF Publication!vars, Choices, Verdicts, Ledger
<1>2. CASE UNCHANGED vars
  BY <1>1, <1>2 DEF vars, dbVars, outVars, SameResult
<1>3. CASE Next /\ journal' # journal
  BY <1>3, JournalAlone, FileImplements
<1>4. ASSUME Next, journal' = journal, NEW m \in Missions, Moves(m)
      PROVE  [Publication!Next]_(Publication!vars)
  <2>1. CASE mission[m].chosen = NoAttempt /\ mission'[m].chosen # NoAttempt
    BY <1>4, <2>1, PrepareImplements DEF Moves
  <2>2. CASE mission[m].chosen = NoAttempt /\ mission'[m].chosen = NoAttempt
    <3>1. mission'[m].verdict = mission[m].verdict
      BY <2>2 DEF UnchosenInv
    <3>. QED  BY <1>4, <2>2, <3>1, StatusImplements DEF Moves
  <2>3. CASE mission[m].chosen # NoAttempt
    <3>1. mission'[m].chosen = mission[m].chosen /\ mission'[m].verdict = mission[m].verdict
      BY <1>4, <2>3, MissionHistory DEF ResultKept, RowKept
    <3>. QED  BY <1>4, <3>1, StatusImplements DEF Moves
  <2>. QED  BY <2>1, <2>2, <2>3
<1>. QED  BY <1>1, <1>2, <1>3, <1>4, OneMissionMoves

\* The whole of accept_attempt, of the repair after a crash and of every way to end a
\* mission amount, in any interleaving, to: choose once, record, show, or close.
THEOREM MissionsImplementPublication == Spec => ImplementsPublication
<1>. QED  BY Invariant, UnchosenInvariant, InitImplements, NextImplements, PTL
          DEF Spec, ImplementsPublication, Publication!Spec

=============================================================================
