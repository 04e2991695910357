------------------------ MODULE BridgeRequestsProofs ------------------------
(***************************************************************************)
(* Proofs about BridgeRequests: for any operations, any number of requests *)
(* and any dialogs a request is executed at most once, an answer is its    *)
(* own request's and no revision is accepted twice.                        *)
(*                                                                         *)
(* None of these is inductive.  That a request in the slot has not been    *)
(* executed yet takes that a request in progress is the innermost frame of *)
(* the UI thread, that its frame and the slot agree on what was executed,  *)
(* and that the socket worker waits for no other than the newest request.  *)
(***************************************************************************)
EXTENDS BridgeRequests, TLAPS

-----------------------------------------------------------------------------
(* The types of the whole state.                                           *)

AnyKind == Kinds \cup {"end_turn"}
Statuses == {"none", "pending", "completed", "rejected"}
Receipts == [id : Nat, kind : AnyKind \cup {"none"}, status : Statuses]
Revisions == Nat \X Receipts \X (SUBSET Kinds) \X Nat \X BOOLEAN \X BOOLEAN
NoRevision == << >>

RequestFrames ==
  [what : {"request"}, seq : Requests, op : Ops \cup {"none"},
   seen : Revisions \cup {NoRevision},
   at : {"taken", "executed", "published"}, revision : Revisions \cup {NoRevision}]
NativeFrames ==
  [what : {"native"}, kind : AnyKind, id : Nat, at : {"running", "dialog"}]
Frames == RequestFrames \cup NativeFrames

Slots ==
  [seq : Nat, op : Ops \cup {"none"}, seen : Revisions \cup {NoRevision},
   pending : BOOLEAN, inProgress : BOOLEAN, response : Nat,
   revision : Revisions \cup {NoRevision}, responseSeq : Nat, event : BOOLEAN]
Workers == [at : {"idle", "received", "stored", "waiting", "woken"}, seq : Nat]
Timers == [pending : BOOLEAN, source : Nat, returned : BOOLEAN, timer : BOOLEAN]
Engines ==
  [turn : Nat, mine : BOOLEAN, modal : BOOLEAN, dialogs : Nat, committed : BOOLEAN,
   multiplayer : BOOLEAN]
Answers == {"none", "game_timeout", "response", "superseded_request"}
Clients ==
  [answered : [Requests -> Answers \X Nat], seen : Revisions]
Histories ==
  [executed : [Requests -> Nat], outcome : [Requests -> {"none", "completed", "rejected"}],
   owner : [AnyKind -> Nat], accepted : Seq(Revisions)]

SharedTypes ==
  /\ slot \in Slots /\ worker \in Workers /\ client \in Clients
  /\ messages \in Seq({"request", "deferred"})
GameTypes ==
  /\ barrier \in BOOLEAN /\ queued \in SUBSET Kinds /\ sent \in BOOLEAN
  /\ endTurn \in Timers /\ action \in Receipts /\ generation \in Nat
  /\ engine \in Engines /\ history \in Histories
Types == SharedTypes /\ GameTypes /\ stack \in Seq(Frames)

-----------------------------------------------------------------------------
(* The inductive invariant.                                                *)

AllNative(s) == \A i \in 1 .. Len(s) : s[i].what = "native"

(* A request never pumps, so only the innermost frame can be one.          *)
Nested == \A i \in 2 .. Len(stack) : stack[i].what = "native"

RequestOnTop == stack # << >> /\ Top.what = "request"

InProgressInv ==
  slot.inProgress <=> RequestOnTop /\ Top.at \in {"taken", "executed"}

(* The worker waits for the newest request only.                           *)
WorkerInv ==
  /\ worker.seq <= slot.seq
  /\ worker.at = "received" => slot.seq < MaxRequests
  /\ worker.at \in {"stored", "waiting", "woken"} =>
       worker.seq = slot.seq /\ slot.seq \in Requests

(* What the innermost frame's request has done.                            *)
FrameInv ==
  RequestOnTop =>
    /\ Top.seq <= slot.seq
    /\ Top.at = "taken" => history.executed[Top.seq] = 0 /\ action.id < Top.seq
    /\ Top.at = "executed" => history.executed[Top.seq] = 1

(* A pending request is either on its way out or has not been executed.    *)
PendingInv ==
  slot.pending =>
    /\ slot.seq \in Requests
    /\ \/ RequestOnTop /\ Top.at = "executed" /\ Top.seq = slot.seq
       \/ history.executed[slot.seq] = 0 /\ action.id < slot.seq

ResponseInv ==
  /\ slot.seq <= MaxRequests /\ slot.responseSeq <= slot.seq /\ action.id <= slot.seq
  /\ slot.responseSeq = slot.seq /\ slot.seq \in Requests =>
       slot.response = slot.seq /\ history.executed[slot.seq] = 1

ExecutionInv ==
  \A n \in Requests :
    /\ history.executed[n] <= 1
    /\ n > slot.seq => history.executed[n] = 0

(* Every accepted revision is of an earlier generation than the next.      *)
AcceptedInv ==
  \A i \in 1 .. Len(history.accepted) :
    /\ history.accepted[i][1] < generation
    /\ \A j \in 1 .. Len(history.accepted) :
         i < j => history.accepted[i][1] < history.accepted[j][1]

Rest ==
  /\ Nested /\ InProgressInv /\ WorkerInv /\ FrameInv /\ PendingInv
  /\ ResponseInv /\ ExecutionInv /\ AnsweredByItself /\ AcceptedInv

IInv == Types /\ Rest

-----------------------------------------------------------------------------
(* What the frames are when one is pushed, replaced or popped.             *)

(* A pushed frame is the top one, and the others are below it.             *)
LEMMA PushedFrame ==
  ASSUME NEW s \in Seq(Frames), NEW f \in Frames, NEW t, t = << f >> \o s
  PROVE  /\ t \in Seq(Frames) /\ t # << >> /\ Head(t) = f /\ Len(t) = Len(s) + 1
         /\ \A i \in 2 .. Len(t) : t[i] = s[i - 1]
  OBVIOUS

(* What is below the top one is the tail, one further up.                  *)
LEMMA PoppedFrame ==
  ASSUME NEW s \in Seq(Frames), s # << >>, NEW t, t = Tail(s)
  PROVE  /\ t \in Seq(Frames) /\ Len(t) = Len(s) - 1
         /\ \A i \in 1 .. Len(t) : t[i] = s[i + 1]
         /\ Head(s) = s[1] /\ Head(s) \in Frames /\ 1 \in 1 .. Len(s)
  OBVIOUS

(* Replacing the top frame leaves the others.                              *)
LEMMA ReplacedFrame ==
  ASSUME NEW s \in Seq(Frames), s # << >>, NEW f \in Frames, NEW t, t = << f >> \o Tail(s)
  PROVE  /\ t \in Seq(Frames) /\ t # << >> /\ Head(t) = f /\ Len(t) = Len(s)
         /\ \A i \in 2 .. Len(t) : t[i] = s[i]
<1>1. Tail(s) \in Seq(Frames) /\ Len(Tail(s)) = Len(s) - 1
      /\ \A i \in 1 .. Len(Tail(s)) : Tail(s)[i] = s[i + 1]
  BY PoppedFrame
<1>2. /\ t \in Seq(Frames) /\ t # << >> /\ Head(t) = f /\ Len(t) = Len(Tail(s)) + 1
      /\ \A i \in 2 .. Len(t) : t[i] = Tail(s)[i - 1]
  BY <1>1, PushedFrame
<1> QED BY <1>1, <1>2

(* With a native frame on top, or none at all, no frame is a request's.    *)
LEMMA NativeTop ==
  ASSUME stack \in Seq(Frames), Nested, ~RequestOnTop
  PROVE  AllNative(stack)
<1> SUFFICES ASSUME NEW i \in 1 .. Len(stack) PROVE stack[i].what = "native"
  BY DEF AllNative
<1>1. CASE i = 1
  <2>1. stack # << >> /\ Top = stack[1] /\ stack[1] \in Frames BY <1>1, PoppedFrame DEF Top
  <2> QED BY <2>1, <1>1 DEF RequestOnTop, Frames, RequestFrames, NativeFrames
<1>2. CASE i # 1
  BY <1>2 DEF Nested
<1> QED BY <1>1, <1>2

LEMMA NoRequestOnTop ==
  ASSUME NEW s \in Seq(Frames), AllNative(s), s # << >>
  PROVE  Head(s).what = "native"
  BY PoppedFrame DEF AllNative

-----------------------------------------------------------------------------
(* Steps the slot and the requests do not notice.                          *)

(* The parts of the state Rest is about, but for the frames.               *)
Unnoticed ==
  /\ slot' = slot /\ worker' = worker /\ client' = client
  /\ history'.executed = history.executed /\ history'.accepted = history.accepted
  /\ action'.id = action.id
  /\ generation' \in Nat /\ generation' >= generation

(* Frames are the same, or are native before and after the step.           *)
SameFrames ==
  stack' = stack \/ (stack' \in Seq(Frames) /\ AllNative(stack) /\ AllNative(stack'))

LEMMA AcceptedLater ==
  ASSUME Types, AcceptedInv, history'.accepted = history.accepted,
         generation' \in Nat, generation' >= generation
  PROVE  AcceptedInv'
<1> DEFINE acc == history.accepted
<1>1. acc \in Seq(Revisions) /\ generation \in Nat
  BY DEF Types, GameTypes, Histories
<1>2. \A i \in 1 .. Len(acc) : acc[i][1] \in Nat
  BY <1>1 DEF Revisions
<1> QED BY <1>1, <1>2 DEF AcceptedInv

(* A step that changes neither the slot nor what was executed keeps Rest.  *)
LEMMA UnnoticedStep ==
  ASSUME IInv, Unnoticed, SameFrames
  PROVE  Rest'
<1>1. stack \in Seq(Frames) /\ Rest
  BY DEF IInv, Types
<1>2. AcceptedInv'
  BY AcceptedLater DEF IInv, Rest, Unnoticed
<1>3. CASE stack' = stack
  BY <1>1, <1>2, <1>3 DEF Rest, Unnoticed, Nested, InProgressInv, WorkerInv, FrameInv,
     PendingInv, ResponseInv, ExecutionInv, AnsweredByItself, RequestOnTop, Top
<1>4. CASE stack' \in Seq(Frames) /\ AllNative(stack) /\ AllNative(stack')
  <2>1. ~RequestOnTop /\ ~RequestOnTop'
    BY <1>1, <1>4, NoRequestOnTop DEF RequestOnTop, Top
  <2>2. Nested'
    BY <1>4 DEF Nested, AllNative
  <2> QED BY <1>1, <1>2, <2>1, <2>2 DEF Rest, Unnoticed, InProgressInv, WorkerInv, FrameInv,
     PendingInv, ResponseInv, ExecutionInv, AnsweredByItself
<1> QED BY <1>3, <1>4 DEF SameFrames

-----------------------------------------------------------------------------
(* The socket worker.                                                      *)

LEMMA ReceiveStep ==
  ASSUME IInv, Receive
  PROVE  IInv'
<1>1. slot' = [slot EXCEPT !.event = FALSE] /\ worker' = [worker EXCEPT !.at = "received"]
      /\ slot \in Slots /\ worker \in Workers
  BY DEF Receive, IInv, Types, SharedTypes
<1>2. Types'
  BY <1>1 DEF Receive, IInv, Types, SharedTypes, GameTypes, actionVars, Slots, Workers
<1>3. /\ slot'.seq = slot.seq /\ slot'.pending = slot.pending
      /\ slot'.inProgress = slot.inProgress /\ slot'.responseSeq = slot.responseSeq
      /\ slot'.response = slot.response /\ worker'.at = "received"
  BY <1>1 DEF Slots, Workers
<1>4. Rest'
  BY <1>3 DEF Receive, IInv, Rest, Nested, InProgressInv, WorkerInv, FrameInv, PendingInv,
     ResponseInv, ExecutionInv, AnsweredByItself, AcceptedInv, RequestOnTop, Top, actionVars
<1> QED BY <1>2, <1>4 DEF IInv

LEMMA StoreStep ==
  ASSUME IInv, NEW op \in Ops, Store(op)
  PROVE  IInv'
<1>1. /\ slot' = [slot EXCEPT !.seq = @ + 1, !.op = op, !.seen = client.seen,
                          !.pending = TRUE, !.response = 0, !.revision = << >>]
      /\ worker' = [at |-> "stored", seq |-> slot.seq + 1]
      /\ slot \in Slots /\ worker \in Workers /\ client \in Clients
      /\ worker.at = "received"
      /\ UNCHANGED << messages, stack, barrier, queued, sent, endTurn, action, generation,
                      engine, client, history >>
  BY DEF Store, IInv, Types, SharedTypes, actionVars
<1>2. /\ slot'.seq = slot.seq + 1 /\ slot'.pending = TRUE
      /\ slot'.inProgress = slot.inProgress /\ slot'.responseSeq = slot.responseSeq
      /\ slot.seq \in Nat /\ slot.responseSeq \in Nat
      /\ worker'.at = "stored" /\ worker'.seq = slot.seq + 1
  BY <1>1 DEF Slots
<1>3. slot' \in Slots /\ worker' \in Workers
  <2>1. client.seen \in Revisions BY <1>1 DEF Clients
  <2>2. slot.seq + 1 \in Nat BY <1>2
  <2>3. 0 \in Nat /\ << >> \in Revisions \cup {NoRevision} BY DEF NoRevision
  <2> HIDE DEF Revisions, NoRevision
  <2> QED BY <1>1, <2>1, <2>2, <2>3 DEF Slots, Workers
<1>4. Types'
  BY <1>1, <1>3 DEF IInv, Types, SharedTypes, GameTypes
<1>5. MaxRequests \in Nat /\ slot.seq < MaxRequests
  BY <1>1, RequestBounds DEF IInv, Rest, WorkerInv
<1>6. slot'.seq \in Requests
  BY <1>2, <1>5 DEF Requests
<1>7. action.id \in Nat
  BY DEF IInv, Types, GameTypes, Receipts
<1>8. Nested' /\ InProgressInv' /\ WorkerInv' /\ AnsweredByItself' /\ AcceptedInv'
  BY <1>1, <1>2, <1>6 DEF IInv, Rest, Nested, InProgressInv, WorkerInv, AnsweredByItself,
     AcceptedInv, RequestOnTop, Top
<1>9. FrameInv'
  <2> SUFFICES ASSUME RequestOnTop' PROVE FrameInv!2'
    BY DEF FrameInv
  <2>1. RequestOnTop /\ Top' = Top
    BY <1>1 DEF RequestOnTop, Top
  <2>2. Top \in RequestFrames
    BY <2>1, PoppedFrame DEF IInv, Types, RequestOnTop, Top, Frames, RequestFrames, NativeFrames
  <2>3. Top.seq \in Nat
    BY <2>2, <1>5 DEF RequestFrames, Requests
  <2> QED BY <1>1, <1>2, <2>1, <2>3 DEF IInv, Rest, FrameInv
<1>10. PendingInv' /\ ResponseInv' /\ ExecutionInv'
  BY <1>1, <1>2, <1>5, <1>6, <1>7
     DEF IInv, Rest, PendingInv, ResponseInv, ExecutionInv, Requests
<1> QED BY <1>4, <1>8, <1>9, <1>10 DEF IInv, Rest

(* The worker's other steps leave the slot, the frames and the game alone. *)
LEMMA WorkerStep ==
  ASSUME IInv, worker' \in Workers, client' \in Clients, messages' \in Seq({"request", "deferred"}),
         UNCHANGED << slot, stack, actionVars, engine, history >>,
         WorkerInv', AnsweredByItself'
  PROVE  IInv'
<1>1. UNCHANGED << barrier, queued, sent, endTurn, action, generation >>
  BY DEF actionVars
<1>2. Types'
  BY <1>1 DEF IInv, Types, SharedTypes, GameTypes
<1>3. Rest'
  BY <1>1 DEF IInv, Rest, Nested, InProgressInv, FrameInv, PendingInv, ResponseInv,
     ExecutionInv, AcceptedInv, RequestOnTop, Top
<1> QED BY <1>2, <1>3 DEF IInv

LEMMA PostRequestStep ==
  ASSUME IInv, PostRequest
  PROVE  IInv'
<1>1. worker' = [worker EXCEPT !.at = "waiting"] /\ worker \in Workers /\ worker.at = "stored"
  BY DEF PostRequest, IInv, Types, SharedTypes
<1>2. worker' \in Workers /\ worker'.seq = worker.seq /\ worker'.at = "waiting"
  BY <1>1 DEF Workers
<1>3. WorkerInv'
  BY <1>1, <1>2 DEF PostRequest, IInv, Rest, WorkerInv
<1>4. messages' \in Seq({"request", "deferred"}) /\ client' \in Clients /\ AnsweredByItself'
  BY DEF PostRequest, Post, IInv, Types, SharedTypes, Rest, AnsweredByItself
<1> QED BY <1>2, <1>3, <1>4, WorkerStep DEF PostRequest

LEMMA WakeStep ==
  ASSUME IInv, Wake
  PROVE  IInv'
<1>1. worker' = [worker EXCEPT !.at = "woken"] /\ worker \in Workers /\ worker.at = "waiting"
  BY DEF Wake, IInv, Types, SharedTypes
<1>2. worker' \in Workers /\ worker'.seq = worker.seq /\ worker'.at = "woken"
  BY <1>1 DEF Workers
<1>3. WorkerInv'
  BY <1>1, <1>2 DEF Wake, IInv, Rest, WorkerInv
<1>4. messages' \in Seq({"request", "deferred"}) /\ client' \in Clients /\ AnsweredByItself'
  BY DEF Wake, IInv, Types, SharedTypes, Rest, AnsweredByItself
<1> QED BY <1>2, <1>3, <1>4, WorkerStep DEF Wake

(* An answer is its own request's when it is not a response at all, or is  *)
(* a response of that request, executed once.                              *)
LEMMA AnswerStep ==
  ASSUME IInv, NEW how \in Answers, NEW from \in Nat, NEW revision \in Revisions \cup {NoRevision},
         worker.at \in {"waiting", "woken"}, Answer(how, from, revision),
         how = "response" => from = worker.seq /\ history.executed[worker.seq] = 1,
         UNCHANGED << slot, messages, stack, actionVars, engine, history >>
  PROVE  IInv'
<1>1. worker \in Workers /\ client \in Clients /\ worker.seq \in Requests
  BY DEF IInv, Types, SharedTypes, Rest, WorkerInv
<1>2. worker' \in Workers /\ worker'.at = "idle"
  BY <1>1 DEF Answer, Workers
<1>3. client.seen \in Revisions /\ client.answered \in [Requests -> Answers \X Nat]
  BY <1>1 DEF Clients
<1> DEFINE seen == IF revision = << >> THEN client.seen ELSE revision
           answered == [client.answered EXCEPT ![worker.seq] = << how, from >>]
<1>4. seen \in Revisions
  BY <1>3 DEF NoRevision
<1>5. answered \in [Requests -> Answers \X Nat]
  BY <1>1, <1>3
<1>6. client' = [client EXCEPT !.answered = answered, !.seen = seen]
  BY DEF Answer
<1>7. client' \in Clients /\ client'.answered = answered
  <2> HIDE DEF seen, answered
  <2> QED BY <1>1, <1>4, <1>5, <1>6 DEF Clients
<1>8. AnsweredByItself'
  <2> SUFFICES ASSUME NEW n \in Requests, answered[n][1] = "response"
               PROVE  answered[n][2] = n /\ history.executed[n] = 1
    BY <1>7 DEF AnsweredByItself
  <2>1. CASE n = worker.seq
    BY <2>1, <1>1, <1>3
  <2>2. CASE n # worker.seq
    BY <2>2, <1>1, <1>3 DEF IInv, Rest, AnsweredByItself
  <2> QED BY <2>1, <2>2
<1>9. WorkerInv'
  <2>1. worker'.seq = worker.seq
    BY <1>1 DEF Answer, Workers
  <2> QED BY <1>2, <2>1 DEF WorkerInv, IInv, Rest
<1>10. messages' \in Seq({"request", "deferred"})
  BY DEF IInv, Types, SharedTypes
<1> QED BY <1>2, <1>7, <1>8, <1>9, <1>10, WorkerStep

LEMMA TimeOutStep ==
  ASSUME IInv, TimeOut
  PROVE  IInv'
<1>1. Answer("game_timeout", 0, NoRevision) /\ worker.at = "waiting"
      /\ UNCHANGED << slot, messages, stack, actionVars, engine, history >>
  BY DEF TimeOut, NoRevision
<1>2. "game_timeout" \in Answers /\ 0 \in Nat /\ NoRevision \in Revisions \cup {NoRevision}
  BY DEF Answers
<1> QED BY <1>1, <1>2, AnswerStep

LEMMA ReadResponseStep ==
  ASSUME IInv, ReadResponse
  PROVE  IInv'
<1>1. /\ slot \in Slots /\ worker.at = "woken"
      /\ UNCHANGED << slot, messages, stack, actionVars, engine, history >>
  BY DEF ReadResponse, IInv, Types, SharedTypes
<1>2. slot.response \in Nat /\ slot.revision \in Revisions \cup {NoRevision}
  BY <1>1 DEF Slots
<1>3. CASE slot.responseSeq = worker.seq
  <2>1. Answer("response", slot.response, slot.revision)
    BY <1>3 DEF ReadResponse
  <2>2. slot.response = worker.seq /\ history.executed[worker.seq] = 1
    BY <1>1, <1>3 DEF IInv, Rest, WorkerInv, ResponseInv
  <2>3. "response" \in Answers
    BY DEF Answers
  <2> QED BY <1>1, <1>2, <2>1, <2>2, <2>3, AnswerStep
<1>4. CASE slot.responseSeq # worker.seq
  <2>1. Answer("superseded_request", 0, NoRevision)
    BY <1>4 DEF ReadResponse, NoRevision
  <2>2. "superseded_request" \in Answers /\ 0 \in Nat /\ NoRevision \in Revisions \cup {NoRevision}
    BY DEF Answers
  <2> QED BY <1>1, <2>1, <2>2, AnswerStep
<1> QED BY <1>3, <1>4

-----------------------------------------------------------------------------
(* Taking a request, and publishing its response.                          *)

(* While the UI thread pumps messages no request is in progress.           *)
LEMMA PumpingIsNative ==
  ASSUME IInv, Pumping
  PROVE  ~RequestOnTop /\ AllNative(stack)
<1>1. ~RequestOnTop
  BY DEF Pumping, RequestOnTop
<1>2. stack \in Seq(Frames) /\ Nested
  BY DEF IInv, Types, Rest
<1> QED BY <1>1, <1>2, NativeTop

(* The taken request is the slot's, and has not been executed.             *)
LEMMA TakeStep ==
  ASSUME IInv, Pumping, Serviceable, Take, messages' \in Seq({"request", "deferred"}),
         UNCHANGED << worker, actionVars, engine, client, history >>
  PROVE  IInv'
<1> DEFINE f == [what |-> "request", seq |-> slot.seq, op |-> slot.op,
                 seen |-> slot.seen, at |-> "taken", revision |-> << >>]
<1>1. ~RequestOnTop /\ AllNative(stack)
  BY PumpingIsNative
<1>2. /\ UNCHANGED << barrier, queued, sent, endTurn, action, generation >>
      /\ slot \in Slots /\ stack \in Seq(Frames)
  BY DEF actionVars, IInv, Types, SharedTypes
<1>3. /\ slot.seq \in Requests /\ history.executed[slot.seq] = 0 /\ action.id < slot.seq
      /\ slot.pending
  BY <1>1 DEF Serviceable, IInv, Rest, PendingInv
<1>4. f \in Frames
  <2>1. slot.op \in Ops \cup {"none"} /\ slot.seen \in Revisions \cup {NoRevision}
        /\ << >> \in Revisions \cup {NoRevision}
    BY <1>2 DEF Slots, NoRevision
  <2> HIDE DEF Revisions, NoRevision
  <2> QED BY <1>3, <2>1 DEF Frames, RequestFrames
<1>5. stack' = << f >> \o stack /\ slot' = [slot EXCEPT !.inProgress = TRUE]
  BY DEF Take
<1>6. slot' \in Slots /\ slot'.seq = slot.seq /\ slot'.pending = slot.pending
      /\ slot'.inProgress = TRUE /\ slot'.response = slot.response
      /\ slot'.responseSeq = slot.responseSeq
  BY <1>2, <1>5 DEF Slots
<1>7. /\ stack' \in Seq(Frames) /\ stack' # << >> /\ Top' = f /\ Len(stack') = Len(stack) + 1
      /\ \A i \in 2 .. Len(stack') : stack'[i] = stack[i - 1]
  <2> HIDE DEF f
  <2> QED BY <1>2, <1>4, <1>5, PushedFrame DEF Top
<1>8. Types'
  BY <1>2, <1>6, <1>7 DEF IInv, Types, SharedTypes, GameTypes
<1>9. Nested'
  <2> SUFFICES ASSUME NEW i \in 2 .. Len(stack') PROVE stack'[i].what = "native"
    BY DEF Nested
  <2>1. i - 1 \in 1 .. Len(stack) /\ stack'[i] = stack[i - 1]
    BY <1>2, <1>7
  <2> QED BY <2>1, <1>1 DEF AllNative
<1>10. /\ RequestOnTop' /\ Top'.at = "taken" /\ Top'.seq = slot.seq
       /\ slot.seq \in Nat
  BY <1>7, <1>2 DEF RequestOnTop, Slots
<1>11. InProgressInv' /\ WorkerInv' /\ FrameInv'
  BY <1>2, <1>3, <1>6, <1>10 DEF IInv, Rest, InProgressInv, WorkerInv, FrameInv
<1>12. PendingInv' /\ ResponseInv' /\ ExecutionInv' /\ AnsweredByItself' /\ AcceptedInv'
  BY <1>2, <1>3, <1>6 DEF IInv, Rest, PendingInv, ResponseInv, ExecutionInv, AnsweredByItself,
     AcceptedInv
<1> QED BY <1>8, <1>9, <1>11, <1>12 DEF IInv, Rest

LEMMA WaitTaskStep ==
  ASSUME IInv, WaitTask
  PROVE  IInv'
BY TakeStep DEF WaitTask, IInv, Types, SharedTypes

(* A step that changes nothing but the game, unnoticed, keeps the whole.   *)
LEMMA UnnoticedKept ==
  ASSUME IInv, Unnoticed, SameFrames, stack' \in Seq(Frames),
         messages' \in Seq({"request", "deferred"}), GameTypes'
  PROVE  IInv'
<1>1. Rest' BY UnnoticedStep
<1>2. SharedTypes' BY DEF IInv, Types, SharedTypes, Unnoticed
<1> QED BY <1>1, <1>2 DEF IInv, Types

LEMMA SpentMessage ==
  ASSUME messages \in Seq({"request", "deferred"}), messages # << >>
  PROVE  Tail(messages) \in Seq({"request", "deferred"})
OBVIOUS

LEMMA RequestMessageStep ==
  ASSUME IInv, RequestMessage
  PROVE  IInv'
<1>1. messages' \in Seq({"request", "deferred"})
  BY SpentMessage DEF RequestMessage, IInv, Types, SharedTypes
<1>2. CASE Serviceable
  BY <1>1, <1>2, TakeStep DEF RequestMessage
<1>3. CASE ~Serviceable
  <2>1. /\ UNCHANGED << slot, worker, client, history, stack, engine >>
        /\ UNCHANGED << barrier, queued, sent, endTurn, action, generation >>
    BY <1>3 DEF RequestMessage, actionVars
  <2>2. Unnoticed /\ SameFrames /\ GameTypes' /\ stack' \in Seq(Frames)
    BY <2>1 DEF Unnoticed, SameFrames, IInv, Types, GameTypes
  <2> QED BY <1>1, <2>2, UnnoticedKept
<1> QED BY <1>2, <1>3

(* The innermost frame, when it is a request's.                            *)
LEMMA RequestFrame ==
  ASSUME IInv, RequestOnTop
  PROVE  /\ Top \in RequestFrames /\ Top = stack[1] /\ Top.seq \in Requests /\ Top.seq \in Nat
         /\ Tail(stack) \in Seq(Frames) /\ AllNative(Tail(stack))
<1>1. stack \in Seq(Frames) /\ stack # << >> /\ Nested
  BY DEF IInv, Types, Rest, RequestOnTop
<1>2. /\ Tail(stack) \in Seq(Frames) /\ Len(Tail(stack)) = Len(stack) - 1
      /\ \A i \in 1 .. Len(Tail(stack)) : Tail(stack)[i] = stack[i + 1]
      /\ Top = stack[1] /\ Top \in Frames
  BY <1>1, PoppedFrame DEF Top
<1>3. Top \in RequestFrames
  BY <1>2 DEF RequestOnTop, Frames, RequestFrames, NativeFrames
<1>4. Top.seq \in Requests
  BY <1>3 DEF RequestFrames
<1>5. Top.seq \in Nat
  BY <1>4, RequestBounds DEF Requests
<1>6. AllNative(Tail(stack))
  <2> SUFFICES ASSUME NEW i \in 1 .. Len(Tail(stack)) PROVE Tail(stack)[i].what = "native"
    BY DEF AllNative
  <2>1. i + 1 \in 2 .. Len(stack)
    BY <1>1, <1>2
  <2> QED BY <2>1, <1>1, <1>2 DEF Nested
<1> QED BY <1>2, <1>3, <1>4, <1>5, <1>6

(* The frame is replaced by one of the same request.                       *)
LEMMA ReplacedRequest ==
  ASSUME IInv, RequestOnTop, NEW f \in RequestFrames, stack' = << f >> \o Tail(stack)
  PROVE  stack' \in Seq(Frames) /\ RequestOnTop' /\ Top' = f /\ Nested'
<1>1. f \in Frames /\ f.what = "request" /\ stack \in Seq(Frames) /\ stack # << >>
  BY DEF Frames, RequestFrames, IInv, Types, RequestOnTop
<1>2. /\ stack' \in Seq(Frames) /\ stack' # << >> /\ Top' = f /\ Len(stack') = Len(stack)
      /\ \A i \in 2 .. Len(stack') : stack'[i] = stack[i]
  BY <1>1, ReplacedFrame DEF Top
<1> QED BY <1>1, <1>2 DEF RequestOnTop, Nested, IInv, Rest

(* The frame of a request is left: what remains is native.                 *)
LEMMA PoppedRequest ==
  ASSUME IInv, RequestOnTop, stack' = Tail(stack)
  PROVE  stack' \in Seq(Frames) /\ ~RequestOnTop' /\ Nested'
<1>1. stack' \in Seq(Frames) /\ AllNative(stack')
  BY RequestFrame
<1>2. ~RequestOnTop'
  BY <1>1, NoRequestOnTop DEF RequestOnTop, Top
<1>3. Nested'
  BY <1>1 DEF Nested, AllNative
<1> QED BY <1>1, <1>2, <1>3

LEMMA PublishStep ==
  ASSUME IInv, Publish
  PROVE  IInv'
<1>1. /\ RequestOnTop /\ Top.at = "executed" /\ Top \in RequestFrames /\ Top.seq \in Requests
      /\ Top.seq \in Nat
  BY RequestFrame DEF Publish, RequestOnTop
<1>2. /\ UNCHANGED << worker, messages, barrier, queued, sent, endTurn, action, generation,
                      engine, client, history >>
      /\ slot \in Slots /\ slot.seq \in Nat /\ slot.responseSeq \in Nat /\ slot.response \in Nat
  BY DEF Publish, actionVars, IInv, Types, SharedTypes, Slots
<1>3. history.executed[Top.seq] = 1
  BY <1>1 DEF IInv, Rest, FrameInv
<1>4. CASE Top.seq = slot.seq
  <2> DEFINE f == [Top EXCEPT !.at = "published"]
  <2>1. /\ slot' = [slot EXCEPT !.inProgress = FALSE, !.pending = FALSE, !.response = Top.seq,
                      !.revision = Top.revision, !.responseSeq = Top.seq]
        /\ stack' = << f >> \o Tail(stack)
    BY <1>4 DEF Publish
  <2>2. Top.revision \in Revisions \cup {NoRevision}
    BY <1>1 DEF RequestFrames
  <2>3. /\ slot' \in Slots /\ slot'.seq = slot.seq /\ slot'.pending = FALSE
        /\ slot'.inProgress = FALSE /\ slot'.response = slot.seq /\ slot'.responseSeq = slot.seq
    <3> HIDE DEF Revisions, NoRevision
    <3> QED BY <1>1, <1>2, <1>4, <2>1, <2>2 DEF Slots
  <2>4. f \in RequestFrames /\ f.at = "published" /\ f.seq = Top.seq
    BY <1>1 DEF RequestFrames
  <2>5. stack' \in Seq(Frames) /\ RequestOnTop' /\ Top' = f /\ Nested'
    <3> HIDE DEF f
    <3> QED BY <1>1, <2>1, <2>4, ReplacedRequest
  <2>6. Types'
    BY <1>2, <2>3, <2>5 DEF IInv, Types, SharedTypes, GameTypes
  <2>7. InProgressInv' /\ WorkerInv' /\ FrameInv'
    BY <1>2, <2>3, <2>4, <2>5, <1>4 DEF IInv, Rest, InProgressInv, WorkerInv, FrameInv
  <2>8. PendingInv' /\ ResponseInv' /\ ExecutionInv' /\ AnsweredByItself' /\ AcceptedInv'
    BY <1>2, <1>3, <1>4, <2>3 DEF IInv, Rest, PendingInv, ResponseInv, ExecutionInv,
       AnsweredByItself, AcceptedInv
  <2> QED BY <2>5, <2>6, <2>7, <2>8 DEF IInv, Rest
<1>5. CASE Top.seq # slot.seq
  <2>1. slot' = [slot EXCEPT !.inProgress = FALSE] /\ stack' = Tail(stack)
    BY <1>5 DEF Publish
  <2>2. /\ slot' \in Slots /\ slot'.seq = slot.seq /\ slot'.pending = slot.pending
        /\ slot'.inProgress = FALSE /\ slot'.response = slot.response
        /\ slot'.responseSeq = slot.responseSeq
    BY <1>2, <2>1 DEF Slots
  <2>3. stack' \in Seq(Frames) /\ ~RequestOnTop' /\ Nested'
    BY <1>1, <2>1, PoppedRequest
  <2>4. Types'
    BY <1>2, <2>2, <2>3 DEF IInv, Types, SharedTypes, GameTypes
  <2>5. InProgressInv' /\ WorkerInv' /\ FrameInv'
    BY <1>2, <2>2, <2>3 DEF IInv, Rest, InProgressInv, WorkerInv, FrameInv
  <2>6. PendingInv'
    BY <1>2, <1>5, <2>2 DEF IInv, Rest, PendingInv
  <2>7. ResponseInv' /\ ExecutionInv' /\ AnsweredByItself' /\ AcceptedInv'
    BY <1>2, <2>2 DEF IInv, Rest, ResponseInv, ExecutionInv, AnsweredByItself, AcceptedInv
  <2> QED BY <2>3, <2>4, <2>5, <2>6, <2>7 DEF IInv, Rest
<1> QED BY <1>4, <1>5

LEMMA SignalStep ==
  ASSUME IInv, Signal
  PROVE  IInv'
<1>1. /\ RequestOnTop /\ Top.at = "published"
      /\ UNCHANGED << worker, messages, barrier, queued, sent, endTurn, action, generation,
                      engine, client, history >>
      /\ slot \in Slots /\ slot' = [slot EXCEPT !.event = TRUE] /\ stack' = Tail(stack)
  BY DEF Signal, RequestOnTop, actionVars, IInv, Types, SharedTypes
<1>2. /\ slot' \in Slots /\ slot'.seq = slot.seq /\ slot'.pending = slot.pending
      /\ slot'.inProgress = slot.inProgress /\ slot'.response = slot.response
      /\ slot'.responseSeq = slot.responseSeq
  BY <1>1 DEF Slots
<1>3. stack' \in Seq(Frames) /\ ~RequestOnTop' /\ Nested'
  BY <1>1, PoppedRequest
<1>4. Types'
  BY <1>1, <1>2, <1>3 DEF IInv, Types, SharedTypes, GameTypes
<1>5. InProgressInv' /\ WorkerInv' /\ FrameInv' /\ PendingInv'
  BY <1>1, <1>2, <1>3 DEF IInv, Rest, InProgressInv, WorkerInv, FrameInv, PendingInv
<1>6. ResponseInv' /\ ExecutionInv' /\ AnsweredByItself' /\ AcceptedInv'
  BY <1>1, <1>2 DEF IInv, Rest, ResponseInv, ExecutionInv, AnsweredByItself, AcceptedInv
<1> QED BY <1>3, <1>4, <1>5, <1>6 DEF IInv, Rest

-----------------------------------------------------------------------------
(* Executing the taken request.                                            *)

(* Accepting a revision of this generation ends the generation.            *)
LEMMA AcceptedNow ==
  ASSUME Types, AcceptedInv, NEW r \in Revisions, r[1] = generation,
         history'.accepted = Append(history.accepted, r), generation' = generation + 1
  PROVE  AcceptedInv'
<1> DEFINE acc == history.accepted
<1>1. acc \in Seq(Revisions) /\ generation \in Nat
  BY DEF Types, GameTypes, Histories
<1>2. ASSUME NEW i \in 1 .. Len(acc) PROVE acc[i][1] \in Nat
  <2>1. acc[i] \in Revisions
    BY <1>1
  <2> QED BY <2>1 DEF Revisions
<1>3. /\ Len(Append(acc, r)) = Len(acc) + 1 /\ Append(acc, r)[Len(acc) + 1] = r
      /\ Len(acc) \in Nat
      /\ \A i \in 1 .. Len(acc) : Append(acc, r)[i] = acc[i]
  BY <1>1
<1>4. ASSUME NEW i \in 1 .. Len(Append(acc, r))
      PROVE  i = Len(acc) + 1 \/ i \in 1 .. Len(acc)
  BY <1>3
<1>5. ASSUME NEW i \in 1 .. Len(Append(acc, r)) PROVE Append(acc, r)[i][1] < generation + 1
  BY <1>1, <1>2, <1>3, <1>4 DEF AcceptedInv
<1>6. ASSUME NEW i \in 1 .. Len(Append(acc, r)), NEW j \in 1 .. Len(Append(acc, r)), i < j
      PROVE  Append(acc, r)[i][1] < Append(acc, r)[j][1]
  <2>1. i \in 1 .. Len(acc)
    BY <1>3, <1>6
  <2>2. CASE j \in 1 .. Len(acc)
    BY <1>3, <1>6, <2>1, <2>2 DEF AcceptedInv
  <2>3. CASE j = Len(acc) + 1
    BY <1>3, <2>1, <2>3 DEF AcceptedInv
  <2> QED BY <1>4, <2>2, <2>3
<1> QED BY <1>5, <1>6 DEF AcceptedInv

(* The execution of the innermost request, refused, read or accepted.      *)
LEMMA ExecuteStep ==
  ASSUME IInv, RequestOnTop, Top.at = "taken",
         NEW revision \in Revisions \cup {NoRevision}, Return(revision),
         UNCHANGED << slot, worker, client >>,
         messages' \in Seq({"request", "deferred"}), GameTypes',
         history'.executed = Executed(Top.seq),
         action'.id \in {action.id, action.id + 1}, AcceptedInv'
  PROVE  IInv'
<1> DEFINE f == [Top EXCEPT !.at = "executed", !.revision = revision]
           done == history.executed
<1>1. /\ Top \in RequestFrames /\ Top.seq \in Requests /\ Top.seq \in Nat
      /\ done \in [Requests -> Nat] /\ action.id \in Nat /\ slot.seq \in Nat
      /\ slot.responseSeq \in Nat
  BY RequestFrame DEF IInv, Types, SharedTypes, Slots, GameTypes, Histories, Receipts
<1>2. f \in RequestFrames /\ f.at = "executed" /\ f.seq = Top.seq
  BY <1>1 DEF RequestFrames
<1>3. stack' \in Seq(Frames) /\ RequestOnTop' /\ Top' = f /\ Nested'
  <2>1. stack' = << f >> \o Tail(stack)
    BY DEF Return
  <2> HIDE DEF f
  <2> QED BY <1>2, <2>1, ReplacedRequest
<1>4. Top.seq <= slot.seq /\ done[Top.seq] = 0 /\ action.id < Top.seq
  BY DEF IInv, Rest, FrameInv
<1>5. /\ history'.executed[Top.seq] = 1
      /\ \A n \in Requests : n # Top.seq => history'.executed[n] = done[n]
  BY <1>1, <1>4 DEF Executed
<1>6. Types'
  BY <1>3 DEF IInv, Types, SharedTypes
<1>7. InProgressInv' /\ WorkerInv' /\ FrameInv'
  BY <1>2, <1>3, <1>4, <1>5 DEF IInv, Rest, InProgressInv, WorkerInv, FrameInv
<1>8. action'.id <= Top.seq
  BY <1>1, <1>4
<1>9. PendingInv'
  <2> SUFFICES ASSUME slot.pending PROVE PendingInv!2'
    BY DEF PendingInv
  <2>1. slot.seq \in Requests
    BY DEF IInv, Rest, PendingInv
  <2>2. CASE Top.seq = slot.seq
    BY <1>2, <1>3, <2>1, <2>2
  <2>3. CASE Top.seq # slot.seq
    <3>1. done[slot.seq] = 0
      BY DEF IInv, Rest, PendingInv
    <3>2. Top.seq < slot.seq /\ action'.id \in Nat
      BY <1>1, <1>4, <2>3
    <3> QED BY <1>1, <1>5, <1>8, <2>1, <2>3, <3>1, <3>2
  <2> QED BY <2>2, <2>3
<1>10. ResponseInv'
  BY <1>1, <1>4, <1>5, <1>8 DEF IInv, Rest, ResponseInv
<1>11. ExecutionInv' /\ AnsweredByItself'
  BY <1>1, <1>4, <1>5 DEF IInv, Rest, ExecutionInv, AnsweredByItself
<1> QED BY <1>3, <1>6, <1>7, <1>9, <1>10, <1>11 DEF IInv, Rest

(* The types of what the actions read and write.                           *)
LEMMA Typed ==
  ASSUME IInv
  PROVE  /\ action \in Receipts /\ action.id \in Nat /\ endTurn \in Timers /\ engine \in Engines
         /\ generation \in Nat /\ queued \in SUBSET Kinds /\ history \in Histories
         /\ history.executed \in [Requests -> Nat]
         /\ history.outcome \in [Requests -> {"none", "completed", "rejected"}]
         /\ history.owner \in [AnyKind -> Nat] /\ history.accepted \in Seq(Revisions)
         /\ barrier \in BOOLEAN /\ sent \in BOOLEAN
         /\ messages \in Seq({"request", "deferred"}) /\ stack \in Seq(Frames)
BY DEF IInv, Types, SharedTypes, GameTypes, Receipts, Histories

LEMMA RevisionType ==
  ASSUME IInv
  PROVE  Revision \in Revisions /\ Revision[1] = generation
<1>1. engine.turn \in Nat /\ engine.mine \in BOOLEAN /\ engine.modal \in BOOLEAN
  BY Typed DEF Engines
<1> QED BY <1>1, Typed DEF Revision, Revisions

(* Refreshing the end turn settles the receipt, and keeps its identifier.  *)
LEMMA Refreshing ==
  ASSUME IInv
  PROVE  /\ RefreshedAction \in Receipts /\ RefreshedAction.id = action.id
         /\ RefreshedEndTurn \in Timers
<1>1. [action EXCEPT !.status = "completed"] \in Receipts
      /\ [action EXCEPT !.status = "completed"].id = action.id
  BY Typed DEF Receipts, Statuses
<1>2. [action EXCEPT !.status = "rejected"] \in Receipts
      /\ [action EXCEPT !.status = "rejected"].id = action.id
  BY Typed DEF Receipts, Statuses
<1>3. RefreshedAction \in Receipts /\ RefreshedAction.id = action.id
  BY <1>1, <1>2, Typed DEF RefreshedAction
<1>4. RefreshedEndTurn \in Timers
  BY Typed DEF RefreshedEndTurn, Timers
<1> QED BY <1>3, <1>4

(* Counting the execution keeps the types, whatever the request is.        *)
LEMMA ExecutedType ==
  ASSUME IInv, NEW n \in Requests
  PROVE  Executed(n) \in [Requests -> Nat]
BY Typed DEF Executed

LEMMA TakenTop ==
  ASSUME IInv, NEW op, TakenRequest(op)
  PROVE  RequestOnTop /\ Top.at = "taken" /\ Top.seq \in Requests
BY RequestFrame DEF TakenRequest, RequestOnTop

(* The history of an accepted command.                                     *)
LEMMA AcceptedHistoryType ==
  ASSUME IInv, NEW kind \in AnyKind, RequestOnTop, Top.seen = Revision, AcceptedHistory(kind)
  PROVE  /\ history' \in Histories /\ history'.executed = Executed(Top.seq)
         /\ history'.accepted = Append(history.accepted, Revision)
<1> DEFINE done == Executed(Top.seq)
           owner == [history.owner EXCEPT ![kind] = action.id + 1]
           accepted == Append(history.accepted, Revision)
<1>1. done \in [Requests -> Nat]
  BY ExecutedType, RequestFrame
<1>2. owner \in [AnyKind -> Nat]
  BY Typed
<1>3. accepted \in Seq(Revisions)
  BY Typed, RevisionType
<1>4. history' = [history EXCEPT !.executed = done, !.accepted = accepted, !.owner = owner]
  BY DEF AcceptedHistory
<1> HIDE DEF done, owner, accepted
<1>5. history' \in Histories /\ history'.executed = done /\ history'.accepted = accepted
  BY <1>1, <1>2, <1>3, <1>4, Typed DEF Histories
<1> QED BY <1>5 DEF done, accepted

LEMMA RefuseStep ==
  ASSUME IInv, NEW op \in Commands, Refuse(op)
  PROVE  IInv'
<1>1. RequestOnTop /\ Top.at = "taken" /\ Top.seq \in Requests
  BY TakenTop DEF Refuse
<1>2. /\ Return(NoRevision) /\ NoRevision \in Revisions \cup {NoRevision}
      /\ UNCHANGED << slot, worker, client, messages, barrier, queued, sent, generation, engine >>
  BY DEF Refuse, NoRevision, slotVars
<1>3. action' \in Receipts /\ action'.id = action.id /\ endTurn' \in Timers
  BY Refreshing, Typed DEF Refuse, Refresh
<1>4. /\ history' \in Histories /\ history'.executed = Executed(Top.seq)
      /\ history'.accepted = history.accepted
  <2>1. Executed(Top.seq) \in [Requests -> Nat]
    BY <1>1, ExecutedType
  <2> QED BY <2>1, Typed DEF Refuse, Histories
<1>5. AcceptedInv'
  BY <1>2, <1>4, AcceptedLater, Typed DEF IInv, Rest
<1>6. GameTypes' /\ messages' \in Seq({"request", "deferred"})
  BY <1>2, <1>3, <1>4, Typed DEF GameTypes
<1> QED BY <1>1, <1>2, <1>3, <1>4, <1>5, <1>6, ExecuteStep

LEMMA ReadStep ==
  ASSUME IInv, NEW op \in Ops \cap Reads, NEW verdict \in Verdicts, Read(op, verdict)
  PROVE  IInv'
<1>1. RequestOnTop /\ Top.at = "taken" /\ Top.seq \in Requests
  BY TakenTop DEF Read
<1>2. /\ UNCHANGED << slot, worker, client, messages, barrier, engine >>
      /\ endTurn' \in Timers
  BY Refreshing DEF Read, slotVars
<1>3. /\ action' \in Receipts /\ action'.id = action.id
      /\ generation' \in Nat /\ generation' >= generation
      /\ queued' \in SUBSET Kinds /\ sent' \in BOOLEAN
  <2>1. CASE verdict = "none"
    BY <2>1, Refreshing, Typed DEF Read, SettleDevelopment
  <2>2. CASE verdict # "none"
    <3>1. /\ action' = [RefreshedAction EXCEPT !.status = verdict]
          /\ queued' = queued \ {"development"} /\ sent' = FALSE
          /\ generation' = generation + 1
      BY <2>2 DEF Read, SettleDevelopment
    <3>2. verdict \in Statuses
      BY DEF Verdicts, Statuses
    <3> DEFINE r == RefreshedAction
    <3>3. r \in Receipts /\ r.id = action.id
      BY Refreshing
    <3>4. action' \in Receipts /\ action'.id = action.id
      <4>1. action' = [r EXCEPT !.status = verdict]
        BY <3>1
      <4> HIDE DEF r
      <4>2. [r EXCEPT !.status = verdict] \in Receipts
            /\ [r EXCEPT !.status = verdict].id = r.id
        BY <3>2, <3>3 DEF Receipts
      <4> QED BY <3>3, <4>1, <4>2
    <3>5. generation' \in Nat /\ generation' >= generation
      <4>1. generation' = generation + 1 /\ generation \in Nat
        BY <3>1, Typed
      <4> QED BY <4>1
    <3>6. queued' \in SUBSET Kinds /\ sent' \in BOOLEAN
      <4>1. queued' = queued \ {"development"} /\ sent' = FALSE /\ queued \in SUBSET Kinds
        BY <3>1, Typed
      <4> QED BY <4>1
    <3> QED BY <3>4, <3>5, <3>6
  <2> QED BY <2>1, <2>2
<1>4. /\ history' \in Histories /\ history'.executed = Executed(Top.seq)
      /\ history'.accepted = history.accepted
  <2>1. Executed(Top.seq) \in [Requests -> Nat]
    BY <1>1, ExecutedType
  <2>2. CASE verdict = "none"
    <3>1. history' = [history EXCEPT !.executed = Executed(Top.seq)]
      BY <2>2 DEF Read, SettleDevelopment
    <3> QED BY <2>1, <3>1, Typed DEF Histories
  <2>3. CASE verdict # "none"
    <3> DEFINE outcome == [history.outcome EXCEPT ![history.owner["development"]] = verdict]
    <3>1. outcome \in [Requests -> {"none", "completed", "rejected"}]
      BY Typed DEF Verdicts
    <3>2. history' = [history EXCEPT !.executed = Executed(Top.seq), !.outcome = outcome]
      BY <2>3 DEF Read, SettleDevelopment
    <3> HIDE DEF outcome
    <3> QED BY <2>1, <3>1, <3>2, Typed DEF Histories
  <2> QED BY <2>2, <2>3
<1>5. AcceptedInv'
  BY <1>3, <1>4, AcceptedLater DEF IInv, Rest
<1>6. GameTypes' /\ messages' \in Seq({"request", "deferred"})
  BY <1>2, <1>3, <1>4, Typed DEF GameTypes
<1>7. Revision' \in Revisions
  <2>1. engine'.turn \in Nat /\ engine'.mine \in BOOLEAN /\ engine'.modal \in BOOLEAN
    BY <1>2, Typed DEF Engines
  <2> QED BY <1>3, <2>1 DEF Revision, Revisions
<1> DEFINE revision == IF op = "observe" THEN Revision' ELSE << >>
<1>8. Return(revision) /\ revision \in Revisions \cup {NoRevision}
  BY <1>7 DEF Read, NoRevision
<1> HIDE DEF revision
<1> QED BY <1>1, <1>2, <1>3, <1>4, <1>5, <1>6, <1>8, ExecuteStep

LEMMA AcceptStep ==
  ASSUME IInv, NEW op \in Commands, Accept(op), NEW kind \in AnyKind, AcceptedHistory(kind),
         UNCHANGED << slot, worker, client, barrier, sent, engine >>,
         messages' \in Seq({"request", "deferred"}), queued' \in SUBSET Kinds,
         endTurn' \in Timers, action' \in Receipts, action'.id = action.id + 1
  PROVE  IInv'
<1>1. /\ RequestOnTop /\ Top.at = "taken" /\ Top.seen = Revision /\ Return(NoRevision)
      /\ generation' = generation + 1 /\ NoRevision \in Revisions \cup {NoRevision}
  BY TakenTop DEF Accept, Acceptable, NoRevision
<1>2. /\ history' \in Histories /\ history'.executed = Executed(Top.seq)
      /\ history'.accepted = Append(history.accepted, Revision)
  BY <1>1, AcceptedHistoryType
<1>3. AcceptedInv'
  BY <1>1, <1>2, AcceptedNow, RevisionType DEF IInv, Rest
<1>4. GameTypes'
  <2>1. generation' \in Nat /\ barrier \in BOOLEAN /\ sent \in BOOLEAN /\ engine \in Engines
    BY <1>1, Typed
  <2> QED BY <1>2, <2>1 DEF GameTypes
<1> QED BY <1>1, <1>2, <1>3, <1>4, ExecuteStep

LEMMA QueueActionStep ==
  ASSUME IInv, NEW kind \in Kinds, QueueAction(kind)
  PROVE  IInv'
<1>1. /\ Accept(kind) /\ AcceptedHistory(kind) /\ endTurn' \in Timers
      /\ UNCHANGED << slot, worker, client, barrier, sent, engine >>
      /\ messages' = Append(messages, "deferred") /\ queued' = queued \cup {kind}
      /\ action' = [id |-> action.id + 1, kind |-> kind, status |-> "pending"]
  BY Refreshing DEF QueueAction, slotVars, Post, Begin
<1>2. kind \in AnyKind /\ kind \in Commands
  BY DEF AnyKind, Kinds, Commands, Reads, Polls, HandlerOrder, ToSet
<1>3. messages' \in Seq({"request", "deferred"}) /\ queued' \in SUBSET Kinds
  BY <1>1, Typed
<1>4. action' \in Receipts /\ action'.id = action.id + 1
  BY <1>1, <1>2, Typed DEF Receipts, Statuses
<1> QED BY <1>1, <1>2, <1>3, <1>4, AcceptStep

LEMMA QueueEndTurnStep ==
  ASSUME IInv, "end_turn" \in Ops, QueueEndTurn
  PROVE  IInv'
<1>1. /\ Accept("end_turn") /\ AcceptedHistory("end_turn")
      /\ UNCHANGED << slot, worker, client, barrier, sent, engine, messages, queued >>
      /\ endTurn' = [pending |-> TRUE, source |-> engine.turn, returned |-> FALSE, timer |-> TRUE]
      /\ action' = [id |-> action.id + 1, kind |-> "end_turn", status |-> "pending"]
  BY DEF QueueEndTurn, slotVars, Begin
<1>2. "end_turn" \in AnyKind /\ "end_turn" \in Commands
  BY DEF AnyKind, Commands, Reads, Polls
<1>3. messages' \in Seq({"request", "deferred"}) /\ queued' \in SUBSET Kinds
  BY <1>1, Typed
<1>4. action' \in Receipts /\ action'.id = action.id + 1
  BY <1>1, <1>2, Typed DEF Receipts, Statuses
<1>5. endTurn' \in Timers
  <2>1. engine.turn \in Nat BY Typed DEF Engines
  <2> QED BY <1>1, <2>1 DEF Timers
<1> QED BY <1>1, <1>2, <1>3, <1>4, <1>5, AcceptStep

LEMMA RespondStep ==
  ASSUME IInv, Respond
  PROVE  IInv'
<1>1. /\ RequestOnTop /\ Top.at = "taken" /\ Top.seen = Revision /\ Return(NoRevision)
      /\ generation' = generation + 1 /\ NoRevision \in Revisions \cup {NoRevision}
      /\ Top.seq \in Requests
      /\ UNCHANGED << slot, worker, client, messages, barrier, queued, sent >>
  BY TakenTop DEF Respond, Accept, Acceptable, NoRevision, slotVars
<1>2. action' \in Receipts /\ action'.id = action.id /\ endTurn' \in Timers
  BY Refreshing DEF Respond, Refresh
<1>3. engine' \in Engines
  BY Typed DEF Respond, Engines
<1>4. /\ history' \in Histories /\ history'.executed = Executed(Top.seq)
      /\ history'.accepted = Append(history.accepted, Revision)
  <2> DEFINE accepted == Append(history.accepted, Revision)
  <2>1. accepted \in Seq(Revisions)
    BY Typed, RevisionType
  <2>2. Executed(Top.seq) \in [Requests -> Nat]
    BY <1>1, ExecutedType
  <2>3. history' = [history EXCEPT !.executed = Executed(Top.seq), !.accepted = accepted]
    BY <1>1 DEF Respond
  <2>4. history' \in Histories /\ history'.executed = Executed(Top.seq)
        /\ history'.accepted = accepted
    <3> HIDE DEF accepted
    <3> QED BY <2>1, <2>2, <2>3, Typed DEF Histories
  <2> QED BY <2>4
<1>5. AcceptedInv'
  BY <1>1, <1>4, AcceptedNow, RevisionType DEF IInv, Rest
<1>6. GameTypes' /\ messages' \in Seq({"request", "deferred"})
  <2>1. /\ generation' \in Nat /\ barrier \in BOOLEAN /\ sent \in BOOLEAN
        /\ queued \in SUBSET Kinds /\ messages \in Seq({"request", "deferred"})
    BY <1>1, Typed
  <2> QED BY <1>1, <1>2, <1>3, <1>4, <2>1 DEF GameTypes
<1> QED BY <1>1, <1>2, <1>4, <1>5, <1>6, ExecuteStep

-----------------------------------------------------------------------------
(* The deferred message, the timer, the native calls and the engine.       *)

(* The handler chooses one of the queued kinds.                            *)
LEMMA ChosenQueued ==
  ASSUME IInv, queued # {}
  PROVE  Chosen \in queued /\ Chosen \in Kinds /\ Chosen \in AnyKind
<1> DEFINE first(i) == /\ HandlerOrder[i] \in queued
                       /\ \A j \in 1 .. (i - 1) : HandlerOrder[j] \notin queued
           S == {i \in 1 .. 10 : HandlerOrder[i] \in queued}
<1>1. DOMAIN HandlerOrder = 1 .. 10 /\ queued \subseteq Kinds
  BY Typed DEF HandlerOrder
<1>2. S # {}
  <2>1. PICK k \in queued : k \in ToSet(HandlerOrder)
    BY <1>1 DEF Kinds
  <2>2. PICK i \in 1 .. 10 : HandlerOrder[i] = k
    BY <1>1, <2>1 DEF ToSet
  <2> QED BY <2>1, <2>2
<1>3. PICK i \in S : \A j \in S : i <= j
  BY <1>2
<1>4. i \in DOMAIN HandlerOrder /\ first(i)
  BY <1>1, <1>3
<1>5. first(CHOOSE k \in DOMAIN HandlerOrder : first(k))
  BY <1>4
<1>6. Chosen \in queued
  BY <1>5 DEF Chosen
<1> QED BY <1>1, <1>6 DEF AnyKind

LEMMA Settling ==
  ASSUME IInv, NEW id, NEW status \in {"completed", "rejected"}, Settle(id, status)
  PROVE  /\ history' \in Histories /\ history'.executed = history.executed
         /\ history'.accepted = history.accepted
<1> DEFINE outcome == [history.outcome EXCEPT ![id] = status]
<1>1. outcome \in [Requests -> {"none", "completed", "rejected"}]
  BY Typed
<1>2. history' = [history EXCEPT !.outcome = outcome]
  BY DEF Settle
<1> HIDE DEF outcome
<1> QED BY <1>1, <1>2, Typed DEF Histories

LEMMA Marking ==
  ASSUME IInv, NEW status \in Statuses
  PROVE  [action EXCEPT !.status = status] \in Receipts
         /\ [action EXCEPT !.status = status].id = action.id
BY Typed DEF Receipts

(* A native step: the slot, the client and what was executed stay.         *)
LEMMA NativeStep ==
  ASSUME IInv, UNCHANGED << slot, worker, client >>,
         history' \in Histories, history'.executed = history.executed,
         history'.accepted = history.accepted,
         action' \in Receipts, action'.id = action.id,
         generation' \in {generation, generation + 1},
         stack' = stack \/ (stack' \in Seq(Frames) /\ AllNative(stack) /\ AllNative(stack')),
         messages' \in Seq({"request", "deferred"}), barrier' \in BOOLEAN, sent' \in BOOLEAN,
         queued' \in SUBSET Kinds, endTurn' \in Timers, engine' \in Engines
  PROVE  IInv'
<1>1. generation' \in Nat /\ generation' >= generation
  BY Typed
<1>2. Unnoticed /\ SameFrames /\ GameTypes'
  BY <1>1 DEF Unnoticed, SameFrames, GameTypes
<1>3. stack' \in Seq(Frames)
  BY Typed
<1> QED BY <1>2, <1>3, UnnoticedKept

LEMMA RejectBeforeCallStep ==
  ASSUME IInv, RejectBeforeCall
  PROVE  IInv'
<1>1. /\ UNCHANGED << slot, worker, client, stack, sent, endTurn, engine >>
      /\ Settle(history.owner[Chosen], "rejected")
      /\ action' = [action EXCEPT !.status = "rejected"]
      /\ generation' \in {generation, generation + 1}
      /\ queued' = queued \ {Chosen} /\ barrier' \in {barrier, FALSE}
      /\ messages # << >>
      /\ messages' = Tail(messages) \/ messages' = Append(Tail(messages), "request")
  BY DEF RejectBeforeCall, slotVars, DeferredMessage
<1>2. messages' \in Seq({"request", "deferred"})
  <2>1. Tail(messages) \in Seq({"request", "deferred"})
    BY <1>1, SpentMessage, Typed
  <2>2. Append(Tail(messages), "request") \in Seq({"request", "deferred"})
    BY <2>1
  <2> QED BY <1>1, <2>1, <2>2
<1>3. action' \in Receipts /\ action'.id = action.id
  BY <1>1, Marking DEF Statuses
<1>4. history' \in Histories /\ history'.executed = history.executed
      /\ history'.accepted = history.accepted
  BY <1>1, Settling
<1>5. queued' \in SUBSET Kinds /\ barrier' \in BOOLEAN
  BY <1>1, Typed
<1> QED BY <1>1, <1>2, <1>3, <1>4, <1>5, NativeStep, Typed

LEMMA SpentDeferredMessageStep ==
  ASSUME IInv, SpentDeferredMessage
  PROVE  IInv'
<1>1. /\ UNCHANGED << slot, worker, client, stack, barrier, queued, sent, endTurn, generation,
                      engine, history >>
      /\ action' = [action EXCEPT !.status = "rejected"]
      /\ messages # << >> /\ messages' = Tail(messages)
  BY DEF SpentDeferredMessage, slotVars, DeferredMessage
<1>2. messages' \in Seq({"request", "deferred"})
  BY <1>1, SpentMessage, Typed
<1>3. action' \in Receipts /\ action'.id = action.id
  BY <1>1, Marking DEF Statuses
<1> QED BY <1>1, <1>2, <1>3, NativeStep, Typed

(* A native call is entered on top of native calls.                        *)
LEMMA PushedNative ==
  ASSUME IInv, Pumping, NEW kind \in AnyKind, NEW id \in Nat,
         stack' = << Native(kind, id) >> \o stack
  PROVE  stack' \in Seq(Frames) /\ AllNative(stack) /\ AllNative(stack')
<1> DEFINE f == Native(kind, id)
<1>1. AllNative(stack)
  BY PumpingIsNative
<1>2. f \in Frames /\ f.what = "native"
  BY DEF Native, Frames, NativeFrames
<1>3. /\ stack' \in Seq(Frames) /\ Head(stack') = f /\ Len(stack') = Len(stack) + 1
      /\ \A i \in 2 .. Len(stack') : stack'[i] = stack[i - 1]
  <2>1. stack \in Seq(Frames) /\ stack' = << f >> \o stack
    BY Typed
  <2> HIDE DEF f
  <2> QED BY <1>2, <2>1, PushedFrame
<1>4. AllNative(stack')
  <2> SUFFICES ASSUME NEW i \in 1 .. Len(stack') PROVE stack'[i].what = "native"
    BY DEF AllNative
  <2>1. CASE i = 1
    BY <1>2, <1>3, <2>1
  <2>2. CASE i # 1
    <3>1. i \in 2 .. Len(stack') /\ i - 1 \in 1 .. Len(stack)
      BY <1>3, <2>2, Typed
    <3> QED BY <1>1, <1>3, <3>1 DEF AllNative
  <2> QED BY <2>1, <2>2
<1> QED BY <1>1, <1>3, <1>4

(* A native call is left.                                                  *)
LEMMA PoppedNative ==
  ASSUME IInv, NEW kind, Running(kind), stack' = Tail(stack)
  PROVE  stack' \in Seq(Frames) /\ AllNative(stack) /\ AllNative(stack')
<1>1. stack # << >> /\ ~RequestOnTop /\ stack \in Seq(Frames)
  BY Typed DEF Running, RequestOnTop
<1>2. AllNative(stack)
  BY <1>1, NativeTop DEF IInv, Rest
<1>3. /\ stack' \in Seq(Frames) /\ Len(stack') = Len(stack) - 1
      /\ \A i \in 1 .. Len(stack') : stack'[i] = stack[i + 1]
  BY <1>1, PoppedFrame
<1>4. AllNative(stack')
  <2> SUFFICES ASSUME NEW i \in 1 .. Len(stack') PROVE stack'[i].what = "native"
    BY DEF AllNative
  <2>1. i + 1 \in 1 .. Len(stack)
    BY <1>1, <1>3
  <2> QED BY <1>2, <1>3, <2>1 DEF AllNative
<1> QED BY <1>2, <1>3, <1>4

LEMMA StartCallStep ==
  ASSUME IInv, StartCall
  PROVE  IInv'
<1>1. /\ UNCHANGED << slot, worker, client, endTurn, action, generation, engine, history >>
      /\ Pumping /\ queued # {} /\ messages # << >> /\ messages' = Tail(messages)
      /\ stack' = << Native(Chosen, history.owner[Chosen]) >> \o stack
      /\ queued' \in {queued, queued \ {Chosen}}
      /\ barrier' = (barrier \/ Chosen \in Barred) /\ sent' = (sent \/ Chosen = "development")
  BY DEF StartCall, slotVars, DeferredMessage
<1>2. messages' \in Seq({"request", "deferred"})
  BY <1>1, SpentMessage, Typed
<1>3. Chosen \in AnyKind /\ history.owner[Chosen] \in Nat
  BY <1>1, ChosenQueued, Typed
<1>4. stack' \in Seq(Frames) /\ AllNative(stack) /\ AllNative(stack')
  BY <1>1, <1>3, PushedNative
<1>5. queued' \in SUBSET Kinds /\ barrier' \in BOOLEAN /\ sent' \in BOOLEAN
  BY <1>1, Typed
<1> QED BY <1>1, <1>2, <1>4, <1>5, NativeStep, Typed

(* What leaving a native call does to the barrier and the messages.        *)
LEMMA Unstacking ==
  ASSUME IInv, Unstack
  PROVE  /\ stack' = Tail(stack) /\ messages' \in Seq({"request", "deferred"})
         /\ barrier' \in BOOLEAN
<1>1. stack' = Tail(stack) /\ messages' \in {messages, Append(messages, "request")}
      /\ barrier' \in {FALSE, barrier}
  BY DEF Unstack, Post
<1>2. messages \in Seq({"request", "deferred"}) /\ barrier \in BOOLEAN
  BY Typed
<1>3. Append(messages, "request") \in Seq({"request", "deferred"})
  BY <1>2
<1> QED BY <1>1, <1>2, <1>3

LEMMA ReturnFromCallStep ==
  ASSUME IInv, NEW kind \in Kinds, NEW status \in {"completed", "rejected"},
         ReturnFromCall(kind, status)
  PROVE  IInv'
<1>1. /\ UNCHANGED << slot, worker, client, endTurn, engine >>
      /\ Running(kind) /\ Unstack /\ Settle(Top.id, status)
      /\ action' = [action EXCEPT !.status = status]
      /\ generation' \in {generation, generation + 1}
      /\ queued' \in {queued, queued \ {kind}} /\ sent' = (sent /\ kind # "development")
  BY DEF ReturnFromCall, slotVars
<1>2. stack' = Tail(stack) /\ messages' \in Seq({"request", "deferred"}) /\ barrier' \in BOOLEAN
  BY <1>1, Unstacking
<1>3. stack' \in Seq(Frames) /\ AllNative(stack) /\ AllNative(stack')
  BY <1>1, <1>2, PoppedNative
<1>4. action' \in Receipts /\ action'.id = action.id
  BY <1>1, Marking DEF Statuses
<1>5. history' \in Histories /\ history'.executed = history.executed
      /\ history'.accepted = history.accepted
  BY <1>1, Settling
<1>6. queued' \in SUBSET Kinds /\ sent' \in BOOLEAN
  BY <1>1, Typed
<1> QED BY <1>1, <1>2, <1>3, <1>4, <1>5, <1>6, NativeStep, Typed

LEMMA DevelopmentSentStep ==
  ASSUME IInv, DevelopmentSent
  PROVE  IInv'
<1>1. /\ UNCHANGED << slot, worker, client, queued, sent, endTurn, action, generation, engine,
                      history >>
      /\ Running("development") /\ Unstack
  BY DEF DevelopmentSent, slotVars
<1>2. stack' = Tail(stack) /\ messages' \in Seq({"request", "deferred"}) /\ barrier' \in BOOLEAN
  BY <1>1, Unstacking
<1>3. stack' \in Seq(Frames) /\ AllNative(stack) /\ AllNative(stack')
  BY <1>1, <1>2, PoppedNative
<1> QED BY <1>1, <1>2, <1>3, NativeStep, Typed

LEMMA EndTurnTimerStep ==
  ASSUME IInv, EndTurnTimer
  PROVE  IInv'
<1>1. /\ UNCHANGED << slot, worker, client, messages, barrier, queued, sent, generation, engine >>
      /\ Pumping
  BY DEF EndTurnTimer, slotVars
<1>2. endTurn' \in Timers
  <2>1. endTurn' \in {[endTurn EXCEPT !.timer = FALSE],
                     [endTurn EXCEPT !.timer = FALSE, !.pending = FALSE]}
    BY DEF EndTurnTimer
  <2>2. endTurn \in Timers
    BY Typed
  <2> QED BY <2>1, <2>2 DEF Timers
<1>3. CASE endTurn.pending /\ endTurn.source = engine.turn /\ Actionable
  <2>1. /\ stack' = << Native("end_turn", history.owner["end_turn"]) >> \o stack
        /\ UNCHANGED << action, history >>
    BY <1>3 DEF EndTurnTimer
  <2>2. "end_turn" \in AnyKind /\ history.owner["end_turn"] \in Nat
    BY Typed DEF AnyKind
  <2>3. stack' \in Seq(Frames) /\ AllNative(stack) /\ AllNative(stack')
    BY <1>1, <2>1, <2>2, PushedNative
  <2> QED BY <1>1, <1>2, <2>1, <2>3, NativeStep, Typed
<1>4. CASE ~(endTurn.pending /\ endTurn.source = engine.turn /\ Actionable)
  <2>1. /\ action' = [action EXCEPT !.status = "rejected"] /\ stack' = stack
        /\ Settle(history.owner["end_turn"], "rejected")
    BY <1>4 DEF EndTurnTimer
  <2>2. action' \in Receipts /\ action'.id = action.id
    BY <2>1, Marking DEF Statuses
  <2>3. history' \in Histories /\ history'.executed = history.executed
        /\ history'.accepted = history.accepted
    BY <2>1, Settling
  <2> QED BY <1>1, <1>2, <2>1, <2>2, <2>3, NativeStep, Typed
<1> QED BY <1>3, <1>4

LEMMA ReturnFromEndTurnStep ==
  ASSUME IInv, ReturnFromEndTurn
  PROVE  IInv'
<1>1. /\ UNCHANGED << slot, worker, client, messages, barrier, queued, sent, generation, engine >>
      /\ Running("end_turn") /\ stack' = Tail(stack)
  BY DEF ReturnFromEndTurn, slotVars
<1>2. stack' \in Seq(Frames) /\ AllNative(stack) /\ AllNative(stack')
  BY <1>1, PoppedNative
<1>3. endTurn' \in Timers
  BY Typed DEF ReturnFromEndTurn, Timers
<1>4. action' \in Receipts /\ action'.id = action.id
  <2>1. action' \in {action, [action EXCEPT !.status = "rejected"],
                     [action EXCEPT !.status = "completed"]}
    BY DEF ReturnFromEndTurn
  <2> QED BY <2>1, Marking, Typed DEF Statuses
<1>5. history' \in Histories /\ history'.executed = history.executed
      /\ history'.accepted = history.accepted
  <2>1. Settle(Top.id, "rejected") \/ UNCHANGED history
    BY DEF ReturnFromEndTurn
  <2> QED BY <2>1, Settling, Typed
<1> QED BY <1>1, <1>2, <1>3, <1>4, <1>5, NativeStep, Typed

(* Replacing a native top frame by a native one leaves native frames only. *)
LEMMA ReplacedTop ==
  ASSUME NEW s \in Seq(Frames), s # << >>, AllNative(s), NEW f \in Frames, f.what = "native",
         NEW t, t = << f >> \o Tail(s)
  PROVE  t \in Seq(Frames) /\ AllNative(t)
<1>1. /\ t \in Seq(Frames) /\ Head(t) = f /\ Len(t) = Len(s) /\ t # << >>
      /\ \A i \in 2 .. Len(t) : t[i] = s[i]
  BY ReplacedFrame
<1>2. Head(t) = t[1]
  BY <1>1, PoppedFrame
<1> SUFFICES ASSUME NEW i \in 1 .. Len(t) PROVE t[i].what = "native"
  BY <1>1 DEF AllNative
<1>3. CASE i = 1
  BY <1>1, <1>2, <1>3
<1>4. CASE i # 1
  <2>1. i \in 2 .. Len(t) /\ i \in 1 .. Len(s)
    BY <1>1, <1>4
  <2> QED BY <1>1, <2>1 DEF AllNative
<1> QED BY <1>3, <1>4

(* A native frame that opens or leaves its dialog is replaced by itself.   *)
LEMMA ReplacedNative ==
  ASSUME IInv, Inside, NEW at \in {"running", "dialog"},
         stack' = << [Top EXCEPT !.at = at] >> \o Tail(stack)
  PROVE  stack' \in Seq(Frames) /\ AllNative(stack) /\ AllNative(stack')
<1>1. stack # << >> /\ ~RequestOnTop /\ stack \in Seq(Frames) /\ Top.what = "native"
  BY Typed DEF Inside, RequestOnTop
<1>2. AllNative(stack)
  BY <1>1, NativeTop DEF IInv, Rest
<1>3. Top \in NativeFrames
  BY <1>1, PoppedFrame DEF Top, Frames, RequestFrames, NativeFrames
<1>4. [Top EXCEPT !.at = at] \in Frames /\ [Top EXCEPT !.at = at].what = "native"
  BY <1>3 DEF Frames, NativeFrames
<1> DEFINE f == [Top EXCEPT !.at = at]
<1>5. f \in Frames /\ f.what = "native" /\ stack' = << f >> \o Tail(stack)
  BY <1>4
<1> HIDE DEF f
<1> QED BY <1>1, <1>2, <1>5, ReplacedTop

LEMMA OpenDialogStep ==
  ASSUME IInv, OpenDialog
  PROVE  IInv'
<1>1. /\ UNCHANGED << slot, worker, client, messages, barrier, queued, sent, endTurn, action,
                      generation, history >>
      /\ Inside /\ stack' = << [Top EXCEPT !.at = "dialog"] >> \o Tail(stack)
  BY DEF OpenDialog, slotVars, actionVars
<1>2. engine' \in Engines
  <2>1. engine \in Engines /\ engine.dialogs + 1 \in Nat
    BY Typed DEF Engines
  <2> QED BY <2>1 DEF OpenDialog, Engines
<1>3. stack' \in Seq(Frames) /\ AllNative(stack) /\ AllNative(stack')
  BY <1>1, ReplacedNative
<1> QED BY <1>1, <1>2, <1>3, NativeStep, Typed

LEMMA LeaveDialogStep ==
  ASSUME IInv, LeaveDialog
  PROVE  IInv'
<1>1. /\ UNCHANGED << slot, worker, client, messages, barrier, queued, sent, endTurn, action,
                      generation, engine, history >>
      /\ Inside /\ stack' = << [Top EXCEPT !.at = "running"] >> \o Tail(stack)
  BY DEF LeaveDialog, slotVars, actionVars
<1>2. stack' \in Seq(Frames) /\ AllNative(stack) /\ AllNative(stack')
  BY <1>1, ReplacedNative
<1> QED BY <1>1, <1>2, NativeStep, Typed

LEMMA CommitTurnStep ==
  ASSUME IInv, CommitTurn
  PROVE  IInv'
<1>1. UNCHANGED << slot, worker, client, messages, stack, barrier, queued, sent, endTurn, action,
                   generation, history >>
  BY DEF CommitTurn, slotVars, actionVars
<1>2. engine' \in Engines
  BY Typed DEF CommitTurn, Engines
<1> QED BY <1>1, <1>2, NativeStep, Typed

LEMMA NextTurnStep ==
  ASSUME IInv, NextTurn
  PROVE  IInv'
<1>1. /\ UNCHANGED << slot, worker, client, messages, stack, barrier, queued, sent, endTurn, action,
                      generation >>
      /\ Settle(history.owner["end_turn"], "completed")
  BY DEF NextTurn, slotVars, actionVars
<1>2. engine' \in Engines
  <2>1. engine \in Engines /\ engine.turn + 1 \in Nat
    BY Typed DEF Engines
  <2> QED BY <2>1 DEF NextTurn, Engines
<1>3. history' \in Histories /\ history'.executed = history.executed
      /\ history'.accepted = history.accepted
  BY <1>1, Settling
<1> QED BY <1>1, <1>2, <1>3, NativeStep, Typed

-----------------------------------------------------------------------------
(* The invariant.                                                          *)

LEMMA InitialTypes ==
  ASSUME Init
  PROVE  Types
<1>1. slot \in Slots /\ worker \in Workers /\ endTurn \in Timers
  BY DEF Init, Slots, Workers, Timers, NoRevision
<1>2. messages \in Seq({"request", "deferred"}) /\ stack \in Seq(Frames)
  BY DEF Init
<1>3. barrier \in BOOLEAN /\ queued \in SUBSET Kinds /\ sent \in BOOLEAN /\ generation \in Nat
  BY DEF Init
<1>4. action \in Receipts
  BY DEF Init, Receipts, Statuses
<1>5. engine \in Engines
  <2>1. engine \in [turn : {0}, mine : {TRUE}, modal : {FALSE}, dialogs : {0},
                     committed : {FALSE}, multiplayer : BOOLEAN]
    BY DEF Init
  <2>2. PICK b \in BOOLEAN :
          engine = [turn |-> 0, mine |-> TRUE, modal |-> FALSE, dialogs |-> 0,
                    committed |-> FALSE, multiplayer |-> b]
    BY <2>1, Zenon
  <2> QED BY <2>2 DEF Engines
<1>6. history \in Histories
  <2>1. << >> \in Seq(Revisions)
    OBVIOUS
  <2> HIDE DEF Revisions
  <2> QED BY <2>1 DEF Init, Histories, AnyKind
<1>7. client \in Clients
  <2>1. engine.turn \in Nat /\ engine.mine \in BOOLEAN /\ engine.modal \in BOOLEAN
    BY <1>5 DEF Engines
  <2>2. Revision \in Revisions
    BY <1>3, <1>4, <2>1 DEF Revision, Revisions
  <2>3. [n \in Requests |-> << "none", 0 >>] \in [Requests -> Answers \X Nat]
    BY DEF Answers
  <2>4. client = [answered |-> [n \in Requests |-> << "none", 0 >>], seen |-> Revision]
    BY DEF Init
  <2> HIDE DEF Revisions, Revision
  <2> QED BY <2>2, <2>3, <2>4 DEF Clients
<1> QED BY <1>1, <1>2, <1>3, <1>4, <1>5, <1>6, <1>7 DEF Types, SharedTypes, GameTypes

LEMMA Initially ==
  ASSUME Init
  PROVE  IInv
<1>1. Types
  BY InitialTypes
<1>2. /\ stack = << >> /\ slot.seq = 0 /\ slot.responseSeq = 0 /\ ~slot.pending
      /\ ~slot.inProgress /\ worker.at = "idle" /\ worker.seq = 0 /\ action.id = 0 /\ history.accepted = << >>
      /\ history.executed = [n \in Requests |-> 0]
      /\ client.answered = [n \in Requests |-> << "none", 0 >>]
  BY DEF Init
<1>3. Nested /\ InProgressInv /\ WorkerInv /\ FrameInv /\ PendingInv
  BY <1>2 DEF Nested, InProgressInv, WorkerInv, FrameInv, PendingInv, RequestOnTop
<1>4. ResponseInv /\ ExecutionInv /\ AnsweredByItself /\ AcceptedInv
  BY <1>2, RequestBounds DEF ResponseInv, ExecutionInv, AnsweredByItself, AcceptedInv, Requests
<1> QED BY <1>1, <1>3, <1>4 DEF IInv, Rest

LEMMA WorkerSteps ==
  ASSUME IInv, Worker
  PROVE  IInv'
BY ReceiveStep, StoreStep, PostRequestStep, TimeOutStep, WakeStep, ReadResponseStep DEF Worker

LEMMA RequestSteps ==
  ASSUME IInv, Request
  PROVE  IInv'
<1>1. ASSUME QueueEndTurn PROVE "end_turn" \in Ops
  <2>1. RequestOnTop /\ Top.op = "end_turn"
    BY <1>1 DEF QueueEndTurn, Accept, TakenRequest, RequestOnTop
  <2> QED BY <2>1, RequestFrame DEF RequestFrames
<1> QED BY <1>1, RequestMessageStep, WaitTaskStep, PublishStep, SignalStep, QueueEndTurnStep,
     RespondStep, ReadStep, RefuseStep, QueueActionStep DEF Request

LEMMA BridgeSteps ==
  ASSUME IInv, Bridge
  PROVE  IInv'
BY RejectBeforeCallStep, StartCallStep, SpentDeferredMessageStep, DevelopmentSentStep,
   EndTurnTimerStep, ReturnFromEndTurnStep, ReturnFromCallStep DEF Bridge

LEMMA EngineSteps ==
  ASSUME IInv, Engine
  PROVE  IInv'
BY OpenDialogStep, LeaveDialogStep, CommitTurnStep, NextTurnStep DEF Engine

LEMMA Stuttering ==
  ASSUME IInv, UNCHANGED vars
  PROVE  IInv'
BY DEF vars, slotVars, actionVars, IInv, Types, SharedTypes, GameTypes, Rest, Nested,
   InProgressInv, WorkerInv, FrameInv, PendingInv, ResponseInv, ExecutionInv,
   AnsweredByItself, AcceptedInv, RequestOnTop, Top

(* The whole invariant, for every operation, request and dialog.           *)
THEOREM Invariant == Spec => []IInv
<1>1. Init => IInv
  BY Initially
<1>2. IInv /\ [Next]_vars => IInv'
  BY WorkerSteps, RequestSteps, BridgeSteps, EngineSteps, Stuttering DEF Next
<1> QED BY <1>1, <1>2, PTL DEF Spec

(* The types hold, with the bound on the requests (BridgeRequests).        *)
THEOREM TypeCorrect == Spec => []TypeOK
<1>1. ASSUME IInv PROVE TypeOK
  <2>1. slot \in Slots /\ worker \in Workers /\ slot.seq \in Nat /\ MaxRequests \in Nat
    BY <1>1, RequestBounds DEF IInv, Types, SharedTypes, Slots
  <2>2. slot.seq <= MaxRequests /\ worker.seq <= slot.seq /\ action.id <= slot.seq
    BY <1>1 DEF IInv, Rest, ResponseInv, WorkerInv
  <2>3. slot.seq \in 0 .. MaxRequests /\ slot.op \in Ops \cup {"none"}
    BY <2>1, <2>2 DEF Slots
  <2>4. worker \in [at : {"idle", "received", "stored", "waiting", "woken"},
                   seq : 0 .. MaxRequests]
    <3>1. worker.seq \in 0 .. MaxRequests
      BY <2>1, <2>2 DEF Workers
    <3> QED BY <2>1, <3>1 DEF Workers
  <2>5. action.id \in 0 .. MaxRequests /\ action.status \in {"none", "pending", "completed", "rejected"}
    BY <1>1, <2>1, <2>2, Typed DEF Receipts, Statuses
  <2> QED BY <1>1, <2>3, <2>4, <2>5, Typed DEF TypeOK
<1> QED BY <1>1, Invariant, PTL

(* No request is executed twice: neither a message that a nested pump spent *)
(* late nor a response published after a timeout runs it again             *)
(* (agent_bridge_handle_message).                                          *)
THEOREM RequestsExecutedOnce == Spec => []ExecutedOnce
<1>1. IInv => ExecutedOnce
  BY DEF IInv, Rest, ExecutionInv, ExecutedOnce
<1> QED BY <1>1, Invariant, PTL

(* A response the client receives is its own request's, executed once      *)
(* (agent_bridge_request, agent_bridge_handle_message).                    *)
THEOREM AnswersAreOwn == Spec => []AnsweredByItself
<1>1. IInv => AnsweredByItself
  BY DEF IInv, Rest
<1> QED BY <1>1, Invariant, PTL

(* No revision is accepted twice: a retry of a command whose answer was    *)
(* lost is refused (validate_semantic_guard).                              *)
THEOREM RevisionsAcceptedOnce == Spec => []AcceptedOnce
<1>1. ASSUME IInv PROVE AcceptedOnce
  <2> DEFINE acc == history.accepted
  <2>1. acc \in Seq(Revisions) /\ AcceptedInv
    BY <1>1, Typed DEF IInv, Rest
  <2>2. \A i \in 1 .. Len(acc) : acc[i][1] \in Nat
    BY <2>1 DEF Revisions
  <2>3. ASSUME NEW i \in 1 .. Len(acc), NEW j \in 1 .. Len(acc), acc[i] = acc[j]
        PROVE  i = j
    <3>1. ~(i < j) /\ ~(j < i)
      BY <2>1, <2>2, <2>3 DEF AcceptedInv
    <3> QED BY <2>1, <3>1
  <2>4. DOMAIN acc = 1 .. Len(acc)
    BY <2>1
  <2> QED BY <2>3, <2>4 DEF AcceptedOnce, IsInjective
<1> QED BY <1>1, Invariant, PTL

-----------------------------------------------------------------------------
(***************************************************************************)
(* The receipts: the one receipt that all native actions share            *)
(* is written by the action it names, and none is begun while it is        *)
(* pending.  This is not so of all operations: a disband is not counted    *)
(* among the pending ones, and a kind that forgets its identifier before   *)
(* its native call and then lets requests in is not seen by them.  It is   *)
(* proved here for every other choice of operations and dialogs.           *)
(*                                                                         *)
(* The argument is that there is one action at a time: it is queued, or its *)
(* native call is the innermost one, or the end turn is pending, and in    *)
(* each case the receipt has its identifier (ReceiptInv).  That it is no   *)
(* longer pending when the next begins needs besides what the client knows: *)
(* a revision of this turn has seen the end turn settled (OrderInv).       *)
(***************************************************************************)

(* No disband; and a kind that forgets its identifier before its call has  *)
(* the barrier or pumps no messages.                                       *)
OneAtATime ==
  Ops \cap ({"disband"} \cup ((ClearedFirst \ Barred) \cap (Animated \cup DialogKinds))) = {}

-----------------------------------------------------------------------------
(* The invariants.                                                         *)

(* The native calls on the UI thread, innermost first.                     *)
Natives == IF RequestOnTop THEN Tail(stack) ELSE stack

(* The innermost one is that of a deferred action.                         *)
Calling == Natives # << >> /\ Natives[1].kind # "end_turn"

QueuedInv ==
  /\ \A k \in queued : queued = {k} /\ action.id = history.owner[k] /\ action.id \in Requests
  /\ sent => queued = {"development"}

CallInv ==
  Calling =>
    /\ Natives[1].id = action.id /\ action.id \in Requests /\ Natives[1].kind \in Kinds
    /\ Natives[1].kind \in ClearedFirst => queued = {}
    /\ Natives[1].kind \notin ClearedFirst => queued = {Natives[1].kind}
    /\ Natives[1].kind \in Barred => barrier
    /\ Natives[1].kind = "development" => sent
    /\ Natives[1].at = "dialog" => Natives[1].kind \in DialogKinds

(* Only end turns lie deeper.                                              *)
DeepInv == \A i \in 2 .. Len(Natives) : Natives[i].kind = "end_turn"

(* A request inside an action's call sees that there is one.               *)
InsideInv ==
  RequestOnTop =>
    /\ barrier => Top.op \in Polls
    /\ Calling => Natives[1].kind \notin ClearedFirst \ Barred

(* A deferred message is of an action that is queued and not started.      *)
Deferred(m) == \E i \in 1 .. Len(m) : m[i] = "deferred"
AtMostOne(m) ==
  \A i, j \in 1 .. Len(m) : m[i] = "deferred" /\ m[j] = "deferred" => i = j
MessageInv ==
  /\ AtMostOne(messages)
  /\ Deferred(messages) => queued # {} /\ ~Calling /\ ~sent

EndTurnInv ==
  endTurn.pending =>
    /\ queued = {} /\ ~Calling
    /\ action.id = history.owner["end_turn"] /\ action.id \in Requests
    /\ endTurn.source <= engine.turn
    /\ engine.turn # endTurn.source => history.outcome[action.id] = "completed"

TrueInv ==
  action.status = "completed" =>
    action.id \in Requests /\ history.outcome[action.id] = "completed"

ReceiptInv ==
  /\ QueuedInv /\ CallInv /\ DeepInv /\ InsideInv /\ MessageInv /\ EndTurnInv
  /\ TrueInv

(* A pending receipt is of an action that is still to settle it.           *)
WaitingInv ==
  action.status = "pending" => queued # {} \/ Calling \/ endTurn.pending

(* An end turn that returned has been refused, or is committed, or over.   *)
TurnInv ==
  /\ engine.mine \/ engine.committed
  /\ engine.modal => Natives # << >> /\ Natives[1].at = "dialog"
  /\ endTurn.pending /\ endTurn.returned =>
       engine.committed \/ engine.turn # endTurn.source

(* The turn is over and the receipt has not been refreshed.                *)
Overdue ==
  action.status = "pending" /\ endTurn.pending /\ engine.turn # endTurn.source

(* No revision of this turn shows that receipt.                            *)
Sound(r) ==
  r # NoRevision =>
    r[4] <= engine.turn /\ ~(Overdue /\ r[4] = engine.turn /\ r[2] = action)
SeenInv ==
  /\ Sound(client.seen) /\ Sound(slot.seen) /\ Sound(slot.revision)
  /\ RequestOnTop => Sound(Top.seen) /\ Sound(Top.revision)

OrderInv == WaitingInv /\ TurnInv /\ SeenInv

-----------------------------------------------------------------------------
(* Messages.                                                               *)

LEMMA RequestAppended ==
  ASSUME NEW m \in Seq({"request", "deferred"}), NEW n, n = Append(m, "request")
  PROVE  /\ Deferred(n) => Deferred(m)
         /\ AtMostOne(m) => AtMostOne(n)
<1>1. /\ Len(n) = Len(m) + 1 /\ n[Len(m) + 1] = "request" /\ Len(m) \in Nat
      /\ \A i \in 1 .. Len(m) : n[i] = m[i]
  OBVIOUS
<1>2. \A i \in 1 .. Len(n) : n[i] = "deferred" => i \in 1 .. Len(m) /\ m[i] = "deferred"
  BY <1>1
<1> QED BY <1>2 DEF Deferred, AtMostOne

LEMMA DeferredAppended ==
  ASSUME NEW m \in Seq({"request", "deferred"}), ~Deferred(m), NEW n, n = Append(m, "deferred")
  PROVE  AtMostOne(n)
<1>1. /\ Len(n) = Len(m) + 1 /\ Len(m) \in Nat
      /\ \A i \in 1 .. Len(m) : n[i] = m[i] /\ m[i] # "deferred"
  BY DEF Deferred
<1>2. \A i \in 1 .. Len(n) : n[i] = "deferred" => i = Len(m) + 1
  BY <1>1
<1> QED BY <1>2 DEF AtMostOne

(* A message is retrieved: what is left was there; a deferred one was the  *)
(* only one.                                                               *)
LEMMA MessageRetrieved ==
  ASSUME NEW m \in Seq({"request", "deferred"}), m # << >>, AtMostOne(m), NEW n, n = Tail(m)
  PROVE  /\ n \in Seq({"request", "deferred"})
         /\ Deferred(n) => Deferred(m)
         /\ AtMostOne(n)
         /\ Head(m) = "deferred" => Deferred(m) /\ ~Deferred(n)
<1>1. /\ Len(n) = Len(m) - 1 /\ Len(m) \in Nat /\ Head(m) = m[1] /\ 1 \in 1 .. Len(m)
      /\ \A i \in 1 .. Len(n) : n[i] = m[i + 1] /\ i + 1 \in 1 .. Len(m) /\ i + 1 # 1
      /\ n \in Seq({"request", "deferred"})
  OBVIOUS
<1>2. Deferred(n) => Deferred(m)
  BY <1>1 DEF Deferred
<1>3. AtMostOne(n)
  <2> SUFFICES ASSUME NEW i \in 1 .. Len(n), NEW j \in 1 .. Len(n),
                      n[i] = "deferred", n[j] = "deferred"
               PROVE  i = j
    BY DEF AtMostOne
  <2>1. i + 1 = j + 1
    BY <1>1 DEF AtMostOne
  <2> QED BY <1>1, <2>1
<1>4. Head(m) = "deferred" => Deferred(m) /\ ~Deferred(n)
  BY <1>1 DEF Deferred, AtMostOne
<1> QED BY <1>1, <1>2, <1>3, <1>4

-----------------------------------------------------------------------------
(* The native calls.                                                       *)

LEMMA NativesTyped ==
  ASSUME IInv
  PROVE  /\ Natives \in Seq(NativeFrames) /\ AllNative(Natives)
         /\ Natives # << >> => Natives[1] \in NativeFrames /\ Head(Natives) = Natives[1]
<1>1. Natives \in Seq(Frames) /\ AllNative(Natives)
  BY RequestFrame, NativeTop, Typed DEF Natives, IInv, Rest
<1>2. ASSUME NEW i \in 1 .. Len(Natives)
      PROVE  Natives[i] \in NativeFrames
  BY <1>1, <1>2 DEF AllNative, Frames, RequestFrames, NativeFrames
<1> DEFINE n == Natives
<1> HIDE DEF n
<1>3. n \in Seq(Frames) /\ \A i \in 1 .. Len(n) : n[i] \in NativeFrames
  BY <1>1, <1>2 DEF n
<1>4. n \in Seq(NativeFrames) /\ (n # << >> => n[1] \in NativeFrames /\ Head(n) = n[1])
  BY <1>3
<1> QED BY <1>1, <1>4 DEF n

(* A request taken, executed, published or left is not one of them.        *)
LEMMA RequestPushed ==
  ASSUME IInv, Pumping, NEW f \in RequestFrames, stack' = << f >> \o stack
  PROVE  Natives' = Natives /\ RequestOnTop' /\ Top' = f /\ Natives = stack
<1>1. ~RequestOnTop /\ stack \in Seq(Frames)
  BY PumpingIsNative, Typed
<1>2. f \in Frames /\ f.what = "request"
  BY DEF Frames, RequestFrames
<1>3. stack' # << >> /\ Head(stack') = f /\ Tail(stack') = stack
  BY <1>1, <1>2
<1>4. RequestOnTop' /\ Top' = f
  BY <1>2, <1>3 DEF RequestOnTop, Top
<1> QED BY <1>1, <1>3, <1>4 DEF Natives

LEMMA RequestReplaced ==
  ASSUME IInv, RequestOnTop, NEW f \in RequestFrames, stack' = << f >> \o Tail(stack)
  PROVE  Natives' = Natives /\ RequestOnTop' /\ Top' = f
<1>1. RequestOnTop' /\ Top' = f
  BY ReplacedRequest
<1>2. Tail(stack) \in Seq(Frames) /\ f \in Frames
  BY RequestFrame DEF Frames
<1>3. Tail(stack') = Tail(stack)
  BY <1>2
<1> QED BY <1>1, <1>3 DEF Natives

LEMMA RequestLeft ==
  ASSUME IInv, RequestOnTop, stack' = Tail(stack)
  PROVE  Natives' = Natives /\ ~RequestOnTop'
BY PoppedRequest DEF Natives

(* A native call entered is the innermost, one left leaves the others.     *)
LEMMA CallEntered ==
  ASSUME IInv, Pumping, NEW kind \in AnyKind, NEW id \in Nat,
         stack' = << Native(kind, id) >> \o stack
  PROVE  /\ ~RequestOnTop /\ ~RequestOnTop' /\ Natives = stack
         /\ Natives' # << >> /\ Natives'[1] = Native(kind, id)
         /\ Len(Natives') = Len(Natives) + 1
         /\ \A i \in 2 .. Len(Natives') : Natives'[i] = Natives[i - 1]
<1>1. stack' \in Seq(Frames) /\ AllNative(stack) /\ AllNative(stack') /\ ~RequestOnTop
  BY PushedNative, PumpingIsNative
<1>2. ~RequestOnTop'
  BY <1>1, NoRequestOnTop DEF RequestOnTop, Top
<1> DEFINE f == Native(kind, id)
<1>3. f \in Frames
  BY DEF Native, Frames, NativeFrames
<1> HIDE DEF f
<1>4. stack' = << f >> \o stack /\ stack \in Seq(Frames)
  BY Typed DEF f
<1>5. /\ stack' # << >> /\ stack'[1] = f /\ Len(stack') = Len(stack) + 1
      /\ \A i \in 2 .. Len(stack') : stack'[i] = stack[i - 1]
  BY <1>3, <1>4
<1> QED BY <1>1, <1>2, <1>5 DEF Natives, f

LEMMA CallLeft ==
  ASSUME IInv, NEW kind, Running(kind), stack' = Tail(stack)
  PROVE  /\ ~RequestOnTop /\ ~RequestOnTop' /\ Natives = stack /\ Natives # << >>
         /\ Top = Natives[1] /\ Natives' = Tail(Natives)
         /\ Len(Natives') = Len(Natives) - 1
         /\ \A i \in 1 .. Len(Natives') : Natives'[i] = Natives[i + 1]
<1>1. stack' \in Seq(Frames) /\ AllNative(stack')
  BY PoppedNative
<1>2. ~RequestOnTop /\ stack # << >> /\ stack \in Seq(Frames)
  BY Typed DEF Running, RequestOnTop
<1>3. ~RequestOnTop'
  BY <1>1, NoRequestOnTop DEF RequestOnTop, Top
<1>4. /\ Head(stack) = stack[1] /\ Len(stack') = Len(stack) - 1
      /\ \A i \in 1 .. Len(stack') : stack'[i] = stack[i + 1]
  BY <1>2, PoppedFrame
<1> QED BY <1>2, <1>3, <1>4 DEF Natives, Top

(* A dialog changes where the innermost call is.                           *)
LEMMA CallMoved ==
  ASSUME IInv, Inside, NEW at \in {"running", "dialog"},
         stack' = << [Top EXCEPT !.at = at] >> \o Tail(stack)
  PROVE  /\ ~RequestOnTop /\ ~RequestOnTop' /\ Natives = stack /\ Natives # << >>
         /\ Top = Natives[1] /\ Natives' # << >> /\ Len(Natives') = Len(Natives)
         /\ Natives'[1].at = at /\ Natives'[1].kind = Natives[1].kind
         /\ Natives'[1].id = Natives[1].id
         /\ \A i \in 2 .. Len(Natives') : Natives'[i] = Natives[i]
<1>1. stack' \in Seq(Frames) /\ AllNative(stack')
  BY ReplacedNative
<1>2. ~RequestOnTop /\ stack # << >> /\ stack \in Seq(Frames) /\ Top.what = "native"
  BY Typed DEF Inside, RequestOnTop
<1>3. ~RequestOnTop'
  BY <1>1, NoRequestOnTop DEF RequestOnTop, Top
<1>4. Top = stack[1] /\ Top \in NativeFrames
  BY <1>2, PoppedFrame DEF Top, Frames, RequestFrames, NativeFrames
<1> DEFINE f == [Top EXCEPT !.at = at]
<1>5. f \in Frames /\ f.at = at /\ f.kind = Top.kind /\ f.id = Top.id
  BY <1>4 DEF Frames, NativeFrames
<1>6. stack' = << f >> \o Tail(stack)
  OBVIOUS
<1> HIDE DEF f
<1>7. /\ stack' # << >> /\ Head(stack') = f /\ Len(stack') = Len(stack)
      /\ \A i \in 2 .. Len(stack') : stack'[i] = stack[i]
  BY <1>2, <1>5, <1>6, ReplacedFrame
<1>8. stack'[1] = f
  BY <1>1, <1>7, PoppedFrame
<1> QED BY <1>2, <1>3, <1>4, <1>5, <1>7, <1>8 DEF Natives

-----------------------------------------------------------------------------
(* Steps the receipt does not notice.                                      *)

(* The parts ReceiptInv is about, but for the frames and the messages.     *)
ReceiptKept ==
  /\ queued' = queued /\ sent' = sent /\ barrier' = barrier /\ endTurn' = endTurn
  /\ action' = action /\ engine'.turn = engine.turn
  /\ history'.owner = history.owner /\ history'.outcome = history.outcome

MessagesKept ==
  AtMostOne(messages') /\ (Deferred(messages') => Deferred(messages))

LEMMA KeptStep ==
  ASSUME IInv, ReceiptInv, ReceiptKept, MessagesKept, Natives' = Natives, InsideInv'
  PROVE  ReceiptInv'
<1>1. QueuedInv' /\ EndTurnInv' /\ TrueInv'
  BY DEF ReceiptInv, ReceiptKept, QueuedInv, EndTurnInv, TrueInv, Calling
<1>2. CallInv' /\ DeepInv'
  BY DEF ReceiptInv, ReceiptKept, CallInv, DeepInv, Calling
<1>3. MessageInv'
  BY DEF ReceiptInv, ReceiptKept, MessageInv, MessagesKept, Calling, Deferred, AtMostOne
<1> QED BY <1>1, <1>2, <1>3 DEF ReceiptInv

(* A request inside an action's call that pumps: the barrier lets it, or   *)
(* the action has kept its identifier.                                     *)
LEMMA TakenInside ==
  ASSUME OneAtATime, IInv, ReceiptInv, Pumping, Calling, Natives = stack
  PROVE  Natives[1].kind \notin ClearedFirst \ Barred
<1>1. Natives # << >> /\ Top = Natives[1]
  BY NativesTyped DEF Calling, Top
<1>2. Natives[1].kind \in Animated \/ Natives[1].at = "dialog"
  BY <1>1 DEF Pumping
<1>3. Natives[1].kind \in Kinds
  BY DEF ReceiptInv, CallInv
<1>4. Natives[1].kind \in Ops /\ Natives[1].kind \in Animated \cup DialogKinds
  BY <1>2, <1>3 DEF Kinds, ReceiptInv, CallInv
<1> QED BY <1>4 DEF OneAtATime

LEMMA TakeKeeps ==
  ASSUME OneAtATime, IInv, ReceiptInv, Pumping, Serviceable, Take
  PROVE  Natives' = Natives /\ RequestOnTop' /\ Top' \in RequestFrames
         /\ Top'.seen = slot.seen /\ Top'.revision = NoRevision
         /\ (barrier' = barrier => InsideInv')
<1> DEFINE f == [what |-> "request", seq |-> slot.seq, op |-> slot.op,
                 seen |-> slot.seen, at |-> "taken", revision |-> << >>]
<1>1. f \in RequestFrames
  <2>1. slot.seq \in Requests
    BY DEF Serviceable, IInv, Rest, PendingInv
  <2>2. slot.op \in Ops \cup {"none"} /\ slot.seen \in Revisions \cup {NoRevision}
    BY DEF IInv, Types, SharedTypes, Slots
  <2> HIDE DEF Revisions
  <2> QED BY <2>1, <2>2 DEF RequestFrames, NoRevision
<1>2. f.op = slot.op /\ f.seen = slot.seen /\ f.revision = NoRevision
  BY DEF NoRevision
<1>3. stack' = << f >> \o stack
  BY DEF Take
<1> HIDE DEF f
<1>4. Natives' = Natives /\ RequestOnTop' /\ Top' = f /\ Natives = stack
  BY <1>1, <1>3, RequestPushed
<1>5. barrier' = barrier => InsideInv'
  BY <1>2, <1>4, TakenInside DEF InsideInv, Serviceable, Calling
<1> QED BY <1>1, <1>2, <1>4, <1>5

LEMMA ReplaceKeeps ==
  ASSUME IInv, ReceiptInv, RequestOnTop, NEW f \in RequestFrames, f.op = Top.op,
         stack' = << f >> \o Tail(stack), barrier' = barrier
  PROVE  Natives' = Natives /\ InsideInv' /\ RequestOnTop' /\ Top' = f
BY RequestReplaced DEF ReceiptInv, InsideInv, Calling

LEMMA LeaveKeeps ==
  ASSUME IInv, RequestOnTop, stack' = Tail(stack)
  PROVE  Natives' = Natives /\ InsideInv' /\ ~RequestOnTop'
BY RequestLeft DEF InsideInv

-----------------------------------------------------------------------------
(* The socket worker, and requests on their way in and out.                *)

LEMMA WorkerKeeps ==
  ASSUME IInv, ReceiptInv, Worker
  PROVE  ReceiptInv'
<1> DEFINE Kept == /\ UNCHANGED << stack, barrier, queued, sent, endTurn, action, engine, history >>
                   /\ messages' = messages \/ messages' = Append(messages, "request")
<1>1. ASSUME NEW op, Store(op)
      PROVE  Kept
  BY <1>1 DEF Store, actionVars
<1>2. ASSUME Receive \/ PostRequest
      PROVE  Kept
  BY <1>2 DEF Receive, PostRequest, Post, actionVars
<1>3. ASSUME TimeOut \/ Wake \/ ReadResponse
      PROVE  Kept
  BY <1>3 DEF TimeOut, Wake, ReadResponse, actionVars
<1>4. Kept
  BY <1>1, <1>2, <1>3 DEF Worker
<1>5. MessagesKept
  BY <1>4, RequestAppended, Typed DEF MessagesKept, ReceiptInv, MessageInv
<1>6. Natives' = Natives /\ InsideInv'
  BY <1>4 DEF Natives, RequestOnTop, Top, ReceiptInv, InsideInv, Calling
<1> QED BY <1>4, <1>5, <1>6, KeptStep DEF ReceiptKept

LEMMA RetrievedKeeps ==
  ASSUME IInv, ReceiptInv, messages # << >>, messages' = Tail(messages)
  PROVE  MessagesKept
BY MessageRetrieved, Typed DEF MessagesKept, ReceiptInv, MessageInv

LEMMA UnchangedMessages ==
  ASSUME ReceiptInv, messages' = messages
  PROVE  MessagesKept
BY DEF MessagesKept, ReceiptInv, MessageInv

LEMMA RequestMessageKeeps ==
  ASSUME OneAtATime, IInv, ReceiptInv, RequestMessage
  PROVE  ReceiptInv'
<1>1. /\ UNCHANGED << barrier, queued, sent, endTurn, action, engine, history >>
      /\ Pumping /\ messages # << >> /\ messages' = Tail(messages)
  BY DEF RequestMessage, actionVars
<1>2. CASE Serviceable
  <2>1. Take
    BY <1>2 DEF RequestMessage
  <2> QED BY <1>1, <1>2, <2>1, TakeKeeps, RetrievedKeeps, KeptStep DEF ReceiptKept
<1>3. CASE ~Serviceable
  <2>1. stack' = stack
    BY <1>3 DEF RequestMessage
  <2>2. Natives' = Natives /\ InsideInv'
    BY <1>1, <2>1 DEF Natives, RequestOnTop, Top, ReceiptInv, InsideInv, Calling
  <2> QED BY <1>1, <2>2, RetrievedKeeps, KeptStep DEF ReceiptKept
<1> QED BY <1>2, <1>3

LEMMA WaitTaskKeeps ==
  ASSUME OneAtATime, IInv, ReceiptInv, WaitTask
  PROVE  ReceiptInv'
<1>1. /\ UNCHANGED << messages, barrier, queued, sent, endTurn, action, engine, history >>
      /\ Pumping /\ Serviceable /\ Take
  BY DEF WaitTask, actionVars
<1> QED BY <1>1, TakeKeeps, UnchangedMessages, KeptStep DEF ReceiptKept

LEMMA PublishKeeps ==
  ASSUME IInv, ReceiptInv, Publish
  PROVE  /\ ReceiptInv' /\ Natives' = Natives
         /\ RequestOnTop' => Top'.seen = Top.seen /\ Top'.revision = Top.revision
<1>1. /\ UNCHANGED << messages, barrier, queued, sent, endTurn, action, engine, history >>
      /\ RequestOnTop
  BY DEF Publish, actionVars, RequestOnTop
<1>2. MessagesKept /\ ReceiptKept
  BY <1>1, UnchangedMessages DEF ReceiptKept
<1>3. CASE Top.seq = slot.seq
  <2> DEFINE f == [Top EXCEPT !.at = "published"]
  <2>1. /\ f \in RequestFrames /\ f.op = Top.op /\ f.seen = Top.seen
        /\ f.revision = Top.revision
    BY <1>1, RequestFrame DEF RequestFrames
  <2>2. stack' = << f >> \o Tail(stack)
    BY <1>3 DEF Publish
  <2> HIDE DEF f
  <2>3. Natives' = Natives /\ InsideInv' /\ Top' = f
    BY <1>1, <2>1, <2>2, ReplaceKeeps
  <2> QED BY <1>2, <2>1, <2>3, KeptStep
<1>4. CASE Top.seq # slot.seq
  <2>1. stack' = Tail(stack)
    BY <1>4 DEF Publish
  <2> QED BY <1>1, <1>2, <2>1, LeaveKeeps, KeptStep
<1> QED BY <1>3, <1>4

LEMMA SignalKeeps ==
  ASSUME IInv, ReceiptInv, Signal
  PROVE  ReceiptInv' /\ Natives' = Natives /\ ~RequestOnTop'
<1>1. /\ UNCHANGED << messages, barrier, queued, sent, endTurn, action, engine, history >>
      /\ RequestOnTop /\ stack' = Tail(stack)
  BY DEF Signal, actionVars, RequestOnTop
<1> QED BY <1>1, LeaveKeeps, UnchangedMessages, KeptStep DEF ReceiptKept

-----------------------------------------------------------------------------
(* Executing a request.                                                    *)

LEMMA ReturnKeeps ==
  ASSUME IInv, ReceiptInv, RequestOnTop, NEW revision \in Revisions \cup {NoRevision},
         Return(revision), barrier' = barrier
  PROVE  /\ Natives' = Natives /\ InsideInv' /\ RequestOnTop'
         /\ Top'.seen = Top.seen /\ Top'.revision = revision
<1> DEFINE f == [Top EXCEPT !.at = "executed", !.revision = revision]
<1>1. /\ f \in RequestFrames /\ f.op = Top.op /\ f.seen = Top.seen
      /\ f.revision = revision
  BY RequestFrame DEF RequestFrames
<1>2. stack' = << f >> \o Tail(stack)
  BY DEF Return
<1> HIDE DEF f
<1> QED BY <1>1, <1>2, ReplaceKeeps

(* Refreshing the end turn settles its receipt, and truly.                 *)
LEMMA RefreshSettles ==
  ASSUME IInv, ReceiptInv
  PROVE  /\ RefreshedAction.id = action.id
         /\ RefreshedAction.status \in Statuses
         /\ RefreshedAction.status = "pending" => RefreshedAction = action
         /\ EndTurnSettles => RefreshedAction.status # "pending"
         /\ RefreshedAction.status = "completed" =>
              action.id \in Requests /\ history.outcome[action.id] = "completed"
         /\ RefreshedEndTurn.pending = (endTurn.pending /\ ~EndTurnSettles)
         /\ RefreshedEndTurn.source = endTurn.source
         /\ RefreshedEndTurn.returned = endTurn.returned
<1>1. action \in Receipts /\ endTurn \in Timers
  BY Typed
<1>2. /\ RefreshedAction.id = action.id /\ RefreshedAction.status \in Statuses
      /\ EndTurnSettles => RefreshedAction.status =
            IF engine.turn # endTurn.source THEN "completed" ELSE "rejected"
      /\ ~EndTurnSettles => RefreshedAction = action
  BY <1>1 DEF RefreshedAction, Receipts, Statuses
<1>3. EndTurnSettles /\ engine.turn # endTurn.source =>
        action.id \in Requests /\ history.outcome[action.id] = "completed"
  BY DEF EndTurnSettles, ReceiptInv, EndTurnInv
<1>4. action.status = "completed" =>
        action.id \in Requests /\ history.outcome[action.id] = "completed"
  BY DEF ReceiptInv, TrueInv
<1>5. /\ RefreshedEndTurn.pending = (endTurn.pending /\ ~EndTurnSettles)
      /\ RefreshedEndTurn.source = endTurn.source
      /\ RefreshedEndTurn.returned = endTurn.returned
  BY <1>1 DEF RefreshedEndTurn, Timers
<1> QED BY <1>2, <1>3, <1>4, <1>5

(* A step of a request that may refresh, and leaves the actions alone.     *)
LEMMA RefreshStep ==
  ASSUME IInv, ReceiptInv, Natives' = Natives, InsideInv', MessagesKept,
         action'.id = action.id,
         action'.status = "completed" =>
           action.id \in Requests /\ history.outcome[action.id] = "completed",
         endTurn'.pending => endTurn.pending /\ endTurn'.source = endTurn.source,
         history'.owner = history.owner, history'.outcome = history.outcome,
         UNCHANGED << barrier, queued, sent >>, engine'.turn = engine.turn
  PROVE  ReceiptInv'
<1>1. QueuedInv' /\ EndTurnInv' /\ TrueInv'
  BY DEF ReceiptInv, QueuedInv, EndTurnInv, TrueInv, Calling
<1>2. CallInv' /\ DeepInv'
  BY DEF ReceiptInv, CallInv, DeepInv, Calling
<1>3. MessageInv'
  BY DEF ReceiptInv, MessageInv, MessagesKept, Calling, Deferred, AtMostOne
<1> QED BY <1>1, <1>2, <1>3 DEF ReceiptInv

(* What a history update of an execution leaves.                           *)
LEMMA HistoryParts ==
  ASSUME IInv, NEW done, NEW acc
  PROVE  /\ [history EXCEPT !.executed = done].owner = history.owner
         /\ [history EXCEPT !.executed = done].outcome = history.outcome
         /\ [history EXCEPT !.executed = done, !.accepted = acc].owner = history.owner
         /\ [history EXCEPT !.executed = done, !.accepted = acc].outcome = history.outcome
BY Typed DEF Histories

LEMMA RefuseKeeps ==
  ASSUME IInv, ReceiptInv, NEW op \in Commands, Refuse(op)
  PROVE  /\ ReceiptInv' /\ Natives' = Natives /\ RequestOnTop'
         /\ Top'.seen = Top.seen /\ Top'.revision = NoRevision
<1>1. /\ UNCHANGED << messages, barrier, queued, sent, engine >>
      /\ RequestOnTop /\ Return(NoRevision) /\ NoRevision \in Revisions \cup {NoRevision}
      /\ Refresh \/ UNCHANGED << action, endTurn >>
      /\ history' = [history EXCEPT !.executed = Executed(Top.seq)]
  BY TakenTop DEF Refuse, NoRevision
<1>2. history'.owner = history.owner /\ history'.outcome = history.outcome
  BY <1>1, HistoryParts
<1>3. MessagesKept
  BY <1>1, UnchangedMessages
<1>4. /\ action'.id = action.id
      /\ action'.status = "completed" =>
           action.id \in Requests /\ history.outcome[action.id] = "completed"
      /\ endTurn'.pending => endTurn.pending /\ endTurn'.source = endTurn.source
  BY <1>1, RefreshSettles DEF Refresh, ReceiptInv, TrueInv
<1> QED BY <1>1, <1>2, <1>3, <1>4, ReturnKeeps, RefreshStep

LEMMA RespondKeeps ==
  ASSUME IInv, ReceiptInv, Respond
  PROVE  /\ ReceiptInv' /\ Natives' = Natives /\ RequestOnTop'
         /\ Top'.seen = Top.seen /\ Top'.revision = NoRevision
<1>1. /\ UNCHANGED << messages, barrier, queued, sent >>
      /\ RequestOnTop /\ Return(NoRevision) /\ NoRevision \in Revisions \cup {NoRevision}
      /\ Refresh /\ engine' = [engine EXCEPT !.modal = FALSE]
      /\ history' = [history EXCEPT !.executed = Executed(Top.seq),
                       !.accepted = Append(@, Top.seen)]
  BY TakenTop DEF Respond, Accept, NoRevision
<1>2. history'.owner = history.owner /\ history'.outcome = history.outcome
  BY <1>1, HistoryParts
<1>3. MessagesKept
  BY <1>1, UnchangedMessages
<1>4. /\ action'.id = action.id
      /\ action'.status = "completed" =>
           action.id \in Requests /\ history.outcome[action.id] = "completed"
      /\ endTurn'.pending => endTurn.pending /\ endTurn'.source = endTurn.source
  BY <1>1, RefreshSettles DEF Refresh
<1>5. engine'.turn = engine.turn
  BY <1>1, Typed DEF Engines
<1> QED BY <1>1, <1>2, <1>3, <1>4, <1>5, ReturnKeeps, RefreshStep

(* A verdict on a development: it is the one action there is, and not in   *)
(* its call.                                                               *)
LEMMA SettledDevelopment ==
  ASSUME IInv, ReceiptInv, sent, ~barrier
  PROVE  /\ queued = {"development"} /\ ~Calling /\ ~endTurn.pending /\ ~Deferred(messages)
         /\ action.id = history.owner["development"] /\ action.id \in Requests
<1>1. /\ queued = {"development"} /\ action.id = history.owner["development"]
      /\ action.id \in Requests
  BY DEF ReceiptInv, QueuedInv
<1>2. ~endTurn.pending /\ ~Deferred(messages)
  BY <1>1 DEF ReceiptInv, EndTurnInv, MessageInv
<1>3. ~Calling
  <2> SUFFICES ASSUME Calling PROVE FALSE
    OBVIOUS
  <2>1. Natives[1].kind = "development"
    BY <1>1 DEF ReceiptInv, CallInv
  <2> QED BY <2>1 DEF ReceiptInv, CallInv, Barred
<1> QED BY <1>1, <1>2, <1>3

LEMMA ReadKeeps ==
  ASSUME IInv, ReceiptInv, NEW op \in Ops \cap Reads, NEW verdict \in Verdicts,
         Read(op, verdict)
  PROVE  /\ ReceiptInv' /\ Natives' = Natives /\ RequestOnTop'
         /\ Top'.seen = Top.seen
         /\ Top'.revision = IF op = "observe" THEN Revision' ELSE NoRevision
<1>1. /\ RequestOnTop /\ Settleable(verdict) /\ SettleDevelopment(verdict)
      /\ endTurn' = RefreshedEndTurn /\ UNCHANGED << messages, barrier, engine >>
      /\ Return(IF op = "observe" THEN Revision' ELSE NoRevision)
  BY TakenTop DEF Read, NoRevision
<1>2. Revision' \in Revisions
  <2>1. IInv'
    BY ReadStep
  <2>2. /\ generation' \in Nat /\ action' \in Receipts /\ queued' \in SUBSET Kinds
        /\ engine' \in Engines
    BY <2>1 DEF IInv, Types, GameTypes
  <2>3. engine'.turn \in Nat /\ engine'.mine \in BOOLEAN /\ engine'.modal \in BOOLEAN
    BY <2>2 DEF Engines
  <2> QED BY <2>2, <2>3 DEF Revision, Revisions
<1>3. (IF op = "observe" THEN Revision' ELSE NoRevision) \in Revisions \cup {NoRevision}
  BY <1>2
<1>4. /\ Natives' = Natives /\ InsideInv' /\ RequestOnTop'
      /\ Top'.seen = Top.seen
      /\ Top'.revision = IF op = "observe" THEN Revision' ELSE NoRevision
  BY <1>1, <1>3, ReturnKeeps
<1>5. MessagesKept
  BY <1>1, UnchangedMessages
<1>6. CASE verdict = "none"
  <2>1. /\ action' = RefreshedAction /\ UNCHANGED << queued, sent >>
        /\ history' = [history EXCEPT !.executed = Executed(Top.seq)]
    BY <1>1, <1>6 DEF SettleDevelopment
  <2>2. history'.owner = history.owner /\ history'.outcome = history.outcome
    BY <2>1, HistoryParts
  <2> QED BY <1>1, <1>4, <1>5, <2>1, <2>2, RefreshSettles, RefreshStep
<1>7. CASE verdict # "none"
  <2>1. sent /\ ~barrier
    BY <1>1, <1>7 DEF Settleable
  <2>2. /\ queued = {"development"} /\ ~Calling /\ ~endTurn.pending /\ ~Deferred(messages)
        /\ action.id = history.owner["development"] /\ action.id \in Requests
    BY <2>1, SettledDevelopment
  <2>3. /\ action' = [RefreshedAction EXCEPT !.status = verdict] /\ queued' = {} /\ sent' = FALSE
        /\ history'.outcome = [history.outcome EXCEPT ![action.id] = verdict]
    <3>1. history' = [history EXCEPT !.executed = Executed(Top.seq),
                       !.outcome[history.owner["development"]] = verdict]
      BY <1>1, <1>7 DEF SettleDevelopment
    <3>2. history'.outcome = [history.outcome EXCEPT ![history.owner["development"]] = verdict]
      BY <3>1, Typed DEF Histories
    <3> QED BY <1>1, <1>7, <2>2, <3>2 DEF SettleDevelopment
  <2>4. history'.outcome[action.id] = verdict
    BY <2>2, <2>3, Typed
  <2>5. action'.id = action.id /\ action'.status = verdict
    BY <2>3, Refreshing DEF Receipts
  <2>6. ~endTurn'.pending
    BY <1>1, <2>2, RefreshSettles
  <2>7. QueuedInv' /\ CallInv' /\ DeepInv' /\ EndTurnInv'
    BY <1>4, <2>2, <2>3, <2>6 DEF QueuedInv, CallInv, DeepInv, EndTurnInv, Calling, ReceiptInv
  <2>8. MessageInv'
    BY <1>5, <2>2 DEF MessageInv, MessagesKept, Deferred, AtMostOne
  <2>9. TrueInv'
    BY <2>2, <2>4, <2>5 DEF TrueInv
  <2> QED BY <1>4, <2>7, <2>8, <2>9 DEF ReceiptInv
<1> QED BY <1>4, <1>6, <1>7

(* A command is accepted only when nothing is going on.                    *)
LEMMA AcceptedAlone ==
  ASSUME OneAtATime, IInv, ReceiptInv, NEW op \in Commands, op # "respond", Accept(op)
  PROVE  /\ RequestOnTop /\ Top.seen = Revision /\ queued = {} /\ ~Calling /\ ~sent
         /\ ~Deferred(messages) /\ ~RefreshedEndTurn.pending
<1>1. RequestOnTop /\ Top.op = op /\ Top.seen = Revision /\ AtTurn
  BY DEF Accept, Acceptable, TakenRequest, RequestOnTop
<1>2. queued = {}
  <2>1. queued \subseteq Kinds /\ queued \cap Counted = {}
    BY <1>1, Typed DEF AtTurn
  <2>2. ASSUME NEW k \in queued PROVE FALSE
    <3>1. k \in Ops /\ k \in ToSet(HandlerOrder) /\ k = "disband"
      BY <2>1 DEF Kinds, Counted
    <3> QED BY <3>1 DEF OneAtATime
  <2> QED BY <2>2
<1>3. ~Calling
  <2> SUFFICES ASSUME Calling PROVE FALSE
    OBVIOUS
  <2>1. Natives[1].kind \in ClearedFirst
    BY <1>2 DEF ReceiptInv, CallInv
  <2>2. Natives[1].kind \in Barred
    BY <1>1, <2>1 DEF ReceiptInv, InsideInv
  <2>3. op \in Polls
    BY <1>1, <2>2 DEF ReceiptInv, CallInv, InsideInv
  <2> QED BY <2>3 DEF Commands, Reads
<1>4. ~sent /\ ~Deferred(messages)
  BY <1>2 DEF ReceiptInv, QueuedInv, MessageInv
<1>5. ~RefreshedEndTurn.pending
  BY <1>1 DEF AtTurn
<1> QED BY <1>1, <1>2, <1>3, <1>4, <1>5

(* The receipt of a new action is its own.                                 *)
LEMMA BegunReceipt ==
  ASSUME IInv, IInv', NEW kind \in AnyKind, RequestOnTop, Top.seen = Revision,
         Begin(kind), AcceptedHistory(kind)
  PROVE  /\ action'.id = action.id + 1 /\ action'.id \in Requests
         /\ action'.status = "pending" /\ history'.owner[kind] = action'.id
         /\ action'.kind = kind
<1>1. action' = [id |-> action.id + 1, kind |-> kind, status |-> "pending"]
  BY DEF Begin
<1>2. action'.id \in Nat /\ action'.id <= slot'.seq /\ slot'.seq <= MaxRequests
  BY DEF IInv, Types, GameTypes, Receipts, Rest, ResponseInv
<1>3. history'.owner = [history.owner EXCEPT ![kind] = action.id + 1]
  BY Typed DEF AcceptedHistory, Histories
<1>4. slot'.seq \in Nat /\ MaxRequests \in Nat /\ action.id \in Nat
  BY Typed, RequestBounds DEF IInv, Types, SharedTypes, Slots
<1> QED BY <1>1, <1>2, <1>3, <1>4, Typed DEF Requests

(* What is queued is alone, with its message.                              *)
LEMMA QueueActionKeeps ==
  ASSUME OneAtATime, IInv, IInv', ReceiptInv, NEW kind \in Kinds, QueueAction(kind)
  PROVE  /\ ReceiptInv' /\ Natives' = Natives /\ RequestOnTop'
         /\ Top'.seen = Top.seen /\ Top'.revision = NoRevision
<1>0. kind \in Commands /\ kind # "respond" /\ kind \in AnyKind
  <2>1. kind \in ToSet(HandlerOrder) /\ kind \in Ops
    BY DEF Kinds
  <2>2. kind \in {HandlerOrder[i] : i \in 1 .. 10}
    BY <2>1 DEF ToSet, HandlerOrder
  <2>3. kind \notin {"action_status", "observe", "respond"}
    BY <2>2 DEF HandlerOrder
  <2> QED BY <2>1, <2>3 DEF Commands, Reads, Polls, AnyKind
<1>1. /\ Accept(kind) /\ queued' = queued \cup {kind} /\ Begin(kind)
      /\ endTurn' = RefreshedEndTurn /\ Post("deferred") /\ AcceptedHistory(kind)
      /\ UNCHANGED << barrier, sent, engine >>
  BY DEF QueueAction
<1>2. /\ RequestOnTop /\ Top.seen = Revision /\ queued = {} /\ ~Calling /\ ~sent
      /\ ~Deferred(messages) /\ ~RefreshedEndTurn.pending
  BY <1>0, <1>1, AcceptedAlone
<1>3. /\ action'.id = action.id + 1 /\ action'.id \in Requests
      /\ action'.status = "pending" /\ history'.owner[kind] = action'.id
  BY <1>0, <1>1, <1>2, BegunReceipt
<1>4. /\ Natives' = Natives /\ InsideInv' /\ RequestOnTop'
      /\ Top'.seen = Top.seen /\ Top'.revision = NoRevision
  <2>1. Return(NoRevision) /\ NoRevision \in Revisions \cup {NoRevision}
    BY <1>1 DEF Accept, NoRevision
  <2> QED BY <1>1, <1>2, <2>1, ReturnKeeps
<1>5. QueuedInv' /\ CallInv' /\ DeepInv'
  BY <1>1, <1>2, <1>3, <1>4 DEF QueuedInv, CallInv, DeepInv, Calling, ReceiptInv
<1>6. MessageInv'
  <2>1. AtMostOne(messages')
    BY <1>1, <1>2, Typed, DeferredAppended DEF Post
  <2> QED BY <1>1, <1>2, <1>4, <2>1 DEF MessageInv, Calling, AtMostOne
<1>7. EndTurnInv' /\ TrueInv'
  BY <1>1, <1>2, <1>3 DEF EndTurnInv, TrueInv
<1> QED BY <1>4, <1>5, <1>6, <1>7 DEF ReceiptInv

LEMMA QueueEndTurnKeeps ==
  ASSUME OneAtATime, IInv, IInv', ReceiptInv, QueueEndTurn
  PROVE  /\ ReceiptInv' /\ Natives' = Natives /\ RequestOnTop'
         /\ Top'.seen = Top.seen /\ Top'.revision = NoRevision
<1>1. /\ Accept("end_turn") /\ Begin("end_turn") /\ AcceptedHistory("end_turn")
      /\ endTurn' = [pending |-> TRUE, source |-> engine.turn, returned |-> FALSE, timer |-> TRUE]
      /\ UNCHANGED << messages, barrier, queued, sent, engine >>
  BY DEF QueueEndTurn
<1>0. "end_turn" \in Commands /\ "end_turn" # "respond" /\ "end_turn" \in AnyKind
  <2>1. RequestOnTop /\ Top.op = "end_turn"
    BY <1>1 DEF Accept, TakenRequest, RequestOnTop
  <2>2. "end_turn" \in Ops
    BY <2>1, RequestFrame DEF RequestFrames
  <2> QED BY <2>2 DEF Commands, Reads, Polls, AnyKind
<1>2. /\ RequestOnTop /\ Top.seen = Revision /\ queued = {} /\ ~Calling /\ ~sent
      /\ ~Deferred(messages)
  BY <1>0, <1>1, AcceptedAlone
<1>3. /\ action'.id = action.id + 1 /\ action'.id \in Requests
      /\ action'.status = "pending" /\ history'.owner["end_turn"] = action'.id
  BY <1>0, <1>1, <1>2, BegunReceipt
<1>4. /\ Natives' = Natives /\ InsideInv' /\ RequestOnTop'
      /\ Top'.seen = Top.seen /\ Top'.revision = NoRevision
  <2>1. Return(NoRevision) /\ NoRevision \in Revisions \cup {NoRevision}
    BY <1>1 DEF Accept, NoRevision
  <2> QED BY <1>1, <1>2, <2>1, ReturnKeeps
<1>5. QueuedInv' /\ CallInv' /\ DeepInv' /\ MessageInv'
  BY <1>1, <1>2, <1>4 DEF QueuedInv, CallInv, DeepInv, Calling, ReceiptInv, MessageInv
<1>6. EndTurnInv' /\ TrueInv'
  <2>1. engine.turn \in Nat
    BY Typed DEF Engines
  <2>2. endTurn'.source = engine'.turn /\ endTurn'.source <= engine'.turn
    BY <1>1, <2>1
  <2> QED BY <1>1, <1>2, <1>3, <1>4, <2>2 DEF EndTurnInv, TrueInv, Calling
<1> QED BY <1>4, <1>5, <1>6 DEF ReceiptInv

-----------------------------------------------------------------------------
(* The deferred message, the timer and the native calls.                   *)

LEMMA KindNames ==
  ASSUME NEW kind \in Kinds
  PROVE  kind \notin {"action_status", "observe", "respond", "end_turn"} /\ kind \in Ops
<1>1. kind \in ToSet(HandlerOrder) /\ kind \in Ops
  BY DEF Kinds
<1>2. kind \in {HandlerOrder[i] : i \in 1 .. 10}
  BY <1>1 DEF ToSet, HandlerOrder
<1> QED BY <1>1, <1>2 DEF HandlerOrder

(* Of a history that is settled.                                           *)
LEMMA SettledOutcome ==
  ASSUME IInv, NEW id, NEW status \in {"completed", "rejected"}, Settle(id, status)
  PROVE  /\ history'.owner = history.owner
         /\ id \in Requests => history'.outcome[id] = status
         /\ \A j \in Requests : j # id => history'.outcome[j] = history.outcome[j]
<1>1. history'.outcome = [history.outcome EXCEPT ![id] = status] /\ history'.owner = history.owner
  BY Typed DEF Settle, Histories
<1> QED BY <1>1, Typed

LEMMA MarkedReceipt ==
  ASSUME IInv, NEW status \in Statuses
  PROVE  /\ [action EXCEPT !.status = status].id = action.id
         /\ [action EXCEPT !.status = status].status = status
BY Typed DEF Receipts

(* A deferred message finds its action, alone and not started.             *)
LEMMA DeferredAlone ==
  ASSUME IInv, ReceiptInv, DeferredMessage
  PROVE  /\ queued = {Chosen} /\ Chosen \in Kinds /\ ~Calling /\ ~sent /\ ~endTurn.pending
         /\ action.id = history.owner[Chosen] /\ action.id \in Requests
         /\ ~RequestOnTop /\ Natives = stack
         /\ messages # << >> /\ ~Deferred(Tail(messages)) /\ AtMostOne(Tail(messages))
         /\ Tail(messages) \in Seq({"request", "deferred"})
<1>1. messages # << >> /\ Head(messages) = "deferred" /\ Pumping
  BY DEF DeferredMessage
<1>2. /\ Deferred(messages) /\ ~Deferred(Tail(messages)) /\ AtMostOne(Tail(messages))
      /\ Tail(messages) \in Seq({"request", "deferred"})
  BY <1>1, MessageRetrieved, Typed DEF ReceiptInv, MessageInv
<1>3. queued # {} /\ ~Calling /\ ~sent
  BY <1>2 DEF ReceiptInv, MessageInv
<1>4. Chosen \in queued /\ Chosen \in Kinds
  BY <1>3, ChosenQueued
<1>5. queued = {Chosen} /\ action.id = history.owner[Chosen] /\ action.id \in Requests
  BY <1>4 DEF ReceiptInv, QueuedInv
<1>6. ~endTurn.pending
  BY <1>3 DEF ReceiptInv, EndTurnInv
<1> QED BY <1>1, <1>2, <1>3, <1>4, <1>5, <1>6, PumpingIsNative DEF Natives

(* Nothing is queued, started or called any more.                          *)
LEMMA NothingLeft ==
  ASSUME ReceiptInv, queued' = {}, ~sent', ~Calling', ~endTurn'.pending, DeepInv',
         ~RequestOnTop', ~Deferred(messages'), AtMostOne(messages'), TrueInv'
  PROVE  ReceiptInv'
BY DEF ReceiptInv, QueuedInv, CallInv, InsideInv, MessageInv, EndTurnInv, Deferred, AtMostOne

LEMMA RejectBeforeCallKeeps ==
  ASSUME IInv, ReceiptInv, RejectBeforeCall
  PROVE  ReceiptInv' /\ Natives' = Natives /\ action'.status = "rejected"
         /\ ~RequestOnTop'
<1>1. /\ queued = {Chosen} /\ Chosen \in Kinds /\ ~Calling /\ ~sent /\ ~endTurn.pending
      /\ action.id = history.owner[Chosen] /\ action.id \in Requests
      /\ ~RequestOnTop /\ messages # << >> /\ ~Deferred(Tail(messages))
      /\ AtMostOne(Tail(messages)) /\ Tail(messages) \in Seq({"request", "deferred"})
  BY DeferredAlone DEF RejectBeforeCall
<1>2. /\ UNCHANGED << stack, sent, endTurn, engine >>
      /\ action' = [action EXCEPT !.status = "rejected"] /\ queued' = queued \ {Chosen}
      /\ messages' = Tail(messages) \/ messages' = Append(Tail(messages), "request")
  BY DEF RejectBeforeCall
<1>3. ~Deferred(messages') /\ AtMostOne(messages')
  BY <1>1, <1>2, RequestAppended
<1>4. action'.status = "rejected"
  BY <1>2, MarkedReceipt DEF Statuses
<1>5. Natives' = Natives /\ ~RequestOnTop'
  BY <1>1, <1>2 DEF Natives, RequestOnTop, Top
<1>6. ~Calling' /\ DeepInv'
  BY <1>1, <1>5 DEF Calling, DeepInv, ReceiptInv
<1> QED BY <1>1, <1>2, <1>3, <1>4, <1>5, <1>6, NothingLeft DEF TrueInv

(* Of one action at a time no deferred message is spent on nothing.        *)
LEMMA SpentNever ==
  ASSUME IInv, ReceiptInv, SpentDeferredMessage
  PROVE  FALSE
BY DeferredAlone DEF SpentDeferredMessage

(* With no action's call innermost, all calls are of end turns.            *)
LEMMA EndTurnsBelow ==
  ASSUME IInv, ReceiptInv, ~Calling, NEW i \in 1 .. Len(Natives)
  PROVE  Natives[i].kind = "end_turn"
<1>1. CASE i = 1
  BY <1>1, NativesTyped DEF Calling
<1>2. CASE i # 1
  BY <1>2, NativesTyped DEF ReceiptInv, DeepInv
<1> QED BY <1>1, <1>2

LEMMA StartCallKeeps ==
  ASSUME IInv, ReceiptInv, StartCall
  PROVE  /\ ReceiptInv' /\ Calling' /\ ~RequestOnTop'
         /\ UNCHANGED << slot, client, action, endTurn, engine >>
<1>1. /\ queued = {Chosen} /\ Chosen \in Kinds /\ ~Calling /\ ~sent /\ ~endTurn.pending
      /\ action.id = history.owner[Chosen] /\ action.id \in Requests
      /\ messages # << >> /\ ~Deferred(Tail(messages)) /\ AtMostOne(Tail(messages))
  BY DeferredAlone DEF StartCall
<1>2. /\ UNCHANGED << slot, endTurn, action, generation, engine, client, history >>
      /\ Pumping /\ messages' = Tail(messages)
      /\ stack' = << Native(Chosen, history.owner[Chosen]) >> \o stack
      /\ queued' = IF Chosen \in ClearedFirst THEN queued \ {Chosen} ELSE queued
      /\ barrier' = (barrier \/ Chosen \in Barred) /\ sent' = (sent \/ Chosen = "development")
  BY DEF StartCall, slotVars, DeferredMessage
<1>3. Chosen \in AnyKind /\ history.owner[Chosen] \in Nat
  BY <1>1, Typed DEF AnyKind
<1>4. /\ ~RequestOnTop' /\ Natives' # << >>
      /\ Natives'[1] = Native(Chosen, history.owner[Chosen])
      /\ Len(Natives') = Len(Natives) + 1
      /\ \A i \in 2 .. Len(Natives') : Natives'[i] = Natives[i - 1]
  BY <1>2, <1>3, CallEntered
<1>5. /\ Natives'[1].kind = Chosen /\ Natives'[1].id = action.id
      /\ Natives'[1].at = "running"
  BY <1>1, <1>4 DEF Native
<1>6. DeepInv'
  <2> SUFFICES ASSUME NEW i \in 2 .. Len(Natives') PROVE Natives'[i].kind = "end_turn"
    BY DEF DeepInv
  <2>1. Len(Natives) \in Nat
    BY NativesTyped
  <2>2. i - 1 \in 1 .. Len(Natives)
    BY <1>4, <2>1
  <2> QED BY <1>1, <1>4, <2>2, EndTurnsBelow
<1>7. Calling'
  BY <1>1, <1>4, <1>5, KindNames DEF Calling
<1>8. CallInv'
  BY <1>1, <1>2, <1>5 DEF CallInv
<1>9. QueuedInv'
  <2>1. Chosen = "development" => Chosen \notin ClearedFirst
    BY DEF ClearedFirst
  <2> QED BY <1>1, <1>2, <2>1 DEF QueuedInv
<1>10. MessageInv' /\ InsideInv' /\ EndTurnInv' /\ TrueInv'
  BY <1>1, <1>2, <1>4
     DEF MessageInv, InsideInv, EndTurnInv, TrueInv, Deferred, AtMostOne, ReceiptInv
<1> QED BY <1>2, <1>4, <1>6, <1>7, <1>8, <1>9, <1>10 DEF ReceiptInv

(* Leaving an action's call: below it are end turns only.                  *)
LEMMA ActionLeft ==
  ASSUME IInv, ReceiptInv, NEW kind \in Kinds, Running(kind), Unstack
  PROVE  /\ Calling /\ Natives[1] = Top /\ Top.kind = kind /\ Top.id = action.id
         /\ action.id \in Requests /\ ~Calling' /\ DeepInv' /\ ~RequestOnTop'
         /\ ~Deferred(messages') /\ AtMostOne(messages')
<1>1. stack' = Tail(stack) /\ (messages' = messages \/ messages' = Append(messages, "request"))
  BY DEF Unstack, Post
<1>2. /\ ~RequestOnTop' /\ Natives # << >> /\ Top = Natives[1] /\ Top.kind = kind
      /\ Len(Natives') = Len(Natives) - 1 /\ Natives' = Tail(Natives)
      /\ \A i \in 1 .. Len(Natives') : Natives'[i] = Natives[i + 1]
  BY <1>1, CallLeft DEF Running
<1>3. Calling
  BY <1>2, KindNames DEF Calling
<1>4. Top.id = action.id /\ action.id \in Requests
  BY <1>2, <1>3 DEF ReceiptInv, CallInv
<1>5. ~Deferred(messages) /\ AtMostOne(messages)
  BY <1>3 DEF ReceiptInv, MessageInv
<1>6. ~Deferred(messages') /\ AtMostOne(messages')
  BY <1>1, <1>5, RequestAppended, Typed
<1>7. Len(Natives) \in Nat /\ Natives' \in Seq(NativeFrames)
  BY <1>2, NativesTyped
<1>8. ASSUME NEW i \in 1 .. Len(Natives')
      PROVE  Natives'[i].kind = "end_turn"
  <2>1. i + 1 \in 2 .. Len(Natives)
    BY <1>2, <1>7
  <2> QED BY <1>2, <2>1 DEF ReceiptInv, DeepInv
<1>9. ~Calling' /\ DeepInv'
  <2> DEFINE n == Natives'
  <2>1. n \in Seq(NativeFrames) /\ \A i \in 1 .. Len(n) : n[i].kind = "end_turn"
    BY <1>7, <1>8
  <2> HIDE DEF n
  <2>2. n # << >> => n[1].kind = "end_turn"
    BY <2>1
  <2>3. \A i \in 2 .. Len(n) : n[i].kind = "end_turn"
    BY <2>1
  <2> QED BY <2>2, <2>3 DEF n, Calling, DeepInv
<1> QED BY <1>2, <1>3, <1>4, <1>6, <1>9

LEMMA ReturnFromCallKeeps ==
  ASSUME IInv, ReceiptInv, NEW kind \in Kinds, NEW status \in {"completed", "rejected"},
         ReturnFromCall(kind, status)
  PROVE  ReceiptInv' /\ action'.status = status /\ ~RequestOnTop' /\ ~endTurn'.pending
<1>1. /\ UNCHANGED << slot, endTurn, engine >> /\ Running(kind) /\ Unstack
      /\ queued' = IF kind \in ClearedFirst THEN queued ELSE queued \ {kind}
      /\ sent' = (sent /\ kind # "development")
      /\ action' = [action EXCEPT !.status = status] /\ Settle(Top.id, status)
  BY DEF ReturnFromCall, slotVars
<1>2. /\ Calling /\ Natives[1] = Top /\ Top.kind = kind /\ Top.id = action.id
      /\ action.id \in Requests /\ ~Calling' /\ DeepInv' /\ ~RequestOnTop'
      /\ ~Deferred(messages') /\ AtMostOne(messages')
  BY <1>1, ActionLeft
<1>3. queued' = {}
  BY <1>1, <1>2 DEF ReceiptInv, CallInv
<1>4. ~sent'
  BY <1>1, <1>2 DEF ReceiptInv, CallInv, QueuedInv
<1>5. action'.status = status /\ action'.id = action.id
  BY <1>1, MarkedReceipt DEF Statuses
<1>6. TrueInv'
  BY <1>1, <1>2, <1>5, SettledOutcome DEF TrueInv
<1>7. ~endTurn'.pending
  BY <1>1, <1>2 DEF ReceiptInv, EndTurnInv
<1> QED BY <1>2, <1>3, <1>4, <1>5, <1>6, <1>7, NothingLeft

LEMMA DevelopmentSentKeeps ==
  ASSUME IInv, ReceiptInv, DevelopmentSent
  PROVE  /\ ReceiptInv' /\ queued' = {"development"} /\ ~RequestOnTop'
         /\ UNCHANGED << slot, client, action, endTurn, engine >>
<1>1. /\ UNCHANGED << slot, client, queued, sent, endTurn, action, engine, history >>
      /\ Running("development") /\ Unstack
  BY DEF DevelopmentSent, slotVars
<1>2. "development" \in Kinds
  <2>1. Calling /\ Natives[1].kind = "development"
    <3>1. ~RequestOnTop /\ Top.kind = "development" /\ stack # << >>
      BY <1>1 DEF Running, RequestOnTop
    <3>2. Natives = stack /\ Top = Natives[1]
      BY <3>1, NativesTyped DEF Natives, Top
    <3> QED BY <3>1, <3>2 DEF Calling
  <2> QED BY <2>1 DEF ReceiptInv, CallInv
<1>3. /\ Calling /\ Natives[1] = Top /\ Top.kind = "development" /\ ~Calling' /\ DeepInv'
      /\ ~RequestOnTop' /\ ~Deferred(messages') /\ AtMostOne(messages')
  BY <1>1, <1>2, ActionLeft DEF Running
<1>4. queued' = {"development"}
  BY <1>1, <1>3 DEF ReceiptInv, CallInv, ClearedFirst
<1>5. QueuedInv' /\ EndTurnInv' /\ TrueInv'
  BY <1>1, <1>3, <1>4 DEF ReceiptInv, QueuedInv, EndTurnInv, TrueInv
<1>6. CallInv' /\ InsideInv' /\ MessageInv'
  BY <1>3 DEF CallInv, InsideInv, MessageInv, Deferred, AtMostOne
<1> QED BY <1>1, <1>3, <1>4, <1>5, <1>6 DEF ReceiptInv

(* While end turns alone are on the thread their calls come and go.        *)
LEMMA EndTurnEntered ==
  ASSUME IInv, ReceiptInv, Pumping, ~Calling,
         stack' = << Native("end_turn", history.owner["end_turn"]) >> \o stack
  PROVE  ~Calling' /\ DeepInv' /\ ~RequestOnTop' /\ Natives'[1].at = "running"
<1>1. "end_turn" \in AnyKind /\ history.owner["end_turn"] \in Nat
  BY Typed DEF AnyKind
<1>2. /\ ~RequestOnTop' /\ Natives' # << >>
      /\ Natives'[1] = Native("end_turn", history.owner["end_turn"])
      /\ Len(Natives') = Len(Natives) + 1
      /\ \A i \in 2 .. Len(Natives') : Natives'[i] = Natives[i - 1]
  BY <1>1, CallEntered
<1>3. Natives'[1].kind = "end_turn" /\ Natives'[1].at = "running"
  BY <1>2 DEF Native
<1>4. DeepInv'
  <2> SUFFICES ASSUME NEW i \in 2 .. Len(Natives') PROVE Natives'[i].kind = "end_turn"
    BY DEF DeepInv
  <2>1. Len(Natives) \in Nat
    BY NativesTyped
  <2>2. i - 1 \in 1 .. Len(Natives)
    BY <1>2, <2>1
  <2> QED BY <1>2, <2>2, EndTurnsBelow
<1> QED BY <1>2, <1>3, <1>4 DEF Calling

LEMMA EndTurnTimerKeeps ==
  ASSUME IInv, ReceiptInv, EndTurnTimer
  PROVE  /\ ReceiptInv' /\ ~RequestOnTop' /\ UNCHANGED << slot, client, queued, engine >>
         /\ \/ /\ endTurn.pending /\ ~engine.modal /\ action' = action
               /\ endTurn'.pending /\ endTurn'.source = endTurn.source
               /\ endTurn'.returned = endTurn.returned
            \/ Natives' = Natives /\ action'.status = "rejected" /\ ~endTurn'.pending
<1>1. /\ UNCHANGED << slot, client, messages, barrier, queued, sent, engine >> /\ Pumping
      /\ ~RequestOnTop
  BY PumpingIsNative DEF EndTurnTimer, slotVars
<1>2. MessagesKept
  BY <1>1, UnchangedMessages
<1>3. ASSUME endTurn.pending, endTurn.source = engine.turn, Actionable
      PROVE  /\ ReceiptInv' /\ ~RequestOnTop' /\ ~engine.modal /\ action' = action
             /\ endTurn'.pending /\ endTurn'.source = endTurn.source
             /\ endTurn'.returned = endTurn.returned
  <2>1. /\ stack' = << Native("end_turn", history.owner["end_turn"]) >> \o stack
        /\ endTurn' = [endTurn EXCEPT !.timer = FALSE] /\ UNCHANGED << action, history >>
    BY <1>3 DEF EndTurnTimer
  <2>2. queued = {} /\ ~Calling
    BY <1>3 DEF ReceiptInv, EndTurnInv
  <2>3. ~Calling' /\ DeepInv' /\ ~RequestOnTop'
    BY <1>1, <2>1, <2>2, EndTurnEntered
  <2>4. /\ endTurn'.pending = endTurn.pending /\ endTurn'.source = endTurn.source
        /\ endTurn'.returned = endTurn.returned
    BY <2>1, Typed DEF Timers
  <2>5. QueuedInv' /\ EndTurnInv' /\ TrueInv'
    BY <1>1, <2>1, <2>3, <2>4 DEF ReceiptInv, QueuedInv, EndTurnInv, TrueInv
  <2>6. CallInv' /\ InsideInv' /\ MessageInv'
    BY <1>1, <1>2, <2>3 DEF CallInv, InsideInv, MessageInv, MessagesKept, ReceiptInv, Deferred, AtMostOne
  <2> QED BY <1>3, <2>1, <2>3, <2>4, <2>5, <2>6 DEF ReceiptInv, Actionable
<1>4. ASSUME ~(endTurn.pending /\ endTurn.source = engine.turn /\ Actionable)
      PROVE  /\ ReceiptInv' /\ ~RequestOnTop'
             /\ Natives' = Natives /\ action'.status = "rejected" /\ ~endTurn'.pending
  <2>1. /\ endTurn' = [endTurn EXCEPT !.timer = FALSE, !.pending = FALSE]
        /\ action' = [action EXCEPT !.status = "rejected"] /\ stack' = stack
        /\ Settle(history.owner["end_turn"], "rejected")
    BY <1>4 DEF EndTurnTimer
  <2>2. action'.status = "rejected" /\ action'.id = action.id
    BY <2>1, MarkedReceipt DEF Statuses
  <2>3. ~endTurn'.pending
    BY <2>1, Typed DEF Timers
  <2>4. history'.owner = history.owner
    BY <2>1, SettledOutcome
  <2>5. Natives' = Natives /\ ~RequestOnTop' /\ Calling' = Calling
    BY <1>1, <2>1 DEF Natives, RequestOnTop, Top, Calling
  <2>6. QueuedInv' /\ EndTurnInv' /\ TrueInv' /\ InsideInv'
    BY <1>1, <2>2, <2>3, <2>4, <2>5
       DEF ReceiptInv, QueuedInv, EndTurnInv, TrueInv, InsideInv
  <2>7. CallInv' /\ DeepInv' /\ MessageInv'
    BY <1>1, <1>2, <2>2, <2>5
       DEF CallInv, DeepInv, MessageInv, MessagesKept, ReceiptInv, Deferred, AtMostOne
  <2> QED BY <2>2, <2>3, <2>5, <2>6, <2>7 DEF ReceiptInv
<1> QED BY <1>1, <1>3, <1>4

(* The end turn's own call returns: the receipt it settles is the pending  *)
(* end turn's, whichever of the two that is.                               *)
LEMMA ReturnFromEndTurnKeeps ==
  ASSUME IInv, ReceiptInv, ReturnFromEndTurn
  PROVE  /\ ReceiptInv' /\ ~RequestOnTop' /\ UNCHANGED << slot, client, queued, engine >>
         /\ Natives # << >> /\ Natives[1].at = "running" /\ ~Calling
         /\ endTurn'.pending => /\ endTurn.pending /\ endTurn'.source = endTurn.source
                                /\ action' = action /\ engine.turn = endTurn.source
                                /\ Actionable => engine.committed
         /\ endTurn.pending /\ ~endTurn'.pending => action'.status # "pending"
         /\ ~endTurn.pending => action' = action
<1>1. /\ UNCHANGED << slot, client, messages, barrier, queued, sent, engine >>
      /\ Running("end_turn") /\ Top.at = "running" /\ stack' = Tail(stack)
  BY DEF ReturnFromEndTurn, slotVars
<1>2. /\ ~RequestOnTop' /\ Natives # << >> /\ Top = Natives[1] /\ Top.kind = "end_turn"
      /\ Len(Natives') = Len(Natives) - 1 /\ Natives' = Tail(Natives)
      /\ \A i \in 1 .. Len(Natives') : Natives'[i] = Natives[i + 1]
  BY <1>1, CallLeft DEF Running
<1>3. ~Calling
  BY <1>2 DEF Calling
<1>4. Len(Natives) \in Nat /\ Natives' \in Seq(NativeFrames)
  BY <1>2, NativesTyped
<1>5. ~Calling' /\ DeepInv'
  <2> DEFINE n == Natives'
  <2>1. ASSUME NEW i \in 1 .. Len(n)
        PROVE  n[i].kind = "end_turn"
    <3>1. i + 1 \in 1 .. Len(Natives)
      BY <1>2, <1>4
    <3> QED BY <1>2, <1>3, <3>1, EndTurnsBelow
  <2>2. n \in Seq(NativeFrames)
    BY <1>4
  <2> HIDE DEF n
  <2>3. n # << >> => n[1].kind = "end_turn"
    BY <2>1, <2>2
  <2>4. \A i \in 2 .. Len(n) : n[i].kind = "end_turn"
    BY <2>1, <2>2
  <2> QED BY <2>3, <2>4 DEF n, Calling, DeepInv
<1> DEFINE refused == endTurn.pending /\ engine.turn = endTurn.source /\ Actionable
                      /\ ~engine.committed
           ended == endTurn.pending /\ engine.turn # endTurn.source
           back == [endTurn EXCEPT !.returned = TRUE]
<1>6. back \in Timers /\ back.pending = endTurn.pending /\ back.source = endTurn.source
      /\ [back EXCEPT !.pending = FALSE].pending = FALSE
  BY Typed DEF Timers
<1>7. /\ endTurn' = IF refused \/ ended THEN [back EXCEPT !.pending = FALSE] ELSE back
      /\ action' = IF refused THEN [action EXCEPT !.status = "rejected"]
                   ELSE IF ended THEN [action EXCEPT !.status = "completed"]
                   ELSE action
      /\ \/ history.outcome[Top.id] = "none" /\ Settle(Top.id, "rejected")
         \/ UNCHANGED history
  BY <1>6 DEF ReturnFromEndTurn
<1>8. /\ endTurn'.pending => ~refused /\ ~ended /\ endTurn.pending
                             /\ endTurn'.source = endTurn.source
      /\ endTurn.pending /\ ~endTurn'.pending => refused \/ ended
  BY <1>6, <1>7
<1>9. /\ action'.id = action.id
      /\ refused => action'.status = "rejected"
      /\ ~refused /\ ended => action'.status = "completed"
      /\ ~refused /\ ~ended => action' = action
  BY <1>7, MarkedReceipt DEF Statuses
<1>10. /\ history'.owner = history.owner
       /\ action.id \in Requests /\ history.outcome[action.id] = "completed" =>
            history'.outcome[action.id] = "completed"
  BY <1>7, SettledOutcome
<1>11. ended => action.id \in Requests /\ history.outcome[action.id] = "completed"
  BY DEF ReceiptInv, EndTurnInv
<1> HIDE DEF refused, ended
<1>12. TrueInv'
  BY <1>9, <1>10, <1>11 DEF ReceiptInv, TrueInv
<1>13. QueuedInv' /\ CallInv' /\ InsideInv'
  BY <1>1, <1>2, <1>5, <1>9, <1>10 DEF ReceiptInv, QueuedInv, CallInv, InsideInv
<1>14. MessageInv'
  BY <1>1, <1>5 DEF ReceiptInv, MessageInv, Deferred, AtMostOne
<1>15. EndTurnInv'
  BY <1>1, <1>5, <1>8, <1>9, <1>10 DEF ReceiptInv, EndTurnInv
<1>16. endTurn'.pending => engine.turn = endTurn.source /\ (Actionable => engine.committed)
  BY <1>8 DEF refused, ended
<1>17. ~endTurn.pending => action' = action
  BY <1>9 DEF refused, ended
<1> QED BY <1>1, <1>2, <1>3, <1>5, <1>8, <1>9, <1>12, <1>13, <1>14, <1>15, <1>16, <1>17
        DEF ReceiptInv

(* Dialogs are opened and left by the innermost call.                      *)
LEMMA DialogKeeps ==
  ASSUME IInv, ReceiptInv, Inside, NEW at \in {"running", "dialog"},
         stack' = << [Top EXCEPT !.at = at] >> \o Tail(stack),
         at = "dialog" => Top.kind \in DialogKinds,
         UNCHANGED << messages, barrier, queued, sent, endTurn, action, history >>,
         engine'.turn = engine.turn
  PROVE  /\ ReceiptInv' /\ ~RequestOnTop' /\ Calling' = Calling
         /\ Natives' # << >> /\ Natives'[1].at = at
<1>1. /\ ~RequestOnTop' /\ Natives # << >> /\ Top = Natives[1] /\ Natives' # << >>
      /\ Len(Natives') = Len(Natives) /\ Natives'[1].at = at
      /\ Natives'[1].kind = Natives[1].kind /\ Natives'[1].id = Natives[1].id
      /\ \A i \in 2 .. Len(Natives') : Natives'[i] = Natives[i]
  BY CallMoved
<1>2. Calling' = Calling
  BY <1>1 DEF Calling
<1>3. CallInv' /\ DeepInv' /\ InsideInv'
  BY <1>1, <1>2 DEF ReceiptInv, CallInv, DeepInv, InsideInv
<1>4. QueuedInv' /\ EndTurnInv' /\ TrueInv'
  BY <1>2 DEF ReceiptInv, QueuedInv, EndTurnInv, TrueInv
<1>5. MessageInv'
  BY <1>2 DEF ReceiptInv, MessageInv, Deferred, AtMostOne
<1> QED BY <1>1, <1>2, <1>3, <1>4, <1>5 DEF ReceiptInv

LEMMA OpenDialogKeeps ==
  ASSUME IInv, ReceiptInv, OpenDialog
  PROVE  /\ ReceiptInv' /\ ~RequestOnTop' /\ Calling' = Calling
         /\ Natives' # << >> /\ Natives'[1].at = "dialog"
<1>1. /\ UNCHANGED << messages, barrier, queued, sent, endTurn, action, history >>
      /\ Inside /\ Top.kind \in DialogKinds
      /\ stack' = << [Top EXCEPT !.at = "dialog"] >> \o Tail(stack)
      /\ engine' = [engine EXCEPT !.modal = TRUE, !.dialogs = @ + 1]
  BY DEF OpenDialog, actionVars
<1>2. engine'.turn = engine.turn
  BY <1>1, Typed DEF Engines
<1> QED BY <1>1, <1>2, DialogKeeps

LEMMA LeaveDialogKeeps ==
  ASSUME IInv, ReceiptInv, LeaveDialog
  PROVE  ReceiptInv' /\ ~RequestOnTop' /\ Calling' = Calling
BY DialogKeeps DEF LeaveDialog, actionVars

LEMMA CommitTurnKeeps ==
  ASSUME IInv, ReceiptInv, CommitTurn
  PROVE  ReceiptInv' /\ Natives' = Natives
<1>1. /\ UNCHANGED << messages, stack, barrier, queued, sent, endTurn, action, history >>
      /\ engine' = [engine EXCEPT !.committed = TRUE, !.mine = FALSE]
  BY DEF CommitTurn, actionVars
<1>2. engine'.turn = engine.turn
  BY <1>1, Typed DEF Engines
<1>3. Natives' = Natives /\ InsideInv'
  BY <1>1 DEF Natives, RequestOnTop, Top, ReceiptInv, InsideInv, Calling
<1> QED BY <1>1, <1>2, <1>3, UnchangedMessages, KeptStep DEF ReceiptKept

(* The next turn is what completes an end turn.                            *)
LEMMA NextTurnKeeps ==
  ASSUME IInv, ReceiptInv, NextTurn
  PROVE  /\ ReceiptInv' /\ Natives' = Natives
         /\ engine'.turn = engine.turn + 1 /\ engine'.mine /\ engine'.modal = engine.modal
<1>1. /\ UNCHANGED << messages, stack, barrier, queued, sent, endTurn, action >>
      /\ Settle(history.owner["end_turn"], "completed")
      /\ engine' = [engine EXCEPT !.turn = @ + 1, !.mine = TRUE, !.committed = FALSE]
  BY DEF NextTurn, actionVars
<1>2. /\ engine'.turn = engine.turn + 1 /\ engine'.mine /\ engine'.modal = engine.modal
      /\ engine.turn \in Nat /\ endTurn.source \in Nat
  BY <1>1, Typed DEF Engines, Timers
<1>3. /\ history'.owner = history.owner
      /\ action.id \in Requests /\ history.outcome[action.id] = "completed" =>
           history'.outcome[action.id] = "completed"
      /\ action.id \in Requests /\ action.id = history.owner["end_turn"] =>
           history'.outcome[action.id] = "completed"
  BY <1>1, SettledOutcome
<1>4. Natives' = Natives /\ InsideInv' /\ Calling' = Calling
  BY <1>1 DEF Natives, RequestOnTop, Top, ReceiptInv, InsideInv, Calling
<1>5. QueuedInv' /\ TrueInv' /\ CallInv' /\ DeepInv'
  BY <1>1, <1>3, <1>4 DEF ReceiptInv, QueuedInv, TrueInv, CallInv, DeepInv
<1>6. EndTurnInv'
  BY <1>1, <1>2, <1>3, <1>4 DEF ReceiptInv, EndTurnInv
<1>7. MessageInv'
  BY <1>1, <1>4 DEF ReceiptInv, MessageInv, Deferred, AtMostOne
<1> QED BY <1>2, <1>4, <1>5, <1>6, <1>7 DEF ReceiptInv

-----------------------------------------------------------------------------
(* The receipts are true.                                                  *)

LEMMA InitReceipt ==
  ASSUME Init
  PROVE  ReceiptInv
<1>1. /\ stack = << >> /\ messages = << >> /\ queued = {} /\ ~sent /\ ~endTurn.pending
      /\ action.status = "none"
  BY DEF Init
<1>2. Natives = << >> /\ ~RequestOnTop
  BY <1>1 DEF Natives, RequestOnTop
<1>3. QueuedInv /\ CallInv /\ DeepInv /\ InsideInv /\ EndTurnInv /\ TrueInv
  BY <1>1, <1>2 DEF QueuedInv, CallInv, DeepInv, InsideInv, EndTurnInv, TrueInv, Calling
<1>4. MessageInv
  BY <1>1 DEF MessageInv, Deferred, AtMostOne
<1> QED BY <1>3, <1>4 DEF ReceiptInv

LEMMA NextInvariant ==
  ASSUME IInv, Next
  PROVE  IInv'
BY WorkerSteps, RequestSteps, BridgeSteps, EngineSteps DEF Next

LEMMA NextReceipt ==
  ASSUME OneAtATime, IInv, ReceiptInv, [Next]_vars
  PROVE  ReceiptInv'
<1>1. CASE Worker
  BY <1>1, WorkerKeeps
<1>2. CASE Request
  <2>1. IInv'
    BY <1>2, NextInvariant DEF Next
  <2> QED BY <1>2, <2>1, RequestMessageKeeps, WaitTaskKeeps, PublishKeeps, SignalKeeps,
             QueueEndTurnKeeps, RespondKeeps, ReadKeeps, RefuseKeeps, QueueActionKeeps
          DEF Request
<1>3. CASE Bridge
  BY <1>3, RejectBeforeCallKeeps, StartCallKeeps, SpentNever, DevelopmentSentKeeps,
     EndTurnTimerKeeps, ReturnFromEndTurnKeeps, ReturnFromCallKeeps DEF Bridge
<1>4. CASE Engine
  BY <1>4, OpenDialogKeeps, LeaveDialogKeeps, CommitTurnKeeps, NextTurnKeeps DEF Engine
<1>5. CASE UNCHANGED vars
  <2>1. /\ UNCHANGED << messages, stack, barrier, queued, sent, endTurn, action, engine, history >>
    BY <1>5 DEF vars, actionVars
  <2>2. Natives' = Natives /\ InsideInv'
    BY <2>1 DEF Natives, RequestOnTop, Top, ReceiptInv, InsideInv, Calling
  <2> QED BY <2>1, <2>2, UnchangedMessages, KeptStep DEF ReceiptKept
<1> QED BY <1>1, <1>2, <1>3, <1>4, <1>5 DEF Next

LEMMA ReceiptInvariant ==
  ASSUME OneAtATime
  PROVE  Spec => []ReceiptInv
<1>1. Init => ReceiptInv
  BY InitReceipt
<1>2. IInv /\ ReceiptInv /\ [Next]_vars => ReceiptInv'
  BY NextReceipt
<1> QED BY <1>1, <1>2, Invariant, PTL DEF Spec

(* A receipt that says completed is that of an action whose own native     *)
(* call completed or whose turn advanced, whatever was nested in what      *)
(* (deferred_action, agent_bridge_handle_deferred_message).                *)
THEOREM ReceiptsAreTrue ==
  ASSUME OneAtATime
  PROVE  Spec => []CompletedIsTrue
<1>1. ReceiptInv => CompletedIsTrue
  BY DEF ReceiptInv, TrueInv, CompletedIsTrue
<1> QED BY <1>1, ReceiptInvariant, PTL

-----------------------------------------------------------------------------
(* What the client knows of the receipt.                                   *)

(* Nothing becomes overdue but by the next turn.                           *)
NotLater ==
  engine'.turn = engine.turn /\ (Overdue' => Overdue /\ action' = action)

LEMMA SoundStays ==
  ASSUME NotLater, NEW r, Sound(r)
  PROVE  Sound(r)'
BY DEF NotLater, Sound

LEMMA SeenStep ==
  ASSUME NotLater, Sound(client'.seen), Sound(slot'.seen), Sound(slot'.revision),
         RequestOnTop' => Sound(Top'.seen) /\ (Sound(Top'.revision) \/ Sound(Top.revision)')
  PROVE  SeenInv'
<1>1. \A r : Sound(r) => (r # NoRevision =>
         r[4] <= engine'.turn /\ ~(Overdue' /\ r[4] = engine'.turn /\ r[2] = action'))
  BY DEF NotLater, Sound
<1> QED BY <1>1 DEF SeenInv, Sound

LEMMA SoundNothing == Sound(NoRevision)
BY DEF Sound

(* Steps that touch neither actions nor engine.                            *)
LEMMA QuietStep ==
  ASSUME OrderInv, Natives' = Natives, UNCHANGED << queued, endTurn, action, engine >>
  PROVE  WaitingInv' /\ TurnInv' /\ NotLater
BY DEF OrderInv, WaitingInv, TurnInv, NotLater, Overdue, Calling

LEMMA WorkerOrder ==
  ASSUME IInv, OrderInv, Worker
  PROVE  OrderInv'
<1> DEFINE Kept == /\ UNCHANGED << stack, queued, endTurn, action, engine >>
                   /\ client'.seen \in {client.seen, slot.revision}
                   /\ slot'.seen \in {slot.seen, client.seen}
                   /\ slot'.revision \in {slot.revision, NoRevision}
<1>1. client \in Clients /\ slot \in Slots
  BY DEF IInv, Types, SharedTypes
<1>2. ASSUME NEW op, Store(op)
      PROVE  Kept
  BY <1>1, <1>2 DEF Store, actionVars, Slots, NoRevision
<1>3. ASSUME Receive \/ PostRequest
      PROVE  Kept
  BY <1>1, <1>3 DEF Receive, PostRequest, actionVars, Slots
<1>4. ASSUME NEW how, NEW from, NEW revision \in {NoRevision, slot.revision},
             Answer(how, from, revision)
      PROVE  client'.seen \in {client.seen, slot.revision}
  BY <1>1, <1>4 DEF Answer, Clients, NoRevision
<1>5. ASSUME TimeOut \/ Wake \/ ReadResponse
      PROVE  Kept
  <2>1. UNCHANGED << stack, queued, endTurn, action, engine, slot >>
    BY <1>5 DEF TimeOut, Wake, ReadResponse, actionVars
  <2>2. \/ UNCHANGED client
        \/ Answer("game_timeout", 0, NoRevision)
        \/ Answer("response", slot.response, slot.revision)
        \/ Answer("superseded_request", 0, NoRevision)
    BY <1>5 DEF TimeOut, Wake, ReadResponse, NoRevision
  <2> QED BY <1>4, <2>1, <2>2
<1>6. Kept
  BY <1>2, <1>3, <1>5 DEF Worker
<1>7. Natives' = Natives /\ RequestOnTop' = RequestOnTop /\ Top' = Top
  BY <1>6 DEF Natives, RequestOnTop, Top
<1>8. WaitingInv' /\ TurnInv' /\ NotLater
  BY <1>6, <1>7, QuietStep
<1>9. SeenInv'
  BY <1>6, <1>7, <1>8, SeenStep, SoundNothing DEF OrderInv, SeenInv
<1> QED BY <1>8, <1>9 DEF OrderInv

LEMMA TakeOrder ==
  ASSUME OneAtATime, IInv, ReceiptInv, OrderInv, RequestMessage \/ WaitTask
  PROVE  OrderInv'
<1>1. /\ UNCHANGED << barrier, queued, endTurn, action, engine, client >> /\ Pumping
      /\ (Serviceable /\ Take) \/ UNCHANGED << slot, stack >>
  BY DEF RequestMessage, WaitTask, actionVars
<1>2. CASE Serviceable /\ Take
  <2>1. /\ Natives' = Natives /\ RequestOnTop'
        /\ Top'.seen = slot.seen /\ Top'.revision = NoRevision
    BY <1>1, <1>2, TakeKeeps
  <2>2. slot'.seen = slot.seen /\ slot'.revision = slot.revision
    BY <1>2 DEF Take, IInv, Types, SharedTypes, Slots
  <2>3. WaitingInv' /\ TurnInv' /\ NotLater
    BY <1>1, <2>1, QuietStep
  <2> QED BY <1>1, <2>1, <2>2, <2>3, SeenStep, SoundNothing DEF OrderInv, SeenInv
<1>3. CASE UNCHANGED << slot, stack >>
  <2>1. Natives' = Natives /\ RequestOnTop' = RequestOnTop /\ Top' = Top
    BY <1>3 DEF Natives, RequestOnTop, Top
  <2>2. WaitingInv' /\ TurnInv' /\ NotLater
    BY <1>1, <2>1, QuietStep
  <2> QED BY <1>1, <1>3, <2>1, <2>2, SeenStep DEF OrderInv, SeenInv
<1> QED BY <1>1, <1>2, <1>3

LEMMA PublishOrder ==
  ASSUME IInv, ReceiptInv, OrderInv, Publish \/ Signal
  PROVE  OrderInv'
<1>1. UNCHANGED << queued, endTurn, action, engine, client >> /\ RequestOnTop
  BY DEF Publish, Signal, actionVars, RequestOnTop
<1>2. /\ Natives' = Natives
      /\ RequestOnTop' => Top'.seen = Top.seen /\ Top'.revision = Top.revision
  BY PublishKeeps, SignalKeeps
<1>3. slot \in Slots
  BY DEF IInv, Types, SharedTypes
<1>4. slot'.seen = slot.seen /\ slot'.revision \in {slot.revision, Top.revision}
  <2>1. ASSUME Publish
        PROVE  slot'.seen = slot.seen /\ slot'.revision \in {slot.revision, Top.revision}
    BY <1>3, <2>1 DEF Publish, Slots
  <2>2. ASSUME Signal
        PROVE  slot'.seen = slot.seen /\ slot'.revision = slot.revision
    BY <1>3, <2>2 DEF Signal, Slots
  <2> QED BY <2>1, <2>2
<1>5. WaitingInv' /\ TurnInv' /\ NotLater
  BY <1>1, <1>2, QuietStep
<1>6. SeenInv'
  BY <1>1, <1>2, <1>4, <1>5, SeenStep DEF OrderInv, SeenInv
<1> QED BY <1>5, <1>6 DEF OrderInv

(* A request that returns without a revision leaves the slot and the client. *)
LEMMA ReturnedSeen ==
  ASSUME OrderInv, NotLater, UNCHANGED << slot, client >>, RequestOnTop,
         Top'.seen = Top.seen, Top'.revision = NoRevision
  PROVE  SeenInv'
BY SeenStep, SoundNothing DEF OrderInv, SeenInv

(* Refreshing settles the receipt or leaves it.                            *)
LEMMA RefreshOrder ==
  ASSUME IInv, ReceiptInv, OrderInv, Natives' = Natives, UNCHANGED queued,
         Refresh \/ UNCHANGED << action, endTurn >>,
         engine'.turn = engine.turn, engine'.mine = engine.mine,
         engine'.committed = engine.committed, engine'.modal => engine.modal
  PROVE  WaitingInv' /\ TurnInv' /\ NotLater
<1>1. /\ action'.status = "pending" => action' = action
      /\ action'.status = "pending" /\ endTurn.pending => endTurn'.pending
      /\ endTurn'.pending => /\ endTurn.pending /\ endTurn'.source = endTurn.source
                             /\ endTurn'.returned = endTurn.returned
  BY RefreshSettles DEF Refresh
<1> QED BY <1>1 DEF OrderInv, WaitingInv, TurnInv, NotLater, Overdue, Calling

LEMMA RefuseOrder ==
  ASSUME IInv, ReceiptInv, OrderInv, NEW op \in Commands, Refuse(op)
  PROVE  OrderInv'
<1>1. /\ UNCHANGED << slot, client, queued, engine >> /\ RequestOnTop
      /\ Refresh \/ UNCHANGED << action, endTurn >>
  BY TakenTop DEF Refuse, slotVars
<1>2. Natives' = Natives /\ Top'.seen = Top.seen /\ Top'.revision = NoRevision
  BY RefuseKeeps
<1>3. WaitingInv' /\ TurnInv' /\ NotLater
  BY <1>1, <1>2, RefreshOrder
<1> QED BY <1>1, <1>2, <1>3, ReturnedSeen DEF OrderInv

LEMMA RespondOrder ==
  ASSUME IInv, ReceiptInv, OrderInv, Respond
  PROVE  OrderInv'
<1>1. /\ UNCHANGED << slot, client, queued >> /\ RequestOnTop /\ Refresh
      /\ engine' = [engine EXCEPT !.modal = FALSE]
  BY TakenTop DEF Respond, Accept, slotVars
<1>2. Natives' = Natives /\ Top'.seen = Top.seen /\ Top'.revision = NoRevision
  BY RespondKeeps
<1>3. /\ engine'.turn = engine.turn /\ engine'.mine = engine.mine
      /\ engine'.committed = engine.committed /\ ~engine'.modal
  BY <1>1, Typed DEF Engines
<1>4. WaitingInv' /\ TurnInv' /\ NotLater
  BY <1>1, <1>2, <1>3, RefreshOrder
<1> QED BY <1>1, <1>2, <1>4, ReturnedSeen DEF OrderInv

(* A snapshot is taken after a refresh: its turn is not overdue.           *)
LEMMA ReadOrder ==
  ASSUME IInv, ReceiptInv, OrderInv, NEW op \in Ops \cap Reads, NEW verdict \in Verdicts,
         Read(op, verdict)
  PROVE  OrderInv'
<1>1. /\ UNCHANGED << slot, client, engine >> /\ RequestOnTop
      /\ endTurn' = RefreshedEndTurn /\ Settleable(verdict) /\ SettleDevelopment(verdict)
  BY TakenTop DEF Read, slotVars
<1>2. /\ Natives' = Natives /\ Top'.seen = Top.seen
      /\ Top'.revision = IF op = "observe" THEN Revision' ELSE NoRevision
  BY ReadKeeps
<1>3. ~Overdue'
  BY <1>1, RefreshSettles DEF Overdue, EndTurnSettles
<1>4. WaitingInv' /\ TurnInv'
  <2>1. CASE verdict = "none"
    <3>1. Refresh /\ UNCHANGED queued
      BY <1>1, <2>1 DEF SettleDevelopment, Refresh
    <3> QED BY <1>1, <1>2, <3>1, RefreshOrder
  <2>2. CASE verdict # "none"
    <3>1. sent /\ action' = [RefreshedAction EXCEPT !.status = verdict] /\ ~barrier
      BY <1>1, <2>2 DEF SettleDevelopment, Settleable
    <3>2. action'.status # "pending"
      BY <3>1, Refreshing DEF Receipts, Verdicts
    <3>3. ~endTurn'.pending
      BY <1>1, <3>1, SettledDevelopment, RefreshSettles
    <3> QED BY <1>1, <1>2, <3>2, <3>3 DEF OrderInv, WaitingInv, TurnInv
  <2> QED BY <2>1, <2>2
<1>5. NotLater
  BY <1>1, <1>3 DEF NotLater
<1>6. Sound(Revision)'
  <2>1. engine'.turn \in Nat /\ Revision'[4] = engine'.turn
    BY <1>1, Typed DEF Engines, Revision
  <2> QED BY <1>3, <2>1 DEF Sound
<1>7. SeenInv'
  <2>1. \A r : Sound(r) => (r # NoRevision =>
          r[4] <= engine'.turn /\ ~(Overdue' /\ r[4] = engine'.turn /\ r[2] = action'))
    BY <1>5 DEF NotLater, Sound
  <2>2. RequestOnTop' => Sound(Top.seen)' /\ Sound(Top.revision)'
    <3>1. Sound(Top.seen)'
      BY <1>1, <1>2, <2>1 DEF OrderInv, SeenInv, Sound
    <3>2. Sound(Top.revision)'
      BY <1>2, <1>6 DEF Sound
    <3> QED BY <3>1, <3>2
  <2>3. Sound(client.seen)' /\ Sound(slot.seen)' /\ Sound(slot.revision)'
    BY <1>1, <2>1 DEF OrderInv, SeenInv, Sound
  <2> QED BY <2>2, <2>3 DEF SeenInv
<1> QED BY <1>4, <1>7 DEF OrderInv

(* A command begins a receipt that waits, with no older turn pending.      *)
LEMMA QueueActionOrder ==
  ASSUME OneAtATime, IInv, IInv', ReceiptInv, OrderInv, NEW kind \in Kinds, QueueAction(kind)
  PROVE  OrderInv'
<1>1. /\ UNCHANGED << slot, client, engine >> /\ queued' = queued \cup {kind}
      /\ endTurn' = RefreshedEndTurn /\ Accept(kind)
  BY DEF QueueAction, slotVars
<1>2. Natives' = Natives /\ Top'.seen = Top.seen /\ Top'.revision = NoRevision
  BY QueueActionKeeps
<1>3. kind \in Commands /\ kind # "respond"
  BY KindNames DEF Commands, Reads, Polls
<1>4. RequestOnTop /\ ~endTurn'.pending
  BY <1>1, <1>3, AcceptedAlone
<1>5. WaitingInv' /\ TurnInv' /\ NotLater
  BY <1>1, <1>2, <1>4 DEF OrderInv, WaitingInv, TurnInv, NotLater, Overdue
<1> QED BY <1>1, <1>2, <1>4, <1>5, ReturnedSeen DEF OrderInv

LEMMA QueueEndTurnOrder ==
  ASSUME OneAtATime, IInv, IInv', ReceiptInv, OrderInv, QueueEndTurn
  PROVE  OrderInv'
<1>1. /\ UNCHANGED << slot, client, engine >> /\ RequestOnTop
      /\ endTurn'.pending /\ ~endTurn'.returned /\ endTurn'.source = engine.turn
  BY DEF QueueEndTurn, slotVars, Accept, TakenRequest, RequestOnTop
<1>2. Natives' = Natives /\ Top'.seen = Top.seen /\ Top'.revision = NoRevision
  BY QueueEndTurnKeeps
<1>3. WaitingInv' /\ TurnInv' /\ NotLater
  BY <1>1, <1>2 DEF OrderInv, WaitingInv, TurnInv, NotLater, Overdue
<1> QED BY <1>1, <1>2, <1>3, ReturnedSeen DEF OrderInv

(* Steps of the bridge leave what the client and the slot know.            *)
LEMMA LeftSeen ==
  ASSUME OrderInv, NotLater, UNCHANGED << slot, client >>, ~RequestOnTop'
  PROVE  SeenInv'
BY SeenStep DEF OrderInv, SeenInv

LEMMA RejectBeforeCallOrder ==
  ASSUME IInv, ReceiptInv, OrderInv, RejectBeforeCall
  PROVE  OrderInv'
<1>1. UNCHANGED << slot, client, endTurn, engine >>
  BY DEF RejectBeforeCall, slotVars
<1>2. Natives' = Natives /\ action'.status = "rejected" /\ ~RequestOnTop'
  BY RejectBeforeCallKeeps
<1>3. WaitingInv' /\ TurnInv' /\ NotLater
  BY <1>1, <1>2 DEF OrderInv, WaitingInv, TurnInv, NotLater, Overdue
<1> QED BY <1>1, <1>2, <1>3, LeftSeen DEF OrderInv

LEMMA StartCallOrder ==
  ASSUME IInv, ReceiptInv, OrderInv, StartCall
  PROVE  OrderInv'
<1>1. /\ Calling' /\ ~RequestOnTop'
      /\ UNCHANGED << slot, client, action, endTurn, engine >>
  BY StartCallKeeps
<1>2. ~engine.modal
  BY DEF StartCall, Actionable
<1>3. WaitingInv' /\ TurnInv' /\ NotLater
  BY <1>1, <1>2 DEF OrderInv, WaitingInv, TurnInv, NotLater, Overdue
<1> QED BY <1>1, <1>3, LeftSeen DEF OrderInv

(* A call that is running has no dialog open.                              *)
LEMMA RunningOpensNone ==
  ASSUME IInv, OrderInv, NEW kind, Running(kind), Top.at = "running", stack' = Tail(stack)
  PROVE  ~engine.modal
BY CallLeft DEF OrderInv, TurnInv

LEMMA ReturnFromCallOrder ==
  ASSUME IInv, ReceiptInv, OrderInv, NEW kind \in Kinds,
         NEW status \in {"completed", "rejected"}, ReturnFromCall(kind, status)
  PROVE  OrderInv'
<1>1. UNCHANGED << slot, client, endTurn, engine >> /\ Running(kind) /\ Top.at = "running"
      /\ stack' = Tail(stack)
  BY DEF ReturnFromCall, slotVars, Unstack
<1>2. action'.status = status /\ ~RequestOnTop' /\ ~endTurn'.pending
  BY ReturnFromCallKeeps
<1>3. ~engine.modal
  BY <1>1, RunningOpensNone
<1>4. WaitingInv' /\ TurnInv' /\ NotLater
  BY <1>1, <1>2, <1>3 DEF OrderInv, WaitingInv, TurnInv, NotLater, Overdue
<1> QED BY <1>1, <1>2, <1>4, LeftSeen DEF OrderInv

LEMMA DevelopmentSentOrder ==
  ASSUME IInv, ReceiptInv, OrderInv, DevelopmentSent
  PROVE  OrderInv'
<1>1. Running("development") /\ Top.at = "running" /\ stack' = Tail(stack)
  BY DEF DevelopmentSent, Unstack
<1>2. /\ queued' = {"development"} /\ ~RequestOnTop'
      /\ UNCHANGED << slot, client, action, endTurn, engine >>
  BY DevelopmentSentKeeps
<1>3. ~engine.modal
  BY <1>1, RunningOpensNone
<1>4. WaitingInv' /\ TurnInv' /\ NotLater
  BY <1>2, <1>3 DEF OrderInv, WaitingInv, TurnInv, NotLater, Overdue
<1> QED BY <1>2, <1>4, LeftSeen DEF OrderInv

LEMMA EndTurnTimerOrder ==
  ASSUME IInv, ReceiptInv, OrderInv, EndTurnTimer
  PROVE  OrderInv'
<1>1. ~RequestOnTop' /\ UNCHANGED << slot, client, queued, engine >>
  BY EndTurnTimerKeeps
<1>2. CASE /\ endTurn.pending /\ ~engine.modal /\ action' = action
           /\ endTurn'.pending /\ endTurn'.source = endTurn.source
           /\ endTurn'.returned = endTurn.returned
  <2>1. WaitingInv' /\ TurnInv' /\ NotLater
    BY <1>1, <1>2 DEF OrderInv, WaitingInv, TurnInv, NotLater, Overdue
  <2> QED BY <1>1, <2>1, LeftSeen DEF OrderInv
<1>3. CASE Natives' = Natives /\ action'.status = "rejected" /\ ~endTurn'.pending
  <2>1. WaitingInv' /\ TurnInv' /\ NotLater
    BY <1>1, <1>3 DEF OrderInv, WaitingInv, TurnInv, NotLater, Overdue
  <2> QED BY <1>1, <2>1, LeftSeen DEF OrderInv
<1> QED BY <1>2, <1>3, EndTurnTimerKeeps

(* An end turn that returns and stays pending is committed.                *)
LEMMA ReturnFromEndTurnOrder ==
  ASSUME IInv, ReceiptInv, OrderInv, ReturnFromEndTurn
  PROVE  OrderInv'
<1>1. /\ ~RequestOnTop' /\ UNCHANGED << slot, client, queued, engine >>
      /\ Natives # << >> /\ Natives[1].at = "running" /\ ~Calling
      /\ endTurn'.pending => /\ endTurn.pending /\ endTurn'.source = endTurn.source
                             /\ action' = action /\ engine.turn = endTurn.source
                             /\ Actionable => engine.committed
      /\ endTurn.pending /\ ~endTurn'.pending => action'.status # "pending"
      /\ ~endTurn.pending => action' = action
  BY ReturnFromEndTurnKeeps
<1>2. ~engine.modal /\ (engine.mine \/ engine.committed)
  BY <1>1 DEF OrderInv, TurnInv
<1>3. endTurn'.pending => engine.committed
  BY <1>1, <1>2 DEF Actionable
<1>4. TurnInv'
  BY <1>1, <1>2, <1>3 DEF TurnInv
<1>5. WaitingInv'
  BY <1>1 DEF OrderInv, WaitingInv
<1>6. NotLater
  BY <1>1 DEF NotLater, Overdue
<1> QED BY <1>1, <1>4, <1>5, <1>6, LeftSeen DEF OrderInv

LEMMA OpenDialogOrder ==
  ASSUME IInv, ReceiptInv, OrderInv, OpenDialog
  PROVE  OrderInv'
<1>1. /\ UNCHANGED << slot, client, queued, endTurn, action >>
      /\ engine' = [engine EXCEPT !.modal = TRUE, !.dialogs = @ + 1]
  BY DEF OpenDialog, slotVars, actionVars
<1>2. /\ engine'.turn = engine.turn /\ engine'.mine = engine.mine
      /\ engine'.committed = engine.committed
  BY <1>1, Typed DEF Engines
<1>3. /\ ~RequestOnTop' /\ Calling' = Calling
      /\ Natives' # << >> /\ Natives'[1].at = "dialog"
  BY OpenDialogKeeps
<1>4. WaitingInv' /\ TurnInv' /\ NotLater
  BY <1>1, <1>2, <1>3 DEF OrderInv, WaitingInv, TurnInv, NotLater, Overdue
<1> QED BY <1>1, <1>3, <1>4, LeftSeen DEF OrderInv

LEMMA LeaveDialogOrder ==
  ASSUME IInv, ReceiptInv, OrderInv, LeaveDialog
  PROVE  OrderInv'
<1>1. UNCHANGED << slot, client, queued, endTurn, action, engine >> /\ ~engine.modal
  BY DEF LeaveDialog, slotVars, actionVars
<1>2. ~RequestOnTop' /\ Calling' = Calling
  BY LeaveDialogKeeps
<1>3. WaitingInv' /\ TurnInv' /\ NotLater
  BY <1>1, <1>2 DEF OrderInv, WaitingInv, TurnInv, NotLater, Overdue
<1> QED BY <1>1, <1>2, <1>3, LeftSeen DEF OrderInv

LEMMA CommitTurnOrder ==
  ASSUME IInv, ReceiptInv, OrderInv, CommitTurn
  PROVE  OrderInv'
<1>1. /\ UNCHANGED << slot, client, queued, endTurn, action, stack >> /\ Running("end_turn")
      /\ engine' = [engine EXCEPT !.committed = TRUE, !.mine = FALSE]
  BY DEF CommitTurn, slotVars, actionVars
<1>2. engine'.turn = engine.turn /\ engine'.modal = engine.modal /\ engine'.committed
  BY <1>1, Typed DEF Engines
<1>3. Natives' = Natives /\ ~RequestOnTop'
  BY <1>1, CommitTurnKeeps DEF Running, RequestOnTop, Top
<1>4. WaitingInv' /\ TurnInv' /\ NotLater
  BY <1>1, <1>2, <1>3 DEF OrderInv, WaitingInv, TurnInv, NotLater, Overdue, Calling
<1> QED BY <1>1, <1>3, <1>4, LeftSeen DEF OrderInv

(* What anyone knows when the next turn begins is of an earlier turn.      *)
LEMMA NextTurnOrder ==
  ASSUME IInv, ReceiptInv, OrderInv, NextTurn
  PROVE  OrderInv'
<1>1. /\ UNCHANGED << slot, client, queued, endTurn, action, stack >>
      /\ stack = << >> \/ Running("end_turn")
  BY DEF NextTurn, slotVars, actionVars
<1>2. /\ Natives' = Natives /\ engine'.turn = engine.turn + 1 /\ engine'.mine
      /\ engine'.modal = engine.modal
  BY NextTurnKeeps
<1>3. ~RequestOnTop'
  BY <1>1 DEF Running, RequestOnTop, Top
<1>4. engine.turn \in Nat /\ endTurn.source \in Nat
  BY Typed DEF Engines, Timers
<1>5. WaitingInv'
  BY <1>1, <1>2 DEF OrderInv, WaitingInv, Calling
<1>6. TurnInv'
  <2>1. endTurn'.pending => engine'.turn # endTurn'.source
    BY <1>1, <1>2, <1>4 DEF ReceiptInv, EndTurnInv
  <2> QED BY <1>1, <1>2, <2>1 DEF OrderInv, TurnInv
<1>7. ASSUME NEW r \in Revisions \cup {NoRevision}, Sound(r)
      PROVE  r # NoRevision => r[4] <= engine'.turn /\ r[4] # engine'.turn
  <2> SUFFICES ASSUME r # NoRevision PROVE r[4] <= engine'.turn /\ r[4] # engine'.turn
    OBVIOUS
  <2>1. r[4] \in Nat
    BY DEF Revisions
  <2>2. r[4] <= engine.turn
    BY <1>7 DEF Sound
  <2> QED BY <1>2, <1>4, <2>1, <2>2
<1>8. /\ client.seen \in Revisions /\ slot.seen \in Revisions \cup {NoRevision}
      /\ slot.revision \in Revisions \cup {NoRevision}
  BY DEF IInv, Types, SharedTypes, Clients, Slots
<1>9. SeenInv'
  BY <1>1, <1>3, <1>7, <1>8 DEF OrderInv, SeenInv, Sound
<1> QED BY <1>5, <1>6, <1>9 DEF OrderInv

LEMMA InitOrder ==
  ASSUME Init
  PROVE  OrderInv
<1>1. /\ stack = << >> /\ action.status = "none" /\ engine.turn = 0 /\ engine.mine
      /\ ~engine.modal /\ ~endTurn.pending
      /\ slot.seen = NoRevision /\ slot.revision = NoRevision /\ client.seen = Revision
  BY DEF Init, NoRevision
<1>2. WaitingInv /\ TurnInv
  BY <1>1 DEF WaitingInv, TurnInv
<1>3. Sound(Revision)
  <2>1. Revision[4] = engine.turn
    BY DEF Revision
  <2> QED BY <1>1, <2>1 DEF Sound, Overdue
<1>4. SeenInv
  BY <1>1, <1>3, SoundNothing DEF SeenInv, RequestOnTop
<1> QED BY <1>2, <1>4 DEF OrderInv

LEMMA NextOrder ==
  ASSUME OneAtATime, IInv, ReceiptInv, OrderInv, [Next]_vars
  PROVE  OrderInv'
<1>1. CASE Worker
  BY <1>1, WorkerOrder
<1>2. CASE Request
  <2>1. IInv'
    BY <1>2, NextInvariant DEF Next
  <2> QED BY <1>2, <2>1, TakeOrder, PublishOrder, QueueEndTurnOrder, RespondOrder,
             ReadOrder, RefuseOrder, QueueActionOrder DEF Request
<1>3. CASE Bridge
  BY <1>3, RejectBeforeCallOrder, StartCallOrder, SpentNever, DevelopmentSentOrder,
     EndTurnTimerOrder, ReturnFromEndTurnOrder, ReturnFromCallOrder DEF Bridge
<1>4. CASE Engine
  BY <1>4, OpenDialogOrder, LeaveDialogOrder, CommitTurnOrder, NextTurnOrder DEF Engine
<1>5. CASE UNCHANGED vars
  <2>1. UNCHANGED << slot, client, stack, queued, endTurn, action, engine >>
    BY <1>5 DEF vars, slotVars, actionVars
  <2>2. Natives' = Natives /\ RequestOnTop' = RequestOnTop /\ Top' = Top
    BY <2>1 DEF Natives, RequestOnTop, Top
  <2>3. WaitingInv' /\ TurnInv' /\ NotLater
    BY <2>1, <2>2, QuietStep
  <2> QED BY <2>1, <2>2, <2>3, SeenStep DEF OrderInv, SeenInv
<1> QED BY <1>1, <1>2, <1>3, <1>4, <1>5 DEF Next

-----------------------------------------------------------------------------
(* One blocking action at a time.                                          *)

(* Only a command begins a receipt.                                        *)
LEMMA OnlyQueuedBegins ==
  ASSUME IInv, Next, action'.id # action.id
  PROVE  QueueEndTurn \/ \E kind \in Kinds : QueueAction(kind)
<1>1. ASSUME Worker PROVE action' = action
  <2>1. ASSUME NEW op, Store(op) PROVE action' = action
    BY <2>1 DEF Store, actionVars
  <2>2. ASSUME Receive \/ PostRequest PROVE action' = action
    BY <2>2 DEF Receive, PostRequest, actionVars
  <2>3. ASSUME TimeOut \/ Wake \/ ReadResponse PROVE action' = action
    BY <2>3 DEF TimeOut, Wake, ReadResponse, actionVars
  <2> QED BY <1>1, <2>1, <2>2, <2>3 DEF Worker
<1>2. ASSUME RequestMessage \/ WaitTask \/ Publish \/ Signal PROVE action' = action
  BY <1>2 DEF RequestMessage, WaitTask, Publish, Signal, actionVars
<1>3. ASSUME NEW op \in Ops \cap Reads, NEW verdict \in Verdicts, Read(op, verdict)
      PROVE  action'.id = action.id
  <2>1. action' = RefreshedAction \/ action' = [RefreshedAction EXCEPT !.status = verdict]
    BY <1>3 DEF Read, SettleDevelopment
  <2> QED BY <2>1, Refreshing DEF Receipts
<1>4. ASSUME NEW op \in Commands, Refuse(op) PROVE action'.id = action.id
  BY <1>4, Refreshing DEF Refuse, Refresh
<1>5. ASSUME Respond PROVE action'.id = action.id
  BY <1>5, Refreshing DEF Respond, Refresh
<1>6. ASSUME Request PROVE QueueEndTurn \/ \E kind \in Kinds : QueueAction(kind)
  BY <1>2, <1>3, <1>4, <1>5, <1>6 DEF Request
<1>7. ASSUME RejectBeforeCall \/ SpentDeferredMessage PROVE action'.id = action.id
  BY <1>7, MarkedReceipt DEF RejectBeforeCall, SpentDeferredMessage, Statuses
<1>8. ASSUME StartCall \/ DevelopmentSent PROVE action' = action
  BY <1>8 DEF StartCall, DevelopmentSent
<1>9. ASSUME EndTurnTimer PROVE action'.id = action.id
  BY <1>9, MarkedReceipt DEF EndTurnTimer, Statuses
<1>10. ASSUME ReturnFromEndTurn PROVE action'.id = action.id
  BY <1>10, MarkedReceipt DEF ReturnFromEndTurn, Statuses
<1>11. ASSUME NEW kind \in Kinds, NEW status \in {"completed", "rejected"},
              ReturnFromCall(kind, status)
       PROVE  action'.id = action.id
  BY <1>11, MarkedReceipt DEF ReturnFromCall, Statuses
<1>12. ASSUME Engine PROVE action' = action
  BY <1>12 DEF Engine, OpenDialog, LeaveDialog, CommitTurn, NextTurn, actionVars
<1> QED BY <1>1, <1>6, <1>7, <1>8, <1>9, <1>10, <1>11, <1>12 DEF Next, Bridge

(* A client that may command has seen that no receipt is pending.          *)
LEMMA NoneAcceptedWhilePending ==
  ASSUME OneAtATime, IInv, ReceiptInv, OrderInv, NEW op \in Commands, op # "respond",
         Accept(op)
  PROVE  action.status # "pending"
<1> SUFFICES ASSUME action.status = "pending" PROVE FALSE
  OBVIOUS
<1>1. /\ RequestOnTop /\ Top.seen = Revision /\ queued = {} /\ ~Calling
      /\ ~RefreshedEndTurn.pending /\ Actionable
  BY AcceptedAlone DEF Accept, Acceptable, AtTurn
<1>2. endTurn.pending
  BY <1>1 DEF OrderInv, WaitingInv
<1>3. engine.turn # endTurn.source \/ Refused
  BY <1>1, <1>2, RefreshSettles DEF EndTurnSettles
<1>4. engine.turn # endTurn.source
  BY <1>2, <1>3 DEF Refused, OrderInv, TurnInv
<1>5. Overdue
  BY <1>2, <1>4 DEF Overdue
<1>6. Revision # NoRevision /\ Revision[4] = engine.turn /\ Revision[2] = action
  BY DEF Revision, NoRevision
<1>7. Sound(Revision)
  BY <1>1 DEF OrderInv, SeenInv
<1> QED BY <1>5, <1>6, <1>7 DEF Sound

LEMMA PendingIsLeft ==
  ASSUME OneAtATime, IInv, ReceiptInv, OrderInv, Next, action'.id # action.id
  PROVE  action.status # "pending"
<1>1. ASSUME QueueEndTurn PROVE action.status # "pending"
  <2>1. Accept("end_turn") /\ RequestOnTop /\ Top.op = "end_turn"
    BY <1>1 DEF QueueEndTurn, Accept, TakenRequest, RequestOnTop
  <2>2. "end_turn" \in Ops
    BY <2>1, RequestFrame DEF RequestFrames
  <2>3. "end_turn" \in Commands
    BY <2>2 DEF Commands, Reads, Polls
  <2> QED BY <2>1, <2>3, NoneAcceptedWhilePending
<1>2. ASSUME NEW kind \in Kinds, QueueAction(kind) PROVE action.status # "pending"
  <2>1. kind \in Commands /\ kind # "respond"
    BY KindNames DEF Commands, Reads, Polls
  <2> QED BY <1>2, <2>1, NoneAcceptedWhilePending DEF QueueAction
<1> QED BY <1>1, <1>2, OnlyQueuedBegins

(* The bridge begins no blocking action while the receipt of one is        *)
(* pending: interaction_kind counts the identifiers that are set, and the  *)
(* guard compares the revision the client has seen (validate_semantic_guard). *)
THEOREM NoneBegunWhilePending ==
  ASSUME OneAtATime
  PROVE  Spec => OneBlockingAction
<1>1. Init => ReceiptInv /\ OrderInv
  BY InitReceipt, InitOrder
<1>2. IInv /\ ReceiptInv /\ OrderInv /\ [Next]_vars => ReceiptInv' /\ OrderInv'
  BY NextReceipt, NextOrder
<1>3. IInv /\ ReceiptInv /\ OrderInv /\ [Next]_vars =>
        [action'.id # action.id => action.status # "pending"]_vars
  BY PendingIsLeft
<1> QED BY <1>1, <1>2, <1>3, Invariant, PTL DEF Spec, OneBlockingAction

=============================================================================
