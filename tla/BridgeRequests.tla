--------------------------- MODULE BridgeRequests ---------------------------
(***************************************************************************)
(* The request slot of the game bridge (src/bridge/src/agent_bridge.cpp).  *)
(*                                                                         *)
(* The socket worker puts one request at a time into a slot guarded by     *)
(* request_lock, posts a window message and waits for an event.  The UI    *)
(* thread takes the request when it retrieves the message, executes it and *)
(* publishes the response.  An action that may block is only queued by its *)
(* request: a second message runs the native call later, on the same       *)
(* thread, and the native call pumps messages itself, so requests, further *)
(* actions and the end-turn timer run nested inside it.  All actions share *)
(* one receipt, deferred_action.                                           *)
(*                                                                         *)
(* The engine is external: a native call shows dialogs, pumps messages and *)
(* returns with success or failure as it likes.                            *)
(***************************************************************************)
EXTENDS Naturals, Sequences, SequencesExt

CONSTANTS
  Ops,          (* the operations the client may send                      *)
  DialogKinds,  (* the actions whose native call may raise a dialog        *)
  MaxRequests,  (* bound: requests sent over the connection                *)
  MaxDialogs    (* bound: dialogs the native calls raise                   *)

(* Native actions in the order in which the handler looks for them.        *)
HandlerOrder == << "destroy", "development", "disband", "obliterate",
                   "staple", "missile", "probe", "move", "council",
                   "diplomacy" >>

ASSUME RequestBounds ==
  /\ MaxRequests \in Nat \ {0}
  /\ MaxDialogs \in Nat
  /\ Ops \subseteq ToSet(HandlerOrder) \cup {"action_status", "observe", "end_turn", "respond"}
  /\ DialogKinds \subseteq ToSet(HandlerOrder) \cup {"end_turn"}

VARIABLES
  slot,         (* the shared slot and its event                           *)
  worker,       (* where the socket worker is, and its request             *)
  messages,     (* the posted messages of the game window, oldest first    *)
  stack,        (* the frames on the UI thread, innermost first            *)
  barrier,      (* native_move_on_stack                                    *)
  queued,       (* kinds whose deferred_* identifier is set                *)
  sent,         (* deferred_development_sent                               *)
  endTurn,      (* the deferred end-turn request and its timer             *)
  action,       (* deferred_action, the only receipt                       *)
  generation,   (* semantic_mutation_generation                            *)
  engine,       (* the turn, whose it is, the open dialog, the committed turn *)
  client,       (* what the client was answered, and the revision it knows *)
  history       (* executions per request, own outcome per action, accepted *)

slotVars == << slot, worker >>
actionVars == << barrier, queued, sent, endTurn, action, generation >>
vars == << slotVars, messages, stack, actionVars, engine, client, history >>

Requests == 1 .. MaxRequests

(* Requests the barrier lets through: ping, status, action_status.         *)
Polls == {"action_status"}
Reads == Polls \cup {"observe"}
Commands == Ops \ Reads
(* Commands that may block, and whose native call is therefore deferred.   *)
Kinds == Ops \cap ToSet(HandlerOrder)

(* Identifiers cleared before the native call, and not after it.           *)
ClearedFirst == {"staple", "missile", "probe", "move", "council", "diplomacy"}
(* mutant: the barrier spans the razing of a base, which asks first        *)
BarredAndRazing == {"move", "development", "obliterate"}
(* Kinds whose native call runs under the barrier.                         *)
Barred == {"move", "development"}
(* mutant: a development that was sent is no longer counted                *)
CountedUnsent == ToSet(HandlerOrder) \ {"disband", "development"}
(* deferred_native_action_pending does not look at the disband identifier. *)
Counted == ToSet(HandlerOrder) \ {"disband"}
(* Kinds that animate, and pump messages, without a dialog.                *)
Animated == {"missile", "probe", "move", "development", "end_turn"}

Revision ==
  << generation, action, queued, engine.turn, engine.mine, engine.modal >>

-----------------------------------------------------------------------------
(* The UI thread is idle, or inside a native call that pumps messages.     *)

Top == Head(stack)

Pumping ==
  \/ stack = << >>
  \/ /\ stack # << >>
     /\ Top.what = "native"
     /\ Top.at = "dialog" \/ Top.kind \in Animated

Running(kind) == stack # << >> /\ Top.what = "native" /\ Top.kind = kind

Post(message) == messages' = Append(messages, message)

Native(kind, id) == [what |-> "native", kind |-> kind, id |-> id, at |-> "running"]

Actionable == engine.mine /\ ~engine.modal

Init ==
  /\ slot = [seq |-> 0, op |-> "none", seen |-> << >>, pending |-> FALSE,
             inProgress |-> FALSE, response |-> 0, revision |-> << >>,
             responseSeq |-> 0, event |-> FALSE]
  /\ worker = [at |-> "idle", seq |-> 0]
  /\ messages = << >>
  /\ stack = << >>
  /\ barrier = FALSE
  /\ queued = {}
  /\ sent = FALSE
  /\ endTurn = [pending |-> FALSE, source |-> 0, returned |-> FALSE, timer |-> FALSE]
  /\ action = [id |-> 0, kind |-> "none", status |-> "none"]
  /\ generation = 0
  /\ engine \in [turn : {0}, mine : {TRUE}, modal : {FALSE}, dialogs : {0},
                 committed : {FALSE}, multiplayer : BOOLEAN]
  /\ client = [answered |-> [n \in Requests |-> << "none", 0 >>], seen |-> Revision]
  /\ history = [executed |-> [n \in Requests |-> 0],
                outcome |-> [n \in Requests |-> "none"],
                owner |-> [k \in Kinds \cup {"end_turn"} |-> 0],
                accepted |-> << >>]

-----------------------------------------------------------------------------
(* The socket worker.                                                      *)

(* The next frame arrives: the event is reset outside the lock.            *)
Receive ==
  /\ worker.at = "idle"
  /\ slot.seq < MaxRequests
  /\ worker' = [worker EXCEPT !.at = "received"]
  /\ slot' = [slot EXCEPT !.event = FALSE]
  /\ UNCHANGED << messages, stack, actionVars, engine, client, history >>

(* Under the lock the request replaces whatever is still in the slot.      *)
Store(op) ==
  /\ worker.at = "received"
  /\ worker' = [at |-> "stored", seq |-> slot.seq + 1]
  /\ slot' = [slot EXCEPT !.seq = @ + 1, !.op = op, !.seen = client.seen,
                          !.pending = TRUE, !.response = 0, !.revision = << >>]
  /\ UNCHANGED << messages, stack, actionVars, engine, client, history >>

PostRequest ==
  /\ worker.at = "stored"
  /\ worker' = [worker EXCEPT !.at = "waiting"]
  /\ Post("request")
  /\ UNCHANGED << slot, stack, actionVars, engine, client, history >>

Answer(how, from, revision) ==
  /\ worker' = [worker EXCEPT !.at = "idle"]
  /\ client' = [client EXCEPT
                  !.answered[worker.seq] = << how, from >>,
                  !.seen = IF revision = << >> THEN @ ELSE revision]

(* The wait outlasts its deadline: game_timeout.  The slot is left as it is. *)
TimeOut ==
  /\ worker.at = "waiting"
  /\ Answer("game_timeout", 0, << >>)
  /\ UNCHANGED << slot, messages, stack, actionVars, engine, history >>

Wake ==
  /\ worker.at = "waiting"
  /\ slot.event
  /\ worker' = [worker EXCEPT !.at = "woken"]
  /\ UNCHANGED << slot, messages, stack, actionVars, engine, client, history >>

(* mutant: the worker takes whatever response is there                     *)
ReadAny ==
  /\ worker.at = "woken"
  /\ Answer("response", slot.response, slot.revision)
  /\ UNCHANGED << slot, messages, stack, actionVars, engine, history >>

(* Under the lock: the response is taken only when it is this request's.   *)
ReadResponse ==
  /\ worker.at = "woken"
  /\ IF slot.responseSeq = worker.seq
       THEN Answer("response", slot.response, slot.revision)
       ELSE Answer("superseded_request", 0, << >>)
  /\ UNCHANGED << slot, messages, stack, actionVars, engine, history >>

Worker ==
  \/ Receive \/ PostRequest \/ TimeOut \/ Wake \/ ReadResponse
  \/ \E op \in Ops : Store(op)

-----------------------------------------------------------------------------
(* Taking a request and publishing its response.                           *)

Serviceable ==
  /\ slot.pending /\ ~slot.inProgress
  /\ barrier => slot.op \in Polls

Take ==
  /\ stack' = << [what |-> "request", seq |-> slot.seq, op |-> slot.op,
                  seen |-> slot.seen, at |-> "taken", revision |-> << >>] >> \o stack
  /\ slot' = [slot EXCEPT !.inProgress = TRUE]

(* A retrieved message services the slot, or is spent on nothing.          *)
RequestMessage ==
  /\ Pumping
  /\ messages # << >> /\ Head(messages) = "request"
  /\ messages' = Tail(messages)
  /\ IF Serviceable THEN Take ELSE UNCHANGED << slot, stack >>
  /\ UNCHANGED << worker, actionVars, engine, client, history >>

(* The wait tasks of the network and modal loops need no message.          *)
WaitTask ==
  /\ Pumping /\ stack # << >>
  /\ Serviceable
  /\ Take
  /\ UNCHANGED << worker, messages, actionVars, engine, client, history >>

(* mutant: request_pending is left to the next request                     *)
PublishPending ==
  /\ stack # << >> /\ Top.what = "request" /\ Top.at = "executed"
  /\ slot' = [slot EXCEPT !.inProgress = FALSE, !.response = Top.seq,
                !.revision = Top.revision, !.responseSeq = Top.seq]
  /\ stack' = << [Top EXCEPT !.at = "published"] >> \o Tail(stack)
  /\ UNCHANGED << worker, messages, actionVars, engine, client, history >>

(* Under the lock: a request that is no longer the newest is not published,*)
(* and leaves request_pending to the newer one.                            *)
Publish ==
  /\ stack # << >> /\ Top.what = "request" /\ Top.at = "executed"
  /\ IF Top.seq = slot.seq
       THEN /\ slot' = [slot EXCEPT !.inProgress = FALSE, !.pending = FALSE,
                          !.response = Top.seq, !.revision = Top.revision,
                          !.responseSeq = Top.seq]
            /\ stack' = << [Top EXCEPT !.at = "published"] >> \o Tail(stack)
       ELSE /\ slot' = [slot EXCEPT !.inProgress = FALSE]
            /\ stack' = Tail(stack)
  /\ UNCHANGED << worker, messages, actionVars, engine, client, history >>

(* The event is set after the lock is released.                            *)
Signal ==
  /\ stack # << >> /\ Top.what = "request" /\ Top.at = "published"
  /\ slot' = [slot EXCEPT !.event = TRUE]
  /\ stack' = Tail(stack)
  /\ UNCHANGED << worker, messages, actionVars, engine, client, history >>

-----------------------------------------------------------------------------
(* Executing a request.                                                    *)

Executed(n) == [history.executed EXCEPT ![n] = @ + 1]

(* The request's frame ends its execution with the revision it returns.    *)
Return(revision) ==
  stack' = << [Top EXCEPT !.at = "executed", !.revision = revision] >> \o Tail(stack)

(* refresh_deferred_end_turn_state on the receipt and the pending end turn.*)
Refused == endTurn.returned /\ Actionable /\ ~engine.committed
EndTurnSettles == endTurn.pending /\ (engine.turn # endTurn.source \/ Refused)

RefreshedEndTurn ==
  IF EndTurnSettles THEN [endTurn EXCEPT !.pending = FALSE] ELSE endTurn

RefreshedAction ==
  IF EndTurnSettles
    THEN [action EXCEPT !.status =
            IF engine.turn # endTurn.source THEN "completed" ELSE "rejected"]
    ELSE action

Refresh == action' = RefreshedAction /\ endTurn' = RefreshedEndTurn

TakenRequest(op) ==
  stack # << >> /\ Top.what = "request" /\ Top.at = "taken" /\ Top.op = op

(* finish_pending_development: no verdict, until the effect or 15 seconds. *)
Verdicts == {"none", "completed", "rejected"}

Settleable(verdict) == verdict # "none" => sent /\ ~barrier

SettleDevelopment(verdict) ==
  IF verdict = "none"
    THEN /\ action' = RefreshedAction
         /\ UNCHANGED << queued, sent, generation >>
         /\ history' = [history EXCEPT !.executed = Executed(Top.seq)]
    ELSE /\ action' = [RefreshedAction EXCEPT !.status = verdict]
         /\ queued' = queued \ {"development"}
         /\ sent' = FALSE
         /\ generation' = generation + 1
         /\ history' = [history EXCEPT !.executed = Executed(Top.seq),
                          !.outcome[history.owner["development"]] = verdict]

(* A snapshot carries the revision of its moment; a receipt poll does not. *)
Read(op, verdict) ==
  /\ TakenRequest(op)
  /\ Settleable(verdict)
  /\ SettleDevelopment(verdict)
  /\ endTurn' = RefreshedEndTurn
  /\ UNCHANGED << slotVars, messages, barrier, engine, client >>
  /\ Return(IF op = "observe" THEN Revision' ELSE << >>)

(* interaction_kind after its refresh: "turn", or something else is first. *)
AtTurn ==
  /\ Actionable
  /\ queued \cap Counted = {}
  /\ ~RefreshedEndTurn.pending

(* Commands the multiplayer allowlist leaves, and those it is needed for.  *)
Offered(op) ==
  IF engine.multiplayer
    THEN op \in {"move", "development", "diplomacy", "end_turn", "respond"}
    ELSE op # "development"

(* mutant: the interaction gate alone, without the revision                *)
AcceptableByPhase(op) ==
  /\ Offered(op)
  /\ IF op = "respond" THEN engine.modal ELSE AtTurn

(* validate_semantic_guard, the allowlist, then the interaction gate.      *)
Acceptable(op) ==
  /\ Top.seen = Revision
  /\ Offered(op)
  /\ IF op = "respond" THEN engine.modal ELSE AtTurn

(* A refused command may have refreshed the end turn on its way.           *)
Refuse(op) ==
  /\ TakenRequest(op)
  /\ ~Acceptable(op)
  /\ IF Top.seen = Revision /\ Offered(op)
       THEN Refresh ELSE UNCHANGED << action, endTurn >>
  /\ Return(<< >>)
  /\ history' = [history EXCEPT !.executed = Executed(Top.seq)]
  /\ UNCHANGED << slotVars, messages, barrier, queued, sent, generation, engine, client >>

Accept(op) ==
  /\ TakenRequest(op)
  /\ Acceptable(op)
  /\ Return(<< >>)
  /\ generation' = generation + 1

(* mutant: the receipt of an action that is only queued is not pending     *)
BeginQueued(kind) ==
  action' = [id |-> action.id + 1, kind |-> kind, status |-> "queued"]
Begin(kind) ==
  action' = [id |-> action.id + 1, kind |-> kind, status |-> "pending"]

AcceptedHistory(kind) ==
  history' = [history EXCEPT !.executed = Executed(Top.seq),
                !.accepted = Append(@, Top.seen),
                !.owner[kind] = action.id + 1]

(* A blocking command only queues its native call and begins a receipt.    *)
QueueAction(kind) ==
  /\ Accept(kind)
  /\ queued' = queued \cup {kind}
  /\ Begin(kind)
  /\ endTurn' = RefreshedEndTurn
  /\ Post("deferred")
  /\ AcceptedHistory(kind)
  /\ UNCHANGED << slotVars, barrier, sent, engine, client >>

(* end_turn arms a timer instead of posting a message.                     *)
QueueEndTurn ==
  /\ Accept("end_turn")
  /\ endTurn' = [pending |-> TRUE, source |-> engine.turn, returned |-> FALSE, timer |-> TRUE]
  /\ Begin("end_turn")
  /\ AcceptedHistory("end_turn")
  /\ UNCHANGED << slotVars, messages, barrier, queued, sent, engine, client >>

(* An answer to the open dialog closes it.                                 *)
Respond ==
  /\ Accept("respond")
  /\ Refresh
  /\ engine' = [engine EXCEPT !.modal = FALSE]
  /\ history' = [history EXCEPT !.executed = Executed(Top.seq),
                   !.accepted = Append(@, Top.seen)]
  /\ UNCHANGED << slotVars, messages, barrier, queued, sent, client >>

Request ==
  \/ RequestMessage \/ WaitTask \/ Publish \/ Signal
  \/ QueueEndTurn \/ Respond
  \/ \E op \in Ops \cap Reads, verdict \in Verdicts : Read(op, verdict)
  \/ \E op \in Commands : Refuse(op)
  \/ \E kind \in Kinds : QueueAction(kind)

-----------------------------------------------------------------------------
(* The deferred message, the timer and the native calls.                   *)

Chosen ==
  HandlerOrder[CHOOSE i \in DOMAIN HandlerOrder :
                 /\ HandlerOrder[i] \in queued
                 /\ \A j \in 1 .. (i - 1) : HandlerOrder[j] \notin queued]

DeferredMessage == Pumping /\ messages # << >> /\ Head(messages) = "deferred"

Settle(id, status) == history' = [history EXCEPT !.outcome[id] = status]

(* The preconditions no longer hold: the action is rejected unexecuted.    *)
RejectBeforeCall ==
  /\ DeferredMessage
  /\ queued # {}
  /\ ~(Chosen = "development" /\ sent)
  /\ queued' = queued \ {Chosen}
  /\ action' = [action EXCEPT !.status = "rejected"]
  /\ Settle(history.owner[Chosen], "rejected")
  /\ IF Chosen \in Barred
       THEN messages' = Append(Tail(messages), "request") /\ barrier' = FALSE
       ELSE messages' = Tail(messages) /\ UNCHANGED barrier
  /\ generation' = IF Chosen = "disband" THEN generation + 1 ELSE generation
  /\ UNCHANGED << slotVars, stack, sent, endTurn, engine, client >>

(* The native call starts: some kinds forget their identifier before it.   *)
StartCall ==
  /\ DeferredMessage
  /\ queued # {}
  /\ ~(Chosen = "development" /\ sent)
  /\ Actionable
  /\ messages' = Tail(messages)
  /\ stack' = << Native(Chosen, history.owner[Chosen]) >> \o stack
  /\ queued' = IF Chosen \in ClearedFirst THEN queued \ {Chosen} ELSE queued
  /\ barrier' = (barrier \/ Chosen \in Barred)
  /\ sent' = (sent \/ Chosen = "development")
  /\ UNCHANGED << slotVars, endTurn, action, generation, engine, client, history >>

(* With no identifier set the handler falls through to the diplomacy case, *)
(* and rejects the receipt.                                                *)
SpentDeferredMessage ==
  /\ DeferredMessage
  /\ messages' = Tail(messages)
  /\ queued = {}
  /\ action' = [action EXCEPT !.status = "rejected"]
  /\ UNCHANGED << slotVars, stack, barrier, queued, sent, endTurn, generation,
                  engine, client, history >>

(* mutant: the barrier is lifted, and nothing posted                       *)
UnstackSilently ==
  /\ stack' = Tail(stack)
  /\ barrier' = IF Top.kind \in Barred THEN FALSE ELSE barrier
  /\ UNCHANGED messages

(* The barrier ends with its call, and the request is posted again.        *)
Unstack ==
  /\ stack' = Tail(stack)
  /\ IF Top.kind \in Barred
       THEN barrier' = FALSE /\ Post("request")
       ELSE UNCHANGED << barrier, messages >>

(* A native call returns, and writes the receipt whosever it is now.       *)
ReturnFromCall(kind, status) ==
  /\ Running(kind) /\ Top.at = "running"
  /\ kind = "development" => status = "rejected"
  /\ Unstack
  /\ queued' = IF kind \in ClearedFirst THEN queued ELSE queued \ {kind}
  /\ sent' = (sent /\ kind # "development")
  /\ action' = [action EXCEPT !.status = status]
  /\ Settle(Top.id, status)
  /\ generation' = IF kind = "disband" THEN generation + 1 ELSE generation
  /\ UNCHANGED << slotVars, endTurn, engine, client >>

(* mutant: the transport's return is taken for the effect                  *)
DevelopmentReturned ==
  /\ Running("development") /\ Top.at = "running"
  /\ Unstack
  /\ action' = [action EXCEPT !.status = "completed"]
  /\ UNCHANGED << slotVars, queued, sent, endTurn, generation, engine, client, history >>

(* A development whose order was sent leaves its receipt for a later poll. *)
DevelopmentSent ==
  /\ Running("development") /\ Top.at = "running"
  /\ Unstack
  /\ UNCHANGED << slotVars, queued, sent, endTurn, action, generation, engine,
                  client, history >>

(* The end-turn timer: the native command runs outside any request frame.  *)
EndTurnTimer ==
  /\ Pumping
  /\ endTurn.timer
  /\ IF endTurn.pending /\ endTurn.source = engine.turn /\ Actionable
       THEN /\ stack' = << Native("end_turn", history.owner["end_turn"]) >> \o stack
            /\ endTurn' = [endTurn EXCEPT !.timer = FALSE]
            /\ UNCHANGED << action, history >>
       ELSE /\ endTurn' = [endTurn EXCEPT !.timer = FALSE, !.pending = FALSE]
            /\ action' = [action EXCEPT !.status = "rejected"]
            /\ Settle(history.owner["end_turn"], "rejected")
            /\ UNCHANGED stack
  /\ UNCHANGED << slotVars, messages, barrier, queued, sent, generation, engine, client >>

(* The native command returns; only an uncommitted turn has been refused.  *)
ReturnFromEndTurn ==
  /\ Running("end_turn") /\ Top.at = "running"
  /\ stack' = Tail(stack)
  /\ LET back == [endTurn EXCEPT !.returned = TRUE]
         refused == back.pending /\ engine.turn = back.source /\ Actionable /\ ~engine.committed
         ended == back.pending /\ engine.turn # back.source
     IN  /\ endTurn' = IF refused \/ ended THEN [back EXCEPT !.pending = FALSE] ELSE back
         /\ action' = IF refused THEN [action EXCEPT !.status = "rejected"]
                      ELSE IF ended THEN [action EXCEPT !.status = "completed"]
                      ELSE action
         /\ IF history.outcome[Top.id] = "none" /\ ~engine.committed
              THEN Settle(Top.id, "rejected") ELSE UNCHANGED history
  /\ UNCHANGED << slotVars, messages, barrier, queued, sent, generation, engine, client >>

Bridge ==
  \/ RejectBeforeCall \/ StartCall \/ SpentDeferredMessage \/ DevelopmentSent
  \/ EndTurnTimer \/ ReturnFromEndTurn
  \/ \E kind \in Kinds, status \in {"completed", "rejected"} :
       ReturnFromCall(kind, status)

-----------------------------------------------------------------------------
(* The engine.                                                             *)

Inside == stack # << >> /\ Top.what = "native"

(* A native call opens a dialog and waits in its modal loop.               *)
OpenDialog ==
  /\ Inside /\ Top.at = "running" /\ Top.kind \in DialogKinds
  /\ engine.dialogs < MaxDialogs
  /\ stack' = << [Top EXCEPT !.at = "dialog"] >> \o Tail(stack)
  /\ engine' = [engine EXCEPT !.modal = TRUE, !.dialogs = @ + 1]
  /\ UNCHANGED << slotVars, messages, actionVars, client, history >>

(* The answered dialog is left.                                            *)
LeaveDialog ==
  /\ Inside /\ Top.at = "dialog" /\ ~engine.modal
  /\ stack' = << [Top EXCEPT !.at = "running"] >> \o Tail(stack)
  /\ UNCHANGED << slotVars, messages, actionVars, engine, client, history >>

(* The native end-turn command is accepted: the other factions play.       *)
CommitTurn ==
  /\ Running("end_turn") /\ Top.at = "running"
  /\ engine.mine /\ ~engine.committed
  /\ history.outcome[Top.id] = "none"
  /\ engine' = [engine EXCEPT !.committed = TRUE, !.mine = FALSE]
  /\ UNCHANGED << slotVars, messages, stack, actionVars, client, history >>

(* The next turn begins, inside the native command or after it returned.   *)
NextTurn ==
  /\ engine.committed
  /\ stack = << >> \/ Running("end_turn")
  /\ engine' = [engine EXCEPT !.turn = @ + 1, !.mine = TRUE, !.committed = FALSE]
  /\ Settle(history.owner["end_turn"], "completed")
  /\ UNCHANGED << slotVars, messages, stack, actionVars, client >>

Engine == OpenDialog \/ LeaveDialog \/ CommitTurn \/ NextTurn

Next == Worker \/ Request \/ Bridge \/ Engine

Spec == Init /\ [][Next]_vars

(* The threads run: whatever the UI thread or the worker can do next it    *)
(* does.  Nothing makes a deadline pass, a dialog open or a client write.  *)
FairSpec ==
  /\ Spec
  /\ WF_vars(Request) /\ WF_vars(Bridge)
  /\ WF_vars(LeaveDialog) /\ WF_vars(NextTurn)
  /\ WF_vars(PostRequest) /\ WF_vars(Wake) /\ WF_vars(ReadResponse)

-----------------------------------------------------------------------------
(* The types of the state.                                                 *)
TypeOK ==
  /\ slot.seq \in 0 .. MaxRequests /\ slot.op \in Ops \cup {"none"}
  /\ worker \in [at : {"idle", "received", "stored", "waiting", "woken"},
                 seq : 0 .. MaxRequests]
  /\ messages \in Seq({"request", "deferred"})
  /\ queued \subseteq Kinds
  /\ action.id \in 0 .. MaxRequests
  /\ action.status \in {"none", "pending", "completed", "rejected"}
  /\ generation \in Nat
  /\ {barrier, sent} \subseteq BOOLEAN

(* A request is executed at most once, whatever the pumps, the timeouts and *)
(* the messages do (agent_bridge_handle_message).                          *)
ExecutedOnce == \A n \in Requests : history.executed[n] <= 1

(* A response the client receives was computed by its own request: an event *)
(* or a response left over from a timed-out request never answers another. *)
AnsweredByItself ==
  \A n \in Requests :
    client.answered[n][1] = "response" =>
      client.answered[n][2] = n /\ history.executed[n] = 1

(* A command and its retry after a lost answer are never both accepted: no *)
(* revision is accepted twice (validate_semantic_guard).                   *)
AcceptedOnce == IsInjective(history.accepted)

(* A receipt that says completed is the receipt of an action whose own     *)
(* native call completed, or whose turn advanced.                          *)
CompletedIsTrue ==
  action.status = "completed" => history.outcome[action.id] = "completed"

(* The bridge rejects a second potentially blocking action while a deferred *)
(* action is pending.                                                      *)
OneBlockingAction ==
  [][action'.id # action.id => action.status # "pending"]_vars

(* A request in the slot is executed or replaced by a newer one: a nested  *)
(* pump that spends its message does not strand it, for the native move    *)
(* posts another and the wait tasks need none (agent_bridge_handle_message). *)
PostedIsTaken ==
  \A n \in Requests :
    slot.seq = n /\ slot.pending /\ worker.at = "waiting"
      ~> slot.seq > n \/ history.executed[n] = 1

(* A queued native action is started or rejected: none waits for a message *)
(* that another action's handler spent.                                    *)
QueuedIsStarted ==
  \A k \in Kinds :
    k \in queued ~> \/ k \notin queued
                    \/ k = "development" /\ sent
                    \/ \E i \in DOMAIN stack : stack[i].what = "native" /\ stack[i].kind = k

(* No spent message strands anything: what is in the slot is taken and     *)
(* what is queued is started.                                              *)
NothingStranded == PostedIsTaken /\ QueuedIsStarted

(* The answer to a dialog of a queued action is taken, and the action's    *)
(* entry resumes: the modal loop does not starve semantic control.         *)
AnswerIsTaken ==
  \A n \in Requests :
    slot.seq = n /\ slot.op = "respond" /\ slot.pending /\ engine.modal
      ~> slot.seq > n \/ history.executed[n] = 1
=============================================================================
