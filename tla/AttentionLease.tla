--------------------------- MODULE AttentionLease ---------------------------
(***************************************************************************)
(* At-least-once attention: how one perspective's queue of attention items  *)
(* (smacx_attention.py) reaches the sovereign's provider process, through   *)
(* the threads of the runtime-context server (smacx_mcp.py) that builds a   *)
(* context for each provider request (smacx_runtime_context.py).            *)
(*                                                                         *)
(* Three processes meet in the database: the MCP server, with one thread    *)
(* for each HTTP request; the provider process (the harness), which asks,   *)
(* answers and acknowledges; and the harness manager, which cancels the     *)
(* sovereign lease of a provider process it has seen stop. A step below is  *)
(* one transaction of one of them.                                         *)
(***************************************************************************)
EXTENDS Naturals, FiniteSets

CONSTANTS
    Episodes,     \* episode ids; an id is used again once nothing refers to it
    Leases,       \* attention lease ids; likewise
    NoLease, NoEpisode,
    LeaseLimit,   \* the most items one lease takes (32 in the code)
    MinimumRoom,  \* how many items a context has room for at least
    Criticality,  \* what items may be: critical (TRUE) or not (FALSE)
    MaxItems,     \* bound: attention sequences 1..MaxItems
    MaxCursor,    \* bound: observation cursors 0..MaxCursor
    MaxFaults     \* bound: processes lost, requests timed out or refused

ASSUME BoundAssumption ==
    /\ LeaseLimit \in Nat \ {0} /\ MinimumRoom \in Nat
    /\ Criticality \subseteq BOOLEAN
    /\ MaxItems \in Nat /\ MaxCursor \in Nat /\ MaxFaults \in Nat
ASSUME NullAssumption == NoLease \notin Leases /\ NoEpisode \notin Episodes

VARIABLES
    item,       \* attention_items, by attention_sequence
    next,       \* attention_heads.next_sequence
    acked,      \* attention_heads.acknowledged_cursor
    committed,  \* observation cursor of the installed world head
    lease,      \* attention_leases with their attention_lease_items
    sovereign,  \* the row of sovereign_leases
    tokens,     \* RUNTIME_EPISODE_TOKENS: episodes whose token the server holds
    build,      \* the server's thread that builds a context, for each episode
    posts,      \* leases whose "responded" request has not been handled yet
    answers,    \* leases marked responded whose items are not yet
    harness,    \* the provider process
    shown,      \* leases the provider has seen the id of
    delivered,  \* items the provider has been shown (history)
    faults      \* faults the bound has left
queueVars  == <<item, next, acked>>
serverVars == <<tokens, build, posts, answers>>
seenVars   == <<shown, delivered>>
vars == <<queueVars, committed, lease, sovereign, serverVars, harness, seenVars, faults>>

-----------------------------------------------------------------------------
Positions == 1 .. MaxItems
Cursors    == 0 .. MaxCursor
LiveStatus == {"leased", "placed", "responded"}

NoItem      == [status |-> "none", cursor |-> 0, critical |-> FALSE]
UnusedLease == [status |-> "none", episode |-> NoEpisode, items |-> {}, lapsed |-> FALSE]
Down        == [pc |-> "down", episode |-> NoEpisode, lease |-> NoLease]
NoBuild     == [pc |-> "none", cap |-> 0, lease |-> NoLease, was |-> "leased",
                items |-> {}]

Init ==
    /\ item = [i \in Positions |-> NoItem] /\ next = 1 /\ acked = 0
    /\ committed = 0
    /\ lease = [l \in Leases |-> UnusedLease]
    /\ sovereign = [status |-> "none", episode |-> NoEpisode, lapsed |-> FALSE]
    /\ tokens = {} /\ build = [e \in Episodes |-> NoBuild]
    /\ posts = {} /\ answers = {}
    /\ harness = Down
    /\ shown = {} /\ delivered = {}
    /\ faults = 0

Live(l)      == lease[l].status \in LiveStatus
LiveOf(e)    == {l \in Leases : Live(l) /\ lease[l].episode = e}
Items(ls)    == UNION {lease[l].items : l \in ls}
Before(i, j) == \/ item[i].critical /\ ~ item[j].critical
                \/ item[i].critical = item[j].critical /\ i < j
\* A first part of a set of items, in the order every query lists them.
Leading(part, whole) ==
    part \subseteq whole /\ \A i \in part, j \in whole \ part : Before(i, j)

\* _abandon_locked, for a set of leases.
RequeuedPlaced(status) == status = "responded"       \* mutant
Requeued(status)       == status \in {"leased", "responded"}
Requeue(ls) ==
    [i \in Positions |-> IF i \in Items(ls) /\ Requeued(item[i].status)
                          THEN [item[i] EXCEPT !.status = "queued"] ELSE item[i]]
\* The episode and the expiry of a lease are not read once it has ended.
Ended(l, status) == [lease[l] EXCEPT !.status = status, !.episode = NoEpisode,
                                     !.lapsed = FALSE]
Abandoned(ls) ==
    [l \in Leases |-> IF l \in ls THEN Ended(l, "abandoned") ELSE lease[l]]
Abandon(ls) == item' = Requeue(ls) /\ lease' = Abandoned(ls)

-----------------------------------------------------------------------------
(* The collector and the other producers of attention *)

Enqueue(cursor, critical) ==
    /\ next <= MaxItems /\ cursor <= committed + 1
    /\ item' = [item EXCEPT ![next] =
                  [status |-> "queued", cursor |-> cursor, critical |-> critical]]
    /\ next' = next + 1
    /\ UNCHANGED <<acked, committed, lease, sovereign, serverVars, harness,
                   seenVars, faults>>

\* replace_projection installs the observation that was staged.
Publish ==
    /\ committed < MaxCursor
    /\ committed' = committed + 1
    /\ UNCHANGED <<queueVars, lease, sovereign, serverVars, harness, seenVars, faults>>

-----------------------------------------------------------------------------
(* One thread of the server for each context request *)

\* The thread raises; the provider gives its episode up.
Refuse(e) ==
    /\ build' = [build EXCEPT ![e] = NoBuild]
    /\ harness' = IF harness.episode = e /\ harness.pc = "asking"
                  THEN [harness EXCEPT !.pc = "leaving"] ELSE harness
Continue(e, thread) == build' = [build EXCEPT ![e] = thread] /\ UNCHANGED harness
Authorized == [NoBuild EXCEPT !.pc = "lease", !.cap = committed]

\* An episode whose token the server holds renews its lease ...
Renew(e) ==
    /\ build[e].pc = "authorize" /\ e \in tokens
    /\ IF sovereign.episode = e /\ sovereign.status = "active" /\ ~ sovereign.lapsed
       THEN Continue(e, Authorized)
       ELSE Refuse(e)
    /\ UNCHANGED <<queueVars, committed, lease, sovereign, tokens, posts, answers,
                   seenVars, faults>>

\* ... any other takes it from nobody, or from an episode that lost it: what that
\* one had been delivered goes back to the queue.
Acquire(e) ==
    LET expired == sovereign.status \in {"active", "expired"} /\ sovereign.lapsed
    IN /\ build[e].pc = "authorize" /\ e \notin tokens
       /\ IF sovereign.episode = e \/ (sovereign.status = "active" /\ ~ expired)
          THEN /\ Refuse(e)
               /\ sovereign' = IF expired THEN [sovereign EXCEPT !.status = "expired"]
                                          ELSE sovereign
               /\ UNCHANGED <<item, lease, tokens>>
          ELSE /\ Continue(e, Authorized)
               /\ sovereign' = [status |-> "active", episode |-> e, lapsed |-> FALSE]
               /\ tokens' = tokens \cup {e}
               /\ Abandon(IF expired THEN LiveOf(sovereign.episode) ELSE {})
       /\ UNCHANGED <<next, acked, committed, posts, answers, seenVars, faults>>

\* A collection, an owner check or the token budget refuses the request.
BuildFails(e) ==
    /\ build[e].pc # "none" /\ faults < MaxFaults
    /\ faults' = faults + 1
    /\ Refuse(e)
    /\ UNCHANGED <<queueVars, committed, lease, sovereign, tokens, posts, answers,
                   seenVars>>

\* Nothing is leased past the first item that the captured world does not show yet.
BarrierOfOne(i, cap) == item[i].cursor <= cap        \* mutant
Deliverable(i, cap) ==
    \A j \in 1 .. i : item[j].status # "none" /\ item[j].cursor <= cap

FreshLease(l) ==
    /\ l \notin posts \cup answers /\ harness.lease # l
    /\ \A e \in Episodes : build[e].lease # l

\* lease: one transaction. What has expired is abandoned, whoever holds it; the
\* episode's own lease is handed out again, unless it shows too much or newly queued
\* items make a completed one worth replacing; otherwise a new one takes the queue.
TakeLease(e, cap) ==
    LET expired == {l \in Leases : Live(l) /\ lease[l].lapsed}
        held    == LiveOf(e) \ expired
        waiting == {i \in Positions : Requeue(expired)[i].status = "queued"
                                       /\ Deliverable(i, cap)}
        stale   == {l \in held : \/ \E i \in lease[l].items : ~ Deliverable(i, cap)
                                 \/ lease[l].status = "responded" /\ waiting # {}}
        gone    == expired \cup stale
        queue   == {i \in Positions : Requeue(gone)[i].status = "queued"
                                       /\ Deliverable(i, cap)}
    IN /\ build[e].pc = "lease" /\ cap \in build[e].cap .. committed
       /\ \/ \E l \in held \ stale :
               /\ Abandon(gone)
               /\ Continue(e, [NoBuild EXCEPT !.pc = "restrict", !.lease = l,
                                              !.was = lease[l].status])
               /\ UNCHANGED shown
          \/ /\ held \ stale = {}
             /\ \E l \in Leases, taken \in SUBSET queue :
                  /\ FreshLease(l) /\ (Live(l) => l \in gone)
                  /\ Leading(taken, queue)
                  /\ \/ taken = queue /\ Cardinality(queue) <= LeaseLimit
                     \/ Cardinality(taken) = LeaseLimit
                  /\ item' = [i \in Positions |->
                       IF i \in taken THEN [item[i] EXCEPT !.status = "leased"]
                                      ELSE Requeue(gone)[i]]
                  /\ lease' = [Abandoned(gone) EXCEPT ![l] =
                       [status |-> "leased", episode |-> e, items |-> taken,
                        lapsed |-> FALSE]]
                  /\ Continue(e, [NoBuild EXCEPT !.pc = "restrict", !.lease = l])
                  /\ shown' = shown \ {l}
       /\ UNCHANGED <<next, acked, committed, sovereign, tokens, posts, answers,
                      delivered, faults>>

\* restrict_for_placement: what the context has no room for leaves the lease.
DetachNothing(l, visible) == lease                   \* mutant: the batch stays whole
Detach(l, visible) ==
    [lease EXCEPT ![l] = [@ EXCEPT !.items = visible]]
OmittedLate(i)    == item[i].status = "responded"    \* mutant: the wrong status
OmittedReturns(i) == item[i].status = "leased"
Restrict(e, visible) ==
    LET l == build[e].lease
        omitted == lease[l].items \ visible
    IN /\ build[e].pc = "restrict"
       /\ IF Live(l)
          THEN /\ Leading(visible, lease[l].items)
               /\ omitted = {} \/ Cardinality(visible) >= MinimumRoom
               /\ item' = [i \in Positions |->
                    IF i \in omitted /\ OmittedReturns(i)
                    THEN [item[i] EXCEPT !.status = "queued"] ELSE item[i]]
               /\ lease' = Detach(l, visible)
               /\ Continue(e, [build[e] EXCEPT !.pc = "place", !.items = visible])
          ELSE visible = {} /\ Refuse(e) /\ UNCHANGED <<item, lease>>
       /\ UNCHANGED <<next, acked, committed, sovereign, tokens, posts, answers,
                      seenVars, faults>>

\* placed (not for a lease handed out again that was placed before), and the reply.
Place(e) ==
    LET l == build[e].lease IN
    /\ build[e].pc = "place"
    /\ IF build[e].was = "leased" /\ lease[l].status # "leased"
       THEN Refuse(e) /\ UNCHANGED <<lease, seenVars>>
       ELSE /\ lease' = IF build[e].was = "leased"
                        THEN [lease EXCEPT ![l] = [@ EXCEPT !.status = "placed"]]
                        ELSE lease
            /\ build' = [build EXCEPT ![e] = NoBuild]
            /\ IF harness.episode = e /\ harness.pc = "asking"
               THEN /\ harness' = [harness EXCEPT !.pc = "thinking", !.lease = l]
                    /\ shown' = shown \cup {l}
                    /\ delivered' = delivered \cup build[e].items
               ELSE UNCHANGED <<harness, seenVars>>
    /\ UNCHANGED <<queueVars, committed, sovereign, tokens, posts, answers, faults>>

Server(e) ==
    \/ Renew(e) \/ Acquire(e)
    \/ \E cap \in Cursors : TakeLease(e, cap)
    \/ \E visible \in SUBSET Positions : Restrict(e, visible)
    \/ Place(e)

\* responded: a transaction for the lease, then one for whatever items it lists.
RespondLease(l) ==
    /\ l \in posts
    /\ posts' = posts \ {l}
    /\ IF lease[l].status = "placed"
       THEN /\ lease' = [lease EXCEPT ![l] = [@ EXCEPT !.status = "responded"]]
            /\ answers' = answers \cup {l}
       ELSE UNCHANGED <<lease, answers>>
    /\ UNCHANGED <<queueVars, committed, sovereign, tokens, build, harness, seenVars,
                   faults>>
RespondItems(l) ==
    /\ l \in answers
    /\ answers' = answers \ {l}
    /\ item' = [i \in Positions |-> IF i \in lease[l].items
                                     THEN [item[i] EXCEPT !.status = "responded"]
                                     ELSE item[i]]
    /\ UNCHANGED <<next, acked, committed, lease, sovereign, tokens, build, posts,
                   harness, seenVars, faults>>

-----------------------------------------------------------------------------
(* The provider process and the harness manager *)

\* An id that no thread works for stands for a new episode: what leases it has are
\* those of an episode long gone.
Fresh(e) == sovereign.episode # e /\ build[e].pc = "none" /\ harness.episode # e
Older(e, ls) == [l \in Leases |-> IF ls[l].episode = e
                                 THEN [ls[l] EXCEPT !.episode = NoEpisode] ELSE ls[l]]
Becomes(pc) == harness' = [harness EXCEPT !.pc = pc]
Begins(e)   == harness' = [pc |-> "idle", episode |-> e, lease |-> NoLease]

\* A provider process starts after the one before has stopped: cancel_active_sovereign
\* takes the authority, and what was delivered under it, from the latter.
Launch(e) ==
    LET active == sovereign.status = "active"
        old    == IF active THEN LiveOf(sovereign.episode) ELSE {}
    IN /\ harness.pc = "down" /\ Fresh(e)
       /\ Begins(e) /\ tokens' = tokens \ {e}
       /\ sovereign' = IF active THEN [sovereign EXCEPT !.status = "cancelled"]
                                 ELSE sovereign
       /\ item' = Requeue(old) /\ lease' = Older(e, Abandoned(old))
       /\ UNCHANGED <<next, acked, committed, build, posts, answers, seenVars, faults>>

Ask ==
    /\ harness.pc = "idle" /\ build[harness.episode].pc = "none"
    /\ Becomes("asking")
    /\ build' = [build EXCEPT ![harness.episode].pc = "authorize"]
    /\ UNCHANGED <<queueVars, committed, lease, sovereign, tokens, posts, answers,
                   seenVars, faults>>

\* The model has answered: the marker is posted, and waited for at most 5 seconds.
Post ==
    /\ harness.pc = "thinking"
    /\ Becomes("posting")
    /\ posts' = posts \cup {harness.lease}
    /\ UNCHANGED <<queueVars, committed, lease, sovereign, tokens, build, answers,
                   seenVars, faults>>
Posted ==
    /\ harness.pc = "posting"
    /\ \/ harness.lease \notin posts \cup answers /\ UNCHANGED faults
       \/ faults < MaxFaults /\ faults' = faults + 1
    /\ Becomes("acting")
    /\ UNCHANGED <<queueVars, committed, lease, sovereign, serverVars, seenVars>>

\* smac_attention_ack with any lease id of the conversation, for all that the lease
\* lists or for a part of it.
RemainderAlways(i)    == item[i].status # "none"       \* mutant
RemainderReturns(i)   == item[i].status \in {"leased", "responded"}
HighestOf(done)       ==                              \* mutant: not contiguous
    CHOOSE n \in 0 .. MaxItems :
        /\ \A i \in done \cup {acked} : i <= n
        /\ n \in done \cup {acked}
Contiguous(done) ==
    CHOOSE n \in acked .. MaxItems :
        /\ \A i \in acked + 1 .. n : i \in done
        /\ n + 1 \notin done
Acknowledge(l, eligible) ==
    LET after == [i \in Positions |->
          IF i \in eligible THEN [item[i] EXCEPT !.status = "acknowledged"]
          ELSE IF i \in lease[l].items /\ RemainderReturns(i)
          THEN [item[i] EXCEPT !.status = "queued"] ELSE item[i]]
    IN /\ harness.pc = "acting" /\ l \in shown
       /\ lease[l].status \in {"responded", "acknowledged"}
       /\ eligible \subseteq lease[l].items
       /\ item' = after
       /\ lease' = [lease EXCEPT ![l] = Ended(l, "acknowledged")]
       /\ acked' = Contiguous({i \in Positions : after[i].status = "acknowledged"})
       /\ UNCHANGED <<next, committed, sovereign, serverVars, harness, seenVars, faults>>

\* Another request of the same episode, or the episode's end.
GoOn == /\ harness.pc = "acting"
        /\ \E pc \in {"idle", "leaving"} :
              harness' = [harness EXCEPT !.pc = pc, !.lease = NoLease]
        /\ UNCHANGED <<queueVars, committed, lease, sovereign, serverVars, seenVars,
                       faults>>

\* episode-ended: release_sovereign. The same process may go on with a new episode.
EndEpisode(outcome) ==
    LET e    == harness.episode
        mine == e \in tokens /\ sovereign.episode = e /\ sovereign.status = "active"
        old  == IF mine THEN LiveOf(e) ELSE {}
    IN /\ harness.pc = "leaving"
       /\ sovereign' = IF mine THEN [sovereign EXCEPT !.status = outcome] ELSE sovereign
       /\ item' = Requeue(old)
       /\ \/ /\ harness' = Down /\ tokens' = tokens \ {e}
             /\ lease' = Abandoned(old)
          \/ \E f \in Episodes :
                /\ Fresh(f) /\ Begins(f) /\ tokens' = tokens \ {e, f}
                /\ lease' = Older(f, Abandoned(old))
       /\ UNCHANGED <<next, acked, committed, build, posts, answers, seenVars, faults>>

Harness == Ask \/ Post \/ Posted \/ GoOn
           \/ \E e \in Episodes : Launch(e)
           \/ \E outcome \in {"committed", "cancelled"} : EndEpisode(outcome)

-----------------------------------------------------------------------------
(* Time and faults *)

LeaseLapses(l) ==
    /\ Live(l) /\ ~ lease[l].lapsed
    /\ lease' = [lease EXCEPT ![l] = [@ EXCEPT !.lapsed = TRUE]]
    /\ UNCHANGED <<queueVars, committed, sovereign, serverVars, harness, seenVars, faults>>
SovereignLapses ==
    /\ sovereign.status = "active" /\ ~ sovereign.lapsed
    /\ sovereign' = [sovereign EXCEPT !.lapsed = TRUE]
    /\ UNCHANGED <<queueVars, committed, lease, serverVars, harness, seenVars, faults>>

\* sovereign_state, which every gate of the tool server reads. (While heartbeats reach
\* the server the authority does not lapse: they are the absence of SovereignLapses.)
ReadAuthority ==
    /\ sovereign.status = "active" /\ sovereign.lapsed
    /\ sovereign' = [sovereign EXCEPT !.status = "expired"]
    /\ UNCHANGED <<queueVars, committed, lease, serverVars, harness, seenVars, faults>>

HarnessDies ==
    /\ harness.pc # "down" /\ faults < MaxFaults
    /\ harness' = Down
    /\ faults' = faults + 1
    /\ UNCHANGED <<queueVars, committed, lease, sovereign, serverVars, seenVars>>
ServerDies ==
    /\ faults < MaxFaults
    /\ faults' = faults + 1
    /\ tokens' = {} /\ posts' = {} /\ answers' = {}
    /\ build' = [e \in Episodes |-> NoBuild]
    /\ harness' = IF harness.pc = "asking" THEN [harness EXCEPT !.pc = "leaving"]
                                           ELSE harness
    /\ UNCHANGED <<queueVars, committed, lease, sovereign, seenVars>>

Environment ==
    \/ \E cursor \in Cursors, critical \in Criticality : Enqueue(cursor, critical)
    \/ Publish \/ SovereignLapses \/ ReadAuthority \/ HarnessDies \/ ServerDies
    \/ \E l \in Leases : LeaseLapses(l)
    \/ \E e \in Episodes : BuildFails(e)

Next ==
    \/ Harness \/ Environment
    \/ \E e \in Episodes : Server(e)
    \/ \E l \in Leases :
         \/ RespondLease(l) \/ RespondItems(l)
         \/ \E eligible \in SUBSET Positions : Acknowledge(l, eligible)
Spec == Init /\ [][Next]_vars

\* The server's threads and the provider's loop run; a staged observation is
\* installed; wall time passes. Of the sovereign it is assumed that it acknowledges,
\* time and again, all of a batch it was shown: until then the turn gate of the
\* critical items (smacx_mcp.py: critical_attention_requires_review) keeps it from
\* ending its turn.
Fairness ==
    /\ WF_vars(Publish) /\ WF_vars(Harness)
    /\ WF_vars(SovereignLapses)
    /\ \A e \in Episodes : WF_vars(Server(e))
    /\ \A l \in Leases : WF_vars(LeaseLapses(l)) /\ WF_vars(RespondLease(l))
                            /\ WF_vars(RespondItems(l))
    /\ SF_vars(\E l \in Leases : lease[l].items # {}
                                 /\ lease[l].status # "acknowledged"
                                 /\ Acknowledge(l, lease[l].items))
FairSpec == Spec /\ Fairness

-----------------------------------------------------------------------------
(* Safety *)

\* What a provider has been shown, and everything captured before it, belongs to an
\* observation that is installed: no lease reaches past an unpublished earlier item,
\* however many worlds, threads and episodes came between the lease and the request.
NothingShownEarly ==
    \A i \in delivered : \A j \in 1 .. i : item[j].cursor <= committed

\* At least once: an item that nobody has been shown is in the queue, or in a lease
\* that will give it back; no expiry, cancel, restart or omission loses it first.
AtLeastOnce ==
    \A i \in Positions :
        \/ item[i].status \in {"none", "queued", "acknowledged"}
        \/ i \in delivered
        \/ item[i].status = "leased" /\ \E l \in Leases : Live(l) /\ i \in lease[l].items

\* Nothing is acknowledged that the provider was never shown, although a lease holds
\* more than fits a context and any lease id may be acknowledged late and as a whole.
AcknowledgedWasShown ==
    \A i \in Positions : item[i].status = "acknowledged" => i \in delivered

\* The acknowledged cursor stands for a contiguous prefix of acknowledged items (when
\* no process is lost and no request times out: see AcknowledgementFinal).
CursorTruthful ==
    \A i \in 1 .. acked : item[i].status = "acknowledged"

-----------------------------------------------------------------------------
(* What the code claims and does not do *)

\* The response marker: "Response commitment is retried/idempotent; never falsify
\* attention acknowledgement." It holds while requests are answered in time.
AcknowledgementFinal ==
    [][\A i \in Positions : item[i].status = "acknowledged"
                            => item'[i].status = "acknowledged"]_vars

\* "Long provider/tool episodes must not strand unacknowledged critical attention":
\* what gates the turn is in the queue or in a lease that can be acknowledged or lost.
NoStrandedCritical ==
    \A i \in Positions :
        item[i].critical /\ item[i].status \notin {"none", "queued", "acknowledged"}
        => \E l \in Leases : Live(l) /\ i \in lease[l].items

-----------------------------------------------------------------------------
(* Liveness *)

\* Every critical item is shown to the sovereign, whatever faults, expiries, stale
\* threads and larger items come between.
CriticalShown ==
    \A i \in Positions : item[i].critical ~> i \in delivered
=============================================================================
