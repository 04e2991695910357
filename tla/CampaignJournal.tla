---------------------------- MODULE CampaignJournal ----------------------------
(***************************************************************************)
(* The campaign journal of one perspective (smacx_journal.py): a directory   *)
(* of event files for each timeline, its manifest, its idempotency markers   *)
(* and its row of the match catalog, written by several processes under file *)
(* locks, each process with caches of its own.                               *)
(*                                                                         *)
(* A step is one installed file (_atomic_json replaces a file whole) with    *)
(* the changes of the process's memory that follow it before the next file.  *)
(* Between two steps the process may be killed, and loses its caches, or the *)
(* write may raise, and it keeps them; both let go of its locks.             *)
(*                                                                         *)
(* An event's hash is its id: it stands for the event and for the chain      *)
(* before it. The modification time of an events directory is the number of  *)
(* its files, which are never removed.                                       *)
(***************************************************************************)
EXTENDS Naturals, Sequences, FiniteSets

CONSTANTS
    Processes,    \* processes with a CampaignJournal of their own
    Timelines, Main,
    Keys, NoKey,  \* idempotency keys
    Nothing,      \* an entry a cache does not have; a timeline without parent
    MaxEvents,    \* bound: events of all timelines
    MaxFaults     \* bound: processes killed and writes that raise

ASSUME BoundAssumption == MaxEvents \in Nat /\ MaxFaults \in Nat
ASSUME TimelineAssumption == IsFiniteSet(Timelines)
ASSUME NullAssumption ==
    /\ Main \in Timelines /\ Nothing \notin Timelines /\ NoKey \notin Keys

VARIABLES
    events,    \* the event files of each timeline
    manifest,  \* manifest.json of each timeline
    marker,    \* idempotency/*.json: the event a key is marked with, 0 if none
    catalog,   \* the head that campaign.json has for each timeline
    memo,      \* _recovered_heads of each process
    index,     \* _idempotency_event_index of each process
    cache,     \* _replay_cache of each process
    proc,      \* where each process is in the method it executes
    active,    \* the match's active_memory_timeline
    serves,    \* the timeline each process has last resolved
    answered,  \* events whose append returned them (history)
    refused,   \* a method raised that the journal is not what it must be (history)
    faults     \* faults so far
diskVars  == <<events, manifest, marker, catalog>>
cacheVars == <<memo, index, cache>>
seenVars  == <<answered, refused>>
callVars  == <<active, serves>>
vars == <<diskVars, cacheVars, proc, callVars, seenVars, faults>>

-----------------------------------------------------------------------------
Ids    == 1 .. MaxEvents
Heads  == 0 .. MaxEvents     \* 0: the head of a timeline without events

Event     == [seq : Ids, id : Ids, key : Keys \cup {NoKey}, prev : Heads]
Manifest  == [seq : Heads, head : Heads, parent : Timelines \cup {Nothing},
              fork : Heads]
Signature == [files : Heads, seq : Heads, head : Heads]
Index     == [files : Heads, names : [Keys -> Heads]]
Replay    == [head : Heads, log : Seq(Ids)]
ASSUME NoSignatureAssumption == Nothing \notin Signature

\* The steps of a method, by the locks it holds there.
Critical == {"recover", "advance", "list", "look", "remark", "install", "commit",
             "mark", "publish", "materialize"}
Forking  == {"fork_list", "forked"}
Archives == {"archiving"}

NoWork == [pc |-> "idle", op |-> "append", timeline |-> Main, key |-> NoKey, id |-> 0]

TypeOK ==
    /\ events \in [Timelines -> SUBSET Event]
    /\ manifest \in [Timelines -> Manifest]
    /\ marker \in [Timelines -> [Keys -> Heads]]
    /\ catalog \in [Timelines -> Heads]
    /\ memo \in [Processes -> [Timelines -> Signature \cup {Nothing}]]
    /\ index \in [Processes -> [Timelines -> Index \cup {Nothing}]]
    /\ cache \in [Processes -> [Timelines -> Replay \cup {Nothing}]]
    /\ proc \in [Processes ->
         [pc : {"idle"} \cup Critical \cup Forking \cup Archives,
          op : {"append", "replay", "fork", "archive"}, timeline : Timelines,
          key : Keys \cup {NoKey}, id : Heads]]
    /\ active \in Timelines /\ serves \in [Processes -> Timelines]
    /\ answered \subseteq [timeline : Timelines, id : Ids, key : Keys \cup {NoKey}]
    /\ refused \in BOOLEAN
    /\ faults \in 0 .. MaxFaults

Init ==
    /\ events = [t \in Timelines |-> {}]
    /\ manifest = [t \in Timelines |->
                     [seq |-> 0, head |-> 0, parent |-> Nothing, fork |-> 0]]
    /\ marker = [t \in Timelines |-> [k \in Keys |-> 0]]
    /\ catalog = [t \in Timelines |-> 0]
    /\ memo = [p \in Processes |-> [t \in Timelines |-> Nothing]]
    /\ index = [p \in Processes |-> [t \in Timelines |-> Nothing]]
    /\ cache = [p \in Processes |-> [t \in Timelines |-> Nothing]]
    /\ proc = [p \in Processes |-> NoWork]
    /\ active = Main /\ serves = [p \in Processes |-> Main]
    /\ answered = {} /\ refused = FALSE
    /\ faults = 0

-----------------------------------------------------------------------------
(* What the files of a timeline say *)

Length(t)   == Cardinality(events[t])
EventAt(t, n) == CHOOSE e \in events[t] : e.seq = n
HeadAt(t, n)  == IF n = 0 THEN 0 ELSE EventAt(t, n).id
\* _validate_event, over a whole directory.
Chained(t) ==
    /\ {e.seq : e \in events[t]} = 1 .. Length(t)
    /\ \A e \in events[t] : e.prev = HeadAt(t, e.seq - 1)
Agrees(t) == /\ manifest[t].seq <= Length(t)
             /\ manifest[t].head = HeadAt(t, manifest[t].seq)
HeadOnly(t) == [files |-> 0, seq |-> manifest[t].seq,   \* mutant
               head |-> manifest[t].head]
SignatureOf(t) == [files |-> Length(t), seq |-> manifest[t].seq,
                   head |-> manifest[t].head]
Marked(t, key)    == {e \in events[t] : e.key = key}
Committed(t, id)  == \E e \in events[t] : e.id = id /\ e.seq <= manifest[t].seq

\* The ids of a timeline's own events up to the one its target names.
Own(t, target) ==
    IF target = 0 THEN <<>>
    ELSE LET last == CHOOSE e \in events[t] : e.id = target
         IN [n \in 1 .. last.seq |-> EventAt(t, n).id]
Found(t, target) == target = 0 \/ \E e \in events[t] : e.id = target
\* _materialize_timeline: what the parents had at each fork comes first.
Inherited ==
    LET from[n \in Nat] ==
          [t \in Timelines |->
             IF n = 0 \/ manifest[t].parent = Nothing THEN <<>>
             ELSE from[n - 1][manifest[t].parent]
                  \o Own(manifest[t].parent, manifest[t].fork)]
    IN from[Cardinality(Timelines)]
Materialized(t, target) == Inherited[t] \o Own(t, target)

-----------------------------------------------------------------------------
(* Locks: every method but fork_timeline holds the root's lock shared, then *)
(* its timeline's; archive_to holds the root's exclusively                  *)

InNoRoot(p)  == FALSE   \* mutant
InRoot(p)    == proc[p].pc \in Critical
InPath(p, t) == proc[p].pc \in Critical /\ proc[p].timeline = t
Archiving    == \E p \in Processes : proc[p].pc \in Archives

Goto(p, pc) == proc' = [proc EXCEPT ![p].pc = pc]
Leave(p)    == proc' = [proc EXCEPT ![p] = NoWork]
Refuse(p)   == Leave(p) /\ refused' = TRUE

\* timeline_id: the environment's, a collector's own or the resolver's; a
\* process may serve a timeline that is no longer the active one.
Resolve(p) ==
    /\ proc[p].pc = "idle" /\ serves[p] # active
    /\ serves' = [serves EXCEPT ![p] = active]
    /\ UNCHANGED <<diskVars, cacheVars, proc, active, seenVars, faults>>

\* A method waits for both of its locks before it reads anything.
Unlocked(t) == ~ Archiving /\ \A q \in Processes : ~ InPath(q, t)

Call(p, op, key) ==
    /\ proc[p].pc = "idle" /\ Unlocked(serves[p])
    /\ proc' = [proc EXCEPT ![p] = [pc |-> "recover", op |-> op, timeline |-> serves[p],
                                     key |-> key, id |-> 0]]
    /\ UNCHANGED <<diskVars, cacheVars, callVars, seenVars, faults>>

-----------------------------------------------------------------------------
(* _recover_suffix_locked *)

AfterRecovery(p) ==
    IF proc[p].op # "append" THEN "materialize"
    ELSE IF proc[p].key = NoKey THEN "install" ELSE "look"

Recover(p) == LET t == proc[p].timeline IN
    /\ proc[p].pc = "recover"
    /\ \/ /\ memo[p][t] = SignatureOf(t)
          /\ Goto(p, AfterRecovery(p))
          /\ UNCHANGED <<memo, refused>>
       \/ /\ memo[p][t] # SignatureOf(t) /\ ~ (Chained(t) /\ Agrees(t))
          /\ Refuse(p)
          /\ UNCHANGED memo
       \/ /\ memo[p][t] # SignatureOf(t) /\ Chained(t) /\ Agrees(t)
          /\ manifest[t].seq = Length(t)
          /\ memo' = [memo EXCEPT ![p][t] = SignatureOf(t)]
          /\ Goto(p, AfterRecovery(p))
          /\ UNCHANGED refused
       \/ /\ memo[p][t] # SignatureOf(t) /\ Chained(t) /\ Agrees(t)
          /\ manifest[t].seq < Length(t)
          /\ Goto(p, "advance")
          /\ UNCHANGED <<memo, refused>>
    /\ UNCHANGED <<diskVars, index, cache, callVars, answered, faults>>

Advance(p) == LET t == proc[p].timeline IN
    /\ proc[p].pc = "advance"
    /\ manifest' = [manifest EXCEPT ![t].seq = Length(t),
                                    ![t].head = HeadAt(t, Length(t))]
    /\ cache' = [cache EXCEPT ![p][t] = Nothing]
    /\ Goto(p, "list")
    /\ UNCHANGED <<events, marker, catalog, memo, index, callVars, seenVars, faults>>

List(p) == LET t == proc[p].timeline IN
    /\ proc[p].pc = "list"
    /\ catalog' = [catalog EXCEPT ![t] = manifest[t].head]
    /\ memo' = [memo EXCEPT ![p][t] = SignatureOf(t)]
    /\ Goto(p, AfterRecovery(p))
    /\ UNCHANGED <<events, manifest, marker, index, cache, callVars, seenVars, faults>>

-----------------------------------------------------------------------------
(* append *)

\* The caller is given an event; one past the manifest is an error.
Answer(p, id) == LET t == proc[p].timeline IN
    \/ /\ Committed(t, id)
       /\ answered' = answered \cup {[timeline |-> t, id |-> id, key |-> proc[p].key]}
       /\ Leave(p) /\ UNCHANGED refused
    \/ /\ ~ Committed(t, id)
       /\ Refuse(p) /\ UNCHANGED answered

\* The index of a directory: the last file of each key wins.
NamesOf(t) ==
    [k \in Keys |->
       IF Marked(t, k) = {} THEN 0
       ELSE (CHOOSE e \in Marked(t, k) : \A o \in Marked(t, k) : o.seq <= e.seq).id]
Trusted(p, t) == IF index[p][t] # Nothing THEN index[p][t]   \* mutant
                 ELSE [files |-> Length(t), names |-> NamesOf(t)]
Fresh(p, t) == IF index[p][t] # Nothing /\ index[p][t].files = Length(t)
               THEN index[p][t]
               ELSE [files |-> Length(t), names |-> NamesOf(t)]

\* A marker or an index entry counts only if its file has the key.
Names(t, id, key) == \E e \in events[t] : e.id = id /\ e.key = key

LookAtMarker(p) == LET t == proc[p].timeline  key == proc[p].key IN
    /\ proc[p].pc = "look" /\ Names(t, marker[t][key], key)
    /\ Answer(p, marker[t][key])
    /\ UNCHANGED <<diskVars, cacheVars, callVars, faults>>

LookAtIndex(p) == LET t == proc[p].timeline  key == proc[p].key
                      id == Fresh(p, t).names[key] IN
    /\ proc[p].pc = "look" /\ ~ Names(t, marker[t][key], key)
    /\ index' = [index EXCEPT ![p][t] = Fresh(p, t)]
    /\ \/ Names(t, id, key)
          /\ proc' = [proc EXCEPT ![p].pc = "remark", ![p].id = id]
       \/ ~ Names(t, id, key) /\ Goto(p, "install")
    /\ UNCHANGED <<diskVars, memo, cache, callVars, seenVars, faults>>

Remark(p) == LET t == proc[p].timeline IN
    /\ proc[p].pc = "remark"
    /\ marker' = [marker EXCEPT ![t][proc[p].key] = proc[p].id]
    /\ Answer(p, proc[p].id)
    /\ UNCHANGED <<events, manifest, catalog, cacheVars, callVars, faults>>

\* Ids are given out in order; that they are new is all the code has of uuid4.
Created  == UNION {{e.id : e \in events[t]} : t \in Timelines}
NewId(id) == id \notin Created /\ 1 .. id - 1 \subseteq Created
NewEvent(p, id) ==
    [seq |-> manifest[proc[p].timeline].seq + 1, id |-> id, key |-> proc[p].key,
     prev |-> manifest[proc[p].timeline].head]

Install(p) == \E id \in Ids :
    /\ proc[p].pc = "install" /\ NewId(id)
    /\ events' = [events EXCEPT ![proc[p].timeline] = @ \cup {NewEvent(p, id)}]
    /\ proc' = [proc EXCEPT ![p].pc = "commit", ![p].id = id]
    /\ UNCHANGED <<manifest, marker, catalog, cacheVars, callVars, seenVars, faults>>

CommitTwice(p) == LET t == proc[p].timeline IN   \* mutant
    /\ proc[p].pc = "commit"
    /\ manifest' = [manifest EXCEPT ![t].seq = @ + 2, ![t].head = proc[p].id]
    /\ Goto(p, "mark")
    /\ UNCHANGED <<events, marker, catalog, cacheVars, callVars, seenVars, faults>>
CommitNothing(p) ==   \* mutant
    /\ proc[p].pc = "commit"
    /\ Goto(p, "mark")
    /\ UNCHANGED <<diskVars, cacheVars, callVars, seenVars, faults>>
Commit(p) == LET t == proc[p].timeline IN
    /\ proc[p].pc = "commit"
    /\ manifest' = [manifest EXCEPT ![t].seq = @ + 1, ![t].head = proc[p].id]
    /\ Goto(p, "mark")
    /\ UNCHANGED <<events, marker, catalog, cacheVars, callVars, seenVars, faults>>

Mark(p) == LET t == proc[p].timeline IN
    /\ proc[p].pc = "mark"
    /\ marker' = IF proc[p].key = NoKey THEN marker
                 ELSE [marker EXCEPT ![t][proc[p].key] = proc[p].id]
    /\ memo' = [memo EXCEPT ![p][t] = SignatureOf(t)]
    /\ Goto(p, "publish")
    /\ UNCHANGED <<events, manifest, catalog, index, cache, callVars, seenVars, faults>>

\* An index that did not know the directory as this append found it is dropped.
IndexedBlindly(p, t) ==   \* mutant
    IF index[p][t] = Nothing THEN Nothing
    ELSE [files |-> Length(t),
          names |-> IF proc[p].key = NoKey THEN index[p][t].names
                    ELSE [index[p][t].names EXCEPT ![proc[p].key] = proc[p].id]]
Indexed(p, t) ==
    IF index[p][t] = Nothing \/ index[p][t].files # Length(t) - 1 THEN Nothing
    ELSE [files |-> Length(t),
          names |-> IF proc[p].key = NoKey THEN index[p][t].names
                    ELSE [index[p][t].names EXCEPT ![proc[p].key] = proc[p].id]]
Cached(p, t, head) == cache[p][t] # Nothing /\ cache[p][t].head = head
\* A replay that is not of the head this append extended stays as it is.
ExtendedBlindly(p, t) ==   \* mutant
    IF cache[p][t] = Nothing THEN Nothing
    ELSE [head |-> proc[p].id, log |-> Append(cache[p][t].log, proc[p].id)]
Extended(p, t) ==
    IF Cached(p, t, HeadAt(t, manifest[t].seq - 1))
    THEN [head |-> proc[p].id, log |-> Append(cache[p][t].log, proc[p].id)]
    ELSE cache[p][t]

\* A commit is the last thing a method does: its event is recorded by then.
GitRaises == faults < MaxFaults /\ faults' = faults + 1

Publish(p) == LET t == proc[p].timeline IN
    /\ proc[p].pc = "publish"
    /\ catalog' = [catalog EXCEPT ![t] = manifest[t].head]
    /\ index' = [index EXCEPT ![p][t] = Indexed(p, t)]
    /\ cache' = [cache EXCEPT ![p][t] = Extended(p, t)]
    /\ \/ /\ answered' = answered \cup {[timeline |-> t, id |-> proc[p].id,
                                        key |-> proc[p].key]}
          /\ UNCHANGED faults
       \/ GitRaises /\ UNCHANGED answered
    /\ Leave(p)
    /\ UNCHANGED <<events, manifest, marker, memo, callVars, refused>>

-----------------------------------------------------------------------------
(* replay, fork_timeline and archive_to *)

\* verify
Verified(t) == Chained(t) /\ Agrees(t) /\ manifest[t].seq = Length(t)

\* A restore makes its timeline the active one when it has read it.
Materialize(p) == LET t == proc[p].timeline  head == manifest[t].head IN
    /\ proc[p].pc = "materialize"
    /\ \/ /\ Cached(p, t, head) \/ Verified(t)
          /\ cache' = IF Cached(p, t, head) THEN cache
                      ELSE [cache EXCEPT ![p][t] =
                              [head |-> head, log |-> Materialized(t, head)]]
          /\ active' = IF proc[p].op = "fork" THEN t ELSE active
          /\ Leave(p) /\ UNCHANGED refused
       \/ /\ ~ Cached(p, t, head) /\ ~ Verified(t)
          /\ Refuse(p) /\ UNCHANGED <<cache, active>>
    /\ UNCHANGED <<diskVars, memo, index, serves, answered, faults>>

\* A restore forks at the head its checkpoint names, under an id that is new.
Fork(p, child, parent, head) ==
    /\ proc[p].pc = "idle"
    /\ parent = Main \/ manifest[parent].parent # Nothing
    /\ child # Main /\ manifest[child].parent = Nothing
    /\ Found(parent, head)
    /\ manifest' = [manifest EXCEPT ![child].parent = parent, ![child].fork = head]
    /\ proc' = [proc EXCEPT ![p] = [pc |-> "fork_list", op |-> "fork",
                                     timeline |-> child, key |-> NoKey, id |-> 0]]
    /\ UNCHANGED <<events, marker, catalog, cacheVars, callVars, seenVars, faults>>

\* A restore then replays the new timeline for its chat groups.
ForkList(p) ==
    /\ proc[p].pc = "fork_list"
    /\ catalog' = [catalog EXCEPT ![proc[p].timeline] = 0]
    /\ \/ Goto(p, "forked") /\ UNCHANGED faults
       \/ GitRaises /\ Leave(p)
    /\ UNCHANGED <<events, manifest, marker, cacheVars, callVars, seenVars>>

ReplayFork(p) ==
    /\ proc[p].pc = "forked" /\ Unlocked(proc[p].timeline)
    /\ Goto(p, "recover")
    /\ UNCHANGED <<diskVars, cacheVars, callVars, seenVars, faults>>

\* A backup copies the whole tree while it alone has the root.
Archive(p) ==
    /\ proc[p].pc = "idle" /\ ~ Archiving
    /\ \A q \in Processes : ~ InRoot(q)
    /\ proc' = [proc EXCEPT ![p].pc = "archiving", ![p].op = "archive"]
    /\ UNCHANGED <<diskVars, cacheVars, callVars, seenVars, faults>>
Archived(p) ==
    /\ proc[p].pc = "archiving"
    /\ Leave(p)
    /\ UNCHANGED <<diskVars, cacheVars, callVars, seenVars, faults>>

-----------------------------------------------------------------------------
(* Faults *)

Writes == {"advance", "list", "remark", "install", "commit", "mark", "publish",
           "fork_list"}

\* A write raises: the method ends, its caches stay. The first file of an append
\* leaves nothing behind when it fails, so the bound does not count it; it stands
\* too for the appends that MaxEvents has no room for.
Raise(p) ==
    /\ proc[p].pc \in Writes
    /\ \/ proc[p].pc = "install" /\ UNCHANGED faults
       \/ proc[p].pc # "install" /\ faults < MaxFaults /\ faults' = faults + 1
    /\ Leave(p)
    /\ UNCHANGED <<diskVars, cacheVars, callVars, seenVars>>

\* The process is killed, and another takes its place.
Crash(p) ==
    /\ faults < MaxFaults
    /\ Leave(p)
    /\ memo' = [memo EXCEPT ![p] = [t \in Timelines |-> Nothing]]
    /\ index' = [index EXCEPT ![p] = [t \in Timelines |-> Nothing]]
    /\ cache' = [cache EXCEPT ![p] = [t \in Timelines |-> Nothing]]
    /\ serves' = [serves EXCEPT ![p] = active]
    /\ faults' = faults + 1
    /\ UNCHANGED <<diskVars, active, seenVars>>

Step(p) ==
    \/ Recover(p) \/ Advance(p) \/ List(p)
    \/ LookAtMarker(p) \/ LookAtIndex(p) \/ Remark(p)
    \/ Install(p) \/ Commit(p) \/ Mark(p) \/ Publish(p)
    \/ Materialize(p) \/ ForkList(p) \/ ReplayFork(p) \/ Archived(p)

Request(p) ==
    \/ \E key \in Keys \cup {NoKey} : Call(p, "append", key)
    \/ Call(p, "replay", NoKey)
    \/ Resolve(p)
    \/ \E child, parent \in Timelines, head \in Heads : Fork(p, child, parent, head)
    \/ Archive(p)

Next == \E p \in Processes : Request(p) \/ Step(p) \/ Raise(p) \/ Crash(p)

Spec == Init /\ [][Next]_vars

-----------------------------------------------------------------------------
(* Properties *)

\* Recovery, the lookup of a key and the verification of a replay never find
\* a journal they refuse, whatever was killed before them (the JournalErrors
\* of _recover_suffix_locked, append and _replay_locked; docs/strategic-world.md,
\* "recover a unique verified installed suffix").
NothingRefused == ~ refused

\* No key has two events in a timeline: not when a retry follows a death before
\* the marker, and not when another process wrote the key that an index of this
\* process does not know (append's marker and index).
OneEventPerKey ==
    \A t \in Timelines, k \in Keys : Cardinality(Marked(t, k)) <= 1

\* An event that append has returned is committed for good: in its timeline,
\* under the caller's key, at or before the manifest's head.
AnsweredIsDurable ==
    \A a \in answered : \E e \in events[a.timeline] :
        e.id = a.id /\ e.key = a.key /\ e.seq <= manifest[a.timeline].seq

\* A replay a process has kept is exactly what the files hold up to its head,
\* the parents' part included, however the appends of this process and of
\* others, their failures and the recoveries have touched it.
ReplayIsExact ==
    \A p \in Processes, t \in Timelines :
        cache[p][t] # Nothing => cache[p][t].log = Materialized(t, cache[p][t].head)

\* A backup never splits an event from its manifest, its marker or its row of
\* the catalog (the comment of append on the root lock), unless a process was
\* killed or a write raised between them; and even then recovery can finish
\* what it holds and every event already returned is committed in it.
ArchiveIsWhole ==
    Archiving => \A t \in Timelines :
        /\ Chained(t) /\ Agrees(t)
        /\ faults = 0 =>
             /\ manifest[t].seq = Length(t) /\ catalog[t] = manifest[t].head
             /\ \A e \in events[t] : e.key # NoKey => marker[t][e.key] = e.id

\* The files, as the log they stand for.
Entry(e) == [id |-> e.id, key |-> e.key]
Log == [t \in Timelines |-> [n \in 1 .. Length(t) |-> Entry(EventAt(t, n))]]

\* Every step of the journal, a fault included, is a step of EventLog or none.
Abstract == INSTANCE EventLog WITH log <- Log, Ids <- Ids
ImplementsEventLog == Abstract!Spec
===============================================================================
