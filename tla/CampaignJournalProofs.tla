------------------------ MODULE CampaignJournalProofs ------------------------
(***************************************************************************)
(* Proofs about CampaignJournal, for any number of processes, timelines,     *)
(* keys, events and faults.                                                *)
(*                                                                         *)
(* IInv is the inductive invariant. The files of a timeline are a chain that *)
(* the manifest is a point of (FilesInv); a process that holds the locks of a *)
(* timeline knows how far the manifest and the files are apart at each of its *)
(* steps (Knows), and nobody else holds them (LocksInv); a remembered         *)
(* signature is one of a recovered timeline (MemoInv), and an index names     *)
(* every event it is as old as (IndexInv). The replays a process keeps are no *)
(* part of it: no file depends on them.                                      *)
(***************************************************************************)
EXTENDS CampaignJournal, FiniteSetTheorems, SequenceTheorems, TLAPS

-----------------------------------------------------------------------------
(* Directories of events *)

EventIn(S, n) == CHOOSE e \in S : e.seq = n
HeadIn(S, n)  == IF n = 0 THEN 0 ELSE EventIn(S, n).id

ChainOf(S) ==
    /\ IsFiniteSet(S)
    /\ {e.seq : e \in S} = 1 .. Cardinality(S)
    /\ \A e, f \in S : e.seq = f.seq => e = f
    /\ \A e \in S : e.prev = HeadIn(S, e.seq - 1)

\* An event of a chain is the one its sequence says.
LEMMA EventOfChain ==
    ASSUME NEW S, ChainOf(S), NEW e \in S
    PROVE  /\ Cardinality(S) \in Nat
           /\ e.seq \in 1 .. Cardinality(S)
           /\ EventIn(S, e.seq) = e
           /\ HeadIn(S, e.seq) = e.id
<1>1. Cardinality(S) \in Nat
  BY FS_CardinalityType DEF ChainOf
<1>2. e.seq \in 1 .. Cardinality(S)
  BY DEF ChainOf
<1>3. EventIn(S, e.seq) = e
  BY DEF ChainOf, EventIn
<1>4. e.seq # 0
  BY <1>1, <1>2
<1>. QED  BY <1>1, <1>2, <1>3, <1>4 DEF HeadIn

\* A chain has an event at every sequence up to its length.
LEMMA ChainHasEvent ==
    ASSUME NEW S, ChainOf(S), NEW n \in 1 .. Cardinality(S)
    PROVE  EventIn(S, n) \in S /\ EventIn(S, n).seq = n
<1>1. PICK e \in S : e.seq = n
  BY DEF ChainOf
<1>. QED  BY <1>1 DEF EventIn

\* The head at a sequence of a chain is an id, or 0 before the first event.
LEMMA HeadOfChain ==
    ASSUME NEW S \in SUBSET Event, ChainOf(S), NEW n \in 0 .. Cardinality(S)
    PROVE  HeadIn(S, n) \in Heads
<1>. USE BoundAssumption
<1>1. CASE n = 0
  BY <1>1 DEF HeadIn, Heads
<1>2. CASE n # 0
  <2>1. Cardinality(S) \in Nat
    BY FS_CardinalityType DEF ChainOf
  <2>2. EventIn(S, n) \in Event
    BY <1>2, <2>1, ChainHasEvent
  <2>. QED  BY <1>2, <2>2 DEF HeadIn, Heads, Ids, Event
<1>. QED  BY <1>1, <1>2

\* The length of a chain of events is within the bound.
LEMMA LengthOfChain ==
    ASSUME NEW S \in SUBSET Event, ChainOf(S)
    PROVE  Cardinality(S) \in Heads
<1>1. Cardinality(S) \in Nat
  BY FS_CardinalityType DEF ChainOf
<1>2. CASE Cardinality(S) = 0
  BY <1>2, BoundAssumption DEF Heads
<1>3. CASE Cardinality(S) # 0
  <2>1. Cardinality(S) \in 1 .. Cardinality(S)
    BY <1>1, <1>3
  <2>2. PICK e \in S : e.seq = Cardinality(S)
    BY <2>1, ChainHasEvent
  <2>. QED  BY <2>2, BoundAssumption DEF Event, Ids, Heads
<1>. QED  BY <1>2, <1>3

\* An event after the last one, with its predecessor's id, extends a chain and
\* moves none of its events.
LEMMA ChainExtended ==
    ASSUME NEW S, ChainOf(S), NEW x, NEW T, T = S \cup {x},
           x.seq = Cardinality(S) + 1, x.prev = HeadIn(S, Cardinality(S))
    PROVE  /\ ChainOf(T)
           /\ Cardinality(T) = Cardinality(S) + 1
           /\ \A n \in 1 .. Cardinality(S) : EventIn(T, n) = EventIn(S, n)
           /\ \A n \in 0 .. Cardinality(S) : HeadIn(T, n) = HeadIn(S, n)
           /\ EventIn(T, Cardinality(S) + 1) = x
<1>. DEFINE len == Cardinality(S)
<1>1. len \in Nat
  BY FS_CardinalityType DEF ChainOf
<1>2. \A e \in S : e.seq \in 1 .. len
  BY DEF ChainOf
<1>3. x \notin S
  BY <1>1, <1>2
<1>4. IsFiniteSet(T) /\ Cardinality(T) = len + 1
  BY <1>3, FS_AddElement DEF ChainOf
<1>5. {e.seq : e \in T} = 1 .. len + 1
  <2>1. {e.seq : e \in S} = 1 .. len
    BY DEF ChainOf
  <2>2. {e.seq : e \in T} = {e.seq : e \in S} \cup {len + 1}
    OBVIOUS
  <2>. QED  BY <1>1, <2>1, <2>2
<1>6. \A e, f \in T : e.seq = f.seq => e = f
  <2>1. \A e, f \in S : e.seq = f.seq => e = f
    BY DEF ChainOf
  <2>. QED  BY <1>1, <1>2, <2>1
<1>7. ASSUME NEW n \in 1 .. len
      PROVE  EventIn(T, n) = EventIn(S, n)
  <2>1. PICK e \in S : e.seq = n
    BY DEF ChainOf
  <2>2. EventIn(S, n) = e
    BY <2>1, EventOfChain
  <2>3. EventIn(T, n) = e
    BY <2>1, <1>6 DEF EventIn
  <2>. QED  BY <2>2, <2>3
<1>8. EventIn(T, len + 1) = x
  BY <1>6 DEF EventIn
<1>9. ASSUME NEW n \in 0 .. len
      PROVE  HeadIn(T, n) = HeadIn(S, n)
  <2>1. CASE n = 0
    BY <2>1 DEF HeadIn
  <2>2. CASE n # 0
    <3>1. n \in 1 .. len
      BY <2>2, <1>1
    <3>. QED  BY <3>1, <1>7 DEF HeadIn
  <2>. QED  BY <2>1, <2>2
<1>10. ASSUME NEW e \in T
       PROVE  e.prev = HeadIn(T, e.seq - 1)
  <2>1. CASE e \in S
    <3>1. e.seq - 1 \in 0 .. len
      BY <1>1, <1>2, <2>1
    <3>2. e.prev = HeadIn(S, e.seq - 1)
      BY <2>1 DEF ChainOf
    <3>. QED  BY <3>1, <3>2, <1>9
  <2>2. CASE e = x
    <3>1. e.seq - 1 = len /\ len \in 0 .. len
      BY <2>2, <1>1
    <3>. QED  BY <3>1, <2>2, <1>9
  <2>. QED  BY <2>1, <2>2
<1>. QED  BY <1>4, <1>5, <1>6, <1>7, <1>8, <1>9, <1>10 DEF ChainOf

\* The empty directory is a chain.
LEMMA EmptyChain == ChainOf({}) /\ Cardinality({}) = 0
<1>1. IsFiniteSet({}) /\ Cardinality({}) = 0
  BY FS_EmptySet
<1>. QED  BY <1>1 DEF ChainOf

-----------------------------------------------------------------------------
(* The invariant *)

\* TypeOK without the replays that processes keep.
Typed ==
    /\ events \in [Timelines -> SUBSET Event]
    /\ manifest \in [Timelines -> Manifest]
    /\ marker \in [Timelines -> [Keys -> Heads]]
    /\ catalog \in [Timelines -> Heads]
    /\ memo \in [Processes -> [Timelines -> Signature \cup {Nothing}]]
    /\ index \in [Processes -> [Timelines -> Index \cup {Nothing}]]
    /\ proc \in [Processes ->
         [pc : {"idle"} \cup Critical \cup Forking \cup Archives,
          op : {"append", "replay", "fork", "archive"}, timeline : Timelines,
          key : Keys \cup {NoKey}, id : Heads]]
    /\ active \in Timelines /\ serves \in [Processes -> Timelines]
    /\ answered \subseteq [timeline : Timelines, id : Ids, key : Keys \cup {NoKey}]
    /\ refused \in BOOLEAN
    /\ faults \in 0 .. MaxFaults

\* The files of every timeline are a chain, and its manifest names one of its
\* heads.
FilesInv == \A t \in Timelines : ChainOf(events[t]) /\ Agrees(t)

\* An id is one event's, no smaller than its sequence, and they are given in
\* order.
IdsInv ==
    /\ \A t, u \in Timelines : \A e \in events[t], f \in events[u] :
         e.id = f.id => t = u /\ e = f
    /\ \A t \in Timelines : \A e \in events[t] : e.seq <= e.id
    /\ \A i \in Created : 1 .. i \subseteq Created

\* A key is one event's of a timeline.
KeysInv ==
    \A t \in Timelines : \A e, f \in events[t] : e.key \in Keys /\ e.key = f.key => e = f

\* One process at most is inside a timeline.
LocksInv ==
    \A p, q \in Processes :
        /\ proc[p].pc \in Critical /\ proc[q].pc \in Critical
        /\ proc[p].timeline = proc[q].timeline
        => p = q

\* What a process knows of the timeline it holds.
Settled == {"list", "look", "remark", "install", "mark", "publish", "materialize"}
Knows(p) == LET t == proc[p].timeline IN
    /\ proc[p].pc \in Settled => manifest[t].seq = Length(t)
    /\ proc[p].pc \in {"look", "remark"} => proc[p].key \in Keys
    /\ proc[p].pc \in {"remark", "commit", "mark", "publish"} =>
         Names(t, proc[p].id, proc[p].key)
    /\ proc[p].pc = "install" =>
         \A e \in events[t] : proc[p].key \in Keys => e.key # proc[p].key
    /\ proc[p].pc \in {"commit", "mark", "publish"} =>
         HeadAt(t, Length(t)) = proc[p].id
    /\ proc[p].pc = "commit" => Length(t) = manifest[t].seq + 1
ProcInv == \A p \in Processes : Knows(p)

\* A timeline is remembered when it is recovered.
MemoInv ==
    \A p \in Processes, t \in Timelines :
        memo[p][t] # Nothing => memo[p][t].seq = memo[p][t].files

\* An index names every event that was there when it was made.
IndexInv ==
    \A p \in Processes, t \in Timelines : index[p][t] # Nothing =>
        /\ index[p][t].files <= Length(t)
        /\ \A e \in events[t] : e.key \in Keys /\ e.seq <= index[p][t].files =>
             index[p][t].names[e.key] = e.id

IInv == /\ Typed /\ FilesInv /\ IdsInv /\ KeysInv /\ LocksInv /\ ProcInv /\ MemoInv
        /\ IndexInv /\ AnsweredIsDurable /\ NothingRefused

-----------------------------------------------------------------------------
(* What the invariant says of a timeline *)

\* An event of a timeline is where its sequence says, and within the length.
LEMMA EventPlace ==
    ASSUME FilesInv, NEW t \in Timelines, NEW e \in events[t]
    PROVE  /\ Length(t) \in Nat
           /\ e.seq \in 1 .. Length(t)
           /\ EventAt(t, e.seq) = e
           /\ HeadAt(t, e.seq) = e.id
<1>1. ChainOf(events[t])
  BY DEF FilesInv
<1>2. /\ Cardinality(events[t]) \in Nat
      /\ e.seq \in 1 .. Cardinality(events[t])
      /\ EventIn(events[t], e.seq) = e
      /\ HeadIn(events[t], e.seq) = e.id
  BY <1>1, EventOfChain
<1>. QED  BY <1>2 DEF Length, EventAt, HeadAt, EventIn, HeadIn

\* The length of a timeline, and the head at every point of it, are in range.
LEMMA InRange ==
    ASSUME Typed, FilesInv, NEW t \in Timelines
    PROVE  /\ Length(t) \in Heads /\ Length(t) \in Nat
           /\ manifest[t].seq \in 0 .. Length(t)
           /\ \A n \in 0 .. Length(t) : HeadAt(t, n) \in Heads
           /\ SignatureOf(t) \in Signature
<1>. DEFINE S == events[t]
<1>1. S \in SUBSET Event /\ ChainOf(S)
  BY DEF Typed, FilesInv
<1>2. Cardinality(S) \in Heads /\ \A n \in 0 .. Cardinality(S) : HeadIn(S, n) \in Heads
  BY <1>1, LengthOfChain, HeadOfChain
<1>3. Cardinality(S) \in Nat
  BY <1>1, FS_CardinalityType DEF ChainOf
<1>4. manifest[t] \in Manifest
  BY DEF Typed
<1>5. manifest[t].seq \in Nat /\ manifest[t].seq <= Cardinality(S)
  BY <1>4, BoundAssumption DEF Manifest, Heads, FilesInv, Agrees, Length
<1>. QED  BY <1>2, <1>3, <1>4, <1>5
          DEF Length, HeadAt, HeadIn, EventAt, EventIn, SignatureOf, Signature, Manifest

\* The journal is never one that recovery or verify would refuse.
LEMMA NeverBroken ==
    ASSUME FilesInv, NEW t \in Timelines
    PROVE  Chained(t) /\ Agrees(t)
  BY DEF FilesInv, ChainOf, Chained, Agrees, Length, HeadAt, HeadIn, EventAt, EventIn

\* A remembered signature that still holds is one of a recovered timeline.
LEMMA RememberedIsRecovered ==
    ASSUME Typed, FilesInv, MemoInv, NEW p \in Processes, NEW t \in Timelines,
           memo[p][t] = SignatureOf(t)
    PROVE  manifest[t].seq = Length(t)
<1>1. memo[p][t] # Nothing
  BY InRange, NoSignatureAssumption
<1>2. memo[p][t].seq = memo[p][t].files
  BY <1>1 DEF MemoInv
<1>. QED  BY <1>2 DEF SignatureOf

\* An index made of a timeline as it is, or one it already has, names every event
\* that has a key.
LEMMA FreshIsExact ==
    ASSUME Typed, FilesInv, KeysInv, IndexInv, NEW p \in Processes, NEW t \in Timelines
    PROVE  /\ Fresh(p, t) \in Index
           /\ Fresh(p, t).files = Length(t)
           /\ \A e \in events[t] : e.key \in Keys => Fresh(p, t).names[e.key] = e.id
<1>0. /\ events[t] \in SUBSET Event /\ Length(t) \in Heads
      /\ \A e \in events[t] : e.seq \in 1 .. Length(t) /\ e.id \in Ids
  BY InRange, EventPlace DEF Typed, Event
<1>1. CASE index[p][t] # Nothing /\ index[p][t].files = Length(t)
  <2>1. Fresh(p, t) = index[p][t] /\ index[p][t] \in Index
    BY <1>1 DEF Fresh, Typed
  <2>2. \A e \in events[t] : e.seq <= Length(t)
    BY <1>0, InRange
  <2>. QED  BY <1>1, <2>1, <2>2 DEF IndexInv
<1>2. CASE ~ (index[p][t] # Nothing /\ index[p][t].files = Length(t))
  <2>1. ASSUME NEW e \in events[t], e.key \in Keys
        PROVE  NamesOf(t)[e.key] = e.id
    <3>1. Marked(t, e.key) = {e}
      BY <2>1 DEF Marked, KeysInv
    <3>2. e.seq <= e.seq
      BY <1>0, InRange
    <3>3. (CHOOSE x \in {e} : \A o \in {e} : o.seq <= x.seq) = e
      BY <3>2
    <3>. QED  BY <2>1, <3>1, <3>3 DEF NamesOf
  <2>2. ASSUME NEW k \in Keys
        PROVE  NamesOf(t)[k] \in Heads
    <3>1. CASE Marked(t, k) = {}
      BY <3>1, BoundAssumption DEF NamesOf, Heads
    <3>2. CASE Marked(t, k) # {}
      <4>1. PICK e \in events[t] : e.key = k
        BY <3>2 DEF Marked
      <4>2. NamesOf(t)[k] = e.id
        BY <2>1, <4>1
      <4>. QED  BY <1>0, <4>2, BoundAssumption DEF Ids, Heads
    <3>. QED  BY <3>1, <3>2
  <2>3. Fresh(p, t) = [files |-> Length(t), names |-> NamesOf(t)]
    BY <1>2 DEF Fresh
  <2>4. NamesOf(t) \in [Keys -> Heads]
    BY <2>2 DEF NamesOf
  <2>. QED  BY <1>0, <2>1, <2>3, <2>4 DEF Index
<1>. QED  BY <1>1, <1>2

\* Where a method goes after recovery.
LEMMA AfterRecoveryIs ==
    ASSUME Typed, NEW p \in Processes
    PROVE  /\ AfterRecovery(p) \in {"materialize", "install", "look"}
           /\ AfterRecovery(p) = "look" => proc[p].key \in Keys
           /\ AfterRecovery(p) = "install" => proc[p].key = NoKey
  BY DEF Typed, AfterRecovery

-----------------------------------------------------------------------------
(* What a step leaves *)

\* A step that installs no event and moves no manifest leaves what is said of files.
LEMMA FilesKept ==
    ASSUME IInv, events' = events,
           \A t \in Timelines : /\ manifest'[t].seq = manifest[t].seq
                                /\ manifest'[t].head = manifest[t].head
    PROVE  FilesInv' /\ IdsInv' /\ KeysInv'
<1>1. FilesInv'
  BY DEF IInv, FilesInv, Agrees, Length, HeadAt, EventAt
<1>2. IdsInv' /\ KeysInv'
  BY DEF IInv, IdsInv, KeysInv, Created
<1>. QED  BY <1>1, <1>2

\* What a process knows depends on its timeline's files and its own state.
LEMMA KnowsKept ==
    ASSUME NEW q \in Processes, Knows(q), proc'[q] = proc[q],
           events'[proc[q].timeline] = events[proc[q].timeline],
           manifest'[proc[q].timeline].seq = manifest[proc[q].timeline].seq
    PROVE  Knows(q)'
  BY DEF Knows, Length, Names, HeadAt, EventAt, Settled

\* A process that is in no method knows nothing.
LEMMA OutsideKnowsNothing ==
    ASSUME NEW q, proc[q].pc \notin Critical
    PROVE  Knows(q)
  BY DEF Knows, Critical, Settled

\* A process that stays where it is, or leaves, takes no lock.
LEMMA LocksKept ==
    ASSUME LocksInv, NEW p \in Processes,
           \A q \in Processes \ {p} : proc'[q] = proc[q],
           proc'[p].pc \in Critical =>
             proc[p].pc \in Critical /\ proc'[p].timeline = proc[p].timeline
    PROVE  LocksInv'
  BY DEF LocksInv

\* A process that takes a lock nobody holds is alone in it.
LEMMA LockTaken ==
    ASSUME LocksInv, NEW p \in Processes, NEW t \in Timelines, Unlocked(t),
           \A q \in Processes \ {p} : proc'[q] = proc[q], proc'[p].timeline = t
    PROVE  LocksInv'
  BY DEF LocksInv, Unlocked, InPath

\* A step of a process that installs no event and moves no manifest leaves the
\* others' knowledge.
LEMMA OthersKnow ==
    ASSUME IInv, NEW p \in Processes, events' = events,
           \A t \in Timelines : manifest'[t].seq = manifest[t].seq,
           \A q \in Processes \ {p} : proc'[q] = proc[q],
           Knows(p)'
    PROVE  ProcInv'
<1>1. ASSUME NEW q \in Processes, q # p
      PROVE  Knows(q)'
  <2>1. proc[q].timeline \in Timelines
    BY DEF IInv, Typed
  <2>2. Knows(q) /\ proc'[q] = proc[q]
    BY <1>1 DEF IInv, ProcInv
  <2>. QED  BY <2>1, <2>2, KnowsKept
<1>. QED  BY <1>1 DEF ProcInv

\* Answers stay durable when events and manifests only grow.
LEMMA AnswersKept ==
    ASSUME IInv, answered' = answered,
           \A t \in Timelines : events[t] \subseteq events'[t],
           \A t \in Timelines : manifest[t].seq <= manifest'[t].seq,
           \A t \in Timelines : manifest[t].seq \in Nat /\ manifest'[t].seq \in Nat,
           \A t \in Timelines : \A e \in events[t] : e.seq \in Nat
    PROVE  AnsweredIsDurable'
<1>1. ASSUME NEW a \in answered
      PROVE  \E e \in events'[a.timeline] :
               e.id = a.id /\ e.key = a.key /\ e.seq <= manifest'[a.timeline].seq
  <2>1. a.timeline \in Timelines
    BY DEF IInv, Typed
  <2>2. PICK e \in events[a.timeline] :
          e.id = a.id /\ e.key = a.key /\ e.seq <= manifest[a.timeline].seq
    BY DEF IInv, AnsweredIsDurable
  <2>. QED  BY <2>1, <2>2
<1>. QED  BY <1>1 DEF AnsweredIsDurable

-----------------------------------------------------------------------------
(* Types *)

Steps == {"idle"} \cup Critical \cup Forking \cup Archives
ProcState == [pc : Steps, op : {"append", "replay", "fork", "archive"},
              timeline : Timelines, key : Keys \cup {NoKey}, id : Heads]

\* A process that goes on, goes on with an event, or leaves is in a state of the
\* type.
LEMMA ProcUpdates ==
    ASSUME Typed, NEW p \in Processes
    PROVE  /\ NoWork \in ProcState /\ proc[p] \in ProcState
           /\ proc \in [Processes -> ProcState]
           /\ \A pc \in Steps : [proc[p] EXCEPT !.pc = pc] \in ProcState
           /\ \A pc \in Steps, id \in Heads :
                [proc[p] EXCEPT !.pc = pc, !.id = id] \in ProcState
           /\ [proc[p] EXCEPT !.pc = "archiving", !.op = "archive"] \in ProcState
<1>1. proc \in [Processes -> ProcState]
  BY DEF Typed, ProcState, Steps
<1>2. NoWork \in ProcState
  BY BoundAssumption, NullAssumption DEF NoWork, ProcState, Steps, Heads
<1>3. "archiving" \in Steps
  BY DEF Steps, Archives
<1>. QED  BY <1>1, <1>2, <1>3 DEF ProcState

\* Leaving, refusing and moving on.
LEMMA Moving ==
    ASSUME Typed, NEW p \in Processes
    PROVE  /\ Leave(p) => /\ proc' \in [Processes -> ProcState]
                          /\ proc'[p] = NoWork
                          /\ \A q \in Processes \ {p} : proc'[q] = proc[q]
           /\ \A pc \in Steps : Goto(p, pc) =>
                /\ proc' \in [Processes -> ProcState]
                /\ proc'[p] = [proc[p] EXCEPT !.pc = pc]
                /\ \A q \in Processes \ {p} : proc'[q] = proc[q]
<1>. USE ProcUpdates
<1>1. ASSUME Leave(p)
      PROVE  /\ proc' \in [Processes -> ProcState]
             /\ proc'[p] = NoWork
             /\ \A q \in Processes \ {p} : proc'[q] = proc[q]
  BY <1>1 DEF Leave
<1>2. ASSUME NEW pc \in Steps, Goto(p, pc)
      PROVE  /\ proc' \in [Processes -> ProcState]
             /\ proc'[p] = [proc[p] EXCEPT !.pc = pc]
             /\ \A q \in Processes \ {p} : proc'[q] = proc[q]
  BY <1>2 DEF Goto
<1>. QED  BY <1>1, <1>2

\* The names of a process's steps.
LEMMA StepNames == Critical \subseteq Steps /\ Forking \subseteq Steps /\ "archiving" \in Steps
                   /\ "idle" \notin Critical /\ Forking \cap Critical = {}
                   /\ "archiving" \notin Critical
                   /\ {"recover", "advance", "list", "look", "remark", "install", "commit",
                       "mark", "publish", "materialize", "fork_list", "forked"} \subseteq Steps
                   /\ Settled \subseteq Critical
  BY DEF Steps, Critical, Forking, Archives, Settled

-----------------------------------------------------------------------------
(* Each action keeps the invariant: requests and faults *)

\* Leaving the locks, with the files as they are, keeps what was known of them.
LEMMA LeaveKeeps ==
    ASSUME IInv, NEW p \in Processes, Leave(p),
           events' = events, manifest' = manifest
    PROVE  /\ FilesInv' /\ IdsInv' /\ KeysInv' /\ LocksInv' /\ ProcInv'
           /\ proc' \in [Processes -> ProcState]
<1>1. FilesInv' /\ IdsInv' /\ KeysInv'
  BY FilesKept
<1>2. /\ proc' \in [Processes -> ProcState]
      /\ proc'[p] = NoWork
      /\ \A q \in Processes \ {p} : proc'[q] = proc[q]
  BY Moving DEF IInv
<1>3. proc'[p].pc \notin Critical
  BY <1>2, StepNames DEF NoWork
<1>4. LocksInv'
  BY <1>2, <1>3, LocksKept DEF IInv
<1>5. Knows(p)'
  BY <1>3 DEF Knows, Settled, Critical
<1>. QED  BY <1>1, <1>2, <1>4, <1>5, OthersKnow

\* A cache entry that is kept or dropped is still true of files that are kept.
LEMMA CachesKept ==
    ASSUME IInv, events' = events,
           \A p \in Processes, t \in Timelines : memo'[p][t] \in {memo[p][t], Nothing},
           \A p \in Processes, t \in Timelines : index'[p][t] \in {index[p][t], Nothing}
    PROVE  MemoInv' /\ IndexInv'
<1>1. MemoInv'
  BY DEF IInv, MemoInv
<1>2. ASSUME NEW p \in Processes, NEW t \in Timelines, index'[p][t] # Nothing
      PROVE  /\ index'[p][t] = index[p][t] /\ index[p][t] # Nothing
             /\ events'[t] = events[t] /\ Length(t)' = Length(t)
  BY <1>2 DEF Length
<1>3. IndexInv'
  BY <1>2 DEF IInv, IndexInv
<1>. QED  BY <1>1, <1>3

\* Answers stay durable when files, manifests' sequences and answers stay.
LEMMA AnswersStay ==
    ASSUME IInv, answered' = answered, events' = events,
           \A t \in Timelines : manifest'[t].seq = manifest[t].seq
    PROVE  AnsweredIsDurable'
<1>1. \A a \in answered : a.timeline \in Timelines
  BY DEF IInv, Typed
<1>. QED  BY <1>1 DEF IInv, AnsweredIsDurable

\* A process resolves the timeline again.
LEMMA ResolveInv == ASSUME IInv, NEW p \in Processes, Resolve(p) PROVE IInv'
<1>. USE DEF Resolve, diskVars, cacheVars, seenVars
<1>1. Typed'
  BY DEF IInv, Typed
<1>2. FilesInv' /\ IdsInv' /\ KeysInv'
  BY FilesKept
<1>3. LocksInv' /\ ProcInv'
  <2>1. Knows(p)'
    BY KnowsKept DEF IInv, ProcInv, Typed
  <2>. QED  BY <2>1, OthersKnow DEF IInv, LocksInv
<1>4. MemoInv' /\ IndexInv'
  BY CachesKept
<1>5. AnsweredIsDurable' /\ NothingRefused'
  BY AnswersStay DEF IInv, NothingRefused
<1>. QED  BY <1>1, <1>2, <1>3, <1>4, <1>5 DEF IInv

\* A method takes its locks.
LEMMA CallInv ==
    ASSUME IInv, NEW p \in Processes, NEW op \in {"append", "replay"},
           NEW key \in Keys \cup {NoKey}, Call(p, op, key)
    PROVE  IInv'
<1>. USE DEF Call, diskVars, cacheVars, callVars, seenVars
<1>0. /\ proc' \in [Processes -> ProcState]
      /\ proc'[p].pc = "recover" /\ proc'[p].timeline = serves[p]
      /\ serves[p] \in Timelines
      /\ \A q \in Processes \ {p} : proc'[q] = proc[q]
  <2>1. [pc |-> "recover", op |-> op, timeline |-> serves[p], key |-> key, id |-> 0]
          \in ProcState
    BY StepNames, BoundAssumption DEF IInv, Typed, ProcState, Heads
  <2>. QED  BY <2>1, ProcUpdates DEF IInv, Typed
<1>1. Typed'
  BY <1>0 DEF IInv, Typed, ProcState, Steps
<1>2. FilesInv' /\ IdsInv' /\ KeysInv'
  BY FilesKept
<1>3. LocksInv'
  BY <1>0, LockTaken DEF IInv
<1>4. ProcInv'
  <2>1. Knows(p)'
    BY <1>0 DEF Knows, Settled
  <2>. QED  BY <1>0, <2>1, OthersKnow
<1>5. MemoInv' /\ IndexInv'
  BY CachesKept
<1>6. AnsweredIsDurable' /\ NothingRefused'
  BY AnswersStay DEF IInv, NothingRefused
<1>. QED  BY <1>1, <1>2, <1>3, <1>4, <1>5, <1>6 DEF IInv

\* fork_timeline writes the manifest of a child, and moves no head.
LEMMA ForkInv ==
    ASSUME IInv, NEW p \in Processes, NEW child \in Timelines, NEW parent \in Timelines,
           NEW head \in Heads, Fork(p, child, parent, head)
    PROVE  IInv'
<1>. USE DEF Fork, cacheVars, callVars, seenVars
<1>0. /\ proc' \in [Processes -> ProcState]
      /\ proc'[p].pc = "fork_list"
      /\ \A q \in Processes \ {p} : proc'[q] = proc[q]
  <2>1. [pc |-> "fork_list", op |-> "fork", timeline |-> child, key |-> NoKey, id |-> 0]
          \in ProcState
    BY StepNames, BoundAssumption DEF ProcState, Heads
  <2>. QED  BY <2>1, ProcUpdates DEF IInv, Typed
<1>1. /\ manifest' \in [Timelines -> Manifest]
      /\ \A t \in Timelines : /\ manifest'[t].seq = manifest[t].seq
                              /\ manifest'[t].head = manifest[t].head
  <2>1. manifest \in [Timelines -> Manifest]
    BY DEF IInv, Typed
  <2>2. manifest' = [manifest EXCEPT ![child] =
                       [manifest[child] EXCEPT !.parent = parent, !.fork = head]]
    BY <2>1
  <2>3. [manifest[child] EXCEPT !.parent = parent, !.fork = head] \in Manifest
    BY <2>1 DEF Manifest
  <2>. QED  BY <2>1, <2>2, <2>3 DEF Manifest
<1>2. Typed'
  BY <1>0, <1>1 DEF IInv, Typed, ProcState, Steps
<1>3. FilesInv' /\ IdsInv' /\ KeysInv'
  BY <1>1, FilesKept
<1>4. proc'[p].pc \notin Critical
  BY <1>0 DEF Critical
<1>5. LocksInv'
  BY <1>0, <1>4, LocksKept DEF IInv
<1>6. ProcInv'
  <2>1. Knows(p)'
    BY <1>4 DEF Knows, Settled, Critical
  <2>. QED  BY <1>0, <1>1, <2>1, OthersKnow
<1>7. MemoInv' /\ IndexInv'
  BY CachesKept
<1>8. AnsweredIsDurable' /\ NothingRefused'
  BY <1>1, AnswersStay DEF IInv, NothingRefused
<1>. QED  BY <1>2, <1>3, <1>5, <1>6, <1>7, <1>8 DEF IInv

\* fork_timeline lists the child.
LEMMA ForkListInv == ASSUME IInv, NEW p \in Processes, ForkList(p) PROVE IInv'
<1>. USE DEF ForkList, cacheVars, callVars, seenVars
<1>0. /\ proc' \in [Processes -> ProcState]
      /\ proc'[p].pc \in {"forked", "idle"}
      /\ \A q \in Processes \ {p} : proc'[q] = proc[q]
  <2>1. CASE Goto(p, "forked")
    <3>1. "forked" \in Steps
      BY StepNames
    <3>2. proc[p] \in ProcState
      BY ProcUpdates DEF IInv
    <3>3. /\ proc' \in [Processes -> ProcState]
          /\ proc'[p] = [proc[p] EXCEPT !.pc = "forked"]
          /\ \A q \in Processes \ {p} : proc'[q] = proc[q]
      BY <2>1, <3>1, Moving DEF IInv
    <3>. QED  BY <3>2, <3>3 DEF ProcState
  <2>2. CASE Leave(p)
    BY <2>2, Moving DEF IInv, NoWork
  <2>. QED  BY <2>1, <2>2
<1>1. faults' \in 0 .. MaxFaults
  BY BoundAssumption DEF IInv, Typed, GitRaises
<1>2. Typed'
  BY <1>0, <1>1, BoundAssumption DEF IInv, Typed, ProcState, Steps, Heads
<1>3. FilesInv' /\ IdsInv' /\ KeysInv'
  BY FilesKept
<1>4. proc'[p].pc \notin Critical
  BY <1>0 DEF Critical
<1>5. LocksInv'
  BY <1>0, <1>4, LocksKept DEF IInv
<1>6. ProcInv'
  <2>1. Knows(p)'
    BY <1>4 DEF Knows, Settled, Critical
  <2>. QED  BY <1>0, <2>1, OthersKnow
<1>7. MemoInv' /\ IndexInv'
  BY CachesKept
<1>8. AnsweredIsDurable' /\ NothingRefused'
  BY AnswersStay DEF IInv, NothingRefused
<1>. QED  BY <1>2, <1>3, <1>5, <1>6, <1>7, <1>8 DEF IInv

\* A restore takes the locks of the child it has forked.
LEMMA ReplayForkInv == ASSUME IInv, NEW p \in Processes, ReplayFork(p) PROVE IInv'
<1>. USE DEF ReplayFork, diskVars, cacheVars, callVars, seenVars
<1>0. /\ proc' \in [Processes -> ProcState]
      /\ proc'[p] = [proc[p] EXCEPT !.pc = "recover"]
      /\ \A q \in Processes \ {p} : proc'[q] = proc[q]
  BY Moving, StepNames DEF IInv
<1>1. /\ proc'[p].pc = "recover" /\ proc'[p].timeline = proc[p].timeline
      /\ proc[p].timeline \in Timelines
  BY <1>0, ProcUpdates DEF IInv, ProcState
<1>2. Typed'
  BY <1>0 DEF IInv, Typed, ProcState, Steps
<1>3. FilesInv' /\ IdsInv' /\ KeysInv'
  BY FilesKept
<1>4. LocksInv'
  BY <1>0, <1>1, LockTaken DEF IInv
<1>5. ProcInv'
  <2>1. Knows(p)'
    BY <1>1 DEF Knows, Settled
  <2>. QED  BY <1>0, <2>1, OthersKnow
<1>6. MemoInv' /\ IndexInv'
  BY CachesKept
<1>7. AnsweredIsDurable' /\ NothingRefused'
  BY AnswersStay DEF IInv, NothingRefused
<1>. QED  BY <1>2, <1>3, <1>4, <1>5, <1>6, <1>7 DEF IInv

\* archive_to takes and leaves the root's lock.
LEMMA ArchiveInv ==
    ASSUME IInv, NEW p \in Processes, Archive(p) \/ Archived(p)
    PROVE  IInv'
<1>. USE DEF Archive, Archived, diskVars, cacheVars, callVars, seenVars
<1>0. /\ proc' \in [Processes -> ProcState]
      /\ proc'[p].pc \in {"archiving", "idle"}
      /\ \A q \in Processes \ {p} : proc'[q] = proc[q]
  <2>1. CASE Archive(p)
    <3>1. [proc[p] EXCEPT !.pc = "archiving", !.op = "archive"] \in ProcState
      BY ProcUpdates DEF IInv
    <3>2. proc' = [proc EXCEPT ![p] = [proc[p] EXCEPT !.pc = "archiving", !.op = "archive"]]
      BY <2>1
    <3>. HIDE DEF Archive, Archived
    <3>3. proc \in [Processes -> ProcState]
      BY ProcUpdates DEF IInv
    <3>. QED  BY <3>1, <3>2, <3>3
  <2>2. CASE Archived(p)
    BY <2>2, Moving DEF IInv, NoWork
  <2>. QED  BY <2>1, <2>2
<1>1. Typed'
  BY <1>0 DEF IInv, Typed, ProcState, Steps
<1>2. FilesInv' /\ IdsInv' /\ KeysInv'
  BY FilesKept
<1>3. proc'[p].pc \notin Critical
  BY <1>0 DEF Critical
<1>4. LocksInv'
  BY <1>0, <1>3, LocksKept DEF IInv
<1>5. ProcInv'
  <2>1. Knows(p)'
    BY <1>3 DEF Knows, Settled, Critical
  <2>. QED  BY <1>0, <2>1, OthersKnow
<1>6. MemoInv' /\ IndexInv'
  BY CachesKept
<1>7. AnsweredIsDurable' /\ NothingRefused'
  BY AnswersStay DEF IInv, NothingRefused
<1>. QED  BY <1>1, <1>2, <1>4, <1>5, <1>6, <1>7 DEF IInv

\* A write that raises, or a death, leaves files that are still recoverable.
LEMMA FaultInv ==
    ASSUME IInv, NEW p \in Processes, Raise(p) \/ Crash(p)
    PROVE  IInv'
<1>1. Leave(p) /\ events' = events /\ manifest' = manifest
  BY DEF Raise, Crash, diskVars
<1>2. /\ FilesInv' /\ IdsInv' /\ KeysInv' /\ LocksInv' /\ ProcInv'
      /\ proc' \in [Processes -> ProcState]
  BY <1>1, LeaveKeeps
<1>3. /\ memo' \in [Processes -> [Timelines -> Signature \cup {Nothing}]]
      /\ index' \in [Processes -> [Timelines -> Index \cup {Nothing}]]
      /\ \A q \in Processes, t \in Timelines :
           memo'[q][t] \in {memo[q][t], Nothing} /\ index'[q][t] \in {index[q][t], Nothing}
  <2>1. CASE Raise(p)
    BY <2>1 DEF IInv, Typed, Raise, cacheVars
  <2>2. CASE Crash(p)
    <3>1. /\ memo' = [memo EXCEPT ![p] = [t \in Timelines |-> Nothing]]
          /\ index' = [index EXCEPT ![p] = [t \in Timelines |-> Nothing]]
      BY <2>2 DEF Crash
    <3>. QED  BY <3>1 DEF IInv, Typed
  <2>. QED  BY <2>1, <2>2
<1>4. faults' \in 0 .. MaxFaults
  <2>1. faults \in 0 .. MaxFaults
    BY DEF IInv, Typed
  <2>. QED  BY <2>1, BoundAssumption DEF Raise, Crash
<1>5. /\ serves' \in [Processes -> Timelines] /\ active' = active
      /\ marker' = marker /\ catalog' = catalog /\ answered' = answered
      /\ refused' = refused
  <2>1. CASE Raise(p)
    BY <2>1 DEF IInv, Typed, Raise, diskVars, callVars, seenVars
  <2>2. CASE Crash(p)
    BY <2>2 DEF IInv, Typed, Crash, diskVars, callVars, seenVars
  <2>. QED  BY <2>1, <2>2
<1>6. Typed'
  <2>1. proc' \in [Processes -> ProcState] /\ Typed
    BY <1>2 DEF IInv
  <2>. QED  BY <1>1, <1>3, <1>4, <1>5, <2>1 DEF Typed, ProcState, Steps
<1>7. MemoInv' /\ IndexInv'
  BY <1>1, <1>3, CachesKept
<1>8. AnsweredIsDurable' /\ NothingRefused'
  BY <1>1, <1>4, <1>5, AnswersStay DEF IInv, NothingRefused
<1>. QED  BY <1>2, <1>6, <1>7, <1>8 DEF IInv

-----------------------------------------------------------------------------
(* Each action keeps the invariant: the steps of a method *)

\* A process that goes on inside its method, with the files as they are.
LEMMA GotoKeeps ==
    ASSUME IInv, NEW p \in Processes, NEW pc \in Critical, Goto(p, pc),
           proc[p].pc \in Critical, events' = events,
           \A t \in Timelines : manifest'[t].seq = manifest[t].seq
    PROVE  /\ LocksInv'
           /\ proc' \in [Processes -> ProcState]
           /\ proc'[p] = [proc[p] EXCEPT !.pc = pc]
           /\ proc'[p].pc = pc /\ proc'[p].timeline = proc[p].timeline
           /\ proc'[p].key = proc[p].key /\ proc'[p].id = proc[p].id
           /\ Knows(p)' => ProcInv'
<1>1. /\ proc' \in [Processes -> ProcState]
      /\ proc'[p] = [proc[p] EXCEPT !.pc = pc]
      /\ \A q \in Processes \ {p} : proc'[q] = proc[q]
  BY Moving, StepNames DEF IInv
<1>2. proc[p] \in ProcState
  BY ProcUpdates DEF IInv
<1>3. /\ proc'[p].pc = pc /\ proc'[p].timeline = proc[p].timeline
      /\ proc'[p].key = proc[p].key /\ proc'[p].id = proc[p].id
  BY <1>1, <1>2 DEF ProcState
<1>4. LocksInv'
  BY <1>1, <1>3, LocksKept DEF IInv
<1>. QED  BY <1>1, <1>3, <1>4, OthersKnow

\* What a method is given is an event of its timeline: it never refuses it.
LEMMA AnswerGiven ==
    ASSUME IInv, NEW p \in Processes, proc[p].pc \in Settled, NEW id,
           Names(proc[p].timeline, id, proc[p].key), Answer(p, id),
           events' = events, manifest' = manifest
    PROVE  /\ Leave(p) /\ refused' = refused
           /\ answered' = answered \cup {[timeline |-> proc[p].timeline, id |-> id,
                                         key |-> proc[p].key]}
           /\ answered' \subseteq [timeline : Timelines, id : Ids, key : Keys \cup {NoKey}]
           /\ AnsweredIsDurable'
<1>. DEFINE t == proc[p].timeline
<1>0. proc[p] \in ProcState
  BY ProcUpdates DEF IInv
<1>1. t \in Timelines /\ proc[p].key \in Keys \cup {NoKey}
  BY <1>0 DEF ProcState
<1>2. manifest[t].seq = Length(t)
  BY DEF IInv, ProcInv, Knows
<1>3. PICK e \in events[t] : e.id = id /\ e.key = proc[p].key
  BY DEF Names
<1>4. e.seq <= manifest[t].seq
  <2>1. Length(t) \in Nat /\ e.seq \in 1 .. Length(t)
    BY <1>1, EventPlace DEF IInv
  <2>. QED  BY <1>2, <2>1
<1>5. Committed(t, id)
  BY <1>3, <1>4 DEF Committed
<1>6. /\ Leave(p) /\ refused' = refused
      /\ answered' = answered \cup {[timeline |-> t, id |-> id, key |-> proc[p].key]}
  BY <1>5 DEF Answer
<1>7. e.id \in Ids
  BY <1>1 DEF IInv, Typed, Event
<1>8. answered' \subseteq [timeline : Timelines, id : Ids, key : Keys \cup {NoKey}]
  BY <1>1, <1>3, <1>6, <1>7 DEF IInv, Typed
<1>9. ASSUME NEW a \in answered'
      PROVE  \E x \in events'[a.timeline] :
               x.id = a.id /\ x.key = a.key /\ x.seq <= manifest'[a.timeline].seq
  <2>1. CASE a \in answered
    BY <2>1 DEF IInv, AnsweredIsDurable
  <2>2. CASE a = [timeline |-> t, id |-> id, key |-> proc[p].key]
    BY <2>2, <1>3, <1>4
  <2>. QED  BY <1>6, <2>1, <2>2
<1>. QED  BY <1>6, <1>8, <1>9 DEF AnsweredIsDurable

\* Recovery reads the files, and finds them as it requires.
LEMMA RecoverInv == ASSUME IInv, NEW p \in Processes, Recover(p) PROVE IInv'
<1>. DEFINE t == proc[p].timeline
<1>0. t \in Timelines /\ proc[p].pc = "recover" /\ proc[p] \in ProcState
  BY ProcUpdates DEF IInv, ProcState, Recover
<1>1. /\ events' = events /\ manifest' = manifest /\ marker' = marker
      /\ catalog' = catalog /\ index' = index /\ active' = active /\ serves' = serves
      /\ answered' = answered /\ faults' = faults
  BY DEF Recover, diskVars, callVars
<1>2. Chained(t) /\ Agrees(t)
  BY <1>0, NeverBroken DEF IInv
<1>3. \/ /\ manifest[t].seq = Length(t) /\ Goto(p, AfterRecovery(p))
         /\ memo' \in {memo, [memo EXCEPT ![p][t] = SignatureOf(t)]}
         /\ refused' = refused
      \/ Goto(p, "advance") /\ memo' = memo /\ refused' = refused
  BY <1>0, <1>2, RememberedIsRecovered DEF Recover, IInv
<1>4. PICK pc \in {"materialize", "install", "look", "advance"} :
        /\ Goto(p, pc)
        /\ pc # "advance" => manifest[t].seq = Length(t)
        /\ pc = "look" => proc[p].key \in Keys
        /\ pc = "install" => proc[p].key = NoKey
  BY <1>3, AfterRecoveryIs DEF IInv
<1>5. memo' \in {memo, [memo EXCEPT ![p][t] = SignatureOf(t)]} /\ refused' = refused
      /\ (memo' # memo => manifest[t].seq = Length(t))
  BY <1>3
<1>6. FilesInv' /\ IdsInv' /\ KeysInv'
  BY <1>1, FilesKept
<1>7. pc \in Critical /\ proc[p].pc \in Critical
  BY <1>0 DEF Critical
<1>8. /\ LocksInv'
      /\ proc' \in [Processes -> ProcState]
      /\ proc'[p].pc = pc /\ proc'[p].timeline = t
      /\ proc'[p].key = proc[p].key /\ proc'[p].id = proc[p].id
      /\ Knows(p)' => ProcInv'
  BY <1>1, <1>4, <1>7, GotoKeeps
<1>9. Length(t)' = Length(t)
  BY <1>1, <1>8 DEF Length
<1>10. Knows(p)'
  BY <1>1, <1>4, <1>8, <1>9, NullAssumption DEF Knows, Settled
<1>11. SignatureOf(t) \in Signature
  BY <1>0, InRange DEF IInv
<1>12. memo' \in [Processes -> [Timelines -> Signature \cup {Nothing}]]
  <2>1. memo \in [Processes -> [Timelines -> Signature \cup {Nothing}]]
    BY DEF IInv, Typed
  <2>. QED  BY <1>5, <1>11, <2>1
<1>13. Typed'
  <2>1. Typed
    BY DEF IInv
  <2>. QED  BY <1>1, <1>5, <1>8, <1>12, <2>1 DEF Typed, ProcState, Steps
<1>14. MemoInv'
  <2>1. MemoInv /\ memo \in [Processes -> [Timelines -> Signature \cup {Nothing}]]
    BY DEF IInv, Typed
  <2>2. memo' # memo => SignatureOf(t).seq = SignatureOf(t).files
    BY <1>5 DEF SignatureOf
  <2>. QED  BY <1>5, <2>1, <2>2 DEF MemoInv
<1>15. IndexInv'
  BY <1>1 DEF IInv, IndexInv, Length
<1>16. AnsweredIsDurable' /\ NothingRefused'
  BY <1>1, <1>5, AnswersStay DEF IInv, NothingRefused
<1>. QED  BY <1>6, <1>8, <1>10, <1>13, <1>14, <1>15, <1>16 DEF IInv

\* Recovery lists the head and remembers the timeline.
LEMMA ListInv == ASSUME IInv, NEW p \in Processes, List(p) PROVE IInv'
<1>. DEFINE t == proc[p].timeline
<1>0. t \in Timelines /\ proc[p].pc = "list" /\ proc[p] \in ProcState
  BY ProcUpdates DEF IInv, ProcState, List
<1>1. /\ events' = events /\ manifest' = manifest /\ marker' = marker
      /\ index' = index /\ active' = active /\ serves' = serves
      /\ answered' = answered /\ faults' = faults /\ refused' = refused
      /\ catalog' = [catalog EXCEPT ![t] = manifest[t].head]
      /\ memo' = [memo EXCEPT ![p][t] = SignatureOf(t)]
      /\ Goto(p, AfterRecovery(p))
  BY DEF List, callVars, seenVars
<1>2. manifest[t].seq = Length(t)
  BY <1>0 DEF IInv, ProcInv, Knows, Settled
<1>4. PICK pc \in {"materialize", "install", "look"} :
        /\ Goto(p, pc)
        /\ pc = "look" => proc[p].key \in Keys
        /\ pc = "install" => proc[p].key = NoKey
  BY <1>1, AfterRecoveryIs DEF IInv
<1>6. FilesInv' /\ IdsInv' /\ KeysInv'
  BY <1>1, FilesKept
<1>7. pc \in Critical /\ proc[p].pc \in Critical
  BY <1>0 DEF Critical
<1>8. /\ LocksInv'
      /\ proc' \in [Processes -> ProcState]
      /\ proc'[p].pc = pc /\ proc'[p].timeline = t
      /\ proc'[p].key = proc[p].key /\ proc'[p].id = proc[p].id
      /\ Knows(p)' => ProcInv'
  BY <1>1, <1>4, <1>7, GotoKeeps
<1>9. Length(t)' = Length(t)
  BY <1>1, <1>8 DEF Length
<1>10. Knows(p)'
  BY <1>1, <1>2, <1>4, <1>8, <1>9, NullAssumption DEF Knows, Settled
<1>11. SignatureOf(t) \in Signature /\ manifest[t].head \in Heads
  BY <1>0, InRange DEF IInv, Typed, Manifest
<1>12. memo' \in [Processes -> [Timelines -> Signature \cup {Nothing}]]
       /\ catalog' \in [Timelines -> Heads]
  BY <1>1, <1>11 DEF IInv, Typed
<1>13. Typed'
  <2>1. Typed
    BY DEF IInv
  <2>. QED  BY <1>1, <1>8, <1>12, <2>1 DEF Typed, ProcState, Steps
<1>14. MemoInv'
  <2>1. MemoInv /\ memo \in [Processes -> [Timelines -> Signature \cup {Nothing}]]
    BY DEF IInv, Typed
  <2>2. SignatureOf(t).seq = SignatureOf(t).files
    BY <1>2 DEF SignatureOf
  <2>. QED  BY <1>1, <2>1, <2>2 DEF MemoInv
<1>15. IndexInv'
  BY <1>1 DEF IInv, IndexInv, Length
<1>16. AnsweredIsDurable' /\ NothingRefused'
  BY <1>1, AnswersStay DEF IInv, NothingRefused
<1>. QED  BY <1>6, <1>8, <1>10, <1>13, <1>14, <1>15, <1>16 DEF IInv

\* append writes its marker and remembers the timeline.
LEMMA MarkInv == ASSUME IInv, NEW p \in Processes, Mark(p) PROVE IInv'
<1>. DEFINE t == proc[p].timeline
<1>0. t \in Timelines /\ proc[p].pc = "mark" /\ proc[p] \in ProcState
      /\ proc[p].key \in Keys \cup {NoKey} /\ proc[p].id \in Heads
  BY ProcUpdates DEF IInv, ProcState, Mark
<1>1. /\ events' = events /\ manifest' = manifest /\ catalog' = catalog
      /\ index' = index /\ active' = active /\ serves' = serves
      /\ answered' = answered /\ faults' = faults /\ refused' = refused
      /\ marker' = IF proc[p].key = NoKey THEN marker
                   ELSE [marker EXCEPT ![t][proc[p].key] = proc[p].id]
      /\ memo' = [memo EXCEPT ![p][t] = SignatureOf(t)]
      /\ Goto(p, "publish")
  BY DEF Mark, callVars, seenVars
<1>2. /\ manifest[t].seq = Length(t) /\ Names(t, proc[p].id, proc[p].key)
      /\ HeadAt(t, Length(t)) = proc[p].id
  BY <1>0 DEF IInv, ProcInv, Knows, Settled
<1>6. FilesInv' /\ IdsInv' /\ KeysInv'
  BY <1>1, FilesKept
<1>7. "publish" \in Critical /\ proc[p].pc \in Critical
  BY <1>0 DEF Critical
<1>8. /\ LocksInv'
      /\ proc' \in [Processes -> ProcState]
      /\ proc'[p].pc = "publish" /\ proc'[p].timeline = t
      /\ proc'[p].key = proc[p].key /\ proc'[p].id = proc[p].id
      /\ Knows(p)' => ProcInv'
  BY <1>1, <1>7, GotoKeeps
<1>9. Length(t)' = Length(t) /\ HeadAt(t, Length(t))' = HeadAt(t, Length(t))
  BY <1>1, <1>8 DEF Length, HeadAt, EventAt
<1>10. Knows(p)'
  BY <1>1, <1>2, <1>8, <1>9 DEF Knows, Settled, Names
<1>11. SignatureOf(t) \in Signature
  BY <1>0, InRange DEF IInv
<1>12. memo' \in [Processes -> [Timelines -> Signature \cup {Nothing}]]
       /\ marker' \in [Timelines -> [Keys -> Heads]]
  BY <1>0, <1>1, <1>11 DEF IInv, Typed
<1>13. Typed'
  <2>1. Typed
    BY DEF IInv
  <2>. QED  BY <1>1, <1>8, <1>12, <2>1 DEF Typed, ProcState, Steps
<1>14. MemoInv'
  <2>1. MemoInv /\ memo \in [Processes -> [Timelines -> Signature \cup {Nothing}]]
    BY DEF IInv, Typed
  <2>2. SignatureOf(t).seq = SignatureOf(t).files
    BY <1>2 DEF SignatureOf
  <2>. QED  BY <1>1, <2>1, <2>2 DEF MemoInv
<1>15. IndexInv'
  BY <1>1 DEF IInv, IndexInv, Length
<1>16. AnsweredIsDurable' /\ NothingRefused'
  BY <1>1, AnswersStay DEF IInv, NothingRefused
<1>. QED  BY <1>6, <1>8, <1>10, <1>13, <1>14, <1>15, <1>16 DEF IInv

\* append returns the event its key is marked with.
LEMMA LookAtMarkerInv == ASSUME IInv, NEW p \in Processes, LookAtMarker(p) PROVE IInv'
<1>1. /\ events' = events /\ manifest' = manifest /\ marker' = marker
      /\ catalog' = catalog /\ memo' = memo /\ index' = index /\ active' = active
      /\ serves' = serves /\ faults' = faults /\ proc[p].pc = "look"
  BY DEF LookAtMarker, diskVars, cacheVars, callVars
<1>2. PICK id : Names(proc[p].timeline, id, proc[p].key) /\ Answer(p, id)
  BY DEF LookAtMarker
<1>3. /\ Leave(p) /\ refused' = refused
      /\ answered' \subseteq [timeline : Timelines, id : Ids, key : Keys \cup {NoKey}]
      /\ AnsweredIsDurable'
  BY <1>1, <1>2, AnswerGiven DEF Settled
<1>4. /\ FilesInv' /\ IdsInv' /\ KeysInv' /\ LocksInv' /\ ProcInv'
      /\ proc' \in [Processes -> ProcState]
  BY <1>1, <1>3, LeaveKeeps
<1>5. Typed'
  <2>1. Typed
    BY DEF IInv
  <2>. QED  BY <1>1, <1>3, <1>4, <2>1 DEF Typed, ProcState, Steps
<1>6. MemoInv' /\ IndexInv'
  BY <1>1, CachesKept
<1>7. NothingRefused'
  BY <1>3 DEF IInv, NothingRefused
<1>. QED  BY <1>3, <1>4, <1>5, <1>6, <1>7 DEF IInv

\* append marks a key that only the index knew, and returns its event.
LEMMA RemarkInv == ASSUME IInv, NEW p \in Processes, Remark(p) PROVE IInv'
<1>. DEFINE t == proc[p].timeline
<1>0. t \in Timelines /\ proc[p].pc = "remark" /\ proc[p].id \in Heads
  BY ProcUpdates DEF IInv, ProcState, Remark
<1>1. /\ events' = events /\ manifest' = manifest
      /\ marker' = [marker EXCEPT ![t][proc[p].key] = proc[p].id]
      /\ catalog' = catalog /\ memo' = memo /\ index' = index /\ active' = active
      /\ serves' = serves /\ faults' = faults /\ Answer(p, proc[p].id)
  BY DEF Remark, cacheVars, callVars
<1>2. Names(t, proc[p].id, proc[p].key) /\ proc[p].key \in Keys
  BY <1>0 DEF IInv, ProcInv, Knows
<1>3. /\ Leave(p) /\ refused' = refused
      /\ answered' \subseteq [timeline : Timelines, id : Ids, key : Keys \cup {NoKey}]
      /\ AnsweredIsDurable'
  BY <1>0, <1>1, <1>2, AnswerGiven DEF Settled
<1>4. /\ FilesInv' /\ IdsInv' /\ KeysInv' /\ LocksInv' /\ ProcInv'
      /\ proc' \in [Processes -> ProcState]
  BY <1>1, <1>3, LeaveKeeps
<1>5. Typed'
  <2>1. Typed
    BY DEF IInv
  <2>2. marker' \in [Timelines -> [Keys -> Heads]]
    BY <1>0, <1>1, <1>2, <2>1 DEF Typed
  <2>. QED  BY <1>1, <1>3, <1>4, <2>1, <2>2 DEF Typed, ProcState, Steps
<1>6. MemoInv' /\ IndexInv'
  BY <1>1, CachesKept
<1>7. NothingRefused'
  BY <1>3 DEF IInv, NothingRefused
<1>. QED  BY <1>3, <1>4, <1>5, <1>6, <1>7 DEF IInv

\* A replay verifies what it reads, and never refuses it.
LEMMA MaterializeInv == ASSUME IInv, NEW p \in Processes, Materialize(p) PROVE IInv'
<1>. DEFINE t == proc[p].timeline
<1>0. t \in Timelines /\ proc[p].pc = "materialize"
  BY ProcUpdates DEF IInv, ProcState, Materialize
<1>1. /\ events' = events /\ manifest' = manifest /\ marker' = marker
      /\ catalog' = catalog /\ memo' = memo /\ index' = index
      /\ serves' = serves /\ faults' = faults /\ answered' = answered
  BY DEF Materialize, diskVars
<1>2. Verified(t)
  <2>1. manifest[t].seq = Length(t)
    BY <1>0 DEF IInv, ProcInv, Knows, Settled
  <2>. QED  BY <1>0, <2>1, NeverBroken DEF Verified, IInv
<1>3. /\ Leave(p) /\ refused' = refused
      /\ active' \in Timelines
  BY <1>0, <1>2 DEF Materialize, IInv, Typed
<1>4. /\ FilesInv' /\ IdsInv' /\ KeysInv' /\ LocksInv' /\ ProcInv'
      /\ proc' \in [Processes -> ProcState]
  BY <1>1, <1>3, LeaveKeeps
<1>5. Typed'
  <2>1. Typed
    BY DEF IInv
  <2>. QED  BY <1>1, <1>3, <1>4, <2>1 DEF Typed, ProcState, Steps
<1>6. MemoInv' /\ IndexInv'
  BY <1>1, CachesKept
<1>7. AnsweredIsDurable' /\ NothingRefused'
  BY <1>1, <1>3, AnswersStay DEF IInv, NothingRefused
<1>. QED  BY <1>4, <1>5, <1>6, <1>7 DEF IInv

\* append consults the index, which it refreshes; a key it does not name is new.
LEMMA LookAtIndexInv == ASSUME IInv, NEW p \in Processes, LookAtIndex(p) PROVE IInv'
<1>. DEFINE t == proc[p].timeline
            key == proc[p].key
            id == Fresh(p, t).names[key]
<1>0. t \in Timelines /\ proc[p].pc = "look" /\ proc[p] \in ProcState
  BY ProcUpdates DEF IInv, ProcState, LookAtIndex
<1>1. /\ events' = events /\ manifest' = manifest /\ marker' = marker
      /\ catalog' = catalog /\ memo' = memo /\ active' = active
      /\ serves' = serves /\ faults' = faults /\ answered' = answered
      /\ refused' = refused
      /\ index' = [index EXCEPT ![p][t] = Fresh(p, t)]
  BY DEF LookAtIndex, diskVars, callVars, seenVars
<1>2. manifest[t].seq = Length(t) /\ key \in Keys
  BY <1>0 DEF IInv, ProcInv, Knows, Settled
<1>3. /\ Fresh(p, t) \in Index
      /\ Fresh(p, t).files = Length(t)
      /\ \A e \in events[t] : e.key \in Keys => Fresh(p, t).names[e.key] = e.id
  BY <1>0, FreshIsExact DEF IInv
<1>4. id \in Heads
  BY <1>2, <1>3 DEF Index
<1>5. FilesInv' /\ IdsInv' /\ KeysInv'
  BY <1>1, FilesKept
<1>6. LocksInv' /\ ProcInv' /\ proc' \in [Processes -> ProcState]
  <2>1. CASE Names(t, id, key) /\ proc' = [proc EXCEPT ![p].pc = "remark", ![p].id = id]
    <3>1. [proc[p] EXCEPT !.pc = "remark", !.id = id] \in ProcState
      BY <1>4, StepNames, ProcUpdates DEF IInv
    <3>2. proc' = [proc EXCEPT ![p] = [proc[p] EXCEPT !.pc = "remark", !.id = id]]
      BY <2>1
    <3>3. proc \in [Processes -> ProcState]
      BY ProcUpdates DEF IInv
    <3>4. /\ proc' \in [Processes -> ProcState]
          /\ proc'[p] = [proc[p] EXCEPT !.pc = "remark", !.id = id]
          /\ \A q \in Processes \ {p} : proc'[q] = proc[q]
      BY <3>1, <3>2, <3>3
    <3>5. /\ proc'[p].pc = "remark" /\ proc'[p].id = id
          /\ proc'[p].timeline = t /\ proc'[p].key = key
      BY <1>0, <3>4 DEF ProcState
    <3>6. LocksInv'
      BY <1>0, <3>4, <3>5, LocksKept DEF IInv, Critical
    <3>7. Length(t)' = Length(t)
      BY <1>1, <3>5 DEF Length
    <3>8. Knows(p)'
      BY <1>1, <1>2, <2>1, <3>5, <3>7 DEF Knows, Settled, Names
    <3>. QED  BY <1>1, <3>4, <3>6, <3>8, OthersKnow
  <2>2. CASE ~ Names(t, id, key) /\ Goto(p, "install")
    <3>1. "install" \in Critical /\ proc[p].pc \in Critical
      BY <1>0 DEF Critical
    <3>2. /\ LocksInv'
          /\ proc' \in [Processes -> ProcState]
          /\ proc'[p].pc = "install" /\ proc'[p].timeline = t /\ proc'[p].key = key
          /\ Knows(p)' => ProcInv'
      BY <1>1, <2>2, <3>1, GotoKeeps
    <3>3. Length(t)' = Length(t)
      BY <1>1, <3>2 DEF Length
    <3>4. \A e \in events[t] : e.key # key
      BY <1>2, <1>3, <2>2 DEF Names
    <3>5. Knows(p)'
      BY <1>1, <1>2, <3>2, <3>3, <3>4 DEF Knows, Settled
    <3>. QED  BY <3>2, <3>5
  <2>. QED  BY <2>1, <2>2 DEF LookAtIndex
<1>7. index' \in [Processes -> [Timelines -> Index \cup {Nothing}]]
  BY <1>1, <1>3 DEF IInv, Typed
<1>8. Typed'
  <2>1. Typed
    BY DEF IInv
  <2>. QED  BY <1>1, <1>6, <1>7, <2>1 DEF Typed, ProcState, Steps
<1>9. IndexInv'
  <2>1. /\ IndexInv /\ index \in [Processes -> [Timelines -> Index \cup {Nothing}]]
        /\ Length(t) \in Nat /\ \A e \in events[t] : e.seq <= Length(t)
    BY <1>0, InRange, EventPlace DEF IInv, Typed
  <2>2. ASSUME NEW q \in Processes, NEW u \in Timelines, index'[q][u] # Nothing
        PROVE  /\ index'[q][u].files <= Length(u)
               /\ \A e \in events[u] : e.key \in Keys /\ e.seq <= index'[q][u].files =>
                    index'[q][u].names[e.key] = e.id
    <3>1. CASE q = p /\ u = t
      <4>1. index'[q][u] = Fresh(p, t)
        BY <1>1, <2>1, <3>1
      <4>. QED  BY <1>3, <2>1, <3>1, <4>1
    <3>2. CASE ~ (q = p /\ u = t)
      <4>1. index'[q][u] = index[q][u]
        BY <1>1, <2>1, <3>2
      <4>. QED  BY <2>1, <2>2, <4>1 DEF IndexInv
    <3>. QED  BY <3>1, <3>2
  <2>3. \A u : Length(u)' = Length(u)
    BY <1>1 DEF Length
  <2>. QED  BY <1>1, <2>2, <2>3 DEF IndexInv
<1>10. MemoInv'
  BY <1>1 DEF IInv, MemoInv
<1>11. AnsweredIsDurable' /\ NothingRefused'
  BY <1>1, AnswersStay DEF IInv, NothingRefused
<1>. QED  BY <1>5, <1>6, <1>8, <1>9, <1>10, <1>11 DEF IInv

\* An index that knew all files but the one just added knows them all.
LEMMA IndexedIsExact ==
    ASSUME IInv, NEW p \in Processes, NEW t \in Timelines,
           Names(t, proc[p].id, proc[p].key), HeadAt(t, Length(t)) = proc[p].id,
           proc[p] \in ProcState, Indexed(p, t) # Nothing
    PROVE  /\ Indexed(p, t) \in Index
           /\ Indexed(p, t).files = Length(t)
           /\ \A e \in events[t] : e.key \in Keys => Indexed(p, t).names[e.key] = e.id
<1>. DEFINE old == index[p][t]
            key == proc[p].key
<1>0. /\ Length(t) \in Heads /\ Length(t) \in Nat
      /\ key \in Keys \cup {NoKey} /\ proc[p].id \in Heads
  BY InRange DEF IInv, ProcState
<1>1. old # Nothing /\ old.files = Length(t) - 1
  BY DEF Indexed
<1>2. old \in Index /\ old.names \in [Keys -> Heads]
  BY <1>1 DEF IInv, Typed, Index
<1>3. Indexed(p, t) = [files |-> Length(t),
                       names |-> IF key = NoKey THEN old.names
                                 ELSE [old.names EXCEPT ![key] = proc[p].id]]
  BY <1>1 DEF Indexed
<1>4. PICK x \in events[t] : x.id = proc[p].id /\ x.key = key
  BY DEF Names
<1>5. ASSUME NEW e \in events[t], e.key \in Keys
      PROVE  Indexed(p, t).names[e.key] = e.id
  <2>1. e.seq \in 1 .. Length(t) /\ HeadAt(t, e.seq) = e.id
    BY EventPlace DEF IInv
  <2>2. CASE e.seq <= Length(t) - 1
    <3>1. old.names[e.key] = e.id
      BY <1>1, <1>5, <2>2 DEF IInv, IndexInv
    <3>2. e.key # key \/ e = x
      BY <1>4, <1>5 DEF IInv, KeysInv
    <3>. QED  BY <1>2, <1>3, <1>4, <1>5, <3>1, <3>2, NullAssumption
  <2>3. CASE e.seq = Length(t)
    <3>1. e.id = x.id
      BY <1>4, <2>1, <2>3
    <3>2. e = x
      BY <3>1 DEF IInv, IdsInv
    <3>. QED  BY <1>2, <1>3, <1>4, <1>5, <3>2, NullAssumption
  <2>. QED  BY <1>0, <2>1, <2>2, <2>3
<1>. QED  BY <1>0, <1>2, <1>3, <1>5 DEF Index

\* append lists the head, carries its caches along and returns its event.
LEMMA PublishInv == ASSUME IInv, NEW p \in Processes, Publish(p) PROVE IInv'
<1>. DEFINE t == proc[p].timeline
<1>0. t \in Timelines /\ proc[p].pc = "publish" /\ proc[p] \in ProcState
  BY ProcUpdates DEF IInv, ProcState, Publish
<1>1. /\ events' = events /\ manifest' = manifest /\ marker' = marker
      /\ catalog' = [catalog EXCEPT ![t] = manifest[t].head] /\ memo' = memo
      /\ active' = active /\ serves' = serves /\ refused' = refused
      /\ index' = [index EXCEPT ![p][t] = Indexed(p, t)]
      /\ Leave(p)
  BY DEF Publish, callVars
<1>2. /\ manifest[t].seq = Length(t) /\ Names(t, proc[p].id, proc[p].key)
      /\ HeadAt(t, Length(t)) = proc[p].id
  BY <1>0 DEF IInv, ProcInv, Knows, Settled
<1>3. /\ FilesInv' /\ IdsInv' /\ KeysInv' /\ LocksInv' /\ ProcInv'
      /\ proc' \in [Processes -> ProcState]
  BY <1>1, LeaveKeeps
<1>4. PICK e \in events[t] : e.id = proc[p].id /\ e.key = proc[p].key
  BY <1>2 DEF Names
<1>5. e.id \in Ids /\ e.seq <= manifest[t].seq
  <2>1. Length(t) \in Nat /\ e.seq \in 1 .. Length(t)
    BY <1>0, EventPlace DEF IInv
  <2>2. e \in Event
    BY <1>0 DEF IInv, Typed
  <2>. QED  BY <1>2, <2>1, <2>2 DEF Event
<1>6. faults' \in 0 .. MaxFaults
  <2>1. faults \in 0 .. MaxFaults
    BY DEF IInv, Typed
  <2>. QED  BY <2>1, BoundAssumption DEF Publish, GitRaises
<1>7. answered' \in {answered, answered \cup {[timeline |-> t, id |-> proc[p].id,
                                              key |-> proc[p].key]}}
  BY DEF Publish
<1>8. answered' \subseteq [timeline : Timelines, id : Ids, key : Keys \cup {NoKey}]
  <2>1. [timeline |-> t, id |-> proc[p].id, key |-> proc[p].key]
          \in [timeline : Timelines, id : Ids, key : Keys \cup {NoKey}]
    BY <1>0, <1>4, <1>5 DEF ProcState
  <2>2. answered \subseteq [timeline : Timelines, id : Ids, key : Keys \cup {NoKey}]
    BY DEF IInv, Typed
  <2>. QED  BY <1>7, <2>1, <2>2
<1>9. AnsweredIsDurable'
  <2>1. ASSUME NEW a \in answered'
        PROVE  \E x \in events'[a.timeline] :
                 x.id = a.id /\ x.key = a.key /\ x.seq <= manifest'[a.timeline].seq
    <3>1. CASE a \in answered
      BY <1>1, <3>1 DEF IInv, AnsweredIsDurable
    <3>2. CASE a = [timeline |-> t, id |-> proc[p].id, key |-> proc[p].key]
      BY <1>1, <1>4, <1>5, <3>2
    <3>. QED  BY <1>7, <3>1, <3>2
  <2>. QED  BY <2>1 DEF AnsweredIsDurable
<1>10. Indexed(p, t) # Nothing =>
         /\ Indexed(p, t) \in Index
         /\ Indexed(p, t).files = Length(t)
         /\ \A x \in events[t] : x.key \in Keys => Indexed(p, t).names[x.key] = x.id
  BY <1>0, <1>2, IndexedIsExact
<1>11. /\ index' \in [Processes -> [Timelines -> Index \cup {Nothing}]]
       /\ catalog' \in [Timelines -> Heads]
  <2>1. manifest[t].head \in Heads
    BY <1>0 DEF IInv, Typed, Manifest
  <2>2. Indexed(p, t) \in Index \cup {Nothing}
    BY <1>10
  <2>. QED  BY <1>1, <2>1, <2>2 DEF IInv, Typed
<1>12. Typed'
  <2>1. Typed
    BY DEF IInv
  <2>. QED  BY <1>1, <1>3, <1>6, <1>8, <1>11, <2>1 DEF Typed, ProcState, Steps
<1>13. IndexInv'
  <2>1. /\ IndexInv /\ index \in [Processes -> [Timelines -> Index \cup {Nothing}]]
        /\ Length(t) \in Nat /\ \A x \in events[t] : x.seq <= Length(t)
    BY <1>0, InRange, EventPlace DEF IInv, Typed
  <2>2. ASSUME NEW q \in Processes, NEW u \in Timelines, index'[q][u] # Nothing
        PROVE  /\ index'[q][u].files <= Length(u)
               /\ \A x \in events[u] : x.key \in Keys /\ x.seq <= index'[q][u].files =>
                    index'[q][u].names[x.key] = x.id
    <3>1. CASE q = p /\ u = t
      <4>1. index'[q][u] = Indexed(p, t)
        BY <1>1, <2>1, <3>1
      <4>. QED  BY <1>10, <2>1, <2>2, <3>1, <4>1
    <3>2. CASE ~ (q = p /\ u = t)
      <4>1. index'[q][u] = index[q][u]
        BY <1>1, <2>1, <3>2
      <4>. QED  BY <2>1, <2>2, <4>1 DEF IndexInv
    <3>. QED  BY <3>1, <3>2
  <2>3. \A u : Length(u)' = Length(u)
    BY <1>1 DEF Length
  <2>. QED  BY <1>1, <2>2, <2>3 DEF IndexInv
<1>14. MemoInv' /\ NothingRefused'
  BY <1>1 DEF IInv, MemoInv, NothingRefused
<1>. QED  BY <1>3, <1>9, <1>12, <1>13, <1>14 DEF IInv

\* A step inside a timeline is not seen by the processes inside others.
LEMMA ElsewhereKnows ==
    ASSUME IInv, NEW p \in Processes, proc[p].pc \in Critical,
           \A t \in Timelines \ {proc[p].timeline} :
             events'[t] = events[t] /\ manifest'[t].seq = manifest[t].seq,
           \A q \in Processes \ {p} : proc'[q] = proc[q],
           Knows(p)'
    PROVE  ProcInv'
<1>1. ASSUME NEW q \in Processes, q # p
      PROVE  Knows(q)'
  <2>1. proc[q].timeline \in Timelines /\ Knows(q) /\ proc'[q] = proc[q]
    BY <1>1 DEF IInv, Typed, ProcInv
  <2>2. CASE proc[q].pc \notin Critical
    BY <2>1, <2>2 DEF Knows, Settled, Critical
  <2>3. CASE proc[q].pc \in Critical
    <3>1. proc[q].timeline # proc[p].timeline
      BY <1>1, <2>3 DEF IInv, LocksInv
    <3>. QED  BY <2>1, <3>1, KnowsKept
  <2>. QED  BY <2>2, <2>3
<1>. QED  BY <1>1 DEF ProcInv

\* Recovery moves the manifest to the last file.
LEMMA AdvanceInv == ASSUME IInv, NEW p \in Processes, Advance(p) PROVE IInv'
<1>. DEFINE t == proc[p].timeline
<1>0. t \in Timelines /\ proc[p].pc = "advance" /\ proc[p] \in ProcState
  BY ProcUpdates DEF IInv, ProcState, Advance
<1>1. /\ events' = events /\ marker' = marker
      /\ catalog' = catalog /\ memo' = memo /\ index' = index
      /\ active' = active /\ serves' = serves /\ refused' = refused
      /\ answered' = answered /\ faults' = faults
      /\ Goto(p, "list")
      /\ manifest' = [manifest EXCEPT ![t].seq = Length(t), ![t].head = HeadAt(t, Length(t))]
  BY DEF Advance, callVars, seenVars
<1>2. /\ Length(t) \in Heads /\ Length(t) \in Nat /\ HeadAt(t, Length(t)) \in Heads
      /\ manifest[t].seq \in 0 .. Length(t)
  BY <1>0, InRange DEF IInv
<1>3. /\ manifest' \in [Timelines -> Manifest]
      /\ manifest'[t].seq = Length(t) /\ manifest'[t].head = HeadAt(t, Length(t))
      /\ \A u \in Timelines \ {t} : manifest'[u] = manifest[u]
  <2>1. manifest \in [Timelines -> Manifest]
    BY DEF IInv, Typed
  <2>. QED  BY <1>0, <1>1, <1>2, <2>1 DEF Manifest
<1>4. \A u : Length(u)' = Length(u) /\ \A n : HeadAt(u, n)' = HeadAt(u, n)
  BY <1>1 DEF Length, HeadAt, EventAt
<1>5. FilesInv'
  <2>1. ASSUME NEW u \in Timelines
        PROVE  ChainOf(events'[u]) /\ Agrees(u)'
    <3>1. ChainOf(events[u]) /\ Agrees(u)
      BY DEF IInv, FilesInv
    <3>2. CASE u = t
      <4>1. manifest'[u].seq = Length(u) /\ manifest'[u].head = HeadAt(u, Length(u))
        BY <1>3, <3>2
      <4>2. Length(u)' = Length(u) /\ HeadAt(u, manifest[u].seq)' = HeadAt(u, Length(u))
        BY <1>4, <4>1
      <4>3. Length(u) \in Nat /\ ChainOf(events'[u])
        BY <1>1, <1>2, <3>1, <3>2
      <4>. QED  BY <4>1, <4>2, <4>3 DEF Agrees
    <3>3. CASE u # t
      <4>1. manifest'[u] = manifest[u] /\ ChainOf(events'[u])
        BY <1>1, <1>3, <3>1, <3>3
      <4>2. manifest[u].seq <= Length(u) /\ manifest[u].head = HeadAt(u, manifest[u].seq)
        BY <3>1 DEF Agrees
      <4>3. /\ manifest'[u].seq <= Length(u)'
            /\ manifest'[u].head = HeadAt(u, manifest[u].seq)'
        BY <1>4, <4>1, <4>2
      <4>. QED  BY <4>1, <4>3 DEF Agrees
    <3>. QED  BY <3>2, <3>3
  <2>. QED  BY <2>1 DEF FilesInv
<1>6. IdsInv' /\ KeysInv'
  BY <1>1 DEF IInv, IdsInv, KeysInv, Created
<1>7. /\ proc' \in [Processes -> ProcState]
      /\ proc'[p] = [proc[p] EXCEPT !.pc = "list"]
      /\ \A q \in Processes \ {p} : proc'[q] = proc[q]
  BY <1>1, Moving, StepNames DEF IInv
<1>8. proc'[p].pc = "list" /\ proc'[p].timeline = t
  BY <1>0, <1>7 DEF ProcState
<1>9. proc[p].pc \in Critical
  BY <1>0 DEF Critical
<1>10. LocksInv'
  BY <1>7, <1>8, <1>9, LocksKept DEF IInv
<1>11. ProcInv'
  <2>1. Length(t)' = Length(t)
    BY <1>1, <1>8 DEF Length
  <2>2. Knows(p)'
    BY <1>3, <1>8, <2>1 DEF Knows, Settled
  <2>. QED  BY <1>1, <1>3, <1>7, <1>9, <2>2, ElsewhereKnows
<1>12. Typed'
  <2>1. Typed
    BY DEF IInv
  <2>. QED  BY <1>1, <1>3, <1>7, <2>1 DEF Typed, ProcState, Steps
<1>13. MemoInv' /\ IndexInv' /\ NothingRefused'
  BY <1>1, CachesKept DEF IInv, NothingRefused
<1>14. AnsweredIsDurable'
  <2>1. \A u \in Timelines : /\ manifest[u].seq \in Nat /\ manifest'[u].seq \in Nat
                             /\ manifest[u].seq <= manifest'[u].seq
                             /\ \A e \in events[u] : e.seq \in Nat
    BY <1>2, <1>3 DEF IInv, Typed, Manifest, Heads, Event, Ids
  <2>. QED  BY <1>1, <2>1, AnswersKept
<1>. QED  BY <1>5, <1>6, <1>10, <1>11, <1>12, <1>13, <1>14 DEF IInv

\* append moves the manifest to the event it has installed.
LEMMA CommitInv == ASSUME IInv, NEW p \in Processes, Commit(p) PROVE IInv'
<1>. DEFINE t == proc[p].timeline
<1>0. t \in Timelines /\ proc[p].pc = "commit" /\ proc[p] \in ProcState
  BY ProcUpdates DEF IInv, ProcState, Commit
<1>1. /\ events' = events /\ marker' = marker
      /\ catalog' = catalog /\ memo' = memo /\ index' = index
      /\ active' = active /\ serves' = serves /\ refused' = refused
      /\ answered' = answered /\ faults' = faults
      /\ Goto(p, "mark")
      /\ manifest' = [manifest EXCEPT ![t].seq = @ + 1, ![t].head = proc[p].id]
  BY DEF Commit, cacheVars, callVars, seenVars
<1>2. /\ Length(t) \in Heads /\ Length(t) \in Nat /\ HeadAt(t, Length(t)) \in Heads
      /\ manifest[t].seq \in 0 .. Length(t)
  BY <1>0, InRange DEF IInv
<1>3. /\ Length(t) = manifest[t].seq + 1 /\ HeadAt(t, Length(t)) = proc[p].id
      /\ Names(t, proc[p].id, proc[p].key)
  BY <1>0 DEF IInv, ProcInv, Knows
<1>4. /\ manifest' \in [Timelines -> Manifest]
      /\ manifest'[t].seq = Length(t) /\ manifest'[t].head = HeadAt(t, Length(t))
      /\ \A u \in Timelines \ {t} : manifest'[u] = manifest[u]
  <2>1. manifest \in [Timelines -> Manifest]
    BY DEF IInv, Typed
  <2>2. manifest' = [manifest EXCEPT ![t] = [manifest[t] EXCEPT !.seq = Length(t),
                                             !.head = HeadAt(t, Length(t))]]
    BY <1>0, <1>1, <1>3, <2>1
  <2>. QED  BY <1>0, <1>2, <2>1, <2>2 DEF Manifest
<1>5. \A u : Length(u)' = Length(u) /\ \A n : HeadAt(u, n)' = HeadAt(u, n)
  BY <1>1 DEF Length, HeadAt, EventAt
<1>6. FilesInv'
  <2>1. ASSUME NEW u \in Timelines
        PROVE  ChainOf(events'[u]) /\ Agrees(u)'
    <3>1. ChainOf(events[u]) /\ Agrees(u)
      BY DEF IInv, FilesInv
    <3>2. CASE u = t
      <4>1. manifest'[u].seq = Length(u) /\ manifest'[u].head = HeadAt(u, Length(u))
        BY <1>4, <3>2
      <4>2. Length(u)' = Length(u) /\ HeadAt(u, manifest[u].seq)' = HeadAt(u, Length(u))
        BY <1>5, <4>1
      <4>3. Length(u) \in Nat /\ ChainOf(events'[u])
        BY <1>1, <1>2, <3>1, <3>2
      <4>. QED  BY <4>1, <4>2, <4>3 DEF Agrees
    <3>3. CASE u # t
      <4>1. manifest'[u] = manifest[u] /\ ChainOf(events'[u])
        BY <1>1, <1>4, <3>1, <3>3
      <4>2. manifest[u].seq <= Length(u) /\ manifest[u].head = HeadAt(u, manifest[u].seq)
        BY <3>1 DEF Agrees
      <4>3. /\ manifest'[u].seq <= Length(u)'
            /\ manifest'[u].head = HeadAt(u, manifest[u].seq)'
        BY <1>5, <4>1, <4>2
      <4>. QED  BY <4>1, <4>3 DEF Agrees
    <3>. QED  BY <3>2, <3>3
  <2>. QED  BY <2>1 DEF FilesInv
<1>7. IdsInv' /\ KeysInv'
  BY <1>1 DEF IInv, IdsInv, KeysInv, Created
<1>8. /\ proc' \in [Processes -> ProcState]
      /\ proc'[p] = [proc[p] EXCEPT !.pc = "mark"]
      /\ \A q \in Processes \ {p} : proc'[q] = proc[q]
  BY <1>1, Moving, StepNames DEF IInv
<1>9. /\ proc'[p].pc = "mark" /\ proc'[p].timeline = t
      /\ proc'[p].key = proc[p].key /\ proc'[p].id = proc[p].id
  BY <1>0, <1>8 DEF ProcState
<1>10. proc[p].pc \in Critical
  BY <1>0 DEF Critical
<1>11. LocksInv'
  BY <1>8, <1>9, <1>10, LocksKept DEF IInv
<1>12. ProcInv'
  <2>1. Length(t)' = Length(t) /\ HeadAt(t, Length(t))' = HeadAt(t, Length(t))
    BY <1>1, <1>9 DEF Length, HeadAt, EventAt
  <2>2. Knows(p)'
    BY <1>1, <1>3, <1>4, <1>9, <2>1 DEF Knows, Settled, Names
  <2>. QED  BY <1>1, <1>4, <1>8, <1>10, <2>2, ElsewhereKnows
<1>13. Typed'
  <2>1. Typed
    BY DEF IInv
  <2>. QED  BY <1>1, <1>4, <1>8, <2>1 DEF Typed, ProcState, Steps
<1>14. MemoInv' /\ IndexInv' /\ NothingRefused'
  BY <1>1, CachesKept DEF IInv, NothingRefused
<1>15. AnsweredIsDurable'
  <2>1. \A u \in Timelines : /\ manifest[u].seq \in Nat /\ manifest'[u].seq \in Nat
                             /\ manifest[u].seq <= manifest'[u].seq
                             /\ \A e \in events[u] : e.seq \in Nat
    BY <1>2, <1>4 DEF IInv, Typed, Manifest, Heads, Event, Ids
  <2>. QED  BY <1>1, <2>1, AnswersKept
<1>. QED  BY <1>6, <1>7, <1>11, <1>12, <1>13, <1>14, <1>15 DEF IInv

\* A new id is larger than every id there is.
LEMMA NewIdIsLast ==
    ASSUME IdsInv, NEW id \in Ids, NewId(id), NEW c \in Created, c \in Ids
    PROVE  c < id
<1>. SUFFICES ASSUME id <= c PROVE FALSE
  BY BoundAssumption DEF Ids
<1>1. id \in 1 .. c
  BY BoundAssumption DEF Ids
<1>2. id \in Created
  BY <1>1 DEF IdsInv
<1>. QED  BY <1>2 DEF NewId

\* The directory T is that of timeline t with one event x more.
Extends(t, T, x, key, id) ==
    /\ x \in Event /\ x.seq = Length(t) + 1 /\ x.id = id /\ x.key = key
    /\ x.seq <= id
    /\ \A u \in Timelines : \A e \in events[u] : e.id < id
    /\ ChainOf(T) /\ Cardinality(T) = Length(t) + 1
    /\ \A n \in 1 .. Length(t) : EventIn(T, n) = EventAt(t, n)
    /\ \A n \in 0 .. Length(t) : HeadIn(T, n) = HeadAt(t, n)
    /\ EventIn(T, Length(t) + 1) = x
    /\ \A e \in events[t] : x.key \in Keys => e.key # x.key

\* What append installs extends its timeline.
LEMMA Installed ==
    ASSUME IInv, NEW p \in Processes, proc[p].pc = "install", NEW id \in Ids, NewId(id),
           NEW t \in Timelines, t = proc[p].timeline
    PROVE  Extends(t, events[t] \cup {NewEvent(p, id)}, NewEvent(p, id), proc[p].key, id)
<1>. DEFINE x == NewEvent(p, id)
            T == events[t] \cup {x}
<1>. USE BoundAssumption
<1>0. /\ Length(t) \in Nat /\ manifest[t].seq = Length(t)
      /\ manifest[t].head = HeadAt(t, Length(t)) /\ HeadAt(t, Length(t)) \in Heads
      /\ proc[p].key \in Keys \cup {NoKey}
  <2>1. manifest[t].seq = Length(t)
    BY DEF IInv, ProcInv, Knows, Settled
  <2>2. Agrees(t) /\ Length(t) \in Nat
    BY InRange DEF IInv, FilesInv
  <2>3. Length(t) \in 0 .. Length(t)
    BY <2>2
  <2>4. proc[p].key \in Keys \cup {NoKey}
    BY DEF IInv, Typed
  <2>. QED  BY <2>1, <2>2, <2>3, <2>4, InRange DEF Agrees, IInv
<1>1. /\ x = [seq |-> Length(t) + 1, id |-> id, key |-> proc[p].key,
              prev |-> HeadAt(t, Length(t))]
  BY <1>0 DEF NewEvent
<1>2. ASSUME NEW u \in Timelines, NEW e \in events[u]
      PROVE  e.id < id
  <2>1. e.id \in Created /\ e.id \in Ids
    BY DEF Created, IInv, Typed, Event
  <2>. QED  BY <2>1, NewIdIsLast DEF IInv
<1>3. Length(t) + 1 <= id
  <2>1. CASE Length(t) = 0
    BY <2>1 DEF Ids
  <2>2. CASE Length(t) # 0
    <3>1. Length(t) \in 1 .. Cardinality(events[t]) /\ ChainOf(events[t])
      BY <1>0, <2>2 DEF Length, IInv, FilesInv
    <3>2. PICK e \in events[t] : e.seq = Length(t)
      BY <3>1, ChainHasEvent
    <3>3. e.seq <= e.id /\ e.id < id /\ e.id \in Ids
      BY <1>2 DEF IInv, IdsInv, Typed, Event
    <3>. QED  BY <1>0, <3>2, <3>3 DEF Ids
  <2>. QED  BY <2>1, <2>2
<1>4. x \in Event
  <2>1. Length(t) + 1 \in Ids
    BY <1>0, <1>3 DEF Ids
  <2>. QED  BY <1>0, <1>1, <2>1 DEF Event
<1>5. /\ ChainOf(T) /\ Cardinality(T) = Length(t) + 1
      /\ \A n \in 1 .. Length(t) : EventIn(T, n) = EventIn(events[t], n)
      /\ \A n \in 0 .. Length(t) : HeadIn(T, n) = HeadIn(events[t], n)
      /\ EventIn(T, Length(t) + 1) = x
  <2>1. /\ ChainOf(events[t]) /\ Length(t) = Cardinality(events[t])
        /\ x.seq = Cardinality(events[t]) + 1
        /\ x.prev = HeadIn(events[t], Cardinality(events[t]))
    BY <1>1 DEF IInv, FilesInv, Length, HeadAt, HeadIn, EventAt, EventIn
  <2>. QED  BY <2>1, ChainExtended
<1>6. \A n : EventIn(events[t], n) = EventAt(t, n) /\ HeadIn(events[t], n) = HeadAt(t, n)
  BY DEF HeadAt, HeadIn, EventAt, EventIn
<1>7. \A e \in events[t] : x.key \in Keys => e.key # x.key
  BY <1>1 DEF IInv, ProcInv, Knows
<1>8. x.seq = Length(t) + 1 /\ x.id = id /\ x.key = proc[p].key /\ x.seq <= id
  BY <1>1, <1>3
<1>9. /\ \A n \in 1 .. Length(t) : EventIn(T, n) = EventAt(t, n)
      /\ \A n \in 0 .. Length(t) : HeadIn(T, n) = HeadAt(t, n)
  BY <1>5, <1>6
<1>. HIDE DEF x, T
<1>. QED  BY <1>2, <1>4, <1>5, <1>7, <1>8, <1>9 DEF x, T, Extends

\* append installs an event after the last one, with a new id and a new key.
LEMMA InstallInv == ASSUME IInv, NEW p \in Processes, Install(p) PROVE IInv'
<1>. USE BoundAssumption
<1>0. PICK t \in Timelines :
        t = proc[p].timeline /\ proc[p].pc = "install" /\ proc[p] \in ProcState
  BY ProcUpdates DEF IInv, ProcState, Install
<1>1. PICK id \in Ids :
        /\ NewId(id)
        /\ events' = [events EXCEPT ![t] = @ \cup {NewEvent(p, id)}]
        /\ proc' = [proc EXCEPT ![p].pc = "commit", ![p].id = id]
        /\ UNCHANGED <<manifest, marker, catalog, cacheVars, callVars, seenVars, faults>>
  BY <1>0 DEF Install
<1>2. /\ manifest' = manifest /\ marker' = marker /\ catalog' = catalog
      /\ memo' = memo /\ index' = index /\ active' = active /\ serves' = serves
      /\ answered' = answered /\ refused' = refused /\ faults' = faults
  BY <1>1 DEF cacheVars, callVars, seenVars
<1>. DEFINE x == NewEvent(p, id)
            T == events[t] \cup {x}
<1>20. /\ x \in Event /\ x.seq = Length(t) + 1 /\ x.id = id /\ x.key = proc[p].key
       /\ x.seq <= id
       /\ \A u \in Timelines : \A e \in events[u] : e.id < id
       /\ ChainOf(T) /\ Cardinality(T) = Length(t) + 1
       /\ \A n \in 0 .. Length(t) : HeadIn(T, n) = HeadAt(t, n)
       /\ EventIn(T, Length(t) + 1) = x
       /\ \A e \in events[t] : x.key \in Keys => e.key # x.key
  <2>1. NewId(id) /\ proc[p].pc = "install" /\ t = proc[p].timeline
    BY <1>0, <1>1
  <2>2. Extends(t, T, x, proc[p].key, id)
    BY <2>1, Installed
  <2>. HIDE DEF x, T
  <2>. QED  BY <2>2 DEF Extends
<1>3. /\ events' \in [Timelines -> SUBSET Event]
      /\ events'[t] = T
      /\ \A u \in Timelines \ {t} : events'[u] = events[u]
  <2>1. events \in [Timelines -> SUBSET Event]
    BY DEF IInv, Typed
  <2>. QED  BY <1>0, <1>1, <1>20, <2>1
<1>. HIDE DEF x
<1>5. Length(t) \in Nat /\ manifest[t].seq = Length(t)
  BY <1>0, InRange DEF IInv, ProcInv, Knows, Settled
<1>6. /\ Length(t)' = Length(t) + 1
      /\ \A n : HeadAt(t, n)' = HeadIn(T, n)
  BY <1>3, <1>20 DEF Length, HeadAt, HeadIn, EventAt, EventIn
<1>7. FilesInv'
  <2>1. ASSUME NEW u \in Timelines
        PROVE  ChainOf(events'[u]) /\ Agrees(u)'
    <3>1. ChainOf(events[u]) /\ Agrees(u)
      BY DEF IInv, FilesInv
    <3>2. CASE u = t
      <4>1. manifest[t].seq <= Length(t) + 1 /\ manifest[t].seq \in 0 .. Length(t)
        BY <1>5
      <4>2. manifest[t].head = HeadIn(T, manifest[t].seq)
        BY <1>20, <3>1, <3>2, <4>1 DEF Agrees
      <4>. QED  BY <1>2, <1>3, <1>20, <1>6, <3>2, <4>1, <4>2 DEF Agrees
    <3>3. CASE u # t
      BY <1>2, <1>3, <3>1, <3>3 DEF Agrees, Length, HeadAt, EventAt
    <3>. QED  BY <3>2, <3>3
  <2>. QED  BY <2>1 DEF FilesInv
<1>8. IdsInv'
  <2>1. \A u \in Timelines : \A e \in events'[u] :
           \/ e \in events[u] /\ e.id < id /\ e.id \in Nat
           \/ u = t /\ e = x
    BY <1>3, <1>20 DEF IInv, Typed, Event, Ids
  <2>2. \A u, v \in Timelines : \A e \in events'[u], f \in events'[v] :
           e.id = f.id => u = v /\ e = f
    <3>1. SUFFICES ASSUME NEW u \in Timelines, NEW v \in Timelines,
                          NEW e \in events'[u], NEW f \in events'[v], e.id = f.id
                   PROVE  u = v /\ e = f
      OBVIOUS
    <3>2. id \in Nat
      BY DEF Ids
    <3>3. (e \in events[u] /\ f \in events[v]) \/ (u = t /\ e = x /\ v = t /\ f = x)
      BY <1>20, <2>1, <3>1, <3>2
    <3>. QED  BY <3>1, <3>3 DEF IInv, IdsInv
  <2>3. \A u \in Timelines : \A e \in events'[u] : e.seq <= e.id
    BY <1>20, <2>1 DEF IInv, IdsInv
  <2>4. Created' = Created \cup {id}
    BY <1>0, <1>3, <1>20, <2>1 DEF Created
  <2>5. ASSUME NEW i \in Created'
        PROVE  1 .. i \subseteq Created'
    <3>1. CASE i \in Created
      BY <2>4, <3>1 DEF IInv, IdsInv
    <3>2. CASE i = id
      <4>1. 1 .. id - 1 \subseteq Created /\ id \in Nat
        BY <1>1 DEF NewId, Ids
      <4>2. \A n \in 1 .. id : n = id \/ n \in 1 .. id - 1
        BY <4>1
      <4>. QED  BY <2>4, <3>2, <4>1, <4>2
    <3>. QED  BY <2>4, <3>1, <3>2
  <2>. QED  BY <2>2, <2>3, <2>5 DEF IdsInv
<1>9. KeysInv'
  <2>1. ASSUME NEW u \in Timelines, NEW e \in events'[u], NEW f \in events'[u],
               e.key \in Keys, e.key = f.key
        PROVE  e = f
    <3>1. CASE e \in events[u] /\ f \in events[u]
      BY <2>1, <3>1 DEF IInv, KeysInv
    <3>2. CASE ~ (e \in events[u] /\ f \in events[u])
      BY <1>3, <1>20, <2>1, <3>2
    <3>. QED  BY <3>1, <3>2
  <2>. QED  BY <2>1 DEF KeysInv
<1>10. /\ proc' \in [Processes -> ProcState]
       /\ proc'[p] = [proc[p] EXCEPT !.pc = "commit", !.id = id]
       /\ \A q \in Processes \ {p} : proc'[q] = proc[q]
  <2>1. [proc[p] EXCEPT !.pc = "commit", !.id = id] \in ProcState
    <3>1. id \in Heads /\ "commit" \in Steps
      BY StepNames DEF Ids, Heads
    <3>. QED  BY <1>0, <3>1 DEF ProcState
  <2>2. proc' = [proc EXCEPT ![p] = [proc[p] EXCEPT !.pc = "commit", !.id = id]]
    BY <1>1
  <2>3. proc \in [Processes -> ProcState]
    BY ProcUpdates DEF IInv
  <2>. QED  BY <2>1, <2>2, <2>3
<1>11. /\ proc'[p].pc = "commit" /\ proc'[p].id = id
       /\ proc'[p].timeline = t /\ proc'[p].key = proc[p].key
  BY <1>0, <1>10 DEF ProcState
<1>12. proc[p].pc \in Critical
  BY <1>0 DEF Critical
<1>13. LocksInv'
  BY <1>0, <1>10, <1>11, <1>12, LocksKept DEF IInv
<1>14. ProcInv'
  <2>2. HeadIn(T, Length(t) + 1) = id
    <3>1. Length(t) + 1 # 0
      BY <1>5
    <3>. QED  BY <1>20, <3>1 DEF HeadIn
  <2>3. HeadAt(t, Length(t))' = id
    BY <1>6, <2>2
  <2>4. Names(t, id, proc[p].key)'
    BY <1>3, <1>11, <1>20 DEF Names
  <2>5. Knows(p)'
    BY <1>2, <1>5, <1>6, <1>11, <2>3, <2>4 DEF Knows, Settled, Names
  <2>. QED  BY <1>0, <1>2, <1>3, <1>10, <1>12, <2>5, ElsewhereKnows
<1>15. Typed'
  <2>1. Typed
    BY DEF IInv
  <2>. QED  BY <1>2, <1>3, <1>10, <2>1 DEF Typed, ProcState, Steps
<1>16. MemoInv' /\ NothingRefused'
  BY <1>2 DEF IInv, MemoInv, NothingRefused
<1>17. IndexInv'
  <2>1. ASSUME NEW q \in Processes, NEW u \in Timelines, index[q][u] # Nothing
        PROVE  /\ index[q][u].files <= Length(u)'
               /\ \A e \in events'[u] : e.key \in Keys /\ e.seq <= index[q][u].files =>
                    index[q][u].names[e.key] = e.id
    <3>1. /\ index[q][u].files <= Length(u) /\ index[q][u].files \in Nat
          /\ \A e \in events[u] : e.key \in Keys /\ e.seq <= index[q][u].files =>
               index[q][u].names[e.key] = e.id
      BY <2>1 DEF IInv, IndexInv, Typed, Index, Heads
    <3>2. CASE u = t
      <4>1. Cardinality(events'[u]) = Length(t) + 1
        BY <1>3, <1>20, <3>2
      <4>2. \A e \in events'[u] : e \in events[u] \/ e.seq = Length(t) + 1
        BY <1>3, <1>20, <3>2
      <4>. QED  BY <1>5, <3>1, <3>2, <4>1, <4>2 DEF Length
    <3>3. CASE u # t
      BY <1>3, <3>1, <3>3 DEF Length
    <3>. QED  BY <3>2, <3>3
  <2>. QED  BY <1>2, <2>1 DEF IndexInv
<1>18. AnsweredIsDurable'
  <2>1. \A u \in Timelines : /\ manifest[u].seq \in Nat
                             /\ events[u] \subseteq events'[u]
                             /\ \A e \in events[u] : e.seq \in Nat
    <3>1. ASSUME NEW u \in Timelines
          PROVE  /\ manifest[u].seq \in Nat /\ events[u] \in SUBSET Event
      BY <3>1 DEF IInv, Typed, Manifest, Heads
    <3>2. \A u \in Timelines : events[u] \subseteq events'[u]
      BY <1>3, <1>20
    <3>. QED  BY <3>1, <3>2 DEF Event, Ids
  <2>2. \A u \in Timelines : manifest[u].seq <= manifest'[u].seq
    BY <1>2, <2>1
  <2>. QED  BY <1>2, <2>1, <2>2, AnswersKept
<1>. QED  BY <1>7, <1>8, <1>9, <1>13, <1>14, <1>15, <1>16, <1>17, <1>18 DEF IInv

-----------------------------------------------------------------------------
(* The theorems *)

\* An empty journal satisfies the invariant.
LEMMA InitInv == Init => IInv
<1>. SUFFICES ASSUME Init PROVE IInv
  OBVIOUS
<1>. USE BoundAssumption, NullAssumption DEF Init
<1>1. \A t \in Timelines : events[t] = {} /\ Length(t) = 0
  BY EmptyChain DEF Length
<1>2. Typed
  <2>1. 0 \in Heads /\ 0 \in 0 .. MaxFaults
    BY DEF Heads
  <2>2. [seq |-> 0, head |-> 0, parent |-> Nothing, fork |-> 0] \in Manifest
    BY <2>1 DEF Manifest
  <2>. QED  BY <2>1, <2>2 DEF Typed, NoWork
<1>3. FilesInv
  BY <1>1, EmptyChain DEF FilesInv, Agrees, HeadAt
<1>4. IdsInv /\ KeysInv
  BY <1>1 DEF IdsInv, KeysInv, Created
<1>5. LocksInv /\ ProcInv
  BY DEF LocksInv, ProcInv, Knows, Settled, Critical, NoWork
<1>6. MemoInv /\ IndexInv
  BY DEF MemoInv, IndexInv
<1>7. AnsweredIsDurable /\ NothingRefused
  BY DEF AnsweredIsDurable, NothingRefused
<1>. QED  BY <1>2, <1>3, <1>4, <1>5, <1>6, <1>7 DEF IInv

\* No step leaves the invariant.
LEMMA NextInv ==
    ASSUME IInv, [Next]_vars
    PROVE  IInv'
<1>1. CASE Next
  <2>1. PICK p \in Processes : Request(p) \/ Step(p) \/ Raise(p) \/ Crash(p)
    BY <1>1 DEF Next
  <2>2. CASE Request(p)
    BY <2>2, CallInv, ResolveInv, ForkInv, ArchiveInv DEF Request
  <2>3. CASE Step(p)
    BY <2>3, RecoverInv, AdvanceInv, ListInv, LookAtMarkerInv, LookAtIndexInv, RemarkInv,
       InstallInv, CommitInv, MarkInv, PublishInv, MaterializeInv, ForkListInv,
       ReplayForkInv, ArchiveInv DEF Step
  <2>4. CASE Raise(p) \/ Crash(p)
    BY <2>4, FaultInv
  <2>. QED  BY <2>1, <2>2, <2>3, <2>4
<1>2. CASE UNCHANGED vars
  <2>. USE <1>2 DEF vars, diskVars, cacheVars, callVars, seenVars
  <2>1. Typed'
    BY DEF IInv, Typed
  <2>2. FilesInv' /\ IdsInv' /\ KeysInv'
    BY FilesKept
  <2>3. ProcInv'
    BY KnowsKept DEF IInv, ProcInv
  <2>4. LocksInv' /\ MemoInv' /\ NothingRefused'
    BY DEF IInv, LocksInv, MemoInv, NothingRefused
  <2>5. IndexInv'
    BY CachesKept
  <2>6. AnsweredIsDurable'
    BY AnswersStay
  <2>. QED  BY <2>1, <2>2, <2>3, <2>4, <2>5, <2>6 DEF IInv
<1>. QED  BY <1>1, <1>2

\* The invariant holds of every reachable state.
THEOREM Invariant == Spec => []IInv
<1>. QED  BY InitInv, NextInv, PTL DEF Spec

\* Whatever was killed or failed, no method finds a journal that it refuses.
THEOREM NeverRefused == Spec => []NothingRefused
<1>1. IInv => NothingRefused
  BY DEF IInv
<1>. QED  BY <1>1, Invariant, PTL

\* A key never has two events in a timeline.
THEOREM KeysAreUnique == Spec => []OneEventPerKey
<1>1. IInv => OneEventPerKey
  <2>1. SUFFICES ASSUME IInv, NEW t \in Timelines, NEW k \in Keys
                 PROVE  Cardinality(Marked(t, k)) <= 1
    BY DEF OneEventPerKey
  <2>2. CASE Marked(t, k) = {}
    BY <2>2, FS_EmptySet
  <2>3. CASE Marked(t, k) # {}
    <3>1. PICK e : e \in Marked(t, k)
      BY <2>3
    <3>2. Marked(t, k) = {e}
      BY <2>1, <3>1 DEF Marked, IInv, KeysInv
    <3>. QED  BY <3>2, FS_Singleton
  <2>. QED  BY <2>2, <2>3
<1>. QED  BY <1>1, Invariant, PTL

\* What append has returned is committed for good.
THEOREM AnswersAreDurable == Spec => []AnsweredIsDurable
<1>1. IInv => AnsweredIsDurable
  BY DEF IInv
<1>. QED  BY <1>1, Invariant, PTL

-----------------------------------------------------------------------------
(* The files implement EventLog *)

\* The log is what the files say.
LEMMA LogSame == ASSUME events' = events PROVE Log' = Log
  BY DEF Log, Length, EventAt, Entry

\* The entries of a timeline's log are those of its files.
LEMMA EntriesAre ==
    ASSUME FilesInv, NEW t \in Timelines
    PROVE  Abstract!EntriesOf(t) = {Entry(e) : e \in events[t]}
<1>1. Log[t] = [n \in 1 .. Length(t) |-> Entry(EventAt(t, n))]
  BY DEF Log
<1>2. Abstract!EntriesOf(t) = {Entry(EventAt(t, n)) : n \in 1 .. Length(t)}
  BY <1>1 DEF Abstract!EntriesOf
<1>3. \A n \in 1 .. Length(t) : EventAt(t, n) \in events[t]
  BY ChainHasEvent DEF FilesInv, Length, EventAt, EventIn
<1>4. \A e \in events[t] : e.seq \in 1 .. Length(t) /\ EventAt(t, e.seq) = e
  BY EventPlace
<1>. QED  BY <1>2, <1>3, <1>4

\* A log is a sequence of entries.
LEMMA LogIsSequence ==
    ASSUME Typed, FilesInv, NEW t \in Timelines
    PROVE  /\ Log[t] \in Seq(Abstract!Entries)
           /\ Len(Log[t]) = Length(t)
           /\ \A n \in 1 .. Length(t) : Log[t][n] = Entry(EventAt(t, n))
<1>1. Log[t] = [n \in 1 .. Length(t) |-> Entry(EventAt(t, n))]
  BY DEF Log
<1>2. Length(t) \in Nat
  BY InRange
<1>3. \A n \in 1 .. Length(t) : EventAt(t, n) \in events[t]
  BY ChainHasEvent DEF FilesInv, Length, EventAt, EventIn
<1>4. \A n \in 1 .. Length(t) : Entry(EventAt(t, n)) \in Abstract!Entries
  BY <1>3 DEF Typed, Event, Entry, Abstract!Entries
<1>. QED  BY <1>1, <1>2, <1>4

\* Init is an initial state of EventLog.
LEMMA InitImplements == Init => Abstract!Init
<1>. SUFFICES ASSUME Init PROVE Abstract!Init
  OBVIOUS
<1>1. ASSUME NEW t \in Timelines
      PROVE  Length(t) = 0
  BY EmptyChain DEF Init, Length
<1>2. ASSUME NEW t \in Timelines
      PROVE  Log[t] = <<>>
  BY <1>1 DEF Log
<1>3. Log = [t \in Timelines |-> <<>>]
  BY <1>2 DEF Log
<1>. QED  BY <1>3 DEF Init, Abstract!Init

\* Telling a caller of an event that its timeline has is Answer.
LEMMA AnswerImplements ==
    ASSUME IInv, events' = events, NEW t \in Timelines, NEW e \in events[t],
           answered' = answered \cup {[timeline |-> t, id |-> e.id, key |-> e.key]}
    PROVE  Abstract!Next
<1>1. Entry(e) \in Abstract!EntriesOf(t)
  BY EntriesAre DEF IInv
<1>2. Log' = Log
  BY LogSame
<1>3. Abstract!Answer(t, Entry(e))
  BY <1>1, <1>2 DEF Abstract!Answer, Entry
<1>. QED  BY <1>1, <1>3 DEF Abstract!Next

\* Only append answers, and only events of its timeline.
LEMMA AnsweringSteps ==
    ASSUME IInv, NEW p \in Processes,
           LookAtMarker(p) \/ Remark(p) \/ Publish(p)
    PROVE  /\ events' = events
           /\ \/ answered' = answered
              \/ \E t \in Timelines : \E e \in events[t] :
                   answered' = answered \cup {[timeline |-> t, id |-> e.id, key |-> e.key]}
<1>. DEFINE t == proc[p].timeline
<1>0. t \in Timelines
  BY DEF IInv, Typed
<1>1. CASE LookAtMarker(p)
  <2>1. events' = events /\ manifest' = manifest /\ proc[p].pc \in Settled
    BY <1>1 DEF LookAtMarker, diskVars, Settled
  <2>2. PICK id : Names(t, id, proc[p].key) /\ Answer(p, id)
    BY <1>1 DEF LookAtMarker
  <2>3. answered' = answered \cup {[timeline |-> t, id |-> id, key |-> proc[p].key]}
    BY <2>1, <2>2, AnswerGiven
  <2>. QED  BY <1>0, <2>1, <2>2, <2>3 DEF Names
<1>2. CASE Remark(p)
  <2>1. /\ events' = events /\ manifest' = manifest /\ proc[p].pc = "remark"
        /\ proc[p].pc \in Settled /\ Answer(p, proc[p].id)
    BY <1>2 DEF Remark, Settled
  <2>2. Names(t, proc[p].id, proc[p].key)
    BY <2>1 DEF IInv, ProcInv, Knows
  <2>3. answered' = answered \cup {[timeline |-> t, id |-> proc[p].id, key |-> proc[p].key]}
    BY <2>1, <2>2, AnswerGiven
  <2>. QED  BY <1>0, <2>1, <2>2, <2>3 DEF Names
<1>3. CASE Publish(p)
  <2>1. /\ events' = events
        /\ \/ answered' = answered
           \/ answered' = answered \cup {[timeline |-> t, id |-> proc[p].id,
                                          key |-> proc[p].key]}
    BY <1>3 DEF Publish
  <2>2. Names(t, proc[p].id, proc[p].key)
    BY <1>3 DEF Publish, IInv, ProcInv, Knows
  <2>. QED  BY <1>0, <2>1, <2>2 DEF Names
<1>. QED  BY <1>1, <1>2, <1>3

\* Installing an event file is Record.
LEMMA InstallImplements ==
    ASSUME IInv, NEW p \in Processes, Install(p)
    PROVE  Abstract!Next
<1>. USE BoundAssumption
<1>0. PICK t \in Timelines :
        t = proc[p].timeline /\ proc[p].pc = "install" /\ proc[p].key \in Keys \cup {NoKey}
  BY DEF IInv, Typed, Install
<1>1. PICK id \in Ids :
        /\ NewId(id)
        /\ events' = [events EXCEPT ![t] = @ \cup {NewEvent(p, id)}]
        /\ answered' = answered
  BY <1>0 DEF Install, seenVars
<1>. DEFINE x == NewEvent(p, id)
            T == events[t] \cup {x}
            key == proc[p].key
            entry == [id |-> id, key |-> key]
<1>2. Extends(t, T, x, key, id)
  BY <1>0, <1>1, Installed
<1>3. /\ events'[t] = T
      /\ \A u \in Timelines \ {t} : events'[u] = events[u]
  BY <1>1 DEF IInv, Typed
<1>. HIDE DEF x
<1>4. /\ Length(t)' = Length(t) + 1
      /\ \A n : EventAt(t, n)' = EventIn(T, n)
      /\ Length(t) \in Nat
  BY <1>2, <1>3, InRange DEF Extends, Length, EventAt, EventIn, IInv
<1>5. Entry(x) = entry
  BY <1>2 DEF Entry, Extends
<1>6. entry \in Abstract!Entries
  BY <1>0 DEF Abstract!Entries
<1>7. Log'[t] = Append(Log[t], entry)
  <2>1. /\ Log[t] \in Seq(Abstract!Entries) /\ Len(Log[t]) = Length(t)
        /\ \A n \in 1 .. Length(t) : Log[t][n] = Entry(EventAt(t, n))
    BY LogIsSequence DEF IInv
  <2>2. Log'[t] = [n \in 1 .. Length(t) + 1 |-> Entry(EventIn(T, n))]
    BY <1>4 DEF Log, Entry
  <2>3. \A n \in 1 .. Length(t) : Entry(EventIn(T, n)) = Log[t][n]
    BY <1>2, <2>1 DEF Extends
  <2>4. Entry(EventIn(T, Length(t) + 1)) = entry
    BY <1>2, <1>5 DEF Extends
  <2>5. \A n \in 1 .. Length(t) + 1 :
          Log'[t][n] = IF n = Length(t) + 1 THEN entry ELSE Log[t][n]
    <3>1. ASSUME NEW n \in 1 .. Length(t) + 1
          PROVE  Log'[t][n] = Entry(EventIn(T, n))
      BY <2>2
    <3>2. ASSUME NEW n \in 1 .. Length(t) + 1, n # Length(t) + 1
          PROVE  n \in 1 .. Length(t)
      BY <1>4, <3>2
    <3>. QED  BY <3>1, <3>2, <2>3, <2>4
  <2>6. /\ Append(Log[t], entry) \in Seq(Abstract!Entries)
        /\ Len(Append(Log[t], entry)) = Length(t) + 1
        /\ \A n \in 1 .. Length(t) + 1 :
             Append(Log[t], entry)[n] = IF n = Length(t) + 1 THEN entry ELSE Log[t][n]
    BY <1>4, <1>6, <2>1, AppendProperties
  <2>7. Log'[t] \in Seq(Abstract!Entries) /\ Len(Log'[t]) = Length(t) + 1
    <3>1. \A n \in 1 .. Length(t) + 1 : Log'[t][n] \in Abstract!Entries
      BY <1>4, <1>6, <2>1, <2>5
    <3>2. Log'[t] \in [1 .. Length(t) + 1 -> Abstract!Entries]
      BY <2>2, <3>1
    <3>. QED  BY <1>4, <3>2
  <2>. QED  BY <2>5, <2>6, <2>7, SeqEqual
<1>8. Log' = [Log EXCEPT ![t] = Append(@, entry)]
  <2>1. ASSUME NEW u \in Timelines \ {t}
        PROVE  Log'[u] = Log[u]
    BY <1>3 DEF Log, Length, EventAt, Entry
  <2>2. /\ Log = [u \in Timelines |-> Log[u]] /\ Log' = [u \in Timelines |-> Log'[u]]
    BY DEF Log
  <2>. QED  BY <1>7, <2>1, <2>2
<1>9. \A other \in Timelines : \A e \in Abstract!EntriesOf(other) : e.id # id
  <2>1. \A u \in Timelines : \A e \in events[u] : e.id # id
    BY <1>2 DEF Extends, IInv, Typed, Event, Ids
  <2>. QED  BY <2>1, EntriesAre DEF IInv, Entry
<1>10. key = NoKey \/ \A e \in Abstract!EntriesOf(t) : e.key # key
  BY <1>0, <1>2, EntriesAre DEF IInv, Entry, Extends
<1>11. Abstract!Record(t, id, key)
  BY <1>1, <1>8, <1>9, <1>10 DEF Abstract!Record
<1>. QED  BY <1>0, <1>11 DEF Abstract!Next

\* Every other step leaves the log and the answers.
LEMMA NextImplements ==
    ASSUME IInv, [Next]_vars
    PROVE  [Abstract!Next]_(Abstract!logVars)
<1>1. CASE Next
  <2>1. PICK p \in Processes : Request(p) \/ Step(p) \/ Raise(p) \/ Crash(p)
    BY <1>1 DEF Next
  <2>2. CASE Install(p)
    BY <2>2, InstallImplements
  <2>3. CASE LookAtMarker(p) \/ Remark(p) \/ Publish(p)
    <3>1. CASE answered' = answered
      BY <2>3, <3>1, AnsweringSteps, LogSame DEF Abstract!logVars
    <3>2. CASE answered' # answered
      BY <2>3, <3>2, AnsweringSteps, AnswerImplements
    <3>. QED  BY <3>1, <3>2
  <2>4. CASE ~ (Install(p) \/ LookAtMarker(p) \/ Remark(p) \/ Publish(p))
    <3>. USE DEF diskVars, cacheVars, callVars, seenVars
    <3>1. CASE Request(p)
      <4>1. events' = events /\ answered' = answered
        BY <3>1 DEF Request, Call, Resolve, Fork, Archive
      <4>. QED  BY <4>1, LogSame DEF Abstract!logVars
    <3>2. CASE Step(p)
      <4>1. events' = events /\ answered' = answered
        BY <2>4, <3>2 DEF Step, Recover, Advance, List, LookAtIndex, Commit, Mark,
           Materialize, ForkList, ReplayFork, Archived
      <4>. QED  BY <4>1, LogSame DEF Abstract!logVars
    <3>3. CASE Raise(p) \/ Crash(p)
      <4>1. events' = events /\ answered' = answered
        BY <3>3 DEF Raise, Crash
      <4>. QED  BY <4>1, LogSame DEF Abstract!logVars
    <3>. QED  BY <2>1, <3>1, <3>2, <3>3
  <2>. QED  BY <2>2, <2>3, <2>4
<1>2. CASE UNCHANGED vars
  <2>1. events' = events /\ answered' = answered
    BY <1>2 DEF vars, diskVars, seenVars
  <2>. QED  BY <2>1, LogSame DEF Abstract!logVars
<1>. QED  BY <1>1, <1>2

\* The files, with their locks, caches, deaths and recoveries, are an EventLog.
THEOREM FilesImplementLog == Spec => ImplementsEventLog
<1>. QED  BY InitInv, NextInv, InitImplements, NextImplements, PTL
          DEF Spec, ImplementsEventLog, Abstract!Spec
=============================================================================
