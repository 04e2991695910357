------------------------------- MODULE EventLog -------------------------------
(***************************************************************************)
(* What a campaign journal promises its callers (docs/strategic-world.md,    *)
(* "Committed publication visibility"): every timeline is a list of events   *)
(* that only grows at its end, an idempotency key names at most one event of *)
(* a timeline, and a caller is only ever told of an event that the timeline  *)
(* has. Files, locks, caches and crashes are not seen here.                  *)
(***************************************************************************)
EXTENDS Naturals, Sequences

CONSTANTS Timelines, Keys, NoKey, Ids

VARIABLES
    log,       \* the events of each timeline, in order
    answered   \* the events that callers have been told are recorded
logVars == <<log, answered>>

Entries == [id : Ids, key : Keys \cup {NoKey}]

EntriesOf(t) == {log[t][i] : i \in DOMAIN log[t]}

Init == log = [t \in Timelines |-> <<>>] /\ answered = {}

Record(t, id, key) ==
    /\ \A other \in Timelines : \A e \in EntriesOf(other) : e.id # id
    /\ key = NoKey \/ \A e \in EntriesOf(t) : e.key # key
    /\ log' = [log EXCEPT ![t] = Append(@, [id |-> id, key |-> key])]
    /\ UNCHANGED answered

Answer(t, e) ==
    /\ e \in EntriesOf(t)
    /\ answered' = answered \cup {[timeline |-> t, id |-> e.id, key |-> e.key]}
    /\ UNCHANGED log

Next == \E t \in Timelines :
    \/ \E id \in Ids, key \in Keys \cup {NoKey} : Record(t, id, key)
    \/ \E e \in EntriesOf(t) : Answer(t, e)

Spec == Init /\ [][Next]_logVars
===============================================================================
