----------------------------- MODULE UnitStacks -----------------------------
(***************************************************************************)
(* What the vehicle array of the game promises to the rest of it: on every *)
(* tile a stack of units in which a unit keeps its place until something   *)
(* moves it; a boarded unit that remembers its transport; and references   *)
(* that stay with their unit.  There are no rows, links, bits or indexes   *)
(* here: a stack is known by the units that are under each of its units.   *)
(* UnitTable implements this specification.                                *)
(***************************************************************************)
EXTENDS Naturals, FiniteSets

CONSTANTS
  Units,       (* every unit there may ever be                             *)
  Transports,  (* those that carry others                                  *)
  Capacity,    (* units one transport carries                              *)
  Tiles,       (* tiles of the map                                         *)
  Handles,     (* every handle there may ever be                           *)
  NoTile,
  NoUnit

VARIABLES
  tile,        (* where a unit is, NoTile when it is not alive             *)
  under,       (* the units under it in its stack                          *)
  aboard,      (* the transport a unit has boarded                         *)
  name,        (* the semantic handle of a unit, 0 while it has none       *)
  used,        (* the handles ever given                                   *)
  network      (* whether this is a network game                           *)

vars == << tile, under, aboard, name, used, network >>

On(t) == { u \in Units : tile[u] = t }
Alive == { u \in Units : tile[u] \in Tiles }

(* The stacks the units of S can form: b[u] are those under u.             *)
Orders(S) ==
  { b \in [S -> SUBSET S] :
      \A u, v \in S : /\ u \in b[v] <=> u # v /\ v \notin b[u]
                      /\ u \in b[v] => b[u] \subseteq b[v] }

(* The carriers above the others, each group in the order it had.          *)
CarriersFirst(b) ==
  [u \in DOMAIN b |->
    IF u \in Transports THEN (b[u] \cap Transports) \cup (DOMAIN b \ Transports)
    ELSE b[u] \ Transports]

(* The orders a stack may be put in before its units are counted: a network *)
(* game uses one of its own.                                                *)
Stacks(t) == IF network THEN Orders(On(t)) ELSE { [u \in On(t) |-> under[u]] }
Restacked(t, b) == [u \in Units |-> IF u \in On(t) THEN b[u] ELSE under[u]]
Sorted(t) == { Restacked(t, CarriersFirst(b)) : b \in Stacks(t) }

Init ==
  /\ tile = [u \in Units |-> NoTile]
  /\ under = [u \in Units |-> {}]
  /\ aboard = [u \in Units |-> NoUnit]
  /\ name = [u \in Units |-> 0]
  /\ used = {}
  /\ network \in BOOLEAN

(* A unit appears on top of its tile.                                      *)
Create(u, t) ==
  /\ u \notin Alive
  /\ aboard[u] = NoUnit /\ name[u] = 0
  /\ tile' = [tile EXCEPT ![u] = t]
  /\ under' = [under EXCEPT ![u] = On(t)]
  /\ UNCHANGED << aboard, name, used, network >>

(* The movers leave the order the others are in and go on top of a tile in *)
(* any order.                                                              *)
Depart(movers, rest, t) ==
  /\ tile' = [u \in Units |-> IF u \in movers THEN t ELSE tile[u]]
  /\ \E order \in Orders(movers) :
       under' = [u \in Units |-> IF u \in movers THEN order[u] \cup (On(t) \ movers)
                                ELSE rest[u] \ movers]

Put(u, t) ==
  /\ u \in Alive
  /\ Depart({ u }, under, t)
  /\ UNCHANGED << aboard, name, used, network >>

(* A transport takes at most Capacity units along, of those in its stack.  *)
Taken(v) ==
  { taken \in SUBSET (On(tile[v]) \ Transports) : Cardinality(taken) <= Capacity }
Boarded(v, taken) == [u \in Units |-> IF u \in taken THEN v ELSE aboard[u]]

Travel(v, t) ==
  /\ v \in Alive \cap Transports
  /\ \E taken \in Taken(v), rest \in Sorted(tile[v]) :
       /\ aboard' = Boarded(v, taken)
       /\ Depart(taken \cup { v }, rest, t)
  /\ UNCHANGED << name, used, network >>

Board(v) ==
  /\ v \in Alive \cap Transports
  /\ \E taken \in Taken(v) : aboard' = Boarded(v, taken)
  /\ \E b \in Stacks(tile[v]) : under' = Restacked(tile[v], b)
  /\ UNCHANGED << tile, name, used, network >>

(* A unit boards by itself, sleeps or wakes.                               *)
Embark(u, v) ==
  /\ u \in Alive
  /\ v = NoUnit \/ v \in Transports \cap On(tile[u])
  /\ aboard' = [aboard EXCEPT ![u] = v]
  /\ UNCHANGED << tile, under, name, used, network >>

Demote(u) ==
  /\ u \in Alive
  /\ under' = [x \in Units |-> IF x = u THEN {}
                              ELSE IF tile[x] = tile[u] THEN under[x] \cup { u } ELSE under[x]]
  /\ UNCHANGED << tile, aboard, name, used, network >>

(* Units die: nobody is aboard them, nothing points at them, and nobody    *)
(* else is disturbed.                                                      *)
Die(dead, before) ==
  /\ tile' = [u \in Units |-> IF u \in dead THEN NoTile ELSE tile[u]]
  /\ under' = [u \in Units |-> IF u \in dead THEN {} ELSE before[u] \ dead]
  /\ aboard' = [u \in Units |-> IF {u, aboard[u]} \cap dead # {} THEN NoUnit ELSE aboard[u]]
  /\ name' = [u \in Units |-> IF u \in dead THEN 0 ELSE name[u]]
  /\ UNCHANGED << used, network >>

Kill(u) == u \in Alive /\ Die({ u }, under)
Wipe(t) == Die(On(t), under)

(* A transport sinks with no more than it can carry.                       *)
Sink(v) ==
  /\ v \in Alive \cap Transports
  /\ \E taken \in Taken(v), rest \in Sorted(tile[v]) : Die(taken \cup { v }, rest)

(* A peer of a network game puts a stack in an order of its own.           *)
Rearrange(t) ==
  /\ \E b \in Stacks(t) : under' = Restacked(t, b)
  /\ UNCHANGED << tile, aboard, name, used, network >>

(* A unit that is seen for the first time gets a handle nobody ever had.   *)
Name(u, handle) ==
  /\ u \in Alive /\ name[u] = 0 /\ handle \notin used
  /\ name' = [name EXCEPT ![u] = handle]
  /\ used' = used \cup { handle }
  /\ UNCHANGED << tile, under, aboard, network >>

Next ==
  \/ \E u \in Units, t \in Tiles : Create(u, t) \/ Put(u, t) \/ Travel(u, t)
  \/ \E u \in Units, v \in Units \cup { NoUnit } : Embark(u, v)
  \/ \E u \in Units : Board(u) \/ Demote(u) \/ Kill(u) \/ Sink(u)
  \/ \E t \in Tiles : Rearrange(t) \/ Wipe(t)
  \/ \E u \in Units, handle \in Handles : Name(u, handle)

Spec == Init /\ [][Next]_vars
=============================================================================
