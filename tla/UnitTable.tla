------------------------------ MODULE UnitTable ------------------------------
(***************************************************************************)
(* The vehicle array of the game, Vehs (src/bridge/src/veh.cpp), and the   *)
(* semantic handles the bridge keeps beside it                             *)
(* (src/bridge/src/agent_bridge.cpp).                                      *)
(*                                                                         *)
(* Rows hold the units of all tiles.  The units of one tile are linked by  *)
(* row numbers, top first; a boarded unit holds the row of its transport;  *)
(* a bit of each tile says whether any unit is there.  A unit that dies is *)
(* taken out of the array by moving the rows behind it, so every row number *)
(* kept anywhere has to follow.  Places off the map hold units that are    *)
(* lifted, loaded or sorted.                                               *)
(*                                                                         *)
(* Rows are numbered from 1 and 0 stands for -1.  The units here are land  *)
(* units and sea transports of one faction.                                *)
(***************************************************************************)
EXTENDS Naturals, Sequences, FiniteSets, SequencesExt

CONSTANTS
  Units,       (* bound: the units that may appear                         *)
  Transports,  (* veh_cargo(unit) > 0                                      *)
  Capacity,    (* veh_cargo of a transport                                 *)
  Tiles,       (* tiles of the map                                         *)
  Sea,         (* those that are ocean without a base                      *)
  MaxVehNum,   (* conf.max_veh_num                                         *)
  MaxHandles,  (* bound: the handles given                                 *)
  NoUnit

ASSUME UnitBounds ==
  /\ Transports \subseteq Units /\ Sea \subseteq Tiles
  /\ Capacity \in Nat \ {0} /\ MaxVehNum \in Nat \ {0} /\ MaxHandles \in Nat

(* Coordinates below zero, of no tile.                                     *)
Cleared == "cleared"  (* veh_clear                                         *)
Lifted == "lifted"    (* (-1, -1) *)
Loading == "loading"  (* (-2, -2) *)
Sorting == "sorting"  (* (-3, -3) *)
OffMap == { Cleared, Lifted, Loading, Sorting }

ASSUME OffMapIsNoTile == Tiles \cap OffMap = {}

VARIABLES
  vehs,        (* the array                                                *)
  inTile,      (* BIT_VEH_IN_TILE of each tile                             *)
  handles,     (* semantic_vehicle_handles                                 *)
  nextHandle,  (* next_semantic_vehicle_handle                             *)
  born,        (* the units that have appeared                             *)
  multiplayer  (* MultiplayerActive                                        *)

tableVars == << vehs, inTile, handles >>
vars == << tableVars, nextHandle, born, multiplayer >>

Rows == DOMAIN vehs
Table == [vehs |-> vehs, inTile |-> inTile]

-----------------------------------------------------------------------------
(* The table operations, as functions of the array and the bits.           *)

Up(vs) == [j \in DOMAIN vs |-> vs[j].prev]
Down(vs) == [j \in DOMAIN vs |-> vs[j].next]

(* The rows met from row i on, until a link is 0.                          *)
Path(link, i) ==
  LET met[k \in 0 .. Len(link)] ==
        [j \in 0 .. Len(link) |->
          IF j = 0 \/ k = 0 THEN << >> ELSE << j >> \o met[k - 1][link[j]]]
  IN met[Len(link)][i]

VehTop(vs, i) == IF i = 0 THEN 0 ELSE Last(Path(Up(vs), i))
StackFrom(vs, i) == Path(Down(vs), i)

(* The first row of the place finds its stack, if the tile's bit is set.   *)
VehAt(s, place) ==
  LET there == { i \in DOMAIN s.vehs : s.vehs[i].at = place }
  IN IF (place \in Tiles /\ ~s.inTile[place]) \/ there = {} THEN 0
     ELSE VehTop(s.vehs, CHOOSE i \in there : \A j \in there : i <= j)

SetNext(vs, i, below) == IF i = 0 THEN vs ELSE [vs EXCEPT ![i].next = below]
SetPrev(vs, i, above) == IF i = 0 THEN vs ELSE [vs EXCEPT ![i].prev = above]

(* mutant: the tile of a lone unit keeps its bit                           *)
VehLiftKeepingBit(s, i) ==
  LET veh == s.vehs[i]
      linked == SetPrev(SetNext(s.vehs, veh.prev, veh.next), veh.next, veh.prev)
  IN [s EXCEPT !.vehs = [linked EXCEPT ![i] = [@ EXCEPT !.at = Lifted, !.next = 0, !.prev = 0]]]

VehLift(s, i) ==
  LET veh == s.vehs[i]
      alone == veh.prev = 0 /\ veh.next = 0
      linked == SetPrev(SetNext(s.vehs, veh.prev, veh.next), veh.next, veh.prev)
  IN [vehs |-> [linked EXCEPT ![i] = [@ EXCEPT !.at = Lifted, !.next = 0, !.prev = 0]],
      inTile |-> IF alone /\ veh.at \in Tiles THEN [s.inTile EXCEPT ![veh.at] = FALSE]
                 ELSE s.inTile]

VehDrop(s, i, place) ==
  LET below == VehAt(s, place)
      linked == [s.vehs EXCEPT ![i] = [@ EXCEPT !.at = place, !.next = below, !.prev = 0]]
  IN [vehs |-> SetPrev(linked, below, i),
      inTile |-> IF place \in Tiles THEN [s.inTile EXCEPT ![place] = TRUE] ELSE s.inTile]

VehPut(s, i, place) == VehDrop(VehLift(s, i), i, place)

(* A loop over the rows js that puts the chosen ones; last is veh_id_put.  *)
PutOne(state, j, chosen, place) ==
  IF j \in chosen THEN [table |-> VehPut(state.table, j, place), last |-> j] ELSE state

PutEach(s, js, chosen, place) ==
  LET after[k \in 0 .. Len(js)] ==
        IF k = 0 THEN [table |-> s, last |-> 0]
        ELSE PutOne(after[k - 1], js[k], chosen, place)
  IN after[Len(js)]

(* From the top down, so that the order is turned over.                    *)
StackPut(s, i, place) ==
  PutEach(s, StackFrom(s.vehs, VehTop(s.vehs, i)), DOMAIN s.vehs, place).table

Cargo(veh) == IF veh.unit \in Transports THEN Capacity ELSE 0
Carriers(vs) == { j \in DOMAIN vs : Cargo(vs[j]) > 0 }

(* The carriers go aside and come back: turned over twice.                 *)
StackSort(s, i) ==
  LET aside == PutEach(s, StackFrom(s.vehs, VehTop(s.vehs, i)), Carriers(s.vehs), Sorting)
  IN StackPut(aside.table, aside.last, s.vehs[i].at)

VehPromote(s, i) ==
  LET top == VehTop(s.vehs, i)
  IN IF top = i THEN s ELSE VehPut(s, i, s.vehs[top].at)

VehDemote(s, i) ==
  LET below == StackFrom(s.vehs, s.vehs[i].next)
      last == Last(below)
      away == VehLift(s, i)
      linked == SetNext(away.vehs, last, i)
  IN IF below = << >> THEN s
     ELSE [away EXCEPT !.vehs =
             [linked EXCEPT ![i] = [@ EXCEPT !.prev = last, !.at = linked[last].at]]]

(* mutant: the stack is sorted once, before its units are promoted         *)
FixRowUnsorted(t, i, j) == IF t.vehs[j].at = t.vehs[i].at THEN VehPromote(t, j) ELSE t

(* The carriers go back on top after every unit that is promoted.          *)
FixRow(t, i, j) ==
  IF t.vehs[j].at = t.vehs[i].at THEN StackSort(VehPromote(t, j), i) ELSE t

(* Every unit of the tile is promoted in the order of the array.           *)
StackFix(s, i) ==
  LET after[k \in 0 .. Len(s.vehs)] == IF k = 0 THEN s ELSE FixRow(after[k - 1], i, k)
  IN IF ~multiplayer \/ i = 0 \/ (s.vehs[i].next = 0 /\ s.vehs[i].prev = 0) THEN s
     ELSE after[Len(s.vehs)]

-----------------------------------------------------------------------------
(* stack_veh: the units a transport takes along.  flag is 1 when it leaves, *)
(* 0 when it stays and 2 when it sinks at sea.                              *)

(* do_load                                                                 *)
DoLoad(s, i, v, flag) ==
  LET asleep == [s EXCEPT !.vehs[i] = [@ EXCEPT !.order = "board", !.on = v]]
  IN IF flag > 0 THEN VehPut(asleep, i, Loading) ELSE asleep

(* In the first pass the units that have boarded this transport; in the    *)
(* second those that look for one, or that the sea would take.  owner is   *)
(* human or a computer, whose plans make some of the units willing.        *)
Boards(s, i, v, pass, owner) ==
  LET veh == s.vehs[i]
      sleeping == veh.order = "board"
  IN /\ Cargo(veh) = 0
     /\ IF pass = 1 THEN sleeping /\ veh.on = v
        ELSE IF ~owner.human THEN i \in owner.willing
        ELSE IF sleeping THEN veh.on = 0
        ELSE s.vehs[v].at \in Sea

(* loaded: the units with VSTATE_IN_TRANSPORT, which the call clears first. *)
LoadOne(state, i, v, flag, pass, owner) ==
  IF /\ state.room > 0
     /\ Boards(state.table, i, v, pass, owner)
     /\ i \notin state.loaded
  THEN [table |-> DoLoad(state.table, i, v, flag), room |-> state.room - 1,
        loaded |-> state.loaded \cup { i }]
  ELSE state

(* One pass over the stack, from the transport when it moves and from the  *)
(* top when it stays.                                                      *)
LoadPass(state, v, flag, pass, owner) ==
  LET js == StackFrom(state.table.vehs, IF flag > 0 THEN v ELSE VehTop(state.table.vehs, v))
      after[k \in 0 .. Len(js)] ==
        IF k = 0 THEN state ELSE LoadOne(after[k - 1], js[k], v, flag, pass, owner)
  IN after[Len(js)]

StackVeh(s, v, flag, owner) ==
  LET fixed == StackFix(s, v)
      start == [table |-> IF flag > 0 THEN StackSort(fixed, v) ELSE fixed,
                room |-> Capacity, loaded |-> {}]
      first == LoadPass(start, v, flag, 1, owner)
      second == IF flag <= 1 THEN LoadPass(first, v, flag, 2, owner) ELSE first
  IN IF flag > 0 THEN VehPut(second.table, v, Loading) ELSE second.table

-----------------------------------------------------------------------------
(* veh_kill: the rows behind the dead one move up, and with them the links, *)
(* the transports, the interface and the bridge's handles.                 *)

Behind(i, dead) == IF i > dead THEN i - 1 ELSE i
Followed(i, dead) == IF i = dead THEN 0 ELSE Behind(i, dead)

(* ensure_semantic_vehicle_handles                                         *)
Ensured(hs, count) ==
  LET kept == IF Len(hs) > count THEN << >> ELSE hs
  IN kept \o [i \in 1 .. count - Len(kept) |-> 0]

(* mutant: a boarded unit keeps the row number of its transport            *)
Compacted(veh, dead) ==
  [veh EXCEPT !.prev = Behind(@, dead), !.next = Behind(@, dead),
              !.order = IF veh.order = "board" /\ veh.on = dead THEN "none" ELSE @,
              !.on = IF @ = dead THEN 0 ELSE @]

Renumbered(veh, dead) ==
  [veh EXCEPT !.prev = Behind(@, dead), !.next = Behind(@, dead),
              !.order = IF veh.order = "board" /\ veh.on = dead THEN "none" ELSE @,
              !.on = Followed(@, dead)]

(* The whole state a death changes; agent_observe_unit_destroyed runs first. *)
World == [vehs |-> vehs, inTile |-> inTile, handles |-> handles]

VehKill(w, dead) ==
  LET s == VehLift([vehs |-> w.vehs, inTile |-> w.inTile], dead)
      rows == [i \in DOMAIN s.vehs |-> Renumbered(s.vehs[i], dead)]
  IN [vehs |-> RemoveAt(rows, dead),
      inTile |-> s.inTile,
      handles |-> RemoveAt(Ensured(w.handles, Len(w.vehs)), dead)]

(* stack_kill follows the links while the rows move under it.              *)
KillOne(state) ==
  IF state.next = 0 THEN state
  ELSE [world |-> VehKill(state.world, state.next),
        next |-> Behind(state.world.vehs[state.next].next, state.next)]

StackKill(w, i) ==
  LET killed[k \in 0 .. Len(w.vehs)] ==
        IF k = 0 THEN [world |-> w, next |-> VehTop(w.vehs, i)] ELSE KillOne(killed[k - 1])
  IN killed[Len(w.vehs)].world

-----------------------------------------------------------------------------
(* Actions: one call of the table by the rest of the game.                 *)

Set(s) == vehs' = s.vehs /\ inTile' = s.inTile

SetWorld(w) ==
  /\ vehs' = w.vehs /\ inTile' = w.inTile /\ handles' = w.handles

Init ==
  /\ vehs = << >>
  /\ inTile = [t \in Tiles |-> FALSE]
  /\ handles = << >> /\ nextHandle = 1
  /\ born = {}
  /\ multiplayer \in BOOLEAN

(* veh_init: veh_clear and veh_drop of a new row.                          *)
VehInit(u, t) ==
  /\ u \notin born
  /\ Len(vehs) < MaxVehNum
  /\ LET row == [unit |-> u, at |-> Cleared, next |-> 0, prev |-> 0,
                 order |-> "none", on |-> 0]
     IN Set(VehDrop([Table EXCEPT !.vehs = Append(@, row)], Len(vehs) + 1, t))
  /\ born' = born \cup { u }
  /\ UNCHANGED << handles, nextHandle, multiplayer >>

Keep == UNCHANGED << handles, nextHandle, born, multiplayer >>

(* A single unit is moved.                                                 *)
Put(i, t) == Set(VehPut(Table, i, t)) /\ Keep

(* The unit's owner, and the land units his plans may send with it.        *)
Person == [human |-> TRUE, willing |-> {}]
Owners(i) ==
  { Person } \cup
  [human : { FALSE },
   willing : SUBSET { j \in Rows : vehs[j].at = vehs[i].at /\ Cargo(vehs[j]) < Cargo(vehs[i]) }]

(* stack_veh(veh_id, 1), and stack_put where the move ends; for a unit that *)
(* carries nothing that is Put.                                            *)
Move(i, t) ==
  /\ Cargo(vehs[i]) > 0
  /\ \E s \in { StackVeh(Table, i, 1, owner) : owner \in Owners(i) } : Set(StackPut(s, i, t))
  /\ Keep

(* stack_veh(veh_id, 0): the transport stays and loads.                    *)
Load(i) ==
  /\ Cargo(vehs[i]) > 0
  /\ \E s \in { StackVeh(Table, i, 0, owner) : owner \in Owners(i) } : Set(s)
  /\ Keep

Promote(i) == Set(VehPromote(Table, i)) /\ Keep
Demote(i) == Set(VehDemote(Table, i)) /\ Keep
Fix(t) == Set(StackFix(Table, VehAt(Table, t))) /\ Keep

(* sleep                                                                   *)
Sleep(i) ==
  /\ vehs' = [vehs EXCEPT ![i] = [@ EXCEPT !.order = "board", !.on = 0]]
  /\ UNCHANGED inTile /\ Keep

(* set_board_to                                                            *)
BoardTo(i, v) ==
  /\ i # v /\ vehs[i].at = vehs[v].at /\ Cargo(vehs[v]) > 0
  /\ vehs' = [vehs EXCEPT ![i] = [@ EXCEPT !.order = "board", !.on = v]]
  /\ UNCHANGED inTile /\ Keep

(* veh_wake.  The transport's row is read only while the unit sleeps.      *)
Wake(i) ==
  /\ vehs' = [vehs EXCEPT ![i] = [@ EXCEPT !.order = "none", !.on = 0]]
  /\ UNCHANGED inTile /\ Keep

KeepNames == UNCHANGED << nextHandle, born, multiplayer >>

(* kill: at sea a transport goes down with those it carries.               *)
Kill(i) ==
  /\ IF Cargo(vehs[i]) > 0 /\ vehs[i].at \in Sea
     THEN LET s == StackVeh(Table, i, 2, Person)
          IN SetWorld(StackKill([World EXCEPT !.vehs = s.vehs, !.inTile = s.inTile], i))
     ELSE SetWorld(VehKill(World, i))
  /\ KeepNames

(* stack_kill of a whole tile.                                             *)
KillStack(t) == SetWorld(StackKill(World, VehAt(Table, t))) /\ KeepNames

(* semantic_vehicle_handle: the first look at a row gives it a handle.     *)
Observe(i) ==
  /\ nextHandle <= MaxHandles
  /\ LET hs == Ensured(handles, Len(vehs))
     IN /\ handles' = IF hs[i] = 0 THEN [hs EXCEPT ![i] = nextHandle] ELSE hs
        /\ nextHandle' = IF hs[i] = 0 THEN nextHandle + 1 ELSE nextHandle
  /\ UNCHANGED << vehs, inTile, born, multiplayer >>

Call ==
  \/ \E u \in Units, t \in Tiles : VehInit(u, t)
  \/ \E i \in Rows, t \in Tiles : Put(i, t) \/ Move(i, t)
  \/ \E i \in Rows : Load(i) \/ Promote(i) \/ Demote(i) \/ Sleep(i) \/ Wake(i)
  \/ \E i, v \in Rows : BoardTo(i, v)
  \/ \E t \in Tiles : Fix(t) \/ KillStack(t)
  \/ \E i \in Rows : Kill(i) \/ Observe(i)

(* A call that changes nothing is no step.                                 *)
Next == Call /\ vars' # vars

Spec == Init /\ [][Next]_vars

-----------------------------------------------------------------------------
(* Properties.                                                             *)

RowOf(vs, u) == CHOOSE i \in DOMAIN vs : vs[i].unit = u
Living(vs) == { vs[i].unit : i \in DOMAIN vs }
UnitIn(vs, i) == IF i = 0 THEN NoUnit ELSE vs[i].unit

(* Where a unit is, the units under it, its transport and its handle.      *)
TileOf(vs) == [u \in Units |-> IF u \in Living(vs) THEN vs[RowOf(vs, u)].at ELSE Cleared]

UnitsUnder(vs) ==
  [u \in Units |->
    IF u \in Living(vs)
    THEN { vs[j].unit : j \in ToSet(StackFrom(vs, vs[RowOf(vs, u)].next)) } ELSE {}]

Boarding(vs) ==
  [u \in Units |->
    IF u \in Living(vs) /\ vs[RowOf(vs, u)].order = "board"
    THEN UnitIn(vs, vs[RowOf(vs, u)].on) ELSE NoUnit]

HandleOf(vs, hs) ==
  [u \in Units |->
    IF u \in Living(vs) /\ RowOf(vs, u) \in DOMAIN hs THEN hs[RowOf(vs, u)] ELSE 0]

Abstract == INSTANCE UnitStacks WITH
  tile <- TileOf(vehs), under <- UnitsUnder(vehs), aboard <- Boarding(vehs),
  name <- HandleOf(vehs, handles), used <- 1 .. nextHandle - 1, network <- multiplayer,
  Handles <- 1 .. MaxHandles, NoTile <- Cleared

(* Whatever rows move, every tile's stack keeps its units and their order, *)
(* a boarded unit its transport and a unit its handle: the array, its      *)
(* links and the handles of the bridge implement UnitStacks.               *)
ImplementsUnitStacks == Abstract!Spec

(* "Stack iterators should never contain infinite loops or vehicles from   *)
(* multiple tiles" (game.cpp): a tile's bit, its units and the one list    *)
(* that links them agree, and nothing stays off the map.                   *)
StacksAreWhole ==
  /\ \A i \in Rows : vehs[i].at \in Tiles
  /\ \A t \in Tiles :
       LET there == { i \in Rows : vehs[i].at = t }
           tops == { i \in there : vehs[i].prev = 0 }
       IN /\ inTile[t] <=> there # {}
          /\ there # {} => Cardinality(tops) = 1
          /\ \A i \in there :
               /\ vehs[i].next # 0 => vehs[i].next \in there /\ vehs[vehs[i].next].prev = i
               /\ vehs[i].prev # 0 => vehs[i].prev \in there /\ vehs[vehs[i].prev].next = i

(* Peers of a network game that agree on the array agree on the order of a *)
(* fixed stack, whatever order each had before: carriers first, and later  *)
(* rows above earlier ones.                                                *)
FixedOrderIsOfTheArray ==
  [][ \A t \in Tiles : (multiplayer /\ Fix(t)) =>
        \A j, k \in Rows :
          vehs'[j].at = t /\ vehs'[j].next = k
          => IF Cargo(vehs'[j]) = Cargo(vehs'[k]) THEN j > k ELSE Cargo(vehs'[j]) > 0 ]_vars

=============================================================================
