--------------------------- MODULE UnitTableProofs ---------------------------
(***************************************************************************)
(* What is proved of the vehicle array (UnitTable), for any units, tiles   *)
(* and capacities.                                                         *)
(*                                                                         *)
(* The argument gives every row a rank.  The array is linked by a ranking   *)
(* when the links of a row lead to the next rank, up and down, among the   *)
(* rows of its place.  A list that has a ranking cannot run in a circle,   *)
(* lose a row or leave its tile; following the links visits the rows of a  *)
(* place in the order of their ranks; and every operation of the table is  *)
(* described by the ranking it leaves: VehPut ranks its unit before all    *)
(* others, VehDemote behind the last one, VehKill drops one rank.  The     *)
(* loops of the table (stack_put, stack_sort, stack_fix, stack_veh,        *)
(* stack_kill) are then inductions over the rankings of their steps.       *)
(*                                                                         *)
(* The second half reads the state of UnitStacks off a ranking and shows    *)
(* that every call is one of its steps, or none.                           *)
(***************************************************************************)
EXTENDS UnitTable, FiniteSetTheorems, FunctionTheorems, SequenceTheorems, WellFoundedInduction, TLAPS

-----------------------------------------------------------------------------
(* Numbers.                                                                *)

\* A set of numbers that is not empty has a least one.
LEMMA LeastRow ==
    ASSUME NEW S \in SUBSET Nat, S # {}
    PROVE  \E n \in S : \A k \in S : n <= k
<1>. DEFINE R == OpToRel(<, Nat)
<1>1. IsWellFoundedOn(R, Nat)
  BY NatLessThanWellFounded
<1>2. \A k, n \in Nat : k < n => << k, n >> \in R
  BY DEF OpToRel
<1>. HIDE DEF R
<1>3. PICK n \in S : \A k \in S : ~ (<< k, n >> \in R)
  BY <1>1, WFMin
<1>4. ASSUME NEW k \in S
      PROVE  n <= k
  <2>1. k \in Nat /\ n \in Nat /\ ~ (<< k, n >> \in R)
    BY <1>3
  <2>2. ~ (k < n)
    BY <1>2, <2>1
  <2>. QED  BY <2>1, <2>2
<1>. QED  BY <1>4

\* Induction over 0 .. n: a set that holds 0 and, with k - 1, also k holds them all.
LEMMA UpTo ==
    ASSUME NEW n \in Nat, NEW S, 0 \in S,
           \A k \in 1 .. n : k - 1 \in S => k \in S
    PROVE  \A k \in 0 .. n : k \in S
<1>. DEFINE T == {k \in 0 .. n : k \notin S}
<1>1. SUFFICES ASSUME T # {} PROVE FALSE
  OBVIOUS
<1>2. PICK k \in T : \A m \in T : k <= m
  <2>1. T \in SUBSET Nat
    OBVIOUS
  <2>. HIDE DEF T
  <2>. QED  BY <1>1, <2>1, LeastRow
<1>3. k \in 1 .. n /\ k - 1 \in 0 .. n /\ k - 1 \notin T
  BY <1>2
<1>. QED  BY <1>2, <1>3

-----------------------------------------------------------------------------
(* Loops.  A function that is defined from its value one step before       *)
(* exists when the step stays in a set.                                    *)

Loop(h, m, S, s, G) ==
  /\ h \in [0 .. m -> S]
  /\ h[0] = s
  /\ \A k \in 1 .. m : h[k] = G[k][h[k - 1]]

LEMMA LoopExtends ==
    ASSUME NEW S, NEW s \in S, NEW m \in Nat \ {0}, NEW G, \A x \in S : G[m][x] \in S,
           NEW g, Loop(g, m - 1, S, s, G)
    PROVE  \E h : Loop(h, m, S, s, G)
<1>. DEFINE y == G[m][g[m - 1]]
            h == [k \in 0 .. m |-> IF k = m THEN y ELSE g[k]]
<1>1. g \in [0 .. m - 1 -> S] /\ g[0] = s /\ \A k \in 1 .. m - 1 : g[k] = G[k][g[k - 1]]
  BY DEF Loop
<1>2. y \in S
  <2>1. g[m - 1] \in S
    BY <1>1
  <2>. QED  BY <2>1
<1>. HIDE DEF y
<1>3. \A k \in 0 .. m : k # m => k \in 0 .. m - 1
  OBVIOUS
<1>4. h \in [0 .. m -> S]
  BY <1>1, <1>2, <1>3
<1>5. h[m] = y
  OBVIOUS
<1>6. \A k \in 0 .. m - 1 : h[k] = g[k]
  OBVIOUS
<1>. HIDE DEF h
<1>7. h[0] = s
  BY <1>1, <1>6
<1>8. ASSUME NEW k \in 1 .. m
      PROVE  h[k] = G[k][h[k - 1]]
  <2>1. k - 1 \in 0 .. m - 1
    OBVIOUS
  <2>2. h[k - 1] = g[k - 1]
    BY <1>6, <2>1
  <2>3. CASE k = m
    BY <1>5, <2>2, <2>3 DEF y
  <2>4. CASE k # m
    <3>1. k \in 1 .. m - 1 /\ k \in 0 .. m - 1
      BY <2>4
    <3>. QED  BY <1>1, <1>6, <2>2, <3>1
  <2>. QED  BY <2>3, <2>4
<1>. QED  BY <1>4, <1>7, <1>8 DEF Loop

LEMMA LoopExists ==
    ASSUME NEW S, NEW s \in S, NEW n \in Nat, NEW G, \A k \in 1 .. n : \A x \in S : G[k][x] \in S
    PROVE  \E h : Loop(h, n, S, s, G)
<1>. DEFINE R == {m \in 0 .. n : \E h : Loop(h, m, S, s, G)}
<1>1. 0 \in R
  <2>. DEFINE h == [k \in 0 .. 0 |-> s]
  <2>1. h \in [0 .. 0 -> S] /\ h[0] = s /\ \A k \in 1 .. 0 : FALSE
    OBVIOUS
  <2>. HIDE DEF h
  <2>2. Loop(h, 0, S, s, G)
    BY <2>1 DEF Loop
  <2>. QED  BY <2>2
<1>2. ASSUME NEW m \in 1 .. n, m - 1 \in R
      PROVE  m \in R
  <2>1. PICK g : Loop(g, m - 1, S, s, G)
    BY <1>2
  <2>2. m \in Nat \ {0} /\ m \in 0 .. n
    OBVIOUS
  <2>3. \A x \in S : G[m][x] \in S
    OBVIOUS
  <2>4. \E h : Loop(h, m, S, s, G)
    BY <2>1, <2>2, <2>3, LoopExtends
  <2>. QED  BY <2>2, <2>4
<1>3. n \in R
  <2>. HIDE DEF R
  <2>1. \A k \in 0 .. n : k \in R
    BY <1>1, <1>2, UpTo
  <2>. QED  BY <2>1
<1>. QED  BY <1>3

-----------------------------------------------------------------------------
(* Lists.  at, nx and pv are the places of the rows 1 .. n and the links    *)
(* down and up; r ranks them.                                              *)

Chain(n, at, nx, pv, r) ==
  /\ \A j \in 1 .. n : r[j] \in Nat /\ nx[j] \in 0 .. n /\ pv[j] \in 0 .. n
  /\ \A j, k \in 1 .. n : j # k /\ at[j] = at[k] => r[j] # r[k]
  /\ \A j \in 1 .. n : nx[j] # 0 => /\ at[nx[j]] = at[j]
                                    /\ r[j] < r[nx[j]]
                                    /\ pv[nx[j]] = j
  /\ \A j \in 1 .. n : pv[j] # 0 => /\ at[pv[j]] = at[j]
                                    /\ r[pv[j]] < r[j]
                                    /\ nx[pv[j]] = j
  /\ \A j, k \in 1 .. n : at[j] = at[k] /\ r[j] < r[k] =>
       /\ nx[j] # 0 /\ r[nx[j]] <= r[k]
       /\ pv[k] # 0 /\ r[j] <= r[pv[k]]

Alone(n, at, i, p) == \A j \in 1 .. n : at[j] = p => j = i

\* A row taken out of its list leaves a list, in the same ranking.
LEMMA ChainLift ==
    ASSUME NEW n \in Nat, NEW at, NEW nx, NEW pv, NEW r, Chain(n, at, nx, pv, r),
           NEW i \in 1 .. n, NEW p, Alone(n, at, i, p), NEW at2, NEW nx2, NEW pv2,
           \A j \in 1 .. n :
             /\ at2[j] = IF j = i THEN p ELSE at[j]
             /\ nx2[j] = IF j = i THEN 0 ELSE IF j = pv[i] THEN nx[i] ELSE nx[j]
             /\ pv2[j] = IF j = i THEN 0 ELSE IF j = nx[i] THEN pv[i] ELSE pv[j]
    PROVE  Chain(n, at2, nx2, pv2, r)
<1>1. \A j \in 1 .. n : r[j] \in Nat /\ nx2[j] \in 0 .. n /\ pv2[j] \in 0 .. n
  BY DEF Chain
<1>2. \A j, k \in 1 .. n : j # k /\ at2[j] = at2[k] => r[j] # r[k]
  BY DEF Chain, Alone
<1>3. ASSUME NEW j \in 1 .. n, nx2[j] # 0
      PROVE  /\ at2[nx2[j]] = at2[j] /\ r[j] < r[nx2[j]] /\ pv2[nx2[j]] = j
  BY <1>3 DEF Chain
<1>4. ASSUME NEW j \in 1 .. n, pv2[j] # 0
      PROVE  /\ at2[pv2[j]] = at2[j] /\ r[pv2[j]] < r[j] /\ nx2[pv2[j]] = j
  BY <1>4 DEF Chain
<1>5. ASSUME NEW j \in 1 .. n, NEW k \in 1 .. n, at2[j] = at2[k], r[j] < r[k]
      PROVE  /\ nx2[j] # 0 /\ r[nx2[j]] <= r[k]
             /\ pv2[k] # 0 /\ r[j] <= r[pv2[k]]
  <2>1. j # i /\ k # i /\ at[j] = at[k] /\ r[i] \in Nat /\ r[j] \in Nat /\ r[k] \in Nat
    BY <1>5 DEF Chain, Alone
  <2>2. nx[j] # 0 /\ r[nx[j]] <= r[k] /\ pv[k] # 0 /\ r[j] <= r[pv[k]]
    BY <1>5, <2>1 DEF Chain
  <2>3. nx2[j] # 0 /\ r[nx2[j]] <= r[k]
    <3>1. CASE j = pv[i]
      <4>1. pv[i] # 0 /\ nx[j] = i /\ at[i] = at[j]
        <5>1. pv[i] # 0 /\ pv[i] = j
          BY <3>1
        <5>. QED  BY <5>1 DEF Chain
      <4>2. at[i] = at[k] /\ r[i] <= r[k] /\ r[i] # r[k]
        BY <2>1, <2>2, <4>1 DEF Chain
      <4>3. nx[i] # 0 /\ r[nx[i]] <= r[k]
        <5>1. r[i] < r[k]
          BY <2>1, <4>2
        <5>. QED  BY <4>2, <5>1 DEF Chain
      <4>. QED  BY <2>1, <3>1, <4>3
    <3>2. CASE j # pv[i]
      BY <2>1, <2>2, <3>2
    <3>. QED  BY <3>1, <3>2
  <2>4. pv2[k] # 0 /\ r[j] <= r[pv2[k]]
    <3>1. CASE k = nx[i]
      <4>1. nx[i] # 0 /\ pv[k] = i /\ at[i] = at[k]
        <5>1. nx[i] # 0 /\ nx[i] = k
          BY <3>1
        <5>. QED  BY <5>1 DEF Chain
      <4>2. at[i] = at[j] /\ r[j] <= r[i] /\ r[i] # r[j]
        BY <2>1, <2>2, <4>1 DEF Chain
      <4>3. pv[i] # 0 /\ r[j] <= r[pv[i]]
        <5>1. r[j] < r[i]
          BY <2>1, <4>2
        <5>. QED  BY <4>2, <5>1 DEF Chain
      <4>. QED  BY <2>1, <3>1, <4>3
    <3>2. CASE k # nx[i]
      BY <2>1, <2>2, <3>2
    <3>. QED  BY <3>1, <3>2
  <2>. QED  BY <2>3, <2>4
<1>. QED  BY <1>1, <1>2, <1>3, <1>4, <1>5 DEF Chain

\* Row i ranked before all others.
Raised(n, r, i) == [j \in 1 .. n |-> IF j = i THEN 0 ELSE r[j] + 1]

\* A lone row put on top of a list leaves a list, in which it has the first rank.
OnTop(n, at, nx, pv, i, p, below, at2, nx2, pv2) ==
  /\ Alone(n, at, i, at[i]) /\ p # at[i]
  /\ below = 0 => \A j \in 1 .. n : at[j] # p
  /\ below # 0 => at[below] = p /\ pv[below] = 0
  /\ \A j \in 1 .. n :
       /\ at2[j] = IF j = i THEN p ELSE at[j]
       /\ nx2[j] = IF j = i THEN below ELSE nx[j]
       /\ pv2[j] = IF j = i THEN 0 ELSE IF j = below THEN i ELSE pv[j]

LEMMA ChainDrop ==
    ASSUME NEW n \in Nat, NEW at, NEW nx, NEW pv, NEW r, Chain(n, at, nx, pv, r),
           NEW i \in 1 .. n, NEW p, NEW below \in 0 .. n, NEW at2, NEW nx2, NEW pv2,
           OnTop(n, at, nx, pv, i, p, below, at2, nx2, pv2)
    PROVE  Chain(n, at2, nx2, pv2, Raised(n, r, i))
<1>. DEFINE r2 == Raised(n, r, i)
<1>f. /\ Alone(n, at, i, at[i]) /\ p # at[i]
      /\ below = 0 => \A j \in 1 .. n : at[j] # p
      /\ below # 0 => at[below] = p /\ pv[below] = 0
      /\ \A j \in 1 .. n :
           /\ at2[j] = IF j = i THEN p ELSE at[j]
           /\ nx2[j] = IF j = i THEN below ELSE nx[j]
           /\ pv2[j] = IF j = i THEN 0 ELSE IF j = below THEN i ELSE pv[j]
  BY DEF OnTop
<1>. USE <1>f
<1>0. /\ r2[i] = 0
      /\ \A j \in 1 .. n : j # i => r2[j] = r[j] + 1
  BY DEF Raised
<1>. HIDE DEF r2
<1>a. below # i /\ (below # 0 => below \in 1 .. n)
  OBVIOUS
<1>b. ASSUME NEW j \in 1 .. n, below # 0, at[j] = p
      PROVE  r[below] <= r[j]
  BY <1>b, <1>a DEF Chain
<1>c. nx[i] = 0 /\ pv[i] = 0 /\ (\A j \in 1 .. n : nx[j] # i /\ pv[j] # i)
  BY DEF Chain, Alone
<1>1. \A j \in 1 .. n : r2[j] \in Nat /\ nx2[j] \in 0 .. n /\ pv2[j] \in 0 .. n
  BY <1>0 DEF Chain
<1>2. \A j, k \in 1 .. n : j # k /\ at2[j] = at2[k] => r2[j] # r2[k]
  BY <1>0 DEF Chain
<1>3. ASSUME NEW j \in 1 .. n, nx2[j] # 0
      PROVE  /\ at2[nx2[j]] = at2[j] /\ r2[j] < r2[nx2[j]] /\ pv2[nx2[j]] = j
  <2>1. CASE j = i
    BY <1>3, <1>0, <1>a, <2>1 DEF Chain
  <2>2. CASE j # i
    BY <1>3, <1>0, <1>a, <1>c, <2>2 DEF Chain
  <2>. QED  BY <2>1, <2>2
<1>4. ASSUME NEW j \in 1 .. n, pv2[j] # 0
      PROVE  /\ at2[pv2[j]] = at2[j] /\ r2[pv2[j]] < r2[j] /\ nx2[pv2[j]] = j
  <2>1. CASE j = below
    BY <1>4, <1>0, <1>a, <2>1 DEF Chain
  <2>2. CASE j # below
    BY <1>4, <1>0, <1>a, <1>c, <2>2 DEF Chain
  <2>. QED  BY <2>1, <2>2
<1>5. ASSUME NEW j \in 1 .. n, NEW k \in 1 .. n, at2[j] = at2[k], r2[j] < r2[k]
      PROVE  /\ nx2[j] # 0 /\ r2[nx2[j]] <= r2[k]
             /\ pv2[k] # 0 /\ r2[j] <= r2[pv2[k]]
  <2>1. k # i /\ r[k] \in Nat /\ r[j] \in Nat /\ r2[k] = r[k] + 1
    BY <1>0, <1>5 DEF Chain
  <2>2. CASE j = i
    <3>1. at[k] = p /\ below # 0 /\ r[below] <= r[k] /\ r2[below] = r[below] + 1 /\ r[below] \in Nat
      BY <1>0, <1>5, <1>a, <1>b, <2>1, <2>2 DEF Chain
    <3>2. CASE k = below
      BY <1>0, <2>1, <2>2, <3>1, <3>2
    <3>3. CASE k # below
      <4>1. r[below] < r[k]
        <5>1. r[below] # r[k]
          BY <3>1, <3>3, <1>a DEF Chain
        <5>. QED  BY <3>1, <2>1, <5>1
      <4>2. pv[k] # 0 /\ pv[k] \in 1 .. n /\ pv[k] # i
        BY <3>1, <4>1, <1>a, <1>c DEF Chain
      <4>3. r2[pv[k]] \in Nat
        BY <4>2, <1>1
      <4>. QED  BY <1>0, <2>1, <2>2, <3>1, <3>3, <4>2, <4>3
    <3>. QED  BY <3>2, <3>3
  <2>3. CASE j # i
    <3>1. at[j] = at[k] /\ r[j] < r[k] /\ r2[j] = r[j] + 1
      BY <1>0, <1>5, <2>1, <2>3
    <3>2. nx[j] # 0 /\ r[nx[j]] <= r[k] /\ pv[k] # 0 /\ r[j] <= r[pv[k]] /\ nx[j] \in 1 .. n /\ pv[k] \in 1 .. n
      BY <3>1 DEF Chain
    <3>3. k # below
      BY <3>2, <1>a
    <3>4. nx[j] # i /\ pv[k] # i /\ r[nx[j]] \in Nat /\ r[pv[k]] \in Nat
      BY <1>c, <3>2 DEF Chain
    <3>. QED  BY <1>0, <2>1, <2>3, <3>1, <3>2, <3>3, <3>4
  <2>. QED  BY <2>2, <2>3
<1>. QED  BY <1>1, <1>2, <1>3, <1>4, <1>5 DEF Chain, r2

\* Row i ranked behind row last.
Lowered(n, r, i, last) == [j \in 1 .. n |-> IF j = i THEN r[last] + 1 ELSE r[j]]

\* A lone row put below the last one of a list leaves a list.
Below(n, at, nx, pv, i, last, at2, nx2, pv2) ==
  /\ Alone(n, at, i, at[i]) /\ at[last] # at[i] /\ nx[last] = 0
  /\ \A j \in 1 .. n :
       /\ at2[j] = IF j = i THEN at[last] ELSE at[j]
       /\ nx2[j] = IF j = last THEN i ELSE nx[j]
       /\ pv2[j] = IF j = i THEN last ELSE pv[j]

LEMMA ChainAppend ==
    ASSUME NEW n \in Nat, NEW at, NEW nx, NEW pv, NEW r, Chain(n, at, nx, pv, r),
           NEW i \in 1 .. n, NEW last \in 1 .. n, NEW at2, NEW nx2, NEW pv2,
           Below(n, at, nx, pv, i, last, at2, nx2, pv2)
    PROVE  Chain(n, at2, nx2, pv2, Lowered(n, r, i, last))
<1>. DEFINE r2 == Lowered(n, r, i, last)
<1>f. /\ Alone(n, at, i, at[i]) /\ at[last] # at[i] /\ nx[last] = 0
      /\ \A j \in 1 .. n :
           /\ at2[j] = IF j = i THEN at[last] ELSE at[j]
           /\ nx2[j] = IF j = last THEN i ELSE nx[j]
           /\ pv2[j] = IF j = i THEN last ELSE pv[j]
  BY DEF Below
<1>. USE <1>f
<1>0. /\ r2[i] = r[last] + 1
      /\ \A j \in 1 .. n : j # i => r2[j] = r[j]
  BY DEF Lowered
<1>. HIDE DEF r2
<1>a. last # i
  OBVIOUS
<1>b. ASSUME NEW j \in 1 .. n, at[j] = at[last]
      PROVE  r[j] <= r[last]
  BY <1>b DEF Chain
<1>c. nx[i] = 0 /\ pv[i] = 0 /\ (\A j \in 1 .. n : nx[j] # i /\ pv[j] # i /\ pv[j] # last)
  BY DEF Chain, Alone
<1>1. \A j \in 1 .. n : r2[j] \in Nat /\ nx2[j] \in 0 .. n /\ pv2[j] \in 0 .. n
  BY <1>0 DEF Chain
<1>2. ASSUME NEW j \in 1 .. n, NEW k \in 1 .. n, j # k, at2[j] = at2[k]
      PROVE  r2[j] # r2[k]
  BY <1>0, <1>2, <1>b DEF Chain
<1>3. ASSUME NEW j \in 1 .. n, nx2[j] # 0
      PROVE  /\ at2[nx2[j]] = at2[j] /\ r2[j] < r2[nx2[j]] /\ pv2[nx2[j]] = j
  <2>1. CASE j = last
    BY <1>3, <1>0, <1>a, <2>1 DEF Chain
  <2>2. CASE j # last
    BY <1>3, <1>0, <1>a, <1>c, <2>2 DEF Chain
  <2>. QED  BY <2>1, <2>2
<1>4. ASSUME NEW j \in 1 .. n, pv2[j] # 0
      PROVE  /\ at2[pv2[j]] = at2[j] /\ r2[pv2[j]] < r2[j] /\ nx2[pv2[j]] = j
  <2>1. CASE j = i
    BY <1>4, <1>0, <1>a, <2>1 DEF Chain
  <2>2. CASE j # i
    BY <1>4, <1>0, <1>a, <1>c, <2>2 DEF Chain
  <2>. QED  BY <2>1, <2>2
<1>5. ASSUME NEW j \in 1 .. n, NEW k \in 1 .. n, at2[j] = at2[k], r2[j] < r2[k]
      PROVE  /\ nx2[j] # 0 /\ r2[nx2[j]] <= r2[k]
             /\ pv2[k] # 0 /\ r2[j] <= r2[pv2[k]]
  <2>1. r[k] \in Nat /\ r[j] \in Nat /\ r[last] \in Nat
    BY DEF Chain
  <2>2. j # i
    <3>1. ASSUME j = i PROVE FALSE
      <4>1. k # i /\ at[k] = at[last]
        BY <1>5, <2>1, <3>1, <1>0
      <4>. QED  BY <1>5, <2>1, <3>1, <4>1, <1>0, <1>b
    <3>. QED  BY <3>1
  <2>3. CASE k = i
    <3>1. at[j] = at[last] /\ r2[j] = r[j]
      BY <1>0, <1>5, <2>2, <2>3
    <3>2. CASE j = last
      BY <1>0, <2>1, <2>2, <2>3, <3>1, <3>2
    <3>3. CASE j # last
      <4>1. r[j] < r[last]
        BY <3>1, <3>3, <1>b, <2>1 DEF Chain
      <4>2. nx[j] # 0 /\ nx[j] \in 1 .. n /\ nx[j] # i /\ r[nx[j]] <= r[last]
        BY <3>1, <4>1, <1>c DEF Chain
      <4>3. r2[nx[j]] = r[nx[j]] /\ r[nx[j]] \in Nat
        BY <4>2, <1>0 DEF Chain
      <4>. QED  BY <1>0, <2>1, <2>3, <3>1, <3>3, <4>1, <4>2, <4>3
    <3>. QED  BY <3>2, <3>3
  <2>4. CASE k # i
    <3>1. at[j] = at[k] /\ r[j] < r[k] /\ r2[j] = r[j] /\ r2[k] = r[k]
      BY <1>0, <1>5, <2>2, <2>4
    <3>2. nx[j] # 0 /\ r[nx[j]] <= r[k] /\ pv[k] # 0 /\ r[j] <= r[pv[k]] /\ nx[j] \in 1 .. n /\ pv[k] \in 1 .. n
      BY <3>1 DEF Chain
    <3>3. j # last
      BY <3>2
    <3>4. nx[j] # i /\ pv[k] # i /\ r[nx[j]] \in Nat /\ r[pv[k]] \in Nat
      BY <1>c, <3>2 DEF Chain
    <3>. QED  BY <1>0, <2>1, <2>2, <2>4, <3>1, <3>2, <3>3, <3>4
  <2>. QED  BY <2>3, <2>4
<1>. QED  BY <1>1, <1>2, <1>3, <1>4, <1>5 DEF Chain, r2

\* A row that joins the array alone leaves a list.
Joined(n, at, nx, pv, p, at2, nx2, pv2) ==
  /\ at2[n + 1] = p /\ nx2[n + 1] = 0 /\ pv2[n + 1] = 0
  /\ \A j \in 1 .. n : at[j] # p
  /\ \A j \in 1 .. n : at2[j] = at[j] /\ nx2[j] = nx[j] /\ pv2[j] = pv[j]

Lone(n, r) == [j \in 1 .. n + 1 |-> IF j = n + 1 THEN 0 ELSE r[j]]

LEMMA ChainNew ==
    ASSUME NEW n \in Nat, NEW at, NEW nx, NEW pv, NEW r, Chain(n, at, nx, pv, r),
           NEW at2, NEW nx2, NEW pv2, NEW p, Joined(n, at, nx, pv, p, at2, nx2, pv2)
    PROVE  Chain(n + 1, at2, nx2, pv2, Lone(n, r))
<1>. DEFINE r2 == Lone(n, r)
<1>f. /\ at2[n + 1] = p /\ nx2[n + 1] = 0 /\ pv2[n + 1] = 0
      /\ \A j \in 1 .. n : at[j] # p
      /\ \A j \in 1 .. n : at2[j] = at[j] /\ nx2[j] = nx[j] /\ pv2[j] = pv[j]
  BY DEF Joined
<1>. USE <1>f
<1>0. /\ r2[n + 1] = 0
      /\ \A j \in 1 .. n : r2[j] = r[j]
  BY DEF Lone
<1>a. \A j \in 1 .. n + 1 : j = n + 1 \/ j \in 1 .. n
  OBVIOUS
<1>. HIDE DEF r2
<1>1. \A j \in 1 .. n + 1 : r2[j] \in Nat /\ nx2[j] \in 0 .. n + 1 /\ pv2[j] \in 0 .. n + 1
  BY <1>0, <1>a DEF Chain
<1>2. \A j, k \in 1 .. n + 1 : j # k /\ at2[j] = at2[k] => r2[j] # r2[k]
  BY <1>0, <1>a DEF Chain
<1>3. ASSUME NEW j \in 1 .. n + 1, nx2[j] # 0
      PROVE  /\ at2[nx2[j]] = at2[j] /\ r2[j] < r2[nx2[j]] /\ pv2[nx2[j]] = j
  BY <1>3, <1>0, <1>a DEF Chain
<1>4. ASSUME NEW j \in 1 .. n + 1, pv2[j] # 0
      PROVE  /\ at2[pv2[j]] = at2[j] /\ r2[pv2[j]] < r2[j] /\ nx2[pv2[j]] = j
  BY <1>4, <1>0, <1>a DEF Chain
<1>5. ASSUME NEW j \in 1 .. n + 1, NEW k \in 1 .. n + 1, at2[j] = at2[k], r2[j] < r2[k]
      PROVE  /\ nx2[j] # 0 /\ r2[nx2[j]] <= r2[k]
             /\ pv2[k] # 0 /\ r2[j] <= r2[pv2[k]]
  BY <1>5, <1>0, <1>a DEF Chain
<1>6. Chain(n + 1, at2, nx2, pv2, r2)
  BY <1>1, <1>2, <1>3, <1>4, <1>5 DEF Chain
<1>. QED  BY <1>6 DEF r2

\* The row that is behind the dead one, j, once it has moved up.
Ahead(j, dead) == IF j < dead THEN j ELSE j + 1

LEMMA AheadBehind ==
    ASSUME NEW n \in Nat, NEW dead \in 1 .. n
    PROVE  /\ \A j \in 1 .. n - 1 : /\ Ahead(j, dead) \in 1 .. n /\ Ahead(j, dead) # dead
                                    /\ Behind(Ahead(j, dead), dead) = j
           /\ \A j \in 1 .. n : j # dead => /\ Behind(j, dead) \in 1 .. n - 1
                                            /\ Ahead(Behind(j, dead), dead) = j
           /\ \A j, k \in 1 .. n - 1 : Ahead(j, dead) = Ahead(k, dead) => j = k
           /\ Behind(0, dead) = 0
BY DEF Ahead, Behind

\* A lone row that leaves the array leaves a list of the others, whose links follow them.
Closed(n, at, nx, pv, i, at2, nx2, pv2) ==
  /\ Alone(n, at, i, at[i])
  /\ \A j \in 1 .. n - 1 :
       /\ at2[j] = at[Ahead(j, i)]
       /\ nx2[j] = Behind(nx[Ahead(j, i)], i)
       /\ pv2[j] = Behind(pv[Ahead(j, i)], i)

LEMMA ChainRemove ==
    ASSUME NEW n \in Nat, NEW at, NEW nx, NEW pv, NEW r, Chain(n, at, nx, pv, r),
           NEW i \in 1 .. n, NEW at2, NEW nx2, NEW pv2, Closed(n, at, nx, pv, i, at2, nx2, pv2)
    PROVE  Chain(n - 1, at2, nx2, pv2, [j \in 1 .. n - 1 |-> r[Ahead(j, i)]])
<1>. DEFINE r2 == [j \in 1 .. n - 1 |-> r[Ahead(j, i)]]
<1>f. /\ Alone(n, at, i, at[i])
      /\ \A j \in 1 .. n - 1 :
           /\ at2[j] = at[Ahead(j, i)]
           /\ nx2[j] = Behind(nx[Ahead(j, i)], i)
           /\ pv2[j] = Behind(pv[Ahead(j, i)], i)
  BY DEF Closed
<1>. USE <1>f
<1>0. \A j \in 1 .. n - 1 : r2[j] = r[Ahead(j, i)]
  OBVIOUS
<1>. HIDE DEF r2
<1>a. /\ \A j \in 1 .. n - 1 : /\ Ahead(j, i) \in 1 .. n /\ Ahead(j, i) # i
                               /\ Behind(Ahead(j, i), i) = j
      /\ \A j \in 1 .. n : j # i => /\ Behind(j, i) \in 1 .. n - 1
                                    /\ Ahead(Behind(j, i), i) = j
      /\ \A j, k \in 1 .. n - 1 : Ahead(j, i) = Ahead(k, i) => j = k
      /\ Behind(0, i) = 0
  BY AheadBehind
<1>c. \A j \in 1 .. n : nx[j] # i /\ pv[j] # i
  BY DEF Chain, Alone
<1>1. \A j \in 1 .. n - 1 : r2[j] \in Nat /\ nx2[j] \in 0 .. n - 1 /\ pv2[j] \in 0 .. n - 1
  <2>. TAKE j \in 1 .. n - 1
  <2>. DEFINE a == Ahead(j, i)
  <2>1. r[a] \in Nat /\ nx[a] \in 0 .. n /\ pv[a] \in 0 .. n /\ nx[a] # i /\ pv[a] # i
    BY <1>a, <1>c DEF Chain
  <2>2. \A m \in 0 .. n : m # i => Behind(m, i) \in 0 .. n - 1
    BY <1>a
  <2>. HIDE DEF a
  <2>. QED  BY <1>0, <2>1, <2>2 DEF a
<1>2. ASSUME NEW j \in 1 .. n - 1, NEW k \in 1 .. n - 1, j # k, at2[j] = at2[k]
      PROVE  r2[j] # r2[k]
  BY <1>0, <1>2, <1>a DEF Chain
<1>3. ASSUME NEW j \in 1 .. n - 1, nx2[j] # 0
      PROVE  /\ at2[nx2[j]] = at2[j] /\ r2[j] < r2[nx2[j]] /\ pv2[nx2[j]] = j
  <2>. DEFINE a == Ahead(j, i)
              b == nx[a]
  <2>1. a \in 1 .. n /\ b # 0 /\ b \in 1 .. n /\ b # i /\ at[b] = at[a] /\ r[a] < r[b] /\ pv[b] = a
    BY <1>3, <1>a, <1>c DEF Chain
  <2>2. nx2[j] = Behind(b, i) /\ nx2[j] \in 1 .. n - 1 /\ Ahead(nx2[j], i) = b
    BY <2>1, <1>a
  <2>3. Behind(a, i) = j
    BY <1>a
  <2>. HIDE DEF a, b
  <2>. QED  BY <1>0, <2>1, <2>2, <2>3 DEF a
<1>4. ASSUME NEW j \in 1 .. n - 1, pv2[j] # 0
      PROVE  /\ at2[pv2[j]] = at2[j] /\ r2[pv2[j]] < r2[j] /\ nx2[pv2[j]] = j
  <2>. DEFINE a == Ahead(j, i)
              b == pv[a]
  <2>1. a \in 1 .. n /\ b # 0 /\ b \in 1 .. n /\ b # i /\ at[b] = at[a] /\ r[b] < r[a] /\ nx[b] = a
    BY <1>4, <1>a, <1>c DEF Chain
  <2>2. pv2[j] = Behind(b, i) /\ pv2[j] \in 1 .. n - 1 /\ Ahead(pv2[j], i) = b
    BY <2>1, <1>a
  <2>3. Behind(a, i) = j
    BY <1>a
  <2>. HIDE DEF a, b
  <2>. QED  BY <1>0, <2>1, <2>2, <2>3 DEF a
<1>5. ASSUME NEW j \in 1 .. n - 1, NEW k \in 1 .. n - 1, at2[j] = at2[k], r2[j] < r2[k]
      PROVE  /\ nx2[j] # 0 /\ r2[nx2[j]] <= r2[k]
             /\ pv2[k] # 0 /\ r2[j] <= r2[pv2[k]]
  <2>. DEFINE a == Ahead(j, i)
              b == Ahead(k, i)
  <2>1. a \in 1 .. n /\ b \in 1 .. n /\ at[a] = at[b] /\ r[a] < r[b]
    BY <1>0, <1>5, <1>a
  <2>2. /\ nx[a] # 0 /\ nx[a] \in 1 .. n /\ nx[a] # i /\ r[nx[a]] <= r[b]
        /\ pv[b] # 0 /\ pv[b] \in 1 .. n /\ pv[b] # i /\ r[a] <= r[pv[b]]
    BY <2>1, <1>c DEF Chain
  <2>3. /\ nx2[j] = Behind(nx[a], i) /\ nx2[j] \in 1 .. n - 1 /\ Ahead(nx2[j], i) = nx[a]
        /\ pv2[k] = Behind(pv[b], i) /\ pv2[k] \in 1 .. n - 1 /\ Ahead(pv2[k], i) = pv[b]
    BY <2>2, <1>a
  <2>. HIDE DEF a, b
  <2>. QED  BY <1>0, <2>2, <2>3 DEF a, b
<1>. QED  BY <1>1, <1>2, <1>3, <1>4, <1>5 DEF Chain, r2

-----------------------------------------------------------------------------
(* Following links.                                                        *)

LEMMA FunctionIsSeq ==
    ASSUME NEW n \in Nat, NEW S, NEW f \in [1 .. n -> S]
    PROVE  f \in Seq(S) /\ Len(f) = n /\ DOMAIN f = 1 .. n
OBVIOUS

LEMMA SeqIsFunction ==
    ASSUME NEW S, NEW f \in Seq(S)
    PROVE  Len(f) \in Nat /\ f \in [1 .. Len(f) -> S]
OBVIOUS

LEMMA ConsIs ==
    ASSUME NEW S, NEW j \in S, NEW q \in Seq(S), NEW c, c = << j >> \o q
    PROVE  /\ c \in Seq(S) /\ Len(c) = Len(q) + 1
           /\ c[1] = j
           /\ \A a \in 1 .. Len(q) : c[a + 1] = q[a]
OBVIOUS

LEMMA ConsIn ==
    ASSUME NEW S, NEW j \in S, NEW q \in Seq(S)
    PROVE  << j >> \o q \in Seq(S)
OBVIOUS

\* The first k rows met from row j on, down a link along which the ranks grow.
Trail(n, link, r, k, j, p) ==
  /\ p \in Seq(1 .. n)
  /\ j = 0 \/ k = 0 => Len(p) = 0
  /\ j # 0 /\ k # 0 => Len(p) >= 1 /\ p[1] = j
  /\ Len(p) <= k
  /\ \A a \in 1 .. Len(p) - 1 : p[a + 1] = link[p[a]]
  /\ \A a, b \in 1 .. Len(p) : a < b => r[p[a]] < r[p[b]]
  /\ Len(p) = k \/ j = 0 \/ link[p[Len(p)]] = 0

LEMMA TrailGrows ==
    ASSUME NEW n \in Nat, NEW link \in [1 .. n -> 0 .. n], NEW r,
           \A m \in 1 .. n : r[m] \in Int /\ (link[m] # 0 => r[m] < r[link[m]]),
           NEW k \in Nat \ {0}, NEW j \in 1 .. n, NEW q, Trail(n, link, r, k - 1, link[j], q)
    PROVE  Trail(n, link, r, k, j, << j >> \o q)
<1>. DEFINE c == << j >> \o q
            l == Len(q)
<1>0. q \in Seq(1 .. n) /\ l <= k - 1
  BY DEF Trail
<1>t. l \in Nat /\ l <= k - 1 /\ \A a \in 1 .. l : q[a] \in 1 .. n
  <2>1. l \in Nat /\ q \in [1 .. l -> 1 .. n]
    BY <1>0, SeqIsFunction
  <2>. HIDE DEF l
  <2>. QED  BY <1>0, <2>1
<1>r. \A a \in 1 .. l : r[q[a]] \in Int
  BY <1>t
<1>1. /\ link[j] = 0 \/ k - 1 = 0 => l = 0
      /\ link[j] # 0 /\ k - 1 # 0 => l >= 1 /\ q[1] = link[j]
      /\ \A a \in 1 .. l - 1 : q[a + 1] = link[q[a]]
      /\ \A a, b \in 1 .. l : a < b => r[q[a]] < r[q[b]]
      /\ l = k - 1 \/ link[j] = 0 \/ link[q[l]] = 0
  BY DEF Trail
<1>2. /\ c \in Seq(1 .. n) /\ Len(c) = l + 1
      /\ c[1] = j
      /\ \A a \in 1 .. l : c[a + 1] = q[a]
  BY <1>0, ConsIs
<1>. HIDE DEF c, l
<1>2a. c[1] = j /\ \A a \in 1 .. l : c[a + 1] = q[a]
  BY <1>2
<1>3. ASSUME NEW a \in 1 .. l + 1, a # 1
      PROVE  a - 1 \in 1 .. l /\ c[a] = q[a - 1]
  <2>1. a - 1 \in 1 .. l /\ (a - 1) + 1 = a
    BY <1>t, <1>3
  <2>2. c[(a - 1) + 1] = q[a - 1]
    BY <1>2a, <2>1
  <2>. QED  BY <2>1, <2>2
<1>4. l # 0 => link[j] # 0 /\ k - 1 # 0 /\ q[1] = link[j]
  BY <1>1
<1>5. ASSUME NEW a \in 1 .. l
      PROVE  c[a + 1] = link[c[a]]
  <2>1. CASE a = 1
    <3>1. l # 0 /\ 1 \in 1 .. l
      BY <1>t, <2>1
    <3>. QED  BY <1>2a, <1>4, <2>1, <3>1
  <2>2. CASE a # 1
    <3>1. a - 1 \in 1 .. l - 1 /\ a \in 1 .. l + 1 /\ (a - 1) + 1 = a
      BY <1>t, <2>2
    <3>2. q[(a - 1) + 1] = link[q[a - 1]]
      BY <1>1, <3>1
    <3>3. c[a] = q[a - 1] /\ c[a + 1] = q[a]
      BY <1>2a, <1>3, <2>2, <3>1
    <3>. QED  BY <3>1, <3>2, <3>3
  <2>. QED  BY <2>1, <2>2
<1>6. ASSUME NEW a \in 1 .. l + 1, NEW b \in 1 .. l + 1, a < b
      PROVE  r[c[a]] < r[c[b]]
  <2>1. b # 1
    BY <1>t, <1>6
  <2>2. b - 1 \in 1 .. l /\ c[b] = q[b - 1] /\ r[q[b - 1]] \in Int
    BY <1>3, <1>r, <2>1
  <2>3. CASE a = 1
    <3>1. l # 0 /\ 1 \in 1 .. l
      BY <1>t, <2>2
    <3>2. q[1] = link[j] /\ r[j] < r[q[1]] /\ r[j] \in Int /\ r[q[1]] \in Int
      BY <1>4, <1>r, <3>1
    <3>3. r[q[1]] <= r[q[b - 1]]
      <4>1. CASE b - 1 = 1
        BY <3>2, <4>1
      <4>2. CASE b - 1 # 1
        <5>1. 1 < b - 1
          BY <1>t, <2>2, <4>2
        <5>2. r[q[1]] < r[q[b - 1]]
          BY <1>1, <2>2, <3>1, <5>1
        <5>. QED  BY <2>2, <3>2, <5>2
      <4>. QED  BY <4>1, <4>2
    <3>. QED  BY <1>2a, <2>2, <2>3, <3>2, <3>3
  <2>4. CASE a # 1
    <3>1. a - 1 \in 1 .. l /\ c[a] = q[a - 1]
      BY <1>3, <2>4
    <3>2. a - 1 < b - 1
      BY <1>6
    <3>3. r[q[a - 1]] < r[q[b - 1]]
      BY <1>1, <2>2, <3>1, <3>2
    <3>. QED  BY <2>2, <3>1, <3>3
  <2>. QED  BY <2>3, <2>4
<1>7. l + 1 = k \/ link[c[l + 1]] = 0
  <2>1. CASE l = 0
    BY <1>1, <1>2a, <2>1
  <2>2. CASE l # 0
    <3>1. l \in 1 .. l /\ link[j] # 0
      BY <1>t, <1>4, <2>2
    <3>2. c[l + 1] = q[l]
      BY <1>2a, <3>1
    <3>3. l = k - 1 \/ link[q[l]] = 0
      BY <1>1, <3>1
    <3>. QED  BY <3>2, <3>3
  <2>. QED  BY <2>1, <2>2
<1>8. Len(c) = l + 1 /\ l + 1 >= 1 /\ l + 1 <= k /\ j # 0 /\ (l + 1) - 1 = l
  BY <1>2, <1>t
<1>9. \A a \in 1 .. Len(c) - 1 : c[a + 1] = link[c[a]]
  BY <1>5, <1>8
<1>10. \A a, b \in 1 .. Len(c) : a < b => r[c[a]] < r[c[b]]
  BY <1>6, <1>8
<1>11. Len(c) = k \/ link[c[Len(c)]] = 0
  BY <1>7, <1>8
<1>12. Len(c) >= 1 /\ Len(c) <= k /\ c[1] = j /\ c \in Seq(1 .. n)
  BY <1>2, <1>8
<1>13. Trail(n, link, r, k, j, c)
  BY <1>9, <1>10, <1>11, <1>12, <1>8 DEF Trail
<1>. QED  BY <1>13 DEF c

\* The rows met in at most k steps, of every row.
Walk(n, link, k, x) == [j \in 0 .. n |-> IF j = 0 \/ k = 0 THEN << >> ELSE << j >> \o x[link[j]]]
Walks(n, link, h) == h = [k \in 0 .. n |-> Walk(n, link, k, h[k - 1])]

LEMMA WalkStays ==
    ASSUME NEW n \in Nat, NEW link \in [1 .. n -> 0 .. n], NEW k,
           NEW x \in [0 .. n -> Seq(1 .. n)]
    PROVE  Walk(n, link, k, x) \in [0 .. n -> Seq(1 .. n)]
<1>1. ASSUME NEW j \in 0 .. n
      PROVE  (IF j = 0 \/ k = 0 THEN << >> ELSE << j >> \o x[link[j]]) \in Seq(1 .. n)
  <2>1. CASE j = 0
    BY <2>1
  <2>2. CASE j # 0
    <3>. DEFINE y == x[link[j]]
    <3>1. j \in 1 .. n /\ link[j] \in 0 .. n
      BY <2>2
    <3>2. y \in Seq(1 .. n)
      BY <3>1
    <3>. HIDE DEF y
    <3>3. << j >> \o y \in Seq(1 .. n)
      BY <3>1, <3>2, ConsIn
    <3>4. << >> \in Seq(1 .. n)
      OBVIOUS
    <3>. QED  BY <2>2, <3>3, <3>4 DEF y
  <2>. QED  BY <2>1, <2>2
<1>. QED  BY <1>1 DEF Walk

LEMMA WalksExist ==
    ASSUME NEW n \in Nat, NEW link \in [1 .. n -> 0 .. n]
    PROVE  \E h : Walks(n, link, h)
<1>. DEFINE S == [0 .. n -> Seq(1 .. n)]
            s == [j \in 0 .. n |-> << >>]
            G == [k \in 1 .. n |-> [x \in S |-> Walk(n, link, k, x)]]
<1>1. s \in S
  OBVIOUS
<1>2. ASSUME NEW k \in 1 .. n, NEW x \in S
      PROVE  Walk(n, link, k, x) \in S
  <2>. HIDE DEF G
  <2>. QED  BY WalkStays
<1>3. \A k \in 1 .. n : \A x \in S : G[k][x] = Walk(n, link, k, x)
  OBVIOUS
<1>. HIDE DEF G, S, s
<1>4. \A k \in 1 .. n : \A x \in S : G[k][x] \in S
  BY <1>2, <1>3
<1>5. PICK h : Loop(h, n, S, s, G)
  BY <1>1, <1>4, LoopExists
<1>6. \A k \in 0 .. n : h[k] = Walk(n, link, k, h[k - 1])
  <2>. TAKE k \in 0 .. n
  <2>1. CASE k = 0
    <3>1. h[0] = s
      BY <1>5 DEF Loop
    <3>2. Walk(n, link, 0, h[k - 1]) = s
      BY DEF Walk, s
    <3>. QED  BY <2>1, <3>1, <3>2
  <2>2. CASE k # 0
    <3>1. k \in 1 .. n /\ k - 1 \in 0 .. n
      BY <2>2
    <3>2. h[k - 1] \in S /\ h[k] = G[k][h[k - 1]]
      BY <1>5, <3>1 DEF Loop
    <3>. QED  BY <1>3, <3>1, <3>2
  <2>. QED  BY <2>1, <2>2
<1>7. h = [k \in 0 .. n |-> h[k]]
  BY <1>5 DEF Loop
<1>. QED  BY <1>6, <1>7 DEF Walks

LEMMA PathIs ==
    ASSUME NEW n \in Nat, NEW link \in [1 .. n -> 0 .. n], NEW i \in 0 .. n
    PROVE  \E h : Walks(n, link, h) /\ Path(link, i) = h[n][i]
<1>. DEFINE h == CHOOSE g : Walks(n, link, g)
<1>1. Walks(n, link, h)
  BY WalksExist
<1>2. Len(link) = n
  BY FunctionIsSeq
<1>3. Path(link, i) = h[n][i]
  BY <1>2 DEF Path, Walks, Walk
<1>. QED  BY <1>1, <1>3

\* What Path returns, of a link along which the ranks grow.
IsPath(n, link, r, i, p) ==
  /\ p \in Seq(1 .. n) /\ Len(p) \in 1 .. n
  /\ p[1] = i
  /\ \A a \in 1 .. Len(p) - 1 : p[a + 1] = link[p[a]]
  /\ link[p[Len(p)]] = 0
  /\ \A a, b \in 1 .. Len(p) : a < b => r[p[a]] < r[p[b]]

\* It ends: a link along which the ranks grow cannot be followed n times from a row of n.
LEMMA PathEnds ==
    ASSUME NEW n \in Nat, NEW link \in [1 .. n -> 0 .. n], NEW r,
           \A m \in 1 .. n : r[m] \in Int /\ (link[m] # 0 => r[m] < r[link[m]]),
           NEW i \in 1 .. n
    PROVE  IsPath(n, link, r, i, Path(link, i))
<1>1. PICK h : Walks(n, link, h) /\ Path(link, i) = h[n][i]
  BY PathIs
<1>. DEFINE R == {k \in 0 .. n : \A j \in 0 .. n : Trail(n, link, r, k, j, h[k][j])}
<1>2. ASSUME NEW k \in 0 .. n, NEW j \in 0 .. n
      PROVE  h[k][j] = IF j = 0 \/ k = 0 THEN << >> ELSE << j >> \o h[k - 1][link[j]]
  <2>1. h[k] = Walk(n, link, k, h[k - 1])
    BY <1>1 DEF Walks
  <2>. QED  BY <2>1 DEF Walk
<1>3. ASSUME NEW k \in Nat, NEW j \in 0 .. n, j = 0 \/ k = 0
      PROVE  Trail(n, link, r, k, j, << >>)
  BY <1>3 DEF Trail
<1>4. 0 \in R
  <2>2. 0 \in Nat /\ 0 \in 0 .. n
    OBVIOUS
  <2>1. ASSUME NEW j \in 0 .. n
        PROVE  h[0][j] = << >>
    <3>1. h[0][j] = IF j = 0 \/ 0 = 0 THEN << >> ELSE << j >> \o h[0 - 1][link[j]]
      BY <1>2, <2>2
    <3>. QED  BY <3>1
  <2>3. \A j \in 0 .. n : Trail(n, link, r, 0, j, << >>)
    BY <1>3, <2>2
  <2>4. \A j \in 0 .. n : Trail(n, link, r, 0, j, h[0][j])
    BY <2>1, <2>3
  <2>. QED  BY <2>2, <2>4
<1>5. ASSUME NEW k \in 1 .. n, k - 1 \in R
      PROVE  k \in R
  <2>1. k \in 0 .. n /\ k \in Nat \ {0} /\ \A j \in 0 .. n : Trail(n, link, r, k - 1, j, h[k - 1][j])
    BY <1>5
  <2>2. ASSUME NEW j \in 0 .. n
        PROVE  Trail(n, link, r, k, j, h[k][j])
    <3>1. CASE j = 0
      BY <1>2, <1>3, <2>1, <3>1
    <3>2. CASE j # 0
      <4>1. j \in 1 .. n /\ link[j] \in 0 .. n
        BY <3>2
      <4>2. Trail(n, link, r, k - 1, link[j], h[k - 1][link[j]])
        BY <2>1, <4>1
      <4>3. Trail(n, link, r, k, j, << j >> \o h[k - 1][link[j]])
        BY <2>1, <4>1, <4>2, TrailGrows
      <4>. QED  BY <1>2, <2>1, <3>2, <4>3
    <3>. QED  BY <3>1, <3>2
  <2>. QED  BY <2>1, <2>2
<1>6. n \in R
  <2>. HIDE DEF R
  <2>1. \A k \in 0 .. n : k \in R
    BY <1>4, <1>5, UpTo
  <2>. QED  BY <2>1
<1>. DEFINE p == h[n][i]
<1>7. Trail(n, link, r, n, i, p)
  BY <1>6
<1>. HIDE DEF p, R
<1>. DEFINE l == Len(p)
<1>p. p \in Seq(1 .. n)
  BY <1>7 DEF Trail
<1>t. l \in 1 .. n /\ \A a \in 1 .. l : p[a] \in 1 .. n
  <2>1. l \in Nat /\ \A a \in 1 .. l : p[a] \in 1 .. n
    BY <1>p
  <2>2. i # 0 /\ n # 0 /\ n \in Nat
    OBVIOUS
  <2>3. l >= 1 /\ l <= n
    BY <1>7, <2>2 DEF Trail
  <2>. QED  BY <2>1, <2>3
<1>8. /\ p[1] = i
      /\ \A a \in 1 .. l - 1 : p[a + 1] = link[p[a]]
      /\ \A a, b \in 1 .. l : a < b => r[p[a]] < r[p[b]]
      /\ l = n \/ link[p[l]] = 0
  BY <1>7 DEF Trail
<1>. HIDE DEF l
<1>9. ASSUME link[p[l]] # 0
      PROVE  FALSE
  <2>. DEFINE y == link[p[n]]
              q == [a \in 1 .. n + 1 |-> IF a = n + 1 THEN y ELSE p[a]]
  <2>1. l = n /\ n \in 1 .. n /\ p[n] \in 1 .. n
    BY <1>t, <1>8, <1>9
  <2>1a. y \in 1 .. n /\ r[p[n]] < r[y] /\ r[y] \in Int
    BY <2>1, <1>9
  <2>1b. \A a \in 1 .. n : p[a] \in 1 .. n /\ r[p[a]] \in Int
    BY <1>t, <2>1
  <2>. HIDE DEF y
  <2>1c. \A a \in 1 .. n + 1 : a = n + 1 \/ a \in 1 .. n
    OBVIOUS
  <2>2. q \in [1 .. n + 1 -> 1 .. n]
    BY <2>1a, <2>1b, <2>1c
  <2>3. \A a \in 1 .. n + 1 : q[a] = IF a = n + 1 THEN y ELSE p[a]
    OBVIOUS
  <2>. HIDE DEF q
  <2>4. ASSUME NEW a \in 1 .. n + 1, NEW b \in 1 .. n + 1, a < b
        PROVE  q[a] # q[b]
    <3>1. a # n + 1 /\ a \in 1 .. n
      BY <2>4
    <3>1a. q[a] = p[a] /\ p[a] \in 1 .. n /\ r[p[a]] \in Int /\ r[p[n]] \in Int
      BY <2>1, <2>1b, <2>3, <3>1
    <3>2. CASE b = n + 1
      <4>1. q[b] = y
        BY <2>3, <3>2
      <4>2. r[p[a]] <= r[p[n]]
        <5>1. CASE a = n
          BY <3>1a, <5>1
        <5>2. CASE a # n
          <6>1. a < n
            BY <3>1, <5>2
          <6>2. r[p[a]] < r[p[n]]
            BY <1>8, <2>1, <3>1, <6>1
          <6>. QED  BY <3>1a, <6>2
        <5>. QED  BY <5>1, <5>2
      <4>. QED  BY <2>1a, <3>1a, <4>1, <4>2
    <3>3. CASE b # n + 1
      <4>1. b \in 1 .. n
        BY <3>3
      <4>1a. q[b] = p[b] /\ r[p[b]] \in Int
        BY <2>1b, <2>3, <3>3, <4>1
      <4>2. r[p[a]] < r[p[b]]
        BY <1>8, <2>1, <2>4, <3>1, <4>1
      <4>. QED  BY <3>1a, <4>1a, <4>2
    <3>. QED  BY <3>2, <3>3
  <2>5. /\ IsFiniteSet(1 .. n + 1) /\ Cardinality(1 .. n + 1) = n + 1
        /\ IsFiniteSet(1 .. n) /\ Cardinality(1 .. n) = n
    <3>1. Cardinality(1 .. n + 1) = IF 1 > n + 1 THEN 0 ELSE (n + 1) - 1 + 1
      BY FS_Interval
    <3>2. Cardinality(1 .. n) = IF 1 > n THEN 0 ELSE n - 1 + 1
      BY FS_Interval
    <3>. QED  BY <3>1, <3>2, FS_Interval
  <2>6. Cardinality(1 .. n) < Cardinality(1 .. n + 1)
    BY <2>5
  <2>7. \E a, b \in 1 .. n + 1 : a # b /\ q[a] = q[b]
    BY <2>2, <2>5, <2>6, FS_PigeonHole
  <2>8. PICK a \in 1 .. n + 1, b \in 1 .. n + 1 : a # b /\ q[a] = q[b]
    BY <2>7
  <2>9. a < b \/ b < a
    BY <2>8
  <2>. QED  BY <2>4, <2>8, <2>9
<1>. QED  BY <1>1, <1>p, <1>t, <1>8, <1>9 DEF IsPath, p, l

LEMMA NoPath ==
    ASSUME NEW n \in Nat, NEW link \in [1 .. n -> 0 .. n]
    PROVE  Path(link, 0) = << >>
<1>1. PICK h : Walks(n, link, h) /\ Path(link, 0) = h[n][0]
  <2>1. 0 \in 0 .. n
    OBVIOUS
  <2>. QED  BY <2>1, PathIs
<1>2. h[n] = Walk(n, link, n, h[n - 1])
  <2>1. n \in 0 .. n
    OBVIOUS
  <2>. QED  BY <1>1, <2>1 DEF Walks
<1>. QED  BY <1>1, <1>2 DEF Walk

\* A link that stays in the place of the row, and leads to the next rank there.
Stays(n, link, at) == \A m \in 1 .. n : link[m] # 0 => at[link[m]] = at[m]
Leads(n, link, at, r) ==
  /\ \A m \in 1 .. n : r[m] \in Int
  /\ \A j, k \in 1 .. n : j # k /\ at[j] = at[k] => r[j] # r[k]
  /\ \A j, k \in 1 .. n : at[j] = at[k] /\ r[j] < r[k] => link[j] # 0 /\ r[link[j]] <= r[k]

\* The rows of a path are all in one place when the link stays in it,
LEMMA PathStays ==
    ASSUME NEW n \in Nat, NEW link, NEW r, NEW i \in 1 .. n, NEW p, IsPath(n, link, r, i, p),
           NEW at, Stays(n, link, at)
    PROVE  \A a \in 1 .. Len(p) : p[a] \in 1 .. n /\ at[p[a]] = at[i]
<1>. DEFINE l == Len(p)
            R == {a \in 0 .. l - 1 : at[p[a + 1]] = at[i]}
<1>0. p \in Seq(1 .. n)
  BY DEF IsPath
<1>1. l \in 1 .. n /\ \A a \in 1 .. l : p[a] \in 1 .. n
  BY <1>0 DEF IsPath
<1>2. p[1] = i /\ \A a \in 1 .. l - 1 : p[a + 1] = link[p[a]]
  BY DEF IsPath
<1>. HIDE DEF l
<1>3. 0 \in R
  BY <1>1, <1>2
<1>4. ASSUME NEW a \in 1 .. l - 1, a - 1 \in R
      PROVE  a \in R
  <2>1. at[p[a]] = at[i] /\ a \in 0 .. l - 1 /\ a \in 1 .. l /\ a + 1 \in 1 .. l
    BY <1>1, <1>4
  <2>2. p[a + 1] = link[p[a]] /\ p[a] \in 1 .. n /\ p[a + 1] \in 1 .. n
    BY <1>1, <1>2, <2>1
  <2>. QED  BY <2>1, <2>2 DEF Stays
<1>5. \A a \in 0 .. l - 1 : a \in R
  <2>1. l - 1 \in Nat
    BY <1>1
  <2>. HIDE DEF R
  <2>. QED  BY <1>3, <1>4, <2>1, UpTo
<1>6. ASSUME NEW a \in 1 .. l
      PROVE  p[a] \in 1 .. n /\ at[p[a]] = at[i]
  <2>1. a - 1 \in 0 .. l - 1 /\ (a - 1) + 1 = a
    BY <1>1
  <2>. QED  BY <1>1, <1>5, <2>1
<1>. QED  BY <1>6 DEF l

\* and they are all the rows of the place from the first one on when the link leads to the
\* next rank.
LEMMA PathCovers ==
    ASSUME NEW n \in Nat, NEW link, NEW r, NEW i \in 1 .. n, NEW p, IsPath(n, link, r, i, p),
           NEW at, Stays(n, link, at), Leads(n, link, at, r),
           NEW j \in 1 .. n, at[j] = at[i], r[i] <= r[j]
    PROVE  \E a \in 1 .. Len(p) : p[a] = j
<1>. DEFINE l == Len(p)
            R == {a \in 0 .. l - 1 : r[p[a + 1]] <= r[j]}
<1>1. l \in 1 .. n /\ \A a \in 1 .. l : p[a] \in 1 .. n /\ at[p[a]] = at[j]
  <2>1. \A a \in 1 .. Len(p) : p[a] \in 1 .. n /\ at[p[a]] = at[i]
    BY PathStays
  <2>2. l \in 1 .. n
    BY DEF IsPath
  <2>. QED  BY <2>1, <2>2
<1>2. p[1] = i /\ (\A a \in 1 .. l - 1 : p[a + 1] = link[p[a]]) /\ link[p[l]] = 0
  BY DEF IsPath
<1>. HIDE DEF l
<1>a. SUFFICES ASSUME \A a \in 1 .. l : p[a] # j PROVE FALSE
  BY DEF l
<1>b. ASSUME NEW a \in 1 .. l, r[p[a]] <= r[j]
      PROVE  link[p[a]] # 0 /\ r[link[p[a]]] <= r[j]
  <2>1. p[a] \in 1 .. n /\ p[a] # j /\ at[p[a]] = at[j] /\ r[p[a]] \in Int /\ r[j] \in Int
    BY <1>1, <1>a DEF Leads
  <2>2. r[p[a]] # r[j]
    BY <2>1 DEF Leads
  <2>3. r[p[a]] < r[j]
    BY <1>b, <2>1, <2>2
  <2>. QED  BY <2>1, <2>3 DEF Leads
<1>3. 0 \in R
  BY <1>1, <1>2
<1>4. ASSUME NEW a \in 1 .. l - 1, a - 1 \in R
      PROVE  a \in R
  <2>1. r[p[a]] <= r[j] /\ a \in 0 .. l - 1 /\ a \in 1 .. l
    BY <1>1, <1>4
  <2>. QED  BY <1>2, <1>b, <2>1
<1>5. l - 1 \in R
  <2>1. l - 1 \in Nat
    BY <1>1
  <2>. HIDE DEF R
  <2>2. \A a \in 0 .. l - 1 : a \in R
    BY <1>3, <1>4, <2>1, UpTo
  <2>. QED  BY <2>1, <2>2
<1>6. r[p[l]] <= r[j] /\ l \in 1 .. l
  BY <1>1, <1>5
<1>. QED  BY <1>2, <1>6, <1>b

-----------------------------------------------------------------------------
(* Tables.                                                                 *)

Places == Tiles \cup OffMap
Veh(n) == [unit : Units, at : Places, next : 0 .. n, prev : 0 .. n,
           order : {"none", "board"}, on : 0 .. n]
Arrays(n) == [1 .. n -> Veh(n)]
Tables(n) == [vehs : Arrays(n), inTile : [Tiles -> BOOLEAN]]

At(vs) == [j \in DOMAIN vs |-> vs[j].at]
Linked(n, vs, r) ==
  /\ \A j \in 1 .. n : r[j] \in Nat /\ vs[j].next \in 0 .. n /\ vs[j].prev \in 0 .. n
  /\ \A j, k \in 1 .. n : j # k /\ vs[j].at = vs[k].at => r[j] # r[k]
  /\ \A j \in 1 .. n : vs[j].next # 0 => /\ vs[vs[j].next].at = vs[j].at
                                         /\ r[j] < r[vs[j].next]
                                         /\ vs[vs[j].next].prev = j
  /\ \A j \in 1 .. n : vs[j].prev # 0 => /\ vs[vs[j].prev].at = vs[j].at
                                         /\ r[vs[j].prev] < r[j]
                                         /\ vs[vs[j].prev].next = j
  /\ \A j, k \in 1 .. n : vs[j].at = vs[k].at /\ r[j] < r[k] =>
       /\ vs[j].next # 0 /\ r[vs[j].next] <= r[k]
       /\ vs[k].prev # 0 /\ r[j] <= r[vs[k].prev]
Bits(s) == \A t \in Tiles : s.inTile[t] <=> \E j \in DOMAIN s.vehs : s.vehs[j].at = t

\* A table of n rows whose stacks are lists in the ranking r and whose bits are right.
Ranked(n, s, r) == s \in Tables(n) /\ Linked(n, s.vehs, r) /\ Bits(s)

LEMMA VehFields ==
    ASSUME NEW n \in Nat, NEW vs \in Arrays(n)
    PROVE  /\ DOMAIN vs = 1 .. n /\ Len(vs) = n
           /\ \A j \in 1 .. n :
                /\ vs[j] \in Veh(n) /\ vs[j].unit \in Units /\ vs[j].at \in Places
                /\ vs[j].next \in 0 .. n /\ vs[j].prev \in 0 .. n
                /\ vs[j].order \in {"none", "board"} /\ vs[j].on \in 0 .. n
                /\ At(vs)[j] = vs[j].at /\ Down(vs)[j] = vs[j].next /\ Up(vs)[j] = vs[j].prev
           /\ Down(vs) \in [1 .. n -> 0 .. n] /\ Up(vs) \in [1 .. n -> 0 .. n]
<1>1. DOMAIN vs = 1 .. n /\ Len(vs) = n
  BY FunctionIsSeq DEF Arrays
<1>2. \A j \in 1 .. n : vs[j] \in Veh(n)
  BY DEF Arrays
<1>3. \A j \in 1 .. n : /\ vs[j].unit \in Units /\ vs[j].at \in Places
                        /\ vs[j].next \in 0 .. n /\ vs[j].prev \in 0 .. n
                        /\ vs[j].order \in {"none", "board"} /\ vs[j].on \in 0 .. n
  BY <1>2 DEF Veh
<1>4. \A j \in 1 .. n : At(vs)[j] = vs[j].at /\ Down(vs)[j] = vs[j].next /\ Up(vs)[j] = vs[j].prev
  BY <1>1 DEF At, Down, Up
<1>5. Down(vs) \in [1 .. n -> 0 .. n]
  BY <1>1, <1>3 DEF Down
<1>6. Up(vs) \in [1 .. n -> 0 .. n]
  BY <1>1, <1>3 DEF Up
<1>. QED  BY <1>1, <1>2, <1>3, <1>4, <1>5, <1>6

LEMMA LinkedIsChain ==
    ASSUME NEW n \in Nat, NEW vs \in Arrays(n), NEW r
    PROVE  Linked(n, vs, r) <=> Chain(n, At(vs), Down(vs), Up(vs), r)
<1>1. \A j \in 1 .. n : At(vs)[j] = vs[j].at /\ Down(vs)[j] = vs[j].next /\ Up(vs)[j] = vs[j].prev
  BY VehFields
<1>2. \A j \in 1 .. n : /\ vs[j].next \in 0 .. n /\ vs[j].prev \in 0 .. n
                        /\ (vs[j].next # 0 => vs[j].next \in 1 .. n)
                        /\ (vs[j].prev # 0 => vs[j].prev \in 1 .. n)
  BY VehFields
<1>. QED  BY <1>1, <1>2 DEF Linked, Chain

\* The top of a stack is the row of its first rank.
LEMMA VehTopIs ==
    ASSUME NEW n \in Nat, NEW vs \in Arrays(n), NEW r, Linked(n, vs, r), NEW i \in 1 .. n
    PROVE  /\ VehTop(vs, i) \in 1 .. n
           /\ vs[VehTop(vs, i)].at = vs[i].at
           /\ vs[VehTop(vs, i)].prev = 0
           /\ \A j \in 1 .. n : vs[j].at = vs[i].at => r[VehTop(vs, i)] <= r[j]
<1>. DEFINE up == Up(vs)
            p == Path(up, i)
            d == [j \in 1 .. n |-> 0 - r[j]]
<1>0. /\ up \in [1 .. n -> 0 .. n]
      /\ \A j \in 1 .. n : up[j] = vs[j].prev
  BY VehFields
<1>. HIDE DEF up
<1>1. \A m \in 1 .. n : d[m] \in Int /\ (up[m] # 0 => d[m] < d[up[m]])
  <2>. TAKE m \in 1 .. n
  <2>1. \A j \in 1 .. n : r[j] \in Nat /\ d[j] = 0 - r[j]
    BY DEF Linked
  <2>2. up[m] # 0 => up[m] \in 1 .. n /\ r[up[m]] < r[m]
    BY <1>0 DEF Linked
  <2>. HIDE DEF d
  <2>3. r[m] \in Nat /\ d[m] = 0 - r[m]
    BY <2>1
  <2>4. up[m] # 0 => r[up[m]] \in Nat /\ d[up[m]] = 0 - r[up[m]]
    BY <2>1, <2>2
  <2>. QED  BY <2>2, <2>3, <2>4
<1>. HIDE DEF d
<1>2. IsPath(n, up, d, i, p)
  BY <1>0, <1>1, PathEnds
<1>. HIDE DEF p
<1>3. Len(p) \in 1 .. n /\ up[p[Len(p)]] = 0
  BY <1>2 DEF IsPath
<1>4. Stays(n, up, At(vs))
  <2>1. \A j \in 1 .. n : At(vs)[j] = vs[j].at
    BY VehFields
  <2>2. ASSUME NEW m \in 1 .. n, up[m] # 0
        PROVE  At(vs)[up[m]] = At(vs)[m]
    <3>1. up[m] \in 1 .. n /\ up[m] = vs[m].prev
      BY <1>0, <2>2
    <3>2. vs[vs[m].prev].at = vs[m].at
      BY <2>2, <3>1 DEF Linked
    <3>. QED  BY <2>1, <3>1, <3>2
  <2>. QED  BY <2>2 DEF Stays
<1>5. \A a \in 1 .. Len(p) : p[a] \in 1 .. n /\ At(vs)[p[a]] = At(vs)[i]
  BY <1>2, <1>4, PathStays
<1>6. Len(p) \in 1 .. Len(p)
  BY <1>3
<1>7. i # 0
  OBVIOUS
<1>8. VehTop(vs, i) = p[Len(p)]
  <2>. USE DEF p
  <2>1. VehTop(vs, i) = Last(Path(Up(vs), i))
    BY <1>7 DEF VehTop
  <2>. QED  BY <2>1 DEF Last, up
<1>. DEFINE top == p[Len(p)]
<1>9. top \in 1 .. n /\ vs[top].at = vs[i].at /\ vs[top].prev = 0
  <2>1. top \in 1 .. n /\ At(vs)[top] = At(vs)[i] /\ up[top] = 0
    BY <1>3, <1>5, <1>6
  <2>. HIDE DEF top
  <2>2. \A j \in 1 .. n : At(vs)[j] = vs[j].at
    BY VehFields
  <2>. QED  BY <1>0, <2>1, <2>2
<1>. HIDE DEF top
<1>10. ASSUME NEW j \in 1 .. n, vs[j].at = vs[i].at
       PROVE  r[top] <= r[j]
  <2>1. r[j] \in Nat /\ r[top] \in Nat
    BY <1>9 DEF Linked
  <2>2. ~ (r[j] < r[top])
    BY <1>9, <1>10 DEF Linked
  <2>. QED  BY <2>1, <2>2
<1>. QED  BY <1>8, <1>9, <1>10 DEF top

\* The rows from i down, as a list: those of its place that are not ranked before it.
IsStack(n, vs, r, i, js) ==
  /\ js \in Seq(1 .. n) /\ Len(js) \in 1 .. n
  /\ js[1] = i
  /\ \A a, b \in 1 .. Len(js) : a < b => r[js[a]] < r[js[b]]
  /\ \A a \in 1 .. Len(js) : js[a] \in 1 .. n /\ vs[js[a]].at = vs[i].at
  /\ \A j \in 1 .. n : vs[j].at = vs[i].at /\ r[i] <= r[j] => \E a \in 1 .. Len(js) : js[a] = j
  /\ vs[js[Len(js)]].next = 0

LEMMA StackFromIs ==
    ASSUME NEW n \in Nat, NEW vs \in Arrays(n), NEW r, Linked(n, vs, r), NEW i \in 1 .. n
    PROVE  IsStack(n, vs, r, i, StackFrom(vs, i))
<1>. DEFINE down == Down(vs)
            at == At(vs)
            p == Path(down, i)
<1>0. /\ down \in [1 .. n -> 0 .. n]
      /\ \A j \in 1 .. n : down[j] = vs[j].next /\ at[j] = vs[j].at /\ r[j] \in Nat
      /\ \A j \in 1 .. n : down[j] # 0 => down[j] \in 1 .. n
  BY VehFields DEF Linked
<1>. HIDE DEF down, at
<1>1. \A m \in 1 .. n : r[m] \in Int /\ (down[m] # 0 => r[m] < r[down[m]])
  <2>. TAKE m \in 1 .. n
  <2>1. r[m] \in Nat /\ down[m] = vs[m].next
    BY <1>0
  <2>2. vs[m].next # 0 => r[m] < r[vs[m].next]
    BY DEF Linked
  <2>. QED  BY <2>1, <2>2
<1>2. IsPath(n, down, r, i, p)
  BY <1>0, <1>1, PathEnds
<1>3. Stays(n, down, at)
  <2>1. ASSUME NEW m \in 1 .. n, down[m] # 0
        PROVE  at[down[m]] = at[m]
    <3>1. down[m] \in 1 .. n /\ down[m] = vs[m].next
      BY <1>0, <2>1
    <3>2. vs[vs[m].next].at = vs[m].at
      BY <2>1, <3>1 DEF Linked
    <3>. QED  BY <1>0, <3>1, <3>2
  <2>. QED  BY <2>1 DEF Stays
<1>4. Leads(n, down, at, r)
  <2>1. \A m \in 1 .. n : r[m] \in Int
    BY <1>1
  <2>2. \A j, k \in 1 .. n : j # k /\ at[j] = at[k] => r[j] # r[k]
    BY <1>0 DEF Linked
  <2>3. \A j, k \in 1 .. n : at[j] = at[k] /\ r[j] < r[k] => down[j] # 0 /\ r[down[j]] <= r[k]
    <3>. TAKE j, k \in 1 .. n
    <3>1. down[j] = vs[j].next /\ at[j] = vs[j].at /\ at[k] = vs[k].at
      BY <1>0
    <3>2. vs[j].at = vs[k].at /\ r[j] < r[k] => vs[j].next # 0 /\ r[vs[j].next] <= r[k]
      BY DEF Linked
    <3>. QED  BY <3>1, <3>2
  <2>. QED  BY <2>1, <2>2, <2>3 DEF Leads
<1>. HIDE DEF p
<1>6. \A a \in 1 .. Len(p) : p[a] \in 1 .. n /\ at[p[a]] = at[i]
  BY <1>2, <1>3, PathStays
<1>7. ASSUME NEW j \in 1 .. n, at[j] = at[i], r[i] <= r[j]
      PROVE  \E a \in 1 .. Len(p) : p[a] = j
  BY <1>2, <1>3, <1>4, <1>7, PathCovers
<1>8. /\ p \in Seq(1 .. n) /\ Len(p) \in 1 .. n
      /\ p[1] = i
      /\ down[p[Len(p)]] = 0
      /\ \A a, b \in 1 .. Len(p) : a < b => r[p[a]] < r[p[b]]
  BY <1>2 DEF IsPath
<1>9. p[Len(p)] \in 1 .. n
  <2>1. Len(p) \in 1 .. Len(p)
    BY <1>8
  <2>. QED  BY <1>6, <2>1
<1>9a. vs[p[Len(p)]].next = 0
  BY <1>0, <1>8, <1>9
<1>9b. \A a \in 1 .. Len(p) : p[a] \in 1 .. n /\ vs[p[a]].at = vs[i].at
  BY <1>0, <1>6
<1>9c. \A j \in 1 .. n : vs[j].at = vs[i].at /\ r[i] <= r[j] => \E a \in 1 .. Len(p) : p[a] = j
  BY <1>0, <1>7
<1>10. IsStack(n, vs, r, i, p)
  BY <1>8, <1>9a, <1>9b, <1>9c DEF IsStack
<1>. QED  BY <1>10 DEF StackFrom, p, down

\* A place is empty or its top is found.
LEMMA VehAtIs ==
    ASSUME NEW n \in Nat, NEW s, NEW r, Ranked(n, s, r), NEW p
    PROVE  /\ VehAt(s, p) \in 0 .. n
           /\ VehAt(s, p) = 0 => \A j \in 1 .. n : s.vehs[j].at # p
           /\ VehAt(s, p) # 0 => /\ s.vehs[VehAt(s, p)].at = p
                                 /\ s.vehs[VehAt(s, p)].prev = 0
                                 /\ \A j \in 1 .. n : s.vehs[j].at = p => r[VehAt(s, p)] <= r[j]
<1>. DEFINE vs == s.vehs
            there == {j \in DOMAIN vs : vs[j].at = p}
            first == CHOOSE j \in there : \A k \in there : j <= k
<1>1. vs \in Arrays(n) /\ Linked(n, vs, r) /\ Bits(s)
  BY DEF Ranked, Tables
<1>2. DOMAIN vs = 1 .. n
  BY <1>1, VehFields
<1>3. CASE there = {}
  <2>1. VehAt(s, p) = 0
    BY <1>3 DEF VehAt
  <2>2. \A j \in 1 .. n : s.vehs[j].at # p
    BY <1>2, <1>3
  <2>. QED  BY <2>1, <2>2
<1>4. CASE there # {}
  <2>1. p \in Tiles => s.inTile[p]
    BY <1>1, <1>4 DEF Bits
  <2>2. VehAt(s, p) = VehTop(vs, first)
    BY <1>4, <2>1 DEF VehAt
  <2>3. there \in SUBSET Nat
    BY <1>2
  <2>. HIDE DEF there
  <2>4. \E j \in there : \A k \in there : j <= k
    BY <1>4, <2>3, LeastRow
  <2>5. first \in there
    BY <2>4
  <2>. HIDE DEF first, vs
  <2>6. first \in 1 .. n /\ vs[first].at = p
    BY <1>2, <2>5 DEF there
  <2>7. /\ VehTop(vs, first) \in 1 .. n
        /\ vs[VehTop(vs, first)].at = vs[first].at
        /\ vs[VehTop(vs, first)].prev = 0
        /\ \A j \in 1 .. n : vs[j].at = vs[first].at => r[VehTop(vs, first)] <= r[j]
    BY <1>1, <2>6, VehTopIs
  <2>. QED  BY <2>2, <2>6, <2>7 DEF vs
<1>. QED  BY <1>3, <1>4

-----------------------------------------------------------------------------
(* The operations on one unit.                                             *)

\* Nothing but places and links has changed.
Same(n, vs, ws) ==
  \A j \in 1 .. n : ws[j].unit = vs[j].unit /\ ws[j].order = vs[j].order /\ ws[j].on = vs[j].on

LEMMA TableFields ==
    ASSUME NEW n \in Nat, NEW s \in Tables(n)
    PROVE  /\ s.vehs \in Arrays(n) /\ s.inTile \in [Tiles -> BOOLEAN]
           /\ DOMAIN s.vehs = 1 .. n /\ Len(s.vehs) = n
<1>1. s.vehs \in Arrays(n) /\ s.inTile \in [Tiles -> BOOLEAN]
  BY DEF Tables
<1>. QED  BY <1>1, VehFields

LEMMA NextIs ==
    ASSUME NEW n, NEW v \in Veh(n), NEW x \in 0 .. n, NEW w, w = [v EXCEPT !.next = x]
    PROVE  /\ w \in Veh(n) /\ w.next = x /\ w.prev = v.prev /\ w.at = v.at
           /\ w.unit = v.unit /\ w.order = v.order /\ w.on = v.on
BY DEF Veh

LEMMA PrevIs ==
    ASSUME NEW n, NEW v \in Veh(n), NEW x \in 0 .. n, NEW w, w = [v EXCEPT !.prev = x]
    PROVE  /\ w \in Veh(n) /\ w.prev = x /\ w.next = v.next /\ w.at = v.at
           /\ w.unit = v.unit /\ w.order = v.order /\ w.on = v.on
BY DEF Veh

IsSetNext(n, vs, i, x, ws) ==
  /\ ws \in Arrays(n) /\ Same(n, vs, ws)
  /\ \A j \in 1 .. n : /\ ws[j].at = vs[j].at /\ ws[j].prev = vs[j].prev
                       /\ ws[j].next = IF j = i THEN x ELSE vs[j].next

LEMMA SetNextIs ==
    ASSUME NEW n \in Nat, NEW vs \in Arrays(n), NEW i \in 0 .. n, NEW x \in 0 .. n
    PROVE  IsSetNext(n, vs, i, x, SetNext(vs, i, x))
<1>. DEFINE ws == SetNext(vs, i, x)
<1>. HIDE DEF ws
<1>. SUFFICES IsSetNext(n, vs, i, x, ws)
  BY DEF ws
<1>1. CASE i = 0
  <2>1. ws = vs /\ \A j \in 1 .. n : j # i
    BY <1>1 DEF SetNext, ws
  <2>. QED  BY <2>1 DEF Same, IsSetNext
<1>2. CASE i # 0
  <2>. DEFINE v == [vs[i] EXCEPT !.next = x]
  <2>1. i \in 1 .. n /\ vs[i] \in Veh(n) /\ DOMAIN vs = 1 .. n
    BY <1>2, VehFields
  <2>2. /\ v \in Veh(n) /\ v.next = x /\ v.prev = vs[i].prev /\ v.at = vs[i].at
        /\ v.unit = vs[i].unit /\ v.order = vs[i].order /\ v.on = vs[i].on
    BY <2>1, NextIs
  <2>3. ws = [vs EXCEPT ![i] = v]
    BY <1>2 DEF SetNext, ws
  <2>. HIDE DEF v
  <2>4. ws \in Arrays(n) /\ \A j \in 1 .. n : ws[j] = IF j = i THEN v ELSE vs[j]
    BY <2>1, <2>2, <2>3 DEF Arrays
  <2>. QED  BY <2>1, <2>2, <2>4 DEF Same, IsSetNext
<1>. QED  BY <1>1, <1>2

IsSetPrev(n, vs, i, x, ws) ==
  /\ ws \in Arrays(n) /\ Same(n, vs, ws)
  /\ \A j \in 1 .. n : /\ ws[j].at = vs[j].at /\ ws[j].next = vs[j].next
                       /\ ws[j].prev = IF j = i THEN x ELSE vs[j].prev

LEMMA SetPrevIs ==
    ASSUME NEW n \in Nat, NEW vs \in Arrays(n), NEW i \in 0 .. n, NEW x \in 0 .. n
    PROVE  IsSetPrev(n, vs, i, x, SetPrev(vs, i, x))
<1>. DEFINE ws == SetPrev(vs, i, x)
<1>. HIDE DEF ws
<1>. SUFFICES IsSetPrev(n, vs, i, x, ws)
  BY DEF ws
<1>1. CASE i = 0
  <2>1. ws = vs /\ \A j \in 1 .. n : j # i
    BY <1>1 DEF SetPrev, ws
  <2>. QED  BY <2>1 DEF Same, IsSetPrev
<1>2. CASE i # 0
  <2>. DEFINE v == [vs[i] EXCEPT !.prev = x]
  <2>1. i \in 1 .. n /\ vs[i] \in Veh(n) /\ DOMAIN vs = 1 .. n
    BY <1>2, VehFields
  <2>2. /\ v \in Veh(n) /\ v.prev = x /\ v.next = vs[i].next /\ v.at = vs[i].at
        /\ v.unit = vs[i].unit /\ v.order = vs[i].order /\ v.on = vs[i].on
    BY <2>1, PrevIs
  <2>3. ws = [vs EXCEPT ![i] = v]
    BY <1>2 DEF SetPrev, ws
  <2>. HIDE DEF v
  <2>4. ws \in Arrays(n) /\ \A j \in 1 .. n : ws[j] = IF j = i THEN v ELSE vs[j]
    BY <2>1, <2>2, <2>3 DEF Arrays
  <2>. QED  BY <2>1, <2>2, <2>4 DEF Same, IsSetPrev
<1>. QED  BY <1>1, <1>2

\* Row i gets another place and other links.
RowSet(vs, i, a, x, y) == [vs EXCEPT ![i] = [vs[i] EXCEPT !.at = a, !.next = x, !.prev = y]]

IsRowSet(n, vs, i, a, x, y, ws) ==
  /\ ws \in Arrays(n) /\ Same(n, vs, ws)
  /\ \A j \in 1 .. n : /\ ws[j].at = IF j = i THEN a ELSE vs[j].at
                       /\ ws[j].next = IF j = i THEN x ELSE vs[j].next
                       /\ ws[j].prev = IF j = i THEN y ELSE vs[j].prev

LEMMA RowSetIs ==
    ASSUME NEW n \in Nat, NEW vs \in Arrays(n), NEW i \in 1 .. n,
           NEW a \in Places, NEW x \in 0 .. n, NEW y \in 0 .. n
    PROVE  IsRowSet(n, vs, i, a, x, y, RowSet(vs, i, a, x, y))
<1>. DEFINE old == vs[i]
            v == [old EXCEPT !.at = a, !.next = x, !.prev = y]
            ws == RowSet(vs, i, a, x, y)
<1>1. old \in Veh(n) /\ DOMAIN vs = 1 .. n
  BY VehFields
<1>3. ws = [vs EXCEPT ![i] = v]
  BY DEF RowSet
<1>. HIDE DEF old, ws
<1>2. /\ v \in Veh(n) /\ v.at = a /\ v.next = x /\ v.prev = y
      /\ v.unit = old.unit /\ v.order = old.order /\ v.on = old.on
  BY <1>1 DEF Veh
<1>. HIDE DEF v
<1>4. ws \in Arrays(n) /\ \A j \in 1 .. n : ws[j] = IF j = i THEN v ELSE vs[j]
  BY <1>1, <1>2, <1>3 DEF Arrays
<1>5. Same(n, vs, ws)
  BY <1>2, <1>4 DEF Same, old
<1>. QED  BY <1>2, <1>4, <1>5 DEF ws, IsRowSet

LEMMA SameTwice ==
    ASSUME NEW n, NEW vs, NEW ws, NEW us, Same(n, vs, ws), Same(n, ws, us)
    PROVE  Same(n, vs, us)
BY DEF Same

\* What veh_lift does to the rows and to the bits.
IsLifted(n, s, i, t) ==
  /\ t \in Tables(n) /\ Same(n, s.vehs, t.vehs)
  /\ \A j \in 1 .. n :
       /\ t.vehs[j].at = IF j = i THEN Lifted ELSE s.vehs[j].at
       /\ t.vehs[j].next = IF j = i THEN 0
                           ELSE IF j = s.vehs[i].prev THEN s.vehs[i].next ELSE s.vehs[j].next
       /\ t.vehs[j].prev = IF j = i THEN 0
                           ELSE IF j = s.vehs[i].next THEN s.vehs[i].prev ELSE s.vehs[j].prev
  /\ \A p \in Tiles :
       t.inTile[p] = IF s.vehs[i].prev = 0 /\ s.vehs[i].next = 0 /\ s.vehs[i].at = p
                     THEN FALSE ELSE s.inTile[p]

LEMMA VehLiftIs ==
    ASSUME NEW n \in Nat, NEW s \in Tables(n), NEW i \in 1 .. n
    PROVE  IsLifted(n, s, i, VehLift(s, i))
<1>. DEFINE vs == s.vehs
            up == vs[i].prev
            down == vs[i].next
            ws == SetNext(vs, up, down)
            us == SetPrev(ws, down, up)
            xs == [us EXCEPT ![i] = [us[i] EXCEPT !.at = Lifted, !.next = 0, !.prev = 0]]
            t == VehLift(s, i)
            bits == IF (up = 0 /\ down = 0) /\ vs[i].at \in Tiles
                    THEN [s.inTile EXCEPT ![vs[i].at] = FALSE] ELSE s.inTile
<1>1. t = [vehs |-> xs, inTile |-> bits]
  BY DEF VehLift
<1>2. t.vehs = xs /\ t.inTile = bits
  BY <1>1
<1>3. vs \in Arrays(n) /\ up \in 0 .. n /\ down \in 0 .. n /\ s.inTile \in [Tiles -> BOOLEAN]
  BY TableFields, VehFields
<1>4. Lifted \in Places /\ 0 \in 0 .. n
  BY DEF Places, OffMap
<1>5. bits \in [Tiles -> BOOLEAN]
  BY <1>3
<1>6. \A p \in Tiles : bits[p] = IF up = 0 /\ down = 0 /\ vs[i].at = p THEN FALSE ELSE s.inTile[p]
  BY <1>3
<1>6a. xs = RowSet(us, i, Lifted, 0, 0)
  BY DEF RowSet
<1>. HIDE DEF bits, xs, us, ws, up, down, vs, t
<1>7. ws \in Arrays(n) /\ IsSetNext(n, vs, up, down, ws)
  <2>1. IsSetNext(n, vs, up, down, ws)
    BY <1>3, SetNextIs DEF ws
  <2>. QED  BY <2>1 DEF IsSetNext
<1>8. us \in Arrays(n) /\ IsSetPrev(n, ws, down, up, us)
  <2>1. IsSetPrev(n, ws, down, up, us)
    BY <1>3, <1>7, SetPrevIs DEF us
  <2>. QED  BY <2>1 DEF IsSetPrev
<1>9. IsRowSet(n, us, i, Lifted, 0, 0, xs)
  BY <1>4, <1>6a, <1>8, RowSetIs
<1>10. Same(n, vs, xs)
  BY <1>7, <1>8, <1>9, SameTwice DEF IsSetNext, IsSetPrev, IsRowSet
<1>11. t \in Tables(n)
  BY <1>1, <1>5, <1>9 DEF Tables, IsRowSet
<1>12. \A j \in 1 .. n :
         /\ xs[j].at = IF j = i THEN Lifted ELSE vs[j].at
         /\ xs[j].next = IF j = i THEN 0 ELSE IF j = up THEN down ELSE vs[j].next
         /\ xs[j].prev = IF j = i THEN 0 ELSE IF j = down THEN up ELSE vs[j].prev
  BY <1>7, <1>8, <1>9 DEF IsSetNext, IsSetPrev, IsRowSet
<1>. QED  BY <1>2, <1>6, <1>10, <1>11, <1>12 DEF vs, up, down, t, IsLifted

\* Nobody is at p, or nobody but row i.
NoneAt(n, s, p) == \A j \in 1 .. n : s.vehs[j].at # p
OnlyAt(n, s, i, p) == \A j \in 1 .. n : s.vehs[j].at = p => j = i

\* A unit in the hand has left a list behind it, and the bit of its tile is right.
LEMMA LiftRanked ==
    ASSUME NEW n \in Nat, NEW s, NEW r, Ranked(n, s, r), NEW i \in 1 .. n,
           OnlyAt(n, s, i, Lifted)
    PROVE  Ranked(n, VehLift(s, i), r)
<1>. DEFINE t == VehLift(s, i)
            vs == s.vehs
            ws == t.vehs
<1>1. s \in Tables(n) /\ Linked(n, vs, r) /\ Bits(s)
  BY DEF Ranked
<1>. HIDE DEF t
<1>1a. IsLifted(n, s, i, t)
  BY <1>1, VehLiftIs DEF t
<1>2. /\ t \in Tables(n)
      /\ \A j \in 1 .. n :
           /\ ws[j].at = IF j = i THEN Lifted ELSE vs[j].at
           /\ ws[j].next = IF j = i THEN 0 ELSE IF j = vs[i].prev THEN vs[i].next ELSE vs[j].next
           /\ ws[j].prev = IF j = i THEN 0 ELSE IF j = vs[i].next THEN vs[i].prev ELSE vs[j].prev
      /\ \A p \in Tiles :
           t.inTile[p] = IF vs[i].prev = 0 /\ vs[i].next = 0 /\ vs[i].at = p
                         THEN FALSE ELSE s.inTile[p]
  BY <1>1a DEF IsLifted
<1>3. vs \in Arrays(n) /\ ws \in Arrays(n) /\ DOMAIN vs = 1 .. n /\ DOMAIN ws = 1 .. n
  BY <1>1, <1>2, TableFields
<1>. HIDE DEF vs, ws
<1>4. /\ \A j \in 1 .. n : At(vs)[j] = vs[j].at /\ Down(vs)[j] = vs[j].next /\ Up(vs)[j] = vs[j].prev
      /\ \A j \in 1 .. n : At(ws)[j] = ws[j].at /\ Down(ws)[j] = ws[j].next /\ Up(ws)[j] = ws[j].prev
  BY <1>3, VehFields
<1>5. Chain(n, At(vs), Down(vs), Up(vs), r)
  BY <1>1, <1>3, LinkedIsChain
<1>6. Alone(n, At(vs), i, Lifted)
  BY <1>4 DEF OnlyAt, Alone, vs
<1>7. \A j \in 1 .. n :
        /\ At(ws)[j] = IF j = i THEN Lifted ELSE At(vs)[j]
        /\ Down(ws)[j] = IF j = i THEN 0 ELSE IF j = Up(vs)[i] THEN Down(vs)[i] ELSE Down(vs)[j]
        /\ Up(ws)[j] = IF j = i THEN 0 ELSE IF j = Down(vs)[i] THEN Up(vs)[i] ELSE Up(vs)[j]
  BY <1>2, <1>4
<1>8. Chain(n, At(ws), Down(ws), Up(ws), r)
  BY <1>5, <1>6, <1>7, ChainLift
<1>9. Linked(n, ws, r)
  BY <1>3, <1>8, LinkedIsChain
<1>10. ASSUME NEW p \in Tiles
       PROVE  t.inTile[p] <=> \E j \in 1 .. n : ws[j].at = p
  <2>1. p # Lifted
    BY OffMapIsNoTile DEF OffMap
  <2>2. s.inTile[p] <=> \E j \in 1 .. n : vs[j].at = p
    BY <1>1, <1>3 DEF Bits, vs
  <2>3. CASE vs[i].at # p
    <3>1. t.inTile[p] = s.inTile[p]
      BY <1>2, <2>3
    <3>2. \A j \in 1 .. n : ws[j].at = p <=> vs[j].at = p
      BY <1>2, <2>1, <2>3
    <3>. QED  BY <2>2, <3>1, <3>2
  <2>4. CASE vs[i].at = p /\ vs[i].prev = 0 /\ vs[i].next = 0
    <3>1. ~ t.inTile[p]
      BY <1>2, <2>4
    <3>2. ASSUME NEW j \in 1 .. n, j # i, vs[j].at = p
          PROVE  FALSE
      <4>1. r[i] # r[j] /\ r[i] \in Nat /\ r[j] \in Nat
        BY <1>1, <2>4, <3>2 DEF Linked, vs
      <4>2. r[i] < r[j] \/ r[j] < r[i]
        BY <4>1
      <4>. QED  BY <1>1, <2>4, <3>2, <4>2 DEF Linked, vs
    <3>3. \A j \in 1 .. n : ws[j].at # p
      BY <1>2, <2>1, <3>2
    <3>. QED  BY <3>1, <3>3
  <2>5. CASE vs[i].at = p /\ (vs[i].prev # 0 \/ vs[i].next # 0)
    <3>1. t.inTile[p] = s.inTile[p] /\ s.inTile[p]
      BY <1>2, <2>2, <2>5
    <3>2. \E j \in 1 .. n : j # i /\ vs[j].at = p
      <4>1. r[i] \in Nat /\ vs[i].prev \in 0 .. n /\ vs[i].next \in 0 .. n
        BY <1>1 DEF Linked, vs
      <4>2. ASSUME vs[i].next # 0
            PROVE  vs[i].next \in 1 .. n /\ vs[i].next # i /\ vs[vs[i].next].at = p
        BY <1>1, <2>5, <4>1, <4>2 DEF Linked, vs
      <4>3. ASSUME vs[i].prev # 0
            PROVE  vs[i].prev \in 1 .. n /\ vs[i].prev # i /\ vs[vs[i].prev].at = p
        BY <1>1, <2>5, <4>1, <4>3 DEF Linked, vs
      <4>. QED  BY <2>5, <4>2, <4>3
    <3>3. \E j \in 1 .. n : ws[j].at = p
      BY <1>2, <3>2
    <3>. QED  BY <3>1, <3>3
  <2>. QED  BY <2>3, <2>4, <2>5
<1>11. Bits(t)
  BY <1>3, <1>10 DEF Bits, ws
<1>. QED  BY <1>2, <1>9, <1>11 DEF Ranked, t, ws

\* What veh_drop does to them.
IsDropped(n, s, i, p, below, t) ==
  /\ t \in Tables(n) /\ Same(n, s.vehs, t.vehs)
  /\ \A j \in 1 .. n :
       /\ t.vehs[j].at = IF j = i THEN p ELSE s.vehs[j].at
       /\ t.vehs[j].next = IF j = i THEN below ELSE s.vehs[j].next
       /\ t.vehs[j].prev = IF j = i THEN 0 ELSE IF j = below THEN i ELSE s.vehs[j].prev
  /\ \A q \in Tiles : t.inTile[q] = IF q = p THEN TRUE ELSE s.inTile[q]

LEMMA VehDropIs ==
    ASSUME NEW n \in Nat, NEW s \in Tables(n), NEW i \in 1 .. n, NEW p \in Places,
           VehAt(s, p) \in 0 .. n, VehAt(s, p) # i
    PROVE  IsDropped(n, s, i, p, VehAt(s, p), VehDrop(s, i, p))
<1>. DEFINE vs == s.vehs
            below == VehAt(s, p)
            t == VehDrop(s, i, p)
            ws == [vs EXCEPT ![i] = [vs[i] EXCEPT !.at = p, !.next = below, !.prev = 0]]
            us == SetPrev(ws, below, i)
            bits == IF p \in Tiles THEN [s.inTile EXCEPT ![p] = TRUE] ELSE s.inTile
<1>1. t = [vehs |-> us, inTile |-> bits]
  BY DEF VehDrop
<1>2. t.vehs = us /\ t.inTile = bits
  BY <1>1
<1>3. vs \in Arrays(n) /\ s.inTile \in [Tiles -> BOOLEAN] /\ 0 \in 0 .. n /\ i \in 0 .. n
  BY TableFields
<1>4. bits \in [Tiles -> BOOLEAN] /\ \A q \in Tiles : bits[q] = IF q = p THEN TRUE ELSE s.inTile[q]
  BY <1>3
<1>4a. ws = RowSet(vs, i, p, below, 0) /\ below \in 0 .. n /\ below # i
  BY DEF RowSet
<1>. HIDE DEF bits, us, ws, vs, below, t
<1>4b. IsRowSet(n, vs, i, p, below, 0, ws)
  BY <1>3, <1>4a, RowSetIs
<1>5. ws \in Arrays(n) /\ IsRowSet(n, vs, i, p, below, 0, ws)
  BY <1>4b DEF IsRowSet
<1>6. IsSetPrev(n, ws, below, i, us)
  BY <1>3, <1>4a, <1>5, SetPrevIs DEF us
<1>7. Same(n, vs, us)
  BY <1>5, <1>6, SameTwice DEF IsSetPrev, IsRowSet
<1>8. t \in Tables(n)
  BY <1>1, <1>4, <1>6 DEF Tables, IsSetPrev
<1>9. \A j \in 1 .. n :
        /\ us[j].at = IF j = i THEN p ELSE vs[j].at
        /\ us[j].next = IF j = i THEN below ELSE vs[j].next
        /\ us[j].prev = IF j = i THEN 0 ELSE IF j = below THEN i ELSE vs[j].prev
  BY <1>4a, <1>5, <1>6 DEF IsSetPrev, IsRowSet
<1>. QED  BY <1>2, <1>4, <1>7, <1>8, <1>9 DEF vs, below, t, IsDropped

\* A unit that is dropped from a place off the map is on top of a list.
LEMMA DropRanked ==
    ASSUME NEW n \in Nat, NEW s, NEW r, Ranked(n, s, r), NEW i \in 1 .. n, NEW p \in Places,
           NEW from \in OffMap, s.vehs[i].at = from, OnlyAt(n, s, i, from), p # from
    PROVE  /\ Ranked(n, VehDrop(s, i, p), Raised(n, r, i))
           /\ Same(n, s.vehs, VehDrop(s, i, p).vehs)
           /\ \A j \in 1 .. n : VehDrop(s, i, p).vehs[j].at = IF j = i THEN p ELSE s.vehs[j].at
<1>. DEFINE t == VehDrop(s, i, p)
            vs == s.vehs
            ws == t.vehs
            below == VehAt(s, p)
<1>1. s \in Tables(n) /\ Linked(n, vs, r) /\ Bits(s)
  BY DEF Ranked
<1>a. /\ below \in 0 .. n
      /\ below = 0 => \A j \in 1 .. n : vs[j].at # p
      /\ below # 0 => vs[below].at = p /\ vs[below].prev = 0
  BY VehAtIs
<1>. HIDE DEF below
<1>b. below # i
  BY <1>a
<1>. HIDE DEF t
<1>1a. IsDropped(n, s, i, p, below, t)
  BY <1>1, <1>a, <1>b, VehDropIs DEF below, t
<1>2. /\ t \in Tables(n) /\ Same(n, vs, ws)
      /\ \A j \in 1 .. n :
           /\ ws[j].at = IF j = i THEN p ELSE vs[j].at
           /\ ws[j].next = IF j = i THEN below ELSE vs[j].next
           /\ ws[j].prev = IF j = i THEN 0 ELSE IF j = below THEN i ELSE vs[j].prev
      /\ \A q \in Tiles : t.inTile[q] = IF q = p THEN TRUE ELSE s.inTile[q]
  BY <1>1a DEF IsDropped
<1>3. vs \in Arrays(n) /\ ws \in Arrays(n) /\ DOMAIN vs = 1 .. n /\ DOMAIN ws = 1 .. n
  BY <1>1, <1>2, TableFields
<1>c. vs[i].at = from
  OBVIOUS
<1>. HIDE DEF vs, ws
<1>4. /\ \A j \in 1 .. n : At(vs)[j] = vs[j].at /\ Down(vs)[j] = vs[j].next /\ Up(vs)[j] = vs[j].prev
      /\ \A j \in 1 .. n : At(ws)[j] = ws[j].at /\ Down(ws)[j] = ws[j].next /\ Up(ws)[j] = ws[j].prev
  BY <1>3, VehFields
<1>5. Chain(n, At(vs), Down(vs), Up(vs), r)
  BY <1>1, <1>3, LinkedIsChain
<1>6. Alone(n, At(vs), i, At(vs)[i]) /\ p # At(vs)[i]
  BY <1>4, <1>c DEF OnlyAt, Alone, vs
<1>7. \A j \in 1 .. n :
        /\ At(ws)[j] = IF j = i THEN p ELSE At(vs)[j]
        /\ Down(ws)[j] = IF j = i THEN below ELSE Down(vs)[j]
        /\ Up(ws)[j] = IF j = i THEN 0 ELSE IF j = below THEN i ELSE Up(vs)[j]
  BY <1>2, <1>4
<1>7a. /\ below = 0 => \A j \in 1 .. n : At(vs)[j] # p
       /\ below # 0 => At(vs)[below] = p /\ Up(vs)[below] = 0
  BY <1>a, <1>4
<1>7b. OnTop(n, At(vs), Down(vs), Up(vs), i, p, below, At(ws), Down(ws), Up(ws))
  BY <1>6, <1>7, <1>7a DEF OnTop
<1>8. Chain(n, At(ws), Down(ws), Up(ws), Raised(n, r, i))
  BY <1>a, <1>5, <1>7b, ChainDrop
<1>9. Linked(n, ws, Raised(n, r, i))
  BY <1>3, <1>8, LinkedIsChain
<1>10. ASSUME NEW q \in Tiles
       PROVE  t.inTile[q] <=> \E j \in 1 .. n : ws[j].at = q
  <2>1. q # from
    BY OffMapIsNoTile
  <2>2. s.inTile[q] <=> \E j \in 1 .. n : vs[j].at = q
    BY <1>1, <1>3 DEF Bits, vs
  <2>3. t.inTile[q] = IF q = p THEN TRUE ELSE s.inTile[q]
    BY <1>2
  <2>4. CASE q = p
    BY <1>2, <2>3, <2>4
  <2>5. CASE q # p
    <3>1. \A j \in 1 .. n : ws[j].at = q <=> vs[j].at = q
      BY <1>2, <1>c, <2>1, <2>5
    <3>. QED  BY <2>2, <2>3, <2>5, <3>1
  <2>. QED  BY <2>4, <2>5
<1>11. Bits(t)
  BY <1>3, <1>10 DEF Bits, ws
<1>. QED  BY <1>2, <1>9, <1>11 DEF Ranked, t, ws, vs

\* What veh_put does: the unit is on top of the place, and the others keep their order.
IsPut(n, s, r, i, p, t) ==
  /\ Ranked(n, t, Raised(n, r, i))
  /\ NoneAt(n, t, Lifted)
  /\ Same(n, s.vehs, t.vehs)
  /\ \A j \in 1 .. n : t.vehs[j].at = IF j = i THEN p ELSE s.vehs[j].at

LEMMA VehPutIs ==
    ASSUME NEW n \in Nat, NEW s, NEW r, Ranked(n, s, r), NoneAt(n, s, Lifted),
           NEW i \in 1 .. n, NEW p \in Places \ {Lifted}
    PROVE  IsPut(n, s, r, i, p, VehPut(s, i, p))
<1>. DEFINE u == VehLift(s, i)
            t == VehDrop(u, i, p)
<1>. HIDE DEF u, t
<1>1. s \in Tables(n) /\ OnlyAt(n, s, i, Lifted)
  BY DEF Ranked, NoneAt, OnlyAt
<1>2. Ranked(n, u, r)
  BY <1>1, LiftRanked DEF u
<1>2a. IsLifted(n, s, i, u)
  BY <1>1, VehLiftIs DEF u
<1>3. Same(n, s.vehs, u.vehs) /\ \A j \in 1 .. n : u.vehs[j].at = IF j = i THEN Lifted ELSE s.vehs[j].at
  BY <1>2a DEF IsLifted
<1>4. Lifted \in OffMap /\ u.vehs[i].at = Lifted /\ OnlyAt(n, u, i, Lifted) /\ p # Lifted /\ p \in Places
  BY <1>3 DEF NoneAt, OnlyAt, OffMap
<1>5. /\ Ranked(n, t, Raised(n, r, i)) /\ Same(n, u.vehs, t.vehs)
      /\ \A j \in 1 .. n : t.vehs[j].at = IF j = i THEN p ELSE u.vehs[j].at
  BY <1>2, <1>4, DropRanked DEF t
<1>6. Same(n, s.vehs, t.vehs)
  BY <1>3, <1>5, SameTwice
<1>7. \A j \in 1 .. n : t.vehs[j].at = IF j = i THEN p ELSE s.vehs[j].at
  BY <1>3, <1>5
<1>8. NoneAt(n, t, Lifted)
  BY <1>7, <1>4 DEF NoneAt
<1>9. VehPut(s, i, p) = t
  BY DEF VehPut, t, u
<1>. QED  BY <1>5, <1>6, <1>7, <1>8, <1>9 DEF IsPut

-----------------------------------------------------------------------------
(* Loops that put units, one after the other.                              *)

\* The rows of M come first, in the order turned over; the others keep theirs.
PutOrder(n, r, r2, M) ==
  \A i, j \in 1 .. n :
    IF i \in M THEN IF j \in M THEN r2[i] < r2[j] <=> r[j] < r[i] ELSE r2[i] < r2[j]
    ELSE j \notin M => (r2[i] < r2[j] <=> r[i] < r[j])

\* The rows of M are put at p.
MovesTo(n, s, r, M, p, t, r2) ==
  /\ Ranked(n, t, r2) /\ NoneAt(n, t, Lifted) /\ Same(n, s.vehs, t.vehs)
  /\ \A j \in 1 .. n : t.vehs[j].at = IF j \in M THEN p ELSE s.vehs[j].at
  /\ PutOrder(n, r, r2, M)

LEMMA RanksAreNumbers ==
    ASSUME NEW n \in Nat, NEW s, NEW r, Ranked(n, s, r)
    PROVE  \A j \in 1 .. n : r[j] \in Nat
BY DEF Ranked, Linked

\* One row more, that was ranked behind all those put before it.
LEMMA MovesOneMore ==
    ASSUME NEW n \in Nat, NEW s, NEW r, Ranked(n, s, r), NEW M, NEW p \in Places \ {Lifted},
           NEW t, NEW r2, MovesTo(n, s, r, M, p, t, r2),
           NEW i \in 1 .. n, i \notin M, \A j \in 1 .. n : j \in M => r[j] < r[i]
    PROVE  MovesTo(n, s, r, M \cup {i}, p, VehPut(t, i, p), Raised(n, r2, i))
<1>. DEFINE u == VehPut(t, i, p)
            r3 == Raised(n, r2, i)
<1>1. Ranked(n, t, r2) /\ NoneAt(n, t, Lifted) /\ Same(n, s.vehs, t.vehs)
  BY DEF MovesTo
<1>2. IsPut(n, t, r2, i, p, u)
  BY <1>1, VehPutIs
<1>3. r3[i] = 0 /\ \A j \in 1 .. n : j # i => r3[j] = r2[j] + 1
  BY DEF Raised
<1>4. \A j \in 1 .. n : r[j] \in Nat /\ r2[j] \in Nat
  BY <1>1, RanksAreNumbers
<1>. HIDE DEF u, r3
<1>5. Ranked(n, u, r3) /\ NoneAt(n, u, Lifted) /\ Same(n, t.vehs, u.vehs)
  BY <1>2 DEF IsPut, r3
<1>6. Same(n, s.vehs, u.vehs)
  BY <1>1, <1>5, SameTwice
<1>7. \A j \in 1 .. n : u.vehs[j].at = IF j \in M \cup {i} THEN p ELSE s.vehs[j].at
  <2>1. \A j \in 1 .. n : u.vehs[j].at = IF j = i THEN p ELSE t.vehs[j].at
    BY <1>2 DEF IsPut
  <2>2. \A j \in 1 .. n : t.vehs[j].at = IF j \in M THEN p ELSE s.vehs[j].at
    BY DEF MovesTo
  <2>. QED  BY <2>1, <2>2
<1>8. PutOrder(n, r, r2, M)
  BY DEF MovesTo
<1>9. ASSUME NEW j \in 1 .. n, NEW k \in 1 .. n
      PROVE  IF j \in M \cup {i}
             THEN IF k \in M \cup {i} THEN r3[j] < r3[k] <=> r[k] < r[j] ELSE r3[j] < r3[k]
             ELSE k \notin M \cup {i} => (r3[j] < r3[k] <=> r[j] < r[k])
  <2>1. CASE j = i /\ k = i
    BY <1>3, <1>4, <2>1
  <2>2. CASE j = i /\ k # i
    BY <1>3, <1>4, <2>2
  <2>3. CASE j # i /\ k = i
    BY <1>3, <1>4, <2>3
  <2>4. CASE j # i /\ k # i
    <3>1. r3[j] = r2[j] + 1 /\ r3[k] = r2[k] + 1
      BY <1>3, <2>4
    <3>2. r3[j] < r3[k] <=> r2[j] < r2[k]
      BY <1>4, <3>1
    <3>. QED  BY <1>8, <2>4, <3>2 DEF PutOrder
  <2>. QED  BY <2>1, <2>2, <2>3, <2>4
<1>10. PutOrder(n, r, r3, M \cup {i})
  BY <1>9 DEF PutOrder
<1>. QED  BY <1>5, <1>6, <1>7, <1>10 DEF MovesTo, u, r3

LEMMA MovesNone ==
    ASSUME NEW n \in Nat, NEW s, NEW r, Ranked(n, s, r), NoneAt(n, s, Lifted), NEW p
    PROVE  MovesTo(n, s, r, {}, p, s, r)
BY DEF MovesTo, PutOrder, Same

\* The rows of js are in the order of their ranks.
Ascends(n, r, js) ==
  /\ js \in Seq(1 .. n)
  /\ \A a \in 1 .. Len(js) : js[a] \in 1 .. n
  /\ \A a, b \in 1 .. Len(js) : a < b => r[js[a]] < r[js[b]]

\* The chosen ones among the first k of js, and what PutEach has done after them.
First(js, chosen, k) == {j \in chosen : \E a \in 1 .. k : js[a] = j}
Puts(n, s, r, M, p, x) ==
  /\ \E r2 : MovesTo(n, s, r, M, p, x.table, r2)
  /\ (x.last = 0 /\ M = {}) \/ x.last \in M

LEMMA FirstGrows ==
    ASSUME NEW n \in Nat, NEW r, \A j \in 1 .. n : r[j] \in Nat, NEW js, Ascends(n, r, js),
           NEW chosen, NEW k \in 1 .. Len(js)
    PROVE  /\ js[k] \in chosen => First(js, chosen, k) = First(js, chosen, k - 1) \cup {js[k]}
           /\ js[k] \notin chosen => First(js, chosen, k) = First(js, chosen, k - 1)
           /\ js[k] \notin First(js, chosen, k - 1)
           /\ \A j \in 1 .. n : j \in First(js, chosen, k - 1) => r[j] < r[js[k]]
<1>. DEFINE m == Len(js)
<1>0. m \in Nat
  BY DEF Ascends
<1>1. /\ \A a \in 1 .. m : js[a] \in 1 .. n
      /\ \A a, b \in 1 .. m : a < b => r[js[a]] < r[js[b]]
  BY DEF Ascends
<1>2. k \in 1 .. m
  OBVIOUS
<1>. HIDE DEF m
<1>3. \A a \in 1 .. k : a = k \/ a \in 1 .. k - 1
  BY <1>0, <1>2
<1>4. \A a \in 1 .. k - 1 : a \in 1 .. k /\ a < k /\ a \in 1 .. m
  BY <1>0, <1>2
<1>4a. k \in 1 .. k
  BY <1>0, <1>2
<1>5. js[k] \in chosen => First(js, chosen, k) = First(js, chosen, k - 1) \cup {js[k]}
  BY <1>3, <1>4, <1>4a DEF First
<1>6. js[k] \notin chosen => First(js, chosen, k) = First(js, chosen, k - 1)
  BY <1>3, <1>4 DEF First
<1>7. ASSUME NEW j \in First(js, chosen, k - 1)
      PROVE  r[j] < r[js[k]] /\ j # js[k]
  <2>1. PICK a \in 1 .. k - 1 : js[a] = j
    BY DEF First
  <2>2. r[js[a]] < r[js[k]] /\ js[a] \in 1 .. n /\ js[k] \in 1 .. n
    BY <1>1, <1>2, <1>4
  <2>. QED  BY <2>1, <2>2
<1>. QED  BY <1>5, <1>6, <1>7

LEMMA PutOneIs ==
    ASSUME NEW n \in Nat, NEW s, NEW r, Ranked(n, s, r), NEW js, Ascends(n, r, js),
           NEW chosen, NEW p \in Places \ {Lifted}, NEW k \in 1 .. Len(js), NEW x,
           Puts(n, s, r, First(js, chosen, k - 1), p, x)
    PROVE  Puts(n, s, r, First(js, chosen, k), p, PutOne(x, js[k], chosen, p))
<1>. DEFINE M == First(js, chosen, k - 1)
            N == First(js, chosen, k)
            i == js[k]
            y == PutOne(x, i, chosen, p)
<1>1. \A j \in 1 .. n : r[j] \in Nat
  BY RanksAreNumbers
<1>2. /\ i \in chosen => N = M \cup {i}
      /\ i \notin chosen => N = M
      /\ i \notin M
      /\ \A j \in 1 .. n : j \in M => r[j] < r[i]
  BY <1>1, FirstGrows
<1>3. i \in 1 .. n
  BY DEF Ascends
<1>4. Puts(n, s, r, M, p, x)
  OBVIOUS
<1>. HIDE DEF M, N, i
<1>5. CASE i \notin chosen
  BY <1>2, <1>4, <1>5 DEF PutOne, M, N, i
<1>6. CASE i \in chosen
  <2>1. PICK r2 : MovesTo(n, s, r, M, p, x.table, r2)
    BY <1>4 DEF Puts
  <2>2. MovesTo(n, s, r, M \cup {i}, p, VehPut(x.table, i, p), Raised(n, r2, i))
    BY <1>2, <1>3, <2>1, MovesOneMore
  <2>3. y.table = VehPut(x.table, i, p) /\ y.last = i
    BY <1>6 DEF PutOne
  <2>. HIDE DEF y
  <2>4. Puts(n, s, r, N, p, y)
    BY <1>2, <1>6, <2>2, <2>3 DEF Puts
  <2>. QED  BY <2>4 DEF y, N, i
<1>. QED  BY <1>5, <1>6

\* What PutEach returns.
LEMMA PutEachIs ==
    ASSUME NEW n \in Nat, NEW s, NEW r, Ranked(n, s, r), NoneAt(n, s, Lifted),
           NEW js, Ascends(n, r, js), NEW chosen, NEW p \in Places \ {Lifted}
    PROVE  Puts(n, s, r, First(js, chosen, Len(js)), p, PutEach(s, js, chosen, p))
<1>. DEFINE m == Len(js)
            S == {x \in [table : Tables(n), last : 0 .. n] :
                    NoneAt(n, x.table, Lifted) /\ \E r2 : Ranked(n, x.table, r2)}
            s0 == [table |-> s, last |-> 0]
            G == [k \in 1 .. m |-> [x \in S |-> PutOne(x, js[k], chosen, p)]]
<1>0. m \in Nat /\ \A a \in 1 .. m : js[a] \in 1 .. n
  BY DEF Ascends
<1>1. s0 \in S
  BY DEF Ranked
<1>2. \A k \in 1 .. m : \A x \in S : G[k][x] = PutOne(x, js[k], chosen, p)
  OBVIOUS
<1>. HIDE DEF m, G
<1>3. ASSUME NEW k \in 1 .. m, NEW x \in S
      PROVE  G[k][x] \in S
  <2>. DEFINE i == js[k]
              y == VehPut(x.table, i, p)
  <2>1. i \in 1 .. n /\ x.table \in Tables(n) /\ NoneAt(n, x.table, Lifted)
    BY <1>0
  <2>2. PICK r2 : Ranked(n, x.table, r2)
    OBVIOUS
  <2>3. IsPut(n, x.table, r2, i, p, y)
    BY <2>1, <2>2, VehPutIs
  <2>4. G[k][x] = IF i \in chosen THEN [table |-> y, last |-> i] ELSE x
    BY <1>2 DEF PutOne
  <2>. HIDE DEF y, i
  <2>5. y \in Tables(n) /\ NoneAt(n, y, Lifted) /\ Ranked(n, y, Raised(n, r2, i))
    BY <2>3 DEF IsPut, Ranked
  <2>6. [table |-> y, last |-> i] \in S
    BY <2>1, <2>5
  <2>. QED  BY <2>4, <2>6
<1>. DEFINE Run(h) == h = [k \in 0 .. m |-> IF k = 0 THEN s0 ELSE PutOne(h[k - 1], js[k], chosen, p)]
            after == CHOOSE h : Run(h)
<1>4. \E h : Run(h)
  <2>. HIDE DEF S, s0
  <2>1. PICK h : Loop(h, m, S, s0, G)
    BY <1>0, <1>1, <1>3, LoopExists
  <2>2. \A k \in 0 .. m : h[k] = IF k = 0 THEN s0 ELSE PutOne(h[k - 1], js[k], chosen, p)
    <3>. TAKE k \in 0 .. m
    <3>1. CASE k = 0
      BY <2>1, <3>1 DEF Loop
    <3>2. CASE k # 0
      <4>1. k \in 1 .. m /\ k - 1 \in 0 .. m
        BY <1>0, <3>2
      <4>2. h[k - 1] \in S /\ h[k] = G[k][h[k - 1]]
        BY <2>1, <4>1 DEF Loop
      <4>. QED  BY <1>2, <3>2, <4>1, <4>2
    <3>. QED  BY <3>1, <3>2
  <2>3. h = [k \in 0 .. m |-> h[k]]
    BY <2>1 DEF Loop
  <2>. QED  BY <2>2, <2>3
<1>5. Run(after)
  BY <1>4
<1>6. PutEach(s, js, chosen, p) = after[m]
  BY DEF PutEach, m
<1>. HIDE DEF after, S, s0
<1>7. \A k \in 0 .. m : after[k] = IF k = 0 THEN s0 ELSE PutOne(after[k - 1], js[k], chosen, p)
  BY <1>5
<1>. HIDE DEF Run
<1>. DEFINE R == {k \in 0 .. m : Puts(n, s, r, First(js, chosen, k), p, after[k])}
<1>8. 0 \in R
  <2>1. First(js, chosen, 0) = {}
    BY DEF First
  <2>2. after[0] = s0 /\ s0.table = s /\ s0.last = 0
    BY <1>0, <1>7 DEF s0
  <2>3. MovesTo(n, s, r, {}, p, s, r)
    BY MovesNone
  <2>4. Puts(n, s, r, {}, p, after[0])
    BY <2>2, <2>3 DEF Puts
  <2>. QED  BY <1>0, <2>1, <2>4
<1>9. ASSUME NEW k \in 1 .. m, k - 1 \in R
      PROVE  k \in R
  <2>1. k \in 0 .. m /\ k # 0 /\ k \in 1 .. Len(js)
    BY <1>0 DEF m
  <2>2. Puts(n, s, r, First(js, chosen, k - 1), p, after[k - 1])
    BY <1>9
  <2>3. after[k] = PutOne(after[k - 1], js[k], chosen, p)
    BY <1>7, <2>1
  <2>4. Puts(n, s, r, First(js, chosen, k), p, PutOne(after[k - 1], js[k], chosen, p))
    BY <2>1, <2>2, PutOneIs
  <2>. QED  BY <2>1, <2>3, <2>4
<1>. HIDE DEF R
<1>10. m \in R
  <2>1. \A k \in 0 .. m : k \in R
    BY <1>0, <1>8, <1>9, UpTo
  <2>. QED  BY <1>0, <2>1
<1>. QED  BY <1>6, <1>10 DEF R, m

\* The rows of the place of row i: all of them are met from its top down.
Beside(n, s, i) == IF i = 0 THEN {} ELSE {j \in 1 .. n : s.vehs[j].at = s.vehs[i].at}

LEMMA WholeStack ==
    ASSUME NEW n \in Nat, NEW s, NEW r, Ranked(n, s, r), NEW i \in 0 .. n, NEW chosen,
           NEW js, js = StackFrom(s.vehs, VehTop(s.vehs, i))
    PROVE  Ascends(n, r, js) /\ First(js, chosen, Len(js)) = chosen \cap Beside(n, s, i)
<1>. DEFINE vs == s.vehs
            top == VehTop(vs, i)
<1>1. vs \in Arrays(n) /\ Linked(n, vs, r)
  BY DEF Ranked, Tables
<1>2. CASE i = 0
  <2>1. Down(vs) \in [1 .. n -> 0 .. n]
    BY <1>1, VehFields
  <2>2. js = << >>
    <3>1. js = Path(Down(vs), 0)
      BY <1>2 DEF StackFrom, VehTop
    <3>. HIDE DEF vs
    <3>. QED  BY <2>1, <3>1, NoPath
  <2>3. Ascends(n, r, js)
    BY <2>2 DEF Ascends
  <2>4. First(js, chosen, Len(js)) = {}
    BY <2>2 DEF First
  <2>. QED  BY <1>2, <2>3, <2>4 DEF Beside
<1>3. CASE i # 0
  <2>0. i \in 1 .. n
    BY <1>3
  <2>. HIDE DEF vs, top
  <2>1. /\ top \in 1 .. n /\ vs[top].at = vs[i].at
        /\ \A j \in 1 .. n : vs[j].at = vs[i].at => r[top] <= r[j]
    BY <1>1, <2>0, VehTopIs DEF top
  <2>2. IsStack(n, vs, r, top, js)
    BY <1>1, <2>1, StackFromIs DEF vs, top
  <2>3. Ascends(n, r, js)
    BY <2>2 DEF IsStack, Ascends
  <2>4. \A a \in 1 .. Len(js) : js[a] \in 1 .. n /\ vs[js[a]].at = vs[i].at
    BY <2>1, <2>2 DEF IsStack
  <2>5. \A j \in 1 .. n : vs[j].at = vs[i].at => \E a \in 1 .. Len(js) : js[a] = j
    BY <2>1, <2>2 DEF IsStack
  <2>6. Beside(n, s, i) = {j \in 1 .. n : vs[j].at = vs[i].at}
    BY <1>3 DEF Beside, vs
  <2>. DEFINE m == Len(js)
  <2>. HIDE DEF m
  <2>7. \A j : (\E a \in 1 .. m : js[a] = j) <=> j \in Beside(n, s, i)
    BY <2>4, <2>5, <2>6 DEF m
  <2>8. First(js, chosen, m) = chosen \cap Beside(n, s, i)
    BY <2>7 DEF First
  <2>. QED  BY <2>3, <2>8 DEF m
<1>. QED  BY <1>2, <1>3

\* What stack_put returns.
LEMMA StackPutIs ==
    ASSUME NEW n \in Nat, NEW s, NEW r, Ranked(n, s, r), NoneAt(n, s, Lifted),
           NEW i \in 0 .. n, NEW p \in Places \ {Lifted}
    PROVE  \E r2 : MovesTo(n, s, r, Beside(n, s, i), p, StackPut(s, i, p), r2)
<1>. DEFINE js == StackFrom(s.vehs, VehTop(s.vehs, i))
            chosen == DOMAIN s.vehs
            x == PutEach(s, js, chosen, p)
<1>0. s \in Tables(n) /\ chosen = 1 .. n
  BY TableFields DEF Ranked
<1>1. StackPut(s, i, p) = x.table
  BY DEF StackPut
<1>2. js = StackFrom(s.vehs, VehTop(s.vehs, i))
  OBVIOUS
<1>. HIDE DEF js, chosen, x
<1>3. Ascends(n, r, js) /\ First(js, chosen, Len(js)) = chosen \cap Beside(n, s, i)
  BY <1>2, WholeStack
<1>4. chosen \cap Beside(n, s, i) = Beside(n, s, i)
  BY <1>0 DEF Beside
<1>5. Puts(n, s, r, First(js, chosen, Len(js)), p, x)
  BY <1>3, PutEachIs DEF x
<1>. QED  BY <1>1, <1>3, <1>4, <1>5 DEF Puts

\* All units stay where they are.
Stayed(n, s, t, r2) ==
  /\ Ranked(n, t, r2) /\ Same(n, s.vehs, t.vehs)
  /\ \A j \in 1 .. n : t.vehs[j].at = s.vehs[j].at

\* The rows of M are before the others; otherwise the order is what it was.
SortOrder(n, r, r2, M) ==
  /\ \A i, j \in 1 .. n : i \in M /\ j \notin M => r2[i] < r2[j]
  /\ \A i, j \in 1 .. n : (i \in M <=> j \in M) => (r2[i] < r2[j] <=> r[i] < r[j])

\* What stack_sort returns.
LEMMA StackSortIs ==
    ASSUME NEW n \in Nat, NEW s, NEW r, Ranked(n, s, r), NoneAt(n, s, Lifted), NoneAt(n, s, Sorting),
           NEW i \in 1 .. n
    PROVE  \E r2 : /\ Stayed(n, s, StackSort(s, i), r2)
                   /\ SortOrder(n, r, r2, Carriers(s.vehs) \cap Beside(n, s, i))
<1>. DEFINE js == StackFrom(s.vehs, VehTop(s.vehs, i))
            chosen == Carriers(s.vehs)
            M == chosen \cap Beside(n, s, i)
            x == PutEach(s, js, chosen, Sorting)
            p == s.vehs[i].at
            t == StackPut(x.table, x.last, p)
<1>0. s \in Tables(n) /\ chosen \in SUBSET (1 .. n) /\ Beside(n, s, i) \in SUBSET (1 .. n)
  BY TableFields DEF Ranked, Carriers, Beside
<1>1. StackSort(s, i) = t
  BY DEF StackSort
<1>2. js = StackFrom(s.vehs, VehTop(s.vehs, i))
  OBVIOUS
<1>3. Sorting \in Places \ {Lifted}
  BY DEF Places, OffMap, Sorting, Lifted
<1>4. p \in Places \ {Lifted} /\ p # Sorting
  BY <1>0, TableFields, VehFields DEF NoneAt
<1>5. M \in SUBSET (1 .. n) /\ \A j \in M : s.vehs[j].at = p
  BY <1>0 DEF Beside
<1>. HIDE DEF js, chosen, x, M, p, t
<1>6. Ascends(n, r, js) /\ First(js, chosen, Len(js)) = M
  <2>1. i \in 0 .. n
    OBVIOUS
  <2>2. Ascends(n, r, js) /\ First(js, chosen, Len(js)) = chosen \cap Beside(n, s, i)
    BY <1>2, <2>1, WholeStack
  <2>. QED  BY <2>2 DEF M
<1>7. Puts(n, s, r, M, Sorting, x)
  BY <1>3, <1>6, PutEachIs DEF x
<1>8. PICK r1 : MovesTo(n, s, r, M, Sorting, x.table, r1)
  BY <1>7 DEF Puts
<1>9. /\ Ranked(n, x.table, r1) /\ NoneAt(n, x.table, Lifted) /\ Same(n, s.vehs, x.table.vehs)
      /\ \A j \in 1 .. n : x.table.vehs[j].at = IF j \in M THEN Sorting ELSE s.vehs[j].at
      /\ PutOrder(n, r, r1, M)
  BY <1>8 DEF MovesTo
<1>10. x.last \in 0 .. n /\ Beside(n, x.table, x.last) = M
  <2>1. CASE x.last = 0 /\ M = {}
    BY <2>1 DEF Beside
  <2>2. CASE x.last \in M
    <3>1. x.last \in 1 .. n /\ x.last # 0
      BY <1>5, <2>2
    <3>2. \A j \in 1 .. n : s.vehs[j].at # Sorting
      BY DEF NoneAt
    <3>3. \A j \in 1 .. n : x.table.vehs[j].at = x.table.vehs[x.last].at <=> j \in M
      BY <1>9, <2>2, <3>1, <3>2
    <3>4. Beside(n, x.table, x.last) = {j \in 1 .. n : x.table.vehs[j].at = x.table.vehs[x.last].at}
      BY <3>1 DEF Beside
    <3>5. Beside(n, x.table, x.last) = M
      BY <1>5, <3>3, <3>4
    <3>. QED  BY <3>1, <3>5
  <2>. QED  BY <1>7, <2>1, <2>2 DEF Puts
<1>11. PICK r2 : MovesTo(n, x.table, r1, M, p, t, r2)
  <2>1. \E r2 : MovesTo(n, x.table, r1, Beside(n, x.table, x.last), p, t, r2)
    BY <1>4, <1>9, <1>10, StackPutIs DEF t
  <2>. QED  BY <1>10, <2>1
<1>12. /\ Ranked(n, t, r2) /\ Same(n, x.table.vehs, t.vehs)
       /\ \A j \in 1 .. n : t.vehs[j].at = IF j \in M THEN p ELSE x.table.vehs[j].at
       /\ PutOrder(n, r1, r2, M)
  BY <1>11 DEF MovesTo
<1>13. Same(n, s.vehs, t.vehs)
  BY <1>9, <1>12, SameTwice
<1>14. \A j \in 1 .. n : t.vehs[j].at = s.vehs[j].at
  BY <1>5, <1>9, <1>12
<1>15. SortOrder(n, r, r2, M)
  BY <1>9, <1>12 DEF PutOrder, SortOrder
<1>. QED  BY <1>1, <1>12, <1>13, <1>14, <1>15 DEF Stayed, M, chosen

\* What veh_promote returns: the unit is on top of its place.
PromoteOrder(n, vs, r, r2, i) ==
  /\ \A j \in 1 .. n : j # i /\ vs[j].at = vs[i].at => r2[i] < r2[j]
  /\ \A j, k \in 1 .. n : j # i /\ k # i => (r2[j] < r2[k] <=> r[j] < r[k])

LEMMA VehPromoteIs ==
    ASSUME NEW n \in Nat, NEW s, NEW r, Ranked(n, s, r), NoneAt(n, s, Lifted), NEW i \in 1 .. n
    PROVE  \E r2 : Stayed(n, s, VehPromote(s, i), r2) /\ PromoteOrder(n, s.vehs, r, r2, i)
<1>. DEFINE vs == s.vehs
            top == VehTop(vs, i)
<1>1. vs \in Arrays(n) /\ Linked(n, vs, r) /\ s \in Tables(n)
  BY DEF Ranked, Tables
<1>1a. \A j \in 1 .. n : r[j] \in Nat
  BY RanksAreNumbers
<1>1b. \A j, k \in 1 .. n : j # k /\ vs[j].at = vs[k].at => r[j] # r[k]
  BY <1>1 DEF Linked
<1>1c. \A j \in 1 .. n : vs[j].at \in Places
  BY <1>1, VehFields
<1>2. VehPromote(s, i) = IF top = i THEN s ELSE VehPut(s, i, vs[top].at)
  BY DEF VehPromote
<1>. HIDE DEF vs, top
<1>3. /\ top \in 1 .. n /\ vs[top].at = vs[i].at
      /\ \A j \in 1 .. n : vs[j].at = vs[i].at => r[top] <= r[j]
  BY <1>1, VehTopIs DEF top
<1>4. CASE top = i
  <2>1. Stayed(n, s, s, r)
    BY DEF Stayed, Same
  <2>2. PromoteOrder(n, vs, r, r, i)
    BY <1>1a, <1>1b, <1>3, <1>4 DEF PromoteOrder
  <2>. QED  BY <1>2, <1>4, <2>1, <2>2 DEF vs
<1>5. CASE top # i
  <2>. DEFINE t == VehPut(s, i, vs[top].at)
              r2 == Raised(n, r, i)
  <2>1. vs[top].at \in Places \ {Lifted}
    BY <1>1c, <1>3 DEF NoneAt, vs
  <2>2. IsPut(n, s, r, i, vs[top].at, t)
    BY <2>1, VehPutIs
  <2>3. r2[i] = 0 /\ \A j \in 1 .. n : j # i => r2[j] = r[j] + 1
    BY DEF Raised
  <2>. HIDE DEF t, r2
  <2>4. PromoteOrder(n, vs, r, r2, i)
    BY <1>1a, <2>3 DEF PromoteOrder
  <2>5. Stayed(n, s, t, r2)
    BY <1>3, <2>2 DEF IsPut, Stayed, vs, r2
  <2>6. VehPromote(s, i) = t
    BY <1>2, <1>5 DEF t
  <2>. QED  BY <2>4, <2>5, <2>6 DEF vs
<1>. QED  BY <1>4, <1>5

\* Row i gets another place and another row above it.
RowUnder(vs, i, a, y) == [vs EXCEPT ![i] = [vs[i] EXCEPT !.prev = y, !.at = a]]
IsRowUnder(n, vs, i, a, y, ws) ==
  /\ ws \in Arrays(n) /\ Same(n, vs, ws)
  /\ \A j \in 1 .. n : /\ ws[j].at = IF j = i THEN a ELSE vs[j].at
                       /\ ws[j].next = vs[j].next
                       /\ ws[j].prev = IF j = i THEN y ELSE vs[j].prev

LEMMA RowUnderIs ==
    ASSUME NEW n \in Nat, NEW vs \in Arrays(n), NEW i \in 1 .. n, NEW a \in Places, NEW y \in 0 .. n
    PROVE  IsRowUnder(n, vs, i, a, y, RowUnder(vs, i, a, y))
<1>. DEFINE old == vs[i]
            v == [old EXCEPT !.prev = y, !.at = a]
            ws == RowUnder(vs, i, a, y)
<1>1. old \in Veh(n) /\ DOMAIN vs = 1 .. n
  BY VehFields
<1>2. ws = [vs EXCEPT ![i] = v]
  BY DEF RowUnder
<1>. HIDE DEF old, ws
<1>3. /\ v \in Veh(n) /\ v.at = a /\ v.next = old.next /\ v.prev = y
      /\ v.unit = old.unit /\ v.order = old.order /\ v.on = old.on
  BY <1>1 DEF Veh
<1>. HIDE DEF v
<1>4. ws \in Arrays(n) /\ \A j \in 1 .. n : ws[j] = IF j = i THEN v ELSE vs[j]
  BY <1>1, <1>2, <1>3 DEF Arrays
<1>5. Same(n, vs, ws)
  BY <1>3, <1>4 DEF Same, old
<1>6. IsRowUnder(n, vs, i, a, y, ws)
  BY <1>3, <1>4, <1>5 DEF IsRowUnder, old
<1>. QED  BY <1>6 DEF ws

\* What veh_demote returns: the units stay where they are.
DemoteOrder(n, vs, r, r2, i) ==
  /\ \A j \in 1 .. n : j # i /\ vs[j].at = vs[i].at => r2[j] < r2[i]
  /\ \A j, k \in 1 .. n : j # i /\ k # i => (r2[j] < r2[k] <=> r[j] < r[k])

LEMMA VehDemoteIs ==
    ASSUME NEW n \in Nat, NEW s, NEW r, Ranked(n, s, r), NoneAt(n, s, Lifted), NEW i \in 1 .. n
    PROVE  \E r2 : Stayed(n, s, VehDemote(s, i), r2) /\ DemoteOrder(n, s.vehs, r, r2, i)
<1>. DEFINE vs == s.vehs
            d == vs[i].next
            js == StackFrom(vs, d)
            u == VehLift(s, i)
            us == u.vehs
            last == Last(js)
<1>1. vs \in Arrays(n) /\ Linked(n, vs, r) /\ s \in Tables(n) /\ Bits(s)
  BY DEF Ranked, Tables
<1>2. d \in 0 .. n /\ Down(vs) \in [1 .. n -> 0 .. n]
  BY <1>1, VehFields
<1>3. CASE d = 0
  <2>1. js = Path(Down(vs), 0)
    BY <1>3 DEF StackFrom
  <2>2. js = << >>
    <3>. HIDE DEF vs, js
    <3>. QED  BY <1>2, <2>1, NoPath
  <2>3. VehDemote(s, i) = s
    <3>1. StackFrom(s.vehs, s.vehs[i].next) = << >>
      BY <2>2
    <3>. QED  BY <3>1 DEF VehDemote
  <2>4. Stayed(n, s, s, r)
    BY DEF Stayed, Same
  <2>5. ASSUME NEW j \in 1 .. n, j # i, vs[j].at = vs[i].at
        PROVE  r[j] < r[i]
    <3>1. r[j] \in Nat /\ r[i] \in Nat /\ r[j] # r[i]
      BY <1>1, <2>5 DEF Linked
    <3>2. ~ (r[i] < r[j])
      BY <1>1, <1>3, <2>5 DEF Linked
    <3>. QED  BY <3>1, <3>2
  <2>6. DemoteOrder(n, s.vehs, r, r, i)
    BY <2>5 DEF DemoteOrder
  <2>. QED  BY <2>3, <2>4, <2>6
<1>4. CASE d # 0
  <2>0. d \in 1 .. n /\ vs[d].at = vs[i].at /\ r[i] < r[d] /\ \A j \in 1 .. n : r[j] \in Nat
    BY <1>1, <1>2, <1>4 DEF Linked
  <2>a. IsStack(n, vs, r, d, js)
    <3>. HIDE DEF vs, d
    <3>. QED  BY <1>1, <2>0, StackFromIs
  <2>b. StackFrom(s.vehs, s.vehs[i].next) = js
    OBVIOUS
  <2>c. \A j \in 1 .. n : vs[j].prev = s.vehs[j].prev /\ vs[j].next = s.vehs[j].next /\ vs[j].at = s.vehs[j].at
    OBVIOUS
  <2>. DEFINE ws == SetNext(us, last, i)
              a == ws[last].at
              xs == RowUnder(ws, i, a, last)
              t == VehDemote(s, i)
  <2>d. t = IF js = << >> THEN s ELSE [u EXCEPT !.vehs = xs]
    BY DEF VehDemote, RowUnder
  <2>e. last = js[Len(js)]
    BY DEF Last
  <2>. HIDE DEF js, d, t, xs, a, ws
  <2>1. js \in Seq(1 .. n) /\ Len(js) \in 1 .. n
    BY <2>a DEF IsStack
  <2>1a. Len(js) \in 1 .. n
    BY <2>1
  <2>2. js # << >>
    BY <2>1
  <2>3. Len(js) \in 1 .. Len(js)
    BY <2>1
  <2>4. last \in 1 .. n /\ vs[last].at = vs[i].at /\ vs[last].next = 0
    BY <2>0, <2>3, <2>a, <2>e DEF IsStack
  <2>5. r[d] <= r[last]
    <3>1. js[1] = d /\ \A e, f \in 1 .. Len(js) : e < f => r[js[e]] < r[js[f]]
      BY <2>a DEF IsStack
    <3>2. CASE Len(js) = 1
      <4>1. last = d
        BY <2>e, <3>1, <3>2
      <4>. QED  BY <2>0, <4>1
    <3>3. CASE Len(js) # 1
      <4>. DEFINE l == Len(js)
      <4>. HIDE DEF l
      <4>0. l \in 1 .. n /\ l # 1
        BY <2>1a, <3>3 DEF l
      <4>1a. 1 < l /\ 1 \in 1 .. l
        BY <4>0
      <4>1. 1 < Len(js) /\ 1 \in 1 .. Len(js)
        BY <4>1a DEF l
      <4>2. r[js[1]] < r[last]
        BY <2>3, <2>e, <3>1, <4>1
      <4>. QED  BY <2>0, <2>4, <3>1, <4>2
    <3>. QED  BY <3>2, <3>3
  <2>. HIDE DEF last
  <2>6. last # i /\ last # vs[i].prev
    <3>1. last # i
      BY <2>0, <2>4, <2>5
    <3>2. ASSUME last = vs[i].prev
          PROVE  FALSE
      <4>1. r[last] < r[i]
        BY <1>1, <2>4, <3>2 DEF Linked
      <4>. QED  BY <2>0, <2>4, <2>5, <4>1
    <3>. QED  BY <3>1, <3>2
  <2>7. OnlyAt(n, s, i, Lifted) /\ vs[last].at # Lifted
    BY <2>4 DEF NoneAt, OnlyAt
  <2>8. Ranked(n, u, r)
    BY <2>7, LiftRanked
  <2>9. IsLifted(n, s, i, u)
    BY <1>1, VehLiftIs
  <2>10. t = [u EXCEPT !.vehs = xs]
    BY <2>d, <2>2
  <2>. HIDE DEF u
  <2>11. us \in Arrays(n) /\ Linked(n, us, r) /\ u \in Tables(n) /\ Bits(u)
    BY <2>8 DEF Ranked, Tables
  <2>10a. t.vehs = xs /\ t.inTile = u.inTile /\ t = [vehs |-> xs, inTile |-> u.inTile]
    BY <2>10, <2>11 DEF Tables
  <2>12. /\ us[last].at = vs[i].at /\ us[last].next = 0 /\ us[i].at = Lifted
         /\ \A j \in 1 .. n : us[j].at = IF j = i THEN Lifted ELSE vs[j].at
    BY <2>4, <2>6, <2>9 DEF IsLifted
  <2>. HIDE DEF us, vs
  <2>13. i \in 0 .. n /\ last \in 0 .. n
    BY <2>4
  <2>14. IsSetNext(n, us, last, i, ws) /\ ws \in Arrays(n)
    <3>1. IsSetNext(n, us, last, i, ws)
      BY <2>11, <2>13, SetNextIs DEF ws
    <3>. QED  BY <3>1 DEF IsSetNext
  <2>15. a = us[last].at /\ a \in Places
    <3>1. ws[last].at = us[last].at
      BY <2>4, <2>14 DEF IsSetNext
    <3>2. us[last].at \in Places
      BY <2>4, <2>11, VehFields
    <3>. QED  BY <3>1, <3>2 DEF a
  <2>16. IsRowUnder(n, ws, i, a, last, xs)
    BY <2>13, <2>14, <2>15, RowUnderIs DEF xs
  <2>17. xs \in Arrays(n) /\ Same(n, vs, xs)
    <3>1. Same(n, vs, us)
      BY <2>9 DEF IsLifted, vs, us
    <3>2. Same(n, us, ws)
      BY <2>14 DEF IsSetNext
    <3>3. Same(n, ws, xs) /\ xs \in Arrays(n)
      BY <2>16 DEF IsRowUnder
    <3>. QED  BY <3>1, <3>2, <3>3, SameTwice
  <2>18. \A j \in 1 .. n : /\ xs[j].at = IF j = i THEN a ELSE us[j].at
                           /\ xs[j].next = IF j = last THEN i ELSE us[j].next
                           /\ xs[j].prev = IF j = i THEN last ELSE us[j].prev
    BY <2>14, <2>16 DEF IsSetNext, IsRowUnder
  <2>19. /\ \A j \in 1 .. n : At(us)[j] = us[j].at /\ Down(us)[j] = us[j].next /\ Up(us)[j] = us[j].prev
         /\ \A j \in 1 .. n : At(xs)[j] = xs[j].at /\ Down(xs)[j] = xs[j].next /\ Up(xs)[j] = xs[j].prev
    BY <2>11, <2>17, VehFields
  <2>20. Chain(n, At(us), Down(us), Up(us), r)
    BY <2>11, LinkedIsChain
  <2>21. Below(n, At(us), Down(us), Up(us), i, last, At(xs), Down(xs), Up(xs))
    <3>1. Alone(n, At(us), i, At(us)[i])
      BY <2>7, <2>12, <2>19 DEF Alone, NoneAt, vs
    <3>2. At(us)[last] # At(us)[i] /\ Down(us)[last] = 0
      BY <2>4, <2>7, <2>12, <2>19
    <3>3. \A j \in 1 .. n : /\ At(xs)[j] = IF j = i THEN At(us)[last] ELSE At(us)[j]
                            /\ Down(xs)[j] = IF j = last THEN i ELSE Down(us)[j]
                            /\ Up(xs)[j] = IF j = i THEN last ELSE Up(us)[j]
      BY <2>4, <2>15, <2>18, <2>19
    <3>. QED  BY <3>1, <3>2, <3>3 DEF Below
  <2>. DEFINE r2 == Lowered(n, r, i, last)
  <2>. HIDE DEF r2
  <2>22. Chain(n, At(xs), Down(xs), Up(xs), r2)
    BY <2>4, <2>20, <2>21, ChainAppend DEF r2
  <2>23. Linked(n, xs, r2)
    BY <2>17, <2>22, LinkedIsChain
  <2>24. \A j \in 1 .. n : xs[j].at = vs[j].at
    BY <2>12, <2>15, <2>18
  <2>25. t \in Tables(n)
    BY <2>10a, <2>11, <2>17, TableFields DEF Tables
  <2>26. ASSUME NEW q \in Tiles
         PROVE  t.inTile[q] <=> \E j \in 1 .. n : xs[j].at = q
    <3>1. q # Lifted
      BY OffMapIsNoTile DEF OffMap
    <3>2. u.inTile[q] <=> \E j \in 1 .. n : us[j].at = q
      BY <2>11, TableFields DEF Bits, us
    <3>3. (\E j \in 1 .. n : us[j].at = q) <=> \E j \in 1 .. n : vs[j].at = q
      <4>1. ASSUME NEW j \in 1 .. n, us[j].at = q
            PROVE  vs[j].at = q
        BY <2>12, <3>1, <4>1
      <4>2. ASSUME NEW j \in 1 .. n, vs[j].at = q
            PROVE  \E k \in 1 .. n : us[k].at = q
        <5>1. CASE j = i
          BY <2>4, <2>12, <4>2, <5>1
        <5>2. CASE j # i
          BY <2>12, <4>2, <5>2
        <5>. QED  BY <5>1, <5>2
      <4>. QED  BY <4>1, <4>2
    <3>. QED  BY <2>10a, <2>24, <3>2, <3>3
  <2>27. Bits(t)
    <3>1. DOMAIN t.vehs = 1 .. n
      BY <2>25, TableFields
    <3>. QED  BY <2>10a, <2>26, <3>1 DEF Bits
  <2>28. Stayed(n, s, t, r2)
    BY <2>10a, <2>17, <2>23, <2>24, <2>25, <2>27 DEF Stayed, Ranked, vs
  <2>29. \A j \in 1 .. n : vs[j].at = vs[i].at => r[j] <= r[last]
    <3>. TAKE j \in 1 .. n
    <3>1. ASSUME r[last] < r[j], vs[j].at = vs[i].at
          PROVE  FALSE
      BY <1>1, <2>4, <3>1 DEF Linked
    <3>. QED  BY <2>0, <2>4, <3>1
  <2>30. \A j \in 1 .. n : r2[j] = IF j = i THEN r[last] + 1 ELSE r[j]
    BY DEF r2, Lowered
  <2>31. DemoteOrder(n, vs, r, r2, i)
    <3>1. \A j \in 1 .. n : j # i /\ vs[j].at = vs[i].at => r2[j] < r2[i]
      BY <2>0, <2>4, <2>29, <2>30
    <3>2. \A j, k \in 1 .. n : j # i /\ k # i => (r2[j] < r2[k] <=> r[j] < r[k])
      BY <2>30
    <3>. QED  BY <3>1, <3>2 DEF DemoteOrder
  <2>. QED  BY <2>28, <2>31 DEF t, vs
<1>. QED  BY <1>2, <1>3, <1>4

-----------------------------------------------------------------------------
(* The order that stack_fix makes.                                         *)

LEMMA StayedTwice ==
    ASSUME NEW n \in Nat, NEW s, NEW t, NEW u, NEW r1, NEW r2, Stayed(n, s, t, r1), Stayed(n, t, u, r2)
    PROVE  Stayed(n, s, u, r2)
<1>1. Same(n, s.vehs, t.vehs) /\ Same(n, t.vehs, u.vehs)
  BY DEF Stayed
<1>2. Same(n, s.vehs, u.vehs)
  BY <1>1, SameTwice
<1>. QED  BY <1>2 DEF Stayed

LEMMA StayedNone ==
    ASSUME NEW n \in Nat, NEW s, NEW t, NEW r2, Stayed(n, s, t, r2), NEW p, NoneAt(n, s, p)
    PROVE  NoneAt(n, t, p)
BY DEF Stayed, NoneAt

LEMMA StayedCarriers ==
    ASSUME NEW n \in Nat, NEW s \in Tables(n), NEW t, NEW r2, Stayed(n, s, t, r2)
    PROVE  Carriers(t.vehs) = Carriers(s.vehs)
<1>1. DOMAIN s.vehs = 1 .. n /\ DOMAIN t.vehs = 1 .. n
  BY TableFields DEF Stayed, Ranked
<1>2. \A j \in 1 .. n : t.vehs[j].unit = s.vehs[j].unit
  BY DEF Stayed, Same
<1>3. \A j \in 1 .. n : Cargo(t.vehs[j]) = Cargo(s.vehs[j])
  BY <1>2 DEF Cargo
<1>. QED  BY <1>1, <1>3 DEF Carriers

\* The rows that are not in M keep their order.
KeepsOrder(n, r, r2, M) ==
  \A j, k \in 1 .. n : j \notin M /\ k \notin M => (r2[j] < r2[k] <=> r[j] < r[k])
AtPlace(n, vs, q) == {j \in 1 .. n : vs[j].at = q}

\* What one round of stack_fix does to the order at q: row m is first of its kind.
FixStep(n, vs, q, m, r, r2) ==
  IF vs[m].at # q THEN r2 = r
  ELSE /\ KeepsOrder(n, r, r2, AtPlace(n, vs, q))
       /\ \A j, k \in 1 .. n : j # k /\ vs[j].at = q /\ vs[k].at = q =>
            /\ j \in Carriers(vs) /\ k \notin Carriers(vs) => r2[j] < r2[k]
            /\ (j \in Carriers(vs) <=> k \in Carriers(vs)) =>
                 IF j = m THEN r2[j] < r2[k] ELSE k # m => (r2[j] < r2[k] <=> r[j] < r[k])

LEMMA FixRowIs ==
    ASSUME NEW n \in Nat, NEW s \in Tables(n), NoneAt(n, s, Lifted), NoneAt(n, s, Sorting),
           NEW i \in 1 .. n, NEW m \in 1 .. n, NEW t, NEW r, Stayed(n, s, t, r)
    PROVE  \E r2 : Stayed(n, s, FixRow(t, i, m), r2) /\ FixStep(n, s.vehs, s.vehs[i].at, m, r, r2)
<1>. DEFINE vs == s.vehs
            q == vs[i].at
            u == VehPromote(t, m)
            v == StackSort(u, i)
<1>0. t.vehs[i].at = q /\ t.vehs[m].at = vs[m].at /\ \A j \in 1 .. n : t.vehs[j].at = vs[j].at
  BY DEF Stayed
<1>1. FixRow(t, i, m) = IF vs[m].at = q THEN v ELSE t
  BY <1>0 DEF FixRow
<1>. HIDE DEF q, u, v, vs
<1>2. CASE vs[m].at # q
  <2>1. FixStep(n, vs, q, m, r, r)
    BY <1>2 DEF FixStep
  <2>. QED  BY <1>1, <1>2, <2>1 DEF vs, q
<1>3. CASE vs[m].at = q
  <2>0. Ranked(n, t, r) /\ NoneAt(n, t, Lifted) /\ NoneAt(n, t, Sorting)
    BY StayedNone DEF Stayed
  <2>1. PICK r1 : Stayed(n, t, u, r1) /\ PromoteOrder(n, t.vehs, r, r1, m)
    BY <2>0, VehPromoteIs DEF u
  <2>2. Stayed(n, s, u, r1)
    BY <2>1, StayedTwice
  <2>3. Ranked(n, u, r1) /\ NoneAt(n, u, Lifted) /\ NoneAt(n, u, Sorting)
    BY <2>2, StayedNone DEF Stayed
  <2>. DEFINE M == Carriers(u.vehs) \cap Beside(n, u, i)
  <2>4. PICK r2 : Stayed(n, u, v, r2) /\ SortOrder(n, r1, r2, M)
    BY <2>3, StackSortIs DEF v
  <2>5. Stayed(n, s, v, r2)
    BY <2>2, <2>4, StayedTwice
  <2>6. \A j \in 1 .. n : j \in M <=> vs[j].at = q /\ j \in Carriers(vs)
    <3>1. Carriers(u.vehs) = Carriers(vs)
      BY <2>2, StayedCarriers DEF vs
    <3>2. Beside(n, u, i) = {j \in 1 .. n : u.vehs[j].at = u.vehs[i].at}
      BY DEF Beside
    <3>3. \A j \in 1 .. n : u.vehs[j].at = vs[j].at
      BY <2>2 DEF Stayed, vs
    <3>4. u.vehs[i].at = q
      BY <3>3 DEF q
    <3>. QED  BY <3>1, <3>2, <3>3, <3>4
  <2>. HIDE DEF M
  <2>7. /\ \A j \in 1 .. n : j # m /\ vs[j].at = q => r1[m] < r1[j]
        /\ \A j, k \in 1 .. n : j # m /\ k # m => (r1[j] < r1[k] <=> r[j] < r[k])
    BY <1>0, <1>3, <2>1 DEF PromoteOrder
  <2>8. ASSUME NEW j \in 1 .. n, NEW k \in 1 .. n, j # k, vs[j].at = q, vs[k].at = q
        PROVE  /\ j \in Carriers(vs) /\ k \notin Carriers(vs) => r2[j] < r2[k]
               /\ (j \in Carriers(vs) <=> k \in Carriers(vs)) =>
                    IF j = m THEN r2[j] < r2[k] ELSE k # m => (r2[j] < r2[k] <=> r[j] < r[k])
    <3>1. (j \in M <=> j \in Carriers(vs)) /\ (k \in M <=> k \in Carriers(vs))
      BY <2>6, <2>8
    <3>2. j \in Carriers(vs) /\ k \notin Carriers(vs) => r2[j] < r2[k]
      BY <2>4, <3>1 DEF SortOrder
    <3>3. (j \in Carriers(vs) <=> k \in Carriers(vs)) => (r2[j] < r2[k] <=> r1[j] < r1[k])
      BY <2>4, <3>1 DEF SortOrder
    <3>4. j = m => r1[j] < r1[k]
      BY <2>7, <2>8
    <3>5. j # m /\ k # m => (r1[j] < r1[k] <=> r[j] < r[k])
      BY <2>7
    <3>. QED  BY <3>2, <3>3, <3>4, <3>5
  <2>8a. KeepsOrder(n, r, r2, AtPlace(n, vs, q))
    <3>1. ASSUME NEW j \in 1 .. n, NEW k \in 1 .. n, vs[j].at # q, vs[k].at # q
          PROVE  r2[j] < r2[k] <=> r[j] < r[k]
      <4>1. j \notin M /\ k \notin M /\ j # m /\ k # m
        BY <1>3, <2>6, <3>1
      <4>2. r2[j] < r2[k] <=> r1[j] < r1[k]
        BY <2>4, <4>1 DEF SortOrder
      <4>3. r1[j] < r1[k] <=> r[j] < r[k]
        BY <2>7, <4>1
      <4>. QED  BY <4>2, <4>3
    <3>. QED  BY <3>1 DEF KeepsOrder, AtPlace
  <2>9. FixStep(n, vs, q, m, r, r2)
    BY <1>3, <2>8, <2>8a DEF FixStep
  <2>. QED  BY <1>1, <1>3, <2>5, <2>9 DEF vs, q
<1>. QED  BY <1>2, <1>3

\* After m rounds the rows up to m are in the order of the array, above the later ones.
FixOrder(n, vs, q, m, r) ==
  \A j, k \in 1 .. n : j # k /\ vs[j].at = q /\ vs[k].at = q =>
    /\ (\E a \in 1 .. m : vs[a].at = q) /\ j \in Carriers(vs) /\ k \notin Carriers(vs) => r[j] < r[k]
    /\ j <= m /\ (k < j \/ m < k) /\ (j \in Carriers(vs) <=> k \in Carriers(vs)) => r[j] < r[k]

LEMMA FixOrderGrows ==
    ASSUME NEW n \in Nat, NEW vs, NEW q, NEW m \in 1 .. n, NEW r, NEW r2,
           FixOrder(n, vs, q, m - 1, r), FixStep(n, vs, q, m, r, r2)
    PROVE  FixOrder(n, vs, q, m, r2)
<1>1. ASSUME NEW j \in 1 .. n, NEW k \in 1 .. n, j # k, vs[j].at = q, vs[k].at = q
      PROVE  /\ (\E a \in 1 .. m : vs[a].at = q) /\ j \in Carriers(vs) /\ k \notin Carriers(vs) => r2[j] < r2[k]
             /\ j <= m /\ (k < j \/ m < k) /\ (j \in Carriers(vs) <=> k \in Carriers(vs)) => r2[j] < r2[k]
  <2>0. /\ (\E a \in 1 .. m - 1 : vs[a].at = q) /\ j \in Carriers(vs) /\ k \notin Carriers(vs) => r[j] < r[k]
        /\ j <= m - 1 /\ (k < j \/ m - 1 < k) /\ (j \in Carriers(vs) <=> k \in Carriers(vs)) => r[j] < r[k]
    BY <1>1 DEF FixOrder
  <2>1. CASE vs[m].at # q
    <3>1. r2 = r
      BY <2>1 DEF FixStep
    <3>2. (\E a \in 1 .. m : vs[a].at = q) => \E a \in 1 .. m - 1 : vs[a].at = q
      BY <2>1
    <3>3. j <= m /\ (k < j \/ m < k) => j <= m - 1 /\ (k < j \/ m - 1 < k)
      BY <1>1, <2>1
    <3>. QED  BY <2>0, <3>1, <3>2, <3>3
  <2>2. CASE vs[m].at = q
    <3>1. /\ j \in Carriers(vs) /\ k \notin Carriers(vs) => r2[j] < r2[k]
          /\ (j \in Carriers(vs) <=> k \in Carriers(vs)) =>
               IF j = m THEN r2[j] < r2[k] ELSE k # m => (r2[j] < r2[k] <=> r[j] < r[k])
      BY <1>1, <2>2 DEF FixStep
    <3>2. j <= m /\ (k < j \/ m < k) /\ j # m => k # m /\ j <= m - 1 /\ (k < j \/ m - 1 < k)
      OBVIOUS
    <3>. QED  BY <2>0, <3>1, <3>2
  <2>. QED  BY <2>1, <2>2
<1>. QED  BY <1>1 DEF FixOrder

LEMMA FixStepKeeps ==
    ASSUME NEW n \in Nat, NEW vs, NEW q, NEW m, NEW r, NEW r1, NEW r2,
           KeepsOrder(n, r, r1, AtPlace(n, vs, q)), FixStep(n, vs, q, m, r1, r2)
    PROVE  KeepsOrder(n, r, r2, AtPlace(n, vs, q))
<1>1. CASE vs[m].at # q
  BY <1>1 DEF FixStep
<1>2. CASE vs[m].at = q
  BY <1>2 DEF FixStep, KeepsOrder
<1>. QED  BY <1>1, <1>2

\* What stack_fix returns.
Fixed(n, s, r, q, m, t) ==
  \E r2 : /\ Stayed(n, s, t, r2) /\ FixOrder(n, s.vehs, q, m, r2)
          /\ KeepsOrder(n, r, r2, AtPlace(n, s.vehs, q))

LEMMA FixLoopIs ==
    ASSUME NEW n \in Nat, NEW s, NEW r, Ranked(n, s, r), NoneAt(n, s, Lifted), NoneAt(n, s, Sorting),
           NEW i \in 1 .. n, NEW after,
           after = CHOOSE h : h = [k \in 0 .. n |-> IF k = 0 THEN s ELSE FixRow(h[k - 1], i, k)]
    PROVE  Fixed(n, s, r, s.vehs[i].at, n, after[n])
<1>. DEFINE S == {t \in Tables(n) : \E r2 : Stayed(n, s, t, r2)}
            G == [k \in 1 .. n |-> [t \in S |-> FixRow(t, i, k)]]
            q == s.vehs[i].at
<1>0. Stayed(n, s, s, r)
  BY DEF Stayed, Same
<1>0a. s \in Tables(n)
  BY DEF Ranked
<1>1. s \in S
  BY <1>0, <1>0a
<1>2. \A k \in 1 .. n : \A t \in S : G[k][t] = FixRow(t, i, k)
  OBVIOUS
<1>. HIDE DEF G, q
<1>3. ASSUME NEW k \in 1 .. n, NEW t \in S
      PROVE  G[k][t] \in S
  <2>1. PICK r1 : Stayed(n, s, t, r1)
    OBVIOUS
  <2>2. PICK r2 : Stayed(n, s, FixRow(t, i, k), r2)
    BY <1>0a, <2>1, FixRowIs
  <2>3. FixRow(t, i, k) \in Tables(n)
    BY <2>2 DEF Stayed, Ranked
  <2>. QED  BY <1>2, <2>2, <2>3
<1>. HIDE DEF S
<1>4. \E h : h = [k \in 0 .. n |-> IF k = 0 THEN s ELSE FixRow(h[k - 1], i, k)]
  <2>1. PICK h : Loop(h, n, S, s, G)
    BY <1>1, <1>3, LoopExists
  <2>2. \A k \in 0 .. n : h[k] = IF k = 0 THEN s ELSE FixRow(h[k - 1], i, k)
    <3>. TAKE k \in 0 .. n
    <3>1. CASE k = 0
      BY <2>1, <3>1 DEF Loop
    <3>2. CASE k # 0
      <4>1. k \in 1 .. n /\ k - 1 \in 0 .. n
        BY <3>2
      <4>2. h[k - 1] \in S /\ h[k] = G[k][h[k - 1]]
        BY <2>1, <4>1 DEF Loop
      <4>. QED  BY <1>2, <3>2, <4>1, <4>2
    <3>. QED  BY <3>1, <3>2
  <2>3. h = [k \in 0 .. n |-> h[k]]
    BY <2>1 DEF Loop
  <2>. QED  BY <2>2, <2>3
<1>5. after = [k \in 0 .. n |-> IF k = 0 THEN s ELSE FixRow(after[k - 1], i, k)]
  BY <1>4
<1>6. \A k \in 0 .. n : after[k] = IF k = 0 THEN s ELSE FixRow(after[k - 1], i, k)
  BY <1>5
<1>. DEFINE R == {k \in 0 .. n : Fixed(n, s, r, q, k, after[k])}
<1>7. 0 \in R
  <2>1. FixOrder(n, s.vehs, q, 0, r) /\ KeepsOrder(n, r, r, AtPlace(n, s.vehs, q))
    BY DEF FixOrder, KeepsOrder
  <2>2. after[0] = s
    BY <1>6
  <2>3. Fixed(n, s, r, q, 0, after[0])
    BY <1>0, <2>1, <2>2 DEF Fixed
  <2>4. 0 \in 0 .. n
    OBVIOUS
  <2>. QED  BY <2>3, <2>4
<1>8. ASSUME NEW k \in 1 .. n, k - 1 \in R
      PROVE  k \in R
  <2>1. PICK r1 : /\ Stayed(n, s, after[k - 1], r1) /\ FixOrder(n, s.vehs, q, k - 1, r1)
                  /\ KeepsOrder(n, r, r1, AtPlace(n, s.vehs, q))
    BY <1>8 DEF Fixed
  <2>2. after[k] = FixRow(after[k - 1], i, k) /\ k \in 0 .. n
    BY <1>6
  <2>3. PICK r2 : Stayed(n, s, FixRow(after[k - 1], i, k), r2) /\ FixStep(n, s.vehs, q, k, r1, r2)
    BY <1>0a, <2>1, FixRowIs DEF q
  <2>4. FixOrder(n, s.vehs, q, k, r2) /\ KeepsOrder(n, r, r2, AtPlace(n, s.vehs, q))
    BY <2>1, <2>3, FixOrderGrows, FixStepKeeps
  <2>. QED  BY <2>2, <2>3, <2>4 DEF Fixed
<1>. HIDE DEF R
<1>9. n \in R
  <2>1. \A k \in 0 .. n : k \in R
    BY <1>7, <1>8, UpTo
  <2>. QED  BY <2>1
<1>. QED  BY <1>9 DEF R, q

LEMMA StackFixIs ==
    ASSUME NEW n \in Nat, NEW s, NEW r, Ranked(n, s, r), NoneAt(n, s, Lifted), NoneAt(n, s, Sorting),
           NEW i \in 0 .. n
    PROVE  /\ \E r2 : /\ Stayed(n, s, StackFix(s, i), r2) /\ KeepsOrder(n, r, r2, Beside(n, s, i))
                      /\ ~ multiplayer => r2 = r
           /\ multiplayer /\ i # 0 /\ ~ (s.vehs[i].next = 0 /\ s.vehs[i].prev = 0)
              => Fixed(n, s, r, s.vehs[i].at, n, StackFix(s, i))
           /\ i = 0 => StackFix(s, i) = s
<1>1. Len(s.vehs) = n
  BY TableFields DEF Ranked
<1>2. CASE ~multiplayer \/ i = 0 \/ (s.vehs[i].next = 0 /\ s.vehs[i].prev = 0)
  <2>1. StackFix(s, i) = s
    BY <1>2 DEF StackFix
  <2>2. Stayed(n, s, s, r) /\ KeepsOrder(n, r, r, Beside(n, s, i))
    BY DEF Stayed, Same, KeepsOrder
  <2>. QED  BY <1>2, <2>1, <2>2
<1>3. CASE ~ (~multiplayer \/ i = 0 \/ (s.vehs[i].next = 0 /\ s.vehs[i].prev = 0))
  <2>. DEFINE after == CHOOSE h : h = [k \in 0 .. n |-> IF k = 0 THEN s ELSE FixRow(h[k - 1], i, k)]
  <2>1. StackFix(s, i) = after[n]
    BY <1>1, <1>3 DEF StackFix
  <2>2. i \in 1 .. n
    BY <1>3
  <2>3. after = CHOOSE h : h = [k \in 0 .. n |-> IF k = 0 THEN s ELSE FixRow(h[k - 1], i, k)]
    OBVIOUS
  <2>. HIDE DEF after
  <2>4. Fixed(n, s, r, s.vehs[i].at, n, after[n])
    BY <2>2, <2>3, FixLoopIs
  <2>5. AtPlace(n, s.vehs, s.vehs[i].at) = Beside(n, s, i)
    BY <2>2 DEF AtPlace, Beside
  <2>6. \E r2 : Stayed(n, s, StackFix(s, i), r2) /\ KeepsOrder(n, r, r2, Beside(n, s, i))
    BY <2>1, <2>4, <2>5 DEF Fixed
  <2>. QED  BY <1>3, <2>1, <2>4, <2>6
<1>. QED  BY <1>2, <1>3

-----------------------------------------------------------------------------
(* The units a transport takes along.                                      *)

\* Orders are no part of a list.
RowOrders(vs, i, o, v) == [vs EXCEPT ![i] = [vs[i] EXCEPT !.order = o, !.on = v]]
IsOrdered(n, s, r, t) ==
  /\ Ranked(n, t, r)
  /\ \A j \in 1 .. n : t.vehs[j].at = s.vehs[j].at /\ t.vehs[j].unit = s.vehs[j].unit

IsRowOrders(n, vs, ws) ==
  /\ ws \in Arrays(n)
  /\ \A j \in 1 .. n : /\ ws[j].unit = vs[j].unit /\ ws[j].at = vs[j].at
                       /\ ws[j].next = vs[j].next /\ ws[j].prev = vs[j].prev
IsRowOrder(n, vs, i, o, v, ws) ==
  \A j \in 1 .. n : /\ ws[j].order = IF j = i THEN o ELSE vs[j].order
                    /\ ws[j].on = IF j = i THEN v ELSE vs[j].on

\* A table whose rows differ from those of a linked one in their orders only.
LEMMA OrdersKeepLists ==
    ASSUME NEW n \in Nat, NEW s, NEW r, Ranked(n, s, r), NEW vs, IsRowOrders(n, s.vehs, vs)
    PROVE  IsOrdered(n, s, r, [vehs |-> vs, inTile |-> s.inTile])
<1>. DEFINE os == s.vehs
            t == [vehs |-> vs, inTile |-> s.inTile]
<1>0. /\ vs \in Arrays(n)
      /\ \A j \in 1 .. n : /\ vs[j].unit = os[j].unit /\ vs[j].at = os[j].at
                           /\ vs[j].next = os[j].next /\ vs[j].prev = os[j].prev
  BY DEF IsRowOrders
<1>. USE <1>0
<1>1. os \in Arrays(n) /\ Linked(n, os, r) /\ s \in Tables(n) /\ Bits(s)
  BY DEF Ranked, Tables
<1>2. t \in Tables(n) /\ t.vehs = vs /\ t.inTile = s.inTile
  BY <1>1 DEF Tables
<1>3. DOMAIN os = 1 .. n /\ DOMAIN vs = 1 .. n
  BY <1>1, VehFields
<1>4. /\ \A j \in 1 .. n : At(vs)[j] = vs[j].at /\ Down(vs)[j] = vs[j].next /\ Up(vs)[j] = vs[j].prev
      /\ \A j \in 1 .. n : At(os)[j] = os[j].at /\ Down(os)[j] = os[j].next /\ Up(os)[j] = os[j].prev
      /\ DOMAIN At(vs) = 1 .. n /\ DOMAIN At(os) = 1 .. n
      /\ Down(os) \in [1 .. n -> 0 .. n] /\ Up(os) \in [1 .. n -> 0 .. n]
      /\ Down(vs) \in [1 .. n -> 0 .. n] /\ Up(vs) \in [1 .. n -> 0 .. n]
  BY <1>1, <1>3, VehFields DEF At
<1>5. \A j \in 1 .. n : vs[j].at = os[j].at /\ vs[j].next = os[j].next /\ vs[j].prev = os[j].prev
  OBVIOUS
<1>6. Bits(t)
  BY <1>1, <1>2, <1>3, <1>5 DEF Bits
<1>. HIDE DEF os, t
<1>7. At(vs) = At(os) /\ Down(vs) = Down(os) /\ Up(vs) = Up(os)
  <2>1. \A j \in 1 .. n : At(vs)[j] = At(os)[j]
    BY <1>4, <1>5
  <2>2. At(vs) = At(os)
    BY <1>3, <2>1, <1>4 DEF At
  <2>3. Down(vs) = Down(os)
    BY <1>3, <1>5 DEF Down
  <2>4. Up(vs) = Up(os)
    BY <1>3, <1>5 DEF Up
  <2>. QED  BY <2>2, <2>3, <2>4
<1>8. Linked(n, vs, r)
  BY <1>1, <1>7, LinkedIsChain
<1>9. Ranked(n, t, r)
  BY <1>2, <1>6, <1>8 DEF Ranked
<1>. QED  BY <1>2, <1>5, <1>9 DEF IsOrdered, t, os

LEMMA RowOrdersIs ==
    ASSUME NEW n \in Nat, NEW vs \in Arrays(n), NEW i \in 1 .. n, NEW o \in {"none", "board"}, NEW v \in 0 .. n
    PROVE  IsRowOrders(n, vs, RowOrders(vs, i, o, v)) /\ IsRowOrder(n, vs, i, o, v, RowOrders(vs, i, o, v))
<1>. DEFINE old == vs[i]
            new == [old EXCEPT !.order = o, !.on = v]
            ws == RowOrders(vs, i, o, v)
<1>1. old \in Veh(n) /\ DOMAIN vs = 1 .. n
  BY VehFields
<1>2. ws = [vs EXCEPT ![i] = new]
  BY DEF RowOrders
<1>. HIDE DEF old, ws
<1>3. /\ new \in Veh(n) /\ new.at = old.at /\ new.next = old.next /\ new.prev = old.prev
      /\ new.unit = old.unit /\ new.order = o /\ new.on = v
  BY <1>1 DEF Veh
<1>. HIDE DEF new
<1>4. ws \in Arrays(n) /\ \A j \in 1 .. n : ws[j] = IF j = i THEN new ELSE vs[j]
  BY <1>1, <1>2, <1>3 DEF Arrays
<1>5. /\ ws \in Arrays(n)
      /\ \A j \in 1 .. n : /\ ws[j].unit = vs[j].unit /\ ws[j].at = vs[j].at
                           /\ ws[j].next = vs[j].next /\ ws[j].prev = vs[j].prev
  BY <1>3, <1>4 DEF old
<1>6. \A j \in 1 .. n : /\ ws[j].order = IF j = i THEN o ELSE vs[j].order
                        /\ ws[j].on = IF j = i THEN v ELSE vs[j].on
  BY <1>3, <1>4 DEF old
<1>. QED  BY <1>5, <1>6 DEF ws, IsRowOrders, IsRowOrder

\* From s, ranked by r, the units of M have been loaded on v.
Loads(n, s, r, v, flag, M, t) ==
  /\ M \in SUBSET (Beside(n, s, v) \ Carriers(s.vehs))
  /\ NoneAt(n, t, Lifted)
  /\ \A j \in 1 .. n :
       /\ t.vehs[j].unit = s.vehs[j].unit
       /\ t.vehs[j].at = IF flag > 0 /\ j \in M THEN Loading ELSE s.vehs[j].at
       /\ t.vehs[j].order = IF j \in M THEN "board" ELSE s.vehs[j].order
       /\ t.vehs[j].on = IF j \in M THEN v ELSE s.vehs[j].on
  /\ \E r2 : Ranked(n, t, r2) /\ IF flag > 0 THEN KeepsOrder(n, r, r2, M) ELSE r2 = r

LEMMA RaisedKeeps ==
    ASSUME NEW n \in Nat, NEW r, NEW r2, \A j \in 1 .. n : r2[j] \in Nat, NEW M, NEW i \in 1 .. n,
           KeepsOrder(n, r, r2, M)
    PROVE  KeepsOrder(n, r, Raised(n, r2, i), M \cup {i})
<1>. DEFINE r3 == Raised(n, r2, i)
<1>1. \A j \in 1 .. n : j # i => r3[j] = r2[j] + 1
  BY DEF Raised
<1>. HIDE DEF r3
<1>2. \A j, k \in 1 .. n : j # i /\ k # i => (r3[j] < r3[k] <=> r2[j] < r2[k])
  BY <1>1
<1>3. KeepsOrder(n, r, r3, M \cup {i})
  BY <1>2 DEF KeepsOrder
<1>. QED  BY <1>3 DEF r3

\* What do_load returns.
LEMMA DoLoadIs ==
    ASSUME NEW n \in Nat, NEW s, NEW r, NEW flag \in Nat, NEW v \in 1 .. n, NEW M, NEW t,
           Loads(n, s, r, v, flag, M, t), NEW i \in Beside(n, s, v) \ Carriers(s.vehs)
    PROVE  Loads(n, s, r, v, flag, M \cup {i}, DoLoad(t, i, v, flag))
<1>. DEFINE M2 == M \cup {i}
            ws == RowOrders(t.vehs, i, "board", v)
            u == [vehs |-> ws, inTile |-> t.inTile]
            y == DoLoad(t, i, v, flag)
<1>0. i \in 1 .. n /\ v \in 0 .. n
  BY DEF Beside
<1>1. PICK r1 : Ranked(n, t, r1) /\ IF flag > 0 THEN KeepsOrder(n, r, r1, M) ELSE r1 = r
  BY DEF Loads
<1>2. t \in Tables(n) /\ t.vehs \in Arrays(n)
  BY <1>1 DEF Ranked, Tables
<1>3. y = IF flag > 0 THEN VehPut(u, i, Loading) ELSE u
  <2>1. [t EXCEPT !.vehs[i] = [@ EXCEPT !.order = "board", !.on = v]] = u
    BY <1>2 DEF Tables, RowOrders
  <2>. QED  BY <2>1 DEF DoLoad
<1>4. IsRowOrders(n, t.vehs, ws) /\ IsRowOrder(n, t.vehs, i, "board", v, ws)
  BY <1>0, <1>2, RowOrdersIs
<1>5. u.vehs = ws
  OBVIOUS
<1>. HIDE DEF ws
<1>6. IsOrdered(n, t, r1, u)
  BY <1>1, <1>4, OrdersKeepLists
<1>. HIDE DEF u, y, M2
<1>7. /\ M \in SUBSET (Beside(n, s, v) \ Carriers(s.vehs)) /\ NoneAt(n, t, Lifted)
      /\ \A j \in 1 .. n :
           /\ t.vehs[j].unit = s.vehs[j].unit
           /\ t.vehs[j].at = IF flag > 0 /\ j \in M THEN Loading ELSE s.vehs[j].at
           /\ t.vehs[j].order = IF j \in M THEN "board" ELSE s.vehs[j].order
           /\ t.vehs[j].on = IF j \in M THEN v ELSE s.vehs[j].on
  BY DEF Loads
<1>8. M2 \in SUBSET (Beside(n, s, v) \ Carriers(s.vehs)) /\ \A j \in 1 .. n : j \in M2 <=> j = i \/ j \in M
  BY <1>7 DEF M2
<1>9. /\ Ranked(n, u, r1) /\ NoneAt(n, u, Lifted)
      /\ \A j \in 1 .. n :
           /\ u.vehs[j].unit = s.vehs[j].unit /\ u.vehs[j].at = t.vehs[j].at
           /\ u.vehs[j].order = IF j \in M2 THEN "board" ELSE s.vehs[j].order
           /\ u.vehs[j].on = IF j \in M2 THEN v ELSE s.vehs[j].on
  <2>1. Ranked(n, u, r1) /\ \A j \in 1 .. n : u.vehs[j].at = t.vehs[j].at /\ u.vehs[j].unit = t.vehs[j].unit
    BY <1>6 DEF IsOrdered
  <2>2. \A j \in 1 .. n : /\ u.vehs[j].order = IF j = i THEN "board" ELSE t.vehs[j].order
                          /\ u.vehs[j].on = IF j = i THEN v ELSE t.vehs[j].on
    BY <1>4, <1>5 DEF IsRowOrder
  <2>3. NoneAt(n, u, Lifted)
    BY <1>7, <2>1 DEF NoneAt
  <2>4. \A j \in 1 .. n : /\ u.vehs[j].order = IF j \in M2 THEN "board" ELSE s.vehs[j].order
                          /\ u.vehs[j].on = IF j \in M2 THEN v ELSE s.vehs[j].on
    BY <1>7, <1>8, <2>2
  <2>. QED  BY <1>7, <2>1, <2>3, <2>4
<1>10. CASE flag > 0
  <2>1. Loading \in Places \ {Lifted}
    BY DEF Places, OffMap, Loading, Lifted
  <2>2. IsPut(n, u, r1, i, Loading, y)
    BY <1>0, <1>3, <1>9, <1>10, <2>1, VehPutIs
  <2>. DEFINE r2 == Raised(n, r1, i)
  <2>3. /\ Ranked(n, y, r2) /\ NoneAt(n, y, Lifted)
        /\ \A j \in 1 .. n :
             /\ y.vehs[j].unit = u.vehs[j].unit
             /\ y.vehs[j].order = u.vehs[j].order /\ y.vehs[j].on = u.vehs[j].on
             /\ y.vehs[j].at = IF j = i THEN Loading ELSE u.vehs[j].at
    BY <2>2 DEF IsPut, Same
  <2>4. KeepsOrder(n, r, r2, M2)
    <3>1. \A j \in 1 .. n : r1[j] \in Nat
      BY <1>1, RanksAreNumbers
    <3>. QED  BY <1>0, <1>1, <1>10, <3>1, RaisedKeeps DEF M2
  <2>. HIDE DEF r2
  <2>5. \A j \in 1 .. n :
          /\ y.vehs[j].unit = s.vehs[j].unit
          /\ y.vehs[j].at = IF flag > 0 /\ j \in M2 THEN Loading ELSE s.vehs[j].at
          /\ y.vehs[j].order = IF j \in M2 THEN "board" ELSE s.vehs[j].order
          /\ y.vehs[j].on = IF j \in M2 THEN v ELSE s.vehs[j].on
    BY <1>7, <1>8, <1>9, <1>10, <2>3
  <2>6. Loads(n, s, r, v, flag, M2, y)
    BY <1>8, <1>10, <2>3, <2>4, <2>5 DEF Loads
  <2>. QED  BY <2>6 DEF M2, y
<1>11. CASE ~ (flag > 0)
  <2>1. y = u /\ r1 = r
    BY <1>1, <1>3, <1>11
  <2>2. \A j \in 1 .. n :
          /\ y.vehs[j].unit = s.vehs[j].unit
          /\ y.vehs[j].at = IF flag > 0 /\ j \in M2 THEN Loading ELSE s.vehs[j].at
          /\ y.vehs[j].order = IF j \in M2 THEN "board" ELSE s.vehs[j].order
          /\ y.vehs[j].on = IF j \in M2 THEN v ELSE s.vehs[j].on
    BY <1>7, <1>9, <1>11, <2>1
  <2>3. Loads(n, s, r, v, flag, M2, y)
    BY <1>8, <1>9, <1>11, <2>1, <2>2 DEF Loads
  <2>. QED  BY <2>3 DEF M2, y
<1>. QED  BY <1>10, <1>11

\* The states of a pass: what is left of the room of the transport is not loaded.
Passes(n, s, r, v, flag) ==
  {x \in [table : Tables(n), room : Nat, loaded : SUBSET (1 .. n)] :
     /\ Loads(n, s, r, v, flag, x.loaded, x.table)
     /\ Cardinality(x.loaded) + x.room = Capacity}

LEMMA LoadOneIs ==
    ASSUME NEW n \in Nat, NEW s \in Tables(n), NEW r, NEW flag \in Nat, NEW v \in 1 .. n,
           NEW x \in Passes(n, s, r, v, flag), NEW i \in Beside(n, s, v), NEW pass, NEW owner
    PROVE  LoadOne(x, i, v, flag, pass, owner) \in Passes(n, s, r, v, flag)
<1>1. /\ x.table \in Tables(n) /\ x.room \in Nat /\ x.loaded \in SUBSET (1 .. n)
      /\ Loads(n, s, r, v, flag, x.loaded, x.table) /\ Cardinality(x.loaded) + x.room = Capacity
  BY DEF Passes
<1>. DEFINE t == DoLoad(x.table, i, v, flag)
            M == x.loaded \cup {i}
            y == [table |-> t, room |-> x.room - 1, loaded |-> M]
<1>2. CASE /\ x.room > 0 /\ Boards(x.table, i, v, pass, owner) /\ i \notin x.loaded
  <2>1. LoadOne(x, i, v, flag, pass, owner) = y
    BY <1>2 DEF LoadOne
  <2>. HIDE DEF t
  <2>2. i \in 1 .. n
    BY DEF Beside
  <2>3. i \notin Carriers(s.vehs)
    <3>1. Cargo(x.table.vehs[i]) = 0
      BY <1>2 DEF Boards
    <3>2. x.table.vehs[i].unit = s.vehs[i].unit
      BY <1>1, <2>2 DEF Loads
    <3>3. Cargo(s.vehs[i]) = 0
      BY <3>1, <3>2 DEF Cargo
    <3>. QED  BY <3>3 DEF Carriers
  <2>4. Loads(n, s, r, v, flag, M, t)
    BY <1>1, <2>3, DoLoadIs DEF t
  <2>5. t \in Tables(n) /\ M \in SUBSET (1 .. n) /\ x.room - 1 \in Nat
    <3>1. t \in Tables(n)
      BY <2>4 DEF Loads, Ranked
    <3>. QED  BY <1>1, <1>2, <2>2, <3>1
  <2>6. Cardinality(M) + (x.room - 1) = Capacity
    <3>0. IsFiniteSet(1 .. n)
      BY FS_Interval
    <3>1. IsFiniteSet(x.loaded)
      BY <1>1, <3>0, FS_Subset
    <3>2. Cardinality(M) = Cardinality(x.loaded) + 1
      BY <1>2, <3>1, FS_AddElement
    <3>3. Cardinality(x.loaded) \in Nat
      BY <3>1, FS_CardinalityType
    <3>. QED  BY <1>1, <3>2, <3>3
  <2>. HIDE DEF M
  <2>7. y.table = t /\ y.room = x.room - 1 /\ y.loaded = M
    OBVIOUS
  <2>8. y \in [table : Tables(n), room : Nat, loaded : SUBSET (1 .. n)]
    BY <2>5
  <2>9. y \in Passes(n, s, r, v, flag)
    BY <2>4, <2>6, <2>7, <2>8 DEF Passes
  <2>. QED  BY <2>1, <2>9
<1>3. CASE ~ (/\ x.room > 0 /\ Boards(x.table, i, v, pass, owner) /\ i \notin x.loaded)
  BY <1>3 DEF LoadOne
<1>. QED  BY <1>2, <1>3

LEMMA LoadPassIs ==
    ASSUME NEW n \in Nat, NEW s \in Tables(n), NEW r0, NEW flag \in Nat, NEW v \in 1 .. n,
           v \in Carriers(s.vehs), NEW x \in Passes(n, s, r0, v, flag), NEW pass, NEW owner
    PROVE  LoadPass(x, v, flag, pass, owner) \in Passes(n, s, r0, v, flag)
<1>. DEFINE vs == x.table.vehs
            js == StackFrom(vs, IF flag > 0 THEN v ELSE VehTop(vs, v))
            m == Len(js)
            S == Passes(n, s, r0, v, flag)
            G == [k \in 1 .. m |-> [y \in S |-> LoadOne(y, js[k], v, flag, pass, owner)]]
            after == CHOOSE h : h = [k \in 0 .. m |->
                                       IF k = 0 THEN x ELSE LoadOne(h[k - 1], js[k], v, flag, pass, owner)]
<1>1. x.table \in Tables(n) /\ Loads(n, s, r0, v, flag, x.loaded, x.table)
  BY DEF Passes
<1>2. PICK r : Ranked(n, x.table, r)
  BY <1>1 DEF Loads
<1>3. vs \in Arrays(n) /\ Linked(n, vs, r)
  BY <1>2 DEF Ranked, Tables
<1>4. LoadPass(x, v, flag, pass, owner) = after[m]
  BY DEF LoadPass
<1>5. js = StackFrom(vs, IF flag > 0 THEN v ELSE VehTop(vs, v))
  OBVIOUS
<1>6. \A k \in 1 .. m : \A y \in S : G[k][y] = LoadOne(y, js[k], v, flag, pass, owner)
  OBVIOUS
<1>. HIDE DEF vs, js, G
<1>7. m \in Nat /\ \A k \in 1 .. m : js[k] \in Beside(n, s, v)
  <2>. DEFINE i == IF flag > 0 THEN v ELSE VehTop(vs, v)
  <2>1. i \in 1 .. n /\ vs[i].at = vs[v].at
    BY <1>3, VehTopIs
  <2>. HIDE DEF i
  <2>2. IsStack(n, vs, r, i, js)
    BY <1>3, <1>5, <2>1, StackFromIs DEF i
  <2>3. Len(js) \in Nat /\ \A k \in 1 .. Len(js) : js[k] \in 1 .. n /\ vs[js[k]].at = vs[v].at
    BY <2>1, <2>2 DEF IsStack
  <2>4. /\ x.loaded \in SUBSET (Beside(n, s, v) \ Carriers(s.vehs))
        /\ \A j \in 1 .. n : vs[j].at = IF flag > 0 /\ j \in x.loaded THEN Loading ELSE s.vehs[j].at
    BY <1>1 DEF Loads, vs
  <2>5. vs[v].at = s.vehs[v].at
    BY <2>4
  <2>6. Beside(n, s, v) = {j \in 1 .. n : s.vehs[j].at = s.vehs[v].at}
    BY DEF Beside
  <2>7. \A k \in 1 .. Len(js) : js[k] \in Beside(n, s, v)
    <3>. TAKE k \in 1 .. Len(js)
    <3>. DEFINE j == js[k]
    <3>1. j \in 1 .. n /\ vs[j].at = s.vehs[v].at
      BY <2>3, <2>5
    <3>. HIDE DEF j
    <3>2. j \in Beside(n, s, v)
      BY <2>4, <2>6, <3>1
    <3>. QED  BY <3>2 DEF j
  <2>. QED  BY <2>3, <2>7
<1>. HIDE DEF m
<1>8. x \in S /\ v \in 0 .. n
  OBVIOUS
<1>9. ASSUME NEW k \in 1 .. m, NEW y \in S
      PROVE  G[k][y] \in S
  <2>1. js[k] \in Beside(n, s, v)
    BY <1>7
  <2>2. LoadOne(y, js[k], v, flag, pass, owner) \in S
    BY <1>8, <2>1, LoadOneIs
  <2>. QED  BY <1>6, <2>2
<1>. HIDE DEF S
<1>10. PICK h : Loop(h, m, S, x, G)
  BY <1>7, <1>8, <1>9, LoopExists
<1>11. \A k \in 0 .. m : h[k] = IF k = 0 THEN x ELSE LoadOne(h[k - 1], js[k], v, flag, pass, owner)
  <2>. TAKE k \in 0 .. m
  <2>1. CASE k = 0
    BY <1>10, <2>1 DEF Loop
  <2>2. CASE k # 0
    <3>1. k \in 1 .. m /\ k - 1 \in 0 .. m
      BY <1>7, <2>2
    <3>2. h[k - 1] \in S /\ h[k] = G[k][h[k - 1]]
      BY <1>10, <3>1 DEF Loop
    <3>. QED  BY <1>6, <2>2, <3>1, <3>2
  <2>. QED  BY <2>1, <2>2
<1>12. h = [k \in 0 .. m |-> h[k]]
  BY <1>10 DEF Loop
<1>13. after = [k \in 0 .. m |-> IF k = 0 THEN x ELSE LoadOne(after[k - 1], js[k], v, flag, pass, owner)]
  BY <1>11, <1>12
<1>. HIDE DEF after
<1>14. \A k \in 0 .. m :
         after[k] = IF k = 0 THEN x ELSE LoadOne(after[k - 1], js[k], v, flag, pass, owner)
  BY <1>13
<1>. DEFINE R == {k \in 0 .. m : after[k] \in S}
<1>15. 0 \in R
  BY <1>7, <1>8, <1>14
<1>16. ASSUME NEW k \in 1 .. m, k - 1 \in R
       PROVE  k \in R
  <2>1. k \in 0 .. m /\ k # 0 /\ js[k] \in Beside(n, s, v) /\ after[k - 1] \in S
    BY <1>7, <1>16
  <2>2. LoadOne(after[k - 1], js[k], v, flag, pass, owner) \in S
    BY <1>8, <2>1, LoadOneIs DEF S
  <2>. QED  BY <1>14, <2>1, <2>2
<1>. HIDE DEF R
<1>17. m \in R
  <2>1. \A k \in 0 .. m : k \in R
    BY <1>7, <1>15, <1>16, UpTo
  <2>. QED  BY <1>7, <2>1
<1>. QED  BY <1>4, <1>17 DEF R, S

\* The rows of v's stack are in the order rf before they are counted, and in rg when they have
\* been sorted.
Refixed(n, s, r, v, rf) ==
  /\ \E f : Stayed(n, s, f, rf)
  /\ KeepsOrder(n, r, rf, Beside(n, s, v))
  /\ ~ multiplayer => rf = r
Resorted(n, s, v, flag, rf, rg) ==
  /\ \E g : Stayed(n, s, g, rg)
  /\ IF flag > 0 THEN SortOrder(n, rf, rg, Carriers(s.vehs) \cap Beside(n, s, v)) ELSE rg = rf

\* The units of M have been taken along by v.
TakesAlong(n, s, r, v, flag, M, t) ==
  /\ M \in SUBSET (Beside(n, s, v) \ Carriers(s.vehs)) /\ Cardinality(M) <= Capacity
  /\ NoneAt(n, t, Lifted)
  /\ \A j \in 1 .. n :
       /\ t.vehs[j].unit = s.vehs[j].unit
       /\ t.vehs[j].at = IF flag > 0 /\ j \in M \cup {v} THEN Loading ELSE s.vehs[j].at
       /\ t.vehs[j].order = IF j \in M THEN "board" ELSE s.vehs[j].order
       /\ t.vehs[j].on = IF j \in M THEN v ELSE s.vehs[j].on
  /\ \E rf, rg, r2 :
       /\ Refixed(n, s, r, v, rf) /\ Resorted(n, s, v, flag, rf, rg) /\ Ranked(n, t, r2)
       /\ IF flag > 0 THEN KeepsOrder(n, rg, r2, M \cup {v}) ELSE r2 = rg

LEMMA StackVehStarts ==
    ASSUME NEW n \in Nat, NEW s, NEW r, Ranked(n, s, r), NoneAt(n, s, Lifted), NoneAt(n, s, Sorting),
           NEW v \in 1 .. n, NEW flag \in Nat,
           NEW t, t = IF flag > 0 THEN StackSort(StackFix(s, v), v) ELSE StackFix(s, v)
    PROVE  \E rf, rg : /\ Refixed(n, s, r, v, rf) /\ Resorted(n, s, v, flag, rf, rg)
                       /\ Stayed(n, s, t, rg)
<1>. DEFINE f == StackFix(s, v)
<1>1. PICK rf : Stayed(n, s, f, rf) /\ KeepsOrder(n, r, rf, Beside(n, s, v)) /\ (~ multiplayer => rf = r)
  <2>1. v \in 0 .. n
    OBVIOUS
  <2>. QED  BY <2>1, StackFixIs
<1>2. t = IF flag > 0 THEN StackSort(f, v) ELSE f
  OBVIOUS
<1>. HIDE DEF f
<1>3. Refixed(n, s, r, v, rf)
  BY <1>1 DEF Refixed
<1>4. CASE flag > 0
  <2>1. Ranked(n, f, rf) /\ NoneAt(n, f, Lifted) /\ NoneAt(n, f, Sorting)
    BY <1>1, StayedNone DEF Stayed
  <2>2. PICK rg : /\ Stayed(n, f, StackSort(f, v), rg)
                  /\ SortOrder(n, rf, rg, Carriers(f.vehs) \cap Beside(n, f, v))
    BY <2>1, StackSortIs
  <2>3. Stayed(n, s, t, rg)
    BY <1>1, <1>2, <1>4, <2>2, StayedTwice
  <2>4. Carriers(f.vehs) = Carriers(s.vehs)
    BY <1>1, StayedCarriers DEF Ranked
  <2>5. Beside(n, f, v) = Beside(n, s, v)
    BY <1>1 DEF Beside, Stayed
  <2>6. Resorted(n, s, v, flag, rf, rg)
    BY <1>4, <2>2, <2>3, <2>4, <2>5 DEF Resorted
  <2>. QED  BY <1>3, <2>3, <2>6
<1>5. CASE ~ (flag > 0)
  BY <1>1, <1>2, <1>3, <1>5 DEF Resorted
<1>. QED  BY <1>4, <1>5

\* What stack_veh returns.
LEMMA StackVehIs ==
    ASSUME NEW n \in Nat, NEW s, NEW r, Ranked(n, s, r), NoneAt(n, s, Lifted), NoneAt(n, s, Sorting),
           NEW v \in 1 .. n, v \in Carriers(s.vehs), NEW flag \in Nat, NEW owner
    PROVE  \E M : TakesAlong(n, s, r, v, flag, M, StackVeh(s, v, flag, owner))
<1>. DEFINE fixed == StackFix(s, v)
            t == IF flag > 0 THEN StackSort(fixed, v) ELSE fixed
            start == [table |-> t, room |-> Capacity, loaded |-> {}]
            first == LoadPass(start, v, flag, 1, owner)
            second == IF flag <= 1 THEN LoadPass(first, v, flag, 2, owner) ELSE first
            y == StackVeh(s, v, flag, owner)
<1>1. y = IF flag > 0 THEN VehPut(second.table, v, Loading) ELSE second.table
  BY DEF StackVeh
<1>. HIDE DEF second, y
<1>2. PICK rf, rg : Refixed(n, s, r, v, rf) /\ Resorted(n, s, v, flag, rf, rg) /\ Stayed(n, s, t, rg)
  BY StackVehStarts
<1>. HIDE DEF t
<1>3. /\ s \in Tables(n) /\ t \in Tables(n) /\ Ranked(n, t, rg) /\ NoneAt(n, t, Lifted)
      /\ \A j \in 1 .. n : t.vehs[j].unit = s.vehs[j].unit /\ t.vehs[j].at = s.vehs[j].at
                           /\ t.vehs[j].order = s.vehs[j].order /\ t.vehs[j].on = s.vehs[j].on
  BY <1>2, StayedNone DEF Stayed, Ranked, Same
<1>4. Carriers(t.vehs) = Carriers(s.vehs) /\ Beside(n, t, v) = Beside(n, s, v)
  BY <1>2, <1>3, StayedCarriers DEF Beside
<1>5. start \in Passes(n, t, rg, v, flag)
  <2>1. Loads(n, t, rg, v, flag, {}, t)
    BY <1>3 DEF Loads, KeepsOrder
  <2>2. Cardinality({}) + Capacity = Capacity /\ Capacity \in Nat
    BY UnitBounds, FS_EmptySet
  <2>. QED  BY <1>3, <2>1, <2>2 DEF Passes
<1>. HIDE DEF start, first
<1>6. first \in Passes(n, t, rg, v, flag)
  BY <1>3, <1>4, <1>5, LoadPassIs DEF first
<1>7. second \in Passes(n, t, rg, v, flag)
  BY <1>3, <1>4, <1>6, LoadPassIs DEF second
<1>. DEFINE M == second.loaded
            x == second.table
<1>8. /\ Loads(n, t, rg, v, flag, M, x) /\ Cardinality(M) <= Capacity
  <2>1. /\ Loads(n, t, rg, v, flag, M, x) /\ Cardinality(M) + second.room = Capacity
        /\ second.room \in Nat /\ M \in SUBSET (1 .. n)
    BY <1>7 DEF Passes
  <2>2. Cardinality(M) \in Nat
    <3>1. IsFiniteSet(1 .. n)
      BY FS_Interval
    <3>2. IsFiniteSet(M)
      BY <2>1, <3>1, FS_Subset
    <3>. QED  BY <3>2, FS_CardinalityType
  <2>. QED  BY <2>1, <2>2, UnitBounds
<1>. HIDE DEF M, x
<1>9. /\ M \in SUBSET (Beside(n, s, v) \ Carriers(s.vehs)) /\ NoneAt(n, x, Lifted)
      /\ \A j \in 1 .. n :
           /\ x.vehs[j].unit = s.vehs[j].unit
           /\ x.vehs[j].at = IF flag > 0 /\ j \in M THEN Loading ELSE s.vehs[j].at
           /\ x.vehs[j].order = IF j \in M THEN "board" ELSE s.vehs[j].order
           /\ x.vehs[j].on = IF j \in M THEN v ELSE s.vehs[j].on
  BY <1>3, <1>4, <1>8 DEF Loads
<1>10. PICK r2 : Ranked(n, x, r2) /\ IF flag > 0 THEN KeepsOrder(n, rg, r2, M) ELSE r2 = rg
  BY <1>8 DEF Loads
<1>11. CASE flag > 0
  <2>1. Loading \in Places \ {Lifted}
    BY DEF Places, OffMap, Loading, Lifted
  <2>2. IsPut(n, x, r2, v, Loading, y)
    BY <1>1, <1>9, <1>10, <1>11, <2>1, VehPutIs DEF x
  <2>. DEFINE r3 == Raised(n, r2, v)
  <2>3. /\ Ranked(n, y, r3) /\ NoneAt(n, y, Lifted)
        /\ \A j \in 1 .. n :
             /\ y.vehs[j].unit = x.vehs[j].unit
             /\ y.vehs[j].order = x.vehs[j].order /\ y.vehs[j].on = x.vehs[j].on
             /\ y.vehs[j].at = IF j = v THEN Loading ELSE x.vehs[j].at
    BY <2>2 DEF IsPut, Same
  <2>4. KeepsOrder(n, rg, r3, M \cup {v})
    <3>1. \A j \in 1 .. n : r2[j] \in Nat
      BY <1>10, RanksAreNumbers
    <3>. QED  BY <1>10, <1>11, <3>1, RaisedKeeps
  <2>. HIDE DEF r3
  <2>5. \A j \in 1 .. n :
          /\ y.vehs[j].unit = s.vehs[j].unit
          /\ y.vehs[j].at = IF flag > 0 /\ j \in M \cup {v} THEN Loading ELSE s.vehs[j].at
          /\ y.vehs[j].order = IF j \in M THEN "board" ELSE s.vehs[j].order
          /\ y.vehs[j].on = IF j \in M THEN v ELSE s.vehs[j].on
    BY <1>9, <1>11, <2>3
  <2>6. TakesAlong(n, s, r, v, flag, M, y)
    BY <1>2, <1>8, <1>9, <1>11, <2>3, <2>4, <2>5 DEF TakesAlong
  <2>. QED  BY <2>6 DEF y
<1>12. CASE ~ (flag > 0)
  <2>1. y = x /\ r2 = rg
    BY <1>1, <1>10, <1>12 DEF x
  <2>2. \A j \in 1 .. n :
          /\ y.vehs[j].unit = s.vehs[j].unit
          /\ y.vehs[j].at = IF flag > 0 /\ j \in M \cup {v} THEN Loading ELSE s.vehs[j].at
          /\ y.vehs[j].order = IF j \in M THEN "board" ELSE s.vehs[j].order
          /\ y.vehs[j].on = IF j \in M THEN v ELSE s.vehs[j].on
    BY <1>9, <1>12, <2>1
  <2>3. TakesAlong(n, s, r, v, flag, M, y)
    BY <1>2, <1>8, <1>9, <1>10, <1>12, <2>1, <2>2 DEF TakesAlong
  <2>. QED  BY <2>3 DEF y
<1>. QED  BY <1>11, <1>12

\* Where units are then; none has moved when the transport stays.
Loaded(n, s, flag, t) ==
  /\ \E r : Ranked(n, t, r)
  /\ NoneAt(n, t, Lifted)
  /\ \A j \in 1 .. n :
       /\ t.vehs[j].unit = s.vehs[j].unit
       /\ t.vehs[j].at = s.vehs[j].at \/ (flag > 0 /\ t.vehs[j].at = Loading)

LEMMA StackVehLoads ==
    ASSUME NEW n \in Nat, NEW s, NEW r, Ranked(n, s, r), NoneAt(n, s, Lifted), NoneAt(n, s, Sorting),
           NEW v \in 1 .. n, v \in Carriers(s.vehs), NEW flag \in Nat, NEW owner
    PROVE  /\ Loaded(n, s, flag, StackVeh(s, v, flag, owner))
           /\ flag > 0 => StackVeh(s, v, flag, owner).vehs[v].at = Loading
<1>. DEFINE t == StackVeh(s, v, flag, owner)
<1>1. PICK M : TakesAlong(n, s, r, v, flag, M, t)
  BY StackVehIs
<1>. HIDE DEF t
<1>2. Loaded(n, s, flag, t) /\ (flag > 0 => t.vehs[v].at = Loading)
  BY <1>1 DEF TakesAlong, Loaded
<1>. QED  BY <1>2 DEF t

-----------------------------------------------------------------------------
(* Units that die.                                                         *)

IsRemoved(S, n, f, d, c) ==
  c \in [1 .. n - 1 -> S] /\ \A j \in 1 .. n - 1 : c[j] = f[Ahead(j, d)]

LEMMA RemoveAtIs ==
    ASSUME NEW S, NEW n \in Nat, NEW f \in [1 .. n -> S], NEW d \in 1 .. n
    PROVE  IsRemoved(S, n, f, d, RemoveAt(f, d))
<1>. DEFINE a == SubSeq(f, 1, d - 1)
            b == SubSeq(f, d + 1, n)
            c == a \o b
<1>0. Len(f) = n /\ f \in Seq(S)
  BY FunctionIsSeq
<1>1. RemoveAt(f, d) = c
  BY <1>0 DEF RemoveAt
<1>2. a \in Seq(S) /\ Len(a) = d - 1 /\ \A j \in 1 .. d - 1 : a[j] = f[j]
  <2>1. \A j \in 1 .. d - 1 : f[j] \in S
    OBVIOUS
  <2>2. /\ a \in Seq(S) /\ Len(a) = IF 1 <= d - 1 THEN (d - 1) - 1 + 1 ELSE 0
        /\ \A j \in 1 .. (d - 1) - 1 + 1 : a[j] = f[1 + j - 1]
    BY <2>1, SubSeqProperties
  <2>. HIDE DEF a
  <2>3. Len(a) = d - 1
    BY <2>2
  <2>. QED  BY <2>2, <2>3
<1>3. b \in Seq(S) /\ Len(b) = n - d /\ \A j \in 1 .. n - d : b[j] = f[d + j]
  <2>1. \A j \in d + 1 .. n : f[j] \in S
    OBVIOUS
  <2>2. /\ b \in Seq(S) /\ Len(b) = IF d + 1 <= n THEN n - (d + 1) + 1 ELSE 0
        /\ \A j \in 1 .. n - (d + 1) + 1 : b[j] = f[(d + 1) + j - 1]
    BY <2>1, SubSeqProperties
  <2>. HIDE DEF b
  <2>3. Len(b) = n - d
    BY <2>2
  <2>4. \A j \in 1 .. n - d : j \in 1 .. n - (d + 1) + 1 /\ (d + 1) + j - 1 = d + j
    OBVIOUS
  <2>. QED  BY <2>2, <2>3, <2>4
<1>. HIDE DEF a, b
<1>4. /\ c \in Seq(S) /\ Len(c) = Len(a) + Len(b)
      /\ \A j \in 1 .. Len(a) + Len(b) : c[j] = IF j <= Len(a) THEN a[j] ELSE b[j - Len(a)]
  BY <1>2, <1>3, ConcatProperties
<1>. HIDE DEF c
<1>5. Len(a) + Len(b) = n - 1
  BY <1>2, <1>3
<1>6. c \in [1 .. n - 1 -> S]
  <2>1. c \in Seq(S) /\ Len(c) = n - 1
    BY <1>4, <1>5
  <2>. QED  BY <2>1, SeqIsFunction
<1>7. ASSUME NEW j \in 1 .. n - 1
      PROVE  c[j] = f[Ahead(j, d)]
  <2>1. c[j] = IF j <= d - 1 THEN a[j] ELSE b[j - (d - 1)]
    BY <1>2, <1>4, <1>5
  <2>2. CASE j < d
    <3>1. j <= d - 1 /\ j \in 1 .. d - 1 /\ Ahead(j, d) = j
      BY <2>2 DEF Ahead
    <3>. QED  BY <1>2, <2>1, <3>1
  <2>3. CASE ~ (j < d)
    <3>1. ~ (j <= d - 1) /\ j - (d - 1) \in 1 .. n - d /\ Ahead(j, d) = j + 1 /\ d + (j - (d - 1)) = j + 1
      BY <2>3 DEF Ahead
    <3>2. b[j - (d - 1)] = f[d + (j - (d - 1))]
      BY <1>3, <3>1
    <3>. QED  BY <2>1, <3>1, <3>2
  <2>. QED  BY <2>2, <2>3
<1>. QED  BY <1>1, <1>6, <1>7 DEF IsRemoved

\* Every row has a place for a handle.
LEMMA EnsuredIs ==
    ASSUME NEW hs \in Seq(Nat), NEW n \in Nat
    PROVE  Ensured(hs, n) \in [1 .. n -> Nat]
<1>. DEFINE kept == IF Len(hs) > n THEN << >> ELSE hs
            zeros == [i \in 1 .. n - Len(kept) |-> 0]
            c == kept \o zeros
<1>1. kept \in Seq(Nat) /\ Len(kept) \in 0 .. n
  <2>1. Len(hs) \in Nat
    OBVIOUS
  <2>2. CASE Len(hs) > n
    <3>1. kept = << >>
      BY <2>2
    <3>. QED  BY <3>1
  <2>3. CASE ~ (Len(hs) > n)
    <3>1. kept = hs
      BY <2>3
    <3>2. Len(hs) \in 0 .. n
      BY <2>1, <2>3
    <3>. QED  BY <3>1, <3>2
  <2>. QED  BY <2>2, <2>3
<1>2. Ensured(hs, n) = c
  BY DEF Ensured
<1>. HIDE DEF kept
<1>. DEFINE l == Len(kept)
<1>3. l \in 0 .. n
  BY <1>1
<1>4. zeros \in Seq(Nat) /\ Len(zeros) = n - l
  <2>. HIDE DEF l
  <2>0. zeros = [i \in 1 .. n - l |-> 0]
    BY DEF l
  <2>. HIDE DEF zeros
  <2>1. n - l \in Nat
    BY <1>3
  <2>2. zeros \in [1 .. n - l -> Nat]
    BY <2>0
  <2>. QED  BY <2>1, <2>2, FunctionIsSeq
<1>. HIDE DEF zeros
<1>5. c \in Seq(Nat) /\ Len(c) = Len(kept) + Len(zeros)
  BY <1>1, <1>4, ConcatProperties
<1>6. Len(c) = n
  <2>1. l + (n - l) = n
    <3>. HIDE DEF l
    <3>. QED  BY <1>3
  <2>. QED  BY <1>4, <1>5, <2>1
<1>. HIDE DEF c
<1>7. c \in [1 .. n -> Nat]
  BY <1>5, <1>6, SeqIsFunction
<1>. QED  BY <1>2, <1>7

\* The order of a unit that was aboard the dead one ends.
Obeys(order, on, dead) == IF order = "board" /\ on = dead THEN "none" ELSE order

LEMMA RenumberedIs ==
    ASSUME NEW n \in Nat, NEW dead \in 1 .. n, NEW v \in Veh(n), v.next # dead, v.prev # dead
    PROVE  /\ Renumbered(v, dead) \in Veh(n - 1)
           /\ Renumbered(v, dead).unit = v.unit /\ Renumbered(v, dead).at = v.at
           /\ Renumbered(v, dead).next = Behind(v.next, dead)
           /\ Renumbered(v, dead).prev = Behind(v.prev, dead)
           /\ Renumbered(v, dead).order = Obeys(v.order, v.on, dead)
           /\ Renumbered(v, dead).on = Followed(v.on, dead)
<1>. DEFINE w == Renumbered(v, dead)
            o == IF v.order = "board" /\ v.on = dead THEN "none" ELSE v.order
            x == Behind(v.next, dead)
            y == Behind(v.prev, dead)
            z == Followed(v.on, dead)
<1>1. /\ v.next \in 0 .. n /\ v.prev \in 0 .. n /\ v.on \in 0 .. n /\ v.order \in {"none", "board"}
      /\ v.unit \in Units /\ v.at \in Places
  BY DEF Veh
<1>2. x \in 0 .. n - 1 /\ y \in 0 .. n - 1 /\ z \in 0 .. n - 1
  BY <1>1 DEF Behind, Followed
<1>3. o \in {"none", "board"}
  BY <1>1
<1>4. w = [v EXCEPT !.prev = y, !.next = x, !.order = o, !.on = z]
  BY DEF Renumbered
<1>. HIDE DEF x, y, z, o, w
<1>5. w \in Veh(n - 1) /\ w.unit = v.unit /\ w.at = v.at /\ w.next = x /\ w.prev = y
      /\ w.order = o /\ w.on = z
  BY <1>1, <1>2, <1>3, <1>4 DEF Veh
<1>. QED  BY <1>5 DEF x, y, z, o, w, Obeys

\* The world with n rows, and what is left of it when one has died.
Worlds(n) == [vehs : Arrays(n), inTile : [Tiles -> BOOLEAN], handles : Seq(Nat)]
Tab(w) == [vehs |-> w.vehs, inTile |-> w.inTile]
Closing(n, r, dead) == [j \in 1 .. n - 1 |-> r[Ahead(j, dead)]]
IsKilled(n, w, r, dead, x) ==
  /\ x \in Worlds(n - 1) /\ Ranked(n - 1, Tab(x), Closing(n, r, dead))
  /\ \A j \in 1 .. n - 1 : x.vehs[j].at = w.vehs[Ahead(j, dead)].at

\* Orders and handles stay with their units, and a transport's row follows it.
RowsFollow(n, w, dead, x) ==
  /\ x.handles \in [1 .. n - 1 -> Nat]
  /\ \A j \in 1 .. n - 1 :
       /\ x.handles[j] = Ensured(w.handles, n)[Ahead(j, dead)]
       /\ x.vehs[j].unit = w.vehs[Ahead(j, dead)].unit
       /\ x.vehs[j].order = Obeys(w.vehs[Ahead(j, dead)].order, w.vehs[Ahead(j, dead)].on, dead)
       /\ x.vehs[j].on = Followed(w.vehs[Ahead(j, dead)].on, dead)

\* What veh_kill leaves.
LEMMA VehKillIs ==
    ASSUME NEW n \in Nat, NEW w \in Worlds(n), NEW r, Ranked(n, Tab(w), r), NoneAt(n, Tab(w), Lifted),
           NEW dead \in 1 .. n
    PROVE  IsKilled(n, w, r, dead, VehKill(w, dead)) /\ RowsFollow(n, w, dead, VehKill(w, dead))
<1>. DEFINE s == Tab(w)
            u == VehLift(s, dead)
            us == u.vehs
            rows == [j \in DOMAIN us |-> Renumbered(us[j], dead)]
            xs == RemoveAt(rows, dead)
            hs == RemoveAt(Ensured(w.handles, Len(w.vehs)), dead)
            x == VehKill(w, dead)
            r2 == Closing(n, r, dead)
<1>1. x = [vehs |-> xs, inTile |-> u.inTile, handles |-> hs]
  BY DEF VehKill, Tab
<1>2. s \in Tables(n) /\ OnlyAt(n, s, dead, Lifted) /\ s.vehs = w.vehs
  BY DEF Ranked, NoneAt, OnlyAt, Tab
<1>3. Ranked(n, u, r) /\ IsLifted(n, s, dead, u)
  BY <1>2, LiftRanked, VehLiftIs
<1>4. w.handles \in Seq(Nat) /\ Len(w.vehs) = n
  BY <1>2, TableFields DEF Worlds
<1>5. /\ hs \in Seq(Nat) /\ hs \in [1 .. n - 1 -> Nat]
      /\ \A j \in 1 .. n - 1 : hs[j] = Ensured(w.handles, n)[Ahead(j, dead)]
  <2>. DEFINE es == Ensured(w.handles, n)
  <2>1. es \in [1 .. n -> Nat]
    BY <1>4, EnsuredIs
  <2>2. hs = RemoveAt(es, dead)
    BY <1>4
  <2>. HIDE DEF es, hs
  <2>3. hs \in [1 .. n - 1 -> Nat] /\ \A j \in 1 .. n - 1 : hs[j] = es[Ahead(j, dead)]
    <3>1. IsRemoved(Nat, n, es, dead, hs)
      BY <2>1, <2>2, RemoveAtIs
    <3>. QED  BY <3>1 DEF IsRemoved
  <2>4. n - 1 \in Nat
    OBVIOUS
  <2>5. hs \in Seq(Nat)
    BY <2>3, <2>4, FunctionIsSeq
  <2>. QED  BY <2>3, <2>5 DEF es
<1>. HIDE DEF s, u, hs, x, r2
<1>6. us \in Arrays(n) /\ Linked(n, us, r) /\ u \in Tables(n) /\ Bits(u) /\ DOMAIN us = 1 .. n
  BY <1>3, TableFields DEF Ranked
<1>7. \A j \in 1 .. n : us[j].at = IF j = dead THEN Lifted ELSE w.vehs[j].at
  BY <1>2, <1>3 DEF IsLifted
<1>7a. \A j \in 1 .. n : /\ us[j].unit = w.vehs[j].unit
                         /\ us[j].order = w.vehs[j].order /\ us[j].on = w.vehs[j].on
  BY <1>2, <1>3 DEF IsLifted, Same
<1>8. OnlyAt(n, u, dead, Lifted) /\ us[dead].at = Lifted
  BY <1>2, <1>7 DEF OnlyAt
<1>. HIDE DEF us
<1>9. \A j \in 1 .. n : us[j] \in Veh(n) /\ us[j].next # dead /\ us[j].prev # dead
  <2>. TAKE j \in 1 .. n
  <2>1. us[j] \in Veh(n) /\ r[j] \in Nat
    BY <1>6, VehFields DEF Linked
  <2>2. ASSUME us[j].next = dead
        PROVE  FALSE
    <3>1. us[dead].at = us[j].at /\ r[j] < r[dead]
      BY <1>6, <2>2 DEF Linked
    <3>2. j = dead
      BY <1>8, <3>1 DEF OnlyAt, us
    <3>. QED  BY <2>1, <3>1, <3>2
  <2>3. ASSUME us[j].prev = dead
        PROVE  FALSE
    <3>1. us[dead].at = us[j].at /\ r[dead] < r[j]
      BY <1>6, <2>3 DEF Linked
    <3>2. j = dead
      BY <1>8, <3>1 DEF OnlyAt, us
    <3>. QED  BY <2>1, <3>1, <3>2
  <2>. QED  BY <2>1, <2>2, <2>3
<1>10. \A j \in 1 .. n :
         /\ rows[j] \in Veh(n - 1) /\ rows[j].at = us[j].at
         /\ rows[j].next = Behind(us[j].next, dead) /\ rows[j].prev = Behind(us[j].prev, dead)
         /\ rows[j].unit = us[j].unit /\ rows[j].order = Obeys(us[j].order, us[j].on, dead)
         /\ rows[j].on = Followed(us[j].on, dead)
  <2>. TAKE j \in 1 .. n
  <2>1. rows[j] = Renumbered(us[j], dead)
    BY <1>6
  <2>. DEFINE v == us[j]
              z == rows[j]
  <2>2. v \in Veh(n) /\ v.next # dead /\ v.prev # dead /\ z = Renumbered(v, dead)
    BY <1>9, <2>1
  <2>. HIDE DEF rows, v, z
  <2>3. /\ z \in Veh(n - 1) /\ z.unit = v.unit /\ z.at = v.at
        /\ z.next = Behind(v.next, dead) /\ z.prev = Behind(v.prev, dead)
        /\ z.order = Obeys(v.order, v.on, dead) /\ z.on = Followed(v.on, dead)
    BY <2>2, RenumberedIs
  <2>. QED  BY <2>3 DEF v, z
<1>11. rows \in [1 .. n -> Veh(n - 1)]
  <2>1. rows = [j \in 1 .. n |-> rows[j]]
    BY <1>6
  <2>. HIDE DEF rows
  <2>. QED  BY <1>10, <2>1
<1>. HIDE DEF rows
<1>12. n - 1 \in Nat /\ \A j \in 1 .. n - 1 : Ahead(j, dead) \in 1 .. n /\ Ahead(j, dead) # dead
  BY AheadBehind
<1>13. xs \in Arrays(n - 1) /\ \A j \in 1 .. n - 1 : xs[j] = rows[Ahead(j, dead)]
  <2>. DEFINE S == Veh(n - 1)
  <2>1. Arrays(n - 1) = [1 .. n - 1 -> S] /\ rows \in [1 .. n -> S]
    BY <1>11 DEF Arrays
  <2>. HIDE DEF S
  <2>2. IsRemoved(S, n, rows, dead, RemoveAt(rows, dead))
    BY <2>1, RemoveAtIs
  <2>4. Arrays(n - 1) = [1 .. n - 1 -> S]
    BY <2>1
  <2>. HIDE DEF xs
  <2>5. xs \in [1 .. n - 1 -> S] /\ \A j \in 1 .. n - 1 : xs[j] = rows[Ahead(j, dead)]
    BY <2>2 DEF IsRemoved, xs
  <2>. QED  BY <2>4, <2>5
<1>. HIDE DEF xs
<1>14. \A j \in 1 .. n - 1 :
         /\ xs[j].at = us[Ahead(j, dead)].at
         /\ xs[j].next = Behind(us[Ahead(j, dead)].next, dead)
         /\ xs[j].prev = Behind(us[Ahead(j, dead)].prev, dead)
  BY <1>10, <1>12, <1>13
<1>15. /\ \A j \in 1 .. n : At(us)[j] = us[j].at /\ Down(us)[j] = us[j].next /\ Up(us)[j] = us[j].prev
       /\ \A j \in 1 .. n - 1 : At(xs)[j] = xs[j].at /\ Down(xs)[j] = xs[j].next /\ Up(xs)[j] = xs[j].prev
  BY <1>6, <1>12, <1>13, VehFields
<1>16. Chain(n, At(us), Down(us), Up(us), r)
  BY <1>6, LinkedIsChain
<1>17. Closed(n, At(us), Down(us), Up(us), dead, At(xs), Down(xs), Up(xs))
  <2>1. Alone(n, At(us), dead, At(us)[dead])
    BY <1>8, <1>15 DEF Alone, OnlyAt, us
  <2>2. \A j \in 1 .. n - 1 :
          /\ At(xs)[j] = At(us)[Ahead(j, dead)]
          /\ Down(xs)[j] = Behind(Down(us)[Ahead(j, dead)], dead)
          /\ Up(xs)[j] = Behind(Up(us)[Ahead(j, dead)], dead)
    BY <1>12, <1>14, <1>15
  <2>. QED  BY <2>1, <2>2 DEF Closed
<1>18. Chain(n - 1, At(xs), Down(xs), Up(xs), r2)
  BY <1>16, <1>17, ChainRemove DEF r2, Closing
<1>19. Linked(n - 1, xs, r2)
  BY <1>12, <1>13, <1>18, LinkedIsChain
<1>20. Tab(x) = [vehs |-> xs, inTile |-> u.inTile] /\ x.vehs = xs /\ x.inTile = u.inTile /\ x.handles = hs
  BY <1>1 DEF Tab
<1>21. u.inTile \in [Tiles -> BOOLEAN]
  BY <1>6, TableFields
<1>22. x \in Worlds(n - 1) /\ Tab(x) \in Tables(n - 1)
  BY <1>1, <1>5, <1>13, <1>20, <1>21 DEF Worlds, Tables
<1>23. ASSUME NEW q \in Tiles
       PROVE  u.inTile[q] <=> \E j \in 1 .. n - 1 : xs[j].at = q
  <2>1. q # Lifted
    BY OffMapIsNoTile DEF OffMap
  <2>2. u.inTile[q] <=> \E j \in 1 .. n : us[j].at = q
    BY <1>6 DEF Bits, us
  <2>3. ASSUME NEW j \in 1 .. n, us[j].at = q
        PROVE  \E k \in 1 .. n - 1 : xs[k].at = q
    <3>1. j # dead
      BY <1>8, <2>1, <2>3
    <3>2. Behind(j, dead) \in 1 .. n - 1 /\ Ahead(Behind(j, dead), dead) = j
      BY <3>1, AheadBehind
    <3>3. xs[Behind(j, dead)].at = q
      BY <1>14, <2>3, <3>2
    <3>. QED  BY <3>2, <3>3
  <2>4. ASSUME NEW k \in 1 .. n - 1, xs[k].at = q
        PROVE  \E j \in 1 .. n : us[j].at = q
    BY <1>12, <1>14, <2>4
  <2>. QED  BY <2>2, <2>3, <2>4
<1>24. Bits(Tab(x))
  <2>1. DOMAIN xs = 1 .. n - 1
    BY <1>12, <1>13, VehFields
  <2>2. Tab(x).vehs = xs /\ Tab(x).inTile = u.inTile
    BY <1>20
  <2>. QED  BY <1>23, <2>1, <2>2 DEF Bits
<1>25. Ranked(n - 1, Tab(x), r2)
  <2>1. Tab(x).vehs = xs
    BY <1>20
  <2>. QED  BY <1>19, <1>22, <1>24, <2>1 DEF Ranked
<1>26. \A j \in 1 .. n - 1 : x.vehs[j].at = w.vehs[Ahead(j, dead)].at
  BY <1>7, <1>12, <1>14, <1>20
<1>27. \A j \in 1 .. n - 1 :
         /\ x.handles[j] = Ensured(w.handles, n)[Ahead(j, dead)]
         /\ x.vehs[j].unit = w.vehs[Ahead(j, dead)].unit
         /\ x.vehs[j].order = Obeys(w.vehs[Ahead(j, dead)].order, w.vehs[Ahead(j, dead)].on, dead)
         /\ x.vehs[j].on = Followed(w.vehs[Ahead(j, dead)].on, dead)
  <2>. TAKE j \in 1 .. n - 1
  <2>. DEFINE k == Ahead(j, dead)
  <2>1. k \in 1 .. n
    BY <1>12
  <2>2. x.handles[j] = Ensured(w.handles, n)[k] /\ x.vehs[j] = rows[k]
    BY <1>5, <1>13, <1>20
  <2>. HIDE DEF k
  <2>3. /\ us[k].unit = w.vehs[k].unit /\ us[k].order = w.vehs[k].order /\ us[k].on = w.vehs[k].on
    BY <1>7a, <2>1
  <2>4. /\ rows[k].unit = us[k].unit /\ rows[k].order = Obeys(us[k].order, us[k].on, dead)
        /\ rows[k].on = Followed(us[k].on, dead)
    BY <1>10, <2>1
  <2>5. /\ x.vehs[j].unit = w.vehs[k].unit /\ x.vehs[j].on = Followed(w.vehs[k].on, dead)
        /\ x.vehs[j].order = Obeys(w.vehs[k].order, w.vehs[k].on, dead)
    BY <2>2, <2>3, <2>4
  <2>. QED  BY <2>2, <2>5 DEF k
<1>28. RowsFollow(n, w, dead, x)
  <2>1. x.handles \in [1 .. n - 1 -> Nat]
    BY <1>5, <1>20
  <2>. QED  BY <1>27, <2>1 DEF RowsFollow
<1>29. IsKilled(n, w, r, dead, x)
  BY <1>22, <1>25, <1>26 DEF IsKilled, r2
<1>. QED  BY <1>28, <1>29 DEF x

\* A set of worlds that no death of a unit at p leads out of.
Closes(n, W, p) ==
  \A m \in 1 .. n : \A y \in W \cap Worlds(m) : \A d \in 1 .. m :
    /\ y.vehs[d].at = p /\ NoneAt(m, Tab(y), Lifted)
    /\ \E r : Ranked(m, Tab(y), r)
    => VehKill(y, d) \in W

\* The loop of stack_kill: next is the first one that is left at p, of the m rows left.
Killing(n, Q, W, p, x, m) ==
  /\ x.world \in W
  /\ m \in 0 .. n /\ x.world \in Worlds(m) /\ NoneAt(m, Tab(x.world), Lifted)
  /\ \A j \in 1 .. m : x.world.vehs[j].at \in Q
  /\ \E r : /\ Ranked(m, Tab(x.world), r)
            /\ \/ x.next = 0 /\ NoneAt(m, Tab(x.world), p)
               \/ /\ x.next \in 1 .. m /\ x.world.vehs[x.next].at = p
                  /\ \A j \in 1 .. m : x.world.vehs[j].at = p => r[x.next] <= r[j]

LEMMA KillOneIs ==
    ASSUME NEW n \in Nat, NEW Q, NEW W, NEW p, Closes(n, W, p), NEW x, NEW m, Killing(n, Q, W, p, x, m), x.next # 0
    PROVE  /\ m \in 1 .. n /\ Killing(n, Q, W, p, KillOne(x), m - 1)
           /\ KillOne(x) = [world |-> KillOne(x).world, next |-> KillOne(x).next]
<1>. DEFINE w == x.world
            d == x.next
            y == VehKill(w, d)
            e == w.vehs[d].next
            z == KillOne(x)
<1>1. /\ m \in 0 .. n /\ w \in Worlds(m) /\ NoneAt(m, Tab(w), Lifted)
      /\ \A j \in 1 .. m : w.vehs[j].at \in Q
  BY DEF Killing
<1>2. PICK r : /\ Ranked(m, Tab(w), r)
               /\ d \in 1 .. m /\ w.vehs[d].at = p
               /\ \A j \in 1 .. m : w.vehs[j].at = p => r[d] <= r[j]
  BY DEF Killing
<1>3. z = [world |-> y, next |-> Behind(e, d)]
  BY DEF KillOne
<1>4. z.world = y /\ z.next = Behind(e, d)
  BY <1>3
<1>5. m \in 1 .. n /\ m \in Nat
  BY <1>1, <1>2
<1>6. Linked(m, w.vehs, r) /\ w.vehs \in Arrays(m)
  BY <1>2 DEF Ranked, Tab, Tables
<1>. HIDE DEF w, d, y, e, z
<1>7. IsKilled(m, w, r, d, y)
  BY <1>1, <1>2, <1>5, VehKillIs DEF y
<1>. DEFINE r2 == Closing(m, r, d)
<1>8. /\ y \in Worlds(m - 1) /\ Ranked(m - 1, Tab(y), r2)
      /\ \A j \in 1 .. m - 1 : y.vehs[j].at = w.vehs[Ahead(j, d)].at
  BY <1>7 DEF IsKilled
<1>9. \A j \in 1 .. m - 1 : r2[j] = r[Ahead(j, d)]
  BY DEF Closing
<1>. HIDE DEF r2
<1>10. /\ \A j \in 1 .. m - 1 : /\ Ahead(j, d) \in 1 .. m /\ Ahead(j, d) # d
                                /\ Behind(Ahead(j, d), d) = j
       /\ \A j \in 1 .. m : j # d => /\ Behind(j, d) \in 1 .. m - 1
                                     /\ Ahead(Behind(j, d), d) = j
       /\ Behind(0, d) = 0
  BY <1>2, <1>5, AheadBehind
<1>11. Tab(w).vehs = w.vehs /\ Tab(y).vehs = y.vehs
  BY DEF Tab
<1>11a. y \in W
  <2>1. w \in W /\ w \in Worlds(m) /\ NoneAt(m, Tab(w), Lifted)
    BY <1>1 DEF Killing, w
  <2>. QED  BY <1>2, <1>5, <2>1 DEF Closes, y
<1>12. m - 1 \in 0 .. n /\ NoneAt(m - 1, Tab(y), Lifted) /\ \A j \in 1 .. m - 1 : y.vehs[j].at \in Q
  <2>1. m - 1 \in 0 .. n
    BY <1>5
  <2>2. \A j \in 1 .. m : w.vehs[j].at # Lifted
    BY <1>1, <1>11 DEF NoneAt
  <2>3. \A j \in 1 .. m - 1 : y.vehs[j].at # Lifted
    BY <1>8, <1>10, <2>2
  <2>4. \A j \in 1 .. m - 1 : y.vehs[j].at \in Q
    BY <1>1, <1>8, <1>10
  <2>. QED  BY <1>11, <2>1, <2>3, <2>4 DEF NoneAt
<1>13. \A j \in 1 .. m : r[j] \in Nat
  BY <1>6 DEF Linked
<1>14. ASSUME NEW j \in 1 .. m, w.vehs[j].at = p, j # d
       PROVE  e # 0 /\ r[e] <= r[j]
  <2>1. r[d] < r[j]
    <3>1. r[d] <= r[j]
      BY <1>2, <1>14
    <3>2. r[d] # r[j]
      BY <1>2, <1>6, <1>14 DEF Linked
    <3>. QED  BY <1>2, <1>13, <3>1, <3>2
  <2>. QED  BY <1>2, <1>6, <1>14, <2>1 DEF Linked, e
<1>15. /\ \E r3 : /\ Ranked(m - 1, Tab(y), r3)
                  /\ \/ z.next = 0 /\ NoneAt(m - 1, Tab(y), p)
                     \/ /\ z.next \in 1 .. m - 1 /\ y.vehs[z.next].at = p
                        /\ \A j \in 1 .. m - 1 : y.vehs[j].at = p => r3[z.next] <= r3[j]
  <2>1. CASE e = 0
    <3>1. \A j \in 1 .. m - 1 : y.vehs[j].at # p
      BY <1>8, <1>10, <1>14, <2>1
    <3>2. z.next = 0 /\ NoneAt(m - 1, Tab(y), p)
      BY <1>4, <1>10, <1>11, <2>1, <3>1 DEF NoneAt
    <3>. QED  BY <1>8, <3>2
  <2>2. CASE e # 0
    <3>1. e \in 1 .. m /\ w.vehs[e].at = p /\ e # d
      <4>1. e \in 0 .. m
        BY <1>2, <1>6 DEF Linked, e
      <4>2. w.vehs[e].at = w.vehs[d].at /\ r[d] < r[e]
        BY <1>2, <1>6, <2>2 DEF Linked, e
      <4>. QED  BY <1>2, <1>13, <2>2, <4>1, <4>2
    <3>. DEFINE f == Behind(e, d)
    <3>. HIDE DEF f
    <3>2. f \in 1 .. m - 1 /\ Ahead(f, d) = e /\ z.next = f
      BY <1>4, <1>10, <3>1 DEF f
    <3>3. y.vehs[f].at = p /\ r2[f] = r[e]
      BY <1>8, <1>9, <3>1, <3>2
    <3>4. ASSUME NEW j \in 1 .. m - 1, y.vehs[j].at = p
          PROVE  r2[f] <= r2[j]
      <4>1. Ahead(j, d) \in 1 .. m /\ Ahead(j, d) # d /\ w.vehs[Ahead(j, d)].at = p
        BY <1>8, <1>10, <3>4
      <4>2. r[e] <= r[Ahead(j, d)]
        BY <1>14, <4>1
      <4>. QED  BY <1>9, <3>3, <4>2
    <3>. QED  BY <1>8, <3>2, <3>3, <3>4
  <2>. QED  BY <2>1, <2>2
<1>16. Killing(n, Q, W, p, z, m - 1)
  BY <1>4, <1>8, <1>11a, <1>12, <1>15 DEF Killing
<1>. QED  BY <1>3, <1>4, <1>5, <1>16 DEF z

\* What stack_kill leaves: nobody at p.
Killed(n, Q, W, p, x) ==
  \E m \in 0 .. n :
    /\ x \in W /\ x \in Worlds(m)
    /\ \E r : Ranked(m, Tab(x), r)
    /\ \A j \in 1 .. m : x.vehs[j].at \in Q /\ x.vehs[j].at # p

LEMMA StackKillIs ==
    ASSUME NEW n \in Nat, NEW w \in Worlds(n), NEW r, Ranked(n, Tab(w), r), NoneAt(n, Tab(w), Lifted),
           NEW Q, \A j \in 1 .. n : w.vehs[j].at \in Q, NEW W, NEW p, Closes(n, W, p), w \in W,
           NEW i \in 0 .. n,
           i = 0 => NoneAt(n, Tab(w), p), i # 0 => w.vehs[i].at = p
    PROVE  Killed(n, Q, W, p, StackKill(w, i))
<1>. DEFINE All == UNION {Worlds(m) : m \in 0 .. n}
            S == {x \in [world : All, next : 0 .. n] : \E m : Killing(n, Q, W, p, x, m)}
            x0 == [world |-> w, next |-> VehTop(w.vehs, i)]
            G == [k \in 1 .. n |-> [x \in S |-> KillOne(x)]]
            killed == CHOOSE h : h = [k \in 0 .. n |-> IF k = 0 THEN x0 ELSE KillOne(h[k - 1])]
<1>1. w.vehs \in Arrays(n) /\ Linked(n, w.vehs, r) /\ Len(w.vehs) = n /\ Tab(w).vehs = w.vehs
  <2>1. w.vehs \in Arrays(n) /\ Linked(n, w.vehs, r) /\ Tab(w).vehs = w.vehs
    BY DEF Ranked, Tab, Tables
  <2>. QED  BY <2>1, VehFields
<1>2. StackKill(w, i) = killed[n].world
  BY <1>1 DEF StackKill
<1>. HIDE DEF killed
<1>3. Killing(n, Q, W, p, x0, n)
  <2>0. x0.world = w /\ x0.next = VehTop(w.vehs, i) /\ n \in 0 .. n
    OBVIOUS
  <2>. HIDE DEF x0
  <2>1. CASE i = 0
    <3>1. x0.next = 0
      BY <2>0, <2>1 DEF VehTop
    <3>. QED  BY <2>0, <2>1, <3>1 DEF Killing
  <2>2. CASE i # 0
    <3>1. /\ x0.next \in 1 .. n /\ w.vehs[x0.next].at = p
          /\ \A j \in 1 .. n : w.vehs[j].at = p => r[x0.next] <= r[j]
      <4>1. i \in 1 .. n
        BY <2>2
      <4>2. /\ VehTop(w.vehs, i) \in 1 .. n /\ w.vehs[VehTop(w.vehs, i)].at = w.vehs[i].at
            /\ \A j \in 1 .. n : w.vehs[j].at = w.vehs[i].at => r[VehTop(w.vehs, i)] <= r[j]
        BY <1>1, <4>1, VehTopIs
      <4>. QED  BY <2>0, <2>2, <4>2
    <3>. QED  BY <2>0, <3>1 DEF Killing
  <2>. QED  BY <2>1, <2>2
<1>4. x0 \in S
  <2>1. w \in All
    OBVIOUS
  <2>2. x0.next \in 0 .. n
    BY <1>3 DEF Killing
  <2>. HIDE DEF All
  <2>. QED  BY <1>3, <2>1, <2>2
<1>5. \A k \in 1 .. n : \A x \in S : G[k][x] = KillOne(x)
  OBVIOUS
<1>. HIDE DEF G, x0
<1>6. ASSUME NEW k \in 1 .. n, NEW x \in S
      PROVE  G[k][x] \in S
  <2>. DEFINE z == KillOne(x)
  <2>1. PICK m : Killing(n, Q, W, p, x, m)
    OBVIOUS
  <2>2. CASE x.next = 0
    <3>1. KillOne(x) = x
      BY <2>2 DEF KillOne
    <3>. QED  BY <1>5, <3>1
  <2>3. CASE x.next # 0
    <3>1. Killing(n, Q, W, p, z, m - 1) /\ z = [world |-> z.world, next |-> z.next]
      BY <2>1, <2>3, KillOneIs
    <3>. HIDE DEF z
    <3>2. m - 1 \in 0 .. n /\ z.world \in Worlds(m - 1) /\ (z.next = 0 \/ z.next \in 1 .. m - 1)
      BY <3>1 DEF Killing
    <3>3. z.next \in 0 .. n
      BY <3>2
    <3>4. z.world \in All
      BY <3>2
    <3>. HIDE DEF All
    <3>5. z \in S
      BY <3>1, <3>3, <3>4
    <3>. QED  BY <1>5, <3>5 DEF z
  <2>. QED  BY <2>2, <2>3
<1>. HIDE DEF S
<1>7. PICK h : Loop(h, n, S, x0, G)
  BY <1>4, <1>6, LoopExists
<1>8. \A k \in 0 .. n : h[k] = IF k = 0 THEN x0 ELSE KillOne(h[k - 1])
  <2>. TAKE k \in 0 .. n
  <2>1. CASE k = 0
    BY <1>7, <2>1 DEF Loop
  <2>2. CASE k # 0
    <3>1. k \in 1 .. n /\ k - 1 \in 0 .. n
      BY <2>2
    <3>2. h[k - 1] \in S /\ h[k] = G[k][h[k - 1]]
      BY <1>7, <3>1 DEF Loop
    <3>. QED  BY <1>5, <2>2, <3>1, <3>2
  <2>. QED  BY <2>1, <2>2
<1>9. h = [k \in 0 .. n |-> h[k]]
  BY <1>7 DEF Loop
<1>10. killed = [k \in 0 .. n |-> IF k = 0 THEN x0 ELSE KillOne(killed[k - 1])]
  BY <1>8, <1>9 DEF killed
<1>11. \A k \in 0 .. n : killed[k] = IF k = 0 THEN x0 ELSE KillOne(killed[k - 1])
  BY <1>10
<1>. DEFINE R == {k \in 0 .. n : \E m : Killing(n, Q, W, p, killed[k], m) /\ (killed[k].next = 0 \/ m = n - k)}
<1>12. 0 \in R
  <2>1. 0 \in 0 .. n /\ n = n - 0
    OBVIOUS
  <2>2. killed[0] = x0
    BY <1>11, <2>1
  <2>. QED  BY <1>3, <2>1, <2>2
<1>13. ASSUME NEW k \in 1 .. n, k - 1 \in R
       PROVE  k \in R
  <2>. DEFINE x == killed[k - 1]
              z == killed[k]
  <2>1. PICK m : Killing(n, Q, W, p, x, m) /\ (x.next = 0 \/ m = n - (k - 1))
    BY <1>13
  <2>2. z = KillOne(x) /\ k \in 0 .. n
    BY <1>11
  <2>. HIDE DEF x
  <2>. SUFFICES \E l : Killing(n, Q, W, p, z, l) /\ (z.next = 0 \/ l = n - k)
    BY <2>2
  <2>. HIDE DEF z
  <2>3. CASE x.next = 0
    <3>1. z = x
      BY <2>2, <2>3 DEF KillOne
    <3>. QED  BY <2>1, <2>3, <3>1
  <2>4. CASE x.next # 0
    <3>1. Killing(n, Q, W, p, z, m - 1)
      BY <2>1, <2>2, <2>4, KillOneIs
    <3>2. m - 1 = n - k
      BY <2>1, <2>4
    <3>. QED  BY <3>1, <3>2
  <2>. QED  BY <2>3, <2>4
<1>14. n \in R
  <2>. HIDE DEF R
  <2>1. \A k \in 0 .. n : k \in R
    BY <1>12, <1>13, UpTo
  <2>. QED  BY <2>1
<1>. DEFINE x == killed[n]
<1>15. PICK m : Killing(n, Q, W, p, x, m) /\ (x.next = 0 \/ m = n - n)
  BY <1>14
<1>. HIDE DEF x
<1>16. x.next = 0
  <2>1. m = 0 => x.next \notin 1 .. m
    OBVIOUS
  <2>2. x.next = 0 \/ x.next \in 1 .. m
    BY <1>15 DEF Killing
  <2>3. x.next = 0 \/ m = 0
    BY <1>15
  <2>. QED  BY <2>1, <2>2, <2>3
<1>17. /\ m \in 0 .. n /\ x.world \in Worlds(m) /\ x.world \in W
       /\ \A j \in 1 .. m : x.world.vehs[j].at \in Q
       /\ \E r3 : Ranked(m, Tab(x.world), r3)
       /\ NoneAt(m, Tab(x.world), p)
  BY <1>15, <1>16 DEF Killing
<1>18. \A j \in 1 .. m : x.world.vehs[j].at # p
  BY <1>17 DEF NoneAt, Tab
<1>19. Killed(n, Q, W, p, x.world)
  BY <1>17, <1>18 DEF Killed
<1>. QED  BY <1>2, <1>19 DEF x

AllWorlds == UNION {Worlds(m) : m \in Nat}

LEMMA AllWorldsClose ==
    ASSUME NEW n \in Nat, NEW p
    PROVE  Closes(n, AllWorlds, p)
<1>1. ASSUME NEW m \in 1 .. n, NEW y \in Worlds(m), NEW d \in 1 .. m, NoneAt(m, Tab(y), Lifted),
             NEW r, Ranked(m, Tab(y), r)
      PROVE  VehKill(y, d) \in AllWorlds
  <2>1. m \in Nat /\ m - 1 \in Nat
    OBVIOUS
  <2>2. IsKilled(m, y, r, d, VehKill(y, d))
    BY <1>1, <2>1, VehKillIs
  <2>3. VehKill(y, d) \in Worlds(m - 1)
    BY <2>2 DEF IsKilled
  <2>. QED  BY <2>1, <2>3 DEF AllWorlds
<1>. QED  BY <1>1 DEF Closes

-----------------------------------------------------------------------------
(* The invariant.                                                          *)

\* Between two calls every stack is a list, and every unit is on the map.
Whole(n, s) ==
  /\ \E r : Ranked(n, s, r)
  /\ \A j \in 1 .. n : s.vehs[j].at \in Tiles
Arranged ==
  /\ Len(vehs) \in Nat /\ Whole(Len(vehs), Table)
  /\ handles \in Seq(Nat) /\ nextHandle \in Nat

LEMMA WholeNone ==
    ASSUME NEW n, NEW s, Whole(n, s)
    PROVE  /\ NoneAt(n, s, Lifted) /\ NoneAt(n, s, Sorting)
           /\ NoneAt(n, s, Loading) /\ NoneAt(n, s, Cleared)
BY OffMapIsNoTile DEF Whole, NoneAt, OffMap

LEMMA WholeStayed ==
    ASSUME NEW n \in Nat, NEW s, Whole(n, s), NEW t, NEW r, Stayed(n, s, t, r)
    PROVE  Whole(n, t)
BY DEF Whole, Stayed

LEMMA TilesArePlaces ==
    ASSUME NEW p \in Tiles
    PROVE  /\ p \in Places \ {Lifted} /\ p \notin OffMap
           /\ p # Lifted /\ p # Loading /\ p # Sorting /\ p # Cleared
BY OffMapIsNoTile DEF Places, OffMap

LEMMA WholePut ==
    ASSUME NEW n \in Nat, NEW s, Whole(n, s), NEW i \in 1 .. n, NEW p \in Tiles
    PROVE  Whole(n, VehPut(s, i, p))
<1>1. PICK r : Ranked(n, s, r)
  BY DEF Whole
<1>2. IsPut(n, s, r, i, p, VehPut(s, i, p))
  BY <1>1, WholeNone, TilesArePlaces, VehPutIs
<1>3. \A j \in 1 .. n : s.vehs[j].at \in Tiles
  BY DEF Whole
<1>. QED  BY <1>2, <1>3 DEF IsPut, Whole

\* A transport that moves takes those it has loaded, and only those are put at its new tile.
LEMMA WholeMove ==
    ASSUME NEW n \in Nat, NEW s, Whole(n, s), NEW i \in 1 .. n, i \in Carriers(s.vehs),
           NEW p \in Tiles, NEW owner
    PROVE  Whole(n, StackPut(StackVeh(s, i, 1, owner), i, p))
<1>. DEFINE t == StackVeh(s, i, 1, owner)
            u == StackPut(t, i, p)
<1>1. PICK r : Ranked(n, s, r)
  BY DEF Whole
<1>2. Loaded(n, s, 1, t) /\ t.vehs[i].at = Loading
  <2>1. 1 \in Nat /\ 1 > 0
    OBVIOUS
  <2>. QED  BY <1>1, <2>1, WholeNone, StackVehLoads
<1>. HIDE DEF t
<1>3. PICK r1 : Ranked(n, t, r1)
  BY <1>2 DEF Loaded
<1>4. i \in 0 .. n /\ i # 0 /\ p \in Places \ {Lifted} /\ NoneAt(n, t, Lifted)
  BY <1>2, TilesArePlaces DEF Loaded
<1>5. PICK r2 : MovesTo(n, t, r1, Beside(n, t, i), p, u, r2)
  BY <1>3, <1>4, StackPutIs
<1>6. Ranked(n, u, r2) /\ \A j \in 1 .. n : u.vehs[j].at = IF j \in Beside(n, t, i) THEN p ELSE t.vehs[j].at
  BY <1>5 DEF MovesTo
<1>. HIDE DEF u
<1>7. ASSUME NEW j \in 1 .. n
      PROVE  u.vehs[j].at \in Tiles
  <2>1. s.vehs[j].at \in Tiles /\ (t.vehs[j].at = s.vehs[j].at \/ t.vehs[j].at = Loading)
    BY <1>2 DEF Whole, Loaded
  <2>2. t.vehs[j].at = Loading => j \in Beside(n, t, i)
    BY <1>2, <1>4 DEF Beside
  <2>. QED  BY <1>6, <2>1, <2>2
<1>. QED  BY <1>6, <1>7 DEF Whole, u, t

LEMMA WholeLoad ==
    ASSUME NEW n \in Nat, NEW s, Whole(n, s), NEW i \in 1 .. n, i \in Carriers(s.vehs), NEW owner
    PROVE  Whole(n, StackVeh(s, i, 0, owner))
<1>. DEFINE t == StackVeh(s, i, 0, owner)
<1>1. PICK r : Ranked(n, s, r)
  BY DEF Whole
<1>2. Loaded(n, s, 0, t)
  <2>1. 0 \in Nat
    OBVIOUS
  <2>. QED  BY <1>1, <2>1, WholeNone, StackVehLoads
<1>. HIDE DEF t
<1>3. \A j \in 1 .. n : t.vehs[j].at = s.vehs[j].at /\ s.vehs[j].at \in Tiles
  BY <1>2 DEF Loaded, Whole
<1>4. Whole(n, t)
  BY <1>2, <1>3 DEF Loaded, Whole
<1>. QED  BY <1>4 DEF t

LEMMA WholePromoteDemote ==
    ASSUME NEW n \in Nat, NEW s, Whole(n, s), NEW i \in 1 .. n
    PROVE  Whole(n, VehPromote(s, i)) /\ Whole(n, VehDemote(s, i))
<1>1. PICK r : Ranked(n, s, r)
  BY DEF Whole
<1>2. NoneAt(n, s, Lifted)
  BY WholeNone
<1>3. \E r2 : Stayed(n, s, VehPromote(s, i), r2)
  BY <1>1, <1>2, VehPromoteIs
<1>4. \E r2 : Stayed(n, s, VehDemote(s, i), r2)
  BY <1>1, <1>2, VehDemoteIs
<1>. QED  BY <1>3, <1>4, WholeStayed

LEMMA WholeFix ==
    ASSUME NEW n \in Nat, NEW s, Whole(n, s), NEW p
    PROVE  Whole(n, StackFix(s, VehAt(s, p)))
<1>. DEFINE i == VehAt(s, p)
<1>1. PICK r : Ranked(n, s, r)
  BY DEF Whole
<1>2. i \in 0 .. n
  BY <1>1, VehAtIs
<1>. HIDE DEF i
<1>3. \E r2 : Stayed(n, s, StackFix(s, i), r2)
  BY <1>1, <1>2, WholeNone, StackFixIs
<1>4. Whole(n, StackFix(s, i))
  BY <1>3, WholeStayed
<1>. QED  BY <1>4 DEF i

LEMMA WholeOrder ==
    ASSUME NEW n \in Nat, NEW s, Whole(n, s), NEW i \in 1 .. n, NEW o \in {"none", "board"}, NEW v \in 0 .. n
    PROVE  Whole(n, [vehs |-> RowOrders(s.vehs, i, o, v), inTile |-> s.inTile])
<1>. DEFINE ws == RowOrders(s.vehs, i, o, v)
            t == [vehs |-> ws, inTile |-> s.inTile]
<1>1. PICK r : Ranked(n, s, r)
  BY DEF Whole
<1>2. s.vehs \in Arrays(n)
  BY <1>1 DEF Ranked, Tables
<1>3. IsRowOrders(n, s.vehs, ws)
  BY <1>2, RowOrdersIs
<1>. HIDE DEF ws
<1>4. IsOrdered(n, s, r, t)
  BY <1>1, <1>3, OrdersKeepLists
<1>. HIDE DEF t
<1>5. Whole(n, t)
  BY <1>4 DEF IsOrdered, Whole
<1>. QED  BY <1>5 DEF t, ws

NewRow(u) == [unit |-> u, at |-> Cleared, next |-> 0, prev |-> 0, order |-> "none", on |-> 0]

\* A unit appears on top of p, and the others stay in the order they were in.
Appears(n, s, r, u, p, x) ==
  /\ x.vehs[n + 1].unit = u /\ x.vehs[n + 1].at = p /\ x.vehs[n + 1].order = "none"
  /\ \A j \in 1 .. n : /\ x.vehs[j].unit = s.vehs[j].unit /\ x.vehs[j].at = s.vehs[j].at
                       /\ x.vehs[j].order = s.vehs[j].order /\ x.vehs[j].on = s.vehs[j].on
  /\ \E r2 : /\ Ranked(n + 1, x, r2)
             /\ \A j \in 1 .. n : r2[n + 1] < r2[j]
             /\ \A j, k \in 1 .. n : r2[j] < r2[k] <=> r[j] < r[k]

\* The new row is first cleared, then dropped.
LEMMA VehInitIs ==
    ASSUME NEW n \in Nat, NEW s, NEW r, Ranked(n, s, r), \A j \in 1 .. n : s.vehs[j].at \in Tiles,
           NEW u \in Units, NEW p \in Tiles
    PROVE  Appears(n, s, r, u, p, VehDrop([vehs |-> Append(s.vehs, NewRow(u)), inTile |-> s.inTile], n + 1, p))
<1>. DEFINE row == NewRow(u)
            vs == s.vehs
            ws == Append(vs, row)
            t == [vehs |-> ws, inTile |-> s.inTile]
            x == VehDrop(t, n + 1, p)
<1>2. vs \in Arrays(n) /\ Linked(n, vs, r) /\ s \in Tables(n) /\ Bits(s) /\ s.inTile \in [Tiles -> BOOLEAN]
  BY TableFields DEF Ranked
<1>3. \A j \in 1 .. n : vs[j].at \in Tiles
  OBVIOUS
<1>4. /\ row \in Veh(n + 1) /\ row.at = Cleared /\ row.next = 0 /\ row.prev = 0
      /\ row.unit = u /\ row.order = "none"
  BY DEF Veh, Places, OffMap, NewRow
<1>. HIDE DEF row, vs
<1>5. n + 1 \in Nat /\ DOMAIN vs = 1 .. n /\ Len(vs) = n
  BY <1>2, VehFields
<1>6. \A j \in 1 .. n : vs[j] \in Veh(n + 1)
  <2>. TAKE j \in 1 .. n
  <2>1. vs[j] \in Veh(n)
    BY <1>2, VehFields
  <2>2. 0 .. n \subseteq 0 .. n + 1
    OBVIOUS
  <2>. QED  BY <2>1, <2>2 DEF Veh
<1>7. ws \in Arrays(n + 1) /\ ws[n + 1] = row /\ \A j \in 1 .. n : ws[j] = vs[j]
  <2>. DEFINE S == Veh(n + 1)
  <2>1. vs \in [1 .. n -> S] /\ row \in S
    <3>1. vs = [j \in 1 .. n |-> vs[j]]
      BY <1>2 DEF Arrays
    <3>. HIDE DEF S
    <3>2. \A j \in 1 .. n : vs[j] \in S
      BY <1>6 DEF S
    <3>3. vs \in [1 .. n -> S]
      BY <3>1, <3>2
    <3>. QED  BY <3>3, <1>4 DEF S
  <2>2. Arrays(n + 1) = [1 .. n + 1 -> S]
    BY DEF Arrays
  <2>. HIDE DEF S
  <2>3. vs \in Seq(S)
    BY <2>1, FunctionIsSeq
  <2>4. /\ ws \in Seq(S) /\ Len(ws) = n + 1 /\ ws[n + 1] = row
        /\ \A j \in 1 .. n : ws[j] = vs[j]
    BY <1>5, <2>1, <2>3, AppendProperties
  <2>. HIDE DEF ws
  <2>5. ws \in [1 .. n + 1 -> S]
    BY <2>4, SeqIsFunction
  <2>. QED  BY <2>2, <2>4, <2>5
<1>. HIDE DEF ws
<1>8. /\ \A j \in 1 .. n : At(vs)[j] = vs[j].at /\ Down(vs)[j] = vs[j].next /\ Up(vs)[j] = vs[j].prev
      /\ \A j \in 1 .. n + 1 : At(ws)[j] = ws[j].at /\ Down(ws)[j] = ws[j].next /\ Up(ws)[j] = ws[j].prev
  <2>1. \A j \in 1 .. n : At(vs)[j] = vs[j].at /\ Down(vs)[j] = vs[j].next /\ Up(vs)[j] = vs[j].prev
    BY <1>2, VehFields
  <2>2. \A j \in 1 .. n + 1 : At(ws)[j] = ws[j].at /\ Down(ws)[j] = ws[j].next /\ Up(ws)[j] = ws[j].prev
    BY <1>5, <1>7, VehFields
  <2>. QED  BY <2>1, <2>2
<1>9. n + 1 \in 1 .. n + 1 /\ (\A j \in 1 .. n : j \in 1 .. n + 1) /\ \A j \in 1 .. n + 1 : j = n + 1 \/ j \in 1 .. n
  OBVIOUS
<1>10. Cleared \notin Tiles
  BY OffMapIsNoTile DEF OffMap
<1>11. Joined(n, At(vs), Down(vs), Up(vs), Cleared, At(ws), Down(ws), Up(ws))
  <2>1. At(ws)[n + 1] = Cleared /\ Down(ws)[n + 1] = 0 /\ Up(ws)[n + 1] = 0
    BY <1>4, <1>7, <1>8, <1>9
  <2>2. \A j \in 1 .. n : At(vs)[j] # Cleared
    BY <1>3, <1>8, <1>10 DEF vs
  <2>3. \A j \in 1 .. n : At(ws)[j] = At(vs)[j] /\ Down(ws)[j] = Down(vs)[j] /\ Up(ws)[j] = Up(vs)[j]
    BY <1>7, <1>8, <1>9
  <2>. QED  BY <2>1, <2>2, <2>3 DEF Joined
<1>. DEFINE r2 == Lone(n, r)
            r3 == Raised(n + 1, r2, n + 1)
<1>12. Chain(n + 1, At(ws), Down(ws), Up(ws), r2)
  <2>1. Chain(n, At(vs), Down(vs), Up(vs), r)
    BY <1>2, LinkedIsChain
  <2>. QED  BY <1>11, <2>1, ChainNew
<1>13. Linked(n + 1, ws, r2)
  BY <1>5, <1>7, <1>12, LinkedIsChain
<1>14. t \in Tables(n + 1) /\ t.vehs = ws /\ t.inTile = s.inTile
  BY <1>2, <1>7 DEF Tables
<1>. HIDE DEF t
<1>15. Bits(t)
  <2>1. DOMAIN ws = 1 .. n + 1
    BY <1>5, <1>7, VehFields
  <2>2. ASSUME NEW q \in Tiles
        PROVE  s.inTile[q] <=> \E j \in 1 .. n + 1 : ws[j].at = q
    <3>1. s.inTile[q] <=> \E j \in 1 .. n : vs[j].at = q
      BY <1>2, <1>5 DEF Bits, vs
    <3>2. q # Cleared
      BY <1>10
    <3>. QED  BY <1>4, <1>7, <1>9, <3>1, <3>2
  <2>. QED  BY <1>14, <2>1, <2>2 DEF Bits
<1>16. Ranked(n + 1, t, r2)
  BY <1>13, <1>14, <1>15 DEF Ranked
<1>17. /\ t.vehs[n + 1].at = Cleared /\ OnlyAt(n + 1, t, n + 1, Cleared)
       /\ \A j \in 1 .. n + 1 : j # n + 1 => t.vehs[j].at \in Tiles
  <2>1. t.vehs[n + 1].at = Cleared
    BY <1>4, <1>7, <1>14
  <2>2. \A j \in 1 .. n + 1 : j # n + 1 => t.vehs[j].at \in Tiles
    BY <1>3, <1>7, <1>9, <1>14 DEF vs
  <2>. QED  BY <1>10, <2>1, <2>2 DEF OnlyAt
<1>18. Cleared \in OffMap /\ p # Cleared /\ p \in Places
  BY TilesArePlaces DEF OffMap
<1>19. /\ Ranked(n + 1, x, r3) /\ Same(n + 1, t.vehs, x.vehs)
       /\ \A j \in 1 .. n + 1 : x.vehs[j].at = IF j = n + 1 THEN p ELSE t.vehs[j].at
  <2>. HIDE DEF r2
  <2>. QED  BY <1>5, <1>9, <1>16, <1>17, <1>18, DropRanked
<1>. HIDE DEF x
<1>20. /\ \A j \in 1 .. n : r[j] \in Nat /\ r3[j] = r[j] + 1
       /\ r3[n + 1] = 0
  <2>1. \A j \in 1 .. n : r[j] \in Nat
    BY <1>2 DEF Linked
  <2>. QED  BY <1>9, <2>1 DEF Lone, Raised
<1>21. \A j \in 1 .. n : j \in 1 .. n + 1 /\ j # n + 1 /\ t.vehs[j] = s.vehs[j]
  BY <1>7, <1>9, <1>14 DEF vs
<1>22. \A j \in 1 .. n : /\ x.vehs[j].unit = s.vehs[j].unit /\ x.vehs[j].at = s.vehs[j].at
                         /\ x.vehs[j].order = s.vehs[j].order /\ x.vehs[j].on = s.vehs[j].on
  BY <1>19, <1>21 DEF Same
<1>23. x.vehs[n + 1].unit = u /\ x.vehs[n + 1].at = p /\ x.vehs[n + 1].order = "none"
  BY <1>4, <1>7, <1>9, <1>14, <1>19 DEF Same
<1>. HIDE DEF r3
<1>24. /\ \A j \in 1 .. n : r3[n + 1] < r3[j]
       /\ \A j, k \in 1 .. n : r3[j] < r3[k] <=> r[j] < r[k]
  BY <1>20
<1>25. Appears(n, s, r, u, p, x)
  BY <1>19, <1>22, <1>23, <1>24 DEF Appears
<1>. QED  BY <1>25 DEF x, t, ws, row, vs

LEMMA LongerTable ==
    ASSUME NEW y
    PROVE  [Table EXCEPT !.vehs = Append(@, y)] = [vehs |-> Append(vehs, y), inTile |-> inTile]
BY DEF Table

LEMMA WholeInit ==
    ASSUME NEW n \in Nat, NEW s, Whole(n, s), NEW u \in Units, NEW p \in Tiles
    PROVE  Whole(n + 1, VehDrop([vehs |-> Append(s.vehs, NewRow(u)), inTile |-> s.inTile], n + 1, p))
<1>. DEFINE x == VehDrop([vehs |-> Append(s.vehs, NewRow(u)), inTile |-> s.inTile], n + 1, p)
<1>1. PICK r : Ranked(n, s, r) /\ \A j \in 1 .. n : s.vehs[j].at \in Tiles
  BY DEF Whole
<1>2. Appears(n, s, r, u, p, x)
  BY <1>1, VehInitIs
<1>. HIDE DEF x
<1>3. Whole(n + 1, x)
  <2>1. \A j \in 1 .. n + 1 : j = n + 1 \/ j \in 1 .. n
    OBVIOUS
  <2>2. \A j \in 1 .. n + 1 : x.vehs[j].at \in Tiles
    BY <1>1, <1>2, <2>1 DEF Appears
  <2>3. \E r2 : Ranked(n + 1, x, r2)
    BY <1>2 DEF Appears
  <2>. QED  BY <2>2, <2>3 DEF Whole
<1>. QED  BY <1>3 DEF x

\* After deaths there is some number of rows left, and the stacks are whole.
WholeWorld(x) == \E m \in Nat : x \in Worlds(m) /\ Whole(m, Tab(x))

LEMMA WholeKill ==
    ASSUME NEW n \in Nat, NEW w \in Worlds(n), Whole(n, Tab(w)), NEW i \in 1 .. n
    PROVE  WholeWorld(VehKill(w, i))
<1>. DEFINE x == VehKill(w, i)
<1>1. PICK r : Ranked(n, Tab(w), r)
  BY DEF Whole
<1>2. NoneAt(n, Tab(w), Lifted)
  BY WholeNone
<1>3. IsKilled(n, w, r, i, x)
  BY <1>1, <1>2, VehKillIs
<1>. HIDE DEF x
<1>4. /\ x \in Worlds(n - 1) /\ Ranked(n - 1, Tab(x), Closing(n, r, i))
      /\ \A j \in 1 .. n - 1 : x.vehs[j].at = w.vehs[Ahead(j, i)].at
  BY <1>3 DEF IsKilled
<1>5. \A j \in 1 .. n : w.vehs[j].at \in Tiles
  BY DEF Whole, Tab
<1>6. n - 1 \in Nat /\ \A j \in 1 .. n - 1 : Ahead(j, i) \in 1 .. n
  BY AheadBehind
<1>7. \A j \in 1 .. n - 1 : x.vehs[j].at \in Tiles
  BY <1>4, <1>5, <1>6
<1>8. \A j \in 1 .. n - 1 : Tab(x).vehs[j].at \in Tiles
  BY <1>7 DEF Tab
<1>9. Whole(n - 1, Tab(x))
  BY <1>4, <1>8 DEF Whole
<1>. QED  BY <1>4, <1>6, <1>9 DEF WholeWorld, x

LEMMA KilledIsWhole ==
    ASSUME NEW n \in Nat, NEW Q, NEW W, NEW p, Q \subseteq Tiles \cup {p}, NEW x, Killed(n, Q, W, p, x)
    PROVE  WholeWorld(x)
<1>1. PICK m \in 0 .. n :
        /\ x \in Worlds(m)
        /\ \E r : Ranked(m, Tab(x), r)
        /\ \A j \in 1 .. m : x.vehs[j].at \in Q /\ x.vehs[j].at # p
  BY DEF Killed
<1>2. \A j \in 1 .. m : Tab(x).vehs[j].at \in Tiles
  BY <1>1 DEF Tab
<1>3. m \in Nat
  OBVIOUS
<1>4. Whole(m, Tab(x))
  BY <1>1, <1>2 DEF Whole
<1>. QED  BY <1>1, <1>3, <1>4 DEF WholeWorld

LEMMA WholeKillStack ==
    ASSUME NEW n \in Nat, NEW w \in Worlds(n), Whole(n, Tab(w)), NEW p \in Tiles
    PROVE  WholeWorld(StackKill(w, VehAt(Tab(w), p)))
<1>. DEFINE i == VehAt(Tab(w), p)
            x == StackKill(w, i)
<1>1. PICK r : Ranked(n, Tab(w), r)
  BY DEF Whole
<1>2. Tab(w).vehs = w.vehs
  BY DEF Tab
<1>3. /\ i \in 0 .. n
      /\ i = 0 => \A j \in 1 .. n : Tab(w).vehs[j].at # p
      /\ i # 0 => Tab(w).vehs[i].at = p
  BY <1>1, VehAtIs
<1>. HIDE DEF i
<1>4. i = 0 => NoneAt(n, Tab(w), p)
  BY <1>3 DEF NoneAt
<1>5. i # 0 => w.vehs[i].at = p
  BY <1>2, <1>3
<1>6. \A j \in 1 .. n : w.vehs[j].at \in Tiles
  BY <1>2 DEF Whole
<1>7. NoneAt(n, Tab(w), Lifted)
  BY WholeNone
<1>7a. Closes(n, AllWorlds, p) /\ w \in AllWorlds
  BY AllWorldsClose DEF AllWorlds
<1>8. Killed(n, Tiles, AllWorlds, p, x)
  BY <1>1, <1>3, <1>4, <1>5, <1>6, <1>7, <1>7a, StackKillIs
<1>. HIDE DEF x
<1>9. WholeWorld(x)
  BY <1>8, KilledIsWhole
<1>. QED  BY <1>9 DEF x, i

\* At sea the transport and those it carries are put off the map, and all killed there.
LEMMA WholeSink ==
    ASSUME NEW n \in Nat, NEW w \in Worlds(n), Whole(n, Tab(w)), NEW i \in 1 .. n, i \in Carriers(w.vehs),
           NEW owner, NEW s, s = StackVeh(Tab(w), i, 2, owner)
    PROVE  WholeWorld(StackKill([w EXCEPT !.vehs = s.vehs, !.inTile = s.inTile], i))
<1>. DEFINE v == [w EXCEPT !.vehs = s.vehs, !.inTile = s.inTile]
            x == StackKill(v, i)
            Q == Tiles \cup {Loading}
<1>1. PICK r : Ranked(n, Tab(w), r)
  BY DEF Whole
<1>2. Loaded(n, Tab(w), 2, s) /\ s.vehs[i].at = Loading
  <2>1. 2 \in Nat /\ 2 > 0
    OBVIOUS
  <2>2. Tab(w).vehs = w.vehs
    BY DEF Tab
  <2>. QED  BY <1>1, <2>1, <2>2, WholeNone, StackVehLoads
<1>3. PICK r1 : Ranked(n, s, r1)
  BY <1>2 DEF Loaded
<1>4. s \in Tables(n) /\ s = [vehs |-> s.vehs, inTile |-> s.inTile]
  BY <1>3 DEF Ranked, Tables
<1>5. v \in Worlds(n) /\ v.vehs = s.vehs /\ v.inTile = s.inTile
  BY <1>4, TableFields DEF Worlds
<1>. HIDE DEF v
<1>6. Tab(v) = s
  BY <1>4, <1>5 DEF Tab
<1>7. NoneAt(n, Tab(v), Lifted) /\ Ranked(n, Tab(v), r1)
  BY <1>2, <1>3, <1>6 DEF Loaded
<1>8. \A j \in 1 .. n : v.vehs[j].at \in Q
  BY <1>2, <1>5 DEF Loaded, Whole
<1>9. i \in 0 .. n /\ i # 0 /\ v.vehs[i].at = Loading
  BY <1>2, <1>5
<1>. HIDE DEF Q
<1>9a. Closes(n, AllWorlds, Loading) /\ v \in AllWorlds
  BY <1>5, AllWorldsClose DEF AllWorlds
<1>10. Killed(n, Q, AllWorlds, Loading, x)
  BY <1>5, <1>7, <1>8, <1>9, <1>9a, StackKillIs
<1>. HIDE DEF x
<1>11. WholeWorld(x)
  BY <1>10, KilledIsWhole DEF Q
<1>. QED  BY <1>11 DEF x, v

LEMMA SetArranged ==
    ASSUME NEW n \in Nat, NEW t, Whole(n, t), Set(t), handles' \in Seq(Nat), nextHandle' \in Nat
    PROVE  Arranged'
<1>1. t \in Tables(n)
  BY DEF Whole, Ranked
<1>2. vehs' = t.vehs /\ inTile' = t.inTile
  BY DEF Set
<1>3. Len(vehs') = n
  BY <1>1, <1>2, TableFields
<1>4. Table' = t
  <2>1. t = [vehs |-> t.vehs, inTile |-> t.inTile]
    BY <1>1 DEF Tables
  <2>. QED  BY <1>2, <2>1 DEF Table
<1>5. Len(vehs') \in Nat /\ Whole(Len(vehs'), Table')
  BY <1>3, <1>4
<1>. QED  BY <1>5 DEF Arranged, Whole, Ranked, NoneAt

LEMMA SetWorldArranged ==
    ASSUME NEW x, WholeWorld(x), SetWorld(x), nextHandle' \in Nat
    PROVE  Arranged'
<1>1. PICK m \in Nat : x \in Worlds(m) /\ Whole(m, Tab(x))
  BY DEF WholeWorld
<1>2. Set(Tab(x))
  BY DEF Set, SetWorld, Tab
<1>3. handles' \in Seq(Nat)
  BY <1>1 DEF SetWorld, Worlds
<1>. QED  BY <1>1, <1>2, <1>3, SetArranged

LEMMA InitArranged == Init => Arranged
<1>. SUFFICES ASSUME Init PROVE Arranged
  OBVIOUS
<1>1. vehs = << >> /\ inTile = [t \in Tiles |-> FALSE] /\ handles = << >> /\ nextHandle = 1
  BY DEF Init
<1>2. Len(vehs) = 0
  BY <1>1
<1>. DEFINE r == [j \in 1 .. 0 |-> 0]
<1>3. vehs \in Arrays(0)
  <2>1. vehs = [j \in 1 .. 0 |-> 0]
    BY <1>1
  <2>. QED  BY <2>1 DEF Arrays
<1>4. Table \in Tables(0)
  BY <1>1, <1>3 DEF Table, Tables
<1>5. Linked(0, Table.vehs, r)
  BY DEF Linked
<1>6. Bits(Table)
  BY <1>1 DEF Bits, Table
<1>7. Ranked(0, Table, r)
  BY <1>4, <1>5, <1>6 DEF Ranked
<1>8. Whole(0, Table)
  BY <1>7 DEF Whole
<1>9. handles \in Seq(Nat) /\ nextHandle \in Nat
  BY <1>1
<1>. QED  BY <1>2, <1>8, <1>9 DEF Arranged

\* Every call of the table leaves it arranged.
LEMMA NextArranged == Arranged /\ [Next]_vars => Arranged'
<1>. SUFFICES ASSUME Arranged, [Next]_vars PROVE Arranged'
  OBVIOUS
<1>. DEFINE n == Len(vehs)
            s == Table
            w == World
<1>1. n \in Nat /\ Whole(n, s) /\ handles \in Seq(Nat) /\ nextHandle \in Nat
  BY DEF Arranged
<1>2. s \in Tables(n) /\ s = [vehs |-> vehs, inTile |-> inTile] /\ s.vehs = vehs /\ s.inTile = inTile
  BY <1>1 DEF Whole, Ranked, Table
<1>3. Rows = 1 .. n
  BY <1>2, TableFields DEF Rows
<1>4. w \in Worlds(n) /\ Tab(w) = s /\ Whole(n, Tab(w))
  <2>1. vehs \in Arrays(n) /\ inTile \in [Tiles -> BOOLEAN]
    BY <1>2, TableFields
  <2>2. w = [vehs |-> vehs, inTile |-> inTile, handles |-> handles]
    BY DEF World
  <2>. QED  BY <1>1, <1>2, <2>1, <2>2 DEF Worlds, Tab
<1>. HIDE DEF n, s, w
<1>5. ASSUME NEW t, Whole(n, t), Set(t), Keep
      PROVE  Arranged'
  BY <1>1, <1>5, SetArranged DEF Keep
<1>6. ASSUME NEW x, WholeWorld(x), SetWorld(x), KeepNames
      PROVE  Arranged'
  BY <1>1, <1>6, SetWorldArranged DEF KeepNames
<1>7. ASSUME NEW u \in Units, NEW p \in Tiles, VehInit(u, p)
      PROVE  Arranged'
  <2>. DEFINE row == NewRow(u)
              t == [vehs |-> Append(s.vehs, row), inTile |-> s.inTile]
  <2>1. [Table EXCEPT !.vehs = Append(@, row)] = t
    <3>. HIDE DEF row
    <3>1. [Table EXCEPT !.vehs = Append(@, row)] = [vehs |-> Append(vehs, row), inTile |-> inTile]
      BY LongerTable
    <3>. QED  BY <1>2, <3>1
  <2>2. Set(VehDrop(t, n + 1, p)) /\ handles' = handles /\ nextHandle' = nextHandle
    BY <1>7, <2>1 DEF VehInit, NewRow, n
  <2>3. Whole(n + 1, VehDrop(t, n + 1, p))
    BY <1>1, <1>7, WholeInit
  <2>. HIDE DEF t
  <2>. QED  BY <1>1, <2>2, <2>3, SetArranged
<1>8. ASSUME NEW i \in Rows, NEW p \in Tiles, Put(i, p)
      PROVE  Arranged'
  BY <1>1, <1>3, <1>5, <1>8, WholePut DEF Put, s
<1>9. ASSUME NEW i \in Rows, NEW p \in Tiles, Move(i, p)
      PROVE  Arranged'
  <2>1. PICK owner : Set(StackPut(StackVeh(s, i, 1, owner), i, p)) /\ Keep
    BY <1>9 DEF Move, s
  <2>2. i \in Carriers(s.vehs)
    BY <1>2, <1>9 DEF Move, Carriers, Rows
  <2>3. Whole(n, StackPut(StackVeh(s, i, 1, owner), i, p))
    BY <1>1, <1>3, <2>2, WholeMove
  <2>. QED  BY <1>5, <2>1, <2>3
<1>10. ASSUME NEW i \in Rows, Load(i)
       PROVE  Arranged'
  <2>1. PICK owner : Set(StackVeh(s, i, 0, owner)) /\ Keep
    BY <1>10 DEF Load, s
  <2>2. i \in Carriers(s.vehs)
    BY <1>2, <1>10 DEF Load, Carriers, Rows
  <2>3. Whole(n, StackVeh(s, i, 0, owner))
    BY <1>1, <1>3, <2>2, WholeLoad
  <2>. QED  BY <1>5, <2>1, <2>3
<1>11. ASSUME NEW i \in Rows, Promote(i) \/ Demote(i)
       PROVE  Arranged'
  <2>1. Whole(n, VehPromote(s, i)) /\ Whole(n, VehDemote(s, i))
    BY <1>1, <1>3, WholePromoteDemote
  <2>. QED  BY <1>5, <1>11, <2>1 DEF Promote, Demote, s
<1>12. ASSUME NEW p \in Tiles, Fix(p)
       PROVE  Arranged'
  <2>1. Whole(n, StackFix(s, VehAt(s, p)))
    BY <1>1, WholeFix
  <2>. QED  BY <1>5, <1>12, <2>1 DEF Fix, s
<1>13. ASSUME NEW i \in Rows, NEW o \in {"none", "board"}, NEW v \in 0 .. n,
              vehs' = RowOrders(vehs, i, o, v), inTile' = inTile, Keep
       PROVE  Arranged'
  <2>. DEFINE t == [vehs |-> RowOrders(vehs, i, o, v), inTile |-> inTile]
  <2>1. Whole(n, [vehs |-> RowOrders(s.vehs, i, o, v), inTile |-> s.inTile])
    BY <1>1, <1>3, WholeOrder
  <2>2. Whole(n, t)
    BY <1>2, <2>1
  <2>3. Set(t)
    BY <1>13 DEF Set
  <2>. HIDE DEF t
  <2>. QED  BY <1>5, <1>13, <2>2, <2>3
<1>14. ASSUME NEW i \in Rows, Sleep(i) \/ Wake(i)
       PROVE  Arranged'
  <2>1. 0 \in 0 .. n
    BY <1>1
  <2>2. CASE Sleep(i)
    BY <1>13, <2>1, <2>2 DEF Sleep, RowOrders
  <2>3. CASE Wake(i)
    BY <1>13, <2>1, <2>3 DEF Wake, RowOrders
  <2>. QED  BY <1>14, <2>2, <2>3
<1>15. ASSUME NEW i \in Rows, NEW v \in Rows, BoardTo(i, v)
       PROVE  Arranged'
  <2>1. v \in 0 .. n
    BY <1>1, <1>3
  <2>. QED  BY <1>13, <1>15, <2>1 DEF BoardTo, RowOrders
<1>16. ASSUME NEW i \in Rows, Kill(i)
       PROVE  Arranged'
  <2>1. CASE Cargo(vehs[i]) > 0 /\ vehs[i].at \in Sea
    <3>. DEFINE t == StackVeh(s, i, 2, Person)
                x == StackKill([w EXCEPT !.vehs = t.vehs, !.inTile = t.inTile], i)
    <3>1. SetWorld(x) /\ KeepNames
      BY <1>16, <2>1 DEF Kill, s, w
    <3>2. t = StackVeh(Tab(w), i, 2, Person)
      BY <1>4
    <3>. HIDE DEF t
    <3>2a. i \in Carriers(w.vehs)
      BY <2>1 DEF Carriers, Rows, w, World
    <3>3. WholeWorld(x)
      BY <1>1, <1>3, <1>4, <3>2, <3>2a, WholeSink
    <3>. QED  BY <1>6, <3>1, <3>3
  <2>2. CASE ~ (Cargo(vehs[i]) > 0 /\ vehs[i].at \in Sea)
    <3>1. SetWorld(VehKill(w, i)) /\ KeepNames
      BY <1>16, <2>2 DEF Kill, w
    <3>2. WholeWorld(VehKill(w, i))
      BY <1>1, <1>3, <1>4, WholeKill
    <3>. QED  BY <1>6, <3>1, <3>2
  <2>. QED  BY <2>1, <2>2
<1>17. ASSUME NEW p \in Tiles, KillStack(p)
       PROVE  Arranged'
  <2>1. WholeWorld(StackKill(w, VehAt(s, p)))
    BY <1>1, <1>4, WholeKillStack
  <2>. QED  BY <1>6, <1>17, <2>1 DEF KillStack, s, w
<1>18. ASSUME NEW i \in Rows, Observe(i)
       PROVE  Arranged'
  <2>. DEFINE hs == Ensured(handles, n)
  <2>1. hs \in [1 .. n -> Nat]
    BY <1>1, EnsuredIs
  <2>2. /\ handles' = IF hs[i] = 0 THEN [hs EXCEPT ![i] = nextHandle] ELSE hs
        /\ nextHandle' = IF hs[i] = 0 THEN nextHandle + 1 ELSE nextHandle
        /\ vehs' = vehs /\ inTile' = inTile
    BY <1>18 DEF Observe, n
  <2>. HIDE DEF hs
  <2>3. handles' \in [1 .. n -> Nat] /\ nextHandle' \in Nat
    BY <1>1, <1>3, <2>1, <2>2
  <2>4. handles' \in Seq(Nat)
    BY <1>1, <2>3, FunctionIsSeq
  <2>5. Set(s)
    BY <1>2, <2>2 DEF Set
  <2>. QED  BY <1>1, <2>3, <2>4, <2>5, SetArranged
<1>19. CASE Call
  BY <1>19, <1>7, <1>8, <1>9, <1>10, <1>11, <1>12, <1>14, <1>15, <1>16, <1>17, <1>18 DEF Call
<1>20. CASE vars' = vars
  <2>1. Set(s) /\ handles' = handles /\ nextHandle' = nextHandle
    BY <1>2, <1>20 DEF vars, tableVars, Set
  <2>. QED  BY <1>1, <2>1, SetArranged
<1>. QED  BY <1>19, <1>20 DEF Next

(* Whatever calls are made, the stacks of the table are lists of the units *)
(* of their tiles, linked in the ranking of some order, and the handles    *)
(* are numbers: no operation of the array leaves it otherwise.             *)
THEOREM TableIsArranged == Spec => []Arranged
BY InitArranged, NextArranged, PTL DEF Spec

-----------------------------------------------------------------------------
(* What a reader of the array may rely on.                                 *)

\* A place where there is a unit has one unit on top.
LEMMA OneTop ==
    ASSUME NEW n \in Nat, NEW s, NEW r, Ranked(n, s, r), NEW p,
           NEW tops, tops = {j \in 1 .. n : s.vehs[j].at = p /\ s.vehs[j].prev = 0},
           \E j \in 1 .. n : s.vehs[j].at = p
    PROVE  Cardinality(tops) = 1
<1>. DEFINE i == VehAt(s, p)
<1>1. /\ i \in 1 .. n /\ s.vehs[i].at = p /\ s.vehs[i].prev = 0
      /\ \A j \in 1 .. n : s.vehs[j].at = p => r[i] <= r[j]
  <2>1. i # 0
    BY VehAtIs
  <2>2. i \in 1 .. n
    BY <2>1, VehAtIs
  <2>. QED  BY <2>1, <2>2, VehAtIs
<1>. HIDE DEF i
<1>2. ASSUME NEW j \in 1 .. n, s.vehs[j].at = p, s.vehs[j].prev = 0
      PROVE  j = i
  <2>1. r[i] \in Nat /\ r[j] \in Nat /\ r[i] <= r[j]
    BY <1>1, <1>2, RanksAreNumbers
  <2>2. j # i => r[i] # r[j]
    BY <1>1, <1>2 DEF Ranked, Linked
  <2>3. ~ (r[i] < r[j])
    BY <1>1, <1>2 DEF Ranked, Linked
  <2>. QED  BY <2>1, <2>2, <2>3
<1>3. tops = {i}
  BY <1>1, <1>2
<1>. QED  BY <1>3, FS_Singleton

LEMMA ArrangedIsWhole == Arranged => StacksAreWhole
<1>. SUFFICES ASSUME Arranged PROVE StacksAreWhole
  OBVIOUS
<1>. DEFINE n == Len(vehs)
            s == Table
<1>1. n \in Nat /\ Whole(n, s)
  BY DEF Arranged
<1>2. PICK r : Ranked(n, s, r)
  BY <1>1 DEF Whole
<1>3. s.vehs = vehs /\ s.inTile = inTile
  BY DEF Table
<1>4. Rows = 1 .. n
  BY <1>1, <1>2, <1>3, TableFields DEF Ranked, Rows
<1>. HIDE DEF n, s
<1>5. \A j \in Rows : vehs[j].at \in Tiles
  BY <1>1, <1>3, <1>4 DEF Whole
<1>6. Linked(n, vehs, r) /\ Bits(s)
  BY <1>2, <1>3 DEF Ranked
<1>7. ASSUME NEW t \in Tiles
      PROVE  LET there == { i \in Rows : vehs[i].at = t }
                 tops == { i \in there : vehs[i].prev = 0 }
             IN /\ inTile[t] <=> there # {}
                /\ there # {} => Cardinality(tops) = 1
                /\ \A i \in there :
                     /\ vehs[i].next # 0 => vehs[i].next \in there /\ vehs[vehs[i].next].prev = i
                     /\ vehs[i].prev # 0 => vehs[i].prev \in there /\ vehs[vehs[i].prev].next = i
  <2>. DEFINE there == { i \in Rows : vehs[i].at = t }
              tops == { i \in there : vehs[i].prev = 0 }
  <2>1. inTile[t] <=> there # {}
    BY <1>3, <1>6 DEF Bits, Rows
  <2>2. there # {} => Cardinality(tops) = 1
    <3>1. there # {} => \E j \in 1 .. n : s.vehs[j].at = t
      BY <1>3, <1>4
    <3>2. tops = {j \in 1 .. n : s.vehs[j].at = t /\ s.vehs[j].prev = 0}
      BY <1>3, <1>4
    <3>. HIDE DEF there, tops
    <3>. QED  BY <1>1, <1>2, <3>1, <3>2, OneTop
  <2>3. ASSUME NEW i \in there
        PROVE  /\ vehs[i].next # 0 => vehs[i].next \in there /\ vehs[vehs[i].next].prev = i
               /\ vehs[i].prev # 0 => vehs[i].prev \in there /\ vehs[vehs[i].prev].next = i
    <3>1. i \in 1 .. n /\ vehs[i].next \in 0 .. n /\ vehs[i].prev \in 0 .. n
      BY <1>4, <1>6 DEF Linked
    <3>2. vehs[i].next # 0 => /\ vehs[vehs[i].next].at = vehs[i].at
                              /\ vehs[vehs[i].next].prev = i
      BY <1>6, <3>1 DEF Linked
    <3>3. vehs[i].prev # 0 => /\ vehs[vehs[i].prev].at = vehs[i].at
                              /\ vehs[vehs[i].prev].next = i
      BY <1>6, <3>1 DEF Linked
    <3>4. (vehs[i].next # 0 => vehs[i].next \in Rows) /\ (vehs[i].prev # 0 => vehs[i].prev \in Rows)
      BY <1>1, <1>4, <3>1
    <3>. QED  BY <3>2, <3>3, <3>4
  <2>. QED  BY <2>1, <2>2, <2>3
<1>. QED  BY <1>5, <1>7 DEF StacksAreWhole

(* A tile's bit, its units and the list that links them agree after every  *)
(* call, so no loop over a stack runs in a circle or leaves its tile.      *)
THEOREM StacksStayWhole == Spec => []StacksAreWhole
BY TableIsArranged, ArrangedIsWhole, PTL

\* A unit that a fixed stack links above another is a carrier over one that carries
\* nothing, or the later row of two alike.
Follows(t, j, k) ==
  IF Cargo(t.vehs[j]) = Cargo(t.vehs[k]) THEN j > k ELSE Cargo(t.vehs[j]) > 0

LEMMA FixedFollows ==
    ASSUME NEW n \in Nat, NEW s \in Tables(n), NEW r0, NEW q, NEW t, Fixed(n, s, r0, q, n, t),
           NEW j \in 1 .. n, NEW k \in 1 .. n, t.vehs[j].at = q, t.vehs[j].next = k
    PROVE  Follows(t, j, k)
<1>1. PICK r : Stayed(n, s, t, r) /\ FixOrder(n, s.vehs, q, n, r)
  BY DEF Fixed
<1>2. k # 0 /\ r[j] \in Nat /\ r[k] \in Nat /\ r[j] < r[k] /\ t.vehs[k].at = q
  <2>1. Linked(n, t.vehs, r)
    BY <1>1 DEF Stayed, Ranked
  <2>. QED  BY <2>1 DEF Linked
<1>3. s.vehs[j].at = q /\ s.vehs[k].at = q /\ j # k
  BY <1>1, <1>2 DEF Stayed
<1>4. DOMAIN t.vehs = 1 .. n
  BY <1>1, TableFields DEF Stayed, Ranked
<1>5. Carriers(s.vehs) = Carriers(t.vehs)
  BY <1>1, StayedCarriers
<1>6. /\ k \in Carriers(t.vehs) => j \in Carriers(t.vehs)
      /\ (j \in Carriers(t.vehs) <=> k \in Carriers(t.vehs)) => ~ (k > j)
  <2>1. \E a \in 1 .. n : s.vehs[a].at = q
    BY <1>3
  <2>2. k \in Carriers(s.vehs) /\ j \notin Carriers(s.vehs) => r[k] < r[j]
    BY <1>1, <1>3, <2>1 DEF FixOrder
  <2>3. j < k /\ k <= n /\ (j \in Carriers(s.vehs) <=> k \in Carriers(s.vehs)) => r[k] < r[j]
    BY <1>1, <1>3 DEF FixOrder
  <2>4. ~ (r[k] < r[j]) /\ k <= n
    BY <1>2
  <2>. QED  BY <1>5, <2>2, <2>3, <2>4
<1>7. \A i \in 1 .. n : /\ i \in Carriers(t.vehs) <=> Cargo(t.vehs[i]) > 0
                        /\ Cargo(t.vehs[i]) = Capacity \/ Cargo(t.vehs[i]) = 0
  BY <1>4 DEF Carriers, Cargo
<1>8. Capacity > 0 /\ Capacity \in Nat
  BY UnitBounds
<1>9. CASE Cargo(t.vehs[j]) = Cargo(t.vehs[k])
  <2>1. j \in Carriers(t.vehs) <=> k \in Carriers(t.vehs)
    BY <1>7, <1>9
  <2>2. j > k
    BY <1>3, <1>6, <2>1
  <2>. QED  BY <1>9, <2>2 DEF Follows
<1>10. CASE Cargo(t.vehs[j]) # Cargo(t.vehs[k])
  <2>1. Cargo(t.vehs[j]) > 0
    BY <1>6, <1>7, <1>8, <1>10
  <2>. QED  BY <1>10, <2>1 DEF Follows
<1>. QED  BY <1>9, <1>10

\* Fixing the stack of a tile leaves it in an order that only the array decides.
LEMMA FixFollows ==
    ASSUME NEW n \in Nat, NEW s, Whole(n, s), NEW p, multiplayer,
           NEW t, t = StackFix(s, VehAt(s, p)),
           NEW j \in 1 .. n, NEW k \in 1 .. n, t.vehs[j].at = p, t.vehs[j].next = k
    PROVE  Follows(t, j, k)
<1>. DEFINE i == VehAt(s, p)
<1>1. PICK r : Ranked(n, s, r)
  BY DEF Whole
<1>2. /\ i \in 0 .. n
      /\ i = 0 => \A m \in 1 .. n : s.vehs[m].at # p
      /\ i # 0 => /\ s.vehs[i].at = p /\ s.vehs[i].prev = 0
                  /\ \A m \in 1 .. n : s.vehs[m].at = p => r[i] <= r[m]
  BY <1>1, VehAtIs
<1>3. t = StackFix(s, i)
  OBVIOUS
<1>. HIDE DEF i
<1>4. PICK r2 : Stayed(n, s, t, r2)
  BY <1>1, <1>2, <1>3, WholeNone, StackFixIs
<1>5. s.vehs[j].at = p /\ s.vehs[k].at = p
  <2>1. Linked(n, t.vehs, r2)
    BY <1>4 DEF Stayed, Ranked
  <2>2. k # 0
    OBVIOUS
  <2>3. t.vehs[k].at = p
    BY <2>1, <2>2 DEF Linked
  <2>. QED  BY <1>4, <2>3 DEF Stayed
<1>6. i # 0 /\ i \in 1 .. n
  BY <1>2, <1>5
<1>7. ~ (s.vehs[i].next = 0 /\ s.vehs[i].prev = 0)
  <2>1. SUFFICES ASSUME s.vehs[i].next = 0 PROVE FALSE
    OBVIOUS
  <2>2. Linked(n, s.vehs, r)
    BY <1>1 DEF Ranked
  <2>3. \A m \in 1 .. n : s.vehs[m].at = p => m = i
    <3>1. SUFFICES ASSUME NEW m \in 1 .. n, s.vehs[m].at = p, m # i PROVE FALSE
      OBVIOUS
    <3>2. r[i] # r[m] /\ r[i] \in Nat /\ r[m] \in Nat
      BY <1>2, <1>6, <2>2, <3>1 DEF Linked
    <3>3. r[i] < r[m]
      BY <1>2, <1>6, <3>1, <3>2
    <3>. QED  BY <1>2, <1>6, <2>1, <2>2, <3>1, <3>3 DEF Linked
  <2>4. j = i /\ k = i
    BY <1>5, <2>3
  <2>5. Linked(n, t.vehs, r2)
    BY <1>4 DEF Stayed, Ranked
  <2>6. k # 0
    OBVIOUS
  <2>7. r2[j] < r2[k] /\ r2[j] \in Nat
    BY <2>5, <2>6 DEF Linked
  <2>. QED  BY <2>4, <2>7
<1>8. Fixed(n, s, r, s.vehs[i].at, n, t)
  BY <1>1, <1>2, <1>3, <1>6, <1>7, WholeNone, StackFixIs
<1>. QED  BY <1>1, <1>2, <1>6, <1>8, FixedFollows DEF Ranked

LEMMA FixStepFollows ==
    ASSUME Arranged, NEW p \in Tiles, multiplayer, Fix(p), NEW j \in Rows, NEW k \in Rows,
           vehs'[j].at = p, vehs'[j].next = k
    PROVE  IF Cargo(vehs'[j]) = Cargo(vehs'[k]) THEN j > k ELSE Cargo(vehs'[j]) > 0
<1>. DEFINE n == Len(vehs)
            s == Table
            t == StackFix(s, VehAt(s, p))
<1>1. n \in Nat /\ Whole(n, s)
  BY DEF Arranged
<1>2. s.vehs = vehs
  BY DEF Table
<1>3. Rows = 1 .. n
  BY <1>1, <1>2, TableFields DEF Whole, Ranked, Rows
<1>4. vehs' = t.vehs
  BY DEF Fix, Set
<1>5. t = StackFix(s, VehAt(s, p))
  OBVIOUS
<1>. HIDE DEF n, s, t
<1>6. Follows(t, j, k)
  BY <1>1, <1>3, <1>4, <1>5, FixFollows
<1>. QED  BY <1>4, <1>6 DEF Follows

(* Peers of a network game that agree on the array agree on the order of   *)
(* every stack stack_fix has been called for: carriers first, and of units *)
(* alike the later row above the earlier.                                  *)
THEOREM FixedOrderHolds == Spec => FixedOrderIsOfTheArray
<1>. DEFINE Step == \A t \in Tiles : (multiplayer /\ Fix(t)) =>
                      \A j, k \in Rows :
                        vehs'[j].at = t /\ vehs'[j].next = k
                        => IF Cargo(vehs'[j]) = Cargo(vehs'[k]) THEN j > k ELSE Cargo(vehs'[j]) > 0
<1>1. Arranged => Step
  BY FixStepFollows
<1>2. Spec => [][Step]_vars
  BY <1>1, TableIsArranged, PTL DEF Spec
<1>. QED  BY <1>2 DEF FixedOrderIsOfTheArray

-----------------------------------------------------------------------------
(* What UnitStacks sees of the array.                                      *)

Distinct(n, vs) == \A j, k \in 1 .. n : vs[j].unit = vs[k].unit => j = k

\* Row k is under row j.
Over(vs, r, j, k) == vs[j].at = vs[k].at /\ r[j] < r[k]

IsTile(n, vs, T) ==
  /\ T = [u \in Units |-> T[u]]
  /\ \A j \in 1 .. n : T[vs[j].unit] = vs[j].at
  /\ \A u \in Units \ Living(vs) : T[u] = Cleared
IsUnder(n, vs, r, U) ==
  /\ U = [u \in Units |-> U[u]]
  /\ \A j, k \in 1 .. n : vs[k].unit \in U[vs[j].unit] <=> Over(vs, r, j, k)
  /\ \A u \in Units : U[u] \subseteq Living(vs)
  /\ \A u \in Units \ Living(vs) : U[u] = {}
Aboard(vs, j) == IF vs[j].order = "board" THEN UnitIn(vs, vs[j].on) ELSE NoUnit
IsBoarding(n, vs, A) ==
  /\ A = [u \in Units |-> A[u]]
  /\ \A j \in 1 .. n : A[vs[j].unit] = Aboard(vs, j)
  /\ \A u \in Units \ Living(vs) : A[u] = NoUnit
IsNaming(n, vs, hs, N) ==
  /\ N = [u \in Units |-> N[u]]
  /\ \A j \in 1 .. n : N[vs[j].unit] = IF j \in DOMAIN hs THEN hs[j] ELSE 0
  /\ \A u \in Units \ Living(vs) : N[u] = 0

LEMMA LivingIs ==
    ASSUME NEW n \in Nat, NEW vs \in Arrays(n)
    PROVE  /\ Living(vs) \subseteq Units
           /\ \A j \in 1 .. n : vs[j].unit \in Living(vs)
           /\ \A u \in Living(vs) : \E j \in 1 .. n : u = vs[j].unit
<1>1. DOMAIN vs = 1 .. n /\ \A j \in 1 .. n : vs[j].unit \in Units
  BY VehFields
<1>. QED  BY <1>1 DEF Living

LEMMA RowOfIs ==
    ASSUME NEW n \in Nat, NEW vs \in Arrays(n), Distinct(n, vs), NEW i \in 1 .. n
    PROVE  RowOf(vs, vs[i].unit) = i
<1>1. DOMAIN vs = 1 .. n
  BY VehFields
<1>. DEFINE u == vs[i].unit
            k == RowOf(vs, u)
<1>2. k = CHOOSE j \in 1 .. n : vs[j].unit = u
  BY <1>1 DEF RowOf
<1>3. \E j \in 1 .. n : vs[j].unit = u
  OBVIOUS
<1>. HIDE DEF k
<1>4. k \in 1 .. n /\ vs[k].unit = u
  BY <1>2, <1>3
<1>. QED  BY <1>4 DEF Distinct, k

\* The views of one array agree.
LEMMA OneView ==
    ASSUME NEW n \in Nat, NEW vs \in Arrays(n)
    PROVE  /\ \A T, S : IsTile(n, vs, T) /\ IsTile(n, vs, S) => T = S
           /\ \A r, T, S : IsUnder(n, vs, r, T) /\ IsUnder(n, vs, r, S) => T = S
           /\ \A T, S : IsBoarding(n, vs, T) /\ IsBoarding(n, vs, S) => T = S
           /\ \A hs, T, S : IsNaming(n, vs, hs, T) /\ IsNaming(n, vs, hs, S) => T = S
<1>0. /\ \A u \in Living(vs) : \E j \in 1 .. n : u = vs[j].unit
      /\ \A j \in 1 .. n : vs[j].unit \in Living(vs)
      /\ \A j \in 1 .. n : vs[j].unit \in Units
  BY LivingIs
<1>1. ASSUME NEW T, NEW S, T = [u \in Units |-> T[u]], S = [u \in Units |-> S[u]],
             \A j \in 1 .. n : T[vs[j].unit] = S[vs[j].unit],
             \A u \in Units \ Living(vs) : T[u] = S[u]
      PROVE  T = S
  <2>1. \A u \in Units : T[u] = S[u]
    BY <1>0, <1>1
  <2>. QED  BY <1>1, <2>1
<1>2. ASSUME NEW T, NEW S, IsTile(n, vs, T), IsTile(n, vs, S)
      PROVE  T = S
  BY <1>1, <1>2 DEF IsTile
<1>3. ASSUME NEW r, NEW T, NEW S, IsUnder(n, vs, r, T), IsUnder(n, vs, r, S)
      PROVE  T = S
  <2>1. ASSUME NEW j \in 1 .. n
        PROVE  T[vs[j].unit] = S[vs[j].unit]
    <3>. DEFINE u == vs[j].unit
    <3>1. T[u] \subseteq Living(vs) /\ S[u] \subseteq Living(vs)
      BY <1>0, <1>3 DEF IsUnder
    <3>2. \A k \in 1 .. n : vs[k].unit \in T[u] <=> vs[k].unit \in S[u]
      BY <1>3 DEF IsUnder
    <3>. HIDE DEF u
    <3>3. \A x : x \in T[u] <=> x \in S[u]
      BY <1>0, <3>1, <3>2
    <3>4. T[u] = S[u]
      BY <3>3
    <3>. QED  BY <3>4 DEF u
  <2>2. /\ T = [u \in Units |-> T[u]] /\ S = [u \in Units |-> S[u]]
        /\ \A u \in Units \ Living(vs) : T[u] = S[u]
    BY <1>3 DEF IsUnder
  <2>. QED  BY <1>1, <2>1, <2>2
<1>4. ASSUME NEW T, NEW S, IsBoarding(n, vs, T), IsBoarding(n, vs, S)
      PROVE  T = S
  BY <1>1, <1>4 DEF IsBoarding
<1>5. ASSUME NEW hs, NEW T, NEW S, IsNaming(n, vs, hs, T), IsNaming(n, vs, hs, S)
      PROVE  T = S
  BY <1>1, <1>5 DEF IsNaming
<1>. QED  BY <1>2, <1>3, <1>4, <1>5

LEMMA UnderRow ==
    ASSUME NEW n \in Nat, NEW vs \in Arrays(n), NEW r, Linked(n, vs, r), NEW i \in 1 .. n
    PROVE  ToSet(StackFrom(vs, vs[i].next)) = {k \in 1 .. n : Over(vs, r, i, k)}
<1>. DEFINE d == vs[i].next
            js == StackFrom(vs, d)
<1>1. d \in 0 .. n /\ Down(vs) \in [1 .. n -> 0 .. n] /\ \A j \in 1 .. n : r[j] \in Nat
  BY VehFields DEF Linked
<1>2. CASE d = 0
  <2>1. js = << >>
    <3>1. js = Path(Down(vs), 0)
      BY <1>2 DEF StackFrom
    <3>. HIDE DEF js
    <3>. QED  BY <1>1, <3>1, NoPath
  <2>2. \A k \in 1 .. n : ~ Over(vs, r, i, k)
    BY <1>2 DEF Over, Linked
  <2>. HIDE DEF js
  <2>3. ToSet(js) = {}
    BY <2>1 DEF ToSet
  <2>. QED  BY <2>2, <2>3 DEF js
<1>3. CASE d # 0
  <2>1. d \in 1 .. n /\ vs[d].at = vs[i].at /\ r[i] < r[d]
    BY <1>1, <1>3 DEF Linked
  <2>2. IsStack(n, vs, r, d, js)
    <3>. HIDE DEF d
    <3>. QED  BY <2>1, StackFromIs
  <2>. HIDE DEF js, d
  <2>3. /\ DOMAIN js = 1 .. Len(js) /\ Len(js) \in Nat /\ js[1] = d /\ 1 \in 1 .. Len(js)
        /\ \A a, b \in 1 .. Len(js) : a < b => r[js[a]] < r[js[b]]
        /\ \A a \in 1 .. Len(js) : js[a] \in 1 .. n /\ vs[js[a]].at = vs[i].at
        /\ \A j \in 1 .. n : vs[j].at = vs[i].at /\ r[d] <= r[j] => \E a \in 1 .. Len(js) : js[a] = j
    <3>1. js \in Seq(1 .. n)
      BY <2>2 DEF IsStack
    <3>2. Len(js) \in 1 .. n
      BY <2>2 DEF IsStack
    <3>3. DOMAIN js = 1 .. Len(js) /\ Len(js) \in Nat
      BY <3>1
    <3>4. 1 \in 1 .. Len(js)
      <4>. DEFINE l == Len(js)
      <4>. HIDE DEF l
      <4>1. l \in 1 .. n
        BY <3>2 DEF l
      <4>2. 1 \in 1 .. l
        BY <4>1
      <4>. QED  BY <4>2 DEF l
    <3>. QED  BY <2>1, <2>2, <3>3, <3>4 DEF IsStack
  <2>4. ASSUME NEW a \in 1 .. Len(js)
        PROVE  js[a] \in 1 .. n /\ Over(vs, r, i, js[a])
    <3>. DEFINE j == js[a]
    <3>1. j \in 1 .. n /\ vs[j].at = vs[i].at
      BY <2>3
    <3>2. j = d \/ r[d] < r[j]
      <4>1. a = 1 \/ 1 < a
        BY <2>3
      <4>. QED  BY <2>3, <4>1
    <3>. HIDE DEF j
    <3>3. r[i] < r[j]
      BY <1>1, <2>1, <3>1, <3>2
    <3>4. Over(vs, r, i, j)
      BY <3>1, <3>3 DEF Over
    <3>. QED  BY <3>1, <3>4 DEF j
  <2>5. ASSUME NEW k \in 1 .. n, Over(vs, r, i, k)
        PROVE  \E a \in 1 .. Len(js) : js[a] = k
    <3>1. r[d] <= r[k] /\ vs[k].at = vs[i].at
      BY <1>3, <2>5 DEF Over, Linked, d
    <3>. QED  BY <2>3, <3>1
  <2>6. ToSet(js) = {js[a] : a \in 1 .. Len(js)}
    BY <2>3 DEF ToSet
  <2>7. ToSet(js) = {k \in 1 .. n : Over(vs, r, i, k)}
    BY <2>4, <2>5, <2>6
  <2>. QED  BY <2>7 DEF js, d
<1>. QED  BY <1>1, <1>2, <1>3

LEMMA TheViews ==
    ASSUME NEW n \in Nat, NEW vs \in Arrays(n), Distinct(n, vs)
    PROVE  /\ IsTile(n, vs, TileOf(vs)) /\ IsBoarding(n, vs, Boarding(vs))
           /\ \A hs : IsNaming(n, vs, hs, HandleOf(vs, hs))
           /\ \A r : Linked(n, vs, r) => IsUnder(n, vs, r, UnitsUnder(vs))
<1>0. /\ \A u \in Living(vs) : \E j \in 1 .. n : u = vs[j].unit
      /\ \A j \in 1 .. n : vs[j].unit \in Living(vs) /\ vs[j].unit \in Units
  BY LivingIs
<1>1. \A j \in 1 .. n : RowOf(vs, vs[j].unit) = j
  BY RowOfIs
<1>2. IsTile(n, vs, TileOf(vs))
  BY <1>0, <1>1 DEF IsTile, TileOf
<1>3. IsBoarding(n, vs, Boarding(vs))
  BY <1>0, <1>1 DEF IsBoarding, Boarding, Aboard
<1>4. \A hs : IsNaming(n, vs, hs, HandleOf(vs, hs))
  BY <1>0, <1>1 DEF IsNaming, HandleOf
<1>5. ASSUME NEW r, Linked(n, vs, r)
      PROVE  IsUnder(n, vs, r, UnitsUnder(vs))
  <2>. DEFINE U == UnitsUnder(vs)
  <2>1. ASSUME NEW j \in 1 .. n
        PROVE  U[vs[j].unit] = {vs[k].unit : k \in {k \in 1 .. n : Over(vs, r, j, k)}}
    <3>. DEFINE Under == {k \in 1 .. n : Over(vs, r, j, k)}
    <3>1. ToSet(StackFrom(vs, vs[j].next)) = Under
      BY <1>5, UnderRow
    <3>. HIDE DEF Under
    <3>2. U[vs[j].unit] = {vs[k].unit : k \in Under}
      BY <1>0, <1>1, <3>1 DEF UnitsUnder
    <3>. QED  BY <3>2 DEF Under
  <2>2. U = [u \in Units |-> U[u]] /\ \A u \in Units \ Living(vs) : U[u] = {}
    BY DEF UnitsUnder
  <2>. HIDE DEF U
  <2>3. \A j, k \in 1 .. n : vs[k].unit \in U[vs[j].unit] <=> Over(vs, r, j, k)
    <3>. TAKE j, k \in 1 .. n
    <3>1. ASSUME vs[k].unit \in U[vs[j].unit]
          PROVE  Over(vs, r, j, k)
      <4>1. PICK l \in 1 .. n : Over(vs, r, j, l) /\ vs[l].unit = vs[k].unit
        BY <2>1, <3>1
      <4>2. l = k
        BY <4>1 DEF Distinct
      <4>. QED  BY <4>1, <4>2
    <3>2. ASSUME Over(vs, r, j, k)
          PROVE  vs[k].unit \in U[vs[j].unit]
      BY <2>1, <3>2
    <3>. QED  BY <3>1, <3>2
  <2>4. \A u \in Units : U[u] \subseteq Living(vs)
    <3>. TAKE u \in Units
    <3>1. CASE u \in Living(vs)
      <4>1. PICK j \in 1 .. n : u = vs[j].unit
        BY <1>0, <3>1
      <4>2. U[u] = {vs[k].unit : k \in {k \in 1 .. n : Over(vs, r, j, k)}}
        BY <2>1, <4>1
      <4>. QED  BY <1>0, <4>2
    <3>2. CASE u \notin Living(vs)
      BY <2>2, <3>2
    <3>. QED  BY <3>1, <3>2
  <2>5. IsUnder(n, vs, r, U)
    BY <2>2, <2>3, <2>4 DEF IsUnder
  <2>. QED  BY <2>5 DEF U
<1>. QED  BY <1>2, <1>3, <1>4, <1>5

-----------------------------------------------------------------------------
(* What the steps of the array are to UnitStacks.                          *)

UnitsOf(vs, M) == {vs[j].unit : j \in M}

LEMMA UnitsOfIs ==
    ASSUME NEW n \in Nat, NEW vs \in Arrays(n), Distinct(n, vs), NEW M \in SUBSET (1 .. n)
    PROVE  /\ UnitsOf(vs, M) \subseteq Units
           /\ \A j \in 1 .. n : vs[j].unit \in UnitsOf(vs, M) <=> j \in M
           /\ IsFiniteSet(M) => Cardinality(UnitsOf(vs, M)) <= Cardinality(M)
<1>1. \A j \in 1 .. n : vs[j].unit \in Units
  BY VehFields
<1>2. \A j \in 1 .. n : vs[j].unit \in UnitsOf(vs, M) <=> j \in M
  BY DEF UnitsOf, Distinct
<1>3. IsFiniteSet(M) => Cardinality(UnitsOf(vs, M)) <= Cardinality(M)
  <2>. DEFINE f == [j \in M |-> vs[j].unit]
  <2>1. UnitsOf(vs, M) = {f[j] : j \in M}
    BY DEF UnitsOf
  <2>2. f \in Surjection(M, UnitsOf(vs, M))
    BY <2>1 DEF Surjection
  <2>. HIDE DEF f
  <2>. QED  BY <2>2, FS_Surjection
<1>. QED  BY <1>1, <1>2, <1>3 DEF UnitsOf

\* The units that stay in the array.
LEMMA SameUnits ==
    ASSUME NEW n \in Nat, NEW vs \in Arrays(n), NEW ws \in Arrays(n), Distinct(n, vs),
           \A j \in 1 .. n : ws[j].unit = vs[j].unit
    PROVE  Distinct(n, ws) /\ Living(ws) = Living(vs) /\ \A hs : HandleOf(ws, hs) = HandleOf(vs, hs)
<1>1. Distinct(n, ws)
  BY DEF Distinct
<1>2. DOMAIN vs = 1 .. n /\ DOMAIN ws = 1 .. n
  BY VehFields
<1>3. Living(ws) = Living(vs)
  BY <1>2 DEF Living
<1>4. ASSUME NEW hs
      PROVE  HandleOf(ws, hs) = HandleOf(vs, hs)
  <2>1. IsNaming(n, ws, hs, HandleOf(ws, hs)) /\ IsNaming(n, vs, hs, HandleOf(vs, hs))
    BY <1>1, TheViews
  <2>2. IsNaming(n, vs, hs, HandleOf(ws, hs))
    BY <1>3, <2>1 DEF IsNaming
  <2>. QED  BY <2>1, <2>2, OneView
<1>. QED  BY <1>1, <1>3, <1>4

LEMMA SameBoarding ==
    ASSUME NEW n \in Nat, NEW vs \in Arrays(n), NEW ws \in Arrays(n), Distinct(n, vs), Same(n, vs, ws)
    PROVE  Boarding(ws) = Boarding(vs)
<1>1. Distinct(n, ws) /\ Living(ws) = Living(vs)
  BY SameUnits DEF Same
<1>2. IsBoarding(n, ws, Boarding(ws)) /\ IsBoarding(n, vs, Boarding(vs))
  BY <1>1, TheViews
<1>3. \A j \in 1 .. n : Aboard(ws, j) = Aboard(vs, j)
  <2>. TAKE j \in 1 .. n
  <2>1. ws[j].order = vs[j].order /\ ws[j].on = vs[j].on /\ vs[j].on \in 0 .. n
    BY VehFields DEF Same
  <2>2. UnitIn(ws, vs[j].on) = UnitIn(vs, vs[j].on)
    BY <2>1 DEF UnitIn, Same
  <2>. QED  BY <2>1, <2>2 DEF Aboard
<1>4. \A j \in 1 .. n : ws[j].unit = vs[j].unit
  BY DEF Same
<1>5. IsBoarding(n, vs, Boarding(ws))
  BY <1>1, <1>2, <1>3, <1>4 DEF IsBoarding
<1>. QED  BY <1>2, <1>5, OneView

Within(S, U, b) == b = [u \in S |-> U[u] \cap S]

\* Any rows of one place, ranked, are in one of the orders a stack can have.
LEMMA OrderedRows ==
    ASSUME NEW n \in Nat, NEW s, NEW r, Ranked(n, s, r), Distinct(n, s.vehs), NEW M \in SUBSET (1 .. n),
           \A j, k \in M : s.vehs[j].at = s.vehs[k].at,
           NEW U, IsUnder(n, s.vehs, r, U), NEW S, S = UnitsOf(s.vehs, M),
           NEW b, Within(S, U, b)
    PROVE  b \in Abstract!Orders(S)
<1>. DEFINE vs == s.vehs
<1>1. vs \in Arrays(n) /\ Linked(n, vs, r) /\ \A j \in 1 .. n : r[j] \in Nat
  BY TableFields DEF Ranked, Linked
<1>0. b = [u \in S |-> U[u] \cap S]
  BY DEF Within
<1>2. \A u \in S : \E j \in M : u = vs[j].unit
  BY DEF UnitsOf
<1>3. \A j \in M : j \in 1 .. n /\ vs[j].unit \in S
  BY DEF UnitsOf
<1>4. ASSUME NEW j \in M, NEW k \in M
      PROVE  vs[k].unit \in b[vs[j].unit] <=> r[j] < r[k]
  <2>1. vs[k].unit \in U[vs[j].unit] <=> Over(vs, r, j, k)
    BY <1>3 DEF IsUnder
  <2>2. vs[j].at = vs[k].at
    OBVIOUS
  <2>. QED  BY <1>0, <1>3, <2>1, <2>2 DEF Over
<1>5. b \in [S -> SUBSET S]
  BY <1>0
<1>6. ASSUME NEW j \in M, NEW k \in M, vs[j].unit # vs[k].unit
      PROVE  r[j] # r[k]
  BY <1>1, <1>3, <1>6 DEF Linked
<1>7. ASSUME NEW u \in S, NEW v \in S
      PROVE  /\ u \in b[v] <=> u # v /\ v \notin b[u]
             /\ u \in b[v] => b[u] \subseteq b[v]
  <2>1. PICK j \in M : u = vs[j].unit
    BY <1>2
  <2>2. PICK k \in M : v = vs[k].unit
    BY <1>2
  <2>3. r[j] \in Nat /\ r[k] \in Nat
    BY <1>1, <1>3
  <2>4. (u \in b[v] <=> r[k] < r[j]) /\ (v \in b[u] <=> r[j] < r[k])
    BY <1>4, <2>1, <2>2
  <2>5. u # v => r[j] # r[k]
    BY <1>6, <2>1, <2>2
  <2>6. u = v => j = k
    BY <1>3, <2>1, <2>2 DEF Distinct
  <2>7. u \in b[v] <=> u # v /\ v \notin b[u]
    BY <2>3, <2>4, <2>5, <2>6
  <2>8. ASSUME u \in b[v], NEW x \in b[u]
        PROVE  x \in b[v]
    <3>1. x \in S
      BY <1>5, <2>8
    <3>2. PICK l \in M : x = vs[l].unit
      BY <1>2, <3>1
    <3>3. r[j] < r[l] /\ r[k] < r[j] /\ r[l] \in Nat
      BY <1>1, <1>3, <1>4, <2>1, <2>4, <2>8, <3>2
    <3>4. r[k] < r[l]
      BY <2>3, <3>3
    <3>. QED  BY <1>4, <2>2, <3>2, <3>4
  <2>. QED  BY <2>7, <2>8
<1>8. b \in Abstract!Orders(S)
  BY <1>5, <1>7 DEF Abstract!Orders
<1>. QED  BY <1>8

\* The views of places and orders depend on units and places only.
LEMMA SamePlaces ==
    ASSUME NEW n \in Nat, NEW vs \in Arrays(n), NEW ws \in Arrays(n), Distinct(n, vs),
           \A j \in 1 .. n : ws[j].unit = vs[j].unit /\ ws[j].at = vs[j].at
    PROVE  /\ TileOf(ws) = TileOf(vs)
           /\ \A r, U : IsUnder(n, ws, r, U) <=> IsUnder(n, vs, r, U)
<1>1. Distinct(n, ws) /\ Living(ws) = Living(vs)
  BY SameUnits
<1>2. IsTile(n, ws, TileOf(ws)) /\ IsTile(n, vs, TileOf(vs))
  BY <1>1, TheViews
<1>3. IsTile(n, vs, TileOf(ws))
  BY <1>1, <1>2 DEF IsTile
<1>4. TileOf(ws) = TileOf(vs)
  BY <1>2, <1>3, OneView
<1>5. \A r : \A j, k \in 1 .. n : Over(ws, r, j, k) <=> Over(vs, r, j, k)
  BY DEF Over
<1>6. ASSUME NEW r, NEW U
      PROVE  IsUnder(n, ws, r, U) <=> IsUnder(n, vs, r, U)
  BY <1>1, <1>5 DEF IsUnder
<1>. QED  BY <1>4, <1>6

\* Units that leave for a place go on top of it, in some order of theirs.
Leaves(n, vs, t, rg, r2, M, p) ==
  /\ Ranked(n, t, r2)
  /\ \A j \in 1 .. n : /\ t.vehs[j].unit = vs[j].unit
                       /\ t.vehs[j].at = IF j \in M THEN p ELSE vs[j].at
  /\ KeepsOrder(n, rg, r2, M)
  /\ \A j \in M : \A k \in 1 .. n : k \notin M /\ vs[k].at = p => r2[j] < r2[k]
Departed(T, R, S, p, T2, U2) ==
  /\ T2 = [u \in Units |-> IF u \in S THEN p ELSE T[u]]
  /\ \E order \in Abstract!Orders(S) :
       U2 = [u \in Units |-> IF u \in S THEN order[u] \cup ({v \in Units : T[v] = p} \ S)
                             ELSE R[u] \ S]

LEMMA LeavesTile ==
    ASSUME NEW n \in Nat, NEW vs \in Arrays(n), Distinct(n, vs), NEW t, NEW rg, NEW r2,
           NEW M \in SUBSET (1 .. n), NEW p, Leaves(n, vs, t, rg, r2, M, p),
           NEW S, S = UnitsOf(vs, M)
    PROVE  TileOf(t.vehs) = [u \in Units |-> IF u \in S THEN p ELSE TileOf(vs)[u]]
<1>. DEFINE T == TileOf(vs)
            T2 == [u \in Units |-> IF u \in S THEN p ELSE T[u]]
            ws == t.vehs
<1>1. ws \in Arrays(n) /\ \A j \in 1 .. n : /\ ws[j].unit = vs[j].unit
                                           /\ ws[j].at = IF j \in M THEN p ELSE vs[j].at
  BY TableFields DEF Leaves, Ranked
<1>. HIDE DEF ws
<1>2. Distinct(n, ws) /\ Living(ws) = Living(vs)
  BY <1>1, SameUnits
<1>3. IsTile(n, vs, T)
  BY TheViews
<1>4. /\ S \subseteq Units
      /\ \A j \in 1 .. n : vs[j].unit \in Units /\ (vs[j].unit \in S <=> j \in M)
      /\ S \subseteq Living(vs)
  <2>1. \A j \in 1 .. n : vs[j].unit \in Living(vs)
    BY LivingIs
  <2>2. S \subseteq Living(vs)
    BY <2>1 DEF UnitsOf
  <2>. QED  BY <2>2, UnitsOfIs, VehFields
<1>. HIDE DEF T
<1>5. IsTile(n, ws, T2)
  BY <1>1, <1>2, <1>3, <1>4 DEF IsTile
<1>6. IsTile(n, ws, TileOf(ws))
  BY <1>1, <1>2, TheViews
<1>. HIDE DEF T2
<1>7. TileOf(ws) = T2
  BY <1>1, <1>5, <1>6, OneView
<1>. QED  BY <1>7 DEF ws, T2, T

LEMMA LeavesIs ==
    ASSUME NEW n \in Nat, NEW vs \in Arrays(n), Distinct(n, vs), NEW t, NEW rg, NEW r2,
           \A j \in 1 .. n : rg[j] \in Nat,
           NEW M \in SUBSET (1 .. n), NEW p, p # Cleared, Leaves(n, vs, t, rg, r2, M, p),
           NEW S, S = UnitsOf(vs, M), NEW R, IsUnder(n, vs, rg, R)
    PROVE  Departed(TileOf(vs), R, S, p, TileOf(t.vehs), UnitsUnder(t.vehs))
<1>. DEFINE T == TileOf(vs)
            ws == t.vehs
            U2 == UnitsUnder(ws)
            b == [u \in S |-> U2[u] \cap S]
            X == [u \in Units |-> IF u \in S THEN b[u] \cup ({v \in Units : T[v] = p} \ S) ELSE R[u] \ S]
<1>1. /\ ws \in Arrays(n) /\ Linked(n, ws, r2) /\ Ranked(n, t, r2)
      /\ \A j \in 1 .. n : /\ ws[j].unit = vs[j].unit
                           /\ ws[j].at = IF j \in M THEN p ELSE vs[j].at
                           /\ r2[j] \in Nat
  BY TableFields, RanksAreNumbers DEF Leaves, Ranked
<1>2. Distinct(n, ws) /\ Living(ws) = Living(vs)
  BY <1>1, SameUnits
<1>3. IsTile(n, vs, T) /\ IsUnder(n, ws, r2, U2)
  BY <1>1, <1>2, TheViews
<1>4. /\ \A j \in 1 .. n : vs[j].unit \in Units /\ vs[j].unit \in Living(vs)
      /\ \A j \in 1 .. n : vs[j].unit \in S <=> j \in M
      /\ S \subseteq Living(vs)
  <2>1. \A j \in 1 .. n : vs[j].unit \in Living(vs)
    BY LivingIs
  <2>2. S \subseteq Living(vs)
    BY <2>1 DEF UnitsOf
  <2>. QED  BY <2>1, <2>2, UnitsOfIs, VehFields
<1>5. b \in Abstract!Orders(S)
  <2>1. UnitsOf(ws, M) = S
    BY <1>1 DEF UnitsOf
  <2>2. \A j, k \in M : ws[j].at = ws[k].at
    BY <1>1
  <2>. HIDE DEF U2, b
  <2>3. /\ Ranked(n, t, r2) /\ Distinct(n, t.vehs) /\ IsUnder(n, t.vehs, r2, U2)
        /\ \A j, k \in M : t.vehs[j].at = t.vehs[k].at
        /\ S = UnitsOf(t.vehs, M)
    BY <1>1, <1>2, <1>3, <2>1, <2>2 DEF ws
  <2>4. Within(S, U2, b)
    BY DEF Within, b
  <2>. QED  BY <2>3, <2>4, OrderedRows
<1>6. \A j, k \in 1 .. n : vs[k].unit \in U2[vs[j].unit] <=> Over(ws, r2, j, k)
  BY <1>1, <1>3 DEF IsUnder
<1>7. \A u \in Units : T[u] = p => u \in Living(vs)
  BY <1>3 DEF IsTile
<1>8. \A j \in 1 .. n : T[vs[j].unit] = vs[j].at
  BY <1>3 DEF IsTile
<1>. HIDE DEF T, U2, ws
<1>9. ASSUME NEW j \in 1 .. n, NEW k \in 1 .. n
      PROVE  vs[k].unit \in X[vs[j].unit] <=> Over(ws, r2, j, k)
  <2>. DEFINE u == vs[j].unit
              v == vs[k].unit
  <2>0. u \in Units /\ v \in Units /\ (u \in S <=> j \in M) /\ (v \in S <=> k \in M) /\ T[v] = vs[k].at
    BY <1>4, <1>8
  <2>1. ws[k].at = (IF k \in M THEN p ELSE vs[k].at) /\ ws[j].at = (IF j \in M THEN p ELSE vs[j].at)
    BY <1>1
  <2>2. CASE j \in M /\ k \in M
    <3>1. v \in X[u] <=> v \in U2[u]
      BY <2>0, <2>2
    <3>. QED  BY <1>6, <3>1
  <2>3. CASE j \in M /\ k \notin M
    <3>1. v \in X[u] <=> vs[k].at = p
      BY <2>0, <2>3
    <3>2. vs[k].at = p => r2[j] < r2[k]
      BY <2>3 DEF Leaves
    <3>. QED  BY <2>1, <2>3, <3>1, <3>2 DEF Over
  <2>4. CASE j \notin M /\ k \in M
    <3>1. v \notin X[u]
      BY <2>0, <2>4
    <3>2. vs[j].at = p => r2[k] < r2[j]
      BY <2>4 DEF Leaves
    <3>3. r2[k] < r2[j] => ~ (r2[j] < r2[k])
      BY <1>1
    <3>. QED  BY <2>1, <2>4, <3>1, <3>2, <3>3 DEF Over
  <2>5. CASE j \notin M /\ k \notin M
    <3>1. v \in X[u] <=> v \in R[u]
      BY <2>0, <2>5
    <3>2. v \in R[u] <=> Over(vs, rg, j, k)
      BY DEF IsUnder
    <3>3. rg[j] < rg[k] <=> r2[j] < r2[k]
      BY <2>5 DEF Leaves, KeepsOrder
    <3>. QED  BY <2>1, <2>5, <3>1, <3>2, <3>3 DEF Over
  <2>. QED  BY <2>2, <2>3, <2>4, <2>5
<1>10. IsUnder(n, ws, r2, X)
  <2>1. X = [u \in Units |-> X[u]]
    OBVIOUS
  <2>2. \A j, k \in 1 .. n : ws[k].unit \in X[ws[j].unit] <=> Over(ws, r2, j, k)
    BY <1>1, <1>9
  <2>3. ASSUME NEW u \in Units
        PROVE  X[u] \subseteq Living(vs) /\ (u \notin Living(vs) => X[u] = {})
    <3>1. CASE u \in S
      BY <1>4, <1>7, <3>1
    <3>2. CASE u \notin S
      BY <3>2 DEF IsUnder
    <3>. QED  BY <3>1, <3>2
  <2>. HIDE DEF X
  <2>. QED  BY <1>2, <2>1, <2>2, <2>3 DEF IsUnder
<1>. HIDE DEF X
<1>11. U2 = X
  BY <1>1, <1>3, <1>10, OneView
<1>12. TileOf(ws) = [u \in Units |-> IF u \in S THEN p ELSE T[u]]
  BY LeavesTile DEF ws, T
<1>. HIDE DEF b
<1>13. Departed(T, R, S, p, TileOf(ws), U2)
  BY <1>5, <1>11, <1>12 DEF X, Departed
<1>. QED  BY <1>13 DEF T, U2, ws

\* The array as UnitStacks sees it.
Seen(n, r) ==
  /\ n \in Nat /\ Ranked(n, Table, r) /\ Distinct(n, vehs)
  /\ \A j \in 1 .. n : vehs[j].at \in Tiles

LEMMA SeenFields ==
    ASSUME NEW n, NEW r, Seen(n, r)
    PROVE  /\ n \in Nat /\ Table.vehs = vehs /\ vehs \in Arrays(n) /\ Distinct(n, vehs)
           /\ Linked(n, vehs, r) /\ \A j \in 1 .. n : r[j] \in Nat
           /\ IsUnder(n, vehs, r, UnitsUnder(vehs)) /\ IsTile(n, vehs, TileOf(vehs))
           /\ \A j \in 1 .. n : /\ vehs[j].unit \in Units /\ vehs[j].unit \in Living(vehs)
                                /\ vehs[j].at # Cleared /\ vehs[j].at \in Tiles
                                /\ TileOf(vehs)[vehs[j].unit] = vehs[j].at
           /\ \A u \in Living(vehs) : \E j \in 1 .. n : u = vehs[j].unit
<1>1. Table.vehs = vehs
  BY DEF Table
<1>2. n \in Nat /\ Ranked(n, Table, r) /\ Distinct(n, vehs) /\ \A j \in 1 .. n : vehs[j].at \in Tiles
  BY DEF Seen
<1>3. vehs \in Arrays(n) /\ Linked(n, vehs, r) /\ \A j \in 1 .. n : r[j] \in Nat
  BY <1>1, <1>2, TableFields, RanksAreNumbers DEF Ranked
<1>4. IsUnder(n, vehs, r, UnitsUnder(vehs)) /\ IsTile(n, vehs, TileOf(vehs))
  BY <1>2, <1>3, TheViews
<1>5. Cleared \notin Tiles
  BY OffMapIsNoTile DEF OffMap
<1>6. \A j \in 1 .. n : TileOf(vehs)[vehs[j].unit] = vehs[j].at
  BY <1>4 DEF IsTile
<1>7. /\ \A j \in 1 .. n : vehs[j].unit \in Units /\ vehs[j].unit \in Living(vehs)
      /\ \A u \in Living(vehs) : \E j \in 1 .. n : u = vehs[j].unit
  BY <1>2, <1>3, LivingIs, VehFields
<1>. QED  BY <1>1, <1>2, <1>3, <1>4, <1>5, <1>6, <1>7

\* The units of a place are those of its rows.
LEMMA OnIs ==
    ASSUME NEW n, NEW r, Seen(n, r), NEW p, p # Cleared
    PROVE  /\ Abstract!On(p) = UnitsOf(vehs, AtPlace(n, vehs, p))
           /\ Abstract!On(p) \subseteq Living(vehs) /\ Abstract!On(p) \subseteq Units
           /\ \A j \in 1 .. n : vehs[j].unit \in Abstract!On(p) <=> vehs[j].at = p
<1>. DEFINE T == TileOf(vehs)
<1>1. /\ IsTile(n, vehs, T)
      /\ \A j \in 1 .. n : /\ vehs[j].unit \in Units /\ vehs[j].unit \in Living(vehs)
                           /\ T[vehs[j].unit] = vehs[j].at
      /\ \A u \in Living(vehs) : \E j \in 1 .. n : u = vehs[j].unit
  BY SeenFields
<1>2. Abstract!On(p) = {u \in Units : T[u] = p}
  BY DEF Abstract!On
<1>. HIDE DEF T
<1>3. {u \in Units : T[u] = p} \subseteq Living(vehs)
  BY <1>1 DEF IsTile
<1>4. UnitsOf(vehs, AtPlace(n, vehs, p)) = {u \in Units : T[u] = p}
  <2>1. ASSUME NEW u \in UnitsOf(vehs, AtPlace(n, vehs, p))
        PROVE  u \in Units /\ T[u] = p
    BY <1>1, <2>1 DEF UnitsOf, AtPlace
  <2>2. ASSUME NEW u \in Units, T[u] = p
        PROVE  u \in UnitsOf(vehs, AtPlace(n, vehs, p))
    <3>1. PICK j \in 1 .. n : u = vehs[j].unit
      BY <1>1, <1>3, <2>2
    <3>2. vehs[j].at = p
      BY <1>1, <2>2, <3>1
    <3>. QED  BY <3>1, <3>2 DEF UnitsOf, AtPlace
  <2>. QED  BY <2>1, <2>2
<1>. QED  BY <1>1, <1>2, <1>3, <1>4

LEMMA CarrierUnits ==
    ASSUME NEW n \in Nat, NEW vs \in Arrays(n), NEW j \in 1 .. n
    PROVE  j \in Carriers(vs) <=> vs[j].unit \in Transports
<1>1. DOMAIN vs = 1 .. n /\ Capacity > 0
  BY VehFields, UnitBounds
<1>. QED  BY <1>1 DEF Carriers, Cargo

\* The order that stack_fix leaves is one that UnitStacks allows.
LEMMA FixedStack ==
    ASSUME NEW n, NEW r, Seen(n, r), NEW v \in 1 .. n, NEW rf, Refixed(n, Table, r, v, rf),
           NEW p, p = vehs[v].at
    PROVE  \E b \in Abstract!Stacks(p) : /\ IsUnder(n, vehs, rf, Abstract!Restacked(p, b))
                                         /\ b \in [Abstract!On(p) -> SUBSET Abstract!On(p)]
<1>. DEFINE U == UnitsUnder(vehs)
            S == Abstract!On(p)
            M == AtPlace(n, vehs, p)
<1>0. /\ n \in Nat /\ Table.vehs = vehs /\ vehs \in Arrays(n) /\ Distinct(n, vehs)
      /\ IsUnder(n, vehs, r, U) /\ p # Cleared /\ p \in Tiles
      /\ \A j \in 1 .. n : vehs[j].unit \in Units /\ vehs[j].unit \in Living(vehs)
      /\ \A u \in Living(vehs) : \E j \in 1 .. n : u = vehs[j].unit
  BY SeenFields
<1>1. /\ S = UnitsOf(vehs, M) /\ S \subseteq Living(vehs) /\ S \subseteq Units
      /\ \A j \in 1 .. n : vehs[j].unit \in S <=> vehs[j].at = p
  BY <1>0, OnIs
<1>2. Beside(n, Table, v) = M
  BY <1>0 DEF Beside, AtPlace
<1>3. PICK f : Stayed(n, Table, f, rf)
  BY DEF Refixed
<1>4. /\ f.vehs \in Arrays(n) /\ Ranked(n, f, rf) /\ Linked(n, f.vehs, rf)
      /\ \A j \in 1 .. n : f.vehs[j].unit = vehs[j].unit /\ f.vehs[j].at = vehs[j].at
  BY <1>0, <1>3, TableFields DEF Stayed, Ranked, Same
<1>. DEFINE F == UnitsUnder(f.vehs)
            b == [u \in S |-> F[u]]
<1>5. Distinct(n, f.vehs) /\ IsUnder(n, f.vehs, rf, F)
  <2>1. Distinct(n, f.vehs)
    BY <1>0, <1>4, SameUnits
  <2>. QED  BY <1>0, <1>4, <2>1, TheViews
<1>6. IsUnder(n, vehs, rf, F)
  BY <1>0, <1>4, <1>5, SamePlaces
<1>7. \A j, k \in 1 .. n : vehs[k].unit \in F[vehs[j].unit] <=> Over(vehs, rf, j, k)
  BY <1>6 DEF IsUnder
<1>8. ASSUME NEW u \in S
      PROVE  F[u] \subseteq S
  <2>1. PICK j \in M : u = vehs[j].unit
    BY <1>1 DEF UnitsOf
  <2>2. ASSUME NEW x \in F[u]
        PROVE  x \in S
    <3>1. x \in Living(vehs)
      BY <1>1, <1>6, <2>2 DEF IsUnder
    <3>2. PICK k \in 1 .. n : x = vehs[k].unit
      BY <1>0, <3>1
    <3>3. j \in 1 .. n /\ vehs[j].at = p
      BY DEF AtPlace
    <3>4. vehs[k].at = p
      BY <1>7, <2>1, <2>2, <3>2, <3>3 DEF Over
    <3>. QED  BY <1>1, <3>2, <3>4
  <2>. QED  BY <2>2
<1>9. \A j, k \in 1 .. n : j \notin M /\ k \notin M => (rf[j] < rf[k] <=> r[j] < r[k])
  BY <1>2 DEF Refixed, KeepsOrder
<1>10. ASSUME NEW u \in Units \ S
       PROVE  F[u] = U[u]
  <2>1. CASE u \in Living(vehs)
    <3>1. PICK j \in 1 .. n : u = vehs[j].unit
      BY <1>0, <2>1
    <3>2. vehs[j].at # p
      BY <1>1, <3>1
    <3>3. \A k \in 1 .. n : Over(vehs, rf, j, k) <=> Over(vehs, r, j, k)
      BY <1>9, <3>2 DEF Over, AtPlace
    <3>4. \A k \in 1 .. n : vehs[k].unit \in F[u] <=> vehs[k].unit \in U[u]
      BY <1>0, <1>7, <3>1, <3>3 DEF IsUnder
    <3>5. F[u] \subseteq Living(vehs) /\ U[u] \subseteq Living(vehs)
      BY <1>0, <1>6 DEF IsUnder
    <3>. HIDE DEF F, U
    <3>6. \A x : x \in F[u] <=> x \in U[u]
      BY <1>0, <3>4, <3>5
    <3>. QED  BY <3>6
  <2>2. CASE u \notin Living(vehs)
    BY <1>0, <1>6, <2>2 DEF IsUnder
  <2>. QED  BY <2>1, <2>2
<1>11. b \in [S -> SUBSET S]
  BY <1>8
<1>12. b \in Abstract!Stacks(p)
  <2>1. CASE multiplayer
    <3>1. M \in SUBSET (1 .. n) /\ \A j, k \in M : f.vehs[j].at = f.vehs[k].at
      BY <1>4 DEF AtPlace
    <3>2. S = UnitsOf(f.vehs, M)
      BY <1>1, <1>4, <3>1 DEF UnitsOf
    <3>. HIDE DEF M, F, S
    <3>4. Within(S, F, b)
      BY <1>8 DEF Within
    <3>. HIDE DEF b
    <3>3. b \in Abstract!Orders(S)
      <4>1. n \in Nat /\ Ranked(n, f, rf) /\ Distinct(n, f.vehs) /\ IsUnder(n, f.vehs, rf, F)
        BY <1>0, <1>4, <1>5
      <4>. QED  BY <3>1, <3>2, <3>4, <4>1, OrderedRows
    <3>5. b \in Abstract!Orders(Abstract!On(p))
      BY <3>3 DEF S
    <3>. QED  BY <2>1, <3>5 DEF Abstract!Stacks
  <2>2. CASE ~ multiplayer
    <3>1. rf = r
      BY <2>2 DEF Refixed
    <3>2. F = U
      BY <1>0, <1>6, <3>1, OneView
    <3>. HIDE DEF F, U
    <3>3. b = [u \in Abstract!On(p) |-> UnitsUnder(vehs)[u]]
      BY <3>2 DEF U
    <3>. QED  BY <2>2, <3>3 DEF Abstract!Stacks
  <2>. QED  BY <2>1, <2>2
<1>13. Abstract!Restacked(p, b) = F
  <2>1. F = [u \in Units |-> F[u]]
    BY <1>6 DEF IsUnder
  <2>2. Abstract!Restacked(p, b) = [u \in Units |-> IF u \in S THEN b[u] ELSE U[u]]
    BY DEF Abstract!Restacked
  <2>. HIDE DEF F, U, S
  <2>. QED  BY <1>10, <2>1, <2>2
<1>. QED  BY <1>6, <1>11, <1>12, <1>13

\* Sorting it puts the carriers first.
LEMMA SortedStack ==
    ASSUME NEW n, NEW r, Seen(n, r), NEW v \in 1 .. n, NEW p, p = vehs[v].at,
           NEW rf, \A j \in 1 .. n : rf[j] \in Nat, NEW b,
           b \in [Abstract!On(p) -> SUBSET Abstract!On(p)],
           IsUnder(n, vehs, rf, Abstract!Restacked(p, b)),
           NEW rg, \A j \in 1 .. n : rg[j] \in Nat,
           SortOrder(n, rf, rg, Carriers(vehs) \cap Beside(n, Table, v))
    PROVE  IsUnder(n, vehs, rg, Abstract!Restacked(p, Abstract!CarriersFirst(b)))
<1>. DEFINE U == UnitsUnder(vehs)
            S == Abstract!On(p)
            F == Abstract!Restacked(p, b)
            c == Abstract!CarriersFirst(b)
            G == Abstract!Restacked(p, c)
<1>0. /\ n \in Nat /\ Table.vehs = vehs /\ vehs \in Arrays(n) /\ p # Cleared
      /\ \A j \in 1 .. n : vehs[j].unit \in Units /\ vehs[j].unit \in Living(vehs)
  BY SeenFields
<1>1. /\ S \subseteq Living(vehs) /\ S \subseteq Units
      /\ \A j \in 1 .. n : vehs[j].unit \in S <=> vehs[j].at = p
  BY <1>0, OnIs
<1>2. Beside(n, Table, v) = AtPlace(n, vehs, p)
  BY <1>0 DEF Beside, AtPlace
<1>3. \A j \in 1 .. n : j \in Carriers(vehs) <=> vehs[j].unit \in Transports
  BY <1>0, CarrierUnits
<1>4. /\ F = [u \in Units |-> IF u \in S THEN b[u] ELSE U[u]]
      /\ G = [u \in Units |-> IF u \in S THEN c[u] ELSE U[u]]
  BY DEF Abstract!Restacked
<1>5. c = [u \in S |-> IF u \in Transports THEN (b[u] \cap Transports) \cup (S \ Transports)
                       ELSE b[u] \ Transports]
  BY DEF Abstract!CarriersFirst
<1>. HIDE DEF S, U, F, G, c
<1>6. b \in [S -> SUBSET S] /\ IsUnder(n, vehs, rf, F)
  BY DEF S, F
<1>7. /\ \A i, j \in 1 .. n : i \in Carriers(vehs) /\ vehs[i].at = p /\ ~ (j \in Carriers(vehs) /\ vehs[j].at = p)
           => rg[i] < rg[j]
      /\ \A i, j \in 1 .. n : (i \in Carriers(vehs) /\ vehs[i].at = p <=> j \in Carriers(vehs) /\ vehs[j].at = p)
           => (rg[i] < rg[j] <=> rf[i] < rf[j])
  BY <1>2 DEF SortOrder, AtPlace
<1>8. ASSUME NEW j \in 1 .. n, NEW k \in 1 .. n
      PROVE  vehs[k].unit \in G[vehs[j].unit] <=> Over(vehs, rg, j, k)
  <2>. DEFINE u == vehs[j].unit
              x == vehs[k].unit
  <2>0. /\ u \in Units /\ (u \in S <=> vehs[j].at = p) /\ (x \in S <=> vehs[k].at = p)
        /\ (j \in Carriers(vehs) <=> u \in Transports) /\ (k \in Carriers(vehs) <=> x \in Transports)
        /\ rg[j] \in Nat /\ rg[k] \in Nat
    BY <1>0, <1>1, <1>3
  <2>1. x \in F[u] <=> Over(vehs, rf, j, k)
    BY <1>6 DEF IsUnder
  <2>2. CASE u \notin S
    <3>1. G[u] = F[u]
      BY <1>4, <2>0, <2>2
    <3>2. vehs[j].at = vehs[k].at => (rg[j] < rg[k] <=> rf[j] < rf[k])
      BY <1>7, <2>0, <2>2
    <3>. QED  BY <2>1, <3>1, <3>2 DEF Over
  <2>3. CASE u \in S /\ x \notin S
    <3>1. G[u] = c[u] /\ c[u] \subseteq S
      BY <1>4, <1>5, <1>6, <2>0, <2>3
    <3>. QED  BY <2>0, <2>3, <3>1 DEF Over
  <2>4. CASE u \in S /\ x \in S
    <3>1. /\ G[u] = c[u] /\ F[u] = b[u]
          /\ c[u] = IF u \in Transports THEN (b[u] \cap Transports) \cup (S \ Transports)
                    ELSE b[u] \ Transports
      BY <1>4, <1>5, <2>0, <2>4
    <3>2. vehs[j].at = p /\ vehs[k].at = p
      BY <2>0, <2>4
    <3>3. x \in b[u] <=> rf[j] < rf[k]
      BY <2>1, <3>1, <3>2 DEF Over
    <3>4. (u \in Transports <=> x \in Transports) => (rg[j] < rg[k] <=> rf[j] < rf[k])
      BY <1>7, <2>0, <3>2
    <3>5. u \in Transports /\ x \notin Transports => rg[j] < rg[k]
      BY <1>7, <2>0, <3>2
    <3>6. u \notin Transports /\ x \in Transports => rg[k] < rg[j]
      BY <1>7, <2>0, <3>2
    <3>6a. rg[k] < rg[j] => ~ (rg[j] < rg[k])
      BY <2>0
    <3>7. x \in c[u] <=> rg[j] < rg[k]
      BY <2>4, <3>1, <3>3, <3>4, <3>5, <3>6, <3>6a
    <3>. QED  BY <3>1, <3>2, <3>7 DEF Over
  <2>. QED  BY <2>2, <2>3, <2>4
<1>9. ASSUME NEW u \in Units
      PROVE  G[u] \subseteq Living(vehs) /\ (u \notin Living(vehs) => G[u] = {})
  <2>1. CASE u \in S
    <3>1. G[u] = c[u] /\ c[u] \subseteq S
      BY <1>4, <1>5, <1>6, <2>1
    <3>. QED  BY <1>1, <2>1, <3>1
  <2>2. CASE u \notin S
    <3>1. G[u] = F[u]
      BY <1>4, <2>2
    <3>. QED  BY <1>6, <3>1 DEF IsUnder
  <2>. QED  BY <2>1, <2>2
<1>10. G = [u \in Units |-> G[u]]
  BY <1>4
<1>11. IsUnder(n, vehs, rg, G)
  BY <1>8, <1>9, <1>10 DEF IsUnder
<1>. QED  BY <1>11 DEF G, c

-----------------------------------------------------------------------------
(* Every call of the table is a step of UnitStacks.                        *)

\* No unit appears, and there is no handle without a row.
Keeps ==
  /\ Distinct(Len(vehs'), vehs') /\ Living(vehs') \subseteq Living(vehs)
  /\ Len(handles) <= Len(vehs) => Len(handles') <= Len(vehs')

\* A call that keeps the units keeps their handles.
LEMMA KeptNames ==
    ASSUME NEW n, NEW r, Seen(n, r), NEW t, t.vehs \in Arrays(n),
           \A j \in 1 .. n : t.vehs[j].unit = vehs[j].unit, Set(t), Keep
    PROVE  /\ Keeps /\ HandleOf(vehs', handles') = HandleOf(vehs, handles)
           /\ vehs' = t.vehs /\ nextHandle' = nextHandle /\ multiplayer' = multiplayer
<1>1. vehs' = t.vehs /\ handles' = handles /\ nextHandle' = nextHandle /\ multiplayer' = multiplayer
  BY DEF Set, Keep
<1>2. n \in Nat /\ vehs \in Arrays(n) /\ Distinct(n, vehs)
  BY SeenFields
<1>. DEFINE ws == t.vehs
<1>3. \A hs : HandleOf(ws, hs) = HandleOf(vehs, hs)
  BY <1>2, SameUnits
<1>. HIDE DEF ws
<1>4. vehs' = ws
  BY <1>1 DEF ws
<1>5. HandleOf(vehs', handles') = HandleOf(ws, handles)
  BY <1>1, <1>4
<1>6. Keeps
  <2>1. Distinct(n, ws) /\ Living(ws) = Living(vehs)
    BY <1>2, SameUnits DEF ws
  <2>2. Len(vehs) = n /\ Len(vehs') = n
    BY <1>2, <1>4, VehFields DEF ws
  <2>3. Distinct(n, vehs') /\ Living(vehs') = Living(vehs)
    BY <1>4, <2>1
  <2>. QED  BY <1>1, <2>2, <2>3 DEF Keeps
<1>. QED  BY <1>1, <1>3, <1>5, <1>6

LEMMA AliveIs ==
    ASSUME NEW n, NEW r, Seen(n, r), NEW i \in 1 .. n
    PROVE  /\ vehs[i].unit \in Abstract!Alive
           /\ Abstract!On(TileOf(vehs)[vehs[i].unit]) = Abstract!On(vehs[i].at)
           /\ TileOf(vehs)[vehs[i].unit] = vehs[i].at
<1>1. vehs[i].unit \in Units /\ TileOf(vehs)[vehs[i].unit] = vehs[i].at /\ vehs[i].at \in Tiles
  BY SeenFields
<1>. QED  BY <1>1 DEF Abstract!Alive

LEMMA StepPut ==
    ASSUME NEW n, NEW r, Seen(n, r), NEW i \in 1 .. n, NEW t, NEW r2, NEW p \in Tiles,
           Leaves(n, vehs, t, r, r2, {i}, p), Same(n, vehs, t.vehs), Set(t), Keep
    PROVE  Abstract!Put(vehs[i].unit, p) /\ Keeps
<1>. DEFINE u == vehs[i].unit
<1>1. /\ n \in Nat /\ vehs \in Arrays(n) /\ Distinct(n, vehs)
      /\ \A j \in 1 .. n : r[j] \in Nat
      /\ IsUnder(n, vehs, r, UnitsUnder(vehs))
  BY SeenFields
<1>2. t.vehs \in Arrays(n)
  BY <1>1, TableFields DEF Leaves, Ranked
<1>3. /\ Keeps /\ HandleOf(vehs', handles') = HandleOf(vehs, handles)
      /\ vehs' = t.vehs /\ nextHandle' = nextHandle /\ multiplayer' = multiplayer
  BY <1>2, KeptNames DEF Same
<1>4. Boarding(t.vehs) = Boarding(vehs)
  BY <1>1, <1>2, SameBoarding
<1>5. {i} \in SUBSET (1 .. n) /\ {u} = UnitsOf(vehs, {i}) /\ p # Cleared
  BY TilesArePlaces DEF UnitsOf
<1>. DEFINE M == {i}
            S == {u}
<1>6. Departed(TileOf(vehs), UnitsUnder(vehs), S, p, TileOf(t.vehs), UnitsUnder(t.vehs))
  <2>1. M \in SUBSET (1 .. n) /\ S = UnitsOf(vehs, M) /\ Leaves(n, vehs, t, r, r2, M, p)
    BY <1>5
  <2>. HIDE DEF M, S
  <2>. QED  BY <1>1, <1>5, <2>1, LeavesIs
<1>7. u \in Abstract!Alive
  BY AliveIs
<1>8. Departed(TileOf(vehs), UnitsUnder(vehs), S, p, TileOf(vehs'), UnitsUnder(vehs'))
      /\ Boarding(vehs') = Boarding(vehs)
  BY <1>3, <1>4, <1>6
<1>. HIDE DEF u
<1>9. Abstract!Depart({u}, UnitsUnder(vehs), p)
  BY <1>8 DEF Abstract!Depart, Departed, Abstract!On
<1>10. Abstract!Put(u, p)
  BY <1>3, <1>7, <1>8, <1>9 DEF Abstract!Put
<1>. QED  BY <1>3, <1>10 DEF u

LEMMA PutMaps ==
    ASSUME NEW n, NEW r, Seen(n, r), NEW i \in 1 .. n, NEW p \in Tiles, Put(i, p)
    PROVE  Abstract!Put(vehs[i].unit, p) /\ Keeps
<1>. DEFINE t == VehPut(Table, i, p)
            r2 == Raised(n, r, i)
<1>1. /\ n \in Nat /\ Table.vehs = vehs /\ \A j \in 1 .. n : r[j] \in Nat
      /\ Ranked(n, Table, r) /\ \A j \in 1 .. n : vehs[j].at \in Tiles
  BY SeenFields DEF Seen
<1>2. NoneAt(n, Table, Lifted)
  BY <1>1, WholeNone DEF Whole
<1>3. IsPut(n, Table, r, i, p, t)
  BY <1>1, <1>2, TilesArePlaces, VehPutIs
<1>4. Set(t) /\ Keep
  BY DEF Put
<1>. HIDE DEF t
<1>5. \A j \in 1 .. n : r2[j] = IF j = i THEN 0 ELSE r[j] + 1
  BY DEF Raised
<1>. HIDE DEF r2
<1>6. KeepsOrder(n, r, r2, {i}) /\ \A k \in 1 .. n : k # i => r2[i] < r2[k]
  BY <1>1, <1>5 DEF KeepsOrder
<1>7. Leaves(n, vehs, t, r, r2, {i}, p) /\ Same(n, vehs, t.vehs)
  BY <1>1, <1>3, <1>6 DEF IsPut, Leaves, Same, r2
<1>. QED  BY <1>4, <1>7, StepPut

LEMMA PromoteMaps ==
    ASSUME NEW n, NEW r, Seen(n, r), NEW i \in 1 .. n, Promote(i)
    PROVE  Abstract!Put(vehs[i].unit, vehs[i].at) /\ Keeps
<1>. DEFINE t == VehPromote(Table, i)
            p == vehs[i].at
<1>1. /\ n \in Nat /\ Table.vehs = vehs /\ \A j \in 1 .. n : r[j] \in Nat
      /\ Ranked(n, Table, r) /\ \A j \in 1 .. n : vehs[j].at \in Tiles
  BY SeenFields DEF Seen
<1>2. NoneAt(n, Table, Lifted) /\ p \in Tiles
  BY <1>1, WholeNone DEF Whole
<1>3. PICK r2 : Stayed(n, Table, t, r2) /\ PromoteOrder(n, vehs, r, r2, i)
  BY <1>1, <1>2, VehPromoteIs
<1>4. Set(t) /\ Keep
  BY DEF Promote
<1>. HIDE DEF t
<1>5. Leaves(n, vehs, t, r, r2, {i}, p) /\ Same(n, vehs, t.vehs)
  BY <1>1, <1>3 DEF Stayed, PromoteOrder, Leaves, Same, KeepsOrder
<1>. HIDE DEF p
<1>6. Abstract!Put(vehs[i].unit, p) /\ Keeps
  BY <1>2, <1>4, <1>5, StepPut
<1>. QED  BY <1>6 DEF p

LEMMA DemoteMaps ==
    ASSUME NEW n, NEW r, Seen(n, r), NEW i \in 1 .. n, Demote(i)
    PROVE  Abstract!Demote(vehs[i].unit) /\ Keeps
<1>. DEFINE t == VehDemote(Table, i)
            T == TileOf(vehs)
            U == UnitsUnder(vehs)
            u == vehs[i].unit
            D == [x \in Units |-> IF x = u THEN {} ELSE IF T[x] = T[u] THEN U[x] \cup {u} ELSE U[x]]
<1>1. /\ n \in Nat /\ Table.vehs = vehs /\ vehs \in Arrays(n) /\ Distinct(n, vehs)
      /\ \A j \in 1 .. n : r[j] \in Nat
      /\ \A j \in 1 .. n : /\ vehs[j].unit \in Units /\ vehs[j].unit \in Living(vehs)
                           /\ vehs[j].at # Cleared /\ T[vehs[j].unit] = vehs[j].at
      /\ IsUnder(n, vehs, r, U) /\ IsTile(n, vehs, T)
  BY SeenFields
<1>2. Ranked(n, Table, r) /\ NoneAt(n, Table, Lifted)
  BY <1>1, WholeNone DEF Whole, Seen
<1>3. PICK r2 : Stayed(n, Table, t, r2) /\ DemoteOrder(n, vehs, r, r2, i)
  BY <1>1, <1>2, VehDemoteIs
<1>4. Set(t) /\ Keep
  BY DEF Demote
<1>. HIDE DEF t
<1>5. /\ t.vehs \in Arrays(n) /\ Linked(n, t.vehs, r2) /\ Same(n, vehs, t.vehs)
      /\ \A j \in 1 .. n : t.vehs[j].unit = vehs[j].unit /\ t.vehs[j].at = vehs[j].at /\ r2[j] \in Nat
  BY <1>1, <1>3, TableFields, RanksAreNumbers DEF Stayed, Ranked, Same
<1>6. /\ Keeps /\ HandleOf(vehs', handles') = HandleOf(vehs, handles)
      /\ vehs' = t.vehs /\ nextHandle' = nextHandle /\ multiplayer' = multiplayer
  BY <1>4, <1>5, KeptNames
<1>7. Boarding(t.vehs) = Boarding(vehs)
  BY <1>1, <1>5, SameBoarding
<1>8. TileOf(t.vehs) = T /\ IsUnder(n, vehs, r2, UnitsUnder(t.vehs))
  <2>1. Distinct(n, t.vehs)
    BY <1>1, <1>5, SameUnits
  <2>2. IsUnder(n, t.vehs, r2, UnitsUnder(t.vehs))
    BY <1>1, <1>5, <2>1, TheViews
  <2>. QED  BY <1>1, <1>5, <2>2, SamePlaces
<1>. HIDE DEF T, U
<1>9. ASSUME NEW j \in 1 .. n, NEW k \in 1 .. n
      PROVE  vehs[k].unit \in D[vehs[j].unit] <=> Over(vehs, r2, j, k)
  <2>. DEFINE y == vehs[j].unit
              x == vehs[k].unit
  <2>0. /\ y \in Units /\ (y = u <=> j = i) /\ (x = u <=> k = i)
        /\ T[y] = vehs[j].at /\ T[u] = vehs[i].at
    BY <1>1 DEF Distinct
  <2>1. x \in U[y] <=> Over(vehs, r, j, k)
    BY <1>1 DEF IsUnder
  <2>2. /\ \A l \in 1 .. n : l # i /\ vehs[l].at = vehs[i].at => r2[l] < r2[i]
        /\ \A l, m \in 1 .. n : l # i /\ m # i => (r2[l] < r2[m] <=> r[l] < r[m])
        /\ r2[i] \in Nat /\ r2[j] \in Nat /\ r2[k] \in Nat
    BY <1>3, <1>5 DEF DemoteOrder
  <2>3. CASE j = i
    <3>1. x \notin D[y]
      BY <2>0, <2>3
    <3>2. ~ Over(vehs, r2, j, k)
      BY <2>2, <2>3 DEF Over
    <3>. QED  BY <3>1, <3>2
  <2>4. CASE j # i /\ k = i
    <3>1. D[y] = IF vehs[j].at = vehs[i].at THEN U[y] \cup {u} ELSE U[y]
      BY <2>0, <2>4
    <3>2. vehs[j].at # vehs[k].at => x \notin U[y]
      BY <2>1 DEF Over
    <3>3. vehs[j].at = vehs[k].at => r2[j] < r2[k]
      BY <2>2, <2>4
    <3>. QED  BY <2>0, <2>4, <3>1, <3>2, <3>3 DEF Over
  <2>5. CASE j # i /\ k # i
    <3>1. x \in D[y] <=> x \in U[y]
      BY <2>0, <2>5
    <3>2. r2[j] < r2[k] <=> r[j] < r[k]
      BY <2>2, <2>5
    <3>. QED  BY <2>1, <3>1, <3>2 DEF Over
  <2>. QED  BY <2>3, <2>4, <2>5
<1>10. ASSUME NEW x \in Units
       PROVE  D[x] \subseteq Living(vehs) /\ (x \notin Living(vehs) => D[x] = {})
  <2>1. U[x] \subseteq Living(vehs) /\ (x \notin Living(vehs) => U[x] = {} /\ T[x] = Cleared)
    BY <1>1 DEF IsUnder, IsTile
  <2>2. T[u] # Cleared /\ u \in Living(vehs)
    BY <1>1
  <2>. QED  BY <2>1, <2>2
<1>11. IsUnder(n, vehs, r2, D)
  <2>1. D = [x \in Units |-> D[x]]
    OBVIOUS
  <2>. HIDE DEF D
  <2>. QED  BY <1>9, <1>10, <2>1 DEF IsUnder
<1>. HIDE DEF D
<1>12. UnitsUnder(t.vehs) = D
  BY <1>1, <1>8, <1>11, OneView
<1>13. u \in Abstract!Alive
  BY AliveIs
<1>14. UnitsUnder(vehs') = D /\ TileOf(vehs') = TileOf(vehs) /\ Boarding(vehs') = Boarding(vehs)
  BY <1>6, <1>7, <1>8, <1>12 DEF T
<1>. HIDE DEF u
<1>15. Abstract!Demote(u)
  BY <1>6, <1>13, <1>14 DEF Abstract!Demote, D, T, U
<1>. QED  BY <1>6, <1>15 DEF u

\* A table whose units stay in the order stack_fix has left.
LEMMA Restacks ==
    ASSUME NEW n, NEW r, Seen(n, r), NEW v \in 1 .. n, NEW rf, Refixed(n, Table, r, v, rf),
           NEW ws \in Arrays(n), Linked(n, ws, rf),
           \A j \in 1 .. n : ws[j].unit = vehs[j].unit /\ ws[j].at = vehs[j].at,
           NEW p, p = vehs[v].at
    PROVE  /\ TileOf(ws) = TileOf(vehs)
           /\ \E b \in Abstract!Stacks(p) : UnitsUnder(ws) = Abstract!Restacked(p, b)
<1>1. n \in Nat /\ vehs \in Arrays(n) /\ Distinct(n, vehs)
  BY SeenFields
<1>2. Distinct(n, ws)
  BY <1>1, SameUnits
<1>3. IsUnder(n, ws, rf, UnitsUnder(ws))
  BY <1>1, <1>2, TheViews
<1>4. TileOf(ws) = TileOf(vehs) /\ IsUnder(n, vehs, rf, UnitsUnder(ws))
  BY <1>1, <1>3, SamePlaces
<1>5. PICK b \in Abstract!Stacks(p) : IsUnder(n, vehs, rf, Abstract!Restacked(p, b))
  BY FixedStack
<1>6. UnitsUnder(ws) = Abstract!Restacked(p, b)
  BY <1>1, <1>4, <1>5, OneView
<1>. QED  BY <1>4, <1>6

LEMMA FixMaps ==
    ASSUME NEW n, NEW r, Seen(n, r), NEW p \in Tiles, Fix(p)
    PROVE  (Abstract!Rearrange(p) /\ Keeps) \/ tableVars' = tableVars
<1>. DEFINE i == VehAt(Table, p)
            t == StackFix(Table, i)
<1>1. /\ n \in Nat /\ Table.vehs = vehs /\ vehs \in Arrays(n) /\ Distinct(n, vehs)
      /\ Ranked(n, Table, r) /\ \A j \in 1 .. n : vehs[j].at \in Tiles
  BY SeenFields DEF Seen
<1>2. NoneAt(n, Table, Lifted) /\ NoneAt(n, Table, Sorting)
  BY <1>1, WholeNone DEF Whole
<1>3. i \in 0 .. n /\ (i # 0 => vehs[i].at = p)
  BY <1>1, VehAtIs
<1>4. Set(t) /\ Keep
  BY DEF Fix
<1>. HIDE DEF i
<1>5. /\ \E rf : /\ Stayed(n, Table, t, rf) /\ KeepsOrder(n, r, rf, Beside(n, Table, i))
                 /\ ~ multiplayer => rf = r
      /\ i = 0 => t = Table
  BY <1>1, <1>2, <1>3, StackFixIs
<1>. HIDE DEF t
<1>6. CASE i = 0
  <2>1. vehs' = vehs /\ inTile' = inTile /\ handles' = handles
    BY <1>4, <1>5, <1>6 DEF Set, Keep, Table
  <2>. QED  BY <2>1 DEF tableVars
<1>7. CASE i # 0
  <2>1. PICK rf : /\ Stayed(n, Table, t, rf) /\ KeepsOrder(n, r, rf, Beside(n, Table, i))
                  /\ ~ multiplayer => rf = r
    BY <1>5
  <2>2. Refixed(n, Table, r, i, rf) /\ i \in 1 .. n
    BY <1>1, <1>3, <1>7, <2>1 DEF Refixed
  <2>3. /\ t.vehs \in Arrays(n) /\ Linked(n, t.vehs, rf) /\ Same(n, vehs, t.vehs)
        /\ \A j \in 1 .. n : t.vehs[j].unit = vehs[j].unit /\ t.vehs[j].at = vehs[j].at
    BY <1>1, <2>1, TableFields DEF Stayed, Ranked, Same
  <2>4. /\ TileOf(t.vehs) = TileOf(vehs)
        /\ \E b \in Abstract!Stacks(p) : UnitsUnder(t.vehs) = Abstract!Restacked(p, b)
    BY <1>3, <1>7, <2>2, <2>3, Restacks
  <2>5. Boarding(t.vehs) = Boarding(vehs)
    BY <1>1, <2>3, SameBoarding
  <2>6. /\ Keeps /\ HandleOf(vehs', handles') = HandleOf(vehs, handles)
        /\ vehs' = t.vehs /\ nextHandle' = nextHandle /\ multiplayer' = multiplayer
    BY <1>4, <2>3, KeptNames
  <2>7. /\ TileOf(vehs') = TileOf(vehs) /\ Boarding(vehs') = Boarding(vehs)
        /\ \E b \in Abstract!Stacks(p) : UnitsUnder(vehs') = Abstract!Restacked(p, b)
    BY <2>4, <2>5, <2>6
  <2>. QED  BY <2>6, <2>7 DEF Abstract!Rearrange
<1>. QED  BY <1>6, <1>7

\* One unit gets another order.
LEMMA StepEmbark ==
    ASSUME NEW n, NEW r, Seen(n, r), NEW i \in 1 .. n, NEW o \in {"none", "board"}, NEW v \in 0 .. n,
           vehs' = RowOrders(vehs, i, o, v), inTile' = inTile, Keep,
           NEW x, x = IF o = "board" THEN UnitIn(vehs, v) ELSE NoUnit,
           x = NoUnit \/ x \in Transports \cap Abstract!On(vehs[i].at)
    PROVE  Abstract!Embark(vehs[i].unit, x) /\ Keeps
<1>. DEFINE ws == RowOrders(vehs, i, o, v)
            t == [vehs |-> ws, inTile |-> inTile]
            u == vehs[i].unit
            A == Boarding(vehs)
            B == [A EXCEPT ![u] = x]
<1>1. /\ n \in Nat /\ Table.vehs = vehs /\ vehs \in Arrays(n) /\ Distinct(n, vehs)
      /\ Ranked(n, Table, r) /\ IsUnder(n, vehs, r, UnitsUnder(vehs))
      /\ \A j \in 1 .. n : vehs[j].unit \in Units /\ vehs[j].unit \in Living(vehs)
  BY SeenFields DEF Seen
<1>2. IsRowOrders(n, vehs, ws) /\ IsRowOrder(n, vehs, i, o, v, ws)
  BY <1>1, RowOrdersIs
<1>. HIDE DEF ws
<1>3. Ranked(n, t, r)
  <2>1. IsOrdered(n, Table, r, [vehs |-> ws, inTile |-> Table.inTile])
    BY <1>1, <1>2, OrdersKeepLists
  <2>2. Table.inTile = inTile
    BY DEF Table
  <2>. QED  BY <2>1, <2>2 DEF IsOrdered
<1>4. /\ ws \in Arrays(n) /\ Linked(n, ws, r)
      /\ \A j \in 1 .. n : /\ ws[j].unit = vehs[j].unit /\ ws[j].at = vehs[j].at
                           /\ ws[j].order = IF j = i THEN o ELSE vehs[j].order
                           /\ ws[j].on = IF j = i THEN v ELSE vehs[j].on
  BY <1>2, <1>3 DEF IsRowOrders, IsRowOrder, Ranked
<1>5. Set(t) /\ t.vehs = ws
  BY DEF Set, ws
<1>. HIDE DEF t
<1>6. /\ Keeps /\ HandleOf(vehs', handles') = HandleOf(vehs, handles)
      /\ vehs' = ws /\ nextHandle' = nextHandle /\ multiplayer' = multiplayer
  <2>1. t.vehs \in Arrays(n) /\ \A j \in 1 .. n : t.vehs[j].unit = vehs[j].unit
    BY <1>4, <1>5
  <2>. QED  BY <1>5, <2>1, KeptNames
<1>7. Distinct(n, ws) /\ Living(ws) = Living(vehs)
  BY <1>1, <1>4, SameUnits
<1>8. TileOf(ws) = TileOf(vehs) /\ UnitsUnder(ws) = UnitsUnder(vehs)
  <2>1. IsUnder(n, ws, r, UnitsUnder(ws))
    BY <1>1, <1>4, <1>7, TheViews
  <2>2. TileOf(ws) = TileOf(vehs) /\ IsUnder(n, vehs, r, UnitsUnder(ws))
    BY <1>1, <1>4, <2>1, SamePlaces
  <2>. QED  BY <1>1, <2>2, OneView
<1>9. IsBoarding(n, vehs, A) /\ IsBoarding(n, ws, Boarding(ws))
  BY <1>1, <1>4, <1>7, TheViews
<1>. HIDE DEF A
<1>10. ASSUME NEW j \in 1 .. n
       PROVE  Aboard(ws, j) = B[ws[j].unit]
  <2>1. \A k \in 0 .. n : UnitIn(ws, k) = UnitIn(vehs, k)
    BY <1>4 DEF UnitIn
  <2>2. vehs[j].on \in 0 .. n
    BY <1>1, VehFields
  <2>3. CASE j = i
    <3>1. Aboard(ws, j) = x
      BY <1>4, <2>1, <2>3 DEF Aboard
    <3>2. B[ws[j].unit] = x
      BY <1>1, <1>4, <1>9, <2>3 DEF IsBoarding
    <3>. QED  BY <3>1, <3>2
  <2>4. CASE j # i
    <3>1. vehs[j].unit # u
      BY <1>1, <2>4 DEF Distinct
    <3>2. B[ws[j].unit] = A[vehs[j].unit]
      BY <1>1, <1>4, <1>9, <3>1 DEF IsBoarding
    <3>3. Aboard(ws, j) = Aboard(vehs, j)
      BY <1>4, <2>1, <2>2, <2>4 DEF Aboard
    <3>. QED  BY <1>9, <3>2, <3>3 DEF IsBoarding
  <2>. QED  BY <2>3, <2>4
<1>11. IsBoarding(n, ws, B)
  <2>1. A = [y \in Units |-> A[y]]
    BY <1>9 DEF IsBoarding
  <2>2. B = [y \in Units |-> B[y]]
    BY <2>1
  <2>3. \A y \in Units \ Living(ws) : B[y] = NoUnit
    <3>1. u \in Living(vehs)
      BY <1>1
    <3>. QED  BY <1>7, <1>9, <2>1, <3>1 DEF IsBoarding
  <2>. HIDE DEF B
  <2>. QED  BY <1>10, <2>2, <2>3 DEF IsBoarding
<1>. HIDE DEF B
<1>12. Boarding(ws) = B
  BY <1>1, <1>4, <1>9, <1>11, OneView
<1>13. u \in Abstract!Alive /\ Abstract!On(TileOf(vehs)[u]) = Abstract!On(vehs[i].at)
  BY AliveIs
<1>14. TileOf(vehs') = TileOf(vehs) /\ UnitsUnder(vehs') = UnitsUnder(vehs) /\ Boarding(vehs') = B
  BY <1>6, <1>8, <1>12
<1>15. x = NoUnit \/ x \in Transports \cap Abstract!On(TileOf(vehs)[u])
  BY <1>13
<1>. HIDE DEF u
<1>16. Abstract!Embark(u, x)
  BY <1>6, <1>13, <1>14, <1>15 DEF Abstract!Embark, B, A
<1>. QED  BY <1>6, <1>16 DEF u

LEMMA SleepMaps ==
    ASSUME NEW n, NEW r, Seen(n, r), NEW i \in 1 .. n, Sleep(i) \/ Wake(i)
    PROVE  Abstract!Embark(vehs[i].unit, NoUnit) /\ Keeps
<1>1. 0 \in 0 .. n
  BY SeenFields
<1>2. CASE Sleep(i)
  <2>1. vehs' = RowOrders(vehs, i, "board", 0) /\ inTile' = inTile /\ Keep
    BY <1>2 DEF Sleep, RowOrders
  <2>2. NoUnit = IF "board" = "board" THEN UnitIn(vehs, 0) ELSE NoUnit
    BY DEF UnitIn
  <2>. QED  BY <1>1, <2>1, <2>2, StepEmbark
<1>3. CASE Wake(i)
  <2>1. vehs' = RowOrders(vehs, i, "none", 0) /\ inTile' = inTile /\ Keep
    BY <1>3 DEF Wake, RowOrders
  <2>2. NoUnit = IF "none" = "board" THEN UnitIn(vehs, 0) ELSE NoUnit
    OBVIOUS
  <2>. QED  BY <1>1, <2>1, <2>2, StepEmbark
<1>. QED  BY <1>2, <1>3

LEMMA BoardToMaps ==
    ASSUME NEW n, NEW r, Seen(n, r), NEW i \in 1 .. n, NEW v \in 1 .. n, BoardTo(i, v)
    PROVE  Abstract!Embark(vehs[i].unit, vehs[v].unit) /\ Keeps
<1>. DEFINE x == vehs[v].unit
<1>1. n \in Nat /\ vehs \in Arrays(n) /\ vehs[v].at = vehs[i].at /\ vehs[v].at # Cleared
  BY SeenFields DEF BoardTo
<1>2. vehs' = RowOrders(vehs, i, "board", v) /\ inTile' = inTile /\ Keep
  BY DEF BoardTo, RowOrders
<1>3. x = IF "board" = "board" THEN UnitIn(vehs, v) ELSE NoUnit
  BY <1>1 DEF UnitIn
<1>4. x \in Transports
  <2>1. DOMAIN vehs = 1 .. n
    BY <1>1, VehFields
  <2>2. v \in Carriers(vehs)
    BY <2>1 DEF BoardTo, Carriers
  <2>. QED  BY <1>1, <2>2, CarrierUnits
<1>5. x \in Abstract!On(vehs[i].at)
  BY <1>1, OnIs
<1>6. v \in 0 .. n
  OBVIOUS
<1>. HIDE DEF x
<1>7. Abstract!Embark(vehs[i].unit, x) /\ Keeps
  BY <1>2, <1>3, <1>4, <1>5, <1>6, StepEmbark
<1>. QED  BY <1>7 DEF x

\* Those a transport has loaded are as many as it takes, of its stack.
LEMMA TakenIs ==
    ASSUME NEW n, NEW r, Seen(n, r), NEW v \in 1 .. n,
           NEW M \in SUBSET (Beside(n, Table, v) \ Carriers(vehs)), Cardinality(M) <= Capacity
    PROVE  /\ UnitsOf(vehs, M) \in Abstract!Taken(vehs[v].unit)
           /\ M \in SUBSET (1 .. n)
<1>. DEFINE p == vehs[v].at
            S == UnitsOf(vehs, M)
<1>1. n \in Nat /\ Table.vehs = vehs /\ vehs \in Arrays(n) /\ Distinct(n, vehs) /\ p # Cleared
  BY SeenFields
<1>2. v # 0 /\ Beside(n, Table, v) = {j \in 1 .. n : vehs[j].at = p}
  BY <1>1 DEF Beside
<1>3. M \in SUBSET (1 .. n) /\ \A j \in M : j \in 1 .. n /\ vehs[j].at = p /\ j \notin Carriers(vehs)
  BY <1>2
<1>4. IsFiniteSet(M)
  <2>1. IsFiniteSet(1 .. n)
    BY <1>1, FS_Interval
  <2>. QED  BY <1>3, <2>1, FS_Subset
<1>5. Cardinality(S) <= Cardinality(M) /\ S \subseteq Units
  BY <1>1, <1>3, <1>4, UnitsOfIs
<1>6. IsFiniteSet(S)
  <2>. DEFINE f == [j \in M |-> vehs[j].unit]
  <2>1. f \in Surjection(M, S)
    BY DEF Surjection, UnitsOf
  <2>. HIDE DEF f
  <2>. QED  BY <1>4, <2>1, FS_Surjection
<1>7. Cardinality(S) <= Capacity
  <2>1. Cardinality(S) \in Nat /\ Cardinality(M) \in Nat /\ Capacity \in Nat
    BY <1>4, <1>6, FS_CardinalityType, UnitBounds
  <2>. QED  BY <1>5, <2>1
<1>8. \A j \in M : vehs[j].unit \in Abstract!On(p) \ Transports
  <2>. TAKE j \in M
  <2>1. vehs[j].unit \in Abstract!On(p)
    BY <1>1, <1>3, OnIs
  <2>2. vehs[j].unit \notin Transports
    BY <1>1, <1>3, CarrierUnits
  <2>. QED  BY <2>1, <2>2
<1>9. S \subseteq Abstract!On(p) \ Transports
  BY <1>8 DEF UnitsOf
<1>10. TileOf(vehs)[vehs[v].unit] = p
  BY AliveIs
<1>. HIDE DEF S, p
<1>11. S \in Abstract!Taken(vehs[v].unit)
  <2>1. Abstract!Cardinality(S) = Cardinality(S)
    BY DEF Abstract!Cardinality, Cardinality
  <2>. QED  BY <1>7, <1>9, <1>10, <2>1 DEF Abstract!Taken
<1>. QED  BY <1>3, <1>11 DEF S

\* They are aboard it.
LEMMA BoardedIs ==
    ASSUME NEW n, NEW r, Seen(n, r), NEW v \in 1 .. n, NEW M \in SUBSET (1 .. n),
           NEW ws \in Arrays(n),
           \A j \in 1 .. n : /\ ws[j].unit = vehs[j].unit
                             /\ ws[j].order = IF j \in M THEN "board" ELSE vehs[j].order
                             /\ ws[j].on = IF j \in M THEN v ELSE vehs[j].on
    PROVE  Boarding(ws) = Abstract!Boarded(vehs[v].unit, UnitsOf(vehs, M))
<1>. DEFINE A == Boarding(vehs)
            S == UnitsOf(vehs, M)
            B == [u \in Units |-> IF u \in S THEN vehs[v].unit ELSE A[u]]
<1>1. /\ n \in Nat /\ vehs \in Arrays(n) /\ Distinct(n, vehs)
      /\ \A j \in 1 .. n : vehs[j].unit \in Units /\ vehs[j].unit \in Living(vehs)
  BY SeenFields
<1>2. Distinct(n, ws) /\ Living(ws) = Living(vehs)
  BY <1>1, SameUnits
<1>3. IsBoarding(n, vehs, A) /\ IsBoarding(n, ws, Boarding(ws))
  BY <1>1, <1>2, TheViews
<1>4. /\ \A j \in 1 .. n : vehs[j].unit \in S <=> j \in M
      /\ S \subseteq Living(vehs)
  <2>1. \A j \in 1 .. n : vehs[j].unit \in S <=> j \in M
    BY <1>1, UnitsOfIs
  <2>2. S \subseteq Living(vehs)
    BY <1>1 DEF UnitsOf
  <2>. QED  BY <2>1, <2>2
<1>. HIDE DEF A, S
<1>5. ASSUME NEW j \in 1 .. n
      PROVE  Aboard(ws, j) = B[ws[j].unit]
  <2>1. \A k \in 0 .. n : UnitIn(ws, k) = UnitIn(vehs, k)
    BY DEF UnitIn
  <2>2. vehs[j].on \in 0 .. n
    BY <1>1, VehFields
  <2>3. B[ws[j].unit] = IF j \in M THEN vehs[v].unit ELSE A[vehs[j].unit]
    BY <1>1, <1>4
  <2>4. CASE j \in M
    <3>1. UnitIn(ws, v) = vehs[v].unit
      BY <1>1 DEF UnitIn
    <3>. QED  BY <2>3, <2>4, <3>1 DEF Aboard
  <2>5. CASE j \notin M
    <3>1. Aboard(ws, j) = Aboard(vehs, j)
      BY <2>1, <2>2, <2>5 DEF Aboard
    <3>. QED  BY <1>3, <2>3, <2>5, <3>1 DEF IsBoarding
  <2>. QED  BY <2>4, <2>5
<1>6. IsBoarding(n, ws, B)
  <2>1. B = [u \in Units |-> B[u]]
    OBVIOUS
  <2>2. \A u \in Units \ Living(ws) : B[u] = NoUnit
    BY <1>2, <1>3, <1>4 DEF IsBoarding
  <2>. HIDE DEF B
  <2>. QED  BY <1>5, <2>1, <2>2 DEF IsBoarding
<1>. HIDE DEF B
<1>7. Boarding(ws) = B
  BY <1>1, <1>3, <1>6, OneView
<1>. QED  BY <1>7 DEF B, A, S, Abstract!Boarded

LEMMA LoadMaps ==
    ASSUME NEW n, NEW r, Seen(n, r), NEW i \in 1 .. n, Load(i)
    PROVE  Abstract!Board(vehs[i].unit) /\ Keeps
<1>. DEFINE u == vehs[i].unit
            p == vehs[i].at
<1>1. /\ n \in Nat /\ Table.vehs = vehs /\ vehs \in Arrays(n) /\ Distinct(n, vehs)
      /\ Ranked(n, Table, r) /\ \A j \in 1 .. n : vehs[j].at \in Tiles
  BY SeenFields DEF Seen
<1>2. NoneAt(n, Table, Lifted) /\ NoneAt(n, Table, Sorting) /\ 0 \in Nat
  BY <1>1, WholeNone DEF Whole
<1>3. i \in Carriers(vehs) /\ u \in Transports
  <2>1. i \in Carriers(vehs)
    BY <1>1, VehFields DEF Load, Carriers
  <2>. QED  BY <1>1, <2>1, CarrierUnits
<1>4. PICK owner : Set(StackVeh(Table, i, 0, owner)) /\ Keep
  BY DEF Load
<1>. DEFINE t == StackVeh(Table, i, 0, owner)
<1>5. PICK M : TakesAlong(n, Table, r, i, 0, M, t)
  BY <1>1, <1>2, <1>3, StackVehIs
<1>6. Set(t) /\ Keep
  BY <1>4
<1>. HIDE DEF t
<1>7. /\ M \in SUBSET (Beside(n, Table, i) \ Carriers(vehs)) /\ Cardinality(M) <= Capacity
      /\ \A j \in 1 .. n :
           /\ t.vehs[j].unit = vehs[j].unit /\ t.vehs[j].at = vehs[j].at
           /\ t.vehs[j].order = IF j \in M THEN "board" ELSE vehs[j].order
           /\ t.vehs[j].on = IF j \in M THEN i ELSE vehs[j].on
      /\ \E rf : Refixed(n, Table, r, i, rf) /\ Ranked(n, t, rf)
  BY <1>1, <1>5 DEF TakesAlong, Resorted
<1>8. PICK rf : Refixed(n, Table, r, i, rf) /\ Ranked(n, t, rf)
  BY <1>7
<1>9. t.vehs \in Arrays(n) /\ Linked(n, t.vehs, rf)
  BY <1>1, <1>8, TableFields DEF Ranked
<1>. DEFINE S == UnitsOf(vehs, M)
<1>10. S \in Abstract!Taken(u) /\ M \in SUBSET (1 .. n)
  BY <1>7, TakenIs
<1>11. Boarding(t.vehs) = Abstract!Boarded(u, S)
  BY <1>7, <1>9, <1>10, BoardedIs
<1>12. /\ TileOf(t.vehs) = TileOf(vehs)
       /\ \E b \in Abstract!Stacks(p) : UnitsUnder(t.vehs) = Abstract!Restacked(p, b)
  BY <1>7, <1>8, <1>9, Restacks
<1>13. /\ Keeps /\ HandleOf(vehs', handles') = HandleOf(vehs, handles)
       /\ vehs' = t.vehs /\ nextHandle' = nextHandle /\ multiplayer' = multiplayer
  BY <1>6, <1>7, <1>9, KeptNames
<1>14. u \in Abstract!Alive /\ TileOf(vehs)[u] = p
  BY AliveIs
<1>15. /\ TileOf(vehs') = TileOf(vehs) /\ Boarding(vehs') = Abstract!Boarded(u, S)
       /\ \E b \in Abstract!Stacks(TileOf(vehs)[u]) : UnitsUnder(vehs') = Abstract!Restacked(TileOf(vehs)[u], b)
  BY <1>11, <1>12, <1>13, <1>14
<1>. HIDE DEF u, S, p
<1>16. Abstract!Board(u)
  BY <1>3, <1>10, <1>13, <1>14, <1>15 DEF Abstract!Board
<1>. QED  BY <1>13, <1>16 DEF u

\* The order in which those a transport takes along have left the others.
LEMMA SortedRest ==
    ASSUME NEW n, NEW r, Seen(n, r), NEW v \in 1 .. n, NEW rf, Refixed(n, Table, r, v, rf),
           NEW flag, flag > 0, NEW rg, Resorted(n, Table, v, flag, rf, rg)
    PROVE  /\ \E rest \in Abstract!Sorted(vehs[v].at) : IsUnder(n, vehs, rg, rest)
           /\ \A j \in 1 .. n : rg[j] \in Nat
<1>. DEFINE p == vehs[v].at
<1>1. PICK b \in Abstract!Stacks(p) : /\ IsUnder(n, vehs, rf, Abstract!Restacked(p, b))
                                      /\ b \in [Abstract!On(p) -> SUBSET Abstract!On(p)]
  BY FixedStack
<1>2. Table.vehs = vehs /\ SortOrder(n, rf, rg, Carriers(vehs) \cap Beside(n, Table, v))
  BY SeenFields DEF Resorted
<1>3. \A j \in 1 .. n : rf[j] \in Nat /\ rg[j] \in Nat
  <2>1. (\E f : Ranked(n, f, rf)) /\ (\E g : Ranked(n, g, rg)) /\ n \in Nat
    BY SeenFields DEF Refixed, Resorted, Stayed
  <2>. QED  BY <2>1, RanksAreNumbers
<1>4. IsUnder(n, vehs, rg, Abstract!Restacked(p, Abstract!CarriersFirst(b)))
  BY <1>1, <1>2, <1>3, SortedStack
<1>5. Abstract!Restacked(p, Abstract!CarriersFirst(b)) \in Abstract!Sorted(p)
  BY <1>1 DEF Abstract!Sorted
<1>. QED  BY <1>3, <1>4, <1>5

LEMMA KeepsOrderTwice ==
    ASSUME NEW n, NEW r, NEW r1, NEW r2, NEW M, KeepsOrder(n, r, r1, M), PutOrder(n, r1, r2, M)
    PROVE  KeepsOrder(n, r, r2, M)
BY DEF KeepsOrder, PutOrder

LEMMA MoveMaps ==
    ASSUME NEW n, NEW r, Seen(n, r), NEW i \in 1 .. n, NEW p \in Tiles, Move(i, p)
    PROVE  Abstract!Travel(vehs[i].unit, p) /\ Keeps
<1>. DEFINE u == vehs[i].unit
            q == vehs[i].at
<1>1. /\ n \in Nat /\ Table.vehs = vehs /\ vehs \in Arrays(n) /\ Distinct(n, vehs)
      /\ Ranked(n, Table, r) /\ \A j \in 1 .. n : vehs[j].at \in Tiles
  BY SeenFields DEF Seen
<1>2. NoneAt(n, Table, Lifted) /\ NoneAt(n, Table, Sorting) /\ NoneAt(n, Table, Loading) /\ 1 \in Nat /\ 1 > 0
  BY <1>1, WholeNone DEF Whole
<1>3. i \in Carriers(vehs) /\ u \in Transports
  <2>1. i \in Carriers(vehs)
    BY <1>1, VehFields DEF Move, Carriers
  <2>. QED  BY <1>1, <2>1, CarrierUnits
<1>4. PICK owner : Set(StackPut(StackVeh(Table, i, 1, owner), i, p)) /\ Keep
  BY DEF Move
<1>. DEFINE t == StackVeh(Table, i, 1, owner)
            x == StackPut(t, i, p)
<1>5. PICK M : TakesAlong(n, Table, r, i, 1, M, t)
  BY <1>1, <1>2, <1>3, StackVehIs
<1>6. Set(x) /\ Keep
  BY <1>4
<1>. HIDE DEF t
<1>. DEFINE N == M \cup {i}
<1>7. /\ M \in SUBSET (Beside(n, Table, i) \ Carriers(vehs)) /\ Cardinality(M) <= Capacity
      /\ NoneAt(n, t, Lifted)
      /\ \A j \in 1 .. n :
           /\ t.vehs[j].unit = vehs[j].unit /\ t.vehs[j].at = IF j \in N THEN Loading ELSE vehs[j].at
           /\ t.vehs[j].order = IF j \in M THEN "board" ELSE vehs[j].order
           /\ t.vehs[j].on = IF j \in M THEN i ELSE vehs[j].on
      /\ \E rf, rg, r2 : /\ Refixed(n, Table, r, i, rf) /\ Resorted(n, Table, i, 1, rf, rg)
                         /\ Ranked(n, t, r2) /\ KeepsOrder(n, rg, r2, N)
  BY <1>1, <1>2, <1>5 DEF TakesAlong
<1>8. PICK rf, rg, r2 : /\ Refixed(n, Table, r, i, rf) /\ Resorted(n, Table, i, 1, rf, rg)
                        /\ Ranked(n, t, r2) /\ KeepsOrder(n, rg, r2, N)
  BY <1>7
<1>. DEFINE S == UnitsOf(vehs, M)
<1>9. S \in Abstract!Taken(u) /\ M \in SUBSET (1 .. n) /\ N \in SUBSET (1 .. n)
  BY <1>7, TakenIs
<1>10. PICK r3 : MovesTo(n, t, r2, Beside(n, t, i), p, x, r3)
  <2>1. i \in 0 .. n
    OBVIOUS
  <2>. QED  BY <1>1, <1>7, <1>8, <2>1, TilesArePlaces, StackPutIs
<1>. HIDE DEF x
<1>11. Beside(n, t, i) = N
  <2>1. i # 0 /\ t.vehs[i].at = Loading
    BY <1>7
  <2>2. \A j \in 1 .. n : vehs[j].at # Loading
    BY <1>1, <1>2 DEF NoneAt
  <2>. QED  BY <1>7, <1>9, <2>1, <2>2 DEF Beside
<1>. HIDE DEF N
<1>12. /\ Ranked(n, x, r3) /\ PutOrder(n, r2, r3, N)
       /\ x.vehs \in Arrays(n)
       /\ \A j \in 1 .. n :
            /\ x.vehs[j].unit = vehs[j].unit /\ x.vehs[j].at = IF j \in N THEN p ELSE vehs[j].at
            /\ x.vehs[j].order = IF j \in M THEN "board" ELSE vehs[j].order
            /\ x.vehs[j].on = IF j \in M THEN i ELSE vehs[j].on
  <2>1. Ranked(n, x, r3) /\ PutOrder(n, r2, r3, N) /\ x.vehs \in Arrays(n)
    BY <1>1, <1>10, <1>11, TableFields DEF MovesTo, Ranked
  <2>2. \A j \in 1 .. n : x.vehs[j].at = IF j \in N THEN p ELSE t.vehs[j].at
    BY <1>10, <1>11 DEF MovesTo
  <2>3. \A j \in 1 .. n : x.vehs[j].unit = t.vehs[j].unit /\ x.vehs[j].order = t.vehs[j].order /\ x.vehs[j].on = t.vehs[j].on
    BY <1>10 DEF MovesTo, Same
  <2>. QED  BY <1>7, <2>1, <2>2, <2>3
<1>13. /\ \A j \in 1 .. n : rg[j] \in Nat
       /\ \E rest \in Abstract!Sorted(q) : IsUnder(n, vehs, rg, rest)
  BY <1>2, <1>8, SortedRest
<1>14. PICK rest \in Abstract!Sorted(q) : IsUnder(n, vehs, rg, rest)
  BY <1>13
<1>15. Leaves(n, vehs, x, rg, r3, N, p)
  <2>1. KeepsOrder(n, rg, r3, N)
    BY <1>8, <1>12, KeepsOrderTwice
  <2>2. \A j \in N : \A k \in 1 .. n : k \notin N => r3[j] < r3[k]
    BY <1>9, <1>12 DEF PutOrder
  <2>. QED  BY <1>12, <2>1, <2>2 DEF Leaves
<1>. DEFINE R == S \cup {u}
<1>16. R = UnitsOf(vehs, N) /\ p # Cleared
  BY TilesArePlaces DEF UnitsOf, N
<1>17. Boarding(x.vehs) = Abstract!Boarded(u, S)
  BY <1>9, <1>12, BoardedIs
<1>. HIDE DEF R
<1>18. Departed(TileOf(vehs), rest, R, p, TileOf(x.vehs), UnitsUnder(x.vehs))
  BY <1>1, <1>9, <1>13, <1>14, <1>15, <1>16, LeavesIs
<1>19. /\ Keeps /\ HandleOf(vehs', handles') = HandleOf(vehs, handles)
       /\ vehs' = x.vehs /\ nextHandle' = nextHandle /\ multiplayer' = multiplayer
  BY <1>6, <1>12, KeptNames
<1>20. u \in Abstract!Alive /\ TileOf(vehs)[u] = q
  BY AliveIs
<1>21. /\ Departed(TileOf(vehs), rest, R, p, TileOf(vehs'), UnitsUnder(vehs'))
       /\ Boarding(vehs') = Abstract!Boarded(u, S)
  BY <1>17, <1>18, <1>19
<1>22. rest \in Abstract!Sorted(TileOf(vehs)[u])
  BY <1>14, <1>20
<1>. HIDE DEF u, S, q
<1>23. Abstract!Depart(S \cup {u}, rest, p)
  BY <1>21 DEF Abstract!Depart, Departed, Abstract!On, R
<1>24. Abstract!Travel(u, p)
  BY <1>3, <1>9, <1>19, <1>20, <1>21, <1>22, <1>23 DEF Abstract!Travel
<1>. QED  BY <1>19, <1>24 DEF u

\* Every row keeps its handle.
LEMMA EnsuredKeeps ==
    ASSUME NEW hs \in Seq(Nat), NEW n \in Nat, Len(hs) <= n, NEW k \in 1 .. n
    PROVE  Ensured(hs, n)[k] = IF k \in DOMAIN hs THEN hs[k] ELSE 0
<1>. DEFINE l == Len(hs)
            z == [i \in 1 .. n - l |-> 0]
<1>1. l \in Nat /\ DOMAIN hs = 1 .. l
  OBVIOUS
<1>2. Ensured(hs, n) = hs \o z
  <2>. DEFINE kept == IF Len(hs) > n THEN << >> ELSE hs
  <2>1. Ensured(hs, n) = kept \o [i \in 1 .. n - Len(kept) |-> 0]
    BY DEF Ensured
  <2>2. ~ (l > n)
    <3>. HIDE DEF l
    <3>1. l <= n
      BY DEF l
    <3>. QED  BY <1>1, <3>1
  <2>3. kept = hs
    BY <2>2
  <2>. HIDE DEF kept
  <2>. QED  BY <2>1, <2>3
<1>3. z \in Seq(Nat) /\ Len(z) = n - l
  BY <1>1
<1>4. \A i \in 1 .. n - l : z[i] = 0
  OBVIOUS
<1>. HIDE DEF z
<1>5. \A i \in 1 .. l + Len(z) : (hs \o z)[i] = IF i <= l THEN hs[i] ELSE z[i - l]
  BY <1>3
<1>. HIDE DEF l
<1>6. k \in 1 .. l + Len(z) /\ (k \in 1 .. l <=> k <= l) /\ (~ (k <= l) => k - l \in 1 .. n - l)
  BY <1>1, <1>3
<1>. QED  BY <1>1, <1>2, <1>4, <1>5, <1>6

\* What is left when the units of D have died: nobody is aboard them, and the others keep
\* their places, orders and handles.
Deaths(w, D, x) ==
  /\ Distinct(Len(x.vehs), x.vehs) /\ Len(x.handles) <= Len(x.vehs)
  /\ Living(x.vehs) \subseteq Living(w.vehs)
  /\ TileOf(x.vehs) = [u \in Units |-> IF u \in D THEN Cleared ELSE TileOf(w.vehs)[u]]
  /\ UnitsUnder(x.vehs) = [u \in Units |-> IF u \in D THEN {} ELSE UnitsUnder(w.vehs)[u] \ D]
  /\ Boarding(x.vehs) =
       [u \in Units |-> IF {u, Boarding(w.vehs)[u]} \cap D # {} THEN NoUnit ELSE Boarding(w.vehs)[u]]
  /\ HandleOf(x.vehs, x.handles) =
       [u \in Units |-> IF u \in D THEN 0 ELSE HandleOf(w.vehs, w.handles)[u]]

\* A world as the bridge keeps it.
Named(n, w) == w \in Worlds(n) /\ Distinct(n, w.vehs) /\ Len(w.handles) <= n

LEMMA NamedFields ==
    ASSUME NEW n \in Nat, NEW w, Named(n, w)
    PROVE  /\ w \in Worlds(n) /\ w.vehs \in Arrays(n) /\ w.handles \in Seq(Nat)
           /\ Distinct(n, w.vehs) /\ Len(w.handles) <= n /\ Len(w.vehs) = n
           /\ Tab(w).vehs = w.vehs
<1>1. w \in Worlds(n) /\ Distinct(n, w.vehs) /\ Len(w.handles) <= n /\ w.vehs \in Arrays(n) /\ w.handles \in Seq(Nat)
  BY DEF Named, Worlds
<1>2. Len(w.vehs) = n
  BY <1>1, VehFields
<1>3. Tab(w).vehs = w.vehs
  BY DEF Tab
<1>. QED  BY <1>1, <1>2, <1>3

LEMMA DeathsNone ==
    ASSUME NEW n \in Nat, NEW w, Named(n, w)
    PROVE  Deaths(w, {}, w)
<1>1. /\ w.vehs \in Arrays(n) /\ Distinct(n, w.vehs) /\ Len(w.vehs) = n /\ Len(w.handles) <= n
  BY NamedFields
<1>2. /\ TileOf(w.vehs) = [u \in Units |-> TileOf(w.vehs)[u]]
      /\ UnitsUnder(w.vehs) = [u \in Units |-> UnitsUnder(w.vehs)[u]]
      /\ Boarding(w.vehs) = [u \in Units |-> Boarding(w.vehs)[u]]
      /\ HandleOf(w.vehs, w.handles) = [u \in Units |-> HandleOf(w.vehs, w.handles)[u]]
  BY DEF TileOf, UnitsUnder, Boarding, HandleOf
<1>. DEFINE T == TileOf(w.vehs)
            U == UnitsUnder(w.vehs)
            A == Boarding(w.vehs)
            N == HandleOf(w.vehs, w.handles)
<1>. HIDE DEF T, U, A, N
<1>3. /\ T = [u \in Units |-> IF u \in {} THEN Cleared ELSE T[u]]
      /\ U = [u \in Units |-> IF u \in {} THEN {} ELSE U[u] \ {}]
      /\ A = [u \in Units |-> IF {u, A[u]} \cap {} # {} THEN NoUnit ELSE A[u]]
      /\ N = [u \in Units |-> IF u \in {} THEN 0 ELSE N[u]]
  BY <1>2 DEF T, U, A, N
<1>. QED  BY <1>1, <1>3 DEF Deaths, T, U, A, N

LEMMA DeathsTwice ==
    ASSUME NEW w, NEW D, NEW x, NEW E, NEW y, Deaths(w, D, x), Deaths(x, E, y)
    PROVE  Deaths(w, D \cup E, y)
<1>1. ASSUME NEW u \in Units
      PROVE  TileOf(y.vehs)[u] = IF u \in D \cup E THEN Cleared ELSE TileOf(w.vehs)[u]
  <2>1. /\ TileOf(x.vehs)[u] = IF u \in D THEN Cleared ELSE TileOf(w.vehs)[u]
        /\ TileOf(y.vehs)[u] = IF u \in E THEN Cleared ELSE TileOf(x.vehs)[u]
    BY DEF Deaths
  <2>. QED  BY <2>1
<1>2. ASSUME NEW u \in Units
      PROVE  UnitsUnder(y.vehs)[u] = IF u \in D \cup E THEN {} ELSE UnitsUnder(w.vehs)[u] \ (D \cup E)
  <2>. DEFINE a == UnitsUnder(w.vehs)[u]
              b == UnitsUnder(x.vehs)[u]
              c == UnitsUnder(y.vehs)[u]
  <2>1. /\ b = IF u \in D THEN {} ELSE a \ D
        /\ c = IF u \in E THEN {} ELSE b \ E
    BY DEF Deaths
  <2>. HIDE DEF a, b, c
  <2>2. c = IF u \in D \cup E THEN {} ELSE a \ (D \cup E)
    BY <2>1
  <2>. QED  BY <2>2 DEF a, c
<1>3. ASSUME NEW u \in Units
      PROVE  HandleOf(y.vehs, y.handles)[u] = IF u \in D \cup E THEN 0 ELSE HandleOf(w.vehs, w.handles)[u]
  <2>1. /\ HandleOf(x.vehs, x.handles)[u] = IF u \in D THEN 0 ELSE HandleOf(w.vehs, w.handles)[u]
        /\ HandleOf(y.vehs, y.handles)[u] = IF u \in E THEN 0 ELSE HandleOf(x.vehs, x.handles)[u]
    BY DEF Deaths
  <2>. QED  BY <2>1
<1>4. ASSUME NEW u \in Units
      PROVE  Boarding(y.vehs)[u] = IF {u, Boarding(w.vehs)[u]} \cap (D \cup E) # {} THEN NoUnit
                                   ELSE Boarding(w.vehs)[u]
  <2>. DEFINE a == Boarding(w.vehs)[u]
              b == Boarding(x.vehs)[u]
              c == Boarding(y.vehs)[u]
  <2>1. /\ b = IF {u, a} \cap D # {} THEN NoUnit ELSE a
        /\ c = IF {u, b} \cap E # {} THEN NoUnit ELSE b
    BY DEF Deaths
  <2>. HIDE DEF a, b, c
  <2>2. c = IF {u, a} \cap (D \cup E) # {} THEN NoUnit ELSE a
    BY <2>1
  <2>. QED  BY <2>2 DEF a, c
<1>5. /\ TileOf(y.vehs) = [u \in Units |-> TileOf(y.vehs)[u]]
      /\ UnitsUnder(y.vehs) = [u \in Units |-> UnitsUnder(y.vehs)[u]]
      /\ Boarding(y.vehs) = [u \in Units |-> Boarding(y.vehs)[u]]
      /\ HandleOf(y.vehs, y.handles) = [u \in Units |-> HandleOf(y.vehs, y.handles)[u]]
  BY DEF TileOf, UnitsUnder, Boarding, HandleOf
<1>6. TileOf(y.vehs) = [u \in Units |-> IF u \in D \cup E THEN Cleared ELSE TileOf(w.vehs)[u]]
  BY <1>1, <1>5
<1>7. UnitsUnder(y.vehs) = [u \in Units |-> IF u \in D \cup E THEN {} ELSE UnitsUnder(w.vehs)[u] \ (D \cup E)]
  BY <1>2, <1>5
<1>8. HandleOf(y.vehs, y.handles) = [u \in Units |-> IF u \in D \cup E THEN 0 ELSE HandleOf(w.vehs, w.handles)[u]]
  BY <1>3, <1>5
<1>9. Boarding(y.vehs) = [u \in Units |-> IF {u, Boarding(w.vehs)[u]} \cap (D \cup E) # {} THEN NoUnit
                                          ELSE Boarding(w.vehs)[u]]
  BY <1>4, <1>5
<1>. QED  BY <1>6, <1>7, <1>8, <1>9 DEF Deaths

\* What a death leaves of the views.
LEMMA KillDies ==
    ASSUME NEW n \in Nat, NEW w, Named(n, w), NEW r, Ranked(n, Tab(w), r), NoneAt(n, Tab(w), Lifted),
           NEW dead \in 1 .. n
    PROVE  Deaths(w, {w.vehs[dead].unit}, VehKill(w, dead))
<1>. DEFINE x == VehKill(w, dead)
            vs == w.vehs
            ws == x.vehs
            hs == w.handles
            d == vs[dead].unit
            a(j) == Ahead(j, dead)
            r2 == Closing(n, r, dead)
<1>1. /\ w \in Worlds(n) /\ vs \in Arrays(n) /\ hs \in Seq(Nat)
      /\ Distinct(n, vs) /\ Len(hs) <= n /\ Tab(w).vehs = vs
  BY NamedFields
<1>2. IsKilled(n, w, r, dead, x) /\ RowsFollow(n, w, dead, x)
  BY <1>1, VehKillIs
<1>. HIDE DEF x
<1>3. /\ \A j \in 1 .. n - 1 : a(j) \in 1 .. n /\ a(j) # dead
      /\ \A k \in 1 .. n : k # dead => Behind(k, dead) \in 1 .. n - 1 /\ a(Behind(k, dead)) = k
      /\ \A j, k \in 1 .. n - 1 : a(j) = a(k) => j = k
  BY AheadBehind
<1>. HIDE DEF a
<1>4. /\ n - 1 \in Nat /\ x \in Worlds(n - 1) /\ ws \in Arrays(n - 1) /\ Linked(n - 1, ws, r2)
      /\ Len(ws) = n - 1 /\ x.handles \in [1 .. n - 1 -> Nat]
      /\ Tab(x).vehs = ws
  <2>1. n - 1 \in Nat
    OBVIOUS
  <2>2. x \in Worlds(n - 1) /\ Ranked(n - 1, Tab(x), r2) /\ Tab(x).vehs = ws
    BY <1>2 DEF IsKilled, Tab
  <2>3. ws \in Arrays(n - 1) /\ Linked(n - 1, ws, r2)
    BY <2>2 DEF Worlds, Ranked
  <2>. HIDE DEF ws
  <2>. QED  BY <1>2, <2>1, <2>2, <2>3, VehFields DEF RowsFollow
<1>5. \A j \in 1 .. n - 1 :
        /\ ws[j].unit = vs[a(j)].unit /\ ws[j].at = vs[a(j)].at
        /\ ws[j].order = Obeys(vs[a(j)].order, vs[a(j)].on, dead)
        /\ ws[j].on = Followed(vs[a(j)].on, dead)
        /\ x.handles[j] = Ensured(hs, n)[a(j)]
        /\ r2[j] = r[a(j)]
  BY <1>2 DEF IsKilled, RowsFollow, a, Closing
<1>. HIDE DEF r2, ws, vs, hs
<1>6. Distinct(n - 1, ws)
  <2>1. ASSUME NEW j \in 1 .. n - 1, NEW k \in 1 .. n - 1, ws[j].unit = ws[k].unit
        PROVE  j = k
    <3>1. vs[a(j)].unit = vs[a(k)].unit /\ a(j) \in 1 .. n /\ a(k) \in 1 .. n
      BY <1>3, <1>5, <2>1
    <3>2. a(j) = a(k)
      BY <1>1, <3>1 DEF Distinct
    <3>. QED  BY <1>3, <3>2
  <2>. QED  BY <2>1 DEF Distinct
<1>7. Len(x.handles) = n - 1 /\ DOMAIN x.handles = 1 .. n - 1
  BY <1>4, FunctionIsSeq
<1>8. /\ \A u \in Living(vs) : \E j \in 1 .. n : u = vs[j].unit
      /\ \A j \in 1 .. n : vs[j].unit \in Living(vs) /\ vs[j].unit \in Units
      /\ \A u \in Living(ws) : \E j \in 1 .. n - 1 : u = ws[j].unit
      /\ \A j \in 1 .. n - 1 : ws[j].unit \in Living(ws)
  BY <1>1, <1>4, LivingIs
<1>9. d \in Living(vs) /\ Living(ws) = Living(vs) \ {d}
  <2>1. d \in Living(vs)
    BY <1>8
  <2>2. ASSUME NEW u \in Living(ws)
        PROVE  u \in Living(vs) \ {d}
    <3>1. PICK j \in 1 .. n - 1 : u = ws[j].unit
      BY <1>8
    <3>2. u = vs[a(j)].unit /\ a(j) \in 1 .. n /\ a(j) # dead
      BY <1>3, <1>5, <3>1
    <3>. QED  BY <1>1, <1>8, <3>2 DEF Distinct
  <2>3. ASSUME NEW u \in Living(vs) \ {d}
        PROVE  u \in Living(ws)
    <3>1. PICK k \in 1 .. n : u = vs[k].unit
      BY <1>8
    <3>2. k # dead
      BY <3>1
    <3>3. Behind(k, dead) \in 1 .. n - 1 /\ a(Behind(k, dead)) = k
      BY <1>3, <3>2
    <3>4. ws[Behind(k, dead)].unit = u
      BY <1>5, <3>1, <3>3
    <3>. QED  BY <1>8, <3>3, <3>4
  <2>. QED  BY <2>1, <2>2, <2>3
<1>9a. \A j \in 1 .. n : vs[j].unit = d <=> j = dead
  BY <1>1 DEF Distinct
<1>. HIDE DEF d
<1>10. TileOf(ws) = [u \in Units |-> IF u \in {d} THEN Cleared ELSE TileOf(vs)[u]]
  <2>. DEFINE T == TileOf(vs)
              X == [u \in Units |-> IF u \in {d} THEN Cleared ELSE T[u]]
  <2>1. IsTile(n, vs, T) /\ IsTile(n - 1, ws, TileOf(ws))
    BY <1>1, <1>4, <1>6, TheViews
  <2>. HIDE DEF T
  <2>2. \A j \in 1 .. n - 1 : X[ws[j].unit] = ws[j].at
    <3>. TAKE j \in 1 .. n - 1
    <3>1. /\ a(j) \in 1 .. n /\ vs[a(j)].unit # d /\ vs[a(j)].unit \in Units
          /\ ws[j].unit = vs[a(j)].unit /\ ws[j].at = vs[a(j)].at
      BY <1>3, <1>5, <1>8, <1>9a
    <3>2. X[ws[j].unit] = T[vs[a(j)].unit]
      BY <3>1
    <3>. QED  BY <2>1, <3>1, <3>2 DEF IsTile
  <2>3. \A u \in Units \ Living(ws) : X[u] = Cleared
    BY <1>9, <2>1 DEF IsTile
  <2>4. X = [u \in Units |-> X[u]]
    OBVIOUS
  <2>. HIDE DEF X
  <2>5. IsTile(n - 1, ws, X)
    BY <2>2, <2>3, <2>4 DEF IsTile
  <2>6. TileOf(ws) = X
    BY <1>4, <2>1, <2>5, OneView
  <2>. QED  BY <2>6 DEF X, T
<1>11. UnitsUnder(ws) = [u \in Units |-> IF u \in {d} THEN {} ELSE UnitsUnder(vs)[u] \ {d}]
  <2>. DEFINE U == UnitsUnder(vs)
              X == [u \in Units |-> IF u \in {d} THEN {} ELSE U[u] \ {d}]
  <2>1. IsUnder(n, vs, r, U) /\ IsUnder(n - 1, ws, r2, UnitsUnder(ws))
    <3>1. Linked(n, vs, r)
      BY <1>1 DEF Ranked
    <3>. QED  BY <1>1, <1>4, <1>6, <3>1, TheViews
  <2>. HIDE DEF U
  <2>2. ASSUME NEW j \in 1 .. n - 1, NEW k \in 1 .. n - 1
        PROVE  ws[k].unit \in X[ws[j].unit] <=> Over(ws, r2, j, k)
    <3>1. /\ a(j) \in 1 .. n /\ a(k) \in 1 .. n /\ vs[a(j)].unit # d /\ vs[a(k)].unit # d
          /\ vs[a(j)].unit \in Units
      BY <1>3, <1>8, <1>9a
    <3>2. ws[k].unit \in X[ws[j].unit] <=> vs[a(k)].unit \in U[vs[a(j)].unit]
      BY <1>5, <3>1
    <3>3. vs[a(k)].unit \in U[vs[a(j)].unit] <=> Over(vs, r, a(j), a(k))
      BY <2>1, <3>1 DEF IsUnder
    <3>4. Over(vs, r, a(j), a(k)) <=> Over(ws, r2, j, k)
      BY <1>5 DEF Over
    <3>. QED  BY <3>2, <3>3, <3>4
  <2>3. \A u \in Units : X[u] \subseteq Living(ws) /\ (u \notin Living(ws) => X[u] = {})
    BY <1>9, <2>1 DEF IsUnder
  <2>4. X = [u \in Units |-> X[u]]
    OBVIOUS
  <2>. HIDE DEF X
  <2>5. IsUnder(n - 1, ws, r2, X)
    BY <2>2, <2>3, <2>4 DEF IsUnder
  <2>6. UnitsUnder(ws) = X
    BY <1>4, <2>1, <2>5, OneView
  <2>. QED  BY <2>6 DEF X, U
<1>12. Boarding(ws) = [u \in Units |-> IF {u, Boarding(vs)[u]} \cap {d} # {} THEN NoUnit ELSE Boarding(vs)[u]]
  <2>. DEFINE A == Boarding(vs)
              X == [u \in Units |-> IF {u, A[u]} \cap {d} # {} THEN NoUnit ELSE A[u]]
  <2>1. IsBoarding(n, vs, A) /\ IsBoarding(n - 1, ws, Boarding(ws))
    BY <1>1, <1>4, <1>6, TheViews
  <2>. HIDE DEF A
  <2>2. ASSUME NEW j \in 1 .. n - 1
        PROVE  X[ws[j].unit] = Aboard(ws, j)
    <3>. DEFINE k == a(j)
                u == vs[k].unit
    <3>1. k \in 1 .. n /\ u # d /\ u \in Units /\ ws[j].unit = u
      BY <1>3, <1>5, <1>8, <1>9a
    <3>2. A[u] = Aboard(vs, k) /\ vs[k].on \in 0 .. n
      BY <1>1, <2>1, <3>1, VehFields DEF IsBoarding
    <3>3. X[u] = IF A[u] = d THEN NoUnit ELSE A[u]
      BY <3>1
    <3>4. ws[j].order = Obeys(vs[k].order, vs[k].on, dead) /\ ws[j].on = Followed(vs[k].on, dead)
      BY <1>5
    <3>. HIDE DEF k, X
    <3>5. CASE vs[k].order # "board"
      <4>1. Aboard(ws, j) = NoUnit /\ A[u] = NoUnit
        BY <3>2, <3>4, <3>5 DEF Aboard, Obeys
      <4>. QED  BY <3>1, <3>3, <4>1
    <3>6. CASE vs[k].order = "board" /\ vs[k].on = 0
      <4>1. A[u] = NoUnit
        BY <3>2, <3>6 DEF Aboard, UnitIn
      <4>2. ws[j].on = 0
        BY <3>4, <3>6 DEF Followed, Behind
      <4>3. Aboard(ws, j) = NoUnit
        BY <4>2 DEF Aboard, UnitIn
      <4>. QED  BY <3>1, <3>3, <4>1, <4>3
    <3>7. CASE vs[k].order = "board" /\ vs[k].on = dead
      <4>1. A[u] = d
        BY <3>2, <3>7 DEF Aboard, UnitIn, d
      <4>2. Aboard(ws, j) = NoUnit
        BY <3>4, <3>7 DEF Aboard, Obeys
      <4>. QED  BY <3>1, <3>3, <4>1, <4>2
    <3>8. CASE vs[k].order = "board" /\ vs[k].on # 0 /\ vs[k].on # dead
      <4>. DEFINE o == vs[k].on
      <4>1. o \in 1 .. n /\ o # dead
        BY <3>2, <3>8
      <4>2. A[u] = vs[o].unit /\ A[u] # d
        BY <1>9a, <3>2, <3>8, <4>1 DEF Aboard, UnitIn
      <4>3. Behind(o, dead) \in 1 .. n - 1 /\ a(Behind(o, dead)) = o
        BY <1>3, <4>1
      <4>4. ws[j].on = Behind(o, dead) /\ ws[j].order = "board"
        BY <3>4, <3>8 DEF Followed, Obeys
      <4>5. ws[Behind(o, dead)].unit = vs[o].unit /\ Behind(o, dead) # 0
        BY <1>5, <4>3
      <4>6. Aboard(ws, j) = vs[o].unit
        BY <4>4, <4>5 DEF Aboard, UnitIn
      <4>. QED  BY <3>1, <3>3, <4>2, <4>6
    <3>. QED  BY <3>5, <3>6, <3>7, <3>8
  <2>3. \A u \in Units \ Living(ws) : X[u] = NoUnit
    BY <1>9, <2>1 DEF IsBoarding
  <2>4. X = [u \in Units |-> X[u]]
    OBVIOUS
  <2>. HIDE DEF X
  <2>5. IsBoarding(n - 1, ws, X)
    BY <2>2, <2>3, <2>4 DEF IsBoarding
  <2>6. Boarding(ws) = X
    BY <1>4, <2>1, <2>5, OneView
  <2>. QED  BY <2>6 DEF X, A
<1>13. HandleOf(ws, x.handles) = [u \in Units |-> IF u \in {d} THEN 0 ELSE HandleOf(vs, hs)[u]]
  <2>. DEFINE N == HandleOf(vs, hs)
              X == [u \in Units |-> IF u \in {d} THEN 0 ELSE N[u]]
  <2>1. IsNaming(n, vs, hs, N) /\ IsNaming(n - 1, ws, x.handles, HandleOf(ws, x.handles))
    BY <1>1, <1>4, <1>6, TheViews
  <2>. HIDE DEF N
  <2>2. ASSUME NEW j \in 1 .. n - 1
        PROVE  X[ws[j].unit] = IF j \in DOMAIN x.handles THEN x.handles[j] ELSE 0
    <3>1. /\ a(j) \in 1 .. n /\ vs[a(j)].unit # d /\ vs[a(j)].unit \in Units
          /\ ws[j].unit = vs[a(j)].unit
      BY <1>3, <1>5, <1>8, <1>9a
    <3>2. x.handles[j] = IF a(j) \in DOMAIN hs THEN hs[a(j)] ELSE 0
      BY <1>1, <1>5, <3>1, EnsuredKeeps
    <3>3. X[ws[j].unit] = N[vs[a(j)].unit]
      BY <3>1
    <3>4. N[vs[a(j)].unit] = IF a(j) \in DOMAIN hs THEN hs[a(j)] ELSE 0
      BY <2>1, <3>1 DEF IsNaming
    <3>. QED  BY <1>7, <3>2, <3>3, <3>4
  <2>3. \A u \in Units \ Living(ws) : X[u] = 0
    BY <1>9, <2>1 DEF IsNaming
  <2>4. X = [u \in Units |-> X[u]]
    OBVIOUS
  <2>. HIDE DEF X
  <2>5. IsNaming(n - 1, ws, x.handles, X)
    BY <2>2, <2>3, <2>4 DEF IsNaming
  <2>6. HandleOf(ws, x.handles) = X
    BY <1>4, <2>1, <2>5, OneView
  <2>. QED  BY <2>6 DEF X, N
<1>14. Distinct(Len(ws), ws) /\ Len(x.handles) <= Len(ws) /\ Living(ws) \subseteq Living(vs)
  BY <1>4, <1>6, <1>7, <1>9
<1>. QED  BY <1>10, <1>11, <1>12, <1>13, <1>14 DEF Deaths, ws, vs, hs, x, d

\* The worlds that deaths of units at p leave.
Doomed(w, p) == {u \in Units : TileOf(w.vehs)[u] = p}
Remains(w, p) == {x \in AllWorlds : \E D \in SUBSET Doomed(w, p) : Deaths(w, D, x)}

LEMMA RemainsClose ==
    ASSUME NEW n \in Nat, NEW w, NEW p, p # Cleared
    PROVE  Closes(n, Remains(w, p), p)
<1>1. ASSUME NEW m \in 1 .. n, NEW y \in Remains(w, p) \cap Worlds(m), NEW d \in 1 .. m,
             y.vehs[d].at = p, NoneAt(m, Tab(y), Lifted), NEW r, Ranked(m, Tab(y), r)
      PROVE  VehKill(y, d) \in Remains(w, p)
  <2>. DEFINE u == y.vehs[d].unit
              x == VehKill(y, d)
  <2>0. m \in Nat /\ m - 1 \in Nat
    OBVIOUS
  <2>1. PICK D \in SUBSET Doomed(w, p) : Deaths(w, D, y)
    BY DEF Remains
  <2>2. y \in Worlds(m) /\ y.vehs \in Arrays(m)
    BY DEF Worlds
  <2>3. Len(y.vehs) = m
    BY <2>0, <2>2, VehFields
  <2>4. Named(m, y) /\ Distinct(m, y.vehs)
    BY <2>1, <2>2, <2>3 DEF Named, Deaths
  <2>5. Deaths(y, {u}, x)
    BY <1>1, <2>0, <2>4, KillDies
  <2>6. x \in AllWorlds
    <3>1. IsKilled(m, y, r, d, x)
      BY <1>1, <2>0, <2>2, VehKillIs
    <3>. QED  BY <2>0, <3>1 DEF IsKilled, AllWorlds
  <2>7. u \in Units /\ TileOf(y.vehs)[u] = p
    <3>1. IsTile(m, y.vehs, TileOf(y.vehs))
      BY <2>0, <2>2, <2>4, TheViews
    <3>. QED  BY <1>1, <2>0, <2>2, <3>1, VehFields DEF IsTile
  <2>. HIDE DEF x, u
  <2>8. u \in Doomed(w, p)
    <3>1. TileOf(y.vehs)[u] = IF u \in D THEN Cleared ELSE TileOf(w.vehs)[u]
      BY <2>1, <2>7 DEF Deaths
    <3>. QED  BY <2>7, <3>1 DEF Doomed
  <2>9. Deaths(w, D \cup {u}, x)
    BY <2>1, <2>5, DeathsTwice
  <2>10. D \cup {u} \in SUBSET Doomed(w, p)
    BY <2>8
  <2>11. x \in Remains(w, p)
    BY <2>6, <2>9, <2>10 DEF Remains
  <2>. QED  BY <2>11 DEF x
<1>. QED  BY <1>1 DEF Closes

\* A whole stack dies.
LEMMA StackDies ==
    ASSUME NEW n \in Nat, NEW w, Named(n, w), NEW r, Ranked(n, Tab(w), r), NoneAt(n, Tab(w), Lifted),
           NEW p, p # Cleared, NEW i \in 0 .. n,
           i = 0 => NoneAt(n, Tab(w), p), i # 0 => w.vehs[i].at = p
    PROVE  Deaths(w, Doomed(w, p), StackKill(w, i))
<1>. DEFINE x == StackKill(w, i)
            W == Remains(w, p)
<1>1. w \in Worlds(n) /\ w.vehs \in Arrays(n)
  BY NamedFields
<1>2. w \in W
  <2>1. Deaths(w, {}, w) /\ w \in AllWorlds /\ {} \in SUBSET Doomed(w, p)
    BY <1>1, DeathsNone DEF AllWorlds
  <2>. QED  BY <2>1 DEF Remains
<1>3. Closes(n, W, p)
  BY RemainsClose
<1>4. \A j \in 1 .. n : w.vehs[j].at \in Places
  BY <1>1, VehFields
<1>. HIDE DEF W
<1>5. Killed(n, Places, W, p, x)
  BY <1>1, <1>2, <1>3, <1>4, StackKillIs
<1>. HIDE DEF x
<1>6. PICK m \in 0 .. n : /\ x \in W /\ x \in Worlds(m)
                          /\ \A j \in 1 .. m : x.vehs[j].at # p
  BY <1>5 DEF Killed
<1>7. PICK D \in SUBSET Doomed(w, p) : Deaths(w, D, x)
  BY <1>6 DEF W, Remains
<1>8. m \in Nat /\ x.vehs \in Arrays(m)
  BY <1>6 DEF Worlds
<1>9. IsTile(m, x.vehs, TileOf(x.vehs)) /\ \A u \in Living(x.vehs) : \E j \in 1 .. m : u = x.vehs[j].unit
  <2>1. Len(x.vehs) = m
    BY <1>8, VehFields
  <2>2. Distinct(m, x.vehs)
    BY <1>7, <2>1 DEF Deaths
  <2>. QED  BY <1>8, <2>2, TheViews, LivingIs
<1>10. ASSUME NEW u \in Doomed(w, p)
       PROVE  u \in D
  <2>1. SUFFICES ASSUME u \notin D PROVE FALSE
    OBVIOUS
  <2>2. u \in Units /\ TileOf(w.vehs)[u] = p
    BY DEF Doomed
  <2>3. TileOf(x.vehs)[u] = p
    BY <1>7, <2>1, <2>2 DEF Deaths
  <2>4. u \in Living(x.vehs)
    BY <1>9, <2>2, <2>3 DEF IsTile
  <2>5. PICK j \in 1 .. m : u = x.vehs[j].unit
    BY <1>9, <2>4
  <2>6. x.vehs[j].at = p
    BY <1>9, <2>3, <2>5 DEF IsTile
  <2>. QED  BY <1>6, <2>6
<1>11. D = Doomed(w, p)
  BY <1>7, <1>10
<1>. QED  BY <1>7, <1>11 DEF x

LEMMA WorldIs ==
    ASSUME NEW n, NEW r, Seen(n, r), handles \in Seq(Nat), Len(handles) <= n
    PROVE  /\ Named(n, World) /\ Ranked(n, Tab(World), r) /\ NoneAt(n, Tab(World), Lifted)
           /\ World.vehs = vehs /\ World.inTile = inTile /\ World.handles = handles
           /\ Tab(World) = Table /\ World = [vehs |-> vehs, inTile |-> inTile, handles |-> handles]
<1>1. /\ n \in Nat /\ Ranked(n, Table, r) /\ Distinct(n, vehs)
      /\ \A j \in 1 .. n : vehs[j].at \in Tiles
  BY DEF Seen
<1>2. World = [vehs |-> vehs, inTile |-> inTile, handles |-> handles]
  BY DEF World
<1>. HIDE DEF World
<1>3. World.vehs = vehs /\ World.inTile = inTile /\ World.handles = handles
  BY <1>2
<1>4. Tab(World) = Table /\ Table.vehs = vehs /\ Table.inTile = inTile
  BY <1>3 DEF Tab, Table
<1>5. vehs \in Arrays(n) /\ inTile \in [Tiles -> BOOLEAN]
  BY <1>1, <1>4, TableFields DEF Ranked
<1>6. Named(n, World)
  BY <1>1, <1>2, <1>3, <1>5 DEF Named, Worlds
<1>7. NoneAt(n, Table, Lifted)
  BY <1>1, <1>4, WholeNone DEF Whole
<1>. QED  BY <1>1, <1>2, <1>3, <1>4, <1>6, <1>7

LEMMA StepDie ==
    ASSUME NEW w, w.vehs = vehs, w.handles = handles, NEW D, NEW x, Deaths(w, D, x),
           SetWorld(x), KeepNames
    PROVE  Abstract!Die(D, UnitsUnder(vehs)) /\ Keeps
<1>1. /\ vehs' = x.vehs /\ handles' = x.handles
      /\ nextHandle' = nextHandle /\ multiplayer' = multiplayer
  BY DEF SetWorld, KeepNames
<1>2. /\ Distinct(Len(vehs'), vehs') /\ Len(handles') <= Len(vehs')
      /\ Living(vehs') \subseteq Living(vehs)
      /\ TileOf(vehs') = [u \in Units |-> IF u \in D THEN Cleared ELSE TileOf(vehs)[u]]
      /\ UnitsUnder(vehs') = [u \in Units |-> IF u \in D THEN {} ELSE UnitsUnder(vehs)[u] \ D]
      /\ Boarding(vehs') =
           [u \in Units |-> IF {u, Boarding(vehs)[u]} \cap D # {} THEN NoUnit ELSE Boarding(vehs)[u]]
      /\ HandleOf(vehs', handles') =
           [u \in Units |-> IF u \in D THEN 0 ELSE HandleOf(vehs, handles)[u]]
  BY <1>1 DEF Deaths
<1>3. Abstract!Die(D, UnitsUnder(vehs))
  BY <1>1, <1>2 DEF Abstract!Die
<1>4. Keeps
  BY <1>2 DEF Keeps
<1>. QED  BY <1>3, <1>4

LEMMA KillStackMaps ==
    ASSUME NEW n, NEW r, Seen(n, r), handles \in Seq(Nat), Len(handles) <= n, NEW p \in Tiles, KillStack(p)
    PROVE  Abstract!Wipe(p) /\ Keeps
<1>. DEFINE i == VehAt(Table, p)
            x == StackKill(World, i)
<1>1. /\ n \in Nat /\ Ranked(n, Table, r) /\ Table.vehs = vehs /\ p # Cleared
  BY TilesArePlaces, SeenFields DEF Seen
<1>2. /\ Named(n, World) /\ Ranked(n, Tab(World), r) /\ NoneAt(n, Tab(World), Lifted)
      /\ World.vehs = vehs /\ World.handles = handles /\ Tab(World) = Table
  BY WorldIs
<1>3. SetWorld(x) /\ KeepNames
  BY DEF KillStack
<1>4. i \in 0 .. n /\ (i = 0 => NoneAt(n, Table, p)) /\ (i # 0 => vehs[i].at = p)
  BY <1>1, VehAtIs DEF NoneAt
<1>. HIDE DEF i
<1>5. Deaths(World, Doomed(World, p), x)
  BY <1>1, <1>2, <1>4, StackDies
<1>. HIDE DEF x
<1>6. Doomed(World, p) = Abstract!On(p)
  BY <1>2 DEF Doomed, Abstract!On
<1>7. Abstract!Die(Abstract!On(p), UnitsUnder(vehs)) /\ Keeps
  BY <1>2, <1>3, <1>5, <1>6, StepDie
<1>. QED  BY <1>7 DEF Abstract!Wipe

LEMMA KillMaps ==
    ASSUME NEW n, NEW r, Seen(n, r), handles \in Seq(Nat), Len(handles) <= n, NEW i \in 1 .. n,
           Kill(i), ~ (Cargo(vehs[i]) > 0 /\ vehs[i].at \in Sea)
    PROVE  Abstract!Kill(vehs[i].unit) /\ Keeps
<1>. DEFINE x == VehKill(World, i)
            u == vehs[i].unit
<1>1. n \in Nat
  BY SeenFields
<1>2. /\ Named(n, World) /\ Ranked(n, Tab(World), r) /\ NoneAt(n, Tab(World), Lifted)
      /\ World.vehs = vehs /\ World.handles = handles
  BY WorldIs
<1>3. SetWorld(x) /\ KeepNames
  BY DEF Kill
<1>4. Deaths(World, {u}, x)
  BY <1>1, <1>2, KillDies
<1>. HIDE DEF x
<1>5. Abstract!Die({u}, UnitsUnder(vehs)) /\ Keeps
  BY <1>2, <1>3, <1>4, StepDie
<1>6. u \in Abstract!Alive
  BY AliveIs
<1>. QED  BY <1>5, <1>6 DEF Abstract!Kill

\* The units that went down at Loading have died out of the stack that they left.
LEMMA SunkDie ==
    ASSUME NEW vs, NEW rest, NEW S, NEW u, NEW R, R = S \cup {u}, R \subseteq Units,
           Departed(TileOf(vehs), rest, R, Loading, TileOf(vs), UnitsUnder(vs)),
           Boarding(vs) = Abstract!Boarded(u, S), HandleOf(vs, handles) = HandleOf(vehs, handles),
           \A y \in Units : TileOf(vehs)[y] # Loading,
           NEW w, w.vehs = vs, w.handles = handles,
           NEW x, Deaths(w, Doomed(w, Loading), x), SetWorld(x), KeepNames
    PROVE  Abstract!Die(R, rest)
<1>. DEFINE A == Boarding(vehs)
<1>1. /\ vehs' = x.vehs /\ handles' = x.handles
      /\ nextHandle' = nextHandle /\ multiplayer' = multiplayer
  BY DEF SetWorld, KeepNames
<1>2. \A y \in Units : TileOf(vs)[y] = IF y \in R THEN Loading ELSE TileOf(vehs)[y]
  BY DEF Departed
<1>3. Doomed(w, Loading) = R
  BY <1>2 DEF Doomed
<1>4. /\ TileOf(vehs') = [y \in Units |-> IF y \in R THEN Cleared ELSE TileOf(vs)[y]]
      /\ UnitsUnder(vehs') = [y \in Units |-> IF y \in R THEN {} ELSE UnitsUnder(vs)[y] \ R]
      /\ Boarding(vehs') =
           [y \in Units |-> IF {y, Boarding(vs)[y]} \cap R # {} THEN NoUnit ELSE Boarding(vs)[y]]
      /\ HandleOf(vehs', handles') = [y \in Units |-> IF y \in R THEN 0 ELSE HandleOf(vs, handles)[y]]
  BY <1>1, <1>3 DEF Deaths
<1>5. TileOf(vehs') = [y \in Units |-> IF y \in R THEN Cleared ELSE TileOf(vehs)[y]]
  BY <1>2, <1>4
<1>6. UnitsUnder(vehs') = [y \in Units |-> IF y \in R THEN {} ELSE rest[y] \ R]
  <2>1. \A y \in Units \ R : UnitsUnder(vs)[y] = rest[y] \ R
    BY DEF Departed
  <2>. QED  BY <1>4, <2>1
<1>7. Boarding(vehs') = [y \in Units |-> IF {y, A[y]} \cap R # {} THEN NoUnit ELSE A[y]]
  <2>1. \A y \in Units : Boarding(vs)[y] = IF y \in S THEN u ELSE A[y]
    BY DEF Abstract!Boarded
  <2>. HIDE DEF A
  <2>2. ASSUME NEW y \in Units
        PROVE  (IF {y, Boarding(vs)[y]} \cap R # {} THEN NoUnit ELSE Boarding(vs)[y])
               = IF {y, A[y]} \cap R # {} THEN NoUnit ELSE A[y]
    <3>1. CASE y \in S
      BY <3>1
    <3>2. CASE y \notin S
      BY <2>1, <3>2
    <3>. QED  BY <3>1, <3>2
  <2>. QED  BY <1>4, <2>2
<1>8. HandleOf(vehs', handles') = [y \in Units |-> IF y \in R THEN 0 ELSE HandleOf(vehs, handles)[y]]
  BY <1>4
<1>. QED  BY <1>1, <1>5, <1>6, <1>7, <1>8 DEF Abstract!Die, A

\* At sea a transport dies with those it has taken along.
LEMMA SinkMaps ==
    ASSUME NEW n, NEW r, Seen(n, r), handles \in Seq(Nat), Len(handles) <= n, NEW i \in 1 .. n,
           Kill(i), Cargo(vehs[i]) > 0, vehs[i].at \in Sea
    PROVE  Abstract!Sink(vehs[i].unit) /\ Keeps
<1>. DEFINE u == vehs[i].unit
            q == vehs[i].at
            t == StackVeh(Table, i, 2, Person)
            w == [World EXCEPT !.vehs = t.vehs, !.inTile = t.inTile]
            x == StackKill(w, i)
<1>1. /\ n \in Nat /\ Table.vehs = vehs /\ vehs \in Arrays(n) /\ Distinct(n, vehs)
      /\ Ranked(n, Table, r) /\ \A j \in 1 .. n : vehs[j].at \in Tiles
  BY SeenFields DEF Seen
<1>2. /\ NoneAt(n, Table, Lifted) /\ NoneAt(n, Table, Sorting) /\ NoneAt(n, Table, Loading)
      /\ 2 \in Nat /\ 2 > 0
  BY <1>1, WholeNone DEF Whole
<1>3. i \in Carriers(vehs) /\ u \in Transports
  <2>1. i \in Carriers(vehs)
    BY <1>1, VehFields DEF Carriers
  <2>. QED  BY <1>1, <2>1, CarrierUnits
<1>4. SetWorld(x) /\ KeepNames
  BY DEF Kill
<1>5. PICK M : TakesAlong(n, Table, r, i, 2, M, t)
  BY <1>1, <1>2, <1>3, StackVehIs
<1>. HIDE DEF t
<1>. DEFINE N == M \cup {i}
<1>6. /\ M \in SUBSET (Beside(n, Table, i) \ Carriers(vehs)) /\ Cardinality(M) <= Capacity
      /\ NoneAt(n, t, Lifted)
      /\ \A j \in 1 .. n :
           /\ t.vehs[j].unit = vehs[j].unit /\ t.vehs[j].at = IF j \in N THEN Loading ELSE vehs[j].at
           /\ t.vehs[j].order = IF j \in M THEN "board" ELSE vehs[j].order
           /\ t.vehs[j].on = IF j \in M THEN i ELSE vehs[j].on
      /\ \E rf, rg, r2 : /\ Refixed(n, Table, r, i, rf) /\ Resorted(n, Table, i, 2, rf, rg)
                         /\ Ranked(n, t, r2) /\ KeepsOrder(n, rg, r2, N)
  BY <1>1, <1>2, <1>5 DEF TakesAlong
<1>7. PICK rf, rg, r2 : /\ Refixed(n, Table, r, i, rf) /\ Resorted(n, Table, i, 2, rf, rg)
                        /\ Ranked(n, t, r2) /\ KeepsOrder(n, rg, r2, N)
  BY <1>6
<1>. DEFINE S == UnitsOf(vehs, M)
<1>8. S \in Abstract!Taken(u) /\ M \in SUBSET (1 .. n) /\ N \in SUBSET (1 .. n)
  BY <1>6, TakenIs
<1>9. /\ \A j \in 1 .. n : rg[j] \in Nat
      /\ \E rest \in Abstract!Sorted(q) : IsUnder(n, vehs, rg, rest)
  BY <1>2, <1>7, SortedRest
<1>10. PICK rest \in Abstract!Sorted(q) : IsUnder(n, vehs, rg, rest)
  BY <1>9
<1>11. Leaves(n, vehs, t, rg, r2, N, Loading)
  BY <1>1, <1>2, <1>6, <1>7 DEF Leaves, NoneAt
<1>. DEFINE R == S \cup {u}
<1>12. R = UnitsOf(vehs, N) /\ Loading # Cleared
  BY DEF UnitsOf, Loading, Cleared
<1>13. R \subseteq Units
  BY <1>1, <1>8, <1>12, UnitsOfIs
<1>14. t.vehs \in Arrays(n) /\ t.inTile \in [Tiles -> BOOLEAN] /\ t = [vehs |-> t.vehs, inTile |-> t.inTile]
  BY <1>7, TableFields DEF Ranked, Tables
<1>15. Boarding(t.vehs) = Abstract!Boarded(u, S)
  BY <1>6, <1>8, <1>14, BoardedIs
<1>16. /\ Distinct(n, t.vehs) /\ Living(t.vehs) = Living(vehs)
       /\ HandleOf(t.vehs, handles) = HandleOf(vehs, handles)
  BY <1>1, <1>6, <1>14, SameUnits
<1>. HIDE DEF R
<1>17. Departed(TileOf(vehs), rest, R, Loading, TileOf(t.vehs), UnitsUnder(t.vehs))
  <2>. HIDE DEF N
  <2>. QED  BY <1>1, <1>8, <1>9, <1>10, <1>11, <1>12, LeavesIs
<1>18. /\ w.vehs = t.vehs /\ w.handles = handles /\ Tab(w) = t /\ w \in Worlds(n)
  <2>1. World \in Worlds(n) /\ World.handles = handles
    BY WorldIs, NamedFields DEF Named
  <2>2. w \in Worlds(n) /\ w.vehs = t.vehs /\ w.inTile = t.inTile /\ w.handles = handles
    <3>. HIDE DEF World
    <3>. QED  BY <1>14, <2>1 DEF Worlds
  <2>. HIDE DEF w
  <2>. QED  BY <1>14, <2>2 DEF Tab
<1>. HIDE DEF w
<1>19. Named(n, w) /\ Ranked(n, Tab(w), r2) /\ NoneAt(n, Tab(w), Lifted) /\ w.vehs[i].at = Loading /\ i # 0
  BY <1>6, <1>7, <1>16, <1>18 DEF Named
<1>20. Deaths(w, Doomed(w, Loading), x)
  BY <1>1, <1>12, <1>19, StackDies
<1>. HIDE DEF x
<1>21. \A y \in Units : TileOf(vehs)[y] # Loading
  <2>1. IsTile(n, vehs, TileOf(vehs)) /\ \A y \in Living(vehs) : \E j \in 1 .. n : y = vehs[j].unit
    BY SeenFields
  <2>2. \A j \in 1 .. n : vehs[j].at # Loading
    BY <1>1, <1>2 DEF NoneAt
  <2>. TAKE y \in Units
  <2>3. CASE y \in Living(vehs)
    <3>1. PICK j \in 1 .. n : y = vehs[j].unit
      BY <2>1, <2>3
    <3>2. TileOf(vehs)[y] = vehs[j].at
      BY <2>1, <3>1 DEF IsTile
    <3>. QED  BY <2>2, <3>2
  <2>4. CASE y \notin Living(vehs)
    <3>1. TileOf(vehs)[y] = Cleared
      BY <2>1, <2>4 DEF IsTile
    <3>. QED  BY <1>12, <3>1
  <2>. QED  BY <2>3, <2>4
<1>. HIDE DEF S, u, q
<1>22. Abstract!Die(R, rest)
  BY <1>4, <1>13, <1>15, <1>16, <1>17, <1>18, <1>20, <1>21, SunkDie DEF R
<1>23. u \in Abstract!Alive /\ TileOf(vehs)[u] = q
  BY AliveIs DEF u, q
<1>24. Abstract!Sink(u)
  BY <1>3, <1>8, <1>10, <1>22, <1>23 DEF Abstract!Sink, R
<1>25. Keeps
  BY <1>4, <1>16, <1>18, <1>20 DEF Keeps, Deaths, SetWorld
<1>. QED  BY <1>24, <1>25 DEF u

\* What a new unit leaves of the views.
LEMMA AppearsFields ==
    ASSUME NEW n, NEW r, Seen(n, r), NEW u \in Units \ Living(vehs), NEW p \in Tiles,
           NEW x, Appears(n, Table, r, u, p, x)
    PROVE  /\ x.vehs \in Arrays(n + 1) /\ Distinct(n + 1, x.vehs) /\ Living(x.vehs) = Living(vehs) \cup {u}
           /\ x.vehs[n + 1].unit = u /\ x.vehs[n + 1].at = p /\ x.vehs[n + 1].order = "none"
           /\ \A j \in 1 .. n : /\ x.vehs[j].unit = vehs[j].unit /\ x.vehs[j].at = vehs[j].at
                                /\ x.vehs[j].order = vehs[j].order /\ x.vehs[j].on = vehs[j].on
                                /\ vehs[j].unit # u
           /\ \A j \in 1 .. n + 1 : j = n + 1 \/ j \in 1 .. n
           /\ \A j \in 1 .. n : j \in 1 .. n + 1
           /\ n + 1 \in 1 .. n + 1 /\ n + 1 \in Nat
<1>. DEFINE ws == x.vehs
<1>1. /\ n \in Nat /\ Table.vehs = vehs /\ Distinct(n, vehs) /\ vehs \in Arrays(n)
      /\ \A j \in 1 .. n : vehs[j].unit \in Living(vehs)
      /\ \A y \in Living(vehs) : \E j \in 1 .. n : y = vehs[j].unit
  BY SeenFields
<1>2. /\ ws[n + 1].unit = u /\ ws[n + 1].at = p /\ ws[n + 1].order = "none"
      /\ \A j \in 1 .. n : /\ ws[j].unit = vehs[j].unit /\ ws[j].at = vehs[j].at
                           /\ ws[j].order = vehs[j].order /\ ws[j].on = vehs[j].on
                           /\ vehs[j].unit # u
  BY <1>1 DEF Appears
<1>3. ws \in Arrays(n + 1)
  <2>1. PICK r2 : Ranked(n + 1, x, r2)
    BY DEF Appears
  <2>. QED  BY <1>1, <2>1, TableFields DEF Ranked
<1>. HIDE DEF ws
<1>4. /\ \A j \in 1 .. n + 1 : j = n + 1 \/ j \in 1 .. n
      /\ \A j \in 1 .. n : j \in 1 .. n + 1
      /\ n + 1 \in 1 .. n + 1 /\ n + 1 \in Nat
  BY <1>1
<1>5. Distinct(n + 1, ws)
  BY <1>1, <1>2, <1>4 DEF Distinct
<1>6. Living(ws) = Living(vehs) \cup {u}
  <2>1. /\ \A j \in 1 .. n + 1 : ws[j].unit \in Living(ws)
        /\ \A y \in Living(ws) : \E j \in 1 .. n + 1 : y = ws[j].unit
    BY <1>3, <1>4, LivingIs
  <2>2. ASSUME NEW y \in Living(ws)
        PROVE  y \in Living(vehs) \cup {u}
    BY <1>1, <1>2, <1>4, <2>1
  <2>3. ASSUME NEW y \in Living(vehs) \cup {u}
        PROVE  y \in Living(ws)
    <3>1. CASE y = u
      BY <1>2, <1>4, <2>1, <3>1
    <3>2. CASE y # u
      <4>1. PICK j \in 1 .. n : y = vehs[j].unit
        BY <1>1, <3>2
      <4>. QED  BY <1>2, <1>4, <2>1, <4>1
    <3>. QED  BY <3>1, <3>2
  <2>. QED  BY <2>2, <2>3
<1>. QED  BY <1>2, <1>3, <1>4, <1>5, <1>6 DEF ws

LEMMA AppearsTile ==
    ASSUME NEW n, NEW r, Seen(n, r), NEW u \in Units \ Living(vehs), NEW p \in Tiles,
           NEW x, Appears(n, Table, r, u, p, x), handles \in Seq(Nat), Len(handles) <= n
    PROVE  /\ TileOf(x.vehs) = [TileOf(vehs) EXCEPT ![u] = p]
           /\ Boarding(x.vehs) = Boarding(vehs) /\ HandleOf(x.vehs, handles) = HandleOf(vehs, handles)
<1>. DEFINE ws == x.vehs
            T == TileOf(vehs)
            A == Boarding(vehs)
            N == HandleOf(vehs, handles)
            T2 == [T EXCEPT ![u] = p]
<1>1. /\ ws \in Arrays(n + 1) /\ Distinct(n + 1, ws) /\ Living(ws) = Living(vehs) \cup {u}
      /\ ws[n + 1].unit = u /\ ws[n + 1].at = p /\ ws[n + 1].order = "none"
      /\ \A j \in 1 .. n : /\ ws[j].unit = vehs[j].unit /\ ws[j].at = vehs[j].at
                           /\ ws[j].order = vehs[j].order /\ ws[j].on = vehs[j].on
                           /\ vehs[j].unit # u
      /\ \A j \in 1 .. n + 1 : j = n + 1 \/ j \in 1 .. n
      /\ \A j \in 1 .. n : j \in 1 .. n + 1
      /\ n + 1 \in 1 .. n + 1 /\ n + 1 \in Nat
  BY AppearsFields
<1>2. /\ n \in Nat /\ vehs \in Arrays(n) /\ Distinct(n, vehs)
      /\ \A j \in 1 .. n : vehs[j].unit \in Units
  BY SeenFields
<1>3. IsTile(n, vehs, T) /\ IsBoarding(n, vehs, A) /\ IsNaming(n, vehs, handles, N)
  BY <1>2, TheViews
<1>4. /\ IsTile(n + 1, ws, TileOf(ws)) /\ IsBoarding(n + 1, ws, Boarding(ws))
      /\ IsNaming(n + 1, ws, handles, HandleOf(ws, handles))
  BY <1>1, TheViews
<1>. HIDE DEF ws, T, A, N
<1>5. IsTile(n + 1, ws, T2)
  <2>1. /\ T2[u] = p /\ T2 = [y \in Units |-> T2[y]]
        /\ \A y \in Units \ {u} : T2[y] = T[y]
    BY <1>3 DEF IsTile
  <2>. HIDE DEF T2
  <2>2. ASSUME NEW j \in 1 .. n + 1
        PROVE  T2[ws[j].unit] = ws[j].at
    <3>1. CASE j = n + 1
      BY <1>1, <2>1, <3>1
    <3>2. CASE j \in 1 .. n
      <4>1. ws[j].unit = vehs[j].unit /\ ws[j].at = vehs[j].at /\ vehs[j].unit \in Units \ {u}
        BY <1>1, <1>2, <3>2
      <4>2. T[vehs[j].unit] = vehs[j].at
        BY <1>3, <3>2 DEF IsTile
      <4>. QED  BY <2>1, <4>1, <4>2
    <3>. QED  BY <1>1, <3>1, <3>2
  <2>3. ASSUME NEW y \in Units \ Living(ws)
        PROVE  T2[y] = Cleared
    BY <1>1, <1>3, <2>1 DEF IsTile
  <2>. QED  BY <2>1, <2>2, <2>3 DEF IsTile
<1>6. IsBoarding(n + 1, ws, A)
  <2>1. ASSUME NEW j \in 1 .. n + 1
        PROVE  A[ws[j].unit] = Aboard(ws, j)
    <3>1. CASE j = n + 1
      <4>1. A[u] = NoUnit
        BY <1>3 DEF IsBoarding
      <4>2. Aboard(ws, j) = NoUnit
        BY <1>1, <3>1 DEF Aboard
      <4>. QED  BY <1>1, <3>1, <4>1, <4>2
    <3>2. CASE j \in 1 .. n
      <4>1. vehs[j].on \in 0 .. n
        BY <1>2, <3>2, VehFields
      <4>2. UnitIn(ws, vehs[j].on) = UnitIn(vehs, vehs[j].on)
        <5>1. vehs[j].on # 0 => vehs[j].on \in 1 .. n
          BY <1>2, <4>1
        <5>. QED  BY <1>1, <5>1 DEF UnitIn
      <4>3. Aboard(ws, j) = Aboard(vehs, j)
        BY <1>1, <3>2, <4>2 DEF Aboard
      <4>. QED  BY <1>1, <1>3, <3>2, <4>3 DEF IsBoarding
    <3>. QED  BY <1>1, <3>1, <3>2
  <2>2. A = [y \in Units |-> A[y]] /\ \A y \in Units \ Living(ws) : A[y] = NoUnit
    BY <1>1, <1>3 DEF IsBoarding
  <2>. QED  BY <2>1, <2>2 DEF IsBoarding
<1>7. IsNaming(n + 1, ws, handles, N)
  <2>1. ASSUME NEW j \in 1 .. n + 1, j = n + 1 => j \notin DOMAIN handles
        PROVE  N[ws[j].unit] = IF j \in DOMAIN handles THEN handles[j] ELSE 0
    <3>1. CASE j = n + 1
      <4>1. N[u] = 0
        BY <1>3 DEF IsNaming
      <4>. QED  BY <1>1, <2>1, <3>1, <4>1
    <3>2. CASE j \in 1 .. n
      BY <1>1, <1>3, <3>2 DEF IsNaming
    <3>. QED  BY <1>1, <3>1, <3>2
  <2>2. N = [y \in Units |-> N[y]] /\ \A y \in Units \ Living(ws) : N[y] = 0
    BY <1>1, <1>3 DEF IsNaming
  <2>3. n + 1 \notin DOMAIN handles
    <3>1. DOMAIN handles = 1 .. Len(handles) /\ Len(handles) \in Nat
      OBVIOUS
    <3>. QED  BY <1>2, <3>1
  <2>. QED  BY <2>1, <2>2, <2>3 DEF IsNaming
<1>. HIDE DEF T2
<1>8. TileOf(ws) = T2 /\ Boarding(ws) = A /\ HandleOf(ws, handles) = N
  BY <1>1, <1>4, <1>5, <1>6, <1>7, OneView
<1>. QED  BY <1>8 DEF ws, T2, T, A, N

LEMMA AppearsUnder ==
    ASSUME NEW n, NEW r, Seen(n, r), NEW u \in Units \ Living(vehs), NEW p \in Tiles,
           NEW x, Appears(n, Table, r, u, p, x)
    PROVE  UnitsUnder(x.vehs) = [UnitsUnder(vehs) EXCEPT ![u] = Abstract!On(p)]
<1>. DEFINE ws == x.vehs
            U == UnitsUnder(vehs)
            O == Abstract!On(p)
            U2 == [U EXCEPT ![u] = O]
<1>1. /\ ws \in Arrays(n + 1) /\ Distinct(n + 1, ws) /\ Living(ws) = Living(vehs) \cup {u}
      /\ ws[n + 1].unit = u /\ ws[n + 1].at = p
      /\ \A j \in 1 .. n : /\ ws[j].unit = vehs[j].unit /\ ws[j].at = vehs[j].at
                           /\ vehs[j].unit # u
      /\ \A j \in 1 .. n + 1 : j = n + 1 \/ j \in 1 .. n
      /\ \A j \in 1 .. n : j \in 1 .. n + 1
      /\ n + 1 \in 1 .. n + 1 /\ n + 1 \in Nat
  BY AppearsFields
<1>2. /\ n \in Nat /\ IsUnder(n, vehs, r, U)
      /\ \A j \in 1 .. n : vehs[j].unit \in Units
  BY SeenFields
<1>3. p # Cleared
  BY TilesArePlaces
<1>4. /\ O \subseteq Living(vehs)
      /\ \A j \in 1 .. n : vehs[j].unit \in O <=> vehs[j].at = p
  BY <1>3, OnIs
<1>5. PICK r2 : /\ Ranked(n + 1, x, r2)
                /\ \A j \in 1 .. n : r2[n + 1] < r2[j]
                /\ \A j, k \in 1 .. n : r2[j] < r2[k] <=> r[j] < r[k]
  BY DEF Appears
<1>6. Linked(n + 1, ws, r2) /\ \A j \in 1 .. n + 1 : r2[j] \in Nat
  BY <1>1, <1>5, RanksAreNumbers DEF Ranked
<1>7. IsUnder(n + 1, ws, r2, UnitsUnder(ws))
  BY <1>1, <1>6, TheViews
<1>. HIDE DEF ws, U, O
<1>8. IsUnder(n + 1, ws, r2, U2)
  <2>1. /\ U2[u] = O /\ U2 = [y \in Units |-> U2[y]]
        /\ \A y \in Units \ {u} : U2[y] = U[y]
    BY <1>2 DEF IsUnder
  <2>. HIDE DEF U2
  <2>2. ASSUME NEW j \in 1 .. n + 1, NEW k \in 1 .. n + 1
        PROVE  ws[k].unit \in U2[ws[j].unit] <=> Over(ws, r2, j, k)
    <3>1. CASE j \in 1 .. n /\ k \in 1 .. n
      <4>1. U2[ws[j].unit] = U[vehs[j].unit] /\ ws[k].unit = vehs[k].unit
        BY <1>1, <1>2, <2>1, <3>1
      <4>2. Over(ws, r2, j, k) <=> Over(vehs, r, j, k)
        BY <1>1, <1>5, <3>1 DEF Over
      <4>. QED  BY <1>2, <3>1, <4>1, <4>2 DEF IsUnder
    <3>2. CASE j = n + 1 /\ k \in 1 .. n
      <4>1. ws[k].unit \in U2[ws[j].unit] <=> vehs[k].at = p
        BY <1>1, <1>4, <2>1, <3>2
      <4>2. Over(ws, r2, j, k) <=> vehs[k].at = p
        BY <1>1, <1>5, <3>2 DEF Over
      <4>. QED  BY <4>1, <4>2
    <3>3. CASE j \in 1 .. n /\ k = n + 1
      <4>1. ~ (r2[j] < r2[k])
        BY <1>5, <1>6, <3>3
      <4>2. U[vehs[j].unit] \subseteq Living(vehs)
        BY <1>2, <3>3 DEF IsUnder
      <4>3. ws[k].unit = u /\ U2[ws[j].unit] = U[vehs[j].unit]
        BY <1>1, <1>2, <2>1, <3>3
      <4>. QED  BY <4>1, <4>2, <4>3 DEF Over
    <3>4. CASE j = n + 1 /\ k = n + 1
      <4>1. ~ (r2[j] < r2[k])
        BY <1>6, <3>4
      <4>2. ws[k].unit = u /\ U2[ws[j].unit] = O
        BY <1>1, <2>1, <3>4
      <4>. QED  BY <1>4, <4>1, <4>2 DEF Over
    <3>. QED  BY <1>1, <3>1, <3>2, <3>3, <3>4
  <2>3. ASSUME NEW y \in Units
        PROVE  U2[y] \subseteq Living(ws) /\ (y \notin Living(ws) => U2[y] = {})
    <3>1. CASE y = u
      BY <1>1, <1>4, <2>1, <3>1
    <3>2. CASE y # u
      <4>1. U2[y] = U[y] /\ U[y] \subseteq Living(vehs) /\ (y \notin Living(vehs) => U[y] = {})
        BY <1>2, <2>1, <3>2 DEF IsUnder
      <4>. QED  BY <1>1, <4>1
    <3>. QED  BY <3>1, <3>2
  <2>. QED  BY <2>1, <2>2, <2>3 DEF IsUnder
<1>. HIDE DEF U2
<1>9. UnitsUnder(ws) = U2
  BY <1>1, <1>7, <1>8, OneView
<1>. QED  BY <1>9 DEF ws, U2, U, O

LEMMA InitMaps ==
    ASSUME NEW n, NEW r, Seen(n, r), handles \in Seq(Nat), Len(handles) <= n, Living(vehs) \subseteq born,
           NEW u \in Units, NEW p \in Tiles, VehInit(u, p)
    PROVE  /\ Abstract!Create(u, p)
           /\ Distinct(Len(vehs'), vehs') /\ Living(vehs') \subseteq born' /\ Len(handles') <= Len(vehs')
<1>. DEFINE x == VehDrop([vehs |-> Append(Table.vehs, NewRow(u)), inTile |-> Table.inTile], n + 1, p)
<1>1. /\ n \in Nat /\ Table.vehs = vehs /\ Len(vehs) = n /\ Ranked(n, Table, r)
      /\ \A j \in 1 .. n : vehs[j].at \in Tiles
      /\ IsTile(n, vehs, TileOf(vehs)) /\ Distinct(n, vehs) /\ vehs \in Arrays(n)
  BY SeenFields, VehFields DEF Seen
<1>2. u \in Units \ Living(vehs)
  BY DEF VehInit
<1>3. Set(x) /\ born' = born \cup {u} /\ handles' = handles
      /\ nextHandle' = nextHandle /\ multiplayer' = multiplayer
  <2>2. [Table EXCEPT !.vehs = Append(@, NewRow(u))] = [vehs |-> Append(vehs, NewRow(u)), inTile |-> inTile]
    BY LongerTable
  <2>3. Table.inTile = inTile
    BY DEF Table
  <2>. QED  BY <1>1, <2>2, <2>3 DEF VehInit, NewRow
<1>4. Appears(n, Table, r, u, p, x)
  BY <1>1, VehInitIs
<1>. HIDE DEF x
<1>5. vehs' = x.vehs
  BY <1>3 DEF Set
<1>6. x.vehs \in Arrays(n + 1) /\ Distinct(n + 1, x.vehs) /\ Living(x.vehs) = Living(vehs) \cup {u} /\ n + 1 \in Nat
  BY <1>2, <1>4, AppearsFields
<1>7. Len(x.vehs) = n + 1
  BY <1>6, VehFields
<1>8. Distinct(Len(vehs'), vehs') /\ Living(vehs') \subseteq born' /\ Len(handles') <= Len(vehs')
  <2>1. Distinct(n + 1, vehs') /\ Len(vehs') = n + 1 /\ Living(vehs') = Living(vehs) \cup {u}
    BY <1>5, <1>6, <1>7
  <2>2. Len(handles') <= n + 1
    <3>1. Len(handles) <= n /\ handles' = handles
      BY <1>3
    <3>. QED  BY <1>1, <3>1
  <2>. QED  BY <1>3, <2>1, <2>2
<1>9. /\ TileOf(vehs') = [TileOf(vehs) EXCEPT ![u] = p]
      /\ UnitsUnder(vehs') = [UnitsUnder(vehs) EXCEPT ![u] = Abstract!On(p)]
      /\ Boarding(vehs') = Boarding(vehs) /\ HandleOf(vehs', handles') = HandleOf(vehs, handles)
  BY <1>2, <1>3, <1>4, <1>5, AppearsTile, AppearsUnder
<1>10. u \notin Abstract!Alive /\ Boarding(vehs)[u] = NoUnit /\ HandleOf(vehs, handles)[u] = 0
  <2>1. IsBoarding(n, vehs, Boarding(vehs)) /\ IsNaming(n, vehs, handles, HandleOf(vehs, handles))
    BY <1>1, TheViews
  <2>2. TileOf(vehs)[u] = Cleared
    BY <1>1, <1>2 DEF IsTile
  <2>3. Cleared \notin Tiles
    BY TilesArePlaces
  <2>. QED  BY <1>2, <2>1, <2>2, <2>3 DEF IsBoarding, IsNaming, Abstract!Alive
<1>11. Abstract!Create(u, p)
  BY <1>3, <1>9, <1>10 DEF Abstract!Create
<1>. QED  BY <1>8, <1>11

LEMMA ObserveMaps ==
    ASSUME NEW n, NEW r, Seen(n, r), handles \in Seq(Nat), Len(handles) <= n,
           nextHandle \in Nat, nextHandle > 0, NEW i \in 1 .. n, Observe(i)
    PROVE  /\ \/ \E h \in 1 .. MaxHandles : Abstract!Name(vehs[i].unit, h)
              \/ Abstract!vars' = Abstract!vars
           /\ Keeps /\ nextHandle' > 0
<1>. DEFINE hs == Ensured(handles, n)
            u == vehs[i].unit
            N == HandleOf(vehs, handles)
<1>1. /\ n \in Nat /\ vehs \in Arrays(n) /\ Distinct(n, vehs) /\ Len(vehs) = n
      /\ \A j \in 1 .. n : vehs[j].unit \in Units /\ vehs[j].unit \in Living(vehs)
  BY SeenFields, VehFields
<1>2. /\ nextHandle <= MaxHandles
      /\ handles' = IF hs[i] = 0 THEN [hs EXCEPT ![i] = nextHandle] ELSE hs
      /\ nextHandle' = IF hs[i] = 0 THEN nextHandle + 1 ELSE nextHandle
      /\ vehs' = vehs /\ multiplayer' = multiplayer
  BY <1>1 DEF Observe
<1>3. hs \in [1 .. n -> Nat] /\ \A j \in 1 .. n : hs[j] = IF j \in DOMAIN handles THEN handles[j] ELSE 0
  BY <1>1, EnsuredIs, EnsuredKeeps
<1>4. IsNaming(n, vehs, handles, N) /\ \A gs : IsNaming(n, vehs, gs, HandleOf(vehs, gs))
  BY <1>1, TheViews
<1>. HIDE DEF hs, N
<1>5. \A j \in 1 .. n : N[vehs[j].unit] = hs[j]
  BY <1>3, <1>4 DEF IsNaming
<1>6. Keeps /\ nextHandle' > 0
  <2>1. handles' \in [1 .. n -> Nat]
    BY <1>2, <1>3
  <2>2. Len(handles') = n
    BY <1>1, <2>1, FunctionIsSeq
  <2>3. Living(vehs') \subseteq Living(vehs) /\ Distinct(Len(vehs'), vehs') /\ Len(vehs') = n
    BY <1>1, <1>2
  <2>. QED  BY <1>1, <1>2, <2>2, <2>3 DEF Keeps
<1>7. /\ TileOf(vehs') = TileOf(vehs) /\ UnitsUnder(vehs') = UnitsUnder(vehs)
      /\ Boarding(vehs') = Boarding(vehs)
      /\ HandleOf(vehs', handles') = HandleOf(vehs, handles')
  BY <1>2
<1>8. CASE hs[i] # 0
  <2>1. handles' = hs /\ nextHandle' = nextHandle
    BY <1>2, <1>8
  <2>2. IsNaming(n, vehs, hs, N)
    BY <1>3, <1>4, <1>5 DEF IsNaming
  <2>3. HandleOf(vehs, hs) = N
    BY <1>1, <1>4, <2>2, OneView
  <2>4. HandleOf(vehs', handles') = HandleOf(vehs, handles)
    BY <1>7, <2>1, <2>3 DEF N
  <2>5. Abstract!vars' = Abstract!vars
    BY <1>2, <1>7, <2>1, <2>4 DEF Abstract!vars
  <2>. QED  BY <1>6, <2>5
<1>9. CASE hs[i] = 0
  <2>. DEFINE gs == [hs EXCEPT ![i] = nextHandle]
              N2 == [N EXCEPT ![u] = nextHandle]
  <2>1. handles' = gs /\ nextHandle' = nextHandle + 1
    BY <1>2, <1>9
  <2>2. DOMAIN gs = 1 .. n /\ gs[i] = nextHandle /\ \A j \in 1 .. n : j # i => gs[j] = hs[j]
    BY <1>3
  <2>3. /\ N2 = [y \in Units |-> N2[y]] /\ N2[u] = nextHandle
        /\ \A y \in Units \ {u} : N2[y] = N[y]
    BY <1>1, <1>4 DEF IsNaming
  <2>. HIDE DEF gs, N2
  <2>4. IsNaming(n, vehs, gs, N2)
    <3>1. ASSUME NEW j \in 1 .. n
          PROVE  N2[vehs[j].unit] = IF j \in DOMAIN gs THEN gs[j] ELSE 0
      <4>1. CASE j = i
        BY <2>2, <2>3, <4>1
      <4>2. CASE j # i
        <5>1. vehs[j].unit \in Units \ {u}
          BY <1>1, <4>2 DEF Distinct
        <5>. QED  BY <1>5, <2>2, <2>3, <4>2, <5>1
      <4>. QED  BY <4>1, <4>2
    <3>2. ASSUME NEW y \in Units \ Living(vehs)
          PROVE  N2[y] = 0
      BY <1>1, <1>4, <2>3 DEF IsNaming
    <3>. QED  BY <2>3, <3>1, <3>2 DEF IsNaming
  <2>5. HandleOf(vehs, gs) = N2
    BY <1>1, <1>4, <2>4, OneView
  <2>6. HandleOf(vehs', handles') = [HandleOf(vehs, handles) EXCEPT ![u] = nextHandle]
    BY <1>7, <2>1, <2>5 DEF N2, N
  <2>7. HandleOf(vehs, handles)[u] = 0
    BY <1>5, <1>9 DEF N
  <2>8. u \in Abstract!Alive
    BY AliveIs
  <2>9. 1 .. nextHandle' - 1 = (1 .. nextHandle - 1) \cup {nextHandle}
    BY <2>1
  <2>10. nextHandle \in 1 .. MaxHandles /\ nextHandle \notin 1 .. nextHandle - 1
    BY <1>2, UnitBounds
  <2>. HIDE DEF u
  <2>11. Abstract!Name(u, nextHandle)
    BY <1>2, <1>7, <2>6, <2>7, <2>8, <2>9, <2>10 DEF Abstract!Name
  <2>. QED  BY <1>6, <2>10, <2>11 DEF u
<1>. QED  BY <1>8, <1>9

-----------------------------------------------------------------------------
(* The refinement.                                                         *)

\* An arranged table has one row for a unit and no more handles than rows, and only units that
\* have appeared.
Listed ==
  /\ Arranged
  /\ Distinct(Len(vehs), vehs) /\ Living(vehs) \subseteq born
  /\ Len(handles) <= Len(vehs) /\ nextHandle > 0

LEMMA InitListed == Init => Listed
<1>. SUFFICES ASSUME Init PROVE Listed
  OBVIOUS
<1>1. vehs = << >> /\ handles = << >> /\ nextHandle = 1 /\ Arranged
  BY InitArranged DEF Init
<1>2. Len(vehs) = 0 /\ DOMAIN vehs = {}
  BY <1>1
<1>3. Living(vehs) = {}
  BY <1>2 DEF Living
<1>4. Distinct(Len(vehs), vehs)
  BY <1>2 DEF Distinct
<1>. QED  BY <1>1, <1>3, <1>4 DEF Listed

\* What is left to show of a step, once the table is arranged after it.
Mapped ==
  /\ [Abstract!Next]_(Abstract!vars)
  /\ Distinct(Len(vehs'), vehs') /\ Living(vehs') \subseteq born'
  /\ Len(handles') <= Len(vehs') /\ nextHandle' > 0

LEMMA StepMapped ==
    ASSUME Listed, Keeps, born' = born, nextHandle' > 0, Abstract!Next \/ Abstract!vars' = Abstract!vars
    PROVE  Mapped
BY DEF Listed, Keeps, Mapped

LEMMA SameMapped ==
    ASSUME Listed, tableVars' = tableVars, nextHandle' = nextHandle, multiplayer' = multiplayer, born' = born
    PROVE  Mapped
<1>1. vehs' = vehs /\ handles' = handles
  BY DEF tableVars
<1>2. Abstract!vars' = Abstract!vars
  BY <1>1 DEF Abstract!vars
<1>3. Keeps /\ nextHandle' > 0
  BY <1>1 DEF Keeps, Listed
<1>. QED  BY <1>2, <1>3, StepMapped

\* Every call is a step of UnitStacks, or none.
LEMMA CallMaps ==
    ASSUME Listed, Call
    PROVE  Mapped
<1>. DEFINE n == Len(vehs)
<1>1. /\ n \in Nat /\ Whole(n, Table) /\ Distinct(n, vehs) /\ handles \in Seq(Nat) /\ Len(handles) <= n
      /\ nextHandle \in Nat /\ nextHandle > 0 /\ Living(vehs) \subseteq born
  BY DEF Listed, Arranged
<1>2. PICK r : Seen(n, r)
  <2>1. Table.vehs = vehs
    BY DEF Table
  <2>. QED  BY <1>1, <2>1 DEF Whole, Seen
<1>3. vehs \in Arrays(n) /\ \A j \in 1 .. n : vehs[j].unit \in Units /\ vehs[j].at \in Tiles
  BY <1>2, SeenFields
<1>4. Rows = 1 .. n
  BY <1>1, <1>3, VehFields DEF Rows
<1>. HIDE DEF n
<1>5. Keep => born' = born /\ nextHandle' > 0
  BY <1>1 DEF Keep
<1>6. KeepNames => born' = born /\ nextHandle' > 0
  BY <1>1 DEF KeepNames
<1>7. ASSUME NEW u \in Units, NEW p \in Tiles, VehInit(u, p)
      PROVE  Mapped
  <2>1. /\ Abstract!Create(u, p)
        /\ Distinct(Len(vehs'), vehs') /\ Living(vehs') \subseteq born' /\ Len(handles') <= Len(vehs')
    BY <1>1, <1>2, <1>7, InitMaps
  <2>2. Abstract!Next
    BY <2>1 DEF Abstract!Next
  <2>3. nextHandle' > 0
    BY <1>1, <1>7 DEF VehInit
  <2>. QED  BY <2>1, <2>2, <2>3 DEF Mapped
<1>8. ASSUME NEW i \in 1 .. n, NEW p \in Tiles, Put(i, p) \/ Move(i, p)
      PROVE  Mapped
  <2>1. Keeps /\ (Abstract!Put(vehs[i].unit, p) \/ Abstract!Travel(vehs[i].unit, p))
    BY <1>2, <1>8, PutMaps, MoveMaps
  <2>2. Abstract!Next
    BY <1>3, <2>1 DEF Abstract!Next
  <2>3. Keep
    BY <1>8 DEF Put, Move
  <2>. QED  BY <1>5, <2>1, <2>2, <2>3, StepMapped
<1>9. ASSUME NEW i \in 1 .. n, Load(i) \/ Promote(i) \/ Demote(i) \/ Sleep(i) \/ Wake(i)
      PROVE  Mapped
  <2>. DEFINE u == vehs[i].unit
  <2>1. Keep
    BY <1>9 DEF Load, Promote, Demote, Sleep, Wake
  <2>2. u \in Units /\ vehs[i].at \in Tiles
    BY <1>3
  <2>3. CASE Load(i)
    BY <1>2, <1>5, <2>1, <2>2, <2>3, LoadMaps, StepMapped DEF Abstract!Next
  <2>4. CASE Promote(i)
    BY <1>2, <1>5, <2>1, <2>2, <2>4, PromoteMaps, StepMapped DEF Abstract!Next
  <2>5. CASE Demote(i)
    BY <1>2, <1>5, <2>1, <2>2, <2>5, DemoteMaps, StepMapped DEF Abstract!Next
  <2>6. CASE Sleep(i) \/ Wake(i)
    <3>1. Abstract!Embark(u, NoUnit) /\ Keeps
      BY <1>2, <2>6, SleepMaps
    <3>2. Abstract!Next
      BY <2>2, <3>1 DEF Abstract!Next
    <3>. QED  BY <1>5, <2>1, <3>1, <3>2, StepMapped
  <2>. QED  BY <1>9, <2>3, <2>4, <2>5, <2>6
<1>10. ASSUME NEW i \in 1 .. n, NEW v \in 1 .. n, BoardTo(i, v)
       PROVE  Mapped
  <2>1. Abstract!Embark(vehs[i].unit, vehs[v].unit) /\ Keeps
    BY <1>2, <1>10, BoardToMaps
  <2>2. Abstract!Next
    BY <1>3, <2>1 DEF Abstract!Next
  <2>3. Keep
    BY <1>10 DEF BoardTo
  <2>. QED  BY <1>5, <2>1, <2>2, <2>3, StepMapped
<1>11. ASSUME NEW p \in Tiles, Fix(p)
       PROVE  Mapped
  <2>1. Keep
    BY <1>11 DEF Fix
  <2>2. CASE Abstract!Rearrange(p) /\ Keeps
    BY <1>5, <2>1, <2>2, StepMapped DEF Abstract!Next
  <2>3. CASE tableVars' = tableVars
    BY <2>1, <2>3, SameMapped DEF Keep
  <2>. QED  BY <1>2, <1>11, <2>2, <2>3, FixMaps
<1>12. ASSUME NEW p \in Tiles, KillStack(p)
       PROVE  Mapped
  <2>1. Abstract!Wipe(p) /\ Keeps
    BY <1>1, <1>2, <1>12, KillStackMaps
  <2>2. KeepNames
    BY <1>12 DEF KillStack
  <2>. QED  BY <1>6, <2>1, <2>2, StepMapped DEF Abstract!Next
<1>13. ASSUME NEW i \in 1 .. n, Kill(i)
       PROVE  Mapped
  <2>1. Keeps /\ (Abstract!Kill(vehs[i].unit) \/ Abstract!Sink(vehs[i].unit))
    BY <1>1, <1>2, <1>13, KillMaps, SinkMaps
  <2>2. Abstract!Next
    BY <1>3, <2>1 DEF Abstract!Next
  <2>3. KeepNames
    BY <1>13 DEF Kill
  <2>. QED  BY <1>6, <2>1, <2>2, <2>3, StepMapped
<1>14. ASSUME NEW i \in 1 .. n, Observe(i)
       PROVE  Mapped
  <2>1. /\ \/ \E h \in 1 .. MaxHandles : Abstract!Name(vehs[i].unit, h)
           \/ Abstract!vars' = Abstract!vars
        /\ Keeps /\ nextHandle' > 0
    BY <1>1, <1>2, <1>14, ObserveMaps
  <2>2. Abstract!Next \/ Abstract!vars' = Abstract!vars
    BY <1>3, <2>1 DEF Abstract!Next
  <2>3. born' = born
    BY <1>14 DEF Observe
  <2>. QED  BY <2>1, <2>2, <2>3, StepMapped
<1>. QED  BY <1>4, <1>7, <1>8, <1>9, <1>10, <1>11, <1>12, <1>13, <1>14 DEF Call

LEMMA NextMaps == Listed /\ [Next]_vars => Mapped /\ Listed'
<1>. SUFFICES ASSUME Listed, [Next]_vars PROVE Mapped /\ Listed'
  OBVIOUS
<1>1. Mapped
  <2>1. CASE Next
    BY <2>1, CallMaps DEF Next
  <2>2. CASE vars' = vars
    BY <2>2, SameMapped DEF vars
  <2>. QED  BY <2>1, <2>2
<1>2. Arranged'
  BY NextArranged DEF Listed
<1>. QED  BY <1>1, <1>2 DEF Listed, Mapped

LEMMA InitMapped == Init => Abstract!Init
<1>. SUFFICES ASSUME Init PROVE Abstract!Init
  OBVIOUS
<1>1. vehs = << >> /\ handles = << >> /\ nextHandle = 1 /\ multiplayer \in BOOLEAN
  BY DEF Init
<1>2. DOMAIN vehs = {}
  BY <1>1
<1>3. Living(vehs) = {}
  BY <1>2 DEF Living
<1>4. /\ TileOf(vehs) = [u \in Units |-> Cleared] /\ UnitsUnder(vehs) = [u \in Units |-> {}]
      /\ Boarding(vehs) = [u \in Units |-> NoUnit] /\ HandleOf(vehs, handles) = [u \in Units |-> 0]
  BY <1>3 DEF TileOf, UnitsUnder, Boarding, HandleOf
<1>5. 1 .. nextHandle - 1 = {}
  BY <1>1
<1>. QED  BY <1>1, <1>4, <1>5 DEF Abstract!Init

(* However rows move while units are put, loaded, sorted, killed and       *)
(* renumbered, every call of the table does to the stacks, to what is      *)
(* aboard and to the handles no more than one step of UnitStacks: no unit  *)
(* is lost, doubled or put elsewhere, no boarded unit gets another         *)
(* transport, and no handle comes to mean another unit.                    *)
THEOREM TableImplementsStacks == Spec => ImplementsUnitStacks
<1>. QED  BY InitListed, InitMapped, NextMaps, PTL DEF Spec, ImplementsUnitStacks, Abstract!Spec, Mapped

=============================================================================
