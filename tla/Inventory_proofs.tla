-------------------------- MODULE Inventory_proofs --------------------------
(***************************************************************************)
(* Theorems about Inventory, for any builders, grids, chests, slot counts, *)
(* items and recipes.                                                      *)
(***************************************************************************)
EXTENDS Inventory, FiniteSetTheorems, SequenceTheorems, WellFoundedInduction, TLAPS

(* Two shaped recipes that match one grid ask for the same items in the same
   slots: a pickaxe laid out in the grid is never taken for the shovel whose
   pattern it contains.  The subset recipe once won (_recipe_shaped_match).  *)
Layout(r) == {<<r.inputs[k].slot, r.inputs[k].item>> : k \in DOMAIN r.inputs}

THEOREM ShapedMatchUnique ==
    ASSUME NEW g, NEW r1 \in Recipes, NEW r2 \in Recipes,
           ShapedMatch(g, r1), ShapedMatch(g, r2)
    PROVE  Layout(r1) = Layout(r2)
<1>1. ASSUME NEW r \in Recipes, NEW s \in Recipes, ShapedMatch(g, r), ShapedMatch(g, s)
      PROVE  Layout(r) \subseteq Layout(s)
  <2> SUFFICES ASSUME NEW k \in DOMAIN r.inputs
               PROVE  <<r.inputs[k].slot, r.inputs[k].item>> \in Layout(s)
    BY DEF Layout
  <2> DEFINE e == r.inputs[k]
  <2>1. e.slot \in DOMAIN g /\ g[e.slot].item = e.item
    BY <1>1 DEF ShapedMatch
  <2>2. e.item # None
    <3>1. r.inputs \in Seq(Input)
      BY ItemAssumption DEF Recipe
    <3>2. e \in Input
      BY <3>1
    <3> QED
      BY <3>2, ItemAssumption DEF Input
  <2>3. PICK l \in DOMAIN s.inputs : s.inputs[l].slot = e.slot
    BY <1>1, <2>1, <2>2 DEF ShapedMatch
  <2>4. g[s.inputs[l].slot].item = s.inputs[l].item
    BY <1>1 DEF ShapedMatch
  <2> QED
    BY <2>1, <2>3, <2>4 DEF Layout
<1> QED
  BY <1>1

(***************************************************************************)
(* What is written.                                                        *)
(***************************************************************************)
Shape ==
    /\ held = [p \in Place |-> held[p]]
    /\ known \in [Builders -> SUBSET Recipes]
    /\ disk = [c \in Chests |-> disk[c]]
    /\ placed \subseteq Chests

InventoryInv == Shape /\ CleanIsSaved /\ ChestsOnDisk

(* Two slots are written: nothing but their places changes.                  *)
LEMMA PutTouchesTwo ==
    ASSUME Shape, NEW b, NEW p \in Place, NEW q \in Place, NEW i, NEW j, NEW s, NEW t,
           held' = Put(Put(held, p, i, s), q, j, t)
    PROVE  /\ held' = [x \in Place |-> held'[x]]
           /\ \A x \in Place : x # p /\ x # q => held'[x] = held[x]
  BY DEF Shape, Put

(* An accepted event of b that changes no other builder; when nothing was
   journalled, b is unchanged or noted as spilled.                           *)
LEMMA AcceptKeepsClean ==
    ASSUME Shape, CleanIsSaved, NEW b \in Builders, NEW n, Accept(b, n),
           \A c \in Builders : c # b => held'[c] = held[c] /\ known'[c] = known[c],
           spilled \subseteq spilled',
           n = 0 => b \in spilled' \/ (held'[b] = held[b] /\ known'[b] = known[b])
    PROVE  CleanIsSaved'
<1>1. dirty \subseteq dirty' /\ (n # 0 => b \in dirty')
  BY DEF Accept
<1>2. stale' \subseteq stale \cup {c \in Builders : held'[c] # held[c] \/ known'[c] # known[c]}
  BY DEF Accept
<1> QED
  BY <1>1, <1>2 DEF CleanIsSaved

(* Every chest that changes is stored, or none changes.                      *)
LEMMA StoredChests ==
    ASSUME Shape, ChestsOnDisk, NEW P, StoreChests(P),
           \A c \in Chests : c \notin P => held'[c] = held[c]
    PROVE  ChestsOnDisk' /\ disk' = [c \in Chests |-> disk'[c]]
  BY DEF Shape, ChestsOnDisk, StoreChests

LEMMA UntouchedChests ==
    ASSUME Shape, ChestsOnDisk, UNCHANGED disk, \A c \in Chests : held'[c] = held[c]
    PROVE  ChestsOnDisk' /\ disk' = [c \in Chests |-> disk'[c]]
  BY DEF Shape, ChestsOnDisk

(* An accepted drag or click of b that writes the two slots (p, i) and (q, j),
   on b's screen, and stores the chests among P.                             *)
LEMMA DragKeepsInv ==
    ASSUME InventoryInv, NEW b \in Builders, NEW p \in Reach(b), NEW q \in Reach(b),
           NEW i, NEW j, NEW s, NEW t, NEW P,
           held' = Put(Put(held, p, i, s), q, j, t),
           StoreChests(P), {p, q} \cap Chests \subseteq P,
           UNCHANGED <<known, spilled, world>>, Accept(b, 1)
    PROVE  InventoryInv'
<1>1. p \in Place /\ q \in Place /\ \A c \in Builders : c # b => c # p /\ c # q
  BY PlacesDisjoint DEF InventoryInv, Shape, Reach, Place
<1>2. /\ held' = [x \in Place |-> held'[x]]
      /\ \A x \in Place : x # p /\ x # q => held'[x] = held[x]
  BY <1>1, PutTouchesTwo DEF InventoryInv
<1>3. CleanIsSaved'
  <2>1. \A c \in Builders : c # b => held'[c] = held[c] /\ known'[c] = known[c]
    BY <1>1, <1>2 DEF Place
  <2>2. spilled \subseteq spilled'
    OBVIOUS
  <2> QED
    BY <2>1, <2>2, AcceptKeepsClean DEF InventoryInv
<1>4. ChestsOnDisk' /\ disk' = [c \in Chests |-> disk'[c]]
  <2>1. \A c \in Chests : c \notin P => held'[c] = held[c]
    BY <1>2 DEF Place
  <2> QED
    BY <2>1, StoredChests DEF InventoryInv
<1> QED
  BY <1>2, <1>3, <1>4 DEF InventoryInv, Shape, world

(* An event of b that changes b, perhaps a grid, and no chest.               *)
LEMMA CarryKeepsInv ==
    ASSUME InventoryInv, NEW b \in Builders, NEW n, NEW g \in Grids \cup {b},
           held' = [x \in Place |-> held'[x]],
           \A x \in Place : x # b /\ x # g => held'[x] = held[x],
           known' \in [Builders -> SUBSET Recipes],
           \A c \in Builders : c # b => known'[c] = known[c],
           UNCHANGED <<disk, placed>>, Accept(b, n), spilled \subseteq spilled',
           n = 0 => b \in spilled' \/ (held'[b] = held[b] /\ known'[b] = known[b])
    PROVE  InventoryInv'
<1>1. \A c \in Builders : c # b => held'[c] = held[c] /\ known'[c] = known[c]
  BY PlacesDisjoint DEF Place
<1>2. CleanIsSaved'
  BY <1>1, AcceptKeepsClean DEF InventoryInv
<1>3. \A c \in Chests : held'[c] = held[c]
  BY PlacesDisjoint DEF Place
<1>4. ChestsOnDisk' /\ disk' = [c \in Chests |-> disk'[c]]
  BY <1>3, UntouchedChests DEF InventoryInv
<1> QED
  BY <1>2, <1>4 DEF InventoryInv, Shape

(* The same of an accepted event that leaves grids and recipes alone.        *)
LEMMA OwnSlotsKeepInv ==
    ASSUME InventoryInv, NEW b \in Builders,
           held' = [x \in Place |-> held'[x]],
           \A x \in Place : x # b => held'[x] = held[x],
           UNCHANGED <<known, disk, placed, spilled>>, Accept(b, 1)
    PROVE  InventoryInv'
<1>1. b \in Grids \cup {b} /\ \A x \in Place : x # b /\ x # b => held'[x] = held[x]
  OBVIOUS
<1>2. known' \in [Builders -> SUBSET Recipes] /\ \A c \in Builders : known'[c] = known[c]
  BY DEF InventoryInv, Shape
<1> QED
  BY <1>1, <1>2, CarryKeepsInv

(* Nothing of what is carried, placed or written changes.                    *)
LEMMA ElsewhereKeepsInv ==
    ASSUME InventoryInv, UNCHANGED <<held, placed, known, dirty, stale, disk, spilled>>
    PROVE  InventoryInv'
  BY DEF InventoryInv, Shape, CleanIsSaved, ChestsOnDisk

LEMMA InventoryInit == Init => InventoryInv
<1> SUFFICES ASSUME Init PROVE InventoryInv
  OBVIOUS
<1>1. \A c \in Chests : held[c] = Blank(Size[c])
  BY DEF Init, Place
<1> QED
  BY <1>1 DEF Init, InventoryInv, Shape, CleanIsSaved, ChestsOnDisk

LEMMA InventoryStep == InventoryInv /\ [Next]_vars => InventoryInv'
<1> SUFFICES ASSUME InventoryInv, [Next]_vars PROVE InventoryInv'
  OBVIOUS
<1> USE DEF Place
<1>1. ASSUME NEW b \in Builders, NEW d \in Wild, NEW n \in 1..StackMax,
             AddItems(b, d, n) \/ RemoveItems(b, d, n)
      PROVE  InventoryInv'
  <2>1. CASE AddItems(b, d, n)
    <3> DEFINE m == IF Spilt(held[b], d, n) = 0 THEN 1 ELSE 0
    <3>1. /\ held' = [x \in Place |-> held'[x]]
          /\ \A x \in Place : x # b => held'[x] = held[x]
      BY <2>1 DEF AddItems, InventoryInv, Shape
    <3>2. spilled \subseteq spilled' /\ (m = 0 => b \in spilled' \/ held'[b] = held[b])
      BY <2>1 DEF AddItems
    <3>3. Accept(b, m) /\ UNCHANGED <<known, disk, placed>>
      BY <2>1 DEF AddItems, world
    <3> QED
      BY <3>1, <3>2, <3>3, CarryKeepsInv DEF InventoryInv, Shape
  <2>2. CASE RemoveItems(b, d, n)
    <3>1. /\ held' = [x \in Place |-> held'[x]]
          /\ \A x \in Place : x # b => held'[x] = held[x]
      BY <2>2 DEF RemoveItems, InventoryInv, Shape
    <3>2. Accept(b, 1) /\ UNCHANGED <<known, disk, placed, spilled>>
      BY <2>2 DEF RemoveItems, world
    <3> QED
      BY <3>1, <3>2, OwnSlotsKeepInv
  <2> QED
    BY <1>1, <2>1, <2>2
<1>2. ASSUME NEW d \in Wild, Drop(d) \/ Settle(d)
      PROVE  InventoryInv'
  BY <1>2, ElsewhereKeepsInv DEF Drop, Settle
<1>3. ASSUME NEW b \in Builders, NEW d \in Wild, PickUp(b, d)
      PROVE  InventoryInv'
  <2>1. /\ held' = [x \in Place |-> held'[x]]
        /\ \A x \in Place : x # b => held'[x] = held[x]
    BY <1>3 DEF PickUp, InventoryInv, Shape
  <2>2. Accept(b, 1) /\ UNCHANGED <<known, disk, placed, spilled>>
    BY <1>3 DEF PickUp
  <2> QED
    BY <2>1, <2>2, OwnSlotsKeepInv
<1>4. ASSUME NEW b \in Builders, Die(b)
      PROVE  InventoryInv'
  <2>1. /\ held' = [x \in Place |-> held'[x]]
        /\ \A x \in Place : x # b => held'[x] = held[x]
    BY <1>4 DEF Die, InventoryInv, Shape
  <2>2. Accept(b, 1) /\ UNCHANGED <<known, disk, placed, spilled>>
    BY <1>4 DEF Die
  <2> QED
    BY <2>1, <2>2, OwnSlotsKeepInv
<1>5. ASSUME NEW k, Despawn(k)
      PROVE  InventoryInv'
  BY <1>5, ElsewhereKeepsInv DEF Despawn
<1>6. ASSUME NEW b \in Builders, NEW k, Collect(b, k)
      PROVE  InventoryInv'
  <2> DEFINE n == Collected(held[b], piles[k]).took
  <2>1. /\ held' = [x \in Place |-> held'[x]]
        /\ \A x \in Place : x # b => held'[x] = held[x]
    BY <1>6 DEF Collect, InventoryInv, Shape
  <2>2. Accept(b, n) /\ UNCHANGED <<known, disk, placed>>
    BY <1>6 DEF Collect
  <2>3. spilled \subseteq spilled' /\ (n = 0 => b \in spilled' \/ held'[b] = held[b])
    BY <1>6 DEF Collect
  <2> HIDE DEF n
  <2> QED
    BY <2>1, <2>2, <2>3, CarryKeepsInv DEF InventoryInv, Shape
<1>7. ASSUME NEW b \in Builders, NEW p \in Reach(b), NEW q \in Reach(b),
             NEW i \in At(p), NEW j \in At(q),
             Move(b, p, i, q, j) \/ Swap(b, p, i, q, j)
      PROVE  InventoryInv'
  <2>1. CASE Move(b, p, i, q, j)
    BY <2>1, DragKeepsInv DEF Move
  <2>2. CASE Swap(b, p, i, q, j)
    BY <2>2, DragKeepsInv DEF Swap
  <2> QED
    BY <1>7, <2>1, <2>2
<1>8. ASSUME NEW b \in Builders, NEW i \in At(b), NEW j \in At(b), Split(b, i, j)
      PROVE  InventoryInv'
  <2>1. /\ held' = [x \in Place |-> held'[x]]
        /\ \A x \in Place : x # b => held'[x] = held[x]
    BY <1>8 DEF Split, Put, InventoryInv, Shape
  <2>2. Accept(b, 1) /\ UNCHANGED <<known, disk, placed, spilled>>
    BY <1>8 DEF Split, world
  <2> QED
    BY <2>1, <2>2, OwnSlotsKeepInv
<1>9. ASSUME NEW b \in Builders, NEW p \in Reach(b), NEW i \in At(p), SingleTake(b, p, i)
      PROVE  InventoryInv'
  <2> DEFINE q == TakesInto(b, p)
             s == held[p][i]
             into == Landing(held[q], s.item)
             j == CHOOSE j \in into : \A k \in into : j <= k
  <2>1. q \in Reach(b) /\ {p, q} \cap Chests \subseteq {p}
    BY SizeAssumption, PlacesDisjoint DEF TakesInto, Reach
  <2>2. held' = Put(Put(held, q, j, Stack(s.item, held[q][j].count + 1)),
                    p, i, Stack(s.item, s.count - 1))
    BY <1>9 DEF SingleTake
  <2>3. StoreChests({p}) /\ Accept(b, 1) /\ UNCHANGED <<known, spilled, world>>
    BY <1>9 DEF SingleTake
  <2> HIDE DEF q, s, into, j
  <2> QED
    BY <2>1, <2>2, <2>3, DragKeepsInv
<1>10. ASSUME NEW b \in Builders, NEW r \in Recipes, NEW g \in Grids,
              Craft(b, r, g) \/ Autofill(b, r, g)
       PROVE  InventoryInv'
  <2>1. /\ held' = [x \in Place |-> held'[x]]
        /\ \A x \in Place : x # b /\ x # g => held'[x] = held[x]
    BY <1>10 DEF Craft, Autofill, InventoryInv, Shape
  <2>2. Accept(b, 1) /\ UNCHANGED <<disk, placed, spilled>>
    BY <1>10 DEF Craft, Autofill, world
  <2>3. /\ known' \in [Builders -> SUBSET Recipes]
        /\ \A c \in Builders : c # b => known'[c] = known[c]
    BY <1>10 DEF Craft, Autofill, InventoryInv, Shape
  <2> QED
    BY <2>1, <2>2, <2>3, CarryKeepsInv
<1>11. ASSUME NEW c \in Chests, NEW contents \in Loot, RegisterChest(c, contents)
       PROVE  InventoryInv'
  <2>1. /\ held' = [x \in Place |-> held'[x]]
        /\ \A x \in Place : x # c => held'[x] = held[x]
    BY <1>11 DEF RegisterChest, InventoryInv, Shape
  <2>2. CleanIsSaved'
    BY <1>11 DEF RegisterChest, InventoryInv, CleanIsSaved
  <2>3. ChestsOnDisk' /\ disk' = [x \in Chests |-> disk'[x]]
    <3>1. \A x \in Chests : x \notin {c} => held'[x] = held[x]
      BY <2>1
    <3> QED
      BY <1>11, <3>1, StoredChests DEF RegisterChest, InventoryInv
  <2> QED
    BY <1>11, <2>1, <2>2, <2>3 DEF RegisterChest, InventoryInv, Shape
<1>12. CASE Flush
  <2>1. CleanIsSaved'
    BY <1>12 DEF Flush, InventoryInv, CleanIsSaved
  <2> QED
    BY <1>12, <2>1 DEF Flush, InventoryInv, Shape, ChestsOnDisk, world
<1>13. CASE UNCHANGED vars
  BY <1>13, ElsewhereKeepsInv DEF vars
<1> QED
  BY <1>1, <1>2, <1>3, <1>4, <1>5, <1>6, <1>7, <1>8, <1>9, <1>10, <1>11, <1>12, <1>13 DEF Next, Event

(* Nothing a builder carries or knows is left out of what gets written: a
   builder who is not marked has been written as it is, but for an addition
   that did not fit.                                                         *)
THEOREM CleanIsSavedAlways == Spec => []CleanIsSaved
<1>1. InventoryInv => CleanIsSaved
  BY DEF InventoryInv
<1> QED
  BY <1>1, InventoryInit, InventoryStep, PTL DEF Spec

(* No move, swap, right-click or placement, from a chest or between two of
   them, leaves a chest on disk that is not the one in memory.               *)
THEOREM ChestsOnDiskAlways == Spec => []ChestsOnDisk
<1>1. InventoryInv => ChestsOnDisk
  BY DEF InventoryInv
<1> QED
  BY <1>1, InventoryInit, InventoryStep, PTL DEF Spec

(***************************************************************************)
(* Counting up.                                                            *)
(***************************************************************************)

(* What holds of 0 and of each number after one it holds of, holds of all.   *)
LEMMA UpFromZero ==
    ASSUME NEW n \in Nat, NEW S, 0 \in S, \A k \in 0..(n - 1) : k \in S => k + 1 \in S
    PROVE  \A k \in 0..n : k \in S
<1> SUFFICES ASSUME NEW k0 \in 0..n, k0 \notin S PROVE FALSE
  OBVIOUS
<1> DEFINE missed == {k \in 0..n : k \notin S}
<1>1. missed # {} /\ missed \subseteq Nat
  OBVIOUS
<1> HIDE DEF missed
<1>2. PICK k \in missed : \A j \in missed : ~(<<j, k>> \in OpToRel(<, Nat))
  BY <1>1, NatLessThanWellFounded, WFMin
<1>3. \A j \in missed : (<<j, k>> \in OpToRel(<, Nat)) <=> j < k
  BY <1>1 DEF OpToRel
<1>4. \A j \in missed : ~(j < k)
  BY <1>2, <1>3, Zenon
<1>5. k \in 0..n /\ k \notin S
  BY DEF missed
<1>6. k # 0 /\ k - 1 \in 0..(n - 1) /\ k - 1 \in 0..n
  BY <1>5
<1>7. k - 1 \notin missed
  BY <1>4, <1>5, <1>1
<1>8. k - 1 \in S
  BY <1>6, <1>7 DEF missed
<1>9. (k - 1) + 1 \in S /\ (k - 1) + 1 = k
  BY <1>5, <1>6, <1>8
<1> QED
  BY <1>5, <1>9

(* A function that is computed up from 0, by steps from one value to the next,
   exists.                                                                   *)
Steps(step, n, V) == step \in [(1..n) \X V -> V]
Computes(c, n, V, base, step) ==
    c \in [0..n -> V] /\ \A k \in 0..n : c[k] = IF k = 0 THEN base ELSE step[<<k, c[k - 1]>>]

(* A recursive function is there, and computes up from its base case.       *)
LEMMA ComputedUp ==
    ASSUME NEW n \in Nat, NEW V, NEW base \in V, NEW step, Steps(step, n, V)
    PROVE  \E c : Computes(c, n, V, base, step)
<1> USE DEF Steps
<1> DEFINE Up(c, m) == c[0] = base /\ \A k \in 1..m : c[k] = step[<<k, c[k - 1]>>]
           S == {m \in 0..n : \E c \in [0..m -> V] : Up(c, m)}
<1>1. 0 \in S
  <2>1. [k \in 0..0 |-> base] \in [0..0 -> V] /\ Up([k \in 0..0 |-> base], 0)
    OBVIOUS
  <2> HIDE DEF Up
  <2>2. 0 \in 0..n
    OBVIOUS
  <2> QED
    BY <2>1, <2>2
<1>2. \A m \in 0..(n - 1) : m \in S => m + 1 \in S
  <2> SUFFICES ASSUME NEW m \in 0..(n - 1), m \in S PROVE m + 1 \in S
    OBVIOUS
  <2>1. PICK c \in [0..m -> V] : Up(c, m)
    OBVIOUS
  <2> DEFINE d == [k \in 0..(m + 1) |-> IF k = m + 1 THEN step[<<k, c[m]>>] ELSE c[k]]
  <2>2. d \in [0..(m + 1) -> V]
    <3>1. \A k \in 0..(m + 1) : k # m + 1 => c[k] \in V
      OBVIOUS
    <3>2. step[<<m + 1, c[m]>>] \in V
      OBVIOUS
    <3> QED
      BY <3>1, <3>2
  <2>3. Up(d, m + 1)
    <3>1. d[0] = base
      BY <2>1
    <3>2. ASSUME NEW k \in 1..(m + 1) PROVE d[k] = step[<<k, d[k - 1]>>]
      <4>1. d[k - 1] = c[k - 1]
        OBVIOUS
      <4>2. CASE k = m + 1
        BY <4>1, <4>2
      <4>3. CASE k # m + 1
        <5>1. k \in 1..m /\ d[k] = c[k]
          BY <4>3
        <5> QED
          BY <4>1, <5>1, <2>1
      <4> QED
        BY <4>2, <4>3
    <3> HIDE DEF d
    <3> QED
      BY <3>1, <3>2
  <2> HIDE DEF d
  <2> QED
    BY <2>2, <2>3
<1> HIDE DEF S
<1>3. n \in S
  BY <1>1, <1>2, UpFromZero
<1>4. PICK c \in [0..n -> V] : Up(c, n)
  BY <1>3 DEF S
<1>5. \A k \in 0..n : c[k] = IF k = 0 THEN base ELSE step[<<k, c[k - 1]>>]
  BY <1>4
<1> QED
  BY <1>5 DEF Computes

(***************************************************************************)
(* Sums.                                                                   *)
(***************************************************************************)

Row(n) == [1..n -> Int]
Tally(n) == [1..n -> Nat]

(* A sum grows by its next number.                                          *)
LEMMA UptoFacts ==
    ASSUME NEW n \in Nat, NEW f \in Row(n)
    PROVE  /\ Upto(f, 0) = 0
           /\ \A k \in 1..n : Upto(f, k) = Upto(f, k - 1) + f[k]
           /\ \A k \in 0..n : Upto(f, k) \in Int
<1> USE DEF Row
<1> DEFINE Sums(c, m) == c = [j \in 0..m |-> IF j = 0 THEN 0 ELSE c[j - 1] + f[j]]
           sum(m) == CHOOSE c : Sums(c, m)
<1>1. ASSUME NEW m \in 0..n
      PROVE  \E c \in [0..m -> Int] : Sums(c, m)
  <2>1. PICK step \in [(1..m) \X Int -> Int] :
           \A k \in 1..m, v \in Int : step[<<k, v>>] = v + f[k]
    <3> DEFINE step == [x \in (1..m) \X Int |-> x[2] + f[x[1]]]
    <3>1. step \in [(1..m) \X Int -> Int]
      OBVIOUS
    <3>2. \A k \in 1..m, v \in Int : step[<<k, v>>] = v + f[k]
      OBVIOUS
    <3> QED
      BY <3>1, <3>2
  <2>3. PICK c : Computes(c, m, Int, 0, step)
    <3>1. m \in Nat /\ 0 \in Int /\ Steps(step, m, Int)
      BY DEF Steps
    <3> QED
      BY <3>1, ComputedUp
  <2>4. \A k \in 0..m : c[k] = IF k = 0 THEN 0 ELSE c[k - 1] + f[k]
    <3> SUFFICES ASSUME NEW k \in 0..m, k # 0 PROVE c[k] = c[k - 1] + f[k]
      BY <2>3 DEF Computes
    <3>1. c[k - 1] \in Int /\ k \in 1..m
      BY <2>3 DEF Computes
    <3>2. c[k] = step[<<k, c[k - 1]>>]
      BY <2>3 DEF Computes
    <3> QED
      BY <3>1, <3>2, <2>1
  <2>5. c = [j \in 0..m |-> IF j = 0 THEN 0 ELSE c[j - 1] + f[j]]
    BY <2>3, <2>4 DEF Computes
  <2> QED
    BY <2>3, <2>5 DEF Computes
<1>2. ASSUME NEW m \in 0..n
      PROVE  Sums(sum(m), m) /\ Upto(f, m) = sum(m)[m]
  BY <1>1 DEF Upto
<1>3. ASSUME NEW m \in 0..n
      PROVE  /\ sum(m)[0] = 0
             /\ \A k \in 1..m : sum(m)[k] = sum(m)[k - 1] + f[k]
  <2> DEFINE c == sum(m)
  <2>1. c = [j \in 0..m |-> IF j = 0 THEN 0 ELSE c[j - 1] + f[j]]
    BY <1>2
  <2> HIDE DEF c, sum
  <2>2. c[0] = 0 /\ \A k \in 1..m : c[k] = c[k - 1] + f[k]
    BY <2>1
  <2> QED
    BY <2>2 DEF c
<1> HIDE DEF sum, Sums
<1>4. ASSUME NEW m \in 0..n
      PROVE  \A k \in 0..m : sum(m)[k] = sum(n)[k] /\ sum(m)[k] \in Int
  <2> DEFINE S == {k \in 0..m : sum(m)[k] = sum(n)[k] /\ sum(m)[k] \in Int}
  <2>1. 0 \in S
    BY <1>3
  <2>2. \A k \in 0..(m - 1) : k \in S => k + 1 \in S
    <3> SUFFICES ASSUME NEW k \in 0..(m - 1), k \in S PROVE k + 1 \in S
      OBVIOUS
    <3>1. k + 1 \in 1..m /\ k + 1 \in 1..n /\ (k + 1) - 1 = k
      OBVIOUS
    <3>2. sum(m)[k + 1] = sum(m)[k] + f[k + 1] /\ sum(n)[k + 1] = sum(n)[k] + f[k + 1]
      BY <1>3, <3>1
    <3>3. f[k + 1] \in Int
      BY <3>1
    <3> QED
      BY <3>1, <3>2, <3>3
  <2> HIDE DEF S
  <2>3. \A k \in 0..m : k \in S
    <3>1. m \in Nat
      OBVIOUS
    <3> QED
      BY <2>1, <2>2, <3>1, UpFromZero
  <2> QED
    BY <2>3 DEF S
<1>5. \A k \in 0..n : Upto(f, k) = sum(n)[k] /\ sum(n)[k] \in Int
  BY <1>2, <1>4
<1>6. n \in 0..n /\ 0 \in 0..n /\ \A k \in 1..n : k - 1 \in 0..n /\ k \in 0..n
  OBVIOUS
<1> QED
  BY <1>3, <1>5, <1>6

(* Sums of the same numbers are the same.                                   *)
LEMMA UptoSame ==
    ASSUME NEW n \in Nat, NEW f \in Row(n), NEW g \in Row(n), NEW m \in 0..n,
           \A i \in 1..m : f[i] = g[i]
    PROVE  Upto(f, m) = Upto(g, m)
<1> DEFINE S == {k \in 0..m : Upto(f, k) = Upto(g, k)}
<1>1. 0 \in S
  BY UptoFacts
<1>2. \A k \in 0..(m - 1) : k \in S => k + 1 \in S
  <2> SUFFICES ASSUME NEW k \in 0..(m - 1), k \in S PROVE k + 1 \in S
    OBVIOUS
  <2>1. k + 1 \in 1..m /\ k + 1 \in 1..n /\ (k + 1) - 1 = k
    OBVIOUS
  <2>2. Upto(f, k + 1) = Upto(f, k) + f[k + 1] /\ Upto(g, k + 1) = Upto(g, k) + g[k + 1]
    BY <2>1, UptoFacts
  <2> QED
    BY <2>1, <2>2
<1>3. m \in Nat
  OBVIOUS
<1> HIDE DEF S
<1>4. m \in S
  BY <1>1, <1>2, <1>3, UpFromZero
<1> QED
  BY <1>4 DEF S

(* The sum of the sums.                                                      *)
LEMMA UptoPlus ==
    ASSUME NEW n \in Nat, NEW f \in Row(n), NEW g \in Row(n), NEW h \in Row(n),
           \A i \in 1..n : h[i] = f[i] + g[i]
    PROVE  Upto(h, n) = Upto(f, n) + Upto(g, n)
<1> DEFINE S == {k \in 0..n : Upto(h, k) = Upto(f, k) + Upto(g, k)}
<1>1. 0 \in S
  BY UptoFacts
<1>2. \A k \in 0..(n - 1) : k \in S => k + 1 \in S
  <2> SUFFICES ASSUME NEW k \in 0..(n - 1), k \in S PROVE k + 1 \in S
    OBVIOUS
  <2>1. k + 1 \in 1..n /\ (k + 1) - 1 = k /\ k \in 0..n
    OBVIOUS
  <2>2. /\ Upto(f, k + 1) = Upto(f, k) + f[k + 1]
        /\ Upto(g, k + 1) = Upto(g, k) + g[k + 1]
        /\ Upto(h, k + 1) = Upto(h, k) + h[k + 1]
        /\ Upto(f, k) \in Int /\ Upto(g, k) \in Int
    BY <2>1, UptoFacts
  <2>3. f[k + 1] \in Int /\ g[k + 1] \in Int
    BY <2>1 DEF Row
  <2> QED
    BY <2>1, <2>2, <2>3
<1> HIDE DEF S
<1>4. n \in S
  BY <1>1, <1>2, UpFromZero
<1> QED
  BY <1>4 DEF S

(* A sum of larger numbers is larger.                                       *)
LEMMA UptoLeq ==
    ASSUME NEW n \in Nat, NEW f \in Row(n), NEW g \in Row(n),
           \A i \in 1..n : f[i] <= g[i]
    PROVE  Upto(f, n) <= Upto(g, n)
<1> DEFINE S == {k \in 0..n : Upto(f, k) <= Upto(g, k)}
<1>1. 0 \in S
  BY UptoFacts
<1>2. \A k \in 0..(n - 1) : k \in S => k + 1 \in S
  <2> SUFFICES ASSUME NEW k \in 0..(n - 1), k \in S PROVE k + 1 \in S
    OBVIOUS
  <2>1. k + 1 \in 1..n /\ (k + 1) - 1 = k /\ k \in 0..n
    OBVIOUS
  <2>2. /\ Upto(f, k + 1) = Upto(f, k) + f[k + 1] /\ Upto(f, k) \in Int
        /\ Upto(g, k + 1) = Upto(g, k) + g[k + 1] /\ Upto(g, k) \in Int
    BY <2>1, UptoFacts
  <2>3. f[k + 1] \in Int /\ g[k + 1] \in Int /\ f[k + 1] <= g[k + 1]
    BY <2>1 DEF Row
  <2> QED
    BY <2>1, <2>2, <2>3
<1> HIDE DEF S
<1>4. n \in S
  BY <1>1, <1>2, UpFromZero
<1> QED
  BY <1>4 DEF S

(* Natural numbers are integers.                                            *)
LEMMA TallyIsRow == ASSUME NEW n \in Nat, NEW f \in Tally(n) PROVE f \in Row(n)
  BY DEF Row, Tally

(* Sums of natural numbers grow.                                             *)
LEMMA UptoGrows ==
    ASSUME NEW n \in Nat, NEW f \in Tally(n)
    PROVE  /\ \A k \in 0..n : Upto(f, k) \in Nat /\ Upto(f, k) <= Upto(f, n)
           /\ \A i \in 1..n : f[i] <= Upto(f, n)
<1> f \in Row(n)
  BY TallyIsRow
<1>1. \A k \in 1..n : Upto(f, k) = Upto(f, k - 1) + f[k] /\ f[k] \in Nat /\ k - 1 \in 0..n
  <2>1. \A k \in 1..n : Upto(f, k) = Upto(f, k - 1) + f[k]
    BY UptoFacts
  <2>2. \A k \in 1..n : f[k] \in Nat /\ k - 1 \in 0..n
    BY DEF Tally
  <2> QED
    BY <2>1, <2>2
<1>2. \A k \in 0..n : Upto(f, k) \in Nat
  <2> DEFINE S == {k \in 0..n : Upto(f, k) \in Nat}
  <2>1. 0 \in S
    BY UptoFacts
  <2>2. \A k \in 0..(n - 1) : k \in S => k + 1 \in S
    <3> SUFFICES ASSUME NEW k \in 0..(n - 1), k \in S PROVE k + 1 \in S
      OBVIOUS
    <3>1. k + 1 \in 1..n /\ (k + 1) - 1 = k
      OBVIOUS
    <3>2. Upto(f, k + 1) = Upto(f, k) + f[k + 1] /\ f[k + 1] \in Nat
      BY <3>1, <1>1
    <3> QED
      BY <3>1, <3>2
  <2> HIDE DEF S
  <2>3. \A k \in 0..n : k \in S
    BY <2>1, <2>2, UpFromZero
  <2> QED
    BY <2>3 DEF S
<1>3. \A k \in 0..n : Upto(f, k) <= Upto(f, n)
  <2> DEFINE S == {k \in 0..n : \A j \in 0..k : Upto(f, j) <= Upto(f, k)}
  <2>1. 0 \in S
    BY <1>2
  <2>2. \A k \in 0..(n - 1) : k \in S => k + 1 \in S
    <3> SUFFICES ASSUME NEW k \in 0..(n - 1), k \in S, NEW j \in 0..(k + 1)
                 PROVE  Upto(f, j) <= Upto(f, k + 1)
      OBVIOUS
    <3>1. k + 1 \in 1..n /\ (k + 1) - 1 = k /\ k \in 0..n /\ j \in 0..n /\ k + 1 \in 0..n
      OBVIOUS
    <3>2. Upto(f, k + 1) = Upto(f, k) + f[k + 1] /\ f[k + 1] \in Nat
      BY <3>1, <1>1
    <3>3. j # k + 1 => Upto(f, j) <= Upto(f, k)
      OBVIOUS
    <3> QED
      BY <3>1, <3>2, <3>3, <1>2
  <2> HIDE DEF S
  <2>3. n \in S
    BY <2>1, <2>2, UpFromZero
  <2> QED
    BY <2>3 DEF S
<1>4. ASSUME NEW i \in 1..n PROVE f[i] <= Upto(f, n)
  <2>1. Upto(f, i) = Upto(f, i - 1) + f[i] /\ f[i] \in Nat /\ i - 1 \in 0..n /\ i \in 0..n
    BY <1>1
  <2>2. Upto(f, i - 1) \in Nat /\ Upto(f, i) <= Upto(f, n) /\ Upto(f, n) \in Nat
    BY <2>1, <1>2, <1>3
  <2> QED
    BY <2>1, <2>2
<1> QED
  BY <1>2, <1>3, <1>4

(* A sum of zeros is zero.                                                  *)
LEMMA UptoNone ==
    ASSUME NEW n \in Nat, NEW f \in Row(n), NEW m \in 0..n, \A i \in 1..m : f[i] = 0
    PROVE  Upto(f, m) = 0
<1> DEFINE S == {k \in 0..m : Upto(f, k) = 0}
<1>1. 0 \in S
  BY UptoFacts
<1>2. \A k \in 0..(m - 1) : k \in S => k + 1 \in S
  <2> SUFFICES ASSUME NEW k \in 0..(m - 1), k \in S PROVE k + 1 \in S
    OBVIOUS
  <2>1. k + 1 \in 1..m /\ k + 1 \in 1..n /\ (k + 1) - 1 = k
    OBVIOUS
  <2>2. Upto(f, k + 1) = Upto(f, k) + f[k + 1]
    BY <2>1, UptoFacts
  <2> QED
    BY <2>1, <2>2
<1>3. m \in Nat
  OBVIOUS
<1> HIDE DEF S
<1>4. m \in S
  BY <1>1, <1>2, <1>3, UpFromZero
<1> QED
  BY <1>4 DEF S

(* One number, among zeros.                                                  *)
LEMMA UptoOne ==
    ASSUME NEW n \in Nat, NEW f \in Row(n), NEW i \in 1..n,
           \A j \in 1..n : j # i => f[j] = 0
    PROVE  Upto(f, n) = f[i]
<1> DEFINE S == {k \in 0..n : Upto(f, k) = IF k < i THEN 0 ELSE f[i]}
<1>0. f[i] \in Int
  BY DEF Row
<1>1. 0 \in S
  BY UptoFacts
<1>2. \A k \in 0..(n - 1) : k \in S => k + 1 \in S
  <2> SUFFICES ASSUME NEW k \in 0..(n - 1), k \in S PROVE k + 1 \in S
    OBVIOUS
  <2>1. k + 1 \in 1..n /\ (k + 1) - 1 = k
    OBVIOUS
  <2>2. Upto(f, k + 1) = Upto(f, k) + f[k + 1]
    BY <2>1, UptoFacts
  <2>3. k + 1 # i => f[k + 1] = 0
    BY <2>1
  <2> QED
    BY <1>0, <2>1, <2>2, <2>3
<1> HIDE DEF S
<1>4. n \in S
  BY <1>1, <1>2, UpFromZero
<1> QED
  BY <1>4 DEF S

(* Two numbers, among zeros.                                                 *)
LEMMA UptoTwo ==
    ASSUME NEW n \in Nat, NEW f \in Row(n), NEW i \in 1..n, NEW j \in 1..n, i # j,
           \A k \in 1..n : k # i /\ k # j => f[k] = 0
    PROVE  Upto(f, n) = f[i] + f[j]
<1> DEFINE g == [k \in 1..n |-> IF k = i THEN f[k] ELSE 0]
           h == [k \in 1..n |-> IF k = i THEN 0 ELSE f[k]]
<1>1. g \in Row(n) /\ h \in Row(n) /\ \A k \in 1..n : f[k] = g[k] + h[k]
  BY DEF Row
<1>2. /\ g[i] = f[i] /\ \A k \in 1..n : k # i => g[k] = 0
      /\ h[j] = f[j] /\ \A k \in 1..n : k # j => h[k] = 0
  OBVIOUS
<1> HIDE DEF g, h
<1>3. Upto(g, n) = g[i] /\ Upto(h, n) = h[j]
  BY <1>1, <1>2, UptoOne
<1> QED
  BY <1>1, <1>2, <1>3, UptoPlus

(* What Least and AtLeast0 return.                                          *)
LEMMA LeastFacts ==
    ASSUME NEW m \in Int, NEW n \in Int
    PROVE  /\ Least(m, n) \in {m, n} /\ Least(m, n) <= m /\ Least(m, n) <= n
           /\ AtLeast0(m) \in Nat /\ (m >= 0 => AtLeast0(m) = m) /\ (m <= 0 => AtLeast0(m) = 0)
           /\ (m >= 0 /\ n >= 0 => Least(m, n) \in Nat)
  BY DEF Least, AtLeast0

(* What is dealt out is all there is, or all that f takes.                   *)
LEMMA ShareFacts ==
    ASSUME NEW n \in Nat, NEW f \in Tally(n), NEW m \in Nat
    PROVE  /\ Share(f, m) \in Tally(n)
           /\ \A i \in 1..n : Share(f, m)[i] <= f[i]
           /\ Upto(Share(f, m), n) = Least(m, Upto(f, n))
<1> f \in Row(n)
  BY TallyIsRow
<1> DEFINE g == Share(f, m)
<1>1. DOMAIN f = 1..n /\ \A i \in 1..n : f[i] \in Nat
  BY DEF Tally
<1>2. \A i \in 1..n : Upto(f, i - 1) \in Nat
  BY UptoGrows
<1>3. /\ DOMAIN g = 1..n /\ g = [i \in 1..n |-> g[i]]
      /\ \A i \in 1..n : g[i] = Least(f[i], AtLeast0(m - Upto(f, i - 1)))
  BY <1>1 DEF Share
<1> HIDE DEF g
<1>4. \A i \in 1..n : g[i] \in Nat /\ g[i] <= f[i]
  BY <1>1, <1>2, <1>3 DEF Least, AtLeast0
<1>5. g \in Tally(n)
  BY <1>3, <1>4 DEF Tally
<1>6. g \in Row(n)
  BY <1>5, TallyIsRow
<1> DEFINE S == {k \in 0..n : Upto(g, k) = Least(m, Upto(f, k))}
<1>7. 0 \in S
  BY <1>6, UptoFacts DEF Least
<1>8. \A k \in 0..(n - 1) : k \in S => k + 1 \in S
  <2> SUFFICES ASSUME NEW k \in 0..(n - 1), k \in S PROVE k + 1 \in S
    OBVIOUS
  <2>1. k + 1 \in 1..n /\ (k + 1) - 1 = k
    OBVIOUS
  <2>2. Upto(f, k + 1) = Upto(f, k) + f[k + 1] /\ Upto(g, k + 1) = Upto(g, k) + g[k + 1]
    BY <1>6, <2>1, UptoFacts
  <2>3. g[k + 1] = Least(f[k + 1], AtLeast0(m - Upto(f, k)))
    BY <1>3, <2>1
  <2>4. Upto(f, k) \in Nat /\ f[k + 1] \in Nat
    BY <1>1, <1>2, <2>1
  <2>5. Upto(g, k) = Least(m, Upto(f, k))
    OBVIOUS
  <2> QED
    BY <2>1, <2>2, <2>3, <2>4, <2>5 DEF Least, AtLeast0
<1> HIDE DEF S
<1>9. n \in S
  BY <1>7, <1>8, UpFromZero
<1> QED
  BY <1>4, <1>5, <1>9 DEF S, g

(* What f has lies, place by place and to no two at once, within what g has.  *)
LEMMA UptoInto ==
    ASSUME NEW m \in Nat, NEW f \in Tally(m), NEW n \in Nat, NEW g \in Tally(n), NEW s,
           \A i \in 1..m : f[i] # 0 => s[i] \in 1..n /\ f[i] <= g[s[i]],
           \A i, j \in 1..m : f[i] # 0 /\ f[j] # 0 /\ i # j => s[i] # s[j]
    PROVE  Upto(f, m) <= Upto(g, n)
<1> f \in Row(m) /\ g \in Row(n)
  BY TallyIsRow
<1> DEFINE Met(k) == {s[i] : i \in {i \in 1..k : f[i] # 0}}
           part(k) == [j \in 1..n |-> IF j \in Met(k) THEN g[j] ELSE 0]
           S == {k \in 0..m : Upto(f, k) <= Upto(part(k), n)}
<1>1. \A j \in 1..n : g[j] \in Nat
  BY DEF Tally
<1>2. \A i \in 1..m : f[i] \in Nat
  BY DEF Tally
<1>3. \A k : part(k) \in Tally(n) /\ part(k) \in Row(n)
  BY <1>1 DEF Tally, Row
<1>4. 0 \in S
  <2>1. Upto(part(0), n) \in Nat
    <3> HIDE DEF part
    <3>1. part(0) \in Tally(n) /\ n \in 0..n
      BY <1>3
    <3> QED
      BY <3>1, UptoGrows
  <2> HIDE DEF part
  <2>2. Upto(f, 0) = 0
    BY UptoFacts
  <2> QED
    BY <2>1, <2>2
<1>5. \A k \in 0..(m - 1) : k \in S => k + 1 \in S
  <2> SUFFICES ASSUME NEW k \in 0..(m - 1), k \in S PROVE k + 1 \in S
    OBVIOUS
  <2>1. k + 1 \in 1..m /\ (k + 1) - 1 = k /\ k \in 0..m /\ k + 1 \in 0..m /\ n \in 0..n
    OBVIOUS
  <2>2. Upto(f, k + 1) = Upto(f, k) + f[k + 1] /\ Upto(f, k) \in Int
    BY <2>1, UptoFacts
  <2>3. \A i \in 1..(k + 1) : i # k + 1 => i \in 1..k
    OBVIOUS
  <2>4. CASE f[k + 1] = 0
    <3>1. Met(k + 1) = Met(k)
      BY <2>3, <2>4
    <3> HIDE DEF Met
    <3> QED
      BY <2>1, <2>2, <2>4, <3>1
  <2>5. CASE f[k + 1] # 0
    <3> DEFINE j == s[k + 1]
               one == [x \in 1..n |-> IF x = j THEN g[x] ELSE 0]
    <3>1. j \in 1..n /\ f[k + 1] <= g[j]
      BY <2>1, <2>5
    <3>2. Met(k + 1) = Met(k) \cup {j}
      <4>1. k + 1 \in 1..(k + 1) /\ \A i \in 1..k : i \in 1..(k + 1)
        OBVIOUS
      <4> QED
        BY <2>3, <2>5, <4>1
    <3>3. j \notin Met(k)
      <4>1. \A i \in 1..k : i \in 1..m /\ i # k + 1
        OBVIOUS
      <4> QED
        BY <2>1, <2>5, <4>1
    <3>4. \A x \in 1..n : part(k + 1)[x] = part(k)[x] + one[x]
      <4> HIDE DEF Met, j
      <4> QED
        BY <1>1, <3>2, <3>3
    <3>5. one \in Row(n) /\ one[j] = g[j] /\ \A x \in 1..n : x # j => one[x] = 0
      BY <1>1, <3>1 DEF Row
    <3>6. part(k) \in Row(n) /\ part(k + 1) \in Row(n)
      BY <1>3
    <3> HIDE DEF part, one, j
    <3>7. Upto(part(k + 1), n) = Upto(part(k), n) + Upto(one, n)
      BY <3>4, <3>5, <3>6, UptoPlus
    <3>8. Upto(one, n) = g[j]
      BY <3>1, <3>5, UptoOne
    <3>9. Upto(part(k), n) \in Int /\ g[j] \in Nat /\ f[k + 1] \in Nat
      BY <2>1, <3>1, <3>6, <1>1, <1>2, UptoFacts
    <3> QED
      BY <2>1, <2>2, <3>1, <3>7, <3>8, <3>9
  <2> QED
    BY <2>4, <2>5
<1>6. m \in S
  <2>1. m \in 0..m
    OBVIOUS
  <2> HIDE DEF S, part, Met
  <2> QED
    BY <1>4, <1>5, <2>1, UpFromZero
<1>7. Upto(f, m) <= Upto(part(m), n)
  BY <1>6 DEF S
<1>8. \A j \in 1..n : part(m)[j] <= g[j]
  BY <1>1
<1>9. part(m) \in Row(n)
  BY <1>3
<1> HIDE DEF part
<1>10. Upto(part(m), n) <= Upto(g, n)
  BY <1>8, <1>9, UptoLeq
<1>11. Upto(f, m) \in Int /\ Upto(part(m), n) \in Int /\ Upto(g, n) \in Int
  <2>1. m \in 0..m /\ n \in 0..n
    OBVIOUS
  <2> QED
    BY <1>9, <2>1, UptoFacts
<1> QED
  BY <1>7, <1>10, <1>11

(* Numbers below others that add up to as much are those others.             *)
LEMMA UptoFull ==
    ASSUME NEW n \in Nat, NEW f \in Tally(n), NEW g \in Tally(n),
           \A i \in 1..n : g[i] <= f[i], Upto(g, n) = Upto(f, n)
    PROVE  \A i \in 1..n : g[i] = f[i]
<1> f \in Row(n) /\ g \in Row(n)
  BY TallyIsRow
<1> DEFINE h == [i \in 1..n |-> f[i] - g[i]]
<1>1. \A i \in 1..n : f[i] \in Nat /\ g[i] \in Nat
  BY DEF Tally
<1>2. h \in Tally(n) /\ \A i \in 1..n : f[i] = g[i] + h[i] /\ h[i] = f[i] - g[i]
  BY <1>1 DEF Tally
<1> HIDE DEF h
<1>3. h \in Row(n)
  BY <1>2, TallyIsRow
<1>4. Upto(f, n) = Upto(g, n) + Upto(h, n)
  BY <1>2, <1>3, UptoPlus
<1>5. Upto(f, n) \in Nat /\ Upto(g, n) \in Nat /\ Upto(h, n) \in Nat
  <2>1. n \in 0..n
    OBVIOUS
  <2> QED
    BY <1>2, <2>1, UptoGrows
<1>6. \A i \in 1..n : h[i] <= Upto(h, n)
  BY <1>2, UptoGrows
<1>7. Upto(h, n) = 0
  BY <1>4, <1>5
<1> QED
  BY <1>1, <1>2, <1>6, <1>7

(* The row without its k-th number.                                          *)
LEMMA UptoWithout ==
    ASSUME NEW n \in Nat, NEW f \in Row(n), NEW k \in 1..n, NEW g \in Row(n - 1),
           \A i \in 1..(n - 1) : g[i] = IF i < k THEN f[i] ELSE f[i + 1]
    PROVE  Upto(g, n - 1) = Upto(f, n) - f[k]
<1> DEFINE S == {j \in 0..(n - 1) : Upto(g, j) = IF j < k THEN Upto(f, j) ELSE Upto(f, j + 1) - f[k]}
<1>0. n - 1 \in Nat /\ \A i \in 1..n : f[i] \in Int
  BY DEF Row
<1>1. 0 \in S
  BY <1>0, UptoFacts
<1>2. \A j \in 0..((n - 1) - 1) : j \in S => j + 1 \in S
  <2> SUFFICES ASSUME NEW j \in 0..((n - 1) - 1), j \in S PROVE j + 1 \in S
    OBVIOUS
  <2>1. j + 1 \in 1..(n - 1) /\ j + 1 \in 1..n /\ (j + 1) - 1 = j /\ j \in 0..n
        /\ (j + 1) + 1 \in 1..n /\ ((j + 1) + 1) - 1 = j + 1
    OBVIOUS
  <2>2. Upto(g, j + 1) = Upto(g, j) + g[j + 1]
    BY <1>0, <2>1, UptoFacts
  <2>3. /\ Upto(f, j + 1) = Upto(f, j) + f[j + 1]
        /\ Upto(f, (j + 1) + 1) = Upto(f, j + 1) + f[(j + 1) + 1]
        /\ Upto(f, j) \in Int /\ f[j + 1] \in Int /\ f[(j + 1) + 1] \in Int /\ f[k] \in Int
    BY <1>0, <2>1, UptoFacts
  <2>4. g[j + 1] = IF j + 1 < k THEN f[j + 1] ELSE f[(j + 1) + 1]
    BY <2>1
  <2>5. Upto(g, j) = IF j < k THEN Upto(f, j) ELSE Upto(f, j + 1) - f[k]
    OBVIOUS
  <2>6. CASE j + 1 < k
    BY <2>1, <2>2, <2>3, <2>4, <2>5, <2>6
  <2>7. CASE j + 1 = k
    BY <2>1, <2>2, <2>3, <2>4, <2>5, <2>7
  <2>8. CASE j + 1 > k
    BY <2>1, <2>2, <2>3, <2>4, <2>5, <2>8
  <2> QED
    BY <2>6, <2>7, <2>8
<1> HIDE DEF S
<1>3. n - 1 \in S
  BY <1>0, <1>1, <1>2, UpFromZero
<1>4. CASE k = n
  <2>1. Upto(g, n - 1) = Upto(f, n - 1) /\ Upto(f, n) = Upto(f, n - 1) + f[n]
    BY <1>3, <1>4, UptoFacts DEF S
  <2>2. Upto(f, n - 1) \in Int /\ f[n] \in Int
    BY <1>0, <1>4, UptoFacts
  <2> QED
    BY <1>4, <2>1, <2>2
<1>5. CASE k # n
  <2>1. (n - 1) + 1 = n /\ ~(n - 1 < k)
    BY <1>5
  <2> QED
    BY <1>3, <2>1 DEF S
<1> QED
  BY <1>4, <1>5

(* Some of the numbers from 1 to n have a least and a greatest.              *)
LEMMA Smallest ==
    ASSUME NEW n \in Nat, NEW T, T \subseteq 1..n, T # {}
    PROVE  \E j \in T : \A k \in T : j <= k
<1>1. T \subseteq Nat
  OBVIOUS
<1>2. PICK j \in T : \A k \in T : ~(<<k, j>> \in OpToRel(<, Nat))
  BY <1>1, NatLessThanWellFounded, WFMin
<1>3. \A k \in T : (<<k, j>> \in OpToRel(<, Nat)) <=> k < j
  BY <1>1 DEF OpToRel
<1>4. \A k \in T : ~(k < j)
  BY <1>2, <1>3, Zenon
<1> QED
  BY <1>1, <1>4

(* A set of positions that is not empty has a last one.                     *)
LEMMA Greatest ==
    ASSUME NEW n \in Nat, NEW T, T \subseteq 1..n, T # {}
    PROVE  \E j \in T : \A k \in T : k <= j
<1> DEFINE S == {k \in 0..n : T \cap (1..k) = {} \/ \E j \in T : j <= k /\ \A i \in T : i <= k => i <= j}
<1>1. 0 \in S
  OBVIOUS
<1>2. \A k \in 0..(n - 1) : k \in S => k + 1 \in S
  <2> SUFFICES ASSUME NEW k \in 0..(n - 1), k \in S PROVE k + 1 \in S
    OBVIOUS
  <2>1. \A i \in T : i <= k + 1 => i <= k \/ i = k + 1
    OBVIOUS
  <2>2. CASE k + 1 \in T
    BY <2>1, <2>2
  <2>3. CASE k + 1 \notin T
    <3>1. CASE T \cap (1..k) = {}
      BY <2>1, <2>3, <3>1
    <3>2. CASE \E j \in T : j <= k /\ \A i \in T : i <= k => i <= j
      <4>1. PICK j \in T : j <= k /\ \A i \in T : i <= k => i <= j
        BY <3>2
      <4>2. j <= k + 1 /\ \A i \in T : i <= k + 1 => i <= j
        BY <2>1, <2>3, <4>1
      <4> QED
        BY <4>2
    <3> QED
      BY <3>1, <3>2
  <2> QED
    BY <2>2, <2>3
<1> HIDE DEF S
<1>3. n \in S
  BY <1>1, <1>2, UpFromZero
<1>4. T \cap (1..n) # {} /\ \A i \in T : i <= n
  <2>1. T \cap (1..n) = T
    OBVIOUS
  <2>2. \A i \in T : i <= n
    OBVIOUS
  <2> QED
    BY <2>1, <2>2
<1>5. PICK j \in T : \A i \in T : i <= n => i <= j
  BY <1>3, <1>4 DEF S
<1> QED
  BY <1>4, <1>5

(***************************************************************************)
(* Slots.                                                                  *)
(***************************************************************************)

(* A function over 1..n is a sequence of length n.                          *)
LEMMA RowSeq ==
    ASSUME NEW n \in Nat, NEW S, NEW t, t = [i \in 1..n |-> t[i]], \A i \in 1..n : t[i] \in S
    PROVE  t \in Seq(S) /\ Len(t) = n /\ DOMAIN t = 1..n
<1>1. t \in [1..n -> S]
  OBVIOUS
<1> QED
  BY <1>1, LenProperties, SeqDef

(* Stacks in a row: the slots of a place, a pile, the inputs of a recipe.    *)
Counted(s) ==
    /\ Len(s) \in Nat /\ DOMAIN s = 1..Len(s) /\ s = [i \in 1..Len(s) |-> s[i]]
    /\ \A i \in 1..Len(s) : s[i].count \in Nat

Slots == {s \in Seq(Slot) : WellFormed(s)}

(* What the slots of a place hold.                                          *)
LEMMA SlotsFacts ==
    ASSUME NEW s \in Slots
    PROVE  /\ Counted(s) /\ s \in Seq(Slot)
           /\ \A i \in 1..Len(s) : /\ s[i] \in Slot /\ s[i].item \in Items \cup {None}
                                   /\ s[i].count \in Nat /\ (s[i].item = None <=> s[i].count = 0)
<1>1. s \in Seq(Slot) /\ Len(s) \in Nat /\ DOMAIN s = 1..Len(s) /\ s = [i \in 1..Len(s) |-> s[i]]
  BY LenProperties DEF Slots
<1>2. \A i \in 1..Len(s) : s[i] \in Slot
  BY <1>1
<1>3. \A i \in 1..Len(s) : s[i].item = None <=> s[i].count = 0
  BY <1>1 DEF Slots, WellFormed
<1> QED
  BY <1>1, <1>2, <1>3 DEF Counted, Slot

(* Slots, from their cells.                                                 *)
LEMMA SlotsIntro ==
    ASSUME NEW n \in Nat, NEW t, t = [i \in 1..n |-> t[i]],
           \A i \in 1..n : t[i] \in Slot /\ (t[i].item = None <=> t[i].count = 0)
    PROVE  t \in Slots /\ Len(t) = n
<1>1. t \in Seq(Slot) /\ Len(t) = n /\ DOMAIN t = 1..n
  BY RowSeq
<1> QED
  BY <1>1 DEF Slots, WellFormed

(* What a pile holds can be counted.                                        *)
LEMMA TakenCounted ==
    ASSUME NEW s \in Seq(Taken)
    PROVE  /\ Counted(s)
           /\ \A i \in 1..Len(s) : s[i] \in Taken /\ s[i].item \in Items /\ s[i].count \in Nat \ {0}
<1>1. Len(s) \in Nat /\ DOMAIN s = 1..Len(s) /\ s = [i \in 1..Len(s) |-> s[i]]
  BY LenProperties
<1>2. \A i \in 1..Len(s) : s[i] \in Taken
  BY <1>1
<1> QED
  BY <1>1, <1>2 DEF Counted, Taken

(* What a recipe takes and makes.                                           *)
LEMMA InputsCounted ==
    ASSUME NEW r \in Recipes
    PROVE  /\ Counted(r.inputs) /\ r.output \in Items /\ r.amount \in Nat /\ r.shaped \in BOOLEAN
           /\ DOMAIN r.inputs = 1..Len(r.inputs) /\ Len(r.inputs) \in Nat
           /\ \A k \in 1..Len(r.inputs) :
                 /\ r.inputs[k].item \in Items /\ r.inputs[k].slot \in Nat
                 /\ r.inputs[k].count \in 1..StackMax /\ r.inputs[k].count \in Nat \ {0}
<1>1. r \in Recipe
  BY ItemAssumption
<1>2. r.inputs \in Seq(Input) /\ r.output \in Items /\ r.amount \in Nat /\ r.shaped \in BOOLEAN
  BY <1>1 DEF Recipe
<1> DEFINE s == r.inputs
<1>3. s \in Seq(Input)
  BY <1>2
<1> HIDE DEF s
<1>4. Len(s) \in Nat /\ DOMAIN s = 1..Len(s) /\ s = [i \in 1..Len(s) |-> s[i]]
  BY <1>3, LenProperties
<1>5. \A i \in 1..Len(s) : s[i] \in Input
  BY <1>3, <1>4
<1>6. \A i \in 1..Len(s) : /\ s[i].item \in Items /\ s[i].slot \in Nat
                           /\ s[i].count \in 1..StackMax /\ s[i].count \in Nat \ {0}
  BY <1>5, SizeAssumption DEF Input
<1>7. Counted(s)
  BY <1>4, <1>6 DEF Counted
<1> QED
  BY <1>2, <1>4, <1>6, <1>7 DEF s

(* The stacks of d, and how many of d there are.                            *)
LEMMA HavingFacts ==
    ASSUME NEW s, Counted(s), NEW d
    PROVE  /\ Having(s, d) \in Tally(Len(s)) /\ Having(s, d) \in Row(Len(s)) /\ CountIn(s, d) \in Nat
           /\ \A i \in 1..Len(s) : Having(s, d)[i] = IF s[i].item = d THEN s[i].count ELSE 0
           /\ \A i \in 1..Len(s) : s[i].item = d => s[i].count <= CountIn(s, d)
<1> DEFINE n == Len(s)
           h == Having(s, d)
<1>1. n \in Nat /\ n \in 0..n /\ DOMAIN s = 1..n /\ \A i \in 1..n : s[i].count \in Nat
  BY DEF Counted
<1>2. h \in Tally(n) /\ \A i \in 1..n : h[i] = IF s[i].item = d THEN s[i].count ELSE 0
  BY <1>1 DEF Having, Tally
<1>3. CountIn(s, d) = Upto(h, n)
  BY DEF CountIn
<1> HIDE DEF n, h
<1>4. h \in Row(n) /\ Upto(h, n) \in Nat /\ \A i \in 1..n : h[i] <= Upto(h, n)
  BY <1>1, <1>2, UptoGrows, TallyIsRow
<1> QED
  BY <1>2, <1>3, <1>4 DEF n, h

(* The same of each slot, the same in all.                                   *)
LEMMA CountSame ==
    ASSUME NEW s, NEW t, Counted(s), Counted(t), Len(s) = Len(t), NEW d,
           \A i \in 1..Len(s) : Having(s, d)[i] = Having(t, d)[i]
    PROVE  CountIn(s, d) = CountIn(t, d)
<1>1. Len(s) \in Nat /\ Len(s) \in 0..Len(s)
  BY DEF Counted
<1>2. Having(s, d) \in Row(Len(s)) /\ Having(t, d) \in Row(Len(s))
  BY HavingFacts
<1>3. Upto(Having(s, d), Len(s)) = Upto(Having(t, d), Len(s))
  BY <1>1, <1>2, UptoSame
<1> QED
  BY <1>3 DEF CountIn

(* One slot is written.                                                      *)
LEMMA CountOne ==
    ASSUME NEW s, NEW t, Counted(s), Counted(t), Len(s) = Len(t), NEW d, NEW i \in 1..Len(s),
           \A j \in 1..Len(s) : j # i => t[j] = s[j]
    PROVE  CountIn(t, d) = CountIn(s, d) + Having(t, d)[i] - Having(s, d)[i]
<1> DEFINE n == Len(s)
           f == Having(s, d)
           g == Having(t, d)
           h == [j \in 1..n |-> g[j] - f[j]]
<1>1. n \in Nat /\ n \in 0..n
  BY DEF Counted
<1>2. f \in Row(n) /\ g \in Row(n)
  BY HavingFacts
<1>3. \A j \in 1..n : f[j] \in Int /\ g[j] \in Int
  BY <1>2 DEF Row
<1>4. \A j \in 1..n : j # i => f[j] = g[j]
  BY HavingFacts
<1>5. CountIn(s, d) = Upto(f, n) /\ CountIn(t, d) = Upto(g, n)
  BY DEF CountIn
<1> HIDE DEF f, g
<1>6. h \in Row(n) /\ \A j \in 1..n : h[j] = g[j] - f[j] /\ g[j] = f[j] + h[j]
  BY <1>3 DEF Row
<1> HIDE DEF h, n
<1>7. Upto(g, n) = Upto(f, n) + Upto(h, n)
  BY <1>1, <1>2, <1>6, UptoPlus
<1>8. Upto(h, n) = h[i]
  <2>1. \A j \in 1..n : j # i => h[j] = 0
    BY <1>3, <1>4, <1>6
  <2> QED
    BY <1>1, <1>6, <2>1, UptoOne DEF n
<1>9. Upto(f, n) \in Int /\ i \in 1..n
  BY <1>1, <1>2, UptoFacts DEF n
<1> QED
  BY <1>3, <1>5, <1>6, <1>7, <1>8, <1>9 DEF f, g, n

(* Two slots are written.                                                    *)
LEMMA CountTwo ==
    ASSUME NEW s, NEW t, Counted(s), Counted(t), Len(s) = Len(t), NEW d,
           NEW i \in 1..Len(s), NEW j \in 1..Len(s), i # j,
           \A k \in 1..Len(s) : k # i /\ k # j => t[k] = s[k]
    PROVE  CountIn(t, d) = CountIn(s, d) + (Having(t, d)[i] - Having(s, d)[i])
                                         + (Having(t, d)[j] - Having(s, d)[j])
<1> DEFINE n == Len(s)
           f == Having(s, d)
           g == Having(t, d)
           h == [k \in 1..n |-> g[k] - f[k]]
<1>1. n \in Nat /\ n \in 0..n
  BY DEF Counted
<1>2. f \in Row(n) /\ g \in Row(n)
  BY HavingFacts
<1>3. \A k \in 1..n : f[k] \in Int /\ g[k] \in Int
  BY <1>2 DEF Row
<1>4. \A k \in 1..n : k # i /\ k # j => f[k] = g[k]
  BY HavingFacts
<1>5. CountIn(s, d) = Upto(f, n) /\ CountIn(t, d) = Upto(g, n)
  BY DEF CountIn
<1> HIDE DEF f, g
<1>6. h \in Row(n) /\ \A k \in 1..n : h[k] = g[k] - f[k] /\ g[k] = f[k] + h[k]
  BY <1>3 DEF Row
<1> HIDE DEF h, n
<1>7. Upto(g, n) = Upto(f, n) + Upto(h, n)
  BY <1>1, <1>2, <1>6, UptoPlus
<1>8. Upto(h, n) = h[i] + h[j]
  <2>1. \A k \in 1..n : k # i /\ k # j => h[k] = 0
    BY <1>3, <1>4, <1>6
  <2> QED
    BY <1>1, <1>6, <2>1, UptoTwo DEF n
<1>9. Upto(f, n) \in Int /\ i \in 1..n /\ j \in 1..n
  BY <1>1, <1>2, UptoFacts DEF n
<1> QED
  BY <1>3, <1>5, <1>6, <1>7, <1>8, <1>9 DEF f, g, n

(***************************************************************************)
(* What is added and taken.                                                *)
(***************************************************************************)

(* The room of the stacks of d, and of the empty slots.                     *)
LEMMA RoomFacts ==
    ASSUME NEW s \in Slots, NEW d \in Items
    PROVE  LET n == Len(s) IN
           /\ n \in Nat /\ n \in 0..n /\ DOMAIN s = 1..n
           /\ InStacks(s, d) \in Tally(n) /\ InFree(s) \in Tally(n)
           /\ Upto(InStacks(s, d), n) \in Nat /\ Upto(InFree(s), n) \in Nat
           /\ \A i \in 1..n :
                 /\ InStacks(s, d)[i] = IF s[i].item = d THEN AtLeast0(StackMax - s[i].count) ELSE 0
                 /\ InFree(s)[i] = IF s[i].item = None THEN StackMax ELSE 0
<1> DEFINE n == Len(s)
<1>1. n \in Nat /\ n \in 0..n /\ DOMAIN s = 1..n /\ \A i \in 1..n : s[i].count \in Nat
  BY SlotsFacts DEF Counted
<1>2. StackMax \in Nat
  BY SizeAssumption
<1>3. \A i \in 1..n : AtLeast0(StackMax - s[i].count) \in Nat
  BY <1>1, <1>2 DEF AtLeast0
<1>4. InStacks(s, d) \in Tally(n) /\ InFree(s) \in Tally(n)
  BY <1>1, <1>2, <1>3 DEF InStacks, InFree, Tally
<1>5. \A i \in 1..n :
         /\ InStacks(s, d)[i] = IF s[i].item = d THEN AtLeast0(StackMax - s[i].count) ELSE 0
         /\ InFree(s)[i] = IF s[i].item = None THEN StackMax ELSE 0
  BY <1>1 DEF InStacks, InFree
<1> HIDE DEF n
<1>6. Upto(InStacks(s, d), n) \in Nat /\ Upto(InFree(s), n) \in Nat
  BY <1>1, <1>4, UptoGrows
<1> QED
  BY <1>1, <1>4, <1>5, <1>6 DEF n

(* An addition to slot i goes to a stack of d or to an empty slot, and no
   further than StackMax.                                                    *)
LEMMA PouredShape ==
    ASSUME NEW s \in Slots, NEW d \in Items, NEW m \in Nat
    PROVE  LET t == Poured(s, d, m)
               n == Len(s)
               first == Share(InStacks(s, d), m)
               rest == Share(InFree(s), AtLeast0(m - Upto(InStacks(s, d), n)))
           IN
           /\ t \in Slots /\ Len(t) = n
           /\ first \in Tally(n) /\ rest \in Tally(n)
           /\ Upto(first, n) = Least(m, Upto(InStacks(s, d), n))
           /\ Upto(rest, n) = Least(AtLeast0(m - Upto(InStacks(s, d), n)), Upto(InFree(s), n))
           /\ \A i \in 1..n :
                 /\ first[i] <= InStacks(s, d)[i] /\ rest[i] <= InFree(s)[i]
                 /\ t[i] = IF first[i] + rest[i] = 0 THEN s[i]
                           ELSE [item |-> d, count |-> s[i].count + first[i] + rest[i]]
<1> DEFINE n == Len(s)
           f == InStacks(s, d)
           r == InFree(s)
           first == Share(f, m)
           rest == Share(r, AtLeast0(m - Upto(f, n)))
           t == Poured(s, d, m)
<1>1. /\ n \in Nat /\ DOMAIN s = 1..n /\ f \in Tally(n) /\ r \in Tally(n)
      /\ Upto(f, n) \in Nat /\ Upto(r, n) \in Nat
  BY RoomFacts
<1>2. AtLeast0(m - Upto(f, n)) \in Nat
  BY <1>1 DEF AtLeast0
<1>3. /\ first \in Tally(n) /\ rest \in Tally(n)
      /\ Upto(first, n) = Least(m, Upto(f, n))
      /\ Upto(rest, n) = Least(AtLeast0(m - Upto(f, n)), Upto(r, n))
      /\ \A i \in 1..n : first[i] <= f[i] /\ rest[i] <= r[i]
  <2> HIDE DEF f, r, n
  <2> QED
    BY <1>1, <1>2, ShareFacts
<1>4. /\ t = [i \in 1..n |-> t[i]]
      /\ \A i \in 1..n : t[i] = IF first[i] + rest[i] = 0 THEN s[i]
                                ELSE [item |-> d, count |-> s[i].count + first[i] + rest[i]]
  BY <1>1 DEF Poured
<1>5. \A i \in 1..n : first[i] \in Nat /\ rest[i] \in Nat
  BY <1>3 DEF Tally
<1> HIDE DEF t, first, rest, f, r, n
<1>6. ASSUME NEW i \in 1..n
      PROVE  t[i] \in Slot /\ (t[i].item = None <=> t[i].count = 0)
  <2>1. s[i] \in Slot /\ (s[i].item = None <=> s[i].count = 0) /\ s[i].count \in Nat
    BY SlotsFacts DEF n
  <2>2. first[i] \in Nat /\ rest[i] \in Nat
    BY <1>5
  <2>3. CASE first[i] + rest[i] = 0
    BY <1>4, <2>1, <2>3
  <2>4. CASE first[i] + rest[i] # 0
    <3>1. t[i] = [item |-> d, count |-> s[i].count + first[i] + rest[i]]
      BY <1>4, <2>4
    <3>2. s[i].count + first[i] + rest[i] \in Nat /\ s[i].count + first[i] + rest[i] # 0
      BY <2>1, <2>2, <2>4
    <3>3. d # None /\ d \in Items
      BY ItemAssumption
    <3> QED
      BY <3>1, <3>2, <3>3 DEF Slot
  <2> QED
    BY <2>3, <2>4
<1>7. t \in Slots /\ Len(t) = n
  BY <1>1, <1>4, <1>6, SlotsIntro
<1> QED
  BY <1>3, <1>4, <1>7 DEF t, first, rest, f, r, n

(* m of d added: what does not fit is left over, no other item changes, and
   the slots that change are stacks of d that grew.                          *)
LEMMA PouredFacts ==
    ASSUME NEW s \in Slots, NEW d \in Items, NEW m \in Nat
    PROVE  LET t == Poured(s, d, m) IN
           /\ t \in Slots /\ Len(t) = Len(s)
           /\ Spilt(s, d, m) \in 0..m
           /\ CountIn(t, d) = CountIn(s, d) + m - Spilt(s, d, m)
           /\ \A e \in Items : e # d => CountIn(t, e) = CountIn(s, e)
           /\ \A i \in 1..Len(s) : t[i] # s[i] =>
                 /\ t[i].item = d /\ t[i].count > s[i].count
                 /\ s[i].item \in {d, None}
<1> DEFINE n == Len(s)
           f == InStacks(s, d)
           r == InFree(s)
           first == Share(f, m)
           rest == Share(r, AtLeast0(m - Upto(f, n)))
           t == Poured(s, d, m)
           more == [i \in 1..n |-> first[i] + rest[i]]
<1>1. /\ n \in Nat /\ n \in 0..n /\ f \in Tally(n) /\ r \in Tally(n)
      /\ Upto(f, n) \in Nat /\ Upto(r, n) \in Nat
      /\ \A i \in 1..n : /\ f[i] = IF s[i].item = d THEN AtLeast0(StackMax - s[i].count) ELSE 0
                         /\ r[i] = IF s[i].item = None THEN StackMax ELSE 0
  BY RoomFacts
<1>2. /\ t \in Slots /\ Len(t) = n
      /\ first \in Tally(n) /\ rest \in Tally(n)
      /\ Upto(first, n) = Least(m, Upto(f, n))
      /\ Upto(rest, n) = Least(AtLeast0(m - Upto(f, n)), Upto(r, n))
      /\ \A i \in 1..n :
            /\ first[i] <= f[i] /\ rest[i] <= r[i]
            /\ t[i] = IF first[i] + rest[i] = 0 THEN s[i]
                      ELSE [item |-> d, count |-> s[i].count + first[i] + rest[i]]
  BY PouredShape
<1>3. Spilt(s, d, m) = AtLeast0(m - Upto(f, n) - Upto(r, n))
  BY DEF Spilt
<1>4. /\ \A i \in 1..n : first[i] \in Nat /\ rest[i] \in Nat
  BY <1>2 DEF Tally
<1> HIDE DEF t, first, rest, f, r
<1>5. more \in Row(n) /\ \A i \in 1..n : more[i] = first[i] + rest[i]
  BY <1>4 DEF Row
<1> HIDE DEF more
<1>6. first \in Row(n) /\ rest \in Row(n)
  BY <1>1, <1>2, TallyIsRow
<1>7. Upto(more, n) = Upto(first, n) + Upto(rest, n)
  BY <1>1, <1>5, <1>6, UptoPlus
<1>8. Spilt(s, d, m) \in 0..m /\ Upto(more, n) = m - Spilt(s, d, m)
  BY <1>1, <1>2, <1>3, <1>7 DEF Least, AtLeast0
<1>9. d # None
  BY ItemAssumption
<1>10. \A i \in 1..n : s[i].count \in Nat /\ (s[i].item = None <=> s[i].count = 0)
  BY SlotsFacts
<1>11. ASSUME NEW i \in 1..n, first[i] + rest[i] # 0
       PROVE  /\ t[i].item = d /\ t[i].count = s[i].count + first[i] + rest[i]
              /\ t[i].count > s[i].count /\ s[i].item \in {d, None}
  <2>1. t[i] = [item |-> d, count |-> s[i].count + first[i] + rest[i]]
    BY <1>2, <1>11
  <2>2. first[i] # 0 \/ rest[i] # 0
    BY <1>4, <1>11
  <2>3. first[i] <= f[i] /\ rest[i] <= r[i] /\ first[i] \in Nat /\ rest[i] \in Nat
    BY <1>2, <1>4
  <2>4. s[i].item \notin {d, None} => f[i] = 0 /\ r[i] = 0
    BY <1>1
  <2>5. s[i].item \in {d, None}
    BY <2>2, <2>3, <2>4
  <2>6. s[i].count + first[i] + rest[i] > s[i].count
    BY <1>10, <2>2, <2>3
  <2> QED
    BY <2>1, <2>5, <2>6
<1>12. Counted(s) /\ Counted(t)
  BY <1>2, SlotsFacts
<1>13. CountIn(t, d) = CountIn(s, d) + Upto(more, n)
  <2>1. Having(s, d) \in Row(n) /\ Having(t, d) \in Row(n)
    BY <1>2, <1>12, HavingFacts
  <2>2. ASSUME NEW i \in 1..n PROVE Having(t, d)[i] = Having(s, d)[i] + more[i]
    <3>1. /\ Having(s, d)[i] = IF s[i].item = d THEN s[i].count ELSE 0
          /\ Having(t, d)[i] = IF t[i].item = d THEN t[i].count ELSE 0
      BY <1>2, <1>12, HavingFacts
    <3>2. CASE first[i] + rest[i] = 0
      <4>1. t[i] = s[i] /\ more[i] = 0
        BY <1>2, <1>5, <3>2
      <4> QED
        BY <1>10, <3>1, <4>1
    <3>3. CASE first[i] + rest[i] # 0
      <4>1. s[i].item # d => s[i].count = 0
        BY <1>10, <1>11, <3>3
      <4>2. Having(t, d)[i] = s[i].count + first[i] + rest[i]
        BY <1>11, <3>1, <3>3
      <4> QED
        BY <1>4, <1>5, <1>10, <3>1, <4>1, <4>2
    <3> QED
      BY <3>2, <3>3
  <2>3. Upto(Having(t, d), n) = Upto(Having(s, d), n) + Upto(more, n)
    BY <1>1, <1>5, <2>1, <2>2, UptoPlus
  <2> QED
    BY <1>2, <2>3 DEF CountIn
<1>14. ASSUME NEW e \in Items, e # d PROVE CountIn(t, e) = CountIn(s, e)
  <2>1. ASSUME NEW i \in 1..n PROVE Having(s, e)[i] = Having(t, e)[i]
    <3>1. /\ Having(s, e)[i] = IF s[i].item = e THEN s[i].count ELSE 0
          /\ Having(t, e)[i] = IF t[i].item = e THEN t[i].count ELSE 0
      BY <1>2, <1>12, HavingFacts
    <3>2. e # None
      BY ItemAssumption
    <3>3. CASE first[i] + rest[i] = 0
      BY <1>2, <3>1, <3>3
    <3>4. CASE first[i] + rest[i] # 0
      <4>1. t[i].item # e /\ s[i].item # e
        BY <1>11, <1>14, <3>2, <3>4
      <4> QED
        BY <3>1, <4>1
    <3> QED
      BY <3>3, <3>4
  <2> QED
    BY <1>2, <1>12, <2>1, CountSame
<1>15. ASSUME NEW i \in 1..n, t[i] # s[i]
       PROVE  t[i].item = d /\ t[i].count > s[i].count /\ s[i].item \in {d, None}
  <2>1. first[i] + rest[i] # 0
    BY <1>2, <1>15
  <2> QED
    BY <1>11, <2>1
<1>16. CountIn(t, d) = CountIn(s, d) + m - Spilt(s, d, m)
  <2>1. CountIn(s, d) \in Nat
    BY <1>12, HavingFacts
  <2> QED
    BY <1>8, <1>13, <2>1
<1> QED
  BY <1>2, <1>8, <1>14, <1>15, <1>16 DEF t

NoRoom(s, d) == \A i \in 1..Len(s) : Room(s, d, i) = 0

(* When some does not fit, no room for its kind is left anywhere.            *)
LEMMA SpiltIsFull ==
    ASSUME NEW s \in Slots, NEW d \in Items, NEW m \in Nat, Spilt(s, d, m) # 0
    PROVE  NoRoom(Poured(s, d, m), d)
<1> DEFINE n == Len(s)
           f == InStacks(s, d)
           r == InFree(s)
           first == Share(f, m)
           rest == Share(r, AtLeast0(m - Upto(f, n)))
           t == Poured(s, d, m)
<1>1. /\ n \in Nat /\ n \in 0..n /\ f \in Tally(n) /\ r \in Tally(n)
      /\ Upto(f, n) \in Nat /\ Upto(r, n) \in Nat
      /\ \A i \in 1..n : /\ f[i] = IF s[i].item = d THEN AtLeast0(StackMax - s[i].count) ELSE 0
                         /\ r[i] = IF s[i].item = None THEN StackMax ELSE 0
  BY RoomFacts
<1>2. /\ t \in Slots /\ Len(t) = n
      /\ first \in Tally(n) /\ rest \in Tally(n)
      /\ Upto(first, n) = Least(m, Upto(f, n))
      /\ Upto(rest, n) = Least(AtLeast0(m - Upto(f, n)), Upto(r, n))
      /\ \A i \in 1..n :
            /\ first[i] <= f[i] /\ rest[i] <= r[i]
            /\ t[i] = IF first[i] + rest[i] = 0 THEN s[i]
                      ELSE [item |-> d, count |-> s[i].count + first[i] + rest[i]]
  BY PouredShape
<1>3. Spilt(s, d, m) = AtLeast0(m - Upto(f, n) - Upto(r, n))
  BY DEF Spilt
<1>7. \A i \in 1..n :
         /\ InStacks(t, d)[i] = IF t[i].item = d THEN AtLeast0(StackMax - t[i].count) ELSE 0
         /\ InFree(t)[i] = IF t[i].item = None THEN StackMax ELSE 0
  BY <1>2, RoomFacts
<1> HIDE DEF t, first, rest, f, r
<1>4. Upto(first, n) = Upto(f, n) /\ Upto(rest, n) = Upto(r, n)
  BY <1>1, <1>2, <1>3 DEF Least, AtLeast0
<1>5. \A i \in 1..n : first[i] = f[i] /\ rest[i] = r[i]
  <2>1. (\A i \in 1..n : first[i] <= f[i]) /\ \A i \in 1..n : rest[i] <= r[i]
    BY <1>2
  <2>2. \A i \in 1..n : first[i] = f[i]
    BY <1>1, <1>2, <1>4, <2>1, UptoFull
  <2>3. \A i \in 1..n : rest[i] = r[i]
    BY <1>1, <1>2, <1>4, <2>1, UptoFull
  <2> QED
    BY <2>2, <2>3
<1>6. ASSUME NEW i \in 1..n PROVE Room(t, d, i) = 0
  <2>1. s[i].count \in Nat /\ (s[i].item = None <=> s[i].count = 0)
    BY SlotsFacts
  <2>2. StackMax \in Nat \ {0} /\ d # None
    BY SizeAssumption, ItemAssumption
  <2>3. /\ f[i] = IF s[i].item = d THEN AtLeast0(StackMax - s[i].count) ELSE 0
        /\ r[i] = IF s[i].item = None THEN StackMax ELSE 0
    BY <1>1
  <2>4. t[i] = IF f[i] + r[i] = 0 THEN s[i] ELSE [item |-> d, count |-> s[i].count + f[i] + r[i]]
    BY <1>2, <1>5
  <2>5. Room(t, d, i) = InStacks(t, d)[i] + InFree(t)[i]
    BY DEF Room
  <2>6. CASE s[i].item = None
    <3>1. t[i].item = d /\ t[i].count = StackMax
      BY <2>1, <2>2, <2>3, <2>4, <2>6
    <3> QED
      BY <1>7, <2>2, <2>5, <3>1 DEF AtLeast0
  <2>7. CASE s[i].item = d
    <3>1. t[i].item = d /\ t[i].count >= StackMax /\ t[i].count \in Nat
      BY <2>1, <2>2, <2>3, <2>4, <2>7 DEF AtLeast0
    <3>2. AtLeast0(StackMax - t[i].count) = 0
      BY <2>2, <3>1 DEF AtLeast0
    <3> QED
      BY <1>7, <2>2, <2>5, <3>1, <3>2
  <2>8. CASE s[i].item \notin {d, None}
    <3>1. t[i] = s[i]
      BY <2>3, <2>4, <2>8
    <3> QED
      BY <1>7, <2>5, <2>8, <3>1
  <2> QED
    BY <2>6, <2>7, <2>8
<1> QED
  BY <1>2, <1>6 DEF NoRoom, t

(* Nor does an addition make room.                                           *)
LEMMA NoRoomStays ==
    ASSUME NEW s \in Slots, NEW d \in Items, NEW m \in Nat, NEW e \in Items, NoRoom(s, e)
    PROVE  NoRoom(Poured(s, d, m), e)
<1> DEFINE t == Poured(s, d, m)
           n == Len(s)
<1>1. /\ t \in Slots /\ Len(t) = n
      /\ \A i \in 1..n : t[i] # s[i] =>
            t[i].item = d /\ t[i].count > s[i].count /\ s[i].item \in {d, None}
  BY PouredFacts
<1>2. \A i \in 1..n :
         /\ InStacks(t, e)[i] = IF t[i].item = e THEN AtLeast0(StackMax - t[i].count) ELSE 0
         /\ InFree(t)[i] = IF t[i].item = None THEN StackMax ELSE 0
  BY <1>1, RoomFacts
<1>3. \A i \in 1..n :
         /\ InStacks(s, e)[i] = IF s[i].item = e THEN AtLeast0(StackMax - s[i].count) ELSE 0
         /\ InFree(s)[i] = IF s[i].item = None THEN StackMax ELSE 0
  BY RoomFacts
<1>4. StackMax \in Nat \ {0} /\ d # None /\ e # None
  BY SizeAssumption, ItemAssumption
<1>6. \A i \in 1..n : s[i].count \in Nat /\ t[i].count \in Nat
  BY <1>1, SlotsFacts
<1> HIDE DEF t
<1>5. ASSUME NEW i \in 1..n PROVE Room(t, e, i) = 0
  <2>1. Room(s, e, i) = 0 /\ Room(s, e, i) = InStacks(s, e)[i] + InFree(s)[i]
    BY DEF Room, NoRoom
  <2>2. s[i].item # None
    BY <1>3, <1>4, <1>6, <2>1 DEF AtLeast0
  <2>3. s[i].item = e => s[i].count >= StackMax
    BY <1>3, <1>4, <1>6, <2>1, <2>2 DEF AtLeast0
  <2>4. t[i].item # None /\ (t[i].item = e => s[i].item = e /\ t[i].count >= s[i].count)
    BY <1>1, <1>4, <1>6, <2>2
  <2>5. t[i].item = e => t[i].count >= StackMax
    BY <1>4, <1>6, <2>3, <2>4
  <2> QED
    BY <1>2, <1>4, <1>6, <2>4, <2>5 DEF Room, AtLeast0
<1> QED
  BY <1>1, <1>5 DEF NoRoom, t

(* A stack is well formed, also when it is empty.                           *)
LEMMA StackFacts ==
    ASSUME NEW d \in Items, NEW m \in Nat
    PROVE  /\ Stack(d, m) \in Slot /\ Stack(d, m).count = m
           /\ (Stack(d, m).item = None <=> Stack(d, m).count = 0)
           /\ Stack(d, m).item = IF m = 0 THEN None ELSE d
  BY ItemAssumption DEF Stack, Empty, Slot

(* m of d taken out, or all there is; no other item changes.                 *)
LEMMA DrainedFacts ==
    ASSUME NEW s \in Slots, NEW d \in Items, NEW m \in Nat
    PROVE  LET t == Drained(s, d, m) IN
           /\ t \in Slots /\ Len(t) = Len(s)
           /\ CountIn(t, d) = CountIn(s, d) - Least(m, CountIn(s, d))
           /\ \A e \in Items : e # d => CountIn(t, e) = CountIn(s, e)
           /\ \A i \in 1..Len(s) : s[i].item # d => t[i] = s[i]
           /\ \A i \in 1..Len(s) : s[i].item = d => t[i].item \in {d, None}
<1> DEFINE n == Len(s)
           h == Having(s, d)
           took == Share(h, m)
           t == Drained(s, d, m)
<1>1. n \in Nat /\ n \in 0..n /\ DOMAIN s = 1..n /\ Counted(s)
  BY SlotsFacts DEF Counted
<1>2. /\ h \in Tally(n) /\ h \in Row(n)
      /\ \A i \in 1..n : h[i] = IF s[i].item = d THEN s[i].count ELSE 0
  BY <1>1, HavingFacts
<1>3. \A i \in 1..n : s[i] \in Slot /\ s[i].count \in Nat /\ (s[i].item = None <=> s[i].count = 0)
  BY SlotsFacts
<1>4. /\ t = [i \in 1..n |-> t[i]]
      /\ \A i \in 1..n : t[i] = IF s[i].item # d THEN s[i] ELSE Stack(d, s[i].count - took[i])
  BY <1>1 DEF Drained
<1>5. CountIn(s, d) = Upto(h, n)
  BY DEF CountIn
<1> HIDE DEF t, took, h
<1>6. /\ took \in Tally(n) /\ Upto(took, n) = Least(m, Upto(h, n))
      /\ \A i \in 1..n : took[i] <= h[i]
  BY <1>1, <1>2, ShareFacts DEF took
<1>7. took \in Row(n) /\ \A i \in 1..n : took[i] \in Nat
  BY <1>1, <1>6, TallyIsRow DEF Tally
<1>8. ASSUME NEW i \in 1..n, s[i].item = d
      PROVE  /\ s[i].count - took[i] \in Nat
             /\ t[i] \in Slot /\ t[i].count = s[i].count - took[i]
             /\ (t[i].item = None <=> t[i].count = 0)
             /\ t[i].item = IF t[i].count = 0 THEN None ELSE d
  <2>1. s[i].count - took[i] \in Nat
    BY <1>2, <1>3, <1>6, <1>7, <1>8
  <2>2. t[i] = Stack(d, s[i].count - took[i])
    BY <1>4, <1>8
  <2> QED
    BY <2>1, <2>2, StackFacts
<1>9. t \in Slots /\ Len(t) = n
  <2>1. \A i \in 1..n : t[i] \in Slot /\ (t[i].item = None <=> t[i].count = 0)
    BY <1>3, <1>4, <1>8
  <2> QED
    BY <1>1, <1>4, <2>1, SlotsIntro
<1>10. Counted(t)
  BY <1>9, SlotsFacts
<1>11. d # None
  BY ItemAssumption
<1>12. CountIn(t, d) = CountIn(s, d) - Least(m, CountIn(s, d))
  <2>1. /\ Having(t, d) \in Row(n)
        /\ \A i \in 1..n : Having(t, d)[i] = IF t[i].item = d THEN t[i].count ELSE 0
    BY <1>9, <1>10, HavingFacts
  <2>2. ASSUME NEW i \in 1..n PROVE h[i] = Having(t, d)[i] + took[i]
    <3>1. CASE s[i].item = d
      <4>1. Having(t, d)[i] = s[i].count - took[i]
        BY <1>8, <1>11, <2>1, <3>1
      <4> QED
        BY <1>2, <1>3, <1>7, <3>1, <4>1
    <3>2. CASE s[i].item # d
      <4>1. took[i] = 0
        BY <1>2, <1>6, <1>7, <3>2
      <4> QED
        BY <1>2, <1>4, <2>1, <3>2, <4>1
    <3> QED
      BY <3>1, <3>2
  <2>3. Upto(h, n) = Upto(Having(t, d), n) + Upto(took, n)
    BY <1>1, <1>2, <1>7, <2>1, <2>2, UptoPlus
  <2>4. Upto(Having(t, d), n) \in Int /\ Upto(took, n) \in Int
    BY <1>1, <1>7, <2>1, UptoFacts
  <2>5. CountIn(t, d) = Upto(Having(t, d), n)
    BY <1>9 DEF CountIn
  <2> QED
    BY <1>5, <1>6, <2>3, <2>4, <2>5
<1>13. ASSUME NEW e \in Items, e # d PROVE CountIn(t, e) = CountIn(s, e)
  <2>1. ASSUME NEW i \in 1..n PROVE Having(s, e)[i] = Having(t, e)[i]
    <3>1. /\ Having(s, e)[i] = IF s[i].item = e THEN s[i].count ELSE 0
          /\ Having(t, e)[i] = IF t[i].item = e THEN t[i].count ELSE 0
      BY <1>1, <1>9, <1>10, HavingFacts
    <3>2. e # None
      BY ItemAssumption
    <3>3. CASE s[i].item = d
      <4>1. t[i].item # e /\ s[i].item # e
        BY <1>8, <1>13, <3>2, <3>3
      <4> QED
        BY <3>1, <4>1
    <3>4. CASE s[i].item # d
      BY <1>4, <3>1, <3>4
    <3> QED
      BY <3>3, <3>4
  <2> QED
    BY <1>1, <1>9, <1>10, <2>1, CountSame
<1> QED
  BY <1>4, <1>8, <1>9, <1>12, <1>13 DEF t

(* A recipe needs some of what it wants only.                               *)
LEMMA NeedFacts ==
    ASSUME NEW r \in Recipes, NEW d \in Items
    PROVE  /\ Need(r, d) \in Nat
           /\ (Need(r, d) # 0 => d \in Wanted(r))
<1> DEFINE n == Len(r.inputs)
           h == Having(r.inputs, d)
<1>1. /\ Counted(r.inputs) /\ DOMAIN r.inputs = 1..n /\ n \in Nat /\ n \in 0..n
  BY InputsCounted
<1>2. /\ h \in Row(n) /\ CountIn(r.inputs, d) \in Nat
      /\ \A i \in 1..n : h[i] = IF r.inputs[i].item = d THEN r.inputs[i].count ELSE 0
  BY <1>1, HavingFacts
<1>3. Need(r, d) = Upto(h, n) /\ Need(r, d) \in Nat
  BY <1>2 DEF Need, CountIn
<1> HIDE DEF h
<1>4. ASSUME d \notin Wanted(r) PROVE Need(r, d) = 0
  <2>1. \A i \in 1..n : h[i] = 0
    BY <1>1, <1>2, <1>4 DEF Wanted
  <2> HIDE DEF n
  <2> QED
    BY <1>1, <1>2, <1>3, <2>1, UptoNone
<1> QED
  BY <1>3, <1>4

(* A craft takes of each kind what its recipe needs, or all there is.        *)
LEMMA ConsumedFacts ==
    ASSUME NEW g \in Slots, NEW r \in Recipes
    PROVE  LET t == Consumed(g, r) IN
           /\ t \in Slots /\ Len(t) = Len(g)
           /\ \A e \in Items : CountIn(t, e) = CountIn(g, e) - Least(Need(r, e), CountIn(g, e))
<1> DEFINE n == Len(g)
           t == Consumed(g, r)
           D(e) == Drained(g, e, Need(r, e))
<1>1. n \in Nat /\ DOMAIN g = 1..n /\ Counted(g)
  BY SlotsFacts DEF Counted
<1>2. \A i \in 1..n : /\ g[i] \in Slot /\ g[i].item \in Items \cup {None}
                      /\ (g[i].item = None <=> g[i].count = 0)
  BY SlotsFacts
<1>3. /\ t = [i \in 1..n |-> t[i]]
      /\ \A i \in 1..n : t[i] = IF g[i].item = None THEN g[i] ELSE D(g[i].item)[i]
  BY <1>1 DEF Consumed
<1> HIDE DEF t
<1>4. ASSUME NEW e \in Items
      PROVE  /\ D(e) \in Slots /\ Len(D(e)) = n
             /\ CountIn(D(e), e) = CountIn(g, e) - Least(Need(r, e), CountIn(g, e))
             /\ \A i \in 1..n : g[i].item # e => D(e)[i] = g[i]
             /\ \A i \in 1..n : g[i].item = e => D(e)[i].item \in {e, None}
  <2>1. Need(r, e) \in Nat
    BY NeedFacts
  <2> QED
    BY <2>1, DrainedFacts
<1> HIDE DEF D
<1>5. t \in Slots /\ Len(t) = n
  <2>1. ASSUME NEW i \in 1..n PROVE t[i] \in Slot /\ (t[i].item = None <=> t[i].count = 0)
    <3>1. CASE g[i].item = None
      BY <1>2, <1>3, <3>1
    <3>2. CASE g[i].item \in Items
      <4>1. D(g[i].item) \in Slots /\ Len(D(g[i].item)) = n
        BY <1>4, <3>2
      <4>2. g[i].item # None
        BY <3>2, ItemAssumption
      <4> QED
        BY <1>3, <4>1, <4>2, SlotsFacts
    <3> QED
      BY <1>2, <3>1, <3>2
  <2> QED
    BY <1>1, <1>3, <2>1, SlotsIntro
<1>6. ASSUME NEW e \in Items
      PROVE  CountIn(t, e) = CountIn(D(e), e)
  <2>1. e # None
    BY ItemAssumption
  <2>2. Counted(t) /\ Counted(D(e)) /\ Len(D(e)) = n
    BY <1>4, <1>5, SlotsFacts
  <2>3. ASSUME NEW i \in 1..n PROVE Having(t, e)[i] = Having(D(e), e)[i]
    <3>1. /\ Having(t, e)[i] = IF t[i].item = e THEN t[i].count ELSE 0
          /\ Having(D(e), e)[i] = IF D(e)[i].item = e THEN D(e)[i].count ELSE 0
      BY <1>5, <2>2, HavingFacts
    <3>2. CASE g[i].item = e
      BY <1>3, <2>1, <3>1, <3>2
    <3>3. CASE g[i].item = None
      BY <1>3, <1>4, <2>1, <3>1, <3>3
    <3>4. CASE g[i].item \in Items /\ g[i].item # e
      <4>1. g[i].item # None
        BY <3>4, ItemAssumption
      <4>2. D(g[i].item)[i].item \in {g[i].item, None}
        BY <1>4, <3>4
      <4>3. t[i].item # e /\ D(e)[i].item # e
        BY <1>3, <1>4, <2>1, <3>4, <4>1, <4>2
      <4> QED
        BY <3>1, <4>3
    <3> QED
      BY <1>2, <3>2, <3>3, <3>4
  <2> QED
    BY <1>5, <2>2, <2>3, CountSame
<1> QED
  BY <1>4, <1>5, <1>6 DEF t

(***************************************************************************)
(* What is paid, laid out, dropped and collected.                          *)
(***************************************************************************)

(* The slots after the inputs 1 to k of r are removed.                       *)
Paying(c, s, r) ==
    /\ c[0] = s
    /\ \A k \in 0..Len(r.inputs) : c[k] \in Slots /\ Len(c[k]) = Len(s)
    /\ \A k \in 1..Len(r.inputs) :
          c[k] = IF CountIn(c[k - 1], r.inputs[k].item) >= r.inputs[k].count
                 THEN Drained(c[k - 1], r.inputs[k].item, r.inputs[k].count) ELSE c[k - 1]

(* PaidFor is the end of such a sequence of removals.                       *)
LEMMA PaidByTurns ==
    ASSUME NEW s \in Slots, NEW r \in Recipes
    PROVE  \E c : Paying(c, s, r) /\ PaidFor(s, r) = c[Len(r.inputs)]
<1> DEFINE n == Len(r.inputs)
           V == {t \in Slots : Len(t) = Len(s)}
           pay(t, e) == IF CountIn(t, e.item) >= e.count THEN Drained(t, e.item, e.count) ELSE t
           step == [x \in (1..n) \X V |-> pay(x[2], r.inputs[x[1]])]
           Sum(c) == c = [k \in 0..n |-> IF k = 0 THEN s ELSE pay(c[k - 1], r.inputs[k])]
<1>1. n \in Nat /\ \A k \in 1..n : r.inputs[k].item \in Items /\ r.inputs[k].count \in Nat
  BY InputsCounted
<1>2. s \in V
  OBVIOUS
<1>3. ASSUME NEW t \in V, NEW k \in 1..n PROVE pay(t, r.inputs[k]) \in V
  BY <1>1, DrainedFacts
<1>4. Steps(step, n, V) /\ \A k \in 1..n, t \in V : step[<<k, t>>] = pay(t, r.inputs[k])
  <2> HIDE DEF pay, V, n
  <2>1. step \in [(1..n) \X V -> V]
    BY <1>3
  <2>2. \A k \in 1..n, t \in V : step[<<k, t>>] = pay(t, r.inputs[k])
    OBVIOUS
  <2> QED
    BY <2>1, <2>2 DEF Steps
<1> HIDE DEF step
<1>5. PICK c : Computes(c, n, V, s, step)
  <2> HIDE DEF V, n
  <2> QED
    BY <1>1, <1>2, <1>4, ComputedUp
<1>6. c \in [0..n -> V] /\ \A k \in 0..n : c[k] = IF k = 0 THEN s ELSE pay(c[k - 1], r.inputs[k])
  <2> HIDE DEF pay, V, n
  <2>1. c \in [0..n -> V] /\ \A k \in 0..n : c[k] = IF k = 0 THEN s ELSE step[<<k, c[k - 1]>>]
    BY <1>5 DEF Computes
  <2>2. \A k \in 0..n : k # 0 => k \in 1..n /\ k - 1 \in 0..n
    BY <1>1
  <2> QED
    BY <1>4, <2>1, <2>2
<1>7. Sum(c)
  <2> HIDE DEF pay, V, n
  <2> QED
    BY <1>6
<1> DEFINE p == CHOOSE x : Sum(x)
<1>8. PaidFor(s, r) = p[n]
  BY DEF PaidFor
<1>9. Sum(p)
  <2> HIDE DEF Sum
  <2> QED
    BY <1>7
<1>10. /\ p = [k \in 0..n |-> p[k]]
       /\ \A k \in 0..n : p[k] = IF k = 0 THEN s ELSE pay(p[k - 1], r.inputs[k])
  <2> HIDE DEF p, pay, n
  <2> QED
    BY <1>9
<1> HIDE DEF p, Sum
<1>11. \A k \in 0..n : p[k] \in V
  <2> DEFINE S == {k \in 0..n : p[k] \in V}
  <2>1. 0 \in S
    <3>1. 0 \in 0..n
      BY <1>1
    <3> HIDE DEF pay, V, n
    <3>2. p[0] = s
      BY <1>10, <3>1
    <3> QED
      BY <1>2, <3>1, <3>2
  <2>2. \A k \in 0..(n - 1) : k \in S => k + 1 \in S
    <3> SUFFICES ASSUME NEW k \in 0..(n - 1), k \in S PROVE k + 1 \in S
      OBVIOUS
    <3>1. k + 1 \in 1..n /\ k + 1 \in 0..n /\ (k + 1) - 1 = k /\ k + 1 # 0
      BY <1>1
    <3> HIDE DEF pay, V
    <3>2. p[k + 1] = pay(p[k], r.inputs[k + 1])
      BY <1>10, <3>1
    <3> QED
      BY <1>3, <3>1, <3>2
  <2> HIDE DEF S, V, n
  <2>3. \A k \in 0..n : k \in S
    BY <1>1, <2>1, <2>2, UpFromZero
  <2> QED
    BY <2>3 DEF S
<1>12. Paying(p, s, r)
  <2>1. 0 \in 0..n /\ \A k \in 1..n : k \in 0..n /\ k # 0
    BY <1>1
  <2> QED
    BY <1>10, <1>11, <2>1 DEF Paying
<1> QED
  BY <1>8, <1>12

(* Enough of each input by itself is there: at least one of each kind asked
   for is paid, no more than the recipe asks, and all of a kind listed once. *)
LEMMA PaidForFacts ==
    ASSUME NEW s \in Slots, NEW r \in Recipes,
           \A k \in DOMAIN r.inputs : CountIn(s, r.inputs[k].item) >= r.inputs[k].count
    PROVE  /\ PaidFor(s, r) \in Slots /\ Len(PaidFor(s, r)) = Len(s)
           /\ \A d \in Items :
                 LET paid == CountIn(s, d) - CountIn(PaidFor(s, r), d) IN
                 /\ paid \in 0..Need(r, d)
                 /\ Need(r, d) # 0 => paid >= 1
                 /\ ~Repeats(r, d) => paid = Need(r, d)
<1> DEFINE n == Len(r.inputs)
<1>1. PICK c : Paying(c, s, r) /\ PaidFor(s, r) = c[n]
  BY PaidByTurns
<1>2. /\ n \in Nat /\ n \in 0..n /\ Counted(r.inputs) /\ DOMAIN r.inputs = 1..n
      /\ \A k \in 1..n : r.inputs[k].item \in Items /\ r.inputs[k].count \in Nat \ {0}
  BY InputsCounted
<1>3. PaidFor(s, r) \in Slots /\ Len(PaidFor(s, r)) = Len(s)
  BY <1>1, <1>2 DEF Paying
<1>4. ASSUME NEW d \in Items
      PROVE  LET paid == CountIn(s, d) - CountIn(c[n], d) IN
             /\ paid \in 0..Need(r, d)
             /\ Need(r, d) # 0 => paid >= 1
             /\ ~Repeats(r, d) => paid = Need(r, d)
  <2> DEFINE h == Having(r.inputs, d)
             paid(k) == CountIn(s, d) - CountIn(c[k], d)
             S == {k \in 0..n : /\ paid(k) \in 0..Upto(h, k)
                                /\ Upto(h, k) # 0 => paid(k) >= 1
                                /\ ~Repeats(r, d) => paid(k) = Upto(h, k)}
  <2>1. /\ h \in Row(n) /\ h \in Tally(n)
        /\ \A k \in 1..n : h[k] = IF r.inputs[k].item = d THEN r.inputs[k].count ELSE 0
    BY <1>2, HavingFacts
  <2>2. Need(r, d) = Upto(h, n)
    BY DEF Need, CountIn
  <2>3. CountIn(s, d) \in Nat
    BY SlotsFacts, HavingFacts
  <2> HIDE DEF h
  <2>4. 0 \in S
    <3>1. c[0] = s /\ Upto(h, 0) = 0
      BY <1>1, <1>2, <2>1, UptoFacts DEF Paying
    <3> QED
      BY <1>2, <2>3, <3>1
  <2>5. \A k \in 0..(n - 1) : k \in S => k + 1 \in S
    <3> SUFFICES ASSUME NEW k \in 0..(n - 1), k \in S PROVE k + 1 \in S
      OBVIOUS
    <3> DEFINE e == r.inputs[k + 1]
               t == c[k]
    <3>1. k + 1 \in 1..n /\ (k + 1) - 1 = k /\ k \in 0..n /\ k + 1 \in 0..n
      BY <1>2
    <3>2. /\ e.item \in Items /\ e.count \in Nat \ {0}
          /\ CountIn(s, e.item) >= e.count
      BY <1>2, <3>1
    <3>3. t \in Slots /\ Len(t) = Len(s)
      BY <1>1, <3>1 DEF Paying
    <3>4. c[k + 1] = IF CountIn(t, e.item) >= e.count THEN Drained(t, e.item, e.count) ELSE t
      BY <1>1, <3>1 DEF Paying
    <3>5. Upto(h, k + 1) = Upto(h, k) + h[k + 1] /\ Upto(h, k) \in Nat
      BY <1>2, <2>1, <3>1, UptoFacts, UptoGrows
    <3>6. h[k + 1] = IF e.item = d THEN e.count ELSE 0
      BY <2>1, <3>1
    <3>7. CountIn(t, d) \in Nat
      BY <3>3, SlotsFacts, HavingFacts
    <3>8. /\ paid(k) \in 0..Upto(h, k)
          /\ Upto(h, k) # 0 => paid(k) >= 1
          /\ ~Repeats(r, d) => paid(k) = Upto(h, k)
          /\ paid(k) = CountIn(s, d) - CountIn(t, d)
          /\ paid(k + 1) = CountIn(s, d) - CountIn(c[k + 1], d)
      OBVIOUS
    <3>9. /\ CountIn(Drained(t, e.item, e.count), e.item)
                = CountIn(t, e.item) - Least(e.count, CountIn(t, e.item))
          /\ e.item # d => CountIn(Drained(t, e.item, e.count), d) = CountIn(t, d)
      BY <3>2, <3>3, DrainedFacts
    <3> HIDE DEF t, e, paid
    <3>10. CASE e.item # d
      <4>1. paid(k + 1) = paid(k) /\ Upto(h, k + 1) = Upto(h, k)
        BY <3>4, <3>5, <3>6, <3>8, <3>9, <3>10
      <4> QED
        BY <3>1, <3>8, <4>1
    <3>11. CASE e.item = d /\ Upto(h, k) = 0
      <4>1. paid(k) = 0 /\ CountIn(t, d) = CountIn(s, d)
        BY <2>3, <3>7, <3>8, <3>11
      <4>2. CountIn(c[k + 1], d) = CountIn(t, d) - e.count
        BY <3>2, <3>4, <3>7, <3>9, <3>11, <4>1 DEF Least
      <4>3. paid(k + 1) = e.count /\ Upto(h, k + 1) = e.count
        BY <2>3, <3>2, <3>5, <3>6, <3>7, <3>8, <3>11, <4>1, <4>2
      <4> QED
        BY <3>1, <3>2, <4>3
    <3>12. CASE e.item = d /\ Upto(h, k) # 0
      <4>1. Repeats(r, d)
        <5>1. PICK j \in 1..k : h[j] # 0
          BY <1>2, <2>1, <3>1, <3>12, UptoNone
        <5>2. j \in 1..n /\ j # k + 1
          BY <3>1
        <5>3. r.inputs[j].item = d
          BY <2>1, <5>1, <5>2
        <5> QED
          BY <1>2, <3>1, <3>12, <5>2, <5>3 DEF Repeats, e
      <4>2. Upto(h, k + 1) = Upto(h, k) + e.count
        BY <3>5, <3>6, <3>12
      <4>3. paid(k + 1) \in {paid(k), paid(k) + e.count}
        <5>1. CASE CountIn(t, d) >= e.count
          <6>1. CountIn(c[k + 1], d) = CountIn(t, d) - e.count
            BY <3>2, <3>4, <3>7, <3>9, <3>12, <5>1 DEF Least
          <6> QED
            BY <2>3, <3>2, <3>7, <3>8, <6>1
        <5>2. CASE ~(CountIn(t, d) >= e.count)
          <6>1. c[k + 1] = t
            BY <3>4, <3>12, <5>2
          <6> QED
            BY <3>8, <6>1
        <5> QED
          BY <5>1, <5>2
      <4> QED
        BY <3>1, <3>2, <3>5, <3>8, <3>12, <4>1, <4>2, <4>3
    <3> QED
      BY <3>10, <3>11, <3>12
  <2> HIDE DEF S, n, paid
  <2>6. n \in S
    BY <1>2, <2>4, <2>5, UpFromZero
  <2> QED
    BY <2>2, <2>6 DEF S, paid, n
<1> QED
  BY <1>1, <1>3, <1>4

(* What auto-fill lays out is no more than the recipe needs.                 *)
LEMMA LaidOutFacts ==
    ASSUME NEW r \in Recipes, NEW n \in Nat
    PROVE  /\ LaidOut(r, n) \in Slots /\ Len(LaidOut(r, n)) = n
           /\ \A d \in Items : CountIn(LaidOut(r, n), d) <= Need(r, d)
<1> DEFINE m == Len(r.inputs)
           t == LaidOut(r, n)
           at(i) == CHOOSE k \in InputAt(r, i) : \A l \in InputAt(r, i) : l <= k
<1>1. /\ m \in Nat /\ m \in 0..m /\ Counted(r.inputs) /\ DOMAIN r.inputs = 1..m
      /\ r.shaped \in BOOLEAN
      /\ \A k \in 1..m : r.inputs[k].item \in Items /\ r.inputs[k].count \in Nat \ {0}
  BY InputsCounted
<1>2. ASSUME NEW i \in 1..n, InputAt(r, i) # {}
      PROVE  at(i) \in InputAt(r, i) /\ at(i) \in 1..m
  <2>1. InputAt(r, i) \subseteq 1..m
    BY <1>1 DEF InputAt
  <2>2. \E k \in InputAt(r, i) : \A l \in InputAt(r, i) : l <= k
    BY <1>1, <1>2, <2>1, Greatest
  <2> QED
    BY <2>1, <2>2
<1>3. /\ t = [i \in 1..n |-> t[i]]
      /\ \A i \in 1..n : t[i] = IF InputAt(r, i) = {} THEN Empty
                                ELSE Stack(r.inputs[at(i)].item, r.inputs[at(i)].count)
  BY DEF LaidOut
<1> HIDE DEF t, at
<1>4. ASSUME NEW i \in 1..n
      PROVE  /\ t[i] \in Slot /\ (t[i].item = None <=> t[i].count = 0)
             /\ t[i].item # None => /\ InputAt(r, i) # {}
                                    /\ t[i].item = r.inputs[at(i)].item
                                    /\ t[i].count = r.inputs[at(i)].count
  <2>1. CASE InputAt(r, i) = {}
    BY <1>3, <2>1 DEF Empty, Slot
  <2>2. CASE InputAt(r, i) # {}
    <3>1. at(i) \in 1..m
      BY <1>2, <2>2
    <3>2. r.inputs[at(i)].item \in Items /\ r.inputs[at(i)].count \in Nat \ {0}
      BY <1>1, <3>1
    <3>3. t[i] = Stack(r.inputs[at(i)].item, r.inputs[at(i)].count)
      BY <1>3, <2>2
    <3> QED
      BY <2>2, <3>2, <3>3, StackFacts
  <2> QED
    BY <2>1, <2>2
<1>5. t \in Slots /\ Len(t) = n
  BY <1>3, <1>4, SlotsIntro
<1>6. ASSUME NEW i \in 1..n, NEW j \in 1..n, i # j, InputAt(r, i) # {}, InputAt(r, j) # {}
      PROVE  at(i) # at(j)
  <2>1. at(i) \in InputAt(r, i) /\ at(j) \in InputAt(r, j)
    BY <1>2, <1>6
  <2> QED
    BY <1>1, <1>6, <2>1 DEF InputAt
<1>7. ASSUME NEW d \in Items PROVE CountIn(t, d) <= Need(r, d)
  <2> DEFINE f == Having(t, d)
             g == Having(r.inputs, d)
             s == [i \in 1..n |-> at(i)]
  <2>1. /\ Counted(t) /\ f \in Tally(n)
        /\ \A i \in 1..n : f[i] = IF t[i].item = d THEN t[i].count ELSE 0
    BY <1>5, SlotsFacts, HavingFacts
  <2>2. /\ g \in Tally(m)
        /\ \A k \in 1..m : g[k] = IF r.inputs[k].item = d THEN r.inputs[k].count ELSE 0
    BY <1>1, HavingFacts
  <2>3. CountIn(t, d) = Upto(f, n) /\ Need(r, d) = Upto(g, m)
    BY <1>5 DEF CountIn, Need
  <2>4. \A i \in 1..n : s[i] = at(i)
    OBVIOUS
  <2> HIDE DEF f, g, s
  <2>5. ASSUME NEW i \in 1..n, f[i] # 0
        PROVE  InputAt(r, i) # {} /\ s[i] \in 1..m /\ f[i] <= g[s[i]]
    <3>1. t[i].item = d /\ f[i] = t[i].count /\ d # None
      BY <2>1, <2>5, ItemAssumption
    <3>2. InputAt(r, i) # {} /\ d = r.inputs[at(i)].item /\ f[i] = r.inputs[at(i)].count
      BY <1>4, <3>1
    <3>3. at(i) \in 1..m
      BY <1>2, <3>2
    <3>4. g[at(i)] = f[i] /\ f[i] \in Nat
      BY <1>1, <2>2, <3>2, <3>3
    <3> QED
      BY <2>4, <3>2, <3>3, <3>4
  <2>6. \A i \in 1..n : f[i] # 0 => s[i] \in 1..m /\ f[i] <= g[s[i]]
    BY <2>5
  <2>7. \A i, j \in 1..n : f[i] # 0 /\ f[j] # 0 /\ i # j => s[i] # s[j]
    BY <1>6, <2>4, <2>5
  <2> HIDE DEF m
  <2> QED
    BY <1>1, <2>1, <2>2, <2>3, <2>6, <2>7, UptoInto
<1> QED
  BY <1>5, <1>7 DEF t

(* One more stack in a row.                                                  *)
LEMMA CountAppend ==
    ASSUME NEW p \in Seq(Taken), NEW e \in Taken, NEW d
    PROVE  /\ Append(p, e) \in Seq(Taken)
           /\ CountIn(Append(p, e), d) = CountIn(p, d) + IF e.item = d THEN e.count ELSE 0
<1> DEFINE q == Append(p, e)
           n == Len(p)
           f == Having(p, d)
           g == Having(q, d)
<1>1. /\ q \in Seq(Taken) /\ Len(q) = n + 1 /\ n \in Nat
      /\ \A i \in 1..(n + 1) : q[i] = IF i = n + 1 THEN e ELSE p[i]
  BY AppendProperties, LenProperties
<1> HIDE DEF q
<1>2. Counted(p) /\ Counted(q)
  BY <1>1, TakenCounted
<1>3. /\ f \in Row(n) /\ g \in Row(n + 1)
      /\ \A i \in 1..n : f[i] = IF p[i].item = d THEN p[i].count ELSE 0
      /\ \A i \in 1..(n + 1) : g[i] = IF q[i].item = d THEN q[i].count ELSE 0
  BY <1>1, <1>2, HavingFacts
<1>4. CountIn(p, d) = Upto(f, n) /\ CountIn(q, d) = Upto(g, n + 1)
  BY <1>1 DEF CountIn
<1> HIDE DEF f, g, n
<1>5. f = [i \in 1..n |-> g[i]] /\ n + 1 \in 1..(n + 1) /\ n \in 0..n /\ n \in 0..(n + 1)
      /\ n + 1 \in Nat /\ (n + 1) - 1 = n
  <2>1. \A i \in 1..n : i \in 1..(n + 1) /\ i # n + 1
    BY <1>1
  <2>2. \A i \in 1..n : f[i] = g[i]
    BY <1>1, <1>3, <2>1
  <2>3. f = [i \in 1..n |-> f[i]]
    BY <1>3 DEF Row
  <2> QED
    BY <1>1, <2>2, <2>3
<1>6. Upto(g, n + 1) = Upto(g, n) + g[n + 1]
  BY <1>3, <1>5, UptoFacts
<1>7. Upto(g, n) = Upto(f, n)
  <2> DEFINE S == {k \in 0..n : Upto(g, k) = Upto(f, k)}
  <2>1. 0 \in S
    BY <1>1, <1>3, <1>5, UptoFacts
  <2>2. \A k \in 0..(n - 1) : k \in S => k + 1 \in S
    <3> SUFFICES ASSUME NEW k \in 0..(n - 1), k \in S PROVE k + 1 \in S
      OBVIOUS
    <3>1. k + 1 \in 1..n /\ k + 1 \in 1..(n + 1) /\ (k + 1) - 1 = k
      BY <1>1
    <3>2. Upto(f, k + 1) = Upto(f, k) + f[k + 1]
      BY <1>1, <1>3, <3>1, UptoFacts
    <3>3. Upto(g, k + 1) = Upto(g, k) + g[k + 1]
      BY <1>3, <1>5, <3>1, UptoFacts
    <3>4. f[k + 1] = g[k + 1]
      BY <1>5, <3>1
    <3> QED
      BY <1>1, <3>1, <3>2, <3>3, <3>4
  <2> HIDE DEF S
  <2>3. n \in S
    BY <1>1, <2>1, <2>2, <1>5, UpFromZero
  <2> QED
    BY <2>3 DEF S
<1>8. g[n + 1] = IF e.item = d THEN e.count ELSE 0
  BY <1>1, <1>3, <1>5
<1> QED
  BY <1>1, <1>4, <1>6, <1>7, <1>8 DEF q

(* The empty pile holds nothing.                                            *)
LEMMA CountNothing == ASSUME NEW d PROVE CountIn(<<>>, d) = 0 /\ <<>> \in Seq(Taken)
<1>1. <<>> \in Seq(Taken) /\ Len(<<>>) = 0
  BY EmptySeq
<1>2. Having(<<>>, d) \in Row(0)
  <2>1. Counted(<<>>)
    BY <1>1, TakenCounted
  <2> QED
    BY <1>1, <2>1, HavingFacts
<1>3. Upto(Having(<<>>, d), 0) = 0
  BY <1>2, UptoFacts
<1> QED
  BY <1>1, <1>3 DEF CountIn

(* A pile holds what was carried.                                            *)
LEMMA CarriedFacts ==
    ASSUME NEW s \in Slots
    PROVE  /\ Carried(s) \in Seq(Taken)
           /\ \A d \in Items : CountIn(Carried(s), d) = CountIn(s, d)
<1> DEFINE n == Len(s)
           V == Seq(Taken)
           next(p, e) == IF e.item = None THEN p ELSE Append(p, e)
           step == [x \in (1..n) \X V |-> next(x[2], s[x[1]])]
           Sum(c) == c = [i \in 0..n |-> IF i = 0 THEN <<>>
                                         ELSE IF s[i].item = None THEN c[i - 1] ELSE Append(c[i - 1], s[i])]
<1>1. /\ n \in Nat /\ n \in 0..n /\ Counted(s)
      /\ \A i \in 1..n : s[i] \in Slot /\ (s[i].item = None <=> s[i].count = 0)
  BY SlotsFacts DEF Counted
<1>2. <<>> \in V
  BY EmptySeq
<1>3. ASSUME NEW i \in 1..n, s[i].item # None PROVE s[i] \in Taken
  <2>1. s[i] \in Slot /\ s[i].count # 0
    BY <1>1, <1>3
  <2> QED
    BY <1>3, <2>1 DEF Slot, Taken
<1>4. ASSUME NEW p \in V, NEW i \in 1..n PROVE next(p, s[i]) \in V
  BY <1>3, CountAppend
<1>5. Steps(step, n, V) /\ \A k \in 1..n, p \in V : step[<<k, p>>] = next(p, s[k])
  <2> HIDE DEF next, V, n
  <2>1. step \in [(1..n) \X V -> V]
    BY <1>4
  <2>2. \A k \in 1..n, p \in V : step[<<k, p>>] = next(p, s[k])
    OBVIOUS
  <2> QED
    BY <2>1, <2>2 DEF Steps
<1> HIDE DEF step
<1>6. PICK c : Computes(c, n, V, <<>>, step)
  <2> HIDE DEF V, n
  <2> QED
    BY <1>1, <1>2, <1>5, ComputedUp
<1>7. c \in [0..n -> V] /\ \A k \in 0..n : c[k] = IF k = 0 THEN <<>> ELSE next(c[k - 1], s[k])
  <2> HIDE DEF next, V, n
  <2>1. c \in [0..n -> V] /\ \A k \in 0..n : c[k] = IF k = 0 THEN <<>> ELSE step[<<k, c[k - 1]>>]
    BY <1>6 DEF Computes
  <2>2. \A k \in 0..n : k # 0 => k \in 1..n /\ k - 1 \in 0..n
    BY <1>1
  <2> QED
    BY <1>5, <2>1, <2>2
<1>8. Sum(c)
  <2> HIDE DEF V, n
  <2> QED
    BY <1>7
<1> DEFINE p == CHOOSE x : Sum(x)
<1>9. Carried(s) = p[n]
  BY DEF Carried
<1>10. Sum(p)
  <2> HIDE DEF Sum
  <2> QED
    BY <1>8
<1>11. \A k \in 0..n : p[k] = IF k = 0 THEN <<>> ELSE next(p[k - 1], s[k])
  <2> HIDE DEF p, n
  <2> QED
    BY <1>10
<1> HIDE DEF p, Sum
<1> DEFINE Holds(k) == p[k] \in V /\ \A d \in Items : CountIn(p[k], d) = Upto(Having(s, d), k)
           S == {k \in 0..n : Holds(k)}
<1>12. 0 \in S
  <2>1. p[0] = <<>> /\ 0 \in 0..n
    BY <1>1, <1>11
  <2>2. ASSUME NEW d \in Items PROVE CountIn(<<>>, d) = Upto(Having(s, d), 0)
    BY <1>1, CountNothing, HavingFacts, UptoFacts
  <2> QED
    BY <1>2, <2>1, <2>2
<1>13. \A k \in 0..(n - 1) : k \in S => k + 1 \in S
  <2> SUFFICES ASSUME NEW k \in 0..(n - 1), k \in S PROVE Holds(k + 1)
    BY <1>1
  <2>1. k + 1 \in 1..n /\ k + 1 \in 0..n /\ (k + 1) - 1 = k /\ k + 1 # 0
    BY <1>1
  <2>2. p[k + 1] = next(p[k], s[k + 1])
    BY <1>11, <2>1
  <2>3. p[k] \in V /\ \A d \in Items : CountIn(p[k], d) = Upto(Having(s, d), k)
    OBVIOUS
  <2>4. \A d \in Items : Upto(Having(s, d), k + 1)
                            = Upto(Having(s, d), k) + IF s[k + 1].item = d THEN s[k + 1].count ELSE 0
    <3> SUFFICES ASSUME NEW d \in Items
                 PROVE  Upto(Having(s, d), k + 1)
                            = Upto(Having(s, d), k) + IF s[k + 1].item = d THEN s[k + 1].count ELSE 0
      OBVIOUS
    <3>1. /\ Having(s, d) \in Row(n)
          /\ Having(s, d)[k + 1] = IF s[k + 1].item = d THEN s[k + 1].count ELSE 0
      BY <1>1, <2>1, HavingFacts
    <3>2. Upto(Having(s, d), k + 1) = Upto(Having(s, d), k) + Having(s, d)[k + 1]
      BY <1>1, <2>1, <3>1, UptoFacts
    <3> QED
      BY <3>1, <3>2
  <2>5. CASE s[k + 1].item = None
    <3>1. \A d \in Items : d # None
      BY ItemAssumption
    <3>2. p[k + 1] = p[k]
      BY <2>2, <2>5
    <3>3. ASSUME NEW d \in Items PROVE Upto(Having(s, d), k + 1) = Upto(Having(s, d), k)
      <4>1. Upto(Having(s, d), k) \in Int
        BY <1>1, <2>1, HavingFacts, UptoFacts
      <4> QED
        BY <2>4, <2>5, <3>1, <4>1
    <3> QED
      BY <2>3, <3>2, <3>3
  <2>6. CASE s[k + 1].item # None
    <3>1. s[k + 1] \in Taken /\ p[k + 1] = Append(p[k], s[k + 1])
      BY <1>3, <2>1, <2>2, <2>6
    <3> QED
      BY <2>3, <2>4, <3>1, CountAppend
  <2> QED
    BY <2>5, <2>6
<1> HIDE DEF S
<1>14. n \in S
  <2> HIDE DEF n
  <2> QED
    BY <1>1, <1>12, <1>13, UpFromZero
<1>15. Holds(n)
  BY <1>14 DEF S
<1> QED
  BY <1>9, <1>15 DEF CountIn

(* What a builder collects from a pile.  When nothing of it fits whole, the
   slots that changed grew, and have no room left.                           *)
Tried == [slots : Slots, left : Seq(Taken), took : Nat]

Grown(s, t) ==
    \A i \in 1..Len(s) : t[i] # s[i] => t[i].count > s[i].count /\ t[i].item \in Items
                                        /\ NoRoom(t, t[i].item)

(* After the first stacks of the pile, which hold `seen` of each kind.       *)
CollectedSoFar(c, s, seen) ==
    /\ c \in Tried /\ Len(c.slots) = Len(s)
    /\ \A d \in Items :
          LET more == CountIn(c.slots, d) + CountIn(c.left, d) - CountIn(s, d) - seen[d] IN
          more >= 0 /\ (more = 0 \/ more < CountIn(c.left, d))
    /\ c.took = 0 => Grown(s, c.slots)

Try(t, e) ==
    IF Spilt(t.slots, e.item, e.count) = 0
    THEN [t EXCEPT !.slots = Poured(t.slots, e.item, e.count), !.took = @ + 1]
    ELSE [t EXCEPT !.slots = Poured(t.slots, e.item, e.count), !.left = Append(@, e)]

(* One stack of a pile is added.                                            *)
LEMMA TryFacts ==
    ASSUME NEW t \in Tried, NEW e \in Taken
    PROVE  LET u == Try(t, e) IN
           /\ u \in Tried
           /\ u.slots = Poured(t.slots, e.item, e.count)
           /\ IF Spilt(t.slots, e.item, e.count) = 0
              THEN u.left = t.left /\ u.took = t.took + 1
              ELSE u.left = Append(t.left, e) /\ u.took = t.took
<1>1. t.slots \in Slots /\ t.left \in Seq(Taken) /\ t.took \in Nat /\ e.item \in Items /\ e.count \in Nat
  BY DEF Tried, Taken
<1>2. Poured(t.slots, e.item, e.count) \in Slots
  BY <1>1, PouredFacts
<1>3. Append(t.left, e) \in Seq(Taken)
  BY <1>1, CountAppend
<1> DEFINE p == Poured(t.slots, e.item, e.count)
           rest == Spilt(t.slots, e.item, e.count)
<1>4. Try(t, e) = IF rest = 0 THEN [t EXCEPT !.slots = p, !.took = @ + 1]
                  ELSE [t EXCEPT !.slots = p, !.left = Append(@, e)]
  BY DEF Try
<1>5. p \in Slots
  BY <1>2
<1> HIDE DEF p, rest
<1>6. CASE rest = 0
  <2>1. Try(t, e) = [t EXCEPT !.slots = p, !.took = t.took + 1]
    BY <1>4, <1>6
  <2>2. t.took + 1 \in Nat
    BY <1>1
  <2> QED
    BY <1>1, <1>5, <1>6, <2>1, <2>2 DEF Tried, p, rest
<1>7. CASE rest # 0
  <2>1. Try(t, e) = [t EXCEPT !.slots = p, !.left = Append(t.left, e)]
    BY <1>4, <1>7
  <2> QED
    BY <1>1, <1>3, <1>5, <1>7, <2>1 DEF Tried, p, rest
<1> QED
  BY <1>6, <1>7

(* Adding one more stack keeps what is known of those before it.            *)
LEMMA TrySoFar ==
    ASSUME NEW s \in Slots, NEW c \in Tried, NEW e \in Taken, NEW seen, NEW next,
           \A d \in Items : seen[d] \in Nat /\ next[d] = seen[d] + IF e.item = d THEN e.count ELSE 0,
           CollectedSoFar(c, s, seen)
    PROVE  CollectedSoFar(Try(c, e), s, next)
<1> DEFINE u == Try(c, e)
           t == Poured(c.slots, e.item, e.count)
           rest == Spilt(c.slots, e.item, e.count)
<1>1. /\ c.slots \in Slots /\ c.left \in Seq(Taken) /\ c.took \in Nat
      /\ e.item \in Items /\ e.count \in Nat \ {0} /\ e.count \in Nat
  BY DEF Tried, Taken
<1>2. /\ t \in Slots /\ Len(t) = Len(c.slots) /\ rest \in 0..e.count
      /\ CountIn(t, e.item) = CountIn(c.slots, e.item) + e.count - rest
      /\ \A d \in Items : d # e.item => CountIn(t, d) = CountIn(c.slots, d)
      /\ \A i \in 1..Len(c.slots) : t[i] # c.slots[i] =>
            t[i].item = e.item /\ t[i].count > c.slots[i].count
  <2> DEFINE a == c.slots
             k == e.item
             m == e.count
  <2>1. a \in Slots /\ k \in Items /\ m \in Nat
    BY <1>1
  <2>2. t = Poured(a, k, m) /\ rest = Spilt(a, k, m)
    OBVIOUS
  <2> HIDE DEF a, k, m, t, rest
  <2>3. /\ t \in Slots /\ Len(t) = Len(a) /\ rest \in 0..m
        /\ CountIn(t, k) = CountIn(a, k) + m - rest
        /\ \A d \in Items : d # k => CountIn(t, d) = CountIn(a, d)
        /\ \A i \in 1..Len(a) : t[i] # a[i] => t[i].item = k /\ t[i].count > a[i].count
    BY <2>1, <2>2, PouredFacts
  <2> QED
    BY <2>3 DEF a, k, m
<1>3. /\ u \in Tried /\ u.slots = t
      /\ IF rest = 0 THEN u.left = c.left /\ u.took = c.took + 1
                     ELSE u.left = Append(c.left, e) /\ u.took = c.took
  BY TryFacts
<1> HIDE DEF u, t, rest
<1>4. Len(c.slots) = Len(s)
  BY DEF CollectedSoFar
<1>5. ASSUME NEW d \in Items
      PROVE  LET more == CountIn(u.slots, d) + CountIn(u.left, d) - CountIn(s, d) - next[d] IN
             more >= 0 /\ (more = 0 \/ more < CountIn(u.left, d))
  <2> DEFINE more == CountIn(c.slots, d) + CountIn(c.left, d) - CountIn(s, d) - seen[d]
             then == CountIn(u.slots, d) + CountIn(u.left, d) - CountIn(s, d) - next[d]
  <2>1. more >= 0 /\ (more = 0 \/ more < CountIn(c.left, d))
    BY DEF CollectedSoFar
  <2>2. /\ CountIn(c.slots, d) \in Nat /\ CountIn(c.left, d) \in Nat /\ CountIn(s, d) \in Nat
        /\ CountIn(t, d) \in Nat
    BY <1>1, <1>2, SlotsFacts, TakenCounted, HavingFacts
  <2>3. CountIn(t, d) = CountIn(c.slots, d) + IF e.item = d THEN e.count - rest ELSE 0
    BY <1>1, <1>2, <2>2
  <2>4. CountIn(u.left, d) = CountIn(c.left, d) + IF rest # 0 /\ e.item = d THEN e.count ELSE 0
    <3>1. CASE rest = 0
      BY <1>3, <2>2, <3>1
    <3>2. CASE rest # 0
      <4>1. CountIn(Append(c.left, e), d) = CountIn(c.left, d) + IF e.item = d THEN e.count ELSE 0
        BY <1>1, CountAppend
      <4> QED
        BY <1>3, <3>2, <4>1
    <3> QED
      BY <3>1, <3>2
  <2>5. seen[d] \in Nat /\ next[d] = seen[d] + IF e.item = d THEN e.count ELSE 0
    OBVIOUS
  <2>6. CASE e.item # d
    <3>1. then = more /\ CountIn(u.left, d) = CountIn(c.left, d)
      BY <1>3, <2>2, <2>3, <2>4, <2>5, <2>6
    <3> QED
      BY <2>1, <3>1
  <2>7. CASE e.item = d /\ rest = 0
    <3>1. CountIn(t, d) = CountIn(c.slots, d) + e.count /\ CountIn(u.left, d) = CountIn(c.left, d)
          /\ next[d] = seen[d] + e.count
      BY <1>1, <2>2, <2>3, <2>4, <2>5, <2>7
    <3>2. then = more
      BY <1>1, <1>3, <2>2, <2>5, <3>1
    <3> QED
      BY <2>1, <3>1, <3>2
  <2>8. CASE e.item = d /\ rest # 0
    <3>1. /\ CountIn(t, d) = CountIn(c.slots, d) + e.count - rest
          /\ CountIn(u.left, d) = CountIn(c.left, d) + e.count
          /\ next[d] = seen[d] + e.count /\ rest \in Nat \ {0} /\ rest <= e.count
      BY <1>1, <1>2, <2>2, <2>3, <2>4, <2>5, <2>8
    <3>2. then = more + e.count - rest
      BY <1>1, <1>3, <2>2, <2>5, <3>1
    <3>3. more \in Int
      BY <2>2, <2>5
    <3> HIDE DEF more, then
    <3>4. then >= 0 /\ then < CountIn(u.left, d)
      BY <1>1, <2>1, <2>2, <3>1, <3>2, <3>3
    <3> QED
      BY <3>4 DEF then
  <2> QED
    BY <2>6, <2>7, <2>8
<1>6. ASSUME u.took = 0 PROVE Grown(s, u.slots)
  <2>1. rest # 0 /\ c.took = 0
    BY <1>1, <1>3, <1>6
  <2>2. Grown(s, c.slots)
    BY <2>1 DEF CollectedSoFar
  <2>3. NoRoom(t, e.item)
    BY <1>1, <2>1, SpiltIsFull DEF t, rest
  <2> SUFFICES ASSUME NEW i \in 1..Len(s), t[i] # s[i]
               PROVE  t[i].count > s[i].count /\ t[i].item \in Items /\ NoRoom(t, t[i].item)
    BY <1>3 DEF Grown
  <2>4. s[i].count \in Nat /\ c.slots[i].count \in Nat /\ t[i].count \in Nat
    BY <1>1, <1>2, <1>4, SlotsFacts
  <2>5. CASE t[i] = c.slots[i]
    <3>1. t[i].count > s[i].count /\ t[i].item \in Items /\ NoRoom(c.slots, t[i].item)
      BY <2>2, <2>5 DEF Grown
    <3>2. NoRoom(t, t[i].item)
      BY <1>1, <3>1, NoRoomStays DEF t
    <3> QED
      BY <3>1, <3>2
  <2>6. CASE t[i] # c.slots[i]
    <3>1. t[i].item = e.item /\ t[i].count > c.slots[i].count
      BY <1>2, <1>4, <2>6
    <3>2. c.slots[i].count >= s[i].count
      BY <2>2, <2>4 DEF Grown
    <3> QED
      BY <1>1, <2>3, <2>4, <3>1, <3>2
  <2> QED
    BY <2>5, <2>6
<1> QED
  BY <1>2, <1>3, <1>4, <1>5, <1>6 DEF CollectedSoFar, u

(* What a builder who walks into a pile gets, and what stays.               *)
LEMMA CollectedFacts ==
    ASSUME NEW s \in Slots, NEW pile \in Seq(Taken)
    PROVE  CollectedSoFar(Collected(s, pile), s, [d \in Items |-> CountIn(pile, d)])
<1> DEFINE n == Len(pile)
           first == [slots |-> s, left |-> <<>>, took |-> 0]
           step == [x \in (1..n) \X Tried |-> Try(x[2], pile[x[1]])]
           Sum(c) == c = [k \in 0..n |-> IF k = 0 THEN first ELSE Try(c[k - 1], pile[k])]
           seen(k) == [d \in Items |-> Upto(Having(pile, d), k)]
<1>1. n \in Nat /\ n \in 0..n /\ Counted(pile) /\ \A k \in 1..n : pile[k] \in Taken
  BY TakenCounted DEF Counted
<1>2. first \in Tried
  <2>1. <<>> \in Seq(Taken)
    BY CountNothing
  <2> QED
    BY <2>1 DEF Tried
<1>3. Steps(step, n, Tried) /\ \A k \in 1..n, t \in Tried : step[<<k, t>>] = Try(t, pile[k])
  <2> HIDE DEF n
  <2>1. step \in [(1..n) \X Tried -> Tried]
    BY <1>1, TryFacts
  <2>2. \A k \in 1..n, t \in Tried : step[<<k, t>>] = Try(t, pile[k])
    OBVIOUS
  <2> QED
    BY <2>1, <2>2 DEF Steps
<1> HIDE DEF step
<1>4. PICK c : Computes(c, n, Tried, first, step)
  <2> HIDE DEF n, first
  <2> QED
    BY <1>1, <1>2, <1>3, ComputedUp
<1>5. c \in [0..n -> Tried] /\ \A k \in 0..n : c[k] = IF k = 0 THEN first ELSE Try(c[k - 1], pile[k])
  <2> HIDE DEF n, first
  <2>1. c \in [0..n -> Tried] /\ \A k \in 0..n : c[k] = IF k = 0 THEN first ELSE step[<<k, c[k - 1]>>]
    BY <1>4 DEF Computes
  <2>2. \A k \in 0..n : k # 0 => k \in 1..n /\ k - 1 \in 0..n
    BY <1>1
  <2> QED
    BY <1>3, <2>1, <2>2
<1>6. Sum(c)
  <2> HIDE DEF n, first
  <2> QED
    BY <1>5
<1> DEFINE p == CHOOSE x : Sum(x)
<1>7. Collected(s, pile) = p[n]
  BY DEF Collected, Try
<1>8. Sum(p)
  <2> HIDE DEF Sum
  <2> QED
    BY <1>6
<1>9. \A k \in 0..n : p[k] = IF k = 0 THEN first ELSE Try(p[k - 1], pile[k])
  <2> HIDE DEF p, n, first
  <2> QED
    BY <1>8
<1> HIDE DEF p, Sum
<1> DEFINE S == {k \in 0..n : CollectedSoFar(p[k], s, seen(k))}
<1>10. \A d \in Items : Having(pile, d) \in Row(n) /\ Having(pile, d) \in Tally(n)
                        /\ \A k \in 1..n : Having(pile, d)[k] = IF pile[k].item = d THEN pile[k].count ELSE 0
  BY <1>1, HavingFacts
<1>11. 0 \in S
  <2>1. p[0] = first
    BY <1>1, <1>9
  <2>2. ASSUME NEW d \in Items
        PROVE  CountIn(s, d) + CountIn(<<>>, d) - CountIn(s, d) - seen(0)[d] = 0
    <3>1. CountIn(<<>>, d) = 0 /\ CountIn(s, d) \in Nat /\ Upto(Having(pile, d), 0) = 0
      BY <1>1, <1>10, CountNothing, SlotsFacts, HavingFacts, UptoFacts
    <3> QED
      BY <3>1
  <2>3. Grown(s, s)
    BY DEF Grown
  <2>4. CollectedSoFar(first, s, seen(0))
    <3> HIDE DEF seen
    <3> QED
      BY <1>2, <2>2, <2>3 DEF CollectedSoFar
  <2> QED
    BY <1>1, <2>1, <2>4
<1>12. \A k \in 0..(n - 1) : k \in S => k + 1 \in S
  <2> SUFFICES ASSUME NEW k \in 0..(n - 1), k \in S PROVE k + 1 \in S
    OBVIOUS
  <2>1. k + 1 \in 1..n /\ k + 1 \in 0..n /\ (k + 1) - 1 = k /\ k + 1 # 0 /\ k \in 0..n
    BY <1>1
  <2>2. p[k + 1] = Try(p[k], pile[k + 1]) /\ pile[k + 1] \in Taken
    BY <1>1, <1>9, <2>1
  <2>3. CollectedSoFar(p[k], s, seen(k)) /\ p[k] \in Tried
    BY DEF CollectedSoFar
  <2>4. ASSUME NEW d \in Items
        PROVE  /\ seen(k)[d] \in Nat
               /\ seen(k + 1)[d] = seen(k)[d] + IF pile[k + 1].item = d THEN pile[k + 1].count ELSE 0
    <3>1. Upto(Having(pile, d), k + 1) = Upto(Having(pile, d), k) + Having(pile, d)[k + 1]
      BY <1>1, <1>10, <2>1, UptoFacts
    <3>2. Upto(Having(pile, d), k) \in Nat
      BY <1>1, <1>10, <2>1, UptoGrows
    <3> QED
      BY <1>10, <2>1, <3>1, <3>2
  <2> HIDE DEF seen
  <2>5. CollectedSoFar(Try(p[k], pile[k + 1]), s, seen(k + 1))
    BY <2>2, <2>3, <2>4, TrySoFar
  <2> QED
    BY <2>1, <2>2, <2>5
<1>13. n \in S
  <2> HIDE DEF n, S
  <2> QED
    BY <1>1, <1>11, <1>12, UpFromZero
<1>14. seen(n) = [d \in Items |-> CountIn(pile, d)]
  BY DEF CountIn
<1> QED
  BY <1>7, <1>13, <1>14

(***************************************************************************)
(* Piles.                                                                  *)
(***************************************************************************)

Piled(ps, d) == [k \in DOMAIN ps |-> CountIn(ps[k], d)]

(* What all piles hold is a sum over the piles.                             *)
LEMMA PiledFacts ==
    ASSUME NEW ps \in Seq(Seq(Taken)), NEW d
    PROVE  /\ Len(ps) \in Nat /\ Len(ps) \in 0..Len(ps) /\ DOMAIN ps = 1..Len(ps)
           /\ Piled(ps, d) \in Row(Len(ps)) /\ InPiles(ps, d) = Upto(Piled(ps, d), Len(ps))
           /\ InPiles(ps, d) \in Nat
           /\ \A k \in 1..Len(ps) : ps[k] \in Seq(Taken) /\ Piled(ps, d)[k] = CountIn(ps[k], d)
                                    /\ CountIn(ps[k], d) \in Nat
<1>1. Len(ps) \in Nat /\ Len(ps) \in 0..Len(ps) /\ DOMAIN ps = 1..Len(ps)
      /\ \A k \in 1..Len(ps) : ps[k] \in Seq(Taken)
  BY LenProperties
<1>2. \A k \in 1..Len(ps) : CountIn(ps[k], d) \in Nat
  BY <1>1, TakenCounted, HavingFacts
<1>3. /\ Piled(ps, d) \in Tally(Len(ps))
      /\ \A k \in 1..Len(ps) : Piled(ps, d)[k] = CountIn(ps[k], d)
  BY <1>1, <1>2 DEF Piled, Tally
<1>4. InPiles(ps, d) = Upto(Piled(ps, d), Len(ps))
  BY DEF InPiles, Piled
<1>5. Piled(ps, d) \in Row(Len(ps)) /\ Upto(Piled(ps, d), Len(ps)) \in Nat
  BY <1>1, <1>3, TallyIsRow, UptoGrows
<1> QED
  BY <1>1, <1>2, <1>3, <1>4, <1>5

(* A new pile adds what it holds.                                           *)
LEMMA PilesAppend ==
    ASSUME NEW ps \in Seq(Seq(Taken)), NEW p \in Seq(Taken), NEW d
    PROVE  /\ Append(ps, p) \in Seq(Seq(Taken))
           /\ InPiles(Append(ps, p), d) = InPiles(ps, d) + CountIn(p, d)
<1> DEFINE qs == Append(ps, p)
           n == Len(ps)
           f == Piled(ps, d)
           g == Piled(qs, d)
<1>1. /\ qs \in Seq(Seq(Taken)) /\ Len(qs) = n + 1 /\ n \in Nat
      /\ \A i \in 1..(n + 1) : qs[i] = IF i = n + 1 THEN p ELSE ps[i]
  BY AppendProperties, LenProperties
<1> HIDE DEF qs
<1>2. /\ f \in Row(n) /\ InPiles(ps, d) = Upto(f, n)
      /\ \A k \in 1..n : f[k] = CountIn(ps[k], d)
  BY PiledFacts
<1>3. /\ g \in Row(n + 1) /\ InPiles(qs, d) = Upto(g, n + 1)
      /\ \A k \in 1..(n + 1) : g[k] = CountIn(qs[k], d) /\ CountIn(qs[k], d) \in Nat
  BY <1>1, PiledFacts
<1> HIDE DEF f, g, n
<1>4. n + 1 \in Nat /\ n + 1 \in 1..(n + 1) /\ (n + 1) - 1 = n /\ n \in 0..n
  BY <1>1
<1>5. Upto(f, (n + 1) - 1) = Upto(g, n + 1) - g[n + 1]
  <2>1. f \in Row((n + 1) - 1)
    BY <1>2, <1>4
  <2>2. ASSUME NEW i \in 1..((n + 1) - 1)
        PROVE  f[i] = IF i < n + 1 THEN g[i] ELSE g[i + 1]
    <3>1. i \in 1..n /\ i < n + 1 /\ i \in 1..(n + 1) /\ i # n + 1
      BY <1>1
    <3>2. qs[i] = ps[i]
      BY <1>1, <3>1
    <3>3. f[i] = CountIn(ps[i], d) /\ g[i] = CountIn(qs[i], d)
      BY <1>2, <1>3, <3>1
    <3> QED
      BY <3>1, <3>2, <3>3
  <2> QED
    BY <1>3, <1>4, <2>1, <2>2, UptoWithout
<1>6. g[n + 1] = CountIn(p, d) /\ g[n + 1] \in Nat
  BY <1>1, <1>3, <1>4
<1>7. Upto(f, n) \in Int /\ Upto(g, n + 1) \in Int
  BY <1>1, <1>2, <1>3, <1>4, UptoFacts
<1> QED
  BY <1>1, <1>2, <1>3, <1>4, <1>5, <1>6, <1>7 DEF qs

(* A pile removed takes what it holds away.                                 *)
LEMMA PilesRemove ==
    ASSUME NEW ps \in Seq(Seq(Taken)), NEW k \in DOMAIN ps, NEW d
    PROVE  /\ RemoveAt(ps, k) \in Seq(Seq(Taken))
           /\ InPiles(RemoveAt(ps, k), d) = InPiles(ps, d) - CountIn(ps[k], d)
<1> DEFINE qs == RemoveAt(ps, k)
           n == Len(ps)
           f == Piled(ps, d)
           g == Piled(qs, d)
           a == SubSeq(ps, 1, k - 1)
           b == SubSeq(ps, k + 1, n)
<1>1. n \in Nat /\ k \in 1..n
  BY LenProperties
<1>2. /\ a \in Seq(Seq(Taken)) /\ Len(a) = k - 1 /\ \A i \in 1..(k - 1) : a[i] = ps[i]
  BY <1>1, SubSeqProperties
<1>3. /\ b \in Seq(Seq(Taken)) /\ Len(b) = n - k /\ \A i \in 1..(n - k) : b[i] = ps[k + i]
  <2>1. \A i \in 1..(n - k) : (k + 1) + i - 1 = k + i
    BY <1>1
  <2> QED
    BY <1>1, <2>1, SubSeqProperties
<1>4. /\ qs \in Seq(Seq(Taken)) /\ Len(qs) = n - 1
      /\ \A i \in 1..(n - 1) : qs[i] = IF i < k THEN ps[i] ELSE ps[i + 1]
  <2>1. qs = a \o b
    BY DEF RemoveAt
  <2> HIDE DEF a, b, qs
  <2>2. qs \in Seq(Seq(Taken)) /\ Len(qs) = n - 1
    BY <1>1, <1>2, <1>3, <2>1, ConcatProperties
  <2>3. ASSUME NEW i \in 1..(n - 1) PROVE qs[i] = IF i < k THEN ps[i] ELSE ps[i + 1]
    <3>1. i \in 1..(Len(a) + Len(b))
      BY <1>1, <1>2, <1>3
    <3>2. qs[i] = IF i <= Len(a) THEN a[i] ELSE b[i - Len(a)]
      BY <1>2, <1>3, <2>1, <3>1, ConcatProperties
    <3>3. CASE i < k
      BY <1>1, <1>2, <3>2, <3>3
    <3>4. CASE ~(i < k)
      <4>1. i - (k - 1) \in 1..(n - k) /\ k + (i - (k - 1)) = i + 1 /\ ~(i <= k - 1)
        BY <1>1, <3>4
      <4>2. qs[i] = b[i - (k - 1)]
        BY <1>2, <3>2, <4>1
      <4> QED
        BY <1>3, <3>4, <4>1, <4>2
    <3> QED
      BY <3>3, <3>4
  <2> QED
    BY <2>2, <2>3
<1> HIDE DEF qs, a, b
<1>5. /\ f \in Row(n) /\ InPiles(ps, d) = Upto(f, n)
      /\ \A i \in 1..n : f[i] = CountIn(ps[i], d)
  BY PiledFacts
<1>6. /\ g \in Row(n - 1) /\ InPiles(qs, d) = Upto(g, n - 1)
      /\ \A i \in 1..(n - 1) : g[i] = CountIn(qs[i], d)
  BY <1>4, PiledFacts
<1> HIDE DEF f, g, n
<1>7. Upto(g, n - 1) = Upto(f, n) - f[k]
  <2>1. \A i \in 1..(n - 1) : i \in 1..n /\ i + 1 \in 1..n
    BY <1>1
  <2>2. \A i \in 1..(n - 1) : g[i] = IF i < k THEN f[i] ELSE f[i + 1]
    BY <1>4, <1>5, <1>6, <2>1
  <2> QED
    BY <1>1, <1>5, <1>6, <2>2, UptoWithout
<1> QED
  BY <1>1, <1>4, <1>5, <1>6, <1>7 DEF qs

(* A pile replaced counts for what it holds now.                            *)
LEMMA PilesReplace ==
    ASSUME NEW ps \in Seq(Seq(Taken)), NEW k \in DOMAIN ps, NEW p \in Seq(Taken), NEW d
    PROVE  LET qs == [ps EXCEPT ![k] = p] IN
           /\ qs \in Seq(Seq(Taken)) /\ k \in DOMAIN qs /\ qs[k] = p
           /\ InPiles(qs, d) = InPiles(ps, d) + CountIn(p, d) - CountIn(ps[k], d)
<1> DEFINE qs == [ps EXCEPT ![k] = p]
           n == Len(ps)
           f == Piled(ps, d)
           g == Piled(qs, d)
           h == [i \in 1..n |-> g[i] - f[i]]
<1>1. /\ n \in Nat /\ n \in 0..n /\ k \in 1..n /\ DOMAIN ps = 1..n
      /\ f \in Row(n) /\ InPiles(ps, d) = Upto(f, n)
      /\ \A i \in 1..n : f[i] = CountIn(ps[i], d) /\ CountIn(ps[i], d) \in Nat
      /\ \A i \in 1..n : ps[i] \in Seq(Taken)
  BY PiledFacts
<1>2. /\ qs = [i \in 1..n |-> qs[i]] /\ \A i \in 1..n : qs[i] = IF i = k THEN p ELSE ps[i]
  <2> HIDE DEF n
  <2>1. ps = [i \in 1..n |-> ps[i]]
    BY <1>1, SeqDef DEF n
  <2> QED
    BY <1>1, <2>1
<1> HIDE DEF qs
<1>3. qs \in Seq(Seq(Taken)) /\ Len(qs) = n /\ DOMAIN qs = 1..n
  <2>1. \A i \in 1..n : qs[i] \in Seq(Taken)
    BY <1>1, <1>2
  <2> QED
    BY <1>1, <1>2, <2>1, RowSeq
<1>4. /\ g \in Row(n) /\ InPiles(qs, d) = Upto(g, n)
      /\ \A i \in 1..n : g[i] = CountIn(qs[i], d) /\ CountIn(qs[i], d) \in Nat
  BY <1>3, PiledFacts
<1> HIDE DEF f, g, n
<1>5. /\ h \in Row(n) /\ \A i \in 1..n : g[i] = f[i] + h[i] /\ h[i] = g[i] - f[i]
  <2>1. \A i \in 1..n : f[i] \in Int /\ g[i] \in Int
    BY <1>1, <1>4
  <2>2. \A i \in 1..n : h[i] = g[i] - f[i]
    OBVIOUS
  <2>3. \A i \in 1..n : g[i] = f[i] + h[i] /\ h[i] = g[i] - f[i] /\ h[i] \in Int
    BY <2>1, <2>2
  <2>4. h \in Row(n)
    BY <2>1 DEF Row
  <2> QED
    BY <2>3, <2>4
<1> HIDE DEF h
<1>6. Upto(g, n) = Upto(f, n) + Upto(h, n)
  BY <1>1, <1>4, <1>5, UptoPlus
<1>7. Upto(h, n) = h[k]
  <2>1. ASSUME NEW i \in 1..n, i # k PROVE h[i] = 0
    <3>1. g[i] = f[i] /\ f[i] \in Nat
      BY <1>1, <1>2, <1>4, <2>1
    <3> QED
      BY <1>5, <3>1
  <2> QED
    BY <1>1, <1>5, <2>1, UptoOne
<1>8. h[k] = CountIn(p, d) - CountIn(ps[k], d) /\ CountIn(p, d) \in Nat /\ CountIn(ps[k], d) \in Nat
  BY <1>1, <1>2, <1>4, <1>5
<1>9. Upto(f, n) \in Int
  BY <1>1, UptoFacts
<1>10. InPiles(qs, d) = InPiles(ps, d) + CountIn(p, d) - CountIn(ps[k], d)
  BY <1>1, <1>4, <1>6, <1>7, <1>8, <1>9
<1> QED
  BY <1>1, <1>2, <1>3, <1>10 DEF qs

(***************************************************************************)
(* What changes between two holdings of all places.                        *)
(***************************************************************************)

(* Every place is in the order once.                                       *)
LEMMA PlaceOrderFacts ==
    /\ Len(PlaceOrder) \in Nat /\ Len(PlaceOrder) \in 0..Len(PlaceOrder)
    /\ DOMAIN PlaceOrder = 1..Len(PlaceOrder)
    /\ \A k \in 1..Len(PlaceOrder) : PlaceOrder[k] \in Place
    /\ \A k, l \in 1..Len(PlaceOrder) : PlaceOrder[k] = PlaceOrder[l] => k = l
    /\ \A p \in Place : \E k \in 1..Len(PlaceOrder) : PlaceOrder[k] = p
<1> DEFINE n == Cardinality(Place)
<1>1. n \in Nat /\ ExistsBijection(1..n, Place) /\ IsFiniteSet(Place)
  BY PlacesDisjoint, FS_CardinalityType
<1>2. \E f \in [1..n -> Place] : IsInjective(f)
  <2>1. PICK f : f \in Bijection(1..n, Place)
    BY <1>1 DEF ExistsBijection
  <2> QED
    BY <2>1 DEF Bijection, Injection, IsInjective
<1>3. PlaceOrder \in [1..n -> Place] /\ IsInjective(PlaceOrder)
  BY <1>2 DEF PlaceOrder, SetToSeq
<1>4. Len(PlaceOrder) = n /\ DOMAIN PlaceOrder = 1..n
  <2>1. PlaceOrder = [i \in 1..n |-> PlaceOrder[i]] /\ \A i \in 1..n : PlaceOrder[i] \in Place
    BY <1>3
  <2> HIDE DEF n
  <2> QED
    BY <1>1, <2>1, RowSeq
<1>5. \A p \in Place : \E k \in 1..n : PlaceOrder[k] = p
  <2>1. PlaceOrder \in Injection(1..n, Place)
    BY <1>3 DEF Injection, IsInjective
  <2>2. IsFiniteSet(1..n) /\ Cardinality(1..n) = n
    BY <1>1, FS_Interval
  <2>3. PlaceOrder \in Surjection(1..n, Place)
    BY <1>1, <2>1, <2>2, FS_Injection
  <2> QED
    BY <2>3 DEF Surjection
<1> HIDE DEF n
<1>6. \A k, l \in 1..n : PlaceOrder[k] = PlaceOrder[l] => k = l
  BY <1>3, <1>4 DEF IsInjective
<1> QED
  BY <1>1, <1>3, <1>4, <1>5, <1>6

Holdings == {h \in [Place -> Slots] : \A p \in Place : Len(h[p]) = Size[p]}
Between(h, g, d) ==
    [k \in DOMAIN PlaceOrder |->
        IF g[PlaceOrder[k]] = h[PlaceOrder[k]] THEN 0
        ELSE CountIn(g[PlaceOrder[k]], d) - CountIn(h[PlaceOrder[k]], d)]
Shifted(h, g, d) == Upto(Between(h, g, d), Len(PlaceOrder))

(* Holdings are slots of the right number.                                 *)
LEMMA HoldingsFacts ==
    ASSUME NEW h \in Holdings, NEW p \in Place
    PROVE  /\ h[p] \in Slots /\ Len(h[p]) = Size[p] /\ Size[p] \in Nat /\ Size[p] # 0
           /\ DOMAIN h[p] = 1..Size[p]
           /\ \A d : CountIn(h[p], d) \in Nat
<1>1. h[p] \in Slots /\ Len(h[p]) = Size[p] /\ Size[p] \in Nat /\ Size[p] # 0
  BY SizeAssumption DEF Holdings
<1>2. Counted(h[p])
  BY <1>1, SlotsFacts
<1> QED
  BY <1>1, <1>2, HavingFacts DEF Counted

(* The sum over all places is the sum over those that changed.             *)
LEMMA BetweenFacts ==
    ASSUME NEW h \in Holdings, NEW g \in Holdings, NEW d
    PROVE  /\ Between(h, g, d) \in Row(Len(PlaceOrder))
           /\ \A k \in 1..Len(PlaceOrder) :
                 LET p == PlaceOrder[k] IN
                 /\ Between(h, g, d)[k] = CountIn(g[p], d) - CountIn(h[p], d)
                 /\ g[p] = h[p] => Between(h, g, d)[k] = 0
<1>1. \A k \in 1..Len(PlaceOrder) :
         CountIn(g[PlaceOrder[k]], d) \in Nat /\ CountIn(h[PlaceOrder[k]], d) \in Nat
  BY PlaceOrderFacts, HoldingsFacts
<1>2. \A k \in 1..Len(PlaceOrder) :
         Between(h, g, d)[k] = IF g[PlaceOrder[k]] = h[PlaceOrder[k]] THEN 0
                               ELSE CountIn(g[PlaceOrder[k]], d) - CountIn(h[PlaceOrder[k]], d)
  BY PlaceOrderFacts DEF Between
<1>3. ASSUME NEW k \in 1..Len(PlaceOrder)
      PROVE  /\ Between(h, g, d)[k] = CountIn(g[PlaceOrder[k]], d) - CountIn(h[PlaceOrder[k]], d)
             /\ g[PlaceOrder[k]] = h[PlaceOrder[k]] => Between(h, g, d)[k] = 0
             /\ Between(h, g, d)[k] \in Int
  BY <1>1, <1>2
<1>4. Between(h, g, d) = [k \in 1..Len(PlaceOrder) |-> Between(h, g, d)[k]]
  BY PlaceOrderFacts DEF Between
<1>5. Between(h, g, d) \in Row(Len(PlaceOrder))
  BY <1>3, <1>4 DEF Row
<1> QED
  BY <1>3, <1>5

(* Nothing changed, nothing moved.                                          *)
LEMMA ShiftedNone ==
    ASSUME NEW h \in Holdings, NEW d
    PROVE  Shifted(h, h, d) = 0
<1>1. \A k \in 1..Len(PlaceOrder) : Between(h, h, d)[k] = 0
  BY BetweenFacts
<1>2. Between(h, h, d) \in Row(Len(PlaceOrder))
  BY BetweenFacts
<1> QED
  BY <1>1, <1>2, PlaceOrderFacts, UptoNone DEF Shifted

(* Only one place changed.                                                  *)
LEMMA ShiftedOne ==
    ASSUME NEW h \in Holdings, NEW g \in Holdings, NEW d, NEW p \in Place,
           \A o \in Place : o # p => g[o] = h[o]
    PROVE  Shifted(h, g, d) = CountIn(g[p], d) - CountIn(h[p], d)
<1>1. PICK i \in 1..Len(PlaceOrder) : PlaceOrder[i] = p
  BY PlaceOrderFacts
<1>2. \A k \in 1..Len(PlaceOrder) : k # i => Between(h, g, d)[k] = 0
  BY <1>1, PlaceOrderFacts, BetweenFacts
<1>3. Between(h, g, d) \in Row(Len(PlaceOrder))
      /\ Between(h, g, d)[i] = CountIn(g[p], d) - CountIn(h[p], d)
  BY <1>1, BetweenFacts
<1> QED
  BY <1>2, <1>3, PlaceOrderFacts, UptoOne DEF Shifted

(* Only two places changed.                                                 *)
LEMMA ShiftedTwo ==
    ASSUME NEW h \in Holdings, NEW g \in Holdings, NEW d, NEW p \in Place, NEW q \in Place, p # q,
           \A o \in Place : o # p /\ o # q => g[o] = h[o]
    PROVE  Shifted(h, g, d) = (CountIn(g[p], d) - CountIn(h[p], d))
                              + (CountIn(g[q], d) - CountIn(h[q], d))
<1>1. PICK i \in 1..Len(PlaceOrder) : PlaceOrder[i] = p
  BY PlaceOrderFacts
<1>2. PICK j \in 1..Len(PlaceOrder) : PlaceOrder[j] = q
  BY PlaceOrderFacts
<1>3. i # j /\ \A k \in 1..Len(PlaceOrder) : k # i /\ k # j => Between(h, g, d)[k] = 0
  BY <1>1, <1>2, PlaceOrderFacts, BetweenFacts
<1>4. /\ Between(h, g, d) \in Row(Len(PlaceOrder))
      /\ Between(h, g, d)[i] = CountIn(g[p], d) - CountIn(h[p], d)
      /\ Between(h, g, d)[j] = CountIn(g[q], d) - CountIn(h[q], d)
  BY <1>1, <1>2, BetweenFacts
<1> QED
  BY <1>3, <1>4, PlaceOrderFacts, UptoTwo DEF Shifted

(* What two steps move is the sum of what each moves.                       *)
LEMMA ShiftedPlus ==
    ASSUME NEW h \in Holdings, NEW g \in Holdings, NEW f \in Holdings, NEW d
    PROVE  /\ Shifted(h, f, d) = Shifted(h, g, d) + Shifted(g, f, d)
           /\ Shifted(h, g, d) \in Int /\ Shifted(g, f, d) \in Int
<1> DEFINE n == Len(PlaceOrder)
<1>1. Between(h, f, d) \in Row(n) /\ Between(h, g, d) \in Row(n) /\ Between(g, f, d) \in Row(n)
  BY BetweenFacts
<1>2. ASSUME NEW k \in 1..n
      PROVE  Between(h, f, d)[k] = Between(h, g, d)[k] + Between(g, f, d)[k]
  <2> DEFINE p == PlaceOrder[k]
  <2>1. p \in Place
    BY PlaceOrderFacts
  <2>2. /\ Between(h, f, d)[k] = CountIn(f[p], d) - CountIn(h[p], d)
        /\ Between(h, g, d)[k] = CountIn(g[p], d) - CountIn(h[p], d)
        /\ Between(g, f, d)[k] = CountIn(f[p], d) - CountIn(g[p], d)
    BY BetweenFacts
  <2>3. CountIn(f[p], d) \in Nat /\ CountIn(g[p], d) \in Nat /\ CountIn(h[p], d) \in Nat
    BY <2>1, HoldingsFacts
  <2> QED
    BY <2>2, <2>3
<1>3. n \in Nat /\ n \in 0..n
  BY PlaceOrderFacts
<1>4. Upto(Between(h, f, d), n) = Upto(Between(h, g, d), n) + Upto(Between(g, f, d), n)
  <2> HIDE DEF n
  <2> QED
    BY <1>1, <1>2, <1>3, UptoPlus
<1>5. Upto(Between(h, g, d), n) \in Int /\ Upto(Between(g, f, d), n) \in Int
  <2> HIDE DEF n
  <2> QED
    BY <1>1, <1>3, UptoFacts
<1> QED
  BY <1>4, <1>5 DEF Shifted

(* One place gets other slots, of the same number.                         *)
Rewrites(h, p, s, g) == g = [h EXCEPT ![p] = s]

(* One place rewritten: only its items moved.                               *)
LEMMA HoldOne ==
    ASSUME NEW h \in Holdings, NEW p \in Place, NEW s \in Slots, Len(s) = Size[p],
           NEW g, Rewrites(h, p, s, g)
    PROVE  /\ g \in Holdings /\ g[p] = s /\ \A o \in Place : o # p => g[o] = h[o]
           /\ \A d : Shifted(h, g, d) = CountIn(s, d) - CountIn(h[p], d)
<1>1. g \in Holdings /\ g[p] = s /\ \A o \in Place : o # p => g[o] = h[o]
  BY DEF Holdings, Rewrites
<1>2. \A d : Shifted(h, g, d) = CountIn(s, d) - CountIn(h[p], d)
  BY <1>1, ShiftedOne
<1> QED
  BY <1>1, <1>2

Cells == {c \in Slot : c.item = None <=> c.count = 0}
In(c, d) == IF c.item = d THEN c.count ELSE 0

(* A slot of a place is well formed.                                        *)
LEMMA CellFacts ==
    ASSUME NEW h \in Holdings, NEW p \in Place, NEW i \in At(p)
    PROVE  /\ h[p][i] \in Cells /\ h[p][i].count \in Nat /\ h[p][i].item \in Items \cup {None}
           /\ \A d : In(h[p][i], d) \in Nat
<1>1. h[p] \in Slots /\ Len(h[p]) = Size[p]
  BY HoldingsFacts
<1>2. i \in 1..Len(h[p])
  BY <1>1 DEF At
<1>3. /\ h[p][i] \in Slot /\ h[p][i].item \in Items \cup {None} /\ h[p][i].count \in Nat
      /\ (h[p][i].item = None <=> h[p][i].count = 0)
  BY <1>1, <1>2, SlotsFacts
<1> QED
  BY <1>3 DEF Cells, In

(* One slot rewritten.                                                      *)
LEMMA PutOne ==
    ASSUME NEW h \in Holdings, NEW p \in Place, NEW i \in At(p), NEW x \in Cells
    PROVE  /\ Put(h, p, i, x) \in Holdings
           /\ Put(h, p, i, x)[p][i] = x
           /\ \A o \in Place : \A k \in At(o) :
                 <<o, k>> # <<p, i>> => Put(h, p, i, x)[o][k] = h[o][k]
           /\ \A o \in Place : o # p => Put(h, p, i, x)[o] = h[o]
           /\ \A d : Shifted(h, Put(h, p, i, x), d) = In(x, d) - In(h[p][i], d)
<1> DEFINE s == h[p]
           t == [s EXCEPT ![i] = x]
           n == Size[p]
<1>1. s \in Slots /\ Len(s) = n /\ n \in Nat /\ Counted(s) /\ i \in 1..n
      /\ \A k \in 1..n : s[k] \in Slot /\ (s[k].item = None <=> s[k].count = 0)
  <2>1. s \in Slots /\ Len(s) = n /\ n \in Nat
    BY HoldingsFacts
  <2> HIDE DEF s
  <2> QED
    BY <2>1, SlotsFacts DEF At
<1>2. Put(h, p, i, x) = [h EXCEPT ![p] = t]
  BY DEF Put
<1> HIDE DEF s, n
<1>3. /\ t = [k \in 1..n |-> t[k]] /\ t[i] = x
      /\ \A k \in 1..n : k # i => t[k] = s[k]
  BY <1>1 DEF Counted
<1> HIDE DEF t
<1>4. t \in Slots /\ Len(t) = n
  <2>1. \A k \in 1..n : t[k] \in Slot /\ (t[k].item = None <=> t[k].count = 0)
    BY <1>1, <1>3 DEF Cells
  <2> QED
    BY <1>1, <1>3, <2>1, SlotsIntro
<1>5. Counted(t)
  BY <1>4, SlotsFacts
<1>6. \A d : CountIn(t, d) = CountIn(s, d) + Having(t, d)[i] - Having(s, d)[i]
  BY <1>1, <1>3, <1>4, <1>5, CountOne
<1>7. \A d : Having(t, d)[i] = In(x, d) /\ Having(s, d)[i] = In(s[i], d)
  BY <1>1, <1>3, <1>4, <1>5, HavingFacts DEF In
<1>8. \A d : CountIn(s, d) \in Nat /\ In(x, d) \in Nat /\ In(s[i], d) \in Nat
  BY <1>1, HavingFacts DEF In, Cells, Slot
<1>9. /\ Put(h, p, i, x) \in Holdings /\ Put(h, p, i, x)[p] = t
      /\ \A o \in Place : o # p => Put(h, p, i, x)[o] = h[o]
      /\ \A d : Shifted(h, Put(h, p, i, x), d) = CountIn(t, d) - CountIn(s, d)
  <2>1. t \in Slots /\ Len(t) = Size[p]
    BY <1>4 DEF n
  <2> DEFINE g == Put(h, p, i, x)
  <2>2. Rewrites(h, p, t, g)
    BY <1>2 DEF Rewrites
  <2> HIDE DEF g
  <2>3. /\ g \in Holdings /\ g[p] = t /\ \A o \in Place : o # p => g[o] = h[o]
        /\ \A d : Shifted(h, g, d) = CountIn(t, d) - CountIn(h[p], d)
    BY <2>1, <2>2, HoldOne
  <2>4. s = h[p]
    BY DEF s
  <2> QED
    BY <2>3, <2>4 DEF g
<1>10. ASSUME NEW d PROVE Shifted(h, Put(h, p, i, x), d) = In(x, d) - In(h[p][i], d)
  <2>1. Shifted(h, Put(h, p, i, x), d) = CountIn(t, d) - CountIn(s, d)
    BY <1>9
  <2>2. CountIn(t, d) = CountIn(s, d) + In(x, d) - In(s[i], d)
    BY <1>6, <1>7
  <2>3. Shifted(h, Put(h, p, i, x), d) = In(x, d) - In(s[i], d)
    BY <1>8, <2>1, <2>2
  <2> QED
    BY <2>3 DEF s
<1>11. ASSUME NEW o \in Place, NEW k \in At(o), <<o, k>> # <<p, i>>
       PROVE  Put(h, p, i, x)[o][k] = h[o][k]
  <2>1. CASE o # p
    BY <1>9, <2>1
  <2>2. CASE o = p
    BY <1>3, <1>9, <1>11, <2>2 DEF s, n, At
  <2> QED
    BY <2>1, <2>2
<1> QED
  BY <1>3, <1>9, <1>10, <1>11

(* Two slots rewritten, one after the other, perhaps the same one.         *)
LEMMA PutTwo ==
    ASSUME NEW h \in Holdings, NEW q \in Place, NEW j \in At(q), NEW x \in Cells,
           NEW p \in Place, NEW i \in At(p), NEW y \in Cells
    PROVE  LET g == Put(Put(h, q, j, x), p, i, y)
               old == IF <<p, i>> = <<q, j>> THEN x ELSE h[p][i]
           IN
           /\ g \in Holdings
           /\ \A o \in Place : o # p /\ o # q => g[o] = h[o]
           /\ \A d : Shifted(h, g, d) = In(x, d) - In(h[q][j], d) + In(y, d) - In(old, d)
<1> DEFINE f == Put(h, q, j, x)
           g == Put(f, p, i, y)
           old == IF <<p, i>> = <<q, j>> THEN x ELSE h[p][i]
<1>1. /\ f \in Holdings /\ f[q][j] = x /\ \A o \in Place : o # q => f[o] = h[o]
      /\ \A o \in Place : \A k \in At(o) : <<o, k>> # <<q, j>> => f[o][k] = h[o][k]
      /\ \A d : Shifted(h, f, d) = In(x, d) - In(h[q][j], d)
  BY PutOne
<1> HIDE DEF f
<1>2. /\ g \in Holdings /\ \A o \in Place : o # p => g[o] = f[o]
      /\ \A d : Shifted(f, g, d) = In(y, d) - In(f[p][i], d)
  BY <1>1, PutOne
<1> HIDE DEF g
<1>3. f[p][i] = old
  <2>1. CASE <<p, i>> = <<q, j>>
    BY <1>1, <2>1
  <2>2. CASE <<p, i>> # <<q, j>>
    BY <1>1, <2>2
  <2> QED
    BY <2>1, <2>2
<1> HIDE DEF old
<1>4. ASSUME NEW d
      PROVE  Shifted(h, g, d) = In(x, d) - In(h[q][j], d) + In(y, d) - In(old, d)
  <2>1. Shifted(h, g, d) = Shifted(h, f, d) + Shifted(f, g, d)
    BY <1>1, <1>2, ShiftedPlus
  <2>2. In(h[q][j], d) \in Nat /\ In(f[p][i], d) \in Nat
    BY <1>1, CellFacts
  <2>3. In(x, d) \in Nat /\ In(y, d) \in Nat
    BY DEF Cells, Slot, In
  <2> QED
    BY <1>1, <1>2, <1>3, <2>1, <2>2, <2>3
<1> QED
  BY <1>1, <1>2, <1>4 DEF g, f, old

(***************************************************************************)
(* The state, as the steps need it.                                        *)
(***************************************************************************)

(* Holdings are what the type invariant says of held.                       *)
LEMMA HoldingsIs ==
    ASSUME NEW h
    PROVE  h \in Holdings <=> /\ h \in [Place -> Seq(Slot)]
                              /\ \A p \in Place : Len(h[p]) = Size[p]
                              /\ \A p \in Place : WellFormed(h[p])
BY DEF Holdings, Slots

(* What the type invariant says of disk.                                    *)
LEMMA StoredIs ==
    ASSUME NEW k
    PROVE  k \in [Chests -> Slots] <=> /\ k \in [Chests -> Seq(Slot)]
                                       /\ \A c \in Chests : WellFormed(k[c])
BY DEF Slots

(* Chests that are not placed are empty: a placement loses nothing.        *)
UnplacedEmpty == \A c \in Chests \ placed : held[c] = Blank(Size[c])
StockInv == TypeOK /\ UnplacedEmpty

(* All of the type invariant but for the slots.                            *)
Rest ==
    /\ placed \subseteq Chests
    /\ known \in [Builders -> SUBSET Recipes]
    /\ seq \in 0..MaxEvents
    /\ dirty \subseteq Builders /\ timer \in BOOLEAN
    /\ stale \subseteq Builders /\ spilled \subseteq Builders
    /\ disk \in [Chests -> Slots]
    /\ piles \in Seq(Seq(Taken))
    /\ ground \in [Items -> Nat]

(* The invariant, in the form the steps use.                                *)
LEMMA StockIs == StockInv <=> held \in Holdings /\ Rest /\ UnplacedEmpty
<1>1. held \in Holdings <=> /\ held \in [Place -> Seq(Slot)]
                            /\ \A p \in Place : Len(held[p]) = Size[p]
                            /\ \A p \in Place : WellFormed(held[p])
  BY HoldingsIs
<1>2. disk \in [Chests -> Slots] <=> /\ disk \in [Chests -> Seq(Slot)]
                                     /\ \A c \in Chests : WellFormed(disk[c])
  BY StoredIs
<1> QED
  BY <1>1, <1>2 DEF StockInv, TypeOK, Rest

(* What a step has to show to keep the invariant.                           *)
LEMMA StockNext ==
    ASSUME StockInv, held' \in Holdings, Rest', placed \subseteq placed',
           \A c \in Chests \ placed' : held'[c] = held[c]
    PROVE  StockInv'
<1>1. held' \in Holdings <=> /\ held' \in [Place -> Seq(Slot)]
                             /\ \A p \in Place : Len(held'[p]) = Size[p]
                             /\ \A p \in Place : WellFormed(held'[p])
  BY HoldingsIs
<1>2. disk' \in [Chests -> Slots] <=> /\ disk' \in [Chests -> Seq(Slot)]
                                      /\ \A c \in Chests : WellFormed(disk'[c])
  BY StoredIs
<1>3. TypeOK'
  BY <1>1, <1>2 DEF TypeOK, Rest
<1>4. UnplacedEmpty'
  BY DEF UnplacedEmpty, StockInv
<1> QED
  BY <1>3, <1>4 DEF StockInv

(* Blank slots are well formed and hold nothing.                            *)
LEMMA BlankFacts ==
    ASSUME NEW n \in Nat
    PROVE  Blank(n) \in Slots /\ Len(Blank(n)) = n /\ \A d \in Items : CountIn(Blank(n), d) = 0
<1> DEFINE s == Blank(n)
<1>1. /\ s = [i \in 1..n |-> s[i]] /\ \A i \in 1..n : s[i].item = None
      /\ \A i \in 1..n : s[i] \in Slot /\ (s[i].item = None <=> s[i].count = 0)
  BY DEF Blank, Empty, Slot
<1> HIDE DEF s
<1>2. s \in Slots /\ Len(s) = n
  BY <1>1, SlotsIntro
<1>3. Counted(s)
  BY <1>2, SlotsFacts
<1>4. ASSUME NEW d \in Items PROVE CountIn(s, d) = 0
  <2>1. \A i \in 1..n : Having(s, d)[i] = 0
    BY <1>1, <1>2, <1>3, HavingFacts, ItemAssumption
  <2>2. Having(s, d) \in Row(n)
    BY <1>2, <1>3, HavingFacts
  <2>3. n \in 0..n
    OBVIOUS
  <2> QED
    BY <1>2, <2>1, <2>2, <2>3, UptoNone DEF CountIn
<1> QED
  BY <1>2, <1>4 DEF s

(* Builders, grids and chests are places, and different ones.               *)
LEMMA PlaceFacts ==
    /\ Builders \subseteq Place /\ Grids \subseteq Place /\ Chests \subseteq Place
    /\ Small \in Grids
    /\ \A b \in Builders, g \in Grids : b # g
    /\ \A c \in Chests : c \notin Builders /\ c \notin Grids
  BY PlacesDisjoint, SizeAssumption DEF Place

(* An accepted event keeps its part of the state well formed, and is
   counted.                                                                 *)
LEMMA AcceptFacts ==
    ASSUME Rest, NEW b \in Builders, NEW n \in Nat, Accept(b, n)
    PROVE  /\ seq' \in 0..MaxEvents /\ seq' = seq + n /\ (seq' = seq => n = 0)
           /\ dirty' \subseteq Builders /\ timer' \in BOOLEAN /\ stale' \subseteq Builders
<1>1. seq' = seq + n /\ seq + n <= MaxEvents /\ seq \in Nat /\ MaxEvents \in Nat
  BY BoundAssumption DEF Accept, Rest
<1>2. dirty' \subseteq Builders /\ timer' \in BOOLEAN
  BY DEF Accept, Rest
<1>3. stale' \subseteq Builders
  BY DEF Accept, Rest
<1> QED
  BY <1>1, <1>2, <1>3

(* A chest stored is well formed.                                           *)
LEMMA StoreFacts ==
    ASSUME Rest, held' \in Holdings, NEW P, StoreChests(P)
    PROVE  disk' \in [Chests -> Slots]
<1>1. \A c \in Chests : held'[c] \in Slots
  BY PlaceFacts DEF Holdings
<1> QED
  BY <1>1 DEF StoreChests, Rest

(* The gain of a step is what moved in places, on the ground and in piles.  *)
LEMMA GainIs ==
    ASSUME NEW d
    PROVE  Gain(d) = Shifted(held, held', d) + ground'[d] - ground[d]
                     + IF piles' = piles THEN 0 ELSE InPiles(piles', d) - InPiles(piles, d)
  BY DEF Gain, Shifted, Between

(* The gain of a step that touches places only.                             *)
LEMMA GainHeld ==
    ASSUME StockInv, held' \in Holdings, UNCHANGED <<piles, ground>>, NEW d \in Items
    PROVE  Gain(d) = Shifted(held, held', d)
<1>1. ground[d] \in Nat /\ ground' = ground /\ piles' = piles
  BY StockIs DEF Rest
<1>2. Shifted(held, held', d) \in Int
  BY StockIs, ShiftedPlus
<1> QED
  BY <1>1, <1>2, GainIs

(* The gain of a step that touches no place.                                *)
LEMMA GainStill ==
    ASSUME StockInv, Rest', held' = held, NEW d \in Items
    PROVE  Gain(d) = ground'[d] - ground[d]
                     + IF piles' = piles THEN 0 ELSE InPiles(piles', d) - InPiles(piles, d)
<1>1. Shifted(held, held', d) = 0
  BY StockIs, ShiftedNone
<1> DEFINE more == ground'[d]
           moved == IF piles' = piles THEN 0 ELSE InPiles(piles', d) - InPiles(piles, d)
<1>2. Gain(d) = 0 + more - ground[d] + moved
  BY <1>1, GainIs
<1>3. more \in Nat /\ ground[d] \in Nat
  BY StockIs DEF Rest
<1>4. 0 + (more - ground[d]) = more - ground[d]
  <2> HIDE DEF more
  <2> QED
    BY <1>3
<1>5. Gain(d) = more - ground[d] + moved
  <2> HIDE DEF more, moved
  <2> QED
    BY <1>2, <1>4
<1> QED
  BY <1>5

(***************************************************************************)
(* Items that come and go.                                                 *)
(***************************************************************************)

(* An addition hands out no more than it says, and without an event it
   leaves the slots full.                                                   *)
LEMMA AddItemsStep ==
    ASSUME StockInv, NEW b \in Builders, NEW e \in Wild, NEW n \in 1..StackMax,
           AddItems(b, e, n)
    PROVE  /\ StockInv'
           /\ \A d \in Items : Gain(d) <= (IF d = e THEN n ELSE 0) /\ Gain(d) >= 0
           /\ seq' = seq => \A p \in Place : held'[p] # held[p] => p = b /\ Grown(held[p], held'[p])
<1>1. /\ held \in Holdings /\ Rest /\ e \in Items /\ n \in Nat /\ b \in Place
      /\ held[b] \in Slots /\ Len(held[b]) = Size[b]
  BY StockIs, ItemAssumption, SizeAssumption, PlaceFacts, HoldingsFacts
<1> DEFINE s == held[b]
           t == Poured(s, e, n)
           m == Spilt(s, e, n)
<1>2. /\ t \in Slots /\ Len(t) = Size[b] /\ m \in 0..n
      /\ CountIn(t, e) = CountIn(s, e) + n - m
      /\ \A d \in Items : d # e => CountIn(t, d) = CountIn(s, d)
      /\ \A i \in 1..Len(s) : t[i] # s[i] => t[i].item = e /\ t[i].count > s[i].count
  BY <1>1, PouredFacts
<1>3. m # 0 => NoRoom(t, e)
  BY <1>1, SpiltIsFull
<1>4. /\ held' = [held EXCEPT ![b] = t] /\ UNCHANGED <<known, disk, placed, piles, ground>>
      /\ spilled' \in {spilled, spilled \cup {b}}
      /\ Accept(b, IF m = 0 THEN 1 ELSE 0)
  BY DEF AddItems, world
<1> HIDE DEF t, m
<1>5. /\ held' \in Holdings /\ held'[b] = t /\ \A o \in Place : o # b => held'[o] = held[o]
      /\ \A d : Shifted(held, held', d) = CountIn(t, d) - CountIn(s, d)
  <2>1. Rewrites(held, b, t, held')
    BY <1>4 DEF Rewrites
  <2> QED
    BY <1>1, <1>2, <2>1, HoldOne
<1>6. /\ seq' \in 0..MaxEvents /\ (seq' = seq => m # 0)
      /\ dirty' \subseteq Builders /\ timer' \in BOOLEAN /\ stale' \subseteq Builders
  BY <1>1, <1>4, AcceptFacts
<1>7. StockInv'
  <2>1. Rest'
    BY <1>1, <1>4, <1>6 DEF Rest
  <2>2. \A c \in Chests \ placed' : held'[c] = held[c]
    BY <1>5, PlaceFacts
  <2> QED
    BY <1>4, <1>5, <2>1, <2>2, StockNext
<1>8. ASSUME NEW d \in Items PROVE Gain(d) <= (IF d = e THEN n ELSE 0) /\ Gain(d) >= 0
  <2>1. Gain(d) = CountIn(t, d) - CountIn(s, d)
    BY <1>4, <1>5, GainHeld
  <2>2. CountIn(s, d) \in Nat
    BY <1>1, HoldingsFacts
  <2> HIDE DEF s
  <2> QED
    BY <1>1, <1>2, <2>1, <2>2
<1>9. ASSUME seq' = seq, NEW p \in Place, held'[p] # held[p]
      PROVE  p = b /\ Grown(held[p], held'[p])
  <2>1. p = b
    BY <1>5, <1>9
  <2>2. NoRoom(t, e)
    BY <1>3, <1>6, <1>9
  <2>3. Grown(s, t)
    BY <1>1, <1>2, <2>2 DEF Grown
  <2> QED
    BY <1>5, <2>1, <2>3
<1> QED
  BY <1>7, <1>8, <1>9

(* A removal takes exactly what it says, by an event.                       *)
LEMMA RemoveItemsStep ==
    ASSUME StockInv, NEW b \in Builders, NEW e \in Wild, NEW n \in 1..StackMax,
           RemoveItems(b, e, n)
    PROVE  /\ StockInv' /\ seq' # seq
           /\ \A d \in Items : Gain(d) = IF d = e THEN -n ELSE 0
<1>1. /\ held \in Holdings /\ Rest /\ e \in Items /\ n \in Nat /\ b \in Place
      /\ held[b] \in Slots /\ Len(held[b]) = Size[b]
  BY StockIs, ItemAssumption, SizeAssumption, PlaceFacts, HoldingsFacts
<1> DEFINE s == held[b]
           t == Drained(s, e, n)
<1>2. /\ t \in Slots /\ Len(t) = Size[b]
      /\ CountIn(t, e) = CountIn(s, e) - Least(n, CountIn(s, e))
      /\ \A d \in Items : d # e => CountIn(t, d) = CountIn(s, d)
  BY <1>1, DrainedFacts
<1>3. /\ held' = [held EXCEPT ![b] = t] /\ UNCHANGED <<known, disk, spilled, placed, piles, ground>>
      /\ CountIn(s, e) >= n /\ Accept(b, 1)
  BY DEF RemoveItems, world
<1> HIDE DEF t
<1>4. /\ held' \in Holdings /\ held'[b] = t /\ \A o \in Place : o # b => held'[o] = held[o]
      /\ \A d : Shifted(held, held', d) = CountIn(t, d) - CountIn(s, d)
  <2>1. Rewrites(held, b, t, held')
    BY <1>3 DEF Rewrites
  <2> QED
    BY <1>1, <1>2, <2>1, HoldOne
<1>5. /\ seq' \in 0..MaxEvents /\ seq' # seq
      /\ dirty' \subseteq Builders /\ timer' \in BOOLEAN /\ stale' \subseteq Builders
  BY <1>1, <1>3, AcceptFacts
<1>6. StockInv'
  <2>1. Rest'
    BY <1>1, <1>3, <1>5 DEF Rest
  <2>2. \A c \in Chests \ placed' : held'[c] = held[c]
    BY <1>4, PlaceFacts
  <2> QED
    BY <1>3, <1>4, <2>1, <2>2, StockNext
<1>7. ASSUME NEW d \in Items PROVE Gain(d) = IF d = e THEN -n ELSE 0
  <2>1. Gain(d) = CountIn(t, d) - CountIn(s, d)
    BY <1>3, <1>4, GainHeld
  <2>2. CountIn(s, d) \in Nat
    BY <1>1, HoldingsFacts
  <2> HIDE DEF s
  <2> QED
    BY <1>1, <1>2, <1>3, <2>1, <2>2 DEF Least
<1> QED
  BY <1>5, <1>6, <1>7

(* A drop is one item more.                                                 *)
LEMMA DropStep ==
    ASSUME StockInv, NEW e \in Wild, Drop(e)
    PROVE  /\ StockInv' /\ held' = held
           /\ \A d \in Items : Gain(d) = IF d = e THEN 1 ELSE 0
<1>1. /\ held \in Holdings /\ Rest /\ e \in Items
      /\ UNCHANGED <<held, placed, known, seq, dirty, timer, stale, disk, spilled, piles>>
      /\ ground' = [ground EXCEPT ![e] = @ + 1]
  BY StockIs, ItemAssumption DEF Drop
<1>2. /\ \A d \in Items : ground'[d] = ground[d] + (IF d = e THEN 1 ELSE 0) /\ ground[d] \in Nat
      /\ ground' \in [Items -> Nat]
  BY <1>1 DEF Rest
<1>3. Rest'
  BY <1>1, <1>2 DEF Rest
<1>4. StockInv'
  BY <1>1, <1>3, StockNext
<1>5. ASSUME NEW d \in Items PROVE Gain(d) = IF d = e THEN 1 ELSE 0
  <2>1. Gain(d) = ground'[d] - ground[d] + 0
    BY <1>1, <1>3, GainStill
  <2> QED
    BY <1>2, <2>1
<1> QED
  BY <1>1, <1>4, <1>5

(* An item that settles unclaimed is one item fewer.                        *)
LEMMA SettleStep ==
    ASSUME StockInv, NEW e \in Wild, Settle(e)
    PROVE  /\ StockInv' /\ held' = held
           /\ \A d \in Items : Gain(d) = IF d = e THEN -1 ELSE 0
<1>1. /\ held \in Holdings /\ Rest /\ e \in Items
      /\ UNCHANGED <<held, placed, known, seq, dirty, timer, stale, disk, spilled, piles>>
      /\ ground' = [ground EXCEPT ![e] = @ - 1] /\ ground[e] > 0
  BY StockIs, ItemAssumption DEF Settle
<1>2. /\ \A d \in Items : ground'[d] = ground[d] - (IF d = e THEN 1 ELSE 0) /\ ground[d] \in Nat
      /\ ground' \in [Items -> Nat]
  BY <1>1 DEF Rest
<1>3. Rest'
  BY <1>1, <1>2 DEF Rest
<1>4. StockInv'
  BY <1>1, <1>3, StockNext
<1>5. ASSUME NEW d \in Items PROVE Gain(d) = IF d = e THEN -1 ELSE 0
  <2>1. Gain(d) = ground'[d] - ground[d] + 0
    BY <1>1, <1>3, GainStill
  <2> QED
    BY <1>2, <2>1
<1> QED
  BY <1>1, <1>4, <1>5

(* A pick-up moves an item from the ground into the slots.                  *)
LEMMA PickUpStep ==
    ASSUME StockInv, NEW b \in Builders, NEW e \in Wild, PickUp(b, e)
    PROVE  /\ StockInv' /\ seq' # seq
           /\ \A d \in Items : Gain(d) = 0
<1>1. /\ held \in Holdings /\ Rest /\ e \in Items /\ b \in Place
      /\ held[b] \in Slots /\ Len(held[b]) = Size[b]
  BY StockIs, ItemAssumption, SizeAssumption, PlaceFacts, HoldingsFacts
<1> DEFINE s == held[b]
           t == Poured(s, e, 1)
<1>2. /\ Spilt(s, e, 1) = 0 /\ ground[e] > 0 /\ Accept(b, 1)
      /\ ground' = [ground EXCEPT ![e] = @ - 1]
      /\ held' = [held EXCEPT ![b] = t] /\ UNCHANGED <<known, disk, spilled, placed, piles>>
  BY DEF PickUp
<1>3. /\ t \in Slots /\ Len(t) = Size[b]
      /\ CountIn(t, e) = CountIn(s, e) + 1 - Spilt(s, e, 1)
      /\ \A d \in Items : d # e => CountIn(t, d) = CountIn(s, d)
  BY <1>1, PouredFacts
<1> HIDE DEF t
<1>4. /\ held' \in Holdings /\ held'[b] = t /\ \A o \in Place : o # b => held'[o] = held[o]
      /\ \A d : Shifted(held, held', d) = CountIn(t, d) - CountIn(s, d)
  <2>1. Rewrites(held, b, t, held')
    BY <1>2 DEF Rewrites
  <2> QED
    BY <1>1, <1>3, <2>1, HoldOne
<1>5. /\ seq' \in 0..MaxEvents /\ seq' # seq
      /\ dirty' \subseteq Builders /\ timer' \in BOOLEAN /\ stale' \subseteq Builders
  BY <1>1, <1>2, AcceptFacts
<1>6. /\ \A d \in Items : ground'[d] = ground[d] - (IF d = e THEN 1 ELSE 0) /\ ground[d] \in Nat
      /\ ground' \in [Items -> Nat]
  BY <1>1, <1>2 DEF Rest
<1>7. StockInv'
  <2>1. Rest'
    BY <1>1, <1>2, <1>5, <1>6 DEF Rest
  <2>2. \A c \in Chests \ placed' : held'[c] = held[c]
    BY <1>4, PlaceFacts
  <2> QED
    BY <1>2, <1>4, <2>1, <2>2, StockNext
<1>8. ASSUME NEW d \in Items PROVE Gain(d) = 0
  <2>1. Gain(d) = (CountIn(t, d) - CountIn(s, d)) + (ground'[d] - ground[d]) + 0
    BY <1>2, <1>4, GainIs
  <2>2. CountIn(s, d) \in Nat
    BY <1>1, HoldingsFacts
  <2>3. CountIn(t, d) = CountIn(s, d) + (IF d = e THEN 1 ELSE 0)
    <3> HIDE DEF s
    <3>1. CountIn(s, e) \in Nat
      BY <1>1, HoldingsFacts DEF s
    <3> QED
      BY <1>2, <1>3, <2>2, <3>1
  <2> HIDE DEF s
  <2> QED
    BY <1>6, <2>1, <2>2, <2>3
<1> QED
  BY <1>5, <1>7, <1>8

(* A death moves all that was carried into a pile.                          *)
LEMMA DieStep ==
    ASSUME StockInv, NEW b \in Builders, Die(b)
    PROVE  StockInv' /\ seq' # seq /\ \A d \in Items : Gain(d) = 0
<1>1. /\ held \in Holdings /\ Rest /\ b \in Place
      /\ held[b] \in Slots /\ Size[b] \in Nat
  BY StockIs, SizeAssumption, PlaceFacts, HoldingsFacts
<1>2. UNCHANGED <<known, disk, spilled, placed, ground>> /\ Accept(b, 1)
  BY DEF Die
<1>3. /\ seq' \in 0..MaxEvents /\ seq' # seq
      /\ dirty' \subseteq Builders /\ timer' \in BOOLEAN /\ stale' \subseteq Builders
  BY <1>1, <1>2, AcceptFacts
<1>4. CASE Survival
  <2> DEFINE s == held[b]
             t == Blank(Size[b])
             pile == Carried(s)
  <2>1. held' = [held EXCEPT ![b] = t] /\ piles' = Append(piles, pile)
    BY <1>4 DEF Die
  <2>2. t \in Slots /\ Len(t) = Size[b] /\ \A d \in Items : CountIn(t, d) = 0
    BY <1>1, BlankFacts
  <2>3. pile \in Seq(Taken) /\ \A d \in Items : CountIn(pile, d) = CountIn(s, d)
    BY <1>1, CarriedFacts
  <2> HIDE DEF t, pile
  <2>4. /\ held' \in Holdings /\ held'[b] = t /\ \A o \in Place : o # b => held'[o] = held[o]
        /\ \A d : Shifted(held, held', d) = CountIn(t, d) - CountIn(s, d)
    <3>1. Rewrites(held, b, t, held')
      BY <2>1 DEF Rewrites
    <3> QED
      BY <1>1, <2>2, <3>1, HoldOne
  <2>5. piles \in Seq(Seq(Taken))
    BY <1>1 DEF Rest
  <2>6. piles' \in Seq(Seq(Taken)) /\ \A d : InPiles(piles', d) = InPiles(piles, d) + CountIn(pile, d)
    BY <2>1, <2>3, <2>5, PilesAppend
  <2>7. StockInv'
    <3>1. Rest'
      BY <1>1, <1>2, <1>3, <2>6 DEF Rest
    <3>2. \A c \in Chests \ placed' : held'[c] = held[c]
      BY <2>4, PlaceFacts
    <3> QED
      BY <1>2, <2>4, <3>1, <3>2, StockNext
  <2>8. ASSUME NEW d \in Items PROVE Gain(d) = 0
    <3>1. Gain(d) = (CountIn(t, d) - CountIn(s, d)) + (ground'[d] - ground[d])
                    + IF piles' = piles THEN 0 ELSE InPiles(piles', d) - InPiles(piles, d)
      BY <2>4, GainIs
    <3>2. CountIn(s, d) \in Nat /\ ground[d] \in Nat /\ InPiles(piles, d) \in Nat
      BY <1>1, <2>5, HoldingsFacts, PiledFacts DEF Rest
    <3>3. ground' = ground
      BY <1>2
    <3>4. piles' # piles
      <4>1. Len(piles') = Len(piles) + 1 /\ Len(piles) \in Nat
        BY <2>1, <2>3, <2>5, AppendProperties, LenProperties
      <4> QED
        BY <4>1
    <3>5. InPiles(piles', d) = InPiles(piles, d) + CountIn(s, d) /\ CountIn(t, d) = 0
      BY <2>2, <2>3, <2>6
    <3> HIDE DEF s
    <3> QED
      BY <3>1, <3>2, <3>3, <3>4, <3>5
  <2> QED
    BY <1>3, <2>7, <2>8
<1>5. CASE ~Survival
  <2>1. UNCHANGED <<held, piles>>
    BY <1>5 DEF Die
  <2>2. Rest'
    BY <1>1, <1>2, <1>3, <2>1 DEF Rest
  <2>3. StockInv'
    BY <1>1, <1>2, <2>1, <2>2, StockNext
  <2>4. ASSUME NEW d \in Items PROVE Gain(d) = 0
    <3>1. Gain(d) = ground'[d] - ground[d] + 0
      BY <2>1, <2>2, GainStill
    <3>2. ground[d] \in Nat /\ ground' = ground
      BY <1>1, <1>2 DEF Rest
    <3> QED
      BY <3>1, <3>2
  <2> QED
    BY <1>3, <2>3, <2>4
<1> QED
  BY <1>4, <1>5

(* A pile walked into loses nothing, and gains less than what is left of
   it.                                                                      *)
LEMMA CollectStep ==
    ASSUME StockInv, NEW b \in Builders, NEW k \in DOMAIN piles, Collect(b, k)
    PROVE  /\ StockInv'
           /\ \A d \in Items :
                 /\ Gain(d) >= 0
                 /\ Gain(d) > 0 => k \in DOMAIN piles' /\ CountIn(piles'[k], d) > Gain(d)
           /\ seq' = seq => \A p \in Place : held'[p] # held[p] => p = b /\ Grown(held[p], held'[p])
<1> DEFINE s == held[b]
           c == Collected(s, piles[k])
           t == c.slots
           left == c.left
           took == c.took
<1>1. /\ held \in Holdings /\ Rest /\ b \in Place /\ piles \in Seq(Seq(Taken))
      /\ s \in Slots /\ Len(s) = Size[b] /\ piles[k] \in Seq(Taken)
  <2>1. held \in Holdings /\ Rest /\ b \in Place /\ piles \in Seq(Seq(Taken))
    BY StockIs, PlaceFacts DEF Rest
  <2>2. piles[k] \in Seq(Taken)
    BY <2>1, LenProperties, ElementOfSeq
  <2> QED
    BY <2>1, <2>2, HoldingsFacts
<1>2. /\ held' = [held EXCEPT ![b] = t]
      /\ piles' = IF left = <<>> THEN RemoveAt(piles, k) ELSE [piles EXCEPT ![k] = left]
      /\ spilled' \in {spilled, spilled \cup {b}}
      /\ UNCHANGED <<known, disk, placed, ground>> /\ Accept(b, took)
  BY DEF Collect
<1>3. /\ t \in Slots /\ left \in Seq(Taken) /\ took \in Nat /\ Len(t) = Size[b]
      /\ took = 0 => Grown(s, t)
      /\ \A d \in Items :
            LET more == CountIn(t, d) + CountIn(left, d) - CountIn(s, d) - CountIn(piles[k], d) IN
            more >= 0 /\ (more = 0 \/ more < CountIn(left, d))
  <2>1. CollectedSoFar(c, s, [d \in Items |-> CountIn(piles[k], d)])
    BY <1>1, CollectedFacts
  <2> HIDE DEF c
  <2>2. c \in Tried /\ Len(c.slots) = Len(s) /\ (c.took = 0 => Grown(s, c.slots))
        /\ \A d \in Items :
              LET more == CountIn(c.slots, d) + CountIn(c.left, d) - CountIn(s, d) - CountIn(piles[k], d) IN
              more >= 0 /\ (more = 0 \/ more < CountIn(c.left, d))
    BY <2>1 DEF CollectedSoFar
  <2> QED
    BY <1>1, <2>2 DEF Tried
<1> HIDE DEF t, left, took
<1>4. /\ held' \in Holdings /\ held'[b] = t /\ \A o \in Place : o # b => held'[o] = held[o]
      /\ \A d : Shifted(held, held', d) = CountIn(t, d) - CountIn(s, d)
  <2>1. Rewrites(held, b, t, held')
    BY <1>2 DEF Rewrites
  <2> QED
    BY <1>1, <1>3, <2>1, HoldOne
<1>5. /\ seq' \in 0..MaxEvents /\ (seq' = seq => took = 0)
      /\ dirty' \subseteq Builders /\ timer' \in BOOLEAN /\ stale' \subseteq Builders
  BY <1>1, <1>2, <1>3, AcceptFacts
<1>6. /\ piles' \in Seq(Seq(Taken))
      /\ \A d : InPiles(piles', d) = InPiles(piles, d) + CountIn(left, d) - CountIn(piles[k], d)
      /\ left # <<>> => k \in DOMAIN piles' /\ piles'[k] = left
  <2>1. CASE left = <<>>
    <3>1. piles' \in Seq(Seq(Taken)) /\ \A d : InPiles(piles', d) = InPiles(piles, d) - CountIn(piles[k], d)
      BY <1>1, <1>2, <2>1, PilesRemove
    <3>2. ASSUME NEW d
          PROVE  InPiles(piles', d) = InPiles(piles, d) + CountIn(left, d) - CountIn(piles[k], d)
      <4>1. CountIn(left, d) = 0
        BY <2>1, CountNothing
      <4>2. InPiles(piles, d) \in Nat /\ CountIn(piles[k], d) \in Nat
        BY <1>1, PiledFacts
      <4> QED
        BY <3>1, <4>1, <4>2
    <3> QED
      BY <2>1, <3>1, <3>2
  <2>2. CASE left # <<>>
    <3>1. piles' = [piles EXCEPT ![k] = left]
      BY <1>2, <2>2
    <3>2. \A p \in Seq(Taken) : \A d :
             LET qs == [piles EXCEPT ![k] = p] IN
             /\ qs \in Seq(Seq(Taken)) /\ k \in DOMAIN qs /\ qs[k] = p
             /\ InPiles(qs, d) = InPiles(piles, d) + CountIn(p, d) - CountIn(piles[k], d)
      BY <1>1, PilesReplace
    <3> QED
      BY <1>3, <3>1, <3>2
  <2> QED
    BY <2>1, <2>2
<1>7. StockInv'
  <2>1. Rest'
    BY <1>1, <1>2, <1>5, <1>6 DEF Rest
  <2>2. \A o \in Chests \ placed' : held'[o] = held[o]
    BY <1>4, PlaceFacts
  <2> QED
    BY <1>2, <1>4, <2>1, <2>2, StockNext
<1>8. ASSUME NEW d \in Items
      PROVE  /\ Gain(d) >= 0
             /\ Gain(d) > 0 => k \in DOMAIN piles' /\ CountIn(piles'[k], d) > Gain(d)
  <2>1. Gain(d) = (CountIn(t, d) - CountIn(s, d)) + (ground'[d] - ground[d])
                  + IF piles' = piles THEN 0 ELSE InPiles(piles', d) - InPiles(piles, d)
    BY <1>4, GainIs
  <2>2. /\ CountIn(s, d) \in Nat /\ CountIn(t, d) \in Nat /\ ground[d] \in Nat /\ ground' = ground
        /\ InPiles(piles, d) \in Nat /\ CountIn(piles[k], d) \in Nat /\ CountIn(left, d) \in Nat
    <3>1. CountIn(s, d) \in Nat /\ CountIn(t, d) \in Nat
      BY <1>1, <1>4, HoldingsFacts
    <3>2. InPiles(piles, d) \in Nat /\ CountIn(piles[k], d) \in Nat
      BY <1>1, PiledFacts
    <3>3. CountIn(left, d) \in Nat
      BY <1>3, TakenCounted, HavingFacts
    <3> QED
      BY <1>1, <1>2, <3>1, <3>2, <3>3 DEF Rest
  <2>3. InPiles(piles', d) = InPiles(piles, d) + CountIn(left, d) - CountIn(piles[k], d)
    BY <1>6
  <2> DEFINE more == CountIn(t, d) + CountIn(left, d) - CountIn(s, d) - CountIn(piles[k], d)
             pile == piles[k]
  <2>4. more >= 0 /\ (more = 0 \/ more < CountIn(left, d))
    BY <1>3
  <2>5. Gain(d) = more
    <3> HIDE DEF s, pile
    <3>1. CASE piles' = piles
      <4>1. CountIn(left, d) = CountIn(pile, d)
        BY <2>2, <2>3, <3>1 DEF pile
      <4> QED
        BY <2>1, <2>2, <3>1, <4>1 DEF pile
    <3>2. CASE piles' # piles
      BY <2>1, <2>2, <2>3, <3>2
    <3> QED
      BY <3>1, <3>2
  <2>6. left = <<>> => CountIn(left, d) = 0
    BY CountNothing
  <2>9. more \in Int /\ CountIn(left, d) \in Nat
    <3> HIDE DEF s, pile
    <3> QED
      BY <2>2 DEF pile
  <2> HIDE DEF more
  <2>7. CASE left = <<>>
    BY <2>4, <2>5, <2>6, <2>7, <2>9
  <2>8. CASE left # <<>>
    BY <1>6, <2>4, <2>5, <2>8, <2>9
  <2> QED
    BY <2>7, <2>8
<1>9. ASSUME seq' = seq, NEW p \in Place, held'[p] # held[p]
      PROVE  p = b /\ Grown(held[p], held'[p])
  <2>1. p = b
    BY <1>4, <1>9
  <2>2. Grown(s, t)
    BY <1>3, <1>5, <1>9
  <2> QED
    BY <1>4, <2>1, <2>2
<1> QED
  BY <1>7, <1>8, <1>9

(* A pile that despawns takes what it holds.                                *)
LEMMA DespawnStep ==
    ASSUME StockInv, NEW k \in DOMAIN piles, Despawn(k)
    PROVE  StockInv' /\ held' = held /\ \A d \in Items : Gain(d) = -CountIn(piles[k], d)
<1>1. /\ held \in Holdings /\ Rest /\ piles \in Seq(Seq(Taken))
      /\ UNCHANGED <<held, placed, known, seq, dirty, timer, stale, disk, spilled, ground>>
      /\ piles' = RemoveAt(piles, k)
  BY StockIs DEF Rest, Despawn
<1>2. piles' \in Seq(Seq(Taken)) /\ \A d : InPiles(piles', d) = InPiles(piles, d) - CountIn(piles[k], d)
  BY <1>1, PilesRemove
<1>3. Rest'
  BY <1>1, <1>2 DEF Rest
<1>4. StockInv'
  BY <1>1, <1>3, StockNext
<1>5. ASSUME NEW d \in Items PROVE Gain(d) = -CountIn(piles[k], d)
  <2>1. Gain(d) = ground'[d] - ground[d]
                  + IF piles' = piles THEN 0 ELSE InPiles(piles', d) - InPiles(piles, d)
    BY <1>1, <1>3, GainStill
  <2>2. /\ InPiles(piles, d) \in Nat /\ CountIn(piles[k], d) \in Nat
        /\ ground[d] \in Nat /\ ground' = ground
    <3>1. InPiles(piles, d) \in Nat /\ CountIn(piles[k], d) \in Nat
      BY <1>1, PiledFacts
    <3> QED
      BY <1>1, <3>1 DEF Rest
  <2>3. CASE piles' = piles
    BY <1>2, <2>1, <2>2, <2>3
  <2>4. CASE piles' # piles
    BY <1>2, <2>1, <2>2, <2>4
  <2> QED
    BY <2>3, <2>4
<1> QED
  BY <1>1, <1>4, <1>5

(* Writing builders moves nothing.                                          *)
LEMMA FlushStep ==
    ASSUME StockInv, Flush
    PROVE  StockInv' /\ held' = held /\ \A d \in Items : Gain(d) = 0
<1>1. /\ held \in Holdings /\ Rest
      /\ UNCHANGED <<held, known, seq, disk, placed, piles, ground>>
      /\ timer' = FALSE /\ stale' = stale \ dirty /\ spilled' = spilled \ dirty /\ dirty' = {}
  BY StockIs DEF Flush, world
<1>2. Rest'
  BY <1>1 DEF Rest
<1>3. StockInv'
  BY <1>1, <1>2, StockNext
<1>4. ASSUME NEW d \in Items PROVE Gain(d) = 0
  <2>1. Gain(d) = ground'[d] - ground[d] + 0
    BY <1>1, <1>2, GainStill
  <2> QED
    BY <1>1, <2>1 DEF Rest
<1> QED
  BY <1>1, <1>3, <1>4

(* A chest placed gains its contents, and loses something only when it
   stood there.                                                             *)
LEMMA RegisterChestStep ==
    ASSUME StockInv, NEW c \in Chests, NEW s \in Loot, RegisterChest(c, s)
    PROVE  /\ StockInv'
           /\ \A p \in Place \ Chests : held'[p] = held[p]
           /\ \A d \in Items :
                 /\ Gain(d) <= CountIn(s, d)
                 /\ -Gain(d) <= CountIn(held[c], d)
                 /\ Gain(d) < 0 => c \in placed
<1>1. held \in Holdings /\ Rest /\ UnplacedEmpty /\ c \in Place /\ Size[c] \in Nat
  BY StockIs, PlaceFacts, HoldingsFacts
<1>2. s \in Slots /\ Len(s) = Size[c]
  <2>1. s \in [1..Size[c] -> Slot] /\ WellFormed(s)
    BY LootAssumption
  <2>2. \A i \in 1..Size[c] : s[i] \in Slot /\ (s[i].item = None <=> s[i].count = 0)
    BY <2>1 DEF WellFormed
  <2>3. s = [i \in 1..Size[c] |-> s[i]]
    BY <2>1
  <2> QED
    BY <1>1, <2>2, <2>3, SlotsIntro
<1>3. /\ placed' = placed \cup {c} /\ held' = [held EXCEPT ![c] = s] /\ StoreChests({c})
      /\ UNCHANGED <<known, seq, dirty, timer, stale, spilled, piles, ground>>
  BY DEF RegisterChest
<1>4. /\ held' \in Holdings /\ held'[c] = s /\ \A o \in Place : o # c => held'[o] = held[o]
      /\ \A d : Shifted(held, held', d) = CountIn(s, d) - CountIn(held[c], d)
  <2>1. Rewrites(held, c, s, held')
    BY <1>3 DEF Rewrites
  <2> QED
    BY <1>1, <1>2, <2>1, HoldOne
<1>5. StockInv'
  <2>1. disk' \in [Chests -> Slots]
    BY <1>1, <1>3, <1>4, StoreFacts
  <2>2. Rest'
    BY <1>1, <1>3, <2>1 DEF Rest
  <2>3. \A o \in Chests \ placed' : held'[o] = held[o]
    BY <1>3, <1>4, PlaceFacts
  <2> QED
    BY <1>3, <1>4, <2>2, <2>3, StockNext
<1>6. ASSUME NEW d \in Items
      PROVE  /\ Gain(d) <= CountIn(s, d)
             /\ -Gain(d) <= CountIn(held[c], d)
             /\ Gain(d) < 0 => c \in placed
  <2>1. Gain(d) = CountIn(s, d) - CountIn(held[c], d)
    BY <1>3, <1>4, GainHeld
  <2>2. CountIn(s, d) \in Nat /\ CountIn(held[c], d) \in Nat
    BY <1>1, <1>2, SlotsFacts, HavingFacts, HoldingsFacts
  <2>3. c \notin placed => CountIn(held[c], d) = 0
    BY <1>1, BlankFacts DEF UnplacedEmpty
  <2> DEFINE have == held[c]
  <2> HIDE DEF have
  <2> QED
    BY <2>1, <2>2, <2>3
<1> QED
  BY <1>4, <1>5, <1>6, PlaceFacts

(***************************************************************************)
(* Clicks and drags.                                                       *)
(***************************************************************************)

(* The places of a builder's screen are places, the chests among them
   placed.                                                                  *)
LEMMA ReachFacts ==
    ASSUME StockInv, NEW b \in Builders, NEW p \in Reach(b)
    PROVE  p \in Place /\ (p \in Chests => p \in placed)
<1>1. placed \subseteq Chests
  BY StockIs DEF Rest
<1> QED
  BY <1>1, PlaceFacts DEF Reach

(* A stack of m of d holds m of d.                                          *)
LEMMA StackCell ==
    ASSUME NEW d \in Items, NEW m \in Nat
    PROVE  Stack(d, m) \in Cells /\ \A e \in Items : In(Stack(d, m), e) = IF e = d THEN m ELSE 0
  BY StackFacts, ItemAssumption DEF Cells, In

(* Two slots are rewritten, and hold together what they held before.       *)
LEMMA DragStep ==
    ASSUME StockInv, NEW b \in Builders,
           NEW q \in Reach(b), NEW j \in At(q), NEW x \in Cells,
           NEW p \in Reach(b), NEW i \in At(p), NEW y \in Cells,
           held' = Put(Put(held, q, j, x), p, i, y),
           \A d \in Items : In(x, d) - In(held[q][j], d) + In(y, d)
                            - In(IF <<p, i>> = <<q, j>> THEN x ELSE held[p][i], d) = 0,
           disk' = disk \/ \E P : StoreChests(P),
           UNCHANGED <<known, spilled, world>>, Accept(b, 1)
    PROVE  StockInv' /\ seq' # seq /\ \A d \in Items : Gain(d) = 0
<1>1. held \in Holdings /\ Rest
  BY StockIs
<1>2. p \in Place /\ q \in Place /\ \A c \in Chests \ placed : c # p /\ c # q
  BY ReachFacts
<1>3. UNCHANGED <<known, spilled, placed, piles, ground>>
  BY DEF world
<1>4. /\ held' \in Holdings /\ \A o \in Place : o # p /\ o # q => held'[o] = held[o]
      /\ \A d \in Items : Shifted(held, held', d) = 0
  BY <1>1, <1>2, PutTwo
<1>5. /\ seq' \in 0..MaxEvents /\ seq' # seq
      /\ dirty' \subseteq Builders /\ timer' \in BOOLEAN /\ stale' \subseteq Builders
  BY <1>1, AcceptFacts
<1>6. StockInv'
  <2>1. disk' \in [Chests -> Slots]
    BY <1>1, <1>4, StoreFacts DEF Rest
  <2>2. Rest'
    BY <1>1, <1>3, <1>5, <2>1 DEF Rest
  <2>3. \A c \in Chests \ placed' : held'[c] = held[c]
    BY <1>2, <1>3, <1>4, PlaceFacts
  <2> QED
    BY <1>3, <1>4, <2>2, <2>3, StockNext
<1>7. \A d \in Items : Gain(d) = 0
  BY <1>3, <1>4, GainHeld
<1> QED
  BY <1>5, <1>6, <1>7

(* A drag onto an empty slot neither makes nor loses an item.               *)
LEMMA MoveStep ==
    ASSUME StockInv, NEW b \in Builders,
           NEW p \in Reach(b), NEW i \in At(p), NEW q \in Reach(b), NEW j \in At(q),
           Move(b, p, i, q, j)
    PROVE  StockInv' /\ seq' # seq /\ \A d \in Items : Gain(d) = 0
<1> DEFINE s == held[p][i]
           t == held[q][j]
<1>1. /\ s \in Cells /\ t \in Cells /\ \A d : In(s, d) \in Nat
  BY StockIs, ReachFacts, CellFacts
<1>2. Empty \in Cells /\ \A d \in Items : In(Empty, d) = 0
  BY ItemAssumption DEF Empty, Cells, Slot, In
<1>3. /\ s.item # None /\ t.item = None
      /\ held' = Put(Put(held, q, j, s), p, i, Empty)
      /\ StoreChests({p, q}) /\ UNCHANGED <<known, spilled, world>> /\ Accept(b, 1)
  BY DEF Move
<1>4. \A d \in Items : In(t, d) = 0
  BY <1>3, ItemAssumption DEF In
<1>5. <<p, i>> # <<q, j>>
  BY <1>3
<1>6. \A d \in Items : In(s, d) - In(held[q][j], d) + In(Empty, d)
                       - In(IF <<p, i>> = <<q, j>> THEN s ELSE held[p][i], d) = 0
  <2> SUFFICES ASSUME NEW d \in Items
               PROVE  In(s, d) - In(t, d) + In(Empty, d) - In(s, d) = 0
    BY <1>5
  <2> HIDE DEF s, t
  <2> QED
    BY <1>1, <1>2, <1>4
<1> HIDE DEF s
<1> QED
  BY <1>1, <1>2, <1>3, <1>6, DragStep

(* A drag onto a slot that is taken neither makes nor loses an item.        *)
LEMMA SwapStep ==
    ASSUME StockInv, NEW b \in Builders,
           NEW p \in Reach(b), NEW i \in At(p), NEW q \in Reach(b), NEW j \in At(q),
           Swap(b, p, i, q, j)
    PROVE  StockInv' /\ seq' # seq /\ \A d \in Items : Gain(d) = 0
<1> DEFINE s == held[p][i]
           t == held[q][j]
<1>1. /\ s \in Cells /\ t \in Cells /\ \A d : In(s, d) \in Nat /\ In(t, d) \in Nat
  BY StockIs, ReachFacts, CellFacts
<1>2. /\ held' = Put(Put(held, p, i, t), q, j, s)
      /\ StoreChests({p, q}) /\ UNCHANGED <<known, spilled, world>> /\ Accept(b, 1)
  BY DEF Swap
<1>3. \A d \in Items : In(t, d) - In(held[p][i], d) + In(s, d)
                       - In(IF <<q, j>> = <<p, i>> THEN t ELSE held[q][j], d) = 0
  <2> SUFFICES ASSUME NEW d \in Items
               PROVE  In(t, d) - In(s, d) + In(s, d) - In(t, d) = 0
    OBVIOUS
  <2> HIDE DEF s, t
  <2> QED
    BY <1>1
<1> HIDE DEF s, t
<1> QED
  BY <1>1, <1>2, <1>3, DragStep

(* A split moves no more than there is, and leaves no negative count, also
   when the other stack is overfull.                                        *)
LEMMA GiveFacts ==
    ASSUME NEW n \in Nat, n > 1, NEW t \in Cells
    PROVE  /\ Give(n, t) \in Int
           /\ n - Give(n, t) \in Nat /\ t.count + Give(n, t) \in Nat
<1>1. t.count \in Nat /\ StackMax \in Nat
  BY SizeAssumption DEF Cells, Slot
<1> DEFINE half == (n + 1) \div 2
<1>2. half \in Nat /\ half <= n
  OBVIOUS
<1> HIDE DEF half
<1>3. Give(n, t) = IF t.item = None THEN half ELSE Least(half, StackMax - t.count)
  BY DEF Give, half
<1>4. CASE t.item = None
  BY <1>1, <1>2, <1>3, <1>4
<1>5. CASE t.item # None
  <2>1. Give(n, t) = IF half < StackMax - t.count THEN half ELSE StackMax - t.count
    BY <1>3, <1>5 DEF Least
  <2> DEFINE have == t.count
  <2> HIDE DEF have
  <2>2. have \in Nat /\ Give(n, t) = IF half < StackMax - have THEN half ELSE StackMax - have
    BY <1>1, <2>1 DEF have
  <2>3. Give(n, t) \in Int /\ n - Give(n, t) \in Nat /\ have + Give(n, t) \in Nat
    BY <1>1, <1>2, <2>2
  <2> QED
    BY <2>3 DEF have
<1> QED
  BY <1>4, <1>5

(* A split neither makes nor loses an item.                                 *)
LEMMA SplitStep ==
    ASSUME StockInv, NEW b \in Builders, NEW i \in At(b), NEW j \in At(b), Split(b, i, j)
    PROVE  StockInv' /\ seq' # seq /\ \A d \in Items : Gain(d) = 0
<1> DEFINE s == held[b][i]
           t == held[b][j]
           n == Give(s.count, t)
           kind == s.item
           c == s.count
           e == t.count
           x == Stack(kind, c - n)
           y == Stack(kind, e + n)
<1>1. /\ b \in Reach(b) /\ b \in Place /\ held \in Holdings /\ Rest
  BY StockIs, PlaceFacts DEF Reach
<1>2. /\ s \in Cells /\ t \in Cells /\ c \in Nat /\ e \in Nat
      /\ kind \in Items \cup {None}
  BY <1>1, CellFacts
<1>3. /\ c > 1 /\ t.item \in {None, kind}
      /\ held' = IF i = j THEN held ELSE Put(Put(held, b, i, x), b, j, y)
      /\ UNCHANGED <<known, disk, spilled, world>> /\ Accept(b, 1)
  BY DEF Split
<1>4. kind \in Items /\ (t.item = None => e = 0)
  BY <1>2, <1>3 DEF Cells
<1>5. n \in Int /\ c - n \in Nat /\ e + n \in Nat
  BY <1>2, <1>3, GiveFacts
<1> HIDE DEF n
<1>6. CASE i = j
  <2>1. held' = held /\ UNCHANGED <<known, disk, spilled, placed, piles, ground>>
    BY <1>3, <1>6 DEF world
  <2>2. /\ seq' \in 0..MaxEvents /\ seq' # seq
        /\ dirty' \subseteq Builders /\ timer' \in BOOLEAN /\ stale' \subseteq Builders
    BY <1>1, <1>3, AcceptFacts
  <2>3. Rest'
    BY <1>1, <2>1, <2>2 DEF Rest
  <2>4. StockInv'
    BY <1>1, <2>1, <2>3, StockNext
  <2>5. \A d \in Items : Gain(d) = 0
    <3>1. held' \in Holdings /\ \A d : Shifted(held, held', d) = 0
      BY <1>1, <2>1, ShiftedNone
    <3> QED
      BY <2>1, <3>1, GainHeld
  <2> QED
    BY <2>2, <2>4, <2>5
<1>7. CASE i # j
  <2>1. x \in Cells /\ \A d \in Items : In(x, d) = IF d = kind THEN c - n ELSE 0
    <3> HIDE DEF kind, c
    <3> QED
      BY <1>4, <1>5, StackCell
  <2>2. y \in Cells /\ \A d \in Items : In(y, d) = IF d = kind THEN e + n ELSE 0
    <3> HIDE DEF kind, e
    <3> QED
      BY <1>4, <1>5, StackCell
  <2>3. \A d \in Items : /\ In(s, d) = IF d = kind THEN c ELSE 0
                         /\ In(t, d) = IF d = kind THEN e ELSE 0
    BY <1>3, <1>4, ItemAssumption DEF In
  <2> HIDE DEF x, y
  <2>4. \A d \in Items : In(x, d) - In(held[b][i], d) + In(y, d)
                         - In(IF <<b, j>> = <<b, i>> THEN x ELSE held[b][j], d) = 0
    <3>1. <<b, j>> # <<b, i>>
      BY <1>7
    <3> SUFFICES ASSUME NEW d \in Items
                 PROVE  In(x, d) - In(s, d) + In(y, d) - In(t, d) = 0
      BY <3>1
    <3> HIDE DEF s, t, kind, c, e
    <3> QED
      BY <1>2, <1>5, <2>1, <2>2, <2>3
  <2>5. held' = Put(Put(held, b, i, x), b, j, y)
    BY <1>3, <1>7 DEF x, y
  <2> QED
    BY <1>1, <1>3, <2>1, <2>2, <2>4, <2>5, DragStep
<1> QED
  BY <1>6, <1>7

(* A right-click neither makes nor loses an item.                           *)
LEMMA SingleTakeStep ==
    ASSUME StockInv, NEW b \in Builders, NEW p \in Reach(b), NEW i \in At(p),
           SingleTake(b, p, i)
    PROVE  StockInv' /\ seq' # seq /\ \A d \in Items : Gain(d) = 0
<1> DEFINE s == held[p][i]
           q == TakesInto(b, p)
           kind == s.item
           c == s.count
           into == Landing(held[q], kind)
           j == CHOOSE j \in into : \A k \in into : j <= k
           t == held[q][j]
           e == t.count
           x == Stack(kind, e + 1)
           y == Stack(kind, c - 1)
<1>1. /\ held \in Holdings /\ p \in Place /\ q \in Place /\ q \in Reach(b) /\ q # p
  BY StockIs, ReachFacts, PlaceFacts DEF TakesInto, Reach
<1>2. /\ kind # None /\ into # {}
      /\ held' = Put(Put(held, q, j, x), p, i, y)
      /\ StoreChests({p}) /\ UNCHANGED <<known, spilled, world>> /\ Accept(b, 1)
  BY DEF SingleTake
<1>3. s \in Cells /\ c \in Nat /\ c # 0 /\ kind \in Items
  <2>1. s \in Cells /\ s.count \in Nat /\ s.item \in Items \cup {None}
    BY <1>1, CellFacts
  <2> QED
    BY <1>2, <2>1 DEF Cells
<1> HIDE DEF q, s
<1>4. into \subseteq At(q) /\ \A k \in into : held[q][k].item \in {kind, None}
  <2>1. DOMAIN held[q] = At(q)
    BY <1>1, HoldingsFacts DEF At
  <2> QED
    BY <2>1 DEF Landing
<1> HIDE DEF into
<1>5. j \in into
  <2>1. Size[q] \in Nat
    BY <1>1, HoldingsFacts
  <2>2. \E k \in into : \A l \in into : k <= l
    BY <1>2, <1>4, <2>1, Smallest DEF At
  <2> QED
    BY <2>2
<1> HIDE DEF j
<1>6. t \in Cells /\ e \in Nat /\ t.item \in {kind, None} /\ (t.item = None => e = 0)
  <2>1. j \in At(q)
    BY <1>4, <1>5
  <2>2. t \in Cells /\ e \in Nat
    BY <1>1, <2>1, CellFacts
  <2> QED
    BY <1>4, <1>5, <2>2 DEF Cells
<1>7. x \in Cells /\ \A d \in Items : In(x, d) = IF d = kind THEN e + 1 ELSE 0
  <2> HIDE DEF kind, e
  <2>1. e + 1 \in Nat
    BY <1>6
  <2> QED
    BY <1>3, <2>1, StackCell
<1>8. y \in Cells /\ \A d \in Items : In(y, d) = IF d = kind THEN c - 1 ELSE 0
  <2> HIDE DEF kind, c
  <2>1. c - 1 \in Nat
    BY <1>3
  <2> QED
    BY <1>3, <2>1, StackCell
<1>9. \A d \in Items : /\ In(s, d) = IF d = kind THEN c ELSE 0
                       /\ In(t, d) = IF d = kind THEN e ELSE 0
  BY <1>3, <1>6, ItemAssumption DEF In
<1> HIDE DEF x, y
<1>10. \A d \in Items : In(x, d) - In(held[q][j], d) + In(y, d)
                        - In(IF <<p, i>> = <<q, j>> THEN x ELSE held[p][i], d) = 0
  <2>1. <<p, i>> # <<q, j>>
    BY <1>1
  <2> SUFFICES ASSUME NEW d \in Items
               PROVE  In(x, d) - In(t, d) + In(y, d) - In(s, d) = 0
    BY <2>1 DEF s
  <2> HIDE DEF t, kind, c, e
  <2> QED
    BY <1>3, <1>6, <1>7, <1>8, <1>9
<1> HIDE DEF t, kind, c, e
<1> QED
  BY <1>1, <1>2, <1>4, <1>5, <1>7, <1>8, <1>10, DragStep

(***************************************************************************)
(* Crafting.                                                               *)
(***************************************************************************)

(* A grid that matches a recipe holds all it takes: the inputs of a shaped
   recipe lie in slots of their own.                                       *)
LEMMA MatchesPays ==
    ASSUME NEW g \in Slots, NEW r \in Recipes, Matches(g, r), NEW d \in Items
    PROVE  CountIn(g, d) >= Need(r, d)
<1>1. /\ Counted(g) /\ Len(g) \in Nat /\ DOMAIN g = 1..Len(g) /\ CountIn(g, d) \in Nat
      /\ Having(g, d) \in Tally(Len(g))
      /\ \A i \in 1..Len(g) : Having(g, d)[i] = IF g[i].item = d THEN g[i].count ELSE 0
  BY SlotsFacts, HavingFacts DEF Counted
<1>2. CASE ~r.shaped
  <2>1. \A e \in Wanted(r) : CountIn(g, e) >= Need(r, e)
    BY <1>2 DEF Matches, ShapelessMatch
  <2>2. Need(r, d) \in Nat /\ (Need(r, d) # 0 => d \in Wanted(r))
    BY NeedFacts
  <2> QED
    BY <1>1, <2>1, <2>2
<1>3. CASE r.shaped
  <2> DEFINE in == r.inputs
             m == Len(in)
             n == Len(g)
             f == Having(in, d)
             h == Having(g, d)
             s == [k \in 1..m |-> in[k].slot]
  <2>1. Counted(in) /\ m \in Nat /\ DOMAIN in = 1..m
    BY InputsCounted
  <2>2. f \in Tally(m) /\ \A k \in 1..m : f[k] = IF in[k].item = d THEN in[k].count ELSE 0
    <3> HIDE DEF in
    <3> QED
      BY <2>1, HavingFacts
  <2>3. \A k \in 1..m : LET e == in[k] IN
           e.slot \in 1..n /\ g[e.slot].item = e.item /\ g[e.slot].count >= e.count
    BY <1>1, <1>3, <2>1 DEF Matches, ShapedMatch
  <2>4. \A k, l \in 1..m : in[k].slot = in[l].slot => k = l
    BY <1>3, <2>1, ShapeAssumption
  <2>5. \A k \in 1..m : s[k] = in[k].slot
    OBVIOUS
  <2> HIDE DEF in, f, s
  <2>6. ASSUME NEW k \in 1..m, f[k] # 0 PROVE s[k] \in 1..n /\ f[k] <= h[s[k]]
    <3>1. in[k].item = d /\ f[k] = in[k].count
      BY <2>2, <2>6
    <3>2. s[k] \in 1..n /\ g[s[k]].item = d /\ g[s[k]].count >= in[k].count
      BY <2>3, <2>5, <3>1
    <3>3. h[s[k]] = g[s[k]].count
      BY <1>1, <3>2
    <3> DEFINE a == g[s[k]].count
               c == in[k].count
    <3>4. a >= c /\ f[k] = c /\ h[s[k]] = a
      BY <3>1, <3>2, <3>3
    <3>5. a \in Nat /\ f[k] \in Nat
      <4>1. \A i \in 1..n : g[i].count \in Nat
        BY <1>1 DEF Counted
      <4> QED
        BY <2>2, <3>2, <4>1 DEF Tally
    <3> HIDE DEF a, c
    <3> QED
      BY <3>2, <3>4, <3>5
  <2>7. \A k, l \in 1..m : f[k] # 0 /\ f[l] # 0 /\ k # l => s[k] # s[l]
    BY <2>4, <2>5
  <2> HIDE DEF m, n, h
  <2>8. n \in Nat /\ h \in Tally(n)
    BY <1>1 DEF n, h
  <2>9. Upto(f, m) <= Upto(h, n)
    BY <2>1, <2>2, <2>6, <2>7, <2>8, UptoInto
  <2>10. Need(r, d) = Upto(f, m) /\ CountIn(g, d) = Upto(h, n)
    BY DEF Need, CountIn, f, m, h, n, in
  <2>11. Upto(f, m) \in Nat
    BY <2>10, NeedFacts
  <2> QED
    BY <1>1, <2>9, <2>10, <2>11
<1> QED
  BY <1>2, <1>3

(* Two places get other slots, of the same numbers.                        *)
Rewrites2(h, p, s, q, t, g) == g = [h EXCEPT ![p] = s, ![q] = t]

(* A builder and a grid rewritten: only their items moved.                  *)
LEMMA HoldBoth ==
    ASSUME NEW h \in Holdings, NEW p \in Place, NEW q \in Place, p # q,
           NEW s \in Slots, Len(s) = Size[p], NEW t \in Slots, Len(t) = Size[q],
           NEW g, Rewrites2(h, p, s, q, t, g)
    PROVE  /\ g \in Holdings /\ g[p] = s /\ g[q] = t
           /\ \A o \in Place : o # p /\ o # q => g[o] = h[o]
           /\ \A d : Shifted(h, g, d) = (CountIn(s, d) - CountIn(h[p], d))
                                        + (CountIn(t, d) - CountIn(h[q], d))
<1>1. /\ g \in Holdings /\ g[p] = s /\ g[q] = t
      /\ \A o \in Place : o # p /\ o # q => g[o] = h[o]
  BY DEF Holdings, Rewrites2
<1>2. \A d : Shifted(h, g, d) = (CountIn(s, d) - CountIn(h[p], d))
                                + (CountIn(t, d) - CountIn(h[q], d))
  BY <1>1, ShiftedTwo
<1> QED
  BY <1>1, <1>2

(* What a step on a builder and a grid has to show.                        *)
LEMMA BenchStep ==
    ASSUME StockInv, NEW b \in Builders, NEW g \in Grids,
           NEW s \in Slots, Len(s) = Size[b], NEW t \in Slots, Len(t) = Size[g],
           Rewrites2(held, b, s, g, t, held') \/ Rewrites2(held, g, t, b, s, held'),
           known' \in [Builders -> SUBSET Recipes],
           UNCHANGED <<disk, spilled, world>>, Accept(b, 1)
    PROVE  /\ StockInv' /\ seq' # seq
           /\ \A d \in Items : Gain(d) = (CountIn(s, d) - CountIn(held[b], d))
                                         + (CountIn(t, d) - CountIn(held[g], d))
<1>1. held \in Holdings /\ Rest /\ b \in Place /\ g \in Place /\ b # g
  BY StockIs, PlaceFacts
<1>2. UNCHANGED <<disk, spilled, placed, piles, ground>>
  BY DEF world
<1>3. held' \in Holdings /\ \A o \in Place : o # b /\ o # g => held'[o] = held[o]
  BY <1>1, HoldBoth
<1>4. /\ seq' \in 0..MaxEvents /\ seq' # seq
      /\ dirty' \subseteq Builders /\ timer' \in BOOLEAN /\ stale' \subseteq Builders
  BY <1>1, AcceptFacts
<1>5. StockInv'
  <2>1. Rest'
    BY <1>1, <1>2, <1>4 DEF Rest
  <2>2. \A c \in Chests \ placed' : held'[c] = held[c]
    BY <1>3, PlaceFacts
  <2> QED
    BY <1>2, <1>3, <2>1, <2>2, StockNext
<1>6. ASSUME NEW d \in Items
      PROVE  Gain(d) = (CountIn(s, d) - CountIn(held[b], d)) + (CountIn(t, d) - CountIn(held[g], d))
  <2>1. Gain(d) = Shifted(held, held', d)
    BY <1>2, <1>3, GainHeld
  <2>2. CASE Rewrites2(held, b, s, g, t, held')
    BY <1>1, <2>1, <2>2, HoldBoth
  <2>3. CASE Rewrites2(held, g, t, b, s, held')
    <3>1. Gain(d) = (CountIn(t, d) - CountIn(held[g], d)) + (CountIn(s, d) - CountIn(held[b], d))
      BY <1>1, <2>1, <2>3, HoldBoth
    <3>2. /\ CountIn(s, d) \in Nat /\ CountIn(t, d) \in Nat
          /\ CountIn(held[b], d) \in Nat /\ CountIn(held[g], d) \in Nat
      BY <1>1, SlotsFacts, HavingFacts, HoldingsFacts
    <3> QED
      BY <3>1, <3>2
  <2> QED
    BY <2>2, <2>3
<1> QED
  BY <1>4, <1>5, <1>6

(* A craft takes exactly its inputs and makes no more than its output.      *)
LEMMA CraftStep ==
    ASSUME StockInv, NEW b \in Builders, NEW r \in Recipes, NEW g \in Grids, Craft(b, r, g)
    PROVE  /\ StockInv' /\ seq' # seq
           /\ \A d \in Items :
                 Gain(d) + Need(r, d) \in 0..(IF d = r.output THEN r.amount ELSE 0)
<1> DEFINE p == held[b]
           o == held[g]
           s == Poured(p, r.output, r.amount)
           t == Consumed(o, r)
           m == Spilt(p, r.output, r.amount)
<1>1. /\ held \in Holdings /\ Rest /\ b \in Place /\ g \in Place /\ b # g
      /\ p \in Slots /\ Len(p) = Size[b] /\ o \in Slots /\ Len(o) = Size[g]
      /\ \A d : CountIn(p, d) \in Nat /\ CountIn(o, d) \in Nat
  BY StockIs, PlaceFacts, HoldingsFacts
<1>2. r.output \in Items /\ r.amount \in Nat /\ \A d \in Items : Need(r, d) \in Nat
  BY InputsCounted, NeedFacts
<1>3. /\ held' = [held EXCEPT ![g] = t, ![b] = s]
      /\ known' = [known EXCEPT ![b] = @ \cup {r}]
      /\ UNCHANGED <<disk, spilled, world>> /\ Accept(b, 1) /\ Matches(o, r)
  BY <1>1 DEF Craft
<1> HIDE DEF p, o
<1>4. \A d \in Items : CountIn(o, d) >= Need(r, d)
  BY <1>1, <1>3, MatchesPays
<1>5. /\ s \in Slots /\ Len(s) = Size[b] /\ m \in 0..r.amount
      /\ CountIn(s, r.output) = CountIn(p, r.output) + r.amount - m
      /\ \A d \in Items : d # r.output => CountIn(s, d) = CountIn(p, d)
  BY <1>1, <1>2, PouredFacts
<1>6. /\ t \in Slots /\ Len(t) = Size[g]
      /\ \A d \in Items : CountIn(t, d) = CountIn(o, d) - Least(Need(r, d), CountIn(o, d))
  BY <1>1, ConsumedFacts
<1> HIDE DEF s, t, m
<1>7. known' \in [Builders -> SUBSET Recipes]
  BY <1>1, <1>3 DEF Rest
<1>8. Rewrites2(held, g, t, b, s, held')
  BY <1>3 DEF Rewrites2
<1>9. /\ StockInv' /\ seq' # seq
      /\ \A d \in Items : Gain(d) = (CountIn(s, d) - CountIn(p, d)) + (CountIn(t, d) - CountIn(o, d))
  <2>1. s \in Slots /\ Len(s) = Size[b] /\ t \in Slots /\ Len(t) = Size[g]
    BY <1>5, <1>6
  <2>2. UNCHANGED <<disk, spilled, world>> /\ Accept(b, 1)
    BY <1>3
  <2>3. /\ StockInv' /\ seq' # seq
        /\ \A d \in Items : Gain(d) = (CountIn(s, d) - CountIn(held[b], d))
                                      + (CountIn(t, d) - CountIn(held[g], d))
    BY <1>7, <1>8, <2>1, <2>2, BenchStep
  <2> QED
    BY <2>3 DEF p, o
<1>10. ASSUME NEW d \in Items
       PROVE  Gain(d) + Need(r, d) \in 0..(IF d = r.output THEN r.amount ELSE 0)
  <2>1. CountIn(t, d) = CountIn(o, d) - Need(r, d)
    BY <1>1, <1>2, <1>4, <1>6 DEF Least
  <2>2. CountIn(s, d) - CountIn(p, d) \in 0..(IF d = r.output THEN r.amount ELSE 0)
    <3> DEFINE made == r.output
               all == r.amount
    <3>1. made \in Items /\ all \in Nat
      BY <1>2
    <3> HIDE DEF made, all
    <3>2. m \in 0..all /\ CountIn(s, made) = CountIn(p, made) + all - m
          /\ (d # made => CountIn(s, d) = CountIn(p, d))
      BY <1>5 DEF made, all
    <3>3. CountIn(s, d) - CountIn(p, d) \in 0..(IF d = made THEN all ELSE 0)
      BY <1>1, <3>1, <3>2
    <3> QED
      BY <3>3 DEF made, all
  <2>3. CountIn(s, d) \in Nat
    BY <1>5, SlotsFacts, HavingFacts
  <2>4. Gain(d) + Need(r, d) = CountIn(s, d) - CountIn(p, d)
    <3>1. Gain(d) = (CountIn(s, d) - CountIn(p, d)) + (CountIn(t, d) - CountIn(o, d))
      BY <1>9
    <3> QED
      BY <1>1, <1>2, <2>1, <2>3, <3>1
  <2> QED
    BY <2>2, <2>4
<1> QED
  BY <1>9, <1>10

(* An auto-fill makes items only of inputs a recipe lists twice, and loses
   no more than what lay in the grid and what the grid has no room for.     *)
LEMMA AutofillStep ==
    ASSUME StockInv, NEW b \in Builders, NEW r \in Recipes, NEW g \in Grids, Autofill(b, r, g)
    PROVE  /\ StockInv' /\ seq' # seq
           /\ \A d \in Items :
                 /\ Gain(d) \in Int
                 /\ Gain(d) > 0 => Repeats(r, d) /\ Gain(d) < Need(r, d)
                 /\ -Gain(d) <= CountIn(held[g], d) + Need(r, d) - CountIn(LaidOut(r, Size[g]), d)
<1> DEFINE p == held[b]
           o == held[g]
           s == PaidFor(p, r)
           t == LaidOut(r, Size[g])
<1>1. /\ held \in Holdings /\ Rest /\ b \in Place /\ g \in Place /\ b # g
      /\ p \in Slots /\ Len(p) = Size[b] /\ o \in Slots /\ Len(o) = Size[g] /\ Size[g] \in Nat
      /\ \A d : CountIn(p, d) \in Nat /\ CountIn(o, d) \in Nat
  BY StockIs, PlaceFacts, HoldingsFacts
<1>2. /\ held' = [held EXCEPT ![b] = s, ![g] = t]
      /\ UNCHANGED <<known, disk, spilled, world>> /\ Accept(b, 1)
      /\ \A k \in DOMAIN r.inputs : CountIn(p, r.inputs[k].item) >= r.inputs[k].count
  BY <1>1 DEF Autofill
<1> HIDE DEF p, o
<1>3. /\ s \in Slots /\ Len(s) = Size[b]
      /\ \A d \in Items :
            LET paid == CountIn(p, d) - CountIn(s, d) IN
            /\ paid \in 0..Need(r, d)
            /\ Need(r, d) # 0 => paid >= 1
            /\ ~Repeats(r, d) => paid = Need(r, d)
  BY <1>1, <1>2, PaidForFacts
<1>4. t \in Slots /\ Len(t) = Size[g] /\ \A d \in Items : CountIn(t, d) <= Need(r, d)
  BY <1>1, LaidOutFacts
<1>5. \A d \in Items : Need(r, d) \in Nat
  BY NeedFacts
<1> HIDE DEF s, t
<1>6. known' \in [Builders -> SUBSET Recipes]
  BY <1>1, <1>2 DEF Rest
<1>7. Rewrites2(held, b, s, g, t, held')
  BY <1>2 DEF Rewrites2
<1>8. /\ StockInv' /\ seq' # seq
      /\ \A d \in Items : Gain(d) = (CountIn(s, d) - CountIn(p, d)) + (CountIn(t, d) - CountIn(o, d))
  BY <1>2, <1>3, <1>4, <1>6, <1>7, BenchStep DEF p, o
<1>9. ASSUME NEW d \in Items
      PROVE  /\ Gain(d) \in Int
             /\ Gain(d) > 0 => Repeats(r, d) /\ Gain(d) < Need(r, d)
             /\ -Gain(d) <= CountIn(o, d) + Need(r, d) - CountIn(t, d)
  <2> DEFINE paid == CountIn(p, d) - CountIn(s, d)
  <2>1. CountIn(s, d) \in Nat /\ CountIn(t, d) \in Nat
    BY <1>3, <1>4, SlotsFacts, HavingFacts
  <2>2. Gain(d) = CountIn(t, d) - CountIn(o, d) - paid
    <3>1. Gain(d) = (CountIn(s, d) - CountIn(p, d)) + (CountIn(t, d) - CountIn(o, d))
      BY <1>8
    <3> QED
      BY <1>1, <2>1, <3>1
  <2>3. /\ paid \in 0..Need(r, d) /\ (Need(r, d) # 0 => paid >= 1)
        /\ (~Repeats(r, d) => paid = Need(r, d))
    BY <1>3
  <2> HIDE DEF paid
  <2>4. CountIn(t, d) <= Need(r, d) /\ Need(r, d) \in Nat /\ CountIn(o, d) \in Nat
    BY <1>1, <1>4, <1>5
  <2> QED
    BY <2>1, <2>2, <2>3, <2>4
<1> QED
  BY <1>8, <1>9 DEF o, t

(***************************************************************************)
(* Every step.                                                             *)
(***************************************************************************)

Created(d, n) == Granted(d, n) \/ Multiplied(d, n)
Balanced == \A d \in Items : /\ Gain(d) > 0 => Created(d, Gain(d))
                             /\ Gain(d) < 0 => Destroyed(d, -Gain(d))
Journalled ==
    \A p \in Place \ Chests : held'[p] # held[p] /\ seq' = seq =>
        /\ p \in Builders
        /\ \A i \in At(p) : held'[p][i] # held[p][i] =>
              /\ held'[p][i].count > held[p][i].count
              /\ \A j \in At(p) : Room(held'[p], held'[p][i].item, j) = 0

(* Initially nothing is held and no chest is placed.                        *)
LEMMA StockInit == Init => StockInv
<1> SUFFICES ASSUME Init PROVE StockInv
  OBVIOUS
<1>1. \A p \in Place : Blank(Size[p]) \in Slots /\ Len(Blank(Size[p])) = Size[p]
  BY SizeAssumption, BlankFacts
<1>2. held = [p \in Place |-> Blank(Size[p])] /\ disk = [c \in Chests |-> Blank(Size[c])]
  BY DEF Init
<1>3. held \in Holdings
  BY <1>1, <1>2 DEF Holdings
<1>4. disk \in [Chests -> Slots]
  BY <1>1, <1>2, PlaceFacts
<1>5. <<>> \in Seq(Seq(Taken)) /\ 0 \in 0..MaxEvents
  BY BoundAssumption
<1>6. Rest
  BY <1>4, <1>5 DEF Init, Rest
<1>7. UnplacedEmpty
  BY <1>2, PlaceFacts DEF UnplacedEmpty
<1> QED
  BY <1>3, <1>6, <1>7, StockIs

(* A step that moves items about only balances.                             *)
LEMMA NoGain ==
    ASSUME \A d \in Items : Gain(d) = 0
    PROVE  Balanced
  BY DEF Balanced

(* A step that is journalled needs no excuse.                               *)
LEMMA SeqMoved == ASSUME seq' # seq PROVE Journalled
  BY DEF Journalled

(* A step that changes no slot needs no event.                              *)
LEMMA HeldStill == ASSUME held' = held PROVE Journalled
  BY DEF Journalled

(* Slots that grew until they were full are the excuse NothingUnjournalled
   makes.                                                                   *)
LEMMA GrownIsJournalled ==
    ASSUME StockInv, StockInv', NEW b \in Builders,
           seq' = seq => \A p \in Place : held'[p] # held[p] => p = b /\ Grown(held[p], held'[p])
    PROVE  Journalled
<1> SUFFICES ASSUME NEW p \in Place \ Chests, held'[p] # held[p], seq' = seq
             PROVE  /\ p \in Builders
                    /\ \A i \in At(p) : held'[p][i] # held[p][i] =>
                          /\ held'[p][i].count > held[p][i].count
                          /\ \A j \in At(p) : Room(held'[p], held'[p][i].item, j) = 0
  BY DEF Journalled
<1>1. p = b /\ Grown(held[p], held'[p])
  OBVIOUS
<1>2. held \in Holdings
  BY StockIs
<1>3. held' \in Holdings
  BY HoldingsIs DEF StockInv, TypeOK
<1>4. Len(held[p]) = Size[p] /\ Len(held'[p]) = Size[p]
  BY <1>2, <1>3 DEF Holdings
<1> QED
  BY <1>1, <1>4 DEF Grown, NoRoom, At

(* A stuttering step changes nothing.                                       *)
LEMMA StillStep ==
    ASSUME StockInv, UNCHANGED vars
    PROVE  StockInv' /\ held' = held /\ \A d \in Items : Gain(d) = 0
<1>1. held \in Holdings /\ Rest
  BY StockIs
<1>2. /\ UNCHANGED <<held, placed, known, seq, dirty, timer, stale, disk, spilled, piles, ground>>
  BY DEF vars
<1>3. Rest'
  BY <1>1, <1>2 DEF Rest
<1>4. StockInv'
  BY <1>1, <1>2, <1>3, StockNext
<1>5. ASSUME NEW d \in Items PROVE Gain(d) = 0
  <2>1. Gain(d) = ground'[d] - ground[d] + 0
    BY <1>2, <1>3, GainStill
  <2> QED
    BY <1>1, <1>2, <2>1 DEF Rest
<1> QED
  BY <1>2, <1>4, <1>5

(* A gain is an integer.                                                    *)
LEMMA GainInt ==
    ASSUME StockInv, StockInv', NEW d \in Items
    PROVE  Gain(d) \in Int
<1>1. held \in Holdings /\ Rest
  BY StockIs
<1>2. held' \in Holdings
  BY HoldingsIs DEF StockInv, TypeOK
<1>3. /\ ground[d] \in Nat /\ ground'[d] \in Nat
      /\ piles \in Seq(Seq(Taken)) /\ piles' \in Seq(Seq(Taken))
  BY DEF StockInv, TypeOK
<1>4. Shifted(held, held', d) \in Int /\ InPiles(piles, d) \in Nat /\ InPiles(piles', d) \in Nat
  BY <1>1, <1>2, <1>3, ShiftedPlus, PiledFacts
<1> DEFINE moved == IF piles' = piles THEN 0 ELSE InPiles(piles', d) - InPiles(piles, d)
<1>5. moved \in Int
  BY <1>4
<1>6. Gain(d) = Shifted(held, held', d) + ground'[d] - ground[d] + moved
  BY GainIs
<1> HIDE DEF moved
<1> QED
  BY <1>3, <1>4, <1>5, <1>6

(* Each action keeps the invariant, balances, and is journalled.           *)
LEMMA EveryStep ==
    ASSUME StockInv, [Next]_vars
    PROVE  StockInv' /\ Balanced /\ Journalled
<1>1. ASSUME NEW b \in Builders, NEW e \in Wild, NEW n \in 1..StackMax, AddItems(b, e, n)
      PROVE  StockInv' /\ Balanced /\ Journalled
  <2>1. /\ StockInv'
        /\ \A d \in Items : Gain(d) <= (IF d = e THEN n ELSE 0) /\ Gain(d) >= 0
        /\ seq' = seq => \A p \in Place : held'[p] # held[p] => p = b /\ Grown(held[p], held'[p])
    BY <1>1, AddItemsStep
  <2>2. ASSUME NEW d \in Items, Gain(d) > 0 PROVE Created(d, Gain(d))
    <3>1. Gain(d) \in Int
      BY <2>1, GainInt
    <3>2. d = e /\ Gain(d) <= n
      BY <2>1, <2>2, <3>1
    <3>3. n \in Gain(d)..StackMax
      BY <3>1, <3>2, SizeAssumption
    <3> QED
      BY <1>1, <3>2, <3>3 DEF Created, Granted
  <2>3. Balanced
    BY <2>1, <2>2, GainInt DEF Balanced
  <2>4. Journalled
    BY <2>1, GrownIsJournalled
  <2> QED
    BY <2>1, <2>3, <2>4
<1>2. ASSUME NEW b \in Builders, NEW e \in Wild, NEW n \in 1..StackMax, RemoveItems(b, e, n)
      PROVE  StockInv' /\ Balanced /\ Journalled
  <2>1. StockInv' /\ seq' # seq /\ \A d \in Items : Gain(d) = IF d = e THEN -n ELSE 0
    BY <1>2, RemoveItemsStep
  <2>2. ASSUME NEW d \in Items, Gain(d) < 0 PROVE Destroyed(d, -Gain(d))
    <3>1. d = e /\ -Gain(d) = n /\ n <= StackMax
      BY <2>1, <2>2, SizeAssumption
    <3> QED
      BY <1>2, <3>1 DEF Destroyed
  <2>3. Balanced
    BY <2>1, <2>2 DEF Balanced
  <2> QED
    BY <2>1, <2>3, SeqMoved
<1>3. ASSUME NEW e \in Wild, Drop(e) PROVE StockInv' /\ Balanced /\ Journalled
  <2>1. StockInv' /\ held' = held /\ \A d \in Items : Gain(d) = IF d = e THEN 1 ELSE 0
    BY <1>3, DropStep
  <2>2. \A d \in Items : Gain(d) > 0 => Created(d, Gain(d))
    BY <1>3, <2>1 DEF Created, Granted
  <2>3. Balanced
    BY <2>1, <2>2 DEF Balanced
  <2> QED
    BY <2>1, <2>3, HeldStill
<1>4. ASSUME NEW e \in Wild, Settle(e) PROVE StockInv' /\ Balanced /\ Journalled
  <2>1. StockInv' /\ held' = held /\ \A d \in Items : Gain(d) = IF d = e THEN -1 ELSE 0
    BY <1>4, SettleStep
  <2>2. \A d \in Items : Gain(d) < 0 => Destroyed(d, -Gain(d))
    BY <1>4, <2>1 DEF Destroyed
  <2>3. Balanced
    BY <2>1, <2>2 DEF Balanced
  <2> QED
    BY <2>1, <2>3, HeldStill
<1>5. ASSUME NEW b \in Builders, NEW e \in Wild, PickUp(b, e)
      PROVE  StockInv' /\ Balanced /\ Journalled
  BY <1>5, PickUpStep, NoGain, SeqMoved
<1>6. ASSUME NEW b \in Builders, Die(b) PROVE StockInv' /\ Balanced /\ Journalled
  BY <1>6, DieStep, NoGain, SeqMoved
<1>7. ASSUME NEW k \in DOMAIN piles, Despawn(k) PROVE StockInv' /\ Balanced /\ Journalled
  <2>1. StockInv' /\ held' = held /\ \A d \in Items : Gain(d) = -CountIn(piles[k], d)
    BY <1>7, DespawnStep
  <2>2. \A d : CountIn(piles[k], d) \in Nat
    <3>1. piles \in Seq(Seq(Taken))
      BY StockIs DEF Rest
    <3>2. piles[k] \in Seq(Taken)
      BY <3>1, PiledFacts
    <3> QED
      BY <3>2, TakenCounted, HavingFacts
  <2>3. ASSUME NEW d \in Items PROVE /\ ~(Gain(d) > 0)
                                     /\ Gain(d) < 0 => Destroyed(d, -Gain(d))
    <3> DEFINE n == CountIn(piles[k], d)
    <3>1. n \in Nat /\ Gain(d) = -n
      BY <2>1, <2>2
    <3>2. n = CountIn(piles[k], d)
      OBVIOUS
    <3> HIDE DEF n
    <3>3. -Gain(d) = n
      BY <3>1
    <3> QED
      BY <1>7, <3>1, <3>2, <3>3 DEF Destroyed
  <2>4. Balanced
    BY <2>3 DEF Balanced
  <2> QED
    BY <2>1, <2>4, HeldStill
<1>8. ASSUME NEW k \in DOMAIN piles, NEW b \in Builders, Collect(b, k)
      PROVE  StockInv' /\ Balanced /\ Journalled
  <2>1. /\ StockInv'
        /\ \A d \in Items :
              /\ Gain(d) >= 0
              /\ Gain(d) > 0 => k \in DOMAIN piles' /\ CountIn(piles'[k], d) > Gain(d)
        /\ seq' = seq => \A p \in Place : held'[p] # held[p] => p = b /\ Grown(held[p], held'[p])
    BY <1>8, CollectStep
  <2>2. \A d \in Items : Gain(d) > 0 => Created(d, Gain(d))
    BY <1>8, <2>1 DEF Created, Multiplied
  <2>3. Balanced
    BY <2>1, <2>2, GainInt DEF Balanced
  <2>4. Journalled
    BY <2>1, GrownIsJournalled
  <2> QED
    BY <2>1, <2>3, <2>4
<1>9. ASSUME NEW b \in Builders, NEW p \in Reach(b), NEW q \in Reach(b), NEW i \in At(p), NEW j \in At(q),
             Move(b, p, i, q, j)
      PROVE  StockInv' /\ Balanced /\ Journalled
  BY <1>9, MoveStep, NoGain, SeqMoved
<1>10. ASSUME NEW b \in Builders, NEW p \in Reach(b), NEW q \in Reach(b), NEW i \in At(p), NEW j \in At(q),
              Swap(b, p, i, q, j)
       PROVE  StockInv' /\ Balanced /\ Journalled
  BY <1>10, SwapStep, NoGain, SeqMoved
<1>11. ASSUME NEW b \in Builders, NEW i \in At(b), NEW j \in At(b), Split(b, i, j)
       PROVE  StockInv' /\ Balanced /\ Journalled
  BY <1>11, SplitStep, NoGain, SeqMoved
<1>12. ASSUME NEW b \in Builders, NEW p \in Reach(b), NEW i \in At(p), SingleTake(b, p, i)
       PROVE  StockInv' /\ Balanced /\ Journalled
  BY <1>12, SingleTakeStep, NoGain, SeqMoved
<1>13. ASSUME NEW b \in Builders, NEW r \in Recipes, NEW g \in Grids, Craft(b, r, g)
       PROVE  StockInv' /\ Balanced /\ Journalled
  <2>1. /\ StockInv' /\ seq' # seq
        /\ \A d \in Items : Gain(d) + Need(r, d) \in 0..(IF d = r.output THEN r.amount ELSE 0)
    BY <1>13, CraftStep
  <2>2. r.output \in Items /\ r.amount \in Nat /\ Wanted(r) \subseteq Items
    BY InputsCounted DEF Wanted
  <2>3. ASSUME NEW d \in Items
        PROVE  /\ Gain(d) \in Int /\ Need(r, d) \in Nat
               /\ d # r.output => Gain(d) = -Need(r, d)
               /\ d = r.output => Gain(d) <= r.amount
               /\ -Gain(d) <= Need(r, d)
    <3>1. Need(r, d) \in Nat /\ Gain(d) \in Int
      BY <2>1, NeedFacts, GainInt
    <3> DEFINE n == Need(r, d)
               x == Gain(d)
               a == r.amount
               same == d = r.output
    <3>2. x + n \in 0..(IF same THEN a ELSE 0) /\ n \in Nat /\ x \in Int /\ a \in Nat
      BY <2>1, <2>2, <3>1
    <3> HIDE DEF n, x, a, same
    <3>3. (~same => x = -n) /\ (same => x <= a) /\ -x <= n
      <4>1. CASE same
        BY <3>2, <4>1
      <4>2. CASE ~same
        BY <3>2, <4>2
      <4> QED
        BY <4>1, <4>2
    <3> QED
      BY <3>1, <3>3 DEF n, x, a, same
  <2>4. ASSUME NEW d \in Items, Gain(d) > 0 PROVE Created(d, Gain(d))
    <3>1. d = r.output
      BY <2>3, <2>4
    <3>2. \A e \in Wanted(r) \ {d} : Gain(e) = -Need(r, e)
      BY <2>2, <2>3, <3>1
    <3>3. Gain(d) <= r.amount
      BY <2>3, <3>1
    <3> QED
      BY <1>13, <3>1, <3>2, <3>3 DEF Created, Granted
  <2>5. \A d \in Items : Gain(d) < 0 => Destroyed(d, -Gain(d))
    BY <1>13, <2>3 DEF Destroyed
  <2>6. Balanced
    BY <2>4, <2>5 DEF Balanced
  <2> QED
    BY <2>1, <2>6, SeqMoved
<1>14. ASSUME NEW b \in Builders, NEW r \in Recipes, NEW g \in Grids, Autofill(b, r, g)
       PROVE  StockInv' /\ Balanced /\ Journalled
  <2>1. /\ StockInv' /\ seq' # seq
        /\ \A d \in Items :
              /\ Gain(d) \in Int
              /\ Gain(d) > 0 => Repeats(r, d) /\ Gain(d) < Need(r, d)
              /\ -Gain(d) <= CountIn(held[g], d) + Need(r, d) - CountIn(LaidOut(r, Size[g]), d)
    BY <1>14, AutofillStep
  <2>2. \A d \in Items : Gain(d) > 0 => Created(d, Gain(d))
    BY <1>14, <2>1 DEF Created, Multiplied
  <2>3. \A d \in Items : Gain(d) < 0 => Destroyed(d, -Gain(d))
    BY <1>14, <2>1 DEF Destroyed
  <2>4. Balanced
    BY <2>2, <2>3 DEF Balanced
  <2> QED
    BY <2>1, <2>4, SeqMoved
<1>15. ASSUME NEW c \in Chests, NEW s \in Loot, RegisterChest(c, s)
       PROVE  StockInv' /\ Balanced /\ Journalled
  <2>1. /\ StockInv' /\ \A p \in Place \ Chests : held'[p] = held[p]
        /\ \A d \in Items :
              /\ Gain(d) <= CountIn(s, d)
              /\ -Gain(d) <= CountIn(held[c], d)
              /\ Gain(d) < 0 => c \in placed
    BY <1>15, RegisterChestStep
  <2>2. \A d \in Items : Gain(d) > 0 => Created(d, Gain(d))
    BY <1>15, <2>1 DEF Created, Granted
  <2>3. \A d \in Items : Gain(d) < 0 => Destroyed(d, -Gain(d))
    BY <1>15, <2>1 DEF Destroyed
  <2>4. Balanced
    BY <2>2, <2>3 DEF Balanced
  <2>5. Journalled
    BY <2>1 DEF Journalled
  <2> QED
    BY <2>1, <2>4, <2>5
<1>16. CASE Flush
  BY <1>16, FlushStep, NoGain, HeldStill
<1>17. CASE UNCHANGED vars
  BY <1>17, StillStep, NoGain, HeldStill
<1> QED
  BY <1>1, <1>2, <1>3, <1>4, <1>5, <1>6, <1>7, <1>8, <1>9, <1>10, <1>11, <1>12, <1>13, <1>14,
     <1>15, <1>16, <1>17 DEF Next, Event

(* The invariant holds always.                                              *)
LEMMA StockAlways == Spec => []StockInv
<1>1. StockInv /\ [Next]_vars => StockInv'
  BY EveryStep
<1> QED
  BY <1>1, StockInit, PTL DEF Spec

(* Slots, chests on disk and piles stay well formed: no event of the
   journal, drag, craft or death leaves a slot with a count and no item, a
   negative count or a pile with an empty stack (apply_event and the
   handlers it calls, InventorySlot).                                       *)
THEOREM SlotsWellFormed == Spec => []TypeOK
<1>1. StockInv => TypeOK
  BY DEF StockInv
<1> QED
  BY <1>1, StockAlways, PTL

(* Items come into being only as NothingFromNothing says, whatever the
   slots, recipes and piles: drags, splits, right-clicks and deaths of
   apply_event multiply nothing, auto-fill multiplies only what a recipe
   lists twice and a pile only what did not fit whole, the two defects of
   NothingMultiplied.                                                       *)
THEOREM NothingFromNothingAlways == Spec => NothingFromNothing
<1>1. StockInv /\ [Next]_vars
          => [\A d \in Items : Gain(d) > 0 => Granted(d, Gain(d)) \/ Multiplied(d, Gain(d))]_vars
  BY EveryStep DEF Balanced, Created
<1> QED
  BY <1>1, StockAlways, PTL DEF Spec, NothingFromNothing

(* Items cease to be only as NothingVanishes says: no click, drag or death
   of apply_event loses one, a craft takes its inputs and no more, and a
   chest placed loses something only where one stood.                       *)
THEOREM NothingVanishesAlways == Spec => NothingVanishes
<1>1. StockInv /\ [Next]_vars => [\A d \in Items : Gain(d) < 0 => Destroyed(d, -Gain(d))]_vars
  BY EveryStep DEF Balanced
<1> QED
  BY <1>1, StockAlways, PTL DEF Spec, NothingVanishes

(* Slots of builders and grids change by journalled events only, but for an
   addition that fails for want of room, which has filled all room there
   was (apply_event returns before the journal, _apply_add has poured
   already).                                                                *)
THEOREM NothingUnjournalledAlways == Spec => NothingUnjournalled
<1>1. StockInv /\ [Next]_vars => [Journalled]_vars
  BY EveryStep
<1> QED
  BY <1>1, StockAlways, PTL DEF Spec, NothingUnjournalled, Journalled
=============================================================================
