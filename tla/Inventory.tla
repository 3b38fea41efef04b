----------------------------- MODULE Inventory -----------------------------
(* The inventory autoload of one running game: the slots of the builders it
   knows, the two crafting grids all builders of the process share, the chests
   that are placed, and the event handlers of apply_event that change them,
   with the death piles and dropped items that feed events into it and the
   writer that saves builders some time after a change.

   An event of another player that the host replicates runs through the same
   handlers, so a builder below may be the local one or a replicated one.
   Nothing in the game reads the saved builders and chests back into this
   autoload (attach_world and detach_world have no caller), so a model of one
   process has writes only.                                                 *)
EXTENDS Integers, FiniteSets, SequencesExt

CONSTANTS
    Builders,    \* builder ids
    Grids,       \* the crafting grids of the process
    Small,       \* the one a single take fills, crafting_2x2
    Chests,      \* coordinate keys of chests
    Size,        \* slots of each of these
    StackMax,    \* STACK_MAX
    Items,       \* def_ids
    Wild,        \* those the world hands out
    None,        \* the def_id of an empty slot
    Recipes,     \* the recipe registry
    Loot,        \* contents a chest may be placed with
    Survival,    \* a survival world: death drops what is carried
    MaxEvents,   \* bound: accepted events
    MaxItems     \* bound: the world hands out no more once so many exist

Place == Builders \cup Grids \cup Chests
Slot == [item : Items \cup {None}, count : Nat]
Taken == [item : Items, count : Nat \ {0}]
Input == [item : Items, count : 1..StackMax, slot : Nat]
Recipe == [shaped : BOOLEAN, inputs : Seq(Input), output : Items, amount : Nat \ {0}]

(* An empty slot counts nothing and a taken one something: no half-empty slots
   for the panels to trip over.                                                 *)
WellFormed(s) == \A i \in DOMAIN s : s[i].item = None <=> s[i].count = 0

ASSUME SizeAssumption ==
    /\ Small \in Grids
    /\ Size \in [Place -> Nat \ {0}]
    /\ StackMax \in Nat \ {0}
ASSUME PlacesDisjoint ==
    /\ IsFiniteSet(Place)
    /\ Builders \cap Grids = {} /\ Builders \cap Chests = {} /\ Grids \cap Chests = {}
ASSUME ItemAssumption == None \notin Items /\ Wild \subseteq Items /\ Recipes \subseteq Recipe
\* No shaped recipe asks for two things in one slot (src/crafting/recipes).
ASSUME ShapeAssumption ==
    \A r \in Recipes : r.shaped => \A k, l \in DOMAIN r.inputs :
        r.inputs[k].slot = r.inputs[l].slot => k = l
ASSUME LootAssumption ==
    \A s \in Loot : WellFormed(s) /\ \A c \in Chests : s \in [1..Size[c] -> Slot]
ASSUME BoundAssumption == MaxEvents \in Nat /\ MaxItems \in Nat /\ Survival \in BOOLEAN

VARIABLES
    held,      \* place -> its slots
    placed,    \* the chests that are registered
    known,     \* builder -> recipes_known
    seq,       \* _next_seq: the number of events journalled
    dirty,     \* _dirty_builders
    timer,     \* _persist_timer is running
    stale,     \* the builders whose blob on disk is not what they hold and know
    disk,      \* chest -> the contents last written
    spilled,   \* history: those with an addition that did not fit since their last blob
    piles,     \* death piles, oldest first: sequences of stacks
    ground     \* dropped items lying in the world, by kind

vars == <<held, placed, known, seq, dirty, timer, stale, disk, spilled, piles, ground>>
world == <<placed, piles, ground>>

--------------------------------------------------------------------------------
(* Slots.                                                                       *)

Empty == [item |-> None, count |-> 0]
Stack(d, n) == IF n = 0 THEN Empty ELSE [item |-> d, count |-> n]
Blank(n) == [i \in 1..n |-> Empty]
AtLeast0(n) == IF n < 0 THEN 0 ELSE n
Least(m, n) == IF m < n THEN m ELSE n

(* Numbers in a row: the sum of the first k, and n dealt out in order, to each
   no more than f says.                                                         *)
Upto(f, k) == LET sum[j \in 0..k] == IF j = 0 THEN 0 ELSE sum[j - 1] + f[j] IN sum[k]
Share(f, n) == [i \in DOMAIN f |-> Least(f[i], AtLeast0(n - Upto(f, i - 1)))]

(* How many of d the slots s hold.                                              *)
Having(s, d) == [i \in DOMAIN s |-> IF s[i].item = d THEN s[i].count ELSE 0]
CountIn(s, d) == Upto(Having(s, d), Len(s))

(* What the stacks of d take yet, and what the empty slots take.                *)
InStacks(s, d) ==
    [i \in DOMAIN s |-> IF s[i].item = d THEN AtLeast0(StackMax - s[i].count) ELSE 0]
InFree(s) == [i \in DOMAIN s |-> IF s[i].item = None THEN StackMax ELSE 0]
Room(s, d, i) == InStacks(s, d)[i] + InFree(s)[i]

(* s with n of d added as far as they fit, to stacks of its kind first, then to
   empty slots; and what does not fit.                                          *)
Poured(s, d, n) ==
    LET first == Share(InStacks(s, d), n)
        rest == Share(InFree(s), AtLeast0(n - Upto(InStacks(s, d), Len(s))))
    IN  [i \in DOMAIN s |->
            IF first[i] + rest[i] = 0 THEN s[i]
            ELSE [item |-> d, count |-> s[i].count + first[i] + rest[i]]]
Spilt(s, d, n) == AtLeast0(n - Upto(InStacks(s, d), Len(s)) - Upto(InFree(s), Len(s)))

(* Mutant: an emptied stack keeps its item.                                     *)
DrainedKeepsItem(s, d, n) ==
    [i \in DOMAIN s |-> IF s[i].item # d THEN s[i]
                        ELSE [s[i] EXCEPT !.count = @ - Share(Having(s, d), n)[i]]]

(* s with n of d taken out, from its first stacks on.                           *)
Drained(s, d, n) ==
    [i \in DOMAIN s |-> IF s[i].item # d THEN s[i]
                        ELSE Stack(d, s[i].count - Share(Having(s, d), n)[i])]

(* How many of a stack of n CTRL-drag moves to slot t: the larger half, and no
   more than completes a stack already there.                                   *)
Give(n, t) ==
    LET half == (n + 1) \div 2
    IN  IF t.item = None THEN half ELSE Least(half, StackMax - t.count)

--------------------------------------------------------------------------------
(* Recipes.                                                                     *)

Wanted(r) == {r.inputs[k].item : k \in DOMAIN r.inputs}
Need(r, d) == CountIn(r.inputs, d)
Repeats(r, d) ==
    \E k, l \in DOMAIN r.inputs : k # l /\ r.inputs[k].item = d /\ r.inputs[l].item = d

ShapedMatch(g, r) ==
    /\ \A k \in DOMAIN r.inputs : LET e == r.inputs[k] IN
          e.slot \in DOMAIN g /\ g[e.slot].item = e.item /\ g[e.slot].count >= e.count
    /\ \A i \in DOMAIN g \ {r.inputs[k].slot : k \in DOMAIN r.inputs} : g[i].item = None
ShapelessMatch(g, r) == \A d \in Wanted(r) : CountIn(g, d) >= Need(r, d)
Matches(g, r) ==
    r.inputs # <<>> /\ IF r.shaped THEN ShapedMatch(g, r) ELSE ShapelessMatch(g, r)

(* Mutant: a craft leaves its inputs in the grid.                               *)
ConsumedNothing(g, r) == g

(* The grid once a craft has taken its inputs.                                  *)
Consumed(g, r) ==
    [i \in DOMAIN g |-> IF g[i].item = None THEN g[i]
                        ELSE Drained(g, g[i].item, Need(r, g[i].item))[i]]

(* Which input auto-fill puts into a slot: shaped inputs go to their slots, and
   those of no slot of the grid go nowhere; shapeless ones are laid out in turn.
   A cell where nothing is laid is Empty here.  In the code it has no keys, and a
   swap whose drag began at it then fails without effect (Swap); so what the code
   does to such a cell is one of the things it may do to an emptied one.        *)
InputAt(r, i) ==
    IF r.shaped THEN {k \in DOMAIN r.inputs : r.inputs[k].slot = i}
                ELSE DOMAIN r.inputs \cap {i}
LaidOut(r, n) ==
    [i \in 1..n |->
        IF InputAt(r, i) = {} THEN Empty
        ELSE LET k == CHOOSE k \in InputAt(r, i) : \A l \in InputAt(r, i) : l <= k
             IN  Stack(r.inputs[k].item, r.inputs[k].count)]

(* Auto-fill removes the inputs one by one, and passes over a removal that fails. *)
PaidFor(s, r) ==
    LET paid[k \in 0..Len(r.inputs)] ==
            IF k = 0 THEN s
            ELSE LET t == paid[k - 1]
                     e == r.inputs[k]
                 IN  IF CountIn(t, e.item) >= e.count THEN Drained(t, e.item, e.count) ELSE t
    IN  paid[Len(r.inputs)]

--------------------------------------------------------------------------------
(* apply_event: the tail every accepted event runs, and the chests it stores.   *)

Init ==
    /\ held = [p \in Place |-> Blank(Size[p])]
    /\ placed = {} /\ known = [b \in Builders |-> {}]
    /\ seq = 0 /\ dirty = {} /\ timer = FALSE
    /\ disk = [c \in Chests |-> Blank(Size[c])]
    /\ stale = {} /\ spilled = {} /\ piles = <<>> /\ ground = [d \in Items |-> 0]

(* Mutant: a builder is marked only by the event that starts the timer.         *)
AcceptMarksFirst(b, n) ==
    /\ seq + n <= MaxEvents
    /\ seq' = seq + n
    /\ IF n = 0 \/ timer THEN UNCHANGED <<dirty, timer>>
       ELSE dirty' = dirty \cup {b} /\ timer' = TRUE
    /\ stale' = stale \cup {c \in Builders : held'[c] # held[c] \/ known'[c] # known[c]}

(* n events of b are journalled; b is marked and the 30 s timer starts again.   *)
Accept(b, n) ==
    /\ seq + n <= MaxEvents
    /\ seq' = seq + n
    /\ IF n = 0 THEN UNCHANGED <<dirty, timer>>
       ELSE dirty' = dirty \cup {b} /\ timer' = TRUE
    /\ stale' = stale \cup {c \in Builders : held'[c] # held[c] \/ known'[c] # known[c]}

(* _persist_chest, for the chests among the places P.                           *)
StoreChests(P) == disk' = [c \in Chests |-> IF c \in P THEN held'[c] ELSE disk[c]]

WorldGives(n) ==
    LET all(s) == MapThenSumSet(LAMBDA i : s[i].count, DOMAIN s)
    IN  MapThenSumSet(LAMBDA p : all(held[p]), Place) + MapThenSumSet(LAMBDA k : all(piles[k]), DOMAIN piles)
        + MapThenSumSet(LAMBDA d : ground[d], Items) + n <= MaxItems

--------------------------------------------------------------------------------
(* Items that come and go.                                                      *)

(* An ADD of n of d: mined, harvested, looted from an animal, a bed picked up.
   What fits stays even when the event fails for the rest.  No code of the game
   sends one for a chest or with the hint of a slot.                            *)
AddItems(b, d, n) ==
    /\ WorldGives(n)
    /\ held' = [held EXCEPT ![b] = Poured(@, d, n)]
    /\ spilled' = IF Spilt(held[b], d, n) = 0 \/ held'[b] = held[b]
                  THEN spilled ELSE spilled \cup {b}
    /\ UNCHANGED <<known, disk, world>>
    /\ Accept(b, IF Spilt(held[b], d, n) = 0 THEN 1 ELSE 0)

(* A REMOVE of n of d, to place a bed; refused when there are fewer.  No code of
   the game sends one for a slot.                                               *)
RemoveItems(b, d, n) ==
    /\ CountIn(held[b], d) >= n
    /\ held' = [held EXCEPT ![b] = Drained(@, d, n)]
    /\ UNCHANGED <<known, disk, spilled, world>>
    /\ Accept(b, 1)

(* An item falls to the ground.  In the frame it comes to rest it is picked up
   by a builder who stands there and has room; else it is scenery from then on,
   which nothing picks up.                                                      *)
Drop(d) ==
    /\ WorldGives(1)
    /\ ground' = [ground EXCEPT ![d] = @ + 1]
    /\ UNCHANGED <<held, placed, known, seq, dirty, timer, stale, disk, spilled, piles>>

PickUp(b, d) ==
    /\ ground[d] > 0 /\ Spilt(held[b], d, 1) = 0
    /\ ground' = [ground EXCEPT ![d] = @ - 1]
    /\ held' = [held EXCEPT ![b] = Poured(@, d, 1)]
    /\ UNCHANGED <<known, disk, spilled, placed, piles>>
    /\ Accept(b, 1)

Settle(d) ==
    /\ ground[d] > 0
    /\ ground' = [ground EXCEPT ![d] = @ - 1]
    /\ UNCHANGED <<held, placed, known, seq, dirty, timer, stale, disk, spilled, piles>>

(* Mutant: one item of each stack goes to the pile.                             *)
CarriedOnce(s) ==
    LET pile[i \in 0..Len(s)] ==
            IF i = 0 THEN <<>>
            ELSE IF s[i].item = None THEN pile[i - 1]
            ELSE Append(pile[i - 1], [s[i] EXCEPT !.count = 1])
    IN  pile[Len(s)]

(* A DEATH_DROP: everything carried becomes a pile.                             *)
Carried(s) ==
    LET pile[i \in 0..Len(s)] ==
            IF i = 0 THEN <<>>
            ELSE IF s[i].item = None THEN pile[i - 1] ELSE Append(pile[i - 1], s[i])
    IN  pile[Len(s)]
Die(b) ==
    /\ IF Survival
       THEN /\ held' = [held EXCEPT ![b] = Blank(Size[b])]
            /\ piles' = Append(piles, Carried(held[b]))
       ELSE UNCHANGED <<held, piles>>
    /\ UNCHANGED <<known, disk, spilled, placed, ground>>
    /\ Accept(b, 1)

(* A builder walks into pile k: one ADD per stack.  A stack that does not fit
   stays in the pile whole, also when a part of it was added.                   *)
Collected(s, pile) ==
    LET tried[k \in 0..Len(pile)] ==
            IF k = 0 THEN [slots |-> s, left |-> <<>>, took |-> 0]
            ELSE LET t == tried[k - 1]
                     e == pile[k]
                     poured == Poured(t.slots, e.item, e.count)
                 IN  IF Spilt(t.slots, e.item, e.count) = 0
                     THEN [t EXCEPT !.slots = poured, !.took = @ + 1]
                     ELSE [t EXCEPT !.slots = poured, !.left = Append(@, e)]
    IN  tried[Len(pile)]
Collect(b, k) ==
    LET c == Collected(held[b], piles[k])
    IN  /\ held' = [held EXCEPT ![b] = c.slots]
        /\ piles' = IF c.left = <<>> THEN RemoveAt(piles, k) ELSE [piles EXCEPT ![k] = c.left]
        /\ spilled' = IF c.took = 0 /\ held'[b] # held[b] THEN spilled \cup {b} ELSE spilled
        /\ UNCHANGED <<known, disk, placed, ground>>
        /\ Accept(b, c.took)

Despawn(k) ==
    /\ piles' = RemoveAt(piles, k)
    /\ UNCHANGED <<held, placed, known, seq, dirty, timer, stale, disk, spilled, ground>>

--------------------------------------------------------------------------------
(* Clicks and drags: the places of b's screen, and the slots of a place.        *)

Reach(b) == {b} \cup Grids \cup placed
At(p) == 1..Size[p]

Put(h, p, i, s) == [h EXCEPT ![p][i] = s]

(* Mutant: a move between two chests stores the first one only.                 *)
MoveStoresSource(b, p, i, q, j) ==
    /\ held[p][i].item # None /\ held[q][j].item = None
    /\ held' = Put(Put(held, q, j, held[p][i]), p, i, Empty)
    /\ StoreChests({p})
    /\ UNCHANGED <<known, spilled, world>>
    /\ Accept(b, 1)

(* A drag onto an empty slot.                                                   *)
Move(b, p, i, q, j) ==
    /\ held[p][i].item # None /\ held[q][j].item = None
    /\ held' = Put(Put(held, q, j, held[p][i]), p, i, Empty)
    /\ StoreChests({p, q})
    /\ UNCHANGED <<known, spilled, world>>
    /\ Accept(b, 1)

(* A drag onto a slot that is taken.  The slot it started from may have emptied
   since: the handler looks at neither.  Where it is a cell without keys (LaidOut)
   the handler fails and nothing happens, which a behaviour may do at any time.  *)
Swap(b, p, i, q, j) ==
    /\ held[q][j].item # None
    /\ held' = Put(Put(held, p, i, held[q][j]), q, j, held[p][i])
    /\ StoreChests({p, q})
    /\ UNCHANGED <<known, spilled, world>>
    /\ Accept(b, 1)

(* A drag with CTRL.  The handler reads the slot numbers as slots of the
   builder, whatever grids the drag joined.                                     *)
Split(b, i, j) ==
    LET s == held[b][i]
        t == held[b][j]
        n == Give(s.count, t)
    IN  /\ s.count > 1 /\ t.item \in {None, s.item}
        /\ held' = IF i = j THEN held
                   ELSE Put(Put(held, b, i, Stack(s.item, s.count - n)),
                            b, j, Stack(s.item, t.count + n))
        /\ UNCHANGED <<known, disk, spilled, world>>
        /\ Accept(b, 1)

(* A right-click moves one item: from the builder to the small grid, from any
   other place to the builder, onto the first stack of its kind however full,
   else into the first empty slot.                                              *)
TakesInto(b, p) == IF p = b THEN Small ELSE b
Landing(s, d) ==
    LET same == {j \in DOMAIN s : s[j].item = d}
        free == {j \in DOMAIN s : s[j].item = None}
    IN  IF same # {} THEN same ELSE free
SingleTake(b, p, i) ==
    LET s == held[p][i]
        q == TakesInto(b, p)
        into == Landing(held[q], s.item)
    IN  /\ s.item # None /\ into # {}
        /\ LET j == CHOOSE j \in into : \A k \in into : j <= k
           IN  held' = Put(Put(held, q, j, Stack(s.item, held[q][j].count + 1)),
                           p, i, Stack(s.item, s.count - 1))
        /\ StoreChests({p})
        /\ UNCHANGED <<known, spilled, world>>
        /\ Accept(b, 1)

--------------------------------------------------------------------------------
(* Crafting.                                                                    *)

(* What a craft makes goes to the builder as far as it fits; the rest is lost.  *)
Craft(b, r, g) ==
    /\ Matches(held[g], r)
    /\ held' = [held EXCEPT ![g] = Consumed(@, r), ![b] = Poured(@, r.output, r.amount)]
    /\ known' = [known EXCEPT ![b] = @ \cup {r}]
    /\ UNCHANGED <<disk, spilled, world>>
    /\ Accept(b, 1)

(* Mutant: auto-fill takes what it finds and refuses when an input is missing.  *)
AutofillTakesFirst(b, r, g) ==
    LET enough == \A k \in DOMAIN r.inputs :
                     CountIn(held[b], r.inputs[k].item) >= r.inputs[k].count
    IN  /\ held' = [held EXCEPT ![b] = PaidFor(@, r),
                               ![g] = IF enough THEN LaidOut(r, Size[g]) ELSE @]
        /\ UNCHANGED <<known, disk, spilled, world>>
        /\ Accept(b, IF enough THEN 1 ELSE 0)

(* The recipe book fills grid g.  Each input is looked for by itself, and what
   lay in the grid is overwritten.                                              *)
Autofill(b, r, g) ==
    /\ \A k \in DOMAIN r.inputs : CountIn(held[b], r.inputs[k].item) >= r.inputs[k].count
    /\ held' = [held EXCEPT ![b] = PaidFor(@, r), ![g] = LaidOut(r, Size[g])]
    /\ UNCHANGED <<known, disk, spilled, world>>
    /\ Accept(b, 1)

--------------------------------------------------------------------------------
(* Chests and saving.                                                           *)

(* A chest is placed with these contents.  When one is registered under its key
   already this is the starter chest, which replaces it: any other placement is
   then without effect.                                                         *)
RegisterChest(c, contents) ==
    /\ placed' = placed \cup {c}
    /\ held' = [held EXCEPT ![c] = contents]
    /\ StoreChests({c})
    /\ UNCHANGED <<known, seq, dirty, timer, stale, spilled, piles, ground>>

(* The timer fires: every marked builder is written.  Each event starts the timer
   anew, so it fires once there was none for 30 s; when that is depends on who
   plays, so here a timer that was started may fire at any moment, or never.    *)
Flush ==
    /\ timer /\ timer' = FALSE
    /\ stale' = stale \ dirty /\ spilled' = spilled \ dirty
    /\ dirty' = {}
    /\ UNCHANGED <<held, known, seq, disk, world>>

(* What a builder does, through apply_event; bounded by the events journalled.  *)
Event(b) ==
    \/ \E d \in Wild, n \in 1..StackMax : AddItems(b, d, n) \/ RemoveItems(b, d, n)
    \/ \E d \in Wild : PickUp(b, d)
    \/ Die(b)
    \/ \E k \in DOMAIN piles : Collect(b, k)
    \/ \E p, q \in Reach(b) : \E i \in At(p), j \in At(q) : Move(b, p, i, q, j) \/ Swap(b, p, i, q, j)
    \/ \E i, j \in At(b) : Split(b, i, j)
    \/ \E p \in Reach(b) : \E i \in At(p) : SingleTake(b, p, i)
    \/ \E r \in Recipes, g \in Grids : Craft(b, r, g) \/ Autofill(b, r, g)

Next ==
    \/ seq < MaxEvents /\ \E b \in Builders : Event(b)
    \/ \E d \in Wild : Drop(d) \/ Settle(d)
    \/ \E k \in DOMAIN piles : Despawn(k)
    \/ \E c \in Chests, contents \in Loot : RegisterChest(c, contents)
    \/ Flush

Spec == Init /\ [][Next]_vars

--------------------------------------------------------------------------------
(* Properties.                                                                  *)

(* Slots stay well formed whatever was moved, split, poured or crafted into
   them, in memory, on disk and in piles, which hold stacks only.               *)
TypeOK ==
    /\ held \in [Place -> Seq(Slot)] /\ \A p \in Place : Len(held[p]) = Size[p]
    /\ \A p \in Place : WellFormed(held[p])
    /\ placed \subseteq Chests
    /\ known \in [Builders -> SUBSET Recipes]
    /\ seq \in 0..MaxEvents
    /\ dirty \subseteq Builders /\ timer \in BOOLEAN
    /\ stale \subseteq Builders /\ spilled \subseteq Builders
    /\ disk \in [Chests -> Seq(Slot)] /\ \A c \in Chests : WellFormed(disk[c])
    /\ piles \in Seq(Seq(Taken))
    /\ ground \in [Items -> Nat]

(* By how much a step changes the number of items d there are, in all slots,
   piles and on the ground.                                                     *)
PlaceOrder == SetToSeq(Place)
InPiles(ps, d) == Upto([k \in DOMAIN ps |-> CountIn(ps[k], d)], Len(ps))
Gain(d) ==
    LET moved(p) == IF held'[p] = held[p] THEN 0 ELSE CountIn(held'[p], d) - CountIn(held[p], d)
    IN  Upto([k \in DOMAIN PlaceOrder |-> moved(PlaceOrder[k])], Len(PlaceOrder))
        + ground'[d] - ground[d]
        + IF piles' = piles THEN 0 ELSE InPiles(piles', d) - InPiles(piles, d)

(* What is meant to make items: the world hands them out, a chest is placed with
   loot, or a craft makes them, no more than its recipe says and paid in full.  *)
Granted(d, n) ==
    \/ \E b \in Builders, m \in n..StackMax : AddItems(b, d, m)
    \/ n = 1 /\ Drop(d)
    \/ \E c \in Chests, s \in Loot : n <= CountIn(s, d) /\ RegisterChest(c, s)
    \/ \E b \in Builders, r \in Recipes, g \in Grids :
          /\ r.output = d /\ n <= r.amount /\ Craft(b, r, g)
          /\ \A e \in Wanted(r) \ {d} : Gain(e) = -Need(r, e)

(* Nothing else makes items: auto-fill is to "validate ALL ingredients BEFORE
   removing anything" (inventory.gd 1447), and of a pile only "items that overflow
   (inventory full) remain" (death_pile.gd 165).  The code breaks it.           *)
NothingMultiplied == [][\A d \in Items : Gain(d) > 0 => Granted(d, Gain(d))]_vars

(* How the code does multiply items: auto-fill looks for each input of a recipe by
   itself, so that an input the recipe lists twice is paid once; and a stack of a
   pile that fits in part is added in part and stays in the pile whole.         *)
Multiplied(d, n) ==
    \/ \E b \in Builders, r \in Recipes, g \in Grids :
          Repeats(r, d) /\ n < Need(r, d) /\ Autofill(b, r, g)
    \/ \E b \in Builders : \E k \in DOMAIN piles :
          Collect(b, k) /\ k \in DOMAIN piles' /\ CountIn(piles'[k], d) > n

(* Beside the two defects that NothingMultiplied shows, and beyond their exact
   amounts, no item comes from nowhere: no drag, no split, no right-click, no
   death and no craft multiplies anything, in grids that two builders share.    *)
NothingFromNothing ==
    [][\A d \in Items : Gain(d) > 0 => Granted(d, Gain(d)) \/ Multiplied(d, Gain(d))]_vars

(* No item is lost.  A kind of item gets fewer only when it is placed, settles
   unclaimed or despawns with its pile, or when a craft takes it, no more than
   its recipe says; and in the two ways the code does lose items: auto-fill lays
   a recipe over a grid that is not empty, or one with a slot the grid does not
   have, and the starter chest is placed again over its old contents.           *)
Destroyed(d, n) ==
    \/ \E b \in Builders : n <= StackMax /\ RemoveItems(b, d, n)
    \/ n = 1 /\ Settle(d)
    \/ \E k \in DOMAIN piles : n = CountIn(piles[k], d) /\ Despawn(k)
    \/ \E c \in placed, s \in Loot : n <= CountIn(held[c], d) /\ RegisterChest(c, s)
    \/ \E b \in Builders, r \in Recipes, g \in Grids :
          \/ n <= Need(r, d) /\ Craft(b, r, g)
          \/ /\ n <= CountIn(held[g], d) + Need(r, d) - CountIn(LaidOut(r, Size[g]), d)
             /\ Autofill(b, r, g)
NothingVanishes == [][\A d \in Items : Gain(d) < 0 => Destroyed(d, -Gain(d))]_vars

(* The journal is what a new host replays, so what a builder carries must not
   change behind its back: every change of carried slots or of a grid is made by
   an event that is journalled, except that an addition which does not fit
   leaves what did fit.  A craft, an auto-fill, a move that is refused half-way
   leaves no trace.                                                             *)
NothingUnjournalled == [][
    \A p \in Place \ Chests : held'[p] # held[p] /\ seq' = seq =>
        /\ p \in Builders
        /\ \A i \in At(p) : held'[p][i] # held[p][i] =>
              /\ held'[p][i].count > held[p][i].count
              /\ \A j \in At(p) : Room(held'[p], held'[p][i].item, j) = 0]_vars

(* A builder nobody marked has been written as it is now, slots and recipes,
   but for an addition that did not fit: no change of the two is forgotten.     *)
CleanIsSaved == stale \subseteq dirty \cup spilled

(* A chest lies on disk as it is in memory after every move, swap, right-click
   and placement, whichever of two chests the items came from.                  *)
ChestsOnDisk == \A c \in Chests : disk[c] = held[c]
=============================================================================
