------------------------ MODULE AssetPipeline_proofs ------------------------
(***************************************************************************)
(* Theorems about AssetPipeline, for any scripts of the assumed shape, any *)
(* number of terminals and runs.                                           *)
(***************************************************************************)
EXTENDS AssetPipeline, SequenceTheorems, TLAPS

(***************************************************************************)
(* Where a script is.                                                      *)
(***************************************************************************)

Place == [script : Script \cup {NoScript}, item : Nat \ {0}, step : Nat \ {0},
          listed : SUBSET File, derived : SUBSET File]
ItemOf(p) == Program[p.script][p.item]
InProgram(p) ==
    p \in Place /\ (p.script # NoScript => /\ p.item \in DOMAIN Program[p.script]
                                           /\ p.step \in DOMAIN ItemOf(p))

(* The type invariant of proc, place by place.                             *)
LEMMA ProcIs ==
    ASSUME NEW q
    PROVE  (q \in [Terminal -> Place]
              /\ \A t \in Terminal : q[t].script # NoScript =>
                    /\ q[t].item \in DOMAIN Program[q[t].script]
                    /\ q[t].step \in DOMAIN Program[q[t].script][q[t].item])
           <=> (q \in [Terminal -> Place] /\ \A t \in Terminal : InProgram(q[t]))
  BY DEF InProgram, ItemOf

(* The items of a script, and their steps.                                 *)
LEMMA ProgramFacts ==
    ASSUME NEW s \in Script
    PROVE  /\ Len(Program[s]) \in Nat \ {0} /\ DOMAIN Program[s] = 1..Len(Program[s])
           /\ \A i \in DOMAIN Program[s] :
                 LET item == Program[s][i] IN
                 /\ item \in Item /\ Len(item) \in Nat \ {0} /\ DOMAIN item = 1..Len(item)
                 /\ \A k \in DOMAIN item : item[k] \in OneStep /\ item[k] \in Steps(s)
<1>1. Program[s] \in Seq(Seq(OneStep) \ {<<>>}) /\ Program[s] # <<>>
  BY ProgramAssumption
<1>2. Len(Program[s]) \in Nat \ {0} /\ DOMAIN Program[s] = 1..Len(Program[s])
  BY <1>1, LenProperties, EmptySeq
<1>3. ASSUME NEW i \in DOMAIN Program[s]
      PROVE  LET item == Program[s][i] IN
             /\ item \in Item /\ Len(item) \in Nat \ {0} /\ DOMAIN item = 1..Len(item)
             /\ \A k \in DOMAIN item : item[k] \in OneStep /\ item[k] \in Steps(s)
  <2> DEFINE item == Program[s][i]
  <2>1. item \in Seq(OneStep) /\ item # <<>>
    BY <1>1, <1>2, ElementOfSeq
  <2>2. item \in Item /\ \A k \in DOMAIN item : item[k] \in Steps(s)
    BY DEF Item, Steps
  <2> HIDE DEF item
  <2>3. Len(item) \in Nat \ {0} /\ DOMAIN item = 1..Len(item) /\ \A k \in DOMAIN item : item[k] \in OneStep
    BY <2>1, LenProperties, EmptySeq, ElementOfSeq
  <2> QED
    BY <2>2, <2>3 DEF item
<1> QED
  BY <1>2, <1>3

(* Item i of script s writes a licence for file f.                         *)
Labelled(s, i, f) == \E k \in DOMAIN Program[s][i] :
                        Labels(Program[s][i][k]) /\ Program[s][i][k].file = f

(* The assumptions about scripts, at one step.                             *)
LEMMA LicenceOf ==
    ASSUME NEW s \in Script, NEW i \in DOMAIN Program[s], NEW j \in DOMAIN Program[s][i], NEW f,
           Changes(Program[s][i][j]), Program[s][i][j].file = f, f \in Licences(s)
    PROVE  Program[s][i][j].do # "remove" /\ Labelled(s, i, f)
<1>1. LET step == Program[s][i][j] IN
      Makes(step) /\ \E k \in DOMAIN Program[s][i] :
                        Labels(Program[s][i][k]) /\ Program[s][i][k].file = step.file
  BY LicenceAssumption
<1> QED
  BY <1>1 DEF Makes, Labelled

(* Before its step k copies work file f, a script has removed f and, with f
   made anew, has seen that it is there and left it alone.                 *)
PreparedAt(item, k, f, n, r) ==
    /\ item[r].do = "remove" /\ item[r].file = f /\ item[r].orElse # "on"
    /\ item[n].do = "need" /\ item[n].file = f /\ item[n].orElse # "on"
    /\ \A j \in n..k : Changes(item[j]) => item[j].file # f

Prepared(item, k, f) == \E n \in 1..(k - 1) : \E r \in 1..(n - 1) : PreparedAt(item, k, f, n, r)

LEMMA WorkOf ==
    ASSUME NEW item \in Item, NEW k \in DOMAIN item, item[k].do = "copy", item[k].of \in WorkFiles
    PROVE  Prepared(item, k, item[k].of)
  BY WorkAssumption DEF Prepared, PreparedAt

(* What a script changes it is said to write, what it labels to license.   *)
LEMMA WritesFacts ==
    ASSUME NEW s \in Script, NEW x \in Steps(s)
    PROVE  /\ Changes(x) => x.file \in Writes(s) /\ x.file \in File
           /\ Labels(x) => x.file \in Licences(s) /\ x.file \in File
           /\ x.do \in {"copy", "derive"} => x.of \in File
  BY ProgramAssumption DEF Writes, Licences, File, Labels

(* The step a running script is at.                                        *)
LEMMA NowFacts ==
    ASSUME TypeOK, NEW t \in Terminal, Running(t)
    PROVE  LET p == proc[t] IN
           /\ p \in Place /\ InProgram(p) /\ p.script \in Script
           /\ ItemOf(p) \in Item /\ Len(ItemOf(p)) \in Nat /\ DOMAIN ItemOf(p) = 1..Len(ItemOf(p))
           /\ p.step \in 1..Len(ItemOf(p)) /\ Now(t) = ItemOf(p)[p.step]
           /\ Now(t) \in OneStep /\ Now(t) \in Steps(p.script)
           /\ \A j \in DOMAIN ItemOf(p) : ItemOf(p)[j] \in OneStep /\ ItemOf(p)[j] \in Steps(p.script)
<1> DEFINE p == proc[t]
<1>1. p \in Place /\ InProgram(p) /\ p.script \in Script
  BY DEF TypeOK, Place, InProgram, ItemOf, Running
<1>2. p.item \in DOMAIN Program[p.script] /\ p.step \in DOMAIN ItemOf(p)
  BY <1>1 DEF InProgram, Running
<1>3. Now(t) = ItemOf(p)[p.step]
  BY DEF Now, ItemOf
<1> HIDE DEF p
<1> QED
  BY <1>1, <1>2, <1>3, ProgramFacts DEF ItemOf, p

(* A step further in the same item, or at the start of an item, or done.   *)
Onward(p, x) ==
    /\ InProgram(x)
    /\ \/ x.script = NoScript
       \/ x.script = p.script /\ x.step = 1
       \/ /\ x.script = p.script /\ x.item = p.item /\ x.step = p.step + 1
          /\ p.derived \subseteq x.derived

LEMMA IdleFacts == Idle \in Place /\ Idle.script = NoScript /\ Idle.derived = {} /\ InProgram(Idle)
  BY DEF Idle, Place, InProgram

(* Moving within a place changes what it says, and nothing else.           *)
LEMMA ItemAhead ==
    ASSUME NEW p \in Place
    PROVE  LET x == [p EXCEPT !.item = @ + 1, !.step = 1, !.derived = {}]
           IN  /\ x \in Place /\ x.script = p.script /\ x.item = p.item + 1 /\ x.step = 1
<1> DEFINE x == [p EXCEPT !.item = @ + 1, !.step = 1, !.derived = {}]
<1>1. p.item \in Nat \ {0} /\ p.script \in Script \cup {NoScript} /\ p.listed \in SUBSET File
  BY DEF Place
<1>2. p.item + 1 \in Nat \ {0} /\ 1 \in Nat \ {0} /\ {} \in SUBSET File
  BY <1>1
<1>3. DOMAIN p = {"script", "item", "step", "listed", "derived"} /\ p = [f \in DOMAIN p |-> p[f]]
  BY DEF Place
<1>4. DOMAIN x = DOMAIN p /\ x = [f \in DOMAIN x |-> x[f]]
  OBVIOUS
<1>5. x.script = p.script /\ x.listed = p.listed
  BY <1>3
<1>6. x.item = p.item + 1 /\ x.step = 1 /\ x.derived = {}
  BY <1>3
<1> HIDE DEF x
<1>7. x = [script |-> p.script, item |-> p.item + 1, step |-> 1,
           listed |-> p.listed, derived |-> {}]
  BY <1>3, <1>4, <1>5, <1>6
<1> QED
  BY <1>1, <1>2, <1>5, <1>6, <1>7 DEF Place, x

LEMMA MovesOnward ==
    ASSUME TypeOK, NEW t \in Terminal, Running(t)
    PROVE  /\ Onward(proc[t], Idle) /\ Onward(proc[t], NextItem(t)) /\ Onward(proc[t], NextStep(t))
           /\ Onward(proc[t], AfterFailure(t))
           /\ Now(t).orElse # "on" =>
                 AfterFailure(t).script = NoScript \/ AfterFailure(t).step = 1
<1> DEFINE p == proc[t]
           n == Len(Program[p.script])
           m == Len(Program[p.script][p.item])
<1>1. /\ p \in Place /\ p.script \in Script /\ p.script # NoScript
      /\ p.item \in DOMAIN Program[p.script] /\ p.step \in DOMAIN Program[p.script][p.item]
      /\ Now(t) \in OneStep
  BY NowFacts DEF InProgram, ItemOf, Running
<1>2. /\ n \in Nat /\ m \in Nat
      /\ DOMAIN Program[p.script] = 1..n /\ DOMAIN Program[p.script][p.item] = 1..m
      /\ \A i \in 1..n : 1 \in DOMAIN Program[p.script][i]
  BY <1>1, ProgramFacts
<1>3. Onward(p, Idle)
  BY IdleFacts DEF Onward
<1>4. Onward(p, NextItem(t)) /\ (NextItem(t).script = NoScript \/ NextItem(t).step = 1)
  <2>1. CASE p.item = n
    BY <1>3, <2>1, IdleFacts DEF NextItem
  <2>2. CASE p.item # n
    <3> DEFINE x == [p EXCEPT !.item = @ + 1, !.step = 1, !.derived = {}]
    <3>1. NextItem(t) = x
      BY <2>2 DEF NextItem
    <3>2. /\ x \in Place /\ x.script = p.script /\ x.item = p.item + 1 /\ x.step = 1
      BY <1>1, ItemAhead
    <3>3. p.item + 1 \in 1..n
      BY <1>1, <1>2, <2>2
    <3> HIDE DEF x
    <3>4. InProgram(x)
      BY <1>2, <3>2, <3>3 DEF InProgram, ItemOf
    <3> QED
      BY <3>1, <3>2, <3>4 DEF Onward
  <2> QED
    BY <2>1, <2>2
<1>5. Onward(p, NextStep(t))
  <2>1. CASE p.step = m
    BY <1>4, <2>1 DEF NextStep
  <2>2. CASE p.step # m
    <3> DEFINE x == [p EXCEPT !.step = @ + 1]
    <3>1. NextStep(t) = x
      BY <2>2 DEF NextStep
    <3>2. /\ x \in Place /\ x.script = p.script /\ x.item = p.item /\ x.step = p.step + 1
          /\ x.derived = p.derived
      BY <1>1 DEF Place
    <3>3. p.step + 1 \in 1..m
      BY <1>1, <1>2, <2>2
    <3> HIDE DEF x
    <3>4. InProgram(x)
      BY <1>1, <1>2, <3>2, <3>3 DEF InProgram, ItemOf
    <3> QED
      BY <3>1, <3>2, <3>4 DEF Onward
  <2> QED
    BY <2>1, <2>2
<1>6. Now(t).orElse \in {"abort", "next", "on"}
  BY <1>1 DEF OneStep
<1>7. AfterFailure(t) = IF Now(t).orElse = "abort" THEN Idle
                        ELSE IF Now(t).orElse = "next" THEN NextItem(t) ELSE NextStep(t)
  BY <1>6 DEF AfterFailure
<1> HIDE DEF p
<1> QED
  BY <1>3, <1>4, <1>5, <1>6, <1>7, IdleFacts DEF p
(***************************************************************************)
(* What holds of the item a running script is in: of the steps it has been *)
(* through, those whose failure would have ended the item.                 *)
(***************************************************************************)

(* What it made and has a licence for is still its own work.               *)
MadeHere(p, x, m) ==
    Makes(x) /\ x.file \in Licences(p.script)
        => m[x.file] # <<>> /\ Last(m[x.file]) = p.script

(* A work file it removed is still gone, unless it has derived a new one.  *)
GoneHere(p, x, m) ==
    x.do = "remove" /\ x.file \in WorkFiles => x.file \in p.derived \/ m[x.file] = <<>>

(* Its own work file, seen and not touched since, is still there.          *)
SeenHere(p, j, m) ==
    LET x == ItemOf(p)[j] IN
    /\ x.do = "need" /\ x.file \in WorkFiles \cap Writes(p.script)
    /\ \A i \in j..(p.step - 1) : Changes(ItemOf(p)[i]) => ItemOf(p)[i].file # x.file
    => m[x.file] # <<>>

Right(p, m) ==
    p.script # NoScript =>
        \A j \in 1..(p.step - 1) : ItemOf(p)[j].orElse # "on" =>
            MadeHere(p, ItemOf(p)[j], m) /\ GoneHere(p, ItemOf(p)[j], m) /\ SeenHere(p, j, m)

(* A file was made by a script that writes it.                             *)
OwnMakers == \A f \in File : made[f] # <<>> => f \in Writes(Last(made[f]))

(* A licence names a script that writes licences for the file.             *)
LabelOwn == \A f \in File : label[f] # NoScript => f \in Licences(label[f])

(* Scripts that run side by side write different files.                    *)
Apart ==
    \A t, u \in Terminal : t # u /\ Running(t) /\ Running(u) =>
        Writes(proc[t].script) \cap Writes(proc[u].script) = {}

ArtInv ==
    /\ TypeOK
    /\ OwnMakers
    /\ LabelOwn
    /\ Apart
    /\ \A t \in Terminal : Right(proc[t], made)
    /\ LicenceNamesMaker

LEMMA RightFresh ==
    ASSUME NEW p \in Place, NEW m, p.script = NoScript \/ p.step = 1
    PROVE  Right(p, m)
  BY DEF Right

(* The steps before the one it is at.                                      *)
LEMMA BeforeFacts ==
    ASSUME NEW p, InProgram(p), p.script # NoScript, NEW j \in 1..(p.step - 1)
    PROVE  /\ p.script \in Script /\ p.step \in Nat /\ j \in 1..p.step
           /\ j \in DOMAIN ItemOf(p) /\ ItemOf(p)[j] \in Steps(p.script)
<1>1. p \in Place /\ p.script \in Script /\ p.item \in DOMAIN Program[p.script]
      /\ p.step \in DOMAIN ItemOf(p)
  BY DEF InProgram, Place
<1>2. /\ Len(ItemOf(p)) \in Nat /\ DOMAIN ItemOf(p) = 1..Len(ItemOf(p))
      /\ \A k \in DOMAIN ItemOf(p) : ItemOf(p)[k] \in Steps(p.script)
  BY <1>1, ProgramFacts DEF ItemOf
<1>3. p.step \in Nat /\ j \in Nat /\ j \in 1..p.step /\ j \in 1..Len(ItemOf(p))
  BY <1>1, <1>2
<1> QED
  BY <1>1, <1>2, <1>3

(* Another script's steps leave it as it is.                               *)
LEMMA RightOther ==
    ASSUME NEW p, InProgram(p), NEW m, NEW g, Right(p, m),
           p.script # NoScript => \A f \in Writes(p.script) : m[f] = g[f]
    PROVE  Right(p, g)
<1> SUFFICES ASSUME p.script # NoScript, NEW j \in 1..(p.step - 1), ItemOf(p)[j].orElse # "on"
             PROVE  MadeHere(p, ItemOf(p)[j], g) /\ GoneHere(p, ItemOf(p)[j], g) /\ SeenHere(p, j, g)
  BY DEF Right
<1> DEFINE x == ItemOf(p)[j]
<1>1. MadeHere(p, x, m) /\ GoneHere(p, x, m) /\ SeenHere(p, j, m)
  BY DEF Right
<1>2. p.script \in Script /\ x \in Steps(p.script)
  BY BeforeFacts
<1>3. Changes(x) => m[x.file] = g[x.file]
  BY <1>2, WritesFacts
<1>4. MadeHere(p, x, g)
  BY <1>1, <1>3 DEF MadeHere, Makes
<1>5. GoneHere(p, x, g)
  BY <1>1, <1>3 DEF GoneHere, Changes
<1>6. SeenHere(p, j, g)
  BY <1>1 DEF SeenHere
<1> QED
  BY <1>4, <1>5, <1>6

(* One step further in the item.                                           *)
Further(p, q) ==
    /\ q.script = p.script /\ q.item = p.item /\ q.step = p.step + 1
    /\ p.derived \subseteq q.derived

LEMMA FurtherFacts ==
    ASSUME NEW p, NEW q, InProgram(p), InProgram(q), p.script # NoScript, Further(p, q)
    PROVE  /\ ItemOf(q) = ItemOf(p) /\ p.step \in Nat
           /\ 1..(q.step - 1) = 1..p.step
           /\ \A j \in 1..(q.step - 1) : j \in 1..(p.step - 1) \/ j = p.step
           /\ \A j \in 1..(p.step - 1) : j..(p.step - 1) \subseteq j..(q.step - 1)
                                         /\ p.step \in j..(q.step - 1)
<1>1. p.step \in Nat /\ q.step = p.step + 1
  BY DEF InProgram, Place, Further
<1>2. ItemOf(q) = ItemOf(p)
  BY DEF ItemOf, Further
<1> QED
  BY <1>1, <1>2

(* A step that changes no file: one that looks, or labels, or fails.       *)
LEMMA RightOn ==
    ASSUME NEW p, NEW q, InProgram(p), p.script # NoScript, Onward(p, q), NEW m, Right(p, m),
           q.script = NoScript \/ q.step = 1
           \/ ItemOf(p)[p.step].orElse = "on"
           \/ (~Changes(ItemOf(p)[p.step]) /\ (ItemOf(p)[p.step].do = "need" => m[ItemOf(p)[p.step].file] # <<>>))
    PROVE  Right(q, m)
<1>1. CASE q.script = NoScript \/ q.step = 1
  BY <1>1, RightFresh DEF Onward, InProgram
<1>2. CASE ~(q.script = NoScript \/ q.step = 1)
  <2>1. Further(p, q) /\ InProgram(q)
    BY <1>2 DEF Onward, Further
  <2> SUFFICES ASSUME NEW j \in 1..(q.step - 1), ItemOf(q)[j].orElse # "on"
               PROVE  MadeHere(q, ItemOf(q)[j], m) /\ GoneHere(q, ItemOf(q)[j], m) /\ SeenHere(q, j, m)
    BY DEF Right
  <2> DEFINE x == ItemOf(p)[j]
  <2>2. ItemOf(q) = ItemOf(p) /\ (j \in 1..(p.step - 1) \/ j = p.step)
    BY <2>1, FurtherFacts
  <2>3. CASE j \in 1..(p.step - 1)
    <3>1. MadeHere(p, x, m) /\ GoneHere(p, x, m) /\ SeenHere(p, j, m)
      BY <2>2, <2>3 DEF Right
    <3>2. j..(p.step - 1) \subseteq j..(q.step - 1)
      BY <2>1, <2>3, FurtherFacts
    <3>3. MadeHere(q, x, m) /\ GoneHere(q, x, m)
      BY <2>1, <3>1 DEF MadeHere, GoneHere, Further
    <3>4. SeenHere(q, j, m)
      BY <2>1, <2>2, <3>1, <3>2 DEF SeenHere, Further
    <3> QED
      BY <2>2, <3>3, <3>4
  <2>4. CASE j = p.step
    <3>1. ~Changes(x) /\ (x.do = "need" => m[x.file] # <<>>)
      BY <1>2, <2>2, <2>4
    <3>2. MadeHere(q, x, m) /\ GoneHere(q, x, m)
      BY <3>1 DEF MadeHere, GoneHere, Makes, Changes
    <3>3. SeenHere(q, j, m)
      BY <2>2, <3>1 DEF SeenHere
    <3> QED
      BY <2>2, <3>2, <3>3
  <2> QED
    BY <2>2, <2>3, <2>4
<1> QED
  BY <1>1, <1>2

(* A step that changes a file.                                             *)
LEMMA RightChange ==
    ASSUME NEW p, NEW q, InProgram(p), p.script # NoScript, Onward(p, q), NEW m, NEW g, Right(p, m),
           NEW f, Changes(ItemOf(p)[p.step]), ItemOf(p)[p.step].file = f,
           \A e \in File \ {f} : g[e] = m[e],
           f \in Licences(p.script) => g[f] # <<>> /\ Last(g[f]) = p.script,
           f \in WorkFiles => g[f] = <<>> \/ q.script = NoScript \/ q.step = 1 \/ f \in q.derived
    PROVE  Right(q, g)
<1>1. CASE q.script = NoScript \/ q.step = 1
  BY <1>1, RightFresh DEF Onward, InProgram
<1>2. CASE ~(q.script = NoScript \/ q.step = 1)
  <2>1. Further(p, q) /\ InProgram(q)
    BY <1>2 DEF Onward, Further
  <2> SUFFICES ASSUME NEW j \in 1..(q.step - 1), ItemOf(q)[j].orElse # "on"
               PROVE  MadeHere(q, ItemOf(q)[j], g) /\ GoneHere(q, ItemOf(q)[j], g) /\ SeenHere(q, j, g)
    BY DEF Right
  <2> DEFINE x == ItemOf(p)[j]
  <2>2. ItemOf(q) = ItemOf(p) /\ (j \in 1..(p.step - 1) \/ j = p.step) /\ p.step \in Nat
    BY <2>1, FurtherFacts
  <2>3. p.script \in Script /\ x \in Steps(p.script) /\ q.script = p.script /\ p.derived \subseteq q.derived
    BY <2>1, <2>2, BeforeFacts DEF Further
  <2>4. Changes(x) => x.file \in File
    BY <2>3, WritesFacts
  <2>5. j = p.step => x.file = f /\ Changes(x)
    OBVIOUS
  <2>6. j \in 1..(p.step - 1) => MadeHere(p, x, m) /\ GoneHere(p, x, m) /\ SeenHere(p, j, m)
    BY <2>2 DEF Right
  <2>7. MadeHere(q, x, g)
    <3>1. CASE x.file = f
      BY <2>3, <3>1 DEF MadeHere
    <3>2. CASE x.file # f
      BY <2>2, <2>3, <2>4, <2>5, <2>6, <3>2 DEF MadeHere, Makes
    <3> QED
      BY <3>1, <3>2
  <2>8. GoneHere(q, x, g)
    <3>1. CASE x.file = f
      BY <1>2, <3>1 DEF GoneHere
    <3>2. CASE x.file # f
      BY <2>2, <2>3, <2>4, <2>5, <2>6, <3>2 DEF GoneHere, Changes
    <3> QED
      BY <3>1, <3>2
  <2>9. SeenHere(q, j, g)
    <3> SUFFICES ASSUME x.do = "need", x.file \in WorkFiles \cap Writes(p.script),
                        \A i \in j..(q.step - 1) : Changes(ItemOf(p)[i]) => ItemOf(p)[i].file # x.file
                 PROVE  g[x.file] # <<>>
      BY <2>2, <2>3 DEF SeenHere
    <3>1. j \in 1..(p.step - 1)
      BY <2>2, <2>5 DEF Changes
    <3>2. j..(p.step - 1) \subseteq j..(q.step - 1) /\ p.step \in j..(q.step - 1)
      BY <2>1, <3>1, FurtherFacts
    <3>3. x.file # f
      BY <3>2
    <3>4. m[x.file] # <<>>
      BY <2>6, <3>1, <3>2 DEF SeenHere
    <3>5. x.file \in File
      BY <2>3 DEF Writes, File
    <3> QED
      BY <3>3, <3>4, <3>5
  <2> QED
    BY <2>2, <2>7, <2>8, <2>9
<1> QED
  BY <1>1, <1>2

(***************************************************************************)
(* What a step does to the running scripts and to the files.               *)
(***************************************************************************)
LEMMA TypeIs ==
    TypeOK <=> /\ setting \in Settings
               /\ made \in [File -> Seq(Script)]
               /\ label \in [File -> Script \cup {NoScript}]
               /\ proc \in [Terminal -> Place] /\ \A t \in Terminal : InProgram(proc[t])
               /\ runs \in 0..setting.runs
               /\ pending \subseteq File
  BY ProcIs DEF TypeOK, Place

LEMMA TypeIsNext ==
    TypeOK' <=> /\ setting' \in Settings
                /\ made' \in [File -> Seq(Script)]
                /\ label' \in [File -> Script \cup {NoScript}]
                /\ proc' \in [Terminal -> Place] /\ \A t \in Terminal : InProgram(proc'[t])
                /\ runs' \in 0..setting'.runs
                /\ pending' \subseteq File
  BY ProcIs DEF TypeOK, Place

(* The step moves one terminal's script, to x.                             *)
Moves(t, x) == proc' = [proc EXCEPT ![t] = x]

LEMMA MoveFacts ==
    ASSUME TypeOK, NEW t \in Terminal, NEW x, InProgram(x), Moves(t, x)
    PROVE  /\ proc' \in [Terminal -> Place] /\ \A u \in Terminal : InProgram(proc'[u])
           /\ proc'[t] = x /\ \A u \in Terminal : u # t => proc'[u] = proc[u]
<1>1. proc \in [Terminal -> Place] /\ \A u \in Terminal : InProgram(proc[u])
  BY TypeIs
<1>2. x \in Place
  BY DEF InProgram
<1>3. proc'[t] = x /\ \A u \in Terminal : u # t => proc'[u] = proc[u]
  BY <1>1 DEF Moves
<1>4. proc' \in [Terminal -> Place]
  BY <1>1, <1>2 DEF Moves
<1> QED
  BY <1>1, <1>3, <1>4

(* No two scripts come to write the same file by one of them going on.     *)
LEMMA ApartOn ==
    ASSUME TypeOK, Apart, NEW t \in Terminal, Running(t), NEW x, Onward(proc[t], x), Moves(t, x)
    PROVE  Apart'
<1>1. InProgram(x) /\ (x.script = NoScript \/ x.script = proc[t].script)
  BY DEF Onward
<1>2. proc'[t] = x /\ \A u \in Terminal : u # t => proc'[u] = proc[u]
  BY <1>1, MoveFacts
<1>3. \A u \in Terminal : proc'[u].script = NoScript \/ proc'[u].script = proc[u].script
  BY <1>1, <1>2
<1> SUFFICES ASSUME NEW u \in Terminal, NEW v \in Terminal, u # v,
                    proc'[u].script # NoScript, proc'[v].script # NoScript
             PROVE  Writes(proc'[u].script) \cap Writes(proc'[v].script) = {}
  BY DEF Apart, Running
<1>4. proc'[u].script = proc[u].script /\ proc'[v].script = proc[v].script
  BY <1>3
<1> QED
  BY <1>4 DEF Apart, Running

(* A step of one script, seen from the others.                             *)
LEMMA RightBeside ==
    ASSUME TypeOK, Apart, \A u \in Terminal : Right(proc[u], made),
           NEW t \in Terminal, Running(t), NEW x, Onward(proc[t], x), Moves(t, x),
           \A f \in File \ Writes(proc[t].script) : made'[f] = made[f]
    PROVE  \A u \in Terminal : u # t => Right(proc'[u], made')
<1> SUFFICES ASSUME NEW u \in Terminal, u # t
             PROVE  Right(proc'[u], made')
  OBVIOUS
<1>1. proc'[u] = proc[u] /\ InProgram(proc[u])
  BY MoveFacts, TypeIs DEF Onward
<1>2. ASSUME proc[u].script # NoScript, NEW f \in Writes(proc[u].script)
      PROVE  made[f] = made'[f]
  <2>1. f \notin Writes(proc[t].script)
    BY <1>2 DEF Apart, Running
  <2>2. proc[u].script \in Script
    BY <1>1, <1>2 DEF InProgram, Place
  <2>3. f \in File
    BY <1>2, <2>2 DEF Writes, File
  <2> QED
    BY <2>1, <2>3
<1> QED
  BY <1>1, <1>2, RightOther

(* A step that changes no file keeps what is known of the scripts.         *)
LEMMA QuietStep ==
    ASSUME TypeOK, Apart, \A u \in Terminal : Right(proc[u], made),
           NEW t \in Terminal, Running(t), NEW x, Onward(proc[t], x), Moves(t, x),
           made' = made,
           x.script = NoScript \/ x.step = 1 \/ Now(t).orElse = "on"
           \/ (~Changes(Now(t)) /\ (Now(t).do = "need" => Exists(Now(t).file)))
    PROVE  Apart' /\ \A u \in Terminal : Right(proc'[u], made')
<1>1. Apart' /\ \A u \in Terminal : u # t => Right(proc'[u], made')
  BY ApartOn, RightBeside
<1>2. proc'[t] = x
  BY MoveFacts DEF Onward
<1>3. InProgram(proc[t]) /\ Now(t) = ItemOf(proc[t])[proc[t].step] /\ proc[t].script # NoScript
  BY NowFacts DEF Running
<1>4. Right(x, made)
  BY <1>3, RightOn DEF Exists
<1> QED
  BY <1>1, <1>2, <1>4

(***************************************************************************)
(* The actions.                                                            *)
(***************************************************************************)

(* With the files and the licences as they are, only the scripts count.    *)
LEMMA SameFiles ==
    ASSUME ArtInv, UNCHANGED <<made, label, pending>>
    PROVE  OwnMakers' /\ LabelOwn' /\ LicenceNamesMaker'
  BY DEF ArtInv, OwnMakers, LabelOwn, LicenceNamesMaker, Exists

Same ==
    setting' = setting /\ made' = made /\ label' = label /\ pending' = pending /\ runs' = runs

SameFor(t, x) ==
    /\ Same
    /\ x.script = NoScript \/ x.step = 1 \/ Now(t).orElse = "on"
       \/ (~Changes(Now(t)) /\ (Now(t).do = "need" => Exists(Now(t).file)))

LEMMA QuietFacts ==
    ASSUME ArtInv, NEW t \in Terminal, Running(t), NEW x, Onward(proc[t], x), Moves(t, x),
           SameFor(t, x)
    PROVE  ArtInv'
<1>1. TypeOK /\ Apart /\ \A u \in Terminal : Right(proc[u], made)
  BY DEF ArtInv
<1>2. Apart' /\ \A u \in Terminal : Right(proc'[u], made')
  BY <1>1, QuietStep DEF SameFor, Same
<1>3. OwnMakers' /\ LabelOwn' /\ LicenceNamesMaker'
  BY SameFiles DEF SameFor, Same
<1>4. TypeOK'
  BY <1>1, MoveFacts, TypeIs, TypeIsNext DEF Onward, SameFor, Same
<1> QED
  BY <1>2, <1>3, <1>4 DEF ArtInv

LEMMA StartKeeps ==
    ASSUME ArtInv, NEW t \in Terminal, NEW s \in Script, Start(t, s), setting' = setting
    PROVE  ArtInv'
<1> DEFINE there == {f \in File : Exists(f)}
           x == [Idle EXCEPT !.script = s, !.listed = there]
<1>0. TypeOK /\ Apart /\ \A u \in Terminal : Right(proc[u], made)
  BY DEF ArtInv
<1>1. x = [script |-> s, item |-> 1, step |-> 1, listed |-> there, derived |-> {}] /\ there \subseteq File
  <2>1. there \subseteq File
    OBVIOUS
  <2>2. DOMAIN Idle = {"script", "item", "step", "listed", "derived"}
        /\ Idle.item = 1 /\ Idle.step = 1 /\ Idle.derived = {}
    BY DEF Idle
  <2>3. DOMAIN x = DOMAIN Idle /\ x = [f \in DOMAIN x |-> x[f]]
    OBVIOUS
  <2> HIDE DEF there
  <2>4. x.script = s /\ x.listed = there /\ x.item = 1 /\ x.step = 1 /\ x.derived = {}
    BY <2>2
  <2> HIDE DEF x
  <2> QED
    BY <2>1, <2>2, <2>3, <2>4
<1>2. s # NoScript
  BY ProgramAssumption
<1>3. 1 \in DOMAIN Program[s] /\ 1 \in DOMAIN Program[s][1]
  BY ProgramFacts
<1>4. x.script = s /\ x.step = 1 /\ InProgram(x)
  <2> HIDE DEF there, x
  <2>1. x.script = s /\ x.step = 1 /\ x.item = 1 /\ x \in Place
    BY <1>1 DEF Place
  <2> QED
    BY <1>3, <2>1 DEF InProgram, ItemOf
<1>5. Moves(t, x)
  BY DEF Start, Moves
<1> HIDE DEF x
<1>6. /\ proc' \in [Terminal -> Place] /\ \A u \in Terminal : InProgram(proc'[u])
      /\ proc'[t] = x /\ \A u \in Terminal : u # t => proc'[u] = proc[u]
  BY <1>0, <1>4, <1>5, MoveFacts
<1>7. UNCHANGED <<made, label, pending>> /\ runs' = runs + 1 /\ runs < setting.runs
  BY DEF Start
<1>8. OwnMakers' /\ LabelOwn' /\ LicenceNamesMaker'
  BY <1>7, SameFiles
<1>9. Apart'
  <2> SUFFICES ASSUME NEW u \in Terminal, NEW v \in Terminal, u # v,
                      proc'[u].script # NoScript, proc'[v].script # NoScript
               PROVE  Writes(proc'[u].script) \cap Writes(proc'[v].script) = {}
    BY DEF Apart, Running
  <2>1. \A w \in Terminal \ {t} : proc[w].script # NoScript => Writes(proc[w].script) \cap Writes(s) = {}
    BY DEF Start, Running
  <2>2. CASE u = t
    BY <1>4, <1>6, <2>1, <2>2
  <2>3. CASE v = t
    BY <1>4, <1>6, <2>1, <2>3
  <2>4. CASE u # t /\ v # t
    BY <1>0, <1>6, <2>4 DEF Apart, Running
  <2> QED
    BY <2>2, <2>3, <2>4
<1>10. \A u \in Terminal : Right(proc'[u], made')
  <2>1. Right(x, made)
    BY <1>4, RightFresh DEF InProgram
  <2> QED
    BY <1>0, <1>6, <1>7, <2>1
<1>11. TypeOK'
  <2>1. setting.runs \in Nat
    BY <1>0, SettingsAssumption, TypeIs
  <2>2. runs' \in 0..setting.runs
    BY <1>0, <1>7, <2>1, TypeIs
  <2> QED
    BY <1>0, <1>6, <1>7, <2>2, TypeIs, TypeIsNext
<1> QED
  BY <1>8, <1>9, <1>10, <1>11 DEF ArtInv

LEMMA LookKeeps ==
    ASSUME ArtInv, NEW t \in Terminal, Look(t), setting' = setting
    PROVE  ArtInv'
<1>1. TypeOK /\ Running(t) /\ Moves(t, NextStep(t)) /\ Same
  BY DEF ArtInv, Look, Moves, Same
<1>2. Onward(proc[t], NextStep(t))
  BY <1>1, MovesOnward
<1>3. ~Changes(Now(t)) /\ (Now(t).do = "need" => Exists(Now(t).file))
  BY DEF Look, Changes
<1>4. SameFor(t, NextStep(t))
  BY <1>1, <1>2, <1>3 DEF SameFor
<1> QED
  BY <1>1, <1>2, <1>4, QuietFacts

LEMMA FailKeeps ==
    ASSUME ArtInv, NEW t \in Terminal, Fail(t), setting' = setting
    PROVE  ArtInv'
<1>1. TypeOK /\ Running(t) /\ Moves(t, AfterFailure(t)) /\ Same
  BY DEF ArtInv, Fail, Moves, Same
<1>2. /\ Onward(proc[t], AfterFailure(t))
      /\ AfterFailure(t).script = NoScript \/ AfterFailure(t).step = 1 \/ Now(t).orElse = "on"
  BY <1>1, MovesOnward
<1>3. SameFor(t, AfterFailure(t))
  BY <1>1, <1>2 DEF SameFor
<1> QED
  BY <1>1, <1>2, <1>3, QuietFacts

LEMMA StopKeeps ==
    ASSUME ArtInv, NEW t \in Terminal, Stop(t), setting' = setting
    PROVE  ArtInv'
<1>1. TypeOK /\ Running(t) /\ Moves(t, Idle) /\ Same
  BY DEF ArtInv, Stop, Moves, Same
<1>2. Onward(proc[t], Idle) /\ Idle.script = NoScript
  BY <1>1, MovesOnward, IdleFacts
<1>3. SameFor(t, Idle)
  BY <1>1, <1>2 DEF SameFor
<1> QED
  BY <1>1, <1>2, <1>3, QuietFacts

(* The new content of the file a step changes.                             *)
LEMMA LastFacts ==
    /\ \A s \in Script : <<s>> \in Seq(Script) /\ <<s>> # <<>> /\ Last(<<s>>) = s
    /\ \A m \in Seq(Script) : \A s \in Script :
          Append(m, s) \in Seq(Script) /\ Append(m, s) # <<>> /\ Last(Append(m, s)) = s
<1>1. ASSUME NEW s \in Script
      PROVE  <<s>> \in Seq(Script) /\ <<s>> # <<>> /\ Last(<<s>>) = s
  BY DEF Last
<1>2. ASSUME NEW m \in Seq(Script), NEW s \in Script
      PROVE  Append(m, s) \in Seq(Script) /\ Append(m, s) # <<>> /\ Last(Append(m, s)) = s
  <2>1. /\ Append(m, s) \in Seq(Script) /\ Append(m, s) # <<>>
        /\ Len(Append(m, s)) = Len(m) + 1 /\ Append(m, s)[Len(m) + 1] = s
    BY AppendProperties
  <2> QED
    BY <2>1 DEF Last
<1> QED
  BY <1>1, <1>2

(* What is copied is the script's own work.                                *)
LEMMA CopiesOwn ==
    ASSUME TypeOK, OwnMakers, NEW s \in Script, NEW x \in Steps(s), x.do = "copy", Exists(x.of)
    PROVE  Last(made[x.of]) = s
<1>1. \A v \in Script : \A y \in Steps(v) : Changes(y) /\ y.file = x.of => v = s
  BY CopyAssumption
<1>2. x.of \in File
  BY WritesFacts
<1>3. x.of \in Writes(Last(made[x.of]))
  BY <1>2 DEF OwnMakers, Exists
<1>4. made[x.of] \in Seq(Script) /\ made[x.of] # <<>>
  BY <1>2, TypeIs DEF Exists
<1>5. Last(made[x.of]) \in Script
  <2>1. Len(made[x.of]) \in 1..Len(made[x.of])
    BY <1>4, EmptySeq, LenProperties
  <2> QED
    BY <1>4, <2>1, ElementOfSeq DEF Last
<1> QED
  BY <1>1, <1>3, <1>5 DEF Writes

(* One file changes, and how.                                              *)
LEMMA NewContent ==
    ASSUME TypeOK, OwnMakers, NEW t \in Terminal, Change(t)
    PROVE  LET s == proc[t].script
               f == Now(t).file
           IN  /\ f \in File /\ f \in Writes(s)
               /\ made' \in [File -> Seq(Script)]
               /\ \A e \in File \ {f} : made'[e] = made[e]
               /\ f \in Licences(s) => made'[f] # <<>>
               /\ f \in WorkFiles => made'[f] = <<>> \/ Now(t).do = "derive"
               /\ made'[f] # <<>> => Last(made'[f]) = s
<1> DEFINE s == proc[t].script
           x == Now(t)
           f == x.file
           c == CASE x.do = "save" -> <<s>>
                  [] x.do = "copy" -> made[x.of]
                  [] x.do = "derive" -> Append(made[x.of], s)
                  [] x.do = "remove" -> <<>>
<1>1. s \in Script /\ x \in Steps(s) /\ Changes(x) /\ Running(t)
  BY NowFacts DEF Change
<1>2. f \in File /\ f \in Writes(s) /\ (x.do \in {"copy", "derive"} => x.of \in File)
  BY <1>1, WritesFacts
<1>3. made' = [made EXCEPT ![f] = c] /\ (x.do \in {"copy", "derive"} => Exists(x.of))
  BY DEF Change
<1>4. made \in [File -> Seq(Script)] /\ <<>> \in Seq(Script)
  BY TypeIs
<1>5. x.do \in {"save", "copy", "derive", "remove"}
  BY <1>1 DEF Changes
<1>6. f \in Licences(s) => x.do # "remove"
  <2>1. proc[t].item \in DOMAIN Program[s] /\ proc[t].step \in DOMAIN Program[s][proc[t].item]
    BY <1>1, TypeIs DEF InProgram, ItemOf, Running
  <2>2. x = Program[s][proc[t].item][proc[t].step]
    BY DEF Now
  <2> HIDE DEF x, s
  <2> QED
    BY <1>1, <2>1, <2>2, LicenceOf DEF f
<1>7. f \in WorkFiles => x.do \in {"remove", "derive"}
  BY <1>1, WorkAssumption
<1>8. x.do = "copy" => Last(made[x.of]) = s
  BY <1>1, <1>3, CopiesOwn
<1>9. /\ x.do = "save" => c = <<s>>
      /\ x.do = "copy" => c = made[x.of]
      /\ x.do = "derive" => c = Append(made[x.of], s)
      /\ x.do = "remove" => c = <<>>
  BY <1>5
<1> HIDE DEF c, f, x, s
<1>10. /\ c \in Seq(Script)
       /\ x.do \in {"save", "derive"} => c # <<>> /\ Last(c) = s
  BY <1>1, <1>2, <1>4, <1>5, <1>9, LastFacts
<1>11. made' \in [File -> Seq(Script)] /\ made'[f] = c /\ \A e \in File \ {f} : made'[e] = made[e]
  BY <1>2, <1>3, <1>4, <1>10
<1>12. x.do = "copy" => c # <<>>
  BY <1>3, <1>9 DEF Exists
<1>13. c # <<>> => Last(c) = s
  BY <1>5, <1>8, <1>9, <1>10
<1>14. f \in Licences(s) => c # <<>>
  BY <1>5, <1>6, <1>10, <1>12
<1>15. f \in WorkFiles => c = <<>> \/ x.do = "derive"
  BY <1>7, <1>9
<1> QED
  BY <1>2, <1>11, <1>13, <1>14, <1>15 DEF f, x, s

(* A licence is written for the file the item has just made.               *)
LEMMA LabelsOwnWork ==
    ASSUME TypeOK, NEW t \in Terminal, Running(t), Right(proc[t], made), Labels(Now(t))
    PROVE  made[Now(t).file] # <<>> /\ Last(made[Now(t).file]) = proc[t].script
<1> DEFINE p == proc[t]
           item == ItemOf(p)
<1>1. /\ item \in Item /\ p.step \in DOMAIN item /\ DOMAIN item = 1..Len(item) /\ Len(item) \in Nat
      /\ Now(t) = item[p.step]
      /\ Now(t) \in Steps(p.script) /\ p.script \in Script /\ p.script # NoScript
  BY NowFacts DEF Running
<1> HIDE DEF item
<1>2. PICK j \in 1..(p.step - 1) :
          Makes(item[j]) /\ item[j].file = item[p.step].file /\ item[j].orElse # "on"
  BY <1>1, LicenceAssumption
<1>3. MadeHere(p, item[j], made)
  BY <1>1, <1>2 DEF Right, item
<1>4. item[j].file = Now(t).file /\ Now(t).file \in Licences(p.script)
  BY <1>1, <1>2, WritesFacts
<1> QED
  BY <1>2, <1>3, <1>4 DEF MadeHere

(* Where a script is after it has changed a file.                          *)
LEMMA ChangeMoves ==
    ASSUME TypeOK, NEW t \in Terminal, Change(t)
    PROVE  \E x : /\ Onward(proc[t], x) /\ Moves(t, x)
                  /\ Now(t).do = "derive" =>
                        x.script = NoScript \/ x.step = 1 \/ Now(t).file \in x.derived
<1> DEFINE p == proc[t]
           f == Now(t).file
           y == NextStep(t)
           z == [y EXCEPT !.derived = @ \cup {f}]
           b == Now(t).do = "derive" /\ NextStep(t).item = proc[t].item
<1>1. Running(t) /\ Moves(t, IF b THEN z ELSE y)
  BY DEF Change, Moves
<1>2. Onward(p, y) /\ InProgram(y) /\ y \in Place
  BY <1>1, MovesOnward DEF Onward, InProgram
<1>3. f \in File
  BY <1>1, NowFacts, WritesFacts DEF Change
<1> HIDE DEF y, f
<1>4. /\ z \in Place /\ z.script = y.script /\ z.item = y.item /\ z.step = y.step
      /\ z.derived = y.derived \cup {f}
  BY <1>2, <1>3 DEF Place
<1> HIDE DEF z
<1>5. Onward(p, z) /\ f \in z.derived
  <2>1. InProgram(z)
    BY <1>2, <1>4 DEF InProgram, ItemOf
  <2> QED
    BY <1>2, <1>4, <2>1 DEF Onward
<1>6. CASE b
  BY <1>1, <1>5, <1>6 DEF f
<1>7. CASE ~b
  <2>1. Now(t).do = "derive" => y.script = NoScript \/ y.step = 1
    BY <1>2, <1>7 DEF Onward, y
  <2> QED
    BY <1>1, <1>2, <1>7, <2>1
<1> QED
  BY <1>6, <1>7

LEMMA ChangeKeeps ==
    ASSUME ArtInv, NEW t \in Terminal, Change(t), setting' = setting
    PROVE  ArtInv'
<1> DEFINE p == proc[t]
           s == p.script
           f == Now(t).file
<1>0. TypeOK /\ OwnMakers /\ LabelOwn /\ Apart /\ (\A u \in Terminal : Right(proc[u], made))
      /\ LicenceNamesMaker
  BY DEF ArtInv
<1>1. Running(t) /\ Changes(Now(t)) /\ label' = label /\ runs' = runs
  BY DEF Change
<1>2. /\ f \in File /\ f \in Writes(s)
      /\ made' \in [File -> Seq(Script)]
      /\ \A e \in File \ {f} : made'[e] = made[e]
      /\ f \in Licences(s) => made'[f] # <<>>
      /\ f \in WorkFiles => made'[f] = <<>> \/ Now(t).do = "derive"
      /\ made'[f] # <<>> => Last(made'[f]) = s
  BY <1>0, NewContent
<1>3. PICK x : /\ Onward(p, x) /\ Moves(t, x)
               /\ Now(t).do = "derive" => x.script = NoScript \/ x.step = 1 \/ f \in x.derived
  BY <1>0, ChangeMoves
<1>4. InProgram(x)
  BY <1>3 DEF Onward
<1>5. /\ proc' \in [Terminal -> Place] /\ \A u \in Terminal : InProgram(proc'[u])
      /\ proc'[t] = x /\ \A u \in Terminal : u # t => proc'[u] = proc[u]
  BY <1>0, <1>3, <1>4, MoveFacts
<1>6. InProgram(p) /\ s \in Script /\ s # NoScript /\ Now(t) = ItemOf(p)[p.step]
  BY <1>0, <1>1, NowFacts DEF Running
<1>7. Apart'
  BY <1>0, <1>1, <1>3, ApartOn
<1>8. \A u \in Terminal : u # t => Right(proc'[u], made')
  <2>1. \A e \in File \ Writes(p.script) : made'[e] = made[e]
    BY <1>2
  <2> QED
    BY <1>0, <1>1, <1>3, <2>1, RightBeside
<1>9. Right(proc'[t], made')
  <2>1. Right(p, made) /\ Changes(ItemOf(p)[p.step]) /\ ItemOf(p)[p.step].file = f
    BY <1>0, <1>1, <1>6
  <2>2. f \in WorkFiles => made'[f] = <<>> \/ x.script = NoScript \/ x.step = 1 \/ f \in x.derived
    BY <1>2, <1>3
  <2>3. f \in Licences(p.script) => made'[f] # <<>> /\ Last(made'[f]) = p.script
    BY <1>2
  <2>4. InProgram(p) /\ p.script # NoScript /\ Onward(p, x)
    BY <1>3, <1>6
  <2>5. \A e \in File \ {f} : made'[e] = made[e]
    BY <1>2
  <2> HIDE DEF f, p
  <2>6. Right(x, made')
    BY <2>1, <2>2, <2>3, <2>4, <2>5, RightChange
  <2> QED
    BY <1>5, <2>6
<1>10. OwnMakers'
  <2> SUFFICES ASSUME NEW e \in File, made'[e] # <<>>
               PROVE  e \in Writes(Last(made'[e]))
    BY DEF OwnMakers
  <2>1. CASE e = f
    BY <1>2, <2>1
  <2>2. CASE e # f
    BY <1>0, <1>2, <2>2 DEF OwnMakers
  <2> QED
    BY <2>1, <2>2
<1>11. LabelOwn'
  BY <1>0, <1>1 DEF LabelOwn
<1>12. /\ pending' \subseteq File /\ pending \subseteq pending' \cup {f}
       /\ f \in Licences(s) => f \in pending'
  <2> DEFINE licence == Labelled(s, p.item, f)
  <2>1. pending' = IF licence THEN pending \cup {f} ELSE pending \ {f}
    BY DEF Change, Labelled
  <2>2. p.item \in DOMAIN Program[s] /\ p.step \in DOMAIN Program[s][p.item]
        /\ Program[s][p.item][p.step] = Now(t)
    BY <1>6 DEF InProgram, ItemOf
  <2>3. pending \subseteq File
    BY <1>0, TypeIs
  <2>4. /\ s \in Script /\ Changes(Program[s][p.item][p.step])
        /\ Program[s][p.item][p.step].file = f
    BY <1>1, <1>6, <2>2
  <2> HIDE DEF licence, f, s, p
  <2>5. f \in Licences(s) => licence
    BY <2>2, <2>4, LicenceOf DEF licence
  <2> QED
    BY <1>2, <2>1, <2>3, <2>5
<1>13. LicenceNamesMaker'
  <2> SUFFICES ASSUME NEW e \in File, made'[e] # <<>>, label'[e] # NoScript, e \notin pending'
               PROVE  label'[e] = Last(made'[e]) \/ e \notin Licences(Last(made'[e]))
    BY DEF LicenceNamesMaker, Exists
  <2>1. CASE e = f
    <3>1. f \notin Licences(s)
      BY <1>12, <2>1
    <3> QED
      BY <1>2, <2>1, <3>1
  <2>2. CASE e # f
    BY <1>0, <1>1, <1>2, <1>12, <2>2 DEF LicenceNamesMaker, Exists
  <2> QED
    BY <2>1, <2>2
<1>14. TypeOK'
  BY <1>0, <1>1, <1>2, <1>5, <1>12, TypeIs, TypeIsNext
<1> QED
  BY <1>5, <1>7, <1>8, <1>9, <1>10, <1>11, <1>13, <1>14 DEF ArtInv

LEMMA WriteLicenceKeeps ==
    ASSUME ArtInv, NEW t \in Terminal, WriteLicence(t), setting' = setting
    PROVE  ArtInv'
<1> DEFINE s == proc[t].script
           f == Now(t).file
           n == IF Now(t).do = "labelOnce" /\ label[f] # NoScript THEN label[f] ELSE s
<1>0. TypeOK /\ OwnMakers /\ LabelOwn /\ Apart /\ (\A u \in Terminal : Right(proc[u], made))
      /\ LicenceNamesMaker
  BY DEF ArtInv
<1>1. /\ Running(t) /\ Labels(Now(t)) /\ made' = made /\ runs' = runs
      /\ label' = [label EXCEPT ![f] = n] /\ pending' = pending \ {f}
      /\ Moves(t, NextStep(t))
  BY DEF WriteLicence, Moves
<1>2. s \in Script /\ Now(t) \in Steps(s)
  BY <1>0, <1>1, NowFacts
<1>3. f \in File /\ f \in Licences(s)
  BY <1>1, <1>2, WritesFacts
<1>4. made[f] # <<>> /\ Last(made[f]) = s
  BY <1>0, <1>1, LabelsOwnWork
<1>5. label \in [File -> Script \cup {NoScript}]
  BY <1>0, TypeIs
<1>6. n = s
  <2>1. CASE Now(t).do = "labelOnce" /\ label[f] # NoScript
    <3>1. label[f] \in Script /\ f \in Licences(label[f])
      BY <1>0, <1>3, <1>5, <2>1 DEF LabelOwn
    <3> QED
      BY <1>2, <2>1, <3>1, LicenceAssumption
  <2> QED
    BY <2>1
<1> HIDE DEF n
<1>7. label' \in [File -> Script \cup {NoScript}] /\ label'[f] = s
      /\ \A e \in File \ {f} : label'[e] = label[e]
  BY <1>1, <1>2, <1>3, <1>5, <1>6
<1>8. Onward(proc[t], NextStep(t))
  BY <1>0, <1>1, MovesOnward
<1>9. ~Changes(Now(t)) /\ Now(t).do # "need"
  BY <1>1 DEF Changes, Labels
<1>10. Apart' /\ \A u \in Terminal : Right(proc'[u], made')
  BY <1>0, <1>1, <1>8, <1>9, QuietStep
<1>11. OwnMakers'
  BY <1>0, <1>1 DEF OwnMakers
<1>12. LabelOwn'
  BY <1>0, <1>3, <1>7 DEF LabelOwn
<1>13. LicenceNamesMaker'
  BY <1>0, <1>1, <1>4, <1>7 DEF LicenceNamesMaker, Exists
<1>14. TypeOK'
  <2>1. pending' \subseteq File
    BY <1>0, <1>1, TypeIs
  <2>2. proc' \in [Terminal -> Place] /\ \A u \in Terminal : InProgram(proc'[u])
    BY <1>0, <1>1, <1>8, MoveFacts DEF Onward
  <2> QED
    BY <1>0, <1>1, <1>7, <2>1, <2>2, TypeIs, TypeIsNext
<1> QED
  BY <1>10, <1>11, <1>12, <1>13, <1>14 DEF ArtInv

(***************************************************************************)
(* The theorems.                                                           *)
(***************************************************************************)
LEMMA InitArt == Init => ArtInv
<1> SUFFICES ASSUME Init
             PROVE  ArtInv
  OBVIOUS
<1>1. \A t \in Terminal : proc[t] = Idle
  BY DEF Init
<1>2. TypeOK
  <2>1. setting.runs \in Nat /\ runs \in 0..setting.runs
    BY SettingsAssumption DEF Init
  <2>2. <<>> \in Seq(Script)
    BY EmptySeq
  <2> QED
    BY <1>1, <2>1, <2>2, IdleFacts, TypeIs DEF Init
<1>3. OwnMakers /\ LabelOwn /\ LicenceNamesMaker
  BY DEF Init, OwnMakers, LabelOwn, LicenceNamesMaker, Exists
<1>4. Apart /\ \A t \in Terminal : Right(proc[t], made)
  BY <1>1, IdleFacts DEF Apart, Running, Right
<1> QED
  BY <1>2, <1>3, <1>4 DEF ArtInv

LEMMA NextArt == ArtInv /\ [Next]_<<vars, setting>> => ArtInv'
<1> SUFFICES ASSUME ArtInv, [Next]_<<vars, setting>>
             PROVE  ArtInv'
  OBVIOUS
<1>1. CASE Next
  <2>1. setting' = setting
    BY <1>1 DEF Next
  <2>2. PICK t \in Terminal : \/ \E s \in Script : Start(t, s)
                              \/ Look(t) \/ Change(t) \/ WriteLicence(t) \/ Fail(t) \/ Stop(t)
    BY <1>1 DEF Next
  <2>3. CASE \E s \in Script : Start(t, s)
    BY <2>1, <2>3, StartKeeps
  <2>4. CASE Look(t)
    BY <2>1, <2>4, LookKeeps
  <2>5. CASE Change(t)
    BY <2>1, <2>5, ChangeKeeps
  <2>6. CASE WriteLicence(t)
    BY <2>1, <2>6, WriteLicenceKeeps
  <2>7. CASE Fail(t)
    BY <2>1, <2>7, FailKeeps
  <2>8. CASE Stop(t)
    BY <2>1, <2>8, StopKeeps
  <2> QED
    BY <2>2, <2>3, <2>4, <2>5, <2>6, <2>7, <2>8
<1>2. CASE UNCHANGED <<vars, setting>>
  <2>1. made' = made /\ label' = label /\ proc' = proc /\ runs' = runs /\ pending' = pending
        /\ setting' = setting
    BY <1>2 DEF vars
  <2>2. OwnMakers' /\ LabelOwn' /\ LicenceNamesMaker'
    BY <2>1, SameFiles
  <2>3. TypeOK'
    BY <2>1, TypeIs, TypeIsNext DEF ArtInv
  <2>4. Apart' /\ \A t \in Terminal : Right(proc'[t], made')
    BY <2>1 DEF ArtInv, Apart, Running
  <2> QED
    BY <2>2, <2>3, <2>4 DEF ArtInv
<1> QED
  BY <1>1, <1>2

(* What a batch publishes has been removed, made anew and seen since.      *)
LEMMA ArtPublishes == ArtInv => PublishesItsOwn
<1> SUFFICES ASSUME ArtInv, NEW t \in Terminal, Running(t), Now(t).do = "copy",
                    Now(t).of \in WorkFiles
             PROVE  Now(t).of \in proc[t].derived
  BY DEF PublishesItsOwn
<1> DEFINE p == proc[t]
           item == ItemOf(p)
           f == Now(t).of
<1>1. TypeOK /\ Right(p, made)
  BY DEF ArtInv
<1>2. /\ item \in Item /\ p.step \in DOMAIN item /\ DOMAIN item = 1..Len(item) /\ Len(item) \in Nat
      /\ Now(t) = item[p.step] /\ p.script \in Script /\ p.script # NoScript
      /\ \A j \in DOMAIN item : item[j] \in Steps(p.script)
  BY <1>1, NowFacts DEF Running
<1> HIDE DEF item
<1>3. item[p.step].do = "copy" /\ item[p.step].of = f /\ f \in WorkFiles
  BY <1>2
<1> HIDE DEF f, p
<1>4. Prepared(item, p.step, f)
  <2>1. Prepared(item, p.step, item[p.step].of)
    BY <1>2, <1>3, WorkOf
  <2> QED
    BY <1>3, <2>1
<1>5. PICK n \in 1..(p.step - 1) : \E r \in 1..(n - 1) : PreparedAt(item, p.step, f, n, r)
  BY <1>4 DEF Prepared
<1>6. PICK r \in 1..(n - 1) : PreparedAt(item, p.step, f, n, r)
  BY <1>5
<1>7. /\ item[r].do = "remove" /\ item[r].file = f /\ item[r].orElse # "on"
      /\ item[n].do = "need" /\ item[n].file = f /\ item[n].orElse # "on"
      /\ \A j \in n..p.step : Changes(item[j]) => item[j].file # f
  BY <1>6 DEF PreparedAt
<1>8. p.step \in Nat /\ r \in 1..(p.step - 1) /\ r \in DOMAIN item
      /\ n..(p.step - 1) \subseteq n..p.step
  BY <1>2, <1>7
<1>9. f \in Writes(p.script)
  BY <1>2, <1>7, <1>8 DEF Writes, Changes
<1>10. GoneHere(p, item[r], made) /\ SeenHere(p, n, made)
  BY <1>1, <1>2, <1>7, <1>8 DEF Right, item
<1>11. made[f] # <<>>
  BY <1>3, <1>7, <1>8, <1>9, <1>10 DEF SeenHere, item
<1>12. f \in p.derived
  BY <1>3, <1>7, <1>10, <1>11 DEF GoneHere
<1> QED
  BY <1>12 DEF f, p

(* Every state is of the type the model says: no script is ever beyond its
   last step, in any order of runs and failures.                           *)
THEOREM ArtTypeCorrect == Spec => []TypeOK
<1>1. ArtInv => TypeOK
  BY DEF ArtInv
<1> QED
  BY <1>1, InitArt, NextArt, PTL DEF Spec

(* The licence beside a file names the script that made the file as it
   stands, whatever scripts are run, in any order and side by side, and
   wherever they fail or are stopped (write_license and its callers).      *)
THEOREM LicencesTellTheTruth == Spec => []LicenceNamesMaker
<1>1. ArtInv => LicenceNamesMaker
  BY DEF ArtInv
<1> QED
  BY <1>1, InitArt, NextArt, PTL DEF Spec

(* A batch publishes only the mesh it has had made for this very item,
   whatever earlier runs, or batches beside it, have left behind.          *)
THEOREM BatchesPublishTheirOwn == Spec => []PublishesItsOwn
<1> QED
  BY InitArt, NextArt, ArtPublishes, PTL DEF Spec
=============================================================================
