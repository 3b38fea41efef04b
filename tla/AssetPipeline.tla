------------------------------ MODULE AssetPipeline -------------------------
(***************************************************************************)
(* The art of the game as it is made: somebody runs the scripts of module  *)
(* AssetScripts, again and again and in any order, the long TripoSR batch  *)
(* in one terminal while crops go on in another one.  Any step may fail,   *)
(* and any script may be stopped, between two steps on files.              *)
(*                                                                         *)
(* The content of a file is its provenance: the scripts it went through.   *)
(***************************************************************************)
EXTENDS Integers, FiniteSets, SequencesExt

CONSTANTS
    Program,    \* what each script does: a sequence of items, each one of steps
    WorkFiles,  \* the files a batch has TripoSR write
    Terminal,   \* where scripts run
    Settings    \* what may be run: the bounds of the model

Script == DOMAIN Program
NoScript == "-"

Looks == {"open", "need", "listed"}
OneStep == [do : Looks \cup {"save", "copy", "derive", "remove", "label", "labelOnce"},
            file : STRING, of : STRING, orElse : {"abort", "next", "on"}]

Changes(step) == step.do \in {"save", "copy", "derive", "remove"}
Makes(step) == Changes(step) /\ step.do # "remove"
Labels(step) == step.do \in {"label", "labelOnce"}

Steps(s) == UNION {{Program[s][i][k] : k \in DOMAIN Program[s][i]} : i \in DOMAIN Program[s]}
Item == UNION {{Program[s][i] : i \in DOMAIN Program[s]} : s \in Script}

File == {step.file : step \in {x \in UNION {Steps(s) : s \in Script} : Changes(x)}}
Writes(s) == {step.file : step \in {x \in Steps(s) : Changes(x)}}
Licences(s) == {step.file : step \in {x \in Steps(s) : Labels(x)}}

(* scripts: those that are run; runs: bound on the number of runs.         *)
ASSUME SettingsAssumption ==
    \A c \in Settings : c.scripts \subseteq Script /\ c.runs \in Nat

(* Every script has items, every item steps, on files some script makes.   *)
ASSUME ProgramAssumption ==
    /\ NoScript \notin Script
    /\ \A s \in Script : Program[s] \in Seq(Seq(OneStep) \ {<<>>}) \ {<<>>}
    /\ \A s \in Script : \A step \in Steps(s) :
          /\ step.do \in {"need", "listed", "label", "labelOnce"} => step.file \in File
          /\ step.do \in {"copy", "derive"} => step.of \in File

(* How the scripts write licences: for a file they have just made, having
   left the item if that failed; for this file whenever they make it, which
   they never remove; and where one is written only once, no other script
   writes it (write_license of every script and its callers).              *)
ASSUME LicenceAssumption ==
    /\ \A item \in Item : \A k \in DOMAIN item : Labels(item[k]) =>
          \E j \in 1..(k - 1) :
              Makes(item[j]) /\ item[j].file = item[k].file /\ item[j].orElse # "on"
    /\ \A s \in Script : \A i \in DOMAIN Program[s] : \A j \in DOMAIN Program[s][i] :
          LET step == Program[s][i][j] IN
          Changes(step) /\ step.file \in Licences(s) =>
              /\ Makes(step)
              /\ \E k \in DOMAIN Program[s][i] :
                    Labels(Program[s][i][k]) /\ Program[s][i][k].file = step.file
    /\ \A s, u \in Script : \A step \in Steps(s) :
          step.do = "labelOnce" /\ step.file \in Licences(u) => u = s

(* What is copied is a file that this script alone makes, and not by
   copying (publish of the batches, the crops saved under two names).      *)
ASSUME CopyAssumption ==
    \A s, u \in Script : \A step \in Steps(s) : \A x \in Steps(u) :
        step.do = "copy" /\ Changes(x) /\ x.file = step.of => u = s /\ x.do # "copy"

(* A batch removes its work file, has TripoSR make it, looks whether it is
   there and publishes it.                                                 *)
ASSUME WorkAssumption ==
    /\ \A item \in Item : \A k \in DOMAIN item :
          item[k].do = "copy" /\ item[k].of \in WorkFiles =>
              \E n \in 1..(k - 1) : \E r \in 1..(n - 1) :
                  /\ item[r].do = "remove" /\ item[r].file = item[k].of /\ item[r].orElse # "on"
                  /\ item[n].do = "need" /\ item[n].file = item[k].of /\ item[n].orElse # "on"
                  /\ \A j \in n..k : Changes(item[j]) => item[j].file # item[k].of
    /\ \A s \in Script : \A step \in Steps(s) :
          Changes(step) /\ step.file \in WorkFiles => step.do \in {"remove", "derive"}

VARIABLES
    setting,    \* the member of Settings this behaviour is bounded by; never changes
    made,       \* the provenance of each file, <<>> when there is no such file
    label,      \* the script each file's licence names, or NoScript
    proc,       \* the script that runs in each terminal, and where it is
    runs,       \* number of scripts started
    pending     \* history: files whose writer has still to write the licence

vars == <<made, label, proc, runs, pending>>

Idle == [script |-> NoScript, item |-> 1, step |-> 1, listed |-> {}, derived |-> {}]

TypeOK ==
    /\ setting \in Settings
    /\ made \in [File -> Seq(Script)]
    /\ label \in [File -> Script \cup {NoScript}]
    /\ proc \in [Terminal -> [script : Script \cup {NoScript}, item : Nat \ {0}, step : Nat \ {0},
                              listed : SUBSET File, derived : SUBSET File]]
    /\ \A t \in Terminal : proc[t].script # NoScript =>
          /\ proc[t].item \in DOMAIN Program[proc[t].script]
          /\ proc[t].step \in DOMAIN Program[proc[t].script][proc[t].item]
    /\ runs \in 0..setting.runs
    /\ pending \subseteq File

Init ==
    /\ setting \in Settings
    /\ made = [f \in File |-> <<>>]
    /\ label = [f \in File |-> NoScript]
    /\ proc = [t \in Terminal |-> Idle]
    /\ runs = 0
    /\ pending = {}

Exists(f) == made[f] # <<>>

Running(t) == proc[t].script # NoScript

(* The step the script of t is at.                                         *)
Now(t) == Program[proc[t].script][proc[t].item][proc[t].step]

(***************************************************************************)
(* Where a script goes from here.                                          *)
(***************************************************************************)
(* Mutant: the last item is not the end of the script.                     *)
NextItemPast(t) == [proc[t] EXCEPT !.item = @ + 1, !.step = 1, !.derived = {}]

NextItem(t) ==
    IF proc[t].item = Len(Program[proc[t].script]) THEN Idle
    ELSE [proc[t] EXCEPT !.item = @ + 1, !.step = 1, !.derived = {}]

NextStep(t) ==
    IF proc[t].step = Len(Program[proc[t].script][proc[t].item]) THEN NextItem(t)
    ELSE [proc[t] EXCEPT !.step = @ + 1]

(* Mutant: the loop over the items does not go on with the next one.        *)
AfterFailureOn(t) == IF Now(t).orElse = "abort" THEN Idle ELSE NextStep(t)

AfterFailure(t) ==
    CASE Now(t).orElse = "abort" -> Idle
      [] Now(t).orElse = "next" -> NextItem(t)
      [] Now(t).orElse = "on" -> NextStep(t)

(***************************************************************************)
(* Actions.                                                                *)
(***************************************************************************)

(* Whoever runs the scripts does not run two at once that write the same file:
   an assumption on that person, which no script looks after.               *)
Start(t, s) ==
    /\ ~Running(t) /\ s \in setting.scripts /\ runs < setting.runs
    /\ \A u \in Terminal \ {t} :
          Running(u) => Writes(proc[u].script) \cap Writes(s) = {}
    /\ proc' = [proc EXCEPT ![t] = [Idle EXCEPT !.script = s,
                                    !.listed = {f \in File : Exists(f)}]]
    /\ runs' = runs + 1
    /\ UNCHANGED <<made, label, pending>>

(* A step that only looks: at a sheet of the image cache, at a file, at
   what there was when the script began.                                   *)
Look(t) ==
    /\ Running(t)
    /\ \/ Now(t).do = "open"
       \/ Now(t).do = "need" /\ Exists(Now(t).file)
       \/ Now(t).do = "listed" /\ Now(t).file \in proc[t].listed
    /\ proc' = [proc EXCEPT ![t] = NextStep(t)]
    /\ UNCHANGED <<made, label, runs, pending>>

(* A step that writes, copies or removes a file.  One that fails leaves the old
   file whole (Fail): files that are cut off in the middle are left out.       *)
Change(t) ==
    /\ Running(t) /\ Changes(Now(t))
    /\ LET s == proc[t].script
           f == Now(t).file
           of == Now(t).of
           licence == \E k \in DOMAIN Program[s][proc[t].item] :
                         /\ Labels(Program[s][proc[t].item][k])
                         /\ Program[s][proc[t].item][k].file = f
       IN  /\ Now(t).do \in {"copy", "derive"} => Exists(of)
           /\ made' = [made EXCEPT ![f] =
                 CASE Now(t).do = "save" -> <<s>>
                   [] Now(t).do = "copy" -> made[of]
                   [] Now(t).do = "derive" -> Append(made[of], s)
                   [] Now(t).do = "remove" -> <<>>]
           /\ pending' = IF licence THEN pending \cup {f} ELSE pending \ {f}
           /\ proc' = [proc EXCEPT ![t] =
                 IF Now(t).do = "derive" /\ NextStep(t).item = proc[t].item
                 THEN [NextStep(t) EXCEPT !.derived = @ \cup {f}] ELSE NextStep(t)]
    /\ UNCHANGED <<label, runs>>

(* Mutant: a licence that is there is left as it is.                       *)
WriteLicenceOnce(t) ==
    /\ Running(t) /\ Labels(Now(t))
    /\ LET f == Now(t).file
       IN  /\ label' = [label EXCEPT ![f] = IF @ # NoScript THEN @ ELSE proc[t].script]
           /\ pending' = pending \ {f}
    /\ proc' = [proc EXCEPT ![t] = NextStep(t)]
    /\ UNCHANGED <<made, runs>>

WriteLicence(t) ==
    /\ Running(t) /\ Labels(Now(t))
    /\ LET f == Now(t).file
       IN  /\ label' = [label EXCEPT ![f] =
                 IF Now(t).do = "labelOnce" /\ @ # NoScript THEN @ ELSE proc[t].script]
           /\ pending' = pending \ {f}
    /\ proc' = [proc EXCEPT ![t] = NextStep(t)]
    /\ UNCHANGED <<made, runs>>

(* A step fails; a file that is looked for is either there or not.         *)
Fail(t) ==
    /\ Running(t)
    /\ Now(t).do = "need" => ~Exists(Now(t).file)
    /\ Now(t).do = "listed" => Now(t).file \notin proc[t].listed
    /\ proc' = [proc EXCEPT ![t] = AfterFailure(t)]
    /\ UNCHANGED <<made, label, runs, pending>>

(* The script is stopped.                                                  *)
Stop(t) ==
    /\ Running(t)
    /\ proc' = [proc EXCEPT ![t] = Idle]
    /\ UNCHANGED <<made, label, runs, pending>>

Next ==
    /\ UNCHANGED setting
    /\ \E t \in Terminal :
          \/ \E s \in Script : Start(t, s)
          \/ Look(t) \/ Change(t) \/ WriteLicence(t) \/ Fail(t) \/ Stop(t)

Spec == Init /\ [][Next]_<<vars, setting>>

(***************************************************************************)
(* Properties.                                                             *)
(***************************************************************************)

(* A licence tells the truth: it names the script that made the file as it
   stands, whatever was run before, unless that script was stopped, or
   failed, between file and licence, or writes no licence for this file
   (write_license of every script).                                        *)
LicenceNamesMaker ==
    \A f \in File :
        Exists(f) /\ label[f] # NoScript /\ f \notin pending
            => \/ label[f] = Last(made[f])
               \/ f \notin Licences(Last(made[f]))

(* What a batch publishes as the mesh of a creature is what TripoSR has made
   of the creature's picture for this very item, never what an earlier run
   has left behind (rm -rf in the batch scripts).                          *)
PublishesItsOwn ==
    \A t \in Terminal :
        Running(t) /\ Now(t).do = "copy" /\ Now(t).of \in WorkFiles
            => Now(t).of \in proc[t].derived

(* The files that change hands, and between which scripts.                 *)
KnownOverlaps ==
    {{"crop_particles", "crop_particles_v2"}, {"crop_avatars", "crop_avatars_v2"},
     {"crop_savannah", "crop_desert"}, {"crop_savannah", "crop_user_art"},
     {"generate_icons", "crop_hero_set"},
     {"build_minifigure_rigid", "gen_builder_rig"},
     {"batch_creatures", "batch_from_user_art"},
     {"generate_creatures", "gen_creatures"}, {"generate_creatures", "apply_palette"},
     {"gen_creatures", "apply_palette"}}

(* Nothing else changes hands: no script overwrites another one's file by
   accident, the hand-authored brick least of all (SKIP in generate_bricks,
   the choice of names in the crop scripts).                               *)
NothingElseOverwritten ==
    [][\A f \in File :
        /\ made[f] # <<>> /\ made'[f] # <<>> /\ Last(made'[f]) # Last(made[f])
        => {Last(made[f]), Last(made'[f])} \in KnownOverlaps]_vars
=============================================================================
