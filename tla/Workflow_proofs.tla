--------------------------- MODULE Workflow_proofs ----------------------------
(***************************************************************************)
(* Proofs about Workflow, for all evidence and advice and every bound.     *)
(*                                                                         *)
(* TypeInv says that every copy of the record passes its validation, and   *)
(* carries what a Run is admitted on into every copy.  RatchetHolds is     *)
(* proved for commands that do not overlap with others or with a process:  *)
(* then every copy is the saved record (ExclusiveInv), and a process runs  *)
(* only a recipe that was not upgraded.                                    *)
(***************************************************************************)
EXTENDS Workflow, TLAPS

Valid(r) == r = NoRun \/ Linked(r)

TypeInv ==
    /\ rev \in Nat /\ policy \in Nat /\ changes \in Nat /\ listed \in BOOLEAN
    /\ held \in Evidence /\ step \in Evidence /\ advice \in Advice
    /\ under \in [held : Nat, step : Nat]
    /\ Valid(disk) /\ Valid(creating) /\ Valid(proc)
    /\ DOMAIN loaded = Editors /\ \A e \in Editors : Valid(loaded[e])

\* The catalog is written before there is any copy of the record.
ListedInv ==
    ~listed => /\ creating = NoRun /\ disk = NoRun /\ proc = NoRun
               /\ \A e \in Editors : loaded[e] = NoRun

Inv == TypeInv /\ ListedInv

\* Every copy of the record was admitted on what the client read last.
ReadInv ==
    /\ creating # NoRun => disk = NoRun /\ creating.assessed = read
    /\ disk = NoRun => proc = NoRun /\ \A e \in Editors : loaded[e] = NoRun
    /\ disk # NoRun => disk.assessed = read
    /\ proc # NoRun => proc.assessed = read
    /\ \A e \in Editors : loaded[e] # NoRun => loaded[e].assessed = read

-----------------------------------------------------------------------------
(* The record *)

LEMMA NothingTyped == NoAdvice \in Advice /\ NoEvidence \in Evidence
<1>1. 0 \in Nat OBVIOUS
<1>2. FALSE \in BOOLEAN /\ {} \in SUBSET Shown /\ {} \in SUBSET NextStepFacts
  BY Zenon
<1> QED BY <1>1, <1>2, Zenon DEF NoAdvice, Advice, NoEvidence, Evidence

\* Statuses and counters are no part of what validation relates.
LEMMA LinkedStands ==
  ASSUME NEW r, Linked(r), NEW s \in {"not-started", "in-progress", "done"}, NEW n \in Nat
  PROVE  Linked([r EXCEPT !.status = s]) /\ Linked([r EXCEPT !.atts = n])
<1> DEFINE Same(q) == /\ q.recipe = r.recipe /\ q.assessed = r.assessed /\ q.advice = r.advice
                      /\ q.risk = r.risk /\ q.stages = r.stages /\ q.upgrade = r.upgrade
<1>1. /\ [r EXCEPT !.status = s] \in Runs /\ Same([r EXCEPT !.status = s])
      /\ [r EXCEPT !.atts = n] \in Runs /\ Same([r EXCEPT !.atts = n])
  BY SMT DEF Linked, Runs
<1>2. ASSUME NEW q \in Runs, Same(q) PROVE Linked(q)
  BY <1>2, Zenon DEF Linked
<1> QED BY <1>1, <1>2

\* What admission puts together passes validation.
LEMMA AdmittedIsLinked ==
  ASSUME TypeInv, NEW a \in {NoAdvice, advice}, NEW s \in {NoEvidence, step},
         NEW choice \in {"full", "compact"},
         AdviceBelongs(held, a), choice \in Offered(held, a), StepCarried(s)
  PROVE  Linked(Admitted(choice, a, s))
<1>1. a \in Advice
  BY NothingTyped, Zenon DEF TypeInv
<1>2. (IF s = NoEvidence THEN "none" ELSE NextStep(s)) \in {"none", "architecture", "implementation"}
  BY Zenon DEF StepCarried
<1>3. <<>> \in Seq({"semantic-review", "human-acceptance"})
  BY SMT
<1>4. ("risk" \in held.shown \/ a.risk) \in BOOLEAN
  BY SMT
<1>5. Admitted(choice, a, s) \in Runs
  BY <1>1, <1>2, <1>3, <1>4, SMT DEF Admitted, Runs, TypeInv
<1> QED
  BY <1>5, SMT DEF Admitted, Linked

LEMMA InitInv == Init => Inv
<1> SUFFICES ASSUME Init PROVE Inv OBVIOUS
<1>1. rev \in Nat /\ policy \in Nat /\ changes \in Nat /\ under \in [held : Nat, step : Nat]
  BY SMT DEF Init
<1>2. listed \in BOOLEAN /\ DOMAIN loaded = Editors /\ \A e \in Editors : loaded[e] = NoRun
  BY Zenon DEF Init
<1> QED BY <1>1, <1>2, NothingTyped, Zenon DEF Init, Inv, TypeInv, ListedInv, Valid

LEMMA AdvicesTyped ==
  ASSUME NEW e \in Evidence, NEW q PROVE Advices(e, q) \subseteq Advice
  BY SMT DEF Advices, Advice, Evidence

LEMMA AdmissionInv ==
  ASSUME Inv, Change \/ Assess \/ Reread \/ AssessStep \/ UpgradeStep \/ Consult PROVE Inv'
<1>1. CASE Change
  BY <1>1, SMT DEF Change, Inv, TypeInv, ListedInv, Valid, admission
<1>2. CASE Assess \/ Reread \/ AssessStep \/ UpgradeStep
  <2>1. UNCHANGED <<rev, policy, disk, proc, loaded, changes, advice, creating, listed>>
    BY <1>2 DEF Assess, Reread, AssessStep, UpgradeStep, Others
  <2>3. under' \in [held : Nat, step : Nat]
    BY <1>2, SMT DEF Assess, Reread, AssessStep, UpgradeStep, Inv, TypeInv
  <2>2. held' \in Evidence /\ step' \in Evidence
    BY <1>2, SMT DEF Assess, Reread, AssessStep, UpgradeStep, Readings, StepReadings, Evidence, Shows,
       FactSets, Shown, NextStepFacts, Inv, TypeInv
  <2> QED BY <2>1, <2>2, <2>3, SMT DEF Inv, TypeInv, ListedInv, Valid
<1>3. CASE Consult
  <2>1. UNCHANGED <<rev, policy, disk, proc, loaded, changes, held, step, under, creating, listed>>
    BY <1>3 DEF Consult, Others
  <2>2. advice' \in Advice
    BY <1>3, AdvicesTyped DEF Consult, Inv, TypeInv
  <2> QED BY <2>1, <2>2, SMT DEF Inv, TypeInv, ListedInv, Valid
<1> QED BY <1>1, <1>2, <1>3

LEMMA CreationInv ==
  ASSUME Inv, (\E c \in {"full", "compact"} : Create(c)) \/ SaveRun \/ CreationFails PROVE Inv'
<1>1. ASSUME NEW c \in {"full", "compact"}, Create(c) PROVE Inv'
  <2>1. PICK a \in {NoAdvice, advice}, s \in {NoEvidence, step} :
           /\ AdviceBelongs(held, a) /\ c \in Offered(held, a) /\ StepCarried(s)
           /\ creating' = Admitted(c, a, s) /\ listed' = TRUE
    BY <1>1, SMT DEF Create, Register
  <2>2. Linked(creating')
    BY <2>1, AdmittedIsLinked DEF Inv
  <2>3. UNCHANGED <<rev, policy, disk, proc, loaded, changes, held, step, under, advice>>
    BY <1>1 DEF Create, Others
  <2> QED BY <2>1, <2>2, <2>3, SMT DEF Inv, TypeInv, ListedInv, Valid
<1>2. CASE SaveRun
  BY <1>2, NothingTyped, SMT DEF SaveRun, Inv, TypeInv, ListedInv, Valid
<1>3. CASE CreationFails
  BY <1>3, SMT DEF CreationFails, Others, Inv, TypeInv, ListedInv, Valid
<1> QED BY <1>1, <1>2, <1>3

LEMMA ExecutionInv ==
  ASSUME Inv, Start \/ Checkpoint \/ Finish \/ Die PROVE Inv'
<1>1. UNCHANGED <<rev, policy, held, step, under, advice, creating, changes, listed, loaded>>
  BY DEF Start, Checkpoint, Finish, Die, Leave, admission
<1>2. /\ disk # NoRun => Linked(disk)
      /\ proc # NoRun => Linked(proc) /\ proc.atts \in Nat
  BY SMT DEF Inv, TypeInv, Valid, Linked, Runs
<1>3. listed
  BY DEF Start, Checkpoint, Finish, Die, Leave, Inv, ListedInv
<1>4. Valid(disk') /\ Valid(proc')
  <2>1. CASE Start
    <3>1. Linked([disk EXCEPT !.status = "in-progress"])
      BY <1>2, <2>1, LinkedStands, 0 \in Nat, Zenon DEF Start
    <3> QED BY <2>1, <3>1 DEF Start, Valid
  <2>2. CASE Checkpoint
    <3>1. proc.atts + 1 \in Nat
      BY <1>2, <2>2, SMT DEF Checkpoint
    <3>2. Linked([proc EXCEPT !.atts = proc.atts + 1])
      BY <1>2, <2>2, <3>1, LinkedStands, Zenon DEF Checkpoint
    <3> QED BY <2>2, <3>2 DEF Checkpoint, Valid
  <2>3. CASE Finish
    <3>1. Linked([proc EXCEPT !.status = "done"])
      BY <1>2, <2>3, LinkedStands, 0 \in Nat, Zenon DEF Finish, Leave
    <3> QED BY <2>3, <3>1 DEF Finish, Leave, Valid
  <2>4. CASE Die
    BY <2>4 DEF Die, Leave, Inv, TypeInv, Valid
  <2> QED BY <2>1, <2>2, <2>3, <2>4
<1> QED BY <1>1, <1>3, <1>4, Zenon DEF Inv, TypeInv, ListedInv, Valid

LEMMA EditorsInv ==
  ASSUME NEW e \in Editors, Inv, Load(e) \/ Amend(e) PROVE Inv'
<1>1. CASE Load(e)
  BY <1>1, SMT DEF Load, admission, Inv, TypeInv, ListedInv, Valid
<1>2. CASE Amend(e)
  BY <1>2, SMT DEF Amend, admission, Inv, TypeInv, ListedInv, Valid
<1> QED BY <1>1, <1>2

LEMMA NextInv == Inv /\ [Next]_vars => Inv'
<1> SUFFICES ASSUME Inv, [Next]_vars PROVE Inv' OBVIOUS
<1>1. CASE UNCHANGED vars
  BY <1>1, Zenon DEF vars, admission, Inv, TypeInv, ListedInv, Valid
<1>2. CASE Next
  BY <1>2, AdmissionInv, CreationInv, ExecutionInv, EditorsInv, Zenon DEF Next
<1> QED BY <1>1, <1>2

LEMMA InvAlways == Spec => []Inv
  BY InitInv, NextInv, PTL DEF Spec

\* No transition of the record touches what it was admitted on.
LEMMA TransitionsAssessed ==
  ASSUME NEW r \in Runs, NEW q \in Transitions(r)
  PROVE  q \in Runs => q.assessed = r.assessed
<1>1. ASSUME NEW T, q \in Upgrades(r, T) PROVE q.assessed = r.assessed
  <2>1. PICK t \in T : q = [r EXCEPT !.upgrade = TargetOf(t)]
    BY <1>1, Zenon DEF Upgrades, Upgrade
  <2> QED BY <2>1, SMT DEF Runs
<1>2. ASSUME NEW s, q = [r EXCEPT !.stages = @ \cup {s}] PROVE q.assessed = r.assessed
  BY <1>2, SMT DEF Runs
<1>3. ASSUME NEW x, q = [r EXCEPT !.met = Append(@, x)] PROVE q.assessed = r.assessed
  BY <1>3, SMT DEF Runs
<1> DEFINE S == {[r EXCEPT !.stages = @ \cup {s}] : s \in Stages(r.recipe) \ r.stages}
           M == {[r EXCEPT !.met = Append(@, x)] : x \in Requirable(r)}
           D == {DriverTriggers[x] : x \in DOMAIN DriverTriggers}
<1>4. q \in S => \E s : q = [r EXCEPT !.stages = @ \cup {s}] BY Zenon
<1>5. q \in M => \E x : q = [r EXCEPT !.met = Append(@, x)] BY Zenon
<1>6. q \in (IF Active(r) THEN S \cup M ELSE {}) \cup Upgrades(r, Triggers) \cup Upgrades(r, D)
  BY Zenon DEF Transitions
<1> HIDE DEF S, M, D
<1>7. q \in S \/ q \in M \/ q \in Upgrades(r, Triggers) \/ q \in Upgrades(r, D)
  BY <1>6
<1> QED BY <1>1, <1>2, <1>3, <1>4, <1>5, <1>7, Zenon

LEMMA ReadStep == ASSUME Inv, ReadInv, [Next]_vars PROVE ReadInv'
<1>0. /\ disk # NoRun => disk \in Runs
      /\ proc # NoRun => proc \in Runs
      /\ \A e \in Editors : loaded[e] # NoRun => loaded[e] \in Runs
      /\ NoRun \notin Runs
  <2>1. NoRun \notin Runs
    BY SMT DEF NoRun, Runs
  <2> QED BY <2>1, Zenon DEF Inv, TypeInv, Valid, Linked
<1>1. CASE Change \/ AssessStep \/ UpgradeStep \/ Consult \/ CreationFails \/ UNCHANGED vars
  <2>1. UNCHANGED <<disk, proc, loaded, read>> /\ (creating' = creating \/ creating' = NoRun)
    BY <1>1, Zenon DEF Change, AssessStep, UpgradeStep, Consult, CreationFails, Others, vars,
       admission
  <2> QED BY <2>1, Zenon DEF ReadInv
<1>2. CASE Assess \/ Reread
  <2>1. UNCHANGED <<disk, proc, loaded, creating>> /\ disk = NoRun /\ creating = NoRun
    BY <1>2, Zenon DEF Assess, Reread, Others, Deciding
  <2> QED BY <2>1, Zenon DEF ReadInv
<1>3. ASSUME NEW c \in {"full", "compact"}, Create(c) PROVE ReadInv'
  <2>1. UNCHANGED <<disk, proc, loaded, read>> /\ disk = NoRun /\ held = read
    BY <1>3, Zenon DEF Create, Others, Deciding, Current
  <2>2. creating'.assessed = held
    BY <1>3, SMT DEF Create, Register, Admitted
  <2> QED BY <2>1, <2>2, Zenon DEF ReadInv
<1>4. CASE SaveRun
  <2>1. /\ UNCHANGED <<proc, loaded, read>> /\ disk' = creating /\ creating # NoRun
        /\ creating' = NoRun
    BY <1>4, Zenon DEF SaveRun
  <2> QED BY <2>1, Zenon DEF ReadInv
<1>5. CASE Start \/ Checkpoint \/ Finish \/ Die
  <2>1. UNCHANGED <<creating, loaded, read>> /\ disk # NoRun /\ creating = NoRun
    BY <1>5, Zenon DEF Start, Checkpoint, Finish, Die, Leave, admission, ReadInv
  <2>2. CASE Start
    <3>1. disk' = [disk EXCEPT !.status = "in-progress"] /\ proc' = disk' /\ disk \in Runs
      BY <1>0, <2>2, Zenon DEF Start
    <3>2. disk'.assessed = disk.assessed /\ disk' # NoRun
      BY <1>0, <3>1, SMT DEF Runs, NoRun
    <3> QED BY <2>1, <3>1, <3>2, Zenon DEF ReadInv
  <2>3. CASE Checkpoint
    <3>1. /\ disk' = [proc EXCEPT !.atts = proc.atts + 1] /\ proc' = disk' /\ proc \in Runs
          /\ proc # NoRun
      BY <1>0, <2>3, Zenon DEF Checkpoint
    <3>2. disk'.assessed = proc.assessed /\ disk' # NoRun
      BY <1>0, <3>1, SMT DEF Runs, NoRun
    <3> QED BY <2>1, <3>1, <3>2, Zenon DEF ReadInv
  <2>4. CASE Finish
    <3>1. /\ disk' = [proc EXCEPT !.status = "done"] /\ proc' = NoRun /\ proc \in Runs
          /\ proc # NoRun
      BY <1>0, <2>4, Zenon DEF Finish, Leave
    <3>2. disk'.assessed = proc.assessed /\ disk' # NoRun
      BY <1>0, <3>1, SMT DEF Runs, NoRun
    <3> QED BY <2>1, <3>1, <3>2, Zenon DEF ReadInv
  <2>5. CASE Die
    BY <2>1, <2>5, Zenon DEF Die, Leave, ReadInv
  <2> QED BY <1>5, <2>2, <2>3, <2>4, <2>5
<1>6. ASSUME NEW e \in Editors, Load(e) PROVE ReadInv'
  <2>1. /\ UNCHANGED <<disk, proc, creating, read>> /\ disk # NoRun
        /\ loaded' = [loaded EXCEPT ![e] = disk] /\ DOMAIN loaded = Editors
    BY <1>6, Zenon DEF Load, admission, Inv, TypeInv
  <2>2. \A f \in Editors : loaded'[f] = IF f = e THEN disk ELSE loaded[f]
    BY <2>1, Zenon
  <2> QED BY <2>1, <2>2, Zenon DEF ReadInv
<1>7. ASSUME NEW e \in Editors, Amend(e) PROVE ReadInv'
  <2>1. /\ UNCHANGED <<proc, creating, read>> /\ loaded[e] # NoRun /\ DOMAIN loaded = Editors
        /\ loaded' = [loaded EXCEPT ![e] = NoRun]
        /\ disk' = disk \/ (disk' \in Transitions(loaded[e]) /\ Linked(disk'))
    BY <1>7, Zenon DEF Amend, admission, Inv, TypeInv
  <2>2. \A f \in Editors : loaded'[f] = IF f = e THEN NoRun ELSE loaded[f]
    BY <2>1, Zenon
  <2>3. /\ loaded[e].assessed = read /\ loaded[e] \in Runs /\ disk # NoRun
        /\ creating = NoRun /\ disk.assessed = read
    BY <1>0, <2>1, Zenon DEF ReadInv
  <2>4. disk' # NoRun /\ disk'.assessed = read
    BY <1>0, <2>1, <2>3, TransitionsAssessed, Zenon DEF Linked
  <2> QED BY <2>1, <2>2, <2>3, <2>4, Zenon DEF ReadInv
<1> QED BY <1>1, <1>2, <1>3, <1>4, <1>5, <1>6, <1>7, Zenon DEF Next

LEMMA ReadAlways == Spec => []ReadInv
<1>1. Init => ReadInv
  BY Zenon DEF Init, ReadInv
<1> QED BY <1>1, ReadStep, InvAlways, PTL DEF Spec

\* Every copy of the record passes the validation of its linkage, so that the
\* next load reads what was saved (state/models.py, workflow_execution.py).
THEOREM TypeCorrect == Spec => []TypeOK
<1>1. Inv => TypeOK
  BY Zenon DEF Inv, TypeInv, TypeOK, Valid
<1> QED BY <1>1, InvAlways, PTL

\* A Run is compact only on evidence that allows it, on an uncertain one only with advice
\* about the assessed revisions, and always on the evidence that was supplied with the
\* decision (application.py, workflow_admission.py); commands may overlap.
THEOREM CompactCorrect == Spec => []CompactIsJustified
<1>1. Inv /\ ReadInv => CompactIsJustified
  <2> SUFFICES ASSUME Inv, ReadInv, disk # NoRun, disk.recipe = "compact"
               PROVE  /\ "risk" \notin disk.assessed.shown
                      /\ disk.assessed.shown # {"complete"} => disk.advice # NoAdvice
                      /\ disk.advice # NoAdvice => disk.advice.rev = disk.assessed.rev
                      /\ disk.assessed = read
    BY DEF CompactIsJustified
  <2>1. Linked(disk)
    BY DEF Inv, TypeInv, Valid
  <2>2. disk.assessed = read
    BY DEF ReadInv
  <2> QED BY <2>1, <2>2, SMT DEF Linked, Offered, AdviceBelongs, WorkflowOutcome
<1> QED BY <1>1, InvAlways, ReadAlways, PTL

\* No Run is saved that the catalog does not list, whatever fails between the
\* two files (application.py).
THEOREM ListedCorrect == Spec => []ListedBeforeSaved
<1>1. Inv => ListedBeforeSaved
  BY Zenon DEF Inv, TypeInv, ListedInv, ListedBeforeSaved
<1> QED BY <1>1, InvAlways, PTL

-----------------------------------------------------------------------------
(* Commands that do not overlap *)

\* There is one record: what a process or a command works on is what is saved.
ExclusiveInv ==
    /\ creating # NoRun => disk = NoRun
    /\ proc # NoRun => /\ disk = proc /\ proc.upgrade = "none" /\ proc.status = "in-progress"
                       /\ \A e \in Editors : loaded[e] = NoRun
    /\ \A e \in Editors : loaded[e] # NoRun =>
          /\ disk = loaded[e] /\ disk.status # "done"
          /\ \A f \in Editors : loaded[f] # NoRun => f = e

\* What a command may do to the record that is saved.
Onwards(r, q) ==
    /\ r.stages \subseteq q.stages /\ IsPrefix(r.met, q.met) /\ r.atts <= q.atts
    /\ r.status = "done" => q.status = "done"
    /\ r.upgrade # "none" => /\ q.upgrade = r.upgrade /\ q.stages = r.stages
                             /\ q.met = r.met /\ q.atts = r.atts

LEMMA PrefixOfItself == ASSUME NEW s \in Seq({"semantic-review", "human-acceptance"})
                        PROVE  IsPrefix(s, s)
  BY SMT DEF IsPrefix

LEMMA PrefixOfAppended ==
  ASSUME NEW s \in Seq({"semantic-review", "human-acceptance"}),
         NEW x \in {"semantic-review", "human-acceptance"}
  PROVE  IsPrefix(s, Append(s, x))
  BY SMT DEF IsPrefix

LEMMA OnwardsItself == ASSUME NEW r \in Runs PROVE Onwards(r, r)
  BY PrefixOfItself, SMT DEF Onwards, Runs

\* An upgraded record has no transition, any other one only grows.
LEMMA TransitionsGoOnwards ==
  ASSUME NEW r \in Runs, NEW q \in Transitions(r), Linked(q), r.status # "done" PROVE Onwards(r, q)
<1>1. ASSUME Active(r), NEW s \in Stages(r.recipe), q = [r EXCEPT !.stages = @ \cup {s}]
      PROVE  Onwards(r, q)
  BY <1>1, PrefixOfItself, SMT DEF Active, Onwards, Runs
<1>2. ASSUME Active(r), NEW x \in Requirable(r), q = [r EXCEPT !.met = Append(@, x)]
      PROVE  Onwards(r, q)
  <2>1. x \in {"semantic-review", "human-acceptance"}
    BY SMT DEF Requirable, Requirements, Runs
  <2> QED BY <1>2, <2>1, PrefixOfAppended, SMT DEF Active, Onwards, Runs
<1>3. ASSUME NEW T, q \in Upgrades(r, T) PROVE Onwards(r, q)
  <2>1. PICK t \in T : q = [r EXCEPT !.upgrade = TargetOf(t)] /\ r.upgrade = "none"
    BY <1>3, Zenon DEF Upgrades, Upgrade
  <2> QED BY <2>1, PrefixOfItself, SMT DEF Onwards, Runs
<1> QED BY <1>1, <1>2, <1>3, SMT DEF Transitions
Steps == ExclusiveInv' /\ (disk # NoRun => Onwards(disk, disk'))

LEMMA CopiesAreRuns ==
  ASSUME Inv
  PROVE  /\ disk # NoRun => disk \in Runs
         /\ proc # NoRun => proc \in Runs
         /\ creating # NoRun => creating \in Runs
         /\ \A e \in Editors : loaded[e] # NoRun => loaded[e] \in Runs
         /\ NoRun \notin Runs
<1>1. NoRun \notin Runs
  BY SMT DEF NoRun, Runs
<1> QED BY <1>1, Zenon DEF Inv, TypeInv, Valid, Linked

LEMMA AdmissionSteps ==
  ASSUME Inv, ExclusiveInv,
         \/ Change \/ Assess \/ Reread \/ AssessStep \/ UpgradeStep \/ Consult \/ CreationFails \/ SaveRun
         \/ \E c \in {"full", "compact"} : Create(c)
         \/ UNCHANGED vars
  PROVE  Steps
<1>1. UNCHANGED <<proc, loaded>>
  BY Zenon DEF Change, Assess, Reread, AssessStep, UpgradeStep, Consult, CreationFails, SaveRun, Create,
     Others, vars
<1>2. CASE SaveRun
  BY <1>1, <1>2, Zenon DEF SaveRun, ExclusiveInv, Steps
<1>3. CASE ~SaveRun
  <2>1. disk' = disk
    BY <1>3, Zenon DEF Change, Assess, Reread, AssessStep, UpgradeStep, Consult, CreationFails, Create,
       Others, vars
  <2>2. creating' # NoRun => disk = NoRun
    BY <1>3, Zenon DEF Change, Assess, Reread, AssessStep, UpgradeStep, Consult, CreationFails, Create,
       Others, Deciding, vars, admission, ExclusiveInv
  <2> QED
    BY <1>1, <2>1, <2>2, OnwardsItself, CopiesAreRuns, Zenon DEF ExclusiveInv, Steps
<1> QED BY <1>2, <1>3

LEMMA ExecutionSteps ==
  ASSUME ~Concurrent, Inv, ExclusiveInv, Start \/ Checkpoint \/ Finish \/ Die PROVE Steps
<1>1. UNCHANGED <<creating, loaded>>
  BY DEF Start, Checkpoint, Finish, Die, Leave, admission
<1>2. CASE Start
  <2>1. /\ disk \in Runs /\ disk.upgrade = "none" /\ \A e \in Editors : loaded[e] = NoRun
        /\ disk' = [disk EXCEPT !.status = "in-progress"] /\ proc' = disk'
        /\ disk.status # "done" /\ creating = NoRun
    BY <1>2, CopiesAreRuns, Zenon DEF Start, Executable, ExclusiveInv
  <2>2. disk'.status = "in-progress" /\ disk'.upgrade = "none" /\ Onwards(disk, disk')
    BY <2>1, PrefixOfItself, SMT DEF Onwards, Runs
  <2> QED BY <1>1, <2>1, <2>2, Zenon DEF Steps, ExclusiveInv
<1>3. CASE Checkpoint
  <2>1. /\ proc \in Runs /\ disk = proc /\ proc # NoRun
        /\ proc.upgrade = "none" /\ proc.status = "in-progress"
        /\ disk' = [proc EXCEPT !.atts = proc.atts + 1] /\ proc' = disk'
        /\ creating = NoRun /\ \A e \in Editors : loaded[e] = NoRun
    BY <1>3, CopiesAreRuns, Zenon DEF Checkpoint, ExclusiveInv
  <2>2. disk'.status = "in-progress" /\ disk'.upgrade = "none" /\ Onwards(disk, disk')
    BY <2>1, PrefixOfItself, SMT DEF Onwards, Runs
  <2> QED BY <1>1, <2>1, <2>2, Zenon DEF Steps, ExclusiveInv
<1>4. CASE Finish
  <2>1. /\ proc \in Runs /\ disk = proc /\ proc # NoRun
        /\ proc.upgrade = "none" /\ proc.status = "in-progress"
        /\ disk' = [proc EXCEPT !.status = "done"] /\ proc' = NoRun
        /\ creating = NoRun /\ \A e \in Editors : loaded[e] = NoRun
    BY <1>4, CopiesAreRuns, Zenon DEF Finish, Leave, ExclusiveInv
  <2>2. Onwards(disk, disk')
    BY <2>1, PrefixOfItself, SMT DEF Onwards, Runs
  <2> QED BY <1>1, <2>1, <2>2, Zenon DEF Steps, ExclusiveInv
<1>5. CASE Die
  <2>1. disk' = disk /\ proc' = NoRun /\ proc # NoRun
    BY <1>5 DEF Die, Leave
  <2> QED BY <1>1, <2>1, OnwardsItself, CopiesAreRuns, Zenon DEF Steps, ExclusiveInv
<1> QED BY <1>2, <1>3, <1>4, <1>5

LEMMA EditorsSteps ==
  ASSUME ~Concurrent, Inv, ExclusiveInv, NEW e \in Editors, Load(e) \/ Amend(e) PROVE Steps
<1>0. UNCHANGED <<creating, proc>> /\ DOMAIN loaded = Editors
  BY DEF Load, Amend, admission, Inv, TypeInv
<1>1. CASE Load(e)
  <2>1. /\ proc = NoRun /\ \A f \in Editors : loaded[f] = NoRun
        /\ disk' = disk /\ disk # NoRun /\ disk.status # "done"
        /\ loaded' = [loaded EXCEPT ![e] = disk]
    BY <1>1 DEF Load
  <2>2. \A f \in Editors : loaded'[f] = IF f = e THEN disk ELSE NoRun
    BY <1>0, <2>1, SMT
  <2> QED
    BY <1>0, <2>1, <2>2, OnwardsItself, CopiesAreRuns, Zenon DEF Steps, ExclusiveInv
<1>2. CASE Amend(e)
  <2>1. /\ disk = loaded[e] /\ disk # NoRun /\ disk \in Runs /\ disk.status # "done"
        /\ creating = NoRun /\ proc = NoRun
        /\ loaded' = [loaded EXCEPT ![e] = NoRun]
        /\ \A f \in Editors : loaded[f] # NoRun => f = e
    BY <1>2, CopiesAreRuns, Zenon DEF Amend, ExclusiveInv
  <2>2. \A f \in Editors : loaded'[f] = NoRun
    BY <1>0, <2>1, SMT
  <2>3. Onwards(disk, disk')
    BY <1>2, <2>1, OnwardsItself, TransitionsGoOnwards, Zenon DEF Amend
  <2> QED BY <1>0, <2>1, <2>2, <2>3, Zenon DEF Steps, ExclusiveInv
<1> QED BY <1>1, <1>2

LEMMA NextSteps == ASSUME ~Concurrent, Inv, ExclusiveInv, [Next]_vars PROVE Steps
  BY AdmissionSteps, ExecutionSteps, EditorsSteps, Zenon DEF Next

\* As long as commands do not overlap, nothing recorded is lost, and an upgrade
\* is final: the workflow it stopped gains no evidence and no attempt and never
\* counts as complete (workflow_execution.py, graph.py).
THEOREM RatchetCorrect == ASSUME ~Concurrent PROVE Spec => RatchetHolds
<1>1. Init => ExclusiveInv
  BY Zenon DEF Init, ExclusiveInv
<1>2. Inv /\ ExclusiveInv /\ [Next]_vars => Steps
  BY NextSteps
<1>3. Spec => []ExclusiveInv
  BY <1>1, <1>2, InvAlways, PTL DEF Spec, Steps
<1>4. Inv /\ ExclusiveInv /\ [Next]_vars => (disk # NoRun => Onwards(disk, disk'))
  BY <1>2 DEF Steps
<1>5. (disk # NoRun => Onwards(disk, disk')) =>
         (disk # NoRun => /\ disk.stages \subseteq disk'.stages
                          /\ IsPrefix(disk.met, disk'.met)
                          /\ disk.atts <= disk'.atts
                          /\ disk.status = "done" => disk'.status = "done")
  BY Zenon DEF Onwards
<1>6. (disk # NoRun => Onwards(disk, disk')) =>
         (disk # NoRun /\ disk.upgrade # "none" =>
             /\ disk'.upgrade = disk.upgrade /\ disk'.stages = disk.stages
             /\ disk'.met = disk.met /\ disk'.atts = disk.atts
             /\ ~IsComplete(disk'))
  BY Zenon DEF Onwards, IsComplete
<1>7. Spec => RecordStands
  BY <1>3, <1>4, <1>5, InvAlways, PTL DEF Spec, RecordStands
<1> QED
  BY <1>3, <1>4, <1>6, <1>7, InvAlways, PTL DEF Spec, RatchetHolds
===============================================================================
