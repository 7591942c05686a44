------------------------------ MODULE Workflow ------------------------------
(***************************************************************************)
(* One admitted Run: evidence is read, assessed and perhaps put to the     *)
(* Tactician; a human chooses; the Run is catalogued, saved, executed by   *)
(* the graph, and its workflow record is amended by commands that load the *)
(* whole state and save it again.                                          *)
(*                                                                         *)
(* Node attempts are only counted here (RunGraph has them in full).        *)
(***************************************************************************)
EXTENDS Admission, SequencesExt

CONSTANTS
    Editors,         \* clients that amend the workflow record
    Concurrent,      \* TRUE: they do so while others or a process work
    MaxChanges,      \* bound: changes of evidence or policy
    MaxAttempts      \* bound: node attempts

ASSUME WorkflowBounds == {MaxChanges, MaxAttempts} \subseteq Nat /\ Concurrent \in BOOLEAN

VARIABLES
    rev, policy,     \* revision of the evidence; version of the policy
    held, advice,    \* what the deciding client assessed, and the Tactician said
    read,            \* the evidence it read last, which it supplies with its decision
    step,            \* the next-step evidence it was admitted on
    under,           \* versions of the policy that held and step were assessed under
    listed,          \* the catalog lists the Run
    creating,        \* the Run between its listing and its first save
    disk,            \* the saved Run
    proc,            \* the Run in a foreground process
    loaded,          \* per editor, the state it loaded
    changes

admission == <<held, read, advice, step, under, creating>>
vars == <<rev, policy, admission, listed, disk, proc, loaded, changes>>

Stages(recipe) ==
    IF recipe = "full"
    THEN {"architecture", "driver-red", "review-red", "driver-green", "review-green",
          "refactor", "review-refactor"}
    ELSE {"driver-red", "driver-green", "review-green"}
Requirements(recipe) == IF recipe = "full" THEN <<>> ELSE <<"semantic-review", "human-acceptance">>

Runs == [recipe : {"full", "compact"}, assessed : Evidence, advice : Advice,
         policy : Nat, risk : BOOLEAN, step : {"none", "architecture", "implementation"},
         stages : SUBSET Stages("full"), met : Seq({"semantic-review", "human-acceptance"}),
         upgrade : {"none", "clarification", "full"}, atts : Nat,
         status : {"not-started", "in-progress", "done"}]

NoRun == [recipe |-> "none"]
NoEvidence == [rev |-> 0, shown |-> {}, facts |-> {}]

\* The linkage a saved record is validated against.
Linked(r) ==
    /\ r \in Runs
    /\ AdviceBelongs(r.assessed, r.advice)
    /\ r.recipe \in Offered(r.assessed, r.advice)
    /\ r.risk = ("risk" \in r.assessed.shown \/ r.advice.risk)
    /\ r.stages \subseteq Stages(r.recipe)
    /\ r.recipe = "full" => r.upgrade = "none"

IsComplete(r) == /\ r.upgrade = "none"
                 /\ Stages(r.recipe) \subseteq r.stages
                 /\ r.met = Requirements(r.recipe)

\* The evidence that occurs: one snapshot for every outcome and next step.
Shows == {{"complete"}, {"complete", "risk"}, {"complete", "doubt"}, {}}
FactSets == {{"intent", "work"}, {"intent", "work", "architecture"}, {"insufficient"},
             {"work", "no-work"}, {}}

Init ==
    /\ rev = 1 /\ policy = 1
    /\ held = NoEvidence /\ advice = NoAdvice /\ step = NoEvidence
    /\ read = NoEvidence /\ under = [held |-> 0, step |-> 0]
    /\ creating = NoRun /\ listed = FALSE
    /\ disk = NoRun /\ proc = NoRun /\ loaded = [e \in Editors |-> NoRun]
    /\ changes = 0

-----------------------------------------------------------------------------
(* Admission *)

Deciding == disk = NoRun /\ creating = NoRun

\* The evidence is revised or the policy is; once the Run is saved, evidence
\* can only stop a resume that carries it.
Change ==
    /\ changes < MaxChanges /\ changes' = changes + 1
    /\ \/ Deciding /\ rev' = rev + 1 /\ policy' = policy
       \/ proc = NoRun /\ policy' = policy + 1 /\ rev' = rev
    /\ UNCHANGED <<admission, listed, disk, proc, loaded>>

Others == <<rev, policy, disk, proc, loaded, changes>>

\* What a reader may find at the present revision; the two questions look at
\* different parts of it, and one revision may be judged differently later.
Readings == [rev : {rev}, shown : Shows, facts : {{}}]
StepReadings == [rev : {rev}, shown : {{}}, facts : FactSets]

Assess ==
    /\ Deciding
    /\ held' \in Readings \ {held} /\ read' = held'
    /\ under' = [under EXCEPT !.held = policy]
    /\ UNCHANGED <<advice, step, creating, listed, Others>>

\* The client reads the evidence again, and keeps the assessment it has.
Reread ==
    /\ Deciding /\ held # NoEvidence
    /\ read' \in Readings \ {read}
    /\ UNCHANGED <<held, advice, step, under, creating, listed, Others>>

AssessStep ==
    /\ Deciding /\ step = NoEvidence
    /\ step' \in StepReadings
    /\ under' = [under EXCEPT !.step = policy]
    /\ UNCHANGED <<held, read, advice, creating, listed, Others>>

\* Only stronger handling may replace an admitted next step, under the same policy; an
\* unchanged assessment is returned as it is.
UpgradeStep ==
    /\ Deciding /\ step # NoEvidence /\ under.step = policy
    /\ step' \in {e \in StepReadings : e = step \/ NextStep(e) \in Redirects(NextStep(step))}
    /\ UNCHANGED <<held, read, advice, under, creating, listed, Others>>

Consult ==
    /\ Deciding
    /\ \/ held # NoEvidence /\ advice' \in Advices(held, "recipe")
       \/ step # NoEvidence /\ advice' \in Advices(step, "next-step")
    /\ UNCHANGED <<held, read, step, under, creating, listed, Others>>

Admitted(choice, a, s) ==
    [recipe |-> choice, assessed |-> held, advice |-> a, policy |-> under.held,
     risk |-> "risk" \in held.shown \/ a.risk,
     step |-> IF s = NoEvidence THEN "none" ELSE NextStep(s),
     stages |-> {}, met |-> <<>>, upgrade |-> "none", atts |-> 0, status |-> "not-started"]

\* A next step may be retained if it admits work at the assessed revisions.
StepCarried(s) == s # NoEvidence => NextStep(s) \in {"architecture", "implementation"} /\ s.rev = held.rev

\* Mutant (CompactIsJustified): the assessment is not compared with the supplied evidence.
CurrentPolicy == under.held = policy

\* The assessment is what the supplied evidence gives under the present policy.
Current == held = read /\ under.held = policy

\* Mutant (ListedBeforeSaved): the catalog is written after the state.
RegisterLater(r) == creating' = r /\ listed' = listed

Register(r) == creating' = r /\ listed' = TRUE

Create(choice) ==
    /\ Deciding /\ held # NoEvidence /\ Current
    /\ \E a \in {NoAdvice, advice}, s \in {NoEvidence, step} :
          /\ AdviceBelongs(held, a) /\ choice \in Offered(held, a)
          /\ choice \in {"full", "compact"} /\ StepCarried(s)
          /\ Register(Admitted(choice, a, s))
    /\ UNCHANGED <<held, read, advice, step, under, Others>>

SaveRun ==
    /\ creating # NoRun
    /\ disk' = creating /\ creating' = NoRun
    /\ held' = NoEvidence /\ advice' = NoAdvice /\ step' = NoEvidence
    /\ under' = [held |-> 0, step |-> 0]
    /\ UNCHANGED <<rev, policy, read, listed, proc, loaded, changes>>

CreationFails ==
    /\ creating # NoRun /\ creating' = NoRun
    /\ UNCHANGED <<held, read, advice, step, under, listed, Others>>

-----------------------------------------------------------------------------
(* Execution by the graph *)

Executable(r) == r.policy = policy /\ r.upgrade = "none" /\ r.recipe = "full"

Start ==
    /\ disk # NoRun /\ proc = NoRun /\ disk.status # "done"
    /\ Concurrent \/ \A e \in Editors : loaded[e] = NoRun
    /\ Executable(disk)
    /\ proc' = [disk EXCEPT !.status = "in-progress"] /\ disk' = proc'
    /\ UNCHANGED <<rev, policy, admission, listed, loaded, changes>>

Checkpoint ==
    /\ proc # NoRun /\ proc.atts < MaxAttempts
    /\ proc' = [proc EXCEPT !.atts = @ + 1] /\ disk' = proc'
    /\ UNCHANGED <<rev, policy, admission, listed, loaded, changes>>

Leave(last) ==
    /\ proc # NoRun /\ proc' = NoRun /\ disk' = last
    /\ UNCHANGED <<rev, policy, admission, listed, loaded, changes>>

Finish == proc # NoRun /\ proc.atts > 0 /\ Leave([proc EXCEPT !.status = "done"])
Die == Leave(disk)

-----------------------------------------------------------------------------
(* Commands on the workflow record *)

\* Mutant (RatchetHolds): evidence is recorded under the upgraded recipe.
ActiveThough(r) == TRUE

\* Nothing continues under the admitted recipe once it was upgraded.
Active(r) == r.upgrade = "none"

\* Requirements are met in the recipe's order, after every stage.
Requirable(r) ==
    IF Stages(r.recipe) \subseteq r.stages /\ Len(r.met) < Len(Requirements(r.recipe))
    THEN {Requirements(r.recipe)[Len(r.met) + 1]} ELSE {}

Triggers == {"ambiguity", "unverifiable", "architecture", "scope"}
TargetOf(t) == IF t \in {"ambiguity", "unverifiable"} THEN "clarification" ELSE "full"

\* A Driver's typed result names a fact, never the target; most name none.
DriverTriggers == [ambiguity |-> "ambiguity", conflict |-> "ambiguity",
                   decision |-> "architecture", write_scope |-> "scope"]

Upgrade(r, t) == [r EXCEPT !.upgrade = TargetOf(t)]
Upgrades(r, T) == IF r.recipe = "compact" /\ r.upgrade = "none" THEN {Upgrade(r, t) : t \in T} ELSE {}

Transitions(r) ==
    (IF Active(r)
     THEN {[r EXCEPT !.stages = @ \cup {s}] : s \in Stages(r.recipe) \ r.stages}
          \cup {[r EXCEPT !.met = Append(@, q)] : q \in Requirable(r)}
     ELSE {})
    \cup Upgrades(r, Triggers)
    \cup Upgrades(r, {DriverTriggers[x] : x \in DOMAIN DriverTriggers})

Load(e) ==
    /\ disk # NoRun /\ disk.status # "done" /\ loaded[e] = NoRun
    /\ Concurrent \/ (proc = NoRun /\ \A f \in Editors : loaded[f] = NoRun)
    /\ loaded' = [loaded EXCEPT ![e] = disk]
    /\ UNCHANGED <<rev, policy, admission, listed, disk, proc, changes>>

\* The transition is applied to what was loaded, and all of it is saved.
Amend(e) ==
    /\ loaded[e] # NoRun
    /\ \/ disk' \in {r \in Transitions(loaded[e]) : Linked(r)}
       \/ disk' = disk
    /\ loaded' = [loaded EXCEPT ![e] = NoRun]
    /\ UNCHANGED <<rev, policy, admission, listed, proc, changes>>

Next ==
    \/ Change \/ Assess \/ Reread \/ AssessStep \/ UpgradeStep \/ Consult
    \/ \E c \in {"full", "compact"} : Create(c)
    \/ SaveRun \/ CreationFails
    \/ Start \/ Checkpoint \/ Finish \/ Die
    \/ \E e \in Editors : Load(e) \/ Amend(e)

Spec == Init /\ [][Next]_vars

-----------------------------------------------------------------------------
(* Properties *)

\* Every saved Run passes the validation of its linkage: the next load reads it.
TypeOK == /\ {held, step} \subseteq Evidence /\ advice \in Advice
          /\ \A r \in {disk, creating, proc} \cup {loaded[e] : e \in Editors} :
                r = NoRun \/ Linked(r)

\* A Run is compact only on evidence without a configured risk, and on an uncertain one only
\* with advice about the very revisions that were assessed; and that evidence is the last the
\* client read, whatever it had assessed or been advised on before.
CompactIsJustified ==
    disk # NoRun /\ disk.recipe = "compact" =>
        /\ "risk" \notin disk.assessed.shown
        /\ disk.assessed.shown # {"complete"} => disk.advice # NoAdvice
        /\ disk.advice # NoAdvice => disk.advice.rev = disk.assessed.rev
        /\ disk.assessed = read

\* No Run is saved that the catalog does not list, whatever fails in between.
ListedBeforeSaved == disk # NoRun => listed

\* Nothing recorded is lost: stages, requirements and attempts only grow.
RecordStands ==
    [][disk # NoRun => /\ disk.stages \subseteq disk'.stages
                       /\ IsPrefix(disk.met, disk'.met)
                       /\ disk.atts <= disk'.atts
                       /\ disk.status = "done" => disk'.status = "done"]_vars

\* An upgrade is final: the workflow it stopped gains no evidence and no attempt,
\* never counts as complete, and is not taken back by a writer with an older copy.
RatchetHolds ==
    /\ RecordStands
    /\ [][disk # NoRun /\ disk.upgrade # "none" =>
             /\ disk'.upgrade = disk.upgrade /\ disk'.stages = disk.stages
             /\ disk'.met = disk.met /\ disk'.atts = disk.atts
             /\ ~IsComplete(disk')]_vars
=============================================================================
