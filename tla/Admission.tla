------------------------------ MODULE Admission ------------------------------
(***************************************************************************)
(* The deterministic questions asked before any work: does the evidence    *)
(* admit a compact workflow, what is the next step, and may a human's      *)
(* choice stand on the advice it was given?  All are pure functions of the *)
(* revision-pinned evidence.                                               *)
(*                                                                         *)
(* A definition under a "Mutant (P)" comment is the next one with a        *)
(* plausible bug that breaks property P; no specification uses it.         *)
(***************************************************************************)
EXTENDS Naturals, Sequences, FiniteSets

\* What the references of a snapshot show: every required compact fact is
\* established, a configured hard risk, or a reference that is stale,
\* contradictory or carries an unconfigured risk.
Shown == {"complete", "risk", "doubt"}

NextStepFacts == {"intent", "insufficient", "work", "no-work", "architecture"}

\* rev stands for the revisions of the work item and its specification.
Evidence == [rev : Nat, shown : SUBSET Shown, facts : SUBSET NextStepFacts]

\* A configured prohibition wins before completeness; doubt is never compact.
WorkflowOutcome(e) ==
    CASE "risk" \in e.shown -> "full-required"
      [] "risk" \notin e.shown /\ e.shown # {"complete"} -> "uncertain"
      [] OTHER -> "compact-admissible"

Contradictory(f) == {"intent", "insufficient"} \subseteq f \/ {"work", "no-work"} \subseteq f

NextStep(e) ==
    CASE Contradictory(e.facts) -> "clarification"
      [] "no-work" \in e.facts /\ ~Contradictory(e.facts) -> "no-work"
      [] "insufficient" \in e.facts /\ ~Contradictory(e.facts) /\ "no-work" \notin e.facts
            -> "specification"
      [] {"work", "intent"} \subseteq e.facts /\ e.facts \cap {"insufficient", "no-work"} = {}
            -> IF "architecture" \in e.facts THEN "architecture" ELSE "implementation"
      [] OTHER -> "clarification"

NeedsTactician(e) == NextStep(e) = "clarification"

\* Re-admission only redirects to stronger handling before execution.
Redirects(s) == CASE s \in {"implementation", "architecture"} -> {"specification", "clarification"}
                  [] s = "specification" -> {"clarification"}
                  [] OTHER -> {}

-----------------------------------------------------------------------------
(* The Tactician's advice *)

NoAdvice == [kind |-> "none", rev |-> 0, risk |-> FALSE]
Advice == [kind : {"none", "recipe", "next-step", "clarification"}, rev : Nat, risk : BOOLEAN]

\* A recipe admission gets no next step; a next step is asked for only if unclear.
Advices(e, question) ==
    IF question = "recipe" /\ WorkflowOutcome(e) = "uncertain"
    THEN [kind : {"recipe", "clarification"}, rev : {e.rev}, risk : BOOLEAN]
    ELSE IF question = "next-step" /\ NeedsTactician(e)
    THEN [kind : {"recipe", "next-step", "clarification"}, rev : {e.rev}, risk : BOOLEAN]
    ELSE {}

\* Advice is only for an uncertain admission and about the assessed revisions.
AdviceBelongs(e, a) == a # NoAdvice => WorkflowOutcome(e) = "uncertain" /\ a.rev = e.rev

\* The choices a human may make; both kinds of execution name an exact recipe.
Offered(e, a) ==
    {"full", "clarification", "cancelled"} \cup
    (IF WorkflowOutcome(e) = "compact-admissible"
        \/ (WorkflowOutcome(e) = "uncertain" /\ a # NoAdvice)
     THEN {"compact"} ELSE {})

\* The next step s may be admitted on e and the advice a.
StepAdmitted(e, a, s) ==
    IF NeedsTactician(e)
    THEN a.kind = "next-step" /\ s # "no-work" /\ a.rev = e.rev
    ELSE a = NoAdvice /\ s = NextStep(e)
=============================================================================
