------------------------------ MODULE RunState ------------------------------
(***************************************************************************)
(* The durable record of one Battalion Run (battalion/state/models.py) and *)
(* the pure functions the graph and the application apply to it: routing,  *)
(* interrupt triggers, recovery assessment and resume-target inference.    *)
(*                                                                         *)
(* Data is reduced to what control depends on.  An execution identity is   *)
(* the attempt's position in the execution record; a rejection cause is a  *)
(* value already stripped and lower-cased; infra, malformed-output and     *)
(* out-of-scope failures are one "failure" (they route alike).             *)
(*                                                                         *)
(* A definition under a "Mutant" comment is the next one with a plausible  *)
(* bug in it.  No specification uses it: replacing the real definition by  *)
(* it shows that the property named in the comment can fail.               *)
(***************************************************************************)
EXTENDS Naturals, Sequences

CONSTANTS
    BudgetLimit,        \* RunState.budget.limit: execution turns of the Run
    ManualCheckpoints,  \* RunState.manual_checkpoints: declared phase names
    Causes              \* normalised causes a Reviewer may articulate

ASSUME RunConfig == BudgetLimit \in Nat

Drivers   == {"driver_red", "driver_green"}
Reviewers == {"reviewer_red", "reviewer_green", "reviewer_refactor"}
RoleNodes == {"architect", "refactorer"} \cup Drivers \cup Reviewers
Nodes     == RoleNodes \cup {"done", "awaiting_human", "blocked"}

\* Queued human context may target these nodes only, never a Reviewer.
InterventionTargets == RoleNodes \ Reviewers

Stages == {"none", "interrupted-before-attempt", "attempt-created",
           "attempt-started", "attempt-completed", "outcome-checkpointed"}
Phases == Nodes \cup {"driver", "reviewer", "recursion_limit_exceeded"}
Statuses == {"not-started", "in-progress", "blocked", "awaiting-human", "done"}
Triggers == {"manual-checkpoint", "budget-exceeded", "same-root-cause-twice",
             "failure", "role-escalation"}
Results == {"open", "accepted", "rejected", "failed", "corrected", "violation",
            "blocked", "escalated"}

NoTarget   == "none"
NoProgress == [stage |-> "none", att |-> 0, next |-> "architect", corr |-> FALSE]
FirstCursor == [stage |-> "interrupted-before-attempt", att |-> 0, next |-> "architect",
                corr |-> FALSE]
NoIntent   == [action |-> 0, pending |-> FALSE]

\* The fixed edges out of the four producing nodes.
NextOnSuccess == [n \in RoleNodes \ Reviewers |->
    CASE n = "architect"    -> "driver_red"
      [] n = "driver_red"   -> "reviewer_red"
      [] n = "driver_green" -> "reviewer_green"
      [] n = "refactorer"   -> "reviewer_refactor"]

AcceptedNext == [n \in Reviewers |->
    CASE n = "reviewer_red"      -> "driver_green"
      [] n = "reviewer_green"    -> "refactorer"
      [] n = "reviewer_refactor" -> "done"]

\* Both the rejected edge of a Reviewer and the node a paused review resumes at.
RejectedNext == [n \in Reviewers |->
    CASE n = "reviewer_red"      -> "driver_red"
      [] n = "reviewer_green"    -> "driver_green"
      [] n = "reviewer_refactor" -> "refactorer"]

\* The phase a rejecting review leaves behind (GREEN reports plain "driver").
RetryPhase(n) == IF n = "reviewer_green" THEN "driver" ELSE RejectedNext[n]

\* The phase a producing role leaves behind, tested against manual checkpoints.
HandOffPhase(n) == IF n = "architect" THEN "driver" ELSE "reviewer"

-----------------------------------------------------------------------------
(* Types *)

Progress      == [stage : Stages, att : Nat, next : Nodes, corr : BOOLEAN]
Intent        == [action : Nat, pending : BOOLEAN]
LogEntry      == [trigger : Triggers, next : RoleNodes, att : Nat, resolved : BOOLEAN]
Rejection     == [at : Reviewers, cause : Causes]
Attempt       == [node : RoleNodes, result : Results]
Intervention  == [target : InterventionTargets, to : Nat]
HumanAction   == [kind : {"interrupt", "block", "intervention"}, on : Nat,
                  disp : {"applied", "queued", "delivered"}]

RunStates == [status : Statuses, phase : Phases, target : Phases \cup {NoTarget},
              log : Seq(LogEntry), rej : Seq(Rejection), used : Nat,
              progress : Progress, intent : Intent, attempts : Seq(Attempt),
              queue : Seq(Intervention), human : Seq(HumanAction)]

\* create_initial_state: nothing has run, no cursor, no decision.
FreshRun == [status |-> "not-started", phase |-> "architect", target |-> NoTarget,
             log |-> <<>>, rej |-> <<>>, used |-> 0, progress |-> NoProgress,
             intent |-> NoIntent, attempts |-> <<>>, queue |-> <<>>, human |-> <<>>]

-----------------------------------------------------------------------------
(* Routing and recovery *)

\* Mutant (DoneIsReviewed): only the RED review's edge is conditional.
SuccessorUnlessRed(s, n) ==
    CASE s.status = "awaiting-human" -> "awaiting_human"
      [] s.status = "blocked"        -> "blocked"
      [] OTHER -> IF n \notin Reviewers THEN NextOnSuccess[n]
                  ELSE IF n = "reviewer_red" /\ s.phase = RejectedNext[n] THEN RejectedNext[n]
                  ELSE AcceptedNext[n]

Successor(s, n) ==
    CASE s.status = "awaiting-human" -> "awaiting_human"
      [] s.status = "blocked"        -> "blocked"
      [] OTHER -> IF n \notin Reviewers        THEN NextOnSuccess[n]
                  ELSE IF s.phase = AcceptedNext[n] THEN AcceptedNext[n]
                  ELSE RejectedNext[n]

\* Mutant (NoReplay): a started attempt is replayed while the Run is in progress.
TerminalUnlessInProgress(s) ==
    s.progress.stage = "attempt-started" /\ s.status # "in-progress"

\* An attempt that durably started has unknown effects: replay is refused.
Terminal(s) == s.progress.stage = "attempt-started"

\* Mutant (LegalSuccession): the last interrupt is preferred to the cursor.
InferFromLogFirst(s) ==
    IF s.log # <<>> THEN s.log[Len(s.log)].next
    ELSE IF s.progress.stage # "none" THEN s.progress.next
    ELSE s.phase

InferResumeTarget(s) ==
    IF s.progress.stage # "none" /\ s.progress.next \notin {"awaiting_human", "blocked"}
      THEN s.progress.next
    ELSE IF s.status = "blocked" /\ s.phase \in Drivers \cup {"refactorer"}
      THEN s.phase
    ELSE IF s.log # <<>> THEN s.log[Len(s.log)].next
    ELSE IF s.rej # <<>> THEN RejectedNext[s.rej[Len(s.rej)].at]
    ELSE IF s.target # NoTarget THEN s.target
    ELSE s.phase

\* The conditional entry point; any unknown name restarts at Architect.
EntryNode(target) == IF target \in Nodes THEN target ELSE "architect"

-----------------------------------------------------------------------------
(* Interrupt triggers *)

BudgetExhausted(s) == s.used >= BudgetLimit

\* Counts every rejection the Run ever recorded, at any checkpoint.
RepeatedCause(s) == \E i, j \in DOMAIN s.rej : i < j /\ s.rej[i] = s.rej[j]

\* check_any_trigger on a successful hand-off, first match wins.  The
\* role-definition trigger cannot fire: no role changes write_scope.
TriggerOn(s, nextPhase) ==
    CASE nextPhase \in ManualCheckpoints -> "manual-checkpoint"
      [] nextPhase \notin ManualCheckpoints /\ BudgetExhausted(s) -> "budget-exceeded"
      [] nextPhase \notin ManualCheckpoints /\ ~BudgetExhausted(s) /\ RepeatedCause(s)
            -> "same-root-cause-twice"
      [] OTHER -> "none"

\* Log an interrupt raised at the end of attempt k, or before its correction.
LogInterrupt(s, trigger, resumeNode, k) ==
    [s EXCEPT !.status = "awaiting-human",
              !.phase  = "awaiting_human",
              !.log    = Append(@, [trigger |-> trigger, next |-> resumeNode,
                                    att |-> k, resolved |-> FALSE])]

-----------------------------------------------------------------------------
(* The end of an attempt *)

\* Mutant (RecoveryEvidence): the cursor advances before the record is completed.
FinishLeavingAttemptOpen(s, n, result, corr) ==
    [s EXCEPT !.progress = [stage |-> "attempt-completed", att |-> s.progress.att,
                            next |-> IF corr THEN n ELSE Successor(s, n),
                            corr |-> corr],
              !.intent.pending = FALSE]

\* finish(): complete the attempt, store the successor, consume the intent.
Finish(s, n, result, corr) ==
    LET k == s.progress.att IN
    [s EXCEPT !.attempts[k].result = result,
              !.progress = [stage |-> "attempt-completed", att |-> k,
                            next |-> IF corr THEN n ELSE Successor(s, n),
                            corr |-> corr],
              !.intent.pending = FALSE]

\* A valid role outcome: pause on the first trigger that fires, else hand off.
HandOff(s, n, result, nextPhase, resumeNode) ==
    LET trigger == TriggerOn(s, nextPhase)
        k       == s.progress.att
    IN  Finish(IF trigger = "none" THEN s ELSE LogInterrupt(s, trigger, resumeNode, k),
               n, result, FALSE)

\* Mutant (KeepsContract): the failure is recorded but no interrupt is raised.
FailSilently(s, n, result) == Finish(s, n, result, FALSE)

\* A failed attempt pauses for a human and will be retried at the same node.
PauseOnFailure(s, n, result) ==
    Finish(LogInterrupt(s, "failure", n, s.progress.att), n, result, FALSE)

\* Mutant (InterventionsReachTheirAttempt): the target is not compared.
DeliverToAnyone(s, n, k) ==
    LET hit(i) == s.queue[i].to = 0 IN
    [s EXCEPT
        !.queue = [i \in DOMAIN s.queue |->
                      IF hit(i) THEN [s.queue[i] EXCEPT !.to = k] ELSE s.queue[i]],
        !.human = [j \in DOMAIN s.human |->
                      IF s.human[j].kind = "intervention" /\ hit(s.human[j].on)
                      THEN [s.human[j] EXCEPT !.disp = "delivered"] ELSE s.human[j]]]

\* Deliver every queued intervention for node n to attempt k, exactly once.
Deliver(s, n, k) ==
    LET hit(i) == s.queue[i].target = n /\ s.queue[i].to = 0 IN
    [s EXCEPT
        !.queue = [i \in DOMAIN s.queue |->
                      IF hit(i) THEN [s.queue[i] EXCEPT !.to = k] ELSE s.queue[i]],
        !.human = [j \in DOMAIN s.human |->
                      IF s.human[j].kind = "intervention" /\ hit(s.human[j].on)
                      THEN [s.human[j] EXCEPT !.disp = "delivered"] ELSE s.human[j]]]
=============================================================================
