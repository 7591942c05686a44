------------------------------ MODULE RunGraph ------------------------------
(***************************************************************************)
(* One Run executed by one process at a time: the LangGraph node scaffold  *)
(* of battalion/graph.py with its durable checkpoints, the application's   *)
(* start, resume and queue operations, and crashes between any two durable *)
(* writes.  "disk" is the saved state file; "mem" is the RunState in the   *)
(* process, which a crash or an unexpected exception discards.             *)
(*                                                                         *)
(* pc names the last thing the process made durable:                       *)
(*   idle      no process                                                  *)
(*   enter     about to run node "at"                                      *)
(*   created   the attempt and its interventions are saved                 *)
(*   started   "attempt-started" is saved; the role is running             *)
(*   finished  the attempt's outcome (or a correction pause) is saved      *)
(*   routed    the outcome is marked checkpointed; the edge is chosen next *)
(*   ended     the graph reached END; the final save is pending            *)
(*                                                                         *)
(* Definitions under a "Mutant" comment are as in RunState.                *)
(***************************************************************************)
EXTENDS RunState

CONSTANTS
    MaxTurns,          \* graph recursion limit of one invocation (50 in the code)
    Supervised,        \* TRUE: only desktop workers execute the Run, so the
                       \* worker guard excludes interventions while it executes
    MaxInvocations,    \* bound: start plus resumes
    MaxAdverse,        \* bound: outcomes other than success
    MaxCrashes,        \* bound: process deaths
    MaxInterventions,  \* bound: queued human contexts
    Addressees         \* bound: the roles a human queues context for

ASSUME Bounds ==
    /\ {MaxTurns, MaxInvocations, MaxAdverse, MaxCrashes, MaxInterventions} \subseteq Nat
    /\ Supervised \in BOOLEAN
    /\ Addressees \subseteq InterventionTargets

VARIABLES
    disk,         \* the state file
    mem,          \* the process's RunState; equal to disk while idle
    pc, at,       \* where the process is, and in which node
    turns,        \* nodes executed by this invocation
    invocations, adverse, crashes   \* bounded counters

vars == <<disk, mem, pc, at, turns, invocations, adverse, crashes>>
counters == <<invocations, adverse, crashes>>

Init ==
    /\ mem  = FreshRun
    /\ disk = [FreshRun EXCEPT !.progress = FirstCursor]
    /\ pc = "enter" /\ at = "architect" /\ turns = 1
    /\ invocations = 1 /\ adverse = 0 /\ crashes = 0

-----------------------------------------------------------------------------
(* The scaffold of a role node *)

Correcting == mem.progress.corr

\* Mutant (NoWorkWithoutDecision): corrections are exempt from the budget.
CorrectionNeverHeld == FALSE

\* A correction needs budget unless a human has just authorised going on.
CorrectionHeld == Correcting /\ BudgetExhausted(mem) /\ ~mem.intent.pending

AtRole == pc = "enter" /\ at \in RoleNodes /\ ~Terminal(mem)

\* The Driver admission gate, evaluated before anything else of the attempt,
\* may save its reconciliation evidence.  The handoff record is not modelled
\* here; what matters is that the in-memory state becomes durable.
GateCheckpoint ==
    /\ AtRole /\ at \in Drivers
    /\ disk' = mem
    /\ UNCHANGED <<mem, pc, at, turns, counters>>

\* The gate refuses the attempt: checkpoint, then the invocation ends.
GateRejects ==
    /\ AtRole /\ at \in Drivers
    /\ adverse < MaxAdverse /\ adverse' = adverse + 1
    /\ disk' = mem
    /\ pc' = "idle"
    /\ UNCHANGED <<mem, at, turns, invocations, crashes>>

HoldCorrection ==
    /\ AtRole /\ CorrectionHeld
    /\ mem'  = LogInterrupt(mem, "budget-exceeded", at, mem.progress.att)
    /\ disk' = mem'
    /\ pc' = "finished"
    /\ UNCHANGED <<at, turns, counters>>

\* Mutant (NoOrphanAttempt): a retry after a crash always opens a new attempt.
NeverReuse == FALSE

\* The attempt a crash left created but not started is the one to run.
Reusing == mem.progress.stage = "attempt-created"

CreatedCursor(k) ==
    [stage |-> "attempt-created", att |-> k, next |-> at, corr |-> Correcting]

\* Register the attempt, or reuse the one a crash left unstarted, and deliver
\* the queued interventions in the same atomic save.
CreateAttempt ==
    /\ AtRole /\ ~CorrectionHeld
    /\ LET k == IF Reusing THEN mem.progress.att ELSE Len(mem.attempts) + 1
           s == [mem EXCEPT
                   !.attempts = IF Reusing THEN @
                                ELSE Append(@, [node |-> at, result |-> "open"]),
                   !.progress = CreatedCursor(k)]
       IN  mem' = IF at \in Reviewers THEN s ELSE Deliver(s, at, k)
    /\ disk' = mem'
    /\ pc' = "created"
    /\ UNCHANGED <<at, turns, counters>>

\* Mutant (BudgetCountsStarts): a correction is free.
StartFreeCorrection ==
    /\ pc = "created"
    /\ mem'  = [mem EXCEPT !.used = IF Correcting THEN @ ELSE @ + 1,
                           !.progress.stage = "attempt-started"]
    /\ disk' = mem'
    /\ pc' = "started"
    /\ UNCHANGED <<at, turns, counters>>

\* Spend one budget unit and mark the attempt started before calling the role.
StartAttempt ==
    /\ pc = "created"
    /\ mem'  = [mem EXCEPT !.used = @ + 1, !.progress.stage = "attempt-started"]
    /\ disk' = mem'
    /\ pc' = "started"
    /\ UNCHANGED <<at, turns, counters>>

-----------------------------------------------------------------------------
(* What the role returns *)

\* The attempt ends in state s, which is saved; control goes to label next.
Conclude(s, next) ==
    /\ mem' = s /\ disk' = s /\ pc' = next
    /\ UNCHANGED <<at, turns>>

Adversity == /\ adverse < MaxAdverse /\ adverse' = adverse + 1
             /\ UNCHANGED <<invocations, crashes>>

RoleSucceeds ==
    /\ pc = "started" /\ at \notin Reviewers
    /\ Conclude(HandOff([mem EXCEPT !.status = "in-progress", !.phase = HandOffPhase(at)],
                        at, "accepted", HandOffPhase(at), NextOnSuccess[at]),
                "finished")
    /\ UNCHANGED counters

ReviewAccepts ==
    /\ pc = "started" /\ at \in Reviewers
    /\ LET phase  == AcceptedNext[at]
           status == IF phase = "done" THEN "done" ELSE "in-progress"
       IN  Conclude(HandOff([mem EXCEPT !.status = status, !.phase = phase],
                            at, "accepted", phase, RejectedNext[at]),
                    "finished")
    /\ UNCHANGED counters

ReviewRejects(cause) ==
    /\ pc = "started" /\ at \in Reviewers
    /\ Conclude(HandOff([mem EXCEPT !.status = "in-progress", !.phase = RetryPhase(at),
                                    !.rej = Append(@, [at |-> at, cause |-> cause])],
                        at, "rejected", RetryPhase(at), RejectedNext[at]),
                "finished")
    /\ Adversity

\* Provider failure, unusable output, out-of-scope write or harness error.
RoleFails ==
    /\ pc = "started"
    /\ Conclude(PauseOnFailure(mem, at, "failed"), "finished")
    /\ Adversity

\* A pre-write contract violation: one automatic correction, then a pause.
RoleViolatesContract ==
    /\ pc = "started" /\ at \in Drivers \cup {"architect"}
    /\ IF Correcting
       THEN Conclude(PauseOnFailure(mem, at, "violation"), "finished")
       ELSE Conclude(Finish([mem EXCEPT !.phase = at, !.target = at], at, "corrected", TRUE),
                     "enter")
    /\ Adversity

DriverBlocks ==
    /\ pc = "started" /\ at \in Drivers
    /\ Conclude(Finish([mem EXCEPT !.status = "blocked", !.phase = at, !.target = at],
                       at, "blocked", FALSE),
                "finished")
    /\ Adversity

DriverEscalates ==
    /\ pc = "started" /\ at \in Drivers
    /\ Conclude(Finish([LogInterrupt(mem, "role-escalation", at, mem.progress.att)
                            EXCEPT !.target = at],
                       at, "escalated", FALSE),
                "finished")
    /\ Adversity

-----------------------------------------------------------------------------
(* Routing and the end of an invocation *)

\* The checkpointed() wrapper around every node.
Checkpointed(s) == IF s.progress.stage = "none" THEN s
                   ELSE [s EXCEPT !.progress.stage = "outcome-checkpointed"]

CheckpointOutcome ==
    /\ pc = "finished"
    /\ mem' = Checkpointed(mem) /\ disk' = mem'
    /\ pc' = "routed"
    /\ UNCHANGED <<at, turns, counters>>

Route ==
    /\ pc = "routed" /\ turns < MaxTurns
    /\ at' = Successor(mem, at)
    /\ turns' = turns + 1
    /\ pc' = "enter"
    /\ UNCHANGED <<disk, mem, counters>>

\* The recursion limit: a pause, a block or DONE stands, anything else blocks.
RecursionLimit ==
    /\ pc = "routed" /\ turns >= MaxTurns
    /\ mem' = IF mem.status \in {"awaiting-human", "blocked", "done"} THEN mem
              ELSE [mem EXCEPT !.status = "blocked", !.phase = "recursion_limit_exceeded"]
    /\ pc' = "ended"
    /\ UNCHANGED <<disk, at, turns, counters>>

StopNode ==
    /\ pc = "enter" /\ at \notin RoleNodes
    /\ mem' = Checkpointed(
           CASE at = "done"           -> [mem EXCEPT !.status = "done", !.phase = "done"]
             [] at = "awaiting_human" -> [mem EXCEPT !.status = "awaiting-human",
                                                     !.phase = "awaiting_human"]
             [] at = "blocked"        -> [mem EXCEPT !.status = "blocked"])
    /\ disk' = mem'
    /\ pc' = "ended"
    /\ UNCHANGED <<at, turns, counters>>

\* Mutant (TypeOK): the result of the graph is returned but not saved.
FinalReturn ==
    /\ pc = "ended"
    /\ pc' = "idle"
    /\ UNCHANGED <<disk, mem, at, turns, counters>>

FinalSave ==
    /\ pc = "ended"
    /\ disk' = mem
    /\ pc' = "idle"
    /\ UNCHANGED <<mem, at, turns, counters>>

\* Process death, or an exception that is not one of the role outcomes above.
Crash ==
    /\ pc # "idle" /\ crashes < MaxCrashes
    /\ crashes' = crashes + 1
    /\ pc' = "idle" /\ mem' = disk
    /\ UNCHANGED <<disk, at, turns, invocations, adverse>>

-----------------------------------------------------------------------------
(* The application operations of a human *)

\* Save the prepared state, then enter the graph at its inferred target.
Launch(s) ==
    /\ pc = "idle" /\ invocations < MaxInvocations
    /\ ~Terminal(s)
    /\ LET target == InferResumeTarget(s) IN
       /\ disk' = s
       /\ mem'  = [s EXCEPT !.target = target, !.status = "in-progress", !.phase = target]
       /\ at'   = EntryNode(target)
    /\ pc' = "enter" /\ turns' = 1
    /\ invocations' = invocations + 1
    /\ UNCHANGED <<adverse, crashes>>

\* Record decision d, pair it with a pending intent and drop the cursor, except
\* that a held correction keeps its instructions and its consumed allowance.
Decide(s, d) ==
    LET last == s.log[Len(s.log)]
        held == /\ d.kind = "interrupt" /\ last.trigger = "budget-exceeded"
                /\ s.progress.corr /\ s.progress.next = last.next
    IN  [s EXCEPT !.human    = Append(@, d),
                  !.intent   = [action |-> Len(s.human) + 1, pending |-> TRUE],
                  !.progress = IF held THEN @ ELSE NoProgress,
                  !.target   = NoTarget]

Unresolved(s) == {i \in DOMAIN s.log : ~s.log[i].resolved}
BlockedAttempts(s) == {k \in DOMAIN s.attempts : s.attempts[k].result = "blocked"}
Latest(S) == CHOOSE x \in S : \A y \in S : y <= x

\* Mutant (DecisionsMatchPauses): a repeated resume records its decision again.
ReplayRecordsAgain ==
    /\ disk.intent.pending
    /\ Launch([disk EXCEPT !.human = Append(@, disk.human[disk.intent.action])])

\* The same action ID, or none, while its intent is pending: nothing is added.
ReplayDecision ==
    /\ disk.intent.pending
    /\ Launch(disk)

ResolveInterrupt ==
    /\ disk.status = "awaiting-human" /\ Unresolved(disk) # {}
    /\ ~Terminal(disk)
    /\ LET i == Latest(Unresolved(disk)) IN
       Launch(Decide([disk EXCEPT !.log[i].resolved = TRUE],
                     [kind |-> "interrupt", on |-> i, disp |-> "applied"]))

\* A fresh action ID on a typed block records a decision even if one is pending.
ResolveBlock ==
    /\ disk.status = "blocked" /\ disk.phase # "recursion_limit_exceeded"
    /\ BlockedAttempts(disk) # {} /\ ~Terminal(disk)
    /\ Launch(Decide(disk, [kind |-> "block", on |-> Latest(BlockedAttempts(disk)),
                            disp |-> "applied"]))

\* Mutant (EventuallyFinishes): a Run the recursion limit stopped is refused.
ResumeUnlessLimited ==
    /\ disk.status \in {"not-started", "in-progress", "done"}
    /\ Launch(disk)

\* "Resuming anyway": an interrupted, limited or finished Run needs no decision.
ResumeAnyway ==
    /\ \/ disk.status \in {"not-started", "in-progress", "done"}
       \/ disk.status = "blocked" /\ (\/ disk.phase = "recursion_limit_exceeded"
                                      \/ BlockedAttempts(disk) = {})
    /\ Launch(disk)

\* Mutant (AppendOnly): the worker guard is skipped.
QueueUnguarded(target) ==
    /\ Len(disk.queue) < MaxInterventions
    /\ disk' = [disk EXCEPT
                  !.queue = Append(@, [target |-> target, to |-> 0]),
                  !.human = Append(@, [kind |-> "intervention", on |-> Len(disk.queue) + 1,
                                       disp |-> "queued"])]
    /\ mem' = IF pc = "idle" THEN disk' ELSE mem
    /\ UNCHANGED <<pc, at, turns, counters>>

\* Read-modify-write of the state file, under the worker guard only.  The
\* window between its read and its write is not modelled.
QueueIntervention(target) ==
    /\ Len(disk.queue) < MaxInterventions
    /\ Supervised => pc = "idle"
    /\ disk' = [disk EXCEPT
                  !.queue = Append(@, [target |-> target, to |-> 0]),
                  !.human = Append(@, [kind |-> "intervention", on |-> Len(disk.queue) + 1,
                                       disp |-> "queued"])]
    /\ mem' = IF pc = "idle" THEN disk' ELSE mem
    /\ UNCHANGED <<pc, at, turns, counters>>

-----------------------------------------------------------------------------
Role == \/ RoleSucceeds \/ ReviewAccepts \/ RoleFails \/ RoleViolatesContract
        \/ DriverBlocks \/ DriverEscalates \/ \E c \in Causes : ReviewRejects(c)

Process == \/ HoldCorrection \/ CreateAttempt \/ StartAttempt \/ Role
           \/ CheckpointOutcome \/ Route \/ RecursionLimit \/ StopNode \/ FinalSave

Resume == ReplayDecision \/ ResolveInterrupt \/ ResolveBlock \/ ResumeAnyway

Next == \/ Process \/ GateCheckpoint \/ GateRejects \/ Crash \/ Resume
        \/ \E t \in Addressees : QueueIntervention(t)

Spec == Init /\ [][Next]_vars

=============================================================================
