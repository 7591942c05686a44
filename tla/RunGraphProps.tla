--------------------------- MODULE RunGraphProps ----------------------------
(***************************************************************************)
(* What a Run promises: properties of RunGraph over the durable record and *)
(* the record in the executing process.                                    *)
(***************************************************************************)
EXTENDS RunGraph

Records == {disk, mem}
Decisions(s) == {j \in DOMAIN s.human : s.human[j].kind # "intervention"}

\* The attempt that attempt k of s hands on to, if there is one.
Followed(s) == {k \in DOMAIN s.attempts : k < Len(s.attempts)}

\* Attempt k ended in an interrupt.
Paused(s, k) == \E i \in DOMAIN s.log : s.log[i].att = k

\* Attempt k ended in an interrupt or a block that a human has decided on.
Decided(s, k) ==
    \E j \in DOMAIN s.human :
        \/ s.human[j].kind = "interrupt" /\ s.log[s.human[j].on].att = k
        \/ s.human[j].kind = "block" /\ s.human[j].on = k

-----------------------------------------------------------------------------
(* Types and evidence *)

\* The state file and the process hold a well-formed RunState, and an idle Run
\* has no record but the file's.
TypeOK ==
    /\ disk \in RunStates /\ mem \in RunStates
    /\ pc \in {"idle", "enter", "created", "started", "finished", "routed", "ended"}
    /\ at \in Nodes /\ turns \in Nat
    /\ {invocations, adverse, crashes} \subseteq Nat
    /\ pc = "idle" => mem = disk

\* What RunState.validate_recovery_evidence demands of every saved or loaded
\* state: the cursor names one attempt, that attempt is unfinished exactly while
\* the cursor says so, and the pending intent names a recorded decision.  A
\* violation would make the state file unreadable by the next resume.
RecoveryEvidence ==
    \A s \in Records :
        /\ s.progress.att # 0 =>
              /\ s.progress.att \in DOMAIN s.attempts
              /\ IF s.progress.stage \in {"attempt-created", "attempt-started"}
                 THEN s.attempts[s.progress.att] = [node |-> s.progress.next, result |-> "open"]
                 ELSE s.attempts[s.progress.att].result # "open"
        /\ s.intent.action # 0 => s.intent.action \in Decisions(s)

\* No attempt is left open behind the cursor's back: across crashes, corrections
\* and decisions that drop the cursor, an unfinished attempt is always the newest
\* one and the one the cursor would resume.
NoOrphanAttempt ==
    \A s \in Records : \A k \in DOMAIN s.attempts :
        s.attempts[k].result = "open" =>
            /\ k = Len(s.attempts) /\ k = s.progress.att
            /\ s.progress.stage \in {"attempt-created", "attempt-started"}

\* The budget counts exactly the attempts whose role was ever called: reusing an
\* unstarted attempt after a crash is free, a correction is not.
BudgetCountsStarts ==
    \A s \in Records :
        s.used = Len(s.attempts) - (IF s.progress.stage = "attempt-created" THEN 1 ELSE 0)

-----------------------------------------------------------------------------
(* Order of the work *)

\* Where the attempt after a settled attempt k may run.
NextAfter(s, k) ==
    LET n == s.attempts[k].node
        r == s.attempts[k].result
    IN  CASE r = "accepted" /\ n \notin Reviewers               -> NextOnSuccess[n]
          [] r = "accepted" /\ n \in Reviewers /\ ~Paused(s, k) -> AcceptedNext[n]
          [] r = "accepted" /\ n \in Reviewers /\ Paused(s, k)  -> RejectedNext[n]
          [] r = "rejected"                                     -> RejectedNext[n]
          [] OTHER                                              -> n

\* Through any number of pauses, crashes, turn limits and resumes, attempts follow
\* the graph's edges; a resume never skips or repeats a phase, and the one correction
\* of a rejected contract output stays at its role and is never itself corrected.  An
\* accepted review that paused goes back to its producer.  (After a typed block see
\* BlockResumesAtItsPhase.)
LegalSuccession ==
    \A s \in Records :
        /\ s.attempts # <<>> => s.attempts[1].node = "architect"
        /\ \A k \in Followed(s) :
              /\ s.attempts[k].result # "blocked" => s.attempts[k + 1].node = NextAfter(s, k)
              /\ s.attempts[k].result = "corrected" => s.attempts[k + 1].result # "corrected"

\* A Run is done only when its last attempt is an accepted refactor review of the
\* last refactoring, which itself followed an accepted GREEN review: no resume path
\* reaches DONE around a review.
DoneIsReviewed ==
    disk.status = "done" =>
        LET a == disk.attempts IN
        /\ a # <<>> /\ a[Len(a)] = [node |-> "reviewer_refactor", result |-> "accepted"]
        /\ \E j \in DOMAIN a :
              /\ a[j] = [node |-> "refactorer", result |-> "accepted"]
              /\ \A i \in j + 1 .. Len(a) - 1 : a[i].node = "reviewer_refactor"
              /\ \E i \in 1 .. j - 1 : a[i] = [node |-> "reviewer_green", result |-> "accepted"]

-----------------------------------------------------------------------------
(* Pauses and decisions *)

\* At most the newest interrupt is unresolved, and a Run that has one is paused.
PauseIsResolvable ==
    \A s \in Records :
        /\ Unresolved(s) \subseteq {Len(s.log)}
        /\ s.status = "awaiting-human" => Unresolved(s) # {} \/ s.intent.pending
        /\ Unresolved(s) # {} => s.status = "awaiting-human"

\* Each interrupt is resolved by exactly one recorded decision.
OneDecisionPerInterrupt ==
    \A i \in DOMAIN disk.log :
        LET decisions == {j \in Decisions(disk) :
                             disk.human[j].kind = "interrupt" /\ disk.human[j].on = i}
        IN  IF disk.log[i].resolved THEN \E j \in decisions : decisions = {j}
                                    ELSE decisions = {}

\* Pauses and decisions match, even when the process dies right after a decision is
\* saved and resume is repeated: whatever is paused can be resumed, by one decision.
DecisionsMatchPauses == PauseIsResolvable /\ OneDecisionPerInterrupt

\* Work never continues past a failure, an escalation, a typed block, a declared
\* checkpoint or the end of the budget without a human decision about that very attempt:
\* beyond its budget a Run spends one attempt per decision, corrections included.
NoWorkWithoutDecision ==
    \A s \in Records : \A k \in Followed(s) :
        LET a == s.attempts[k] IN
        \/ a.result \in {"failed", "violation", "escalated", "blocked"}
        \/ a.result = "accepted" /\ a.node \notin Reviewers
              /\ HandOffPhase(a.node) \in ManualCheckpoints
        \/ a.result = "rejected" /\ RetryPhase(a.node) \in ManualCheckpoints
        \/ Paused(s, k) \/ k >= BudgetLimit
        => Decided(s, k)

-----------------------------------------------------------------------------
(* Interventions (desktop-supervised Runs) *)

\* A queued intervention reaches the next attempt of exactly its target: no attempt
\* of that role runs while context for it is still queued, delivery names an attempt
\* of the target, and the human log tells the same story as the queue.
InterventionsReachTheirAttempt ==
    /\ \A i \in DOMAIN mem.queue :
          LET q == mem.queue[i] IN
          IF q.to = 0
          THEN pc \in {"created", "started"} => q.target # at
          ELSE q.to \in DOMAIN mem.attempts /\ mem.attempts[q.to].node = q.target
    /\ \A i \in DOMAIN mem.queue : \E j \in DOMAIN mem.human :
          mem.human[j] = [kind |-> "intervention", on |-> i,
                          disp |-> IF mem.queue[i].to = 0 THEN "queued" ELSE "delivered"]

-----------------------------------------------------------------------------
(* Action properties *)

\* An attempt saved as started whose process is gone keeps its unknown outcome
\* forever: nothing replays it, closes it or starts another one.
NoReplay ==
    [][pc = "idle" /\ disk.progress.stage = "attempt-started" =>
          /\ pc' = "idle" /\ disk'.attempts = disk.attempts
          /\ disk'.progress = disk.progress /\ disk'.used = disk.used]_vars

\* Every intervention a human queued stays on record with its target, and context
\* delivered to one attempt never moves to its correction or to a later attempt.
NoInterventionLost ==
    [][\A i \in DOMAIN disk.queue :
          /\ i \in DOMAIN disk'.queue
          /\ disk'.queue[i].target = disk.queue[i].target
          /\ disk.queue[i].to # 0 => disk'.queue[i].to = disk.queue[i].to]_vars

\* The saved record is append-only, whoever saves it: no queued context is lost, and
\* attempts, rejections, interrupts and human actions are never dropped, nor a settled
\* result or resolution changed.
AppendOnly ==
    /\ NoInterventionLost
    /\ [][/\ \A k \in DOMAIN disk.attempts :
                 /\ k \in DOMAIN disk'.attempts
                 /\ disk'.attempts[k].node = disk.attempts[k].node
                 /\ disk.attempts[k].result # "open" => disk'.attempts[k] = disk.attempts[k]
          /\ \A i \in DOMAIN disk.log :
                 /\ i \in DOMAIN disk'.log
                 /\ disk'.log[i] = disk.log[i] \/ ~disk.log[i].resolved
          /\ Len(disk'.rej) >= Len(disk.rej) /\ Len(disk'.human) >= Len(disk.human)
          /\ disk'.used >= disk.used]_vars

-----------------------------------------------------------------------------
(* The contract *)

\* Who may work after role n settled with result r.  A resolved block may resume at
\* another phase (see BlockResumesAtItsPhase).
Follow == [n \in RoleNodes |-> [r \in Results \ {"open"} |->
    CASE r = "accepted" /\ n \notin Reviewers -> {NextOnSuccess[n]}
      [] r = "accepted" /\ n \in Reviewers    -> {AcceptedNext[n], RejectedNext[n]} \cap RoleNodes
      [] r = "rejected" /\ n \in Reviewers    -> {RejectedNext[n]}
      [] r = "blocked"                        -> RoleNodes
      [] OTHER                                -> {n}]]

\* The attempts with an outcome: all but an open newest one (see NoOrphanAttempt).
SettledAttempts(s) ==
    LET n == Len(s.attempts) IN
    IF n > 0 /\ s.attempts[n].result = "open" THEN SubSeq(s.attempts, 1, n - 1) ELSE s.attempts

\* A decision is owed on an unresolved interrupt, and on a block that ended the last
\* attempt until a human resolves it.
DecisionOwed(s) ==
    \/ Unresolved(s) # {}
    \/ LET k == Len(s.attempts) IN
          k > 0 /\ s.attempts[k].result = "blocked" /\ ~Decided(s, k)

InFlight ==
    IF disk.progress.stage \notin {"attempt-created", "attempt-started"}
    THEN [node |-> "nobody", state |-> "none"]
    ELSE [node  |-> disk.progress.next,
          state |-> IF disk.progress.stage = "attempt-created" THEN "created"
                    ELSE IF pc = "idle" THEN "unknown" ELSE "started"]

Contract == INSTANCE RunContract WITH
    Role <- RoleNodes, Outcome <- Results \ {"open"}, First <- "architect",
    Owing <- {"failed", "violation", "escalated", "blocked"},
    settled <- SettledAttempts(disk), current <- InFlight, owed <- DecisionOwed(disk)

\* The Run keeps its contract: the saved state only moves by the contract's steps,
\* through every crash, replayed decision, gate rejection and turn limit.
KeepsContract == Contract!Spec

-----------------------------------------------------------------------------
(* Progress *)

\* The process keeps running while it lives, and the human resumes an idle Run that
\* can be resumed.  Crashes, adverse outcomes and new interventions are not fair.
Fairness == WF_vars(Process) /\ WF_vars(Resume)
LiveSpec == Spec /\ Fairness

Dead == pc = "idle" /\ disk.progress.stage = "attempt-started"

\* A pause on an accepted review, at a checkpoint or a spent budget, resumes at the
\* producer: the reviewed work is repeated, and with the budget spent forever.
AcceptedWorkRepeated ==
    \E i \in DOMAIN disk.log :
        LET a == disk.attempts[disk.log[i].att] IN a.node \in Reviewers /\ a.result = "accepted"

\* What is left of one node's visit, after which the next node is entered or the
\* process ends; a rejected contract output is corrected within the visit.
Remaining ==
    CASE pc = "idle"     -> 0
      [] pc = "ended"    -> 1
      [] pc = "routed"   -> 2
      [] pc = "finished" -> 3
      [] pc = "started"  -> IF mem.progress.corr THEN 4 ELSE 7
      [] pc = "created"  -> IF mem.progress.corr THEN 5 ELSE 8
      [] pc = "enter"    -> IF mem.progress.corr THEN 6 ELSE 9

\* An invocation never circles: each step of the process gets on with the visit of its
\* node or takes one more of its turns, so corrections and the graph's retry edges keep
\* no invocation going for ever (execute, CORRECTION_LIMIT, recursion_limit).
InvocationAdvances ==
    [][Process => \/ turns < turns' /\ turns' <= MaxTurns
                  \/ turns' = turns /\ Remaining' < Remaining]_vars

\* A resume enters a role, or DONE, and never the stop the Run was at: the phase, the
\* target and the cursor of a stopped Run may all still name it (_infer_resume_target).
ResumeEntersWork == [][Resume => at' \in RoleNodes \cup {"done"}]_vars

\* With finitely many adverse outcomes, a Run that is always resumed finishes, unless a
\* crash left a started attempt behind or accepted work is repeated.
EventuallyFinishes == <>(disk.status = "done" \/ Dead \/ AcceptedWorkRepeated)

-----------------------------------------------------------------------------
(* What the documentation says and the code does not do *)

\* triggers.py: trigger #1 "is checked AFTER a Reviewer rejection is recorded".
SameCausePauseFollowsRejection ==
    \A i \in DOMAIN disk.log :
        disk.log[i].trigger = "same-root-cause-twice" =>
            disk.attempts[disk.log[i].att].result = "rejected"

\* triggers.py: a manual checkpoint pauses before "the phase the graph is about to
\* transition to"; resuming from it continues there.
CheckpointContinues ==
    \A s \in Records : \A k \in Followed(s) :
        s.attempts[k].result = "accepted" /\ s.attempts[k].node \in Reviewers =>
            s.attempts[k + 1].node = AcceptedNext[s.attempts[k].node]

\* plan.md: "Resume must continue from the recorded graph target".  A typed block
\* records its own phase as that target.
BlockResumesAtItsPhase ==
    \A s \in Records : \A k \in Followed(s) :
        s.attempts[k].result = "blocked" => s.attempts[k + 1].node = s.attempts[k].node
=============================================================================
