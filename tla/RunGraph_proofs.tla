-------------------------- MODULE RunGraph_proofs ---------------------------
(***************************************************************************)
(* Proofs about RunGraph, for every budget, checkpoint list, turn limit    *)
(* and bound.                                                              *)
(*                                                                         *)
(* The record: every saved or executing record is well formed and carries  *)
(* consistent recovery evidence, a started attempt whose process is gone   *)
(* is never replayed, and no save of a supervised Run rewrites or drops    *)
(* what was saved before.                                                  *)
(*                                                                         *)
(* The story: attempts follow the edges of the role graph through every    *)
(* pause, crash and resume, pauses and decisions match, nothing is         *)
(* attempted while a decision is owed, and so the Run implements its       *)
(* contract.                                                               *)
(*                                                                         *)
(* The last level: a Run that is done was reviewed, on every path there.   *)
(***************************************************************************)
EXTENDS RunGraphProps, SequenceTheorems, WellFoundedInduction, TLAPS

-----------------------------------------------------------------------------
(* The inductive invariant of the record *)

BeforeStages == {"none", "interrupted-before-attempt"}
OpenStages   == {"attempt-created", "attempt-started"}

\* The cursor and the execution record agree: exactly the newest attempt is open,
\* exactly while the cursor's stage says so.
CursorInv(s) ==
    /\ s.progress.att = 0 <=> s.progress.stage \in BeforeStages
    /\ s.progress.att # 0 => s.progress.att \in 1 .. Len(s.attempts)
    /\ s.progress.stage \in OpenStages =>
          /\ s.progress.att = Len(s.attempts)
          /\ s.attempts[s.progress.att].node = s.progress.next
          /\ s.attempts[s.progress.att].result = "open"
    /\ \A k \in 1 .. Len(s.attempts) :
          s.attempts[k].result = "open" => k = s.progress.att /\ s.progress.stage \in OpenStages
    /\ s.progress.stage = "interrupted-before-attempt" => s.progress.next = "architect"
    /\ s.progress.corr => s.progress.stage \notin BeforeStages

\* Starts are counted, and an unstarted correction has budget or authority: else a
\* retry of it after a crash could be held, and would be checkpointed while open.
BudgetInv(s) ==
    /\ s.used = Len(s.attempts) - (IF s.progress.stage = "attempt-created" THEN 1 ELSE 0)
    /\ s.progress.stage = "attempt-created" /\ s.progress.corr =>
          s.used < BudgetLimit \/ s.intent.pending

IntentInv(s) ==
    s.intent.action # 0 =>
        /\ s.intent.action \in 1 .. Len(s.human)
        /\ s.human[s.intent.action].kind # "intervention"

Core(s) == s \in RunStates /\ CursorInv(s) /\ BudgetInv(s) /\ IntentInv(s)

\* A paused or blocked record has no open attempt.
Stopped(s) == s.status \in {"awaiting-human", "blocked"}
RecordInv(s) == Core(s) /\ (Stopped(s) => s.progress.stage \notin OpenStages)

\* Where the process is, in terms of the cursor it holds.
ControlInv ==
    /\ pc = "idle" => mem = disk
    /\ pc \in {"created", "started", "finished", "routed"} => at \in RoleNodes
    /\ pc = "created" => mem.progress.stage = "attempt-created" /\ mem.progress.next = at
    /\ pc = "started" => mem.progress.stage = "attempt-started" /\ mem.progress.next = at
    /\ pc \in {"finished", "routed"} => mem.progress.stage \notin OpenStages \cup BeforeStages
    /\ pc = "ended" => mem.progress.stage \notin OpenStages
    /\ pc = "enter" =>
          /\ mem.progress.stage # "attempt-started"
          /\ mem.progress.stage = "attempt-created" => mem.progress.next = at
          /\ mem.progress.stage = "interrupted-before-attempt" => at = "architect"
          /\ at \in RoleNodes => ~Stopped(mem)

Scalars ==
    /\ pc \in {"idle", "enter", "created", "started", "finished", "routed", "ended"}
    /\ at \in Nodes /\ turns \in Nat
    /\ invocations \in Nat /\ adverse \in Nat /\ crashes \in Nat

RunInv == RecordInv(disk) /\ RecordInv(mem) /\ ControlInv /\ Scalars

-----------------------------------------------------------------------------
(* The operators of RunState preserve well-formedness *)

\* How roles, Drivers, Reviewers and stops lie among the nodes and the phases.
LEMMA RoleFacts ==
    /\ RoleNodes \subseteq Nodes /\ Nodes \subseteq Phases
    /\ Drivers \subseteq RoleNodes /\ Reviewers \subseteq RoleNodes /\ "architect" \in RoleNodes
    /\ \A n \in RoleNodes : n \notin {"done", "awaiting_human", "blocked", "none"}
    /\ {"done", "awaiting_human", "blocked"} \subseteq Nodes
BY DEF RoleNodes, Nodes, Phases, Drivers, Reviewers

\* A function on 1 .. n with values in a set is a sequence over it.
LEMMA SequenceOfFunction ==
    ASSUME NEW n \in Nat, NEW S, NEW f \in [1 .. n -> S]
    PROVE  f \in Seq(S) /\ Len(f) = n
<1>1. f \in Seq(S)
  BY SeqDef
<1>. QED
  BY <1>1, LenProperties

\* The last element of a nonempty sequence belongs to its set.
LEMMA LastElement ==
    ASSUME NEW S, NEW q \in Seq(S), q # <<>>
    PROVE  q[Len(q)] \in S
<1>1. Len(q) \in 1 .. Len(q)
  BY EmptySeq
<1>. QED
  BY <1>1, ElementOfSeq

\* Logging an interrupt yields a record that awaits a human, all else as it was.
LEMMA LogInterruptType ==
    ASSUME NEW s \in RunStates, NEW t \in Triggers, NEW n \in RoleNodes, NEW k \in Nat
    PROVE  /\ LogInterrupt(s, t, n, k) \in RunStates
           /\ LogInterrupt(s, t, n, k).progress = s.progress
           /\ LogInterrupt(s, t, n, k).attempts = s.attempts
           /\ LogInterrupt(s, t, n, k).used = s.used
           /\ LogInterrupt(s, t, n, k).intent = s.intent
           /\ LogInterrupt(s, t, n, k).human = s.human
           /\ LogInterrupt(s, t, n, k).status = "awaiting-human"
<1>. DEFINE entry == [trigger |-> t, next |-> n, att |-> k, resolved |-> FALSE]
<1>1. "awaiting-human" \in Statuses /\ "awaiting_human" \in Phases
  BY DEF Statuses, Phases, Nodes
<1>2. entry \in LogEntry
  BY DEF LogEntry
<1>3. Append(s.log, entry) \in Seq(LogEntry)
  BY <1>2 DEF RunStates
<1>. HIDE DEF entry
<1>4. LogInterrupt(s, t, n, k) = [s EXCEPT !.status = "awaiting-human",
              !.phase  = "awaiting_human", !.log = Append(@, entry)]
  BY DEF LogInterrupt, entry
<1>. QED
  BY <1>1, <1>3, <1>4 DEF RunStates

\* Every outcome leads to a node, and to a role only if the record did not stop.
LEMMA SuccessorType ==
    ASSUME NEW s, NEW n \in RoleNodes
    PROVE  /\ Successor(s, n) \in Nodes
           /\ Successor(s, n) \in RoleNodes => ~Stopped(s)
BY DEF Successor, NextOnSuccess, AcceptedNext, RejectedNext, Nodes, RoleNodes, Reviewers,
       Drivers, Stopped

\* A change of other fields than the cursor, attempts, budget and decisions keeps Core.
LEMMA SameCore ==
    ASSUME NEW s, Core(s), NEW t \in RunStates,
           t.progress = s.progress, t.attempts = s.attempts, t.used = s.used,
           t.intent = s.intent, t.human = s.human
    PROVE  Core(t)
BY DEF Core, CursorInv, BudgetInv, IntentInv

\* Closing the started attempt leaves a consistent record, corrected or not.
LEMMA FinishInv ==
    ASSUME NEW s, Core(s), s.progress.stage = "attempt-started",
           NEW n \in RoleNodes, NEW r \in Results \ {"open"}, NEW c \in BOOLEAN
    PROVE  /\ RecordInv(Finish(s, n, r, c))
           /\ Finish(s, n, r, c).progress.stage = "attempt-completed"
           /\ Finish(s, n, r, c).status = s.status
<1>. DEFINE k == s.progress.att
            done == [s.attempts EXCEPT ![k].result = r]
            next == IF c THEN n ELSE Successor(s, n)
            cursor == [stage |-> "attempt-completed", att |-> k, next |-> next, corr |-> c]
            t == Finish(s, n, r, c)
<1>1. s \in RunStates /\ s.attempts \in Seq(Attempt) /\ s.progress \in Progress
      /\ s.intent \in Intent /\ k \in 1 .. Len(s.attempts) /\ k # 0 /\ k \in Nat
  BY DEF Core, CursorInv, RunStates, Progress, OpenStages, BeforeStages
<1>2. done \in Seq(Attempt) /\ Len(done) = Len(s.attempts)
      /\ \A i \in 1 .. Len(s.attempts) :
            done[i].result = IF i = k THEN r ELSE s.attempts[i].result
  <2>. DEFINE e == [s.attempts[k] EXCEPT !.result = r]
  <2>1. s.attempts[k] \in Attempt
    BY <1>1
  <2>2. e \in Attempt /\ e.result = r
    BY <2>1 DEF Attempt
  <2>3. done = [s.attempts EXCEPT ![k] = e]
    OBVIOUS
  <2>. HIDE DEF e, done
  <2>. QED
    BY <1>1, <2>2, <2>3
<1>3. next \in Nodes
  BY SuccessorType, RoleFacts
<1>4. cursor \in Progress
  BY <1>1, <1>3 DEF Progress, Stages
<1>5. [s.intent EXCEPT !.pending = FALSE] \in Intent
      /\ [s.intent EXCEPT !.pending = FALSE].action = s.intent.action
  BY <1>1 DEF Intent
<1>6. t = [s EXCEPT !.attempts = done, !.progress = cursor,
                    !.intent = [s.intent EXCEPT !.pending = FALSE]]
  BY DEF Finish
<1>. HIDE DEF done, next, cursor, t
<1>7. /\ t \in RunStates /\ t.attempts = done /\ t.progress = cursor
      /\ t.intent.action = s.intent.action /\ t.used = s.used /\ t.human = s.human
      /\ t.status = s.status
  BY <1>1, <1>2, <1>4, <1>5, <1>6 DEF RunStates
<1>8. cursor.stage = "attempt-completed" /\ cursor.att = k
  BY DEF cursor
<1>9. CursorInv(t)
  BY <1>1, <1>2, <1>7, <1>8 DEF CursorInv, Core, OpenStages, BeforeStages
<1>10. BudgetInv(t) /\ IntentInv(t)
  BY <1>1, <1>2, <1>7, <1>8 DEF BudgetInv, IntentInv, Core
<1>. QED
  BY <1>7, <1>8, <1>9, <1>10 DEF RecordInv, Core, OpenStages, t

\* The same for an attempt that is not to be corrected.
LEMMA SettleInv ==
    ASSUME NEW s, Core(s), s.progress.stage = "attempt-started",
           NEW n \in RoleNodes, NEW r \in Results \ {"open"}
    PROVE  /\ RecordInv(Finish(s, n, r, FALSE))
           /\ Finish(s, n, r, FALSE).progress.stage = "attempt-completed"
<1>1. FALSE \in BOOLEAN
  OBVIOUS
<1>. QED
  BY <1>1, FinishInv, Zenon

\* The first trigger that holds, if any, is a trigger.
LEMMA TriggerType ==
    ASSUME NEW s, NEW p
    PROVE  TriggerOn(s, p) \in Triggers \cup {"none"}
BY DEF TriggerOn, Triggers

\* Handing off after an outcome, paused or not, leaves a consistent record.
LEMMA HandOffInv ==
    ASSUME NEW s, Core(s), s.progress.stage = "attempt-started",
           NEW n \in RoleNodes, NEW r \in Results \ {"open"}, NEW p, NEW m \in RoleNodes
    PROVE  /\ RecordInv(HandOff(s, n, r, p, m))
           /\ HandOff(s, n, r, p, m).progress.stage = "attempt-completed"
<1>. DEFINE trigger == TriggerOn(s, p)
            paused  == LogInterrupt(s, trigger, m, s.progress.att)
<1>1. CASE trigger = "none"
  <2>1. HandOff(s, n, r, p, m) = Finish(s, n, r, FALSE)
    BY <1>1 DEF HandOff
  <2>2. RecordInv(Finish(s, n, r, FALSE))
        /\ Finish(s, n, r, FALSE).progress.stage = "attempt-completed"
    BY SettleInv, Zenon
  <2>. QED
    BY <2>1, <2>2
<1>2. CASE trigger # "none"
  <2>1. trigger \in Triggers /\ s \in RunStates /\ s.progress.att \in Nat
    BY <1>2, TriggerType DEF Core, RunStates, Progress
  <2>2. /\ paused \in RunStates /\ paused.progress = s.progress
        /\ paused.attempts = s.attempts /\ paused.used = s.used
        /\ paused.intent = s.intent /\ paused.human = s.human
    BY <2>1, LogInterruptType
  <2>3. Core(paused)
    BY <2>2, SameCore
  <2>4. HandOff(s, n, r, p, m) = Finish(paused, n, r, FALSE)
    BY <1>2 DEF HandOff
  <2>5. paused.progress.stage = "attempt-started"
    BY <2>2
  <2>. HIDE DEF paused
  <2>6. RecordInv(Finish(paused, n, r, FALSE))
        /\ Finish(paused, n, r, FALSE).progress.stage = "attempt-completed"
    BY <2>3, <2>5, SettleInv, Zenon
  <2>. QED
    BY <2>4, <2>6
<1>. QED
  BY <1>1, <1>2

\* Pausing on a failed role leaves a consistent record.
LEMMA PauseOnFailureInv ==
    ASSUME NEW s, Core(s), s.progress.stage = "attempt-started",
           NEW n \in RoleNodes, NEW r \in Results \ {"open"}
    PROVE  /\ RecordInv(PauseOnFailure(s, n, r))
           /\ PauseOnFailure(s, n, r).progress.stage = "attempt-completed"
<1>. DEFINE paused == LogInterrupt(s, "failure", n, s.progress.att)
<1>1. "failure" \in Triggers /\ s \in RunStates /\ s.progress.att \in Nat
  BY DEF Core, RunStates, Progress, Triggers
<1>2. /\ paused \in RunStates /\ paused.progress = s.progress
      /\ paused.attempts = s.attempts /\ paused.used = s.used
      /\ paused.intent = s.intent /\ paused.human = s.human
  BY <1>1, LogInterruptType
<1>3. Core(paused)
  BY <1>2, SameCore
<1>4. PauseOnFailure(s, n, r) = Finish(paused, n, r, FALSE)
  BY DEF PauseOnFailure
<1>5. paused.progress.stage = "attempt-started"
  BY <1>2
<1>. HIDE DEF paused
<1>6. RecordInv(Finish(paused, n, r, FALSE))
      /\ Finish(paused, n, r, FALSE).progress.stage = "attempt-completed"
  BY <1>3, <1>5, SettleInv, Zenon
<1>. QED
  BY <1>4, <1>6

\* Delivering interventions changes only where they went.
LEMMA DeliverType ==
    ASSUME NEW s \in RunStates, NEW n \in RoleNodes, NEW k \in Nat
    PROVE  LET t == Deliver(s, n, k) IN
           /\ t \in RunStates
           /\ t.progress = s.progress /\ t.attempts = s.attempts /\ t.used = s.used
           /\ t.intent = s.intent /\ t.status = s.status
           /\ Len(t.human) = Len(s.human)
           /\ \A j \in 1 .. Len(s.human) : t.human[j].kind = s.human[j].kind
<1>. DEFINE hit(i) == s.queue[i].target = n /\ s.queue[i].to = 0
            queue == [i \in DOMAIN s.queue |->
                        IF hit(i) THEN [s.queue[i] EXCEPT !.to = k] ELSE s.queue[i]]
            human == [j \in DOMAIN s.human |->
                        IF s.human[j].kind = "intervention" /\ hit(s.human[j].on)
                        THEN [s.human[j] EXCEPT !.disp = "delivered"] ELSE s.human[j]]
<1>1. s.queue \in Seq(Intervention) /\ s.human \in Seq(HumanAction)
  BY DEF RunStates
<1>2. queue \in Seq(Intervention)
  <2>1. ASSUME NEW i \in 1 .. Len(s.queue)
        PROVE  queue[i] \in Intervention
    <3>1. s.queue[i] \in Intervention
      BY <1>1
    <3>2. queue[i] = IF hit(i) THEN [s.queue[i] EXCEPT !.to = k] ELSE s.queue[i]
      BY <1>1
    <3>3. [s.queue[i] EXCEPT !.to = k] \in Intervention
      BY <3>1 DEF Intervention
    <3>. HIDE DEF queue, hit
    <3>. QED
      BY <3>1, <3>2, <3>3
  <2>2. queue \in [1 .. Len(s.queue) -> Intervention]
    <3>1. DOMAIN s.queue = 1 .. Len(s.queue)
      BY <1>1
    <3>. QED
      BY <2>1, <3>1
  <2>. HIDE DEF queue
  <2>. QED
    BY <1>1, <2>2, SequenceOfFunction, LenProperties
<1>3. human \in Seq(HumanAction) /\ Len(human) = Len(s.human)
      /\ \A j \in 1 .. Len(s.human) : human[j].kind = s.human[j].kind
  <2>1. ASSUME NEW j \in 1 .. Len(s.human)
        PROVE  human[j] \in HumanAction /\ human[j].kind = s.human[j].kind
    <3>. DEFINE e == [s.human[j] EXCEPT !.disp = "delivered"]
    <3>1. s.human[j] \in HumanAction
      BY <1>1
    <3>0. DOMAIN s.human = 1 .. Len(s.human)
      BY <1>1
    <3>2. \/ human[j] = e
          \/ human[j] = s.human[j]
      BY <3>0
    <3>3. e \in HumanAction /\ e.kind = s.human[j].kind
      BY <3>1 DEF HumanAction
    <3>. HIDE DEF human, e
    <3>. QED
      BY <3>1, <3>2, <3>3
  <2>2. human \in [1 .. Len(s.human) -> HumanAction]
    <3>1. DOMAIN s.human = 1 .. Len(s.human)
      BY <1>1
    <3>. QED
      BY <2>1, <3>1
  <2>. HIDE DEF human
  <2>. QED
    BY <1>1, <2>1, <2>2, SequenceOfFunction, LenProperties
<1>4. Deliver(s, n, k) = [s EXCEPT !.queue = queue, !.human = human]
  BY DEF Deliver
<1>. HIDE DEF queue, human
<1>. QED
  BY <1>2, <1>3, <1>4 DEF RunStates

\* Checkpointing the outcome leaves a consistent record.
LEMMA CheckpointedInv ==
    ASSUME NEW s, RecordInv(s), s.progress.stage \notin OpenStages \cup BeforeStages
    PROVE  /\ RecordInv(Checkpointed(s))
           /\ Checkpointed(s).progress.stage = "outcome-checkpointed"
<1>. DEFINE cursor == [s.progress EXCEPT !.stage = "outcome-checkpointed"]
            t == Checkpointed(s)
<1>1. s \in RunStates /\ s.progress \in Progress
  BY DEF RecordInv, Core, RunStates
<1>2. /\ cursor \in Progress /\ cursor.stage = "outcome-checkpointed"
      /\ cursor.att = s.progress.att /\ cursor.next = s.progress.next
  BY <1>1 DEF Progress, Stages
<1>3. t = [s EXCEPT !.progress = cursor]
  BY DEF Checkpointed, BeforeStages
<1>. HIDE DEF cursor, t
<1>4. /\ t \in RunStates /\ t.progress = cursor /\ t.attempts = s.attempts
      /\ t.intent = s.intent /\ t.used = s.used /\ t.human = s.human
  BY <1>1, <1>2, <1>3 DEF RunStates
<1>5. CursorInv(t)
  BY <1>2, <1>4 DEF CursorInv, RecordInv, Core, OpenStages, BeforeStages
<1>6. BudgetInv(t) /\ IntentInv(t)
  BY <1>2, <1>4 DEF BudgetInv, IntentInv, RecordInv, Core, OpenStages
<1>. QED
  BY <1>2, <1>4, <1>5, <1>6 DEF RecordInv, Core, OpenStages, t

\* A human's decision on an interrupt or a block leaves a consistent record.
LEMMA DecideInv ==
    ASSUME NEW s, Core(s), s.progress.stage \notin OpenStages,
           NEW d \in HumanAction, d.kind # "intervention"
    PROVE  RecordInv(Decide(s, d)) /\ Decide(s, d).progress.stage \notin OpenStages
<1>. DEFINE human == Append(s.human, d)
            intent == [action |-> Len(s.human) + 1, pending |-> TRUE]
            t == Decide(s, d)
<1>1. s \in RunStates /\ s.human \in Seq(HumanAction) /\ s.progress \in Progress
  BY DEF Core, RunStates
<1>2. /\ human \in Seq(HumanAction) /\ Len(human) = Len(s.human) + 1
      /\ human[Len(s.human) + 1] = d /\ Len(s.human) \in Nat
  BY <1>1
<1>3. intent \in Intent /\ intent.action = Len(s.human) + 1
  BY <1>2 DEF Intent
<1>4. NoProgress \in Progress
  BY DEF NoProgress, Progress, Stages, Nodes, RoleNodes
<1>5. NoTarget \in Phases \cup {NoTarget}
  OBVIOUS
<1>6. PICK p \in {s.progress, NoProgress} :
         t = [s EXCEPT !.human = human, !.intent = intent, !.progress = p, !.target = NoTarget]
  BY DEF Decide
<1>. HIDE DEF human, intent, t
<1>7. /\ t \in RunStates /\ t.progress = p /\ t.attempts = s.attempts
      /\ t.intent = intent /\ t.used = s.used /\ t.human = human
  BY <1>1, <1>2, <1>3, <1>4, <1>5, <1>6 DEF RunStates
<1>8. p.stage \notin OpenStages
  BY <1>6 DEF NoProgress, OpenStages
<1>9. CursorInv(t)
  BY <1>6, <1>7 DEF CursorInv, Core, OpenStages, BeforeStages, NoProgress
<1>10. BudgetInv(t)
  BY <1>7, <1>8 DEF BudgetInv, Core, OpenStages
<1>11. IntentInv(t)
  BY <1>2, <1>3, <1>7 DEF IntentInv
<1>. QED
  BY <1>7, <1>8, <1>9, <1>10, <1>11 DEF RecordInv, Core, t

\* Where a resume enters the graph: at an unstarted attempt's own node.
LEMMA EntryFacts ==
    ASSUME NEW s, RecordInv(s)
    PROVE  /\ InferResumeTarget(s) \in Phases
           /\ EntryNode(InferResumeTarget(s)) \in Nodes
           /\ s.progress.stage = "attempt-created" =>
                 EntryNode(InferResumeTarget(s)) = s.progress.next
           /\ s.progress.stage = "interrupted-before-attempt" =>
                 EntryNode(InferResumeTarget(s)) = "architect"
<1>1. s \in RunStates /\ s.progress \in Progress /\ s.phase \in Phases
      /\ s.target \in Phases \cup {NoTarget} /\ s.log \in Seq(LogEntry)
      /\ s.rej \in Seq(Rejection) /\ s.attempts \in Seq(Attempt)
  BY DEF RecordInv, Core, RunStates
<1>2. s.progress.next \in Nodes
  BY <1>1 DEF Progress
<1>3. s.log # <<>> => s.log[Len(s.log)].next \in RoleNodes
  <2>1. s.log # <<>> => s.log[Len(s.log)] \in LogEntry
    BY <1>1, LastElement
  <2>. QED
    BY <2>1 DEF LogEntry
<1>4. s.rej # <<>> => RejectedNext[s.rej[Len(s.rej)].at] \in RoleNodes
  <2>1. s.rej # <<>> => s.rej[Len(s.rej)].at \in Reviewers
    <3>1. s.rej # <<>> => s.rej[Len(s.rej)] \in Rejection
      BY <1>1, LastElement
    <3>. QED
      BY <3>1 DEF Rejection
  <2>. QED
    BY <2>1 DEF RejectedNext, Reviewers, RoleNodes, Drivers
<1>5. InferResumeTarget(s) \in Phases
  BY <1>1, <1>2, <1>3, <1>4, RoleFacts DEF InferResumeTarget
<1>6. EntryNode(InferResumeTarget(s)) \in Nodes
  BY RoleFacts DEF EntryNode
<1>7. ASSUME s.progress.stage = "attempt-created"
      PROVE  EntryNode(InferResumeTarget(s)) = s.progress.next
  <2>1. s.progress.att \in 1 .. Len(s.attempts)
        /\ s.attempts[s.progress.att].node = s.progress.next
    BY <1>7, <1>1 DEF RecordInv, Core, CursorInv, OpenStages, BeforeStages, Progress
  <2>2. s.progress.next \in RoleNodes
    <3>1. s.attempts[s.progress.att] \in Attempt
      BY <1>1, <2>1, ElementOfSeq
    <3>. QED
      BY <2>1, <3>1 DEF Attempt
  <2>. QED
    BY <1>7, <2>2, RoleFacts DEF InferResumeTarget, EntryNode
<1>8. ASSUME s.progress.stage = "interrupted-before-attempt"
      PROVE  EntryNode(InferResumeTarget(s)) = "architect"
  <2>1. s.progress.next = "architect"
    BY <1>8 DEF RecordInv, Core, CursorInv
  <2>. QED
    BY <1>8, <2>1, RoleFacts DEF InferResumeTarget, EntryNode
<1>. QED
  BY <1>5, <1>6, <1>7, <1>8

\* Every way of resuming saves a sound record and enters the graph soundly.
LEMMA LaunchInv ==
    ASSUME RunInv, NEW s, RecordInv(s), Launch(s)
    PROVE  RunInv'
<1>. DEFINE target == InferResumeTarget(s)
            t == [s EXCEPT !.target = target, !.status = "in-progress", !.phase = target]
<1>1. disk' = s /\ mem' = t /\ at' = EntryNode(target) /\ pc' = "enter" /\ turns' = 1
      /\ invocations' = invocations + 1 /\ adverse' = adverse /\ crashes' = crashes
      /\ ~Terminal(s)
  BY DEF Launch
<1>2. target \in Phases /\ "in-progress" \in Statuses /\ s \in RunStates /\ Core(s)
  BY EntryFacts DEF Statuses, RecordInv, Core
<1>3. t \in RunStates /\ t.progress = s.progress /\ t.attempts = s.attempts /\ t.used = s.used
      /\ t.intent = s.intent /\ t.human = s.human /\ t.status = "in-progress"
  BY <1>2 DEF RunStates
<1>. HIDE DEF t
<1>4. RecordInv(t) /\ ~Stopped(t)
  BY <1>2, <1>3, SameCore DEF RecordInv, Stopped
<1>5. ControlInv'
  BY <1>1, <1>3, <1>4, EntryFacts DEF ControlInv, Terminal
<1>6. Scalars'
  BY <1>1, EntryFacts DEF Scalars, RunInv
<1>. QED
  BY <1>1, <1>4, <1>5, <1>6 DEF RunInv

\* A role's outcome closes the started attempt and leaves a sound record.
LEMMA ConcludeInv ==
    ASSUME RunInv, pc = "started", NEW s, NEW next \in {"finished", "enter"},
           RecordInv(s), s.progress.stage = "attempt-completed",
           next = "enter" => ~Stopped(s),
           Conclude(s, next), invocations' = invocations, crashes' = crashes,
           adverse' \in Nat
    PROVE  RunInv'
<1>1. mem' = s /\ disk' = s /\ pc' = next /\ at' = at /\ turns' = turns /\ at \in RoleNodes
  BY DEF Conclude, RunInv, ControlInv
<1>2. ControlInv'
  BY <1>1 DEF ControlInv, OpenStages, BeforeStages
<1>3. Scalars'
  BY <1>1 DEF Scalars, RunInv
<1>. QED
  BY <1>1, <1>2, <1>3 DEF RunInv

\* A new Run satisfies the invariant.
THEOREM InitInv == Init => RunInv
<1>. SUFFICES ASSUME Init PROVE RunInv
  OBVIOUS
<1>1. FreshRun \in RunStates
  BY DEF FreshRun, RunStates, Statuses, Phases, Nodes, RoleNodes, NoProgress, NoIntent,
         Progress, Intent, Stages
<1>2. /\ disk \in RunStates /\ disk.attempts = <<>> /\ disk.used = 0
      /\ disk.intent = NoIntent /\ disk.progress = FirstCursor /\ disk.status = "not-started"
  <2>1. FirstCursor \in Progress
    BY DEF FirstCursor, Progress, Stages, Nodes, RoleNodes
  <2>2. disk = [FreshRun EXCEPT !.progress = FirstCursor]
    BY DEF Init
  <2>. QED
    BY <1>1, <2>1, <2>2 DEF FreshRun, RunStates
<1>3. RecordInv(disk)
  BY <1>2 DEF RecordInv, Core, CursorInv, BudgetInv, IntentInv, NoIntent, FirstCursor,
              OpenStages, BeforeStages, Stopped
<1>4. RecordInv(mem)
  BY <1>1 DEF Init, FreshRun, NoProgress, NoIntent, RecordInv, Core, CursorInv, BudgetInv,
              IntentInv, OpenStages, BeforeStages, Stopped
<1>5. ControlInv /\ Scalars
  BY DEF Init, FreshRun, NoProgress, ControlInv, Scalars, Nodes, RoleNodes, Stopped
<1>. QED
  BY <1>3, <1>4, <1>5 DEF RunInv

-----------------------------------------------------------------------------
(* Every step preserves the invariant *)

\* Holding a correction at the budget keeps the invariant.
LEMMA HoldCorrectionInv == RunInv /\ HoldCorrection => RunInv'
<1>. SUFFICES ASSUME RunInv, HoldCorrection PROVE RunInv'
  OBVIOUS
<1>. DEFINE t == LogInterrupt(mem, "budget-exceeded", at, mem.progress.att)
<1>1. /\ mem' = t /\ disk' = t /\ pc' = "finished" /\ at' = at /\ turns' = turns
      /\ invocations' = invocations /\ adverse' = adverse /\ crashes' = crashes
      /\ at \in RoleNodes /\ ~Terminal(mem) /\ mem.progress.corr
      /\ BudgetExhausted(mem) /\ ~mem.intent.pending
  BY DEF HoldCorrection, AtRole, CorrectionHeld, Correcting, counters
<1>2. Core(mem) /\ mem \in RunStates /\ mem.progress.att \in Nat /\ mem.used \in Nat
      /\ "budget-exceeded" \in Triggers
  BY DEF RunInv, RecordInv, Core, RunStates, Progress, Triggers
<1>3. mem.progress.stage \notin OpenStages \cup BeforeStages
  <2>1. ASSUME mem.progress.stage = "attempt-created"
        PROVE  FALSE
    <3>1. mem.used < BudgetLimit \/ mem.intent.pending
      BY <1>1, <1>2, <2>1, Zenon DEF Core, BudgetInv
    <3>2. mem.used < BudgetLimit
      BY <1>1, <3>1, Zenon
    <3>3. mem.used >= BudgetLimit
      BY <1>1, Zenon DEF BudgetExhausted
    <3>. QED
      BY <1>2, <3>2, <3>3, RunConfig
  <2>. QED
    BY <1>1, <1>2, <2>1 DEF Core, CursorInv, Terminal, OpenStages
<1>4. /\ t \in RunStates /\ t.progress = mem.progress /\ t.attempts = mem.attempts
      /\ t.used = mem.used /\ t.intent = mem.intent /\ t.human = mem.human
  BY <1>1, <1>2, LogInterruptType
<1>. HIDE DEF t
<1>5. RecordInv(t)
  BY <1>2, <1>3, <1>4, SameCore DEF RecordInv
<1>6. ControlInv' /\ Scalars'
  BY <1>1, <1>3, <1>4 DEF ControlInv, Scalars, RunInv
<1>. QED
  BY <1>1, <1>5, <1>6 DEF RunInv

\* Saving a new or a reused attempt keeps the invariant.
LEMMA CreateAttemptInv == RunInv /\ CreateAttempt => RunInv'
<1>. SUFFICES ASSUME RunInv, CreateAttempt PROVE RunInv'
  OBVIOUS
<1>. DEFINE k == IF Reusing THEN mem.progress.att ELSE Len(mem.attempts) + 1
            new == [node |-> at, result |-> "open"]
            list == IF Reusing THEN mem.attempts ELSE Append(mem.attempts, new)
            cursor == CreatedCursor(k)
            s == [mem EXCEPT !.attempts = list, !.progress = cursor]
            t == IF at \in Reviewers THEN s ELSE Deliver(s, at, k)
<1>1. /\ mem' = t /\ disk' = t /\ pc' = "created" /\ at' = at /\ turns' = turns
      /\ invocations' = invocations /\ adverse' = adverse /\ crashes' = crashes
      /\ pc = "enter" /\ at \in RoleNodes /\ ~CorrectionHeld /\ ~Terminal(mem)
  BY DEF CreateAttempt, AtRole, counters
<1>2. /\ Core(mem) /\ mem \in RunStates /\ mem.attempts \in Seq(Attempt)
      /\ mem.progress \in Progress /\ mem.used \in Nat /\ ~Stopped(mem)
      /\ mem.progress.stage # "attempt-started"
      /\ Reusing => mem.progress.next = at
  BY <1>1 DEF RunInv, RecordInv, Core, RunStates, ControlInv, Reusing
<1>3. k \in Nat /\ k # 0 /\ k = Len(list) /\ list \in Seq(Attempt)
      /\ list[k].node = at /\ list[k].result = "open"
      /\ \A i \in 1 .. Len(list) : list[i].result = "open" => i = k
  <2>1. CASE Reusing
    BY <1>1, <1>2, <2>1 DEF Reusing, Core, CursorInv, OpenStages, BeforeStages, Progress
  <2>2. CASE ~Reusing
    <3>1. mem.progress.stage \notin OpenStages
      BY <1>2, <2>2 DEF Reusing, OpenStages
    <3>2. \A i \in 1 .. Len(mem.attempts) : mem.attempts[i].result # "open"
      BY <1>2, <3>1 DEF Core, CursorInv
    <3>3. new \in Attempt
      BY <1>1 DEF Attempt, Results
    <3>4. /\ list = Append(mem.attempts, new) /\ k = Len(mem.attempts) + 1
          /\ Len(mem.attempts) \in Nat
      BY <1>2, <2>2
    <3>5. list \in Seq(Attempt) /\ Len(list) = Len(mem.attempts) + 1
          /\ list[Len(mem.attempts) + 1] = new
          /\ \A i \in 1 .. Len(mem.attempts) : list[i] = mem.attempts[i]
      BY <1>2, <3>3, <3>4
    <3>. HIDE DEF list, k
    <3>. QED
      BY <3>2, <3>4, <3>5
  <2>. QED
    BY <2>1, <2>2
<1>4. /\ cursor \in Progress /\ cursor.stage = "attempt-created" /\ cursor.att = k
      /\ cursor.next = at /\ cursor.corr = mem.progress.corr
  <2>1. mem.progress.corr \in BOOLEAN
    BY <1>2 DEF Progress
  <2>. QED
    BY <1>1, <1>3, <2>1, RoleFacts DEF CreatedCursor, Correcting, Progress, Stages
<1>5. mem.used = Len(list) - 1
  <2>1. CASE Reusing
    BY <1>2, <2>1 DEF Core, BudgetInv, Reusing
  <2>2. CASE ~Reusing
    BY <1>2, <2>2 DEF Core, BudgetInv, Reusing
  <2>. QED
    BY <2>1, <2>2
<1>6. mem.progress.corr => mem.used < BudgetLimit \/ mem.intent.pending
  BY <1>1, <1>2, RunConfig DEF CorrectionHeld, Correcting, BudgetExhausted
<1>. HIDE DEF k, list, cursor
<1>7. /\ s \in RunStates /\ s.attempts = list /\ s.progress = cursor /\ s.used = mem.used
      /\ s.intent = mem.intent /\ s.human = mem.human /\ s.status = mem.status
  BY <1>2, <1>3, <1>4 DEF RunStates
<1>. HIDE DEF s
<1>8. /\ t \in RunStates /\ t.attempts = list /\ t.progress = cursor /\ t.used = mem.used
      /\ t.intent = mem.intent /\ t.status = mem.status /\ Len(t.human) = Len(mem.human)
      /\ \A j \in 1 .. Len(mem.human) : t.human[j].kind = mem.human[j].kind
  BY <1>1, <1>3, <1>7, DeliverType
<1>. HIDE DEF t
<1>9. CursorInv(t)
  BY <1>3, <1>4, <1>8 DEF CursorInv, OpenStages, BeforeStages
<1>10. BudgetInv(t)
  BY <1>4, <1>5, <1>6, <1>8 DEF BudgetInv
<1>11. IntentInv(t)
  BY <1>2, <1>8 DEF IntentInv, Core
<1>12. RecordInv(t)
  BY <1>2, <1>8, <1>9, <1>10, <1>11 DEF RecordInv, Core, Stopped
<1>13. ControlInv' /\ Scalars'
  BY <1>1, <1>4, <1>8 DEF ControlInv, Scalars, RunInv
<1>. QED
  BY <1>1, <1>12, <1>13 DEF RunInv

\* Saving that an attempt starts keeps the invariant.
LEMMA StartAttemptInv == RunInv /\ StartAttempt => RunInv'
<1>. SUFFICES ASSUME RunInv, StartAttempt PROVE RunInv'
  OBVIOUS
<1>. DEFINE cursor == [mem.progress EXCEPT !.stage = "attempt-started"]
            used == mem.used + 1
            t == [mem EXCEPT !.used = used, !.progress = cursor]
<1>1. /\ mem' = t /\ disk' = t /\ pc' = "started" /\ at' = at /\ turns' = turns
      /\ invocations' = invocations /\ adverse' = adverse /\ crashes' = crashes
      /\ pc = "created" /\ at \in RoleNodes
  BY DEF StartAttempt, RunInv, ControlInv, counters
<1>2. /\ Core(mem) /\ ~Stopped(mem) /\ mem \in RunStates /\ mem.progress \in Progress
      /\ mem.used \in Nat /\ mem.progress.stage = "attempt-created" /\ mem.progress.next = at
  BY <1>1 DEF RunInv, RecordInv, Core, RunStates, ControlInv, OpenStages
<1>3. /\ cursor \in Progress /\ cursor.stage = "attempt-started"
      /\ cursor.att = mem.progress.att /\ cursor.next = at /\ cursor.corr = mem.progress.corr
  BY <1>2 DEF Progress, Stages
<1>. HIDE DEF cursor
<1>4. /\ t \in RunStates /\ t.progress = cursor /\ t.attempts = mem.attempts
      /\ t.used = mem.used + 1 /\ t.intent = mem.intent /\ t.human = mem.human
      /\ t.status = mem.status
  <2>1. used \in Nat /\ t = [mem EXCEPT !.used = used, !.progress = cursor]
    BY <1>2
  <2>. HIDE DEF t, used
  <2>2. /\ t \in RunStates /\ t.progress = cursor /\ t.attempts = mem.attempts
        /\ t.used = used /\ t.intent = mem.intent /\ t.human = mem.human
        /\ t.status = mem.status
    BY <1>2, <1>3, <2>1 DEF RunStates
  <2>. QED
    BY <2>2 DEF used
<1>. HIDE DEF t
<1>5. CursorInv(t)
  BY <1>2, <1>3, <1>4 DEF CursorInv, Core, OpenStages, BeforeStages
<1>6. BudgetInv(t)
  <2>1. mem.used = Len(mem.attempts) - 1 /\ Len(mem.attempts) \in Nat
    BY <1>2 DEF Core, BudgetInv, RunStates
  <2>2. cursor.stage # "attempt-created"
    BY <1>3
  <2>3. t.used = Len(t.attempts) - (IF t.progress.stage = "attempt-created" THEN 1 ELSE 0)
    <3>1. mem.used + 1 = Len(mem.attempts) - 0
      BY <2>1
    <3>. QED
      BY <1>4, <2>2, <3>1
  <2>. QED
    BY <1>4, <2>2, <2>3, Zenon DEF BudgetInv
<1>7. IntentInv(t)
  BY <1>2, <1>4 DEF IntentInv, Core
<1>8. RecordInv(t)
  BY <1>2, <1>4, <1>5, <1>6, <1>7 DEF RecordInv, Core, Stopped
<1>9. ControlInv' /\ Scalars'
  BY <1>1, <1>3, <1>4 DEF ControlInv, Scalars, RunInv
<1>. QED
  BY <1>1, <1>8, <1>9 DEF RunInv

\* What a role finds when it returns: its own started attempt.
LEMMA StartedFacts ==
    ASSUME RunInv, pc = "started"
    PROVE  /\ Core(mem) /\ mem.progress.stage = "attempt-started" /\ at \in RoleNodes
           /\ mem \in RunStates /\ mem.progress.att \in Nat /\ ~Stopped(mem)
BY DEF RunInv, RecordInv, Core, ControlInv, RunStates, Progress, OpenStages

\* A producing role that succeeds keeps the invariant.
LEMMA RoleSucceedsInv == RunInv /\ RoleSucceeds => RunInv'
<1>. SUFFICES ASSUME RunInv, RoleSucceeds PROVE RunInv'
  OBVIOUS
<1>. DEFINE s == [mem EXCEPT !.status = "in-progress", !.phase = HandOffPhase(at)]
            t == HandOff(s, at, "accepted", HandOffPhase(at), NextOnSuccess[at])
<1>1. /\ pc = "started" /\ at \in RoleNodes \ Reviewers /\ Conclude(t, "finished")
      /\ invocations' = invocations /\ adverse' = adverse /\ crashes' = crashes
  BY StartedFacts DEF RoleSucceeds, counters
<1>2. /\ "in-progress" \in Statuses /\ HandOffPhase(at) \in Phases
      /\ NextOnSuccess[at] \in RoleNodes /\ "accepted" \in Results \ {"open"}
  BY <1>1 DEF Statuses, HandOffPhase, Phases, NextOnSuccess, RoleNodes, Reviewers, Drivers,
              Results
<1>3. Core(s) /\ s.progress.stage = "attempt-started"
  <2>1. Core(mem) /\ mem \in RunStates /\ mem.progress.stage = "attempt-started"
        /\ mem.target \in Phases \cup {NoTarget} /\ mem.rej \in Seq(Rejection)
    BY <1>1, StartedFacts DEF RunStates
  <2>2. /\ s \in RunStates /\ s.progress = mem.progress /\ s.attempts = mem.attempts
        /\ s.used = mem.used /\ s.intent = mem.intent /\ s.human = mem.human
    BY <1>2, <2>1 DEF RunStates
  <2>. HIDE DEF s
  <2>. QED
    BY <2>1, <2>2, SameCore
<1>. HIDE DEF s
<1>4. RecordInv(t) /\ t.progress.stage = "attempt-completed"
  BY <1>1, <1>2, <1>3, HandOffInv
<1>. HIDE DEF t
<1>. QED
  BY <1>1, <1>4, ConcludeInv DEF RunInv, Scalars

\* A review that accepts keeps the invariant.
LEMMA ReviewAcceptsInv == RunInv /\ ReviewAccepts => RunInv'
<1>. SUFFICES ASSUME RunInv, ReviewAccepts PROVE RunInv'
  OBVIOUS
<1>. DEFINE phase == AcceptedNext[at]
            status == IF phase = "done" THEN "done" ELSE "in-progress"
            s == [mem EXCEPT !.status = status, !.phase = phase]
            t == HandOff(s, at, "accepted", phase, RejectedNext[at])
<1>1. /\ pc = "started" /\ at \in Reviewers /\ at \in RoleNodes /\ Conclude(t, "finished")
      /\ invocations' = invocations /\ adverse' = adverse /\ crashes' = crashes
  BY RoleFacts DEF ReviewAccepts, counters
<1>2. /\ status \in Statuses /\ phase \in Phases
      /\ RejectedNext[at] \in RoleNodes /\ "accepted" \in Results \ {"open"}
  BY <1>1 DEF Statuses, AcceptedNext, RejectedNext, Phases, RoleNodes, Reviewers, Drivers,
              Nodes, Results
<1>. HIDE DEF status, phase
<1>3. Core(s) /\ s.progress.stage = "attempt-started"
  <2>1. Core(mem) /\ mem \in RunStates /\ mem.progress.stage = "attempt-started"
        /\ mem.target \in Phases \cup {NoTarget} /\ mem.rej \in Seq(Rejection)
    BY <1>1, StartedFacts DEF RunStates
  <2>2. /\ s \in RunStates /\ s.progress = mem.progress /\ s.attempts = mem.attempts
        /\ s.used = mem.used /\ s.intent = mem.intent /\ s.human = mem.human
    BY <1>2, <2>1 DEF RunStates
  <2>. HIDE DEF s
  <2>. QED
    BY <2>1, <2>2, SameCore
<1>. HIDE DEF s
<1>4. RecordInv(t) /\ t.progress.stage = "attempt-completed"
  BY <1>1, <1>2, <1>3, HandOffInv
<1>. HIDE DEF t
<1>. QED
  BY <1>1, <1>4, ConcludeInv DEF RunInv, Scalars

\* A review that rejects keeps the invariant.
LEMMA ReviewRejectsInv ==
    ASSUME RunInv, NEW cause \in Causes, ReviewRejects(cause)
    PROVE  RunInv'
<1>. DEFINE rej == Append(mem.rej, [at |-> at, cause |-> cause])
            s == [mem EXCEPT !.status = "in-progress", !.phase = RetryPhase(at), !.rej = rej]
            t == HandOff(s, at, "rejected", RetryPhase(at), RejectedNext[at])
<1>1. /\ pc = "started" /\ at \in Reviewers /\ at \in RoleNodes /\ Conclude(t, "finished")
      /\ invocations' = invocations /\ adverse' = adverse + 1 /\ crashes' = crashes
  BY RoleFacts DEF ReviewRejects, Adversity
<1>2. /\ "in-progress" \in Statuses /\ RetryPhase(at) \in Phases
      /\ RejectedNext[at] \in RoleNodes /\ "rejected" \in Results \ {"open"}
  BY <1>1 DEF Statuses, RetryPhase, RejectedNext, Phases, RoleNodes, Reviewers, Drivers,
              Nodes, Results
<1>3. Core(s) /\ s.progress.stage = "attempt-started"
  <2>1. Core(mem) /\ mem \in RunStates /\ mem.progress.stage = "attempt-started"
        /\ mem.target \in Phases \cup {NoTarget} /\ mem.rej \in Seq(Rejection)
    BY <1>1, StartedFacts DEF RunStates
  <2>2. rej \in Seq(Rejection)
    BY <1>1, <2>1 DEF Rejection
  <2>. HIDE DEF rej
  <2>3. /\ s \in RunStates /\ s.progress = mem.progress /\ s.attempts = mem.attempts
        /\ s.used = mem.used /\ s.intent = mem.intent /\ s.human = mem.human
    BY <1>2, <2>1, <2>2 DEF RunStates
  <2>. HIDE DEF s
  <2>. QED
    BY <2>1, <2>3, SameCore
<1>. HIDE DEF s
<1>4. RecordInv(t) /\ t.progress.stage = "attempt-completed"
  BY <1>1, <1>2, <1>3, HandOffInv
<1>. HIDE DEF t
<1>. QED
  BY <1>1, <1>4, ConcludeInv DEF RunInv, Scalars

\* A role that fails keeps the invariant.
LEMMA RoleFailsInv == RunInv /\ RoleFails => RunInv'
<1>. SUFFICES ASSUME RunInv, RoleFails PROVE RunInv'
  OBVIOUS
<1>. DEFINE t == PauseOnFailure(mem, at, "failed")
<1>1. /\ pc = "started" /\ Conclude(t, "finished") /\ invocations' = invocations
      /\ adverse' = adverse + 1 /\ crashes' = crashes /\ "failed" \in Results \ {"open"}
  BY DEF RoleFails, Adversity, Results
<1>2. RecordInv(t) /\ t.progress.stage = "attempt-completed"
  BY <1>1, StartedFacts, PauseOnFailureInv
<1>. HIDE DEF t
<1>. QED
  BY <1>1, <1>2, ConcludeInv DEF RunInv, Scalars

\* A role whose output is refused keeps the invariant.
LEMMA RoleViolatesContractInv == RunInv /\ RoleViolatesContract => RunInv'
<1>. SUFFICES ASSUME RunInv, RoleViolatesContract PROVE RunInv'
  OBVIOUS
<1>1. /\ pc = "started" /\ invocations' = invocations /\ adverse' = adverse + 1
      /\ crashes' = crashes /\ {"violation", "corrected"} \subseteq Results \ {"open"}
      /\ adverse' \in Nat
  BY DEF RoleViolatesContract, Adversity, Results, RunInv, Scalars
<1>2. CASE Correcting
  <2>. DEFINE t == PauseOnFailure(mem, at, "violation")
  <2>1. Conclude(t, "finished")
    BY <1>2 DEF RoleViolatesContract
  <2>2. RecordInv(t) /\ t.progress.stage = "attempt-completed"
    BY <1>1, StartedFacts, PauseOnFailureInv
  <2>. HIDE DEF t
  <2>. QED
    BY <1>1, <2>1, <2>2, ConcludeInv
<1>3. CASE ~Correcting
  <2>. DEFINE s == [mem EXCEPT !.phase = at, !.target = at]
              t == Finish(s, at, "corrected", TRUE)
  <2>1. Conclude(t, "enter")
    BY <1>3 DEF RoleViolatesContract
  <2>2. /\ Core(mem) /\ mem \in RunStates /\ mem.progress.stage = "attempt-started"
        /\ mem.rej \in Seq(Rejection) /\ mem.status \in Statuses /\ at \in RoleNodes
        /\ at \in Phases /\ at \in Phases \cup {NoTarget} /\ ~Stopped(mem)
    BY <1>1, StartedFacts, RoleFacts DEF RunStates
  <2>3. /\ s \in RunStates /\ s.progress = mem.progress /\ s.attempts = mem.attempts
        /\ s.used = mem.used /\ s.intent = mem.intent /\ s.human = mem.human /\ s.status = mem.status
    BY <2>2 DEF RunStates
  <2>. HIDE DEF s
  <2>4. Core(s) /\ s.progress.stage = "attempt-started" /\ s.status = mem.status
    BY <2>2, <2>3, SameCore
  <2>5. TRUE \in BOOLEAN
    OBVIOUS
  <2>6. /\ RecordInv(t) /\ t.progress.stage = "attempt-completed"
        /\ t.status = s.status
    BY <1>1, <2>2, <2>4, <2>5, FinishInv, Zenon
  <2>7. ~Stopped(t)
    BY <2>2, <2>4, <2>6 DEF Stopped
  <2>. HIDE DEF t
  <2>. QED
    BY <1>1, <2>1, <2>6, <2>7, ConcludeInv
<1>. QED
  BY <1>2, <1>3

\* A Driver that reports a block keeps the invariant.
LEMMA DriverBlocksInv == RunInv /\ DriverBlocks => RunInv'
<1>. SUFFICES ASSUME RunInv, DriverBlocks PROVE RunInv'
  OBVIOUS
<1>. DEFINE s == [mem EXCEPT !.status = "blocked", !.phase = at, !.target = at]
            t == Finish(s, at, "blocked", FALSE)
<1>1. /\ pc = "started" /\ Conclude(t, "finished") /\ invocations' = invocations
      /\ adverse' = adverse + 1 /\ crashes' = crashes /\ "blocked" \in Results \ {"open"}
      /\ "blocked" \in Statuses
  BY DEF DriverBlocks, Adversity, Results, Statuses
<1>2. /\ Core(mem) /\ mem \in RunStates /\ mem.progress.stage = "attempt-started"
      /\ mem.rej \in Seq(Rejection) /\ at \in RoleNodes
      /\ at \in Phases /\ at \in Phases \cup {NoTarget}
  BY <1>1, StartedFacts, RoleFacts DEF RunStates
<1>3. /\ s \in RunStates /\ s.progress = mem.progress /\ s.attempts = mem.attempts
      /\ s.used = mem.used /\ s.intent = mem.intent /\ s.human = mem.human
  BY <1>1, <1>2 DEF RunStates
<1>. HIDE DEF s
<1>4. Core(s) /\ s.progress.stage = "attempt-started"
  BY <1>2, <1>3, SameCore
<1>5. RecordInv(t) /\ t.progress.stage = "attempt-completed"
  BY <1>1, <1>2, <1>4, SettleInv, Zenon
<1>. HIDE DEF t
<1>. QED
  BY <1>1, <1>5, ConcludeInv DEF RunInv, Scalars

\* A Driver that asks for a role change keeps the invariant.
LEMMA DriverEscalatesInv == RunInv /\ DriverEscalates => RunInv'
<1>. SUFFICES ASSUME RunInv, DriverEscalates PROVE RunInv'
  OBVIOUS
<1>. DEFINE l == LogInterrupt(mem, "role-escalation", at, mem.progress.att)
            s == [l EXCEPT !.target = at]
            t == Finish(s, at, "escalated", FALSE)
<1>1. /\ pc = "started" /\ Conclude(t, "finished") /\ invocations' = invocations
      /\ adverse' = adverse + 1 /\ crashes' = crashes /\ "escalated" \in Results \ {"open"}
      /\ "role-escalation" \in Triggers
  BY DEF DriverEscalates, Adversity, Results, Triggers
<1>2. /\ Core(mem) /\ mem \in RunStates /\ mem.progress.stage = "attempt-started"
      /\ mem.progress.att \in Nat /\ at \in RoleNodes /\ at \in Phases \cup {NoTarget}
  BY <1>1, StartedFacts, RoleFacts
<1>3. /\ l \in RunStates /\ l.progress = mem.progress /\ l.attempts = mem.attempts
      /\ l.used = mem.used /\ l.intent = mem.intent /\ l.human = mem.human
  BY <1>1, <1>2, LogInterruptType
<1>. HIDE DEF l
<1>4. /\ s \in RunStates /\ s.progress = mem.progress /\ s.attempts = mem.attempts
      /\ s.used = mem.used /\ s.intent = mem.intent /\ s.human = mem.human
  BY <1>2, <1>3 DEF RunStates
<1>. HIDE DEF s
<1>5. Core(s) /\ s.progress.stage = "attempt-started"
  BY <1>2, <1>4, SameCore
<1>6. RecordInv(t) /\ t.progress.stage = "attempt-completed"
  BY <1>1, <1>2, <1>5, SettleInv, Zenon
<1>. HIDE DEF t
<1>. QED
  BY <1>1, <1>6, ConcludeInv DEF RunInv, Scalars, l, s

\* The gate before a Driver's first work keeps the invariant.
LEMMA GateInv == RunInv /\ (GateCheckpoint \/ GateRejects) => RunInv'
<1>. SUFFICES ASSUME RunInv, GateCheckpoint \/ GateRejects PROVE RunInv'
  OBVIOUS
<1>1. /\ mem' = mem /\ disk' = mem /\ at' = at /\ turns' = turns
      /\ invocations' = invocations /\ adverse' \in {adverse, adverse + 1}
      /\ crashes' = crashes /\ pc' \in {pc, "idle"} /\ pc = "enter"
  BY DEF GateCheckpoint, GateRejects, AtRole, counters
<1>2. ControlInv' /\ Scalars'
  BY <1>1 DEF ControlInv, Scalars, RunInv, Terminal
<1>. QED
  BY <1>1, <1>2 DEF RunInv

\* The checkpoint of an outcome keeps the invariant.
LEMMA CheckpointOutcomeInv == RunInv /\ CheckpointOutcome => RunInv'
<1>. SUFFICES ASSUME RunInv, CheckpointOutcome PROVE RunInv'
  OBVIOUS
<1>. DEFINE t == Checkpointed(mem)
<1>1. /\ mem' = t /\ disk' = t /\ at' = at /\ turns' = turns
      /\ invocations' = invocations /\ adverse' = adverse /\ crashes' = crashes
      /\ pc = "finished" /\ pc' = "routed"
  BY DEF CheckpointOutcome, counters
<1>2. RecordInv(mem) /\ mem.progress.stage \notin OpenStages \cup BeforeStages
      /\ at \in RoleNodes
  BY <1>1 DEF RunInv, ControlInv
<1>3. RecordInv(t) /\ t.progress.stage = "outcome-checkpointed"
  BY <1>2, CheckpointedInv
<1>. HIDE DEF t
<1>4. ControlInv' /\ Scalars'
  BY <1>1, <1>2, <1>3 DEF ControlInv, Scalars, RunInv, OpenStages, BeforeStages
<1>. QED
  BY <1>1, <1>3, <1>4 DEF RunInv

\* The routing to the next node keeps the invariant.
LEMMA RouteInv == RunInv /\ Route => RunInv'
<1>. SUFFICES ASSUME RunInv, Route PROVE RunInv'
  OBVIOUS
<1>1. /\ mem' = mem /\ disk' = disk /\ at' = Successor(mem, at) /\ turns' = turns + 1
      /\ invocations' = invocations /\ adverse' = adverse /\ crashes' = crashes
      /\ pc = "routed" /\ pc' = "enter"
  BY DEF Route, counters
<1>2. at \in RoleNodes /\ mem.progress.stage \notin OpenStages \cup BeforeStages
  BY <1>1 DEF RunInv, ControlInv
<1>3. at' \in Nodes /\ (at' \in RoleNodes => ~Stopped(mem))
  BY <1>1, <1>2, SuccessorType
<1>4. ControlInv' /\ Scalars'
  BY <1>1, <1>2, <1>3 DEF ControlInv, Scalars, RunInv, OpenStages, BeforeStages, Stopped
<1>. QED
  BY <1>1, <1>4 DEF RunInv

\* The recursion limit keeps the invariant.
LEMMA RecursionLimitInv == RunInv /\ RecursionLimit => RunInv'
<1>. SUFFICES ASSUME RunInv, RecursionLimit PROVE RunInv'
  OBVIOUS
<1>. DEFINE t == [mem EXCEPT !.status = "blocked", !.phase = "recursion_limit_exceeded"]
<1>1. /\ mem' \in {mem, t} /\ disk' = disk /\ at' = at /\ turns' = turns
      /\ invocations' = invocations /\ adverse' = adverse /\ crashes' = crashes
      /\ pc = "routed" /\ pc' = "ended"
  BY DEF RecursionLimit, counters
<1>2. /\ RecordInv(mem) /\ Core(mem) /\ mem \in RunStates
      /\ mem.progress.stage \notin OpenStages
  BY <1>1 DEF RunInv, ControlInv, RecordInv, Core
<1>3. t \in RunStates /\ t.progress = mem.progress /\ t.attempts = mem.attempts
      /\ t.used = mem.used /\ t.intent = mem.intent /\ t.human = mem.human
  <2>1. "blocked" \in Statuses /\ "recursion_limit_exceeded" \in Phases
    BY DEF Statuses, Phases
  <2>. QED
    BY <1>2, <2>1 DEF RunStates
<1>. HIDE DEF t
<1>4. RecordInv(t)
  BY <1>2, <1>3, SameCore DEF RecordInv
<1>5. RecordInv(mem') /\ mem'.progress = mem.progress
  BY <1>1, <1>2, <1>3, <1>4
<1>6. ControlInv' /\ Scalars'
  BY <1>1, <1>2, <1>5 DEF ControlInv, Scalars, RunInv
<1>. QED
  BY <1>1, <1>5, <1>6 DEF RunInv

\* The node at which a Run stops keeps the invariant.
LEMMA StopNodeInv == RunInv /\ StopNode => RunInv'
<1>. SUFFICES ASSUME RunInv, StopNode PROVE RunInv'
  OBVIOUS
<1>. DEFINE marked(st, p) == [mem EXCEPT !.status = st, !.phase = p]
<1>1. /\ disk' = mem' /\ at' = at /\ turns' = turns
      /\ invocations' = invocations /\ adverse' = adverse /\ crashes' = crashes
      /\ pc = "enter" /\ pc' = "ended" /\ at \in {"done", "awaiting_human", "blocked"}
  BY DEF StopNode, counters, RunInv, Scalars, Nodes
<1>2. /\ RecordInv(mem) /\ Core(mem) /\ mem \in RunStates
      /\ mem.progress.stage \notin OpenStages
      /\ mem.progress.stage # "interrupted-before-attempt"
  <2>1. at \notin RoleNodes /\ "architect" \in RoleNodes
    BY <1>1, RoleFacts
  <2>2. mem.progress.stage # "attempt-created"
    <3>1. ASSUME mem.progress.stage = "attempt-created"
          PROVE  mem.progress.next \in RoleNodes
      <4>1. mem.attempts \in Seq(Attempt) /\ mem.progress.att \in 1 .. Len(mem.attempts)
            /\ mem.attempts[mem.progress.att].node = mem.progress.next
        BY <3>1 DEF RunInv, RecordInv, Core, CursorInv, RunStates, Progress, OpenStages,
                    BeforeStages
      <4>2. mem.attempts[mem.progress.att] \in Attempt
        BY <4>1, ElementOfSeq
      <4>. QED
        BY <4>1, <4>2 DEF Attempt
    <3>. QED
      BY <1>1, <2>1, <3>1 DEF RunInv, ControlInv
  <2>. QED
    BY <1>1, <2>1, <2>2 DEF RunInv, RecordInv, Core, ControlInv, OpenStages
<1>3. PICK st \in Statuses, p \in Phases : mem' = Checkpointed(marked(st, p))
  <2>1. mem.phase \in Phases /\ {"done", "awaiting_human"} \subseteq Phases
        /\ {"done", "awaiting-human", "blocked"} \subseteq Statuses
    BY <1>2 DEF RunStates, Phases, Nodes, Statuses
  <2>2. CASE at = "done"
    BY <2>1, <2>2 DEF StopNode
  <2>3. CASE at = "awaiting_human"
    BY <2>1, <2>3 DEF StopNode
  <2>4. CASE at = "blocked"
    <3>1. [mem EXCEPT !.status = "blocked"] = marked("blocked", mem.phase)
      BY <1>2 DEF RunStates
    <3>. QED
      BY <2>1, <2>4, <3>1 DEF StopNode
  <2>. QED
    BY <1>1, <2>2, <2>3, <2>4
<1>. DEFINE t == marked(st, p)
<1>4. t \in RunStates /\ t.progress = mem.progress /\ t.attempts = mem.attempts
      /\ t.used = mem.used /\ t.intent = mem.intent /\ t.human = mem.human
  BY <1>2 DEF RunStates
<1>. HIDE DEF t
<1>5. RecordInv(t)
  BY <1>2, <1>4, SameCore DEF RecordInv
<1>6. RecordInv(Checkpointed(t)) /\ Checkpointed(t).progress.stage \notin OpenStages
  <2>1. CASE mem.progress.stage = "none"
    BY <1>2, <1>4, <1>5, <2>1 DEF Checkpointed
  <2>2. CASE mem.progress.stage # "none"
    BY <1>2, <1>4, <1>5, <2>2, CheckpointedInv DEF BeforeStages, OpenStages
  <2>. QED
    BY <2>1, <2>2
<1>7. RecordInv(mem') /\ mem'.progress.stage \notin OpenStages
  BY <1>3, <1>6 DEF t
<1>8. ControlInv' /\ Scalars'
  BY <1>1, <1>7 DEF ControlInv, Scalars, RunInv
<1>. QED
  BY <1>1, <1>7, <1>8 DEF RunInv

\* The last save of an execution keeps the invariant.
LEMMA FinalSaveInv == RunInv /\ FinalSave => RunInv'
BY DEF RunInv, FinalSave, ControlInv, Scalars, counters

\* The death of the process keeps the invariant.
LEMMA CrashInv == RunInv /\ Crash => RunInv'
BY DEF RunInv, Crash, ControlInv, Scalars

\* The newest of a set of positions is one of them.
LEMMA LatestInDomain ==
    ASSUME NEW n \in Nat, NEW S \in SUBSET (1 .. n), S # {}
    PROVE  Latest(S) \in S
<1>. DEFINE Less == OpToRel(<, Nat)
            Mirror == {n - x : x \in S}
<1>1. Mirror \subseteq Nat /\ Mirror # {}
  <2>1. \A x \in S : x \in Int /\ x <= n
    OBVIOUS
  <2>2. \A x \in S : n - x \in Nat
    BY <2>1
  <2>. QED
    BY <2>2
<1>2. PICK m \in Mirror : \A y \in Mirror : ~ (<<y, m>> \in Less)
  <2>. HIDE DEF Less, Mirror
  <2>. QED
    BY <1>1, NatLessThanWellFounded, WFMin DEF Less
<1>3. \A y \in Mirror : y \in Nat /\ m \in Nat /\ ~(y < m)
  BY <1>1, <1>2 DEF OpToRel
<1>4. \E x \in S : \A y \in S : y <= x
  BY <1>3
<1>. QED
  BY <1>4 DEF Latest

\* Resuming, with or without a decision, keeps the invariant.
LEMMA ResumeInv == RunInv /\ Resume => RunInv'
<1>. SUFFICES ASSUME RunInv, Resume PROVE RunInv'
  OBVIOUS
<1>1. ASSUME Launch(disk)
      PROVE  RunInv'
  BY <1>1, LaunchInv DEF RunInv
<1>2. Core(disk) /\ disk \in RunStates /\ disk.log \in Seq(LogEntry)
      /\ disk.attempts \in Seq(Attempt)
  BY DEF RunInv, RecordInv, Core, RunStates
<1>3. CASE ReplayDecision \/ ResumeAnyway
  BY <1>1, <1>3 DEF ReplayDecision, ResumeAnyway
<1>4. CASE ResolveInterrupt
  <2>. DEFINE i == Latest(Unresolved(disk))
              d == [kind |-> "interrupt", on |-> i, disp |-> "applied"]
              log == [disk.log EXCEPT ![i].resolved = TRUE]
              s == [disk EXCEPT !.log = log]
  <2>1. i \in 1 .. Len(disk.log)
    <3>1. /\ Unresolved(disk) \in SUBSET (1 .. Len(disk.log)) /\ Unresolved(disk) # {}
          /\ Len(disk.log) \in Nat
      BY <1>2, <1>4 DEF ResolveInterrupt, Unresolved
    <3>. QED
      BY <3>1, LatestInDomain, Zenon
  <2>2. d \in HumanAction /\ d.kind # "intervention"
    BY <2>1 DEF HumanAction
  <2>3. log \in Seq(LogEntry)
    <3>. DEFINE e == [disk.log[i] EXCEPT !.resolved = TRUE]
    <3>1. e \in LogEntry
      <4>1. disk.log[i] \in LogEntry
        BY <1>2, <2>1, ElementOfSeq
      <4>. QED
        BY <4>1 DEF LogEntry
    <3>2. log = [disk.log EXCEPT ![i] = e]
      OBVIOUS
    <3>. HIDE DEF e, log
    <3>. QED
      BY <1>2, <2>1, <3>1, <3>2
  <2>4. Launch(Decide([disk EXCEPT !.log[i].resolved = TRUE], d)) /\ Stopped(disk)
    BY <1>4 DEF ResolveInterrupt, Stopped
  <2>5. [disk EXCEPT !.log[i].resolved = TRUE] = s
    OBVIOUS
  <2>. HIDE DEF i, log, d
  <2>6. /\ s \in RunStates /\ s.progress = disk.progress /\ s.attempts = disk.attempts
        /\ s.used = disk.used /\ s.intent = disk.intent /\ s.human = disk.human
    BY <1>2, <2>3 DEF RunStates
  <2>7. Core(s) /\ s.progress.stage \notin OpenStages
    BY <1>2, <2>4, <2>6, SameCore DEF RunInv, RecordInv
  <2>8. RecordInv(Decide(s, d))
    BY <2>2, <2>7, DecideInv
  <2>. HIDE DEF s
  <2>. QED
    BY <2>4, <2>5, <2>8, LaunchInv
<1>5. CASE ResolveBlock
  <2>. DEFINE b == Latest(BlockedAttempts(disk))
              d == [kind |-> "block", on |-> b, disp |-> "applied"]
  <2>1. b \in 1 .. Len(disk.attempts)
    <3>1. /\ BlockedAttempts(disk) \in SUBSET (1 .. Len(disk.attempts))
          /\ BlockedAttempts(disk) # {} /\ Len(disk.attempts) \in Nat
      BY <1>2, <1>5 DEF ResolveBlock, BlockedAttempts
    <3>. QED
      BY <3>1, LatestInDomain, Zenon
  <2>2. d \in HumanAction /\ d.kind # "intervention"
    BY <2>1 DEF HumanAction
  <2>3. Launch(Decide(disk, d)) /\ Stopped(disk)
    BY <1>5 DEF ResolveBlock, Stopped
  <2>. HIDE DEF d
  <2>4. RecordInv(Decide(disk, d))
    BY <1>2, <2>2, <2>3, DecideInv DEF RunInv, RecordInv
  <2>. QED
    BY <2>3, <2>4, LaunchInv
<1>. QED
  BY <1>3, <1>4, <1>5 DEF Resume

\* Queueing human context keeps the invariant.
LEMMA QueueInterventionInv ==
    ASSUME RunInv, NEW n \in InterventionTargets, QueueIntervention(n)
    PROVE  RunInv'
<1>. DEFINE queue == Append(disk.queue, [target |-> n, to |-> 0])
            entry == [kind |-> "intervention", on |-> Len(disk.queue) + 1, disp |-> "queued"]
            human == Append(disk.human, entry)
            t == [disk EXCEPT !.queue = queue, !.human = human]
<1>1. /\ disk' = t /\ mem' = IF pc = "idle" THEN t ELSE mem
      /\ pc' = pc /\ at' = at /\ turns' = turns
      /\ invocations' = invocations /\ adverse' = adverse /\ crashes' = crashes
  BY DEF QueueIntervention, counters
<1>2. Core(disk) /\ disk \in RunStates /\ disk.queue \in Seq(Intervention)
      /\ disk.human \in Seq(HumanAction)
  BY DEF RunInv, RecordInv, Core, RunStates
<1>3. queue \in Seq(Intervention)
  BY <1>2 DEF Intervention
<1>4. /\ human \in Seq(HumanAction) /\ Len(human) = Len(disk.human) + 1
      /\ Len(disk.human) \in Nat
      /\ \A j \in 1 .. Len(disk.human) : human[j] = disk.human[j]
  <2>1. entry \in HumanAction
    BY <1>2 DEF HumanAction
  <2>. HIDE DEF entry
  <2>. QED
    BY <1>2, <2>1
<1>. HIDE DEF queue, human
<1>5. /\ t \in RunStates /\ t.progress = disk.progress /\ t.attempts = disk.attempts
      /\ t.used = disk.used /\ t.intent = disk.intent /\ t.human = human
      /\ t.status = disk.status
  BY <1>2, <1>3, <1>4 DEF RunStates
<1>. HIDE DEF t
<1>6. CursorInv(t) /\ BudgetInv(t)
  BY <1>2, <1>5 DEF Core, CursorInv, BudgetInv
<1>7. IntentInv(t)
  BY <1>2, <1>4, <1>5 DEF Core, IntentInv, RunStates, Intent
<1>8. RecordInv(t)
  BY <1>5, <1>6, <1>7 DEF RecordInv, Core, Stopped, RunInv
<1>9. ControlInv' /\ Scalars'
  BY <1>1 DEF ControlInv, Scalars, RunInv
<1>. QED
  BY <1>1, <1>8, <1>9 DEF RunInv

\* Every step of the specification keeps the invariant.
LEMMA NextInv == RunInv /\ [Next]_vars => RunInv'
<1>. SUFFICES ASSUME RunInv, [Next]_vars PROVE RunInv'
  OBVIOUS
<1>1. CASE Role
  BY <1>1, RoleSucceedsInv, ReviewAcceptsInv, ReviewRejectsInv, RoleFailsInv,
     RoleViolatesContractInv, DriverBlocksInv, DriverEscalatesInv DEF Role
<1>2. CASE Process
  BY <1>1, <1>2, HoldCorrectionInv, CreateAttemptInv, StartAttemptInv, CheckpointOutcomeInv,
     RouteInv, RecursionLimitInv, StopNodeInv, FinalSaveInv DEF Process
<1>3. CASE GateCheckpoint \/ GateRejects
  BY <1>3, GateInv
<1>4. CASE Crash
  BY <1>4, CrashInv
<1>5. CASE Resume
  BY <1>5, ResumeInv
<1>6. CASE \E t \in Addressees : QueueIntervention(t)
  BY <1>6, Bounds, QueueInterventionInv
<1>7. CASE UNCHANGED vars
  BY <1>7 DEF vars, counters, RunInv, ControlInv, Scalars
<1>. QED
  BY <1>2, <1>3, <1>4, <1>5, <1>6, <1>7 DEF Next

-----------------------------------------------------------------------------
(* The theorems about the record *)

\* The invariant holds in every state.
THEOREM Invariance == Spec => []RunInv
<1>. QED
  BY InitInv, NextInv, PTL DEF Spec

\* The state file and the executing process always hold a well-formed RunState.
THEOREM TypeCorrect == Spec => []TypeOK
<1>1. RunInv => TypeOK
  BY DEF RunInv, RecordInv, Core, ControlInv, Scalars, TypeOK
<1>. QED
  BY <1>1, Invariance, PTL

\* No crash, pause, correction or decision can leave a state whose recovery
\* evidence contradicts itself and which the next resume would refuse to load.
THEOREM EvidenceCorrect == Spec => []RecoveryEvidence
<1>1. ASSUME NEW s, Core(s)
      PROVE  /\ s.progress.att # 0 =>
                   /\ s.progress.att \in DOMAIN s.attempts
                   /\ IF s.progress.stage \in {"attempt-created", "attempt-started"}
                      THEN s.attempts[s.progress.att] =
                               [node |-> s.progress.next, result |-> "open"]
                      ELSE s.attempts[s.progress.att].result # "open"
             /\ s.intent.action # 0 => s.intent.action \in Decisions(s)
  <2>1. /\ s.attempts \in Seq(Attempt) /\ s.human \in Seq(HumanAction)
        /\ DOMAIN s.attempts = 1 .. Len(s.attempts) /\ DOMAIN s.human = 1 .. Len(s.human)
    BY <1>1 DEF Core, RunStates
  <2>2. ASSUME s.progress.att # 0
        PROVE  s.progress.att \in DOMAIN s.attempts
    BY <1>1, <2>1, <2>2 DEF Core, CursorInv
  <2>3. ASSUME s.progress.att # 0, s.progress.stage \in OpenStages
        PROVE  s.attempts[s.progress.att] = [node |-> s.progress.next, result |-> "open"]
    <3>1. s.attempts[s.progress.att] \in Attempt
      BY <2>1, <2>2, <2>3, ElementOfSeq
    <3>2. s.attempts[s.progress.att].node = s.progress.next
          /\ s.attempts[s.progress.att].result = "open"
      BY <1>1, <2>3 DEF Core, CursorInv
    <3>. QED
      BY <3>1, <3>2 DEF Attempt
  <2>4. ASSUME s.progress.att # 0, s.progress.stage \notin OpenStages
        PROVE  s.attempts[s.progress.att].result # "open"
    BY <1>1, <2>1, <2>2, <2>4 DEF Core, CursorInv
  <2>5. s.intent.action # 0 => s.intent.action \in Decisions(s)
    BY <1>1, <2>1 DEF Core, IntentInv, Decisions
  <2>. QED
    BY <2>2, <2>3, <2>4, <2>5 DEF OpenStages
<1>2. RunInv => RecoveryEvidence
  BY <1>1 DEF RunInv, RecordInv, RecoveryEvidence, Records
<1>. QED
  BY <1>2, Invariance, PTL

\* An unfinished attempt is always the newest one and the one the cursor resumes.
THEOREM OrphansImpossible == Spec => []NoOrphanAttempt
<1>1. ASSUME NEW s, Core(s), NEW k \in DOMAIN s.attempts, s.attempts[k].result = "open"
      PROVE  /\ k = Len(s.attempts) /\ k = s.progress.att
             /\ s.progress.stage \in {"attempt-created", "attempt-started"}
  <2>1. s.attempts \in Seq(Attempt) /\ DOMAIN s.attempts = 1 .. Len(s.attempts)
    BY <1>1 DEF Core, RunStates
  <2>2. k = s.progress.att /\ s.progress.stage \in OpenStages
    BY <1>1, <2>1 DEF Core, CursorInv
  <2>. QED
    BY <1>1, <2>2 DEF Core, CursorInv, OpenStages
<1>2. RunInv => NoOrphanAttempt
  BY <1>1 DEF RunInv, RecordInv, NoOrphanAttempt, Records
<1>. QED
  BY <1>2, Invariance, PTL

\* The execution budget counts exactly the attempts whose role was ever called.
THEOREM BudgetCorrect == Spec => []BudgetCountsStarts
<1>1. RunInv => BudgetCountsStarts
  BY DEF RunInv, RecordInv, Core, BudgetInv, BudgetCountsStarts, Records
<1>. QED
  BY <1>1, Invariance, PTL

\* An attempt saved as started whose process is gone is never replayed, closed or
\* superseded, by any resume.
THEOREM ReplayImpossible == Spec => NoReplay
<1>. DEFINE A == pc = "idle" /\ disk.progress.stage = "attempt-started" =>
                   /\ pc' = "idle" /\ disk'.attempts = disk.attempts
                   /\ disk'.progress = disk.progress /\ disk'.used = disk.used
<1>1. RunInv /\ [Next]_vars => [A]_vars
  <2>. SUFFICES ASSUME RunInv, Next, pc = "idle", Terminal(disk)
                PROVE  /\ pc' = "idle" /\ disk'.attempts = disk.attempts
                       /\ disk'.progress = disk.progress /\ disk'.used = disk.used
    BY DEF Terminal
  <2>1. ~Process /\ ~GateCheckpoint /\ ~GateRejects /\ ~Crash
    BY DEF Process, Role, HoldCorrection, CreateAttempt, StartAttempt, RoleSucceeds,
           ReviewAccepts, ReviewRejects, RoleFails, RoleViolatesContract, DriverBlocks,
           DriverEscalates, CheckpointOutcome, Route, RecursionLimit, StopNode, FinalSave,
           GateCheckpoint, GateRejects, Crash, AtRole
  <2>2. ~Resume
    BY DEF Resume, ReplayDecision, ResolveInterrupt, ResolveBlock, ResumeAnyway, Launch
  <2>3. PICK n \in Addressees : QueueIntervention(n)
    BY <2>1, <2>2 DEF Next
  <2>4. disk \in RunStates
    BY DEF RunInv, RecordInv, Core
  <2>. QED
    BY <2>3, <2>4 DEF QueueIntervention, RunStates
<1>. QED
  BY <1>1, Invariance, PTL DEF Spec, NoReplay

-----------------------------------------------------------------------------
(* The record only grows *)

\* Record t continues record s.
Extends(s, t) ==
    /\ Len(s.attempts) <= Len(t.attempts)
    /\ \A k \in 1 .. Len(s.attempts) :
          /\ t.attempts[k].node = s.attempts[k].node
          /\ s.attempts[k].result # "open" => t.attempts[k] = s.attempts[k]
    /\ Len(s.log) <= Len(t.log)
    /\ \A i \in 1 .. Len(s.log) : t.log[i] = s.log[i] \/ ~s.log[i].resolved
    /\ Len(s.queue) <= Len(t.queue)
    /\ \A i \in 1 .. Len(s.queue) :
          /\ t.queue[i].target = s.queue[i].target
          /\ s.queue[i].to # 0 => t.queue[i].to = s.queue[i].to
    /\ Len(s.rej) <= Len(t.rej) /\ Len(s.human) <= Len(t.human) /\ s.used <= t.used

\* What a record needs for Extends to compare it.
LEMMA Sequences ==
    ASSUME NEW s \in RunStates
    PROVE  /\ s.attempts \in Seq(Attempt) /\ s.log \in Seq(LogEntry) /\ s.queue \in Seq(Intervention)
           /\ s.rej \in Seq(Rejection) /\ s.human \in Seq(HumanAction) /\ s.used \in Nat
           /\ Len(s.attempts) \in Nat /\ Len(s.log) \in Nat /\ Len(s.queue) \in Nat
           /\ Len(s.rej) \in Nat /\ Len(s.human) \in Nat
           /\ DOMAIN s.attempts = 1 .. Len(s.attempts) /\ DOMAIN s.log = 1 .. Len(s.log)
           /\ DOMAIN s.queue = 1 .. Len(s.queue)
BY DEF RunStates

\* A record whose history is that of s, but for rejections that were added.
LEMMA SameExtends ==
    ASSUME NEW s \in RunStates, NEW t,
           t.attempts = s.attempts, t.log = s.log, t.queue = s.queue,
           Len(s.rej) <= Len(t.rej), Len(s.human) <= Len(t.human), s.used <= t.used
    PROVE  Extends(s, t)
BY Sequences DEF Extends

\* A record with the same history continues s.
LEMMA SameHistory ==
    ASSUME NEW s \in RunStates, NEW t,
           t.attempts = s.attempts, t.log = s.log, t.queue = s.queue,
           t.rej = s.rej, t.human = s.human, t.used = s.used
    PROVE  Extends(s, t)
<1>1. Len(s.rej) <= Len(t.rej) /\ Len(s.human) <= Len(t.human) /\ s.used <= t.used
  BY Sequences
<1>. QED
  BY <1>1, SameExtends, Zenon

\* So does one with a further human action.
LEMMA DecidedExtends ==
    ASSUME NEW s \in RunStates, NEW t, NEW d,
           t.attempts = s.attempts, t.log = s.log, t.queue = s.queue,
           t.rej = s.rej, t.human = Append(s.human, d), t.used = s.used
    PROVE  Extends(s, t)
<1>1. Len(s.human) <= Len(t.human)
  BY Sequences
<1>. QED
  BY <1>1, Sequences, SameExtends

\* A record continues itself.
LEMMA ExtendsReflexive == ASSUME NEW s \in RunStates PROVE Extends(s, s)
BY Sequences, SameExtends

\* The order of lengths, and of the positions they bound.
LEMMA LeqTransitive ==
    \A a, b, c \in Nat : a <= b /\ b <= c => a <= c /\ \A k \in 1 .. a : k \in 1 .. b
OBVIOUS

\* What continues a continuation of s continues s.
LEMMA ExtendsTransitive ==
    ASSUME NEW s \in RunStates, NEW t \in RunStates, NEW u \in RunStates,
           Extends(s, t), Extends(t, u)
    PROVE  Extends(s, u)
<1>1. \A r \in {s, t, u} :
         /\ Len(r.attempts) \in Nat /\ Len(r.log) \in Nat /\ Len(r.queue) \in Nat
         /\ Len(r.rej) \in Nat /\ Len(r.human) \in Nat /\ r.used \in Nat
  BY Sequences, Zenon
<1>2. /\ Len(s.attempts) <= Len(t.attempts) /\ Len(t.attempts) <= Len(u.attempts)
      /\ Len(s.log) <= Len(t.log) /\ Len(t.log) <= Len(u.log)
      /\ Len(s.queue) <= Len(t.queue) /\ Len(t.queue) <= Len(u.queue)
      /\ Len(s.rej) <= Len(t.rej) /\ Len(t.rej) <= Len(u.rej)
      /\ Len(s.human) <= Len(t.human) /\ Len(t.human) <= Len(u.human)
      /\ s.used <= t.used /\ t.used <= u.used
  BY Zenon DEF Extends
<1>3. /\ Len(s.attempts) <= Len(u.attempts)
      /\ Len(s.log) <= Len(u.log) /\ Len(s.queue) <= Len(u.queue)
      /\ Len(s.rej) <= Len(u.rej) /\ Len(s.human) <= Len(u.human) /\ s.used <= u.used
  BY <1>1, <1>2, LeqTransitive, Zenon
<1>4. ASSUME NEW k \in 1 .. Len(s.attempts)
      PROVE  /\ u.attempts[k].node = s.attempts[k].node
             /\ s.attempts[k].result # "open" => u.attempts[k] = s.attempts[k]
  <2>1. k \in 1 .. Len(t.attempts)
    BY <1>1, <1>2, LeqTransitive, Zenon
  <2>. QED
    BY <2>1, Zenon DEF Extends
<1>5. ASSUME NEW i \in 1 .. Len(s.log)
      PROVE  u.log[i] = s.log[i] \/ ~s.log[i].resolved
  <2>1. i \in 1 .. Len(t.log)
    BY <1>1, <1>2, LeqTransitive, Zenon
  <2>. QED
    BY <2>1, Zenon DEF Extends
<1>6. ASSUME NEW i \in 1 .. Len(s.queue)
      PROVE  /\ u.queue[i].target = s.queue[i].target
             /\ s.queue[i].to # 0 => u.queue[i].to = s.queue[i].to
  <2>1. i \in 1 .. Len(t.queue)
    BY <1>1, <1>2, LeqTransitive, Zenon
  <2>. QED
    BY <2>1, Zenon DEF Extends
<1>. QED
  BY <1>3, <1>4, <1>5, <1>6 DEF Extends

\* The started attempt is settled, and perhaps an interrupt added.
Outcome(s, t) ==
    /\ \E r : t.attempts = [s.attempts EXCEPT ![s.progress.att].result = r]
    /\ t.log = s.log \/ \E e : t.log = Append(s.log, e)
    /\ t.queue = s.queue /\ t.human = s.human /\ t.used = s.used
    /\ t.rej = s.rej \/ \E x : t.rej = Append(s.rej, x)

\* One more element leaves the others where they are.
LEMMA AppendKeeps ==
    ASSUME NEW S, NEW q \in Seq(S), NEW e
    PROVE  /\ Len(Append(q, e)) = Len(q) + 1
           /\ \A i \in 1 .. Len(q) : Append(q, e)[i] = q[i]
OBVIOUS

\* Settling an open attempt leaves every earlier entry as it was.
LEMMA OutcomeExtends ==
    ASSUME NEW s, Core(s), s.progress.stage = "attempt-started", NEW t, Outcome(s, t)
    PROVE  Extends(s, t)
<1>. DEFINE k == s.progress.att
<1>1. s \in RunStates /\ k \in 1 .. Len(s.attempts) /\ s.attempts[k].result = "open"
  BY DEF Core, CursorInv, OpenStages, BeforeStages
<1>2. Len(t.attempts) = Len(s.attempts)
      /\ \A i \in 1 .. Len(s.attempts) :
            t.attempts[i].node = s.attempts[i].node /\ (i # k => t.attempts[i] = s.attempts[i])
  <2>1. PICK r : t.attempts = [s.attempts EXCEPT ![k].result = r]
    BY DEF Outcome
  <2>. DEFINE e == [s.attempts[k] EXCEPT !.result = r]
  <2>2. e.node = s.attempts[k].node
    <3>1. s.attempts[k] \in Attempt
      BY <1>1, Sequences, ElementOfSeq
    <3>. QED
      BY <3>1 DEF Attempt
  <2>3. t.attempts = [s.attempts EXCEPT ![k] = e]
    BY <2>1
  <2>. HIDE DEF e
  <2>. QED
    BY <1>1, <2>2, <2>3, Sequences
<1>3. Len(s.log) <= Len(t.log) /\ \A i \in 1 .. Len(s.log) : t.log[i] = s.log[i]
  <2>1. s.log \in Seq(LogEntry)
    BY <1>1, Sequences
  <2>. QED
    BY <2>1, AppendKeeps DEF Outcome
<1>4. Len(s.rej) <= Len(t.rej)
  <2>1. s.rej \in Seq(Rejection)
    BY <1>1, Sequences
  <2>. QED
    BY <2>1, AppendKeeps DEF Outcome
<1>5. t.queue = s.queue /\ t.human = s.human /\ t.used = s.used
  BY DEF Outcome
<1>6. \A i \in 1 .. Len(s.attempts) :
         /\ t.attempts[i].node = s.attempts[i].node
         /\ s.attempts[i].result # "open" => t.attempts[i] = s.attempts[i]
  BY <1>1, <1>2
<1>7. Len(s.attempts) <= Len(t.attempts) /\ Len(s.queue) <= Len(t.queue)
      /\ Len(s.human) <= Len(t.human) /\ s.used <= t.used
  BY <1>1, <1>2, <1>5, Sequences
<1>. HIDE DEF k
<1>. QED
  BY <1>3, <1>4, <1>5, <1>6, <1>7, Zenon DEF Extends

\* s with other routing, rejections and interrupts.
Made(s, st, ph, ta, rej, log) ==
    [s EXCEPT !.status = st, !.phase = ph, !.target = ta, !.rej = rej, !.log = log]

\* Closing the attempt of such a record is an outcome of s.
LEMMA FinishOutcome ==
    ASSUME NEW s \in RunStates, NEW st, NEW ph, NEW ta, NEW rej, NEW log, NEW n, NEW r, NEW c,
           rej = s.rej \/ \E x : rej = Append(s.rej, x),
           log = s.log \/ \E e : log = Append(s.log, e)
    PROVE  Outcome(s, Finish(Made(s, st, ph, ta, rej, log), n, r, c))
<1>. DEFINE t == Finish(Made(s, st, ph, ta, rej, log), n, r, c)
<1>1. /\ t.attempts = [s.attempts EXCEPT ![s.progress.att].result = r]
      /\ t.log = log /\ t.queue = s.queue /\ t.human = s.human
      /\ t.used = s.used /\ t.rej = rej
  BY DEF Finish, RunStates, Made
<1>. HIDE DEF t
<1>2. Outcome(s, t)
  BY <1>1, Zenon DEF Outcome
<1>. QED
  BY <1>2 DEF t

\* So is closing it with an interrupt logged first.
LEMMA PausedOutcome ==
    ASSUME NEW s \in RunStates, NEW st, NEW ph, NEW ta, NEW rej,
           rej = s.rej \/ \E x : rej = Append(s.rej, x),
           NEW tr, NEW m, NEW k, NEW n, NEW r
    PROVE  Outcome(s, Finish(LogInterrupt(Made(s, st, ph, ta, rej, s.log), tr, m, k), n, r, FALSE))
<1>. DEFINE entry == [trigger |-> tr, next |-> m, att |-> k, resolved |-> FALSE]
<1>1. LogInterrupt(Made(s, st, ph, ta, rej, s.log), tr, m, k)
         = Made(s, "awaiting-human", "awaiting_human", ta, rej, Append(s.log, entry))
  <2>. DEFINE u == Made(s, st, ph, ta, rej, s.log)
  <2>1. u.log = s.log
    BY DEF RunStates, Made
  <2>. HIDE DEF entry, u
  <2>2. LogInterrupt(u, tr, m, k) = [u EXCEPT !.status = "awaiting-human",
                                       !.phase = "awaiting_human", !.log = Append(s.log, entry)]
    BY <2>1 DEF LogInterrupt, entry
  <2>. QED
    BY <2>2 DEF RunStates, u, Made
<1>. HIDE DEF entry
<1>2. \E e : Append(s.log, entry) = Append(s.log, e)
  OBVIOUS
<1>3. Outcome(s, Finish(Made(s, "awaiting-human", "awaiting_human", ta, rej, Append(s.log, entry)),
                        n, r, FALSE))
  BY <1>2, FinishOutcome, Zenon
<1>. QED
  BY <1>1, <1>3

\* Handing off is one of the two.
LEMMA HandOffOutcome ==
    ASSUME NEW s \in RunStates, NEW st, NEW ph, NEW ta, NEW rej,
           rej = s.rej \/ \E x : rej = Append(s.rej, x),
           NEW n, NEW r, NEW p, NEW m
    PROVE  Outcome(s, HandOff(Made(s, st, ph, ta, rej, s.log), n, r, p, m))
<1>. DEFINE u == Made(s, st, ph, ta, rej, s.log)
<1>1. \/ HandOff(u, n, r, p, m) = Finish(u, n, r, FALSE)
      \/ \E tr, k : HandOff(u, n, r, p, m) = Finish(LogInterrupt(u, tr, m, k), n, r, FALSE)
  BY DEF HandOff
<1>2. Outcome(s, Finish(u, n, r, FALSE))
  BY FinishOutcome, Zenon
<1>3. \A tr, k : Outcome(s, Finish(LogInterrupt(u, tr, m, k), n, r, FALSE))
  BY PausedOutcome, Zenon
<1>. HIDE DEF u
<1>4. Outcome(s, HandOff(u, n, r, p, m))
  BY <1>1, <1>2, <1>3, Zenon
<1>. QED
  BY <1>4 DEF u

\* Delivery sends what waits for n, and moves nothing that was delivered.
LEMMA DeliverExtends ==
    ASSUME NEW s \in RunStates, NEW n \in RoleNodes, NEW k \in Nat
    PROVE  Extends(s, Deliver(s, n, k))
<1>. DEFINE t == Deliver(s, n, k)
<1>1. /\ t.attempts = s.attempts /\ t.log = s.log /\ t.rej = s.rej /\ t.used = s.used
      /\ Len(t.human) = Len(s.human) /\ t.queue \in Seq(Intervention)
  <2>1. t.attempts = s.attempts /\ t.used = s.used /\ Len(t.human) = Len(s.human) /\ t \in RunStates
    BY DeliverType
  <2>2. t.log = s.log /\ t.rej = s.rej
    BY DEF Deliver, RunStates
  <2>. QED
    BY <2>1, <2>2 DEF RunStates
<1>2. /\ DOMAIN t.queue = DOMAIN s.queue
      /\ \A i \in DOMAIN s.queue :
            \/ t.queue[i] = s.queue[i]
            \/ s.queue[i].to = 0 /\ t.queue[i] = [s.queue[i] EXCEPT !.to = k]
  BY DEF Deliver, RunStates
<1>. HIDE DEF t
<1>3. Len(t.queue) = Len(s.queue)
  BY <1>1, <1>2, Sequences, LenProperties
<1>4. ASSUME NEW i \in 1 .. Len(s.queue)
      PROVE  t.queue[i].target = s.queue[i].target
             /\ (s.queue[i].to # 0 => t.queue[i].to = s.queue[i].to)
  <2>1. s.queue[i] \in Intervention
    BY Sequences, ElementOfSeq
  <2>2. [s.queue[i] EXCEPT !.to = k].target = s.queue[i].target
    BY <2>1 DEF Intervention
  <2>. QED
    BY <1>2, <2>2, Sequences
<1>. QED
  BY <1>1, <1>3, <1>4, Sequences DEF Extends, t

\* A step of the process extends its record.
LEMMA CreateAttemptExtends ==
    ASSUME RunInv, CreateAttempt PROVE Extends(mem, mem')
<1>. DEFINE k == IF Reusing THEN mem.progress.att ELSE Len(mem.attempts) + 1
            new == [node |-> at, result |-> "open"]
            list == IF Reusing THEN mem.attempts ELSE Append(mem.attempts, new)
            s == [mem EXCEPT !.attempts = list, !.progress = CreatedCursor(k)]
<1>1. /\ mem' = (IF at \in Reviewers THEN s ELSE Deliver(s, at, k)) /\ at \in RoleNodes
  BY DEF CreateAttempt, AtRole
<1>2. mem \in RunStates /\ mem.progress \in Progress
  BY DEF RunInv, RecordInv, Core, RunStates
<1>3. k \in Nat
  BY <1>2, Sequences DEF Progress
<1>4. CreatedCursor(k) \in Progress
  BY <1>1, <1>2, <1>3, RoleFacts DEF CreatedCursor, Correcting, Progress, Stages
<1>5. /\ list \in Seq(Attempt) /\ Len(mem.attempts) <= Len(list)
      /\ \A i \in 1 .. Len(mem.attempts) : list[i] = mem.attempts[i]
  <2>1. mem.attempts \in Seq(Attempt) /\ new \in Attempt /\ Len(mem.attempts) \in Nat
    BY <1>1, <1>2, Sequences DEF Attempt, Results
  <2>. HIDE DEF new
  <2>2. /\ Append(mem.attempts, new) \in Seq(Attempt)
        /\ Len(Append(mem.attempts, new)) = Len(mem.attempts) + 1
        /\ \A i \in 1 .. Len(mem.attempts) : Append(mem.attempts, new)[i] = mem.attempts[i]
    BY <2>1
  <2>. QED
    BY <2>1, <2>2
<1>. HIDE DEF k, list
<1>6. s \in RunStates /\ s.attempts = list /\ s.log = mem.log /\ s.queue = mem.queue
      /\ s.rej = mem.rej /\ s.human = mem.human /\ s.used = mem.used
  BY <1>2, <1>4, <1>5 DEF RunStates
<1>. HIDE DEF s
<1>7. Extends(mem, s)
  BY <1>2, <1>5, <1>6, Sequences DEF Extends
<1>8. CASE at \in Reviewers
  BY <1>1, <1>7, <1>8
<1>9. CASE at \notin Reviewers
  <2>1. mem' = Deliver(s, at, k) /\ Extends(s, Deliver(s, at, k))
    BY <1>1, <1>3, <1>6, <1>9, DeliverExtends
  <2>2. Deliver(s, at, k) \in RunStates
    BY <1>1, <1>3, <1>6, DeliverType
  <2>. QED
    BY <1>2, <1>6, <1>7, <2>1, <2>2, ExtendsTransitive, Zenon
<1>. QED
  BY <1>8, <1>9

\* The end of an attempt settles it and may add an interrupt.
LEMMA RoleOutcome ==
    ASSUME RunInv, Role PROVE Outcome(mem, mem')
<1>1. pc = "started" /\ Core(mem) /\ mem.progress.stage = "attempt-started" /\ mem \in RunStates
  <2>1. pc = "started"
    BY DEF Role, RoleSucceeds, ReviewAccepts, ReviewRejects, RoleFails, RoleViolatesContract,
           DriverBlocks, DriverEscalates
  <2>. QED
    BY <2>1, StartedFacts
<1>2. mem.rej = mem.rej \/ \E x : mem.rej = Append(mem.rej, x)
  OBVIOUS
<1>3. CASE RoleSucceeds
  <2>1. mem' = HandOff([mem EXCEPT !.status = "in-progress", !.phase = HandOffPhase(at)],
                        at, "accepted", HandOffPhase(at), NextOnSuccess[at])
    BY <1>3 DEF RoleSucceeds, Conclude
  <2>2. [mem EXCEPT !.status = "in-progress", !.phase = HandOffPhase(at)]
           = Made(mem, "in-progress", HandOffPhase(at), mem.target, mem.rej, mem.log)
    BY <1>1 DEF RunStates, Made
  <2>3. Outcome(mem, HandOff(Made(mem, "in-progress", HandOffPhase(at), mem.target, mem.rej, mem.log),
                        at, "accepted", HandOffPhase(at), NextOnSuccess[at]))
    BY <1>1, <1>2, HandOffOutcome, Zenon
  <2>. QED
    BY <1>1, <2>1, <2>2, <2>3, Zenon
<1>4. CASE ReviewAccepts
  <2>1. PICK st : mem' = HandOff([mem EXCEPT !.status = st, !.phase = AcceptedNext[at]],
                        at, "accepted", AcceptedNext[at], RejectedNext[at])
    BY <1>4 DEF ReviewAccepts, Conclude
  <2>2. [mem EXCEPT !.status = st, !.phase = AcceptedNext[at]]
           = Made(mem, st, AcceptedNext[at], mem.target, mem.rej, mem.log)
    BY <1>1 DEF RunStates, Made
  <2>3. Outcome(mem, HandOff(Made(mem, st, AcceptedNext[at], mem.target, mem.rej, mem.log),
                        at, "accepted", AcceptedNext[at], RejectedNext[at]))
    BY <1>1, <1>2, HandOffOutcome, Zenon
  <2>. QED
    BY <1>1, <2>1, <2>2, <2>3, Zenon
<1>5. ASSUME NEW cause, ReviewRejects(cause) PROVE Outcome(mem, mem')
  <2>. DEFINE rej == Append(mem.rej, [at |-> at, cause |-> cause])
  <2>1. mem' = HandOff([mem EXCEPT !.status = "in-progress", !.phase = RetryPhase(at),
                                   !.rej = rej],
                        at, "rejected", RetryPhase(at), RejectedNext[at])
    BY <1>5 DEF ReviewRejects, Conclude
  <2>2. rej = mem.rej \/ \E x : rej = Append(mem.rej, x)
    OBVIOUS
  <2>. HIDE DEF rej
  <2>3. [mem EXCEPT !.status = "in-progress", !.phase = RetryPhase(at), !.rej = rej]
           = Made(mem, "in-progress", RetryPhase(at), mem.target, rej, mem.log)
    BY <1>1 DEF RunStates, Made
  <2>4. Outcome(mem, HandOff(Made(mem, "in-progress", RetryPhase(at), mem.target, rej, mem.log),
                        at, "rejected", RetryPhase(at), RejectedNext[at]))
    BY <1>1, <2>2, HandOffOutcome, Zenon
  <2>. QED
    BY <1>1, <2>1, <2>3, <2>4, Zenon
<1>6. mem = Made(mem, mem.status, mem.phase, mem.target, mem.rej, mem.log)
  BY <1>1 DEF RunStates, Made
<1>7. ASSUME NEW r, mem' = PauseOnFailure(mem, at, r) PROVE Outcome(mem, mem')
  <2>1. mem' = Finish(LogInterrupt(Made(mem, mem.status, mem.phase, mem.target, mem.rej, mem.log), 
                                   "failure", at, mem.progress.att), at, r, FALSE)
    BY <1>6, <1>7 DEF PauseOnFailure
  <2>2. Outcome(mem, mem')
    BY <1>1, <1>2, <2>1, PausedOutcome, Zenon
  <2>. QED
    BY <1>1, <2>2, Zenon
<1>8. CASE RoleFails
  BY <1>7, <1>8 DEF RoleFails, Conclude
<1>9. ASSUME NEW st, NEW ph, NEW ta, NEW log, NEW r, NEW c,
              log = mem.log \/ \E e : log = Append(mem.log, e),
              mem' = Finish(Made(mem, st, ph, ta, mem.rej, log), at, r, c)
       PROVE  Outcome(mem, mem')
  BY <1>1, <1>2, <1>9, FinishOutcome, Zenon
<1>10. CASE RoleViolatesContract
  <2>1. CASE Correcting
    BY <1>7, <1>10, <2>1 DEF RoleViolatesContract, Conclude
  <2>2. CASE ~Correcting
    <3>1. mem' = Finish([mem EXCEPT !.phase = at, !.target = at], at, "corrected", TRUE)
      BY <1>10, <2>2 DEF RoleViolatesContract, Conclude
    <3>2. [mem EXCEPT !.phase = at, !.target = at] = Made(mem, mem.status, at, at, mem.rej, mem.log)
      BY <1>1 DEF RunStates, Made
    <3>. QED
      BY <1>9, <3>1, <3>2, Zenon
  <2>. QED
    BY <2>1, <2>2
<1>11. CASE DriverBlocks
  <2>1. mem' = Finish([mem EXCEPT !.status = "blocked", !.phase = at, !.target = at],
                      at, "blocked", FALSE)
    BY <1>11 DEF DriverBlocks, Conclude
  <2>2. [mem EXCEPT !.status = "blocked", !.phase = at, !.target = at]
           = Made(mem, "blocked", at, at, mem.rej, mem.log)
    BY <1>1 DEF RunStates, Made
  <2>. QED
    BY <1>9, <2>1, <2>2, Zenon
<1>12. CASE DriverEscalates
  <2>. DEFINE entry == [trigger |-> "role-escalation", next |-> at, att |-> mem.progress.att,
                        resolved |-> FALSE]
  <2>1. mem' = Finish([LogInterrupt(mem, "role-escalation", at, mem.progress.att)
                            EXCEPT !.target = at], at, "escalated", FALSE)
    BY <1>12 DEF DriverEscalates, Conclude
  <2>2. [LogInterrupt(mem, "role-escalation", at, mem.progress.att) EXCEPT !.target = at]
           = Made(mem, "awaiting-human", "awaiting_human", at, mem.rej, Append(mem.log, entry))
    <3>1. LogInterrupt(mem, "role-escalation", at, mem.progress.att)
             = [mem EXCEPT !.status = "awaiting-human", !.phase = "awaiting_human",
                           !.log = Append(@, entry)]
      BY DEF LogInterrupt
    <3>. HIDE DEF entry
    <3>. QED
      BY <1>1, <3>1 DEF RunStates, Made
  <2>3. \E e : Append(mem.log, entry) = Append(mem.log, e)
    OBVIOUS
  <2>. HIDE DEF entry
  <2>. QED
    BY <1>9, <2>1, <2>2, <2>3, Zenon
<1>. QED
  BY <1>3, <1>4, <1>5, <1>8, <1>10, <1>11, <1>12, Zenon DEF Role

\* So it continues the record.
LEMMA RoleExtends ==
    ASSUME RunInv, Role PROVE Extends(mem, mem')
<1>1. pc = "started"
  BY DEF Role, RoleSucceeds, ReviewAccepts, ReviewRejects, RoleFails, RoleViolatesContract,
         DriverBlocks, DriverEscalates
<1>2. Core(mem) /\ mem.progress.stage = "attempt-started" /\ mem \in RunStates
  BY <1>1, StartedFacts
<1>. QED
  BY <1>2, RoleOutcome, OutcomeExtends, Zenon

\* Logging an interrupt adds one.
LEMMA LogInterruptExtends ==
    ASSUME NEW s \in RunStates, NEW t, NEW n, NEW k
    PROVE  Extends(s, LogInterrupt(s, t, n, k))
<1>. DEFINE entry == [trigger |-> t, next |-> n, att |-> k, resolved |-> FALSE]
            u == LogInterrupt(s, t, n, k)
<1>1. /\ u.attempts = s.attempts /\ u.queue = s.queue /\ u.rej = s.rej
      /\ u.human = s.human /\ u.used = s.used /\ u.log = Append(s.log, entry)
  BY DEF LogInterrupt, RunStates
<1>. HIDE DEF u, entry
<1>2. Len(u.log) = Len(s.log) + 1 /\ \A i \in 1 .. Len(s.log) : u.log[i] = s.log[i]
  BY <1>1, Sequences
<1>. QED
  BY <1>1, <1>2, Sequences DEF Extends, u

\* So do the other steps of a live process; what they save is one of its records.
LEMMA ProcessExtends ==
    ASSUME RunInv, Process \/ GateCheckpoint \/ GateRejects
    PROVE  Extends(mem, mem') /\ disk' \in {disk, mem, mem'}
<1>1. mem \in RunStates
  BY DEF RunInv, RecordInv, Core
<1>2. CASE HoldCorrection
  BY <1>1, <1>2, LogInterruptExtends DEF HoldCorrection
<1>3. CASE CreateAttempt
  BY <1>3, CreateAttemptExtends DEF CreateAttempt
<1>4. CASE Role
  <2>1. \E s, n : Conclude(s, n)
    BY <1>4, Zenon DEF Role, RoleSucceeds, ReviewAccepts, ReviewRejects, RoleFails,
           RoleViolatesContract, DriverBlocks, DriverEscalates
  <2>2. disk' = mem'
    BY <2>1, Zenon DEF Conclude
  <2>. QED
    BY <1>4, <2>2, RoleExtends
<1>5. CASE StartAttempt
  <2>1. /\ mem'.attempts = mem.attempts /\ mem'.log = mem.log /\ mem'.queue = mem.queue
        /\ mem'.rej = mem.rej /\ mem'.human = mem.human /\ mem'.used = mem.used + 1
        /\ disk' = mem'
    BY <1>1, <1>5 DEF StartAttempt, RunStates
  <2>2. /\ Len(mem.rej) <= Len(mem'.rej) /\ Len(mem.human) <= Len(mem'.human)
        /\ mem.used <= mem'.used
    BY <1>1, <2>1, Sequences
  <2>. QED
    BY <1>1, <2>1, <2>2, SameExtends, Zenon
<1>6. ASSUME NEW s, Extends(mem, s), s.attempts = mem.attempts, s.log = mem.log,
             s.queue = mem.queue, s.rej = mem.rej, s.human = mem.human, s.used = mem.used,
             DOMAIN s = DOMAIN mem, mem' = Checkpointed(s)
      PROVE  Extends(mem, mem')
  <2>1. /\ mem'.attempts = mem.attempts /\ mem'.log = mem.log /\ mem'.queue = mem.queue
        /\ mem'.rej = mem.rej /\ mem'.human = mem.human /\ mem'.used = mem.used
    BY <1>6 DEF Checkpointed
  <2>. QED
    BY <1>1, <2>1, SameHistory, Zenon
<1>7. CASE CheckpointOutcome
  BY <1>1, <1>6, <1>7, ExtendsReflexive DEF CheckpointOutcome
<1>8. CASE Route \/ FinalSave \/ GateCheckpoint \/ GateRejects
  BY <1>1, <1>8, ExtendsReflexive DEF Route, FinalSave, GateCheckpoint, GateRejects
<1>9. CASE RecursionLimit
  <2>1. /\ mem'.attempts = mem.attempts /\ mem'.log = mem.log /\ mem'.queue = mem.queue
        /\ mem'.rej = mem.rej /\ mem'.human = mem.human /\ mem'.used = mem.used
        /\ disk' = disk
    BY <1>1, <1>9 DEF RecursionLimit, RunStates
  <2>. QED
    BY <1>1, <2>1, SameHistory, Zenon
<1>10. CASE StopNode
  <2>1. at \in {"done", "awaiting_human", "blocked"}
    BY <1>10 DEF StopNode, RunInv, Scalars, Nodes, RoleNodes
  <2>2. disk' = mem' /\ \E st, ph :
           mem' = Checkpointed([mem EXCEPT !.status = st, !.phase = ph])
    <3>1. [mem EXCEPT !.status = "blocked"]
             = [mem EXCEPT !.status = "blocked", !.phase = mem.phase]
      BY <1>1 DEF RunStates
    <3>. QED
      BY <1>10, <2>1, <3>1 DEF StopNode
  <2>3. PICK st, ph : mem' = Checkpointed([mem EXCEPT !.status = st, !.phase = ph])
    BY <2>2
  <2>4. /\ mem'.attempts = mem.attempts /\ mem'.log = mem.log /\ mem'.queue = mem.queue
        /\ mem'.rej = mem.rej /\ mem'.human = mem.human /\ mem'.used = mem.used
    BY <1>1, <2>3 DEF Checkpointed, RunStates
  <2>5. Extends(mem, mem')
    BY <1>1, <2>4, SameHistory, Zenon
  <2>. QED
    BY <2>2, <2>5
<1>. QED
  BY <1>2, <1>3, <1>4, <1>5, <1>7, <1>8, <1>9, <1>10, Zenon DEF Process

\* A resume saves a record that extends the last one, and works on it.
LEMMA ResumeExtends ==
    ASSUME RunInv, Resume, RunInv' PROVE Extends(disk, disk') /\ Extends(disk', mem')
<1>1. disk \in RunStates /\ disk' \in RunStates
  BY DEF RunInv, RecordInv, Core
<1>2. ASSUME NEW s, Launch(s), Extends(disk, s)
      PROVE  Extends(disk, disk') /\ Extends(disk', mem')
  <2>1. disk' = s /\ \E ta : mem' = [s EXCEPT !.target = ta, !.status = "in-progress", !.phase = ta]
    BY <1>2 DEF Launch
  <2>2. /\ mem'.attempts = disk'.attempts /\ mem'.log = disk'.log /\ mem'.queue = disk'.queue
        /\ mem'.rej = disk'.rej /\ mem'.human = disk'.human /\ mem'.used = disk'.used
    BY <1>1, <2>1 DEF RunStates
  <2>. QED
    BY <1>1, <1>2, <2>1, <2>2, SameHistory, Zenon
<1>3. CASE ReplayDecision \/ ResumeAnyway
  BY <1>1, <1>2, <1>3, ExtendsReflexive DEF ReplayDecision, ResumeAnyway
<1>4. CASE ResolveBlock
  <2>1. PICK d : Launch(Decide(disk, d))
    BY <1>4 DEF ResolveBlock
  <2>2. /\ Decide(disk, d).attempts = disk.attempts /\ Decide(disk, d).log = disk.log
        /\ Decide(disk, d).queue = disk.queue /\ Decide(disk, d).rej = disk.rej
        /\ Decide(disk, d).human = Append(disk.human, d) /\ Decide(disk, d).used = disk.used
    BY <1>1 DEF Decide, RunStates
  <2>3. Extends(disk, Decide(disk, d))
    BY <1>1, <2>2, DecidedExtends, Zenon
  <2>. QED
    BY <1>2, <2>1, <2>3, Zenon
<1>5. CASE ResolveInterrupt
  <2>. DEFINE i == Latest(Unresolved(disk))
              log == [disk.log EXCEPT ![i].resolved = TRUE]
              u == [disk EXCEPT !.log[i].resolved = TRUE]
  <2>1. i \in 1 .. Len(disk.log) /\ ~disk.log[i].resolved
    <3>1. /\ Unresolved(disk) \in SUBSET (1 .. Len(disk.log)) /\ Unresolved(disk) # {}
          /\ Len(disk.log) \in Nat
      BY <1>1, <1>5, Sequences DEF ResolveInterrupt, Unresolved
    <3>2. i \in Unresolved(disk)
      BY <3>1, LatestInDomain, Zenon
    <3>. QED
      BY <3>1, <3>2 DEF Unresolved
  <2>2. PICK d : Launch(Decide(u, d))
    BY <1>5 DEF ResolveInterrupt
  <2>3. Len(log) = Len(disk.log) /\ \A j \in 1 .. Len(disk.log) : j # i => log[j] = disk.log[j]
    BY <1>1, <2>1, Sequences
  <2>. HIDE DEF i, log
  <2>4. /\ Decide(u, d).attempts = disk.attempts /\ Decide(u, d).log = log
        /\ Decide(u, d).queue = disk.queue /\ Decide(u, d).rej = disk.rej
        /\ Decide(u, d).human = Append(disk.human, d) /\ Decide(u, d).used = disk.used
    <3>1. u = [disk EXCEPT !.log = log]
      BY DEF log
    <3>. QED
      BY <1>1, <3>1 DEF Decide, RunStates
  <2>5. Len(disk.human) <= Len(Append(disk.human, d))
    BY <1>1, Sequences
  <2>. DEFINE v == Decide(u, d)
  <2>6. /\ v.attempts = disk.attempts /\ v.log = log /\ v.queue = disk.queue
        /\ v.rej = disk.rej /\ v.used = disk.used /\ Len(disk.human) <= Len(v.human)
    BY <2>4, <2>5
  <2>. HIDE DEF u, v
  <2>7. /\ Len(disk.log) <= Len(v.log)
        /\ \A j \in 1 .. Len(disk.log) : v.log[j] = disk.log[j] \/ ~disk.log[j].resolved
    BY <1>1, <2>1, <2>3, <2>6, Sequences
  <2>8. /\ Len(disk.attempts) <= Len(v.attempts) /\ Len(disk.queue) <= Len(v.queue)
        /\ Len(disk.rej) <= Len(v.rej) /\ disk.used <= v.used
    BY <1>1, <2>6, Sequences
  <2>9. Extends(disk, v)
    BY <2>6, <2>7, <2>8, Zenon DEF Extends
  <2>10. Extends(disk, Decide(u, d))
    BY <2>9 DEF v
  <2>. QED
    BY <1>2, <2>2, <2>10, Zenon
<1>. QED
  BY <1>3, <1>4, <1>5 DEF Resume

\* Queued context and the record of it come last.
LEMMA QueueExtends ==
    ASSUME RunInv, NEW n, QueueIntervention(n) PROVE Extends(disk, disk')
<1>. DEFINE q == [target |-> n, to |-> 0]
            h == [kind |-> "intervention", on |-> Len(disk.queue) + 1, disp |-> "queued"]
<1>1. disk \in RunStates
  BY DEF RunInv, RecordInv, Core
<1>2. /\ disk'.attempts = disk.attempts /\ disk'.log = disk.log /\ disk'.rej = disk.rej
      /\ disk'.used = disk.used /\ disk'.queue = Append(disk.queue, q)
      /\ disk'.human = Append(disk.human, h)
  BY <1>1 DEF QueueIntervention, RunStates
<1>. HIDE DEF q, h
<1>3. Len(disk'.queue) = Len(disk.queue) + 1 /\ Len(disk'.human) = Len(disk.human) + 1
      /\ \A i \in 1 .. Len(disk.queue) : disk'.queue[i] = disk.queue[i]
  BY <1>1, <1>2, Sequences
<1>4. /\ Len(disk.queue) <= Len(disk'.queue) /\ Len(disk.human) <= Len(disk'.human)
      /\ Len(disk.attempts) <= Len(disk'.attempts) /\ Len(disk.log) <= Len(disk'.log)
      /\ Len(disk.rej) <= Len(disk'.rej) /\ disk.used <= disk'.used
  BY <1>1, <1>2, <1>3, Sequences
<1>. QED
  BY <1>2, <1>3, <1>4, Zenon DEF Extends

\* The process only ever adds to what is saved, and so does every save.
LEMMA NextExtends ==
    ASSUME Supervised, RunInv, RunInv', Extends(disk, mem), [Next]_vars
    PROVE  Extends(disk, disk') /\ Extends(disk', mem')
<1>1. disk \in RunStates /\ mem \in RunStates /\ disk' \in RunStates /\ mem' \in RunStates
  BY DEF RunInv, RecordInv, Core
<1>2. CASE Process \/ GateCheckpoint \/ GateRejects
  <2>1. Extends(mem, mem') /\ disk' \in {disk, mem, mem'}
    BY <1>2, ProcessExtends
  <2>2. Extends(disk, mem') /\ Extends(disk, disk) /\ Extends(mem', mem')
    BY <1>1, <2>1, ExtendsTransitive, ExtendsReflexive, Zenon
  <2>. QED
    BY <2>1, <2>2
<1>3. CASE Crash
  BY <1>1, <1>3, ExtendsReflexive DEF Crash
<1>4. CASE Resume
  BY <1>4, ResumeExtends
<1>5. CASE \E t \in Addressees : QueueIntervention(t)
  <2>1. disk' = mem'
    BY <1>5 DEF QueueIntervention
  <2>. QED
    BY <1>1, <1>5, <2>1, QueueExtends, ExtendsReflexive
<1>6. CASE UNCHANGED vars
  BY <1>1, <1>6, ExtendsReflexive DEF vars
<1>. QED
  BY <1>2, <1>3, <1>4, <1>5, <1>6 DEF Next

\* No save of a supervised Run, by whoever and after whatever crash, drops an
\* attempt, a rejection, an interrupt, a decision or queued context, or rewrites
\* a settled one.
THEOREM HistoryAppends == ASSUME Supervised PROVE Spec => AppendOnly
<1>. DEFINE Q == \A i \in DOMAIN disk.queue :
                    /\ i \in DOMAIN disk'.queue
                    /\ disk'.queue[i].target = disk.queue[i].target
                    /\ disk.queue[i].to # 0 => disk'.queue[i].to = disk.queue[i].to
            A == /\ \A k \in DOMAIN disk.attempts :
                        /\ k \in DOMAIN disk'.attempts
                        /\ disk'.attempts[k].node = disk.attempts[k].node
                        /\ disk.attempts[k].result # "open" =>
                              disk'.attempts[k] = disk.attempts[k]
                 /\ \A i \in DOMAIN disk.log :
                        /\ i \in DOMAIN disk'.log
                        /\ disk'.log[i] = disk.log[i] \/ ~disk.log[i].resolved
                 /\ Len(disk'.rej) >= Len(disk.rej) /\ Len(disk'.human) >= Len(disk.human)
                 /\ disk'.used >= disk.used
<1>1. Init => Extends(disk, mem)
  BY DEF Init, FreshRun, Extends
<1>2. RunInv /\ RunInv' /\ Extends(disk, mem) /\ [Next]_vars => Extends(disk, mem)'
  BY NextExtends
<1>3. RunInv /\ RunInv' /\ Extends(disk, mem) /\ [Next]_vars => Q /\ A
  <2>. SUFFICES ASSUME RunInv, RunInv', Extends(disk, mem), [Next]_vars PROVE Q /\ A
    OBVIOUS
  <2>1. Extends(disk, disk') /\ disk \in RunStates /\ disk' \in RunStates
    BY NextExtends DEF RunInv, RecordInv, Core
  <2>2. /\ DOMAIN disk.attempts = 1 .. Len(disk.attempts) /\ DOMAIN disk.log = 1 .. Len(disk.log)
        /\ DOMAIN disk.queue = 1 .. Len(disk.queue)
        /\ DOMAIN disk'.attempts = 1 .. Len(disk'.attempts)
        /\ DOMAIN disk'.log = 1 .. Len(disk'.log) /\ DOMAIN disk'.queue = 1 .. Len(disk'.queue)
    BY <2>1, Sequences
  <2>3. /\ Len(disk.attempts) \in Nat /\ Len(disk'.attempts) \in Nat
        /\ Len(disk.log) \in Nat /\ Len(disk'.log) \in Nat
        /\ Len(disk.queue) \in Nat /\ Len(disk'.queue) \in Nat
        /\ Len(disk.rej) \in Nat /\ Len(disk'.rej) \in Nat
        /\ Len(disk.human) \in Nat /\ Len(disk'.human) \in Nat
        /\ disk.used \in Nat /\ disk'.used \in Nat
    BY <2>1, Sequences, Zenon
  <2>4. /\ Len(disk.attempts) <= Len(disk'.attempts) /\ Len(disk.log) <= Len(disk'.log)
        /\ Len(disk.queue) <= Len(disk'.queue) /\ Len(disk.rej) <= Len(disk'.rej)
        /\ Len(disk.human) <= Len(disk'.human) /\ disk.used <= disk'.used
    BY <2>1, Zenon DEF Extends
  <2>5. \A a, b \in Nat : a <= b => b >= a /\ \A k \in 1 .. a : k \in 1 .. b
    OBVIOUS
  <2>. QED
    BY <2>1, <2>2, <2>3, <2>4, <2>5, Zenon DEF Extends
<1>4. Q /\ A => [Q]_vars /\ [A]_vars
  OBVIOUS
<1>. HIDE DEF Q, A
<1>5. Spec => [][Q]_vars /\ [][A]_vars
  BY <1>1, <1>2, <1>3, <1>4, Invariance, PTL DEF Spec
<1>. QED
  BY <1>5 DEF AppendOnly, NoInterventionLost, Q, A

-----------------------------------------------------------------------------
(* Queued context reaches its attempt *)

\* The human log entry of a queued or delivered intervention.
EntryOf(s, i) == [kind |-> "intervention", on |-> i,
                  disp |-> IF s.queue[i].to = 0 THEN "queued" ELSE "delivered"]

\* What was delivered went to an attempt of its target, and the human log knows of all.
Reached(s) ==
    \A i \in DOMAIN s.queue :
        /\ s.queue[i].to # 0 => /\ s.queue[i].to \in DOMAIN s.attempts
                                /\ s.attempts[s.queue[i].to].node = s.queue[i].target
        /\ \E j \in DOMAIN s.human : s.human[j] = EntryOf(s, i)

\* Nothing in s waits for role n.
NothingFor(s, n) == \A i \in DOMAIN s.queue : s.queue[i].to = 0 => s.queue[i].target # n

\* Both copies, and: once an attempt is created, nothing queued for its role is left.
ContextInv ==
    /\ Reached(disk) /\ Reached(mem)
    /\ pc \in {"created", "started"} => NothingFor(mem, at)

\* A record with the same queue and human log, whose attempts kept their places.
LEMMA ReachedKept ==
    ASSUME NEW s, NEW t, Reached(s), t.queue = s.queue, t.human = s.human,
           \A k \in DOMAIN s.attempts :
              k \in DOMAIN t.attempts /\ t.attempts[k].node = s.attempts[k].node
    PROVE  Reached(t)
<1>1. \A i : EntryOf(t, i) = EntryOf(s, i)
  BY DEF EntryOf
<1>. QED
  BY <1>1, Zenon DEF Reached

\* A record that continues s kept the places of its attempts.
LEMMA ExtendsKeepsPlaces ==
    ASSUME NEW s \in RunStates, NEW t \in RunStates, Extends(s, t)
    PROVE  \A k \in DOMAIN s.attempts :
              k \in DOMAIN t.attempts /\ t.attempts[k].node = s.attempts[k].node
<1>1. /\ DOMAIN s.attempts = 1 .. Len(s.attempts) /\ DOMAIN t.attempts = 1 .. Len(t.attempts)
      /\ Len(s.attempts) \in Nat /\ Len(t.attempts) \in Nat
  BY Sequences, Zenon
<1>2. /\ Len(s.attempts) <= Len(t.attempts)
      /\ \A k \in 1 .. Len(s.attempts) : t.attempts[k].node = s.attempts[k].node
  BY Zenon DEF Extends
<1>. QED
  BY <1>1, <1>2

\* Delivery to an attempt of role n leaves nothing for n, and the log in step.
LEMMA DeliverReaches ==
    ASSUME NEW s \in RunStates, Reached(s), NEW n \in RoleNodes, NEW k \in Nat \ {0},
           k \in DOMAIN s.attempts, s.attempts[k].node = n
    PROVE  Reached(Deliver(s, n, k)) /\ NothingFor(Deliver(s, n, k), n)
<1>. DEFINE hit(i) == s.queue[i].target = n /\ s.queue[i].to = 0
            queue == [i \in DOMAIN s.queue |->
                        IF hit(i) THEN [s.queue[i] EXCEPT !.to = k] ELSE s.queue[i]]
            human == [j \in DOMAIN s.human |->
                        IF s.human[j].kind = "intervention" /\ hit(s.human[j].on)
                        THEN [s.human[j] EXCEPT !.disp = "delivered"] ELSE s.human[j]]
            t == Deliver(s, n, k)
<1>1. /\ s.queue \in Seq(Intervention) /\ s.human \in Seq(HumanAction)
      /\ DOMAIN s.queue = 1 .. Len(s.queue) /\ DOMAIN s.human = 1 .. Len(s.human)
  BY DEF RunStates
<1>2. t = [s EXCEPT !.queue = queue, !.human = human]
  BY DEF Deliver
<1>3. ASSUME NEW i \in DOMAIN s.queue
      PROVE  /\ queue[i].target = s.queue[i].target
             /\ hit(i) => queue[i].to = k
             /\ ~hit(i) => queue[i] = s.queue[i]
  <2>1. s.queue[i] \in Intervention
    BY <1>1
  <2>. DEFINE e == [s.queue[i] EXCEPT !.to = k]
  <2>2. e.target = s.queue[i].target /\ e.to = k
    BY <2>1 DEF Intervention
  <2>3. queue[i] = IF hit(i) THEN e ELSE s.queue[i]
    OBVIOUS
  <2>. HIDE DEF queue, e, hit
  <2>. QED
    BY <2>2, <2>3
<1>4. ASSUME NEW i \in DOMAIN s.queue, NEW j \in DOMAIN s.human, s.human[j] = EntryOf(s, i)
      PROVE  human[j] = [kind |-> "intervention", on |-> i,
                         disp |-> IF hit(i) \/ s.queue[i].to # 0 THEN "delivered" ELSE "queued"]
  <2>1. s.human[j].kind = "intervention" /\ s.human[j].on = i
    BY <1>4 DEF EntryOf
  <2>2. CASE hit(i)
    <3>1. human[j] = [s.human[j] EXCEPT !.disp = "delivered"]
      BY <2>1, <2>2
    <3>. HIDE DEF human
    <3>. QED
      BY <1>4, <2>2, <3>1 DEF EntryOf
  <2>3. CASE ~hit(i)
    <3>1. human[j] = s.human[j]
      BY <2>1, <2>3
    <3>. HIDE DEF human
    <3>. QED
      BY <1>4, <2>3, <3>1 DEF EntryOf
  <2>. QED
    BY <2>2, <2>3
<1>5. DOMAIN queue = DOMAIN s.queue /\ DOMAIN human = DOMAIN s.human
  OBVIOUS
<1>6. /\ t.queue = queue /\ t.human = human /\ t.attempts = s.attempts
  <2>. HIDE DEF queue, human, t
  <2>. QED
    BY <1>2 DEF RunStates
<1>. HIDE DEF queue, human, t
<1>7. ASSUME NEW i \in DOMAIN s.queue
      PROVE  /\ queue[i].to # 0 => /\ queue[i].to \in DOMAIN s.attempts
                                   /\ s.attempts[queue[i].to].node = queue[i].target
             /\ queue[i].to = 0 => queue[i].target # n
             /\ queue[i].to = 0 <=> ~(hit(i) \/ s.queue[i].to # 0)
  BY <1>3 DEF Reached
<1>8. ASSUME NEW i \in DOMAIN s.queue
      PROVE  \E j \in DOMAIN human : human[j] = EntryOf(t, i)
  <2>1. PICK j \in DOMAIN s.human : s.human[j] = EntryOf(s, i)
    BY DEF Reached
  <2>2. human[j] = EntryOf(t, i)
    BY <1>4, <1>6, <1>7, <2>1 DEF EntryOf
  <2>. QED
    BY <1>5, <2>1, <2>2
<1>9. Reached(t)
  BY <1>5, <1>6, <1>7, <1>8, Zenon DEF Reached
<1>10. NothingFor(t, n)
  BY <1>5, <1>6, <1>7, Zenon DEF NothingFor
<1>. QED
  BY <1>9, <1>10 DEF t
\* The process touches queue and human log only when it creates an attempt.
LEMMA ContextUntouched ==
    ASSUME RunInv, Process \/ GateCheckpoint \/ GateRejects, ~CreateAttempt
    PROVE  mem'.queue = mem.queue /\ mem'.human = mem.human
<1>1. mem \in RunStates
  BY DEF RunInv, RecordInv, Core
<1>2. CASE HoldCorrection
  BY <1>1, <1>2 DEF HoldCorrection, LogInterrupt, RunStates
<1>3. CASE Role
  BY <1>3, RoleOutcome, Zenon DEF Outcome
<1>4. CASE StartAttempt
  BY <1>1, <1>4 DEF StartAttempt, RunStates
<1>5. CASE CheckpointOutcome
  BY <1>1, <1>5 DEF CheckpointOutcome, Checkpointed, RunStates
<1>6. CASE Route \/ FinalSave \/ GateCheckpoint \/ GateRejects
  BY <1>6 DEF Route, FinalSave, GateCheckpoint, GateRejects
<1>7. CASE RecursionLimit
  BY <1>1, <1>7 DEF RecursionLimit, RunStates
<1>8. CASE StopNode
  <2>1. at \in {"done", "awaiting_human", "blocked"}
    BY <1>8 DEF StopNode, RunInv, Scalars, Nodes, RoleNodes
  <2>2. \E st, ph : mem' = Checkpointed([mem EXCEPT !.status = st, !.phase = ph])
    <3>1. [mem EXCEPT !.status = "blocked"]
             = [mem EXCEPT !.status = "blocked", !.phase = mem.phase]
      BY <1>1 DEF RunStates
    <3>. QED
      BY <1>8, <2>1, <3>1 DEF StopNode
  <2>3. PICK st, ph : mem' = Checkpointed([mem EXCEPT !.status = st, !.phase = ph])
    BY <2>2
  <2>. QED
    BY <1>1, <2>3 DEF Checkpointed, RunStates
<1>. QED
  BY <1>2, <1>3, <1>4, <1>5, <1>6, <1>7, <1>8, Zenon DEF Process

\* Creating an attempt delivers to it everything queued for its role.
LEMMA CreateAttemptContext ==
    ASSUME RunInv, RunInv', ContextInv, CreateAttempt PROVE ContextInv'
<1>. DEFINE k == IF Reusing THEN mem.progress.att ELSE Len(mem.attempts) + 1
            list == IF Reusing THEN mem.attempts
                    ELSE Append(mem.attempts, [node |-> at, result |-> "open"])
            cursor == CreatedCursor(k)
            s == [mem EXCEPT !.attempts = list, !.progress = cursor]
<1>1. /\ mem' = (IF at \in Reviewers THEN s ELSE Deliver(s, at, k)) /\ at \in RoleNodes
      /\ disk' = mem' /\ pc' = "created" /\ at' = at
  BY DEF CreateAttempt, AtRole
<1>2. mem \in RunStates /\ mem' \in RunStates /\ mem.progress \in Progress /\ Reached(mem)
  BY DEF RunInv, RecordInv, Core, RunStates, ContextInv
<1>3. k \in Nat /\ cursor.att = k
  BY <1>2, Sequences DEF Progress, CreatedCursor
<1>4. Extends(mem, mem')
  BY CreateAttemptExtends
<1>5. list \in Seq(Attempt)
  <2>1. mem.attempts \in Seq(Attempt) /\ [node |-> at, result |-> "open"] \in Attempt
    BY <1>1, <1>2 DEF RunStates, Attempt, Results
  <2>. QED
    BY <2>1
<1>6. cursor \in Progress
  BY <1>1, <1>2, <1>3, RoleFacts DEF CreatedCursor, Correcting, Progress, Stages
<1>. HIDE DEF k, list, cursor
<1>7. /\ s \in RunStates /\ s.attempts = list /\ s.progress = cursor
      /\ s.queue = mem.queue /\ s.human = mem.human
  BY <1>2, <1>5, <1>6 DEF RunStates
<1>. HIDE DEF s
<1>8. mem'.attempts = list /\ mem'.progress = cursor
  BY <1>1, <1>3, <1>7, DeliverType
<1>9. k \in 1 .. Len(list) /\ list[k].node = at
  <2>1. mem'.progress.stage = "attempt-created" /\ mem'.progress.next = at /\ CursorInv(mem')
    BY <1>1 DEF RunInv, RecordInv, Core, ControlInv
  <2>. QED
    BY <1>3, <1>8, <2>1 DEF CursorInv, OpenStages, BeforeStages
<1>10. Reached(s)
  <2>1. \A i \in DOMAIN mem.attempts :
            i \in DOMAIN s.attempts /\ s.attempts[i].node = mem.attempts[i].node
    <3>1. \A i \in DOMAIN mem.attempts :
              i \in DOMAIN mem'.attempts /\ mem'.attempts[i].node = mem.attempts[i].node
      BY <1>2, <1>4, ExtendsKeepsPlaces, Zenon
    <3>2. mem'.attempts = s.attempts
      BY <1>7, <1>8
    <3>. QED
      BY <3>1, <3>2
  <2>. QED
    BY <1>2, <1>7, <2>1, ReachedKept, Zenon
<1>11. CASE at \in Reviewers
  <2>1. mem' = s
    BY <1>1, <1>11
  <2>2. NothingFor(mem', at)
    <3>1. \A i \in DOMAIN s.queue : s.queue[i] \in Intervention
      BY <1>7 DEF RunStates
    <3>2. \A i \in DOMAIN s.queue : s.queue[i].target \in InterventionTargets
      BY <3>1 DEF Intervention
    <3>3. InterventionTargets \cap Reviewers = {}
      BY DEF InterventionTargets, Reviewers
    <3>. QED
      BY <1>11, <2>1, <3>2, <3>3 DEF NothingFor
  <2>. QED
    BY <1>1, <1>10, <2>1, <2>2 DEF ContextInv
<1>12. CASE at \notin Reviewers
  <2>1. mem' = Deliver(s, at, k)
    BY <1>1, <1>12
  <2>2. k \in Nat \ {0} /\ k \in DOMAIN s.attempts /\ s.attempts[k].node = at
    BY <1>5, <1>7, <1>9
  <2>3. Reached(mem') /\ NothingFor(mem', at)
    BY <1>1, <1>7, <1>10, <2>1, <2>2, DeliverReaches, Zenon
  <2>. QED
    BY <1>1, <2>3 DEF ContextInv
<1>. QED
  BY <1>11, <1>12

\* A human queues context at the end of queue and log.
LEMMA QueueContext ==
    ASSUME RunInv, ContextInv, NEW n, QueueIntervention(n) PROVE ContextInv'
<1>. DEFINE q == [target |-> n, to |-> 0]
            h == [kind |-> "intervention", on |-> Len(disk.queue) + 1, disp |-> "queued"]
<1>1. disk \in RunStates /\ Reached(disk)
  BY DEF RunInv, RecordInv, Core, ContextInv
<1>2. /\ disk'.attempts = disk.attempts /\ disk'.queue = Append(disk.queue, q)
      /\ disk'.human = Append(disk.human, h)
      /\ pc' = pc /\ at' = at /\ mem' = IF pc = "idle" THEN disk' ELSE mem
  BY <1>1 DEF QueueIntervention, RunStates
<1>3. q.to = 0 /\ h = [kind |-> "intervention", on |-> Len(disk.queue) + 1, disp |-> "queued"]
  OBVIOUS
<1>. HIDE DEF q, h
<1>4. /\ disk.queue \in Seq(Intervention) /\ disk.human \in Seq(HumanAction)
  BY <1>1, Sequences
<1>5. /\ DOMAIN disk.queue = 1 .. Len(disk.queue) /\ DOMAIN disk.human = 1 .. Len(disk.human)
      /\ Len(disk.queue) \in Nat /\ Len(disk.human) \in Nat
      /\ DOMAIN disk'.queue = 1 .. Len(disk.queue) + 1
      /\ DOMAIN disk'.human = 1 .. Len(disk.human) + 1
      /\ \A i \in 1 .. Len(disk.queue) : disk'.queue[i] = disk.queue[i]
      /\ \A j \in 1 .. Len(disk.human) : disk'.human[j] = disk.human[j]
      /\ disk'.queue[Len(disk.queue) + 1] = q /\ disk'.human[Len(disk.human) + 1] = h
  BY <1>2, <1>4
<1>6. ASSUME NEW i \in DOMAIN disk.queue
      PROVE  EntryOf(disk', i) = EntryOf(disk, i) /\ disk'.queue[i] = disk.queue[i]
  BY <1>5 DEF EntryOf
<1>7. ASSUME NEW i \in DOMAIN disk'.queue
      PROVE  /\ disk'.queue[i].to # 0 =>
                    /\ disk'.queue[i].to \in DOMAIN disk'.attempts
                    /\ disk'.attempts[disk'.queue[i].to].node = disk'.queue[i].target
             /\ \E j \in DOMAIN disk'.human : disk'.human[j] = EntryOf(disk', i)
  <2>1. CASE i \in DOMAIN disk.queue
    <3>1. PICK j \in DOMAIN disk.human : disk.human[j] = EntryOf(disk, i)
      BY <1>1, <2>1 DEF Reached
    <3>2. j \in DOMAIN disk'.human /\ disk'.human[j] = EntryOf(disk', i)
      BY <1>5, <1>6, <2>1, <3>1
    <3>. QED
      BY <1>1, <1>2, <1>6, <2>1, <3>2, Zenon DEF Reached
  <2>2. CASE i \notin DOMAIN disk.queue
    <3>1. i = Len(disk.queue) + 1
      BY <1>5, <2>2
    <3>2. disk'.queue[i].to = 0 /\ disk'.human[Len(disk.human) + 1] = EntryOf(disk', i)
      BY <1>3, <1>5, <3>1 DEF EntryOf
    <3>3. Len(disk.human) + 1 \in DOMAIN disk'.human
      BY <1>5
    <3>. QED
      BY <3>2, <3>3, Zenon
  <2>. QED
    BY <2>1, <2>2
<1>8. Reached(disk')
  BY <1>7 DEF Reached
<1>. QED
  BY <1>2, <1>8 DEF ContextInv

\* A resume delivers nothing.
LEMMA ResumeContext ==
    ASSUME RunInv, RunInv', ContextInv, Resume PROVE ContextInv'
<1>1. disk \in RunStates /\ disk' \in RunStates /\ mem' \in RunStates /\ Reached(disk)
  BY DEF RunInv, RecordInv, Core, ContextInv
<1>2. ASSUME NEW s, Launch(s), s.queue = disk.queue,
             s.human = disk.human \/ \E d : s.human = Append(disk.human, d)
      PROVE  ContextInv'
  <2>1. /\ disk' = s /\ pc' = "enter"
        /\ \E ta : mem' = [s EXCEPT !.target = ta, !.status = "in-progress", !.phase = ta]
    BY <1>2 DEF Launch
  <2>2. mem'.attempts = disk'.attempts /\ mem'.queue = disk'.queue /\ mem'.human = disk'.human
    BY <1>1, <2>1 DEF RunStates
  <2>3. \A k \in DOMAIN disk.attempts :
            k \in DOMAIN disk'.attempts /\ disk'.attempts[k].node = disk.attempts[k].node
    BY <1>1, ResumeExtends, ExtendsKeepsPlaces, Zenon
  <2>4. \A j \in DOMAIN disk.human : j \in DOMAIN disk'.human /\ disk'.human[j] = disk.human[j]
    <3>1. disk.human \in Seq(HumanAction)
      BY <1>1, Sequences
    <3>. QED
      BY <1>2, <2>1, <3>1
  <2>5. disk'.queue = disk.queue
    BY <1>2, <2>1
  <2>6. \A i : EntryOf(disk', i) = EntryOf(disk, i)
    BY <2>5 DEF EntryOf
  <2>7. Reached(disk')
    <3>1. ASSUME NEW i \in DOMAIN disk.queue
          PROVE  /\ disk.queue[i].to # 0 =>
                        /\ disk.queue[i].to \in DOMAIN disk'.attempts
                        /\ disk'.attempts[disk.queue[i].to].node = disk.queue[i].target
                 /\ \E j \in DOMAIN disk'.human : disk'.human[j] = EntryOf(disk, i)
      BY <1>1, <2>3, <2>4 DEF Reached
    <3>. QED
      BY <2>5, <2>6, <3>1 DEF Reached
  <2>8. Reached(mem')
    BY <2>2, <2>7, ReachedKept, Zenon
  <2>. QED
    BY <2>1, <2>7, <2>8 DEF ContextInv
<1>3. CASE ReplayDecision \/ ResumeAnyway
  BY <1>2, <1>3 DEF ReplayDecision, ResumeAnyway
<1>4. CASE ResolveBlock
  <2>1. PICK d : Launch(Decide(disk, d))
    BY <1>4 DEF ResolveBlock
  <2>2. Decide(disk, d).queue = disk.queue /\ Decide(disk, d).human = Append(disk.human, d)
    BY <1>1 DEF Decide, RunStates
  <2>. QED
    BY <1>2, <2>1, <2>2, Zenon
<1>5. CASE ResolveInterrupt
  <2>. DEFINE i == Latest(Unresolved(disk))
              u == [disk EXCEPT !.log[i].resolved = TRUE]
  <2>1. PICK d : Launch(Decide(u, d))
    BY <1>5 DEF ResolveInterrupt
  <2>2. Decide(u, d).queue = disk.queue /\ Decide(u, d).human = Append(disk.human, d)
    <3>. DEFINE log == [disk.log EXCEPT ![i].resolved = TRUE]
    <3>1. u = [disk EXCEPT !.log = log]
      OBVIOUS
    <3>. HIDE DEF i, log
    <3>. QED
      BY <1>1, <3>1 DEF Decide, RunStates
  <2>. QED
    BY <1>2, <2>1, <2>2, Zenon
<1>. QED
  BY <1>3, <1>4, <1>5 DEF Resume

\* Every step keeps queue, attempts and human log in step.
LEMMA ContextNext ==
    ASSUME RunInv, RunInv', ContextInv, [Next]_vars PROVE ContextInv'
<1>1. CASE CreateAttempt
  BY <1>1, CreateAttemptContext
<1>2. CASE (Process \/ GateCheckpoint \/ GateRejects) /\ ~CreateAttempt
  <2>1. mem \in RunStates /\ mem' \in RunStates
    BY DEF RunInv, RecordInv, Core
  <2>2. mem'.queue = mem.queue /\ mem'.human = mem.human
    BY <1>2, ContextUntouched
  <2>3. Extends(mem, mem') /\ disk' \in {disk, mem, mem'}
    BY <1>2, ProcessExtends
  <2>4. Reached(mem')
    <3>1. \A k \in DOMAIN mem.attempts :
             k \in DOMAIN mem'.attempts /\ mem'.attempts[k].node = mem.attempts[k].node
      BY <2>1, <2>3, ExtendsKeepsPlaces, Zenon
    <3>2. Reached(mem)
      BY DEF ContextInv
    <3>. QED
      BY <2>2, <3>1, <3>2, ReachedKept, Zenon
  <2>5. pc' \in {"created", "started"} => pc = "created" /\ at' = at
    BY <1>2 DEF Process, HoldCorrection, StartAttempt, Role, RoleSucceeds, ReviewAccepts,
           ReviewRejects, RoleFails, RoleViolatesContract, DriverBlocks, DriverEscalates, Conclude,
           CheckpointOutcome, Route, RecursionLimit, StopNode, FinalSave, GateCheckpoint,
           GateRejects, AtRole
  <2>6. pc' \in {"created", "started"} => NothingFor(mem', at')
    BY <2>2, <2>5 DEF ContextInv, NothingFor
  <2>. QED
    BY <2>3, <2>4, <2>6 DEF ContextInv
<1>3. CASE Crash
  BY <1>3 DEF Crash, ContextInv
<1>4. CASE Resume
  BY <1>4, ResumeContext
<1>5. CASE \E t \in Addressees : QueueIntervention(t)
  BY <1>5, QueueContext
<1>6. CASE UNCHANGED vars
  BY <1>6 DEF vars, ContextInv, Reached, NothingFor, EntryOf
<1>. QED
  BY <1>1, <1>2, <1>3, <1>4, <1>5, <1>6 DEF Next, Process

\* Whatever crashes and whoever queues, context reaches an attempt of its target, no
\* attempt of that role runs while it waits, and the human log agrees with the queue.
THEOREM ContextReaches == Spec => []InterventionsReachTheirAttempt
<1>1. Init => ContextInv
  BY DEF Init, FreshRun, ContextInv, Reached
<1>2. RunInv /\ RunInv' /\ ContextInv /\ [Next]_vars => ContextInv'
  BY ContextNext
<1>3. ContextInv => InterventionsReachTheirAttempt
  <2>. SUFFICES ASSUME ContextInv PROVE InterventionsReachTheirAttempt
    OBVIOUS
  <2>. QED
    BY Zenon DEF ContextInv, Reached, NothingFor, EntryOf, InterventionsReachTheirAttempt
<1>. QED
  BY <1>1, <1>2, <1>3, Invariance, PTL DEF Spec

-----------------------------------------------------------------------------
(* The story: its inductive invariant *)

\* The number of attempts.
N(s) == Len(s.attempts)

\* The newest attempt has an outcome.
Settled(s) == N(s) > 0 /\ s.attempts[N(s)].result # "open"

\* An interrupt belongs to a settled attempt, leads where that attempt leads, and
\* waits for its decision only as the newest entry of a Run that waits.
LogInv(s) ==
    \A i \in 1 .. Len(s.log) :
        /\ s.log[i].att \in 1 .. N(s)
        /\ s.attempts[s.log[i].att].result \notin {"open", "blocked"}
        /\ s.attempts[s.log[i].att].result = "corrected" => s.log[i].trigger = "budget-exceeded"
        /\ s.log[i].next = NextAfter(s, s.log[i].att)
        /\ ~s.log[i].resolved =>
              i = Len(s.log) /\ s.log[i].att = N(s) /\ ~s.intent.pending

\* Resolved interrupts and decisions on interrupts are paired.
DecisionInv(s) ==
    /\ \A j \in 1 .. Len(s.human) : s.human[j].kind = "interrupt" =>
          s.human[j].on \in 1 .. Len(s.log) /\ s.log[s.human[j].on].resolved
    /\ \A i \in 1 .. Len(s.log) : s.log[i].resolved =>
          \E j \in 1 .. Len(s.human) : s.human[j].kind = "interrupt" /\ s.human[j].on = i
    /\ \A i, j \in 1 .. Len(s.human) :
          s.human[i].kind = "interrupt" /\ s.human[j].kind = "interrupt"
          /\ s.human[i].on = s.human[j].on => i = j

\* Attempts follow the edges of the graph, and only Reviewers reject.
OrderInv(s) ==
    /\ N(s) > 0 => s.attempts[1].node = "architect"
    /\ \A k \in 1 .. N(s) : k < N(s) =>
          /\ s.attempts[k].result # "blocked" => s.attempts[k + 1].node = NextAfter(s, k)
          /\ s.attempts[k].result = "corrected" => s.attempts[k + 1].result # "corrected"
    /\ \A k \in 1 .. N(s) : s.attempts[k].result = "rejected" => s.attempts[k].node \in Reviewers

\* The outcomes that pause by themselves.
Pausing(s, k) ==
    LET a == s.attempts[k] IN
    \/ a.result \in {"failed", "violation", "escalated"}
    \/ a.result = "accepted" /\ a.node \notin Reviewers
          /\ HandOffPhase(a.node) \in ManualCheckpoints
    \/ a.result = "rejected" /\ RetryPhase(a.node) \in ManualCheckpoints
    \/ a.result \in {"accepted", "rejected"} /\ k >= BudgetLimit

\* No work may follow these outcomes without a decision.
NeedsDecision(s, k) ==
    LET a == s.attempts[k] IN
    \/ a.result \in {"failed", "violation", "escalated", "blocked"}
    \/ a.result = "accepted" /\ a.node \notin Reviewers
          /\ HandOffPhase(a.node) \in ManualCheckpoints
    \/ a.result = "rejected" /\ RetryPhase(a.node) \in ManualCheckpoints
    \/ Paused(s, k) \/ k >= BudgetLimit

\* They do pause, and nothing follows them undecided.
PauseInv(s) ==
    /\ \A k \in 1 .. N(s) : Pausing(s, k) => Paused(s, k)
    /\ \A k \in 1 .. N(s) : k < N(s) => (NeedsDecision(s, k) => Decided(s, k))

\* The cursor leads where the last attempt leads, or the newest interrupt does.
TailInv(s) ==
    /\ s.progress.stage \notin BeforeStages => s.progress.att = N(s)
    /\ s.progress.stage = "interrupted-before-attempt" => N(s) = 0
    /\ Settled(s) =>
          /\ s.attempts[N(s)].result = "corrected" =>
                s.progress.corr /\ s.progress.next = s.attempts[N(s)].node
          /\ s.progress.corr => s.attempts[N(s)].result = "corrected"
          /\ s.attempts[N(s)].result # "blocked" =>
                \/ s.progress.stage \notin BeforeStages /\ s.progress.next = NextAfter(s, N(s))
                \/ /\ Len(s.log) > 0 /\ s.log[Len(s.log)].att = N(s)
                   /\ s.progress.stage \in BeforeStages \/ s.progress.next = "awaiting_human"
          /\ s.intent.pending => Decided(s, N(s))
    /\ N(s) > 1 /\ s.attempts[N(s)].result = "open" /\ s.attempts[N(s) - 1].result = "corrected"
          => s.progress.corr

\* What the history of attempts, pauses and decisions says.
HistoryInv(s) == LogInv(s) /\ DecisionInv(s) /\ OrderInv(s) /\ PauseInv(s) /\ TailInv(s)

\* A Run waits exactly for what is undecided; its phase and target name no stop.
StatusInv(s) ==
    /\ \A i \in 1 .. Len(s.log) : ~s.log[i].resolved => s.status = "awaiting-human"
    /\ s.status = "awaiting-human" =>
          s.intent.pending \/ \E i \in 1 .. Len(s.log) : ~s.log[i].resolved
    /\ Settled(s) /\ s.attempts[N(s)].result = "blocked" /\ ~Decided(s, N(s)) =>
          s.status = "blocked" /\ s.phase # "recursion_limit_exceeded"
    /\ s.status = "blocked" /\ s.phase # "recursion_limit_exceeded" =>
          Settled(s) /\ s.attempts[N(s)].result = "blocked"
    /\ s.target \notin {"awaiting_human", "blocked"} /\ s.phase # "blocked"
    /\ s.phase = "awaiting_human" \/ s.status = "awaiting-human" => Len(s.log) > 0
    /\ N(s) = 0 => Len(s.rej) = 0 /\ s.phase = "architect" /\ s.target \in {NoTarget, "architect"}

\* What a whole record says.
Story(s) == HistoryInv(s) /\ StatusInv(s)

\* Node n may be attempted next.
Legal(s, n) ==
    /\ N(s) = 0 => n = "architect"
    /\ Settled(s) /\ s.attempts[N(s)].result # "blocked" => n = NextAfter(s, N(s))

\* Where the process goes, it may.
PlaceInv ==
    /\ pc = "enter" /\ at \in RoleNodes \cup {"done"} => Legal(mem, at)
    /\ pc = "enter" /\ at = "awaiting_human" => mem.status = "awaiting-human"
    /\ pc = "enter" /\ at = "blocked" => mem.status = "blocked"
    /\ pc = "enter" /\ at = "done" => ~Stopped(mem)
    /\ pc \in {"finished", "routed"} => Stopped(mem) \/ Successor(mem, at) = mem.progress.next

\* What every state says.
StoryInv == Story(disk) /\ Story(mem) /\ PlaceInv

-----------------------------------------------------------------------------
(* What the parts of a record say of one another *)

\* Two records with the same log pause on the same attempts.
LEMMA PausedSame ==
    ASSUME NEW s, NEW t, t.log = s.log, NEW k
    PROVE  Paused(t, k) <=> Paused(s, k)
BY DEF Paused

\* Where an attempt leads depends on it and on whether it paused.
LEMMA NextSame ==
    ASSUME NEW s, NEW t, NEW k, t.attempts[k] = s.attempts[k], Paused(t, k) <=> Paused(s, k)
    PROVE  NextAfter(t, k) = NextAfter(s, k)
BY DEF NextAfter

\* t records the same decisions as s, perhaps among more interventions.
SameDecisions(s, t) ==
    /\ \A j \in 1 .. Len(s.human) :
          /\ j \in 1 .. Len(t.human)
          /\ t.human[j].kind = s.human[j].kind /\ t.human[j].on = s.human[j].on
    /\ \A j \in 1 .. Len(t.human) : j \in 1 .. Len(s.human) \/ t.human[j].kind = "intervention"

\* Then it has decided the same.
LEMMA DecidedSame ==
    ASSUME NEW s \in RunStates, NEW t \in RunStates, t.log = s.log, SameDecisions(s, t), NEW k
    PROVE  Decided(t, k) <=> Decided(s, k)
<1>1. DOMAIN s.human = 1 .. Len(s.human) /\ DOMAIN t.human = 1 .. Len(t.human)
  BY DEF RunStates
<1>. QED
  BY <1>1, Zenon DEF Decided, SameDecisions

\* The same log and decisions are paired the same.
LEMMA DecisionSame ==
    ASSUME NEW s \in RunStates, NEW t \in RunStates, DecisionInv(s), t.log = s.log,
           SameDecisions(s, t)
    PROVE  DecisionInv(t)
<1>1. ASSUME NEW j \in 1 .. Len(t.human), t.human[j].kind = "interrupt"
      PROVE  /\ j \in 1 .. Len(s.human) /\ s.human[j].kind = "interrupt"
             /\ s.human[j].on = t.human[j].on
  BY <1>1 DEF SameDecisions
<1>2. \A j \in 1 .. Len(t.human) : t.human[j].kind = "interrupt" =>
         t.human[j].on \in 1 .. Len(t.log) /\ t.log[t.human[j].on].resolved
  BY <1>1 DEF DecisionInv
<1>3. ASSUME NEW i \in 1 .. Len(t.log), t.log[i].resolved
      PROVE  \E j \in 1 .. Len(t.human) : t.human[j].kind = "interrupt" /\ t.human[j].on = i
  <2>1. PICK j \in 1 .. Len(s.human) : s.human[j].kind = "interrupt" /\ s.human[j].on = i
    BY <1>3 DEF DecisionInv
  <2>. QED
    BY <2>1, Zenon DEF SameDecisions
<1>4. \A i, j \in 1 .. Len(t.human) :
         t.human[i].kind = "interrupt" /\ t.human[j].kind = "interrupt"
         /\ t.human[i].on = t.human[j].on => i = j
  BY <1>1 DEF DecisionInv
<1>. QED
  BY <1>2, <1>3, <1>4 DEF DecisionInv

\* A change of status, phase, target, queue, budget, rejections or of the cursor's
\* progress within the attempt leaves the history as it was.
LEMMA HistorySame ==
    ASSUME NEW s \in RunStates, NEW t \in RunStates, HistoryInv(s),
           t.attempts = s.attempts, t.log = s.log, SameDecisions(s, t),
           t.intent.pending = s.intent.pending,
           t.progress.att = s.progress.att, t.progress.next = s.progress.next,
           t.progress.corr = s.progress.corr,
           t.progress.stage = s.progress.stage
              \/ {s.progress.stage, t.progress.stage} \cap BeforeStages = {}
    PROVE  HistoryInv(t)
<1>1. \A k : (Paused(t, k) <=> Paused(s, k)) /\ (Decided(t, k) <=> Decided(s, k))
  BY PausedSame, DecidedSame, Zenon
<1>2. \A k : NextAfter(t, k) = NextAfter(s, k)
  BY <1>1, NextSame, Zenon
<1>3. N(t) = N(s) /\ (Settled(t) <=> Settled(s))
  BY DEF N, Settled
<1>4. LogInv(t)
  BY <1>2, <1>3 DEF LogInv, HistoryInv
<1>5. DecisionInv(t)
  BY DecisionSame DEF HistoryInv
<1>6. OrderInv(t)
  BY <1>2, <1>3 DEF OrderInv, HistoryInv
<1>7. PauseInv(t)
  BY <1>1, <1>3 DEF PauseInv, HistoryInv, Pausing, NeedsDecision
<1>8. TailInv(t)
  <2>1. t.progress.stage \in BeforeStages <=> s.progress.stage \in BeforeStages
    OBVIOUS
  <2>2. t.progress.stage = "interrupted-before-attempt" =>
           s.progress.stage = "interrupted-before-attempt"
    BY DEF BeforeStages
  <2>. QED
    BY <1>1, <1>2, <1>3, <2>1, <2>2 DEF TailInv, HistoryInv
<1>. QED
  BY <1>4, <1>5, <1>6, <1>7, <1>8 DEF HistoryInv

-----------------------------------------------------------------------------
(* The story: the moves of a record *)

\* Counting one more.
LEMMA OneMore ==
    ASSUME NEW n \in Nat, NEW m, m = n + 1
    PROVE  /\ m \in Nat /\ m - 1 = n
           /\ m > 1 => n > 0 /\ n \in 1 .. n
           /\ \A k \in 1 .. n : k \in 1 .. m /\ k # m
           /\ \A k \in 1 .. m : k \in 1 .. n \/ k = m
OBVIOUS

\* A legal attempt that follows a decided one continues the story.
LEMMA CreateStory ==
    ASSUME NEW s \in RunStates, HistoryInv(s), CursorInv(s), NEW a \in RoleNodes, Legal(s, a),
           \A i \in 1 .. Len(s.log) : s.log[i].resolved,
           Settled(s) /\ NeedsDecision(s, N(s)) => Decided(s, N(s)),
           N(s) > 0 => Settled(s),
           NEW t \in RunStates,
           t.attempts = Append(s.attempts, [node |-> a, result |-> "open"]),
           t.log = s.log, SameDecisions(s, t),
           t.progress.stage = "attempt-created", t.progress.att = N(s) + 1,
           t.progress.corr = s.progress.corr
    PROVE  HistoryInv(t)
<1>1. /\ s.attempts \in Seq(Attempt) /\ N(s) \in Nat /\ N(t) = N(s) + 1
      /\ \A k \in 1 .. N(s) : t.attempts[k] = s.attempts[k]
      /\ t.attempts[N(t)].node = a /\ t.attempts[N(t)].result = "open"
  BY DEF RunStates, N
<1>0. /\ N(s) \in Nat /\ N(t) \in Nat /\ N(t) = N(s) + 1 /\ N(t) - 1 = N(s)
      /\ N(t) > 1 => N(s) > 0 /\ N(s) \in 1 .. N(s)
      /\ \A k \in 1 .. N(s) : k \in 1 .. N(t) /\ k # N(t)
      /\ \A k \in 1 .. N(t) : k \in 1 .. N(s) \/ k = N(t)
  BY <1>1, OneMore, Zenon
<1>2. \A k : (Paused(t, k) <=> Paused(s, k)) /\ (Decided(t, k) <=> Decided(s, k))
  BY PausedSame, DecidedSame, Zenon
<1>3. ASSUME NEW k \in 1 .. N(s) PROVE NextAfter(t, k) = NextAfter(s, k)
  <2>1. t.attempts[k] = s.attempts[k] /\ (Paused(t, k) <=> Paused(s, k))
    BY <1>1, <1>2, Zenon
  <2>. QED
    BY <2>1, NextSame
<1>4. LogInv(t)
  <2>. SUFFICES ASSUME NEW i \in 1 .. Len(s.log)
                PROVE  /\ s.log[i].att \in 1 .. N(t)
                       /\ t.attempts[s.log[i].att].result \notin {"open", "blocked"}
                       /\ t.attempts[s.log[i].att].result = "corrected" =>
                             s.log[i].trigger = "budget-exceeded"
                       /\ s.log[i].next = NextAfter(t, s.log[i].att)
    BY Zenon DEF LogInv
  <2>1. s.log[i].att \in 1 .. N(s)
    BY DEF LogInv, HistoryInv
  <2>2. /\ s.log[i].att \in 1 .. N(t) /\ t.attempts[s.log[i].att] = s.attempts[s.log[i].att]
        /\ NextAfter(t, s.log[i].att) = NextAfter(s, s.log[i].att)
    BY <1>0, <1>1, <1>3, <2>1, Zenon
  <2>. QED
    BY <2>2, Zenon DEF LogInv, HistoryInv
<1>5. DecisionInv(t)
  BY DecisionSame DEF HistoryInv
<1>6. OrderInv(t)
  <2>1. t.attempts[1].node = "architect"
    <3>1. N(s) = 0 => t.attempts[1].node = "architect"
      BY <1>0, <1>1 DEF Legal
    <3>2. N(s) > 0 => t.attempts[1].node = "architect"
      BY <1>0, <1>1 DEF OrderInv, HistoryInv
    <3>. QED
      BY <1>0, <3>1, <3>2
  <2>2. ASSUME NEW k \in 1 .. N(t), k < N(t)
        PROVE  /\ t.attempts[k].result # "blocked" => t.attempts[k + 1].node = NextAfter(t, k)
               /\ t.attempts[k].result = "corrected" => t.attempts[k + 1].result # "corrected"
    <3>1. CASE k < N(s)
      <4>1. k \in 1 .. N(s) /\ k + 1 \in 1 .. N(s)
        BY <1>0, <3>1
      <4>2. /\ t.attempts[k] = s.attempts[k] /\ t.attempts[k + 1] = s.attempts[k + 1]
            /\ NextAfter(t, k) = NextAfter(s, k)
        BY <1>1, <1>3, <4>1, Zenon
      <4>. QED
        BY <3>1, <4>1, <4>2, Zenon DEF OrderInv, HistoryInv
    <3>2. CASE k = N(s)
      <4>1. k \in 1 .. N(s) /\ k + 1 = N(t) /\ Settled(s)
        BY <1>0, <2>2, <3>2
      <4>2. t.attempts[k] = s.attempts[k] /\ NextAfter(t, k) = NextAfter(s, k)
        BY <1>1, <1>3, <4>1, Zenon
      <4>3. t.attempts[k + 1].node = a /\ t.attempts[k + 1].result = "open"
        BY <1>1, <4>1, Zenon
      <4>4. s.attempts[k].result # "blocked" => a = NextAfter(s, k)
        BY <3>2, <4>1, Zenon DEF Legal
      <4>. QED
        BY <4>2, <4>3, <4>4, Zenon
    <3>3. k < N(s) \/ k = N(s)
      BY <1>0, <2>2
    <3>. QED
      BY <3>1, <3>2, <3>3, Zenon
  <2>3. ASSUME NEW k \in 1 .. N(t), t.attempts[k].result = "rejected"
        PROVE  t.attempts[k].node \in Reviewers
    <3>1. k \in 1 .. N(s) /\ t.attempts[k] = s.attempts[k]
      BY <1>0, <1>1, <2>3
    <3>. QED
      BY <2>3, <3>1 DEF OrderInv, HistoryInv
  <2>. QED
    BY <2>1, <2>2, <2>3, Zenon DEF OrderInv
<1>7. PauseInv(t)
  <2>1. ASSUME NEW k \in 1 .. N(t), Pausing(t, k) PROVE Paused(t, k)
    <3>1. k # N(t)
      BY <1>1, <2>1 DEF Pausing
    <3>2. k \in 1 .. N(s)
      BY <1>0, <3>1
    <3>. QED
      BY <1>1, <1>2, <2>1, <3>2 DEF PauseInv, HistoryInv, Pausing
  <2>2. ASSUME NEW k \in 1 .. N(t), k < N(t), NeedsDecision(t, k) PROVE Decided(t, k)
    <3>1. k \in 1 .. N(s)
      BY <1>1, <2>2
    <3>2. NeedsDecision(s, k)
      BY <1>1, <1>2, <2>2, <3>1 DEF NeedsDecision
    <3>3. Decided(s, k)
      <4>1. CASE k < N(s)
        BY <3>1, <3>2, <4>1 DEF PauseInv, HistoryInv
      <4>2. CASE k = N(s)
        BY <1>1, <3>1, <3>2, <4>2
      <4>. QED
        BY <1>1, <3>1, <4>1, <4>2
    <3>. QED
      BY <1>2, <3>3
  <2>. QED
    BY <2>1, <2>2 DEF PauseInv
<1>8. TailInv(t)
  <2>1. ~Settled(t) /\ t.progress.stage \notin BeforeStages
    BY <1>1 DEF Settled, BeforeStages
  <2>2. N(t) > 1 /\ t.attempts[N(t) - 1].result = "corrected" => t.progress.corr
    <3>. SUFFICES ASSUME N(t) > 1, t.attempts[N(t) - 1].result = "corrected"
                  PROVE  s.progress.corr
      OBVIOUS
    <3>1. s.attempts[N(s)].result = "corrected" /\ Settled(s)
      BY <1>0, <1>1
    <3>. QED
      BY <3>1, Zenon DEF TailInv, HistoryInv
  <2>. QED
    BY <1>1, <2>1, <2>2 DEF TailInv, BeforeStages
<1>. QED
  BY <1>4, <1>5, <1>6, <1>7, <1>8 DEF HistoryInv

\* What the end of attempt N(s) puts on record: its result, the cursor, perhaps an
\* interrupt, and no pending decision.
Settles(s, t, paused) ==
    /\ N(t) = N(s) /\ s.progress.att = N(s)
    /\ \A k \in 1 .. N(s) : k # N(s) => t.attempts[k] = s.attempts[k]
    /\ t.attempts[N(s)].node = s.attempts[N(s)].node
    /\ t.attempts[N(s)].result \notin {"open"}
    /\ t.human = s.human /\ t.intent.pending = FALSE
    /\ t.progress.stage = "attempt-completed" /\ t.progress.att = N(s)
    /\ paused =>
          /\ Len(t.log) = Len(s.log) + 1
          /\ \A i \in 1 .. Len(s.log) : t.log[i] = s.log[i]
          /\ ~t.log[Len(t.log)].resolved /\ t.log[Len(t.log)].att = N(s)
    /\ ~paused => t.log = s.log

\* It pauses if it must, and cursor and interrupt lead where the attempt leads.
Leads(s, t, paused) ==
    LET a == t.attempts[N(s)] IN
    /\ a.result \in {"blocked", "corrected"} => ~paused
    /\ a.result = "rejected" => a.node \in Reviewers
    /\ Pausing(t, N(s)) => paused
    /\ paused => t.log[Len(t.log)].next = NextAfter(t, N(s)) /\ t.progress.next = "awaiting_human"
    /\ ~paused /\ a.result # "blocked" => t.progress.next = NextAfter(t, N(s))
    /\ a.result = "corrected" <=> t.progress.corr
    /\ a.result = "corrected" => ~s.progress.corr

\* No interrupt names the attempt that is open.
LEMMA OpenUnpaused ==
    ASSUME NEW s \in RunStates, LogInv(s), N(s) > 0, s.attempts[N(s)].result = "open"
    PROVE  /\ \A i \in 1 .. Len(s.log) :
                 s.log[i].att \in 1 .. N(s) /\ s.log[i].att # N(s) /\ s.log[i].resolved
           /\ ~Paused(s, N(s))
<1>1. \A i \in 1 .. Len(s.log) :
         s.log[i].att \in 1 .. N(s) /\ s.log[i].att # N(s) /\ s.log[i].resolved
  BY DEF LogInv
<1>2. DOMAIN s.log = 1 .. Len(s.log)
  BY DEF RunStates
<1>. QED
  BY <1>1, <1>2, Zenon DEF Paused

\* An attempt that settles so continues the story.
LEMMA SettleStory ==
    ASSUME NEW s \in RunStates, HistoryInv(s), N(s) > 0, s.attempts[N(s)].result = "open",
           NEW t \in RunStates, NEW paused \in BOOLEAN, Settles(s, t, paused), Leads(s, t, paused)
    PROVE  HistoryInv(t)
<1>0. /\ N(s) \in Nat /\ Len(s.log) \in Nat /\ Len(t.log) \in Nat
      /\ DOMAIN s.log = 1 .. Len(s.log) /\ DOMAIN t.log = 1 .. Len(t.log)
      /\ DOMAIN s.human = 1 .. Len(s.human) /\ DOMAIN t.human = 1 .. Len(t.human)
  BY DEF RunStates, N
<1>1. /\ \A i \in 1 .. Len(s.log) :
            s.log[i].att \in 1 .. N(s) /\ s.log[i].att # N(s) /\ s.log[i].resolved
      /\ ~Paused(s, N(s))
  BY OpenUnpaused DEF HistoryInv
<1>2. /\ \A i \in 1 .. Len(s.log) : i \in 1 .. Len(t.log) /\ t.log[i] = s.log[i]
      /\ \A i \in 1 .. Len(t.log) :
            \/ i \in 1 .. Len(s.log) /\ t.log[i] = s.log[i]
            \/ paused /\ i = Len(t.log) /\ t.log[i].att = N(s) /\ ~t.log[i].resolved
      /\ paused => Len(t.log) \in 1 .. Len(t.log)
  BY <1>0 DEF Settles
<1>3. ASSUME NEW k \in 1 .. N(s), k # N(s)
      PROVE  /\ t.attempts[k] = s.attempts[k] /\ (Paused(t, k) <=> Paused(s, k))
             /\ NextAfter(t, k) = NextAfter(s, k)
  <2>1. t.attempts[k] = s.attempts[k]
    BY <1>3, Zenon DEF Settles
  <2>2. Paused(s, k) => Paused(t, k)
    BY <1>0, <1>2, Zenon DEF Paused
  <2>3. ASSUME NEW i \in DOMAIN t.log, t.log[i].att = k
        PROVE  i \in DOMAIN s.log /\ s.log[i].att = k
    BY <1>0, <1>2, <1>3, <2>3, Zenon
  <2>4. Paused(t, k) => Paused(s, k)
    BY <2>3, Zenon DEF Paused
  <2>. QED
    BY <2>1, <2>2, <2>4, NextSame, Zenon
<1>4. Paused(t, N(s)) <=> paused
  <2>1. paused => Paused(t, N(s))
    BY <1>0, <1>2, Zenon DEF Paused, Settles
  <2>2. Paused(t, N(s)) => paused
    BY <1>0, <1>1, <1>2, Zenon DEF Paused
  <2>. QED
    BY <2>1, <2>2
<1>5. \A k : Decided(s, k) => Decided(t, k)
  <2>. SUFFICES ASSUME NEW k, Decided(s, k) PROVE Decided(t, k)
    OBVIOUS
  <2>1. PICK j \in 1 .. Len(s.human) :
           \/ s.human[j].kind = "interrupt" /\ s.log[s.human[j].on].att = k
           \/ s.human[j].kind = "block" /\ s.human[j].on = k
    BY <1>0, Zenon DEF Decided
  <2>2. s.human[j].kind = "interrupt" => t.log[s.human[j].on] = s.log[s.human[j].on]
    BY <1>2, Zenon DEF HistoryInv, DecisionInv
  <2>3. t.human = s.human /\ j \in DOMAIN t.human
    BY <1>0 DEF Settles
  <2>. QED
    BY <2>1, <2>2, <2>3, Zenon DEF Decided
<1>6. LogInv(t)
  <2>1. ASSUME NEW i \in 1 .. Len(t.log), i \in 1 .. Len(s.log), t.log[i] = s.log[i]
        PROVE  /\ t.log[i].att \in 1 .. N(t)
               /\ t.attempts[t.log[i].att].result \notin {"open", "blocked"}
               /\ t.attempts[t.log[i].att].result = "corrected" =>
                     t.log[i].trigger = "budget-exceeded"
               /\ t.log[i].next = NextAfter(t, t.log[i].att)
               /\ t.log[i].resolved
    <3>1. /\ s.log[i].att \in 1 .. N(s) /\ s.log[i].att # N(s) /\ s.log[i].resolved
          /\ t.attempts[s.log[i].att] = s.attempts[s.log[i].att]
          /\ NextAfter(t, s.log[i].att) = NextAfter(s, s.log[i].att)
      BY <1>1, <1>3, <2>1
    <3>2. /\ s.attempts[s.log[i].att].result \notin {"open", "blocked"}
          /\ s.attempts[s.log[i].att].result = "corrected" =>
                s.log[i].trigger = "budget-exceeded"
          /\ s.log[i].next = NextAfter(s, s.log[i].att)
      BY <2>1, Zenon DEF LogInv, HistoryInv
    <3>3. N(t) = N(s)
      BY DEF Settles
    <3>. QED
      BY <2>1, <3>1, <3>2, <3>3
  <2>2. ASSUME NEW i \in 1 .. Len(t.log), paused, i = Len(t.log), t.log[i].att = N(s)
        PROVE  /\ t.log[i].att \in 1 .. N(t)
               /\ t.attempts[t.log[i].att].result \notin {"open", "blocked", "corrected"}
               /\ t.log[i].next = NextAfter(t, t.log[i].att)
               /\ t.log[i].att = N(t) /\ ~t.intent.pending
    <3>1. N(s) \in 1 .. N(s)
      BY <1>0
    <3>. QED
      BY <2>2, <3>1 DEF Settles, Leads
  <2>. QED
    BY <1>2, <2>1, <2>2 DEF LogInv
<1>7. DecisionInv(t)
  <2>1. t.human = s.human
    BY DEF Settles
  <2>2. ASSUME NEW j \in 1 .. Len(s.human), s.human[j].kind = "interrupt"
        PROVE  s.human[j].on \in 1 .. Len(t.log) /\ t.log[s.human[j].on].resolved
    <3>1. s.human[j].on \in 1 .. Len(s.log) /\ s.log[s.human[j].on].resolved
      BY <2>2, Zenon DEF DecisionInv, HistoryInv
    <3>. QED
      BY <1>2, <3>1
  <2>3. ASSUME NEW i \in 1 .. Len(t.log), t.log[i].resolved
        PROVE  \E j \in 1 .. Len(s.human) : s.human[j].kind = "interrupt" /\ s.human[j].on = i
    <3>1. i \in 1 .. Len(s.log) /\ s.log[i].resolved
      BY <1>2, <2>3
    <3>. QED
      BY <3>1, Zenon DEF DecisionInv, HistoryInv
  <2>4. \A i, j \in 1 .. Len(s.human) :
           s.human[i].kind = "interrupt" /\ s.human[j].kind = "interrupt"
           /\ s.human[i].on = s.human[j].on => i = j
    BY Zenon DEF DecisionInv, HistoryInv
  <2>. QED
    BY <2>1, <2>2, <2>3, <2>4 DEF DecisionInv
<1>8. OrderInv(t)
  <2>1. t.attempts[1].node = "architect"
    <3>1. 1 \in 1 .. N(s) /\ N(s) \in 1 .. N(s)
      BY <1>0
    <3>2. t.attempts[1].node = s.attempts[1].node
      BY <1>3, <3>1, Zenon DEF Settles
    <3>. QED
      BY <3>2, Zenon DEF OrderInv, HistoryInv
  <2>2. ASSUME NEW k \in 1 .. N(t), k < N(t)
        PROVE  /\ t.attempts[k].result # "blocked" => t.attempts[k + 1].node = NextAfter(t, k)
               /\ t.attempts[k].result = "corrected" => t.attempts[k + 1].result # "corrected"
    <3>1. N(t) = N(s) /\ k \in 1 .. N(s) /\ k < N(s)
      BY <2>2 DEF Settles
    <3>2. k # N(s) /\ k + 1 \in 1 .. N(s) /\ (k + 1 = N(s) => N(s) > 1 /\ k = N(s) - 1)
      BY <1>0, <3>1
    <3>3. t.attempts[k] = s.attempts[k] /\ NextAfter(t, k) = NextAfter(s, k)
      BY <1>3, <3>1, <3>2, Zenon
    <3>4. t.attempts[k + 1].node = s.attempts[k + 1].node
      BY <1>3, <3>2, Zenon DEF Settles
    <3>5. t.attempts[k].result = "corrected" => t.attempts[k + 1].result # "corrected"
      <4>1. CASE k + 1 # N(s)
        BY <1>3, <3>1, <3>2, <3>3, <4>1, Zenon DEF OrderInv, HistoryInv
      <4>2. CASE k + 1 = N(s)
        <5>1. s.attempts[k].result = "corrected" => s.progress.corr
          BY <3>2, <4>2, Zenon DEF TailInv, HistoryInv
        <5>. QED
          BY <3>3, <4>2, <5>1, Zenon DEF Leads
      <4>. QED
        BY <4>1, <4>2
    <3>. QED
      BY <3>1, <3>3, <3>4, <3>5, Zenon DEF OrderInv, HistoryInv
  <2>3. ASSUME NEW k \in 1 .. N(t), t.attempts[k].result = "rejected"
        PROVE  t.attempts[k].node \in Reviewers
    <3>1. N(t) = N(s)
      BY DEF Settles
    <3>2. CASE k = N(s)
      BY <2>3, <3>2, Zenon DEF Leads
    <3>3. CASE k # N(s)
      BY <1>3, <2>3, <3>1, <3>3 DEF OrderInv, HistoryInv
    <3>. QED
      BY <3>2, <3>3
  <2>. QED
    BY <2>1, <2>2, <2>3, Zenon DEF OrderInv
<1>9. PauseInv(t)
  <2>1. ASSUME NEW k \in 1 .. N(t), Pausing(t, k) PROVE Paused(t, k)
    <3>1. CASE k = N(s)
      BY <1>4, <2>1, <3>1, Zenon DEF Leads
    <3>2. CASE k # N(s)
      <4>1. k \in 1 .. N(s)
        BY DEF Settles
      <4>2. Pausing(s, k)
        BY <1>3, <2>1, <3>2, <4>1 DEF Pausing
      <4>. QED
        BY <1>3, <3>2, <4>1, <4>2, Zenon DEF PauseInv, HistoryInv
    <3>. QED
      BY <3>1, <3>2
  <2>2. ASSUME NEW k \in 1 .. N(t), k < N(t), NeedsDecision(t, k) PROVE Decided(t, k)
    <3>1. k \in 1 .. N(s) /\ k < N(s) /\ k # N(s)
      BY <1>0, <2>2 DEF Settles
    <3>2. NeedsDecision(s, k)
      BY <1>3, <2>2, <3>1 DEF NeedsDecision
    <3>. QED
      BY <1>5, <3>1, <3>2, Zenon DEF PauseInv, HistoryInv
  <2>. QED
    BY <2>1, <2>2 DEF PauseInv
<1>10. TailInv(t)
  <2>1. /\ N(t) = N(s) /\ t.progress.stage = "attempt-completed" /\ t.progress.att = N(t)
        /\ t.attempts[N(t)].result # "open" /\ ~t.intent.pending
    BY DEF Settles
  <2>2. t.progress.stage \notin BeforeStages /\ t.progress.stage # "interrupted-before-attempt"
    BY <2>1 DEF BeforeStages
  <2>3. t.attempts[N(t)].result = "corrected" =>
           t.progress.corr /\ t.progress.next = t.attempts[N(t)].node
    <3>1. t.attempts[N(t)].result = "corrected" => NextAfter(t, N(t)) = t.attempts[N(t)].node
      BY DEF NextAfter
    <3>. QED
      BY <2>1, <3>1 DEF Leads
  <2>4. t.progress.corr => t.attempts[N(t)].result = "corrected"
    BY <2>1 DEF Leads
  <2>5. paused => Len(t.log) > 0 /\ t.log[Len(t.log)].att = N(t)
    BY <1>0, <2>1 DEF Settles
  <2>6. t.attempts[N(t)].result # "blocked" =>
           \/ t.progress.next = NextAfter(t, N(t))
           \/ paused /\ t.progress.next = "awaiting_human"
    BY <2>1, Zenon DEF Leads
  <2>. QED
    BY <2>1, <2>2, <2>3, <2>4, <2>5, <2>6, Zenon DEF TailInv
<1>. QED
  BY <1>6, <1>7, <1>8, <1>9, <1>10 DEF HistoryInv

\* Record t decides what s had decided, and d.
DecidesAlso(s, t, d) ==
    /\ Len(t.human) = Len(s.human) + 1
    /\ \A j \in 1 .. Len(s.human) : t.human[j] = s.human[j]
    /\ t.human[Len(t.human)] = d

\* Holding a correction for lack of budget continues the story.
LEMMA HoldStory ==
    ASSUME NEW s \in RunStates, HistoryInv(s), Settled(s), s.attempts[N(s)].result = "corrected",
           \A i \in 1 .. Len(s.log) : s.log[i].resolved, ~s.intent.pending,
           NEW t \in RunStates, t.attempts = s.attempts, t.progress = s.progress,
           t.human = s.human, t.intent = s.intent,
           t.log = Append(s.log, [trigger |-> "budget-exceeded", next |-> s.attempts[N(s)].node,
                                  att |-> N(s), resolved |-> FALSE])
    PROVE  HistoryInv(t)
<1>. DEFINE e == [trigger |-> "budget-exceeded", next |-> s.attempts[N(s)].node,
                  att |-> N(s), resolved |-> FALSE]
<1>0. /\ N(s) \in Nat /\ N(t) = N(s) /\ N(s) \in 1 .. N(s) /\ (Settled(t) <=> Settled(s))
      /\ DOMAIN s.log = 1 .. Len(s.log) /\ DOMAIN t.log = 1 .. Len(t.log)
      /\ DOMAIN s.human = 1 .. Len(s.human)
  BY DEF RunStates, N, Settled
<1>1. /\ Len(t.log) = Len(s.log) + 1 /\ Len(t.log) \in 1 .. Len(t.log) /\ Len(s.log) \in Nat
      /\ \A i \in 1 .. Len(s.log) : i \in 1 .. Len(t.log) /\ t.log[i] = s.log[i]
      /\ t.log[Len(t.log)] = e
      /\ \A i \in 1 .. Len(t.log) : i \in 1 .. Len(s.log) \/ i = Len(t.log)
  <2>. HIDE DEF e
  <2>1. s.log \in Seq(LogEntry)
    BY DEF RunStates
  <2>2. t.log = Append(s.log, e)
    BY DEF e
  <2>. QED
    BY <2>1, <2>2
<1>2. e.att = N(s) /\ e.next = s.attempts[N(s)].node /\ ~e.resolved /\ e.trigger = "budget-exceeded"
  OBVIOUS
<1>. HIDE DEF e
<1>3. \A k : Paused(s, k) => Paused(t, k)
  BY <1>0, <1>1, Zenon DEF Paused
<1>4. ASSUME NEW k \in 1 .. N(s), k # N(s) PROVE Paused(t, k) <=> Paused(s, k)
  <2>1. ASSUME NEW i \in DOMAIN t.log, t.log[i].att = k
        PROVE  i \in DOMAIN s.log /\ s.log[i].att = k
    BY <1>0, <1>1, <1>2, <1>4, <2>1, Zenon
  <2>2. Paused(t, k) => Paused(s, k)
    BY <2>1, Zenon DEF Paused
  <2>. QED
    BY <1>3, <2>2
<1>5. \A k \in 1 .. N(s) : NextAfter(t, k) = NextAfter(s, k)
  <2>1. NextAfter(t, N(s)) = NextAfter(s, N(s))
    BY DEF NextAfter
  <2>2. \A k \in 1 .. N(s) : k # N(s) => NextAfter(t, k) = NextAfter(s, k)
    BY <1>4, NextSame, Zenon
  <2>. QED
    BY <2>1, <2>2, Zenon
<1>6. \A j \in 1 .. Len(s.human) : s.human[j].kind = "interrupt" =>
         /\ s.human[j].on \in 1 .. Len(s.log) /\ s.log[s.human[j].on].resolved
         /\ t.log[s.human[j].on] = s.log[s.human[j].on]
  BY <1>1, Zenon DEF HistoryInv, DecisionInv
<1>7. \A k : Decided(t, k) <=> Decided(s, k)
  BY <1>0, <1>6, Zenon DEF Decided
<1>8. LogInv(t)
  <2>1. ASSUME NEW i \in 1 .. Len(s.log)
        PROVE  /\ t.log[i].att \in 1 .. N(t)
               /\ t.attempts[t.log[i].att].result \notin {"open", "blocked"}
               /\ t.attempts[t.log[i].att].result = "corrected" =>
                     t.log[i].trigger = "budget-exceeded"
               /\ t.log[i].next = NextAfter(t, t.log[i].att)
               /\ t.log[i].resolved
    <3>1. /\ s.log[i].att \in 1 .. N(s)
          /\ s.attempts[s.log[i].att].result \notin {"open", "blocked"}
          /\ s.attempts[s.log[i].att].result = "corrected" =>
                s.log[i].trigger = "budget-exceeded"
          /\ s.log[i].next = NextAfter(s, s.log[i].att)
      BY Zenon DEF LogInv, HistoryInv
    <3>2. s.log[i].resolved /\ t.log[i] = s.log[i] /\ N(t) = N(s) /\ t.attempts = s.attempts
      BY <1>0, <1>1
    <3>. QED
      BY <1>5, <3>1, <3>2
  <2>2. NextAfter(t, N(s)) = s.attempts[N(s)].node
    BY DEF NextAfter
  <2>. QED
    BY <1>0, <1>1, <1>2, <2>1, <2>2 DEF LogInv
<1>9. DecisionInv(t)
  <2>1. ASSUME NEW i \in 1 .. Len(t.log), t.log[i].resolved
        PROVE  \E j \in 1 .. Len(s.human) : s.human[j].kind = "interrupt" /\ s.human[j].on = i
    <3>1. i \in 1 .. Len(s.log) /\ s.log[i].resolved
      BY <1>1, <1>2, <2>1
    <3>. QED
      BY <3>1, Zenon DEF DecisionInv, HistoryInv
  <2>2. \A i, j \in 1 .. Len(s.human) :
           s.human[i].kind = "interrupt" /\ s.human[j].kind = "interrupt"
           /\ s.human[i].on = s.human[j].on => i = j
    BY Zenon DEF DecisionInv, HistoryInv
  <2>3. ASSUME NEW j \in 1 .. Len(s.human), s.human[j].kind = "interrupt"
        PROVE  s.human[j].on \in 1 .. Len(t.log) /\ t.log[s.human[j].on].resolved
    BY <1>1, <1>6, <2>3
  <2>4. t.human = s.human
    OBVIOUS
  <2>5. \A j \in 1 .. Len(t.human) : t.human[j].kind = "interrupt" =>
           t.human[j].on \in 1 .. Len(t.log) /\ t.log[t.human[j].on].resolved
    BY <2>3, <2>4
  <2>6. \A i \in 1 .. Len(t.log) : t.log[i].resolved =>
           \E j \in 1 .. Len(t.human) : t.human[j].kind = "interrupt" /\ t.human[j].on = i
    BY <2>1, <2>4
  <2>7. \A i, j \in 1 .. Len(t.human) :
           t.human[i].kind = "interrupt" /\ t.human[j].kind = "interrupt"
           /\ t.human[i].on = t.human[j].on => i = j
    BY <2>2, <2>4
  <2>. QED
    BY <2>5, <2>6, <2>7, Zenon DEF DecisionInv
<1>10. OrderInv(t)
  BY <1>0, <1>5 DEF OrderInv, HistoryInv
<1>11. PauseInv(t)
  <2>1. \A k \in 1 .. N(t) : Pausing(t, k) => Paused(t, k)
    BY <1>0, <1>3 DEF PauseInv, HistoryInv, Pausing
  <2>2. ASSUME NEW k \in 1 .. N(t), k < N(t), NeedsDecision(t, k) PROVE Decided(t, k)
    <3>1. k \in 1 .. N(s) /\ k < N(s) /\ k # N(s)
      BY <1>0, <2>2
    <3>2. NeedsDecision(s, k)
      BY <1>4, <2>2, <3>1 DEF NeedsDecision
    <3>. QED
      BY <1>7, <3>1, <3>2, Zenon DEF PauseInv, HistoryInv
  <2>. QED
    BY <2>1, <2>2 DEF PauseInv
<1>12. TailInv(t)
  <2>1. Len(t.log) > 0 /\ t.log[Len(t.log)].att = N(s)
    BY <1>1, <1>2
  <2>. QED
    BY <1>0, <1>5, <1>7, <2>1 DEF TailInv, HistoryInv
<1>. QED
  BY <1>8, <1>9, <1>10, <1>11, <1>12 DEF HistoryInv

\* The decision on the unresolved interrupt continues the story.
LEMMA ResolveStory ==
    ASSUME NEW s \in RunStates, HistoryInv(s), NEW i \in 1 .. Len(s.log), ~s.log[i].resolved,
           NEW t \in RunStates, t.attempts = s.attempts,
           Len(t.log) = Len(s.log), \A j \in 1 .. Len(s.log) : j # i => t.log[j] = s.log[j],
           t.log[i].resolved, t.log[i].att = s.log[i].att, t.log[i].next = s.log[i].next,
           t.log[i].trigger = s.log[i].trigger,
           NEW d, d.kind = "interrupt", d.on = i, DecidesAlso(s, t, d),
           t.progress \in {s.progress, NoProgress},
           s.progress.corr /\ s.progress.next = s.log[i].next
              /\ s.log[i].trigger = "budget-exceeded" => t.progress = s.progress
    PROVE  HistoryInv(t)
<1>0. /\ N(s) \in Nat /\ N(t) = N(s) /\ (Settled(t) <=> Settled(s))
      /\ DOMAIN s.log = 1 .. Len(s.log) /\ DOMAIN t.log = 1 .. Len(t.log)
      /\ DOMAIN s.human = 1 .. Len(s.human) /\ DOMAIN t.human = 1 .. Len(t.human)
      /\ Len(s.human) \in Nat /\ Len(s.log) \in Nat
  BY DEF RunStates, N, Settled
<1>1. /\ i = Len(s.log) /\ s.log[i].att = N(s) /\ N(s) \in 1 .. N(s) /\ Settled(s)
      /\ s.attempts[N(s)].result \notin {"open", "blocked"} /\ Len(s.log) > 0
      /\ s.log[i].next = NextAfter(s, N(s))
      /\ s.attempts[N(s)].result = "corrected" => s.log[i].trigger = "budget-exceeded"
  <2>1. /\ i = Len(s.log) /\ s.log[i].att = N(s) /\ N(s) \in 1 .. N(s)
        /\ s.attempts[N(s)].result \notin {"open", "blocked"}
        /\ s.log[i].next = NextAfter(s, N(s))
        /\ s.attempts[N(s)].result = "corrected" => s.log[i].trigger = "budget-exceeded"
    BY DEF LogInv, HistoryInv
  <2>. QED
    BY <1>0, <2>1 DEF Settled
<1>2. \A j \in 1 .. Len(s.log) :
         /\ t.log[j].att = s.log[j].att /\ t.log[j].next = s.log[j].next
         /\ t.log[j].trigger = s.log[j].trigger /\ t.log[j].resolved
  BY <1>1 DEF LogInv, HistoryInv
<1>3. ASSUME NEW k PROVE Paused(t, k) <=> Paused(s, k)
  <2>1. DOMAIN t.log = DOMAIN s.log /\ \A j \in DOMAIN s.log : t.log[j].att = s.log[j].att
    BY <1>0, <1>2
  <2>2. ASSUME Paused(t, k) PROVE Paused(s, k)
    <3>1. PICK j \in DOMAIN t.log : t.log[j].att = k
      BY <2>2, Zenon DEF Paused
    <3>2. j \in DOMAIN s.log /\ s.log[j].att = k
      BY <2>1, <3>1
    <3>. QED
      BY <3>2, Zenon DEF Paused
  <2>3. ASSUME Paused(s, k) PROVE Paused(t, k)
    <3>1. PICK j \in DOMAIN s.log : s.log[j].att = k
      BY <2>3, Zenon DEF Paused
    <3>2. j \in DOMAIN t.log /\ t.log[j].att = k
      BY <2>1, <3>1
    <3>. QED
      BY <3>2, Zenon DEF Paused
  <2>. QED
    BY <2>2, <2>3
<1>4. ASSUME NEW k PROVE NextAfter(t, k) = NextAfter(s, k)
  <2>1. t.attempts[k] = s.attempts[k] /\ (Paused(t, k) <=> Paused(s, k))
    BY <1>3
  <2>. QED
    BY <2>1, NextSame
<1>5. /\ \A j \in 1 .. Len(s.human) : j \in 1 .. Len(t.human) /\ t.human[j] = s.human[j]
      /\ \A j \in 1 .. Len(t.human) : j \in 1 .. Len(s.human) \/ j = Len(t.human)
      /\ Len(t.human) \in 1 .. Len(t.human)
      /\ t.human[Len(t.human)].kind = "interrupt" /\ t.human[Len(t.human)].on = i
  BY <1>0 DEF DecidesAlso
<1>6. \A j \in 1 .. Len(s.human) : s.human[j].kind = "interrupt" =>
         /\ s.human[j].on \in 1 .. Len(s.log) /\ s.log[s.human[j].on].resolved
         /\ s.human[j].on # i
  BY Zenon DEF HistoryInv, DecisionInv
<1>7. \A k : Decided(s, k) => Decided(t, k)
  <2>. SUFFICES ASSUME NEW k, Decided(s, k) PROVE Decided(t, k)
    OBVIOUS
  <2>1. PICK j \in 1 .. Len(s.human) :
           \/ s.human[j].kind = "interrupt" /\ s.log[s.human[j].on].att = k
           \/ s.human[j].kind = "block" /\ s.human[j].on = k
    BY <1>0, Zenon DEF Decided
  <2>2. s.human[j].kind = "interrupt" => t.log[s.human[j].on].att = s.log[s.human[j].on].att
    BY <1>2, <1>6, Zenon
  <2>3. /\ j \in DOMAIN t.human
        /\ \/ t.human[j].kind = "interrupt" /\ t.log[t.human[j].on].att = k
           \/ t.human[j].kind = "block" /\ t.human[j].on = k
    BY <1>0, <1>5, <2>1, <2>2
  <2>. QED
    BY <2>3, Zenon DEF Decided
<1>8. Decided(t, N(s))
  <2>1. /\ Len(t.human) \in DOMAIN t.human
        /\ t.human[Len(t.human)].kind = "interrupt"
        /\ t.log[t.human[Len(t.human)].on].att = N(s)
    BY <1>0, <1>1, <1>5
  <2>. QED
    BY <2>1, Zenon DEF Decided
<1>9. LogInv(t)
  <2>1. ASSUME NEW j \in 1 .. Len(s.log)
        PROVE  /\ t.log[j].att \in 1 .. N(t)
               /\ t.attempts[t.log[j].att].result \notin {"open", "blocked"}
               /\ t.attempts[t.log[j].att].result = "corrected" =>
                     t.log[j].trigger = "budget-exceeded"
               /\ t.log[j].next = NextAfter(t, t.log[j].att)
               /\ t.log[j].resolved
    <3>1. /\ s.log[j].att \in 1 .. N(s)
          /\ s.attempts[s.log[j].att].result \notin {"open", "blocked"}
          /\ s.attempts[s.log[j].att].result = "corrected" =>
                s.log[j].trigger = "budget-exceeded"
          /\ s.log[j].next = NextAfter(s, s.log[j].att)
      BY Zenon DEF LogInv, HistoryInv
    <3>. QED
      BY <1>0, <1>2, <1>4, <3>1
  <2>. QED
    BY <2>1, Zenon DEF LogInv
<1>10. DecisionInv(t)
  <2>1. ASSUME NEW j \in 1 .. Len(t.human), t.human[j].kind = "interrupt"
        PROVE  t.human[j].on \in 1 .. Len(t.log) /\ t.log[t.human[j].on].resolved
    <3>1. CASE j \in 1 .. Len(s.human)
      <4>1. t.human[j] = s.human[j] /\ s.human[j].on \in 1 .. Len(s.log)
        BY <1>5, <1>6, <2>1, <3>1, Zenon
      <4>. QED
        BY <1>2, <4>1
    <3>2. CASE j = Len(t.human)
      BY <1>5, <3>2
    <3>. QED
      BY <1>5, <3>1, <3>2
  <2>2. ASSUME NEW k \in 1 .. Len(t.log)
        PROVE  \E j \in 1 .. Len(t.human) : t.human[j].kind = "interrupt" /\ t.human[j].on = k
    <3>1. CASE k = i
      BY <1>5, <3>1, Zenon
    <3>2. CASE k # i
      <4>1. s.log[k].resolved /\ k \in 1 .. Len(s.log)
        BY <1>1, <3>2 DEF LogInv, HistoryInv
      <4>2. PICK j \in 1 .. Len(s.human) : s.human[j].kind = "interrupt" /\ s.human[j].on = k
        BY <4>1, Zenon DEF DecisionInv, HistoryInv
      <4>. QED
        BY <1>5, <4>2, Zenon
    <3>. QED
      BY <3>1, <3>2
  <2>3. ASSUME NEW j \in 1 .. Len(t.human), NEW k \in 1 .. Len(t.human),
               t.human[j].kind = "interrupt", t.human[k].kind = "interrupt",
               t.human[j].on = t.human[k].on
        PROVE  j = k
    <3>1. CASE j \in 1 .. Len(s.human) /\ k \in 1 .. Len(s.human)
      <4>1. /\ s.human[j].kind = "interrupt" /\ s.human[k].kind = "interrupt"
            /\ s.human[j].on = s.human[k].on
        BY <1>5, <2>3, <3>1, Zenon
      <4>. QED
        BY <3>1, <4>1, Zenon DEF DecisionInv, HistoryInv
    <3>2. ASSUME NEW m \in 1 .. Len(t.human), t.human[m].kind = "interrupt",
                 t.human[m].on = i
          PROVE  m = Len(t.human)
      BY <1>5, <1>6, <3>2, Zenon
    <3>3. CASE j = Len(t.human) \/ k = Len(t.human)
      <4>1. t.human[j].on = i /\ t.human[k].on = i
        BY <1>5, <2>3, <3>3, Zenon
      <4>. QED
        BY <2>3, <3>2, <4>1, Zenon
    <3>. QED
      BY <1>5, <3>1, <3>3, Zenon
  <2>. QED
    BY <2>1, <2>2, <2>3 DEF DecisionInv
<1>11. OrderInv(t)
  BY <1>0, <1>4 DEF OrderInv, HistoryInv
<1>12. PauseInv(t)
  BY <1>0, <1>3, <1>7 DEF PauseInv, HistoryInv, Pausing, NeedsDecision
<1>13. TailInv(t)
  <2>1. CASE t.progress = s.progress
    BY <1>0, <1>1, <1>2, <1>4, <1>8, <2>1 DEF TailInv, HistoryInv
  <2>2. CASE t.progress # s.progress
    <3>1. s.attempts[N(s)].result # "corrected"
      <4>1. s.attempts[N(s)].result = "corrected" => NextAfter(s, N(s)) = s.attempts[N(s)].node
        BY DEF NextAfter
      <4>. QED
        BY <1>1, <2>2, <4>1 DEF TailInv, HistoryInv
    <3>. QED
      BY <1>0, <1>1, <1>2, <1>8, <2>2, <3>1 DEF TailInv, BeforeStages, NoProgress
  <2>. QED
    BY <2>1, <2>2
<1>. QED
  BY <1>9, <1>10, <1>11, <1>12, <1>13 DEF HistoryInv

\* The decision on a block continues the story.
LEMMA UnblockStory ==
    ASSUME NEW s \in RunStates, HistoryInv(s), Settled(s), s.attempts[N(s)].result = "blocked",
           \A i \in 1 .. Len(s.log) : s.log[i].resolved,
           NEW t \in RunStates, t.attempts = s.attempts, t.log = s.log,
           NEW d, d.kind = "block", d.on = N(s), DecidesAlso(s, t, d),
           t.progress = NoProgress
    PROVE  HistoryInv(t)
<1>0. /\ N(s) \in Nat /\ N(t) = N(s) /\ (Settled(t) <=> Settled(s))
      /\ DOMAIN s.human = 1 .. Len(s.human) /\ DOMAIN t.human = 1 .. Len(t.human)
      /\ Len(s.human) \in Nat
  BY DEF RunStates, N, Settled
<1>1. /\ \A j \in 1 .. Len(s.human) : j \in 1 .. Len(t.human) /\ t.human[j] = s.human[j]
      /\ \A j \in 1 .. Len(t.human) : j \in 1 .. Len(s.human) \/ j = Len(t.human)
      /\ Len(t.human) \in 1 .. Len(t.human)
      /\ t.human[Len(t.human)].kind = "block" /\ t.human[Len(t.human)].on = N(s)
  BY <1>0 DEF DecidesAlso
<1>2. \A k : Paused(t, k) <=> Paused(s, k)
  BY PausedSame, Zenon
<1>3. \A k : NextAfter(t, k) = NextAfter(s, k)
  <2>1. \A k : t.attempts[k] = s.attempts[k]
    OBVIOUS
  <2>. QED
    BY <1>2, <2>1, NextSame, Zenon
<1>4. \A k : Decided(s, k) => Decided(t, k)
  BY <1>0, <1>1, Zenon DEF Decided
<1>5. Decided(t, N(s))
  BY <1>0, <1>1, Zenon DEF Decided
<1>6. LogInv(t)
  BY <1>0, <1>3 DEF LogInv, HistoryInv
<1>7. DecisionInv(t)
  <2>1. ASSUME NEW j \in 1 .. Len(t.human), t.human[j].kind = "interrupt"
        PROVE  j \in 1 .. Len(s.human) /\ t.human[j] = s.human[j]
    BY <1>1, <2>1
  <2>2. \A j \in 1 .. Len(t.human) : t.human[j].kind = "interrupt" =>
           t.human[j].on \in 1 .. Len(t.log) /\ t.log[t.human[j].on].resolved
    BY <2>1 DEF DecisionInv, HistoryInv
  <2>3. \A i \in 1 .. Len(t.log) : t.log[i].resolved =>
           \E j \in 1 .. Len(t.human) : t.human[j].kind = "interrupt" /\ t.human[j].on = i
    <3>. SUFFICES ASSUME NEW i \in 1 .. Len(s.log), s.log[i].resolved
                  PROVE  \E j \in 1 .. Len(t.human) :
                            t.human[j].kind = "interrupt" /\ t.human[j].on = i
      BY Zenon
    <3>1. PICK j \in 1 .. Len(s.human) : s.human[j].kind = "interrupt" /\ s.human[j].on = i
      BY Zenon DEF DecisionInv, HistoryInv
    <3>. QED
      BY <1>1, <3>1, Zenon
  <2>4. \A i, j \in 1 .. Len(t.human) :
           t.human[i].kind = "interrupt" /\ t.human[j].kind = "interrupt"
           /\ t.human[i].on = t.human[j].on => i = j
    BY <2>1 DEF DecisionInv, HistoryInv
  <2>. QED
    BY <2>2, <2>3, <2>4, Zenon DEF DecisionInv
<1>8. OrderInv(t)
  BY <1>0, <1>3 DEF OrderInv, HistoryInv
<1>9. PauseInv(t)
  BY <1>0, <1>2, <1>4 DEF PauseInv, HistoryInv, Pausing, NeedsDecision
<1>10. TailInv(t)
  BY <1>0, <1>5 DEF TailInv, BeforeStages, Settled, NoProgress
<1>. QED
  BY <1>6, <1>7, <1>8, <1>9, <1>10 DEF HistoryInv

\* What no open interrupt, paused attempt or block keeps from being followed.
LEMMA Cleared ==
    ASSUME NEW s \in RunStates, Story(s), CursorInv(s), BudgetInv(s), ~Stopped(s)
    PROVE  /\ \A i \in 1 .. Len(s.log) : s.log[i].resolved
           /\ Settled(s) /\ Paused(s, N(s)) => Decided(s, N(s))
           /\ Settled(s) /\ NeedsDecision(s, N(s)) =>
                 \/ Decided(s, N(s))
                 \/ /\ s.attempts[N(s)].result = "corrected" /\ ~s.intent.pending
                    /\ s.progress.corr /\ s.used >= BudgetLimit
<1>1. \A i \in 1 .. Len(s.log) : s.log[i].resolved
  BY DEF Story, StatusInv, Stopped
<1>2. ASSUME Paused(s, N(s)) PROVE Decided(s, N(s))
  <2>0. DOMAIN s.log = 1 .. Len(s.log) /\ DOMAIN s.human = 1 .. Len(s.human)
    BY DEF RunStates
  <2>1. PICK i \in 1 .. Len(s.log) : s.log[i].att = N(s)
    BY <1>2, <2>0, Zenon DEF Paused
  <2>2. PICK j \in 1 .. Len(s.human) : s.human[j].kind = "interrupt" /\ s.human[j].on = i
    BY <1>1, Zenon DEF DecisionInv, HistoryInv, Story
  <2>. QED
    BY <2>0, <2>1, <2>2, Zenon DEF Decided
<1>3. ASSUME Settled(s), NeedsDecision(s, N(s)), ~Decided(s, N(s))
      PROVE  /\ s.attempts[N(s)].result = "corrected" /\ ~s.intent.pending
             /\ s.progress.corr /\ s.used >= BudgetLimit
  <2>0. N(s) \in Nat /\ N(s) \in 1 .. N(s) /\ s.attempts[N(s)] \in Attempt
    BY <1>3 DEF RunStates, N, Settled
  <2>1. ~Paused(s, N(s)) /\ ~Pausing(s, N(s))
    BY <1>2, <1>3, <2>0, Zenon DEF PauseInv, HistoryInv, Story
  <2>2. s.attempts[N(s)].result # "blocked"
    BY <1>3, Zenon DEF Story, StatusInv, Stopped
  <2>3. s.attempts[N(s)].result = "corrected" /\ N(s) >= BudgetLimit
    BY <1>3, <2>0, <2>1, <2>2 DEF NeedsDecision, Pausing, Attempt, Results, Settled
  <2>4. s.progress.corr /\ ~s.intent.pending
    BY <1>3, <2>3, Zenon DEF TailInv, HistoryInv, Story
  <2>5. s.used = N(s)
    <3>1. s.progress.stage # "attempt-created"
      BY <1>3 DEF CursorInv, OpenStages, Settled, N
    <3>. QED
      BY <2>0, <3>1 DEF BudgetInv, N
  <2>. QED
    BY <2>3, <2>4, <2>5
<1>. QED
  BY <1>1, <1>2, <1>3, Zenon

\* A resume enters the graph where the story goes on, never at a stop.
LEMMA InferLegal ==
    ASSUME NEW s, RecordInv(s), Story(s)
    PROVE  /\ InferResumeTarget(s) \notin {"awaiting_human", "blocked"}
           /\ N(s) = 0 => InferResumeTarget(s) = "architect"
           /\ Legal(s, EntryNode(InferResumeTarget(s)))
<1>. DEFINE target == InferResumeTarget(s)
<1>0. s \in RunStates /\ N(s) \in Nat /\ CursorInv(s)
  BY DEF RecordInv, Core, RunStates, N
<1>1. /\ s.progress.next \in Nodes /\ s.progress.stage \in Stages
      /\ (s.log = <<>> <=> Len(s.log) = 0) /\ (s.rej = <<>> <=> Len(s.rej) = 0)
      /\ s.log \in Seq(LogEntry) /\ s.rej \in Seq(Rejection)
  BY <1>0 DEF RunStates, Progress
<1>2. /\ s.log # <<>> => s.log[Len(s.log)].next \in RoleNodes
      /\ s.rej # <<>> => RejectedNext[s.rej[Len(s.rej)].at] \in RoleNodes
  <2>1. s.log # <<>> => s.log[Len(s.log)] \in LogEntry
    BY <1>1, LastElement
  <2>2. s.rej # <<>> => s.rej[Len(s.rej)] \in Rejection
    BY <1>1, LastElement
  <2>. QED
    BY <2>1, <2>2 DEF LogEntry, Rejection, RejectedNext, Reviewers, RoleNodes, Drivers
<1>3. /\ s.target \notin {"awaiting_human", "blocked"} /\ s.phase # "blocked"
      /\ s.phase = "awaiting_human" => s.log # <<>>
  <2>1. s.phase = "awaiting_human" => Len(s.log) > 0
    BY Zenon DEF Story, StatusInv
  <2>2. s.target \notin {"awaiting_human", "blocked"} /\ s.phase # "blocked"
    BY Zenon DEF Story, StatusInv
  <2>. QED
    BY <1>1, <2>1, <2>2
<1>4. target \notin {"awaiting_human", "blocked"}
  BY <1>2, <1>3, RoleFacts DEF InferResumeTarget
<1>5. ASSUME N(s) = 0 PROVE target = "architect"
  <2>1. /\ s.rej = <<>> /\ s.phase = "architect" /\ s.target \in {NoTarget, "architect"}
    BY <1>1, <1>5 DEF Story, StatusInv
  <2>2. s.log = <<>>
    <3>. SUFFICES ASSUME s.log # <<>> PROVE FALSE
      OBVIOUS
    <3>1. Len(s.log) \in 1 .. Len(s.log)
      BY <1>1, EmptySeq
    <3>2. s.log[Len(s.log)].att \in 1 .. N(s)
      BY <3>1, Zenon DEF Story, HistoryInv, LogInv
    <3>. QED
      BY <1>5, <3>2
  <2>3. s.progress.stage # "none" => s.progress.next = "architect"
    <3>1. s.progress.stage # "none" => s.progress.stage = "interrupted-before-attempt"
      <4>1. s.progress.stage \notin BeforeStages => s.progress.att \in 1 .. N(s)
        BY <1>0 DEF CursorInv, N
      <4>. QED
        BY <1>5, <4>1 DEF BeforeStages
    <3>. QED
      BY <1>0, <3>1 DEF CursorInv
  <2>. QED
    BY <2>1, <2>2, <2>3 DEF InferResumeTarget, Drivers, NoTarget
<1>6. ASSUME Settled(s), s.attempts[N(s)].result # "blocked"
      PROVE  target = NextAfter(s, N(s)) /\ target \in Nodes
  <2>1. N(s) \in 1 .. N(s) /\ s.attempts[N(s)] \in Attempt
    BY <1>0, <1>6 DEF Settled, RunStates, N
  <2>2. CASE s.progress.stage \notin BeforeStages /\ s.progress.next = NextAfter(s, N(s))
    <3>1. s.attempts[N(s)].result = "rejected" => s.attempts[N(s)].node \in Reviewers
      BY <2>1, Zenon DEF OrderInv, HistoryInv, Story
    <3>2. NextAfter(s, N(s)) \notin {"awaiting_human", "blocked"}
      BY <2>1, <3>1 DEF NextAfter, NextOnSuccess, AcceptedNext, RejectedNext, Attempt,
             RoleNodes, Reviewers, Drivers
    <3>. QED
      BY <1>1, <2>2, <3>2 DEF InferResumeTarget, BeforeStages
  <2>3. CASE /\ Len(s.log) > 0 /\ s.log[Len(s.log)].att = N(s)
             /\ s.progress.stage \in BeforeStages \/ s.progress.next = "awaiting_human"
    <3>1. s.progress.stage = "none" \/ s.progress.next = "awaiting_human"
      <4>1. s.progress.stage # "interrupted-before-attempt"
        BY <1>0, <1>6 DEF TailInv, HistoryInv, Story, Settled
      <4>. QED
        BY <2>3, <4>1 DEF BeforeStages
    <3>2. ~(s.status = "blocked" /\ s.phase \in Drivers \cup {"refactorer"})
      <4>1. "recursion_limit_exceeded" \notin Drivers \cup {"refactorer"}
        BY DEF Drivers
      <4>. QED
        BY <1>6, <4>1, Zenon DEF Story, StatusInv
    <3>3. s.log # <<>> /\ Len(s.log) \in 1 .. Len(s.log)
      BY <1>1, <2>3
    <3>4. s.log[Len(s.log)].next = NextAfter(s, N(s))
      BY <2>3, <3>3, Zenon DEF LogInv, HistoryInv, Story
    <3>5. target = s.log[Len(s.log)].next
      BY <3>1, <3>2, <3>3 DEF InferResumeTarget
    <3>. QED
      BY <1>2, <3>3, <3>4, <3>5, RoleFacts
  <2>. QED
    BY <1>6, <2>2, <2>3, Zenon DEF TailInv, HistoryInv, Story
<1>7. Legal(s, EntryNode(target))
  BY <1>5, <1>6, RoleFacts DEF Legal, EntryNode
<1>. QED
  BY <1>4, <1>5, <1>7

-----------------------------------------------------------------------------
(* The story: the steps of the system *)

\* Nothing keeps the last attempt of s from being followed.
Ready(s) ==
    /\ \A i \in 1 .. Len(s.log) : s.log[i].resolved
    /\ Settled(s) /\ s.attempts[N(s)].result = "blocked" => Decided(s, N(s))

\* Only a Run that waits or is blocked may be kept.
LEMMA ReadyUnlessStopped == ASSUME NEW s, Story(s), ~Stopped(s) PROVE Ready(s)
BY DEF Story, StatusInv, Stopped, Ready

\* The same status and target, over the same attempts and pauses, wait for the same.
LEMMA StatusSame ==
    ASSUME NEW s \in RunStates, NEW t \in RunStates, StatusInv(s),
           t.attempts = s.attempts, t.log = s.log, SameDecisions(s, t),
           t.intent.pending = s.intent.pending, t.rej = s.rej,
           t.status = s.status, t.phase = s.phase, t.target = s.target
    PROVE  StatusInv(t)
<1>1. \A k : Decided(t, k) <=> Decided(s, k)
  BY DecidedSame, Zenon
<1>2. N(t) = N(s) /\ (Settled(t) <=> Settled(s))
  BY DEF N, Settled
<1>. QED
  BY <1>1, <1>2 DEF StatusInv

\* A record decides what it decides.
LEMMA SameDecisionsReflexive ==
    ASSUME NEW s, NEW t, t.human = s.human PROVE SameDecisions(s, t)
BY DEF SameDecisions

\* A ready record may go on, stop at DONE or at the turn limit.
LEMMA Relabel ==
    ASSUME NEW s \in RunStates, NEW t \in RunStates, Story(s), Ready(s),
           t.attempts = s.attempts, t.log = s.log, t.rej = s.rej, t.human = s.human,
           t.intent = s.intent, t.progress.att = s.progress.att,
           t.progress.next = s.progress.next, t.progress.corr = s.progress.corr,
           t.progress.stage = s.progress.stage
              \/ {s.progress.stage, t.progress.stage} \cap BeforeStages = {},
           \/ t.status \in {"in-progress", "done"}
           \/ t.status = "blocked" /\ t.phase = "recursion_limit_exceeded",
           t.phase \notin {"awaiting_human", "blocked"},
           t.target \notin {"awaiting_human", "blocked"},
           N(s) = 0 => t.phase = "architect" /\ t.target \in {NoTarget, "architect"}
    PROVE  Story(t)
<1>1. SameDecisions(s, t)
  BY SameDecisionsReflexive
<1>2. \A k : Decided(t, k) <=> Decided(s, k)
  BY <1>1, DecidedSame, Zenon
<1>3. N(t) = N(s) /\ (Settled(t) <=> Settled(s))
  BY DEF N, Settled
<1>4. HistoryInv(t)
  BY <1>1, HistorySame DEF Story
<1>5. N(s) = 0 => Len(s.rej) = 0
  BY DEF Story, StatusInv
<1>6. StatusInv(t)
  BY <1>2, <1>3, <1>5 DEF StatusInv, Ready
<1>. QED
  BY <1>4, <1>6 DEF Story

\* The Run starts with nothing to tell.
LEMMA StoryInit == Init => StoryInv
<1>. SUFFICES ASSUME Init PROVE StoryInv
  OBVIOUS
<1>1. ASSUME NEW s \in {disk, mem}
      PROVE  /\ s.attempts = <<>> /\ s.log = <<>> /\ s.human = <<>> /\ s.rej = <<>>
             /\ s.status = "not-started" /\ s.phase = "architect" /\ s.target = NoTarget
             /\ s.progress.stage \in BeforeStages
  BY DEF Init, FreshRun, NoProgress, FirstCursor, BeforeStages
<1>2. ASSUME NEW s \in {disk, mem}
      PROVE  N(s) = 0 /\ ~Settled(s) /\ Len(s.log) = 0 /\ Len(s.human) = 0
  BY <1>1 DEF N, Settled
<1>3. ASSUME NEW s \in {disk, mem} PROVE HistoryInv(s)
  BY <1>1, <1>2 DEF HistoryInv, LogInv, DecisionInv, OrderInv, PauseInv, TailInv
<1>4. ASSUME NEW s \in {disk, mem} PROVE StatusInv(s)
  BY <1>1, <1>2 DEF StatusInv, NoTarget
<1>5. PlaceInv
  BY <1>2 DEF PlaceInv, Init, Legal, RoleNodes
<1>. QED
  BY <1>3, <1>4, <1>5 DEF StoryInv, Story

\* Saving, dying, and returning from the graph tell nothing new.
LEMMA SaveStory ==
    ASSUME RunInv, StoryInv, GateCheckpoint \/ GateRejects \/ Crash \/ FinalSave
    PROVE  StoryInv'
<1>1. (disk' = mem \/ disk' = disk) /\ (mem' = mem \/ mem' = disk)
  BY DEF GateCheckpoint, GateRejects, Crash, FinalSave
<1>2. PlaceInv'
  <2>1. CASE GateCheckpoint
    BY <2>1 DEF GateCheckpoint, StoryInv, PlaceInv
  <2>2. CASE GateRejects \/ Crash \/ FinalSave
    BY <2>2 DEF GateRejects, Crash, FinalSave, PlaceInv
  <2>. QED
    BY <2>1, <2>2
<1>. QED
  BY <1>1, <1>2 DEF StoryInv

\* The edge leads where the cursor does.
LEMMA RouteStory == ASSUME RunInv, StoryInv, Route PROVE StoryInv'
<1>1. /\ mem' = mem /\ disk' = disk /\ pc = "routed" /\ pc' = "enter" /\ at' = Successor(mem, at)
      /\ at \in RoleNodes /\ mem.progress.stage \notin OpenStages \cup BeforeStages
      /\ Core(mem) /\ HistoryInv(mem) /\ mem \in RunStates
  BY DEF Route, RunInv, RecordInv, ControlInv, StoryInv, Story, Core
<1>2. N(mem) > 0 /\ Settled(mem)
  <2>1. N(mem) \in Nat /\ mem.progress.att \in 1 .. N(mem)
    BY <1>1 DEF Core, CursorInv, RunStates, N
  <2>2. N(mem) \in 1 .. N(mem) /\ N(mem) > 0
    BY <2>1
  <2>. QED
    BY <1>1, <2>2 DEF Core, CursorInv, Settled, N
<1>3. ASSUME Successor(mem, at) \in RoleNodes \cup {"done"}
      PROVE  Legal(mem, Successor(mem, at))
  <2>0. ~Stopped(mem)
    BY <1>1, <1>3, RoleFacts DEF Successor, Stopped
  <2>1. Successor(mem, at) = mem.progress.next
    BY <1>1, <1>3, <2>0 DEF StoryInv, PlaceInv
  <2>2. mem.progress.next # "awaiting_human"
    BY <1>3, <2>1, RoleFacts
  <2>. QED
    BY <1>1, <1>2, <2>1, <2>2 DEF Legal, HistoryInv, TailInv
<1>4. /\ Successor(mem, at) = "awaiting_human" => mem.status = "awaiting-human"
      /\ Successor(mem, at) = "blocked" => mem.status = "blocked"
      /\ Successor(mem, at) = "done" => ~Stopped(mem)
  BY <1>1 DEF Successor, Stopped, NextOnSuccess, AcceptedNext, RejectedNext, RoleNodes,
         Reviewers, Drivers
<1>5. PlaceInv'
  BY <1>1, <1>3, <1>4 DEF PlaceInv
<1>. QED
  BY <1>1, <1>5 DEF StoryInv

\* The turn limit blocks only a Run that waits for nothing.
LEMMA LimitStory == ASSUME RunInv, RunInv', StoryInv, RecursionLimit PROVE StoryInv'
<1>1. mem \in RunStates /\ mem' \in RunStates /\ Story(mem)
  BY DEF RunInv, RecordInv, Core, StoryInv
<1>2. PlaceInv'
  BY DEF RecursionLimit, PlaceInv
<1>3. CASE mem' = mem
  BY <1>2, <1>3 DEF StoryInv, RecursionLimit
<1>4. CASE mem' # mem
  <2>1. /\ mem' = [mem EXCEPT !.status = "blocked", !.phase = "recursion_limit_exceeded"]
        /\ ~Stopped(mem) /\ pc = "routed" /\ disk' = disk
    BY <1>4 DEF RecursionLimit, Stopped
  <2>2. /\ mem'.attempts = mem.attempts /\ mem'.log = mem.log /\ mem'.rej = mem.rej
        /\ mem'.human = mem.human /\ mem'.intent = mem.intent /\ mem'.progress = mem.progress
        /\ mem'.target = mem.target /\ mem'.status = "blocked"
        /\ mem'.phase = "recursion_limit_exceeded"
    BY <1>1, <2>1 DEF RunStates
  <2>3. N(mem) # 0
    BY <2>1 DEF RunInv, ControlInv, RecordInv, Core, CursorInv, N
  <2>4. mem.target \notin {"awaiting_human", "blocked"}
    BY <1>1 DEF Story, StatusInv
  <2>5. Ready(mem)
    BY <1>1, <2>1, ReadyUnlessStopped
  <2>6. Story(mem')
    BY <1>1, <2>2, <2>3, <2>4, <2>5, Relabel
  <2>. QED
    BY <1>2, <2>1, <2>6 DEF StoryInv
<1>. QED
  BY <1>3, <1>4

\* Every way of resuming takes a ready record up where it left off.
LEMMA LaunchStory ==
    ASSUME NEW s, RecordInv(s), Story(s), Ready(s), Launch(s)
    PROVE  StoryInv'
<1>. DEFINE target == InferResumeTarget(s)
            t == [s EXCEPT !.target = target, !.status = "in-progress", !.phase = target]
<1>1. /\ disk' = s /\ mem' = t /\ at' = EntryNode(target) /\ pc' = "enter"
  BY DEF Launch
<1>2. s \in RunStates /\ target \in Phases
  BY EntryFacts DEF RecordInv, Core
<1>3. /\ t \in RunStates /\ t.progress = s.progress /\ t.attempts = s.attempts
      /\ t.intent = s.intent /\ t.human = s.human /\ t.status = "in-progress"
      /\ t.log = s.log /\ t.rej = s.rej /\ t.phase = target /\ t.target = target
  BY <1>2 DEF RunStates, Statuses
<1>4. /\ target \notin {"awaiting_human", "blocked"} /\ Legal(s, EntryNode(target))
      /\ N(s) = 0 => target = "architect"
  BY InferLegal
<1>. HIDE DEF t, target
<1>5. Story(t)
  BY <1>2, <1>3, <1>4, Relabel
<1>6. Legal(t, EntryNode(target))
  <2>1. N(t) = N(s) /\ (Settled(t) <=> Settled(s))
    BY <1>3 DEF N, Settled
  <2>2. NextAfter(t, N(s)) = NextAfter(s, N(s))
    BY <1>3, PausedSame, NextSame
  <2>. QED
    BY <1>3, <1>4, <2>1, <2>2 DEF Legal
<1>7. EntryNode(target) \notin {"awaiting_human", "blocked"}
  BY <1>4 DEF EntryNode
<1>8. ~Stopped(t)
  BY <1>3 DEF Stopped
<1>9. PlaceInv'
  BY <1>1, <1>6, <1>7, <1>8 DEF PlaceInv
<1>. QED
  BY <1>1, <1>5, <1>9 DEF StoryInv

\* What a decision leaves of a record without a started attempt.
LEMMA DecideFacts ==
    ASSUME NEW s \in RunStates, NEW d \in HumanAction
    PROVE  LET t == Decide(s, d) IN
           /\ t \in RunStates /\ t.attempts = s.attempts /\ t.log = s.log /\ t.rej = s.rej
           /\ t.status = s.status /\ t.phase = s.phase /\ t.target = NoTarget
           /\ t.intent.pending /\ DecidesAlso(s, t, d)
           /\ t.progress \in {s.progress, NoProgress}
           /\ d.kind # "interrupt" => t.progress = NoProgress
           /\ d.kind = "interrupt" /\ s.log[Len(s.log)].trigger = "budget-exceeded"
              /\ s.progress.corr /\ s.progress.next = s.log[Len(s.log)].next
                 => t.progress = s.progress
<1>. DEFINE human == Append(s.human, d)
            intent == [action |-> Len(s.human) + 1, pending |-> TRUE]
            held == /\ d.kind = "interrupt" /\ s.log[Len(s.log)].trigger = "budget-exceeded"
                    /\ s.progress.corr /\ s.progress.next = s.log[Len(s.log)].next
            p == IF held THEN s.progress ELSE NoProgress
            t == Decide(s, d)
<1>1. s.human \in Seq(HumanAction) /\ s.progress \in Progress
  BY DEF RunStates
<1>2. /\ human \in Seq(HumanAction) /\ Len(human) = Len(s.human) + 1
      /\ human[Len(s.human) + 1] = d /\ Len(s.human) \in Nat
      /\ \A j \in 1 .. Len(s.human) : human[j] = s.human[j]
  BY <1>1
<1>3. intent \in Intent /\ intent.pending = TRUE
  BY <1>2 DEF Intent
<1>4. NoProgress \in Progress
  BY DEF NoProgress, Progress, Stages, Nodes, RoleNodes
<1>5. t = [s EXCEPT !.human = human, !.intent = intent, !.progress = p, !.target = NoTarget]
  BY DEF Decide
<1>6. p \in Progress /\ p \in {s.progress, NoProgress} /\ (held => p = s.progress)
      /\ (~held => p = NoProgress)
  BY <1>1, <1>4
<1>. HIDE DEF human, intent, p, t
<1>7. /\ t \in RunStates /\ t.attempts = s.attempts /\ t.log = s.log /\ t.rej = s.rej
      /\ t.status = s.status /\ t.phase = s.phase /\ t.target = NoTarget
      /\ t.intent = intent /\ t.human = human /\ t.progress = p
  BY <1>1, <1>2, <1>3, <1>5, <1>6 DEF RunStates
<1>8. DecidesAlso(s, t, d)
  BY <1>2, <1>7 DEF DecidesAlso
<1>. QED
  BY <1>3, <1>6, <1>7, <1>8 DEF t

\* Repeating a resume whose decision is saved, or resuming what needs none.
LEMMA ResumeFreelyStory ==
    ASSUME RunInv, StoryInv, ReplayDecision \/ ResumeAnyway
    PROVE  StoryInv'
<1>1. RecordInv(disk) /\ Story(disk) /\ Launch(disk)
  BY DEF RunInv, StoryInv, ReplayDecision, ResumeAnyway
<1>2. disk \in RunStates /\ N(disk) \in Nat /\ disk.attempts \in Seq(Attempt)
      /\ DOMAIN disk.attempts = 1 .. N(disk)
  BY <1>1 DEF RecordInv, Core, RunStates, N
<1>3. CASE ReplayDecision
  <2>1. disk.intent.pending
    BY <1>3 DEF ReplayDecision
  <2>2. \A i \in 1 .. Len(disk.log) : disk.log[i].resolved
    BY <1>1, <2>1, Zenon DEF Story, HistoryInv, LogInv
  <2>3. Settled(disk) => Decided(disk, N(disk))
    BY <1>1, <2>1, Zenon DEF Story, HistoryInv, TailInv
  <2>4. Ready(disk)
    BY <2>2, <2>3, Zenon DEF Ready
  <2>. QED
    BY <1>1, <2>4, LaunchStory
<1>4. CASE ResumeAnyway
  <2>1. disk.status # "awaiting-human"
    BY <1>4 DEF ResumeAnyway
  <2>2. \A i \in 1 .. Len(disk.log) : disk.log[i].resolved
    BY <1>1, <2>1, Zenon DEF Story, StatusInv
  <2>3. ASSUME Settled(disk), disk.attempts[N(disk)].result = "blocked", ~Decided(disk, N(disk))
        PROVE  FALSE
    <3>1. disk.status = "blocked" /\ disk.phase # "recursion_limit_exceeded"
      BY <1>1, <2>3, Zenon DEF Story, StatusInv
    <3>2. BlockedAttempts(disk) = {}
      BY <1>4, <3>1 DEF ResumeAnyway
    <3>3. N(disk) \in DOMAIN disk.attempts
      BY <1>2, <2>3 DEF Settled
    <3>. QED
      BY <2>3, <3>2, <3>3 DEF BlockedAttempts
  <2>4. Ready(disk)
    BY <2>2, <2>3, Zenon DEF Ready
  <2>. QED
    BY <1>1, <2>4, LaunchStory
<1>. QED
  BY <1>3, <1>4

\* The greatest position of a set is its latest.
LEMMA LatestIsGreatest ==
    ASSUME NEW S \in SUBSET Nat, NEW n \in S, \A x \in S : x <= n
    PROVE  Latest(S) = n
<1>1. Latest(S) \in S /\ \A y \in S : y <= Latest(S)
  BY Zenon DEF Latest
<1>2. Latest(S) <= n /\ n <= Latest(S) /\ n \in Nat /\ Latest(S) \in Nat
  BY <1>1
<1>. QED
  BY <1>2

\* Deciding on the interrupt that waits.
LEMMA ResolveInterruptStory ==
    ASSUME RunInv, StoryInv, ResolveInterrupt
    PROVE  StoryInv'
<1>. DEFINE i == Latest(Unresolved(disk))
            d == [kind |-> "interrupt", on |-> i, disp |-> "applied"]
            log == [disk.log EXCEPT ![i].resolved = TRUE]
            s == [disk EXCEPT !.log = log]
            t == Decide(s, d)
<1>1. /\ RecordInv(disk) /\ Story(disk) /\ disk \in RunStates /\ Core(disk)
      /\ disk.log \in Seq(LogEntry) /\ Len(disk.log) \in Nat
      /\ disk.status = "awaiting-human"
  BY DEF RunInv, RecordInv, Core, StoryInv, RunStates, ResolveInterrupt
<1>2. /\ i \in 1 .. Len(disk.log) /\ ~disk.log[i].resolved
  <2>1. /\ Unresolved(disk) \in SUBSET (1 .. Len(disk.log)) /\ Unresolved(disk) # {}
    BY <1>1 DEF ResolveInterrupt, Unresolved
  <2>2. i \in Unresolved(disk)
    BY <1>1, <2>1, LatestInDomain, Zenon
  <2>. QED
    BY <2>1, <2>2 DEF Unresolved
<1>3. d \in HumanAction /\ d.kind = "interrupt" /\ d.on = i
  BY <1>2 DEF HumanAction
<1>4. /\ log \in Seq(LogEntry) /\ Len(log) = Len(disk.log)
      /\ \A j \in 1 .. Len(disk.log) : j # i => log[j] = disk.log[j]
      /\ log[i].resolved /\ log[i].att = disk.log[i].att /\ log[i].next = disk.log[i].next
      /\ log[i].trigger = disk.log[i].trigger
  <2>. DEFINE e == [disk.log[i] EXCEPT !.resolved = TRUE]
  <2>1. disk.log[i] \in LogEntry
    BY <1>1, <1>2, ElementOfSeq
  <2>2. e \in LogEntry /\ e.resolved /\ e.att = disk.log[i].att /\ e.next = disk.log[i].next
        /\ e.trigger = disk.log[i].trigger
    BY <2>1 DEF LogEntry
  <2>3. log = [disk.log EXCEPT ![i] = e]
    OBVIOUS
  <2>. HIDE DEF e, log, i
  <2>. QED
    BY <1>1, <1>2, <2>2, <2>3
<1>5. Launch(t)
  <2>1. [disk EXCEPT !.log[i].resolved = TRUE] = s
    OBVIOUS
  <2>. QED
    BY <2>1 DEF ResolveInterrupt
<1>. HIDE DEF i, d, log
<1>6. /\ s \in RunStates /\ s.log = log /\ s.progress = disk.progress
      /\ s.attempts = disk.attempts /\ s.used = disk.used /\ s.intent = disk.intent
      /\ s.human = disk.human /\ s.rej = disk.rej /\ s.status = disk.status
      /\ s.phase = disk.phase
  BY <1>1, <1>4 DEF RunStates
<1>. HIDE DEF s
<1>7. Core(s) /\ s.progress.stage \notin OpenStages
  BY <1>1, <1>6, SameCore DEF RecordInv, Stopped
<1>8. RecordInv(t)
  BY <1>3, <1>7, DecideInv
<1>9. i = Len(disk.log) /\ \A j \in 1 .. Len(disk.log) : log[j].resolved
  BY <1>1, <1>2, <1>4 DEF Story, HistoryInv, LogInv
<1>10. /\ t \in RunStates /\ t.attempts = s.attempts /\ t.log = s.log /\ t.rej = s.rej
       /\ t.status = s.status /\ t.phase = s.phase /\ t.target = NoTarget
       /\ t.intent.pending /\ DecidesAlso(s, t, d)
       /\ t.progress \in {s.progress, NoProgress}
       /\ s.log[Len(s.log)].trigger = "budget-exceeded"
              /\ s.progress.corr /\ s.progress.next = s.log[Len(s.log)].next
                 => t.progress = s.progress
  BY <1>3, <1>6, DecideFacts
<1>. HIDE DEF t
<1>11. HistoryInv(t)
  <2>1. DecidesAlso(disk, t, d)
    BY <1>6, <1>10 DEF DecidesAlso
  <2>2. disk.progress.corr /\ disk.progress.next = disk.log[i].next
           /\ disk.log[i].trigger = "budget-exceeded" => t.progress = disk.progress
    BY <1>4, <1>6, <1>9, <1>10
  <2>3. /\ t.attempts = disk.attempts /\ t.log = log /\ HistoryInv(disk)
        /\ t.progress \in {disk.progress, NoProgress} /\ t \in RunStates
    BY <1>1, <1>6, <1>10 DEF Story
  <2>4. /\ Len(t.log) = Len(disk.log)
        /\ \A j \in 1 .. Len(disk.log) : j # i => t.log[j] = disk.log[j]
        /\ t.log[i].resolved /\ t.log[i].att = disk.log[i].att
        /\ t.log[i].next = disk.log[i].next /\ t.log[i].trigger = disk.log[i].trigger
    BY <1>4, <2>3
  <2>5. d.kind = "interrupt" /\ d.on = i
    BY <1>3
  <2>. QED
    BY <1>1, <1>2, <2>1, <2>2, <2>3, <2>4, <2>5, ResolveStory, Zenon
<1>12. /\ Len(t.log) > 0 /\ \A j \in 1 .. Len(t.log) : t.log[j].resolved
  BY <1>1, <1>2, <1>4, <1>6, <1>9, <1>10
<1>13. N(t) = N(disk) /\ (Settled(t) => Decided(t, N(t)))
  <2>1. N(t) = N(disk)
    BY <1>6, <1>10 DEF N
  <2>2. Settled(t) => Decided(t, N(t))
    BY <1>10, <1>11, Zenon DEF HistoryInv, TailInv
  <2>. QED
    BY <2>1, <2>2
<1>14. StatusInv(t)
  BY <1>1, <1>6, <1>10, <1>12, <1>13 DEF StatusInv, Story, NoTarget
<1>15. Ready(t)
  BY <1>12, <1>13, Zenon DEF Ready
<1>. QED
  BY <1>5, <1>8, <1>11, <1>14, <1>15, LaunchStory DEF Story

\* Deciding on the block that waits.
LEMMA ResolveBlockStory ==
    ASSUME RunInv, StoryInv, ResolveBlock
    PROVE  StoryInv'
<1>. DEFINE b == Latest(BlockedAttempts(disk))
            d == [kind |-> "block", on |-> b, disp |-> "applied"]
            t == Decide(disk, d)
<1>1. /\ RecordInv(disk) /\ Story(disk) /\ disk \in RunStates /\ Core(disk)
      /\ disk.attempts \in Seq(Attempt) /\ N(disk) \in Nat
      /\ DOMAIN disk.attempts = 1 .. N(disk)
      /\ disk.status = "blocked" /\ disk.phase # "recursion_limit_exceeded"
  BY DEF RunInv, RecordInv, Core, StoryInv, RunStates, ResolveBlock, N
<1>2. Settled(disk) /\ disk.attempts[N(disk)].result = "blocked"
  BY <1>1, Zenon DEF Story, StatusInv
<1>3. b = N(disk) /\ b \in Nat
  <2>1. BlockedAttempts(disk) \in SUBSET Nat /\ N(disk) \in BlockedAttempts(disk)
        /\ \A x \in BlockedAttempts(disk) : x <= N(disk)
    BY <1>1, <1>2 DEF BlockedAttempts, Settled
  <2>. QED
    BY <1>1, <2>1, LatestIsGreatest, Zenon
<1>4. d \in HumanAction /\ d.kind = "block" /\ d.on = N(disk)
  BY <1>3 DEF HumanAction
<1>5. Launch(t) /\ Stopped(disk)
  BY DEF ResolveBlock, Stopped
<1>. HIDE DEF b, d
<1>6. RecordInv(t)
  BY <1>1, <1>4, <1>5, DecideInv DEF RecordInv
<1>7. /\ t \in RunStates /\ t.attempts = disk.attempts /\ t.log = disk.log
      /\ t.rej = disk.rej /\ t.status = disk.status /\ t.phase = disk.phase
      /\ t.target = NoTarget /\ t.intent.pending /\ DecidesAlso(disk, t, d)
      /\ t.progress = NoProgress
  BY <1>1, <1>4, DecideFacts
<1>. HIDE DEF t
<1>8. \A i \in 1 .. Len(disk.log) : disk.log[i].resolved
  BY <1>1 DEF Story, StatusInv
<1>9. HistoryInv(t)
  BY <1>1, <1>2, <1>4, <1>7, <1>8, UnblockStory DEF Story
<1>10. N(t) = N(disk) /\ (Settled(t) => Decided(t, N(t)))
  <2>1. Settled(t) => Decided(t, N(t))
    BY <1>7, <1>9, Zenon DEF HistoryInv, TailInv
  <2>. QED
    BY <1>7, <2>1 DEF N
<1>11. StatusInv(t)
  BY <1>1, <1>2, <1>7, <1>8, <1>10 DEF StatusInv, Story, NoTarget, Settled, N
<1>12. Ready(t)
  BY <1>7, <1>8, <1>10, Zenon DEF Ready
<1>. QED
  BY <1>5, <1>6, <1>9, <1>11, <1>12, LaunchStory DEF Story

\* What logging an interrupt leaves of a record.
LEMMA LogInterruptFacts ==
    ASSUME NEW s \in RunStates, NEW g \in Triggers, NEW n \in RoleNodes, NEW k \in Nat
    PROVE  LET t == LogInterrupt(s, g, n, k) IN
           /\ t.log = Append(s.log, [trigger |-> g, next |-> n, att |-> k, resolved |-> FALSE])
           /\ t.status = "awaiting-human" /\ t.phase = "awaiting_human"
           /\ t.target = s.target /\ t.rej = s.rej /\ t.queue = s.queue
<1>. DEFINE entry == [trigger |-> g, next |-> n, att |-> k, resolved |-> FALSE]
<1>. HIDE DEF entry
<1>1. LogInterrupt(s, g, n, k) = [s EXCEPT !.status = "awaiting-human",
              !.phase  = "awaiting_human", !.log = Append(@, entry)]
  BY DEF LogInterrupt, entry
<1>. QED
  BY <1>1 DEF RunStates, entry

\* A correction that is held waits for a decision on what it corrects.
LEMMA HoldCorrectionStory == ASSUME RunInv, RunInv', StoryInv, HoldCorrection PROVE StoryInv'
<1>. DEFINE t == LogInterrupt(mem, "budget-exceeded", at, mem.progress.att)
<1>1. /\ mem' = t /\ disk' = t /\ pc' = "finished" /\ at \in RoleNodes /\ pc = "enter"
      /\ ~Terminal(mem) /\ mem.progress.corr /\ ~mem.intent.pending /\ BudgetExhausted(mem)
  BY DEF HoldCorrection, AtRole, CorrectionHeld, Correcting
<1>2. /\ RecordInv(mem) /\ Core(mem) /\ mem \in RunStates /\ mem.progress.att \in Nat
      /\ Story(mem) /\ HistoryInv(mem) /\ StatusInv(mem) /\ ~Stopped(mem)
      /\ "budget-exceeded" \in Triggers /\ mem' \in RunStates /\ N(mem) \in Nat
      /\ mem.used \in Nat
  <2>1. RecordInv(mem) /\ Core(mem) /\ mem \in RunStates /\ mem' \in RunStates
    BY DEF RunInv, RecordInv, Core
  <2>2. Story(mem) /\ HistoryInv(mem) /\ StatusInv(mem)
    BY DEF StoryInv, Story
  <2>3. ~Stopped(mem)
    BY <1>1 DEF RunInv, ControlInv
  <2>4. mem.progress.att \in Nat /\ N(mem) \in Nat /\ mem.used \in Nat
    BY <2>1 DEF RunStates, Progress, N
  <2>5. "budget-exceeded" \in Triggers
    BY DEF Triggers
  <2>. QED
    BY <2>1, <2>2, <2>3, <2>4, <2>5
<1>3. mem.progress.stage \notin OpenStages \cup BeforeStages
  <2>1. ASSUME mem.progress.stage = "attempt-created"
        PROVE  FALSE
    <3>1. mem.used < BudgetLimit \/ mem.intent.pending
      BY <1>1, <1>2, <2>1, Zenon DEF Core, BudgetInv
    <3>2. mem.used < BudgetLimit /\ mem.used >= BudgetLimit
      BY <1>1, <3>1, Zenon DEF BudgetExhausted
    <3>. QED
      BY <1>2, <3>2, RunConfig
  <2>. QED
    BY <1>1, <1>2, <2>1 DEF Core, CursorInv, Terminal, OpenStages
<1>4. mem.progress.att = N(mem) /\ Settled(mem) /\ mem.attempts[N(mem)].result = "corrected"
  <2>1. mem.progress.att = N(mem)
    BY <1>2, <1>3 DEF HistoryInv, TailInv
  <2>2. N(mem) \in 1 .. N(mem)
    BY <1>2, <1>3, <2>1 DEF Core, CursorInv, N
  <2>3. N(mem) > 0 /\ mem.attempts[N(mem)].result # "open"
    BY <1>2, <1>3, <2>2 DEF Core, CursorInv, N
  <2>4. Settled(mem)
    BY <2>3 DEF Settled
  <2>. QED
    BY <1>1, <1>2, <2>1, <2>4, Zenon DEF HistoryInv, TailInv
<1>5. at = mem.attempts[N(mem)].node
  <2>1. Legal(mem, at)
    BY <1>1, Zenon DEF StoryInv, PlaceInv
  <2>2. at = NextAfter(mem, N(mem))
    BY <1>4, <2>1 DEF Legal
  <2>. QED
    BY <1>4, <2>2 DEF NextAfter
<1>6. \A i \in 1 .. Len(mem.log) : mem.log[i].resolved
  BY <1>2, ReadyUnlessStopped DEF Ready
<1>7. /\ t.progress = mem.progress /\ t.attempts = mem.attempts /\ t.intent = mem.intent
      /\ t.human = mem.human /\ t.status = "awaiting-human" /\ t.phase = "awaiting_human"
      /\ t.target = mem.target /\ t.rej = mem.rej
      /\ t.log = Append(mem.log, [trigger |-> "budget-exceeded",
                                  next |-> mem.attempts[N(mem)].node,
                                  att |-> N(mem), resolved |-> FALSE])
  <2>1. /\ t.progress = mem.progress /\ t.attempts = mem.attempts /\ t.intent = mem.intent
        /\ t.human = mem.human /\ t.status = "awaiting-human"
    BY <1>1, <1>2, LogInterruptType
  <2>2. /\ t.phase = "awaiting_human" /\ t.target = mem.target /\ t.rej = mem.rej
        /\ t.log = Append(mem.log, [trigger |-> "budget-exceeded", next |-> at,
                                    att |-> mem.progress.att, resolved |-> FALSE])
    BY <1>1, <1>2, LogInterruptFacts
  <2>. HIDE DEF t
  <2>. QED
    BY <1>4, <1>5, <2>1, <2>2
<1>. HIDE DEF t
<1>8. HistoryInv(t)
  BY <1>1, <1>2, <1>4, <1>6, <1>7, HoldStory
<1>9. Len(t.log) > 0 /\ Len(t.log) \in 1 .. Len(t.log) /\ ~t.log[Len(t.log)].resolved
  <2>1. mem.log \in Seq(LogEntry)
    BY <1>2 DEF RunStates
  <2>. QED
    BY <1>7, <2>1
<1>10. N(t) = N(mem) /\ t.attempts[N(t)].result # "blocked" /\ N(t) # 0
  BY <1>4, <1>7 DEF N, Settled
<1>11. StatusInv(t)
  BY <1>2, <1>7, <1>9, <1>10 DEF StatusInv
<1>12. PlaceInv'
  BY <1>1, <1>7 DEF PlaceInv, Stopped
<1>. QED
  BY <1>1, <1>8, <1>11, <1>12 DEF StoryInv, Story

\* Starting the attempt tells nothing new.
LEMMA StartAttemptStory == ASSUME RunInv, RunInv', StoryInv, StartAttempt PROVE StoryInv'
<1>. DEFINE cursor == [mem.progress EXCEPT !.stage = "attempt-started"]
            used == mem.used + 1
            t == [mem EXCEPT !.used = used, !.progress = cursor]
<1>1. /\ mem' = t /\ disk' = t /\ pc = "created" /\ pc' = "started"
  BY DEF StartAttempt
<1>2. /\ mem \in RunStates /\ mem' \in RunStates /\ Story(mem) /\ mem.progress \in Progress
      /\ mem.progress.stage = "attempt-created"
  BY <1>1 DEF RunInv, RecordInv, Core, RunStates, StoryInv, ControlInv
<1>3. /\ cursor.att = mem.progress.att /\ cursor.next = mem.progress.next
      /\ cursor.corr = mem.progress.corr /\ cursor.stage = "attempt-started"
  BY <1>2 DEF Progress
<1>. HIDE DEF cursor, used
<1>4. /\ t.progress = cursor /\ t.attempts = mem.attempts /\ t.log = mem.log
      /\ t.intent = mem.intent /\ t.human = mem.human /\ t.status = mem.status
      /\ t.phase = mem.phase /\ t.target = mem.target /\ t.rej = mem.rej
  BY <1>2 DEF RunStates
<1>. HIDE DEF t
<1>5. SameDecisions(mem, t) /\ t.intent.pending = mem.intent.pending
  BY <1>4, SameDecisionsReflexive
<1>6. {mem.progress.stage, t.progress.stage} \cap BeforeStages = {}
  BY <1>2, <1>3, <1>4 DEF BeforeStages
<1>7. t \in RunStates
  BY <1>1, <1>2
<1>8. HistoryInv(t)
  BY <1>2, <1>3, <1>4, <1>5, <1>6, <1>7, HistorySame DEF Story
<1>9. StatusInv(t)
  BY <1>2, <1>4, <1>5, <1>7, StatusSame DEF Story
<1>10. PlaceInv'
  BY <1>1 DEF PlaceInv
<1>. QED
  BY <1>1, <1>8, <1>9, <1>10 DEF StoryInv, Story

\* Nor does marking its outcome as checkpointed.
LEMMA CheckpointedStory ==
    ASSUME NEW s \in RunStates, Story(s), s.progress.stage # "interrupted-before-attempt"
    PROVE  LET t == Checkpointed(s) IN
           /\ Story(t) /\ t.status = s.status /\ t.phase = s.phase
           /\ t.progress.next = s.progress.next
<1>. DEFINE cursor == [s.progress EXCEPT !.stage = "outcome-checkpointed"]
            t == Checkpointed(s)
<1>1. CASE s.progress.stage = "none"
  BY <1>1 DEF Checkpointed
<1>2. CASE s.progress.stage # "none"
  <2>1. /\ cursor \in Progress /\ cursor.stage = "outcome-checkpointed"
        /\ cursor.att = s.progress.att /\ cursor.next = s.progress.next
        /\ cursor.corr = s.progress.corr
    BY DEF RunStates, Progress, Stages
  <2>2. t = [s EXCEPT !.progress = cursor]
    BY <1>2 DEF Checkpointed
  <2>. HIDE DEF cursor, t
  <2>3. /\ t \in RunStates /\ t.progress = cursor /\ t.attempts = s.attempts /\ t.log = s.log
        /\ t.intent = s.intent /\ t.human = s.human /\ t.status = s.status
        /\ t.phase = s.phase /\ t.target = s.target /\ t.rej = s.rej
    BY <2>1, <2>2 DEF RunStates
  <2>4. SameDecisions(s, t) /\ t.intent.pending = s.intent.pending
    BY <2>3, SameDecisionsReflexive
  <2>5. {s.progress.stage, t.progress.stage} \cap BeforeStages = {}
    BY <1>2, <2>1, <2>3 DEF BeforeStages
  <2>6. HistoryInv(t)
    BY <2>1, <2>3, <2>4, <2>5, HistorySame DEF Story
  <2>7. StatusInv(t)
    BY <2>3, <2>4, StatusSame DEF Story
  <2>. QED
    BY <2>1, <2>3, <2>6, <2>7 DEF Story, t
<1>. QED
  BY <1>1, <1>2

\* The checkpoint leaves the edge where it was.
LEMMA CheckpointOutcomeStory == ASSUME RunInv, StoryInv, CheckpointOutcome PROVE StoryInv'
<1>. DEFINE t == Checkpointed(mem)
<1>1. /\ mem' = t /\ disk' = t /\ at' = at /\ pc = "finished" /\ pc' = "routed"
  BY DEF CheckpointOutcome
<1>2. /\ mem \in RunStates /\ Story(mem) /\ mem.progress.stage # "interrupted-before-attempt"
  BY <1>1 DEF RunInv, RecordInv, Core, StoryInv, ControlInv, BeforeStages
<1>3. /\ Story(t) /\ t.status = mem.status /\ t.phase = mem.phase
      /\ t.progress.next = mem.progress.next
  BY <1>2, CheckpointedStory
<1>. HIDE DEF t
<1>4. Successor(t, at) = Successor(mem, at) /\ (Stopped(t) <=> Stopped(mem))
  BY <1>3 DEF Successor, Stopped
<1>5. PlaceInv'
  BY <1>1, <1>3, <1>4 DEF StoryInv, PlaceInv
<1>. QED
  BY <1>1, <1>3, <1>5 DEF StoryInv

\* A stop records the wait, the block or the end that the record already tells.
LEMMA StopNodeStory == ASSUME RunInv, StoryInv, StopNode PROVE StoryInv'
<1>1. /\ disk' = mem' /\ pc = "enter" /\ pc' = "ended"
      /\ at \in {"done", "awaiting_human", "blocked"} /\ at \notin RoleNodes
  BY DEF StopNode, RunInv, Scalars, Nodes
<1>2. /\ mem \in RunStates /\ Story(mem) /\ HistoryInv(mem) /\ StatusInv(mem)
      /\ mem.progress.stage # "interrupted-before-attempt"
  BY <1>1, RoleFacts DEF RunInv, RecordInv, Core, ControlInv, StoryInv, Story
<1>3. ASSUME NEW u, mem' = Checkpointed(u), u \in RunStates, Story(u),
             u.progress = mem.progress
      PROVE  StoryInv'
  <2>1. Story(mem')
    BY <1>2, <1>3, CheckpointedStory
  <2>2. PlaceInv'
    BY <1>1 DEF PlaceInv
  <2>. QED
    BY <1>1, <2>1, <2>2 DEF StoryInv
<1>4. CASE at = "done"
  <2>. DEFINE u == [mem EXCEPT !.status = "done", !.phase = "done"]
  <2>1. mem' = Checkpointed(u)
    BY <1>4 DEF StopNode
  <2>2. /\ u \in RunStates /\ u.progress = mem.progress /\ u.attempts = mem.attempts
        /\ u.log = mem.log /\ u.intent = mem.intent /\ u.human = mem.human
        /\ u.rej = mem.rej /\ u.target = mem.target /\ u.status = "done" /\ u.phase = "done"
    BY <1>2 DEF RunStates, Statuses, Phases, Nodes
  <2>. HIDE DEF u
  <2>3. Ready(mem)
    BY <1>1, <1>2, <1>4, ReadyUnlessStopped DEF StoryInv, PlaceInv
  <2>4. N(mem) # 0
    BY <1>1, <1>4 DEF StoryInv, PlaceInv, Legal
  <2>5. mem.target \notin {"awaiting_human", "blocked"}
    BY <1>2 DEF StatusInv
  <2>6. Story(u)
    BY <1>2, <2>2, <2>3, <2>4, <2>5, Relabel
  <2>. QED
    BY <1>3, <2>1, <2>2, <2>6
<1>5. CASE at = "awaiting_human"
  <2>. DEFINE u == [mem EXCEPT !.status = "awaiting-human", !.phase = "awaiting_human"]
  <2>1. mem' = Checkpointed(u)
    BY <1>5 DEF StopNode
  <2>2. /\ u \in RunStates /\ u.progress = mem.progress /\ u.attempts = mem.attempts
        /\ u.log = mem.log /\ u.intent = mem.intent /\ u.human = mem.human
        /\ u.rej = mem.rej /\ u.target = mem.target /\ u.status = "awaiting-human"
        /\ u.phase = "awaiting_human"
    BY <1>2 DEF RunStates, Statuses, Phases, Nodes
  <2>. HIDE DEF u
  <2>3. mem.status = "awaiting-human"
    BY <1>1, <1>5 DEF StoryInv, PlaceInv
  <2>4. SameDecisions(mem, u)
    BY <2>2, SameDecisionsReflexive
  <2>5. HistoryInv(u)
    BY <1>2, <2>2, <2>4, HistorySame
  <2>6. N(u) = N(mem) /\ (Settled(u) <=> Settled(mem))
    BY <2>2 DEF N, Settled
  <2>7. \A k : Decided(u, k) <=> Decided(mem, k)
    BY <1>2, <2>2, <2>4, DecidedSame, Zenon
  <2>8. Len(mem.log) > 0
    BY <1>2, <2>3 DEF StatusInv
  <2>9. N(mem) # 0
    <3>1. mem.log \in Seq(LogEntry) /\ Len(mem.log) \in 1 .. Len(mem.log)
      BY <1>2, <2>8 DEF RunStates
    <3>2. mem.log[Len(mem.log)].att \in 1 .. N(mem)
      BY <1>2, <3>1, Zenon DEF HistoryInv, LogInv
    <3>. QED
      BY <3>2
  <2>10. StatusInv(u)
    BY <1>2, <2>2, <2>3, <2>6, <2>7, <2>8, <2>9 DEF StatusInv
  <2>. QED
    BY <1>3, <2>1, <2>2, <2>5, <2>10 DEF Story
<1>6. CASE at = "blocked"
  <2>1. mem.status = "blocked"
    BY <1>1, <1>6 DEF StoryInv, PlaceInv
  <2>2. [mem EXCEPT !.status = "blocked"] = mem
    BY <1>2, <2>1 DEF RunStates
  <2>3. mem' = Checkpointed(mem)
    BY <1>6, <2>2 DEF StopNode
  <2>. QED
    BY <1>2, <1>3, <2>3
<1>. QED
  BY <1>1, <1>4, <1>5, <1>6

\* Context queued for a role decides nothing.
LEMMA QueueStory ==
    ASSUME RunInv, RunInv', StoryInv, NEW n \in InterventionTargets, QueueIntervention(n)
    PROVE  StoryInv'
<1>. DEFINE queue == Append(disk.queue, [target |-> n, to |-> 0])
            entry == [kind |-> "intervention", on |-> Len(disk.queue) + 1, disp |-> "queued"]
            human == Append(disk.human, entry)
            t == [disk EXCEPT !.queue = queue, !.human = human]
<1>1. /\ disk' = t /\ mem' = (IF pc = "idle" THEN t ELSE mem) /\ pc' = pc /\ at' = at
  BY DEF QueueIntervention
<1>2. /\ disk \in RunStates /\ disk' \in RunStates /\ Story(disk)
      /\ disk.human \in Seq(HumanAction) /\ Len(disk.human) \in Nat
  BY DEF RunInv, RecordInv, Core, RunStates, StoryInv
<1>3. /\ Len(human) = Len(disk.human) + 1 /\ human[Len(disk.human) + 1].kind = "intervention"
      /\ \A j \in 1 .. Len(disk.human) : human[j] = disk.human[j]
  <2>1. entry.kind = "intervention"
    OBVIOUS
  <2>. HIDE DEF entry
  <2>. QED
    BY <1>2, <2>1
<1>. HIDE DEF queue, human
<1>4. /\ t.progress = disk.progress /\ t.attempts = disk.attempts /\ t.log = disk.log
      /\ t.intent = disk.intent /\ t.human = human /\ t.status = disk.status
      /\ t.phase = disk.phase /\ t.target = disk.target /\ t.rej = disk.rej
  BY <1>2 DEF RunStates
<1>. HIDE DEF t
<1>5. SameDecisions(disk, t)
  <2>1. /\ \A j \in 1 .. Len(disk.human) : j \in 1 .. Len(t.human) /\ t.human[j] = disk.human[j]
        /\ \A j \in 1 .. Len(t.human) :
              j \in 1 .. Len(disk.human) \/ t.human[j].kind = "intervention"
    BY <1>2, <1>3, <1>4
  <2>. QED
    BY <2>1 DEF SameDecisions
<1>6. t \in RunStates
  BY <1>1, <1>2
<1>7. HistoryInv(t)
  BY <1>2, <1>4, <1>5, <1>6, HistorySame DEF Story
<1>8. StatusInv(t)
  BY <1>2, <1>4, <1>5, <1>6, StatusSame DEF Story
<1>9. mem' = mem \/ (pc' = "idle" /\ mem' = t)
  BY <1>1
<1>10. PlaceInv'
  BY <1>1, <1>9 DEF StoryInv, PlaceInv
<1>. QED
  BY <1>1, <1>7, <1>8, <1>9, <1>10 DEF StoryInv, Story

\* Delivering interventions decides nothing.
LEMMA DeliverFacts ==
    ASSUME NEW s \in RunStates, NEW n \in RoleNodes, NEW k \in Nat
    PROVE  LET t == Deliver(s, n, k) IN
           /\ t.log = s.log /\ t.rej = s.rej /\ t.status = s.status /\ t.phase = s.phase
           /\ t.target = s.target /\ SameDecisions(s, t)
<1>. DEFINE hit(i) == s.queue[i].target = n /\ s.queue[i].to = 0
            queue == [i \in DOMAIN s.queue |->
                        IF hit(i) THEN [s.queue[i] EXCEPT !.to = k] ELSE s.queue[i]]
            human == [j \in DOMAIN s.human |->
                        IF s.human[j].kind = "intervention" /\ hit(s.human[j].on)
                        THEN [s.human[j] EXCEPT !.disp = "delivered"] ELSE s.human[j]]
            t == Deliver(s, n, k)
<1>1. s.human \in Seq(HumanAction) /\ DOMAIN s.human = 1 .. Len(s.human)
  BY DEF RunStates
<1>2. ASSUME NEW j \in 1 .. Len(s.human)
      PROVE  human[j].kind = s.human[j].kind /\ human[j].on = s.human[j].on
  <2>. DEFINE e == [s.human[j] EXCEPT !.disp = "delivered"]
  <2>1. s.human[j] \in HumanAction
    BY <1>1
  <2>2. human[j] = e \/ human[j] = s.human[j]
    BY <1>1
  <2>3. e.kind = s.human[j].kind /\ e.on = s.human[j].on
    BY <2>1 DEF HumanAction
  <2>. HIDE DEF human, e
  <2>. QED
    BY <2>2, <2>3
<1>3. Len(t.human) = Len(s.human)
  BY DeliverType
<1>4. t = [s EXCEPT !.queue = queue, !.human = human]
  BY DEF Deliver
<1>. HIDE DEF queue, human, t
<1>5. /\ t.human = human /\ t.log = s.log /\ t.rej = s.rej /\ t.status = s.status
      /\ t.phase = s.phase /\ t.target = s.target
  BY <1>4 DEF RunStates
<1>6. SameDecisions(s, t)
  BY <1>2, <1>3, <1>5, Zenon DEF SameDecisions
<1>. QED
  BY <1>5, <1>6 DEF t

\* A new attempt follows the last one legally and by right, or is the one left over.
LEMMA CreateAttemptStory == ASSUME RunInv, RunInv', StoryInv, CreateAttempt PROVE StoryInv'
<1>. DEFINE k == IF Reusing THEN mem.progress.att ELSE Len(mem.attempts) + 1
            new == [node |-> at, result |-> "open"]
            list == IF Reusing THEN mem.attempts ELSE Append(mem.attempts, new)
            cursor == CreatedCursor(k)
            s == [mem EXCEPT !.attempts = list, !.progress = cursor]
            t == IF at \in Reviewers THEN s ELSE Deliver(s, at, k)
<1>1. /\ mem' = t /\ disk' = t /\ pc' = "created" /\ pc = "enter" /\ at \in RoleNodes
      /\ ~CorrectionHeld /\ ~Terminal(mem)
  BY DEF CreateAttempt, AtRole
<1>2. /\ Core(mem) /\ mem \in RunStates /\ mem' \in RunStates /\ mem.attempts \in Seq(Attempt)
      /\ mem.progress \in Progress /\ mem.used \in Nat /\ N(mem) \in Nat
  BY DEF RunInv, RecordInv, Core, RunStates, N
<1>3. /\ ~Stopped(mem) /\ mem.progress.stage # "attempt-started"
      /\ Reusing => mem.progress.next = at
  BY <1>1 DEF RunInv, ControlInv, Reusing
<1>4. Story(mem) /\ HistoryInv(mem) /\ StatusInv(mem) /\ Legal(mem, at)
  BY <1>1 DEF StoryInv, Story, PlaceInv
<1>5. k \in Nat /\ list \in Seq(Attempt)
  <2>1. new \in Attempt
    BY <1>1 DEF Attempt, Results
  <2>. HIDE DEF new
  <2>. QED
    BY <1>2, <2>1 DEF Progress
<1>6. /\ cursor \in Progress /\ cursor.stage = "attempt-created" /\ cursor.att = k
      /\ cursor.next = at /\ cursor.corr = mem.progress.corr
  BY <1>1, <1>2, <1>5, RoleFacts DEF CreatedCursor, Correcting, Progress, Stages
<1>. HIDE DEF list, cursor
<1>7. /\ s \in RunStates /\ s.attempts = list /\ s.progress = cursor /\ s.log = mem.log
      /\ s.intent = mem.intent /\ s.human = mem.human /\ s.status = mem.status
      /\ s.rej = mem.rej /\ s.phase = mem.phase /\ s.target = mem.target
  BY <1>2, <1>5, <1>6 DEF RunStates
<1>. HIDE DEF s, k
<1>8. /\ t.attempts = list /\ t.progress = cursor /\ t.log = s.log
      /\ t.intent = s.intent /\ t.status = s.status /\ t.rej = s.rej /\ t.phase = s.phase
      /\ t.target = s.target /\ SameDecisions(s, t)
  <2>1. CASE at \in Reviewers
    BY <1>7, <2>1, SameDecisionsReflexive
  <2>2. CASE at \notin Reviewers
    BY <1>1, <1>5, <1>7, <2>2, DeliverType, DeliverFacts
  <2>. QED
    BY <2>1, <2>2
<1>. HIDE DEF t
<1>9. /\ t \in RunStates /\ SameDecisions(mem, t) /\ t.log = mem.log
      /\ t.intent = mem.intent /\ t.status = mem.status /\ t.rej = mem.rej
      /\ t.phase = mem.phase /\ t.target = mem.target
  BY <1>1, <1>2, <1>7, <1>8 DEF SameDecisions
<1>10. PlaceInv'
  BY <1>1 DEF PlaceInv
<1>11. CASE Reusing
  <2>1. list = mem.attempts /\ k = mem.progress.att /\ mem.progress.stage = "attempt-created"
    BY <1>11 DEF list, k, Reusing
  <2>2. HistoryInv(t)
    BY <1>2, <1>3, <1>4, <1>6, <1>8, <1>9, <1>11, <2>1, HistorySame
  <2>3. StatusInv(t)
    BY <1>2, <1>4, <1>8, <1>9, <2>1, StatusSame
  <2>. QED
    BY <1>1, <1>10, <2>2, <2>3 DEF StoryInv, Story
<1>12. CASE ~Reusing
  <2>1. list = Append(mem.attempts, new) /\ k = N(mem) + 1
    BY <1>12 DEF list, k, N
  <2>2. N(mem) > 0 => Settled(mem)
    <3>1. mem.progress.stage \notin OpenStages
      BY <1>3, <1>12 DEF Reusing, OpenStages
    <3>2. \A i \in 1 .. N(mem) : mem.attempts[i].result # "open"
      BY <1>2, <3>1 DEF Core, CursorInv, N
    <3>. QED
      BY <1>2, <3>2 DEF Settled
  <2>3. /\ \A i \in 1 .. Len(mem.log) : mem.log[i].resolved
        /\ Settled(mem) /\ NeedsDecision(mem, N(mem)) => Decided(mem, N(mem))
    <3>1. /\ \A i \in 1 .. Len(mem.log) : mem.log[i].resolved
          /\ Settled(mem) /\ NeedsDecision(mem, N(mem)) =>
                 \/ Decided(mem, N(mem))
                 \/ ~mem.intent.pending /\ mem.progress.corr /\ mem.used >= BudgetLimit
      BY <1>2, <1>3, <1>4, Cleared, Zenon DEF Core
    <3>. QED
      BY <1>1, <3>1, Zenon DEF CorrectionHeld, Correcting, BudgetExhausted
  <2>4. HistoryInv(t)
    BY <1>1, <1>2, <1>4, <1>6, <1>8, <1>9, <2>1, <2>2, <2>3, CreateStory DEF Core
  <2>5. N(t) = N(mem) + 1 /\ t.attempts[N(t)].result = "open" /\ N(t) # 0
    <3>1. new \in Attempt /\ new.result = "open"
      BY <1>1 DEF Attempt, Results
    <3>. HIDE DEF new
    <3>2. Len(list) = Len(mem.attempts) + 1 /\ list[Len(list)] = new
      BY <1>2, <2>1, <3>1
    <3>. QED
      BY <1>2, <1>8, <3>1, <3>2 DEF N
  <2>6. ~Settled(t)
    BY <2>5 DEF Settled
  <2>7. t.status \notin {"awaiting-human", "blocked"}
    BY <1>3, <1>9 DEF Stopped
  <2>8. StatusInv(t)
    BY <1>4, <1>9, <2>3, <2>5, <2>6, <2>7 DEF StatusInv
  <2>. QED
    BY <1>1, <1>10, <2>4, <2>8 DEF StoryInv, Story
<1>. QED
  BY <1>11, <1>12

-----------------------------------------------------------------------------
(* The story: what a role returns *)

\* Record s is in the process of role n, which has started.
Started(s, n) ==
    /\ s \in RunStates /\ Core(s) /\ Story(s) /\ n \in RoleNodes
    /\ s.progress.stage = "attempt-started" /\ s.progress.next = n

\* Its outcome is prepared in record u, before the attempt is closed.
Prepared(s, u) ==
    /\ u \in RunStates /\ u.attempts = s.attempts /\ u.progress = s.progress
    /\ u.used = s.used /\ u.intent = s.intent /\ u.human = s.human
    /\ u.target \notin {"awaiting_human", "blocked"}

\* Where a role's result leads when it pauses and when it does not.
PausedNext(n, r) ==
    CASE r = "accepted" /\ n \notin Reviewers           -> NextOnSuccess[n]
      [] r \in {"accepted", "rejected"} /\ n \in Reviewers -> RejectedNext[n]
      [] OTHER                                             -> n

\* Where role n leads with result r when it does not pause.
FreeNext(n, r) ==
    CASE r = "accepted" /\ n \notin Reviewers -> NextOnSuccess[n]
      [] r = "accepted" /\ n \in Reviewers    -> AcceptedNext[n]
      [] r = "rejected" /\ n \in Reviewers    -> RejectedNext[n]
      [] OTHER                                -> n

\* The started attempt is the last and the open one.
LEMMA StartedAttempt ==
    ASSUME NEW s, NEW n, Started(s, n)
    PROVE  /\ N(s) \in Nat /\ N(s) > 0 /\ N(s) \in 1 .. N(s) /\ s.progress.att = N(s)
           /\ s.attempts[N(s)].node = n /\ s.attempts[N(s)].result = "open"
           /\ s.used = N(s) /\ s.used \in Nat
<1>1. N(s) \in Nat /\ s.progress.att = N(s) /\ s.progress.att \in 1 .. N(s)
      /\ s.attempts[N(s)].node = n /\ s.attempts[N(s)].result = "open" /\ s.used \in Nat
  BY DEF Started, Core, CursorInv, OpenStages, BeforeStages, RunStates, Progress, N
<1>2. s.used = N(s)
  BY <1>1 DEF Started, Core, BudgetInv, N
<1>. QED
  BY <1>1, <1>2

\* A prepared record is as well formed as it was.
LEMMA PreparedCore ==
    ASSUME NEW s, NEW n, Started(s, n), NEW u, Prepared(s, u)
    PROVE  Core(u) /\ u.progress.stage = "attempt-started"
<1>1. Core(u)
  BY SameCore, Zenon DEF Started, Prepared
<1>. QED
  BY <1>1 DEF Started, Prepared

\* Record t is u with the started attempt of s closed.
Closed(s, u, t, n, r, c) ==
    /\ t \in RunStates /\ N(t) = N(s)
    /\ \A k \in 1 .. N(s) : k # N(s) => t.attempts[k] = s.attempts[k]
    /\ t.attempts[N(s)].node = n /\ t.attempts[N(s)].result = r
    /\ t.log = u.log /\ t.human = s.human /\ t.intent.pending = FALSE
    /\ t.progress.stage = "attempt-completed" /\ t.progress.att = N(s)
    /\ t.progress.corr = c
    /\ c => t.progress.next = n
    /\ ~c => t.progress.next = Successor(u, n)
    /\ t.status = u.status /\ t.phase = u.phase /\ t.target = u.target
    /\ t.rej = u.rej

\* What closing the attempt leaves of a prepared record.
LEMMA FinishFacts ==
    ASSUME NEW s, NEW n, Started(s, n), NEW u, Prepared(s, u),
           NEW r \in Results \ {"open"}, NEW c \in BOOLEAN
    PROVE  Closed(s, u, Finish(u, n, r, c), n, r, c)
<1>. DEFINE k == u.progress.att
            done == [u.attempts EXCEPT ![k].result = r]
            intent == [u.intent EXCEPT !.pending = FALSE]
            cursor == [stage |-> "attempt-completed", att |-> k,
                       next |-> IF c THEN n ELSE Successor(u, n), corr |-> c]
            t == Finish(u, n, r, c)
<1>1. /\ u \in RunStates /\ u.attempts = s.attempts /\ k = N(s) /\ N(s) \in 1 .. N(s)
      /\ s.attempts \in Seq(Attempt) /\ s.attempts[N(s)].node = n /\ u.human = s.human
      /\ u.intent \in Intent /\ N(s) \in Nat
  BY StartedAttempt DEF Started, Prepared, RunStates
<1>2. t \in RunStates
  <2>1. RecordInv(t)
    BY PreparedCore, FinishInv, Zenon DEF Started
  <2>. QED
    BY <2>1 DEF RecordInv, Core
<1>3. /\ Len(done) = N(s)
      /\ \A i \in 1 .. N(s) : i # N(s) => done[i] = s.attempts[i]
      /\ done[N(s)].node = n /\ done[N(s)].result = r
  <2>. DEFINE e == [s.attempts[k] EXCEPT !.result = r]
  <2>1. Len(s.attempts) = N(s) /\ s.attempts[N(s)] \in Attempt
    BY <1>1, ElementOfSeq DEF N
  <2>2. e \in Attempt /\ e.result = r /\ e.node = n
    BY <1>1, <2>1 DEF Attempt
  <2>3. done = [s.attempts EXCEPT ![k] = e]
    BY <1>1
  <2>. HIDE DEF e, done
  <2>. QED
    BY <1>1, <2>1, <2>2, <2>3
<1>4. intent.pending = FALSE
  BY <1>1 DEF Intent
<1>5. t = [u EXCEPT !.attempts = done, !.progress = cursor, !.intent = intent]
  BY DEF Finish
<1>. HIDE DEF done, cursor, intent, t
<1>6. /\ t.attempts = done /\ t.progress = cursor /\ t.intent = intent /\ t.log = u.log
      /\ t.human = u.human /\ t.status = u.status /\ t.phase = u.phase
      /\ t.target = u.target /\ t.rej = u.rej
  BY <1>1, <1>5 DEF RunStates
<1>7. /\ cursor.stage = "attempt-completed" /\ cursor.att = N(s) /\ cursor.corr = c
      /\ c => cursor.next = n
      /\ ~c => cursor.next = Successor(u, n)
  BY <1>1 DEF cursor
<1>. QED
  BY <1>1, <1>2, <1>3, <1>4, <1>6, <1>7 DEF N, Closed, t

\* Closing the attempt without a pause, when its result asks for none.
LEMMA FreeStory ==
    ASSUME NEW s, NEW n, Started(s, n), NEW u, Prepared(s, u), u.log = s.log,
           NEW r \in Results \ {"open", "failed", "violation", "escalated"}, NEW c \in BOOLEAN,
           c <=> r = "corrected", c => ~s.progress.corr,
           r = "rejected" => n \in Reviewers,
           r = "accepted" /\ n \notin Reviewers => HandOffPhase(n) \notin ManualCheckpoints,
           r = "rejected" => RetryPhase(n) \notin ManualCheckpoints,
           r \in {"accepted", "rejected"} => s.used < BudgetLimit,
           r \in {"accepted", "rejected"} => Successor(u, n) = FreeNext(n, r),
           u.status # "awaiting-human", u.status = "blocked" <=> r = "blocked",
           u.phase \notin {"awaiting_human", "blocked", "recursion_limit_exceeded"}
    PROVE  Story(Finish(u, n, r, c))
<1>. DEFINE t == Finish(u, n, r, c)
<1>1. /\ s \in RunStates /\ HistoryInv(s) /\ N(s) \in Nat /\ N(s) > 0 /\ N(s) \in 1 .. N(s)
      /\ s.progress.att = N(s) /\ s.attempts[N(s)].node = n /\ n \in RoleNodes
      /\ s.attempts[N(s)].result = "open" /\ s.used = N(s)
  BY StartedAttempt DEF Started, Story
<1>2. r \in Results \ {"open"}
  OBVIOUS
<1>3. /\ t \in RunStates /\ N(t) = N(s)
      /\ \A k \in 1 .. N(s) : k # N(s) => t.attempts[k] = s.attempts[k]
      /\ t.attempts[N(s)].node = n /\ t.attempts[N(s)].result = r
      /\ t.log = s.log /\ t.human = s.human /\ t.intent.pending = FALSE
      /\ t.progress.stage = "attempt-completed" /\ t.progress.att = N(s)
      /\ t.progress.corr = c
      /\ c => t.progress.next = n
      /\ ~c => t.progress.next = Successor(u, n)
      /\ t.status = u.status /\ t.phase = u.phase /\ t.target = u.target
      /\ t.rej = u.rej
  <2>1. Closed(s, u, t, n, r, c)
    BY <1>2, FinishFacts, Zenon
  <2>. HIDE DEF t
  <2>. QED
    BY <2>1 DEF Closed
<1>. HIDE DEF t
<1>4. /\ \A i \in 1 .. Len(s.log) : s.log[i].resolved
      /\ ~Paused(s, N(s)) /\ ~Paused(t, N(s))
  BY <1>1, <1>3, OpenUnpaused, PausedSame DEF HistoryInv
<1>5. Settles(s, t, FALSE)
  BY <1>1, <1>2, <1>3 DEF Settles
<1>6. NextAfter(t, N(s)) = FreeNext(n, r)
  BY <1>3, <1>4 DEF NextAfter, FreeNext
<1>7. Leads(s, t, FALSE)
  <2>1. ~Pausing(t, N(s))
    BY <1>1, <1>3, RunConfig DEF Pausing
  <2>2. r # "blocked" => t.progress.next = NextAfter(t, N(s))
    <3>1. CASE r \in {"accepted", "rejected"}
      BY <1>3, <1>6, <3>1
    <3>2. CASE r = "corrected"
      BY <1>3, <1>6, <3>2 DEF FreeNext
    <3>3. r \in {"accepted", "rejected", "corrected", "blocked"}
      BY DEF Results
    <3>. QED
      BY <3>1, <3>2, <3>3
  <2>. QED
    BY <1>3, <2>1, <2>2 DEF Leads
<1>8. HistoryInv(t)
  <2>1. FALSE \in BOOLEAN
    OBVIOUS
  <2>. QED
    BY <1>1, <1>3, <1>5, <1>7, <2>1, SettleStory, Zenon
<1>9. StatusInv(t)
  <2>1. t.target \notin {"awaiting_human", "blocked"}
    BY <1>3 DEF Prepared
  <2>2. Settled(t) /\ t.attempts[N(t)].result = r
    BY <1>1, <1>3 DEF Settled
  <2>. QED
    BY <1>1, <1>3, <1>4, <2>1, <2>2 DEF StatusInv
<1>. QED
  BY <1>8, <1>9 DEF Story, t

\* Closing the attempt with an interrupt that leads where the result does.
LEMMA PausedStory ==
    ASSUME NEW s, NEW n, Started(s, n), NEW u, Prepared(s, u), NEW g \in Triggers,
           NEW r \in Results \ {"open", "blocked", "corrected"},
           r = "rejected" => n \in Reviewers,
           u.log = Append(s.log, [trigger |-> g, next |-> PausedNext(n, r),
                                  att |-> N(s), resolved |-> FALSE]),
           u.status = "awaiting-human", u.phase # "blocked"
    PROVE  Story(Finish(u, n, r, FALSE)) /\ Stopped(Finish(u, n, r, FALSE))
<1>. DEFINE t == Finish(u, n, r, FALSE)
            e == [trigger |-> g, next |-> PausedNext(n, r), att |-> N(s), resolved |-> FALSE]
<1>1. /\ s \in RunStates /\ HistoryInv(s) /\ N(s) \in Nat /\ N(s) > 0 /\ N(s) \in 1 .. N(s)
      /\ s.progress.att = N(s) /\ s.attempts[N(s)].node = n /\ n \in RoleNodes
      /\ s.attempts[N(s)].result = "open"
  BY StartedAttempt DEF Started, Story
<1>0. s.log \in Seq(LogEntry) /\ Len(s.log) \in Nat
  BY <1>1 DEF RunStates
<1>2. r \in Results \ {"open"} /\ FALSE \in BOOLEAN
  OBVIOUS
<1>3. /\ t \in RunStates /\ N(t) = N(s)
      /\ \A k \in 1 .. N(s) : k # N(s) => t.attempts[k] = s.attempts[k]
      /\ t.attempts[N(s)].node = n /\ t.attempts[N(s)].result = r
      /\ t.log = u.log /\ t.human = s.human /\ t.intent.pending = FALSE
      /\ t.progress.stage = "attempt-completed" /\ t.progress.att = N(s)
      /\ t.progress.corr = FALSE
      /\ t.progress.next = Successor(u, n)
      /\ t.status = u.status /\ t.phase = u.phase /\ t.target = u.target
      /\ t.rej = u.rej
  <2>1. Closed(s, u, t, n, r, FALSE)
    BY <1>2, FinishFacts, Zenon
  <2>. HIDE DEF t
  <2>. QED
    BY <2>1 DEF Closed
<1>4. /\ e.att = N(s) /\ e.next = PausedNext(n, r) /\ ~e.resolved
  OBVIOUS
<1>. HIDE DEF t, e
<1>5. /\ Len(t.log) = Len(s.log) + 1 /\ t.log[Len(t.log)] = e /\ Len(t.log) > 0
      /\ \A i \in 1 .. Len(s.log) : t.log[i] = s.log[i]
      /\ Len(t.log) \in 1 .. Len(t.log) /\ DOMAIN t.log = 1 .. Len(t.log)
  <2>1. t.log = Append(s.log, e)
    BY <1>3 DEF e
  <2>. QED
    BY <1>0, <2>1
<1>6. Settles(s, t, TRUE)
  BY <1>1, <1>2, <1>3, <1>4, <1>5 DEF Settles
<1>7. NextAfter(t, N(s)) = PausedNext(n, r) /\ Paused(t, N(s))
  <2>1. Paused(t, N(s))
    BY <1>4, <1>5, Zenon DEF Paused
  <2>. QED
    BY <1>3, <2>1 DEF NextAfter, PausedNext
<1>8. Leads(s, t, TRUE)
  <2>1. t.progress.next = "awaiting_human"
    BY <1>3 DEF Successor
  <2>. QED
    BY <1>3, <1>4, <1>5, <1>7, <2>1 DEF Leads
<1>9. HistoryInv(t)
  <2>1. TRUE \in BOOLEAN
    OBVIOUS
  <2>. QED
    BY <1>1, <1>3, <1>6, <1>8, <2>1, SettleStory, Zenon
<1>10. StatusInv(t)
  <2>1. t.target \notin {"awaiting_human", "blocked"} /\ t.status = "awaiting-human"
        /\ t.phase # "blocked"
    BY <1>3 DEF Prepared
  <2>2. t.attempts[N(t)].result # "blocked" /\ N(t) # 0
    BY <1>1, <1>3
  <2>. QED
    BY <1>4, <1>5, <2>1, <2>2 DEF StatusInv
<1>. QED
  BY <1>3, <1>9, <1>10 DEF Story, Stopped, t

\* A record with a started attempt can log an interrupt on it.
LEMMA PreparedInterrupt ==
    ASSUME NEW s, NEW n, Started(s, n), NEW u, Prepared(s, u), u.log = s.log,
           NEW g \in Triggers, NEW m \in RoleNodes
    PROVE  LET l == LogInterrupt(u, g, m, u.progress.att) IN
           /\ Prepared(s, l)
           /\ l.log = Append(s.log, [trigger |-> g, next |-> m, att |-> N(s), resolved |-> FALSE])
           /\ l.status = "awaiting-human" /\ l.phase = "awaiting_human"
<1>. DEFINE l == LogInterrupt(u, g, m, u.progress.att)
<1>1. u \in RunStates /\ u.progress.att = N(s) /\ N(s) \in Nat
  BY StartedAttempt DEF Prepared
<1>2. /\ l \in RunStates /\ l.progress = u.progress /\ l.attempts = u.attempts
      /\ l.used = u.used /\ l.intent = u.intent /\ l.human = u.human
      /\ l.status = "awaiting-human"
  BY <1>1, LogInterruptType
<1>3. /\ l.log = Append(u.log, [trigger |-> g, next |-> m, att |-> u.progress.att,
                                resolved |-> FALSE])
      /\ l.phase = "awaiting_human" /\ l.target = u.target
  BY <1>1, LogInterruptFacts
<1>. HIDE DEF l
<1>. QED
  BY <1>1, <1>2, <1>3 DEF Prepared, l

\* Handing off, with the pause that a checkpoint, the budget or repetition asks for.
LEMMA HandOffStory ==
    ASSUME NEW s, NEW n, Started(s, n), NEW u, Prepared(s, u), u.log = s.log,
           NEW r \in {"accepted", "rejected"}, r = "rejected" => n \in Reviewers,
           NEW p, u.phase = p, p \notin {"awaiting_human", "blocked", "recursion_limit_exceeded"},
           r = "accepted" /\ n \notin Reviewers => p = HandOffPhase(n),
           r = "rejected" => p = RetryPhase(n),
           NEW m \in RoleNodes, m = PausedNext(n, r),
           u.status \in {"in-progress", "done"}, Successor(u, n) = FreeNext(n, r)
    PROVE  LET t == HandOff(u, n, r, p, m) IN
           Story(t) /\ (Stopped(t) \/ Successor(t, n) = t.progress.next)
<1>. DEFINE g == TriggerOn(u, p)
            t == HandOff(u, n, r, p, m)
            l == LogInterrupt(u, g, m, u.progress.att)
<1>1. r \in Results \ {"open"} /\ FALSE \in BOOLEAN
  BY DEF Results
<1>2. CASE g = "none"
  <2>1. t = Finish(u, n, r, FALSE)
    BY <1>2 DEF HandOff
  <2>2. p \notin ManualCheckpoints /\ ~BudgetExhausted(u)
    BY <1>2 DEF TriggerOn
  <2>3. s.used < BudgetLimit
    <3>1. u.used = s.used /\ s.used \in Nat
      BY StartedAttempt DEF Prepared
    <3>. QED
      BY <2>2, <3>1, RunConfig DEF BudgetExhausted
  <2>4. /\ r \in Results \ {"open", "failed", "violation", "escalated"}
        /\ FALSE <=> r = "corrected"
        /\ u.status # "awaiting-human" /\ (u.status = "blocked" <=> r = "blocked")
    BY DEF Results
  <2>5. Story(Finish(u, n, r, FALSE))
    BY <1>1, <2>2, <2>3, <2>4, FreeStory
  <2>6. Closed(s, u, Finish(u, n, r, FALSE), n, r, FALSE)
    BY <1>1, FinishFacts, Zenon
  <2>. HIDE DEF t
  <2>7. Successor(t, n) = t.progress.next
    <3>1. t.status = u.status /\ t.phase = u.phase /\ t.progress.next = Successor(u, n)
      BY <2>1, <2>6 DEF Closed
    <3>2. Successor(t, n) = Successor(u, n)
      BY <3>1 DEF Successor
    <3>. QED
      BY <3>1, <3>2
  <2>. QED
    BY <2>1, <2>5, <2>7 DEF t
<1>3. CASE g # "none"
  <2>1. g \in Triggers
    BY <1>3, TriggerType
  <2>2. /\ Prepared(s, l)
        /\ l.log = Append(s.log, [trigger |-> g, next |-> m, att |-> N(s), resolved |-> FALSE])
        /\ l.status = "awaiting-human" /\ l.phase = "awaiting_human"
    BY <2>1, PreparedInterrupt
  <2>3. t = Finish(l, n, r, FALSE)
    BY <1>3 DEF HandOff
  <2>4. r \in Results \ {"open", "blocked", "corrected"}
    BY DEF Results
  <2>. HIDE DEF l, g
  <2>5. Story(Finish(l, n, r, FALSE)) /\ Stopped(Finish(l, n, r, FALSE))
    BY <2>1, <2>2, <2>4, PausedStory
  <2>. QED
    BY <2>3, <2>5
<1>. QED
  BY <1>2, <1>3

\* The role's process holds the started attempt.
LEMMA RoleStarted ==
    ASSUME RunInv, StoryInv, pc = "started"
    PROVE  Started(mem, at) /\ ~Stopped(mem) /\ at \in RoleNodes /\ mem \in RunStates
           /\ mem.target \notin {"awaiting_human", "blocked"} /\ mem.progress.att = N(mem)
           /\ RoleNodes \subseteq Phases
<1>1. /\ Core(mem) /\ mem.progress.stage = "attempt-started" /\ at \in RoleNodes
      /\ mem \in RunStates /\ ~Stopped(mem)
  BY StartedFacts
<1>2. mem.progress.next = at
  BY DEF RunInv, ControlInv
<1>3. Story(mem) /\ mem.target \notin {"awaiting_human", "blocked"}
  BY DEF StoryInv, Story, StatusInv
<1>4. Started(mem, at)
  BY <1>1, <1>2, <1>3 DEF Started
<1>. QED
  BY <1>1, <1>3, <1>4, StartedAttempt, RoleFacts

\* An outcome on which the edge and the cursor agree is saved.
LEMMA ConcludeStory ==
    ASSUME NEW t, Conclude(t, "finished"), Story(t),
           Stopped(t) \/ Successor(t, at) = t.progress.next
    PROVE  StoryInv'
<1>1. mem' = t /\ disk' = t /\ pc' = "finished" /\ at' = at
  BY DEF Conclude
<1>2. PlaceInv'
  BY <1>1 DEF PlaceInv
<1>. QED
  BY <1>1, <1>2 DEF StoryInv

\* A role's work is handed on.
LEMMA RoleSucceedsStory == ASSUME RunInv, StoryInv, RoleSucceeds PROVE StoryInv'
<1>. DEFINE p == HandOffPhase(at)
            u == [mem EXCEPT !.status = "in-progress", !.phase = p]
            t == HandOff(u, at, "accepted", p, NextOnSuccess[at])
<1>1. pc = "started" /\ at \in RoleNodes \ Reviewers /\ Conclude(t, "finished")
  BY StartedFacts DEF RoleSucceeds
<1>2. Started(mem, at) /\ mem \in RunStates /\ mem.target \notin {"awaiting_human", "blocked"}
  BY <1>1, RoleStarted
<1>3. /\ p \in {"driver", "reviewer"} /\ p \in Phases /\ "in-progress" \in Statuses
      /\ p = HandOffPhase(at)
      /\ NextOnSuccess[at] \in RoleNodes /\ NextOnSuccess[at] = PausedNext(at, "accepted")
      /\ NextOnSuccess[at] = FreeNext(at, "accepted")
  BY <1>1 DEF HandOffPhase, Phases, Statuses, NextOnSuccess, RoleNodes, Reviewers, Drivers,
              PausedNext, FreeNext
<1>. HIDE DEF p
<1>4. /\ u \in RunStates /\ u.progress = mem.progress /\ u.attempts = mem.attempts
      /\ u.used = mem.used /\ u.intent = mem.intent /\ u.human = mem.human
      /\ u.log = mem.log /\ u.target = mem.target /\ u.status = "in-progress" /\ u.phase = p
  BY <1>2, <1>3 DEF RunStates
<1>. HIDE DEF u
<1>5. Prepared(mem, u)
  BY <1>2, <1>4 DEF Prepared
<1>6. Successor(u, at) = FreeNext(at, "accepted")
  BY <1>1, <1>3, <1>4 DEF Successor
<1>7. "accepted" \in {"accepted", "rejected"}
      /\ p \notin {"awaiting_human", "blocked", "recursion_limit_exceeded"}
      /\ u.status \in {"in-progress", "done"}
  BY <1>3, <1>4
<1>8. Story(t) /\ (Stopped(t) \/ Successor(t, at) = t.progress.next)
  BY <1>2, <1>3, <1>4, <1>5, <1>6, <1>7, HandOffStory
<1>. HIDE DEF t
<1>. QED
  BY <1>1, <1>8, ConcludeStory, Zenon

\* So is what a Reviewer accepts.
LEMMA ReviewAcceptsStory == ASSUME RunInv, StoryInv, ReviewAccepts PROVE StoryInv'
<1>. DEFINE p == AcceptedNext[at]
            st == IF p = "done" THEN "done" ELSE "in-progress"
            u == [mem EXCEPT !.status = st, !.phase = p]
            t == HandOff(u, at, "accepted", p, RejectedNext[at])
<1>1. pc = "started" /\ at \in Reviewers /\ Conclude(t, "finished")
  BY DEF ReviewAccepts
<1>2. Started(mem, at) /\ mem \in RunStates /\ mem.target \notin {"awaiting_human", "blocked"}
  BY <1>1, RoleStarted
<1>3. /\ p \in Phases /\ st \in Statuses /\ st \in {"in-progress", "done"}
      /\ p \notin {"awaiting_human", "blocked", "recursion_limit_exceeded"}
      /\ RejectedNext[at] \in RoleNodes /\ RejectedNext[at] = PausedNext(at, "accepted")
      /\ p = FreeNext(at, "accepted") /\ p = AcceptedNext[at]
  BY <1>1 DEF Phases, Nodes, Statuses, AcceptedNext, RejectedNext, RoleNodes, Reviewers,
              Drivers, PausedNext, FreeNext
<1>. HIDE DEF p, st
<1>4. /\ u \in RunStates /\ u.progress = mem.progress /\ u.attempts = mem.attempts
      /\ u.used = mem.used /\ u.intent = mem.intent /\ u.human = mem.human
      /\ u.log = mem.log /\ u.target = mem.target /\ u.status = st /\ u.phase = p
  BY <1>2, <1>3 DEF RunStates
<1>. HIDE DEF u
<1>5. Prepared(mem, u)
  BY <1>2, <1>4 DEF Prepared
<1>6. Successor(u, at) = FreeNext(at, "accepted")
  BY <1>1, <1>3, <1>4 DEF Successor
<1>7. "accepted" \in {"accepted", "rejected"} /\ u.status \in {"in-progress", "done"}
  BY <1>3, <1>4
<1>8. Story(t) /\ (Stopped(t) \/ Successor(t, at) = t.progress.next)
  BY <1>1, <1>2, <1>3, <1>4, <1>5, <1>6, <1>7, HandOffStory
<1>. HIDE DEF t
<1>. QED
  BY <1>1, <1>8, ConcludeStory, Zenon

\* What a Reviewer rejects goes back.
LEMMA ReviewRejectsStory ==
    ASSUME RunInv, StoryInv, NEW cause \in Causes, ReviewRejects(cause)
    PROVE  StoryInv'
<1>. DEFINE p == RetryPhase(at)
            rej == Append(mem.rej, [at |-> at, cause |-> cause])
            u == [mem EXCEPT !.status = "in-progress", !.phase = p, !.rej = rej]
            t == HandOff(u, at, "rejected", p, RejectedNext[at])
<1>1. pc = "started" /\ at \in Reviewers /\ Conclude(t, "finished")
  BY DEF ReviewRejects
<1>2. Started(mem, at) /\ mem \in RunStates /\ mem.target \notin {"awaiting_human", "blocked"}
  BY <1>1, RoleStarted
<1>3. /\ p \in Phases /\ "in-progress" \in Statuses /\ p = RetryPhase(at)
      /\ p \notin {"awaiting_human", "blocked", "recursion_limit_exceeded"}
      /\ RejectedNext[at] \in RoleNodes /\ RejectedNext[at] = PausedNext(at, "rejected")
      /\ RejectedNext[at] = FreeNext(at, "rejected") /\ p # AcceptedNext[at]
  BY <1>1 DEF RetryPhase, Phases, Nodes, Statuses, AcceptedNext, RejectedNext, RoleNodes,
              Reviewers, Drivers, PausedNext, FreeNext
<1>4. rej \in Seq(Rejection)
  BY <1>1, <1>2 DEF RunStates, Rejection
<1>. HIDE DEF p, rej
<1>5. /\ u \in RunStates /\ u.progress = mem.progress /\ u.attempts = mem.attempts
      /\ u.used = mem.used /\ u.intent = mem.intent /\ u.human = mem.human
      /\ u.log = mem.log /\ u.target = mem.target /\ u.status = "in-progress" /\ u.phase = p
  BY <1>2, <1>3, <1>4 DEF RunStates
<1>. HIDE DEF u
<1>6. Prepared(mem, u)
  BY <1>2, <1>5 DEF Prepared
<1>7. Successor(u, at) = FreeNext(at, "rejected")
  BY <1>1, <1>3, <1>5 DEF Successor
<1>8. "rejected" \in {"accepted", "rejected"} /\ u.status \in {"in-progress", "done"}
  BY <1>5
<1>9. Story(t) /\ (Stopped(t) \/ Successor(t, at) = t.progress.next)
  BY <1>1, <1>2, <1>3, <1>5, <1>6, <1>7, <1>8, HandOffStory
<1>. HIDE DEF t
<1>. QED
  BY <1>1, <1>9, ConcludeStory, Zenon

\* A failure pauses at its own node.
LEMMA PauseOnFailureStory ==
    ASSUME NEW s, NEW n, Started(s, n), s.target \notin {"awaiting_human", "blocked"},
           NEW r \in {"failed", "violation"}
    PROVE  Story(PauseOnFailure(s, n, r)) /\ Stopped(PauseOnFailure(s, n, r))
<1>. DEFINE l == LogInterrupt(s, "failure", n, s.progress.att)
<1>1. Prepared(s, s) /\ n \in RoleNodes /\ "failure" \in Triggers
  BY DEF Started, Prepared, Triggers
<1>2. /\ Prepared(s, l)
      /\ l.log = Append(s.log, [trigger |-> "failure", next |-> n, att |-> N(s),
                                resolved |-> FALSE])
      /\ l.status = "awaiting-human" /\ l.phase = "awaiting_human"
  BY <1>1, PreparedInterrupt
<1>3. PausedNext(n, r) = n /\ r \in Results \ {"open", "blocked", "corrected"} /\ r # "rejected"
  BY DEF PausedNext, Results
<1>4. PauseOnFailure(s, n, r) = Finish(l, n, r, FALSE)
  BY DEF PauseOnFailure
<1>. HIDE DEF l
<1>5. Story(Finish(l, n, r, FALSE)) /\ Stopped(Finish(l, n, r, FALSE))
  BY <1>1, <1>2, <1>3, PausedStory
<1>. QED
  BY <1>4, <1>5

\* A role that fails is paused.
LEMMA RoleFailsStory == ASSUME RunInv, StoryInv, RoleFails PROVE StoryInv'
<1>. DEFINE t == PauseOnFailure(mem, at, "failed")
<1>1. pc = "started" /\ Conclude(t, "finished")
  BY DEF RoleFails
<1>2. Started(mem, at) /\ mem.target \notin {"awaiting_human", "blocked"}
  BY <1>1, RoleStarted
<1>3. "failed" \in {"failed", "violation"}
  OBVIOUS
<1>4. Story(t) /\ Stopped(t)
  BY <1>2, <1>3, PauseOnFailureStory, Zenon
<1>. HIDE DEF t
<1>. QED
  BY <1>1, <1>4, ConcludeStory, Zenon

\* A refused output is corrected once, by the same role, and then paused.
LEMMA RoleViolatesContractStory == ASSUME RunInv, StoryInv, RoleViolatesContract PROVE StoryInv'
<1>1. pc = "started"
  BY DEF RoleViolatesContract
<1>2. /\ Started(mem, at) /\ mem.target \notin {"awaiting_human", "blocked"} /\ ~Stopped(mem)
      /\ at \in RoleNodes /\ mem \in RunStates /\ at \in Phases
  BY <1>1, RoleStarted
<1>3. CASE Correcting
  <2>. DEFINE t == PauseOnFailure(mem, at, "violation")
  <2>1. Conclude(t, "finished")
    BY <1>3 DEF RoleViolatesContract
  <2>2. "violation" \in {"failed", "violation"}
    OBVIOUS
  <2>3. Story(t) /\ Stopped(t)
    BY <1>2, <2>2, PauseOnFailureStory, Zenon
  <2>. HIDE DEF t
  <2>. QED
    BY <2>1, <2>3, ConcludeStory, Zenon
<1>4. CASE ~Correcting
  <2>. DEFINE u == [mem EXCEPT !.phase = at, !.target = at]
              t == Finish(u, at, "corrected", TRUE)
  <2>1. mem' = t /\ disk' = t /\ pc' = "enter" /\ at' = at
    BY <1>4 DEF RoleViolatesContract, Conclude
  <2>2. /\ u \in RunStates /\ u.progress = mem.progress /\ u.attempts = mem.attempts
        /\ u.used = mem.used /\ u.intent = mem.intent /\ u.human = mem.human
        /\ u.log = mem.log /\ u.target = at /\ u.status = mem.status /\ u.phase = at
    BY <1>2 DEF RunStates
  <2>. HIDE DEF u
  <2>3. at \notin {"awaiting_human", "blocked", "recursion_limit_exceeded", "done"}
    BY <1>2 DEF RoleNodes, Drivers, Reviewers
  <2>4. Prepared(mem, u)
    BY <2>2, <2>3 DEF Prepared
  <2>5. /\ "corrected" \in Results \ {"open", "failed", "violation", "escalated"}
        /\ "corrected" \in Results \ {"open"} /\ TRUE \in BOOLEAN
        /\ ~mem.progress.corr /\ u.status \notin {"awaiting-human", "blocked"}
    BY <1>2, <1>4, <2>2 DEF Results, Correcting, Stopped
  <2>6. Story(t)
    BY <1>2, <2>2, <2>3, <2>4, <2>5, FreeStory
  <2>7. Closed(mem, u, t, at, "corrected", TRUE)
    BY <1>2, <2>4, <2>5, FinishFacts, Zenon
  <2>. HIDE DEF t
  <2>8. Legal(t, at)
    <3>1. N(t) # 0
      BY <1>2, <2>7, StartedAttempt DEF Closed
    <3>2. NextAfter(t, N(t)) = at
      BY <2>7 DEF Closed, NextAfter
    <3>. QED
      BY <3>1, <3>2 DEF Legal
  <2>9. PlaceInv'
    BY <2>1, <2>3, <2>8 DEF PlaceInv
  <2>. QED
    BY <2>1, <2>6, <2>9 DEF StoryInv
<1>. QED
  BY <1>3, <1>4

\* A Driver that reports a block stops.
LEMMA DriverBlocksStory == ASSUME RunInv, StoryInv, DriverBlocks PROVE StoryInv'
<1>. DEFINE u == [mem EXCEPT !.status = "blocked", !.phase = at, !.target = at]
            t == Finish(u, at, "blocked", FALSE)
<1>1. pc = "started" /\ Conclude(t, "finished")
  BY DEF DriverBlocks
<1>2. /\ Started(mem, at) /\ at \in RoleNodes /\ mem \in RunStates /\ at \in Phases
      /\ "blocked" \in Statuses
  BY <1>1, RoleStarted DEF Statuses
<1>3. /\ u \in RunStates /\ u.progress = mem.progress /\ u.attempts = mem.attempts
      /\ u.used = mem.used /\ u.intent = mem.intent /\ u.human = mem.human
      /\ u.log = mem.log /\ u.target = at /\ u.status = "blocked" /\ u.phase = at
  BY <1>2 DEF RunStates
<1>. HIDE DEF u
<1>4. at \notin {"awaiting_human", "blocked", "recursion_limit_exceeded"}
  BY <1>2 DEF RoleNodes, Drivers, Reviewers
<1>5. Prepared(mem, u)
  BY <1>3, <1>4 DEF Prepared
<1>6. /\ "blocked" \in Results \ {"open", "failed", "violation", "escalated"}
      /\ "blocked" \in Results \ {"open"} /\ FALSE \in BOOLEAN
      /\ FALSE <=> "blocked" = "corrected"
  BY DEF Results
<1>7. Story(t)
  BY <1>2, <1>3, <1>4, <1>5, <1>6, FreeStory
<1>8. Closed(mem, u, t, at, "blocked", FALSE)
  BY <1>2, <1>5, <1>6, FinishFacts, Zenon
<1>. HIDE DEF t
<1>9. Stopped(t)
  BY <1>3, <1>8 DEF Closed, Stopped
<1>. QED
  BY <1>1, <1>7, <1>9, ConcludeStory, Zenon

\* A Driver that asks for another role's change is paused.
LEMMA DriverEscalatesStory == ASSUME RunInv, StoryInv, DriverEscalates PROVE StoryInv'
<1>. DEFINE l == LogInterrupt(mem, "role-escalation", at, mem.progress.att)
            u == [l EXCEPT !.target = at]
            t == Finish(u, at, "escalated", FALSE)
<1>1. pc = "started" /\ Conclude(t, "finished")
  BY DEF DriverEscalates
<1>2. /\ Started(mem, at) /\ at \in RoleNodes /\ mem \in RunStates /\ at \in Phases
      /\ mem.target \notin {"awaiting_human", "blocked"} /\ "role-escalation" \in Triggers
  BY <1>1, RoleStarted DEF Triggers
<1>3. Prepared(mem, mem)
  BY <1>2 DEF Prepared
<1>4. /\ Prepared(mem, l)
      /\ l.log = Append(mem.log, [trigger |-> "role-escalation", next |-> at, att |-> N(mem),
                                resolved |-> FALSE])
      /\ l.status = "awaiting-human" /\ l.phase = "awaiting_human"
  BY <1>2, <1>3, PreparedInterrupt
<1>. HIDE DEF l
<1>5. /\ u \in RunStates /\ u.progress = l.progress /\ u.attempts = l.attempts
      /\ u.used = l.used /\ u.intent = l.intent /\ u.human = l.human
      /\ u.log = l.log /\ u.target = at /\ u.status = l.status /\ u.phase = l.phase
  BY <1>2, <1>4 DEF RunStates, Prepared
<1>. HIDE DEF u
<1>6. at \notin {"awaiting_human", "blocked"}
  BY <1>2 DEF RoleNodes, Drivers, Reviewers
<1>7. Prepared(mem, u)
  BY <1>4, <1>5, <1>6 DEF Prepared
<1>8. PausedNext(at, "escalated") = at
      /\ "escalated" \in Results \ {"open", "blocked", "corrected"}
  BY DEF PausedNext, Results
<1>9. Story(t) /\ Stopped(t)
  BY <1>2, <1>4, <1>5, <1>7, <1>8, PausedStory
<1>. HIDE DEF t
<1>. QED
  BY <1>1, <1>9, ConcludeStory DEF u, l

-----------------------------------------------------------------------------
(* The theorems about the story *)

\* Every step of the specification keeps the story.
LEMMA StoryNext == RunInv /\ StoryInv /\ [Next]_vars => StoryInv'
<1>. SUFFICES ASSUME RunInv, StoryInv, [Next]_vars PROVE StoryInv'
  OBVIOUS
<1>1. RunInv'
  BY NextInv
<1>2. CASE Role
  BY <1>2, RoleSucceedsStory, ReviewAcceptsStory, ReviewRejectsStory, RoleFailsStory,
     RoleViolatesContractStory, DriverBlocksStory, DriverEscalatesStory DEF Role
<1>3. CASE Process
  BY <1>1, <1>2, <1>3, HoldCorrectionStory, CreateAttemptStory, StartAttemptStory,
     CheckpointOutcomeStory, RouteStory, LimitStory, StopNodeStory, SaveStory DEF Process
<1>4. CASE GateCheckpoint \/ GateRejects \/ Crash
  BY <1>4, SaveStory
<1>5. CASE Resume
  BY <1>5, ResumeFreelyStory, ResolveInterruptStory, ResolveBlockStory DEF Resume
<1>6. CASE \E t \in Addressees : QueueIntervention(t)
  BY <1>1, <1>6, Bounds, QueueStory
<1>7. CASE UNCHANGED vars
  BY <1>7 DEF vars, StoryInv, PlaceInv
<1>. QED
  BY <1>3, <1>4, <1>5, <1>6, <1>7 DEF Next

\* The story holds in every state.
THEOREM StoryInvariance == Spec => []StoryInv
<1>1. RunInv /\ StoryInv /\ [Next]_vars => StoryInv'
  BY StoryNext
<1>. QED
  BY <1>1, StoryInit, Invariance, PTL DEF Spec

\* Through any number of pauses, crashes, turn limits and resumes, attempts follow the
\* edges of the role graph, and a correction is never itself corrected.
THEOREM SuccessionLegal == Spec => []LegalSuccession
<1>1. RunInv /\ StoryInv => LegalSuccession
  <2>. SUFFICES ASSUME RunInv, StoryInv, NEW s \in Records
                PROVE  /\ s.attempts # <<>> => s.attempts[1].node = "architect"
                       /\ \A k \in Followed(s) :
                             /\ s.attempts[k].result # "blocked" =>
                                   s.attempts[k + 1].node = NextAfter(s, k)
                             /\ s.attempts[k].result = "corrected" =>
                                   s.attempts[k + 1].result # "corrected"
    BY DEF LegalSuccession
  <2>1. OrderInv(s) /\ s.attempts \in Seq(Attempt)
    BY DEF RunInv, RecordInv, Core, RunStates, StoryInv, Story, HistoryInv, Records
  <2>2. (s.attempts # <<>> => N(s) > 0) /\ \A k \in Followed(s) : k \in 1 .. N(s) /\ k < N(s)
    BY <2>1 DEF N, Followed
  <2>. QED
    BY <2>1, <2>2 DEF OrderInv
<1>. QED
  BY <1>1, Invariance, StoryInvariance, PTL

\* Pauses and decisions match: at most the newest interrupt waits, exactly while the Run
\* does or once its decision is recorded, and each resolved one has exactly one decision.
THEOREM DecisionsCorrect == Spec => []DecisionsMatchPauses
<1>1. RunInv /\ StoryInv => PauseIsResolvable
  <2>. SUFFICES ASSUME RunInv, StoryInv, NEW s \in Records
                PROVE  /\ Unresolved(s) \subseteq {Len(s.log)}
                       /\ s.status = "awaiting-human" => Unresolved(s) # {} \/ s.intent.pending
                       /\ Unresolved(s) # {} => s.status = "awaiting-human"
    BY DEF PauseIsResolvable
  <2>1. LogInv(s) /\ StatusInv(s) /\ DOMAIN s.log = 1 .. Len(s.log)
    BY DEF RunInv, RecordInv, Core, RunStates, StoryInv, Story, HistoryInv, Records
  <2>. QED
    BY <2>1, Zenon DEF Unresolved, LogInv, StatusInv
<1>2. RunInv /\ StoryInv => OneDecisionPerInterrupt
  <2>. DEFINE decisions(i) == {j \in Decisions(disk) :
                                 disk.human[j].kind = "interrupt" /\ disk.human[j].on = i}
  <2>. SUFFICES ASSUME RunInv, StoryInv, NEW i \in DOMAIN disk.log
                PROVE  IF disk.log[i].resolved THEN \E j \in decisions(i) : decisions(i) = {j}
                                               ELSE decisions(i) = {}
    BY DEF OneDecisionPerInterrupt
  <2>1. /\ DecisionInv(disk) /\ i \in 1 .. Len(disk.log)
        /\ DOMAIN disk.human = 1 .. Len(disk.human)
    BY DEF RunInv, RecordInv, Core, RunStates, StoryInv, Story, HistoryInv
  <2>2. ASSUME disk.log[i].resolved PROVE \E j \in decisions(i) : decisions(i) = {j}
    <3>1. PICK j \in 1 .. Len(disk.human) : disk.human[j].kind = "interrupt" /\ disk.human[j].on = i
      BY <2>1, <2>2, Zenon DEF DecisionInv
    <3>2. j \in decisions(i)
      BY <2>1, <3>1 DEF Decisions
    <3>3. \A k \in decisions(i) : k = j
      BY <2>1, <3>1 DEF Decisions, DecisionInv
    <3>. QED
      BY <3>2, <3>3
  <2>3. ASSUME ~disk.log[i].resolved PROVE decisions(i) = {}
    BY <2>1, <2>3 DEF Decisions, DecisionInv
  <2>. QED
    BY <2>2, <2>3
<1>. QED
  BY <1>1, <1>2, Invariance, StoryInvariance, PTL DEF DecisionsMatchPauses

\* No attempt follows a failure, an escalation, a block, a declared checkpoint, a pause
\* or the end of the budget without a human decision about that very attempt.
THEOREM DecisionsFirst == Spec => []NoWorkWithoutDecision
<1>1. RunInv /\ StoryInv => NoWorkWithoutDecision
  <2>. SUFFICES ASSUME RunInv, StoryInv, NEW s \in Records, NEW k \in Followed(s),
                       NeedsDecision(s, k)
                PROVE  Decided(s, k)
    BY DEF NoWorkWithoutDecision, NeedsDecision
  <2>1. PauseInv(s) /\ s.attempts \in Seq(Attempt)
    BY DEF RunInv, RecordInv, Core, RunStates, StoryInv, Story, HistoryInv, Records
  <2>2. k \in 1 .. N(s) /\ k < N(s)
    BY <2>1 DEF N, Followed
  <2>. QED
    BY <2>1, <2>2, Zenon DEF PauseInv
<1>. QED
  BY <1>1, Invariance, StoryInvariance, PTL

-----------------------------------------------------------------------------
(* What a Run that is always resumed may count on *)

\* Only a correction is followed by another attempt in the same visit.
LEMMA FinishCorrects ==
    ASSUME NEW s \in RunStates, NEW n, NEW r, NEW c \in BOOLEAN
    PROVE  Finish(s, n, r, c).progress.corr = c
BY DEF Finish, RunStates

\* A live process gets on with the visit of its node, or takes one more turn.
LEMMA ProcessAdvances ==
    ASSUME RunInv, Process
    PROVE  \/ turns < turns' /\ turns' <= MaxTurns
           \/ turns' = turns /\ Remaining' < Remaining
<1>1. /\ turns \in Nat /\ MaxTurns \in Nat /\ mem \in RunStates
      /\ mem.progress.corr \in BOOLEAN
  BY Bounds DEF RunInv, RecordInv, Core, Scalars, RunStates, Progress
<1>2. CASE HoldCorrection
  <2>1. pc = "enter" /\ pc' = "finished" /\ turns' = turns
    BY <1>2 DEF HoldCorrection, AtRole
  <2>2. Remaining' = 3 /\ Remaining \in {6, 9}
    BY <2>1 DEF Remaining
  <2>. QED
    BY <2>1, <2>2
<1>3. CASE CreateAttempt
  <2>1. pc = "enter" /\ pc' = "created" /\ turns' = turns
    BY <1>3 DEF CreateAttempt, AtRole
  <2>2. mem'.progress.corr = mem.progress.corr
    <3>. DEFINE k == IF Reusing THEN mem.progress.att ELSE Len(mem.attempts) + 1
                s == [mem EXCEPT
                        !.attempts = IF Reusing THEN @
                                     ELSE Append(@, [node |-> at, result |-> "open"]),
                        !.progress = CreatedCursor(k)]
    <3>1. mem' = s \/ mem' = Deliver(s, at, k)
      BY <1>3 DEF CreateAttempt
    <3>2. s.progress.corr = mem.progress.corr /\ "progress" \in DOMAIN s
      BY <1>1 DEF RunStates, CreatedCursor, Correcting
    <3>. HIDE DEF s, k
    <3>3. Deliver(s, at, k).progress = s.progress
      BY <3>2 DEF Deliver
    <3>. QED
      BY <3>1, <3>2, <3>3
  <2>3. \/ Remaining' = 5 /\ Remaining = 6
        \/ Remaining' = 8 /\ Remaining = 9
    BY <1>1, <2>1, <2>2 DEF Remaining
  <2>. QED
    BY <2>1, <2>3
<1>4. CASE StartAttempt
  <2>1. /\ pc = "created" /\ pc' = "started" /\ turns' = turns
        /\ mem'.progress.corr = mem.progress.corr
    BY <1>1, <1>4 DEF StartAttempt, RunStates, Progress
  <2>2. \/ Remaining' = 4 /\ Remaining = 5
        \/ Remaining' = 7 /\ Remaining = 8
    BY <1>1, <2>1 DEF Remaining
  <2>. QED
    BY <2>1, <2>2
<1>5. CASE Role
  <2>1. pc = "started" /\ turns' = turns
    BY <1>5 DEF Role, RoleSucceeds, ReviewAccepts, ReviewRejects, RoleFails,
           RoleViolatesContract, DriverBlocks, DriverEscalates, Conclude
  <2>2. \/ pc' = "finished"
        \/ pc' = "enter" /\ ~mem.progress.corr /\ mem'.progress.corr
    <3>1. CASE RoleViolatesContract
      <4>1. CASE Correcting
        BY <3>1, <4>1 DEF RoleViolatesContract, Conclude
      <4>2. CASE ~Correcting
        <5>. DEFINE s == [mem EXCEPT !.phase = at, !.target = at]
        <5>1. pc' = "enter" /\ mem' = Finish(s, at, "corrected", TRUE)
          BY <3>1, <4>2 DEF RoleViolatesContract, Conclude
        <5>2. s \in RunStates
          <6>1. at \in Phases
            BY DEF RunInv, Scalars, Phases
          <6>. QED
            BY <1>1, <6>1, Zenon DEF RunStates
        <5>. HIDE DEF s
        <5>3. mem'.progress.corr
          BY <5>1, <5>2, FinishCorrects
        <5>. QED
          BY <4>2, <5>1, <5>3 DEF Correcting
      <4>. QED
        BY <4>1, <4>2
    <3>2. CASE ~RoleViolatesContract
      BY <1>5, <3>2 DEF Role, RoleSucceeds, ReviewAccepts, ReviewRejects, RoleFails,
             DriverBlocks, DriverEscalates, Conclude
    <3>. QED
      BY <3>1, <3>2
  <2>3. \/ Remaining' = 3 /\ Remaining \in {4, 7}
        \/ Remaining' = 6 /\ Remaining = 7
    BY <1>1, <2>1, <2>2 DEF Remaining
  <2>. QED
    BY <2>1, <2>3
<1>6. CASE CheckpointOutcome
  BY <1>6 DEF CheckpointOutcome, Remaining
<1>7. CASE Route
  BY <1>1, <1>7 DEF Route
<1>8. CASE RecursionLimit
  BY <1>8 DEF RecursionLimit, Remaining
<1>9. CASE StopNode
  <2>1. pc = "enter" /\ pc' = "ended" /\ turns' = turns
    BY <1>9 DEF StopNode
  <2>2. Remaining' = 1 /\ Remaining \in {6, 9}
    BY <2>1 DEF Remaining
  <2>. QED
    BY <2>1, <2>2
<1>10. CASE FinalSave
  BY <1>10 DEF FinalSave, Remaining
<1>. QED
  BY <1>2, <1>3, <1>4, <1>5, <1>6, <1>7, <1>8, <1>9, <1>10 DEF Process

\* No invocation of the graph circles, whatever the roles return: each of its steps gets
\* on with the visit of its node or takes one of its turns.
THEOREM InvocationEnds == Spec => InvocationAdvances
<1>1. RunInv /\ [Next]_vars
         => [Process => (\/ turns < turns' /\ turns' <= MaxTurns
                         \/ turns' = turns /\ Remaining' < Remaining)]_vars
  <2>. SUFFICES ASSUME RunInv, Process
                PROVE  \/ turns < turns' /\ turns' <= MaxTurns
                       \/ turns' = turns /\ Remaining' < Remaining
    OBVIOUS
  <2>. QED
    BY ProcessAdvances, Zenon
<1>. QED
  BY <1>1, Invariance, PTL DEF Spec, InvocationAdvances

\* Where a resume goes.
LEMMA ResumeLaunches ==
    ASSUME RunInv, StoryInv, Resume, RunInv', StoryInv'
    PROVE  at' = EntryNode(InferResumeTarget(disk'))
<1>1. ASSUME NEW s, Launch(s) PROVE at' = EntryNode(InferResumeTarget(disk'))
  BY <1>1 DEF Launch
<1>. QED
  BY <1>1, Zenon DEF Resume, ReplayDecision, ResolveInterrupt, ResolveBlock, ResumeAnyway

\* Whatever stopped a Run, a resume of it enters a role, or DONE.
THEOREM ResumeWorks == Spec => ResumeEntersWork
<1>1. RunInv /\ StoryInv /\ RunInv' /\ StoryInv' /\ [Next]_vars
         => [Resume => at' \in RoleNodes \cup {"done"}]_vars
  <2>. SUFFICES ASSUME RunInv, StoryInv, RunInv', StoryInv', Resume
                PROVE  at' \in RoleNodes \cup {"done"}
    OBVIOUS
  <2>1. RecordInv(disk') /\ Story(disk')
    BY DEF RunInv, StoryInv
  <2>2. InferResumeTarget(disk') \notin {"awaiting_human", "blocked"}
    BY <2>1, InferLegal
  <2>3. EntryNode(InferResumeTarget(disk')) \in RoleNodes \cup {"done"}
    BY <2>2 DEF EntryNode, Nodes, RoleNodes
  <2>. QED
    BY <2>3, ResumeLaunches
<1>. QED
  BY <1>1, Invariance, StoryInvariance, PTL DEF Spec, ResumeEntersWork

-----------------------------------------------------------------------------
(* The refinement: a step of RunGraph is a step of RunContract on the saved *)
(* state, or none                                                           *)

\* Process p and file f tell the same story; the file may hold more context.
Agree(p, f) ==
    /\ p.attempts = f.attempts /\ p.log = f.log /\ SameDecisions(p, f)
    /\ \/ f.progress = p.progress
       \/ f.progress.stage \in BeforeStages /\ p.progress.stage \in BeforeStages

\* Who decides on a block decides on a blocked attempt.
BlockInv(s) ==
    \A j \in 1 .. Len(s.human) : s.human[j].kind = "block" =>
        s.human[j].on \in 1 .. N(s) /\ s.attempts[s.human[j].on].result = "blocked"

\* Both, of the process and its file.
ContractInv == Agree(mem, disk) /\ BlockInv(disk)

-----------------------------------------------------------------------------
(* What the contract sees of a record *)

\* A well-formed record has an open attempt, the last one, exactly while its cursor
\* says so, and without one all its attempts are settled.
LEMMA Visible ==
    ASSUME NEW s, Core(s)
    PROVE  /\ s \in RunStates /\ s.attempts \in Seq(Attempt) /\ N(s) \in Nat
           /\ DOMAIN s.log = 1 .. Len(s.log)
           /\ s.progress.stage \in OpenStages =>
                 N(s) > 0 /\ s.attempts[N(s)].result = "open" /\ s.progress.att = N(s)
                 /\ s.attempts[N(s)].node = s.progress.next
           /\ s.progress.stage \notin OpenStages =>
                 /\ SettledAttempts(s) = s.attempts
                 /\ N(s) > 0 => Settled(s)
<1>1. s \in RunStates /\ s.attempts \in Seq(Attempt) /\ N(s) \in Nat
      /\ DOMAIN s.log = 1 .. Len(s.log) /\ s.progress \in Progress
  BY DEF Core, RunStates, N
<1>2. s.progress.stage \in OpenStages =>
         /\ N(s) > 0 /\ s.attempts[N(s)].result = "open" /\ s.progress.att = N(s)
         /\ s.attempts[N(s)].node = s.progress.next
  BY <1>1 DEF Core, CursorInv, N, OpenStages, BeforeStages, Progress
<1>3. s.progress.stage \notin OpenStages =>
         ~(N(s) > 0 /\ s.attempts[N(s)].result = "open")
  BY <1>1 DEF Core, CursorInv, N
<1>. QED
  BY <1>1, <1>2, <1>3 DEF SettledAttempts, N, Settled

\* Records with the same attempts, pauses and decisions look the same.
LEMMA SameView ==
    ASSUME NEW s \in RunStates, NEW t \in RunStates, t.attempts = s.attempts, t.log = s.log,
           SameDecisions(s, t) \/ SameDecisions(t, s)
    PROVE  SettledAttempts(t) = SettledAttempts(s) /\ DecisionOwed(t) = DecisionOwed(s)
<1>1. \A k : Decided(t, k) <=> Decided(s, k)
  BY DecidedSame, Zenon
<1>2. Unresolved(t) = Unresolved(s)
  BY DEF Unresolved
<1>. QED
  BY <1>1, <1>2 DEF SettledAttempts, DecisionOwed

\* Decisions on blocks stand as long as blocked attempts do.
LEMMA BlockSame ==
    ASSUME NEW s, NEW t, BlockInv(s), SameDecisions(s, t),
           \A k \in 1 .. N(s) : k \in 1 .. N(t)
              /\ (s.attempts[k].result = "blocked" => t.attempts[k].result = "blocked")
    PROVE  BlockInv(t)
<1>. SUFFICES ASSUME NEW j \in 1 .. Len(t.human), t.human[j].kind = "block"
              PROVE  t.human[j].on \in 1 .. N(t) /\ t.attempts[t.human[j].on].result = "blocked"
  BY Zenon DEF BlockInv
<1>1. j \in 1 .. Len(s.human)
  BY DEF SameDecisions
<1>2. s.human[j].kind = "block" /\ s.human[j].on = t.human[j].on
  BY <1>1, Zenon DEF SameDecisions
<1>3. s.human[j].on \in 1 .. N(s) /\ s.attempts[s.human[j].on].result = "blocked"
  BY <1>1, <1>2, Zenon DEF BlockInv
<1>. QED
  BY <1>2, <1>3, Zenon

\* What the process decided on, too.
LEMMA BlockOfProcess == ASSUME ContractInv PROVE BlockInv(mem)
<1>1. /\ mem.attempts = disk.attempts /\ SameDecisions(mem, disk) /\ BlockInv(disk)
  BY DEF ContractInv, Agree
<1>2. N(mem) = N(disk)
  BY <1>1 DEF N
<1>. QED
  BY <1>1, <1>2, Zenon DEF SameDecisions, BlockInv

\* A record agrees with itself.
LEMMA AgreeSelf == ASSUME NEW s, NEW t, t = s PROVE Agree(s, t)
BY SameDecisionsReflexive DEF Agree

\* The file as the process knows it: where both are, and what they show.
LEMMA Known ==
    ASSUME RunInv, StoryInv, ContractInv
    PROVE  /\ Core(mem) /\ Core(disk) /\ mem \in RunStates /\ disk \in RunStates
           /\ mem.progress.stage \in OpenStages => disk.progress = mem.progress
           /\ mem.progress.stage \notin OpenStages => disk.progress.stage \notin OpenStages
           /\ SettledAttempts(mem) = SettledAttempts(disk)
           /\ DecisionOwed(mem) = DecisionOwed(disk)
<1>1. Core(mem) /\ Core(disk) /\ mem \in RunStates /\ disk \in RunStates
  BY DEF RunInv, RecordInv, Core
<1>2. SettledAttempts(disk) = SettledAttempts(mem) /\ DecisionOwed(disk) = DecisionOwed(mem)
  BY <1>1, SameView, Zenon DEF ContractInv, Agree
<1>3. /\ mem.progress.stage \in OpenStages => disk.progress = mem.progress
      /\ mem.progress.stage \notin OpenStages => disk.progress.stage \notin OpenStages
  BY DEF ContractInv, Agree, OpenStages, BeforeStages
<1>. QED
  BY <1>1, <1>2, <1>3

\* What the contract sees.
Shown == <<SettledAttempts(disk), InFlight, DecisionOwed(disk)>>

\* The contract's variables are just that.
LEMMA ShownVars == Contract!vars = Shown
BY DEF Contract!vars, Shown

\* Without an open attempt nobody is at work.
LEMMA NobodyAtWork ==
    /\ disk.progress.stage \notin OpenStages <=> InFlight = Contract!Nobody
    /\ InFlight.state = "none" <=> InFlight = Contract!Nobody
BY DEF InFlight, OpenStages, Contract!Nobody

-----------------------------------------------------------------------------
(* Steps the contract does not see *)

\* A save of the same attempts, pauses and decisions by a process that is as busy.
LEMMA Quiet ==
    ASSUME disk \in RunStates, disk' \in RunStates,
           disk'.attempts = disk.attempts, disk'.log = disk.log,
           SameDecisions(disk, disk') \/ SameDecisions(disk', disk),
           InFlight' = InFlight
    PROVE  Shown' = Shown
<1>1. /\ SettledAttempts(disk') = SettledAttempts(disk)
      /\ DecisionOwed(disk') = DecisionOwed(disk)
  BY SameView
<1>. QED
  BY <1>1 DEF Shown

\* The process is as busy if its cursor has no started attempt, or it goes on with it.
LEMMA SameFlight ==
    ASSUME \/ disk'.progress.stage \notin OpenStages /\ disk.progress.stage \notin OpenStages
           \/ /\ disk'.progress = disk.progress
              /\ disk.progress.stage # "attempt-started" \/ (pc = "idle" <=> pc' = "idle")
    PROVE  InFlight' = InFlight
BY DEF InFlight, OpenStages

\* Saving what the process knows, with no open attempt closed or opened.
LEMMA QuietSave ==
    ASSUME RunInv, RunInv', StoryInv, ContractInv, disk' = mem',
           mem'.attempts = mem.attempts, mem'.log = mem.log, mem'.human = mem.human,
           \/ mem'.progress.stage \notin OpenStages /\ mem.progress.stage \notin OpenStages
           \/ mem'.progress = mem.progress /\ mem.progress.stage # "attempt-started"
    PROVE  Shown' = Shown /\ ContractInv'
<1>1. /\ disk \in RunStates /\ disk' \in RunStates
      /\ mem.progress.stage \in OpenStages => disk.progress = mem.progress
      /\ mem.progress.stage \notin OpenStages => disk.progress.stage \notin OpenStages
  BY Known DEF RunInv, RecordInv, Core
<1>2. /\ disk'.attempts = disk.attempts /\ disk'.log = disk.log /\ SameDecisions(disk', disk)
  BY DEF ContractInv, Agree, SameDecisions
<1>3. InFlight' = InFlight
  <2>1. CASE mem.progress.stage \notin OpenStages
    <3>1. disk'.progress.stage \notin OpenStages
      BY <2>1
    <3>. QED
      BY <1>1, <2>1, <3>1, SameFlight
  <2>2. CASE mem.progress.stage \in OpenStages
    <3>1. disk'.progress = disk.progress /\ disk.progress.stage # "attempt-started"
      BY <1>1, <2>2
    <3>. QED
      BY <3>1, SameFlight
  <2>. QED
    BY <2>1, <2>2
<1>4. Shown' = Shown
  BY <1>1, <1>2, <1>3, Quiet
<1>5. Agree(mem', disk')
  BY AgreeSelf
<1>6. BlockInv(disk')
  <2>1. BlockInv(mem) /\ SameDecisions(mem, disk')
    BY BlockOfProcess, SameDecisionsReflexive
  <2>2. \A k \in 1 .. N(mem) : k \in 1 .. N(disk')
           /\ (mem.attempts[k].result = "blocked" => disk'.attempts[k].result = "blocked")
    BY DEF N
  <2>. QED
    BY <2>1, <2>2, BlockSame
<1>. QED
  BY <1>4, <1>5, <1>6 DEF ContractInv

\* The gate, the marks of a finished attempt, the stops and the final save.
LEMMA SaveContract ==
    ASSUME RunInv, RunInv', StoryInv, ContractInv,
           \/ GateCheckpoint \/ GateRejects \/ CheckpointOutcome \/ StopNode \/ FinalSave
    PROVE  Shown' = Shown /\ ContractInv'
<1>1. mem \in RunStates /\ mem' \in RunStates
  BY DEF RunInv, RecordInv, Core
<1>2. CASE GateCheckpoint \/ GateRejects
  <2>1. mem' = mem /\ disk' = mem' /\ mem.progress.stage # "attempt-started"
    BY <1>2 DEF GateCheckpoint, GateRejects, AtRole, Terminal
  <2>. QED
    BY <2>1, QuietSave
<1>3. CASE FinalSave
  <2>1. mem' = mem /\ disk' = mem' /\ mem.progress.stage \notin OpenStages
    BY <1>3 DEF FinalSave, RunInv, ControlInv
  <2>. QED
    BY <2>1, QuietSave
<1>4. ASSUME NEW u \in RunStates, u.attempts = mem.attempts, u.log = mem.log,
             u.human = mem.human, u.progress = mem.progress, mem' = Checkpointed(u),
             disk' = mem', mem.progress.stage \notin OpenStages
      PROVE  Shown' = Shown /\ ContractInv'
  <2>. DEFINE cursor == [u.progress EXCEPT !.stage = "outcome-checkpointed"]
  <2>1. cursor.stage \notin OpenStages
    BY <1>4 DEF RunStates, Progress, OpenStages
  <2>. HIDE DEF cursor
  <2>2. Checkpointed(u) = IF u.progress.stage = "none" THEN u ELSE [u EXCEPT !.progress = cursor]
    BY DEF Checkpointed, cursor
  <2>3. /\ mem'.attempts = mem.attempts /\ mem'.log = mem.log /\ mem'.human = mem.human
        /\ mem'.progress.stage \notin OpenStages
    BY <1>4, <2>1, <2>2 DEF RunStates
  <2>. QED
    BY <1>4, <2>3, QuietSave
<1>5. CASE CheckpointOutcome
  <2>1. /\ mem' = Checkpointed(mem) /\ disk' = mem' /\ mem.progress.stage \notin OpenStages
    BY <1>5 DEF CheckpointOutcome, RunInv, ControlInv
  <2>. QED
    BY <1>1, <1>4, <2>1
<1>6. CASE StopNode
  <2>1. mem.progress.stage \notin OpenStages
    <3>1. at \notin RoleNodes /\ pc = "enter"
      BY <1>6 DEF StopNode
    <3>2. mem.progress.stage = "attempt-created" => at \in RoleNodes
      <4>1. Core(mem) /\ (mem.progress.stage = "attempt-created" => mem.progress.next = at)
        BY <3>1 DEF RunInv, RecordInv, ControlInv
      <4>2. mem.progress.stage = "attempt-created" =>
               /\ N(mem) \in Nat /\ N(mem) > 0 /\ mem.attempts \in Seq(Attempt)
               /\ mem.attempts[N(mem)].node = at
        BY <4>1, Visible DEF OpenStages
      <4>3. mem.progress.stage = "attempt-created" => mem.attempts[N(mem)] \in Attempt
        BY <4>2, ElementOfSeq DEF N
      <4>. QED
        BY <4>2, <4>3 DEF Attempt
    <3>. QED
      BY <3>1, <3>2 DEF RunInv, ControlInv, OpenStages
  <2>2. PICK u \in {[mem EXCEPT !.status = "done", !.phase = "done"],
                    [mem EXCEPT !.status = "awaiting-human", !.phase = "awaiting_human"],
                    [mem EXCEPT !.status = "blocked"]} : mem' = Checkpointed(u) /\ disk' = mem'
    <3>1. at \in {"done", "awaiting_human", "blocked"}
      BY <1>6 DEF StopNode, RunInv, Scalars, Nodes
    <3>. QED
      BY <1>6, <3>1 DEF StopNode
  <2>3. /\ u \in RunStates /\ u.attempts = mem.attempts /\ u.log = mem.log
        /\ u.human = mem.human /\ u.progress = mem.progress
    <3>1. /\ {"done", "awaiting-human", "blocked"} \subseteq Statuses
          /\ {"done", "awaiting_human"} \subseteq Phases
      BY DEF Statuses, Phases, Nodes
    <3>2. CASE u = [mem EXCEPT !.status = "done", !.phase = "done"]
      BY <1>1, <3>1, <3>2 DEF RunStates
    <3>3. CASE u = [mem EXCEPT !.status = "awaiting-human", !.phase = "awaiting_human"]
      BY <1>1, <3>1, <3>3 DEF RunStates
    <3>4. CASE u = [mem EXCEPT !.status = "blocked"]
      BY <1>1, <3>1, <3>4 DEF RunStates
    <3>. QED
      BY <3>2, <3>3, <3>4, Zenon
  <2>. QED
    BY <1>4, <2>1, <2>2, <2>3
<1>. QED
  BY <1>2, <1>3, <1>5, <1>6

\* Choosing an edge and the turn limit save nothing.
LEMMA RouteContract ==
    ASSUME RunInv, RunInv', StoryInv, ContractInv, Route \/ RecursionLimit
    PROVE  Shown' = Shown /\ ContractInv'
<1>1. /\ disk' = disk /\ pc # "idle" /\ pc' # "idle"
  BY DEF Route, RecursionLimit
<1>2. Shown' = Shown
  BY <1>1 DEF Shown, InFlight
<1>3. /\ mem'.attempts = mem.attempts /\ mem'.log = mem.log /\ mem'.human = mem.human
      /\ mem'.progress = mem.progress
  BY DEF Route, RecursionLimit, RunInv, RecordInv, Core, RunStates
<1>4. ContractInv'
  BY <1>1, <1>3 DEF ContractInv, Agree, SameDecisions
<1>. QED
  BY <1>2, <1>4

\* Nor does a human who queues context change what the contract sees.
LEMMA QueueContract ==
    ASSUME RunInv, RunInv', StoryInv, ContractInv, NEW n, QueueIntervention(n)
    PROVE  Shown' = Shown /\ ContractInv'
<1>. DEFINE queue == Append(disk.queue, [target |-> n, to |-> 0])
            entry == [kind |-> "intervention", on |-> Len(disk.queue) + 1, disp |-> "queued"]
            human == Append(disk.human, entry)
            t == [disk EXCEPT !.queue = queue, !.human = human]
<1>1. disk' = t /\ mem' = (IF pc = "idle" THEN t ELSE mem) /\ pc' = pc
  BY DEF QueueIntervention
<1>2. /\ disk \in RunStates /\ disk' \in RunStates /\ disk.human \in Seq(HumanAction)
      /\ Len(disk.human) \in Nat
  BY DEF RunInv, RecordInv, Core, RunStates
<1>3. /\ Len(human) = Len(disk.human) + 1 /\ human[Len(disk.human) + 1].kind = "intervention"
      /\ \A j \in 1 .. Len(disk.human) : j \in 1 .. Len(human) /\ human[j] = disk.human[j]
      /\ \A j \in 1 .. Len(human) : j \in 1 .. Len(disk.human) \/ j = Len(disk.human) + 1
  BY <1>2
<1>. HIDE DEF queue, human
<1>4. t.attempts = disk.attempts /\ t.log = disk.log /\ t.progress = disk.progress
      /\ t.human = human
  BY <1>2 DEF RunStates
<1>. HIDE DEF t
<1>5. SameDecisions(disk, t)
  BY <1>3, <1>4, Zenon DEF SameDecisions
<1>6. InFlight' = InFlight
  BY <1>1, <1>4, SameFlight
<1>7. Shown' = Shown
  BY <1>1, <1>2, <1>4, <1>5, <1>6, Quiet
<1>8. BlockInv(disk')
  <2>1. \A k \in 1 .. N(disk) : k \in 1 .. N(t)
           /\ (disk.attempts[k].result = "blocked" => t.attempts[k].result = "blocked")
    BY <1>4 DEF N
  <2>. QED
    BY <1>1, <1>5, <2>1, BlockSame DEF ContractInv
<1>9. Agree(mem', disk')
  <2>1. CASE pc = "idle"
    BY <1>1, <2>1, AgreeSelf
  <2>2. CASE pc # "idle"
    <3>1. SameDecisions(mem, disk)
      BY DEF ContractInv, Agree
    <3>2. SameDecisions(mem, t)
      BY <1>5, <3>1, Zenon DEF SameDecisions
    <3>. QED
      BY <1>1, <1>4, <2>2, <3>2 DEF ContractInv, Agree
  <2>. QED
    BY <2>1, <2>2
<1>. QED
  BY <1>7, <1>8, <1>9 DEF ContractInv

-----------------------------------------------------------------------------
(* Sequences that grow, and who may follow *)

\* Without its new element a sequence is what it was.
LEMMA AllButNew ==
    ASSUME NEW S, NEW q \in Seq(S), NEW e \in S
    PROVE  SubSeq(Append(q, e), 1, Len(q)) = q
<1>. DEFINE p == Append(q, e)
            r == SubSeq(p, 1, Len(q))
<1>1. /\ p \in Seq(S) /\ Len(p) = Len(q) + 1 /\ Len(q) \in Nat
      /\ \A i \in 1 .. Len(q) : p[i] = q[i]
  BY AppendProperties
<1>. HIDE DEF p
<1>2. r \in Seq(S) /\ Len(r) = Len(q) /\ \A i \in 1 .. Len(q) : r[i] = p[i]
  BY <1>1
<1>. HIDE DEF r
<1>3. r = q
  BY <1>1, <1>2, SeqEqual
<1>. QED
  BY <1>3 DEF r, p

\* A sequence whose last element changes is all before it and the new last one.
LEMMA LastClosed ==
    ASSUME NEW S, NEW q \in Seq(S), Len(q) > 0, NEW e \in S,
           NEW p \in Seq(S), Len(p) = Len(q), p[Len(q)] = e,
           \A i \in 1 .. Len(q) : i # Len(q) => p[i] = q[i]
    PROVE  p = Append(SubSeq(q, 1, Len(q) - 1), e)
<1>. DEFINE n == Len(q) - 1
            b == SubSeq(q, 1, n)
            r == Append(b, e)
<1>1. n \in Nat /\ Len(q) = n + 1 /\ Len(q) \in Nat
  OBVIOUS
<1>. HIDE DEF n
<1>2. b \in Seq(S) /\ Len(b) = n /\ \A i \in 1 .. n : b[i] = q[i]
  BY <1>1
<1>. HIDE DEF b
<1>3. r \in Seq(S) /\ Len(r) = n + 1 /\ r[n + 1] = e /\ \A i \in 1 .. n : r[i] = b[i]
  BY <1>1, <1>2, AppendProperties
<1>. HIDE DEF r
<1>4. \A i \in 1 .. Len(p) : p[i] = r[i]
  BY <1>1, <1>2, <1>3
<1>5. p = r
  BY <1>1, <1>3, <1>4, SeqEqual
<1>. QED
  BY <1>5 DEF r, b, n

\* Whoever comes next by the edges of the graph, the contract allows.
LEMMA FollowsLegally ==
    ASSUME NEW s, NEW k, NEW n \in RoleNodes, s.attempts[k] \in Attempt,
           s.attempts[k].result # "open",
           s.attempts[k].result # "blocked" => n = NextAfter(s, k),
           s.attempts[k].result = "rejected" => s.attempts[k].node \in Reviewers
    PROVE  n \in Follow[s.attempts[k].node][s.attempts[k].result]
<1>. DEFINE m == s.attempts[k].node
            r == s.attempts[k].result
<1>1. m \in RoleNodes /\ r \in Results \ {"open"}
  BY DEF Attempt
<1>2. /\ r = "accepted" /\ m \notin Reviewers => NextAfter(s, k) = NextOnSuccess[m]
      /\ r = "accepted" /\ m \in Reviewers => NextAfter(s, k) \in {AcceptedNext[m], RejectedNext[m]}
      /\ r = "rejected" => NextAfter(s, k) = RejectedNext[m]
      /\ r \notin {"accepted", "rejected"} => NextAfter(s, k) = m
  <2>1. r = "accepted" /\ m \notin Reviewers => NextAfter(s, k) = NextOnSuccess[m]
    BY Zenon DEF NextAfter
  <2>2. r = "accepted" /\ m \in Reviewers /\ Paused(s, k) => NextAfter(s, k) = RejectedNext[m]
    BY Zenon DEF NextAfter
  <2>3. r = "accepted" /\ m \in Reviewers /\ ~Paused(s, k) => NextAfter(s, k) = AcceptedNext[m]
    BY Zenon DEF NextAfter
  <2>4. r = "rejected" => NextAfter(s, k) = RejectedNext[m]
    BY Zenon DEF NextAfter
  <2>5. r # "accepted" /\ r # "rejected" => NextAfter(s, k) = m
    BY Zenon DEF NextAfter
  <2>. HIDE DEF m, r
  <2>. QED
    BY <2>1, <2>2, <2>3, <2>4, <2>5
<1>3. /\ r = "accepted" /\ m \notin Reviewers => Follow[m][r] = {NextOnSuccess[m]}
      /\ r = "accepted" /\ m \in Reviewers =>
            Follow[m][r] = {AcceptedNext[m], RejectedNext[m]} \cap RoleNodes
      /\ r = "rejected" /\ m \in Reviewers => Follow[m][r] = {RejectedNext[m]}
      /\ r = "blocked" => Follow[m][r] = RoleNodes
      /\ r \notin {"accepted", "rejected", "blocked"} => Follow[m][r] = {m}
  <2>. HIDE DEF m, r
  <2>. QED
    BY <1>1 DEF Follow
<1>4. (r = "blocked" \/ n = NextAfter(s, k)) /\ (r = "rejected" => m \in Reviewers)
  OBVIOUS
<1>. HIDE DEF m, r
<1>5. n \in Follow[m][r]
  BY <1>2, <1>3, <1>4
<1>. QED
  BY <1>5 DEF m, r

-----------------------------------------------------------------------------
(* Attempts are created, started and lost *)

\* Registering an attempt is the contract's creation, unless a crash left it behind.
LEMMA CreateContract ==
    ASSUME RunInv, RunInv', StoryInv, ContractInv, CreateAttempt
    PROVE  (Shown' = Shown \/ Contract!Create(at)) /\ ContractInv'
<1>. DEFINE k == IF Reusing THEN mem.progress.att ELSE Len(mem.attempts) + 1
            new == [node |-> at, result |-> "open"]
            list == IF Reusing THEN mem.attempts ELSE Append(mem.attempts, new)
            cursor == CreatedCursor(k)
            s == [mem EXCEPT !.attempts = list, !.progress = cursor]
            t == IF at \in Reviewers THEN s ELSE Deliver(s, at, k)
<1>1. /\ mem' = t /\ disk' = t /\ pc = "enter" /\ pc' = "created" /\ at \in RoleNodes
      /\ mem.progress.stage # "attempt-started"
      /\ mem.progress.stage = "attempt-created" => mem.progress.next = at
  BY DEF CreateAttempt, AtRole, Terminal, RunInv, ControlInv
<1>2. /\ mem \in RunStates /\ disk \in RunStates /\ t \in RunStates /\ Core(mem) /\ Core(t)
      /\ mem.attempts \in Seq(Attempt) /\ N(mem) \in Nat /\ Story(mem) /\ ~Stopped(mem)
      /\ k \in Nat /\ mem.progress \in Progress
  <2>1. /\ mem \in RunStates /\ disk \in RunStates /\ t \in RunStates /\ Core(mem) /\ Core(t)
        /\ Story(mem) /\ ~Stopped(mem)
    BY <1>1 DEF RunInv, RecordInv, Core, StoryInv, ControlInv
  <2>. HIDE DEF t
  <2>2. mem.progress \in Progress /\ mem.attempts \in Seq(Attempt)
    BY <2>1 DEF RunStates
  <2>3. mem.progress.att \in Nat /\ Len(mem.attempts) \in Nat
    BY <2>2 DEF Progress
  <2>. QED
    BY <2>1, <2>2, <2>3 DEF N
<1>3. /\ cursor.stage = "attempt-created" /\ cursor.next = at /\ cursor \in Progress
      /\ new \in Attempt /\ list \in Seq(Attempt)
  <2>1. new \in Attempt
    BY <1>1 DEF Attempt, Results
  <2>2. list \in Seq(Attempt)
    BY <1>2, <2>1
  <2>. HIDE DEF k
  <2>3. cursor.stage = "attempt-created" /\ cursor.next = at /\ cursor \in Progress
    BY <1>1, <1>2, RoleFacts DEF CreatedCursor, Progress, Stages, Correcting
  <2>. QED
    BY <2>1, <2>2, <2>3
<1>. HIDE DEF cursor, list, k
<1>4. /\ s \in RunStates /\ s.attempts = list /\ s.progress = cursor /\ s.log = mem.log
      /\ s.human = mem.human
  BY <1>2, <1>3 DEF RunStates
<1>. HIDE DEF s
<1>5. /\ t.attempts = list /\ t.progress = cursor /\ t.log = mem.log /\ SameDecisions(mem, t)
  <2>1. SameDecisions(mem, s)
    BY <1>4, SameDecisionsReflexive
  <2>2. CASE at \in Reviewers
    BY <1>4, <2>1, <2>2
  <2>3. CASE at \notin Reviewers
    <3>1. /\ Deliver(s, at, k).log = s.log /\ SameDecisions(s, Deliver(s, at, k))
      BY <1>1, <1>2, <1>4, DeliverFacts
    <3>2. /\ Deliver(s, at, k).attempts = s.attempts /\ Deliver(s, at, k).progress = s.progress
      BY <1>1, <1>2, <1>4, DeliverType
    <3>3. SameDecisions(mem, Deliver(s, at, k))
      BY <1>4, <3>1, Zenon DEF SameDecisions
    <3>. QED
      BY <1>4, <2>3, <3>1, <3>2, <3>3
  <2>. QED
    BY <2>2, <2>3
<1>. HIDE DEF t
<1>6. Agree(mem', disk')
  BY <1>1, AgreeSelf
<1>7. BlockInv(disk')
  <2>1. \A i \in 1 .. N(mem) : i \in 1 .. N(t)
           /\ (mem.attempts[i].result = "blocked" => t.attempts[i].result = "blocked")
    BY <1>2, <1>5 DEF N, list
  <2>. QED
    BY <1>1, <1>5, <2>1, BlockOfProcess, BlockSame
<1>8. /\ mem.progress.stage \in OpenStages => disk.progress = mem.progress
      /\ mem.progress.stage \notin OpenStages => disk.progress.stage \notin OpenStages
      /\ SettledAttempts(mem) = SettledAttempts(disk) /\ DecisionOwed(mem) = DecisionOwed(disk)
  BY Known
<1>9. CASE Reusing
  <2>1. mem.progress.stage = "attempt-created" /\ list = mem.attempts
    BY <1>9 DEF Reusing, list
  <2>2. disk.progress = mem.progress
    BY <1>8, <2>1 DEF OpenStages
  <2>3. InFlight' = InFlight
    BY <1>1, <1>3, <1>5, <2>1, <2>2 DEF InFlight
  <2>4. SettledAttempts(t) = SettledAttempts(mem) /\ DecisionOwed(t) = DecisionOwed(mem)
    BY <1>2, <1>5, <2>1, SameView
  <2>5. Shown' = Shown
    BY <1>1, <1>8, <2>3, <2>4 DEF Shown
  <2>. QED
    BY <1>6, <1>7, <2>5 DEF ContractInv
<1>10. CASE ~Reusing
  <2>1. mem.progress.stage \notin OpenStages /\ list = Append(mem.attempts, new)
    BY <1>1, <1>10 DEF Reusing, list, OpenStages
  <2>2. SettledAttempts(disk) = mem.attempts /\ (N(mem) > 0 => Settled(mem))
    BY <1>2, <1>8, <2>1, Visible
  <2>3. InFlight = Contract!Nobody
    BY <1>8, <2>1, NobodyAtWork
  <2>4. InFlight' = [node |-> at, state |-> "created"]
    BY <1>1, <1>3, <1>5 DEF InFlight
  <2>5. SettledAttempts(t) = mem.attempts
    <3>1. /\ Len(t.attempts) = N(mem) + 1 /\ t.attempts[N(mem) + 1] = new
      BY <1>2, <1>3, <1>5, <2>1, AppendProperties DEF N
    <3>2. SubSeq(t.attempts, 1, N(mem)) = mem.attempts
      BY <1>2, <1>3, <1>5, <2>1, AllButNew DEF N
    <3>3. Len(t.attempts) > 0 /\ Len(t.attempts) - 1 = N(mem)
          /\ t.attempts[Len(t.attempts)].result = "open"
      BY <1>2, <3>1
    <3>4. SettledAttempts(t) = SubSeq(t.attempts, 1, Len(t.attempts) - 1)
      BY <3>3, Zenon DEF SettledAttempts
    <3>. QED
      BY <3>2, <3>3, <3>4, Zenon
  <2>6. /\ \A i \in 1 .. Len(mem.log) : mem.log[i].resolved
        /\ Settled(mem) /\ mem.attempts[N(mem)].result = "blocked" => Decided(mem, N(mem))
    BY <1>2, ReadyUnlessStopped DEF Ready
  <2>7. DOMAIN mem.log = 1 .. Len(mem.log)
    BY <1>2 DEF RunStates
  <2>8. DecisionOwed(disk) = FALSE
    <3>1. Unresolved(mem) = {}
      BY <2>6, <2>7 DEF Unresolved
    <3>2. ~DecisionOwed(mem)
      BY <2>2, <2>6, <3>1 DEF DecisionOwed, N
    <3>. QED
      BY <1>8, <3>2 DEF DecisionOwed
  <2>9. DecisionOwed(t) = FALSE
    <3>1. Unresolved(t) = {}
      BY <1>5, <2>6, <2>7 DEF Unresolved
    <3>2. t.attempts[Len(t.attempts)].result = "open"
      BY <1>2, <1>3, <1>5, <2>1
    <3>. QED
      BY <3>1, <3>2 DEF DecisionOwed
  <2>10. at \in (IF mem.attempts = <<>> THEN {"architect"}
                 ELSE LET last == mem.attempts[Len(mem.attempts)]
                      IN Follow[last.node][last.result])
    <3>1. Legal(mem, at)
      BY <1>1 DEF StoryInv, PlaceInv
    <3>2. CASE mem.attempts = <<>>
      BY <3>1, <3>2 DEF Legal, N
    <3>3. CASE mem.attempts # <<>>
      <4>. DEFINE last == mem.attempts[N(mem)]
      <4>1. /\ N(mem) > 0 /\ Settled(mem) /\ last \in Attempt /\ last.result # "open"
            /\ N(mem) \in 1 .. N(mem)
        BY <1>2, <2>2, <3>3, LastElement, EmptySeq DEF N, Settled
      <4>2. last.result # "blocked" => at = NextAfter(mem, N(mem))
        BY <3>1, <4>1 DEF Legal
      <4>3. last.result = "rejected" => last.node \in Reviewers
        BY <1>2, <4>1 DEF Story, HistoryInv, OrderInv
      <4>4. at \in Follow[last.node][last.result]
        BY <1>1, <4>1, <4>2, <4>3, FollowsLegally
      <4>. QED
        BY <3>3, <4>4 DEF N
    <3>. QED
      BY <3>2, <3>3
  <2>11. Contract!Create(at)
    BY <1>1, <2>2, <2>3, <2>4, <2>5, <2>8, <2>9, <2>10 DEF Contract!Create, Contract!Eligible
  <2>. QED
    BY <1>6, <1>7, <2>11 DEF ContractInv
<1>. QED
  BY <1>9, <1>10

\* Calling the role is the contract's start.
LEMMA StartContract ==
    ASSUME RunInv, RunInv', StoryInv, ContractInv, StartAttempt
    PROVE  Contract!Start /\ ContractInv'
<1>. DEFINE cursor == [mem.progress EXCEPT !.stage = "attempt-started"]
            used == mem.used + 1
            t == [mem EXCEPT !.used = used, !.progress = cursor]
<1>1. /\ mem' = t /\ disk' = t /\ pc = "created" /\ pc' = "started"
  BY DEF StartAttempt
<1>2. /\ mem \in RunStates /\ t \in RunStates /\ mem.progress \in Progress
      /\ mem.progress.stage = "attempt-created"
  BY <1>1 DEF RunInv, RecordInv, Core, RunStates, ControlInv
<1>3. cursor.next = mem.progress.next /\ cursor.stage = "attempt-started"
  BY <1>2 DEF Progress
<1>. HIDE DEF cursor, used
<1>4. /\ t.progress = cursor /\ t.attempts = mem.attempts /\ t.log = mem.log
      /\ t.human = mem.human
  BY <1>2 DEF RunStates
<1>. HIDE DEF t
<1>5. /\ disk.progress = mem.progress
      /\ SettledAttempts(mem) = SettledAttempts(disk) /\ DecisionOwed(mem) = DecisionOwed(disk)
  BY <1>2, Known DEF OpenStages
<1>6. SameDecisions(mem, t)
  BY <1>4, SameDecisionsReflexive
<1>7. SettledAttempts(t) = SettledAttempts(mem) /\ DecisionOwed(t) = DecisionOwed(mem)
  BY <1>2, <1>4, <1>6, SameView
<1>8. InFlight = [node |-> mem.progress.next, state |-> "created"]
  BY <1>2, <1>5 DEF InFlight
<1>9. InFlight' = [node |-> mem.progress.next, state |-> "started"]
  BY <1>1, <1>3, <1>4 DEF InFlight
<1>10. Contract!Start
  BY <1>1, <1>5, <1>7, <1>8, <1>9 DEF Contract!Start
<1>11. BlockInv(t)
  <2>1. \A i \in 1 .. N(mem) : i \in 1 .. N(t)
           /\ (mem.attempts[i].result = "blocked" => t.attempts[i].result = "blocked")
    BY <1>4 DEF N
  <2>. QED
    BY <1>6, <2>1, BlockOfProcess, BlockSame
<1>. QED
  BY <1>1, <1>10, <1>11, AgreeSelf DEF ContractInv

\* A death while the role runs loses its outcome; any other is not seen.
LEMMA CrashContract ==
    ASSUME RunInv, RunInv', StoryInv, ContractInv, Crash
    PROVE  (Shown' = Shown \/ Contract!Lose) /\ ContractInv'
<1>1. disk' = disk /\ mem' = disk /\ pc # "idle" /\ pc' = "idle"
  BY DEF Crash
<1>2. ContractInv'
  BY <1>1, AgreeSelf DEF ContractInv
<1>3. CASE disk.progress.stage = "attempt-started"
  <2>1. /\ InFlight = [node |-> disk.progress.next, state |-> "started"]
        /\ InFlight' = [node |-> disk.progress.next, state |-> "unknown"]
    BY <1>1, <1>3 DEF InFlight
  <2>2. Contract!Lose
    BY <1>1, <2>1 DEF Contract!Lose
  <2>. QED
    BY <1>2, <2>2
<1>4. CASE disk.progress.stage # "attempt-started"
  <2>1. InFlight' = InFlight
    BY <1>1, <1>4, SameFlight
  <2>. QED
    BY <1>1, <1>2, <2>1 DEF Shown
<1>. QED
  BY <1>3, <1>4

-----------------------------------------------------------------------------
(* Decisions are owed and taken *)

\* A held correction makes the Run wait.
LEMMA HoldContract ==
    ASSUME RunInv, RunInv', StoryInv, ContractInv, HoldCorrection
    PROVE  Contract!Hold /\ ContractInv'
<1>. DEFINE entry == [trigger |-> "budget-exceeded", next |-> at, att |-> mem.progress.att,
                      resolved |-> FALSE]
            t == LogInterrupt(mem, "budget-exceeded", at, mem.progress.att)
<1>1. /\ mem' = t /\ disk' = t /\ pc' = "finished" /\ at \in RoleNodes
      /\ mem.progress.corr /\ ~mem.intent.pending /\ BudgetExhausted(mem)
      /\ mem.progress.stage # "attempt-started"
  BY DEF HoldCorrection, AtRole, CorrectionHeld, Correcting, Terminal
<1>2. /\ mem \in RunStates /\ t \in RunStates /\ Core(mem) /\ Story(mem) /\ N(mem) \in Nat
      /\ ~Stopped(mem)
  <2>1. /\ mem \in RunStates /\ t \in RunStates /\ Core(mem) /\ Story(mem) /\ ~Stopped(mem)
    BY <1>1 DEF RunInv, RecordInv, Core, StoryInv, ControlInv, HoldCorrection, AtRole
  <2>. QED
    BY <2>1, Visible
<1>3. mem.progress.att \in Nat /\ "budget-exceeded" \in Triggers /\ mem.used \in Nat
  BY <1>2 DEF RunStates, Progress, Triggers
<1>4. /\ t.log = Append(mem.log, entry) /\ t.attempts = mem.attempts
      /\ t.progress = mem.progress /\ t.human = mem.human
  <2>1. t.log = Append(mem.log, entry)
    BY <1>1, <1>2, <1>3, LogInterruptFacts
  <2>2. t.attempts = mem.attempts /\ t.progress = mem.progress /\ t.human = mem.human
    BY <1>1, <1>2, <1>3, LogInterruptType
  <2>. QED
    BY <2>1, <2>2
<1>. HIDE DEF t
<1>5. mem.progress.stage \notin OpenStages
  <2>1. mem.progress.stage = "attempt-created" => mem.used < BudgetLimit
    BY <1>1, <1>2, Zenon DEF Core, BudgetInv
  <2>2. ~(mem.used < BudgetLimit)
    <3>1. mem.used >= BudgetLimit
      BY <1>1 DEF BudgetExhausted
    <3>. QED
      BY <1>3, <3>1, RunConfig
  <2>. QED
    BY <1>1, <2>1, <2>2, Zenon DEF OpenStages
<1>6. /\ \A i \in 1 .. Len(mem.log) : mem.log[i].resolved
      /\ Settled(mem) /\ mem.attempts[N(mem)].result = "blocked" => Decided(mem, N(mem))
      /\ DOMAIN mem.log = 1 .. Len(mem.log) /\ N(mem) > 0 => Settled(mem)
  BY <1>2, <1>5, ReadyUnlessStopped, Visible DEF Ready
<1>7. DecisionOwed(mem) = FALSE
  <2>1. Unresolved(mem) = {}
    BY <1>6 DEF Unresolved
  <2>. QED
    BY <1>6, <2>1 DEF DecisionOwed, N
<1>8. DecisionOwed(t) = TRUE
  <2>1. /\ Len(mem.log) + 1 \in DOMAIN t.log /\ t.log[Len(mem.log) + 1] = entry
    BY <1>2, <1>4 DEF RunStates
  <2>2. Len(mem.log) + 1 \in Unresolved(t)
    BY <2>1 DEF Unresolved
  <2>. QED
    BY <2>2 DEF DecisionOwed
<1>9. SettledAttempts(t) = SettledAttempts(disk) /\ DecisionOwed(disk) = FALSE
      /\ disk.progress.stage \notin OpenStages
  BY <1>4, <1>5, <1>7, Known DEF SettledAttempts
<1>10. InFlight = Contract!Nobody /\ InFlight' = Contract!Nobody
  BY <1>1, <1>4, <1>5, <1>9 DEF InFlight, OpenStages, Contract!Nobody
<1>11. Contract!Hold
  BY <1>1, <1>8, <1>9, <1>10 DEF Contract!Hold
<1>12. BlockInv(t)
  <2>1. SameDecisions(mem, t)
    BY <1>4, SameDecisionsReflexive
  <2>2. \A i \in 1 .. N(mem) : i \in 1 .. N(t)
           /\ (mem.attempts[i].result = "blocked" => t.attempts[i].result = "blocked")
    BY <1>4 DEF N
  <2>. QED
    BY <2>1, <2>2, BlockOfProcess, BlockSame
<1>. QED
  BY <1>1, <1>11, <1>12, AgreeSelf DEF ContractInv

\* Entering the graph with a saved record keeps both in step.
LEMMA LaunchContract ==
    ASSUME NEW s \in RunStates, BlockInv(s), Launch(s)
    PROVE  ContractInv' /\ disk' = s /\ pc = "idle" /\ s.progress.stage # "attempt-started"
<1>1. /\ disk' = s /\ pc = "idle" /\ s.progress.stage # "attempt-started"
      /\ \E t : mem' = [s EXCEPT !.target = t, !.status = "in-progress", !.phase = t]
  BY DEF Launch, Terminal
<1>2. /\ mem'.attempts = s.attempts /\ mem'.log = s.log /\ mem'.human = s.human
      /\ mem'.progress = s.progress
  BY <1>1 DEF RunStates
<1>3. SameDecisions(mem', s)
  BY <1>2, SameDecisionsReflexive
<1>. QED
  BY <1>1, <1>2, <1>3 DEF ContractInv, Agree

\* Going on without a decision, or with one already recorded, is not seen.
LEMMA ResumeFreelyContract ==
    ASSUME RunInv, RunInv', StoryInv, ContractInv, ReplayDecision \/ ResumeAnyway
    PROVE  Shown' = Shown /\ ContractInv'
<1>1. Launch(disk) /\ disk \in RunStates /\ BlockInv(disk)
  BY DEF ReplayDecision, ResumeAnyway, RunInv, RecordInv, Core, ContractInv
<1>2. ContractInv' /\ disk' = disk /\ disk.progress.stage # "attempt-started"
  BY <1>1, LaunchContract
<1>3. InFlight' = InFlight
  BY <1>2, SameFlight
<1>. QED
  BY <1>2, <1>3 DEF Shown

\* A further decision leaves those on blocks as they were, or is one.
LEMMA BlockDecides ==
    ASSUME NEW s \in RunStates, NEW t \in RunStates, BlockInv(s), t.attempts = s.attempts,
           NEW d, DecidesAlso(s, t, d),
           d.kind = "block" => d.on \in 1 .. N(s) /\ s.attempts[d.on].result = "blocked"
    PROVE  BlockInv(t)
<1>1. /\ Len(s.human) \in Nat /\ N(t) = N(s)
  BY DEF RunStates, N
<1>2. \A j \in 1 .. Len(t.human) : j \in 1 .. Len(s.human) \/ j = Len(t.human)
  BY <1>1 DEF DecidesAlso
<1>. SUFFICES ASSUME NEW j \in 1 .. Len(t.human), t.human[j].kind = "block"
              PROVE  t.human[j].on \in 1 .. N(t) /\ t.attempts[t.human[j].on].result = "blocked"
  BY Zenon DEF BlockInv
<1>3. CASE j \in 1 .. Len(s.human)
  BY <1>1, <1>3, Zenon DEF BlockInv, DecidesAlso
<1>4. CASE j = Len(t.human)
  BY <1>1, <1>4, Zenon DEF DecidesAlso
<1>. QED
  BY <1>2, <1>3, <1>4, Zenon

\* Deciding on the interrupt that waits takes the decision that is owed.
LEMMA ResolveInterruptContract ==
    ASSUME RunInv, RunInv', StoryInv, ContractInv, ResolveInterrupt
    PROVE  Contract!Decide /\ ContractInv'
<1>. DEFINE i == Latest(Unresolved(disk))
            d == [kind |-> "interrupt", on |-> i, disp |-> "applied"]
            log == [disk.log EXCEPT ![i].resolved = TRUE]
            s == [disk EXCEPT !.log = log]
            t == Decide(s, d)
<1>1. /\ disk \in RunStates /\ Story(disk) /\ Core(disk) /\ BlockInv(disk)
      /\ disk.log \in Seq(LogEntry) /\ Len(disk.log) \in Nat /\ N(disk) \in Nat
      /\ DOMAIN disk.log = 1 .. Len(disk.log)
  <2>1. /\ disk \in RunStates /\ Story(disk) /\ Core(disk) /\ BlockInv(disk)
    BY DEF RunInv, RecordInv, Core, StoryInv, ContractInv
  <2>2. disk.log \in Seq(LogEntry) /\ disk.attempts \in Seq(Attempt)
    BY <2>1 DEF RunStates
  <2>. QED
    BY <2>1, <2>2 DEF N
<1>2. i \in Unresolved(disk) /\ i \in 1 .. Len(disk.log) /\ ~disk.log[i].resolved
  <2>1. /\ Unresolved(disk) \in SUBSET (1 .. Len(disk.log)) /\ Unresolved(disk) # {}
    BY <1>1 DEF ResolveInterrupt, Unresolved
  <2>2. i \in Unresolved(disk)
    BY <1>1, <2>1, LatestInDomain, Zenon
  <2>. QED
    BY <2>1, <2>2 DEF Unresolved
<1>3. d \in HumanAction /\ d.kind = "interrupt"
  BY <1>2 DEF HumanAction
<1>4. /\ log \in Seq(LogEntry) /\ Len(log) = Len(disk.log) /\ log[i].resolved
      /\ \A j \in 1 .. Len(disk.log) : j # i => log[j] = disk.log[j]
  <2>. DEFINE e == [disk.log[i] EXCEPT !.resolved = TRUE]
  <2>1. disk.log[i] \in LogEntry
    BY <1>1, <1>2, ElementOfSeq
  <2>2. e \in LogEntry /\ e.resolved
    BY <2>1 DEF LogEntry
  <2>3. log = [disk.log EXCEPT ![i] = e]
    OBVIOUS
  <2>. HIDE DEF e, log, i
  <2>. QED
    BY <1>1, <1>2, <2>2, <2>3
<1>5. Launch(t)
  <2>1. [disk EXCEPT !.log[i].resolved = TRUE] = s
    OBVIOUS
  <2>. QED
    BY <2>1 DEF ResolveInterrupt
<1>. HIDE DEF i, d, log
<1>6. /\ s \in RunStates /\ s.log = log /\ s.progress = disk.progress
      /\ s.attempts = disk.attempts /\ s.human = disk.human
  BY <1>1, <1>4 DEF RunStates
<1>. HIDE DEF s
<1>7. /\ t \in RunStates /\ t.attempts = disk.attempts /\ t.log = log
      /\ DecidesAlso(s, t, d) /\ t.progress \in {disk.progress, NoProgress}
  BY <1>3, <1>6, DecideFacts
<1>. HIDE DEF t
<1>8. BlockInv(t)
  <2>1. DecidesAlso(disk, t, d)
    BY <1>6, <1>7 DEF DecidesAlso
  <2>2. d.kind # "block"
    BY <1>3
  <2>. QED
    BY <1>1, <1>7, <2>1, <2>2, BlockDecides
<1>9. ContractInv' /\ disk' = t
  BY <1>5, <1>7, <1>8, LaunchContract
<1>10. /\ i = Len(disk.log) /\ disk.log[i].att = N(disk)
       /\ N(disk) \in 1 .. N(disk) /\ disk.attempts[N(disk)].result \notin {"open", "blocked"}
       /\ \A j \in 1 .. Len(disk.log) : log[j].resolved
  <2>1. LogInv(disk)
    BY <1>1 DEF Story, HistoryInv
  <2>2. /\ i = Len(disk.log) /\ disk.log[i].att = N(disk) /\ disk.log[i].att \in 1 .. N(disk)
        /\ disk.attempts[disk.log[i].att].result \notin {"open", "blocked"}
        /\ \A j \in 1 .. Len(disk.log) : ~disk.log[j].resolved => j = Len(disk.log)
    BY <1>2, <2>1, Zenon DEF LogInv
  <2>. QED
    BY <1>4, <2>2
<1>11. disk.progress.stage \notin OpenStages /\ t.progress.stage \notin OpenStages
  <2>1. disk.progress.stage \notin OpenStages
    BY <1>1, <1>10, Visible
  <2>. QED
    BY <1>7, <2>1 DEF NoProgress, OpenStages
<1>12. DecisionOwed(disk) = TRUE
  BY <1>2 DEF DecisionOwed
<1>13. DecisionOwed(t) = FALSE
  <2>1. Unresolved(t) = {}
    <3>1. DOMAIN t.log = 1 .. Len(disk.log)
      BY <1>1, <1>4, <1>7
    <3>. QED
      BY <1>7, <1>10, <3>1 DEF Unresolved
  <2>. QED
    BY <1>7, <1>10, <2>1 DEF DecisionOwed, N
<1>14. SettledAttempts(t) = SettledAttempts(disk) /\ InFlight' = InFlight
  <2>1. InFlight' = InFlight
    BY <1>9, <1>11, SameFlight
  <2>. QED
    BY <1>7, <2>1 DEF SettledAttempts
<1>. QED
  BY <1>9, <1>12, <1>13, <1>14 DEF Contract!Decide

\* So does deciding on a block, unless it has been decided on already.
LEMMA ResolveBlockContract ==
    ASSUME RunInv, RunInv', StoryInv, ContractInv, ResolveBlock
    PROVE  (Shown' = Shown \/ Contract!Decide) /\ ContractInv'
<1>. DEFINE b == Latest(BlockedAttempts(disk))
            d == [kind |-> "block", on |-> b, disp |-> "applied"]
            t == Decide(disk, d)
<1>1. /\ Story(disk) /\ disk \in RunStates /\ Core(disk) /\ BlockInv(disk)
      /\ N(disk) \in Nat /\ DOMAIN disk.attempts = 1 .. N(disk)
      /\ DOMAIN disk.log = 1 .. Len(disk.log)
      /\ disk.status = "blocked" /\ disk.phase # "recursion_limit_exceeded"
  BY DEF RunInv, RecordInv, Core, StoryInv, RunStates, ResolveBlock, N, ContractInv
<1>2. Settled(disk) /\ disk.attempts[N(disk)].result = "blocked"
  BY <1>1, Zenon DEF Story, StatusInv
<1>3. b = N(disk) /\ b \in Nat /\ b \in 1 .. N(disk)
  <2>1. BlockedAttempts(disk) \in SUBSET Nat /\ N(disk) \in BlockedAttempts(disk)
        /\ \A x \in BlockedAttempts(disk) : x <= N(disk)
    BY <1>1, <1>2 DEF BlockedAttempts, Settled
  <2>. QED
    BY <1>1, <1>2, <2>1, LatestIsGreatest, Zenon DEF BlockedAttempts
<1>4. d \in HumanAction /\ d.kind = "block" /\ d.on = N(disk)
  BY <1>3 DEF HumanAction
<1>5. Launch(t)
  BY DEF ResolveBlock
<1>. HIDE DEF b, d
<1>6. /\ t \in RunStates /\ t.attempts = disk.attempts /\ t.log = disk.log
      /\ DecidesAlso(disk, t, d) /\ t.progress = NoProgress
  BY <1>1, <1>4, DecideFacts
<1>. HIDE DEF t
<1>7. BlockInv(t)
  BY <1>1, <1>2, <1>3, <1>4, <1>6, BlockDecides
<1>8. ContractInv' /\ disk' = t
  BY <1>5, <1>6, <1>7, LaunchContract
<1>9. disk.progress.stage \notin OpenStages /\ t.progress.stage \notin OpenStages
  BY <1>1, <1>2, <1>6, Visible DEF NoProgress, OpenStages
<1>10. DecisionOwed(t) = FALSE
  <2>1. Unresolved(t) = {}
    BY <1>1, <1>6 DEF Story, StatusInv, Unresolved
  <2>2. Decided(t, N(disk))
    <3>1. Len(t.human) \in DOMAIN t.human
      <4>1. Len(disk.human) \in Nat /\ DOMAIN t.human = 1 .. Len(t.human)
        BY <1>1, <1>6 DEF RunStates
      <4>. QED
        BY <1>6, <4>1 DEF DecidesAlso
    <3>. QED
      BY <1>4, <1>6, <3>1, Zenon DEF Decided, DecidesAlso
  <2>. QED
    BY <1>6, <2>1, <2>2 DEF DecisionOwed, N
<1>11. SettledAttempts(t) = SettledAttempts(disk) /\ InFlight' = InFlight
  <2>1. InFlight' = InFlight
    BY <1>8, <1>9, SameFlight
  <2>. QED
    BY <1>6, <2>1 DEF SettledAttempts
<1>12. DecisionOwed(disk) = TRUE \/ DecisionOwed(disk) = FALSE
  BY DEF DecisionOwed
<1>. QED
  BY <1>8, <1>10, <1>11, <1>12 DEF Contract!Decide, Shown

-----------------------------------------------------------------------------
(* Attempts settle *)

\* Record u is about to close the started attempt of s with a pause or without one.
Concluding(s, u) ==
    /\ u \in RunStates /\ u.attempts = s.attempts /\ u.progress = s.progress
    /\ u.human = s.human
    /\ u.log = s.log \/ \E i \in DOMAIN u.log : ~u.log[i].resolved

\* Closing an attempt so is the contract's settling.
LEMMA SettleContract ==
    ASSUME RunInv, StoryInv, ContractInv, pc = "started", NEW u, Concluding(mem, u),
           NEW r \in Results \ {"open"}, NEW c \in BOOLEAN,
           r \in {"failed", "violation", "escalated"} => u.log # mem.log,
           mem' = Finish(u, at, r, c), disk' = mem'
    PROVE  Contract!Settle(r) /\ ContractInv'
<1>. DEFINE k == u.progress.att
            done == [u.attempts EXCEPT ![k].result = r]
            intent == [u.intent EXCEPT !.pending = FALSE]
            cursor == [stage |-> "attempt-completed", att |-> k,
                       next |-> IF c THEN at ELSE Successor(u, at), corr |-> c]
            t == Finish(u, at, r, c)
            q == mem.attempts
            e == [node |-> mem.progress.next, result |-> r]
<1>1. /\ Core(mem) /\ mem.progress.stage = "attempt-started" /\ Story(mem) /\ BlockInv(mem)
      /\ mem \in RunStates
  BY BlockOfProcess DEF RunInv, RecordInv, ControlInv, StoryInv, Core
<1>2. /\ q \in Seq(Attempt) /\ Len(q) > 0 /\ k = Len(q) /\ q[Len(q)].result = "open"
      /\ q[Len(q)].node = mem.progress.next /\ Len(q) \in 1 .. Len(q) /\ Len(q) \in Nat
  BY <1>1, Visible DEF Concluding, OpenStages, N
<1>3. q[Len(q)] \in Attempt
  BY <1>2, ElementOfSeq
<1>4. e \in Attempt /\ e.result = r /\ [q[Len(q)] EXCEPT !.result = r] = e
  BY <1>2, <1>3 DEF Attempt
<1>5. done = [q EXCEPT ![Len(q)] = e]
  <2>1. u.attempts = q /\ k = Len(q)
    BY <1>2 DEF Concluding
  <2>. HIDE DEF k, e, q
  <2>2. done = [q EXCEPT ![Len(q)] = [q[Len(q)] EXCEPT !.result = r]]
    BY <2>1
  <2>. QED
    BY <1>4, <2>2
<1>. HIDE DEF e, q, done, k, cursor, intent
<1>6. /\ done \in Seq(Attempt) /\ Len(done) = Len(q) /\ done[Len(q)] = e
      /\ \A i \in 1 .. Len(q) : i # Len(q) => done[i] = q[i]
  BY <1>2, <1>4, <1>5, ExceptSeq
<1>7. t = [u EXCEPT !.attempts = done, !.progress = cursor, !.intent = intent]
  BY DEF Finish, done, cursor, intent, k
<1>8. /\ t.attempts = done /\ t.progress = cursor /\ t.log = u.log /\ t.human = u.human
      /\ u \in RunStates
  BY <1>7 DEF RunStates, Concluding
<1>. HIDE DEF t
<1>9. disk' = t /\ mem' = t /\ t.progress.stage = "attempt-completed"
  BY <1>8 DEF t, cursor
<1>10. SameDecisions(mem, t) /\ t.human = mem.human
  BY <1>8, SameDecisionsReflexive DEF Concluding
<1>11. BlockInv(t)
  <2>1. \A i \in 1 .. N(mem) : i \in 1 .. N(t)
           /\ (mem.attempts[i].result = "blocked" => t.attempts[i].result = "blocked")
    BY <1>2, <1>6, <1>8, Zenon DEF N, q
  <2>. QED
    BY <1>1, <1>10, <2>1, BlockSame
<1>12. ContractInv'
  BY <1>9, <1>11, AgreeSelf DEF ContractInv
<1>13. /\ disk.progress = mem.progress
       /\ SettledAttempts(mem) = SettledAttempts(disk)
  BY <1>1, Known DEF OpenStages
<1>14. /\ InFlight = [node |-> mem.progress.next, state |-> "started"]
       /\ InFlight' = Contract!Nobody
  BY <1>1, <1>9, <1>13 DEF InFlight, Contract!Nobody
<1>15. SettledAttempts(disk) = SubSeq(q, 1, Len(q) - 1)
  BY <1>2, <1>13, Zenon DEF SettledAttempts, q
<1>16. SettledAttempts(t) = Append(SettledAttempts(disk), e)
  <2>1. done = Append(SubSeq(q, 1, Len(q) - 1), e)
    BY <1>2, <1>4, <1>6, LastClosed
  <2>2. done[Len(done)].result # "open"
    BY <1>4, <1>6
  <2>3. SettledAttempts(t) = done
    BY <1>8, <2>2, Zenon DEF SettledAttempts
  <2>. QED
    BY <1>15, <2>1, <2>3
<1>17. DecisionOwed(t) \in BOOLEAN
  BY DEF DecisionOwed
<1>18. r \in {"failed", "violation", "escalated", "blocked"} => DecisionOwed(t) = TRUE
  <2>1. CASE u.log # mem.log
    <3>1. Unresolved(t) # {}
      BY <1>8, <2>1 DEF Concluding, Unresolved
    <3>. QED
      BY <3>1 DEF DecisionOwed
  <2>2. CASE u.log = mem.log /\ r = "blocked"
    <3>1. /\ \A i \in 1 .. Len(mem.log) : mem.log[i].att # Len(q)
          /\ \A j \in 1 .. Len(mem.human) : mem.human[j].kind = "interrupt" =>
                mem.human[j].on \in 1 .. Len(mem.log)
      <4>1. LogInv(mem) /\ DecisionInv(mem)
        BY <1>1 DEF Story, HistoryInv
      <4>2. \A i \in 1 .. Len(mem.log) : mem.log[i].att # N(mem)
        BY <1>1, <1>2, <4>1, OpenUnpaused DEF q, N
      <4>. QED
        BY <4>1, <4>2, Zenon DEF DecisionInv, q, N
    <3>2. \A j \in 1 .. Len(mem.human) : mem.human[j].kind = "block" => mem.human[j].on # Len(q)
      BY <1>1, <1>2 DEF BlockInv, q
    <3>3. DOMAIN t.human = 1 .. Len(mem.human)
      BY <1>1, <1>10 DEF RunStates
    <3>4. ~Decided(t, Len(q))
      BY <1>8, <1>10, <2>2, <3>1, <3>2, <3>3, Zenon DEF Decided
    <3>5. Len(t.attempts) = Len(q) /\ t.attempts[Len(q)].result = "blocked"
      BY <1>4, <1>6, <1>8, <2>2
    <3>. QED
      BY <1>2, <3>4, <3>5 DEF DecisionOwed
  <2>. QED
    BY <2>1, <2>2
<1>19. Contract!Settle(r)
  BY <1>9, <1>14, <1>16, <1>17, <1>18 DEF Contract!Settle, e
<1>. QED
  BY <1>12, <1>19

\* A record that logs an interrupt closes its attempt with a pause.
LEMMA InterruptConcludes ==
    ASSUME NEW s, NEW v, Concluding(s, v), v.log = s.log, s.progress.att \in Nat,
           NEW g \in Triggers, NEW m \in RoleNodes
    PROVE  LET u == LogInterrupt(v, g, m, v.progress.att) IN
           Concluding(s, u) /\ u.log # s.log
<1>. DEFINE u == LogInterrupt(v, g, m, v.progress.att)
            entry == [trigger |-> g, next |-> m, att |-> v.progress.att, resolved |-> FALSE]
<1>1. v \in RunStates /\ v.progress.att \in Nat /\ v.log \in Seq(LogEntry)
  BY DEF Concluding, RunStates
<1>2. /\ u \in RunStates /\ u.attempts = v.attempts /\ u.progress = v.progress
      /\ u.human = v.human /\ u.log = Append(v.log, entry)
  <2>. DEFINE k == v.progress.att
  <2>1. k \in Nat
    BY <1>1
  <2>. HIDE DEF k
  <2>2. LET t == LogInterrupt(v, g, m, k) IN
        /\ t \in RunStates /\ t.attempts = v.attempts /\ t.progress = v.progress
        /\ t.human = v.human
    BY <1>1, <2>1, LogInterruptType
  <2>3. LogInterrupt(v, g, m, k).log =
           Append(v.log, [trigger |-> g, next |-> m, att |-> k, resolved |-> FALSE])
    BY <1>1, <2>1, LogInterruptFacts
  <2>. QED
    BY <2>2, <2>3 DEF k
<1>. HIDE DEF u
<1>3. /\ Len(v.log) + 1 \in DOMAIN u.log /\ u.log[Len(v.log) + 1] = entry /\ u.log # v.log
  BY <1>1, <1>2
<1>4. \E i \in DOMAIN u.log : ~u.log[i].resolved
  BY <1>3
<1>5. Concluding(s, u) /\ u.log # s.log
  BY <1>2, <1>3, <1>4 DEF Concluding
<1>. QED
  BY <1>5 DEF u

\* Handing off closes the attempt, with a pause if a trigger fires.
LEMMA HandOffContract ==
    ASSUME RunInv, StoryInv, ContractInv, pc = "started", NEW v, Concluding(mem, v),
           v.log = mem.log, NEW r \in {"accepted", "rejected"}, NEW p, NEW m \in RoleNodes,
           mem' = HandOff(v, at, r, p, m), disk' = mem'
    PROVE  Contract!Settle(r) /\ ContractInv'
<1>. DEFINE g == TriggerOn(v, p)
            u == IF g = "none" THEN v ELSE LogInterrupt(v, g, m, v.progress.att)
<1>1. mem' = Finish(u, at, r, FALSE)
  BY DEF HandOff
<1>2. mem.progress.att \in Nat
  BY DEF RunInv, RecordInv, Core, RunStates, Progress
<1>3. Concluding(mem, u)
  <2>1. CASE g = "none"
    BY <2>1
  <2>2. CASE g # "none"
    <3>1. g \in Triggers
      BY <2>2, TriggerType
    <3>. HIDE DEF g
    <3>2. Concluding(mem, LogInterrupt(v, g, m, v.progress.att))
      BY <1>2, <3>1, InterruptConcludes
    <3>. QED
      BY <2>2, <3>2
  <2>. QED
    BY <2>1, <2>2
<1>. HIDE DEF u
<1>4. r \in Results \ {"open"} /\ FALSE \in BOOLEAN /\ r \notin {"failed", "violation", "escalated"}
  BY DEF Results
<1>. QED
  BY <1>1, <1>3, <1>4, SettleContract, Zenon

\* So does pausing on a failure.
LEMMA FailureContract ==
    ASSUME RunInv, StoryInv, ContractInv, pc = "started", NEW r \in {"failed", "violation"},
           mem' = PauseOnFailure(mem, at, r), disk' = mem'
    PROVE  Contract!Settle(r) /\ ContractInv'
<1>. DEFINE u == LogInterrupt(mem, "failure", at, mem.progress.att)
<1>1. /\ mem \in RunStates /\ mem.progress.att \in Nat /\ at \in RoleNodes
      /\ "failure" \in Triggers
  BY DEF RunInv, RecordInv, Core, RunStates, Progress, ControlInv, Triggers
<1>2. Concluding(mem, mem)
  BY <1>1 DEF Concluding
<1>3. Concluding(mem, u) /\ u.log # mem.log
  BY <1>1, <1>2, InterruptConcludes
<1>4. mem' = Finish(u, at, r, FALSE)
  BY DEF PauseOnFailure
<1>. HIDE DEF u
<1>5. r \in Results \ {"open"} /\ FALSE \in BOOLEAN
  BY DEF Results
<1>. QED
  BY <1>3, <1>4, <1>5, SettleContract, Zenon

\* Every outcome of a role settles its attempt.
LEMMA RoleContract ==
    ASSUME RunInv, StoryInv, ContractInv, Role
    PROVE  (\E r \in Results \ {"open"} : Contract!Settle(r)) /\ ContractInv'
<1>1. /\ pc = "started" /\ mem \in RunStates /\ at \in RoleNodes /\ mem.progress.att \in Nat
      /\ RoleNodes \subseteq Phases /\ disk' = mem'
  <2>1. pc = "started" /\ disk' = mem'
    <3>1. ASSUME NEW t, NEW l, Conclude(t, l) PROVE disk' = mem'
      BY <3>1 DEF Conclude
    <3>2. CASE RoleSucceeds \/ ReviewAccepts
      BY <3>1, <3>2, Zenon DEF RoleSucceeds, ReviewAccepts
    <3>3. CASE \E cause \in Causes : ReviewRejects(cause)
      BY <3>1, <3>3, Zenon DEF ReviewRejects
    <3>4. CASE RoleFails \/ DriverBlocks \/ DriverEscalates
      BY <3>1, <3>4, Zenon DEF RoleFails, DriverBlocks, DriverEscalates
    <3>5. CASE RoleViolatesContract
      BY <3>1, <3>5, Zenon DEF RoleViolatesContract
    <3>. QED
      BY <3>2, <3>3, <3>4, <3>5 DEF Role
  <2>. QED
    BY <2>1, RoleFacts DEF RunInv, RecordInv, Core, RunStates, Progress, ControlInv
<1>2. Concluding(mem, mem)
  BY <1>1 DEF Concluding
<1>3. {"accepted", "rejected", "failed", "corrected", "violation", "blocked", "escalated"}
         \subseteq Results \ {"open"}
  BY DEF Results
<1>4. CASE RoleSucceeds
  <2>. DEFINE p == HandOffPhase(at)
              v == [mem EXCEPT !.status = "in-progress", !.phase = p]
  <2>1. mem' = HandOff(v, at, "accepted", p, NextOnSuccess[at]) /\ at \notin Reviewers
    BY <1>4 DEF RoleSucceeds, Conclude
  <2>2. p \in Phases /\ "in-progress" \in Statuses /\ NextOnSuccess[at] \in RoleNodes
    BY <1>1, <2>1 DEF HandOffPhase, Phases, Statuses, NextOnSuccess, RoleNodes, Reviewers, Drivers
  <2>. HIDE DEF p
  <2>3. Concluding(mem, v) /\ v.log = mem.log
    BY <1>1, <2>2 DEF Concluding, RunStates
  <2>. HIDE DEF v
  <2>. QED
    BY <1>1, <1>3, <2>1, <2>2, <2>3, HandOffContract
<1>5. CASE ReviewAccepts
  <2>. DEFINE p == AcceptedNext[at]
              st == IF p = "done" THEN "done" ELSE "in-progress"
              v == [mem EXCEPT !.status = st, !.phase = p]
  <2>1. mem' = HandOff(v, at, "accepted", p, RejectedNext[at]) /\ at \in Reviewers
    BY <1>5 DEF ReviewAccepts, Conclude
  <2>2. p \in Phases /\ st \in Statuses /\ RejectedNext[at] \in RoleNodes
    BY <2>1 DEF AcceptedNext, Phases, Nodes, Statuses, RejectedNext, RoleNodes, Reviewers, Drivers
  <2>. HIDE DEF p, st
  <2>3. Concluding(mem, v) /\ v.log = mem.log
    BY <1>1, <2>2 DEF Concluding, RunStates
  <2>. HIDE DEF v
  <2>. QED
    BY <1>1, <1>3, <2>1, <2>2, <2>3, HandOffContract
<1>6. CASE \E cause \in Causes : ReviewRejects(cause)
  <2>. PICK cause \in Causes : ReviewRejects(cause)
    BY <1>6
  <2>. DEFINE p == RetryPhase(at)
              rej == Append(mem.rej, [at |-> at, cause |-> cause])
              v == [mem EXCEPT !.status = "in-progress", !.phase = p, !.rej = rej]
  <2>1. mem' = HandOff(v, at, "rejected", p, RejectedNext[at]) /\ at \in Reviewers
    BY DEF ReviewRejects, Conclude
  <2>2. p \in Phases /\ "in-progress" \in Statuses /\ RejectedNext[at] \in RoleNodes
    BY <2>1 DEF RetryPhase, Phases, Nodes, Statuses, RejectedNext, RoleNodes, Reviewers, Drivers
  <2>3. rej \in Seq(Rejection)
    BY <1>1, <2>1 DEF RunStates, Rejection
  <2>. HIDE DEF p, rej
  <2>4. Concluding(mem, v) /\ v.log = mem.log
    BY <1>1, <2>2, <2>3 DEF Concluding, RunStates
  <2>. HIDE DEF v
  <2>. QED
    BY <1>1, <1>3, <2>1, <2>2, <2>4, HandOffContract
<1>7. CASE RoleFails
  <2>1. mem' = PauseOnFailure(mem, at, "failed")
    BY <1>7 DEF RoleFails, Conclude
  <2>. QED
    BY <1>1, <1>3, <2>1, FailureContract
<1>8. CASE RoleViolatesContract
  <2>1. CASE Correcting
    <3>1. mem' = PauseOnFailure(mem, at, "violation")
      BY <1>8, <2>1 DEF RoleViolatesContract, Conclude
    <3>. QED
      BY <1>1, <1>3, <3>1, FailureContract
  <2>2. CASE ~Correcting
    <3>. DEFINE u == [mem EXCEPT !.phase = at, !.target = at]
    <3>1. mem' = Finish(u, at, "corrected", TRUE)
      BY <1>8, <2>2 DEF RoleViolatesContract, Conclude
    <3>2. Concluding(mem, u)
      BY <1>1 DEF Concluding, RunStates
    <3>. HIDE DEF u
    <3>3. "corrected" \in Results \ {"open"} /\ TRUE \in BOOLEAN
          /\ "corrected" \notin {"failed", "violation", "escalated"}
      BY <1>3
    <3>4. Contract!Settle("corrected") /\ ContractInv'
      BY <1>1, <3>1, <3>2, <3>3, SettleContract
    <3>. QED
      BY <1>3, <3>4
  <2>. QED
    BY <2>1, <2>2
<1>9. CASE DriverBlocks
  <2>. DEFINE u == [mem EXCEPT !.status = "blocked", !.phase = at, !.target = at]
  <2>1. mem' = Finish(u, at, "blocked", FALSE)
    BY <1>9 DEF DriverBlocks, Conclude
  <2>2. Concluding(mem, u)
    BY <1>1 DEF Concluding, RunStates, Statuses
  <2>. HIDE DEF u
  <2>3. "blocked" \in Results \ {"open"} /\ FALSE \in BOOLEAN
        /\ "blocked" \notin {"failed", "violation", "escalated"}
    BY <1>3
  <2>4. Contract!Settle("blocked") /\ ContractInv'
    BY <1>1, <2>1, <2>2, <2>3, SettleContract
  <2>. QED
    BY <1>3, <2>4
<1>10. CASE DriverEscalates
  <2>. DEFINE l == LogInterrupt(mem, "role-escalation", at, mem.progress.att)
              u == [l EXCEPT !.target = at]
  <2>1. mem' = Finish(u, at, "escalated", FALSE)
    BY <1>10 DEF DriverEscalates, Conclude
  <2>2. "role-escalation" \in Triggers
    BY DEF Triggers
  <2>3. Concluding(mem, l) /\ l.log # mem.log
    BY <1>1, <1>2, <2>2, InterruptConcludes
  <2>. HIDE DEF l
  <2>4. Concluding(mem, u) /\ u.log # mem.log
    BY <1>1, <2>3 DEF Concluding, RunStates
  <2>. HIDE DEF u
  <2>5. "escalated" \in Results \ {"open"} /\ FALSE \in BOOLEAN
    BY <1>3
  <2>6. Contract!Settle("escalated") /\ ContractInv'
    BY <1>1, <2>1, <2>4, <2>5, SettleContract
  <2>. QED
    BY <1>3, <2>6
<1>. QED
  BY <1>4, <1>5, <1>6, <1>7, <1>8, <1>9, <1>10 DEF Role

-----------------------------------------------------------------------------
(* The theorem *)

\* A Run starts as its contract does.
LEMMA ContractInit == Init => Contract!Init /\ ContractInv
<1>. SUFFICES ASSUME Init PROVE Contract!Init /\ ContractInv
  OBVIOUS
<1>1. /\ mem.attempts = <<>> /\ disk.attempts = <<>> /\ mem.log = <<>> /\ disk.log = <<>>
      /\ mem.human = <<>> /\ disk.human = <<>>
      /\ disk.progress.stage = "interrupted-before-attempt" /\ mem.progress.stage = "none"
  BY DEF Init, FreshRun, FirstCursor, NoProgress
<1>2. ContractInv
  BY <1>1 DEF ContractInv, Agree, SameDecisions, BlockInv, BeforeStages
<1>3. SettledAttempts(disk) = <<>> /\ DecisionOwed(disk) = FALSE
  BY <1>1 DEF SettledAttempts, DecisionOwed, Unresolved
<1>4. InFlight = Contract!Nobody
  BY <1>1 DEF InFlight, Contract!Nobody
<1>. QED
  BY <1>2, <1>3, <1>4 DEF Contract!Init

\* Every step of a Run is a step of its contract, or none.
LEMMA ContractNext ==
    RunInv /\ StoryInv /\ ContractInv /\ [Next]_vars
        => ContractInv' /\ [Contract!Next]_(Contract!vars)
<1>. SUFFICES ASSUME RunInv, StoryInv, ContractInv, [Next]_vars
              PROVE  ContractInv' /\ (Shown' = Shown \/ Contract!Next)
  BY DEF Contract!vars, Shown
<1>1. RunInv'
  BY NextInv
<1>2. CASE Role
  BY <1>2, RoleContract DEF Contract!Next
<1>3. CASE CreateAttempt
  <2>1. at \in RoleNodes
    BY <1>3 DEF CreateAttempt, AtRole
  <2>. QED
    BY <1>1, <1>3, <2>1, CreateContract DEF Contract!Next
<1>4. CASE StartAttempt
  BY <1>1, <1>4, StartContract DEF Contract!Next
<1>5. CASE HoldCorrection
  BY <1>1, <1>5, HoldContract DEF Contract!Next
<1>6. CASE GateCheckpoint \/ GateRejects \/ CheckpointOutcome \/ StopNode \/ FinalSave
  BY <1>1, <1>6, SaveContract
<1>7. CASE Route \/ RecursionLimit
  BY <1>1, <1>7, RouteContract
<1>8. CASE Crash
  BY <1>1, <1>8, CrashContract DEF Contract!Next
<1>9. CASE ReplayDecision \/ ResumeAnyway
  BY <1>1, <1>9, ResumeFreelyContract
<1>10. CASE ResolveInterrupt
  BY <1>1, <1>10, ResolveInterruptContract DEF Contract!Next
<1>11. CASE ResolveBlock
  BY <1>1, <1>11, ResolveBlockContract DEF Contract!Next
<1>12. CASE \E n \in Addressees : QueueIntervention(n)
  BY <1>1, <1>12, QueueContract
<1>13. CASE UNCHANGED vars
  BY <1>13 DEF vars, Shown, InFlight, ContractInv
<1>. QED
  BY <1>2, <1>3, <1>4, <1>5, <1>6, <1>7, <1>8, <1>9, <1>10, <1>11, <1>12, <1>13
     DEF Next, Process, Resume

\* The Run implements its contract: seen from its saved state, attempts run one at a time
\* along the edges of the graph, each starts at most once, a lost outcome ends the Run,
\* and nothing is attempted while a decision is owed, whatever crashes and resumes intervene.
THEOREM ContractKept == Spec => KeepsContract
<1>1. Init => Contract!Init /\ ContractInv
  BY ContractInit
<1>2. RunInv /\ StoryInv /\ ContractInv /\ [Next]_vars
         => ContractInv' /\ [Contract!Next]_(Contract!vars)
  BY ContractNext
<1>. QED
  BY <1>1, <1>2, Invariance, StoryInvariance, PTL DEF Spec, KeepsContract, Contract!Spec

-----------------------------------------------------------------------------
(* The last level: its inductive invariant *)

\* The last level of the graph.
LastLevel == {"refactorer", "reviewer_refactor"}

AcceptedGreen       == [node |-> "reviewer_green", result |-> "accepted"]
AcceptedRefactoring == [node |-> "refactorer", result |-> "accepted"]
AcceptedRefactor    == [node |-> "reviewer_refactor", result |-> "accepted"]

\* A GREEN review was accepted before attempt k.
GreenBefore(s, k) == \E i \in 1 .. N(s) : i < k /\ s.attempts[i] = AcceptedGreen

\* A refactoring was accepted before attempt k, and only reviewed since.
RefactoredBefore(s, k) ==
    \E j \in 1 .. N(s) :
       /\ j < k /\ s.attempts[j] = AcceptedRefactoring
       /\ \A i \in 1 .. N(s) : j < i /\ i < k => s.attempts[i].node = "reviewer_refactor"

\* The last level is entered through an accepted GREEN review, and its review
\* through an accepted refactoring.
EnteredInv(s) ==
    \A k \in 1 .. N(s) :
        /\ s.attempts[k].node \in LastLevel => GreenBefore(s, k)
        /\ s.attempts[k].node = "reviewer_refactor" => RefactoredBefore(s, k)

\* And it is never left: a rejection there is made at an attempt there.
LevelInv(s) ==
    /\ \A k \in 1 .. N(s) : s.attempts[k].node \in LastLevel => s.attempts[N(s)].node \in LastLevel
    /\ \A i \in 1 .. Len(s.rej) : s.rej[i].at = "reviewer_refactor" =>
          N(s) > 0 /\ s.attempts[N(s)].node \in LastLevel

\* The newest attempt was blocked.
Blocked(s) == N(s) > 0 /\ s.attempts[N(s)].result = "blocked"

\* Neither the phase, the target nor the cursor names the last level or DONE.
Outside(s) ==
    /\ {s.phase, s.target} \cap (LastLevel \cup {"done"}) = {}
    /\ s.progress.stage = "none" \/ s.progress.next \in {"blocked", "awaiting_human"}

\* Only Drivers block, and nothing a resume could take for the way on after a block
\* leads to the last level: a block is followed by any node, so no edge would tell.
WayInv(s) ==
    /\ \A k \in 1 .. N(s) : s.attempts[k].result = "blocked" => s.attempts[k].node \in Drivers
    /\ Blocked(s) => Outside(s)

\* The newest attempt is an accepted review of a refactoring.
Reviewed(s) == N(s) > 0 /\ s.attempts[N(s)] = AcceptedRefactor

\* What a record says of its reviews.
Review(s) ==
    EnteredInv(s) /\ LevelInv(s) /\ WayInv(s) /\ (s.status = "done" => Reviewed(s))

\* Where the process is, in terms of the last level.
PassageInv ==
    /\ pc = "enter" /\ at \in LastLevel \cup {"done"} => ~Blocked(mem)
    /\ pc = "enter" /\ at = "done" => Settled(mem)
    /\ pc = "enter" /\ at \in RoleNodes => mem.status # "done"
    /\ pc \in {"created", "started"} => mem.status # "done"
    /\ pc \in {"finished", "routed"} /\ mem.status = "done" =>
          at = "reviewer_refactor" /\ mem.phase = "done"
    /\ pc \in {"finished", "routed"} /\ Blocked(mem) => mem.status = "blocked"

ReviewInv == Review(disk) /\ Review(mem) /\ PassageInv

-----------------------------------------------------------------------------
(* The last level: what a record says of its reviews *)

\* A record of the same attempts and rejections says the same of them.
LEMMA ReviewSame ==
    ASSUME NEW s, NEW t, Review(s), t.attempts = s.attempts, t.rej = s.rej,
           Blocked(s) => Outside(t), t.status = "done" => Reviewed(s)
    PROVE  Review(t) /\ (Blocked(t) <=> Blocked(s))
<1>1. N(t) = N(s)
  BY DEF N
<1>2. /\ \A k : GreenBefore(t, k) <=> GreenBefore(s, k)
      /\ \A k : RefactoredBefore(t, k) <=> RefactoredBefore(s, k)
  BY <1>1, Zenon DEF GreenBefore, RefactoredBefore
<1>3. EnteredInv(t)
  BY <1>1, <1>2, Zenon DEF EnteredInv, Review
<1>4. LevelInv(t)
  BY <1>1, Zenon DEF LevelInv, Review
<1>5. (Blocked(t) <=> Blocked(s)) /\ (Reviewed(t) <=> Reviewed(s))
  BY <1>1 DEF Blocked, Reviewed
<1>6. WayInv(t)
  BY <1>1, <1>5, Zenon DEF WayInv, Review
<1>. QED
  BY <1>3, <1>4, <1>5, <1>6 DEF Review

\* Attempts are made at roles.
LEMMA AttemptNode ==
    ASSUME NEW s, s.attempts \in Seq(Attempt), NEW k \in 1 .. N(s)
    PROVE  s.attempts[k].node \in RoleNodes
<1>1. s.attempts[k] \in Attempt
  BY ElementOfSeq DEF N
<1>. QED
  BY <1>1 DEF Attempt

\* After a block nothing leads a resume to the last level.
LEMMA InferOutside ==
    ASSUME NEW s, RecordInv(s), Story(s), Review(s), Blocked(s)
    PROVE  InferResumeTarget(s) \notin LastLevel \cup {"done"}
<1>1. /\ s \in RunStates /\ N(s) \in Nat /\ N(s) \in 1 .. N(s) /\ Outside(s)
      /\ s.attempts \in Seq(Attempt) /\ s.log \in Seq(LogEntry) /\ s.rej \in Seq(Rejection)
      /\ s.attempts[N(s)].node \in Drivers
  <2>1. s \in RunStates /\ N(s) \in Nat /\ N(s) \in 1 .. N(s) /\ Outside(s)
        /\ s.attempts \in Seq(Attempt) /\ s.log \in Seq(LogEntry) /\ s.rej \in Seq(Rejection)
    BY DEF RecordInv, Core, RunStates, N, Blocked, Review, WayInv
  <2>2. s.attempts[N(s)].node \in Drivers
    BY <2>1, Zenon DEF Review, WayInv, Blocked
  <2>. QED
    BY <2>1, <2>2
<1>2. s.attempts[N(s)].node \notin LastLevel
  BY <1>1 DEF Drivers, LastLevel
<1>3. \A k \in 1 .. N(s) : s.attempts[k].node \in RoleNodes /\ s.attempts[k].node \notin LastLevel
  <2>1. \A k \in 1 .. N(s) : s.attempts[k].node \in RoleNodes
    BY <1>1, AttemptNode
  <2>2. \A k \in 1 .. N(s) : s.attempts[k].node \notin LastLevel
    BY <1>2, Zenon DEF Review, LevelInv
  <2>. QED
    BY <2>1, <2>2
<1>4. ASSUME s.log # <<>> PROVE s.log[Len(s.log)].next \notin LastLevel \cup {"done"}
  <2>. DEFINE e == s.log[Len(s.log)]
  <2>1. Len(s.log) \in 1 .. Len(s.log)
    BY <1>1, <1>4, EmptySeq
  <2>2. /\ e.att \in 1 .. N(s) /\ s.attempts[e.att].result # "blocked"
        /\ e.next = NextAfter(s, e.att)
    BY <2>1, Zenon DEF Story, HistoryInv, LogInv
  <2>. HIDE DEF e
  <2>3. e.att # N(s)
    BY <2>2 DEF Blocked
  <2>4. e.att < N(s) /\ e.att + 1 \in 1 .. N(s)
    BY <1>1, <2>2, <2>3
  <2>5. s.attempts[e.att + 1].node = e.next
    BY <2>2, <2>4, Zenon DEF Story, HistoryInv, OrderInv
  <2>6. e.next \in RoleNodes /\ e.next \notin LastLevel
    BY <1>3, <2>4, <2>5
  <2>. QED
    BY <2>6, RoleFacts DEF e
<1>5. ASSUME s.rej # <<>> PROVE RejectedNext[s.rej[Len(s.rej)].at] \notin LastLevel \cup {"done"}
  <2>1. Len(s.rej) \in 1 .. Len(s.rej) /\ s.rej[Len(s.rej)] \in Rejection
    BY <1>1, <1>5, EmptySeq, LastElement
  <2>2. s.rej[Len(s.rej)].at # "reviewer_refactor"
    BY <1>2, <2>1, Zenon DEF Review, LevelInv
  <2>. QED
    BY <2>1, <2>2 DEF Rejection, RejectedNext, Reviewers, LastLevel
<1>6. /\ s.phase \notin LastLevel \cup {"done"} /\ s.target \notin LastLevel \cup {"done"}
      /\ s.progress.stage # "none" => s.progress.next \in {"blocked", "awaiting_human"}
  BY <1>1 DEF Outside
<1>. QED
  BY <1>4, <1>5, <1>6 DEF InferResumeTarget

\* A resume ends a Run at once only when its newest attempt has an outcome.
LEMMA InferDone ==
    ASSUME NEW s, RecordInv(s), Story(s), InferResumeTarget(s) = "done"
    PROVE  Settled(s)
<1>1. s \in RunStates /\ N(s) \in Nat /\ s.attempts \in Seq(Attempt) /\ CursorInv(s)
  BY DEF RecordInv, Core, RunStates, N
<1>2. N(s) # 0
  BY InferLegal
<1>3. N(s) \in 1 .. N(s) /\ N(s) > 0
  BY <1>1, <1>2
<1>4. ASSUME s.attempts[N(s)].result = "open" PROVE FALSE
  <2>1. s.progress.stage \in OpenStages /\ s.attempts[N(s)].node = s.progress.next
    BY <1>1, <1>3, <1>4 DEF CursorInv, N
  <2>2. s.progress.next \in RoleNodes
    BY <1>1, <1>3, <2>1, AttemptNode
  <2>3. InferResumeTarget(s) = s.progress.next
    BY <2>1, <2>2, RoleFacts DEF InferResumeTarget, OpenStages
  <2>. QED
    BY <2>2, <2>3, RoleFacts
<1>. QED
  BY <1>3, <1>4 DEF Settled

-----------------------------------------------------------------------------
(* The last level: the steps of the system *)

\* The Run starts with nothing to review.
LEMMA ReviewInit == Init => ReviewInv
<1>. SUFFICES ASSUME Init PROVE ReviewInv
  OBVIOUS
<1>1. ASSUME NEW s \in {disk, mem}
      PROVE  s.attempts = <<>> /\ s.rej = <<>> /\ s.status = "not-started"
  BY DEF Init, FreshRun
<1>2. ASSUME NEW s \in {disk, mem} PROVE N(s) = 0 /\ Len(s.rej) = 0
  BY <1>1 DEF N
<1>3. ASSUME NEW s \in {disk, mem} PROVE Review(s)
  BY <1>1, <1>2 DEF Review, EnteredInv, LevelInv, WayInv, Blocked
<1>4. PassageInv
  BY <1>1, <1>2 DEF PassageInv, Init, Blocked, LastLevel
<1>. QED
  BY <1>3, <1>4 DEF ReviewInv

\* Saving, dying, and returning from the graph review nothing.
LEMMA SaveReview ==
    ASSUME ReviewInv, GateCheckpoint \/ GateRejects \/ Crash \/ FinalSave
    PROVE  ReviewInv'
<1>1. (disk' = mem \/ disk' = disk) /\ (mem' = mem \/ mem' = disk)
  BY DEF GateCheckpoint, GateRejects, Crash, FinalSave
<1>2. PassageInv'
  <2>1. CASE GateCheckpoint
    BY <2>1 DEF GateCheckpoint, ReviewInv, PassageInv
  <2>2. CASE GateRejects \/ Crash \/ FinalSave
    BY <2>2 DEF GateRejects, Crash, FinalSave, PassageInv
  <2>. QED
    BY <2>1, <2>2
<1>. QED
  BY <1>1, <1>2 DEF ReviewInv

\* The cursor of an open attempt is in the newest attempt, which is not blocked.
LEMMA OpenUnblocked ==
    ASSUME NEW s, Core(s), s.progress.stage \in OpenStages
    PROVE  ~Blocked(s)
BY DEF Core, CursorInv, Blocked, N, OpenStages

\* A correction follows no block.
LEMMA CorrectingUnblocked ==
    ASSUME NEW s, Story(s), s.progress.corr PROVE ~Blocked(s)
<1>. SUFFICES ASSUME Blocked(s) PROVE FALSE
  OBVIOUS
<1>1. Settled(s) /\ s.attempts[N(s)].result = "blocked"
  BY DEF Blocked, Settled
<1>2. s.attempts[N(s)].result = "corrected"
  BY <1>1, Zenon DEF Story, HistoryInv, TailInv
<1>. QED
  BY <1>1, <1>2

\* A held correction waits.
LEMMA HoldReview == ASSUME RunInv, StoryInv, ReviewInv, HoldCorrection PROVE ReviewInv'
<1>. DEFINE t == LogInterrupt(mem, "budget-exceeded", at, mem.progress.att)
<1>1. /\ mem' = t /\ disk' = t /\ pc' = "finished" /\ at \in RoleNodes /\ mem.progress.corr
  BY DEF HoldCorrection, AtRole, CorrectionHeld, Correcting
<1>2. /\ mem \in RunStates /\ mem.progress.att \in Nat /\ "budget-exceeded" \in Triggers
      /\ Review(mem) /\ ~Blocked(mem)
  <2>1. mem \in RunStates /\ Story(mem) /\ Review(mem)
    BY DEF RunInv, RecordInv, Core, StoryInv, ReviewInv
  <2>. QED
    BY <1>1, <2>1, CorrectingUnblocked DEF RunStates, Progress, Triggers
<1>3. t.attempts = mem.attempts /\ t.status = "awaiting-human" /\ t.rej = mem.rej
  <2>1. t.attempts = mem.attempts /\ t.status = "awaiting-human"
    BY <1>1, <1>2, LogInterruptType
  <2>2. t.rej = mem.rej
    <3>1. /\ mem \in RunStates /\ "budget-exceeded" \in Triggers /\ at \in RoleNodes
          /\ mem.progress.att \in Nat
      BY <1>1, <1>2
    <3>. QED
      BY <3>1, LogInterruptFacts
  <2>. QED
    BY <2>1, <2>2
<1>. HIDE DEF t
<1>4. Review(t) /\ ~Blocked(t)
  BY <1>2, <1>3, ReviewSame
<1>5. PassageInv'
  BY <1>1, <1>3, <1>4 DEF PassageInv
<1>. QED
  BY <1>1, <1>4, <1>5 DEF ReviewInv

\* Starting the attempt reviews nothing.
LEMMA StartReview == ASSUME RunInv, ReviewInv, StartAttempt PROVE ReviewInv'
<1>. DEFINE cursor == [mem.progress EXCEPT !.stage = "attempt-started"]
            used == mem.used + 1
            t == [mem EXCEPT !.used = used, !.progress = cursor]
<1>1. mem' = t /\ disk' = t /\ pc = "created" /\ pc' = "started"
  BY DEF StartAttempt
<1>2. mem \in RunStates /\ Review(mem) /\ mem.status # "done" /\ ~Blocked(mem)
  <2>1. Core(mem) /\ mem.progress.stage \in OpenStages
    BY <1>1 DEF RunInv, RecordInv, ControlInv, OpenStages
  <2>. QED
    BY <1>1, <2>1, OpenUnblocked DEF Core, ReviewInv, PassageInv
<1>. HIDE DEF cursor, used
<1>3. t.attempts = mem.attempts /\ t.rej = mem.rej /\ t.status = mem.status
  BY <1>2 DEF RunStates
<1>. HIDE DEF t
<1>4. Review(t)
  BY <1>2, <1>3, ReviewSame
<1>5. PassageInv'
  BY <1>1, <1>2, <1>3 DEF PassageInv
<1>. QED
  BY <1>1, <1>4, <1>5 DEF ReviewInv

\* Nor does marking its outcome as checkpointed.
LEMMA CheckpointedReview ==
    ASSUME NEW s \in RunStates, Review(s)
    PROVE  LET t == Checkpointed(s) IN
           /\ Review(t) /\ (Blocked(t) <=> Blocked(s))
           /\ t.status = s.status /\ t.phase = s.phase
<1>. DEFINE cursor == [s.progress EXCEPT !.stage = "outcome-checkpointed"]
            t == Checkpointed(s)
<1>1. CASE s.progress.stage = "none"
  BY <1>1 DEF Checkpointed
<1>2. CASE s.progress.stage # "none"
  <2>1. cursor.next = s.progress.next
    BY DEF RunStates, Progress
  <2>2. t = [s EXCEPT !.progress = cursor]
    BY <1>2 DEF Checkpointed
  <2>. HIDE DEF cursor, t
  <2>3. /\ t.progress = cursor /\ t.attempts = s.attempts /\ t.rej = s.rej
        /\ t.status = s.status /\ t.phase = s.phase /\ t.target = s.target
    BY <2>2 DEF RunStates
  <2>4. Outside(s) => Outside(t)
    BY <1>2, <2>1, <2>3 DEF Outside
  <2>5. Review(t) /\ (Blocked(t) <=> Blocked(s))
    BY <2>3, <2>4, ReviewSame DEF Review, WayInv
  <2>. QED
    BY <2>3, <2>5 DEF t
<1>. QED
  BY <1>1, <1>2

LEMMA CheckpointOutcomeReview == ASSUME RunInv, ReviewInv, CheckpointOutcome PROVE ReviewInv'
<1>. DEFINE t == Checkpointed(mem)
<1>1. mem' = t /\ disk' = t /\ at' = at /\ pc = "finished" /\ pc' = "routed"
  BY DEF CheckpointOutcome
<1>2. mem \in RunStates /\ Review(mem)
  BY DEF RunInv, RecordInv, Core, ReviewInv
<1>3. /\ Review(t) /\ (Blocked(t) <=> Blocked(mem))
      /\ t.status = mem.status /\ t.phase = mem.phase
  BY <1>2, CheckpointedReview
<1>. HIDE DEF t
<1>4. PassageInv'
  BY <1>1, <1>3 DEF PassageInv, ReviewInv
<1>. QED
  BY <1>1, <1>3, <1>4 DEF ReviewInv

\* After a block or at the end the edge leads to a stop.
LEMMA RouteReview == ASSUME RunInv, ReviewInv, Route PROVE ReviewInv'
<1>1. /\ mem' = mem /\ disk' = disk /\ pc = "routed" /\ pc' = "enter" /\ at' = Successor(mem, at)
      /\ at \in RoleNodes /\ mem.progress.stage \notin OpenStages \cup BeforeStages
      /\ Core(mem) /\ mem \in RunStates
  BY DEF Route, RunInv, RecordInv, ControlInv, Core
<1>2. Settled(mem)
  <2>1. N(mem) \in Nat /\ mem.progress.att \in 1 .. N(mem)
    BY <1>1 DEF Core, CursorInv, RunStates, N
  <2>2. N(mem) \in 1 .. N(mem) /\ N(mem) > 0
    BY <2>1
  <2>. QED
    BY <1>1, <2>2 DEF Core, CursorInv, Settled, N
<1>3. Blocked(mem) => Successor(mem, at) = "blocked"
  BY <1>1 DEF ReviewInv, PassageInv, Successor
<1>4. mem.status = "done" => Successor(mem, at) = "done"
  BY <1>1 DEF ReviewInv, PassageInv, Successor, Reviewers, AcceptedNext
<1>5. PassageInv'
  BY <1>1, <1>2, <1>3, <1>4, RoleFacts DEF PassageInv, LastLevel
<1>. QED
  BY <1>1, <1>5 DEF ReviewInv

\* The turn limit names no node.
LEMMA LimitReview == ASSUME RunInv, ReviewInv, RecursionLimit PROVE ReviewInv'
<1>1. mem \in RunStates /\ Review(mem) /\ disk' = disk /\ pc' = "ended"
  BY DEF RunInv, RecordInv, Core, ReviewInv, RecursionLimit
<1>2. Review(mem')
  <2>1. CASE mem' = mem
    BY <1>1, <2>1
  <2>2. CASE mem' # mem
    <3>1. mem' = [mem EXCEPT !.status = "blocked", !.phase = "recursion_limit_exceeded"]
      BY <2>2 DEF RecursionLimit
    <3>2. /\ mem'.attempts = mem.attempts /\ mem'.rej = mem.rej /\ mem'.status = "blocked"
          /\ mem'.progress = mem.progress /\ mem'.target = mem.target
          /\ mem'.phase = "recursion_limit_exceeded"
      BY <1>1, <3>1 DEF RunStates
    <3>3. Outside(mem) => Outside(mem')
      BY <3>2 DEF Outside, LastLevel
    <3>. QED
      BY <1>1, <3>2, <3>3, ReviewSame DEF Review, WayInv
  <2>. QED
    BY <2>1, <2>2
<1>3. PassageInv'
  BY <1>1 DEF PassageInv
<1>. QED
  BY <1>1, <1>2, <1>3 DEF ReviewInv

\* DONE is entered only from an accepted review of a refactoring.
LEMMA DoneReviewed ==
    ASSUME NEW s \in RunStates, Story(s), Settled(s), ~Blocked(s), Legal(s, "done")
    PROVE  Reviewed(s)
<1>1. N(s) > 0 /\ N(s) \in 1 .. N(s) /\ s.attempts[N(s)] \in Attempt
  <2>1. s.attempts \in Seq(Attempt) /\ N(s) > 0 /\ N(s) \in 1 .. N(s)
    BY DEF RunStates, Settled, N
  <2>. QED
    BY <2>1, ElementOfSeq DEF N
<1>2. NextAfter(s, N(s)) = "done"
  BY <1>1 DEF Legal, Blocked
<1>3. s.attempts[N(s)].node = "reviewer_refactor" /\ s.attempts[N(s)].result = "accepted"
  <2>1. s.attempts[N(s)].node \in RoleNodes
    BY <1>1 DEF Attempt
  <2>2. s.attempts[N(s)].result = "accepted" /\ s.attempts[N(s)].node \in Reviewers
        /\ ~Paused(s, N(s))
    <3>1. s.attempts[N(s)].node # "done"
      BY <2>1, RoleFacts
    <3>2. s.attempts[N(s)].result = "rejected" => NextAfter(s, N(s)) # "done"
      <4>1. s.attempts[N(s)].result = "rejected" => s.attempts[N(s)].node \in Reviewers
        BY <1>1, Zenon DEF Story, HistoryInv, OrderInv
      <4>. QED
        BY <4>1 DEF NextAfter, RejectedNext, Reviewers
    <3>. QED
      BY <1>2, <2>1, <3>1, <3>2 DEF NextAfter, NextOnSuccess, RejectedNext, RoleNodes,
             Reviewers, Drivers
  <2>3. AcceptedNext[s.attempts[N(s)].node] = "done"
    BY <1>2, <2>2 DEF NextAfter
  <2>. QED
    BY <2>2, <2>3 DEF AcceptedNext, Reviewers
<1>. QED
  BY <1>1, <1>3 DEF Attempt, Reviewed, AcceptedRefactor

\* A stop at DONE follows the review; the other stops name no node.
LEMMA StopNodeReview == ASSUME RunInv, StoryInv, ReviewInv, StopNode PROVE ReviewInv'
<1>1. /\ disk' = mem' /\ pc = "enter" /\ pc' = "ended"
      /\ at \in {"done", "awaiting_human", "blocked"}
  BY DEF StopNode, RunInv, Scalars, Nodes
<1>2. mem \in RunStates /\ Story(mem) /\ Review(mem)
  BY DEF RunInv, RecordInv, Core, StoryInv, ReviewInv
<1>3. ASSUME NEW u, mem' = Checkpointed(u), u \in RunStates, Review(u)
      PROVE  ReviewInv'
  <2>1. Review(mem')
    BY <1>3, CheckpointedReview
  <2>2. PassageInv'
    BY <1>1 DEF PassageInv
  <2>. QED
    BY <1>1, <2>1, <2>2 DEF ReviewInv
<1>4. CASE at = "done"
  <2>. DEFINE u == [mem EXCEPT !.status = "done", !.phase = "done"]
  <2>1. mem' = Checkpointed(u)
    BY <1>4 DEF StopNode
  <2>2. u \in RunStates /\ u.attempts = mem.attempts /\ u.rej = mem.rej
    BY <1>2 DEF RunStates, Statuses, Phases, Nodes
  <2>. HIDE DEF u
  <2>3. ~Blocked(mem) /\ Settled(mem) /\ Legal(mem, "done")
    BY <1>1, <1>4 DEF StoryInv, PlaceInv, ReviewInv, PassageInv
  <2>4. Reviewed(mem)
    BY <1>2, <2>3, DoneReviewed
  <2>5. Review(u)
    BY <1>2, <2>2, <2>3, <2>4, ReviewSame
  <2>. QED
    BY <1>3, <2>1, <2>2, <2>5
<1>5. CASE at = "awaiting_human"
  <2>. DEFINE u == [mem EXCEPT !.status = "awaiting-human", !.phase = "awaiting_human"]
  <2>1. mem' = Checkpointed(u)
    BY <1>5 DEF StopNode
  <2>2. /\ u \in RunStates /\ u.attempts = mem.attempts /\ u.rej = mem.rej
        /\ u.status = "awaiting-human" /\ u.phase = "awaiting_human"
        /\ u.target = mem.target /\ u.progress = mem.progress
    BY <1>2 DEF RunStates, Statuses, Phases, Nodes
  <2>. HIDE DEF u
  <2>3. Outside(mem) => Outside(u)
    BY <2>2 DEF Outside, LastLevel
  <2>4. Review(u)
    BY <1>2, <2>2, <2>3, ReviewSame DEF Review, WayInv
  <2>. QED
    BY <1>3, <2>1, <2>2, <2>4
<1>6. CASE at = "blocked"
  <2>1. mem.status = "blocked"
    BY <1>1, <1>6 DEF StoryInv, PlaceInv
  <2>2. [mem EXCEPT !.status = "blocked"] = mem
    BY <1>2, <2>1 DEF RunStates
  <2>3. mem' = Checkpointed(mem)
    BY <1>6, <2>2 DEF StopNode
  <2>. QED
    BY <1>2, <1>3, <2>3
<1>. QED
  BY <1>1, <1>4, <1>5, <1>6

\* A resume enters the last level, or ends the Run, only where the work stands.
LEMMA LaunchReview ==
    ASSUME RunInv', StoryInv', NEW s, Review(s), Launch(s)
    PROVE  ReviewInv'
<1>. DEFINE target == InferResumeTarget(s)
            t == [s EXCEPT !.target = target, !.status = "in-progress", !.phase = target]
<1>1. disk' = s /\ mem' = t /\ at' = EntryNode(target) /\ pc' = "enter"
  BY DEF Launch
<1>2. RecordInv(s) /\ Story(s) /\ s \in RunStates
  BY <1>1 DEF RunInv, StoryInv, RecordInv, Core
<1>3. /\ t.progress = s.progress /\ t.attempts = s.attempts /\ t.rej = s.rej
      /\ t.status = "in-progress" /\ t.phase = target /\ t.target = target
  BY <1>2 DEF RunStates
<1>4. /\ Blocked(s) => target \notin LastLevel \cup {"done"}
      /\ target = "done" => Settled(s)
  BY <1>2, InferOutside, InferDone
<1>. HIDE DEF t, target
<1>5. Blocked(s) => Outside(t)
  BY <1>3, <1>4 DEF Outside, Review, WayInv
<1>6. Review(t) /\ (Blocked(t) <=> Blocked(s))
  BY <1>3, <1>5, ReviewSame
<1>7. EntryNode(target) \in LastLevel \cup {"done"} => EntryNode(target) = target
  BY DEF EntryNode, LastLevel
<1>8. Settled(s) => Settled(t)
  BY <1>3 DEF Settled, N
<1>9. PassageInv'
  BY <1>1, <1>3, <1>4, <1>6, <1>7, <1>8 DEF PassageInv
<1>. QED
  BY <1>1, <1>6, <1>9 DEF ReviewInv

\* A decision is no review; it clears the target and, unless a correction was held,
\* the cursor.
LEMMA DecideReview ==
    ASSUME NEW r \in RunStates, Review(r), NEW log, NEW d
    PROVE  Review(Decide([r EXCEPT !.log = log], d))
<1>. DEFINE s == [r EXCEPT !.log = log]
            held == /\ d.kind = "interrupt" /\ s.log[Len(s.log)].trigger = "budget-exceeded"
                    /\ s.progress.corr /\ s.progress.next = s.log[Len(s.log)].next
            human == Append(s.human, d)
            intent == [action |-> Len(s.human) + 1, pending |-> TRUE]
            p == IF held THEN s.progress ELSE NoProgress
            t == Decide(s, d)
<1>1. s.progress = r.progress
  BY DEF RunStates
<1>2. p \in {r.progress, NoProgress}
  BY <1>1
<1>3. t = [s EXCEPT !.human = human, !.intent = intent, !.progress = p, !.target = NoTarget]
  BY DEF Decide
<1>. HIDE DEF human, intent, p, t
<1>4. /\ t.attempts = r.attempts /\ t.rej = r.rej /\ t.status = r.status
      /\ t.phase = r.phase /\ t.target = NoTarget /\ t.progress = p
  BY <1>3 DEF RunStates
<1>5. Outside(r) => Outside(t)
  BY <1>2, <1>4 DEF Outside, NoTarget, NoProgress, LastLevel
<1>6. Review(t)
  BY <1>4, <1>5, ReviewSame DEF Review, WayInv
<1>. QED
  BY <1>6 DEF t

\* Every way of resuming.
LEMMA ResumeReview == ASSUME RunInv, RunInv', StoryInv', ReviewInv, Resume PROVE ReviewInv'
<1>1. disk \in RunStates /\ Review(disk)
  BY DEF RunInv, RecordInv, Core, ReviewInv
<1>2. CASE ReplayDecision \/ ResumeAnyway
  BY <1>1, <1>2, LaunchReview DEF ReplayDecision, ResumeAnyway
<1>3. CASE ResolveInterrupt
  <2>. DEFINE i == Latest(Unresolved(disk))
              d == [kind |-> "interrupt", on |-> i, disp |-> "applied"]
              log == [disk.log EXCEPT ![i].resolved = TRUE]
              t == Decide([disk EXCEPT !.log = log], d)
  <2>1. [disk EXCEPT !.log[i].resolved = TRUE] = [disk EXCEPT !.log = log]
    OBVIOUS
  <2>2. Launch(t)
    BY <1>3, <2>1 DEF ResolveInterrupt
  <2>. HIDE DEF log, d
  <2>3. Review(t)
    BY <1>1, DecideReview
  <2>. HIDE DEF t
  <2>. QED
    BY <2>2, <2>3, LaunchReview
<1>4. CASE ResolveBlock
  <2>. DEFINE d == [kind |-> "block", on |-> Latest(BlockedAttempts(disk)), disp |-> "applied"]
              t == Decide(disk, d)
  <2>1. Launch(t)
    BY <1>4 DEF ResolveBlock
  <2>. HIDE DEF d
  <2>2. [disk EXCEPT !.log = disk.log] = disk
    BY <1>1 DEF RunStates
  <2>3. Review(Decide([disk EXCEPT !.log = disk.log], d))
    BY <1>1, DecideReview
  <2>4. Review(t)
    BY <2>2, <2>3
  <2>. HIDE DEF t
  <2>. QED
    BY <2>1, <2>4, LaunchReview
<1>. QED
  BY <1>2, <1>3, <1>4 DEF Resume

\* Nor is context queued for a role.
LEMMA QueueReview ==
    ASSUME RunInv, ReviewInv, NEW n \in InterventionTargets, QueueIntervention(n)
    PROVE  ReviewInv'
<1>. DEFINE queue == Append(disk.queue, [target |-> n, to |-> 0])
            human == Append(disk.human, [kind |-> "intervention",
                                         on |-> Len(disk.queue) + 1, disp |-> "queued"])
            t == [disk EXCEPT !.queue = queue, !.human = human]
<1>1. /\ disk' = t /\ mem' = (IF pc = "idle" THEN t ELSE mem) /\ pc' = pc /\ at' = at
  BY DEF QueueIntervention
<1>2. disk \in RunStates /\ Review(disk)
  BY DEF RunInv, RecordInv, Core, ReviewInv
<1>. HIDE DEF queue, human
<1>3. /\ t.progress = disk.progress /\ t.attempts = disk.attempts /\ t.rej = disk.rej
      /\ t.status = disk.status /\ t.phase = disk.phase /\ t.target = disk.target
  BY <1>2 DEF RunStates
<1>. HIDE DEF t
<1>4. Outside(disk) => Outside(t)
  BY <1>3 DEF Outside
<1>5. Review(t)
  BY <1>2, <1>3, <1>4, ReviewSame DEF Review, WayInv
<1>6. PassageInv'
  BY <1>1 DEF ReviewInv, PassageInv
<1>. QED
  BY <1>1, <1>5, <1>6 DEF ReviewInv

\* Attempts before one of the first of s are the same in t.
LEMMA BeforeSame ==
    ASSUME NEW s, NEW t, N(s) \in Nat, N(t) \in Nat, N(s) <= N(t),
           NEW m \in 1 .. N(t), m <= N(s) + 1,
           \A k \in 1 .. N(s) : k < m => t.attempts[k] = s.attempts[k]
    PROVE  /\ GreenBefore(s, m) => GreenBefore(t, m)
           /\ RefactoredBefore(s, m) => RefactoredBefore(t, m)
<1>1. /\ \A k \in 1 .. N(s) : k \in 1 .. N(t)
      /\ \A k \in 1 .. N(t) : k < m => k \in 1 .. N(s)
  OBVIOUS
<1>2. GreenBefore(s, m) => GreenBefore(t, m)
  BY <1>1, Zenon DEF GreenBefore
<1>3. RefactoredBefore(s, m) => RefactoredBefore(t, m)
  <2>. SUFFICES ASSUME NEW j \in 1 .. N(s), j < m, s.attempts[j] = AcceptedRefactoring,
                       \A i \in 1 .. N(s) : j < i /\ i < m =>
                                               s.attempts[i].node = "reviewer_refactor"
                PROVE  RefactoredBefore(t, m)
    BY Zenon DEF RefactoredBefore
  <2>1. ASSUME NEW i \in 1 .. N(t), j < i, i < m PROVE t.attempts[i].node = "reviewer_refactor"
    <3>1. i \in 1 .. N(s)
      BY <1>1, <2>1
    <3>. QED
      BY <2>1, <3>1
  <2>. QED
    BY <1>1, <2>1, Zenon DEF RefactoredBefore
<1>. QED
  BY <1>2, <1>3

\* What was before the newest attempt is before the next one.
LEMMA BeforeNext ==
    ASSUME NEW s, N(s) \in Nat, N(s) > 0
    PROVE  /\ GreenBefore(s, N(s)) => GreenBefore(s, N(s) + 1)
           /\ RefactoredBefore(s, N(s)) /\ s.attempts[N(s)].node = "reviewer_refactor" =>
                 RefactoredBefore(s, N(s) + 1)
           /\ s.attempts[N(s)] = AcceptedGreen => GreenBefore(s, N(s) + 1)
           /\ s.attempts[N(s)] = AcceptedRefactoring => RefactoredBefore(s, N(s) + 1)
<1>1. N(s) \in 1 .. N(s) /\ N(s) < N(s) + 1
  OBVIOUS
<1>2. \A i \in 1 .. N(s) : i < N(s) => i < N(s) + 1
  OBVIOUS
<1>3. \A i \in 1 .. N(s) : i < N(s) \/ i = N(s)
  OBVIOUS
<1>4. \A i \in 1 .. N(s) : ~(N(s) < i)
  OBVIOUS
<1>5. GreenBefore(s, N(s)) => GreenBefore(s, N(s) + 1)
  BY <1>2, Zenon DEF GreenBefore
<1>6. RefactoredBefore(s, N(s)) /\ s.attempts[N(s)].node = "reviewer_refactor" =>
         RefactoredBefore(s, N(s) + 1)
  BY <1>2, <1>3, Zenon DEF RefactoredBefore
<1>7. s.attempts[N(s)] = AcceptedGreen => GreenBefore(s, N(s) + 1)
  BY <1>1, Zenon DEF GreenBefore
<1>8. s.attempts[N(s)] = AcceptedRefactoring => RefactoredBefore(s, N(s) + 1)
  BY <1>1, <1>4, Zenon DEF RefactoredBefore
<1>. QED
  BY <1>5, <1>6, <1>7, <1>8

\* The edges into the last level, and out of it.
LEMMA LevelEdges ==
    ASSUME NEW s \in RunStates, Story(s), Settled(s), ~Blocked(s),
           NEW n \in RoleNodes, n = NextAfter(s, N(s))
    PROVE  LET a == s.attempts[N(s)] IN
           /\ n = "refactorer" => a = AcceptedGreen \/ a.node \in LastLevel
           /\ n = "reviewer_refactor" => a = AcceptedRefactoring \/ a.node = "reviewer_refactor"
           /\ a.node \in LastLevel => n \in LastLevel
<1>. DEFINE a == s.attempts[N(s)]
<1>1. N(s) \in 1 .. N(s) /\ a \in Attempt
  <2>1. s.attempts \in Seq(Attempt) /\ N(s) \in 1 .. N(s)
    BY DEF RunStates, Settled, N
  <2>. QED
    BY <2>1, ElementOfSeq DEF N
<1>2. a.result = "rejected" => a.node \in Reviewers
  BY <1>1, Zenon DEF Story, HistoryInv, OrderInv
<1>3. a.node \in RoleNodes /\ a = [node |-> a.node, result |-> a.result]
  BY <1>1 DEF Attempt
<1>. DEFINE free == ~Paused(s, N(s))
<1>4. n = CASE a.result = "accepted" /\ a.node \notin Reviewers          -> NextOnSuccess[a.node]
            [] a.result = "accepted" /\ a.node \in Reviewers /\ free  -> AcceptedNext[a.node]
            [] a.result = "accepted" /\ a.node \in Reviewers /\ ~free -> RejectedNext[a.node]
            [] a.result = "rejected"                                     -> RejectedNext[a.node]
            [] OTHER                                                     -> a.node
  BY DEF NextAfter
<1>. HIDE DEF a, free
<1>5. CASE a.result = "accepted" /\ a.node \notin Reviewers
  <2>1. n = NextOnSuccess[a.node]
    BY <1>4, <1>5
  <2>. QED
    BY <1>3, <1>5, <2>1 DEF NextOnSuccess, RoleNodes, Reviewers, Drivers, LastLevel,
           AcceptedRefactoring, a
<1>6. CASE a.result = "accepted" /\ a.node \in Reviewers
  <2>1. n \in {AcceptedNext[a.node], RejectedNext[a.node]}
    BY <1>4, <1>6
  <2>. QED
    BY <1>3, <1>6, <2>1, RoleFacts DEF AcceptedNext, RejectedNext, Reviewers, LastLevel,
           AcceptedGreen, a
<1>7. CASE a.result = "rejected"
  <2>1. n = RejectedNext[a.node]
    BY <1>4, <1>7
  <2>. QED
    BY <1>2, <1>7, <2>1 DEF RejectedNext, Reviewers, LastLevel, a
<1>8. CASE a.result \notin {"accepted", "rejected"}
  <2>1. n = a.node
    BY <1>4, <1>8
  <2>. QED
    BY <2>1 DEF LastLevel, a
<1>. QED
  BY <1>5, <1>6, <1>7, <1>8

\* A new attempt enters the last level by its edges.
LEMMA CreateReview ==
    ASSUME NEW s \in RunStates, Story(s), Review(s), NEW n \in RoleNodes, Legal(s, n),
           N(s) > 0 => Settled(s), n \in LastLevel => ~Blocked(s), s.status # "done",
           NEW t, N(t) = N(s) + 1, \A k \in 1 .. N(s) : t.attempts[k] = s.attempts[k],
           t.attempts[N(t)].node = n, t.attempts[N(t)].result = "open",
           t.rej = s.rej, t.status = s.status
    PROVE  Review(t)
<1>1. /\ N(s) \in Nat /\ N(t) \in Nat /\ N(t) \in 1 .. N(t) /\ N(s) <= N(t)
      /\ \A k \in 1 .. N(t) : k \in 1 .. N(s) \/ k = N(t)
      /\ \A k \in 1 .. N(s) : k \in 1 .. N(t) /\ k <= N(s) + 1 /\ k # N(t)
      /\ N(s) > 0 => N(s) \in 1 .. N(s)
  BY DEF RunStates, N
<1>2. ASSUME NEW k \in 1 .. N(t)
      PROVE  /\ GreenBefore(s, k) => GreenBefore(t, k)
             /\ RefactoredBefore(s, k) => RefactoredBefore(t, k)
  BY <1>1, BeforeSame
<1>3. N(s) > 0 /\ ~Blocked(s) => n = NextAfter(s, N(s))
  BY DEF Legal, Blocked
<1>. DEFINE a == s.attempts[N(s)]
<1>4. N(s) > 0 /\ ~Blocked(s) =>
         /\ n = "refactorer" => a = AcceptedGreen \/ a.node \in LastLevel
         /\ n = "reviewer_refactor" => a = AcceptedRefactoring \/ a.node = "reviewer_refactor"
         /\ a.node \in LastLevel => n \in LastLevel
  BY <1>3, LevelEdges
<1>5. N(s) > 0 /\ a.node \in LastLevel => n \in LastLevel
  <2>1. N(s) > 0 /\ Blocked(s) => a.node \in Drivers
    BY <1>1, Zenon DEF Review, WayInv, Blocked
  <2>2. Drivers \cap LastLevel = {}
    BY DEF Drivers, LastLevel
  <2>. QED
    BY <1>4, <2>1, <2>2
<1>6. n \in LastLevel => N(s) > 0 /\ ~Blocked(s)
  BY <1>1 DEF Legal, LastLevel
<1>7. N(s) > 0 => /\ a.node \in LastLevel => GreenBefore(s, N(s))
                  /\ a.node = "reviewer_refactor" => RefactoredBefore(s, N(s))
  BY <1>1, Zenon DEF Review, EnteredInv
<1>8. n \in LastLevel => GreenBefore(s, N(t))
  <2>1. n \in LastLevel => a = AcceptedGreen \/ a.node \in LastLevel
    BY <1>4, <1>6 DEF LastLevel, AcceptedRefactoring
  <2>. QED
    BY <1>1, <1>6, <1>7, <2>1, BeforeNext
<1>9. n = "reviewer_refactor" => RefactoredBefore(s, N(t))
  <2>1. n = "reviewer_refactor" => N(s) > 0 /\ ~Blocked(s)
    BY <1>6 DEF LastLevel
  <2>. QED
    BY <1>1, <1>4, <1>7, <2>1, BeforeNext
<1>. HIDE DEF a
<1>10. EnteredInv(t)
  <2>. SUFFICES ASSUME NEW k \in 1 .. N(t)
                PROVE  /\ t.attempts[k].node \in LastLevel => GreenBefore(t, k)
                       /\ t.attempts[k].node = "reviewer_refactor" => RefactoredBefore(t, k)
    BY Zenon DEF EnteredInv
  <2>1. CASE k = N(t)
    BY <1>1, <1>2, <1>8, <1>9, <2>1
  <2>2. CASE k \in 1 .. N(s)
    <3>1. t.attempts[k] = s.attempts[k]
      BY <2>2
    <3>2. /\ s.attempts[k].node \in LastLevel => GreenBefore(s, k)
          /\ s.attempts[k].node = "reviewer_refactor" => RefactoredBefore(s, k)
      BY <2>2, Zenon DEF Review, EnteredInv
    <3>. QED
      BY <1>2, <3>1, <3>2
  <2>. QED
    BY <1>1, <2>1, <2>2
<1>11. LevelInv(t)
  <2>1. ASSUME NEW k \in 1 .. N(t), t.attempts[k].node \in LastLevel PROVE n \in LastLevel
    <3>1. CASE k = N(t)
      BY <2>1, <3>1
    <3>2. CASE k \in 1 .. N(s)
      <4>1. s.attempts[k].node \in LastLevel /\ N(s) > 0
        BY <1>1, <2>1, <3>2
      <4>2. s.attempts[N(s)].node \in LastLevel
        BY <3>2, <4>1, Zenon DEF Review, LevelInv
      <4>. QED
        BY <1>5, <4>1, <4>2 DEF a
    <3>. QED
      BY <1>1, <3>1, <3>2
  <2>2. ASSUME NEW i \in 1 .. Len(t.rej), t.rej[i].at = "reviewer_refactor"
        PROVE  n \in LastLevel
    <3>1. N(s) > 0 /\ s.attempts[N(s)].node \in LastLevel
      BY <2>2, Zenon DEF Review, LevelInv
    <3>. QED
      BY <1>5, <3>1 DEF a
  <2>3. N(t) > 0
    BY <1>1
  <2>. QED
    BY <2>1, <2>2, <2>3, Zenon DEF LevelInv
<1>12. WayInv(t)
  <2>1. ASSUME NEW k \in 1 .. N(t), t.attempts[k].result = "blocked"
        PROVE  t.attempts[k].node \in Drivers
    <3>1. k # N(t)
      BY <2>1
    <3>2. k \in 1 .. N(s) /\ t.attempts[k] = s.attempts[k]
      BY <1>1, <3>1
    <3>. QED
      BY <2>1, <3>2, Zenon DEF Review, WayInv
  <2>2. ~Blocked(t)
    BY DEF Blocked
  <2>. QED
    BY <2>1, <2>2, Zenon DEF WayInv
<1>. QED
  BY <1>10, <1>11, <1>12 DEF Review

LEMMA CreateAttemptReview ==
    ASSUME RunInv, RunInv', StoryInv, ReviewInv, CreateAttempt
    PROVE  ReviewInv'
<1>. DEFINE k == IF Reusing THEN mem.progress.att ELSE Len(mem.attempts) + 1
            new == [node |-> at, result |-> "open"]
            list == IF Reusing THEN mem.attempts ELSE Append(mem.attempts, new)
            cursor == CreatedCursor(k)
            s == [mem EXCEPT !.attempts = list, !.progress = cursor]
            t == IF at \in Reviewers THEN s ELSE Deliver(s, at, k)
<1>1. /\ mem' = t /\ disk' = t /\ pc' = "created" /\ pc = "enter" /\ at \in RoleNodes
      /\ ~Terminal(mem)
  BY DEF CreateAttempt, AtRole
<1>2. /\ Core(mem) /\ mem \in RunStates /\ mem.attempts \in Seq(Attempt)
      /\ mem.progress \in Progress /\ N(mem) \in Nat /\ Story(mem) /\ Review(mem)
  BY DEF RunInv, RecordInv, Core, RunStates, N, StoryInv, ReviewInv
<1>3. /\ mem.progress.stage # "attempt-started" /\ mem.status # "done" /\ Legal(mem, at)
      /\ at \in LastLevel => ~Blocked(mem)
  BY <1>1 DEF RunInv, ControlInv, StoryInv, PlaceInv, ReviewInv, PassageInv
<1>4. new \in Attempt /\ new.node = at /\ new.result = "open"
  BY <1>1 DEF Attempt, Results
<1>. HIDE DEF new
<1>5. k \in Nat /\ list \in Seq(Attempt)
  BY <1>2, <1>4 DEF Progress
<1>6. cursor \in Progress
  BY <1>1, <1>2, <1>5, RoleFacts DEF CreatedCursor, Correcting, Progress, Stages
<1>. HIDE DEF list, cursor
<1>7. /\ s \in RunStates /\ s.attempts = list /\ s.rej = mem.rej /\ s.status = mem.status
  BY <1>2, <1>5, <1>6 DEF RunStates
<1>. HIDE DEF s, k
<1>8. t.attempts = list /\ t.rej = mem.rej /\ t.status = mem.status
  <2>1. CASE at \in Reviewers
    BY <1>7, <2>1
  <2>2. CASE at \notin Reviewers
    BY <1>1, <1>5, <1>7, <2>2, DeliverType, DeliverFacts
  <2>. QED
    BY <2>1, <2>2
<1>. HIDE DEF t
<1>9. Review(t)
  <2>1. CASE Reusing
    <3>1. list = mem.attempts /\ ~Blocked(mem)
      BY <1>2, <2>1, OpenUnblocked DEF list, Reusing, OpenStages
    <3>. QED
      BY <1>2, <1>3, <1>8, <3>1, ReviewSame
  <2>2. CASE ~Reusing
    <3>1. N(mem) > 0 => Settled(mem)
      <4>1. mem.progress.stage \notin OpenStages
        BY <1>3, <2>2 DEF Reusing, OpenStages
      <4>2. \A i \in 1 .. N(mem) : mem.attempts[i].result # "open"
        BY <1>2, <4>1 DEF Core, CursorInv, N
      <4>. QED
        BY <1>2, <4>2 DEF Settled
    <3>2. /\ N(t) = N(mem) + 1 /\ \A i \in 1 .. N(mem) : t.attempts[i] = mem.attempts[i]
          /\ t.attempts[N(t)] = new
      <4>1. list = Append(mem.attempts, new)
        BY <2>2 DEF list
      <4>2. Len(list) = Len(mem.attempts) + 1 /\ list[Len(list)] = new
            /\ \A i \in 1 .. Len(mem.attempts) : list[i] = mem.attempts[i]
        BY <1>2, <1>4, <4>1
      <4>. QED
        BY <1>8, <4>2 DEF N
    <3>3. t.attempts[N(t)].node = at /\ t.attempts[N(t)].result = "open"
      BY <1>4, <3>2
    <3>. QED
      BY <1>1, <1>2, <1>3, <1>8, <3>1, <3>2, <3>3, CreateReview
  <2>. QED
    BY <2>1, <2>2
<1>10. PassageInv'
  BY <1>1, <1>3, <1>8 DEF PassageInv
<1>. QED
  BY <1>1, <1>9, <1>10 DEF ReviewInv

-----------------------------------------------------------------------------
(* The last level: what a role returns *)

\* Rejections t are those of s, perhaps with one of node n.
Rejects(s, t, n) ==
    \/ t.rej = s.rej
    \/ \A i \in 1 .. Len(t.rej) :
          t.rej[i].at # n => i \in 1 .. Len(s.rej) /\ t.rej[i] = s.rej[i]

\* Closing the started attempt moves no attempt to or from the last level.
LEMMA ClosedReview ==
    ASSUME NEW s, NEW n, Started(s, n), Review(s), NEW u, NEW t, NEW r, NEW c,
           Closed(s, u, t, n, r, c), Rejects(s, t, n),
           r = "blocked" => n \in Drivers /\ Outside(t),
           t.status = "done" => n = "reviewer_refactor" /\ r = "accepted"
    PROVE  Review(t) /\ (Blocked(t) <=> r = "blocked")
<1>1. /\ N(s) \in Nat /\ N(s) > 0 /\ N(s) \in 1 .. N(s) /\ N(t) = N(s)
      /\ s.attempts[N(s)].node = n
      /\ \A k \in 1 .. N(s) : k # N(s) => t.attempts[k] = s.attempts[k]
      /\ t.attempts[N(s)].node = n /\ t.attempts[N(s)].result = r
      /\ t \in RunStates
  BY StartedAttempt DEF Closed
<1>2. \A k \in 1 .. N(s) : t.attempts[k].node = s.attempts[k].node
  BY <1>1, Zenon
<1>3. EnteredInv(t)
  <2>. SUFFICES ASSUME NEW k \in 1 .. N(s)
                PROVE  /\ t.attempts[k].node \in LastLevel => GreenBefore(t, k)
                       /\ t.attempts[k].node = "reviewer_refactor" => RefactoredBefore(t, k)
    BY <1>1, Zenon DEF EnteredInv
  <2>1. /\ s.attempts[k].node \in LastLevel => GreenBefore(s, k)
        /\ s.attempts[k].node = "reviewer_refactor" => RefactoredBefore(s, k)
    BY Zenon DEF Review, EnteredInv
  <2>2. /\ \A i \in 1 .. N(s) : i < k => t.attempts[i] = s.attempts[i]
        /\ N(s) <= N(t) /\ k <= N(s) + 1 /\ N(t) \in Nat
    BY <1>1
  <2>3. /\ GreenBefore(s, k) => GreenBefore(t, k)
        /\ RefactoredBefore(s, k) => RefactoredBefore(t, k)
    BY <1>1, <2>2, BeforeSame
  <2>. QED
    BY <1>2, <2>1, <2>3
<1>4. LevelInv(t)
  <2>1. ASSUME NEW k \in 1 .. N(s), t.attempts[k].node \in LastLevel PROVE n \in LastLevel
    <3>1. s.attempts[k].node \in LastLevel
      BY <1>2, <2>1
    <3>. QED
      BY <1>1, <3>1, Zenon DEF Review, LevelInv
  <2>2. ASSUME NEW i \in 1 .. Len(t.rej), t.rej[i].at = "reviewer_refactor"
        PROVE  n \in LastLevel
    <3>1. CASE n = "reviewer_refactor"
      BY <3>1 DEF LastLevel
    <3>2. CASE n # "reviewer_refactor"
      <4>1. i \in 1 .. Len(s.rej) /\ s.rej[i].at = "reviewer_refactor"
        BY <2>2, <3>2 DEF Rejects
      <4>. QED
        BY <1>1, <4>1, Zenon DEF Review, LevelInv
    <3>. QED
      BY <3>1, <3>2
  <2>. QED
    BY <1>1, <2>1, <2>2 DEF LevelInv
<1>5. Blocked(t) <=> r = "blocked"
  BY <1>1 DEF Blocked
<1>6. WayInv(t)
  <2>1. ASSUME NEW k \in 1 .. N(s), t.attempts[k].result = "blocked"
        PROVE  t.attempts[k].node \in Drivers
    <3>1. CASE k = N(s)
      BY <1>1, <2>1, <3>1
    <3>2. CASE k # N(s)
      <4>1. t.attempts[k] = s.attempts[k]
        BY <1>1, <3>2
      <4>. QED
        BY <2>1, <4>1, Zenon DEF Review, WayInv
    <3>. QED
      BY <3>1, <3>2
  <2>. QED
    BY <1>1, <1>5, <2>1 DEF WayInv
<1>7. t.status = "done" => Reviewed(t)
  <2>1. t.attempts[N(s)] \in Attempt
    BY <1>1, ElementOfSeq DEF RunStates, N
  <2>. QED
    BY <1>1, <2>1 DEF Reviewed, AcceptedRefactor, Attempt
<1>. QED
  BY <1>3, <1>4, <1>5, <1>6, <1>7 DEF Review

\* An outcome is saved.
LEMMA ConcludeReview ==
    ASSUME NEW t, Conclude(t, "finished"), Review(t), Blocked(t) => t.status = "blocked",
           t.status = "done" => at = "reviewer_refactor" /\ t.phase = "done"
    PROVE  ReviewInv'
<1>1. mem' = t /\ disk' = t /\ pc' = "finished" /\ at' = at
  BY DEF Conclude
<1>2. PassageInv'
  BY <1>1 DEF PassageInv
<1>. QED
  BY <1>1, <1>2 DEF ReviewInv

\* Handing off ends a Run only where no pause intervenes.
LEMMA HandOffReview ==
    ASSUME NEW s, NEW n, Started(s, n), Review(s), NEW u, Prepared(s, u), u.log = s.log,
           NEW r \in {"accepted", "rejected"}, NEW p, NEW m \in RoleNodes, Rejects(s, u, n),
           u.status = "done" => n = "reviewer_refactor" /\ r = "accepted" /\ u.phase = "done"
    PROVE  LET t == HandOff(u, n, r, p, m) IN
           /\ Review(t) /\ ~Blocked(t)
           /\ t.status = "done" => n = "reviewer_refactor" /\ t.phase = "done"
<1>. DEFINE g == TriggerOn(u, p)
            t == HandOff(u, n, r, p, m)
            l == LogInterrupt(u, g, m, u.progress.att)
<1>1. r \in Results \ {"open"} /\ FALSE \in BOOLEAN /\ r # "blocked"
  BY DEF Results
<1>2. CASE g = "none"
  <2>1. t = Finish(u, n, r, FALSE)
    BY <1>2 DEF HandOff
  <2>2. Closed(s, u, t, n, r, FALSE)
    BY <1>1, <2>1, FinishFacts, Zenon
  <2>. HIDE DEF t
  <2>3. t.status = u.status /\ t.phase = u.phase /\ Rejects(s, t, n)
    BY <2>2 DEF Closed, Rejects
  <2>4. Review(t) /\ ~Blocked(t)
    BY <1>1, <2>2, <2>3, ClosedReview
  <2>. QED
    BY <2>3, <2>4 DEF t
<1>3. CASE g # "none"
  <2>1. g \in Triggers
    BY <1>3, TriggerType
  <2>2. Prepared(s, l) /\ l.status = "awaiting-human"
    BY <2>1, PreparedInterrupt
  <2>3. l.rej = u.rej
    <3>1. u \in RunStates /\ u.progress.att \in Nat
      BY DEF Prepared, RunStates, Progress
    <3>. QED
      BY <2>1, <3>1, LogInterruptFacts
  <2>4. t = Finish(l, n, r, FALSE)
    BY <1>3 DEF HandOff
  <2>. HIDE DEF l, g
  <2>5. Closed(s, l, t, n, r, FALSE)
    BY <1>1, <2>2, <2>4, FinishFacts, Zenon
  <2>. HIDE DEF t
  <2>6. t.status = "awaiting-human" /\ Rejects(s, t, n)
    BY <2>2, <2>3, <2>5 DEF Closed, Rejects
  <2>7. Review(t) /\ ~Blocked(t)
    BY <1>1, <2>5, <2>6, ClosedReview
  <2>. QED
    BY <2>6, <2>7 DEF t
<1>. QED
  BY <1>2, <1>3

\* A role's work is no review.
LEMMA RoleSucceedsReview == ASSUME RunInv, StoryInv, ReviewInv, RoleSucceeds PROVE ReviewInv'
<1>. DEFINE p == HandOffPhase(at)
            u == [mem EXCEPT !.status = "in-progress", !.phase = p]
            t == HandOff(u, at, "accepted", p, NextOnSuccess[at])
<1>1. pc = "started" /\ at \in RoleNodes \ Reviewers /\ Conclude(t, "finished")
  BY StartedFacts DEF RoleSucceeds
<1>2. /\ Started(mem, at) /\ mem \in RunStates /\ Review(mem)
      /\ mem.target \notin {"awaiting_human", "blocked"}
  BY <1>1, RoleStarted DEF ReviewInv
<1>3. p \in Phases /\ "in-progress" \in Statuses /\ NextOnSuccess[at] \in RoleNodes
  BY <1>1 DEF HandOffPhase, Phases, Statuses, NextOnSuccess, RoleNodes, Reviewers, Drivers
<1>. HIDE DEF p
<1>4. /\ u \in RunStates /\ u.progress = mem.progress /\ u.attempts = mem.attempts
      /\ u.used = mem.used /\ u.intent = mem.intent /\ u.human = mem.human
      /\ u.log = mem.log /\ u.target = mem.target /\ u.status = "in-progress"
      /\ u.rej = mem.rej
  BY <1>2, <1>3 DEF RunStates
<1>. HIDE DEF u
<1>5. Prepared(mem, u) /\ Rejects(mem, u, at) /\ "accepted" \in {"accepted", "rejected"}
  BY <1>2, <1>4 DEF Prepared, Rejects
<1>6. /\ Review(t) /\ ~Blocked(t)
      /\ t.status = "done" => at = "reviewer_refactor" /\ t.phase = "done"
  BY <1>2, <1>3, <1>4, <1>5, HandOffReview
<1>. HIDE DEF t
<1>. QED
  BY <1>1, <1>6, ConcludeReview, Zenon

\* What is done is what the last Reviewer accepts.
LEMMA ReviewAcceptsReview == ASSUME RunInv, StoryInv, ReviewInv, ReviewAccepts PROVE ReviewInv'
<1>. DEFINE p == AcceptedNext[at]
            st == IF p = "done" THEN "done" ELSE "in-progress"
            u == [mem EXCEPT !.status = st, !.phase = p]
            t == HandOff(u, at, "accepted", p, RejectedNext[at])
<1>1. pc = "started" /\ at \in Reviewers /\ Conclude(t, "finished")
  BY DEF ReviewAccepts
<1>2. /\ Started(mem, at) /\ mem \in RunStates /\ Review(mem)
      /\ mem.target \notin {"awaiting_human", "blocked"}
  BY <1>1, RoleStarted DEF ReviewInv
<1>3. /\ p \in Phases /\ st \in Statuses /\ RejectedNext[at] \in RoleNodes
      /\ st = "done" => at = "reviewer_refactor" /\ p = "done"
  BY <1>1 DEF Phases, Nodes, Statuses, AcceptedNext, RejectedNext, RoleNodes, Reviewers,
              Drivers
<1>. HIDE DEF p, st
<1>4. /\ u \in RunStates /\ u.progress = mem.progress /\ u.attempts = mem.attempts
      /\ u.used = mem.used /\ u.intent = mem.intent /\ u.human = mem.human
      /\ u.log = mem.log /\ u.target = mem.target /\ u.status = st /\ u.phase = p
      /\ u.rej = mem.rej
  BY <1>2, <1>3 DEF RunStates
<1>. HIDE DEF u
<1>5. Prepared(mem, u) /\ Rejects(mem, u, at) /\ "accepted" \in {"accepted", "rejected"}
  BY <1>2, <1>4 DEF Prepared, Rejects
<1>6. /\ Review(t) /\ ~Blocked(t)
      /\ t.status = "done" => at = "reviewer_refactor" /\ t.phase = "done"
  BY <1>2, <1>3, <1>4, <1>5, HandOffReview
<1>. HIDE DEF t
<1>. QED
  BY <1>1, <1>6, ConcludeReview, Zenon

\* A rejection is made where the Reviewer is.
LEMMA ReviewRejectsReview ==
    ASSUME RunInv, StoryInv, ReviewInv, NEW cause \in Causes, ReviewRejects(cause)
    PROVE  ReviewInv'
<1>. DEFINE p == RetryPhase(at)
            entry == [at |-> at, cause |-> cause]
            rej == Append(mem.rej, entry)
            u == [mem EXCEPT !.status = "in-progress", !.phase = p, !.rej = rej]
            t == HandOff(u, at, "rejected", p, RejectedNext[at])
<1>1. pc = "started" /\ at \in Reviewers /\ Conclude(t, "finished")
  BY DEF ReviewRejects
<1>2. /\ Started(mem, at) /\ mem \in RunStates /\ Review(mem)
      /\ mem.target \notin {"awaiting_human", "blocked"}
  BY <1>1, RoleStarted DEF ReviewInv
<1>3. /\ p \in Phases /\ "in-progress" \in Statuses /\ RejectedNext[at] \in RoleNodes
  BY <1>1 DEF RetryPhase, Phases, Nodes, Statuses, RejectedNext, RoleNodes, Reviewers, Drivers
<1>4. /\ rej \in Seq(Rejection)
      /\ \A i \in 1 .. Len(rej) :
            rej[i].at # at => i \in 1 .. Len(mem.rej) /\ rej[i] = mem.rej[i]
  <2>1. entry \in Rejection /\ entry.at = at /\ mem.rej \in Seq(Rejection)
    BY <1>1, <1>2 DEF RunStates, Rejection
  <2>. HIDE DEF entry
  <2>. QED
    BY <2>1
<1>. HIDE DEF p, rej
<1>5. /\ u \in RunStates /\ u.progress = mem.progress /\ u.attempts = mem.attempts
      /\ u.used = mem.used /\ u.intent = mem.intent /\ u.human = mem.human
      /\ u.log = mem.log /\ u.target = mem.target /\ u.status = "in-progress" /\ u.rej = rej
  BY <1>2, <1>3, <1>4 DEF RunStates
<1>. HIDE DEF u
<1>6. Prepared(mem, u) /\ Rejects(mem, u, at) /\ "rejected" \in {"accepted", "rejected"}
  BY <1>2, <1>4, <1>5 DEF Prepared, Rejects
<1>7. /\ Review(t) /\ ~Blocked(t)
      /\ t.status = "done" => at = "reviewer_refactor" /\ t.phase = "done"
  BY <1>2, <1>3, <1>5, <1>6, HandOffReview
<1>. HIDE DEF t
<1>. QED
  BY <1>1, <1>7, ConcludeReview, Zenon

\* Closing an attempt with an interrupt, or for a correction, neither ends nor blocks.
LEMMA FinishReview ==
    ASSUME NEW s, NEW n, Started(s, n), Review(s), NEW u, Prepared(s, u), u.rej = s.rej,
           u.status # "done", NEW r \in Results \ {"open", "blocked"}, NEW c \in BOOLEAN
    PROVE  LET t == Finish(u, n, r, c) IN Review(t) /\ ~Blocked(t) /\ t.status # "done"
<1>. DEFINE t == Finish(u, n, r, c)
<1>1. Closed(s, u, t, n, r, c)
  BY FinishFacts, Zenon
<1>. HIDE DEF t
<1>2. t.status # "done" /\ Rejects(s, t, n)
  BY <1>1 DEF Closed, Rejects
<1>3. Review(t) /\ ~Blocked(t)
  BY <1>1, <1>2, ClosedReview
<1>. QED
  BY <1>2, <1>3 DEF t

\* A failed attempt waits.
LEMMA PauseOnFailureReview ==
    ASSUME RunInv, StoryInv, ReviewInv, pc = "started", NEW r \in {"failed", "violation"},
           Conclude(PauseOnFailure(mem, at, r), "finished")
    PROVE  ReviewInv'
<1>. DEFINE l == LogInterrupt(mem, "failure", at, mem.progress.att)
            t == PauseOnFailure(mem, at, r)
<1>1. /\ Started(mem, at) /\ Review(mem) /\ Prepared(mem, mem) /\ "failure" \in Triggers
      /\ mem \in RunStates /\ mem.progress.att \in Nat /\ at \in RoleNodes
  BY RoleStarted DEF ReviewInv, Prepared, Triggers, RunStates, Progress
<1>2. Prepared(mem, l) /\ l.status = "awaiting-human"
  BY <1>1, PreparedInterrupt
<1>3. l.rej = mem.rej
  BY <1>1, LogInterruptFacts
<1>4. t = Finish(l, at, r, FALSE)
  BY DEF PauseOnFailure
<1>5. r \in Results \ {"open", "blocked"} /\ FALSE \in BOOLEAN
  BY DEF Results
<1>. HIDE DEF l
<1>6. Review(t) /\ ~Blocked(t) /\ t.status # "done"
  BY <1>1, <1>2, <1>3, <1>4, <1>5, FinishReview
<1>7. Conclude(t, "finished")
  OBVIOUS
<1>. HIDE DEF t
<1>. QED
  BY <1>6, <1>7, ConcludeReview, Zenon

\* A refused output is corrected, or waits.
LEMMA RoleViolatesContractReview ==
    ASSUME RunInv, StoryInv, ReviewInv, RoleViolatesContract
    PROVE  ReviewInv'
<1>1. pc = "started"
  BY DEF RoleViolatesContract
<1>2. CASE Correcting
  <2>1. Conclude(PauseOnFailure(mem, at, "violation"), "finished")
    BY <1>2 DEF RoleViolatesContract
  <2>2. "violation" \in {"failed", "violation"}
    OBVIOUS
  <2>. QED
    BY <1>1, <2>1, <2>2, PauseOnFailureReview
<1>3. CASE ~Correcting
  <2>. DEFINE u == [mem EXCEPT !.phase = at, !.target = at]
              t == Finish(u, at, "corrected", TRUE)
  <2>1. mem' = t /\ disk' = t /\ pc' = "enter" /\ at' = at
    BY <1>3 DEF RoleViolatesContract, Conclude
  <2>2. /\ Started(mem, at) /\ at \in RoleNodes /\ mem \in RunStates /\ at \in Phases
        /\ Review(mem) /\ mem.status # "done"
    BY <1>1, RoleStarted DEF ReviewInv, PassageInv
  <2>3. /\ u \in RunStates /\ u.progress = mem.progress /\ u.attempts = mem.attempts
        /\ u.used = mem.used /\ u.intent = mem.intent /\ u.human = mem.human
        /\ u.target = at /\ u.status = mem.status /\ u.rej = mem.rej
    BY <2>2 DEF RunStates
  <2>. HIDE DEF u
  <2>4. at \notin {"awaiting_human", "blocked", "done"}
    BY <2>2, RoleFacts
  <2>5. Prepared(mem, u)
    BY <2>3, <2>4 DEF Prepared
  <2>6. "corrected" \in Results \ {"open", "blocked"} /\ TRUE \in BOOLEAN
    BY DEF Results
  <2>7. Review(t) /\ ~Blocked(t) /\ t.status # "done"
    BY <2>2, <2>3, <2>5, <2>6, FinishReview
  <2>. HIDE DEF t
  <2>8. PassageInv'
    BY <2>1, <2>4, <2>7 DEF PassageInv
  <2>. QED
    BY <2>1, <2>7, <2>8 DEF ReviewInv
<1>. QED
  BY <1>2, <1>3

\* A block names its Driver, in phase, target and attempt, and leads nowhere.
LEMMA DriverBlocksReview == ASSUME RunInv, StoryInv, ReviewInv, DriverBlocks PROVE ReviewInv'
<1>. DEFINE u == [mem EXCEPT !.status = "blocked", !.phase = at, !.target = at]
            t == Finish(u, at, "blocked", FALSE)
<1>1. pc = "started" /\ Conclude(t, "finished") /\ at \in Drivers
  BY DEF DriverBlocks
<1>2. /\ Started(mem, at) /\ at \in RoleNodes /\ mem \in RunStates /\ at \in Phases
      /\ "blocked" \in Statuses /\ Review(mem)
  BY <1>1, RoleStarted DEF Statuses, ReviewInv
<1>3. /\ u \in RunStates /\ u.progress = mem.progress /\ u.attempts = mem.attempts
      /\ u.used = mem.used /\ u.intent = mem.intent /\ u.human = mem.human
      /\ u.target = at /\ u.status = "blocked" /\ u.phase = at /\ u.rej = mem.rej
  BY <1>2 DEF RunStates
<1>. HIDE DEF u
<1>4. at \notin {"awaiting_human", "blocked", "done"} /\ at \notin LastLevel
  BY <1>1 DEF Drivers, LastLevel
<1>5. Prepared(mem, u) /\ "blocked" \in Results \ {"open"} /\ FALSE \in BOOLEAN
  BY <1>3, <1>4 DEF Prepared, Results
<1>6. Closed(mem, u, t, at, "blocked", FALSE)
  BY <1>2, <1>5, FinishFacts, Zenon
<1>. HIDE DEF t
<1>7. /\ t.status = "blocked" /\ t.phase = at /\ t.target = at /\ Rejects(mem, t, at)
      /\ t.progress.next = "blocked"
  BY <1>3, <1>6 DEF Closed, Rejects, Successor
<1>8. Outside(t)
  BY <1>4, <1>7 DEF Outside
<1>9. Review(t)
  BY <1>1, <1>2, <1>6, <1>7, <1>8, ClosedReview
<1>. QED
  BY <1>1, <1>7, <1>9, ConcludeReview

\* An escalation waits.
LEMMA DriverEscalatesReview == ASSUME RunInv, StoryInv, ReviewInv, DriverEscalates PROVE ReviewInv'
<1>. DEFINE l == LogInterrupt(mem, "role-escalation", at, mem.progress.att)
            u == [l EXCEPT !.target = at]
            t == Finish(u, at, "escalated", FALSE)
<1>1. pc = "started" /\ Conclude(t, "finished")
  BY DEF DriverEscalates
<1>2. /\ Started(mem, at) /\ at \in RoleNodes /\ mem \in RunStates /\ at \in Phases
      /\ mem.target \notin {"awaiting_human", "blocked"} /\ "role-escalation" \in Triggers
      /\ mem.progress.att \in Nat /\ Review(mem)
  BY <1>1, RoleStarted DEF Triggers, RunStates, Progress, ReviewInv
<1>3. Prepared(mem, mem)
  BY <1>2 DEF Prepared
<1>4. Prepared(mem, l) /\ l.status = "awaiting-human"
  BY <1>2, <1>3, PreparedInterrupt
<1>5. l.rej = mem.rej
  BY <1>2, LogInterruptFacts
<1>. HIDE DEF l
<1>6. /\ u \in RunStates /\ u.progress = l.progress /\ u.attempts = l.attempts
      /\ u.used = l.used /\ u.intent = l.intent /\ u.human = l.human
      /\ u.target = at /\ u.status = l.status /\ u.rej = mem.rej
  BY <1>2, <1>4, <1>5 DEF RunStates, Prepared
<1>. HIDE DEF u
<1>7. at \notin {"awaiting_human", "blocked"}
  BY <1>2, RoleFacts
<1>8. Prepared(mem, u) /\ "escalated" \in Results \ {"open", "blocked"} /\ FALSE \in BOOLEAN
  BY <1>4, <1>6, <1>7 DEF Prepared, Results
<1>9. Review(t) /\ ~Blocked(t) /\ t.status # "done"
  BY <1>2, <1>4, <1>6, <1>8, FinishReview
<1>. HIDE DEF t
<1>. QED
  BY <1>1, <1>9, ConcludeReview DEF u, l

-----------------------------------------------------------------------------
(* The theorem about the reviews *)

\* Every step of the specification keeps what is said of the reviews.
LEMMA ReviewNext == RunInv /\ StoryInv /\ ReviewInv /\ [Next]_vars => ReviewInv'
<1>. SUFFICES ASSUME RunInv, StoryInv, ReviewInv, [Next]_vars PROVE ReviewInv'
  OBVIOUS
<1>1. RunInv' /\ StoryInv'
  BY NextInv, StoryNext
<1>2. CASE Role
  <2>1. ASSUME RoleFails PROVE ReviewInv'
    BY <2>1, PauseOnFailureReview DEF RoleFails
  <2>. QED
    BY <1>2, <2>1, RoleSucceedsReview, ReviewAcceptsReview, ReviewRejectsReview,
       RoleViolatesContractReview, DriverBlocksReview, DriverEscalatesReview DEF Role
<1>3. CASE Process
  BY <1>1, <1>2, <1>3, HoldReview, CreateAttemptReview, StartReview,
     CheckpointOutcomeReview, RouteReview, LimitReview, StopNodeReview, SaveReview DEF Process
<1>4. CASE GateCheckpoint \/ GateRejects \/ Crash
  BY <1>4, SaveReview
<1>5. CASE Resume
  BY <1>1, <1>5, ResumeReview
<1>6. CASE \E t \in Addressees : QueueIntervention(t)
  BY <1>6, Bounds, QueueReview
<1>7. CASE UNCHANGED vars
  BY <1>7 DEF vars, ReviewInv, PassageInv
<1>. QED
  BY <1>3, <1>4, <1>5, <1>6, <1>7 DEF Next

\* A Run is done only after an accepted review of the last refactoring, which followed
\* an accepted GREEN review: no pause, crash, turn limit, block or resume leads around it.
THEOREM ReviewedCorrect == Spec => []DoneIsReviewed
<1>1. RunInv /\ ReviewInv => DoneIsReviewed
  <2>. SUFFICES ASSUME RunInv, ReviewInv, disk.status = "done" PROVE DoneIsReviewed
    BY DEF DoneIsReviewed
  <2>. DEFINE a == disk.attempts
  <2>1. /\ N(disk) \in Nat /\ N(disk) > 0 /\ N(disk) \in 1 .. N(disk)
        /\ a[N(disk)] = AcceptedRefactor /\ DOMAIN a = 1 .. N(disk) /\ Len(a) = N(disk)
        /\ EnteredInv(disk) /\ a # <<>>
    BY DEF RunInv, RecordInv, Core, RunStates, ReviewInv, Review, Reviewed, N
  <2>2. RefactoredBefore(disk, N(disk))
    BY <2>1 DEF EnteredInv, AcceptedRefactor
  <2>3. PICK j \in 1 .. N(disk) :
           /\ j < N(disk) /\ a[j] = AcceptedRefactoring
           /\ \A i \in 1 .. N(disk) : j < i /\ i < N(disk) => a[i].node = "reviewer_refactor"
    BY <2>2, Zenon DEF RefactoredBefore
  <2>4. GreenBefore(disk, j)
    BY <2>1, <2>3 DEF EnteredInv, AcceptedRefactoring, LastLevel
  <2>5. PICK i \in 1 .. N(disk) : i < j /\ a[i] = AcceptedGreen
    BY <2>4, Zenon DEF GreenBefore
  <2>6. /\ i \in 1 .. j - 1 /\ j \in DOMAIN a
        /\ \A k \in j + 1 .. Len(a) - 1 : a[k].node = "reviewer_refactor"
    BY <2>1, <2>3, <2>5
  <2>. QED
    BY <2>1, <2>3, <2>5, <2>6, Zenon DEF DoneIsReviewed, AcceptedRefactor,
       AcceptedRefactoring, AcceptedGreen
<1>. QED
  BY <1>1, ReviewInit, ReviewNext, Invariance, StoryInvariance, PTL DEF Spec

=============================================================================
