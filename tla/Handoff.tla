------------------------------ MODULE Handoff ------------------------------
(***************************************************************************)
(* The artifact-target handoff of one admitted Run: which files a Driver   *)
(* may be asked to produce is sealed in a contract before its first        *)
(* attempt, reconciled with current evidence before every attempt, and     *)
(* changed only by a human against the tip of the contract chain.          *)
(*                                                                         *)
(* disk is the saved RunState as far as the handoff goes, mem that of the  *)
(* foreground process.  A contract is named by its place in the chain, an  *)
(* attempt by its place in the log; Reviewers and Refactorer, which the    *)
(* gate does not look at, are left to RunGraph.                            *)
(*                                                                         *)
(* A definition under a "Mutant (P)" comment is the next one with a        *)
(* plausible bug that breaks property P; no specification uses it.         *)
(***************************************************************************)
EXTENDS Naturals, Sequences, FiniteSets, SequencesExt

CONSTANTS
    Checkpointed,    \* Driver nodes with a manual checkpoint before them
    Supervised,      \* TRUE: Runs are executed by workers the guard sees
    MaxAttempts,     \* bound: node attempts
    MaxCorrections,  \* bound: human corrections
    MaxEdits,        \* bound: changes of workspace, plan or scope
    MaxCrashes       \* bound: deaths of the process

Drivers == {"driver_red", "driver_green"}

ASSUME HandoffBounds ==
    /\ {MaxAttempts, MaxCorrections, MaxEdits, MaxCrashes} \subseteq Nat
    /\ Checkpointed \subseteq Drivers
    /\ Supervised \in BOOLEAN

VARIABLES
    disk, mem,     \* the Run, saved and in the process
    pc, at,        \* idle | enter | admitted | created | started; the node
    evidence,      \* what the invocation was given: none | exact | stale
    file, plan,    \* who wrote the target file and plan.md (see World)
    policy,        \* version of the write scope
    edits, crashes

world == <<file, plan, policy>>
vars == <<disk, mem, pc, at, evidence, world, edits, crashes>>

Foreign == 99       \* content written by nobody in the Run
Baseline == 0       \* content the Run started from

-----------------------------------------------------------------------------
(* The record *)

\* A contract names the Architect attempt it was sealed from (0: compact) and
\* the contract it supersedes (0: none); whole: every Driver phase is assigned.
Contracts == [arch : Nat, sup : Nat, whole : BOOLEAN]

\* One reconciliation: what was found, and the snapshot it was found against.
Findings == {"stale", "missing"}
Reconciliations == [contract : Nat \ {0}, why : SUBSET Findings, src : Nat,
                    policy : Nat, after : Nat]

Actions == {"approve", "return", "cancel"}
Corrections == [act : Actions, prev : Nat, new : Nat, after : Nat]

\* An attempt; cand is the Architect's typed candidate, wrote a verified write.
Attempts == [node : Drivers \cup {"architect"},
             result : {"open", "ok", "checkpoint", "failed"},
             contract : Nat, wrote : BOOLEAN, cand : {"none", "partial", "whole"}]

\* A pause: a checkpoint before a Driver, or any other.  by is the contract its
\* resolution names.
Pauses == [manual : BOOLEAN, next : Drivers \cup {"architect"},
           resolved : BOOLEAN, by : Nat, after : Nat]

\* intent is the pause whose resolution a resume acts on (0: none); it is pending until an
\* attempt has completed.
Runs == [compact : BOOLEAN, contracts : Seq(Contracts), recs : Seq(Reconciliations),
         corr : Seq(Corrections), active : Nat, atts : Seq(Attempts), log : Seq(Pauses),
         intent : Nat, pending : BOOLEAN,
         status : {"not-started", "in-progress", "awaiting-human", "blocked", "done"},
         stage : {"before", "created", "started", "completed"},
         next : Drivers \cup {"architect", "awaiting_human", "none"}]

FreshRun(compact) ==
    [compact |-> compact, contracts |-> <<>>, recs |-> <<>>, corr |-> <<>>, active |-> 0,
     atts |-> <<>>, log |-> <<>>, intent |-> 0, pending |-> FALSE,
     status |-> "not-started", stage |-> "before",
     next |-> IF compact THEN "driver_red" ELSE "architect"]

Tip(s) == Len(s.contracts)
Ready(r) == r.why = {}

Cancelled(s) == s.corr # <<>> /\ Last(s.corr).act = "cancel"
Architects(s) == {k \in DOMAIN s.atts : s.atts[k].node = "architect"}
LatestArchitect(s) == IF Architects(s) = {} THEN 0
                      ELSE CHOOSE k \in Architects(s) : \A j \in Architects(s) : j <= k
Completed(a) == a.result \in {"ok", "checkpoint"}
Unfinished(s) == {k \in DOMAIN s.atts : s.atts[k].result = "open"}
DriverRan(s) == \E k \in DOMAIN s.atts : s.atts[k].node \in Drivers

\* An attempt that was started and never finished ends the Run.
Terminal(s) == s.status = "done" \/ (Unfinished(s) # {} /\ s.stage = "started")

\* A record the application accepts when it loads it.
ReadyBefore(s, c, n) == \E i \in DOMAIN s.recs :
    s.recs[i].contract = c /\ Ready(s.recs[i]) /\ s.recs[i].after < n
Readable(s) ==
    /\ s \in Runs
    /\ \A c \in DOMAIN s.contracts :
          /\ s.contracts[c].sup = c - 1
          /\ s.contracts[c].arch # 0 =>
                /\ s.contracts[c].arch \in Architects(s)
                /\ Completed(s.atts[s.contracts[c].arch])
    /\ s.active \in {0, Tip(s)}
    /\ \A i \in DOMAIN s.recs : /\ s.recs[i].contract \in DOMAIN s.contracts
                                /\ Ready(s.recs[i]) => s.recs[i].src = Baseline
    /\ \A i \in DOMAIN s.corr : s.corr[i].act = "approve" =>
          /\ s.corr[i].new \in DOMAIN s.contracts
          /\ s.contracts[s.corr[i].new].sup = s.corr[i].prev
    /\ \A i, j \in DOMAIN s.corr : s.corr[i].new = s.corr[j].new /\ s.corr[i].new # 0 => i = j
    /\ \A i \in DOMAIN s.log : s.log[i].by # 0 =>
          /\ s.log[i].manual /\ s.log[i].next \in Drivers /\ s.log[i].resolved
          /\ ReadyBefore(s, s.log[i].by, Len(s.atts) + 1)
    /\ \A k \in DOMAIN s.atts : s.atts[k].contract # 0 => ReadyBefore(s, s.atts[k].contract, k)
    /\ s.intent # 0 => s.intent \in DOMAIN s.log /\ s.log[s.intent].resolved

-----------------------------------------------------------------------------
(* Observation of the workspace *)

\* The last write counts as the Run's own only if its attempt completed.
Receipt(s) ==
    LET W == {k \in DOMAIN s.atts : s.atts[k].wrote}
        k == CHOOSE k \in W : \A j \in W : j <= k
    IN  IF W # {} /\ Completed(s.atts[k]) THEN {k} ELSE {}

\* The source counts as unchanged if every change has a receipt and no attempt
\* is unfinished but the one about to be started.
Unchanged(s) ==
    /\ file \in {Baseline} \cup Receipt(s)
    /\ Unfinished(s) = {} \/ s.stage = "created"

Source(s) == IF Unchanged(s) THEN Baseline ELSE file

\* Mutant (AdmittedRightly): a write scope that changed since the contract was reconciled
\* is not noticed.
MovedUnscoped(s, n) ==
    s.recs # <<>> /\ (Last(s.recs).contract # n \/ Last(s.recs).src # Source(s))

\* The last reconciliation was of another contract, source or write scope.
Moved(s, n) ==
    s.recs # <<>> /\ (\/ Last(s.recs).contract # n \/ Last(s.recs).src # Source(s)
                     \/ Last(s.recs).policy # policy)

\* Assess contract c (number n) of s against the evidence ev and the workspace; a
\* replacement is judged fresh.
Assess(s, c, n, ev, fresh) ==
    LET stale == \/ ev = "stale" \/ ~Unchanged(s) \/ (~fresh /\ Moved(s, n))
                 \/ c.arch # 0 /\ (c.arch # LatestArchitect(s) \/ plan # c.arch)
        missing == ~c.whole \/ (~s.compact /\ c.arch = 0)
    IN  [contract |-> n, src |-> Source(s), policy |-> policy, after |-> Len(s.atts),
         why |-> (IF stale THEN {"stale"} ELSE {}) \cup (IF missing THEN {"missing"} ELSE {})]

Same(a, b) == [a EXCEPT !.after = 0] = [b EXCEPT !.after = 0]

\* A different result may not follow a clarification: only a human can.
MayRecord(s, r) == s.recs # <<>> => Ready(Last(s.recs)) \/ Same(Last(s.recs), r)

Reconcile(s, c, n, ev) ==
    LET r == Assess(s, c, n, ev, FALSE)
    IN  IF s.recs # <<>> /\ Same(Last(s.recs), r) THEN s
        ELSE [s EXCEPT !.contracts = IF @ = <<>> THEN <<c>> ELSE @,
                       !.recs = Append(@, r), !.active = n]

\* The contracts initial sealing may construct from the Run's own evidence.
Candidates(s) ==
    LET k == LatestArchitect(s) IN
    IF DriverRan(s) \/ s.corr # <<>> \/ s.status = "done" THEN {}
    ELSE IF s.compact THEN [arch : {0}, sup : {0}, whole : BOOLEAN]
    ELSE IF k # 0 /\ Completed(s.atts[k]) /\ s.atts[k].cand # "none"
         THEN {[arch |-> k, sup |-> 0, whole |-> s.atts[k].cand = "whole"]}
         ELSE {}

\* The contract to judge: the first one is constructed, later ones are active.
Judged(s) == IF s.contracts = <<>> THEN Candidates(s)
             ELSE IF s.active = 0 THEN {} ELSE {s.contracts[s.active]}

\* plan.md can be read, unless the contract names none.
PlanReadable(c) == c.arch = 0 \/ plan # 0


\* Mutant (AuthorizationExact): a resolved checkpoint admits any contract.
AuthorisedByAny(s) ==
    LET C == {i \in DOMAIN s.log : s.log[i].manual}
        i == CHOOSE i \in C : \A j \in C : j <= i
    IN  C # {} => s.log[i].resolved

\* The last checkpoint before a Driver was resolved for the active contract.
Authorised(s) ==
    LET C == {i \in DOMAIN s.log : s.log[i].manual}
        i == CHOOSE i \in C : \A j \in C : j <= i
    IN  C # {} => s.log[i].resolved /\ s.log[i].by = s.active

\* The attempt a crash left created keeps its contract.
RetainsContract(s, node) ==
    s.stage = "created" =>
        \E k \in Unfinished(s) : s.atts[k].node = node /\ s.atts[k].contract = s.active

\* What the admission gate makes of s: the states it may save.
Observed(s, ev, node) ==
    IF Cancelled(s) \/ s.status = "done" \/ ev = "none" \/ ~RetainsContract(s, node) THEN {}
    ELSE {Reconcile(s, c, IF s.active = 0 THEN 1 ELSE s.active, ev) :
             c \in {c \in Judged(s) :
                       /\ PlanReadable(c)
                       /\ MayRecord(s, Assess(s, c, IF s.active = 0 THEN 1 ELSE s.active,
                                              ev, FALSE))}}

Admits(u) == Ready(Last(u.recs)) /\ Authorised(u)

-----------------------------------------------------------------------------
(* The foreground process *)

Init ==
    /\ disk \in {FreshRun(c) : c \in BOOLEAN} /\ mem = disk
    /\ pc = "idle" /\ at = "architect" /\ evidence = "none"
    /\ file = Baseline /\ plan = 0 /\ policy = 0
    /\ edits = 0 /\ crashes = 0

Outside == <<world, edits, crashes>>

\* The invocation is over; nothing of it but the record remains.
Ends == pc' = "idle" /\ at' = "architect" /\ evidence' = "none"

GateAdmits ==
    /\ pc = "enter" /\ at \in Drivers
    /\ \E u \in Observed(mem, evidence, at) :
          /\ Admits(u)
          /\ mem' = u
          /\ disk' = IF u = mem THEN disk ELSE u
    /\ pc' = "admitted"
    /\ UNCHANGED <<at, evidence, Outside>>

\* The refused invocation ends; what the gate recorded is saved.
GateRejects ==
    /\ pc = "enter" /\ at \in Drivers
    /\ \/ Observed(mem, evidence, at) = {} /\ mem' = mem
       \/ \E u \in Observed(mem, evidence, at) : ~Admits(u) /\ mem' = u
    /\ disk' = mem' /\ Ends
    /\ UNCHANGED Outside

CreateAttempt ==
    /\ pc = IF at \in Drivers THEN "admitted" ELSE "enter"
    /\ ~Cancelled(mem)
    /\ \/ mem.stage = "created" /\ mem' = mem
       \/ /\ mem.stage # "created" /\ Len(mem.atts) < MaxAttempts
          /\ mem' = [mem EXCEPT
                !.atts = Append(@, [node |-> at, result |-> "open", wrote |-> FALSE,
                                    contract |-> IF at \in Drivers THEN mem.active ELSE 0,
                                    cand |-> "none"]),
                !.stage = "created", !.next = at]
    /\ disk' = mem' /\ pc' = "created"
    /\ UNCHANGED <<at, evidence, Outside>>

StartAttempt ==
    /\ pc = "created"
    /\ mem' = [mem EXCEPT !.stage = "started"]
    /\ disk' = mem' /\ pc' = "started"
    /\ UNCHANGED <<at, evidence, Outside>>

After == [architect |-> "driver_red", driver_red |-> "driver_green",
          driver_green |-> "done"]

\* The attempt's result, candidate and verified write, and its pause if any; the intent it
\* was resumed with is used up.
Close(s, result, wrote, cand, pause) ==
    LET k == Len(s.atts) IN
    [s EXCEPT !.atts[k] = [@ EXCEPT !.result = result, !.wrote = wrote, !.cand = cand],
              !.log = @ \o pause,
              !.stage = "completed", !.pending = FALSE,
              !.status = IF pause = <<>> THEN "in-progress" ELSE "awaiting-human"]

Pause(manual, next, after) ==
    [manual |-> manual, next |-> next, resolved |-> FALSE, by |-> 0, after |-> after]

RoleSucceeds ==
    /\ pc = "started"
    /\ LET k == Len(mem.atts)
           next == After[at]
           paused == next \in Checkpointed
           pause == IF paused THEN <<Pause(TRUE, next, k)>> ELSE <<>>
           result == IF paused THEN "checkpoint" ELSE "ok"
       IN  /\ \E wrote \in BOOLEAN, cand \in {"none", "partial", "whole"} :
                 /\ IF at = "architect" THEN ~wrote ELSE cand = "none"
                 /\ plan' = IF at = "architect" THEN k ELSE plan
                 /\ file' = IF wrote THEN k ELSE file
                 /\ mem' = [Close(mem, result, wrote, cand, pause)
                             EXCEPT !.next = CASE paused -> "awaiting_human"
                                               [] next = "done" -> "none"
                                               [] OTHER -> next,
                                    !.status = IF next = "done" THEN "done" ELSE @]
           /\ IF paused \/ next = "done" THEN Ends
              ELSE pc' = "enter" /\ at' = next /\ evidence' = evidence
    /\ disk' = mem'
    /\ UNCHANGED <<policy, edits, crashes>>

\* A failed role may have written first.
RoleFails ==
    /\ pc = "started"
    /\ \E wrote \in BOOLEAN :
          /\ mem' = [Close(mem, "failed", wrote /\ at \in Drivers, "none",
                           <<Pause(FALSE, at, Len(mem.atts))>>) EXCEPT !.next = "awaiting_human"]
          /\ file' = IF wrote /\ at \in Drivers THEN Len(mem.atts) ELSE file
          /\ plan' = IF wrote /\ at = "architect" THEN Len(mem.atts) ELSE plan
    /\ disk' = mem' /\ Ends
    /\ UNCHANGED <<policy, edits, crashes>>

Crash ==
    /\ pc # "idle" /\ crashes < MaxCrashes /\ crashes' = crashes + 1
    /\ file' \in {file} \cup (IF pc = "started" /\ at \in Drivers THEN {Len(mem.atts)} ELSE {})
    /\ mem' = disk /\ Ends
    /\ UNCHANGED <<disk, plan, policy, edits>>

-----------------------------------------------------------------------------
(* Humans *)

\* Mutant (HistoryStands): corrections are accepted beside a running worker.
Unguarded == TRUE

\* _inactive_worker_guard; it does not see a foreground process.
Guarded == Supervised => pc = "idle"

\* Save s; an idle process holds nothing else.
Commit(s) ==
    /\ disk' = s
    /\ mem' = IF pc = "idle" THEN s ELSE mem
    /\ UNCHANGED <<pc, at, evidence, world, edits, crashes>>

\* Initial sealing, by command or by the gate: nothing human is overwritten.
Seal(ev) ==
    /\ Guarded /\ ev # "none" /\ Len(disk.recs) < MaxAttempts
    /\ \E c \in Candidates(disk) :
          /\ disk.contracts # <<>> => disk.active # 0 /\ disk.contracts[disk.active] = c
          /\ PlanReadable(c)
          /\ MayRecord(disk, Assess(disk, c, 1, ev, FALSE))
          /\ Reconcile(disk, c, 1, ev) # disk
          /\ Commit(Reconcile(disk, c, 1, ev))

\* Mutant (TypeOK): the correction is not compared with the tip.
CorrectableBlindly(tip) ==
    /\ Guarded /\ Len(disk.corr) < MaxCorrections
    /\ disk.status # "done" /\ ~Cancelled(disk) /\ Unfinished(disk) = {}

\* tip is what the human saw: still the tip, and nothing ended is changed.
Correctable(tip) ==
    /\ Guarded /\ Len(disk.corr) < MaxCorrections
    /\ disk.status # "done" /\ ~Cancelled(disk) /\ Unfinished(disk) = {}
    /\ tip = Tip(disk)

Correction(act, tip, new) ==
    [act |-> act, prev |-> tip, new |-> new, after |-> Len(disk.atts)]

\* Mutant (ReturnNeedsNewArchitect): the old Architect's targets may be approved.
ArchitectRenewedNot(s) == TRUE

\* After a return to the Architect a newer attempt of it must exist.
ArchitectRenewed(s) ==
    s.corr # <<>> /\ Last(s.corr).act = "return" => LatestArchitect(s) > Last(s.corr).after

\* A resolved Driver checkpoint is renewed for the replacement contract.
LastCheckpoint(s) == {i \in DOMAIN s.log : s.log[i].manual /\ \A j \in DOMAIN s.log :
                                               s.log[j].manual => j <= i}
Renewed(s) ==
    LET i == CHOOSE i \in LastCheckpoint(s) : TRUE
        target == IF s.next = "none" THEN s.log[i].next ELSE s.next
    IN  IF LastCheckpoint(s) = {} \/ ~s.log[i].resolved THEN {s}
        ELSE IF target \in Drivers
             THEN {[s EXCEPT !.log = Append(@, Pause(TRUE, target, Len(s.atts))),
                             !.intent = 0, !.pending = FALSE, !.status = "awaiting-human"]}
             ELSE {}

Approve(tip) ==
    /\ Correctable(tip) /\ ArchitectRenewed(disk)
    /\ \E arch \in {0, LatestArchitect(disk)}, whole \in BOOLEAN :
       LET c == [arch |-> arch, sup |-> tip, whole |-> whole]
           n == Tip(disk) + 1
           r == Assess(disk, c, n, "exact", TRUE)
           u == [disk EXCEPT !.contracts = Append(@, c), !.recs = Append(@, r), !.active = n,
                             !.corr = Append(@, Correction("approve", tip, n))]
       IN  /\ arch # 0 => Completed(disk.atts[arch]) /\ PlanReadable(c)
           /\ Ready(r)
           /\ \E s \in Renewed(u) : Commit(s)

Return(tip) ==
    /\ Correctable(tip) /\ ~disk.compact
    /\ Commit([disk EXCEPT !.corr = Append(@, Correction("return", tip, 0)), !.active = 0,
                           !.intent = 0, !.pending = FALSE, !.status = "not-started",
                           !.stage = "before", !.next = "architect"])

Cancel(tip) ==
    /\ Correctable(tip)
    /\ Commit([disk EXCEPT !.corr = Append(@, Correction("cancel", tip, 0)), !.active = 0,
                           !.intent = 0, !.pending = FALSE, !.status = "blocked",
                           !.stage = "before", !.next = "none"])

LatestOpen(s) == {i \in DOMAIN s.log : ~s.log[i].resolved /\ \A j \in DOMAIN s.log :
                                           ~s.log[j].resolved => j <= i}

\* The decision d of pause i names contract c only for a ready Driver checkpoint.
MayResolve(s, i, c) ==
    IF s.log[i].manual /\ (s.recs # <<>> \/ s.corr # <<>>)
    THEN /\ c # 0 /\ c = s.active
         /\ s.recs # <<>> /\ Last(s.recs).contract = c /\ Ready(Last(s.recs))
    ELSE c = 0

\* The decision and the intent to act on it are saved together.
Resolved(s, i, c) ==
    [s EXCEPT !.log[i] = [@ EXCEPT !.resolved = TRUE, !.by = c],
              !.intent = i, !.pending = TRUE, !.stage = "before", !.next = "none"]

\* A resume repeats the pending decision, decides an open pause, or goes on as it is.
Decided(s, c) ==
    {r \in {s} : s.pending /\ s.log[s.intent].by = c}
    \cup IF s.status = "awaiting-human"
         THEN {Resolved(s, i, c) : i \in {i \in LatestOpen(s) : MayResolve(s, i, c)}}
         ELSE {s}

\* A contract the resume names is that of the decision it acts on, and passes the gate
\* before the decision counts.
Authorising(r, c, ev) ==
    IF c = 0 THEN {r}
    ELSE IF r.intent # 0 /\ r.log[r.intent].by = c
         THEN {u \in Observed(r, ev, r.log[r.intent].next) : Admits(u)}
         ELSE {}

\* What a resume may save.
Prepared(s, c, ev) == UNION {Authorising(r, c, ev) : r \in Decided(s, c)}

EntryNode(s) == IF s.next \in Drivers \cup {"architect"} THEN s.next
                ELSE IF s.log = <<>> THEN "architect" ELSE Last(s.log).next

Resume(c, ev) ==
    /\ pc = "idle" /\ ~disk.compact
    /\ ~Cancelled(disk) /\ ~Terminal(disk)
    /\ \E s \in Prepared(disk, c, ev) :
          /\ disk' = s
          /\ mem' = [s EXCEPT !.status = "in-progress"]
          /\ at' = EntryNode(s)
    /\ pc' = "enter" /\ evidence' = ev
    /\ UNCHANGED <<world, edits, crashes>>

-----------------------------------------------------------------------------
(* The world *)

Edit ==
    /\ edits < MaxEdits /\ edits' = edits + 1
    /\ \/ file' \in {Baseline, Foreign} \ {file} /\ UNCHANGED <<plan, policy>>
       \/ plan' \in {0, Foreign} \ {plan} /\ UNCHANGED <<file, policy>>
       \/ policy' = policy + 1 /\ UNCHANGED <<file, plan>>
    /\ UNCHANGED <<disk, mem, pc, at, evidence, crashes>>

Process == \/ GateAdmits \/ GateRejects \/ CreateAttempt \/ StartAttempt
           \/ RoleSucceeds \/ RoleFails

Evidences == {"none", "exact", "stale"}
Human == \/ \E tip \in 0..Tip(disk) : Approve(tip) \/ Return(tip) \/ Cancel(tip)
         \/ \E c \in 0..Tip(disk), ev \in Evidences : Resume(c, ev)

Next == \/ Process \/ Crash \/ Edit \/ Human
        \/ \E ev \in Evidences : Seal(ev)

Spec == Init /\ [][Next]_vars

=============================================================================
