---------------------------- MODULE Handoff_proofs ----------------------------
(***************************************************************************)
(* Proofs about Handoff, for every checkpoint list and every bound.        *)
(*                                                                         *)
(* RecordInv is what every copy of the record satisfies, saved or in the   *)
(* process; ControlInv is where the process is in terms of the record it   *)
(* holds.  Their invariance needs no assumption about who may correct a    *)
(* Run that executes; HistoryStands does, and takes AgreeInv besides.      *)
(***************************************************************************)
EXTENDS HandoffProps, SequenceTheorems, WellFoundedInduction, TLAPS

-----------------------------------------------------------------------------
(* The inductive invariant *)

Nodes == Drivers \cup {"architect"}

\* One supersession chain of completed Architects, active at its end or nowhere.
ChainInv(s) ==
    /\ \A c \in DOMAIN s.contracts :
          /\ s.contracts[c].sup = c - 1
          /\ s.contracts[c].arch # 0 =>
                /\ s.contracts[c].arch \in DOMAIN s.atts
                /\ s.atts[s.contracts[c].arch].node = "architect"
                /\ Completed(s.atts[s.contracts[c].arch])
    /\ s.active \in {0, Tip(s)}

\* Evidence follows the chain; what needed clarification is the last about its
\* contract, and what is ready is under one write scope.
EvidenceInv(s) ==
    /\ \A i \in DOMAIN s.recs :
          /\ s.recs[i].contract \in DOMAIN s.contracts
          /\ Ready(s.recs[i]) => s.recs[i].src = Baseline
          /\ s.recs[i].after <= Len(s.atts)
    /\ \A i, j \in DOMAIN s.recs : i < j =>
          /\ s.recs[i].contract <= s.recs[j].contract
          /\ s.recs[i].contract = s.recs[j].contract =>
                /\ Ready(s.recs[i])
                /\ Ready(s.recs[j]) => s.recs[i].policy = s.recs[j].policy

\* Each approval adds the contract it names, a cancellation ends the corrections
\* and leaves nothing active, and only a Run with an Architect is returned to it.
CorrectionInv(s) ==
    /\ \A i \in DOMAIN s.corr :
          /\ s.corr[i].act = "approve" =>
                /\ s.corr[i].new \in DOMAIN s.contracts
                /\ s.contracts[s.corr[i].new].sup = s.corr[i].prev
          /\ s.corr[i].act # "approve" => s.corr[i].new = 0
          /\ s.corr[i].act = "return" => ~s.compact
          /\ s.corr[i].act = "cancel" => i = Len(s.corr) /\ s.active = 0
    /\ \A i, j \in DOMAIN s.corr : s.corr[i].new = s.corr[j].new /\ s.corr[i].new # 0 => i = j
    /\ \A i, j \in DOMAIN s.corr : s.corr[i].act = "return" /\ j = i + 1 /\ s.corr[j].act = "approve"
          => s.contracts[s.corr[j].new].arch > s.corr[i].after

\* Only a Driver's checkpoint is resolved for a contract, and on ready evidence.
LogInv(s) ==
    \A i \in DOMAIN s.log :
       /\ s.log[i].manual => s.log[i].next \in Drivers
       /\ s.log[i].after <= Len(s.atts)
       /\ s.log[i].by # 0 => /\ s.log[i].manual /\ s.log[i].resolved
                             /\ ReadyBefore(s, s.log[i].by, Len(s.atts) + 1)

\* Attempt k of a Driver rests on evidence, and on authority if it needs one.
Founded(s, k) ==
    /\ s.atts[k].contract # 0 => ReadyBefore(s, s.atts[k].contract, k)
    /\ \A i \in DOMAIN s.recs :
          ~Ready(s.recs[i]) /\ s.atts[k].contract = s.recs[i].contract => k <= s.recs[i].after
    /\ s.atts[k].node \in Drivers =>
          \A i \in DOMAIN s.log :
             /\ s.log[i].manual /\ s.log[i].after < k
             /\ \A j \in DOMAIN s.log : s.log[j].manual /\ s.log[j].after < k => j <= i
             => s.log[i].resolved /\ s.log[i].by = s.atts[k].contract

AttemptInv(s) == \A k \in DOMAIN s.atts : Founded(s, k)

\* The newest attempt is open exactly while the stage says so.
StageInv(s) ==
    /\ \A k \in DOMAIN s.atts :
          s.atts[k].result = "open" => k = Len(s.atts) /\ s.stage \in {"created", "started"}
    /\ s.stage \in {"created", "started"} =>
          /\ s.atts # <<>> /\ s.atts[Len(s.atts)].result = "open"
          /\ s.atts[Len(s.atts)].node = s.next
          /\ s.status # "awaiting-human"

\* A resume acts on a resolved pause.
IntentInv(s) == s.intent # 0 => s.intent \in DOMAIN s.log /\ s.log[s.intent].resolved

RecordInv(s) ==
    /\ s \in Runs
    /\ ChainInv(s) /\ EvidenceInv(s) /\ CorrectionInv(s)
    /\ LogInv(s) /\ AttemptInv(s) /\ StageInv(s) /\ IntentInv(s)

\* The newest evidence found the end of the chain ready.
ReadyTip(s) ==
    /\ s.active = Tip(s) /\ s.active # 0 /\ s.recs # <<>>
    /\ s.recs[Len(s.recs)].contract = s.active /\ Ready(s.recs[Len(s.recs)])

\* Where the process is, in terms of the record it holds.
ControlInv ==
    /\ pc \in {"idle", "enter", "admitted", "created", "started"}
    /\ at \in Nodes
    /\ pc # "idle" => mem.status = "in-progress"
    /\ pc \in {"enter", "admitted"} =>
          /\ mem.stage # "started"
          /\ mem.stage = "created" => mem.next = at
    /\ pc = "admitted" =>
          /\ at \in Drivers /\ ReadyTip(mem) /\ Authorised(mem)
          /\ mem.stage = "created" => mem.atts[Len(mem.atts)].contract = mem.active
    /\ pc \in {"created", "started"} =>
          /\ mem.stage = pc /\ mem.next = at
          /\ at \in Drivers => ReadyTip(mem) /\ mem.atts[Len(mem.atts)].contract = mem.active

World == file \in Nat /\ plan \in Nat /\ policy \in Nat /\ edits \in Nat

Inv == RecordInv(disk) /\ RecordInv(mem) /\ ControlInv /\ World

-----------------------------------------------------------------------------
(* Records, reconciliations and sequences *)

LEMMA RunTyped ==
  ASSUME NEW s \in Runs
  PROVE  /\ s.contracts \in Seq(Contracts) /\ DOMAIN s.contracts = 1..Len(s.contracts)
         /\ s.recs \in Seq(Reconciliations) /\ DOMAIN s.recs = 1..Len(s.recs)
         /\ s.corr \in Seq(Corrections) /\ DOMAIN s.corr = 1..Len(s.corr)
         /\ s.atts \in Seq(Attempts) /\ DOMAIN s.atts = 1..Len(s.atts)
         /\ s.log \in Seq(Pauses) /\ DOMAIN s.log = 1..Len(s.log)
         /\ Len(s.contracts) \in Nat /\ Len(s.recs) \in Nat /\ Len(s.corr) \in Nat
         /\ Len(s.atts) \in Nat /\ Len(s.log) \in Nat
         /\ s.active \in Nat
BY SMT DEF Runs

LEMMA Appended ==
  ASSUME NEW S, NEW q \in Seq(S), NEW e \in S
  PROVE  LET p == Append(q, e) IN
         /\ p \in Seq(S) /\ Len(p) = Len(q) + 1 /\ DOMAIN p = 1..(Len(q) + 1)
         /\ p[Len(q) + 1] = e /\ \A i \in 1..Len(q) : p[i] = q[i]
         /\ p # <<>> /\ Last(p) = e
BY SMT DEF Last

\* A sequence is an initial part of itself and of itself with one more element.
LEMMA PrefixOfItself == ASSUME NEW S, NEW q \in Seq(S) PROVE IsPrefix(q, q)
BY SMT DEF IsPrefix

LEMMA PrefixOfAppended ==
  ASSUME NEW S, NEW q \in Seq(S), NEW e \in S PROVE IsPrefix(q, Append(q, e))
<1>1. Append(q, e) \in Seq(S) /\ Len(Append(q, e)) = Len(q) + 1 /\ Len(q) \in Nat
  BY SMT
<1>2. SubSeq(q, 1, Len(q)) = SubSeq(Append(q, e), 1, Len(q))
  BY SMT
<1> QED BY <1>1, <1>2, SMT DEF IsPrefix

\* What an assessment of contract c, number n, records; ready evidence found the
\* source and the plan unchanged and the contract complete.
Judgement(s, c, n, r) ==
    /\ r \in Reconciliations /\ r.contract = n /\ r.after = Len(s.atts)
    /\ r.policy = policy
    /\ Ready(r) => /\ r.src = Baseline /\ Unchanged(s) /\ c.arch \in {0, plan}
                   /\ c.whole /\ (s.compact \/ c.arch # 0)

\* The write scope is still that of the last reconciliation, if there is one.
Unmoved(s) == s.recs # <<>> => Last(s.recs).policy = policy

LEMMA AssessTyped ==
  ASSUME NEW s \in Runs, World, NEW c \in Contracts, NEW n \in Nat \ {0}, NEW ev
  PROVE  /\ Judgement(s, c, n, Assess(s, c, n, ev, FALSE))
         /\ Judgement(s, c, n, Assess(s, c, n, ev, TRUE))
         /\ Ready(Assess(s, c, n, ev, FALSE)) => Unmoved(s)
<1>1. ASSUME NEW f PROVE Judgement(s, c, n, Assess(s, c, n, ev, f))
  <2> DEFINE r == Assess(s, c, n, ev, f)
  <2>1. Len(s.atts) \in Nat
    BY RunTyped
  <2>2. r.src \in Nat /\ r.policy \in Nat /\ (Unchanged(s) => r.src = Baseline)
    BY SMT DEF Assess, Source, World, Baseline
  <2>3. r.why \in SUBSET Findings
    BY SMT DEF Assess, Findings
  <2>4. r.contract = n /\ r.after = Len(s.atts) /\ r.policy = policy
    BY SMT DEF Assess
  <2>5. r = [contract |-> r.contract, src |-> r.src, policy |-> r.policy, after |-> r.after,
             why |-> r.why]
    BY SMT DEF Assess
  <2>6. Ready(r) => /\ Unchanged(s) /\ c.arch \in {0, plan}
                    /\ c.whole /\ (s.compact \/ c.arch # 0)
    BY SMT DEF Assess, Ready
  <2> HIDE DEF r
  <2> QED
    BY <2>1, <2>2, <2>3, <2>4, <2>5, <2>6, SMT DEF Reconciliations, Judgement, r
<1>2. Ready(Assess(s, c, n, ev, FALSE)) => ~Moved(s, n)
  BY SMT DEF Assess, Ready
<1> QED BY <1>1, <1>2, Zenon DEF Moved, Unmoved

\* Of attempts, there is a newest.
LEMMA NewestExists ==
  ASSUME NEW S, S \subseteq Nat, S # {}, NEW n \in Nat, \A k \in S : k <= n
  PROVE  \E k \in S : \A j \in S : j <= k
<1> DEFINE Gap == {n - k : k \in S}
           Less == OpToRel(<, Nat)
<1>1. Gap \subseteq Nat /\ Gap # {}
  <2>1. \A k \in S : k \in Int /\ k <= n
    OBVIOUS
  <2>2. \A k \in S : n - k \in Nat
    BY <2>1
  <2> QED BY <2>2
<1>2. PICK g \in Gap : \A h \in Gap : ~ (<<h, g>> \in Less)
  <2> HIDE DEF Gap, Less
  <2> QED BY <1>1, NatLessThanWellFounded, WFMin DEF Less
<1>3. \A h \in Gap : h \in Nat /\ g \in Nat /\ ~ (h < g)
  BY <1>1, <1>2 DEF OpToRel
<1> QED
  BY <1>3

LEMMA NewestArchitect ==
  ASSUME NEW s \in Runs
  PROVE  /\ LatestArchitect(s) \in Nat
         /\ LatestArchitect(s) # 0 => /\ LatestArchitect(s) \in DOMAIN s.atts
                                      /\ s.atts[LatestArchitect(s)].node = "architect"
<1>1. Architects(s) \subseteq Nat /\ \A k \in Architects(s) : k <= Len(s.atts)
  BY RunTyped, SMT DEF Architects
<1>2. CASE Architects(s) = {}
  BY <1>2 DEF LatestArchitect
<1>3. CASE Architects(s) # {}
  <2>1. \E k \in Architects(s) : \A j \in Architects(s) : j <= k
    BY <1>1, <1>3, RunTyped, NewestExists
  <2>2. LatestArchitect(s) \in Architects(s)
    BY <1>3, <2>1 DEF LatestArchitect
  <2> QED BY <1>1, <2>2, SMT DEF Architects
<1> QED BY <1>2, <1>3

-----------------------------------------------------------------------------
(* What a reconciliation keeps *)

\* Each part of the invariant reads some fields of the record only.
LEMMA SameChain ==
  ASSUME NEW s, NEW t, ChainInv(s), t.contracts = s.contracts, t.active = s.active,
         t.atts = s.atts
  PROVE  ChainInv(t)
BY DEF ChainInv, Tip

\* The chain needs no more of the attempts than that they stay what they are.
LEMMA ChainStands ==
  ASSUME NEW s, NEW t, ChainInv(s), t.contracts = s.contracts, t.active = s.active,
         \A k \in DOMAIN s.atts : /\ k \in DOMAIN t.atts /\ t.atts[k].node = s.atts[k].node
                                  /\ Completed(s.atts[k]) => Completed(t.atts[k])
  PROVE  ChainInv(t)
BY DEF ChainInv, Tip

LEMMA SameEvidence ==
  ASSUME NEW s, NEW t, EvidenceInv(s), t.contracts = s.contracts, t.recs = s.recs,
         Len(t.atts) = Len(s.atts)
  PROVE  EvidenceInv(t)
BY DEF EvidenceInv

LEMMA SameCorrections ==
  ASSUME NEW s, NEW t, CorrectionInv(s), t.contracts = s.contracts, t.corr = s.corr,
         t.active = s.active, t.compact = s.compact
  PROVE  CorrectionInv(t)
BY DEF CorrectionInv

\* A pause that is resolved stays resolved.
LEMMA SameIntent ==
  ASSUME NEW s, NEW t, IntentInv(s), t.intent \in {0, s.intent},
         \A i \in DOMAIN s.log : /\ i \in DOMAIN t.log
                                 /\ s.log[i].resolved => t.log[i].resolved
  PROVE  IntentInv(t)
BY DEF IntentInv

\* The invariant reads neither the status nor, while nothing is open, the stage.
LEMMA SameHistory ==
  ASSUME NEW s, RecordInv(s), NEW t \in Runs,
         t.contracts = s.contracts, t.recs = s.recs, t.corr = s.corr, t.active = s.active,
         t.atts = s.atts, t.log = s.log, t.compact = s.compact, StageInv(t),
         t.intent \in {0, s.intent}
  PROVE  RecordInv(t)
<1>1. ChainInv(t) /\ EvidenceInv(t) /\ CorrectionInv(t)
  <2>1. ChainInv(s) /\ EvidenceInv(s) /\ CorrectionInv(s)
    BY DEF RecordInv
  <2>. QED BY <2>1, SameChain, SameEvidence, SameCorrections
<1>2. \A c, n : ReadyBefore(t, c, n) <=> ReadyBefore(s, c, n)
  BY DEF ReadyBefore
<1>3. LogInv(t)
  BY <1>2, SMT DEF RecordInv, LogInv
<1>4. AttemptInv(t)
  BY <1>2, SMT DEF RecordInv, AttemptInv, Founded
<1>5. IntentInv(t)
  BY SameIntent DEF RecordInv
<1> QED BY <1>1, <1>3, <1>4, <1>5 DEF RecordInv

\* Adding evidence r about the end of the chain t keeps what s had.
LEMMA EvidenceAdded ==
  ASSUME NEW s, RecordInv(s), NEW t \in Runs, NEW r \in Reconciliations,
         t.recs = Append(s.recs, r), t.atts = s.atts, t.log = s.log,
         Tip(s) <= Tip(t), r.contract = Tip(t), Tip(t) # 0,
         r.after = Len(s.atts), Ready(r) => r.src = Baseline,
         Tip(s) = Tip(t) /\ s.recs # <<>> =>
            Ready(Last(s.recs)) /\ (Ready(r) => Last(s.recs).policy = r.policy)
  PROVE  EvidenceInv(t) /\ LogInv(t) /\ AttemptInv(t)
<1>1. s \in Runs
  BY DEF RecordInv
<1> DEFINE m == Len(s.recs)
<1>2. /\ m \in Nat /\ DOMAIN s.recs = 1..m /\ DOMAIN t.recs = 1..(m + 1)
      /\ t.recs[m + 1] = r /\ \A i \in 1..m : t.recs[i] = s.recs[i]
      /\ Len(s.atts) \in Nat /\ DOMAIN s.atts = 1..Len(s.atts)
      /\ DOMAIN s.log = 1..Len(s.log)
      /\ DOMAIN s.contracts = 1..Tip(s) /\ DOMAIN t.contracts = 1..Tip(t)
      /\ Tip(s) \in Nat /\ Tip(t) \in Nat
      /\ \A i \in 1..m : s.recs[i].contract \in Nat /\ s.recs[i].after \in Nat
  <2>1. s.recs \in Seq(Reconciliations) /\ m \in Nat /\ DOMAIN s.recs = 1..m
    BY <1>1, RunTyped
  <2>2. \A i \in 1..m : s.recs[i].contract \in Nat /\ s.recs[i].after \in Nat
    <3>1. \A i \in 1..m : s.recs[i] \in Reconciliations
      BY <2>1
    <3>2. \A q \in Reconciliations : q.contract \in Nat /\ q.after \in Nat
      BY DEF Reconciliations
    <3> QED BY <3>1, <3>2
  <2>3. /\ DOMAIN t.recs = 1..(m + 1) /\ t.recs[m + 1] = r
        /\ \A i \in 1..m : t.recs[i] = s.recs[i]
    BY <2>1, Appended
  <2>4. /\ DOMAIN s.contracts = 1..Tip(s) /\ Tip(s) \in Nat
        /\ DOMAIN t.contracts = 1..Tip(t) /\ Tip(t) \in Nat
    BY <1>1, RunTyped DEF Tip
  <2> QED BY <1>1, <2>1, <2>2, <2>3, <2>4, RunTyped
<1>3. Last(s.recs) = s.recs[m]
  BY DEF Last
<1>4. EvidenceInv(t)
  <2>1. ASSUME NEW i \in DOMAIN t.recs
        PROVE  /\ t.recs[i].contract \in DOMAIN t.contracts
               /\ Ready(t.recs[i]) => t.recs[i].src = Baseline
               /\ t.recs[i].after <= Len(t.atts)
    <3>1. CASE i = m + 1
      BY <1>2, <3>1, SMT
    <3>2. CASE i \in 1..m
      <4>1. /\ s.recs[i].contract \in 1..Tip(s)
            /\ Ready(s.recs[i]) => s.recs[i].src = Baseline
            /\ s.recs[i].after <= Len(s.atts)
        BY <1>2, <3>2 DEF RecordInv, EvidenceInv
      <4> QED BY <1>2, <3>2, <4>1, SMT
    <3> QED BY <1>2, <3>1, <3>2, SMT
  <2>2. ASSUME NEW i \in DOMAIN t.recs, NEW j \in DOMAIN t.recs, i < j
        PROVE  /\ t.recs[i].contract <= t.recs[j].contract
               /\ t.recs[i].contract = t.recs[j].contract =>
                     /\ Ready(t.recs[i])
                     /\ Ready(t.recs[j]) => t.recs[i].policy = t.recs[j].policy
    <3>1. CASE j \in 1..m
      BY <1>2, <2>2, <3>1, SMT DEF RecordInv, EvidenceInv
    <3>2. CASE j = m + 1
      <4>1. i \in 1..m /\ m # 0 /\ m \in 1..m /\ s.recs[i].contract \in 1..Tip(s)
        <5>1. i \in 1..m
          BY <1>2, <2>2, <3>2, SMT
        <5>2. s.recs[i].contract \in DOMAIN s.contracts
          BY <1>2, <5>1 DEF RecordInv, EvidenceInv
        <5> QED BY <1>2, <5>1, <5>2, SMT
      <4>2. s.recs[i].contract = Tip(t) => Tip(s) = Tip(t) /\ s.recs # <<>>
        BY <1>2, <4>1, SMT
      <4>3. s.recs[i].contract = Tip(t) =>
               Ready(s.recs[m]) /\ (Ready(r) => s.recs[m].policy = r.policy)
        BY <1>3, <4>2
      <4>4. s.recs[i].contract = Tip(t) /\ i # m =>
               Ready(s.recs[i]) /\ (Ready(s.recs[m]) => s.recs[i].policy = s.recs[m].policy)
        <5>1. i # m => /\ i < m /\ s.recs[i].contract <= s.recs[m].contract
                       /\ s.recs[i].contract = s.recs[m].contract =>
                             /\ Ready(s.recs[i])
                             /\ Ready(s.recs[m]) => s.recs[i].policy = s.recs[m].policy
          <6>1. i # m => i < m
            BY <1>2, <4>1, SMT
          <6> QED BY <1>2, <4>1, <6>1, Zenon DEF RecordInv, EvidenceInv
        <5>2. s.recs[m].contract <= Tip(s)
          <6>1. s.recs[m].contract \in DOMAIN s.contracts
            BY <1>2, <4>1 DEF RecordInv, EvidenceInv
          <6> QED BY <1>2, <6>1, SMT
        <5>3. s.recs[i].contract = Tip(t) /\ i # m => s.recs[i].contract = s.recs[m].contract
          BY <1>2, <4>1, <4>2, <5>1, <5>2, SMT
        <5> QED BY <5>1, <5>3, Zenon
      <4>5. s.recs[i].contract = Tip(t) =>
               Ready(s.recs[i]) /\ (Ready(r) => s.recs[i].policy = r.policy)
        BY <4>3, <4>4, Zenon
      <4>6. t.recs[i] = s.recs[i] /\ t.recs[j] = r /\ s.recs[i].contract <= Tip(t)
        BY <1>2, <3>2, <4>1, SMT
      <4> QED BY <4>5, <4>6, Zenon
    <3> QED BY <1>2, <3>1, <3>2, SMT
  <2> QED BY <2>1, <2>2 DEF EvidenceInv
<1>5. \A c, n : ReadyBefore(s, c, n) => ReadyBefore(t, c, n)
  BY <1>2, SMT DEF ReadyBefore
<1>6. LogInv(t)
  BY <1>5, SMT DEF RecordInv, LogInv
<1>7. AttemptInv(t)
  <2>1. ASSUME NEW k \in DOMAIN s.atts PROVE Founded(t, k)
    <3>1. Founded(s, k) /\ k <= r.after
      BY <1>2, SMT DEF RecordInv, AttemptInv
    <3>2. \A i \in DOMAIN t.recs :
             ~Ready(t.recs[i]) /\ t.atts[k].contract = t.recs[i].contract => k <= t.recs[i].after
      BY <1>2, <3>1, SMT DEF Founded
    <3> QED BY <1>5, <3>1, <3>2, SMT DEF Founded
  <2> QED BY <2>1 DEF AttemptInv
<1> QED BY <1>4, <1>6, <1>7

\* A contract that adds to the chain, or none.
LEMMA ChainGrows ==
  ASSUME NEW s, RecordInv(s), NEW t \in Runs, NEW c \in Contracts,
         t.contracts = Append(s.contracts, c), t.active = Tip(t), t.atts = s.atts,
         c.sup = Tip(s),
         c.arch # 0 => /\ c.arch \in DOMAIN s.atts /\ Completed(s.atts[c.arch])
                       /\ s.atts[c.arch].node = "architect"
  PROVE  ChainInv(t) /\ Tip(t) = Tip(s) + 1
<1>1. s \in Runs /\ ChainInv(s)
  BY DEF RecordInv
<1>2. /\ Tip(s) \in Nat /\ DOMAIN s.contracts = 1..Tip(s)
      /\ Tip(t) = Tip(s) + 1 /\ DOMAIN t.contracts = 1..(Tip(s) + 1)
      /\ t.contracts[Tip(s) + 1] = c /\ \A i \in 1..Tip(s) : t.contracts[i] = s.contracts[i]
  <2>1. s.contracts \in Seq(Contracts)
    BY <1>1, RunTyped
  <2> QED BY <1>1, <2>1, RunTyped, Appended DEF Tip
<1>3. ASSUME NEW i \in DOMAIN t.contracts
      PROVE  /\ t.contracts[i].sup = i - 1
             /\ t.contracts[i].arch # 0 =>
                   /\ t.contracts[i].arch \in DOMAIN t.atts
                   /\ t.atts[t.contracts[i].arch].node = "architect"
                   /\ Completed(t.atts[t.contracts[i].arch])
  <2>1. CASE i \in 1..Tip(s)
    BY <1>1, <1>2, <2>1 DEF ChainInv
  <2>2. CASE i = Tip(s) + 1
    BY <1>2, <2>2
  <2> QED BY <1>2, <2>1, <2>2, SMT
<1> QED BY <1>2, <1>3 DEF ChainInv

\* Corrections relate contracts that are there; a longer chain changes none.
LEMMA CorrectionsStand ==
  ASSUME NEW s, RecordInv(s), NEW t \in Runs,
         t.corr = s.corr, t.compact = s.compact, t.active = s.active \/ s.corr = <<>>,
         DOMAIN s.contracts \subseteq DOMAIN t.contracts,
         \A c \in DOMAIN s.contracts : t.contracts[c] = s.contracts[c]
  PROVE  CorrectionInv(t)
<1>1. s \in Runs /\ CorrectionInv(s)
  BY DEF RecordInv
<1>2. CASE s.corr = <<>>
  BY <1>2, SMT DEF CorrectionInv
<1>3. CASE t.active = s.active
  <2>1. ASSUME NEW i \in DOMAIN t.corr, NEW j \in DOMAIN t.corr,
               t.corr[i].act = "return", j = i + 1, t.corr[j].act = "approve"
        PROVE  t.contracts[t.corr[j].new].arch > t.corr[i].after
    <3>1. s.corr[j].new \in DOMAIN s.contracts
          /\ s.contracts[s.corr[j].new].arch > s.corr[i].after
      BY <1>1, <2>1 DEF CorrectionInv
    <3> QED BY <3>1
  <2>2. ASSUME NEW i \in DOMAIN t.corr
        PROVE  /\ t.corr[i].act = "approve" =>
                    /\ t.corr[i].new \in DOMAIN t.contracts
                    /\ t.contracts[t.corr[i].new].sup = t.corr[i].prev
               /\ t.corr[i].act # "approve" => t.corr[i].new = 0
               /\ t.corr[i].act = "return" => ~t.compact
               /\ t.corr[i].act = "cancel" => i = Len(t.corr) /\ t.active = 0
    BY <1>1, <1>3 DEF CorrectionInv
  <2> QED BY <1>1, <2>1, <2>2 DEF CorrectionInv
<1> QED BY <1>2, <1>3

\* What initial sealing may construct rests on a completed Architect.
LEMMA CandidateTyped ==
  ASSUME NEW s \in Runs, NEW c \in Candidates(s)
  PROVE  /\ c \in Contracts /\ c.sup = 0 /\ s.corr = <<>> /\ ~DriverRan(s)
         /\ c.arch # 0 => /\ c.arch \in DOMAIN s.atts /\ Completed(s.atts[c.arch])
                          /\ s.atts[c.arch].node = "architect"
<1>1. ~DriverRan(s) /\ s.corr = <<>>
  BY SMT DEF Candidates
<1> DEFINE k == LatestArchitect(s)
<1>2. \/ s.compact /\ c \in [arch : {0}, sup : {0}, whole : BOOLEAN]
      \/ k # 0 /\ Completed(s.atts[k]) /\ c = [arch |-> k, sup |-> 0, whole |-> s.atts[k].cand = "whole"]
  BY Zenon DEF Candidates
<1>3. k \in Nat /\ (k # 0 => k \in DOMAIN s.atts /\ s.atts[k].node = "architect")
  BY NewestArchitect
<1>4. (s.atts[k].cand = "whole") \in BOOLEAN
  OBVIOUS
<1> HIDE DEF k
<1>5. c \in Contracts /\ c.sup = 0 /\ (c.arch # 0 => c.arch = k /\ Completed(s.atts[k]))
  <2>1. CASE c \in [arch : {0}, sup : {0}, whole : BOOLEAN]
    BY <2>1, SMT DEF Contracts
  <2>2. CASE /\ k # 0 /\ Completed(s.atts[k])
             /\ c = [arch |-> k, sup |-> 0, whole |-> s.atts[k].cand = "whole"]
    <3>1. c.arch = k /\ c.sup = 0
      BY <2>2
    <3>2. c \in Contracts
      BY <1>3, <1>4, <2>2, Zenon DEF Contracts
    <3> QED BY <2>2, <3>1, <3>2
  <2> QED BY <1>2, <2>1, <2>2
<1> QED BY <1>1, <1>3, <1>5

\* What the newest evidence of u speaks of is as it was recorded.
Accounted(u) ==
    u.recs[Len(u.recs)].policy = policy /\ u.contracts[u.active].arch \in {0, plan}

\* The evidence that may be added about the contract to judge.
LEMMA ReconcileKeeps ==
  ASSUME NEW s, RecordInv(s), World, NEW ev, NEW c \in Judged(s),
         MayRecord(s, Assess(s, c, IF s.active = 0 THEN 1 ELSE s.active, ev, FALSE))
  PROVE  LET u == Reconcile(s, c, IF s.active = 0 THEN 1 ELSE s.active, ev) IN
         /\ RecordInv(u)
         /\ u.atts = s.atts /\ u.log = s.log /\ u.corr = s.corr /\ u.compact = s.compact
         /\ u.stage = s.stage /\ u.next = s.next /\ u.status = s.status
         /\ IsPrefix(s.contracts, u.contracts) /\ IsPrefix(s.recs, u.recs)
         /\ u.recs # <<>> /\ u.active = Tip(u) /\ u.active # 0
         /\ u.recs[Len(u.recs)].contract = u.active
         /\ Ready(u.recs[Len(u.recs)]) => Unchanged(s) /\ Accounted(u)
         /\ s.active = 0 => ~DriverRan(s)
         /\ s.active # 0 => u.active = s.active
<1> DEFINE n == IF s.active = 0 THEN 1 ELSE s.active
           r == Assess(s, c, n, ev, FALSE)
           u == Reconcile(s, c, n, ev)
<1>1. s \in Runs /\ s.active \in {0, Tip(s)} /\ Tip(s) \in Nat
  BY RunTyped DEF RecordInv, ChainInv, Tip
<1>2. /\ s.contracts \in Seq(Contracts) /\ s.recs \in Seq(Reconciliations)
      /\ DOMAIN s.contracts = 1..Tip(s) /\ Len(s.recs) \in Nat
      /\ DOMAIN s.recs = 1..Len(s.recs)
  BY <1>1, RunTyped DEF Tip
<1>3. CASE s.contracts = <<>>
  <2>1. c \in Candidates(s) /\ Tip(s) = 0 /\ n = 1 /\ s.active = 0
    BY <1>1, <1>2, <1>3, SMT DEF Judged, Tip
  <2>2. /\ c \in Contracts /\ c.sup = 0 /\ s.corr = <<>> /\ ~DriverRan(s)
        /\ c.arch # 0 => /\ c.arch \in DOMAIN s.atts /\ Completed(s.atts[c.arch])
                         /\ s.atts[c.arch].node = "architect"
    BY <1>1, <2>1, CandidateTyped
  <2>3. s.recs = <<>>
    <3>1. ASSUME s.recs # <<>> PROVE FALSE
      <4>1. 1 \in DOMAIN s.recs
        BY <1>2, <3>1, SMT
      <4>2. s.recs[1].contract \in DOMAIN s.contracts
        BY <4>1 DEF RecordInv, EvidenceInv
      <4> QED BY <1>2, <2>1, <4>2, SMT
    <3> QED BY <3>1
  <2>4. /\ r \in Reconciliations /\ r.contract = 1 /\ r.after = Len(s.atts)
        /\ r.policy = policy
        /\ Ready(r) => r.src = Baseline /\ Unchanged(s) /\ c.arch \in {0, plan}
    <3>1. n \in Nat \ {0}
      BY <2>1
    <3> HIDE DEF n
    <3>2. Judgement(s, c, n, r)
      BY <1>1, <2>2, <3>1, AssessTyped, Zenon
    <3> QED BY <2>1, <3>2, Zenon DEF Judgement
  <2> HIDE DEF r
  <2>5. u = [s EXCEPT !.contracts = Append(s.contracts, c), !.recs = Append(s.recs, r),
                      !.active = 1]
    BY <1>3, <2>1, <2>3, SMT DEF Reconcile, r
  <2>6. Append(s.contracts, c) \in Seq(Contracts) /\ Append(s.recs, r) \in Seq(Reconciliations)
        /\ Append(s.recs, r)[Len(Append(s.recs, r))] = r /\ Append(s.recs, r) # <<>>
    BY <1>2, <2>2, <2>4, Appended, SMT
  <2> HIDE DEF u
  <2>7. /\ u \in Runs /\ u.contracts = Append(s.contracts, c) /\ u.recs = Append(s.recs, r)
        /\ u.active = 1 /\ u.atts = s.atts /\ u.log = s.log /\ u.corr = s.corr
        /\ u.compact = s.compact /\ u.stage = s.stage /\ u.next = s.next /\ u.status = s.status
        /\ u.intent = s.intent
    <3>1. u \in Runs
      BY <1>1, <2>5, <2>6, Zenon DEF Runs
    <3> DEFINE C == Append(s.contracts, c)
               R == Append(s.recs, r)
    <3>2. u = [s EXCEPT !.contracts = C, !.recs = R, !.active = 1]
      BY <2>5
    <3> HIDE DEF C, R
    <3>3. /\ u.contracts = C /\ u.recs = R /\ u.active = 1
          /\ u.atts = s.atts /\ u.log = s.log /\ u.corr = s.corr /\ u.compact = s.compact
          /\ u.stage = s.stage /\ u.next = s.next /\ u.status = s.status
          /\ u.intent = s.intent
      BY <1>1, <3>2, SMT DEF Runs
    <3> QED BY <3>1, <3>3 DEF C, R
  <2>8. Tip(u) = 1 /\ ChainInv(u)
    <3>1. Tip(u) = 1
      BY <1>2, <2>1, <2>2, <2>7, Appended DEF Tip
    <3> QED BY <2>1, <2>2, <2>7, <3>1, ChainGrows
  <2>9. EvidenceInv(u) /\ LogInv(u) /\ AttemptInv(u)
    <3>1. Tip(s) <= Tip(u) /\ r.contract = Tip(u) /\ Tip(u) # 0
          /\ ~ (Tip(s) = Tip(u) /\ s.recs # <<>>)
      BY <2>1, <2>3, <2>4, <2>8, SMT
    <3> QED BY <2>4, <2>7, <3>1, EvidenceAdded, Zenon
  <2>10. CorrectionInv(u)
    BY <1>2, <2>1, <2>2, <2>7, CorrectionsStand, SMT
  <2>11. StageInv(u) /\ IntentInv(u)
    <3>1. StageInv(u)
      BY <2>7, SMT DEF RecordInv, StageInv
    <3> QED BY <2>7, <3>1, SameIntent DEF RecordInv
  <2>13. Ready(r) => Accounted(u)
    <3>1. u.contracts[1] = c
      BY <1>2, <2>1, <2>2, <2>7, Appended
    <3> QED BY <2>4, <2>6, <2>7, <3>1, Zenon DEF Accounted
  <2>12. IsPrefix(s.contracts, u.contracts) /\ IsPrefix(s.recs, u.recs)
    BY <1>2, <2>2, <2>4, <2>7, PrefixOfItself, PrefixOfAppended
  <2> QED
    BY <2>1, <2>2, <2>4, <2>6, <2>7, <2>8, <2>9, <2>10, <2>11, <2>12, <2>13 DEF RecordInv, u
<1>4. CASE s.contracts # <<>>
  <2>1. s.active # 0 /\ c = s.contracts[s.active] /\ n = s.active /\ n = Tip(s) /\ n \in Nat \ {0}
    BY <1>1, <1>4, SMT DEF Judged
  <2>2. c \in Contracts
    BY <1>2, <2>1, SMT
  <2>3. /\ r \in Reconciliations /\ r.contract = n /\ r.after = Len(s.atts)
        /\ r.policy = policy
        /\ Ready(r) => r.src = Baseline /\ Unchanged(s) /\ c.arch \in {0, plan}
        /\ Ready(r) => Unmoved(s)
    <3> HIDE DEF n
    <3>1. Judgement(s, c, n, r) /\ (Ready(r) => Unmoved(s))
      BY <1>1, <2>1, <2>2, AssessTyped, Zenon
    <3> QED BY <3>1, Zenon DEF Judgement
  <2> HIDE DEF r
  <2>4. CASE s.recs # <<>> /\ Same(Last(s.recs), r)
    <3>1. u = s
      BY <2>1, <2>4, SMT DEF Reconcile, r
    <3> DEFINE l == s.recs[Len(s.recs)]
    <3>2. l \in Reconciliations /\ l = Last(s.recs)
      BY <1>2, <2>4, SMT DEF Last
    <3>3. l.contract = r.contract /\ l.why = r.why /\ l.policy = r.policy
      BY <2>3, <2>4, <3>2, SMT DEF Same, Reconciliations
    <3>4. Ready(l) => Unchanged(s) /\ l.policy = policy /\ s.contracts[s.active].arch \in {0, plan}
      BY <2>1, <2>3, <3>3, Zenon DEF Ready
    <3>5. IsPrefix(s.contracts, s.contracts) /\ IsPrefix(s.recs, s.recs)
      BY <1>2, <2>2, <2>3, PrefixOfItself, PrefixOfAppended
    <3>6. Ready(l) => Unchanged(s) /\ Accounted(s)
      BY <3>4, Zenon DEF Accounted, l
    <3> HIDE DEF u, l
    <3> QED BY <2>1, <2>3, <2>4, <3>1, <3>3, <3>5, <3>6 DEF u, l
  <2>5. CASE ~(s.recs # <<>> /\ Same(Last(s.recs), r))
    <3>1. u = [s EXCEPT !.contracts = s.contracts, !.recs = Append(s.recs, r), !.active = n]
      <4>1. u = [s EXCEPT !.contracts = IF @ = <<>> THEN <<c>> ELSE @,
                          !.recs = Append(@, r), !.active = n]
        BY <2>5, Zenon DEF Reconcile, r
      <4> QED BY <1>4, <4>1, SMT
    <3>2. Append(s.recs, r) \in Seq(Reconciliations)
          /\ Append(s.recs, r)[Len(Append(s.recs, r))] = r /\ Append(s.recs, r) # <<>>
      BY <1>2, <2>3, Appended, SMT
    <3> HIDE DEF u
    <3>3. /\ u \in Runs /\ u.contracts = s.contracts /\ u.recs = Append(s.recs, r)
          /\ u.active = s.active /\ u.atts = s.atts /\ u.log = s.log /\ u.corr = s.corr
          /\ u.compact = s.compact /\ u.stage = s.stage /\ u.next = s.next /\ u.status = s.status
          /\ u.intent = s.intent
      <4>1. u \in Runs
        BY <1>1, <3>1, <3>2, Zenon DEF Runs
      <4> DEFINE C == s.contracts
                 R == Append(s.recs, r)
      <4>2. u = [s EXCEPT !.contracts = C, !.recs = R, !.active = n]
        BY <3>1
      <4> HIDE DEF C, R, n
      <4>3. /\ u.contracts = C /\ u.recs = R /\ u.active = n
            /\ u.atts = s.atts /\ u.log = s.log /\ u.corr = s.corr /\ u.compact = s.compact
            /\ u.stage = s.stage /\ u.next = s.next /\ u.status = s.status
            /\ u.intent = s.intent
        BY <1>1, <4>2, SMT DEF Runs
      <4> QED BY <2>1, <4>1, <4>3 DEF C, R
    <3>4. Tip(u) = Tip(s)
      BY <3>3 DEF Tip
    <3>5. s.recs # <<>> => Ready(Last(s.recs)) /\ (Ready(r) => Last(s.recs).policy = r.policy)
      <4>1. s.recs # <<>> => Ready(Last(s.recs))
        BY <2>5 DEF MayRecord, r
      <4> QED BY <2>3, <4>1, Zenon DEF Unmoved
    <3>6. EvidenceInv(u) /\ LogInv(u) /\ AttemptInv(u)
      BY <1>1, <2>1, <2>3, <3>3, <3>4, <3>5, EvidenceAdded
    <3>7. ChainInv(u) /\ CorrectionInv(u) /\ StageInv(u) /\ IntentInv(u)
      <4>1. ChainInv(s) /\ CorrectionInv(s) /\ StageInv(s) /\ IntentInv(s)
        BY DEF RecordInv
      <4>2. ChainInv(u) /\ CorrectionInv(u)
        BY <3>3, <4>1, SameChain, SameCorrections
      <4>3. StageInv(u)
        BY <3>3, <4>1 DEF StageInv
      <4>4. IntentInv(u)
        BY <3>3, <4>1, SameIntent
      <4> QED BY <4>2, <4>3, <4>4
    <3>8. IsPrefix(s.contracts, u.contracts) /\ IsPrefix(s.recs, u.recs)
      BY <1>2, <2>2, <2>3, <3>3, PrefixOfItself, PrefixOfAppended
    <3>9. Ready(r) => Accounted(u)
      BY <2>1, <2>3, <3>2, <3>3, Zenon DEF Accounted
    <3> QED BY <2>1, <2>3, <3>2, <3>3, <3>4, <3>6, <3>7, <3>8, <3>9 DEF RecordInv, u
  <2> QED BY <2>4, <2>5
<1> QED BY <1>3, <1>4

-----------------------------------------------------------------------------
(* What attempts and pauses keep *)

\* The last checkpoint decides whether the active contract is authorised.
LEMMA AuthorisedLast ==
  ASSUME NEW s \in Runs, Authorised(s), NEW i \in DOMAIN s.log, s.log[i].manual,
         \A j \in DOMAIN s.log : s.log[j].manual => j <= i
  PROVE  s.log[i].resolved /\ s.log[i].by = s.active
<1> DEFINE C == {k \in DOMAIN s.log : s.log[k].manual}
           l == CHOOSE k \in C : \A j \in C : j <= k
<1>1. i \in C /\ \A j \in C : j <= i
  OBVIOUS
<1>2. l \in C /\ \A j \in C : j <= l
  BY <1>1
<1>3. C \subseteq Nat
  BY RunTyped
<1>4. l = i
  BY <1>1, <1>2, <1>3, SMT
<1>5. C # {} => s.log[l].resolved /\ s.log[l].by = s.active
  BY Zenon DEF Authorised
<1> QED BY <1>1, <1>4, <1>5

\* An attempt stands on the evidence and the decisions there were when it was created.
LEMMA FoundedStays ==
  ASSUME NEW s, NEW t, NEW k, Founded(s, k),
         t.atts[k].contract = s.atts[k].contract, t.atts[k].node = s.atts[k].node,
         t.recs = s.recs, t.log = s.log
  PROVE  Founded(t, k)
<1>1. \A c : ReadyBefore(t, c, k) <=> ReadyBefore(s, c, k)
  BY DEF ReadyBefore
<1>2. t.atts[k].contract # 0 => ReadyBefore(t, t.atts[k].contract, k)
  BY <1>1, Zenon DEF Founded
<1>3. \A i \in DOMAIN t.recs :
        ~Ready(t.recs[i]) /\ t.atts[k].contract = t.recs[i].contract => k <= t.recs[i].after
  BY Zenon DEF Founded
<1>4. t.atts[k].node \in Drivers =>
        \A i \in DOMAIN t.log :
           /\ t.log[i].manual /\ t.log[i].after < k
           /\ \A j \in DOMAIN t.log : t.log[j].manual /\ t.log[j].after < k => j <= i
           => t.log[i].resolved /\ t.log[i].by = t.atts[k].contract
  BY Zenon DEF Founded
<1> QED BY <1>2, <1>3, <1>4, Zenon DEF Founded

\* A new attempt: a Driver's on the ready tip, under the last authorisation.
LEMMA CreateKeeps ==
  ASSUME NEW s, RecordInv(s), s.stage \notin {"created", "started"},
         s.status = "in-progress", NEW n \in Nodes,
         n \in Drivers => ReadyTip(s) /\ Authorised(s),
         NEW a \in Attempts, a.node = n, a.result = "open",
         a.contract = IF n \in Drivers THEN s.active ELSE 0,
         NEW t \in Runs, t.atts = Append(s.atts, a), t.stage = "created", t.next = n,
         t.contracts = s.contracts, t.recs = s.recs, t.corr = s.corr, t.active = s.active,
         t.log = s.log, t.compact = s.compact, t.status = s.status, t.intent = s.intent
  PROVE  RecordInv(t)
<1>1. s \in Runs
  BY DEF RecordInv
<1> DEFINE m == Len(s.atts)
<1>2. /\ m \in Nat /\ DOMAIN s.atts = 1..m /\ DOMAIN t.atts = 1..(m + 1) /\ Len(t.atts) = m + 1
      /\ t.atts[m + 1] = a /\ \A i \in 1..m : t.atts[i] = s.atts[i]
      /\ t.atts # <<>>
  <2>1. /\ s.atts \in Seq(Attempts) /\ m \in Nat /\ DOMAIN s.atts = 1..m
    BY <1>1, RunTyped
  <2>2. /\ Len(t.atts) = m + 1 /\ DOMAIN t.atts = 1..(m + 1)
        /\ t.atts[m + 1] = a /\ (\A i \in 1..m : t.atts[i] = s.atts[i]) /\ t.atts # <<>>
    <3> DEFINE q == s.atts
               p == Append(q, a)
    <3>1. /\ Len(p) = Len(q) + 1 /\ DOMAIN p = 1..(Len(q) + 1)
          /\ p[Len(q) + 1] = a /\ \A i \in 1..Len(q) : p[i] = q[i]
          /\ p # <<>>
      <4>1. q \in Seq(Attempts) /\ a \in Attempts
        BY <2>1
      <4> HIDE DEF q
      <4> QED BY <4>1, Appended
    <3>2. t.atts = p
      OBVIOUS
    <3> QED BY <3>1, <3>2, Zenon
  <2> QED BY <2>1, <2>2, Zenon
<1>3. \A i \in DOMAIN s.recs : s.recs[i].after \in Nat /\ s.recs[i].contract \in Nat \ {0}
  <2>1. s.recs \in Seq(Reconciliations)
    BY <1>1, RunTyped
  <2>2. \A i \in DOMAIN s.recs : s.recs[i] \in Reconciliations
    BY <2>1
  <2>3. \A q \in Reconciliations : q.after \in Nat /\ q.contract \in Nat \ {0}
    BY DEF Reconciliations
  <2> QED BY <2>2, <2>3
<1>4. \A i \in DOMAIN s.log : s.log[i].after \in Nat /\ s.log[i].after <= m
  <2>1. s.log \in Seq(Pauses)
    BY <1>1, RunTyped
  <2>2. \A i \in DOMAIN s.log : s.log[i] \in Pauses
    BY <2>1
  <2>3. \A q \in Pauses : q.after \in Nat
    BY DEF Pauses
  <2> QED BY <2>2, <2>3 DEF RecordInv, LogInv
<1>5. ChainInv(t) /\ CorrectionInv(t)
  <2>1. ChainInv(s) /\ CorrectionInv(s)
    BY DEF RecordInv
  <2>2. \A k \in DOMAIN s.atts : k \in DOMAIN t.atts /\ t.atts[k] = s.atts[k]
    BY <1>2
  <2> QED BY <2>1, <2>2, ChainStands, SameCorrections
<1>6. EvidenceInv(t)
  BY <1>2, <1>3, SMT DEF RecordInv, EvidenceInv
<1>7. \A c, k : ReadyBefore(t, c, k) <=> ReadyBefore(s, c, k)
  BY DEF ReadyBefore
<1>8. \A c : ReadyBefore(s, c, m + 1) => ReadyBefore(s, c, m + 2)
  BY <1>2, <1>3, SMT DEF ReadyBefore
<1>9. LogInv(t)
  <2>1. ASSUME NEW i \in DOMAIN t.log
        PROVE  /\ t.log[i].manual => t.log[i].next \in Drivers
               /\ t.log[i].after <= Len(t.atts)
               /\ t.log[i].by # 0 => t.log[i].manual /\ t.log[i].resolved
    BY <1>2, <1>4, SMT DEF RecordInv, LogInv
  <2>2. ASSUME NEW i \in DOMAIN t.log, t.log[i].by # 0
        PROVE  ReadyBefore(t, t.log[i].by, Len(t.atts) + 1)
    <3>1. ReadyBefore(s, t.log[i].by, m + 1)
      BY <2>2, Zenon DEF RecordInv, LogInv
    <3>2. Len(t.atts) + 1 = m + 2
      BY <1>2
    <3> QED BY <1>7, <1>8, <3>1, <3>2
  <2> QED BY <2>1, <2>2 DEF LogInv
<1>10. ASSUME NEW k \in 1..m PROVE Founded(t, k)
  <2>1. Founded(s, k) /\ t.atts[k] = s.atts[k]
    BY <1>2 DEF RecordInv, AttemptInv
  <2> QED BY <2>1, FoundedStays
<1>11. Founded(t, m + 1)
  <2>1. ASSUME a.contract # 0 PROVE ReadyTip(s) /\ a.contract = s.active
    BY <2>1
  <2> DEFINE l == Len(s.recs)
  <2>2. l \in Nat /\ DOMAIN s.recs = 1..l
    BY <1>1, RunTyped
  <2>3. a.contract # 0 => /\ l \in DOMAIN s.recs /\ s.recs[l].contract = a.contract
                          /\ Ready(s.recs[l])
    BY <1>1, <2>1, <2>2, RunTyped, SMT DEF ReadyTip
  <2>4. a.contract # 0 => ReadyBefore(t, a.contract, m + 1)
    <3>1. \A i \in DOMAIN s.recs : s.recs[i].after < m + 1
      BY <1>2, <1>3, SMT DEF RecordInv, EvidenceInv
    <3> QED BY <2>3, <3>1 DEF ReadyBefore
  <2>5. ASSUME NEW i \in DOMAIN t.recs, ~Ready(t.recs[i]), a.contract = t.recs[i].contract
        PROVE  FALSE
    <3>1. a.contract # 0
      BY <1>3, <2>5
    <3>2. i # l
      BY <2>3, <2>5, <3>1
    <3>3. i < l
      BY <2>2, <2>5, <3>2, SMT
    <3>4. s.recs[i].contract = s.recs[l].contract => Ready(s.recs[i])
      BY <2>3, <2>5, <3>1, <3>3, Zenon DEF RecordInv, EvidenceInv
    <3> QED BY <2>3, <2>5, <3>1, <3>4
  <2>6. ASSUME a.node \in Drivers, NEW i \in DOMAIN t.log, t.log[i].manual,
               \A j \in DOMAIN t.log : t.log[j].manual /\ t.log[j].after < m + 1 => j <= i
        PROVE  t.log[i].resolved /\ t.log[i].by = a.contract
    <3>1. \A j \in DOMAIN s.log : s.log[j].after < m + 1
      BY <1>2, <1>4, SMT
    <3>2. Authorised(s) /\ a.contract = s.active
      BY <2>6
    <3> QED BY <1>1, <2>6, <3>1, <3>2, AuthorisedLast
  <2> QED BY <1>2, <2>4, <2>5, <2>6, Zenon DEF Founded
<1>12. AttemptInv(t)
  BY <1>2, <1>10, <1>11, SMT DEF AttemptInv
<1>13. StageInv(t)
  BY <1>2, SMT DEF RecordInv, StageInv
<1>14. IntentInv(t)
  BY SameIntent DEF RecordInv
<1> QED BY <1>5, <1>6, <1>9, <1>12, <1>13, <1>14 DEF RecordInv

\* Closing the open attempt: it keeps its node and contract, and nothing is open.
LEMMA ClosedKeeps ==
  ASSUME NEW s, RecordInv(s), s.stage = "started",
         NEW t \in Runs, Len(t.atts) = Len(s.atts),
         \A k \in DOMAIN s.atts : k # Len(s.atts) => t.atts[k] = s.atts[k],
         t.atts[Len(s.atts)].node = s.atts[Len(s.atts)].node,
         t.atts[Len(s.atts)].contract = s.atts[Len(s.atts)].contract,
         t.atts[Len(s.atts)].result # "open",
         t.stage = "completed", t.contracts = s.contracts, t.recs = s.recs, t.corr = s.corr,
         t.active = s.active, t.log = s.log, t.compact = s.compact, t.intent = s.intent
  PROVE  RecordInv(t)
<1>1. s \in Runs
  BY DEF RecordInv
<1> DEFINE m == Len(s.atts)
<1>2. /\ m \in Nat /\ DOMAIN s.atts = 1..m /\ DOMAIN t.atts = 1..m
      /\ s.atts[m].result = "open" /\ ~Completed(s.atts[m])
  BY <1>1, RunTyped, SMT DEF RecordInv, StageInv, Completed
<1>3. \A k \in DOMAIN s.atts : t.atts[k].node = s.atts[k].node
                               /\ t.atts[k].contract = s.atts[k].contract
  OBVIOUS
<1>4. \A k \in DOMAIN s.atts : Completed(s.atts[k]) => Completed(t.atts[k])
  BY <1>2
<1>5. ChainInv(t)
  <2>1. ChainInv(s)
    BY DEF RecordInv
  <2> QED BY <1>2, <1>3, <1>4, <2>1, ChainStands
<1>6. EvidenceInv(t) /\ CorrectionInv(t)
  <2>1. EvidenceInv(s) /\ CorrectionInv(s) /\ Len(t.atts) = Len(s.atts)
    BY <1>1, <1>2, RunTyped DEF RecordInv
  <2> QED BY <2>1, SameEvidence, SameCorrections
<1>7. \A c, k : ReadyBefore(t, c, k) <=> ReadyBefore(s, c, k)
  BY DEF ReadyBefore
<1>8. LogInv(t)
  BY <1>7, SMT DEF RecordInv, LogInv
<1>9. ASSUME NEW k \in DOMAIN t.atts PROVE Founded(t, k)
  <2>1. Founded(s, k) /\ t.atts[k].node = s.atts[k].node
        /\ t.atts[k].contract = s.atts[k].contract
    BY <1>2, <1>3 DEF RecordInv, AttemptInv
  <2> QED BY <2>1, FoundedStays
<1>10. StageInv(t)
  BY <1>2, SMT DEF RecordInv, StageInv
<1>11. IntentInv(t)
  BY SameIntent DEF RecordInv
<1> QED BY <1>5, <1>6, <1>8, <1>9, <1>10, <1>11 DEF RecordInv, AttemptInv

\* A new pause is behind every attempt there is.
LEMMA PauseAdded ==
  ASSUME NEW s, RecordInv(s), NEW t \in Runs, NEW p \in Pauses, t.log = Append(s.log, p),
         p.by = 0, p.manual => p.next \in Drivers, p.after = Len(s.atts),
         t.contracts = s.contracts, t.recs = s.recs, t.corr = s.corr, t.active = s.active,
         t.atts = s.atts, t.compact = s.compact, StageInv(t), t.intent \in {0, s.intent}
  PROVE  RecordInv(t)
<1>1. s \in Runs
  BY DEF RecordInv
<1> DEFINE m == Len(s.log)
<1>2. /\ m \in Nat /\ DOMAIN s.log = 1..m /\ DOMAIN t.log = 1..(m + 1)
      /\ t.log[m + 1] = p /\ \A i \in 1..m : t.log[i] = s.log[i]
      /\ Len(s.atts) \in Nat /\ DOMAIN s.atts = 1..Len(s.atts)
  <2>1. s.log \in Seq(Pauses)
    BY <1>1, RunTyped
  <2> QED BY <1>1, <2>1, RunTyped, Appended
<1>3. ChainInv(t) /\ EvidenceInv(t) /\ CorrectionInv(t)
  <2>1. ChainInv(s) /\ EvidenceInv(s) /\ CorrectionInv(s)
    BY DEF RecordInv
  <2>. QED BY <2>1, SameChain, SameEvidence, SameCorrections
<1>4. \A c, k : ReadyBefore(t, c, k) <=> ReadyBefore(s, c, k)
  BY DEF ReadyBefore
<1>5. LogInv(t)
  <2>1. ASSUME NEW i \in DOMAIN t.log
        PROVE  /\ t.log[i].manual => t.log[i].next \in Drivers
               /\ t.log[i].after <= Len(t.atts)
               /\ t.log[i].by # 0 => /\ t.log[i].manual /\ t.log[i].resolved
                                     /\ ReadyBefore(t, t.log[i].by, Len(t.atts) + 1)
    <3>1. CASE i = m + 1
      BY <1>2, <3>1, SMT
    <3>2. CASE i \in 1..m
      BY <1>2, <1>4, <3>2 DEF RecordInv, LogInv
    <3> QED BY <1>2, <3>1, <3>2, SMT
  <2> QED BY <2>1 DEF LogInv
<1>6. ASSUME NEW k \in DOMAIN t.atts PROVE Founded(t, k)
  <2>1. Founded(s, k) /\ k \in Nat /\ k <= Len(s.atts)
    BY <1>2 DEF RecordInv, AttemptInv
  <2>2. ASSUME t.atts[k].node \in Drivers, NEW i \in DOMAIN t.log,
               t.log[i].manual, t.log[i].after < k,
               \A j \in DOMAIN t.log : t.log[j].manual /\ t.log[j].after < k => j <= i
        PROVE  t.log[i].resolved /\ t.log[i].by = t.atts[k].contract
    <3>1. i # m + 1
      BY <1>2, <2>1, <2>2, SMT
    <3>2. i \in DOMAIN s.log /\ t.log[i] = s.log[i]
      BY <1>2, <2>2, <3>1, SMT
    <3>3. \A j \in DOMAIN s.log : s.log[j].manual /\ s.log[j].after < k => j <= i
      BY <1>2, <2>2, SMT
    <3> QED BY <2>1, <2>2, <3>2, <3>3 DEF Founded
  <2> QED BY <1>4, <2>1, <2>2, Zenon DEF Founded
<1>7. IntentInv(t)
  <2>1. \A i \in DOMAIN s.log : i \in DOMAIN t.log /\ t.log[i] = s.log[i]
    BY <1>2
  <2> QED BY <2>1, SameIntent DEF RecordInv
<1> QED BY <1>3, <1>5, <1>6, <1>7 DEF RecordInv, AttemptInv

\* Resolving an open pause: no attempt has come to rest on it yet.
LEMMA ResolveKeeps ==
  ASSUME NEW s, RecordInv(s), s.status = "awaiting-human", NEW i \in LatestOpen(s),
         NEW c \in Nat, MayResolve(s, i, c)
  PROVE  LET r == Resolved(s, i, c) IN
         /\ RecordInv(r)
         /\ r.contracts = s.contracts /\ r.recs = s.recs /\ r.corr = s.corr
         /\ r.active = s.active /\ r.atts = s.atts /\ r.compact = s.compact
         /\ r.status = s.status /\ r.stage = "before" /\ r.next = "none"
<1> DEFINE r == Resolved(s, i, c)
           e == [s.log[i] EXCEPT !.resolved = TRUE, !.by = c]
<1>1. s \in Runs
  BY DEF RecordInv
<1>2. i \in DOMAIN s.log /\ ~s.log[i].resolved
  BY DEF LatestOpen
<1>3. s.log \in Seq(Pauses) /\ s.log[i] \in Pauses
  BY <1>1, <1>2, RunTyped
<1>4. /\ e \in Pauses /\ e.resolved = TRUE /\ e.by = c /\ e.manual = s.log[i].manual
      /\ e.next = s.log[i].next /\ e.after = s.log[i].after
  <2>1. e \in Pauses
    BY <1>3, Zenon DEF Pauses
  <2> QED BY <1>3, <2>1, Zenon DEF Pauses
<1> HIDE DEF e
<1> DEFINE l == [s.log EXCEPT ![i] = e]
<1>5. /\ l \in Seq(Pauses) /\ DOMAIN l = DOMAIN s.log /\ l[i] = e
      /\ \A j \in DOMAIN s.log : j # i => l[j] = s.log[j]
  BY <1>2, <1>3, <1>4, SMT
<1>6. r = [s EXCEPT !.log = l, !.intent = i, !.pending = TRUE, !.stage = "before",
                    !.next = "none"]
  BY <1>1, SMT DEF Resolved, e, Runs
<1> HIDE DEF l, r
<1>7. /\ r \in Runs /\ r.contracts = s.contracts /\ r.recs = s.recs /\ r.corr = s.corr
      /\ r.active = s.active /\ r.atts = s.atts /\ r.compact = s.compact /\ r.log = l
      /\ r.status = s.status /\ r.stage = "before" /\ r.next = "none" /\ r.intent = i
  <2>1. r \in Runs
    <3>1. i \in Nat /\ TRUE \in BOOLEAN
      BY <1>1, <1>2, RunTyped
    <3> QED BY <1>1, <1>5, <1>6, <3>1, Zenon DEF Runs
  <2> QED BY <1>1, <1>6, <2>1, SMT DEF Runs
<1>8. ChainInv(r) /\ EvidenceInv(r) /\ CorrectionInv(r) /\ StageInv(r)
  <2>1. ChainInv(s) /\ EvidenceInv(s) /\ CorrectionInv(s) /\ StageInv(s)
    BY DEF RecordInv
  <2>2. ChainInv(r) /\ EvidenceInv(r) /\ CorrectionInv(r)
    BY <1>7, <2>1, SameChain, SameEvidence, SameCorrections
  <2>3. StageInv(r)
    BY <1>7, <2>1 DEF StageInv
  <2> QED BY <2>2, <2>3
<1>9. \A d, n : ReadyBefore(r, d, n) <=> ReadyBefore(s, d, n)
  BY <1>7 DEF ReadyBefore
<1>10. c # 0 => s.log[i].manual /\ ReadyBefore(s, c, Len(s.atts) + 1)
  <2> SUFFICES ASSUME c # 0 PROVE s.log[i].manual /\ ReadyBefore(s, c, Len(s.atts) + 1)
    OBVIOUS
  <2>1. s.log[i].manual /\ s.recs # <<>> /\ Last(s.recs).contract = c /\ Ready(Last(s.recs))
    BY Zenon DEF MayResolve
  <2>2. Len(s.recs) \in DOMAIN s.recs /\ Last(s.recs) = s.recs[Len(s.recs)]
    BY <1>1, <2>1, RunTyped, SMT DEF Last
  <2>3. s.recs[Len(s.recs)].after <= Len(s.atts) /\ s.recs[Len(s.recs)].after \in Nat
    <3>1. s.recs[Len(s.recs)] \in Reconciliations
      BY <1>1, <2>2, RunTyped
    <3> QED BY <2>2, <3>1 DEF RecordInv, EvidenceInv, Reconciliations
  <2>4. s.recs[Len(s.recs)].after < Len(s.atts) + 1
    BY <1>1, <2>3, RunTyped, SMT
  <2> QED BY <2>1, <2>2, <2>4 DEF ReadyBefore
<1>11. LogInv(r)
  <2>1. ASSUME NEW j \in DOMAIN r.log
        PROVE  /\ r.log[j].manual => r.log[j].next \in Drivers
               /\ r.log[j].after <= Len(r.atts)
               /\ r.log[j].by # 0 => /\ r.log[j].manual /\ r.log[j].resolved
                                     /\ ReadyBefore(r, r.log[j].by, Len(r.atts) + 1)
    <3>1. CASE j = i
      BY <1>2, <1>4, <1>5, <1>7, <1>9, <1>10, <3>1, Zenon DEF RecordInv, LogInv
    <3>2. CASE j # i
      BY <1>5, <1>7, <1>9, <3>2, Zenon DEF RecordInv, LogInv
    <3> QED BY <3>1, <3>2
  <2> QED BY <2>1, Zenon DEF LogInv
<1>12. ASSUME NEW k \in DOMAIN r.atts PROVE Founded(r, k)
  <2>1. Founded(s, k)
    BY <1>7 DEF RecordInv, AttemptInv
  <2>2. ASSUME r.atts[k].node \in Drivers, NEW j \in DOMAIN r.log,
               r.log[j].manual, r.log[j].after < k,
               \A x \in DOMAIN r.log : r.log[x].manual /\ r.log[x].after < k => x <= j
        PROVE  r.log[j].resolved /\ r.log[j].by = r.atts[k].contract
    <3>1. \A x \in DOMAIN s.log : r.log[x].manual = s.log[x].manual
                                  /\ r.log[x].after = s.log[x].after
      BY <1>4, <1>5, <1>7
    <3>2. s.log[j].resolved /\ s.log[j].by = s.atts[k].contract /\ j \in DOMAIN s.log
      BY <1>5, <1>7, <2>1, <2>2, <3>1, Zenon DEF Founded
    <3>3. j # i
      BY <1>2, <3>2
    <3> QED BY <1>5, <1>7, <3>2, <3>3
  <2> QED BY <1>7, <1>9, <2>1, <2>2, Zenon DEF Founded
<1>13. IntentInv(r)
  BY <1>2, <1>4, <1>5, <1>7 DEF IntentInv
<1>14. RecordInv(r)
  BY <1>7, <1>8, <1>11, <1>12, <1>13, Zenon DEF RecordInv, AttemptInv
<1> QED BY <1>7, <1>14, Zenon DEF r

-----------------------------------------------------------------------------
(* What corrections keep *)

LEMMA CorrectionAppended ==
  ASSUME NEW s \in Runs, NEW k \in Corrections, NEW q, q = Append(s.corr, k)
  PROVE  LET m == Len(s.corr) IN
         /\ m \in Nat /\ DOMAIN s.corr = 1..m /\ DOMAIN q = 1..(m + 1) /\ Len(q) = m + 1
         /\ q[m + 1] = k /\ \A i \in 1..m : q[i] = s.corr[i]
         /\ IsPrefix(s.corr, q)
<1>1. s.corr \in Seq(Corrections)
  BY RunTyped
<1> QED BY <1>1, RunTyped, Appended, PrefixOfAppended

\* Without a cancellation at the end there is none at all.
LEMMA NoneCancelled ==
  ASSUME NEW s, RecordInv(s), ~Cancelled(s), NEW i \in DOMAIN s.corr
  PROVE  s.corr[i].act # "cancel" /\ s.corr # <<>>
<1>1. s.corr # <<>>
  BY RunTyped, SMT DEF RecordInv
<1>2. s.corr[i].act = "cancel" => i = Len(s.corr)
  BY Zenon DEF RecordInv, CorrectionInv
<1> QED BY <1>1, <1>2 DEF Cancelled, Last

\* An approval extends the chain with what it found ready.
LEMMA ApproveKeeps ==
  ASSUME NEW s, RecordInv(s), ~Cancelled(s), ArchitectRenewed(s),
         NEW c \in Contracts, c.sup = Tip(s),
         c.arch # 0 => c.arch = LatestArchitect(s) /\ Completed(s.atts[c.arch]),
         NEW r, Judgement(s, c, Tip(s) + 1, r), Ready(r),
         NEW k \in Corrections, k.act = "approve", k.prev = Tip(s), k.new = Tip(s) + 1,
         NEW u \in Runs, u.contracts = Append(s.contracts, c), u.recs = Append(s.recs, r),
         u.corr = Append(s.corr, k), u.active = Tip(s) + 1, u.atts = s.atts, u.log = s.log,
         u.compact = s.compact, u.status = s.status, u.stage = s.stage, u.next = s.next,
         u.intent = s.intent
  PROVE  /\ RecordInv(u)
         /\ IsPrefix(s.contracts, u.contracts) /\ IsPrefix(s.recs, u.recs)
         /\ IsPrefix(s.corr, u.corr)
<1>1. s \in Runs
  BY DEF RecordInv
<1>2. c.arch # 0 => /\ c.arch \in DOMAIN s.atts /\ Completed(s.atts[c.arch])
                    /\ s.atts[c.arch].node = "architect"
  BY <1>1, NewestArchitect
<1>3. /\ r \in Reconciliations /\ r.contract = Tip(s) + 1 /\ r.after = Len(s.atts)
      /\ r.src = Baseline /\ (s.compact \/ c.arch # 0)
  BY Zenon DEF Judgement
<1>4. /\ s.contracts \in Seq(Contracts) /\ s.recs \in Seq(Reconciliations)
      /\ Tip(s) \in Nat /\ DOMAIN s.contracts = 1..Tip(s)
  BY <1>1, RunTyped DEF Tip
<1>5. /\ Tip(u) = Tip(s) + 1 /\ DOMAIN u.contracts = 1..(Tip(s) + 1)
      /\ u.contracts[Tip(s) + 1] = c /\ \A i \in 1..Tip(s) : u.contracts[i] = s.contracts[i]
  BY <1>4, Appended DEF Tip
<1>6. ChainInv(u)
  BY <1>2, <1>5, ChainGrows
<1>7. EvidenceInv(u) /\ LogInv(u) /\ AttemptInv(u)
  <2>1. Tip(s) <= Tip(u) /\ Tip(s) # Tip(u) /\ Tip(u) # 0
    BY <1>4, <1>5, SMT
  <2> QED BY <1>3, <1>5, <2>1, EvidenceAdded
<1>8. CorrectionInv(u)
  <2> DEFINE m == Len(s.corr)
  <2>1. /\ m \in Nat /\ DOMAIN s.corr = 1..m /\ DOMAIN u.corr = 1..(m + 1)
        /\ u.corr[m + 1] = k /\ \A i \in 1..m : u.corr[i] = s.corr[i]
    BY <1>1, CorrectionAppended
  <2>2. ASSUME NEW i \in 1..m
        PROVE  /\ s.corr[i].act \in Actions /\ s.corr[i].act # "cancel"
               /\ s.corr[i].act = "approve" =>
                    /\ s.corr[i].new \in 1..Tip(s)
                    /\ s.contracts[s.corr[i].new].sup = s.corr[i].prev
               /\ s.corr[i].act # "approve" => s.corr[i].new = 0
               /\ s.corr[i].act = "return" => ~s.compact
    <3>1. s.corr[i] \in Corrections
      BY <1>1, <2>1, RunTyped
    <3>2. s.corr[i].act \in Actions
      BY <3>1, Zenon DEF Corrections
    <3> QED BY <1>4, <2>1, <3>2, NoneCancelled, Zenon DEF RecordInv, CorrectionInv
  <2>3. ASSUME NEW i \in DOMAIN u.corr
        PROVE  /\ u.corr[i].act = "approve" =>
                    /\ u.corr[i].new \in DOMAIN u.contracts
                    /\ u.contracts[u.corr[i].new].sup = u.corr[i].prev
               /\ u.corr[i].act # "approve" => u.corr[i].new = 0
               /\ u.corr[i].act = "return" => ~u.compact
               /\ u.corr[i].act = "cancel" => i = Len(u.corr) /\ u.active = 0
    <3>1. CASE i = m + 1
      BY <1>4, <1>5, <2>1, <3>1, SMT
    <3>2. CASE i \in 1..m
      <4>1. u.corr[i] = s.corr[i] /\ s.corr[i].act # "cancel"
        BY <2>1, <2>2, <3>2, Zenon
      <4>2. s.corr[i].act = "approve" =>
               /\ s.corr[i].new \in 1..(Tip(s) + 1)
               /\ u.contracts[s.corr[i].new].sup = s.corr[i].prev
        <5>1. 1..Tip(s) \subseteq 1..(Tip(s) + 1)
          BY <1>4
        <5> QED BY <1>5, <2>2, <3>2, <5>1, Zenon
      <4>3. /\ s.corr[i].act # "approve" => s.corr[i].new = 0
            /\ s.corr[i].act = "return" => ~s.compact
        BY <2>2, <3>2
      <4> QED BY <1>5, <4>1, <4>2, <4>3
    <3>3. i = m + 1 \/ i \in 1..m
      BY <2>1
    <3> QED BY <3>1, <3>2, <3>3, Zenon
  <2>4. ASSUME NEW i \in DOMAIN u.corr, NEW j \in DOMAIN u.corr,
               u.corr[i].new = u.corr[j].new, u.corr[i].new # 0
        PROVE  i = j
    <3>1. \A x \in 1..m : s.corr[x].new # Tip(s) + 1
      <4>1. \A x \in 1..m : s.corr[x].new \in 1..Tip(s) \/ s.corr[x].new = 0
        BY <2>2, Zenon
      <4> QED BY <1>4, <4>1, SMT
    <3>2. CASE i \in 1..m /\ j \in 1..m
      <4>1. u.corr[i] = s.corr[i] /\ u.corr[j] = s.corr[j]
        BY <2>1, <3>2, Zenon
      <4>2. s.corr[i].new = s.corr[j].new /\ s.corr[i].new # 0 => i = j
        BY <2>1, <3>2, Zenon DEF RecordInv, CorrectionInv
      <4> QED BY <2>4, <4>1, <4>2
    <3>3. CASE i = m + 1 \/ j = m + 1
      BY <2>1, <2>4, <3>1, <3>3, SMT
    <3> QED BY <2>1, <3>2, <3>3, SMT
  <2>5. ASSUME NEW i \in DOMAIN u.corr, NEW j \in DOMAIN u.corr,
               u.corr[i].act = "return", j = i + 1, u.corr[j].act = "approve"
        PROVE  u.contracts[u.corr[j].new].arch > u.corr[i].after
    <3>1. CASE j \in 1..m
      <4>1. i \in 1..m
        BY <2>1, <2>5, <3>1, SMT
      <4>2. s.contracts[s.corr[j].new].arch > s.corr[i].after
        BY <2>1, <2>5, <3>1, <4>1, Zenon DEF RecordInv, CorrectionInv
      <4>3. s.corr[j].new \in 1..Tip(s)
        BY <2>1, <2>2, <2>5, <3>1
      <4> QED BY <1>5, <2>1, <3>1, <4>1, <4>2, <4>3
    <3>2. CASE j = m + 1
      <4>1. i = m /\ i \in 1..m
        BY <2>1, <2>5, <3>2, SMT
      <4>2. s.corr # <<>> /\ Last(s.corr) = s.corr[m]
        BY <2>1, <4>1, NoneCancelled DEF Last
      <4>3. LatestArchitect(s) > s.corr[m].after /\ ~s.compact
        BY <2>1, <2>2, <2>5, <4>1, <4>2 DEF ArchitectRenewed
      <4> QED BY <1>3, <1>5, <2>1, <3>2, <4>1, <4>3
    <3>3. j \in 1..m \/ j = m + 1
      BY <2>1, SMT
    <3> QED BY <3>1, <3>2, <3>3, Zenon
  <2> QED BY <2>3, <2>4, <2>5, Zenon DEF CorrectionInv
<1>9. StageInv(u) /\ IntentInv(u)
  <2>1. StageInv(u)
    BY SMT DEF RecordInv, StageInv
  <2> QED BY <2>1, SameIntent DEF RecordInv
<1>10. IsPrefix(s.contracts, u.contracts) /\ IsPrefix(s.recs, u.recs)
  BY <1>3, <1>4, PrefixOfAppended
<1> QED BY <1>1, <1>6, <1>7, <1>8, <1>9, <1>10, CorrectionAppended DEF RecordInv

\* A return or a cancellation leaves no contract active.
LEMMA StopKeeps ==
  ASSUME NEW s, RecordInv(s), ~Cancelled(s), Unfinished(s) = {},
         NEW k \in Corrections, k.new = 0,
         k.act = "cancel" \/ (k.act = "return" /\ ~s.compact),
         NEW u \in Runs, u.corr = Append(s.corr, k), u.active = 0, u.stage = "before",
         u.contracts = s.contracts, u.recs = s.recs, u.atts = s.atts, u.log = s.log,
         u.compact = s.compact, u.intent = 0
  PROVE  RecordInv(u) /\ IsPrefix(s.corr, u.corr)
<1>1. s \in Runs
  BY DEF RecordInv
<1>2. ChainInv(u) /\ EvidenceInv(u)
  BY SMT DEF RecordInv, ChainInv, EvidenceInv, Tip
<1>3. \A c, n : ReadyBefore(u, c, n) <=> ReadyBefore(s, c, n)
  BY DEF ReadyBefore
<1>4. LogInv(u) /\ AttemptInv(u)
  <2>1. LogInv(u)
    BY <1>3, SMT DEF RecordInv, LogInv
  <2>2. AttemptInv(u)
    BY <1>3, SMT DEF RecordInv, AttemptInv, Founded
  <2> QED BY <2>1, <2>2
<1>5. StageInv(u) /\ IntentInv(u)
  <2>1. StageInv(u)
    BY SMT DEF StageInv, Unfinished
  <2> QED BY <2>1 DEF IntentInv
<1>6. CorrectionInv(u)
  <2> DEFINE m == Len(s.corr)
  <2>1. /\ m \in Nat /\ DOMAIN s.corr = 1..m /\ DOMAIN u.corr = 1..(m + 1)
        /\ Len(u.corr) = m + 1
        /\ u.corr[m + 1] = k /\ \A i \in 1..m : u.corr[i] = s.corr[i]
    BY <1>1, CorrectionAppended
  <2>2. \A i \in 1..m : s.corr[i].act # "cancel"
    BY <2>1, NoneCancelled
  <2>3. ASSUME NEW i \in DOMAIN u.corr
        PROVE  /\ u.corr[i].act = "approve" =>
                    /\ u.corr[i].new \in DOMAIN u.contracts
                    /\ u.contracts[u.corr[i].new].sup = u.corr[i].prev
               /\ u.corr[i].act # "approve" => u.corr[i].new = 0
               /\ u.corr[i].act = "return" => ~u.compact
               /\ u.corr[i].act = "cancel" => i = Len(u.corr) /\ u.active = 0
    <3>1. CASE i = m + 1
      BY <2>1, <3>1, SMT
    <3>2. CASE i \in 1..m
      <4>1. u.corr[i] = s.corr[i] /\ s.corr[i].act # "cancel" /\ i \in DOMAIN s.corr
        BY <2>1, <2>2, <3>2, Zenon
      <4> QED BY <4>1, Zenon DEF RecordInv, CorrectionInv
    <3> QED BY <2>1, <3>1, <3>2, SMT
  <2>4. ASSUME NEW i \in DOMAIN u.corr, NEW j \in DOMAIN u.corr,
               u.corr[i].new = u.corr[j].new, u.corr[i].new # 0
        PROVE  i = j
    <3>1. i # m + 1 /\ j # m + 1
      BY <2>1, <2>4
    <3>2. i \in 1..m /\ j \in 1..m
      BY <2>1, <2>4, <3>1, SMT
    <3>3. u.corr[i] = s.corr[i] /\ u.corr[j] = s.corr[j]
      BY <2>1, <3>2, Zenon
    <3>4. s.corr[i].new = s.corr[j].new /\ s.corr[i].new # 0 => i = j
      BY <2>1, <3>2, Zenon DEF RecordInv, CorrectionInv
    <3> QED BY <2>4, <3>3, <3>4
  <2>5. ASSUME NEW i \in DOMAIN u.corr, NEW j \in DOMAIN u.corr,
               u.corr[i].act = "return", j = i + 1, u.corr[j].act = "approve"
        PROVE  u.contracts[u.corr[j].new].arch > u.corr[i].after
    <3>1. j # m + 1
      BY <2>1, <2>5
    <3>2. i \in 1..m /\ j \in 1..m
      BY <2>1, <2>5, <3>1, SMT
    <3> QED BY <2>1, <2>5, <3>2, Zenon DEF RecordInv, CorrectionInv
  <2> QED BY <2>3, <2>4, <2>5, Zenon DEF CorrectionInv
<1> QED BY <1>1, <1>2, <1>4, <1>5, <1>6, CorrectionAppended DEF RecordInv

\* A renewed checkpoint is one more pause of a Run nothing of which is open.
LEMMA RenewKeeps ==
  ASSUME NEW u, RecordInv(u), u.stage \notin {"created", "started"}, NEW t \in Renewed(u)
  PROVE  /\ RecordInv(t) /\ t.contracts = u.contracts /\ t.recs = u.recs /\ t.corr = u.corr
         /\ t.active = u.active /\ t.atts = u.atts
<1>1. u \in Runs
  BY DEF RecordInv
<1>2. CASE t = u
  BY <1>2
<1>3. CASE t # u
  <2>1. PICK target \in Drivers :
           t = [u EXCEPT !.log = Append(@, Pause(TRUE, target, Len(u.atts))),
                         !.intent = 0, !.pending = FALSE, !.status = "awaiting-human"]
    BY <1>3, Zenon DEF Renewed
  <2> DEFINE p == Pause(TRUE, target, Len(u.atts))
  <2>2. /\ p \in Pauses /\ p.by = 0 /\ p.next \in Drivers /\ p.after = Len(u.atts)
    BY <1>1, RunTyped, SMT DEF Pause, Pauses
  <2>3. t = [u EXCEPT !.log = Append(u.log, p), !.intent = 0, !.pending = FALSE,
                      !.status = "awaiting-human"]
    BY <2>1, Zenon
  <2> HIDE DEF p
  <2>4. Append(u.log, p) \in Seq(Pauses)
    BY <1>1, <2>2, RunTyped, Appended
  <2>5. t \in Runs
    <3>1. 0 \in Nat /\ FALSE \in BOOLEAN
      OBVIOUS
    <3> QED BY <1>1, <2>3, <2>4, <3>1, Zenon DEF Runs
  <2>6. /\ t.log = Append(u.log, p) /\ t.contracts = u.contracts /\ t.recs = u.recs
        /\ t.corr = u.corr /\ t.active = u.active /\ t.atts = u.atts /\ t.compact = u.compact
        /\ t.stage = u.stage /\ t.intent = 0
    BY <1>1, <2>3, <2>5, SMT DEF Runs
  <2>7. StageInv(t)
    BY <2>6, SMT DEF RecordInv, StageInv
  <2> QED BY <2>2, <2>5, <2>6, <2>7, PauseAdded
<1> QED BY <1>2, <1>3

-----------------------------------------------------------------------------
(* What the gate observes *)

\* The Run's own last write is one of its completed attempts.
LEMMA ReceiptCompleted ==
  ASSUME NEW s \in Runs, NEW k \in Receipt(s)
  PROVE  /\ k \in DOMAIN s.atts /\ Completed(s.atts[k])
         /\ \A j \in DOMAIN s.atts : s.atts[j].wrote => j <= k
<1> DEFINE W == {j \in DOMAIN s.atts : s.atts[j].wrote}
           l == CHOOSE j \in W : \A i \in W : i <= j
<1>1. W # {} /\ k = l /\ Completed(s.atts[l])
  BY Zenon DEF Receipt
<1>2. W \subseteq Nat /\ \A j \in W : j <= Len(s.atts)
  BY RunTyped, SMT
<1>3. l \in W /\ \A i \in W : i <= l
  <2>1. \E j \in W : \A i \in W : i <= j
    <3> HIDE DEF W
    <3> QED BY <1>1, <1>2, RunTyped, NewestExists
  <2> QED BY <2>1
<1> QED BY <1>1, <1>3

\* A crash leaves the open attempt last.
LEMMA OpenIsLast ==
  ASSUME NEW s, RecordInv(s), NEW k \in Unfinished(s)
  PROVE  k = Len(s.atts) /\ k \in DOMAIN s.atts
BY Zenon DEF RecordInv, StageInv, Unfinished

\* What the gate may save of s, and when it admits.
LEMMA ObservedKeeps ==
  ASSUME NEW s, RecordInv(s), World, NEW ev, NEW n \in Nodes, NEW u \in Observed(s, ev, n)
  PROVE  /\ RecordInv(u)
         /\ u.atts = s.atts /\ u.log = s.log /\ u.corr = s.corr /\ u.compact = s.compact
         /\ u.stage = s.stage /\ u.next = s.next /\ u.status = s.status
         /\ IsPrefix(s.contracts, u.contracts) /\ IsPrefix(s.recs, u.recs)
         /\ ~Cancelled(s)
         /\ Admits(u) => /\ ReadyTip(u) /\ Authorised(u) /\ Unchanged(s) /\ Accounted(u)
                         /\ n \in Drivers /\ u.stage = "created"
                               => u.atts[Len(u.atts)].contract = u.active
<1> DEFINE m == IF s.active = 0 THEN 1 ELSE s.active
<1>1. /\ ~Cancelled(s) /\ RetainsContract(s, n)
      /\ \E c \in Judged(s) : /\ MayRecord(s, Assess(s, c, m, ev, FALSE))
                              /\ u = Reconcile(s, c, m, ev)
  BY Zenon DEF Observed
<1>2. PICK c \in Judged(s) : /\ MayRecord(s, Assess(s, c, m, ev, FALSE))
                             /\ u = Reconcile(s, c, m, ev)
  BY <1>1
<1>3. /\ RecordInv(u)
      /\ u.atts = s.atts /\ u.log = s.log /\ u.corr = s.corr /\ u.compact = s.compact
      /\ u.stage = s.stage /\ u.next = s.next /\ u.status = s.status
      /\ IsPrefix(s.contracts, u.contracts) /\ IsPrefix(s.recs, u.recs)
      /\ u.recs # <<>> /\ u.active = Tip(u) /\ u.active # 0
      /\ u.recs[Len(u.recs)].contract = u.active
      /\ Ready(u.recs[Len(u.recs)]) => Unchanged(s) /\ Accounted(u)
      /\ s.active = 0 => ~DriverRan(s)
      /\ s.active # 0 => u.active = s.active
  <2> DEFINE v == Reconcile(s, c, m, ev)
  <2>1. /\ RecordInv(v)
        /\ v.atts = s.atts /\ v.log = s.log /\ v.corr = s.corr /\ v.compact = s.compact
        /\ v.stage = s.stage /\ v.next = s.next /\ v.status = s.status
        /\ IsPrefix(s.contracts, v.contracts) /\ IsPrefix(s.recs, v.recs)
        /\ v.recs # <<>> /\ v.active = Tip(v) /\ v.active # 0
        /\ v.recs[Len(v.recs)].contract = v.active
        /\ Ready(v.recs[Len(v.recs)]) => Unchanged(s) /\ Accounted(v)
        /\ s.active = 0 => ~DriverRan(s)
        /\ s.active # 0 => v.active = s.active
    BY <1>2, ReconcileKeeps
  <2>2. u = v
    BY <1>2
  <2> HIDE DEF v
  <2> QED BY <2>1, <2>2
<1>4. ASSUME Admits(u) PROVE ReadyTip(u) /\ Authorised(u) /\ Unchanged(s) /\ Accounted(u)
  BY <1>3, <1>4, Zenon DEF Admits, ReadyTip, Last
<1>5. ASSUME n \in Drivers, u.stage = "created"
      PROVE  u.atts[Len(u.atts)].contract = u.active
  <2>1. PICK k \in Unfinished(s) : s.atts[k].node = n /\ s.atts[k].contract = s.active
    BY <1>1, <1>3, <1>5 DEF RetainsContract
  <2>2. k = Len(s.atts) /\ k \in DOMAIN s.atts
    BY OpenIsLast
  <2>3. DriverRan(s)
    BY <1>5, <2>1, <2>2 DEF DriverRan
  <2> QED BY <1>3, <2>1, <2>2, <2>3
<1> QED BY <1>1, <1>3, <1>4, <1>5, Zenon

-----------------------------------------------------------------------------
(* The steps of the process *)

\* Closing the open attempt, with a pause or without.
LEMMA CloseKeeps ==
  ASSUME NEW s, RecordInv(s), s.stage = "started",
         NEW result \in {"ok", "checkpoint", "failed"}, NEW wrote \in BOOLEAN,
         NEW cand \in {"none", "partial", "whole"}, NEW pause,
         \/ pause = <<>>
         \/ \E p \in Pauses : /\ pause = <<p>> /\ p.by = 0 /\ p.after = Len(s.atts)
                              /\ p.manual => p.next \in Drivers
  PROVE  LET t == Close(s, result, wrote, cand, pause) IN
         /\ RecordInv(t) /\ t.stage = "completed"
         /\ t.status = IF pause = <<>> THEN "in-progress" ELSE "awaiting-human"
         /\ t.contracts = s.contracts /\ t.recs = s.recs /\ t.corr = s.corr
         /\ t.active = s.active
<1>1. s \in Runs /\ s.atts \in Seq(Attempts) /\ s.log \in Seq(Pauses)
  BY RunTyped DEF RecordInv
<1> DEFINE m == Len(s.atts)
           a == [s.atts[m] EXCEPT !.result = result, !.wrote = wrote, !.cand = cand]
<1>2. m \in DOMAIN s.atts /\ s.atts[m] \in Attempts
  <2>1. s.atts # <<>>
    BY Zenon DEF RecordInv, StageInv
  <2> QED BY <1>1, <2>1, SMT
<1>3. a \in Attempts /\ a.node = s.atts[m].node /\ a.contract = s.atts[m].contract
      /\ a.result # "open"
  <2>1. a \in Attempts
    BY <1>2, Zenon DEF Attempts
  <2> QED BY <1>2, <2>1, SMT DEF Attempts
<1> DEFINE A == [s.atts EXCEPT ![m] = a]
<1> DEFINE status == IF pause = <<>> THEN "in-progress" ELSE "awaiting-human"
           t == Close(s, result, wrote, cand, pause)
<1>4. t = [s EXCEPT !.atts = A, !.log = s.log \o pause, !.stage = "completed",
                    !.pending = FALSE, !.status = status]
  BY DEF Close
<1> HIDE DEF a
<1>5. /\ A \in Seq(Attempts) /\ Len(A) = m /\ A[m] = a
      /\ \A k \in DOMAIN s.atts : k # m => A[k] = s.atts[k]
  BY <1>1, <1>2, <1>3, SMT
<1> HIDE DEF A
<1>0. /\ status \in {"not-started", "in-progress", "awaiting-human", "blocked", "done"}
      /\ "completed" \in {"before", "created", "started", "completed"} /\ FALSE \in BOOLEAN
  BY SMT
<1> HIDE DEF status, t
<1> DEFINE v == [s EXCEPT !.atts = A, !.stage = "completed", !.pending = FALSE,
                          !.status = status]
<1>6. v \in Runs
  BY <1>0, <1>1, <1>5, Zenon DEF Runs
<1>7. /\ v.atts = A /\ v.stage = "completed" /\ v.contracts = s.contracts /\ v.recs = s.recs
      /\ v.corr = s.corr /\ v.active = s.active /\ v.log = s.log /\ v.compact = s.compact
      /\ v.status = status /\ v.intent = s.intent
  BY <1>1, <1>6, SMT DEF Runs
<1> HIDE DEF v
<1>8. RecordInv(v)
  BY <1>3, <1>5, <1>6, <1>7, ClosedKeeps
<1>9. s.log \o pause \in Seq(Pauses)
  <2>1. CASE pause = <<>>
    BY <1>1, <2>1, SMT
  <2>2. ASSUME NEW p \in Pauses, pause = <<p>> PROVE s.log \o pause \in Seq(Pauses)
    BY <1>1, <2>2, SMT
  <2> QED BY <2>1, <2>2
<1> DEFINE L == s.log \o pause
<1> HIDE DEF L
<1> DEFINE w == [s EXCEPT !.atts = A, !.log = L, !.stage = "completed", !.pending = FALSE,
                          !.status = status]
<1>10. w \in Runs
  <2>1. L \in Seq(Pauses)
    BY <1>9 DEF L
  <2> QED BY <1>0, <1>1, <1>5, <2>1, Zenon DEF Runs
<1>11. /\ w.atts = A /\ w.stage = "completed" /\ w.contracts = s.contracts /\ w.recs = s.recs
       /\ w.corr = s.corr /\ w.active = s.active /\ w.log = L /\ w.compact = s.compact
       /\ w.status = status /\ w.intent = s.intent
  BY <1>1, <1>10, SMT DEF Runs
<1>12. t = w
  BY <1>4 DEF L
<1> HIDE DEF w
<1>13. ASSUME pause = <<>> PROVE RecordInv(w)
  <2>1. w.log = s.log
    BY <1>1, <1>11, <1>13, SMT DEF L
  <2> QED BY <1>3, <1>5, <1>10, <1>11, <2>1, ClosedKeeps
<1>14. ASSUME NEW p \in Pauses, pause = <<p>>, p.by = 0, p.after = Len(s.atts),
              p.manual => p.next \in Drivers
       PROVE  RecordInv(w)
  <2>1. w.log = Append(v.log, p)
    BY <1>1, <1>7, <1>11, <1>14, SMT DEF L
  <2>2. StageInv(w) /\ Len(v.atts) = Len(s.atts)
    BY <1>5, <1>7, <1>8, <1>11, SMT DEF RecordInv, StageInv
  <2> QED BY <1>7, <1>8, <1>10, <1>11, <1>14, <2>1, <2>2, PauseAdded
<1> QED BY <1>11, <1>12, <1>13, <1>14 DEF t, status

\* An invocation that ended holds nothing.
LEMMA EndsControlled == ASSUME Ends PROVE ControlInv'
BY SMT DEF Ends, ControlInv, Nodes

LEMMA GateAdmitsKeeps == ASSUME Inv, GateAdmits PROVE Inv'
<1>1. PICK u \in Observed(mem, evidence, at) :
         Admits(u) /\ mem' = u /\ disk' = IF u = mem THEN disk ELSE u
  BY Zenon DEF GateAdmits
<1>2. /\ pc = "enter" /\ at \in Drivers /\ pc' = "admitted" /\ at' = at
      /\ file' = file /\ plan' = plan /\ policy' = policy /\ edits' = edits
  BY Zenon DEF GateAdmits, Outside, world
<1>3. RecordInv(disk) /\ RecordInv(mem) /\ ControlInv /\ World
  BY DEF Inv
<1>4. /\ RecordInv(u) /\ u.atts = mem.atts /\ u.stage = mem.stage /\ u.next = mem.next
      /\ u.status = mem.status /\ ReadyTip(u) /\ Authorised(u)
      /\ u.stage = "created" => u.atts[Len(u.atts)].contract = u.active
  <2>1. at \in Nodes
    BY <1>2 DEF Nodes
  <2> QED BY <1>1, <1>2, <1>3, <2>1, ObservedKeeps
<1>5. RecordInv(disk')
  BY <1>1, <1>3, <1>4
<1>6. ControlInv'
  <2>1. mem.status = "in-progress" /\ mem.stage # "started"
        /\ (mem.stage = "created" => mem.next = at) /\ at \in Nodes
    BY <1>2, <1>3, SMT DEF ControlInv
  <2> QED BY <1>1, <1>2, <1>4, <2>1, SMT DEF ControlInv
<1> QED BY <1>1, <1>2, <1>3, <1>4, <1>5, <1>6, Zenon DEF Inv, World

LEMMA GateRejectsKeeps == ASSUME Inv, GateRejects PROVE Inv'
<1>1. mem' = mem \/ mem' \in Observed(mem, evidence, at)
  BY Zenon DEF GateRejects
<1>2. disk' = mem' /\ Ends /\ file' = file /\ plan' = plan /\ policy' = policy /\ edits' = edits
  BY Zenon DEF GateRejects, Outside, world
<1>3. RecordInv(mem) /\ World /\ at \in Nodes
  BY DEF Inv, ControlInv
<1>4. RecordInv(mem')
  BY <1>1, <1>3, ObservedKeeps
<1> QED BY <1>2, <1>3, <1>4, EndsControlled, Zenon DEF Inv, World

LEMMA CreateAttemptKeeps ==
  ASSUME Inv, CreateAttempt
  PROVE  /\ Inv' /\ mem'.contracts = mem.contracts /\ mem'.recs = mem.recs
         /\ mem'.corr = mem.corr
<1>1. /\ pc = IF at \in Drivers THEN "admitted" ELSE "enter"
      /\ disk' = mem' /\ pc' = "created" /\ at' = at
      /\ file' = file /\ plan' = plan /\ policy' = policy /\ edits' = edits
  BY Zenon DEF CreateAttempt, Outside, world
<1>2. RecordInv(mem) /\ mem \in Runs /\ ControlInv /\ World
  BY DEF Inv, RecordInv
<1>3. /\ mem.status = "in-progress" /\ mem.stage # "started" /\ at \in Nodes
      /\ mem.stage = "created" => mem.next = at
      /\ at \in Drivers => /\ ReadyTip(mem) /\ Authorised(mem)
                           /\ mem.stage = "created" =>
                                 mem.atts[Len(mem.atts)].contract = mem.active
  BY <1>1, <1>2, SMT DEF ControlInv
<1>4. /\ RecordInv(mem') /\ mem'.status = "in-progress" /\ mem'.stage = "created"
      /\ mem'.next = at
      /\ at \in Drivers => ReadyTip(mem') /\ mem'.atts[Len(mem'.atts)].contract = mem'.active
      /\ mem'.contracts = mem.contracts /\ mem'.recs = mem.recs /\ mem'.corr = mem.corr
  <2>1. CASE mem.stage = "created" /\ mem' = mem
    BY <1>2, <1>3, <2>1
  <2>2. CASE mem.stage # "created"
    <3> DEFINE a == [node |-> at, result |-> "open", wrote |-> FALSE,
                     contract |-> IF at \in Drivers THEN mem.active ELSE 0, cand |-> "none"]
    <3>1. a \in Attempts
      <4>1. (IF at \in Drivers THEN mem.active ELSE 0) \in Nat
        BY <1>2, RunTyped
      <4>2. FALSE \in BOOLEAN
        OBVIOUS
      <4> QED BY <1>3, <4>1, <4>2, Zenon DEF Attempts, Nodes
    <3>2. a.node = at /\ a.result = "open"
          /\ a.contract = IF at \in Drivers THEN mem.active ELSE 0
      BY Zenon
    <3>3. mem' = [mem EXCEPT !.atts = Append(mem.atts, a), !.stage = "created", !.next = at]
      BY <1>2, <2>2, Zenon DEF CreateAttempt
    <3> HIDE DEF a
    <3>4. Append(mem.atts, a) \in Seq(Attempts) /\ Append(mem.atts, a)[Len(Append(mem.atts, a))] = a
      <4>1. mem.atts \in Seq(Attempts)
        BY <1>2, RunTyped
      <4> QED BY <3>1, <4>1, Appended
    <3> DEFINE u == [mem EXCEPT !.atts = Append(mem.atts, a), !.stage = "created", !.next = at]
    <3>5. u \in Runs
      BY <1>2, <1>3, <3>4, Zenon DEF Runs, Nodes
    <3>6. /\ u.atts = Append(mem.atts, a) /\ u.stage = "created" /\ u.next = at
          /\ u.contracts = mem.contracts /\ u.recs = mem.recs /\ u.corr = mem.corr
          /\ u.active = mem.active /\ u.log = mem.log /\ u.compact = mem.compact
          /\ u.status = mem.status /\ u.intent = mem.intent
      BY <1>2, <3>5, SMT DEF Runs
    <3> HIDE DEF u
    <3>7. RecordInv(u)
      BY <1>2, <1>3, <2>2, <3>1, <3>2, <3>5, <3>6, CreateKeeps
    <3>8. at \in Drivers => ReadyTip(u) /\ u.atts[Len(u.atts)].contract = u.active
      BY <1>3, <3>2, <3>4, <3>6 DEF ReadyTip, Tip
    <3> QED BY <1>3, <3>3, <3>6, <3>7, <3>8 DEF u
  <2> QED BY <2>1, <2>2 DEF CreateAttempt
<1>5. ControlInv'
  BY <1>1, <1>3, <1>4, SMT DEF ControlInv
<1> QED BY <1>1, <1>2, <1>4, <1>5, Zenon DEF Inv, World

LEMMA StartAttemptKeeps ==
  ASSUME Inv, StartAttempt
  PROVE  /\ Inv' /\ mem'.contracts = mem.contracts /\ mem'.recs = mem.recs
         /\ mem'.corr = mem.corr
<1>1. /\ pc = "created" /\ mem' = [mem EXCEPT !.stage = "started"]
      /\ disk' = mem' /\ pc' = "started" /\ at' = at
      /\ file' = file /\ plan' = plan /\ policy' = policy /\ edits' = edits
  BY Zenon DEF StartAttempt, Outside, world
<1>2. RecordInv(mem) /\ mem \in Runs /\ ControlInv /\ World
  BY DEF Inv, RecordInv
<1>3. /\ mem.status = "in-progress" /\ mem.stage = "created" /\ mem.next = at /\ at \in Nodes
      /\ at \in Drivers => ReadyTip(mem) /\ mem.atts[Len(mem.atts)].contract = mem.active
  BY <1>1, <1>2, SMT DEF ControlInv
<1>4. mem' \in Runs
  BY <1>1, <1>2, Zenon DEF Runs
<1>5. /\ mem'.atts = mem.atts /\ mem'.stage = "started" /\ mem'.next = mem.next
      /\ mem'.contracts = mem.contracts /\ mem'.recs = mem.recs /\ mem'.corr = mem.corr
      /\ mem'.active = mem.active /\ mem'.log = mem.log /\ mem'.compact = mem.compact
      /\ mem'.status = mem.status /\ mem'.intent = mem.intent
  BY <1>1, <1>2, <1>4, SMT DEF Runs
<1>6. RecordInv(mem')
  <2>1. StageInv(mem')
    BY <1>2, <1>3, <1>5, SMT DEF RecordInv, StageInv
  <2> QED BY <1>2, <1>4, <1>5, <2>1, SameHistory
<1>7. at \in Drivers => ReadyTip(mem') /\ mem'.atts[Len(mem'.atts)].contract = mem'.active
  BY <1>3, <1>5 DEF ReadyTip, Tip
<1>8. ControlInv'
  BY <1>1, <1>3, <1>5, <1>7, SMT DEF ControlInv
<1> QED BY <1>1, <1>2, <1>5, <1>6, <1>8, Zenon DEF Inv, World

LEMMA RoleSucceedsKeeps ==
  ASSUME Inv, RoleSucceeds
  PROVE  /\ Inv' /\ mem'.contracts = mem.contracts /\ mem'.recs = mem.recs
         /\ mem'.corr = mem.corr /\ mem'.active = mem.active
<1> DEFINE k == Len(mem.atts)
           next == After[at]
           paused == next \in Checkpointed
           pause == IF paused THEN <<Pause(TRUE, next, k)>> ELSE <<>>
           result == IF paused THEN "checkpoint" ELSE "ok"
<1>1. RecordInv(mem) /\ mem \in Runs /\ k \in Nat /\ ControlInv /\ World
  BY RunTyped DEF Inv, RecordInv
<1>2. pc = "started" /\ disk' = mem' /\ policy' = policy /\ edits' = edits
  BY Zenon DEF RoleSucceeds
<1>3. mem.stage = "started" /\ at \in Nodes
  BY <1>1, <1>2, SMT DEF ControlInv
<1>4. PICK wrote \in BOOLEAN, cand \in {"none", "partial", "whole"} :
         /\ IF at = "architect" THEN ~wrote ELSE cand = "none"
         /\ plan' = IF at = "architect" THEN k ELSE plan
         /\ file' = IF wrote THEN k ELSE file
         /\ mem' = [Close(mem, result, wrote, cand, pause)
                     EXCEPT !.next = CASE paused -> "awaiting_human"
                                       [] next = "done" -> "none"
                                       [] OTHER -> next,
                            !.status = IF next = "done" THEN "done" ELSE @]
  BY Zenon DEF RoleSucceeds
<1>5. (paused \/ next = "done") => Ends
  BY Zenon DEF RoleSucceeds
<1>6. ~(paused \/ next = "done") => pc' = "enter" /\ at' = next
  BY Zenon DEF RoleSucceeds
<1>7. next \in Drivers \cup {"done"}
  BY <1>3, SMT DEF After, Nodes, Drivers
<1>8. result \in {"ok", "checkpoint", "failed"}
  OBVIOUS
<1>9. \/ pause = <<>> /\ ~paused
      \/ \E p \in Pauses : /\ pause = <<p>> /\ p.by = 0 /\ p.after = k
                           /\ p.manual => p.next \in Drivers
  <2>1. CASE ~paused
    BY <2>1
  <2>2. CASE paused
    <3>1. next \in Drivers
      BY <2>2, HandoffBounds
    <3> DEFINE p == Pause(TRUE, next, k)
    <3>2. p = [manual |-> TRUE, next |-> next, resolved |-> FALSE, by |-> 0, after |-> k]
      BY Zenon DEF Pause
    <3> HIDE DEF p, next, k
    <3>3. p \in Pauses /\ p.by = 0 /\ p.after = k /\ p.next = next
      <4>1. TRUE \in BOOLEAN /\ FALSE \in BOOLEAN /\ 0 \in Nat
        OBVIOUS
      <4>2. p \in Pauses
        BY <1>1, <3>1, <3>2, <4>1, Zenon DEF Pauses
      <4> QED BY <3>2, <4>2, Zenon
    <3>4. pause = <<p>>
      BY <2>2 DEF p
    <3> QED BY <3>1, <3>3, <3>4, Zenon
  <2> QED BY <2>1, <2>2
<1>0. ~paused => pause = <<>>
  OBVIOUS
<1> DEFINE t == Close(mem, result, wrote, cand, pause)
           nx == CASE paused -> "awaiting_human" [] next = "done" -> "none" [] OTHER -> next
           st == IF next = "done" THEN "done" ELSE t.status
<1> HIDE DEF k, next, pause, result
<1>10. /\ RecordInv(t) /\ t.stage = "completed"
       /\ t.status = IF pause = <<>> THEN "in-progress" ELSE "awaiting-human"
       /\ t.contracts = mem.contracts /\ t.recs = mem.recs /\ t.corr = mem.corr
       /\ t.active = mem.active
  <2> HIDE DEF t
  <2> QED BY <1>1, <1>3, <1>8, <1>9, CloseKeeps DEF t, k
<1>11. nx \in Drivers \cup {"architect", "awaiting_human", "none"}
  BY <1>7, Zenon
<1>12. st \in {"not-started", "in-progress", "awaiting-human", "blocked", "done"}
  BY <1>10, Zenon
<1>13. mem' = [t EXCEPT !.next = nx, !.status = st]
  BY <1>4, Zenon
<1>14. ~paused /\ next # "done" => nx = next /\ st = "in-progress"
  BY <1>0, <1>10, Zenon
<1> HIDE DEF t, nx, st, paused
<1>15. /\ RecordInv(mem') /\ mem'.stage = "completed" /\ mem'.next = nx /\ mem'.status = st
       /\ mem'.contracts = t.contracts /\ mem'.recs = t.recs /\ mem'.corr = t.corr
       /\ mem'.active = t.active
  <2> DEFINE u == [t EXCEPT !.next = nx, !.status = st]
  <2>1. t \in Runs
    BY <1>10 DEF RecordInv
  <2>2. u \in Runs
    BY <1>11, <1>12, <2>1, Zenon DEF Runs
  <2>3. /\ u.contracts = t.contracts /\ u.recs = t.recs /\ u.corr = t.corr
        /\ u.active = t.active /\ u.atts = t.atts /\ u.log = t.log /\ u.compact = t.compact
        /\ u.stage = "completed" /\ u.next = nx /\ u.status = st /\ u.intent = t.intent
    BY <1>10, <2>1, <2>2, SMT DEF Runs
  <2>4. mem' = u
    BY <1>13
  <2> HIDE DEF u
  <2>5. StageInv(u)
    BY <1>10, <2>3, SMT DEF RecordInv, StageInv
  <2> QED BY <1>10, <2>2, <2>3, <2>4, <2>5, SameHistory
<1>16. ControlInv'
  <2>1. CASE paused \/ next = "done"
    BY <1>5, <2>1, EndsControlled
  <2>2. CASE ~(paused \/ next = "done")
    <3>1. pc' = "enter" /\ at' = next /\ next \in Nodes
      BY <1>6, <1>7, <2>2 DEF Nodes
    <3> QED BY <1>14, <1>15, <2>2, <3>1, SMT DEF ControlInv
  <2> QED BY <2>1, <2>2
<1>17. World'
  BY <1>1, <1>2, <1>4, Zenon DEF World, k
<1> QED BY <1>2, <1>10, <1>15, <1>16, <1>17, Zenon DEF Inv

LEMMA RoleFailsKeeps ==
  ASSUME Inv, RoleFails
  PROVE  /\ Inv' /\ mem'.contracts = mem.contracts /\ mem'.recs = mem.recs
         /\ mem'.corr = mem.corr /\ mem'.active = mem.active
<1> DEFINE k == Len(mem.atts)
           p == Pause(FALSE, at, k)
<1>1. RecordInv(mem) /\ mem \in Runs /\ k \in Nat /\ ControlInv /\ World
  BY RunTyped DEF Inv, RecordInv
<1>2. pc = "started" /\ disk' = mem' /\ policy' = policy /\ edits' = edits /\ Ends
  BY Zenon DEF RoleFails
<1>3. mem.stage = "started" /\ at \in Nodes
  BY <1>1, <1>2, SMT DEF ControlInv
<1>4. PICK wrote \in BOOLEAN :
         /\ mem' = [Close(mem, "failed", wrote /\ at \in Drivers, "none", <<p>>)
                      EXCEPT !.next = "awaiting_human"]
         /\ file' = IF wrote /\ at \in Drivers THEN k ELSE file
         /\ plan' = IF wrote /\ at = "architect" THEN k ELSE plan
  BY Zenon DEF RoleFails
<1>5. p \in Pauses /\ p.by = 0 /\ p.after = k /\ p.manual = FALSE
  <2>1. p = [manual |-> FALSE, next |-> at, resolved |-> FALSE, by |-> 0, after |-> k]
    BY Zenon DEF Pause
  <2> HIDE DEF p, k
  <2>2. FALSE \in BOOLEAN /\ 0 \in Nat /\ at \in Drivers \cup {"architect"}
    BY <1>3 DEF Nodes
  <2>3. p \in Pauses
    BY <1>1, <2>1, <2>2, Zenon DEF Pauses
  <2> QED BY <2>1, <2>3, Zenon
<1> DEFINE w == wrote /\ at \in Drivers
           t == Close(mem, "failed", w, "none", <<p>>)
<1>6. w \in BOOLEAN
  OBVIOUS
<1> HIDE DEF k, p, w
<1>7. /\ RecordInv(t) /\ t.stage = "completed" /\ t.contracts = mem.contracts
      /\ t.recs = mem.recs /\ t.corr = mem.corr /\ t.active = mem.active
  <2>1. "failed" \in {"ok", "checkpoint", "failed"} /\ "none" \in {"none", "partial", "whole"}
    OBVIOUS
  <2> HIDE DEF t
  <2> QED BY <1>1, <1>3, <1>5, <1>6, <2>1, CloseKeeps DEF t, k
<1>8. mem' = [t EXCEPT !.next = "awaiting_human"]
  BY <1>4, Zenon DEF w
<1> HIDE DEF t
<1> DEFINE u == [t EXCEPT !.next = "awaiting_human"]
<1>9. u \in Runs
  <2>1. "awaiting_human" \in Drivers \cup {"architect", "awaiting_human", "none"}
    OBVIOUS
  <2> QED BY <1>7, <2>1, Zenon DEF RecordInv, Runs
<1>10. /\ RecordInv(mem') /\ mem'.contracts = t.contracts /\ mem'.recs = t.recs
       /\ mem'.corr = t.corr /\ mem'.active = t.active
  <2>1. t \in Runs
    BY <1>7 DEF RecordInv
  <2>2. /\ u.contracts = t.contracts /\ u.recs = t.recs /\ u.corr = t.corr
        /\ u.active = t.active /\ u.atts = t.atts /\ u.log = t.log /\ u.compact = t.compact
        /\ u.stage = "completed" /\ u.intent = t.intent
    BY <1>7, <1>9, <2>1, SMT DEF Runs
  <2>3. mem' = u
    BY <1>8
  <2> HIDE DEF u
  <2>4. StageInv(u)
    BY <1>7, <2>2, SMT DEF RecordInv, StageInv
  <2> QED BY <1>7, <1>9, <2>2, <2>3, <2>4, SameHistory
<1>11. World'
  BY <1>1, <1>2, <1>4, Zenon DEF World, k
<1> QED BY <1>2, <1>7, <1>10, <1>11, EndsControlled, Zenon DEF Inv

LEMMA CrashKeeps == ASSUME Inv, Crash PROVE Inv'
<1>1. /\ file' \in {file} \cup {Len(mem.atts)} /\ mem' = disk /\ Ends
      /\ disk' = disk /\ plan' = plan /\ policy' = policy /\ edits' = edits
  BY Zenon DEF Crash
<1>2. Len(mem.atts) \in Nat
  BY RunTyped DEF Inv, RecordInv
<1>3. World'
  BY <1>1, <1>2, SMT DEF Inv, World
<1> QED BY <1>1, <1>3, EndsControlled, Zenon DEF Inv

-----------------------------------------------------------------------------
(* The steps of humans and of the world *)

LEMMA CommitKeeps ==
  ASSUME Inv, NEW s, RecordInv(s), Commit(s)
  PROVE  Inv'
<1>1. /\ disk' = s /\ mem' = IF pc = "idle" THEN s ELSE mem
      /\ pc' = pc /\ at' = at /\ file' = file /\ plan' = plan /\ policy' = policy
      /\ edits' = edits
  BY Zenon DEF Commit, world
<1>2. RecordInv(disk') /\ RecordInv(mem') /\ World'
  BY <1>1, Zenon DEF Inv, World
<1>3. ControlInv'
  <2>1. CASE pc = "idle"
    BY <1>1, <2>1, SMT DEF Inv, ControlInv
  <2>2. CASE pc # "idle"
    <3>1. mem' = mem
      BY <1>1, <2>2
    <3> QED BY <1>1, <3>1, Zenon DEF Inv, ControlInv
  <2> QED BY <2>1, <2>2
<1> QED BY <1>2, <1>3 DEF Inv

\* Initial sealing judges the first contract, like the gate.
LEMMA SealKeeps ==
  ASSUME Inv, NEW ev, Seal(ev)
  PROVE  /\ Inv' /\ disk'.corr = disk.corr /\ disk'.atts = disk.atts /\ disk.corr = <<>>
         /\ IsPrefix(disk.contracts, disk'.contracts) /\ IsPrefix(disk.recs, disk'.recs)
<1> DEFINE n == IF disk.active = 0 THEN 1 ELSE disk.active
<1>1. PICK c \in Candidates(disk) :
         /\ disk.contracts # <<>> => disk.active # 0 /\ disk.contracts[disk.active] = c
         /\ MayRecord(disk, Assess(disk, c, 1, ev, FALSE))
         /\ Commit(Reconcile(disk, c, 1, ev))
  BY Zenon DEF Seal
<1>2. RecordInv(disk) /\ disk \in Runs /\ World
  BY DEF Inv, RecordInv
<1>3. c.sup = 0 /\ disk.corr = <<>>
  BY <1>2, CandidateTyped
<1>4. c \in Judged(disk)
  BY <1>1, SMT DEF Judged
<1>5. n = 1
  <2>1. disk.active \in {0, Tip(disk)} /\ DOMAIN disk.contracts = 1..Tip(disk)
        /\ Tip(disk) \in Nat
    BY <1>2, RunTyped DEF RecordInv, ChainInv, Tip
  <2>2. CASE disk.contracts = <<>>
    BY <2>1, <2>2, SMT DEF Tip
  <2>3. CASE disk.contracts # <<>>
    <3>1. disk.active \in DOMAIN disk.contracts /\ disk.active \in Nat
      BY <1>1, <2>1, <2>3, SMT
    <3>2. disk.contracts[disk.active].sup = disk.active - 1
      BY <1>2, <3>1, Zenon DEF RecordInv, ChainInv
    <3>3. disk.active - 1 = 0
      BY <1>1, <1>3, <2>3, <3>2
    <3> QED BY <3>1, <3>3, SMT
  <2> QED BY <2>2, <2>3
<1> DEFINE v == Reconcile(disk, c, n, ev)
<1>6. /\ RecordInv(v) /\ v.atts = disk.atts /\ v.corr = disk.corr
      /\ IsPrefix(disk.contracts, v.contracts) /\ IsPrefix(disk.recs, v.recs)
  <2>1. MayRecord(disk, Assess(disk, c, n, ev, FALSE))
    BY <1>1, <1>5
  <2> QED BY <1>2, <1>4, <2>1, ReconcileKeeps
<1>7. Commit(v)
  BY <1>1, <1>5
<1> HIDE DEF v
<1>8. disk' = v
  BY <1>7 DEF Commit
<1> QED BY <1>3, <1>6, <1>7, <1>8, CommitKeeps

LEMMA ApproveStepKeeps ==
  ASSUME Inv, NEW tip, Approve(tip)
  PROVE  /\ Inv' /\ ~Cancelled(disk) /\ IsPrefix(disk.contracts, disk'.contracts)
         /\ IsPrefix(disk.recs, disk'.recs) /\ IsPrefix(disk.corr, disk'.corr)
<1>1. RecordInv(disk) /\ disk \in Runs /\ World
  BY DEF Inv, RecordInv
<1>2. /\ ArchitectRenewed(disk) /\ ~Cancelled(disk) /\ Unfinished(disk) = {}
      /\ tip = Tip(disk)
  BY Zenon DEF Approve, Correctable
<1> DEFINE n == Tip(disk) + 1
           k == Correction("approve", tip, n)
<1>3. PICK arch \in {0, LatestArchitect(disk)}, whole \in BOOLEAN :
         LET c == [arch |-> arch, sup |-> tip, whole |-> whole]
             r == Assess(disk, c, n, "exact", TRUE)
             u == [disk EXCEPT !.contracts = Append(@, c), !.recs = Append(@, r),
                               !.active = n, !.corr = Append(@, k)]
         IN  /\ arch # 0 => Completed(disk.atts[arch])
             /\ Ready(r)
             /\ \E s \in Renewed(u) : Commit(s)
  BY Zenon DEF Approve
<1> DEFINE c == [arch |-> arch, sup |-> tip, whole |-> whole]
           r == Assess(disk, c, n, "exact", TRUE)
           u == [disk EXCEPT !.contracts = Append(disk.contracts, c),
                             !.recs = Append(disk.recs, r),
                             !.active = n, !.corr = Append(disk.corr, k)]
<1>4. /\ arch # 0 => Completed(disk.atts[arch])
      /\ Ready(r) /\ \E s \in Renewed(u) : Commit(s)
  BY <1>3, Zenon
<1>5. Tip(disk) \in Nat /\ Len(disk.atts) \in Nat /\ n \in Nat \ {0}
  BY <1>1, RunTyped, SMT DEF Tip
<1>6. /\ c \in Contracts /\ c.sup = Tip(disk)
      /\ c.arch # 0 => c.arch = LatestArchitect(disk) /\ Completed(disk.atts[c.arch])
  <2>1. arch \in Nat
    BY <1>1, NewestArchitect
  <2>2. c.arch = arch /\ c.sup = tip
    OBVIOUS
  <2>3. c \in Contracts
    BY <1>2, <1>5, <2>1, Zenon DEF Contracts
  <2> QED BY <1>2, <1>4, <2>2, <2>3
<1>7. k \in Corrections /\ k.act = "approve" /\ k.prev = Tip(disk) /\ k.new = n
  BY <1>2, <1>5, SMT DEF Correction, Corrections, Actions
<1> HIDE DEF c, k, n
<1>8. Judgement(disk, c, n, r) /\ r \in Reconciliations
  <2>1. Judgement(disk, c, n, r)
    BY <1>1, <1>5, <1>6, AssessTyped
  <2> QED BY <2>1, Zenon DEF Judgement
<1> HIDE DEF r
<1>9. /\ Append(disk.contracts, c) \in Seq(Contracts)
      /\ Append(disk.recs, r) \in Seq(Reconciliations)
      /\ Append(disk.corr, k) \in Seq(Corrections)
  BY <1>1, <1>6, <1>7, <1>8, RunTyped, Appended
<1>10. u \in Runs
  BY <1>1, <1>5, <1>9, Zenon DEF Runs
<1>11. /\ u.contracts = Append(disk.contracts, c) /\ u.recs = Append(disk.recs, r)
       /\ u.corr = Append(disk.corr, k) /\ u.active = n /\ u.atts = disk.atts
       /\ u.log = disk.log /\ u.compact = disk.compact /\ u.status = disk.status
       /\ u.stage = disk.stage /\ u.next = disk.next /\ u.intent = disk.intent
  BY <1>1, <1>10, SMT DEF Runs
<1> HIDE DEF u
<1>12. /\ RecordInv(u) /\ IsPrefix(disk.contracts, u.contracts)
       /\ IsPrefix(disk.recs, u.recs) /\ IsPrefix(disk.corr, u.corr)
  BY <1>1, <1>2, <1>4, <1>6, <1>7, <1>8, <1>10, <1>11, ApproveKeeps DEF n
<1>13. PICK s \in Renewed(u) : Commit(s)
  BY <1>4
<1>14. u.stage \notin {"created", "started"}
  <2>1. disk.stage \in {"created", "started"} => Len(disk.atts) \in Unfinished(disk)
    <3>1. disk.stage \in {"created", "started"} =>
             disk.atts # <<>> /\ disk.atts[Len(disk.atts)].result = "open"
      BY <1>1, Zenon DEF RecordInv, StageInv
    <3> QED BY <1>1, <3>1, RunTyped, SMT DEF Unfinished
  <2> QED BY <1>2, <1>11, <2>1
<1>15. /\ RecordInv(s) /\ s.contracts = u.contracts /\ s.recs = u.recs /\ s.corr = u.corr
  BY <1>12, <1>14, RenewKeeps
<1>16. disk' = s
  BY <1>13 DEF Commit
<1> QED BY <1>2, <1>12, <1>13, <1>15, <1>16, CommitKeeps

\* A return or a cancellation: the corrections get one longer, nothing is active.
LEMMA StopStepKeeps ==
  ASSUME Inv, NEW tip, Correctable(tip), NEW act, NEW status, NEW next,
         \/ act = "return" /\ ~disk.compact /\ status = "not-started" /\ next = "architect"
         \/ act = "cancel" /\ status = "blocked" /\ next = "none",
         NEW u, u = [disk EXCEPT !.corr = Append(disk.corr, Correction(act, tip, 0)),
                                 !.active = 0, !.intent = 0, !.pending = FALSE,
                                 !.status = status, !.stage = "before", !.next = next],
         Commit(u)
  PROVE  /\ Inv' /\ ~Cancelled(disk) /\ disk'.contracts = disk.contracts
         /\ disk'.recs = disk.recs /\ IsPrefix(disk.corr, disk'.corr)
<1>1. RecordInv(disk) /\ disk \in Runs
  BY DEF Inv, RecordInv
<1>2. ~Cancelled(disk) /\ Unfinished(disk) = {} /\ tip = Tip(disk)
  BY Zenon DEF Correctable
<1>3. Tip(disk) \in Nat /\ Len(disk.atts) \in Nat
  BY <1>1, RunTyped DEF Tip
<1> DEFINE k == Correction(act, tip, 0)
<1>4. k \in Corrections /\ k.new = 0 /\ k.act = act
  BY <1>2, <1>3, SMT DEF Correction, Corrections, Actions
<1> HIDE DEF k
<1>5. Append(disk.corr, k) \in Seq(Corrections)
  BY <1>1, <1>4, RunTyped, Appended
<1> DEFINE v == [disk EXCEPT !.corr = Append(disk.corr, k), !.active = 0, !.intent = 0,
                             !.pending = FALSE, !.status = status, !.stage = "before",
                             !.next = next]
<1>6. v \in Runs
  <2>1. status \in {"not-started", "in-progress", "awaiting-human", "blocked", "done"}
    BY SMT
  <2>2. next \in Drivers \cup {"architect", "awaiting_human", "none"}
    BY SMT
  <2>3. 0 \in Nat /\ FALSE \in BOOLEAN
    OBVIOUS
  <2> QED BY <1>1, <1>5, <2>1, <2>2, <2>3, Zenon DEF Runs
<1>7. /\ v.corr = Append(disk.corr, k) /\ v.active = 0 /\ v.stage = "before"
      /\ v.contracts = disk.contracts /\ v.recs = disk.recs /\ v.atts = disk.atts
      /\ v.log = disk.log /\ v.compact = disk.compact /\ v.intent = 0
  BY <1>1, <1>6, SMT DEF Runs
<1>8. u = v
  BY Zenon DEF k
<1> HIDE DEF v
<1>9. RecordInv(v) /\ IsPrefix(disk.corr, v.corr)
  BY <1>1, <1>2, <1>4, <1>6, <1>7, StopKeeps
<1>10. disk' = v
  BY <1>8 DEF Commit
<1> QED BY <1>2, <1>7, <1>8, <1>9, <1>10, CommitKeeps

LEMMA ReturnStepKeeps ==
  ASSUME Inv, NEW tip, Return(tip)
  PROVE  /\ Inv' /\ ~Cancelled(disk) /\ disk'.contracts = disk.contracts
         /\ disk'.recs = disk.recs /\ IsPrefix(disk.corr, disk'.corr)
<1> DEFINE u == [disk EXCEPT !.corr = Append(disk.corr, Correction("return", tip, 0)),
                             !.active = 0, !.intent = 0, !.pending = FALSE,
                             !.status = "not-started", !.stage = "before",
                             !.next = "architect"]
<1>1. Correctable(tip) /\ ~disk.compact /\ Commit(u)
  BY Zenon DEF Return
<1> QED BY <1>1, StopStepKeeps, Zenon

LEMMA CancelStepKeeps ==
  ASSUME Inv, NEW tip, Cancel(tip)
  PROVE  /\ Inv' /\ ~Cancelled(disk) /\ disk'.contracts = disk.contracts
         /\ disk'.recs = disk.recs /\ IsPrefix(disk.corr, disk'.corr)
<1> DEFINE u == [disk EXCEPT !.corr = Append(disk.corr, Correction("cancel", tip, 0)),
                             !.active = 0, !.intent = 0, !.pending = FALSE,
                             !.status = "blocked", !.stage = "before", !.next = "none"]
<1>1. Correctable(tip) /\ Commit(u)
  BY Zenon DEF Cancel
<1> QED BY <1>1, StopStepKeeps, Zenon

\* What a resume acts on: the record as it is, or with its open pause resolved.
LEMMA DecidedKeeps ==
  ASSUME NEW s, RecordInv(s), NEW c \in Nat, NEW r \in Decided(s, c)
  PROVE  /\ RecordInv(r) /\ r.contracts = s.contracts /\ r.recs = s.recs /\ r.corr = s.corr
         /\ r.atts = s.atts /\ r.stage \in {s.stage, "before"}
<1>1. CASE r = s
  BY <1>1
<1>2. CASE r # s
  <2>1. PICK i \in LatestOpen(s) :
           s.status = "awaiting-human" /\ MayResolve(s, i, c) /\ r = Resolved(s, i, c)
    BY <1>2, Zenon DEF Decided
  <2> DEFINE v == Resolved(s, i, c)
  <2>2. /\ RecordInv(v) /\ v.contracts = s.contracts /\ v.recs = s.recs /\ v.corr = s.corr
        /\ v.active = s.active /\ v.atts = s.atts /\ v.compact = s.compact
        /\ v.status = s.status /\ v.stage = "before" /\ v.next = "none"
    BY <2>1, ResolveKeeps
  <2> HIDE DEF v
  <2> QED BY <2>1, <2>2 DEF v
<1> QED BY <1>1, <1>2

\* What a resume may save: what it acts on, or what the gate observed of it.
LEMMA PreparedKeeps ==
  ASSUME NEW s, RecordInv(s), World, NEW c \in Nat, NEW ev, NEW u \in Prepared(s, c, ev)
  PROVE  /\ RecordInv(u) /\ u.corr = s.corr /\ u.atts = s.atts
         /\ IsPrefix(s.contracts, u.contracts) /\ IsPrefix(s.recs, u.recs)
         /\ u.stage \in {s.stage, "before"}
<1>1. IsPrefix(s.contracts, s.contracts) /\ IsPrefix(s.recs, s.recs)
  BY RunTyped, PrefixOfItself DEF RecordInv
<1>2. PICK r \in Decided(s, c) : u \in Authorising(r, c, ev)
  BY Zenon DEF Prepared
<1>3. /\ RecordInv(r) /\ r.contracts = s.contracts /\ r.recs = s.recs /\ r.corr = s.corr
      /\ r.atts = s.atts /\ r.stage \in {s.stage, "before"}
  BY DecidedKeeps
<1>4. CASE u = r
  BY <1>1, <1>3, <1>4
<1>5. CASE u # r
  <2>1. /\ c # 0 /\ r.intent # 0 /\ r.log[r.intent].by = c
        /\ u \in Observed(r, ev, r.log[r.intent].next)
    BY <1>2, <1>5, Zenon DEF Authorising
  <2>2. r.intent \in DOMAIN r.log
    BY <1>3, <2>1, Zenon DEF RecordInv, IntentInv
  <2>3. r.log[r.intent].next \in Nodes
    <3>1. r.log[r.intent] \in Pauses
      BY <1>3, <2>2, RunTyped DEF RecordInv
    <3> QED BY <3>1, Zenon DEF Pauses, Nodes
  <2>4. /\ RecordInv(u) /\ u.atts = r.atts /\ u.corr = r.corr /\ u.stage = r.stage
        /\ IsPrefix(r.contracts, u.contracts) /\ IsPrefix(r.recs, u.recs)
    BY <1>3, <2>1, <2>3, ObservedKeeps
  <2> QED BY <1>3, <2>4
<1> QED BY <1>4, <1>5

LEMMA ResumeKeeps ==
  ASSUME Inv, NEW c \in Nat, NEW ev, Resume(c, ev)
  PROVE  /\ Inv' /\ ~Cancelled(disk) /\ disk'.corr = disk.corr
         /\ IsPrefix(disk.contracts, disk'.contracts) /\ IsPrefix(disk.recs, disk'.recs)
         /\ mem' = [disk' EXCEPT !.status = "in-progress"]
<1>1. PICK s \in Prepared(disk, c, ev) :
         /\ disk' = s /\ mem' = [s EXCEPT !.status = "in-progress"] /\ at' = EntryNode(s)
  BY Zenon DEF Resume
<1>2. /\ ~Cancelled(disk) /\ ~Terminal(disk) /\ pc' = "enter"
      /\ file' = file /\ plan' = plan /\ policy' = policy /\ edits' = edits
  BY Zenon DEF Resume, world
<1>3. RecordInv(disk) /\ disk \in Runs /\ World
  BY DEF Inv, RecordInv
<1>4. /\ RecordInv(s) /\ s.corr = disk.corr /\ s.atts = disk.atts
      /\ IsPrefix(disk.contracts, s.contracts) /\ IsPrefix(disk.recs, s.recs)
      /\ s.stage \in {disk.stage, "before"}
  BY <1>3, PreparedKeeps
<1>5. s.stage # "started"
  <2>1. disk.stage = "started" => Len(disk.atts) \in Unfinished(disk)
    <3>1. disk.stage = "started" =>
             disk.atts # <<>> /\ disk.atts[Len(disk.atts)].result = "open"
      BY <1>3, Zenon DEF RecordInv, StageInv
    <3> QED BY <1>3, <3>1, RunTyped, SMT DEF Unfinished
  <2>2. disk.stage # "started"
    BY <1>2, <2>1 DEF Terminal
  <2> QED BY <1>4, <2>2
<1>6. s \in Runs
  BY <1>4 DEF RecordInv
<1> DEFINE m == [s EXCEPT !.status = "in-progress"]
<1>7. m \in Runs
  BY <1>6, Zenon DEF Runs
<1>8. /\ m.contracts = s.contracts /\ m.recs = s.recs /\ m.corr = s.corr
      /\ m.active = s.active /\ m.atts = s.atts /\ m.log = s.log /\ m.compact = s.compact
      /\ m.stage = s.stage /\ m.next = s.next /\ m.status = "in-progress"
      /\ m.intent = s.intent
  BY <1>6, <1>7, SMT DEF Runs
<1>9. mem' = m
  BY <1>1
<1> HIDE DEF m
<1>10. RecordInv(m)
  <2>1. StageInv(m)
    BY <1>4, <1>8, SMT DEF RecordInv, StageInv
  <2> QED BY <1>4, <1>7, <1>8, <2>1, SameHistory
<1>11. /\ EntryNode(s) \in Nodes
       /\ s.stage = "created" => s.next = EntryNode(s)
  <2>1. s.log # <<>> => Last(s.log).next \in Nodes
    <3>1. s.log # <<>> => Last(s.log) \in Pauses
      BY <1>6, RunTyped, SMT DEF Last
    <3> QED BY <3>1, Zenon DEF Pauses, Nodes
  <2>2. EntryNode(s) \in Nodes
    BY <2>1, Zenon DEF EntryNode, Nodes
  <2>3. s.stage = "created" => s.next \in Nodes
    <3>1. s.stage = "created" => s.atts # <<>> /\ s.atts[Len(s.atts)].node = s.next
      BY <1>4, Zenon DEF RecordInv, StageInv
    <3>2. s.atts # <<>> => s.atts[Len(s.atts)] \in Attempts
      BY <1>6, RunTyped, SMT
    <3>3. s.atts # <<>> => s.atts[Len(s.atts)].node \in Nodes
      BY <3>2, Zenon DEF Attempts, Nodes
    <3> QED BY <3>1, <3>3
  <2> QED BY <2>2, <2>3, Zenon DEF EntryNode, Nodes
<1>12. ControlInv'
  BY <1>1, <1>2, <1>5, <1>8, <1>9, <1>11, SMT DEF ControlInv
<1> QED BY <1>1, <1>2, <1>3, <1>4, <1>9, <1>10, <1>12, Zenon DEF Inv, World, m

LEMMA EditKeeps == ASSUME Inv, Edit PROVE Inv'
<1>1. disk' = disk /\ mem' = mem /\ pc' = pc /\ at' = at /\ edits' # 0
  BY SMT DEF Edit, Inv, World
<1>2. World'
  BY SMT DEF Edit, Inv, World, Baseline, Foreign
<1>3. ControlInv'
  BY <1>1, SMT DEF Inv, ControlInv
<1> QED BY <1>1, <1>2, <1>3, Zenon DEF Inv

-----------------------------------------------------------------------------
(* The invariant, and what it says *)

LEMMA InitInv == ASSUME Init PROVE Inv
<1>1. PICK b \in BOOLEAN : disk = FreshRun(b)
  BY DEF Init
<1>2. /\ mem = disk /\ pc = "idle" /\ at = "architect"
      /\ file = 0 /\ plan = 0 /\ policy = 0 /\ edits = 0
  BY DEF Init, Baseline
<1> DEFINE e == <<>>
           nx == IF b THEN "driver_red" ELSE "architect"
<1>3. /\ e \in Seq(Contracts) /\ e \in Seq(Reconciliations) /\ e \in Seq(Corrections)
      /\ e \in Seq(Attempts) /\ e \in Seq(Pauses) /\ Len(e) = 0 /\ DOMAIN e = {}
  BY SMT
<1>4. /\ nx \in Drivers \cup {"architect", "awaiting_human", "none"}
      /\ "not-started" \in {"not-started", "in-progress", "awaiting-human", "blocked", "done"}
      /\ "before" \in {"before", "created", "started", "completed"} /\ 0 \in Nat
      /\ FALSE \in BOOLEAN
  BY SMT DEF Drivers
<1>5. disk = [compact |-> b, contracts |-> e, recs |-> e, corr |-> e, active |-> 0,
              atts |-> e, log |-> e, intent |-> 0, pending |-> FALSE,
              status |-> "not-started", stage |-> "before", next |-> nx]
  BY <1>1 DEF FreshRun
<1> HIDE DEF e, nx
<1>6. disk \in Runs
  BY <1>3, <1>4, <1>5, Zenon DEF Runs
<1>7. /\ disk.contracts = e /\ disk.recs = e /\ disk.corr = e /\ disk.active = 0
      /\ disk.atts = e /\ disk.log = e /\ disk.stage = "before" /\ disk.intent = 0
  BY <1>5, SMT
<1>8. RecordInv(disk)
  <2>1. ChainInv(disk)
    BY <1>3, <1>7, SMT DEF ChainInv
  <2>2. EvidenceInv(disk)
    BY <1>3, <1>7, SMT DEF EvidenceInv
  <2>3. CorrectionInv(disk)
    BY <1>3, <1>7, SMT DEF CorrectionInv
  <2>4. LogInv(disk) /\ AttemptInv(disk) /\ StageInv(disk)
    BY <1>3, <1>7, SMT DEF LogInv, AttemptInv, StageInv
  <2>5. IntentInv(disk)
    BY <1>7 DEF IntentInv
  <2> QED BY <1>6, <2>1, <2>2, <2>3, <2>4, <2>5 DEF RecordInv
<1>9. ControlInv /\ World
  BY <1>2, SMT DEF ControlInv, World, Nodes
<1> QED BY <1>2, <1>8, <1>9 DEF Inv

LEMMA NextInv == ASSUME Inv, Next PROVE Inv'
<1>1. ASSUME Process PROVE Inv'
  BY <1>1, GateAdmitsKeeps, GateRejectsKeeps, CreateAttemptKeeps, StartAttemptKeeps,
     RoleSucceedsKeeps, RoleFailsKeeps DEF Process
<1>2. ASSUME NEW tip, Approve(tip) \/ Return(tip) \/ Cancel(tip) PROVE Inv'
  BY <1>2, ApproveStepKeeps, ReturnStepKeeps, CancelStepKeeps
<1>3. ASSUME NEW c \in 0..Tip(disk), NEW ev, Resume(c, ev) PROVE Inv'
  <2>1. c \in Nat
    BY SMT
  <2> QED BY <1>3, <2>1, ResumeKeeps
<1>4. ASSUME NEW ev, Seal(ev) PROVE Inv'
  BY <1>4, SealKeeps
<1> QED BY <1>1, <1>2, <1>3, <1>4, CrashKeeps, EditKeeps, Zenon DEF Next, Human

LEMMA StepInv == ASSUME Inv, [Next]_vars PROVE Inv'
<1>1. ASSUME UNCHANGED vars PROVE Inv'
  BY <1>1, Zenon DEF vars, world, Inv, ControlInv, World
<1> QED BY <1>1, NextInv

LEMMA Invariance == Spec => []Inv
BY InitInv, StepInv, PTL DEF Spec

LEMMA RecordReadable == ASSUME NEW s, RecordInv(s) PROVE Readable(s)
<1>1. ASSUME NEW c \in DOMAIN s.contracts
      PROVE  /\ s.contracts[c].sup = c - 1
             /\ s.contracts[c].arch # 0 =>
                   /\ s.contracts[c].arch \in Architects(s)
                   /\ Completed(s.atts[s.contracts[c].arch])
  BY Zenon DEF RecordInv, ChainInv, Architects
<1>2. ASSUME NEW i \in DOMAIN s.recs
      PROVE  /\ s.recs[i].contract \in DOMAIN s.contracts
             /\ Ready(s.recs[i]) => s.recs[i].src = Baseline
  BY Zenon DEF RecordInv, EvidenceInv
<1>3. ASSUME NEW i \in DOMAIN s.corr, s.corr[i].act = "approve"
      PROVE  /\ s.corr[i].new \in DOMAIN s.contracts
             /\ s.contracts[s.corr[i].new].sup = s.corr[i].prev
  BY <1>3, Zenon DEF RecordInv, CorrectionInv
<1>4. ASSUME NEW i \in DOMAIN s.log, s.log[i].by # 0
      PROVE  /\ s.log[i].manual /\ s.log[i].next \in Drivers /\ s.log[i].resolved
             /\ ReadyBefore(s, s.log[i].by, Len(s.atts) + 1)
  BY <1>4, Zenon DEF RecordInv, LogInv
<1>5. ASSUME NEW k \in DOMAIN s.atts, s.atts[k].contract # 0
      PROVE  ReadyBefore(s, s.atts[k].contract, k)
  BY <1>5, Zenon DEF RecordInv, AttemptInv, Founded
<1>6. /\ s \in Runs /\ s.active \in {0, Tip(s)}
      /\ \A i, j \in DOMAIN s.corr :
            s.corr[i].new = s.corr[j].new /\ s.corr[i].new # 0 => i = j
  BY Zenon DEF RecordInv, ChainInv, CorrectionInv
<1>7. s.intent # 0 => s.intent \in DOMAIN s.log /\ s.log[s.intent].resolved
  BY Zenon DEF RecordInv, IntentInv
<1> QED BY <1>1, <1>2, <1>3, <1>4, <1>5, <1>6, <1>7, Zenon DEF Readable

\* Whatever is saved, and whatever a process holds, is a record the application
\* loads (RunState.__post_init__): crash, correction and resume included.
THEOREM TypeCorrect == Spec => []TypeOK
<1>1. Inv => TypeOK
  BY RecordReadable DEF Inv, TypeOK
<1> QED BY <1>1, Invariance, PTL

\* What the gate admits stands as it was approved.
LEMMA AdmittedStands == ASSUME Inv, GateAdmits PROVE StandsAsApproved'
<1>1. PICK u \in Observed(mem, evidence, at) : Admits(u) /\ mem' = u
  BY Zenon DEF GateAdmits
<1>2. /\ file' = file /\ plan' = plan /\ policy' = policy
      /\ RecordInv(mem) /\ mem \in Runs /\ World /\ at \in Nodes
  BY Zenon DEF GateAdmits, Outside, world, Inv, RecordInv, ControlInv
<1>3. /\ RecordInv(u) /\ u.atts = mem.atts /\ ReadyTip(u) /\ Unchanged(mem) /\ Accounted(u)
  BY <1>1, <1>2, ObservedKeeps
<1> DEFINE l == Len(u.recs)
<1>4. /\ l \in DOMAIN u.recs /\ DOMAIN u.recs = 1..l /\ l \in Nat
      /\ u.recs[l].contract = u.active /\ Ready(u.recs[l]) /\ u.recs[l].policy = policy
      /\ u.contracts[u.active].arch \in {0, plan}
  BY <1>3, RunTyped, SMT DEF RecordInv, ReadyTip, Accounted
<1>5. ASSUME NEW i \in DOMAIN u.recs, u.recs[i].contract = u.active
      PROVE  Ready(u.recs[i]) /\ u.recs[i].policy = policy
  <2>1. i = l \/ i < l
    BY <1>4, SMT
  <2>2. CASE i < l
    <3>1. /\ Ready(u.recs[i])
          /\ Ready(u.recs[l]) => u.recs[i].policy = u.recs[l].policy
      BY <1>3, <1>4, <1>5, <2>2, Zenon DEF RecordInv, EvidenceInv
    <3> QED BY <1>4, <3>1
  <2> QED BY <1>4, <2>1, <2>2
<1>6. file # Baseline => /\ file \in DOMAIN u.atts /\ Completed(u.atts[file])
                         /\ \A k \in DOMAIN u.atts : u.atts[k].wrote => k <= file
  <2>1. file # Baseline => file \in Receipt(mem)
    BY <1>3 DEF Unchanged
  <2> QED BY <1>2, <1>3, <2>1, ReceiptCompleted
<1> HIDE DEF l
<1> QED BY <1>1, <1>2, <1>4, <1>5, <1>6, Zenon DEF StandsAsApproved

\* Only the gate admits.
LEMMA OnlyGateAdmits ==
  ASSUME Inv, [Next]_vars, pc # "admitted", pc' = "admitted"
  PROVE  GateAdmits
<1>1. pc' = pc => FALSE
  OBVIOUS
<1>2. ~GateRejects /\ ~RoleFails /\ ~Crash
  BY SMT DEF GateRejects, RoleFails, Crash, Ends
<1>3. ~CreateAttempt /\ ~StartAttempt
  BY SMT DEF CreateAttempt, StartAttempt
<1>4. ~RoleSucceeds
  <2>1. RoleSucceeds => pc' \in {"idle", "enter"}
    BY SMT DEF RoleSucceeds, Ends
  <2> QED BY <2>1
<1>5. \A c, ev : ~Resume(c, ev)
  BY SMT DEF Resume
<1>6. \A s : ~Commit(s)
  BY <1>1 DEF Commit
<1>7. /\ \A tip : ~Approve(tip) /\ ~Return(tip) /\ ~Cancel(tip)
      /\ \A ev : ~Seal(ev)
  BY <1>6, Zenon DEF Approve, Return, Cancel, Seal
<1>8. ~Edit /\ ~UNCHANGED vars
  BY <1>1, Zenon DEF Edit, vars
<1> QED BY <1>2, <1>3, <1>4, <1>5, <1>7, <1>8, Zenon DEF Next, Process, Human

\* A Driver runs on the active end of the chain and on its newest, ready evidence; a
\* contract that once needed clarification is never executed again; and what a Driver is
\* admitted to has been ready under the present write scope ever since it was approved, its
\* plan and its target still the Run's own, whatever was edited, lost or repeated meanwhile.
THEOREM AdmissionCorrect == Spec => AdmittedRightly
<1>1. Inv => DriverRunsOnReadyTip
  <2> SUFFICES ASSUME Inv, pc \in {"created", "started"}, at \in Drivers
               PROVE  /\ Last(mem.atts).contract = mem.active
                      /\ mem.active = Tip(mem) /\ mem.active # 0
                      /\ Last(mem.recs).contract = Last(mem.atts).contract
                      /\ Ready(Last(mem.recs))
    BY DEF DriverRunsOnReadyTip
  <2>1. ReadyTip(mem) /\ mem.atts[Len(mem.atts)].contract = mem.active
    BY Zenon DEF Inv, ControlInv
  <2> QED BY <2>1 DEF ReadyTip, Last
<1>2. Inv => ClarifiedNeverExecutes
  BY Zenon DEF Inv, RecordInv, AttemptInv, Founded, ClarifiedNeverExecutes
<1>3. Inv /\ [Next]_vars => [pc # "admitted" /\ pc' = "admitted" => StandsAsApproved']_vars
  BY AdmittedStands, OnlyGateAdmits
<1> QED BY <1>1, <1>2, <1>3, Invariance, PTL DEF Spec, AdmittedRightly

\* A Driver attempt behind a checkpoint was authorised, by the last checkpoint
\* before it, for the contract it executes.
THEOREM AuthorizationCorrect == Spec => []AuthorizationExact
<1>1. ASSUME Inv, NEW k \in DOMAIN disk.atts, disk.atts[k].node \in Drivers,
             {i \in DOMAIN disk.log : disk.log[i].manual /\ disk.log[i].after < k} # {}
      PROVE  LET C == {i \in DOMAIN disk.log : disk.log[i].manual /\ disk.log[i].after < k}
                 i == CHOOSE i \in C : \A j \in C : j <= i
             IN  disk.log[i].resolved /\ disk.log[i].by = disk.atts[k].contract
  <2> DEFINE C == {i \in DOMAIN disk.log : disk.log[i].manual /\ disk.log[i].after < k}
             l == CHOOSE i \in C : \A j \in C : j <= i
  <2>1. RecordInv(disk) /\ disk \in Runs
    BY <1>1 DEF Inv, RecordInv
  <2>2. C \subseteq Nat /\ \A i \in C : i <= Len(disk.log)
    BY <2>1, RunTyped, SMT
  <2>3. \E i \in C : \A j \in C : j <= i
    <3>1. Len(disk.log) \in Nat /\ C # {}
      BY <1>1, <2>1, RunTyped
    <3> HIDE DEF C
    <3> QED BY <2>2, <3>1, NewestExists
  <2>4. l \in C /\ \A j \in C : j <= l
    BY <2>3
  <2>5. Founded(disk, k)
    BY <2>1 DEF RecordInv, AttemptInv
  <2>6. /\ l \in DOMAIN disk.log /\ disk.log[l].manual /\ disk.log[l].after < k
        /\ \A j \in DOMAIN disk.log : disk.log[j].manual /\ disk.log[j].after < k => j <= l
    BY <2>4
  <2> HIDE DEF l
  <2>7. disk.log[l].resolved /\ disk.log[l].by = disk.atts[k].contract
    BY <1>1, <2>5, <2>6, Zenon DEF Founded
  <2> QED BY <2>7 DEF l
<1>2. Inv => AuthorizationExact
  BY <1>1, Zenon DEF AuthorizationExact
<1> QED BY <1>2, Invariance, PTL

\* After a return to the Architect only a newer attempt of it is approved.
THEOREM ReturnCorrect == Spec => []ReturnNeedsNewArchitect
<1>1. Inv => ReturnNeedsNewArchitect
  BY Zenon DEF Inv, RecordInv, CorrectionInv, ReturnNeedsNewArchitect
<1> QED BY <1>1, Invariance, PTL

-----------------------------------------------------------------------------
(* The history, where only workers execute *)

\* The process holds what is saved but for its status, and no cancelled Run.
AgreeInv ==
    /\ mem.contracts = disk.contracts /\ mem.recs = disk.recs /\ mem.corr = disk.corr
    /\ mem.atts = disk.atts
    /\ pc # "idle" => ~Cancelled(disk)

\* What a step keeps of the saved history.
Kept ==
    /\ IsPrefix(disk.contracts, disk'.contracts) /\ IsPrefix(disk.recs, disk'.recs)
    /\ IsPrefix(disk.corr, disk'.corr)
Quiet == disk'.atts = disk.atts /\ disk'.corr = disk.corr /\ disk'.active = 0
Faithful == AgreeInv' /\ Kept /\ (Cancelled(disk) => Quiet)

LEMMA Unrevised ==
  ASSUME NEW s \in Runs
  PROVE  /\ IsPrefix(s.contracts, s.contracts) /\ IsPrefix(s.recs, s.recs)
         /\ IsPrefix(s.corr, s.corr)
BY RunTyped, PrefixOfItself

\* A process that saves what it holds extends what was saved.
LEMMA ProcessFaithful ==
  ASSUME Inv, AgreeInv, pc # "idle", disk' = mem',
         IsPrefix(mem.contracts, mem'.contracts), IsPrefix(mem.recs, mem'.recs),
         mem'.corr = mem.corr
  PROVE  Faithful
<1>1. disk \in Runs
  BY DEF Inv, RecordInv
<1>2. Kept
  BY <1>1, Unrevised DEF AgreeInv, Kept
<1>3. AgreeInv'
  BY SMT DEF AgreeInv, Cancelled
<1> QED BY <1>2, <1>3 DEF Faithful, AgreeInv

LEMMA ProcessKeepsHistory == ASSUME Inv, AgreeInv, Process PROVE Faithful
<1>1. mem \in Runs /\ RecordInv(mem) /\ World /\ at \in Nodes /\ disk \in Runs
  BY DEF Inv, RecordInv, ControlInv
<1>2. IsPrefix(mem.contracts, mem.contracts) /\ IsPrefix(mem.recs, mem.recs)
  BY <1>1, Unrevised
<1>3. CASE GateAdmits
  <2>1. pc = "enter" /\ \E u \in Observed(mem, evidence, at) :
           mem' = u /\ disk' = IF u = mem THEN disk ELSE u
    BY <1>3, Zenon DEF GateAdmits
  <2>2. PICK u \in Observed(mem, evidence, at) :
           mem' = u /\ disk' = IF u = mem THEN disk ELSE u
    BY <2>1
  <2>3. u.corr = mem.corr /\ IsPrefix(mem.contracts, u.contracts) /\ IsPrefix(mem.recs, u.recs)
    BY <1>1, ObservedKeeps
  <2>4. CASE u = mem
    <3>1. disk' = disk /\ mem' = mem
      BY <2>2, <2>4
    <3>2. Kept
      BY <1>1, <3>1, Unrevised DEF Kept
    <3> QED BY <2>1, <3>1, <3>2, SMT DEF AgreeInv, Faithful
  <2>5. CASE u # mem
    BY <2>1, <2>2, <2>3, <2>5, ProcessFaithful
  <2> QED BY <2>4, <2>5
<1>4. CASE GateRejects
  <2>1. /\ pc = "enter" /\ disk' = mem'
        /\ mem' = mem \/ mem' \in Observed(mem, evidence, at)
    BY <1>4, Zenon DEF GateRejects
  <2>2. mem'.corr = mem.corr /\ IsPrefix(mem.contracts, mem'.contracts)
        /\ IsPrefix(mem.recs, mem'.recs)
    BY <1>1, <1>2, <2>1, ObservedKeeps
  <2> QED BY <2>1, <2>2, ProcessFaithful
<1>5. CASE CreateAttempt
  <2>1. pc # "idle" /\ disk' = mem'
    BY <1>5, SMT DEF CreateAttempt
  <2> QED BY <1>2, <1>5, <2>1, CreateAttemptKeeps, ProcessFaithful
<1>6. CASE StartAttempt
  <2>1. pc # "idle" /\ disk' = mem'
    BY <1>6, SMT DEF StartAttempt
  <2> QED BY <1>2, <1>6, <2>1, StartAttemptKeeps, ProcessFaithful
<1>7. CASE RoleSucceeds
  <2>1. pc # "idle" /\ disk' = mem'
    BY <1>7, Zenon DEF RoleSucceeds
  <2> QED BY <1>2, <1>7, <2>1, RoleSucceedsKeeps, ProcessFaithful
<1>8. CASE RoleFails
  <2>1. pc # "idle" /\ disk' = mem'
    BY <1>8, Zenon DEF RoleFails
  <2> QED BY <1>2, <1>8, <2>1, RoleFailsKeeps, ProcessFaithful
<1> QED BY <1>3, <1>4, <1>5, <1>6, <1>7, <1>8 DEF Process

\* A human who saves finds no worker, and a record that is not cancelled.
LEMMA CommitFaithful ==
  ASSUME Supervised, Inv, AgreeInv, Guarded, NEW s, Commit(s), ~Cancelled(disk), Kept
  PROVE  Faithful
<1>1. pc = "idle" /\ pc' = pc /\ disk' = s /\ mem' = s
  BY Zenon DEF Guarded, Commit
<1> QED BY <1>1, SMT DEF Faithful, AgreeInv

LEMMA HumanKeepsHistory ==
  ASSUME Supervised, Inv, AgreeInv, Human \/ \E ev \in Evidences : Seal(ev)
  PROVE  Faithful
<1>1. disk \in Runs
  BY DEF Inv, RecordInv
<1>2. ASSUME NEW tip, Approve(tip) PROVE Faithful
  <2>1. Guarded /\ \E s : Commit(s)
    BY <1>2, Zenon DEF Approve, Correctable
  <2>2. ~Cancelled(disk) /\ Kept
    BY <1>2, ApproveStepKeeps DEF Kept
  <2> QED BY <2>1, <2>2, CommitFaithful
<1>3. ASSUME NEW tip, Return(tip) \/ Cancel(tip) PROVE Faithful
  <2>1. Guarded /\ \E s : Commit(s)
    BY <1>3, Zenon DEF Return, Cancel, Correctable
  <2>2. ~Cancelled(disk) /\ Kept
    <3>1. ~Cancelled(disk) /\ disk'.contracts = disk.contracts /\ disk'.recs = disk.recs
          /\ IsPrefix(disk.corr, disk'.corr)
      BY <1>3, ReturnStepKeeps, CancelStepKeeps
    <3> QED BY <1>1, <3>1, Unrevised DEF Kept
  <2> QED BY <2>1, <2>2, CommitFaithful
<1>4. ASSUME NEW ev, Seal(ev) PROVE Faithful
  <2>1. Guarded /\ \E s : Commit(s)
    BY <1>4, Zenon DEF Seal
  <2>2. ~Cancelled(disk) /\ Kept
    <3>1. /\ disk.corr = <<>> /\ disk'.corr = disk.corr
          /\ IsPrefix(disk.contracts, disk'.contracts) /\ IsPrefix(disk.recs, disk'.recs)
      BY <1>4, SealKeeps
    <3> QED BY <1>1, <3>1, Unrevised DEF Kept, Cancelled
  <2> QED BY <2>1, <2>2, CommitFaithful
<1>5. ASSUME NEW c \in 0..Tip(disk), NEW ev, Resume(c, ev) PROVE Faithful
  <2>1. c \in Nat
    BY SMT
  <2>2. /\ Inv' /\ ~Cancelled(disk) /\ disk'.corr = disk.corr
        /\ IsPrefix(disk.contracts, disk'.contracts) /\ IsPrefix(disk.recs, disk'.recs)
        /\ mem' = [disk' EXCEPT !.status = "in-progress"]
    BY <1>5, <2>1, ResumeKeeps
  <2>3. Kept
    BY <1>1, <2>2, Unrevised DEF Kept
  <2>4. disk' \in Runs
    BY <2>2 DEF Inv, RecordInv
  <2>5. /\ mem'.contracts = disk'.contracts /\ mem'.recs = disk'.recs
        /\ mem'.corr = disk'.corr /\ mem'.atts = disk'.atts
    BY <2>2, <2>4, SMT DEF Runs
  <2>6. AgreeInv'
    BY <2>2, <2>5, SMT DEF AgreeInv, Cancelled
  <2> QED BY <2>2, <2>3, <2>6 DEF Faithful
<1> QED BY <1>2, <1>3, <1>4, <1>5, Zenon DEF Human

LEMMA StepFaithful ==
  ASSUME Supervised, Inv, AgreeInv, [Next]_vars
  PROVE  Faithful
<1>1. RecordInv(disk) /\ disk \in Runs
  BY DEF Inv, RecordInv
<1>2. Cancelled(disk) => disk.active = 0
  <2>1. Cancelled(disk) => Len(disk.corr) \in DOMAIN disk.corr
                           /\ disk.corr[Len(disk.corr)].act = "cancel"
    BY <1>1, RunTyped, SMT DEF Cancelled, Last
  <2> QED BY <1>1, <2>1, Zenon DEF RecordInv, CorrectionInv
<1>3. ASSUME disk' = disk, AgreeInv' PROVE Faithful
  BY <1>1, <1>2, <1>3, Unrevised DEF Faithful, Kept, Quiet
<1>4. CASE Crash
  <2>1. disk' = disk /\ mem' = disk /\ pc' = "idle"
    BY <1>4, Zenon DEF Crash, Ends
  <2> QED BY <1>3, <2>1, SMT DEF AgreeInv
<1>5. CASE Edit \/ UNCHANGED vars
  <2>1. disk' = disk /\ mem' = mem /\ pc' = pc
    BY <1>5, Zenon DEF Edit, vars
  <2> QED BY <1>3, <2>1, SMT DEF AgreeInv
<1> QED BY <1>4, <1>5, ProcessKeepsHistory, HumanKeepsHistory DEF Next

\* Where Runs are executed by workers the correction guard sees, no contract,
\* reconciliation or correction is lost or rewritten, and after a cancellation
\* nothing is executed, corrected or active.  (Beside a foreground process the
\* guard does not see, a correction can be overwritten: FindLostCorrection shows it.)
THEOREM HistoryCorrect == ASSUME Supervised PROVE Spec => HistoryStands
<1>1. Init => AgreeInv
  BY SMT DEF Init, AgreeInv
<1>2. Inv /\ AgreeInv /\ [Next]_vars => AgreeInv'
  BY StepFaithful DEF Faithful
<1>3. Inv /\ AgreeInv /\ [Next]_vars =>
         [/\ IsPrefix(disk.contracts, disk'.contracts)
          /\ IsPrefix(disk.recs, disk'.recs)
          /\ IsPrefix(disk.corr, disk'.corr)]_vars
  BY StepFaithful DEF Faithful, Kept
<1>4. Inv /\ AgreeInv /\ [Next]_vars =>
         [(\E i \in DOMAIN disk.corr : disk.corr[i].act = "cancel")
            => disk'.atts = disk.atts /\ disk'.corr = disk.corr /\ disk'.active = 0]_vars
  <2>1. Inv => ((\E i \in DOMAIN disk.corr : disk.corr[i].act = "cancel") => Cancelled(disk))
    BY NoneCancelled, Zenon DEF Inv
  <2> QED BY <2>1, StepFaithful DEF Faithful, Quiet
<1> QED BY <1>1, <1>2, <1>3, <1>4, Invariance, PTL DEF Spec, HistoryStands

=============================================================================
