------------------------ MODULE Specifications_proofs ------------------------
(***************************************************************************)
(* Proofs about Specifications, for every bound and any number of clients  *)
(* and authors, whose writes overlap and die anywhere: what a pointer      *)
(* leads to, what a projection shows, and what an acceptance and an ended  *)
(* execution withstand.                                                    *)
(***************************************************************************)
EXTENDS Specifications, SequenceTheorems, FiniteSetTheorems, TLAPS

-----------------------------------------------------------------------------
(* Specifications: types, for any number of clients and authors *)

Todos == {"idle", "mark", "point", "reread", "clear", "render", "write", "status"}
Commands == [todo : Todos, spec : Nat, rev : Nat, seen : Nat]
SpecRecords == [current : Nat, projection : Projection, shown : Nat]
Copies == [id : Nat, exec : Executions, read : Executions]

SpecTyped ==
    /\ specs \in Seq(SpecRecords)
    /\ revs \in Seq(Revision)
    /\ execs \in Seq(Executions)
    /\ job \in [Clients -> Commands]
    /\ copy \in [Authors -> Copies]

LEMMA NewRecord == ASSUME SpecificationBounds PROVE NewSpecification \in SpecRecords
BY DEF SpecificationBounds, NewSpecification, SpecRecords, Projection,
       NotGenerated, NoMarkdown

LEMMA IdleCommand == Idle \in Commands /\ Idle.todo = "idle"
BY DEF Idle, Commands, Todos

LEMMA FreshExecution == ASSUME NEW s \in Nat PROVE Fresh(s) \in Executions
BY DEF Fresh, Executions, Terminal

LEMMA SpecTypedInit == ASSUME Init PROVE SpecTyped
<1>1. NoCopy \in Copies
    BY FreshExecution DEF NoCopy, Copied, Copies
<1> QED BY <1>1, IdleCommand DEF Init, SpecTyped

\* What becomes of an execution in memory: it ends at most once, its evidence
\* is only added to.
LEMMA TransitionIs ==
    ASSUME NEW e \in Executions, NEW f \in Transitions(e), SpecTyped
    PROVE  f \in Executions /\ e.status \notin Terminal /\ e.evidence <= f.evidence
<1>1. DOMAIN revs \subseteq Nat
    BY DEF SpecTyped
<1>2. e.evidence \in 0..1
    BY DEF Executions
<1>3. CASE e.status = "running"
    <2>1. \/ f = [e EXCEPT !.evidence = 1]
          \/ \E r \in DOMAIN revs : f = [e EXCEPT !.candidate = r]
          \/ \E st \in {"paused", "failed"} : f = [e EXCEPT !.status = st]
          \/ f = [e EXCEPT !.status = "blocked", !.blocker = TRUE]
          \/ \E o \in {"decided", "needs-resolution"} :
               f = [e EXCEPT !.status = "completed", !.outcome = o]
        BY <1>3 DEF Transitions, Completions
    <2>2. CASE f = [e EXCEPT !.evidence = 1]
        <3>1. f \in Executions
            BY <2>2 DEF Executions
        <3>2. f.evidence = 1
            BY <2>2 DEF Executions
        <3> QED BY <1>2, <1>3, <3>1, <3>2 DEF Terminal
    <2>3. CASE \E r \in DOMAIN revs : f = [e EXCEPT !.candidate = r]
        BY <1>1, <1>2, <1>3, <2>3 DEF Executions, Terminal
    <2>4. CASE \E st \in {"paused", "failed"} : f = [e EXCEPT !.status = st]
        BY <1>2, <1>3, <2>4 DEF Executions, Terminal
    <2>5. CASE f = [e EXCEPT !.status = "blocked", !.blocker = TRUE]
        <3>1. f.evidence = e.evidence
            BY <2>5 DEF Executions
        <3>2. f \in Executions
            BY Zenon, <2>5 DEF Executions
        <3> QED BY <1>2, <1>3, <3>1, <3>2 DEF Terminal
    <2>6. CASE \E o \in {"decided", "needs-resolution"} :
                 f = [e EXCEPT !.status = "completed", !.outcome = o]
        <3>1. PICK o \in {"decided", "needs-resolution"} :
                f = [e EXCEPT !.status = "completed", !.outcome = o]
            BY <2>6
        <3>2. f.evidence = e.evidence
            BY <3>1 DEF Executions
        <3>3. f \in Executions
            BY Zenon, <3>1 DEF Executions, Terminal
        <3> QED BY <1>2, <1>3, <3>2, <3>3 DEF Terminal
    <2> QED BY <2>1, <2>2, <2>3, <2>4, <2>5, <2>6
<1>4. CASE e.status = "paused"
    <2>1. f = [e EXCEPT !.status = "running"]
        BY <1>4 DEF Transitions
    <2> QED BY <1>2, <1>4, <2>1 DEF Executions, Terminal
<1>5. CASE e.status = "blocked"
    <2>1. f = [e EXCEPT !.status = "running", !.blocker = FALSE]
        BY <1>5 DEF Transitions
    <2>2. f.evidence = e.evidence
        BY <2>1 DEF Executions
    <2>3. f \in Executions
        BY Zenon, <2>1 DEF Executions
    <2> QED BY <1>2, <1>5, <2>2, <2>3 DEF Terminal
<1>6. e.status \in {"running", "paused", "blocked"}
    BY DEF Transitions
<1> QED BY <1>3, <1>4, <1>5, <1>6

-----------------------------------------------------------------------------
(* Specifications: what an accepted revision stands on *)

\* r is the acceptance of an exact candidate of s.
Exact(r, s) ==
    /\ r \in DOMAIN revs /\ revs[r].spec = s /\ revs[r].status = "accepted"
    /\ revs[r].source \in DOMAIN revs
    /\ revs[revs[r].source].spec = s /\ revs[revs[r].source].status = "candidate"

RevisionsFiled == \A r \in DOMAIN revs : revs[r].spec \in DOMAIN specs

PointerExact == \A s \in DOMAIN specs : specs[s].current # 0 => Exact(specs[s].current, s)

\* What a command has still to write, it has stored the reason for.
Reasoned(c) ==
    /\ job[c].todo = "point" => job[c].rev # 0 /\ Exact(job[c].rev, job[c].spec)
    /\ job[c].todo \in {"reread", "clear"} => Superseded(job[c].seen)
    /\ job[c].todo \in {"reread", "clear", "render"} => job[c].spec \in DOMAIN specs

SpecInv == SpecTyped /\ RevisionsFiled /\ PointerExact /\ \A c \in Clients : Reasoned(c)

LEMMA SpecInvInit == ASSUME Init PROVE SpecInv
<1>1. \A c \in Clients : job[c] = Idle
    BY DEF Init
<1>2. \A c \in Clients : Reasoned(c)
    BY <1>1, IdleCommand DEF Reasoned
<1>3. DOMAIN specs = {} /\ DOMAIN revs = {}
    BY DEF Init
<1> QED BY <1>2, <1>3, SpecTypedInit DEF SpecInv, PointerExact, RevisionsFiled

\* A revision file is never rewritten.
LEMMA ReasonsStand ==
    ASSUME DOMAIN revs \subseteq DOMAIN revs', \A i \in DOMAIN revs : revs'[i] = revs[i]
    PROVE  /\ \A r, s : Exact(r, s) => Exact(r, s)'
           /\ \A r : Superseded(r) => Superseded(r)'
BY DEF Exact, Superseded

\* One client's command takes a step.
LEMMA CommandMoves ==
    ASSUME SpecInv, NEW c \in Clients,
           DOMAIN revs \subseteq DOMAIN revs', \A i \in DOMAIN revs : revs'[i] = revs[i],
           DOMAIN specs \subseteq DOMAIN specs',
           \A d \in Clients \ {c} : job'[d] = job[d],
           SpecTyped', RevisionsFiled', PointerExact', Reasoned(c)'
    PROVE  SpecInv'
<1>1. ASSUME NEW d \in Clients \ {c} PROVE Reasoned(d)'
    <2>1. Reasoned(d) /\ job'[d] = job[d]
        BY DEF SpecInv
    <2> QED BY <2>1, ReasonsStand DEF Reasoned
<1> QED BY <1>1 DEF SpecInv

-----------------------------------------------------------------------------
(* Specifications: the writes of a command *)

LEMMA MarkingIs ==
    ASSUME NEW s \in Nat
    PROVE  /\ Marking(s) \in Commands
           /\ Marking(s).todo = "mark" /\ Marking(s).spec = s
BY DEF Marking, Idle, Commands, Todos

LEMMA CommandWritten ==
    ASSUME SpecTyped, NEW c \in Clients, NEW j \in Commands, job' = [job EXCEPT ![c] = j]
    PROVE  /\ job' \in [Clients -> Commands]
           /\ job'[c] = j /\ \A d \in Clients \ {c} : job'[d] = job[d]
BY DEF SpecTyped

LEMMA FunctionIsSequence ==
    ASSUME NEW S, NEW n \in Nat, NEW f \in [1..n -> S] PROVE f \in Seq(S)
BY Zenon, SeqDef

\* A record is replaced as a whole, the others stay.
LEMMA RecordWritten ==
    ASSUME SpecTyped, NEW s, NEW r, s \in DOMAIN specs => r \in SpecRecords,
           specs' = [specs EXCEPT ![s] = r]
    PROVE  /\ specs' \in Seq(SpecRecords) /\ DOMAIN specs' = DOMAIN specs
           /\ s \in DOMAIN specs => specs'[s] = r
           /\ \A i \in DOMAIN specs \ {s} : specs'[i] = specs[i]
<1>1. specs \in Seq(SpecRecords)
    BY DEF SpecTyped
<1>2. DOMAIN specs' = DOMAIN specs /\ \A i \in DOMAIN specs : specs'[i] \in SpecRecords
    BY <1>1
<1>3. DOMAIN specs = 1..Len(specs) /\ Len(specs) \in Nat
    BY <1>1
<1>4. specs' = [i \in DOMAIN specs |-> specs'[i]]
    BY <1>2
<1>5. specs' \in [DOMAIN specs -> SpecRecords]
    BY <1>2, <1>4
<1>6. specs' \in [1..Len(specs) -> SpecRecords]
    BY <1>3, <1>5
<1>7. specs' \in Seq(SpecRecords)
    BY <1>3, <1>6, FunctionIsSequence
<1> QED BY <1>1, <1>2, <1>7

LEMMA RecordIs ==
    ASSUME SpecTyped, NEW s \in DOMAIN specs
    PROVE  specs[s] \in SpecRecords /\ specs[s].current \in Nat
<1>1. specs \in Seq(SpecRecords)
    BY DEF SpecTyped
<1>2. specs[s] \in SpecRecords
    BY <1>1
<1> QED BY <1>2 DEF SpecRecords

\* A new Specification, by itself or for admitted work.
LEMMA Appended ==
    ASSUME SpecificationBounds, SpecTyped, specs' = Append(specs, NewSpecification)
    PROVE  /\ specs' \in Seq(SpecRecords)
           /\ DOMAIN specs \subseteq DOMAIN specs'
           /\ \A i \in DOMAIN specs : specs'[i] = specs[i]
           /\ \A i \in DOMAIN specs' \ DOMAIN specs :
                /\ specs'[i].current = 0 /\ specs'[i].projection.state = "stale"
                /\ specs'[i].projection.source = 0
<1>1. NewSpecification \in SpecRecords
    BY NewRecord
<1>2. /\ NewSpecification.current = 0 /\ NewSpecification.projection.state = "stale"
      /\ NewSpecification.projection.source = 0
    BY DEF NewSpecification, NotGenerated
<1>3. specs \in Seq(SpecRecords)
    BY DEF SpecTyped
<1> HIDE DEF SpecTyped
<1> DEFINE n == NewSpecification
<1> HIDE DEF n
<1>4. specs' = Append(specs, n) /\ n \in SpecRecords
    BY <1>1 DEF n
<1>5. /\ specs' \in Seq(SpecRecords) /\ Len(specs') = Len(specs) + 1
      /\ \A i \in 1..Len(specs) : specs'[i] = specs[i]
      /\ specs'[Len(specs) + 1] = n
    BY <1>3, <1>4
<1>6. DOMAIN specs = 1..Len(specs) /\ DOMAIN specs' = 1..(Len(specs) + 1) /\ Len(specs) \in Nat
    BY <1>3, <1>5
<1>7. \A i \in DOMAIN specs' \ DOMAIN specs : specs'[i] = n
    BY <1>5, <1>6
<1> QED BY <1>2, <1>5, <1>6, <1>7 DEF n

\* A revision is stored beside the others.
LEMMA StoreStep ==
    ASSUME SpecTyped, NEW c \in Clients, NEW s \in Nat, NEW given \in Statuses,
           NEW source \in Nat, NEW todo \in Todos, Store(c, s, given, source, todo)
    PROVE  /\ SpecTyped' /\ specs' = specs
           /\ DOMAIN revs \subseteq DOMAIN revs' /\ \A i \in DOMAIN revs : revs'[i] = revs[i]
           /\ Len(revs) + 1 \in DOMAIN revs' \ {0}
           /\ DOMAIN revs' = DOMAIN revs \cup {Len(revs) + 1}
           /\ revs'[Len(revs) + 1] = [spec |-> s, status |-> given, source |-> source]
           /\ job'[c].todo = todo /\ job'[c].spec = s
           /\ todo # "mark" => job'[c].rev = Len(revs) + 1 /\ job'[c].seen = source
           /\ \A d \in Clients \ {c} : job'[d] = job[d]
<1> DEFINE r == [spec |-> s, status |-> given, source |-> source]
           j == IF todo = "mark" THEN Marking(s) ELSE
                  [todo |-> todo, spec |-> s, rev |-> Len(revs) + 1, seen |-> source]
<1>1. /\ revs' = Append(revs, r) /\ job' = [job EXCEPT ![c] = j]
      /\ specs' = specs /\ execs' = execs /\ copy' = copy
    BY DEF Store
<1>2. r \in Revision
    BY DEF Revision
<1>3. revs \in Seq(Revision) /\ Len(revs) \in Nat
    BY DEF SpecTyped
<1>4. /\ j \in Commands /\ j.todo = todo /\ j.spec = s
      /\ todo # "mark" => j.rev = Len(revs) + 1 /\ j.seen = source
    <2>1. CASE todo = "mark"
        BY <2>1, MarkingIs
    <2>2. CASE todo # "mark"
        BY <1>3, <2>2 DEF Commands
    <2> QED BY <2>1, <2>2
<1> HIDE DEF r, j
<1>5. /\ revs' \in Seq(Revision) /\ Len(revs') = Len(revs) + 1
      /\ \A i \in 1..Len(revs) : revs'[i] = revs[i]
      /\ revs'[Len(revs) + 1] = r
    BY <1>1, <1>2, <1>3
<1>6. DOMAIN revs = 1..Len(revs) /\ DOMAIN revs' = 1..(Len(revs) + 1)
    BY <1>3, <1>5
<1>7. /\ job' \in [Clients -> Commands]
      /\ job'[c] = j /\ \A d \in Clients \ {c} : job'[d] = job[d]
    BY <1>1, <1>4, CommandWritten
<1>8. SpecTyped'
    BY <1>1, <1>5, <1>7 DEF SpecTyped
<1>9. /\ Len(revs) + 1 \in DOMAIN revs' \ {0} /\ DOMAIN revs \subseteq DOMAIN revs'
      /\ DOMAIN revs' = DOMAIN revs \cup {Len(revs) + 1}
    BY <1>3, <1>6
<1> QED BY <1>1, <1>4, <1>5, <1>6, <1>7, <1>8, <1>9 DEF r

\* A client dies between creating a revision file and filling it.
LEMMA TornStep ==
    ASSUME SpecTyped, NEW c \in Clients, StoreDies(c)
    PROVE  /\ SpecTyped' /\ specs' = specs /\ job' = job
           /\ DOMAIN revs \subseteq DOMAIN revs' /\ \A i \in DOMAIN revs : revs'[i] = revs[i]
           /\ \A i \in DOMAIN revs' \ DOMAIN revs : revs'[i].spec \in DOMAIN specs
<1>1. PICK s \in DOMAIN specs :
        revs' = Append(revs, [spec |-> s, status |-> "torn", source |-> 0])
    BY DEF StoreDies
<1> DEFINE r == [spec |-> s, status |-> "torn", source |-> 0]
<1>2. specs' = specs /\ execs' = execs /\ job' = job /\ copy' = copy
    BY DEF StoreDies
<1>3. s \in Nat
    BY DEF SpecTyped
<1>4. r \in Revision /\ r.spec = s
    BY <1>3 DEF Revision, Statuses
<1>5. revs' = Append(revs, r)
    BY <1>1
<1> HIDE DEF r
<1>6. revs \in Seq(Revision) /\ Len(revs) \in Nat
    BY DEF SpecTyped
<1>7. /\ revs' \in Seq(Revision) /\ Len(revs') = Len(revs) + 1
      /\ \A i \in 1..Len(revs) : revs'[i] = revs[i]
      /\ revs'[Len(revs) + 1] = r
    BY <1>4, <1>5, <1>6
<1>8. DOMAIN revs = 1..Len(revs) /\ DOMAIN revs' = 1..(Len(revs) + 1)
    BY <1>6, <1>7
<1>9. SpecTyped'
    BY <1>2, <1>7 DEF SpecTyped
<1> QED BY <1>2, <1>4, <1>6, <1>7, <1>8, <1>9

\* Acceptance, rejection and supersession store a revision for an earlier one.
LEMMA OutcomeStep ==
    ASSUME SpecTyped, NEW c \in Clients, NEW from, NEW to \in Statuses,
           NEW todo \in Todos, Outcome(c, from, to, todo)
    PROVE  \E r \in DOMAIN revs :
             /\ revs[r].status = from
             /\ Store(c, revs[r].spec, to, r, todo)
             /\ r \in Nat /\ revs[r].spec \in Nat
<1>1. PICK r \in DOMAIN revs : revs[r].status = from /\ Store(c, revs[r].spec, to, r, todo)
    BY DEF Outcome
<1>2. r \in Nat /\ revs[r] \in Revision
    BY DEF SpecTyped
<1> QED BY <1>1, <1>2 DEF Revision

\* A command writes one field of its Specification's record, or none.
LEMMA FieldStep ==
    ASSUME SpecificationBounds, SpecTyped, NEW c \in Clients, NEW j \in Commands, NEW r,
           job[c].spec \in DOMAIN specs => r \in SpecRecords,
           job' = [job EXCEPT ![c] = j],
           specs' = [specs EXCEPT ![job[c].spec] = r],
           revs' = revs, execs' = execs, copy' = copy
    PROVE  /\ SpecTyped' /\ DOMAIN specs' = DOMAIN specs
           /\ job'[c] = j /\ \A d \in Clients \ {c} : job'[d] = job[d]
           /\ job[c].spec \in DOMAIN specs => specs'[job[c].spec] = r
           /\ \A i \in DOMAIN specs \ {job[c].spec} : specs'[i] = specs[i]
<1>1. /\ specs' \in Seq(SpecRecords) /\ DOMAIN specs' = DOMAIN specs
      /\ job[c].spec \in DOMAIN specs => specs'[job[c].spec] = r
      /\ \A i \in DOMAIN specs \ {job[c].spec} : specs'[i] = specs[i]
    BY RecordWritten
<1>2. /\ job' \in [Clients -> Commands]
      /\ job'[c] = j /\ \A d \in Clients \ {c} : job'[d] = job[d]
    BY CommandWritten
<1>3. SpecTyped'
    BY <1>1, <1>2 DEF SpecTyped
<1> QED BY <1>1, <1>2, <1>3

LEMMA CommandIs ==
    ASSUME SpecTyped, NEW c \in Clients
    PROVE  /\ job[c] \in Commands
           /\ job[c].spec \in Nat /\ job[c].rev \in Nat /\ job[c].seen \in Nat
BY DEF SpecTyped, Commands

LEMMA PointStep ==
    ASSUME SpecificationBounds, SpecTyped, NEW c \in Clients, Point(c)
    PROVE  /\ SpecTyped' /\ DOMAIN specs' = DOMAIN specs /\ revs' = revs
           /\ job'[c].todo = "mark" /\ \A d \in Clients \ {c} : job'[d] = job[d]
           /\ \A i \in DOMAIN specs :
                /\ specs'[i].projection = specs[i].projection
                /\ specs'[i].current = IF i = job[c].spec THEN job[c].rev
                                                              ELSE specs[i].current
<1> DEFINE s == job[c].spec
           r == [specs[s] EXCEPT !.current = job[c].rev]
           j == Marking(s)
<1>1. /\ specs' = [specs EXCEPT ![s] = r] /\ job' = [job EXCEPT ![c] = j]
      /\ revs' = revs /\ execs' = execs /\ copy' = copy
    BY DEF Point
<1>2. s \in Nat /\ job[c].rev \in Nat
    BY CommandIs
<1>3. s \in DOMAIN specs => /\ r \in SpecRecords /\ r.current = job[c].rev
                            /\ r.projection = specs[s].projection
    BY <1>2, RecordIs DEF SpecRecords
<1>4. j \in Commands /\ j.todo = "mark"
    BY <1>2, MarkingIs
<1> HIDE DEF r, j
<1>5. /\ SpecTyped' /\ DOMAIN specs' = DOMAIN specs
      /\ job'[c] = j /\ \A d \in Clients \ {c} : job'[d] = job[d]
      /\ s \in DOMAIN specs => specs'[s] = r
      /\ \A i \in DOMAIN specs \ {s} : specs'[i] = specs[i]
    BY <1>1, <1>3, <1>4, FieldStep
<1> QED BY <1>1, <1>3, <1>4, <1>5

LEMMA ClearStep ==
    ASSUME SpecificationBounds, SpecTyped, NEW c \in Clients, Clear(c)
    PROVE  /\ SpecTyped' /\ DOMAIN specs' = DOMAIN specs /\ revs' = revs
           /\ job'[c].todo = "mark" /\ \A d \in Clients \ {c} : job'[d] = job[d]
           /\ \A i \in DOMAIN specs :
                /\ specs'[i].projection = specs[i].projection
                /\ specs'[i].current = IF i = job[c].spec THEN 0 ELSE specs[i].current
<1> DEFINE s == job[c].spec
           r == [specs[s] EXCEPT !.current = 0]
           j == Marking(s)
<1>1. /\ specs' = [specs EXCEPT ![s] = r] /\ job' = [job EXCEPT ![c] = j]
      /\ revs' = revs /\ execs' = execs /\ copy' = copy
    BY DEF Clear
<1>2. s \in Nat
    BY CommandIs
<1>3. s \in DOMAIN specs => /\ r \in SpecRecords /\ r.current = 0
                            /\ r.projection = specs[s].projection
    BY RecordIs DEF SpecRecords
<1>4. j \in Commands /\ j.todo = "mark"
    BY <1>2, MarkingIs
<1> HIDE DEF r, j
<1>5. /\ SpecTyped' /\ DOMAIN specs' = DOMAIN specs
      /\ job'[c] = j /\ \A d \in Clients \ {c} : job'[d] = job[d]
      /\ s \in DOMAIN specs => specs'[s] = r
      /\ \A i \in DOMAIN specs \ {s} : specs'[i] = specs[i]
    BY <1>1, <1>3, <1>4, FieldStep
<1> QED BY <1>1, <1>3, <1>4, <1>5

\* The projection's status is replaced, with or without the Markdown.
LEMMA ProjectionStep ==
    ASSUME SpecificationBounds, SpecTyped, NEW c \in Clients,
           MarkStale(c) \/ WriteMarkdown(c) \/ WriteStatus(c)
    PROVE  /\ SpecTyped' /\ DOMAIN specs' = DOMAIN specs /\ revs' = revs
           /\ \A d \in Clients \ {c} : job'[d] = job[d]
           /\ \/ job'[c] = Idle
              \/ /\ job[c].todo = "write" /\ job'[c].todo = "status"
                 /\ job'[c].seen = job[c].seen /\ job'[c].rev = job[c].rev
                 /\ job'[c].spec = job[c].spec
           /\ \A i \in DOMAIN specs :
                /\ specs'[i].current = specs[i].current
                /\ \/ specs'[i].projection = specs[i].projection
                   \/ /\ specs'[i].projection.state # "fresh"
                      /\ specs'[i].projection.source = 0
                   \/ /\ job[c].todo = "status" /\ i = job[c].spec
                      /\ specs'[i].projection.source = job[c].seen
                      /\ specs'[i].projection.digest = job[c].rev
<1> DEFINE s == job[c].spec
           stale == NotGenerated
           failed == [NotGenerated EXCEPT !.state = "failed"]
           fresh == [state |-> "fresh", source |-> job[c].seen, digest |-> job[c].rev]
<1>1. /\ s \in Nat /\ job[c].rev \in Nat /\ job[c].seen \in Nat
      /\ job[c] \in Commands
    BY CommandIs
<1>2. /\ stale \in Projection /\ stale.state # "fresh"
      /\ failed \in Projection /\ failed.state # "fresh"
      /\ stale.source = 0 /\ failed.source = 0
      /\ fresh \in Projection
      /\ fresh.source = job[c].seen /\ fresh.digest = job[c].rev
    BY <1>1 DEF NotGenerated, Projection
<1> HIDE DEF stale, failed
<1>3. revs' = revs /\ execs' = execs /\ copy' = copy
    BY DEF MarkStale, WriteMarkdown, WriteStatus
<1>4. ASSUME NEW p \in Projection,
             specs' = [specs EXCEPT ![s].projection = p],
             job' = [job EXCEPT ![c] = Idle]
      PROVE  /\ SpecTyped' /\ DOMAIN specs' = DOMAIN specs
             /\ job'[c] = Idle /\ \A d \in Clients \ {c} : job'[d] = job[d]
             /\ \A i \in DOMAIN specs :
                  /\ specs'[i].current = specs[i].current
                  /\ \/ specs'[i].projection = specs[i].projection
                     \/ i = s /\ specs'[i].projection = p
    <2> DEFINE r == [specs[s] EXCEPT !.projection = p]
    <2>1. specs' = [specs EXCEPT ![s] = r]
        BY <1>4
    <2>2. s \in DOMAIN specs => /\ r \in SpecRecords /\ r.current = specs[s].current
                                /\ r.projection = p
        BY RecordIs DEF SpecRecords
    <2> HIDE DEF r
    <2>3. /\ SpecTyped' /\ DOMAIN specs' = DOMAIN specs
          /\ job'[c] = Idle /\ \A d \in Clients \ {c} : job'[d] = job[d]
          /\ s \in DOMAIN specs => specs'[s] = r
          /\ \A i \in DOMAIN specs \ {s} : specs'[i] = specs[i]
        BY <1>3, <1>4, <2>1, <2>2, IdleCommand, FieldStep
    <2> QED BY <2>2, <2>3
<1>5. CASE MarkStale(c)
    BY <1>2, <1>3, <1>4, <1>5 DEF MarkStale, stale
<1>6. CASE WriteStatus(c)
    <2>1. /\ specs' = [specs EXCEPT ![s].projection = fresh]
          /\ job' = [job EXCEPT ![c] = Idle]
          /\ job[c].todo = "status"
        BY <1>6 DEF WriteStatus
    <2> HIDE DEF fresh
    <2> QED BY <1>2, <1>3, <1>4, <2>1
<1>7. CASE WriteMarkdown(c)
    <2>1. CASE /\ specs' = [specs EXCEPT ![s].projection = failed]
               /\ job' = [job EXCEPT ![c] = Idle]
        BY <1>2, <1>3, <1>4, <2>1
    <2>2. CASE /\ specs' = [specs EXCEPT ![s].shown = job[c].rev]
               /\ job' = [job EXCEPT ![c].todo = "status"]
        <3> DEFINE r == [specs[s] EXCEPT !.shown = job[c].rev]
                   j == [job[c] EXCEPT !.todo = "status"]
        <3>1. s \in DOMAIN specs => /\ r \in SpecRecords /\ r.current = specs[s].current
                                    /\ r.projection = specs[s].projection
            BY <1>1, RecordIs DEF SpecRecords
        <3>2. /\ j \in Commands /\ j.todo = "status"
              /\ j.seen = job[c].seen /\ j.rev = job[c].rev /\ j.spec = job[c].spec
            BY <1>1 DEF Commands, Todos
        <3>3. specs' = [specs EXCEPT ![s] = r] /\ job' = [job EXCEPT ![c] = j]
            BY <2>2
        <3> HIDE DEF r, j
        <3>4. /\ SpecTyped' /\ DOMAIN specs' = DOMAIN specs
              /\ job'[c] = j /\ \A d \in Clients \ {c} : job'[d] = job[d]
              /\ s \in DOMAIN specs => specs'[s] = r
              /\ \A i \in DOMAIN specs \ {s} : specs'[i] = specs[i]
            BY <1>3, <3>1, <3>2, <3>3, FieldStep
        <3>5. job[c].todo = "write"
            BY <1>7 DEF WriteMarkdown
        <3> QED BY <1>3, <3>1, <3>2, <3>4, <3>5
    <2> QED BY <1>7, <2>1, <2>2 DEF WriteMarkdown, failed
<1> QED BY <1>5, <1>6, <1>7

\* A command reads, or decides what is left to write.
LEMMA ReadingStep ==
    ASSUME SpecInv, NEW c \in Clients,
           Reread(c) \/ WriteProjection(c) \/ Render(c)
    PROVE  /\ SpecTyped' /\ specs' = specs /\ revs' = revs
           /\ \A d \in Clients \ {c} : job'[d] = job[d]
           /\ \/ job'[c].todo = "mark"
              \/ /\ job[c].todo = "reread" /\ job'[c].todo = "clear"
                 /\ job'[c].seen = job[c].seen /\ job'[c].spec = job[c].spec
                 /\ specs[job'[c].spec].current = job'[c].seen
              \/ /\ job'[c].todo = "render" /\ job'[c].spec \in DOMAIN specs
                 /\ job'[c].seen = specs[job'[c].spec].current
              \/ /\ job[c].todo = "render" /\ job'[c].todo = "write"
                 /\ job'[c].seen = job[c].seen /\ job'[c].spec = job[c].spec
                 /\ job'[c].rev = specs[job[c].spec].current
<1>1. SpecTyped /\ Reasoned(c)
    BY DEF SpecInv
<1>2. specs' = specs /\ revs' = revs /\ execs' = execs /\ copy' = copy
    BY DEF Reread, WriteProjection, Render
<1>3. ASSUME NEW j \in Commands, job' = [job EXCEPT ![c] = j]
      PROVE  /\ SpecTyped' /\ job'[c] = j
             /\ \A d \in Clients \ {c} : job'[d] = job[d]
    BY <1>1, <1>2, <1>3, CommandWritten DEF SpecTyped
<1>4. job[c] \in Commands /\ job[c].spec \in Nat
    BY <1>1, CommandIs
<1>5. CASE Reread(c)
    <2>1. CASE specs[job[c].spec].current = job[c].seen
        <3> DEFINE j == [job[c] EXCEPT !.todo = "clear"]
        <3>1. /\ j \in Commands /\ j.todo = "clear"
              /\ j.seen = job[c].seen /\ j.spec = job[c].spec
            BY <1>4 DEF Commands, Todos
        <3>2. job' = [job EXCEPT ![c] = j] /\ job[c].todo = "reread"
            BY <1>5, <2>1 DEF Reread
        <3> HIDE DEF j
        <3> QED BY <1>2, <1>3, <2>1, <3>1, <3>2
    <2>2. CASE specs[job[c].spec].current # job[c].seen
        <3> DEFINE j == Marking(job[c].spec)
        <3>1. j \in Commands /\ j.todo = "mark"
            BY <1>4, MarkingIs
        <3>2. job' = [job EXCEPT ![c] = j]
            BY <1>5, <2>2 DEF Reread
        <3> HIDE DEF j
        <3> QED BY <1>2, <1>3, <3>1, <3>2
    <2> QED BY <2>1, <2>2
<1>6. CASE WriteProjection(c)
    <2>1. PICK s \in DOMAIN specs :
            job' = [job EXCEPT ![c] = [Idle EXCEPT !.todo = "render", !.spec = s,
                                                                 !.seen = specs[s].current]]
        BY <1>6 DEF WriteProjection
    <2> DEFINE j == [Idle EXCEPT !.todo = "render", !.spec = s, !.seen = specs[s].current]
    <2>2. s \in Nat /\ specs[s].current \in Nat
        BY <1>1, RecordIs DEF SpecTyped
    <2>3. j \in Commands /\ j.todo = "render" /\ j.spec = s /\ j.seen = specs[s].current
        BY <2>2 DEF Idle, Commands, Todos
    <2>4. job' = [job EXCEPT ![c] = j]
        BY <2>1
    <2> HIDE DEF j
    <2> QED BY <1>2, <1>3, <2>3, <2>4
<1>7. CASE Render(c)
    <2> DEFINE v == specs[job[c].spec].current
               j == [job[c] EXCEPT !.todo = "write", !.rev = v]
    <2>1. job[c].todo = "render" /\ job[c].spec \in DOMAIN specs
        BY <1>1, <1>7 DEF Render, Reasoned
    <2>2. v \in Nat
        BY <1>1, <2>1, RecordIs
    <2>3. job' = [job EXCEPT ![c] = j]
        BY <1>7 DEF Render
    <2> HIDE DEF v
    <2>4. j \in Commands /\ j.todo = "write" /\ j.seen = job[c].seen /\ j.rev = v
          /\ j.spec = job[c].spec
        BY <1>4, <2>2 DEF Commands, Todos
    <2> HIDE DEF j
    <2>5. /\ SpecTyped' /\ job'[c] = j
          /\ \A d \in Clients \ {c} : job'[d] = job[d]
        BY <1>3, <2>3, <2>4
    <2> QED BY <1>2, <2>1, <2>4, <2>5 DEF v
<1> QED BY <1>5, <1>6, <1>7

-----------------------------------------------------------------------------
(* Specifications: the steps of an author *)

LEMMA CopyIs ==
    ASSUME SpecTyped, NEW a \in Authors
    PROVE  /\ copy[a] \in Copies /\ copy[a].id \in Nat
           /\ copy[a].exec \in Executions /\ copy[a].read \in Executions
BY DEF SpecTyped, Copies

\* A new execution gets an identity under which nothing is saved yet.
LEMMA ExecutionAdded ==
    ASSUME SpecTyped, execs' = Append(execs, Fresh(0))
    PROVE  /\ execs' \in Seq(Executions)
           /\ DOMAIN execs \subseteq DOMAIN execs'
           /\ \A i \in DOMAIN execs : execs'[i] = execs[i]
           /\ Len(execs) + 1 \in Nat /\ Len(execs) + 1 \notin DOMAIN execs
           /\ execs'[Len(execs) + 1].spec = 0
<1> DEFINE n == Fresh(0)
<1>1. n \in Executions /\ n.spec = 0
    BY FreshExecution DEF Fresh
<1>2. execs \in Seq(Executions) /\ Len(execs) \in Nat
    BY DEF SpecTyped
<1> HIDE DEF n
<1>3. /\ execs' \in Seq(Executions) /\ Len(execs') = Len(execs) + 1
      /\ \A i \in 1..Len(execs) : execs'[i] = execs[i]
      /\ execs'[Len(execs) + 1] = n
    BY <1>1, <1>2 DEF n
<1>4. DOMAIN execs = 1..Len(execs) /\ DOMAIN execs' = 1..(Len(execs) + 1)
    BY <1>2, <1>3
<1> QED BY <1>1, <1>2, <1>3, <1>4

LEMMA CopyWritten ==
    ASSUME SpecTyped, NEW a \in Authors, NEW k \in Copies, copy' = [copy EXCEPT ![a] = k]
    PROVE  /\ copy' \in [Authors -> Copies]
           /\ copy'[a] = k /\ \A b \in Authors \ {a} : copy'[b] = copy[b]
BY DEF SpecTyped

LEMMA NoCopyIs == NoCopy \in Copies
BY FreshExecution DEF NoCopy, Copied, Copies

\* What an author's step does to what is saved, and to what it holds.
LEMMA BeginStep ==
    ASSUME SpecificationBounds, SpecTyped, NEW a \in Authors,
           AdmitNextStep(a) \/ Start(a)
    PROVE  /\ SpecTyped'
           /\ specs' = specs \/ specs' = Append(specs, NewSpecification)
           /\ execs' = Append(execs, Fresh(0))
           /\ copy'[a].id = Len(execs) + 1
           /\ copy'[a].read = Fresh(0) /\ \E s \in Nat : copy'[a].exec = Fresh(s)
           /\ \A b \in Authors \ {a} : copy'[b] = copy[b]
<1> DEFINE n == Len(execs) + 1
<1>1. PICK s \in Nat : copy' = [copy EXCEPT ![a] = Copied(n, Fresh(s), Fresh(0))]
    <2>1. CASE AdmitNextStep(a)
        <3>1. Len(specs) + 1 \in Nat
            BY DEF SpecTyped
        <3> QED BY <2>1, <3>1 DEF AdmitNextStep
    <2>2. CASE Start(a)
        <3>1. DOMAIN specs \subseteq Nat
            BY DEF SpecTyped
        <3> QED BY <2>2, <3>1 DEF Start
    <2> QED BY <2>1, <2>2
<1> DEFINE k == Copied(n, Fresh(s), Fresh(0))
<1>2. /\ execs' = Append(execs, Fresh(0)) /\ revs' = revs /\ job' = job
      /\ specs' = specs \/ specs' = Append(specs, NewSpecification)
    BY DEF AdmitNextStep, Start
<1>3. execs' \in Seq(Executions) /\ n \in Nat
    BY <1>2, ExecutionAdded
<1> HIDE DEF n
<1>4. k \in Copies /\ k.id = n /\ k.exec = Fresh(s) /\ k.read = Fresh(0)
    BY <1>3, FreshExecution DEF Copied, Copies
<1>5. copy' = [copy EXCEPT ![a] = k]
    BY <1>1
<1> HIDE DEF k
<1>6. copy' \in [Authors -> Copies] /\ copy'[a] = k /\ \A b \in Authors \ {a} : copy'[b] = copy[b]
    BY <1>4, <1>5, CopyWritten
<1>7. specs' \in Seq(SpecRecords)
    BY <1>2, Appended DEF SpecTyped
<1>8. SpecTyped'
    BY <1>2, <1>3, <1>6, <1>7 DEF SpecTyped
<1> QED BY <1>2, <1>4, <1>6, <1>8 DEF n

LEMMA LoadStep ==
    ASSUME SpecTyped, NEW a \in Authors, NEW i \in DOMAIN execs, Load(a, i)
    PROVE  /\ SpecTyped' /\ specs' = specs /\ execs' = execs
           /\ copy'[a].id = i /\ copy'[a].exec = execs[i] /\ copy'[a].read = execs[i]
           /\ \A b \in Authors \ {a} : copy'[b] = copy[b]
<1> DEFINE k == Copied(i, execs[i], execs[i])
<1>1. i \in Nat /\ execs[i] \in Executions
    BY DEF SpecTyped
<1>2. k \in Copies /\ k.id = i /\ k.exec = execs[i] /\ k.read = execs[i]
    BY <1>1 DEF Copied, Copies
<1>3. copy' = [copy EXCEPT ![a] = k] /\ UNCHANGED <<specs, revs, execs, job>>
    BY DEF Load
<1> HIDE DEF k
<1>4. copy' \in [Authors -> Copies] /\ copy'[a] = k /\ \A b \in Authors \ {a} : copy'[b] = copy[b]
    BY <1>2, <1>3, CopyWritten
<1>5. SpecTyped'
    BY <1>3, <1>4 DEF SpecTyped
<1> QED BY <1>2, <1>3, <1>4, <1>5

LEMMA AdvanceStep ==
    ASSUME SpecTyped, NEW a \in Authors, Advance(a)
    PROVE  /\ SpecTyped' /\ specs' = specs /\ execs' = execs
           /\ copy'[a].id = copy[a].id /\ copy'[a].read = copy[a].read
           /\ copy[a].exec.status \notin Terminal
           /\ copy[a].exec.evidence <= copy'[a].exec.evidence
           /\ \A b \in Authors \ {a} : copy'[b] = copy[b]
<1>1. PICK e \in Transitions(copy[a].exec) : copy' = [copy EXCEPT ![a].exec = e]
    BY DEF Advance
<1>2. /\ e \in Executions /\ copy[a].exec.status \notin Terminal
      /\ copy[a].exec.evidence <= e.evidence
    BY CopyIs, TransitionIs
<1> DEFINE k == [copy[a] EXCEPT !.exec = e]
<1>3. k \in Copies /\ k.id = copy[a].id /\ k.exec = e /\ k.read = copy[a].read
    BY <1>2, CopyIs DEF Copies
<1>4. copy' = [copy EXCEPT ![a] = k] /\ UNCHANGED <<specs, revs, execs, job>>
    BY <1>1 DEF Advance
<1> HIDE DEF k
<1>5. copy' \in [Authors -> Copies] /\ copy'[a] = k /\ \A b \in Authors \ {a} : copy'[b] = copy[b]
    BY <1>3, <1>4, CopyWritten
<1>6. SpecTyped'
    BY <1>4, <1>5 DEF SpecTyped
<1> QED BY <1>2, <1>3, <1>4, <1>5, <1>6

LEMMA SaveStep ==
    ASSUME SpecTyped, NEW a \in Authors, SaveExecution(a)
    PROVE  /\ SpecTyped' /\ specs' = specs /\ copy[a] # NoCopy
           /\ copy'[a] = NoCopy /\ \A b \in Authors \ {a} : copy'[b] = copy[b]
           /\ \A i \in DOMAIN execs :
                execs'[i] = execs[i] \/ (i = copy[a].id /\ execs'[i] = copy[a].exec)
<1> DEFINE i == copy[a].id
           e == copy[a].exec
<1>1. /\ copy[a] # NoCopy /\ UNCHANGED <<specs, revs, job>>
      /\ copy' = [copy EXCEPT ![a] = NoCopy]
      /\ execs' = execs \/ execs' = [execs EXCEPT ![i] = e]
    BY DEF SaveExecution
<1>2. e \in Executions /\ execs \in Seq(Executions)
    BY CopyIs DEF SpecTyped
<1> HIDE DEF i, e
<1>3. /\ execs' \in Seq(Executions)
      /\ \A k \in DOMAIN execs : execs'[k] = execs[k] \/ (k = i /\ execs'[k] = e)
    <2>1. CASE execs' = execs
        BY <1>2, <2>1
    <2>2. CASE execs' = [execs EXCEPT ![i] = e]
        <3>1. DOMAIN execs = 1..Len(execs) /\ Len(execs) \in Nat
            BY <1>2
        <3>2. execs' = [k \in DOMAIN execs |-> execs'[k]]
            BY <2>2
        <3>3. \A k \in DOMAIN execs : /\ execs'[k] = execs[k] \/ (k = i /\ execs'[k] = e)
                                      /\ execs'[k] \in Executions
            BY <1>2, <2>2
        <3>4. execs' \in [1..Len(execs) -> Executions]
            BY <3>1, <3>2, <3>3
        <3>5. execs' \in Seq(Executions)
            BY <3>1, <3>4, FunctionIsSequence
        <3> QED BY <3>3, <3>5
    <2> QED BY <1>1, <2>1, <2>2
<1>4. /\ copy' \in [Authors -> Copies]
      /\ copy'[a] = NoCopy /\ \A b \in Authors \ {a} : copy'[b] = copy[b]
    BY <1>1, NoCopyIs, CopyWritten
<1>5. SpecTyped'
    BY <1>1, <1>3, <1>4 DEF SpecTyped
<1> QED BY <1>1, <1>3, <1>4, <1>5 DEF i, e

\* A client or an author dies.
LEMMA CrashStep ==
    ASSUME SpecTyped, Crash
    PROVE  /\ SpecTyped' /\ specs' = specs /\ revs' = revs /\ execs' = execs
           /\ \/ \E c \in Clients : /\ job'[c] = Idle /\ copy' = copy
                                    /\ \A d \in Clients \ {c} : job'[d] = job[d]
              \/ \E a \in Authors : /\ copy'[a] = NoCopy /\ job' = job
                                    /\ \A b \in Authors \ {a} : copy'[b] = copy[b]
<1>1. UNCHANGED <<specs, revs, execs>>
    BY DEF Crash
<1>2. CASE \E c \in Clients : job' = [job EXCEPT ![c] = Idle] /\ copy' = copy
    <2>1. PICK c \in Clients : job' = [job EXCEPT ![c] = Idle] /\ copy' = copy
        BY <1>2
    <2>2. /\ job' \in [Clients -> Commands]
          /\ job'[c] = Idle /\ \A d \in Clients \ {c} : job'[d] = job[d]
        BY <2>1, IdleCommand, CommandWritten
    <2>3. SpecTyped'
        BY <1>1, <2>1, <2>2 DEF SpecTyped
    <2> QED BY <1>1, <2>1, <2>2, <2>3
<1>3. CASE \E a \in Authors : copy' = [copy EXCEPT ![a] = NoCopy] /\ job' = job
    <2>1. PICK a \in Authors : copy' = [copy EXCEPT ![a] = NoCopy] /\ job' = job
        BY <1>3
    <2>2. /\ copy' \in [Authors -> Copies]
          /\ copy'[a] = NoCopy /\ \A b \in Authors \ {a} : copy'[b] = copy[b]
        BY <2>1, NoCopyIs, CopyWritten
    <2>3. SpecTyped'
        BY <1>1, <2>1, <2>2 DEF SpecTyped
    <2> QED BY <1>1, <2>1, <2>2, <2>3
<1> QED BY <1>2, <1>3 DEF Crash

-----------------------------------------------------------------------------
(* Specifications: the pointer names an accepted revision *)

\* A revision of the right status is what an acceptance or a supersession cites.
LEMMA StoredFor ==
    ASSUME SpecInv, NEW c \in Clients, NEW from, NEW to \in Statuses, NEW todo \in Todos,
           Outcome(c, from, to, todo), todo # "mark"
    PROVE  /\ SpecTyped' /\ specs' = specs
           /\ DOMAIN revs \subseteq DOMAIN revs' /\ \A i \in DOMAIN revs : revs'[i] = revs[i]
           /\ job'[c].todo = todo /\ \A d \in Clients \ {c} : job'[d] = job[d]
           /\ job'[c].rev \in DOMAIN revs' \ {0}
           /\ DOMAIN revs' = DOMAIN revs \cup {job'[c].rev}
           /\ revs'[job'[c].rev] =
                [spec |-> job'[c].spec, status |-> to, source |-> job'[c].seen]
           /\ job'[c].seen \in DOMAIN revs
           /\ revs[job'[c].seen].status = from
           /\ revs[job'[c].seen].spec = job'[c].spec
<1>1. SpecTyped
    BY DEF SpecInv
<1>2. PICK r \in DOMAIN revs : /\ revs[r].status = from
                               /\ Store(c, revs[r].spec, to, r, todo)
                               /\ r \in Nat /\ revs[r].spec \in Nat
    BY <1>1, OutcomeStep
<1> DEFINE s == revs[r].spec
<1>3. Store(c, s, to, r, todo) /\ s \in Nat
    BY <1>2
<1> HIDE DEF s
<1>4. /\ SpecTyped' /\ specs' = specs
      /\ DOMAIN revs \subseteq DOMAIN revs' /\ \A i \in DOMAIN revs : revs'[i] = revs[i]
      /\ Len(revs) + 1 \in DOMAIN revs' \ {0}
      /\ DOMAIN revs' = DOMAIN revs \cup {Len(revs) + 1}
      /\ revs'[Len(revs) + 1] = [spec |-> s, status |-> to, source |-> r]
      /\ job'[c].todo = todo /\ job'[c].spec = s
      /\ todo # "mark" => job'[c].rev = Len(revs) + 1 /\ job'[c].seen = r
      /\ \A d \in Clients \ {c} : job'[d] = job[d]
    BY <1>1, <1>2, <1>3, StoreStep
<1> QED BY <1>2, <1>4 DEF s

\* A step that leaves the pointers where they are.
LEMMA PointersStay ==
    ASSUME SpecInv, DOMAIN revs \subseteq DOMAIN revs', \A i \in DOMAIN revs : revs'[i] = revs[i],
           DOMAIN specs' = DOMAIN specs,
           \A i \in DOMAIN specs : specs'[i].current = specs[i].current
    PROVE  PointerExact'
<1>1. ASSUME NEW s \in DOMAIN specs', specs'[s].current # 0
      PROVE  Exact(specs[s].current, s)'
    <2>1. Exact(specs[s].current, s)
        BY <1>1 DEF SpecInv, PointerExact
    <2>2. Exact(specs'[s].current, s)
        BY <1>1, <2>1
    <2> QED BY <2>2 DEF Exact
<1> QED BY <1>1 DEF PointerExact

\* A step that stores no revision.
LEMMA FiledStays ==
    ASSUME SpecInv, revs' = revs, DOMAIN specs \subseteq DOMAIN specs' PROVE RevisionsFiled'
BY DEF SpecInv, RevisionsFiled

\* The Specifications are as they were, or there is one more; commands rest.
LEMMA SpecsGrow ==
    ASSUME SpecificationBounds, SpecInv, SpecTyped', revs' = revs, job' = job,
           specs' = specs \/ specs' = Append(specs, NewSpecification)
    PROVE  SpecInv'
<1>1. /\ DOMAIN specs \subseteq DOMAIN specs'
      /\ \A i \in DOMAIN specs : specs'[i] = specs[i]
      /\ \A i \in DOMAIN specs' \ DOMAIN specs : specs'[i].current = 0
    BY Appended DEF SpecInv
<1>2. \A c \in Clients : Reasoned(c)'
    BY <1>1, ReasonsStand DEF SpecInv, Reasoned, Exact, Superseded
<1>3. PointerExact'
    <2>1. ASSUME NEW s \in DOMAIN specs', specs'[s].current # 0
          PROVE  Exact(specs[s].current, s)'
        <3>1. s \in DOMAIN specs /\ specs'[s] = specs[s]
            BY <1>1, <2>1
        <3>2. Exact(specs[s].current, s)
            BY <2>1, <3>1 DEF SpecInv, PointerExact
        <3>3. Exact(specs'[s].current, s)
            BY <3>1, <3>2
        <3> QED BY <3>3 DEF Exact
    <2> QED BY <2>1 DEF PointerExact
<1> QED BY <1>1, <1>2, <1>3, FiledStays DEF SpecInv

LEMMA SpecInvStep ==
    ASSUME SpecificationBounds, SpecInv, [Next]_vars
    PROVE  SpecInv'
<1>1. SpecTyped
    BY DEF SpecInv
<1>2. CASE UNCHANGED vars
    BY <1>2 DEF vars, SpecInv, SpecTyped, RevisionsFiled, PointerExact, Reasoned, Exact, Superseded
<1>3. ASSUME NEW c \in Clients, Create(c) PROVE SpecInv'
    <2>1. UNCHANGED <<revs, execs, job, copy>>
          /\ specs' = Append(specs, NewSpecification)
        BY <1>3 DEF Create
    <2>2. specs' \in Seq(SpecRecords)
        BY <1>1, <2>1, Appended
    <2>3. SpecTyped'
        BY <1>1, <2>1, <2>2 DEF SpecTyped
    <2> QED BY <2>1, <2>3, SpecsGrow
<1>4. ASSUME NEW c \in Clients, CreateCandidate(c) \/ Reject(c) PROVE SpecInv'
    <2>1. PICK s \in Nat, given \in Statuses, source \in Nat :
            Store(c, s, given, source, "mark") /\ s \in DOMAIN specs
        <3>1. CASE CreateCandidate(c)
            <4>1. DOMAIN specs \subseteq Nat
                BY <1>1 DEF SpecTyped
            <4> QED BY <3>1, <4>1 DEF CreateCandidate, Statuses
        <3>2. CASE Reject(c)
            <4>1. Outcome(c, "candidate", "rejected", "mark")
                BY <3>2 DEF Reject
            <4>2. "rejected" \in Statuses /\ "mark" \in Todos
                BY DEF Statuses, Todos
            <4>3. PICK r \in DOMAIN revs :
                    /\ Store(c, revs[r].spec, "rejected", r, "mark")
                    /\ r \in Nat /\ revs[r].spec \in Nat
                BY <1>1, <4>1, <4>2, OutcomeStep
            <4>4. revs[r].spec \in DOMAIN specs
                BY DEF SpecInv, RevisionsFiled
            <4> QED BY <4>2, <4>3, <4>4
        <3> QED BY <1>4, <3>1, <3>2
    <2> DEFINE m == "mark"
    <2>2. m \in Todos /\ Store(c, s, given, source, m)
        BY <2>1 DEF Todos
    <2> HIDE DEF m
    <2>3. /\ SpecTyped' /\ specs' = specs
          /\ DOMAIN revs \subseteq DOMAIN revs' /\ \A i \in DOMAIN revs : revs'[i] = revs[i]
          /\ Len(revs) + 1 \in DOMAIN revs' \ {0}
          /\ DOMAIN revs' = DOMAIN revs \cup {Len(revs) + 1}
          /\ revs'[Len(revs) + 1] = [spec |-> s, status |-> given, source |-> source]
          /\ job'[c].todo = m /\ job'[c].spec = s
          /\ m # "mark" => job'[c].rev = Len(revs) + 1 /\ job'[c].seen = source
          /\ \A d \in Clients \ {c} : job'[d] = job[d]
        BY <1>1, <2>2, StoreStep
    <2>4. PointerExact' /\ Reasoned(c)'
        BY <2>3, PointersStay DEF Reasoned, m
    <2>5. RevisionsFiled'
        BY <2>1, <2>3 DEF SpecInv, RevisionsFiled
    <2> QED BY <2>3, <2>4, <2>5, CommandMoves
<1>5. ASSUME NEW c \in Clients, Accept(c) PROVE SpecInv'
    <2>1. Outcome(c, "candidate", "accepted", "point")
        BY <1>5 DEF Accept
    <2>2. "accepted" \in Statuses /\ "point" \in Todos /\ "point" # "mark"
        BY DEF Statuses, Todos
    <2>3. /\ SpecTyped' /\ specs' = specs
          /\ DOMAIN revs \subseteq DOMAIN revs' /\ \A i \in DOMAIN revs : revs'[i] = revs[i]
          /\ job'[c].todo = "point" /\ \A d \in Clients \ {c} : job'[d] = job[d]
          /\ job'[c].rev \in DOMAIN revs' \ {0}
          /\ DOMAIN revs' = DOMAIN revs \cup {job'[c].rev}
          /\ revs'[job'[c].rev] =
                [spec |-> job'[c].spec, status |-> "accepted", source |-> job'[c].seen]
          /\ job'[c].seen \in DOMAIN revs
          /\ revs[job'[c].seen].status = "candidate"
          /\ revs[job'[c].seen].spec = job'[c].spec
        BY <2>1, <2>2, StoredFor
    <2>4. Reasoned(c)'
        BY <2>3 DEF Reasoned, Exact
    <2>5. PointerExact'
        BY <2>3, PointersStay
    <2>6. RevisionsFiled'
        BY <2>3 DEF SpecInv, RevisionsFiled
    <2> QED BY <2>3, <2>4, <2>5, <2>6, CommandMoves
<1>6. ASSUME NEW c \in Clients, Supersede(c) PROVE SpecInv'
    <2>1. Outcome(c, "accepted", "superseded", "reread")
        BY <1>6 DEF Supersede
    <2>2. "superseded" \in Statuses /\ "reread" \in Todos /\ "reread" # "mark"
        BY DEF Statuses, Todos
    <2>3. /\ SpecTyped' /\ specs' = specs
          /\ DOMAIN revs \subseteq DOMAIN revs' /\ \A i \in DOMAIN revs : revs'[i] = revs[i]
          /\ job'[c].todo = "reread" /\ \A d \in Clients \ {c} : job'[d] = job[d]
          /\ job'[c].rev \in DOMAIN revs' \ {0}
          /\ DOMAIN revs' = DOMAIN revs \cup {job'[c].rev}
          /\ revs'[job'[c].rev] =
                [spec |-> job'[c].spec, status |-> "superseded", source |-> job'[c].seen]
          /\ job'[c].seen \in DOMAIN revs
          /\ revs[job'[c].seen].status = "accepted"
          /\ revs[job'[c].seen].spec = job'[c].spec
        BY <2>1, <2>2, StoredFor
    <2>4. job'[c].spec \in DOMAIN specs
        BY <2>3 DEF SpecInv, RevisionsFiled
    <2>5. Reasoned(c)'
        BY <2>3, <2>4 DEF Reasoned, Superseded
    <2>6. PointerExact'
        BY <2>3, PointersStay
    <2>7. RevisionsFiled'
        BY <2>3 DEF SpecInv, RevisionsFiled
    <2> QED BY <2>3, <2>5, <2>6, <2>7, CommandMoves
<1>7. ASSUME NEW c \in Clients, Point(c) PROVE SpecInv'
    <2>1. /\ SpecTyped' /\ DOMAIN specs' = DOMAIN specs /\ revs' = revs
          /\ job'[c].todo = "mark" /\ \A d \in Clients \ {c} : job'[d] = job[d]
          /\ \A i \in DOMAIN specs :
               specs'[i].current = IF i = job[c].spec THEN job[c].rev
                                                          ELSE specs[i].current
        BY <1>1, <1>7, PointStep
    <2>2. Exact(job[c].rev, job[c].spec)
        BY <1>7 DEF SpecInv, Reasoned, Point
    <2>3. PointerExact'
        BY <2>1, <2>2 DEF SpecInv, PointerExact, Exact
    <2>4. Reasoned(c)'
        BY <2>1 DEF Reasoned
    <2> QED BY <2>1, <2>3, <2>4, CommandMoves, FiledStays
<1>8. ASSUME NEW c \in Clients, Clear(c) PROVE SpecInv'
    <2>1. /\ SpecTyped' /\ DOMAIN specs' = DOMAIN specs /\ revs' = revs
          /\ job'[c].todo = "mark" /\ \A d \in Clients \ {c} : job'[d] = job[d]
          /\ \A i \in DOMAIN specs :
               specs'[i].current = IF i = job[c].spec THEN 0 ELSE specs[i].current
        BY <1>1, <1>8, ClearStep
    <2>2. PointerExact'
        BY <2>1 DEF SpecInv, PointerExact, Exact
    <2>3. Reasoned(c)'
        BY <2>1 DEF Reasoned
    <2> QED BY <2>1, <2>2, <2>3, CommandMoves, FiledStays
<1>9. ASSUME NEW c \in Clients,
             MarkStale(c) \/ WriteMarkdown(c) \/ WriteStatus(c)
      PROVE  SpecInv'
    <2>1. /\ SpecTyped' /\ DOMAIN specs' = DOMAIN specs /\ revs' = revs
          /\ \A d \in Clients \ {c} : job'[d] = job[d]
          /\ job'[c] = Idle \/ job'[c].todo = "status"
          /\ \A i \in DOMAIN specs : specs'[i].current = specs[i].current
        BY <1>1, <1>9, ProjectionStep
    <2>2. PointerExact'
        BY <2>1, PointersStay
    <2>3. Reasoned(c)'
        BY <2>1, IdleCommand DEF Reasoned
    <2> QED BY <2>1, <2>2, <2>3, CommandMoves, FiledStays
<1>10. ASSUME NEW c \in Clients,
              Reread(c) \/ WriteProjection(c) \/ Render(c)
       PROVE  SpecInv'
    <2>1. /\ SpecTyped' /\ specs' = specs /\ revs' = revs
          /\ \A d \in Clients \ {c} : job'[d] = job[d]
          /\ \/ job'[c].todo = "mark"
             \/ /\ job[c].todo = "reread" /\ job'[c].todo = "clear"
                /\ job'[c].seen = job[c].seen /\ job'[c].spec = job[c].spec
             \/ job'[c].todo = "render" /\ job'[c].spec \in DOMAIN specs
             \/ job'[c].todo = "write"
        BY <1>10, ReadingStep
    <2>2. PointerExact'
        BY <2>1, PointersStay
    <2>3. Reasoned(c)
        BY DEF SpecInv
    <2>4. Reasoned(c)'
        BY <2>1, <2>3 DEF Reasoned, Superseded
    <2> QED BY <2>1, <2>2, <2>4, CommandMoves, FiledStays
<1>11. ASSUME NEW a \in Authors, Authoring(a) PROVE SpecInv'
    <2>1. SpecTyped'
        BY <1>1, <1>11, BeginStep, LoadStep, AdvanceStep, SaveStep DEF Authoring
    <2>2. /\ revs' = revs /\ job' = job
          /\ specs' = specs \/ specs' = Append(specs, NewSpecification)
        BY <1>11 DEF Authoring, AdmitNextStep, Start, Load,
                     Advance, SaveExecution
    <2> QED BY <2>1, <2>2, SpecsGrow
<1>12. CASE Crash
    <2>1. /\ SpecTyped' /\ specs' = specs /\ revs' = revs
          /\ \/ job' = job
             \/ \E c \in Clients : /\ job'[c] = Idle
                                   /\ \A d \in Clients \ {c} : job'[d] = job[d]
        BY <1>1, <1>12, CrashStep
    <2>2. CASE job' = job
        BY <2>1, <2>2, SpecsGrow
    <2>3. ASSUME NEW c \in Clients, job'[c] = Idle,
                 \A d \in Clients \ {c} : job'[d] = job[d]
          PROVE  SpecInv'
        <3>1. PointerExact' /\ Reasoned(c)'
            BY <2>1, <2>3, IdleCommand, PointersStay DEF Reasoned
        <3> QED BY <2>1, <2>3, <3>1, CommandMoves, FiledStays
    <2> QED BY <2>1, <2>2, <2>3
<1>13. ASSUME NEW c \in Clients, StoreDies(c) PROVE SpecInv'
    <2>1. /\ SpecTyped' /\ specs' = specs /\ job' = job
          /\ DOMAIN revs \subseteq DOMAIN revs' /\ \A i \in DOMAIN revs : revs'[i] = revs[i]
          /\ \A i \in DOMAIN revs' \ DOMAIN revs : revs'[i].spec \in DOMAIN specs
        BY <1>1, <1>13, TornStep
    <2>2. PointerExact'
        BY <2>1, PointersStay
    <2>3. RevisionsFiled'
        BY <2>1 DEF SpecInv, RevisionsFiled
    <2>4. Reasoned(c)'
        BY <2>1, ReasonsStand DEF SpecInv, Reasoned
    <2> QED BY <2>1, <2>2, <2>3, <2>4, CommandMoves
<1> QED BY <1>2, <1>3, <1>4, <1>5, <1>6, <1>7, <1>8, <1>9, <1>10, <1>11, <1>12, <1>13
        DEF Next, Repository

\* At any number of clients and authors, whoever dies where, a Specification
\* points at nothing or at the acceptance of one of its own exact candidates.
THEOREM PointerCorrect == Spec => []SpecInv
<1>1. Init => SpecInv
    BY SpecificationBounds, SpecInvInit
<1>2. SpecInv /\ [Next]_vars => SpecInv'
    BY SpecificationBounds, SpecInvStep
<1> QED BY <1>1, <1>2, PTL DEF Spec

-----------------------------------------------------------------------------
(* Specifications: a revision is pointed at once *)

\* r is a pointer, what a projection was rendered from, or what a rendering read.
Named(r) ==
    \/ \E s \in DOMAIN specs : r = specs[s].current \/ r = specs[s].projection.source
    \/ \E d \in Clients : job[d].todo \in {"render", "write", "status"} /\ r = job[d].seen

\* What an acceptance is about to point at is new to everyone.
PointsOnce ==
    \A c \in Clients : job[c].todo = "point" =>
        /\ ~Named(job[c].rev)
        /\ \A d \in Clients \ {c} : job[d].todo = "point" => job[d].rev # job[c].rev

NamedInv == PointsOnce /\ \A r : Named(r) => r \in DOMAIN revs \cup {0}

\* A step that points at nothing new.
LEMMA NamesStay ==
    ASSUME SpecInv, NamedInv, \A r : Named(r)' => Named(r) \/ r = 0,
           \A d \in Clients : job'[d].todo = "point" => job'[d] = job[d],
           DOMAIN revs \subseteq DOMAIN revs'
    PROVE  NamedInv'
<1>1. ASSUME NEW c \in Clients, job'[c].todo = "point"
      PROVE  /\ ~Named(job[c].rev)'
             /\ \A d \in Clients \ {c} : job'[d].todo = "point" => job'[d].rev # job'[c].rev
    <2>1. job'[c] = job[c] /\ job[c].todo = "point" /\ job[c].rev # 0
        BY <1>1 DEF SpecInv, Reasoned
    <2>2. ~Named(job[c].rev)
        BY <2>1 DEF NamedInv, PointsOnce
    <2>3. ~Named(job'[c].rev)
        BY <2>1, <2>2
    <2>4. \A r : ~Named(r) /\ r # 0 => ~Named(r)'
        OBVIOUS
    <2>5. ~Named(job[c].rev)'
        BY <2>1, <2>3, <2>4 DEF Named
    <2> QED BY <1>1, <2>1, <2>5 DEF NamedInv, PointsOnce
<1>2. PointsOnce'
    BY <1>1 DEF PointsOnce
<1>3. \A r : Named(r)' => r \in DOMAIN revs' \cup {0}
    BY DEF NamedInv
<1> QED BY <1>2, <1>3 DEF NamedInv

-----------------------------------------------------------------------------
(* Specifications: what overlapping commands read and write *)

\* A rendering of a revision that is still current rendered that revision.
Settled(c) ==
    LET s == job[c].spec IN
    job[c].todo \in {"write", "status"} /\ s \in DOMAIN specs
    /\ job[c].seen # 0 /\ job[c].seen = specs[s].current => job[c].rev = job[c].seen

\* So did a projection that says it was rendered from the current revision.
FreshAgrees ==
    \A s \in DOMAIN specs :
        LET p == specs[s].projection IN
        p.state = "fresh" /\ p.source # 0 /\ p.source = specs[s].current
            => p.digest = p.source

\* A command that clears found there what it superseded, or has been overtaken.
Cleared(c) ==
    job[c].todo = "clear" /\ job[c].spec \in DOMAIN specs =>
        specs[job[c].spec].current \in {0, job[c].seen} \cup overtaken

StandInv == NamedInv /\ FreshAgrees /\ \A c \in Clients : Settled(c) /\ Cleared(c)

LEMMA StandInit == ASSUME Init PROVE StandInv
<1>1. \A c \in Clients : job[c] = Idle
    BY DEF Init
<1>2. DOMAIN specs = {}
    BY DEF Init
<1>3. \A r : ~Named(r)
    BY <1>1, <1>2, IdleCommand DEF Named
<1>4. NamedInv
    BY <1>1, <1>3, IdleCommand DEF NamedInv, PointsOnce
<1> QED BY <1>1, <1>2, <1>4, IdleCommand DEF StandInv, FreshAgrees, Settled, Cleared

\* What a command does next when it writes no pointer.
Proceeds(c) ==
    \/ job'[c].todo \in {"idle", "mark", "reread"}
    \/ job'[c].todo = "clear" /\ specs[job'[c].spec].current = job'[c].seen
    \/ /\ job'[c].todo = "render" /\ job'[c].spec \in DOMAIN specs
       /\ job'[c].seen = specs[job'[c].spec].current
    \/ /\ job[c].todo = "render" /\ job'[c].todo = "write"
       /\ job'[c].seen = job[c].seen /\ job'[c].spec = job[c].spec
       /\ job'[c].rev = specs[job[c].spec].current
    \/ /\ job[c].todo = "write" /\ job'[c].todo = "status"
       /\ job'[c].seen = job[c].seen /\ job'[c].rev = job[c].rev
       /\ job'[c].spec = job[c].spec

\* A command moves on, and may replace the status of its projection.
LEMMA PointersRest ==
    ASSUME SpecInv, StandInv, NEW c \in Clients, Proceeds(c),
           \A d \in Clients \ {c} : job'[d] = job[d],
           DOMAIN specs' = DOMAIN specs, DOMAIN revs \subseteq DOMAIN revs',
           overtaken' = overtaken,
           \A i \in DOMAIN specs :
             /\ specs'[i].current = specs[i].current
             /\ \/ specs'[i].projection = specs[i].projection
                \/ /\ specs'[i].projection.state # "fresh"
                   /\ specs'[i].projection.source = 0
                \/ /\ job[c].todo = "status" /\ i = job[c].spec
                   /\ specs'[i].projection.source = job[c].seen
                   /\ specs'[i].projection.digest = job[c].rev
    PROVE  StandInv'
<1>1. Settled(c) /\ NamedInv /\ FreshAgrees
    BY DEF StandInv
<1>2. ASSUME NEW r, Named(r)' PROVE Named(r) \/ r = 0
    <2>1. CASE \E s \in DOMAIN specs' : r = specs'[s].current \/ r = specs'[s].projection.source
        BY <2>1 DEF Named
    <2>2. CASE \E d \in Clients : /\ job'[d].todo \in {"render", "write", "status"}
                                  /\ r = job'[d].seen
        <3>1. PICK d \in Clients : /\ job'[d].todo \in {"render", "write", "status"}
                                   /\ r = job'[d].seen
            BY <2>2
        <3>2. CASE d # c
            BY <3>1, <3>2 DEF Named
        <3>3. CASE d = c
            BY <3>1, <3>3 DEF Named, Proceeds
        <3> QED BY <3>2, <3>3
    <2> QED BY <1>2, <2>1, <2>2 DEF Named
<1>3. \A d \in Clients : job'[d].todo = "point" => job'[d] = job[d]
    BY DEF Proceeds
<1>4. NamedInv'
    BY <1>1, <1>2, <1>3, NamesStay
<1>5. FreshAgrees'
    BY <1>1 DEF FreshAgrees, Settled
<1>6. Settled(c)' /\ Cleared(c)'
    BY <1>1 DEF Settled, Cleared, Proceeds
<1>7. ASSUME NEW d \in Clients \ {c} PROVE Settled(d)' /\ Cleared(d)'
    BY <1>7 DEF StandInv, Settled, Cleared
<1> QED BY <1>4, <1>5, <1>6, <1>7 DEF StandInv

\* The Specifications are as they were, or there is one more; commands rest.
LEMMA StandGrows ==
    ASSUME SpecificationBounds, SpecInv, StandInv, job' = job, overtaken' = overtaken,
           DOMAIN revs \subseteq DOMAIN revs',
           specs' = specs \/ specs' = Append(specs, NewSpecification)
    PROVE  StandInv'
<1>1. /\ DOMAIN specs \subseteq DOMAIN specs'
      /\ \A i \in DOMAIN specs : specs'[i] = specs[i]
      /\ \A i \in DOMAIN specs' \ DOMAIN specs :
           /\ specs'[i].current = 0 /\ specs'[i].projection.state = "stale"
           /\ specs'[i].projection.source = 0
    BY Appended DEF SpecInv
<1>2. \A r : Named(r)' => Named(r) \/ r = 0
    BY <1>1 DEF Named
<1>3. NamedInv'
    BY <1>2, NamesStay DEF StandInv
<1>4. FreshAgrees'
    BY <1>1 DEF StandInv, FreshAgrees
<1>5. \A c \in Clients : Settled(c)' /\ Cleared(c)'
    BY <1>1 DEF StandInv, Settled, Cleared
<1> QED BY <1>3, <1>4, <1>5 DEF StandInv

\* An acceptance is about to point at the revision it stored.
LEMMA StandAccepted ==
    ASSUME SpecInv, StandInv, NEW c \in Clients, Accept(c)
    PROVE  StandInv'
<1>1. Outcome(c, "candidate", "accepted", "point")
    BY DEF Accept
<1>2. "accepted" \in Statuses /\ "point" \in Todos /\ "point" # "mark" /\ SpecTyped
    BY DEF Statuses, Todos, SpecInv
<1>3. PICK q \in DOMAIN revs : /\ Store(c, revs[q].spec, "accepted", q, "point")
                               /\ q \in Nat /\ revs[q].spec \in Nat
    BY <1>1, <1>2, OutcomeStep
<1> DEFINE s == revs[q].spec
<1>4. Store(c, s, "accepted", q, "point") /\ s \in Nat
    BY <1>3
<1> HIDE DEF s
<1>a. PICK n \in Nat : n = Len(revs) + 1 /\ n \notin DOMAIN revs
    <2>1. revs \in Seq(Revision)
        BY <1>2 DEF SpecTyped
    <2> QED BY <2>1
<1>5. /\ specs' = specs /\ DOMAIN revs \subseteq DOMAIN revs'
      /\ n \in DOMAIN revs' \ {0}
      /\ job'[c].todo = "point" /\ job'[c].rev = n
      /\ \A d \in Clients \ {c} : job'[d] = job[d]
    <2> DEFINE given == "accepted"
               todo == "point"
    <2>1. /\ Store(c, s, given, q, todo) /\ given \in Statuses /\ todo \in Todos
          /\ todo # "mark" /\ s \in Nat /\ q \in Nat /\ SpecTyped
        BY <1>2, <1>3, <1>4
    <2> HIDE DEF given, todo
    <2>2. /\ SpecTyped' /\ specs' = specs
          /\ DOMAIN revs \subseteq DOMAIN revs' /\ \A i \in DOMAIN revs : revs'[i] = revs[i]
          /\ Len(revs) + 1 \in DOMAIN revs' \ {0}
          /\ DOMAIN revs' = DOMAIN revs \cup {Len(revs) + 1}
          /\ revs'[Len(revs) + 1] = [spec |-> s, status |-> given, source |-> q]
          /\ job'[c].todo = todo /\ job'[c].spec = s
          /\ todo # "mark" => job'[c].rev = Len(revs) + 1 /\ job'[c].seen = q
          /\ \A d \in Clients \ {c} : job'[d] = job[d]
        BY <2>1, StoreStep
    <2> QED BY <1>a, <2>1, <2>2 DEF todo
<1>6. overtaken' = overtaken
    BY <1>3 DEF Store
<1>7. \A r : Named(r)' => Named(r)
    BY <1>5 DEF Named
<1>8. ~Named(n) /\ \A d \in Clients : job[d].todo = "point" => job[d].rev # n
    <2>1. ~Named(n)
        BY <1>5, <1>a DEF StandInv, NamedInv
    <2>2. \A d \in Clients : job[d].todo = "point" => job[d].rev \in DOMAIN revs
        BY DEF SpecInv, Reasoned, Exact
    <2> QED BY <1>a, <2>1, <2>2
<1>9. PointsOnce'
    <2>0. \A r : ~Named(r) => ~Named(r)'
        BY <1>7
    <2>1. ASSUME NEW d \in Clients \ {c}, job'[d].todo = "point"
          PROVE  /\ ~Named(job[d].rev)' /\ job'[d].rev # n
                 /\ \A e \in Clients \ {d} : job'[e].todo = "point" => job'[e].rev # job'[d].rev
        <3>1. job'[d] = job[d]
            BY <1>5
        <3>2. ~Named(job[d].rev) /\ job[d].rev # n
            BY <1>8, <2>1, <3>1 DEF StandInv, NamedInv, PointsOnce
        <3>3. \A e \in Clients \ {d, c} : job[e].todo = "point" => job[e].rev # job[d].rev
            BY <2>1, <3>1 DEF StandInv, NamedInv, PointsOnce
        <3>4. ~Named(job'[d].rev)
            BY <3>1, <3>2
        <3>5. ~Named(job[d].rev)'
            BY <2>0, <3>1, <3>4 DEF Named
        <3> QED BY <1>5, <3>1, <3>2, <3>3, <3>5
    <2>2. ~Named(job'[c].rev)
        BY <1>5, <1>8
    <2>3. ~Named(job[c].rev)'
        BY <2>0, <2>2 DEF Named
    <2>4. \A e \in Clients \ {c} : job'[e].todo = "point" => job'[e].rev # job'[c].rev
        BY <1>5, <2>1
    <2>5. ASSUME NEW d \in Clients, job'[d].todo = "point"
          PROVE  /\ ~Named(job[d].rev)'
                 /\ \A e \in Clients \ {d} : job'[e].todo = "point" => job'[e].rev # job'[d].rev
        BY <2>1, <2>3, <2>4, <2>5
    <2> QED BY <2>5 DEF PointsOnce
<1>10. NamedInv'
    BY <1>5, <1>7, <1>9 DEF StandInv, NamedInv
<1>11. FreshAgrees'
    BY <1>5 DEF StandInv, FreshAgrees
<1>12. \A d \in Clients : Settled(d)' /\ Cleared(d)'
    BY <1>5, <1>6 DEF StandInv, Settled, Cleared
<1> QED BY <1>10, <1>11, <1>12 DEF StandInv

\* A pointer is written, by an acceptance or by a supersession.
LEMMA StandPointed ==
    ASSUME SpecificationBounds, SpecInv, StandInv, NEW c \in Clients, Point(c)
    PROVE  StandInv'
<1> DEFINE s == job[c].spec
           n == job[c].rev
<1>1. /\ DOMAIN specs' = DOMAIN specs /\ revs' = revs
      /\ job'[c].todo = "mark" /\ \A d \in Clients \ {c} : job'[d] = job[d]
      /\ \A i \in DOMAIN specs :
           /\ specs'[i].projection = specs[i].projection
           /\ specs'[i].current = IF i = s THEN n ELSE specs[i].current
    BY PointStep DEF SpecInv
<1>2. /\ job[c].todo = "point" /\ n \in DOMAIN revs
      /\ overtaken' = IF Clearing(s) THEN overtaken \cup {n} ELSE overtaken
    BY DEF Point, SpecInv, Reasoned, Exact
<1>3. /\ ~Named(n)
      /\ \A d \in Clients \ {c} : job[d].todo = "point" => /\ job[d].rev # n
                                                            /\ ~Named(job[d].rev)
    BY <1>2 DEF StandInv, NamedInv, PointsOnce
<1> HIDE DEF s, n
<1>4. \A r : Named(r)' => Named(r) \/ r = n
    BY <1>1 DEF Named
<1>5. NamedInv'
    <2>1. ASSUME NEW d \in Clients, job'[d].todo = "point"
          PROVE  /\ ~Named(job[d].rev)'
                 /\ \A e \in Clients \ {d} : job'[e].todo = "point" => job'[e].rev # job'[d].rev
        <3>1. d # c /\ job'[d] = job[d]
            BY <1>1, <2>1
        <3>2. ~Named(job'[d].rev) /\ job'[d].rev # n
            BY <1>3, <2>1, <3>1
        <3>3. \A r : ~Named(r) /\ r # n => ~Named(r)'
            BY <1>4
        <3>4. ~Named(job[d].rev)'
            BY <3>2, <3>3 DEF Named
        <3>5. \A e \in Clients \ {d} : job'[e].todo = "point" => e # c /\ job'[e] = job[e]
            BY <1>1
        <3> QED BY <2>1, <3>1, <3>4, <3>5 DEF StandInv, NamedInv, PointsOnce
    <2>2. \A r : Named(r)' => r \in DOMAIN revs' \cup {0}
        BY <1>1, <1>2, <1>4 DEF StandInv, NamedInv
    <2> QED BY <2>1, <2>2 DEF NamedInv, PointsOnce
<1>6. FreshAgrees'
    <2>1. \A i \in DOMAIN specs : specs[i].projection.source # n
        BY <1>3 DEF Named
    <2> QED BY <1>1, <2>1 DEF StandInv, FreshAgrees
<1>7. ASSUME NEW d \in Clients PROVE Settled(d)' /\ Cleared(d)'
    <2>1. CASE d = c
        BY <1>1, <2>1 DEF Settled, Cleared
    <2>2. CASE d # c
        <3>1. job'[d] = job[d]
            BY <1>1, <2>2
        <3>2. job[d].todo \in {"write", "status"} => job[d].seen # n
            BY <1>3 DEF Named
        <3>3. Settled(d)'
            BY <1>1, <3>1, <3>2 DEF StandInv, Settled
        <3>4. job[d].todo = "clear" /\ job[d].spec = s => n \in overtaken'
            BY <1>2 DEF Clearing
        <3>5. overtaken \subseteq overtaken'
            BY <1>2
        <3>6. Cleared(d)'
            BY <1>1, <3>1, <3>4, <3>5 DEF StandInv, Cleared
        <3> QED BY <3>3, <3>6
    <2> QED BY <2>1, <2>2
<1> QED BY <1>5, <1>6, <1>7 DEF StandInv

LEMMA StandCleared ==
    ASSUME SpecificationBounds, SpecInv, StandInv, NEW c \in Clients, Clear(c)
    PROVE  StandInv'
<1>1. /\ DOMAIN specs' = DOMAIN specs /\ revs' = revs
      /\ job'[c].todo = "mark" /\ \A d \in Clients \ {c} : job'[d] = job[d]
      /\ \A i \in DOMAIN specs :
           /\ specs'[i].projection = specs[i].projection
           /\ specs'[i].current = IF i = job[c].spec THEN 0 ELSE specs[i].current
    BY ClearStep DEF SpecInv
<1>2. overtaken' = overtaken
    BY DEF Clear
<1>3. \A r : Named(r)' => Named(r) \/ r = 0
    BY <1>1 DEF Named
<1>4. \A d \in Clients : job'[d].todo = "point" => job'[d] = job[d]
    BY <1>1
<1>5. NamedInv'
    BY <1>1, <1>3, <1>4, NamesStay DEF StandInv
<1>6. FreshAgrees'
    BY <1>1 DEF StandInv, FreshAgrees
<1>7. ASSUME NEW d \in Clients PROVE Settled(d)' /\ Cleared(d)'
    <2>1. CASE d = c
        BY <1>1, <2>1 DEF Settled, Cleared
    <2>2. CASE d # c
        BY <1>1, <1>2, <2>2 DEF StandInv, Settled, Cleared
    <2> QED BY <2>1, <2>2
<1> QED BY <1>5, <1>6, <1>7 DEF StandInv

LEMMA StandStep ==
    ASSUME SpecificationBounds, SpecInv, StandInv, [Next]_vars
    PROVE  StandInv'
<1>1. SpecTyped
    BY DEF SpecInv
<1>2. CASE UNCHANGED vars
    BY <1>2, StandGrows DEF vars
<1>3. ASSUME NEW c \in Clients, Create(c) PROVE StandInv'
    BY <1>3, StandGrows DEF Create
<1>4. ASSUME NEW c \in Clients, CreateCandidate(c) \/ Reject(c) \/ Supersede(c)
      PROVE  StandInv'
    <2>1. ASSUME NEW s \in Nat, NEW given \in Statuses, NEW source \in Nat,
                 NEW todo \in {"mark", "reread"}, Store(c, s, given, source, todo)
          PROVE  StandInv'
        <3>1. todo \in Todos
            BY DEF Todos
        <3>2. /\ SpecTyped' /\ specs' = specs
              /\ DOMAIN revs \subseteq DOMAIN revs' /\ \A i \in DOMAIN revs : revs'[i] = revs[i]
              /\ Len(revs) + 1 \in DOMAIN revs' \ {0}
              /\ DOMAIN revs' = DOMAIN revs \cup {Len(revs) + 1}
              /\ revs'[Len(revs) + 1] = [spec |-> s, status |-> given, source |-> source]
              /\ job'[c].todo = todo /\ job'[c].spec = s
              /\ todo # "mark" => job'[c].rev = Len(revs) + 1 /\ job'[c].seen = source
              /\ \A d \in Clients \ {c} : job'[d] = job[d]
            BY <1>1, <2>1, <3>1, StoreStep
        <3>3. overtaken' = overtaken
            BY <2>1 DEF Store
        <3>4. Proceeds(c)
            BY <3>2 DEF Proceeds
        <3> QED BY <3>2, <3>3, <3>4, PointersRest
    <2>2. CASE CreateCandidate(c)
        <3>1. DOMAIN specs \subseteq Nat
            BY <1>1 DEF SpecTyped
        <3> QED BY <2>1, <2>2, <3>1 DEF CreateCandidate, Statuses
    <2>3. ASSUME NEW from, NEW to \in Statuses, NEW todo \in {"mark", "reread"},
                 Outcome(c, from, to, todo)
          PROVE  StandInv'
        <3>1. todo \in Todos
            BY DEF Todos
        <3>2. PICK r \in DOMAIN revs : /\ Store(c, revs[r].spec, to, r, todo)
                                       /\ r \in Nat /\ revs[r].spec \in Nat
            BY <1>1, <2>3, <3>1, OutcomeStep
        <3> QED BY <2>1, <3>2
    <2>4. CASE Reject(c)
        BY <2>3, <2>4 DEF Reject, Statuses
    <2>5. CASE Supersede(c)
        BY <2>3, <2>5 DEF Supersede, Statuses
    <2> QED BY <1>4, <2>2, <2>4, <2>5
<1>5. ASSUME NEW c \in Clients, StoreDies(c) PROVE StandInv'
    BY <1>1, <1>5, TornStep, StandGrows DEF StoreDies
<1>6. ASSUME NEW c \in Clients, MarkStale(c) \/ WriteMarkdown(c) \/ WriteStatus(c)
      PROVE  StandInv'
    <2>1. /\ DOMAIN specs' = DOMAIN specs /\ revs' = revs
          /\ \A d \in Clients \ {c} : job'[d] = job[d]
          /\ \/ job'[c] = Idle
             \/ /\ job[c].todo = "write" /\ job'[c].todo = "status"
                /\ job'[c].seen = job[c].seen /\ job'[c].rev = job[c].rev
                /\ job'[c].spec = job[c].spec
          /\ \A i \in DOMAIN specs :
               /\ specs'[i].current = specs[i].current
               /\ \/ specs'[i].projection = specs[i].projection
                  \/ /\ specs'[i].projection.state # "fresh"
                     /\ specs'[i].projection.source = 0
                  \/ /\ job[c].todo = "status" /\ i = job[c].spec
                     /\ specs'[i].projection.source = job[c].seen
                     /\ specs'[i].projection.digest = job[c].rev
        BY <1>1, <1>6, ProjectionStep
    <2>2. overtaken' = overtaken
        BY <1>6 DEF MarkStale, WriteMarkdown, WriteStatus
    <2>3. Proceeds(c)
        BY <2>1, IdleCommand DEF Proceeds
    <2> QED BY <2>1, <2>2, <2>3, PointersRest
<1>7. ASSUME NEW c \in Clients, Reread(c) \/ WriteProjection(c) \/ Render(c)
      PROVE  StandInv'
    <2>1. /\ specs' = specs /\ revs' = revs /\ \A d \in Clients \ {c} : job'[d] = job[d]
          /\ Proceeds(c)
        BY <1>7, ReadingStep DEF Proceeds
    <2>2. overtaken' = overtaken
        BY <1>7 DEF Reread, WriteProjection, Render
    <2> QED BY <2>1, <2>2, PointersRest
<1>8. ASSUME NEW a \in Authors, Authoring(a) PROVE StandInv'
    <2>1. /\ job' = job /\ revs' = revs /\ overtaken' = overtaken
          /\ specs' = specs \/ specs' = Append(specs, NewSpecification)
        BY <1>8 DEF Authoring, AdmitNextStep, Start, Load,
                    Advance, SaveExecution
    <2> QED BY <2>1, StandGrows
<1>9. CASE Crash
    <2>1. /\ specs' = specs /\ revs' = revs
          /\ \/ job' = job
             \/ \E c \in Clients : /\ job'[c] = Idle
                                   /\ \A d \in Clients \ {c} : job'[d] = job[d]
        BY <1>1, <1>9, CrashStep
    <2>2. overtaken' = overtaken
        BY <1>9 DEF Crash
    <2>3. CASE job' = job
        BY <2>1, <2>2, <2>3, StandGrows
    <2>4. ASSUME NEW c \in Clients, job'[c] = Idle,
                 \A d \in Clients \ {c} : job'[d] = job[d]
          PROVE  StandInv'
        <3>1. Proceeds(c)
            BY <2>4, IdleCommand DEF Proceeds
        <3> QED BY <2>1, <2>2, <2>4, <3>1, PointersRest
    <2> QED BY <2>1, <2>3, <2>4
<1> QED BY <1>2, <1>3, <1>4, <1>5, <1>6, <1>7, <1>8, <1>9,
           StandAccepted, StandPointed, StandCleared DEF Next, Repository

\* However commands overlap, a revision is pointed at once, what was rendered
\* from the current revision shows it, and what a supersession goes on to clear
\* is what it read there unless an acceptance has come in between.
THEOREM StandCorrect == Spec => []StandInv
<1>1. Init => StandInv
    BY StandInit
<1>2. SpecInv /\ StandInv /\ [Next]_vars => StandInv'
    BY SpecificationBounds, StandStep
<1> QED BY <1>1, <1>2, PointerCorrect, PTL DEF Spec

\* However commands and renderings overlap or die, a projection reported fresh
\* while a revision is current shows that revision, which is the acceptance of
\* an exact candidate.
THEOREM ProjectionCorrect == Spec => []FreshIsCurrent
<1>1. ASSUME SpecInv, StandInv, NEW s \in DOMAIN specs, specs[s].current # 0
      PROVE  /\ ProjectionStatus(s) = "fresh" => specs[s].shown = specs[s].current
             /\ Exact(specs[s].current, s)
    BY <1>1 DEF SpecInv, PointerExact, StandInv, FreshAgrees, ProjectionStatus
<1>2. SpecInv /\ StandInv => FreshIsCurrent
    BY <1>1 DEF FreshIsCurrent, Exact
<1> QED BY <1>2, PointerCorrect, StandCorrect, PTL

-----------------------------------------------------------------------------
(* Specifications: what may never change *)

\* An author holds no less than it read, and nothing else if that had ended.
Held(a) ==
    /\ copy[a].read.status \in Terminal => copy[a].exec = copy[a].read
    /\ copy[a].read.evidence <= copy[a].exec.evidence

HeldInv == \A a \in Authors : Held(a)

LEMMA FreshHolds ==
    ASSUME NEW s \in Nat
    PROVE  /\ Fresh(s).status \notin Terminal /\ Fresh(s).evidence = 0
           /\ NoCopy.exec = Fresh(0) /\ NoCopy.read = Fresh(0)
BY DEF Fresh, Terminal, NoCopy, Copied

LEMMA NothingHeld ==
    ASSUME NEW a \in Authors, copy[a] = NoCopy PROVE Held(a)
<1>1. Fresh(0).status \notin Terminal /\ Fresh(0).evidence = 0
    BY DEF Fresh, Terminal
<1>2. copy[a].exec = Fresh(0) /\ copy[a].read = Fresh(0)
    BY DEF NoCopy, Copied
<1> QED BY <1>1, <1>2 DEF Held

\* A save takes nothing from what its author read.
Stands(i) ==
    \/ /\ execs[i].status \in Terminal => execs'[i] = execs[i]
       /\ execs[i].evidence <= execs'[i].evidence
    \/ \E a \in Authors : copy[a].id = i /\ copy[a].read # execs[i]

LEMMA EvidenceIs ==
    ASSUME SpecTyped, NEW i \in DOMAIN execs
    PROVE  execs[i] \in Executions /\ execs[i].evidence \in Nat
<1>1. execs[i] \in Executions
    BY DEF SpecTyped
<1> QED BY <1>1 DEF Executions

LEMMA Untouched ==
    ASSUME SpecTyped, NEW i \in DOMAIN execs, execs'[i] = execs[i] PROVE Stands(i)
BY EvidenceIs DEF Stands

LEMMA AuthorStep ==
    ASSUME SpecificationBounds, SpecTyped, NEW a \in Authors, HeldInv, Authoring(a)
    PROVE  /\ Held(a)' /\ \A b \in Authors \ {a} : copy'[b] = copy[b]
           /\ \A i \in DOMAIN execs : Stands(i)
<1>0. Held(a)
    BY DEF HeldInv
<1>1. CASE AdmitNextStep(a) \/ Start(a)
    <2>1. /\ execs' = Append(execs, Fresh(0)) /\ copy'[a].read = Fresh(0)
          /\ \A b \in Authors \ {a} : copy'[b] = copy[b]
        BY <1>1, BeginStep
    <2>2. PICK s \in Nat : copy'[a].exec = Fresh(s)
        BY <1>1, BeginStep
    <2>3. \A i \in DOMAIN execs : execs'[i] = execs[i]
        BY <2>1, ExecutionAdded
    <2>4. /\ Fresh(0).status \notin Terminal /\ Fresh(0).evidence = 0
          /\ Fresh(s).evidence = 0
        BY FreshHolds
    <2>5. Held(a)'
        BY <2>1, <2>2, <2>4 DEF Held, Terminal
    <2> QED BY <2>1, <2>3, <2>5, Untouched
<1>2. CASE \E i \in DOMAIN execs : Load(a, i)
    <2>1. PICK i \in DOMAIN execs : Load(a, i)
        BY <1>2
    <2>2. /\ execs' = execs /\ copy'[a].exec = execs[i] /\ copy'[a].read = execs[i]
          /\ \A b \in Authors \ {a} : copy'[b] = copy[b]
        BY <2>1, LoadStep
    <2>3. Held(a)'
        BY <2>2, EvidenceIs DEF Held
    <2> QED BY <2>2, <2>3, Untouched
<1>3. CASE Advance(a)
    <2>1. /\ execs' = execs /\ copy'[a].read = copy[a].read
          /\ copy[a].exec.status \notin Terminal
          /\ copy[a].exec.evidence <= copy'[a].exec.evidence
          /\ \A b \in Authors \ {a} : copy'[b] = copy[b]
          /\ SpecTyped'
        BY <1>3, AdvanceStep
    <2>2. /\ copy[a].read.evidence \in Nat /\ copy[a].exec.evidence \in Nat
          /\ copy'[a].exec.evidence \in Nat
        <3>1. copy'[a].exec \in Executions
            BY <2>1 DEF SpecTyped, Copies, Executions, Terminal
        <3> QED BY <3>1, CopyIs DEF Executions
    <2>3. copy[a].read.status \notin Terminal
        BY <1>0, <2>1 DEF Held
    <2>4. Held(a)'
        BY <1>0, <2>1, <2>2, <2>3 DEF Held, Terminal
    <2> QED BY <2>1, <2>4, Untouched
<1>4. CASE SaveExecution(a)
    <2>1. /\ copy'[a] = NoCopy /\ \A b \in Authors \ {a} : copy'[b] = copy[b]
          /\ \A i \in DOMAIN execs :
               execs'[i] = execs[i] \/ (i = copy[a].id /\ execs'[i] = copy[a].exec)
        BY <1>4, SaveStep
    <2>2. Held(a)'
        <3>1. copy'[a].exec = Fresh(0) /\ copy'[a].read = Fresh(0)
            BY <2>1 DEF NoCopy, Copied
        <3>2. Fresh(0).status \notin Terminal /\ Fresh(0).evidence = 0
            BY FreshHolds
        <3> QED BY <3>1, <3>2 DEF Held, Terminal
    <2>3. ASSUME NEW i \in DOMAIN execs PROVE Stands(i)
        <3>1. CASE execs'[i] = execs[i]
            BY <3>1, Untouched
        <3>2. CASE i = copy[a].id /\ execs'[i] = copy[a].exec
            BY <1>0, <3>2 DEF Held, Stands
        <3> QED BY <2>1, <3>1, <3>2
    <2> QED BY <2>1, <2>2, <2>3
<1> QED BY <1>1, <1>2, <1>3, <1>4 DEF Authoring

LEMMA HeldStep ==
    ASSUME SpecificationBounds, SpecTyped, HeldInv, [Next]_vars
    PROVE  HeldInv' /\ \A i \in DOMAIN execs : Stands(i)
<1>1. ASSUME execs' = execs, \A a \in Authors : copy'[a] = copy[a] \/ copy'[a] = NoCopy
      PROVE  HeldInv' /\ \A i \in DOMAIN execs : Stands(i)
    <2>1. ASSUME NEW a \in Authors PROVE Held(a)'
        <3>1. CASE copy'[a] = copy[a]
            BY <3>1 DEF HeldInv, Held, Terminal
        <3>2. CASE copy'[a] = NoCopy
            <4>1. copy'[a].exec = Fresh(0) /\ copy'[a].read = Fresh(0)
                BY <3>2 DEF NoCopy, Copied
            <4>2. Fresh(0).status \notin Terminal /\ Fresh(0).evidence = 0
                BY FreshHolds
            <4> QED BY <4>1, <4>2 DEF Held, Terminal
        <3> QED BY <1>1, <3>1, <3>2
    <2>2. ASSUME NEW i \in DOMAIN execs PROVE Stands(i)
        BY <1>1, Untouched
    <2> QED BY <2>1, <2>2 DEF HeldInv
<1>2. CASE UNCHANGED vars
    BY <1>1, <1>2 DEF vars
<1>3. ASSUME NEW c \in Clients, Repository(c) PROVE execs' = execs /\ copy' = copy
    BY <1>3 DEF Repository, Create, StoreDies, CreateCandidate, Accept, Reject,
                Supersede, Outcome, Store, Point, Reread,
                Clear, MarkStale, WriteProjection, Render,
                WriteMarkdown, WriteStatus
<1>4. CASE \E c \in Clients : Repository(c)
    BY <1>1, <1>3, <1>4
<1>5. ASSUME NEW a \in Authors, Authoring(a)
      PROVE  HeldInv' /\ \A i \in DOMAIN execs : Stands(i)
    <2>1. /\ Held(a)' /\ \A b \in Authors \ {a} : copy'[b] = copy[b]
          /\ \A i \in DOMAIN execs : Stands(i)
        BY <1>5, AuthorStep
    <2>2. ASSUME NEW b \in Authors \ {a} PROVE Held(b)'
        BY <2>1, <2>2 DEF HeldInv, Held, Terminal
    <2> QED BY <2>1, <2>2 DEF HeldInv
<1>6. CASE Crash
    <2>1. execs' = execs /\ \A a \in Authors : copy'[a] = copy[a] \/ copy'[a] = NoCopy
        BY <1>6, CrashStep
    <2> QED BY <1>1, <2>1
<1> QED BY <1>2, <1>4, <1>5, <1>6 DEF Next

\* An author holds no less evidence than it read, and what it read as ended it
\* holds unchanged, however many authors load and save beside it.
THEOREM HeldCorrect == Spec => []HeldInv
<1>1. Init => HeldInv
    BY NothingHeld DEF Init, HeldInv
<1>2. SpecInv /\ HeldInv /\ [Next]_vars => HeldInv'
    BY SpecificationBounds, HeldStep DEF SpecInv
<1> QED BY <1>1, <1>2, PointerCorrect, PTL DEF Spec

\* The pointer is cleared for a supersession of what it names, or for one that
\* the acceptance it names has overtaken.
LEMMA ClearedFor ==
    ASSUME SpecificationBounds, SpecInv, StandInv, [Next]_vars,
           NEW s \in DOMAIN specs, specs[s].current \notin {0, specs'[s].current}
    PROVE  \/ specs'[s].current # 0 \/ Superseded(specs[s].current)
           \/ specs[s].current \in overtaken
<1>1. SpecTyped
    BY DEF SpecInv
<1>2. ASSUME NEW c \in Clients, Point(c) PROVE specs'[s].current # 0
    <2>1. specs'[s].current = IF s = job[c].spec THEN job[c].rev ELSE specs[s].current
        BY <1>1, <1>2, PointStep
    <2>2. job[c].rev # 0
        BY <1>2 DEF Point, SpecInv, Reasoned
    <2> QED BY <2>1, <2>2
<1>3. ASSUME NEW c \in Clients, Clear(c)
      PROVE  Superseded(specs[s].current) \/ specs[s].current \in overtaken
    <2>1. specs'[s].current = IF s = job[c].spec THEN 0 ELSE specs[s].current
        BY <1>1, <1>3, ClearStep
    <2>2. job[c].todo = "clear" /\ s = job[c].spec
        BY <1>3, <2>1 DEF Clear
    <2>3. /\ specs[s].current \in {0, job[c].seen} \cup overtaken
          /\ Superseded(job[c].seen)
        BY <2>2 DEF StandInv, Cleared, SpecInv, Reasoned
    <2> QED BY <2>3
<1>4. ASSUME NEW c \in Clients,
             MarkStale(c) \/ WriteMarkdown(c) \/ WriteStatus(c)
      PROVE  FALSE
    BY <1>1, <1>4, ProjectionStep
<1>5. ASSUME specs' = specs \/ specs' = Append(specs, NewSpecification)
      PROVE  FALSE
    <2>1. specs'[s] = specs[s]
        BY <1>1, <1>5, Appended
    <2> QED BY <2>1
<1>6. ASSUME NEW c \in Clients,
             \/ Create(c) \/ StoreDies(c) \/ CreateCandidate(c) \/ Accept(c) \/ Reject(c)
             \/ Supersede(c) \/ Reread(c) \/ WriteProjection(c) \/ Render(c)
      PROVE  FALSE
    BY <1>5, <1>6 DEF Create, StoreDies, CreateCandidate, Accept, Reject,
                      Supersede, Outcome, Store, Reread,
                      WriteProjection, Render
<1>7. ASSUME NEW a \in Authors, Authoring(a) PROVE FALSE
    BY <1>5, <1>7 DEF Authoring, AdmitNextStep, Start, Load,
                      Advance, SaveExecution
<1>8. CASE UNCHANGED vars
    BY <1>5, <1>8 DEF vars
<1>9. CASE Crash
    BY <1>5, <1>9 DEF Crash
<1> QED BY <1>2, <1>3, <1>4, <1>6, <1>7, <1>8, <1>9 DEF Next, Repository

\* For any number of overlapping clients and authors, an acceptance stays current
\* until another follows, it is superseded, or a supersession it overtook clears
\* it; a save takes nothing from what its author has read.
THEOREM AcceptanceCorrect == Spec => AcceptanceStands
<1>1. SpecInv /\ HeldInv /\ [Next]_vars =>
        \A i \in DOMAIN execs : Saved(i) =>
          \/ /\ execs[i].status \in Terminal => execs'[i] = execs[i]
             /\ execs[i].evidence <= execs'[i].evidence
          \/ \E a \in Authors : copy[a].id = i /\ copy[a].read # execs[i]
    BY SpecificationBounds, HeldStep DEF SpecInv, Stands
<1>2. SpecInv /\ StandInv /\ [Next]_vars =>
        \A s \in DOMAIN specs :
             specs[s].current \notin {0, specs'[s].current} =>
                 \/ specs'[s].current # 0
                 \/ Superseded(specs[s].current)
                 \/ specs[s].current \in overtaken
    BY SpecificationBounds, ClearedFor
<1> QED BY <1>1, <1>2, PointerCorrect, StandCorrect, HeldCorrect, PTL
        DEF Spec, AcceptanceStands, ExecutionStands
=============================================================================
