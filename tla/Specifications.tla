--------------------------- MODULE Specifications ---------------------------
(***************************************************************************)
(* A project's Specifications and the executions that author them.  A      *)
(* Specification is a mutable record that points at its current accepted   *)
(* revision, beside immutable revision files, a disposable Markdown        *)
(* projection and that projection's status file.  A command of the         *)
(* repository writes these one at a time; a client may die in between.     *)
(* An execution is a value: a client loads it, derives the next one in     *)
(* memory and saves it.                                                    *)
(***************************************************************************)
EXTENDS Admission, SequencesExt

CONSTANTS
    Clients,         \* who issues the commands of the repository
    Authors,         \* who holds executions in memory
    MaxRevisions, MaxSpecifications, MaxExecutions,  \* bounds
    MaxAuthored      \* and on the revisions stored once an execution has begun

Symmetric == Permutations(Clients) \cup Permutations(Authors)

ASSUME SpecificationBounds ==
    {MaxRevisions, MaxSpecifications, MaxExecutions, MaxAuthored} \subseteq Nat

VARIABLES
    specs,           \* per Specification: pointer, projection, Markdown
    revs,            \* every revision file ever written, never rewritten
    execs,           \* saved executions
    job,             \* per client: the writes its command still has to do
    copy,            \* per author: the execution it holds, and what it read
    overtaken        \* history: acceptances pointed at while another command
                     \* was between its reread of that pointer and its clearing

vars == <<specs, revs, execs, job, copy, overtaken>>

\* A "torn" file was created and never filled: whoever reads it fails.
Statuses == {"candidate", "accepted", "rejected", "superseded", "torn"}
Revision == [spec : Nat, status : Statuses, source : Nat]

\* What a stale status names is only shown, and left out.
\* shown is the revision the Markdown renders; 0 renders "none".
Projection == [state : {"stale", "fresh", "failed"}, source : Nat, digest : Nat]
NotGenerated == [state |-> "stale", source |-> 0, digest |-> 0]
NoMarkdown == MaxRevisions + 1
NewSpecification == [current |-> 0, projection |-> NotGenerated, shown |-> NoMarkdown]

\* "failed" stands for cancelled too, "decided" for accepted and rejected.
Terminal == {"completed", "failed"}
\* The phase guards nothing and is left out.
Executions == [spec : Nat, status : {"running", "paused", "blocked"} \cup Terminal,
               candidate : Nat, blocker : BOOLEAN, evidence : 0..1,
               outcome : {"none", "decided", "needs-resolution"}]

Fresh(s) == [spec |-> s, status |-> "running", candidate |-> 0,
             blocker |-> FALSE, evidence |-> 0, outcome |-> "none"]

Idle == [todo |-> "idle", spec |-> 0, rev |-> 0, seen |-> 0]
Copied(i, e, read) == [id |-> i, exec |-> e, read |-> read]
NoCopy == Copied(0, Fresh(0), Fresh(0))

Init ==
    /\ specs = <<>> /\ revs = <<>> /\ execs = <<>>
    /\ job = [c \in Clients |-> Idle]
    /\ copy = [c \in Authors |-> NoCopy]
    /\ overtaken = {}

-----------------------------------------------------------------------------
(* The repository of Specifications *)

Create(c) ==
    /\ job[c] = Idle /\ Len(specs) < MaxSpecifications
    /\ specs' = Append(specs, NewSpecification)
    /\ UNCHANGED <<revs, execs, job, copy, overtaken>>

Room == IF execs = <<>> THEN MaxRevisions ELSE MaxAuthored

Marking(s) == [Idle EXCEPT !.todo = "mark", !.spec = s]

\* A command stores one revision, exclusively, and has todo left to do.
Store(c, s, status, source, todo) ==
    /\ job[c] = Idle
    /\ Len(revs) < Room
    /\ revs' = Append(revs, [spec |-> s, status |-> status, source |-> source])
    /\ job' = [job EXCEPT ![c] = IF todo = "mark" THEN Marking(s) ELSE
                  [todo |-> todo, spec |-> s, rev |-> Len(revs) + 1, seen |-> source]]
    /\ UNCHANGED <<specs, execs, copy, overtaken>>

\* The file is created and then filled: a client that dies in between leaves it torn.
StoreDies(c) ==
    /\ job[c] = Idle /\ Len(revs) < Room
    /\ \E s \in DOMAIN specs :
         revs' = Append(revs, [spec |-> s, status |-> "torn", source |-> 0])
    /\ UNCHANGED <<specs, execs, job, copy, overtaken>>

CreateCandidate(c) == \E s \in DOMAIN specs : Store(c, s, "candidate", 0, "mark")

\* A revision of either status may be the source, however often it was before.
Outcome(c, from, to, todo) ==
    \E r \in DOMAIN revs : revs[r].status = from /\ Store(c, revs[r].spec, to, r, todo)

Accept(c) == Outcome(c, "candidate", "accepted", "point")
Reject(c) == Outcome(c, "candidate", "rejected", "mark")
Supersede(c) == Outcome(c, "accepted", "superseded", "reread")

\* Some command is about to clear the pointer of s.
Clearing(s) == \E d \in Clients : job[d].todo = "clear" /\ job[d].spec = s

Point(c) ==
    /\ job[c].todo = "point"
    /\ specs' = [specs EXCEPT ![job[c].spec].current = job[c].rev]
    /\ job' = [job EXCEPT ![c] = Marking(job[c].spec)]
    /\ overtaken' = IF Clearing(job[c].spec) THEN overtaken \cup {job[c].rev}
                                             ELSE overtaken
    /\ UNCHANGED <<revs, execs, copy>>

\* Mutant (AcceptanceStands): supersession clears whatever is current.
RereadAny(c) ==
    /\ job[c].todo = "reread"
    /\ job' = [job EXCEPT ![c].todo = "clear"]
    /\ UNCHANGED <<specs, revs, execs, copy, overtaken>>

\* The pointer is cleared only if it still names what is superseded.
Reread(c) ==
    /\ job[c].todo = "reread"
    /\ job' = [job EXCEPT ![c] = IF specs[job[c].spec].current = job[c].seen
                                 THEN [job[c] EXCEPT !.todo = "clear"]
                                 ELSE Marking(job[c].spec)]
    /\ UNCHANGED <<specs, revs, execs, copy, overtaken>>

Clear(c) ==
    /\ job[c].todo = "clear"
    /\ specs' = [specs EXCEPT ![job[c].spec].current = 0]
    /\ job' = [job EXCEPT ![c] = Marking(job[c].spec)]
    /\ UNCHANGED <<revs, execs, copy, overtaken>>

MarkStale(c) ==
    /\ job[c].todo = "mark"
    /\ specs' = [specs EXCEPT ![job[c].spec].projection =
                   NotGenerated]
    /\ job' = [job EXCEPT ![c] = Idle]
    /\ UNCHANGED <<revs, execs, copy, overtaken>>

-----------------------------------------------------------------------------
(* The projection *)

WriteProjection(c) ==
    /\ job[c] = Idle
    /\ \E s \in DOMAIN specs :
         job' = [job EXCEPT ![c] = [Idle EXCEPT !.todo = "render", !.spec = s,
                                                !.seen = specs[s].current]]
    /\ UNCHANGED <<specs, revs, execs, copy, overtaken>>

\* The pointer is read a second time to render.
Render(c) ==
    /\ job[c].todo = "render"
    /\ job' = [job EXCEPT ![c].todo = "write", ![c].rev = specs[job[c].spec].current]
    /\ UNCHANGED <<specs, revs, execs, copy, overtaken>>

WriteMarkdown(c) ==
    /\ job[c].todo = "write"
    /\ \/ /\ specs' = [specs EXCEPT ![job[c].spec].shown = job[c].rev]
          /\ job' = [job EXCEPT ![c].todo = "status"]
       \/ /\ specs' = [specs EXCEPT ![job[c].spec].projection =
                         [NotGenerated EXCEPT !.state = "failed"]]
          /\ job' = [job EXCEPT ![c] = Idle]
    /\ UNCHANGED <<revs, execs, copy, overtaken>>

WriteStatus(c) ==
    /\ job[c].todo = "status"
    /\ specs' = [specs EXCEPT ![job[c].spec].projection =
                   [state |-> "fresh", source |-> job[c].seen, digest |-> job[c].rev]]
    /\ job' = [job EXCEPT ![c] = Idle]
    /\ UNCHANGED <<revs, execs, copy, overtaken>>

\* Mutant (FreshIsCurrent): the status compares the bytes, not the pointer.
StatusOfBytes(s) ==
    IF specs[s].projection.state = "fresh" /\ specs[s].shown # specs[s].projection.digest
    THEN "stale" ELSE specs[s].projection.state

ProjectionStatus(s) ==
    LET p == specs[s].projection IN
    IF p.state = "fresh" /\ (specs[s].shown # p.digest \/ p.source # specs[s].current)
    THEN "stale" ELSE p.state

-----------------------------------------------------------------------------
(* Executions, from admission to their outcome *)

\* The admission that starts a Specification: its own, or the Tactician's.
Admits ==
    \E e \in [rev : {1}, shown : {{}}, facts : {{"insufficient"}, {}, {"intent", "work"}}] :
        \E a \in Advices(e, "next-step") \cup {NoAdvice} : StepAdmitted(e, a, "specification")

\* A new Specification for the admitted work; its execution comes after it.
AdmitNextStep(c) ==
    /\ Admits
    /\ copy[c] = NoCopy /\ Len(specs) < MaxSpecifications
    /\ Len(execs) < MaxExecutions /\ Len(revs) <= MaxAuthored
    /\ specs' = Append(specs, NewSpecification)
    /\ execs' = Append(execs, Fresh(0))     \* the identity it will be saved under
    /\ copy' = [copy EXCEPT ![c] = Copied(Len(execs) + 1, Fresh(Len(specs) + 1), Fresh(0))]
    /\ UNCHANGED <<revs, job, overtaken>>

\* An independent attempt at a Specification that exists.
Start(c) ==
    /\ copy[c] = NoCopy /\ Len(execs) < MaxExecutions /\ Len(revs) <= MaxAuthored
    /\ \E s \in DOMAIN specs :
         copy' = [copy EXCEPT ![c] = Copied(Len(execs) + 1, Fresh(s), Fresh(0))]
    /\ execs' = Append(execs, Fresh(0))
    /\ UNCHANGED <<specs, revs, job, overtaken>>

Saved(i) == execs[i].spec # 0

\* What a reload validates: a completion names what it stands on (the
\* dependencies that come with "needs-resolution" are left out).
Loadable(e) ==
    /\ e.outcome # "none" <=> e.status = "completed"
    /\ e.outcome = "decided" => e.candidate # 0
    /\ e.blocker <=> e.status = "blocked"

Load(c, i) ==
    /\ copy[c] = NoCopy
    /\ Saved(i) /\ Loadable(execs[i])
    /\ copy' = [copy EXCEPT ![c] = Copied(i, execs[i], execs[i])]
    /\ UNCHANGED <<specs, revs, execs, job, overtaken>>

Completions(e) ==
    {[e EXCEPT !.status = "completed", !.outcome = o] :
        o \in {"decided", "needs-resolution"}}

Transitions(e) ==
    CASE e.status = "running" ->
           {[e EXCEPT !.evidence = 1]}
           \cup {[e EXCEPT !.candidate = r] : r \in DOMAIN revs}
           \cup {[e EXCEPT !.status = st] : st \in {"paused", "failed"}}
           \cup {[e EXCEPT !.status = "blocked", !.blocker = TRUE]}
           \cup Completions(e)
      [] e.status = "paused" -> {[e EXCEPT !.status = "running"]}
      [] e.status = "blocked" -> {[e EXCEPT !.status = "running", !.blocker = FALSE]}
      [] OTHER -> {}

Advance(c) ==
    /\ copy[c] # NoCopy
    /\ \E e \in Transitions(copy[c].exec) : copy' = [copy EXCEPT ![c].exec = e]
    /\ UNCHANGED <<specs, revs, execs, job, overtaken>>

\* The one thing a save validates.
Linked(e) == e.candidate # 0 => /\ revs[e.candidate].spec = e.spec
                                /\ revs[e.candidate].status = "candidate"

\* A save replaces the file, whatever is in it by now; a refused one is dropped.
SaveExecution(c) ==
    /\ copy[c] # NoCopy
    /\ execs' = IF Linked(copy[c].exec)
                THEN [execs EXCEPT ![copy[c].id] = copy[c].exec] ELSE execs
    /\ copy' = [copy EXCEPT ![c] = NoCopy]
    /\ UNCHANGED <<specs, revs, job, overtaken>>

\* A client may die, or give up, at any time and as often as it likes.
Crash ==
    /\ \/ \E c \in Clients : /\ job[c] # Idle
                            /\ job' = [job EXCEPT ![c] = Idle] /\ copy' = copy
       \/ \E c \in Authors : /\ copy[c] # NoCopy
                            /\ copy' = [copy EXCEPT ![c] = NoCopy] /\ job' = job
    /\ UNCHANGED <<specs, revs, execs, overtaken>>

Repository(c) ==
    \/ Create(c) \/ StoreDies(c) \/ CreateCandidate(c) \/ Accept(c) \/ Reject(c) \/ Supersede(c)
    \/ Point(c) \/ Reread(c) \/ Clear(c) \/ MarkStale(c)
    \/ WriteProjection(c) \/ Render(c) \/ WriteMarkdown(c) \/ WriteStatus(c)

Authoring(c) ==
    \/ AdmitNextStep(c) \/ Start(c) \/ Advance(c) \/ SaveExecution(c)
    \/ \E i \in DOMAIN execs : Load(c, i)

Next ==
    \/ \E c \in Clients : Repository(c)
    \/ \E c \in Authors : Authoring(c)
    \/ Crash

Spec == Init /\ [][Next]_vars

-----------------------------------------------------------------------------
(* Properties *)

\* Every record is well formed.
TypeOK ==
    /\ \A s \in DOMAIN specs :
         /\ specs[s].current \in 0..Len(revs) /\ specs[s].shown \in 0..NoMarkdown
         /\ specs[s].projection \in Projection
    /\ revs \in Seq(Revision) /\ execs \in Seq(Executions)
    /\ overtaken \subseteq DOMAIN revs
    /\ \A c \in Clients : job[c].rev \in 0..Len(revs)
    /\ \A c \in Authors : {copy[c].exec, copy[c].read} \subseteq Executions
    /\ \A i \in DOMAIN execs : Saved(i) => execs[i].spec \in DOMAIN specs

\* However commands and renderings overlap or die between their three files, a
\* projection reported fresh while a revision is current shows that revision;
\* and what is current is an accepted one, made from an exact candidate.
FreshIsCurrent ==
    \A s \in DOMAIN specs :
        LET r == specs[s].current IN
        r # 0 => /\ ProjectionStatus(s) = "fresh" => specs[s].shown = r
                 /\ revs[r].spec = s /\ revs[r].status = "accepted"
                 /\ revs[revs[r].source].spec = s
                 /\ revs[revs[r].source].status = "candidate"

\* While none is current a fresh projection shows none (violated by two clients:
\* the pointer is read twice, and "none" may become current again).
FreshShowsNone ==
    \A s \in DOMAIN specs :
        specs[s].current = 0 /\ ProjectionStatus(s) = "fresh" => specs[s].shown = 0

\* What save accepted, get reads back (violated: a completion is saved unvalidated).
SavedLoads == \A i \in DOMAIN execs : Saved(i) => Loadable(execs[i])

\* A save changes no execution that ended and drops no evidence, unless what it
\* replaces was saved after its author read the file.
ExecutionStands ==
    [][\A i \in DOMAIN execs : Saved(i) =>
          \/ /\ execs[i].status \in Terminal => execs'[i] = execs[i]
             /\ execs[i].evidence <= execs'[i].evidence
          \/ \E a \in Authors : copy[a].id = i /\ copy[a].read # execs[i]]_vars

Superseded(r) == \E q \in DOMAIN revs : revs[q].status = "superseded" /\ revs[q].source = r

\* However commands overlap, and wherever they die, an acceptance stays current
\* until another follows or it is itself superseded: all that can take it back is
\* a supersession of its predecessor that had already reread the pointer when the
\* acceptance was written.  What was executed for it stands as well.
AcceptanceStands ==
    /\ ExecutionStands
    /\ [][\A s \in DOMAIN specs :
             specs[s].current \notin {0, specs'[s].current} =>
                 \/ specs'[s].current # 0
                 \/ Superseded(specs[s].current)
                 \/ specs[s].current \in overtaken]_vars

\* An acceptance is taken back only by its own supersession (violated by two
\* clients: the pointer is cleared without a look at what it names by then).
AcceptanceKept ==
    [][\A s \in DOMAIN specs :
           specs[s].current \notin {0, specs'[s].current} =>
               specs'[s].current # 0 \/ Superseded(specs[s].current)]_vars
=============================================================================
