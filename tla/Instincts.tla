------------------------------ MODULE Instincts ------------------------------
(***************************************************************************)
(* Knowledge a project keeps: Recon proposes candidates from a completed   *)
(* Run, a human accepts, edits or rejects each one, and later Runs are     *)
(* given the accepted Instincts that nothing supersedes.  Candidates,      *)
(* decisions and Instincts are immutable files in three directories; a     *)
(* file is created exclusively and filled afterwards, so that a process    *)
(* that dies in between leaves it torn.                                    *)
(***************************************************************************)
EXTENDS Naturals, FiniteSets

CONSTANTS
    N,               \* identifiers are 1..N, shared by candidates and Instincts
    Reviewers

ASSUME InstinctBounds == N \in Nat \ {0}

VARIABLES
    candidates,      \* per identifier, the candidate Recon left, if any
    decisions,       \* per candidate, the decision file
    intel,           \* per identifier, the Instinct file
    job              \* per reviewer, where its review is

vars == <<candidates, decisions, intel, job>>

Ids == 1..N

\* of is the candidate whose provenance the content keeps.
Contents == {i \in [id : Ids, of : Ids, supersedes : 0..N] : i.supersedes # i.id}
Decision == [accepted : 0..N]           \* 0: rejected

None == [file |-> "none"]
Torn == [file |-> "torn"]
Full(x) == [file |-> "full", is |-> x]
Files(S) == {None, Torn} \cup {Full(x) : x \in S}

Idle == [at |-> "idle"]

Init ==
    /\ candidates = [i \in Ids |-> None]
    /\ decisions = [i \in Ids |-> None]
    /\ intel = [i \in Ids |-> None]
    /\ job = [r \in Reviewers |-> Idle]

Known == {i \in Ids : intel[i].file = "full"}
Readable == \A i \in Ids : intel[i] # Torn
Superseded == {intel[i].is.supersedes : i \in Known} \ {0}

\* The list of active Instincts is made from every file: one that is torn, or a
\* predecessor that is missing, and listing raises.
Listable == Readable /\ Superseded \subseteq Known
Active == IF Listable THEN Known \ Superseded ELSE {}

\* How a task meets each Instinct: it matches terms, matches tags, or not.
Tasks == [Ids -> {"terms", "tags", "excluded"}]

\* The place of each Instinct in what a task is given: exclusions win, a term
\* outranks a tag, and the identifier breaks ties.  Nothing is given when
\* listing raises: the role that asked stops there.
Retrieve(task) ==
    LET Rank(i) == IF task[i] = "terms" THEN i ELSE N + i
        fits == {i \in Active : task[i] # "excluded"}
    IN  [i \in fits |-> Cardinality({j \in fits : Rank(j) <= Rank(i)})]

-----------------------------------------------------------------------------
(* Recon *)

\* An identifier is stored once, by linking a complete file.
StoreCandidate(c) ==
    /\ candidates[c.id] = None
    /\ candidates' = [candidates EXCEPT ![c.id] = Full(c)]

\* A completed Run's candidates cite its own record; duplicates of what is
\* accepted are dropped.
Propose ==
    /\ Readable
    /\ \E c \in Contents : c.id = c.of /\ c.id \notin Known /\ StoreCandidate(c)
    /\ UNCHANGED <<decisions, intel, job>>

-----------------------------------------------------------------------------
(* A review: check, store the Instinct, store the decision *)

Undecided(i) == candidates[i] # None /\ decisions[i] = None

Reject(r) ==
    /\ job[r] = Idle
    /\ \E i \in Ids : /\ Undecided(i)
                      /\ job' = [job EXCEPT ![r] = [at |-> "decide", of |-> i, accepted |-> 0]]
    /\ UNCHANGED <<candidates, decisions, intel>>

\* Mutant (PromotionIsStored): the decision is recorded before the Instinct.
DecideFirst(r, i, c) ==
    job' = [job EXCEPT ![r] = [at |-> "decide", of |-> i, accepted |-> c.id]]

Promoting(r, i, c) == job' = [job EXCEPT ![r] = [at |-> "store", of |-> i, is |-> c]]

Accept(r) ==
    /\ job[r] = Idle
    /\ \E i \in Ids : Undecided(i) /\ Promoting(r, i, candidates[i].is)
    /\ UNCHANGED <<candidates, decisions, intel>>

\* An edit may change the identifier and what is superseded, not the provenance.
EditThenAccept(r) ==
    /\ job[r] = Idle
    /\ \E i \in Ids, c \in Contents : Undecided(i) /\ c.of = i /\ Promoting(r, i, c)
    /\ UNCHANGED <<candidates, decisions, intel>>

\* Mutant (HeirIsActive): the superseded Instinct may come later.
AnyPredecessor(c) == TRUE

\* What is superseded must be there, and whole.
Predecessor(c) == c.supersedes # 0 => c.supersedes \in Known

CreateInstinct(r) ==
    /\ job[r].at = "store" /\ Predecessor(job[r].is)
    /\ intel[job[r].is.id] = None
    /\ intel' = [intel EXCEPT ![job[r].is.id] = Torn]
    /\ job' = [job EXCEPT ![r].at = "fill"]
    /\ UNCHANGED <<candidates, decisions>>

FillInstinct(r) ==
    /\ job[r].at = "fill"
    /\ intel' = [intel EXCEPT ![job[r].is.id] = Full(job[r].is)]
    /\ job' = [job EXCEPT ![r] = [at |-> "decide", of |-> job[r].of, accepted |-> job[r].is.id]]
    /\ UNCHANGED <<candidates, decisions>>

\* A missing predecessor, or an identifier that is taken, ends the review.
RefuseInstinct(r) ==
    /\ job[r].at = "store"
    /\ Predecessor(job[r].is) => intel[job[r].is.id] # None
    /\ job' = [job EXCEPT ![r] = Idle]
    /\ UNCHANGED <<candidates, decisions, intel>>

CreateDecision(r) ==
    /\ job[r].at = "decide"
    /\ IF decisions[job[r].of] = None
       THEN /\ decisions' = [decisions EXCEPT ![job[r].of] = Torn]
            /\ job' = [job EXCEPT ![r].at = "record"]
       ELSE /\ job' = [job EXCEPT ![r] = Idle]
            /\ decisions' = decisions
    /\ UNCHANGED <<candidates, intel>>

RecordDecision(r) ==
    /\ job[r].at = "record"
    /\ decisions' = [decisions EXCEPT ![job[r].of] = Full([accepted |-> job[r].accepted])]
    /\ job' = [job EXCEPT ![r] = Idle]
    /\ UNCHANGED <<candidates, intel>>

Crash(r) ==
    /\ job[r] # Idle
    /\ job' = [job EXCEPT ![r] = Idle]
    /\ UNCHANGED <<candidates, decisions, intel>>

Next ==
    \/ Propose
    \/ \E r \in Reviewers :
         \/ Accept(r) \/ EditThenAccept(r) \/ Reject(r)
         \/ CreateInstinct(r) \/ FillInstinct(r) \/ RefuseInstinct(r)
         \/ CreateDecision(r) \/ RecordDecision(r) \/ Crash(r)

Spec == Init /\ [][Next]_vars

-----------------------------------------------------------------------------
(* Properties *)

Decided(i) == decisions[i].file = "full"
Promoted == {i \in Ids : Decided(i) /\ decisions[i].is.accepted # 0}

\* Every file is of its kind and lies under its own identifier.
TypeOK ==
    /\ \A i \in Ids : /\ candidates[i] \in Files(Contents) /\ decisions[i] \in Files(Decision)
                      /\ intel[i] \in Files(Contents)
    /\ \A i \in Known : intel[i].is.id = i
    /\ \A i \in Ids : decisions[i] # None => candidates[i] # None

\* Whoever dies where, a recorded acceptance has its Instinct, and no other
\* acceptance has the same one.
PromotionIsStored ==
    \A i \in Promoted :
        /\ decisions[i].is.accepted \in Known
        /\ \A j \in Promoted : decisions[i].is.accepted = decisions[j].is.accepted => i = j

\* Supersession never buries knowledge: while no file is torn, listing finds
\* every predecessor and a task that fits everything there is is given
\* something, never lost in a cycle of successors.
HeirIsActive ==
    Readable /\ Known # {} => \A task \in Tasks :
        (\A i \in Known : task[i] # "excluded") => DOMAIN Retrieve(task) # {}

\* A reviewer who dies leaves what was known within reach of every task that
\* fits it (violated: its torn file stops all retrieval).
DeathLosesNothing ==
    (\A r \in Reviewers : job[r] = Idle) /\ Known # {} => \A task \in Tasks :
        (\A i \in Known : task[i] # "excluded") => DOMAIN Retrieve(task) # {}

\* A rejected candidate is not part of the knowledge (violated: an acceptance dies before its decision).
RejectedIsNotKnowledge ==
    \A i \in Ids : Decided(i) /\ decisions[i].is.accepted = 0 =>
        \A k \in Known : intel[k].is.of # i
=============================================================================
