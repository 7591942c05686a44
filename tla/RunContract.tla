---------------------------- MODULE RunContract -----------------------------
(***************************************************************************)
(* What a Run promises the human who supervises it, whatever crashes and   *)
(* resumes happen underneath: attempts run one at a time along the edges   *)
(* of the role graph, each is started at most once, an attempt whose       *)
(* outcome was lost ends the Run, and nothing is attempted while a human   *)
(* decision is owed.  Stated over the saved state only.                    *)
(***************************************************************************)
EXTENDS Naturals, Sequences

CONSTANTS
    Role,      \* the roles an attempt may be made by
    Outcome,   \* how an attempt may settle
    First,     \* the role of the first attempt
    Follow,    \* [Role -> [Outcome -> SUBSET Role]]: who may come next
    Owing      \* the outcomes after which a decision is always owed

VARIABLES
    settled,   \* the attempts that have an outcome, in order
    current,   \* the attempt in flight: "created", "started" or "unknown"
    owed       \* a human decision is owed before the next attempt

vars == <<settled, current, owed>>

Nobody == [node |-> "nobody", state |-> "none"]

Init == settled = <<>> /\ current = Nobody /\ owed = FALSE

Eligible == IF settled = <<>> THEN {First}
            ELSE LET last == settled[Len(settled)] IN Follow[last.node][last.result]

Create(n) ==
    /\ current = Nobody /\ ~owed /\ n \in Eligible
    /\ current' = [node |-> n, state |-> "created"]
    /\ UNCHANGED <<settled, owed>>

Start ==
    /\ current.state = "created"
    /\ current' = [current EXCEPT !.state = "started"]
    /\ UNCHANGED <<settled, owed>>

Settle(r) ==
    /\ current.state = "started"
    /\ settled' = Append(settled, [node |-> current.node, result |-> r])
    /\ current' = Nobody
    /\ owed' \in {TRUE} \cup (IF r \in Owing THEN {} ELSE {FALSE})

\* The process dies with the attempt: its outcome stays unknown forever.
Lose ==
    /\ current.state = "started"
    /\ current' = [current EXCEPT !.state = "unknown"]
    /\ UNCHANGED <<settled, owed>>

\* The Run stops for a human between two attempts.
Hold ==
    /\ current = Nobody /\ ~owed
    /\ owed' = TRUE
    /\ UNCHANGED <<settled, current>>

Decide ==
    /\ owed /\ owed' = FALSE
    /\ UNCHANGED <<settled, current>>

Next == \/ \E n \in Role : Create(n)
        \/ \E r \in Outcome : Settle(r)
        \/ Start \/ Lose \/ Hold \/ Decide

Spec == Init /\ [][Next]_vars
=============================================================================
