------------------------------ MODULE Observation ------------------------------
(***************************************************************************)
(* Live observation of a Run: a foreground operation saves checkpoints and *)
(* reports its progress, numbered per operation, through a transport that  *)
(* may lose, repeat and reorder, into a bounded buffer; a client that      *)
(* connects takes a barrier, reads the saved state, shows it, and then     *)
(* consumes what the buffer holds beyond the barrier.                      *)
(***************************************************************************)
EXTENDS Naturals, FiniteSets, SequencesExt

CONSTANTS
    MaxStreams,      \* operations on the Run, each with a stream of its own
    MaxEvents,       \* events of one stream
    Capacity,        \* events the buffer keeps per stream
    MaxInTransit     \* events the transport holds at once

ASSUME ObservationBounds ==
    /\ MaxStreams \in Nat \ {0} /\ MaxEvents \in Nat
    /\ Capacity \in Nat \ {0} /\ MaxInTransit \in Nat \ {0}

VARIABLES
    disk,            \* the saved state: how often it was saved, and whether it awaits a human
    op,              \* the operation: its stream, where it is, what it does next, its attempt
    history,         \* per stream, what was published, by sequence number
    transit,         \* events under way
    buffer,          \* per stream, the events kept
    received,        \* per stream, the highest sequence number received
    client           \* the observing client

observationVars == <<disk, op, history, transit, buffer, received, client>>

Streams == 1..MaxStreams

Away == [at |-> "away", stream |-> 0, cursor |-> 0, version |-> 0, batch |-> <<>>]

ObservationInit ==
    /\ disk = [version |-> 0, paused |-> FALSE]
    /\ op = [stream |-> 0, at |-> "stopped", todo |-> <<>>, attempt |-> FALSE]
    /\ history = [s \in Streams |-> <<>>]
    /\ transit = {}
    /\ buffer = [s \in Streams |-> <<>>]
    /\ received = [s \in Streams |-> 0]
    /\ client = Away

-----------------------------------------------------------------------------
(* The operation: what a node saves and reports, in its order *)

Notify(kind) == [do |-> "report", kind |-> kind]
Save(paused) == [do |-> "save", paused |-> paused]
Checkpoint(paused) == <<Save(paused), Notify("checkpoint")>>

Settle(at, todo) == op' = [op EXCEPT !.at = at, !.todo = todo]
Free(at) == op.at = at /\ op.todo = <<>>

\* A decision is saved, or a new Run, before the graph reports anything.
StartOperation ==
    /\ op.at \in {"stopped", "broken"} /\ op.stream < MaxStreams
    /\ disk' = [version |-> disk.version + 1, paused |-> FALSE]
    /\ op' = [stream |-> op.stream + 1, at |-> "between", todo |-> <<>>, attempt |-> FALSE]
    /\ UNCHANGED <<history, transit, buffer, received, client>>

\* The attempt is saved as created and again as started; an unreviewed contract
\* is saved with the Driver's admission, and a refusal of it ends the operation.
EnterNode ==
    /\ Free("between")
    /\ LET Attempt == Checkpoint(FALSE) \o Checkpoint(FALSE) \o <<Notify("node_start")>> IN
         \/ Settle("role", Attempt)
         \/ Settle("role", Checkpoint(FALSE) \o Attempt)
         \/ Settle("refused", Checkpoint(FALSE))
    /\ UNCHANGED <<disk, history, transit, buffer, received, client>>

BudgetPause ==
    /\ Free("between")
    /\ Settle("final", Checkpoint(TRUE) \o <<Notify("interrupt")>>)
    /\ UNCHANGED <<disk, history, transit, buffer, received, client>>

Token ==
    /\ Free("role")
    /\ Settle("role", <<Notify("token")>>)
    /\ UNCHANGED <<disk, history, transit, buffer, received, client>>

Succeed ==
    /\ Free("role")
    /\ \/ Settle("between", Checkpoint(FALSE) \o <<Notify("node_end")>>)
       \/ Settle("final", Checkpoint(TRUE) \o <<Notify("interrupt"), Notify("node_end")>>)
    /\ UNCHANGED <<disk, history, transit, buffer, received, client>>

\* The pause is reported before it is saved.
Fail ==
    /\ Free("role")
    /\ Settle("final", <<Notify("node_error"), Notify("interrupt")>> \o Checkpoint(TRUE))
    /\ UNCHANGED <<disk, history, transit, buffer, received, client>>

\* A first contract violation is saved and reported, and the role called again.
Correct ==
    /\ Free("role")
    /\ Settle("between", Checkpoint(FALSE) \o <<Notify("role_contract_correction")>>)
    /\ UNCHANGED <<disk, history, transit, buffer, received, client>>

SaveState ==
    /\ op.todo # <<>> /\ Head(op.todo).do = "save"
    /\ disk' = [version |-> disk.version + 1, paused |-> Head(op.todo).paused]
    /\ op' = [op EXCEPT !.todo = Tail(@)]
    /\ UNCHANGED <<history, transit, buffer, received, client>>

\* What the publisher accepts: known kinds, and a node's events only inside an attempt.
Accepted(kind) ==
    \/ kind \in {"checkpoint", "node_start", "interrupt"}
    \/ kind \in {"node_end", "node_error", "token"} /\ op.attempt

\* Numbered, and handed to the transport.
Publish ==
    /\ op.todo # <<>> /\ Head(op.todo).do = "report"
    /\ LET kind == Head(op.todo).kind IN
         /\ Accepted(kind)
         /\ Len(history[op.stream]) < MaxEvents /\ Cardinality(transit) < MaxInTransit
         /\ op' = [op EXCEPT !.todo = Tail(@),
                             !.attempt = kind # "node_end" /\ (@ \/ kind = "node_start")]
         /\ history' = [history EXCEPT ![op.stream] =
                          Append(@, [kind |-> kind, version |-> disk.version])]
         /\ transit' = transit \cup {[stream |-> op.stream, sequence |-> Len(history'[op.stream])]}
    /\ UNCHANGED <<disk, buffer, received, client>>

\* The publisher raises into the graph, and the operation is over.
PublisherRaises ==
    /\ op.todo # <<>> /\ Head(op.todo).do = "report" /\ ~Accepted(Head(op.todo).kind)
    /\ Settle("broken", <<>>)
    /\ UNCHANGED <<disk, history, transit, buffer, received, client>>

\* The graph returned: its state is saved once more, and nobody is told.
Return ==
    /\ Free("final") \/ Free("between")
    /\ Settle("stopped", <<>>)
    /\ disk' = [disk EXCEPT !.version = @ + 1]
    /\ UNCHANGED <<history, transit, buffer, received, client>>

OperationCrashes ==
    /\ op.at \notin {"stopped", "broken"}
    /\ Settle("stopped", <<>>)
    /\ UNCHANGED <<disk, history, transit, buffer, received, client>>

-----------------------------------------------------------------------------
(* The transport and the buffer *)

\* A number that was passed is a repetition, or too late to matter.
Keeps(e) == e.sequence > received[e.stream]

\* An event arrives; the transport may still hold a copy of it.
Deliver ==
    /\ \E e \in transit :
         /\ transit' \in {transit, transit \ {e}}
         /\ IF Keeps(e)
            THEN /\ buffer' = [buffer EXCEPT ![e.stream] =
                      LET all == Append(@, e.sequence)
                      IN  IF Len(all) > Capacity THEN Tail(all) ELSE all]
                 /\ received' = [received EXCEPT ![e.stream] = e.sequence]
            ELSE UNCHANGED <<buffer, received>>
    /\ UNCHANGED <<disk, op, history, client>>

Lose ==
    /\ \E e \in transit : transit' = transit \ {e}
    /\ UNCHANGED <<disk, op, history, buffer, received, client>>

-----------------------------------------------------------------------------
(* The client *)

Barrier ==
    /\ client.at = "away"
    /\ \E s \in 1..op.stream :
         client' = [Away EXCEPT !.at = "barrier", !.stream = s, !.cursor = received[s]]
    /\ UNCHANGED <<disk, op, history, transit, buffer, received>>

Inspect ==
    /\ client.at = "barrier"
    /\ client' = [client EXCEPT !.at = "shown", !.version = disk.version]
    /\ UNCHANGED <<disk, op, history, transit, buffer, received>>

\* Mutant (ClientFollows): a fresh barrier is taken once the state is shown.
ConsumeFromNow ==
    /\ client.at = "shown"
    /\ client' = [client EXCEPT !.at = "live", !.cursor = received[client.stream]]
    /\ UNCHANGED <<disk, op, history, transit, buffer, received>>

\* The numbers of s beyond c, as s has them.
After(s, c) ==
    LET kept == {i \in DOMAIN s : s[i] > c}
        Place(i) == Cardinality({j \in kept : j <= i})
    IN  [k \in 1..Cardinality(kept) |-> s[CHOOSE i \in kept : Place(i) = k]]

Consume ==
    /\ client.at = "shown"
    /\ client' = [client EXCEPT !.at = "live",
                     !.batch = After(buffer[client.stream], client.cursor)]
    /\ UNCHANGED <<disk, op, history, transit, buffer, received>>

Leave ==
    /\ client.at # "away"
    /\ client' = Away
    /\ UNCHANGED <<disk, op, history, transit, buffer, received>>

ObservationNext ==
    \/ StartOperation \/ EnterNode \/ BudgetPause \/ Token \/ Succeed \/ Fail \/ Correct
    \/ SaveState \/ Publish \/ PublisherRaises \/ Return \/ OperationCrashes
    \/ Deliver \/ Lose
    \/ Barrier \/ Inspect \/ Consume \/ Leave

ObservationSpec == ObservationInit /\ [][ObservationNext]_observationVars

-----------------------------------------------------------------------------
(* Properties *)

\* A connected client misses no saved state: what it is shown is at least as
\* new as every checkpoint its barrier hides, whatever the transport did and
\* the operation saved meanwhile.
NothingHidden ==
    client.at \in {"shown", "live"} =>
        \A n \in DOMAIN history[client.stream] :
            n <= client.cursor /\ history[client.stream][n].kind = "checkpoint" =>
                history[client.stream][n].version <= client.version

\* What it consumes lies beyond its barrier, in order and once, though events
\* are repeated and overtake each other.
InOrder ==
    /\ \A i \in DOMAIN client.batch : client.batch[i] > client.cursor
    /\ \A i, j \in DOMAIN client.batch : i < j => client.batch[i] < client.batch[j]

\* A client that reconnects and replays follows the Run: nothing saved is hidden
\* from it, and what it consumes is new and in order.
ClientFollows == NothingHidden /\ InOrder

\* Observing a Run never ends it (violated: a role's correction is a kind of
\* event the publisher refuses).
ObserverIsHarmless == op.at # "broken"

\* Whoever is told of a pause finds it saved (violated: a failed role's pause).
PauseIsSaved ==
    op.stream # 0 /\ history[op.stream] # <<>> /\ op.at # "stopped"
      /\ Last(history[op.stream]).kind = "interrupt" => disk.paused
=============================================================================
