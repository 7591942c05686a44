---------------------------- MODULE EffectLedger ----------------------------
(***************************************************************************)
(* Deliveries of one Run to external systems                               *)
(* (battalion/integrations/effects.py, SideEffectCoordinator).  A logical  *)
(* operation is named by its dedupe key: an event and its destination.     *)
(* Its record, with the operation identifier minted for it, lives in the   *)
(* Run's state: disk is the saved state, mem the one the coordinator of    *)
(* the present session edits in place.  A session is one coordinator: it   *)
(* loads the state, executes and reconciles any operations, and is gone    *)
(* with its process.  Where it is:                                         *)
(*   idle      no process has the ledger                                   *)
(*   ready     between two calls of the coordinator                        *)
(*   intent    a new operation is recorded; about to save it               *)
(*   gate      about to decide whether to deliver                          *)
(*   sending   the request is out                                          *)
(*   answered  the provider's answer is known, to this process only        *)
(*   unsaved   an outcome is recorded; about to save it                    *)
(*                                                                         *)
(* An exception that is no provider outcome, raised while delivering, ends *)
(* the session, as it does in the application.  Saving is the caller's own *)
(* callback: when it raises the caller may end or go on.  A provider acts  *)
(* before its answer is judged, or never.                                  *)
(***************************************************************************)
EXTENDS Naturals, Sequences

CONSTANTS
    Keys,               \* dedupe keys the Run's events give rise to
    HonestRejections,   \* a provider that rejects a request has not acted on it
    AttemptLimit,       \* attempts an operation may have when it is loaded
    MaxSends,           \* bound: deliveries of one operation
    MaxCrashes, MaxSaveFailures, MaxSurprises   \* bounds: faults of each kind

ASSUME LedgerConfig ==
    /\ HonestRejections \in BOOLEAN /\ AttemptLimit \in Nat /\ MaxSends \in Nat
    /\ MaxCrashes \in Nat /\ MaxSaveFailures \in Nat /\ MaxSurprises \in Nat

Outcomes == {"succeeded", "failed", "ambiguous"}
Statuses == {"absent", "pending"} \cup Outcomes
Answers  == {"accepted", "rejected", "lost"}   \* lost: timeout, cancellation, transport

\* What validate_operation_state demands when the state is read back.
Evident(op) ==
    /\ op.status \in {"absent", "pending"} => op.attempts = <<>> /\ ~op.reconciled
    /\ op.status \in Outcomes /\ ~op.reconciled =>
          op.attempts # <<>> /\ op.attempts[Len(op.attempts)] = op.status

\* id 0: Battalion has minted no identifier for the key.
Operation == {op \in [id : Nat, status : Statuses, attempts : Seq(Outcomes),
                      reconciled : BOOLEAN] :
                 (op.id = 0 <=> op.status = "absent") /\ Evident(op)}
Absent    == [id |-> 0, status |-> "absent", attempts |-> <<>>, reconciled |-> FALSE]
Minted(i) == [id |-> i, status |-> "pending", attempts |-> <<>>, reconciled |-> FALSE]

VARIABLES
    disk, mem,   \* the ledger saved and in memory: [Keys -> Operation]
    opened,      \* identifiers this session minted
    pc, key,     \* the session's position and the operation it executes
    answer,      \* what it was told
    minted,      \* identifiers minted so far
    sent,        \* identifiers under which each operation was sent
    sends,       \* number of times it was
    effects,     \* number of times the provider acted on it
    faults       \* [crash, save, surprise]: bounded counters

vars == <<disk, mem, opened, pc, key, answer, minted, sent, sends, effects, faults>>
world == <<sent, sends, effects>>

Readable(ledger) == \A k \in Keys : Len(ledger[k].attempts) <= AttemptLimit

Init ==
    /\ disk = [k \in Keys |-> Absent] /\ mem = disk
    /\ opened = {} /\ minted = 0
    /\ pc = "idle" /\ key \in Keys /\ answer = "lost"
    /\ sent = [k \in Keys |-> {}] /\ sends = [k \in Keys |-> 0]
    /\ effects = [k \in Keys |-> 0]
    /\ faults = [crash |-> 0, save |-> 0, surprise |-> 0]

-----------------------------------------------------------------------------
(* Sessions *)

Fault(kind, bound) ==
    /\ faults[kind] < bound
    /\ faults' = [faults EXCEPT ![kind] = @ + 1]

\* What the process held is lost; the saved state is not.
SessionEnds == pc' = "idle" /\ mem' = disk /\ opened' = {}

\* A state file that fails validation starts no session.
Begin ==
    /\ pc = "idle" /\ Readable(disk)
    /\ pc' = "ready"
    /\ UNCHANGED <<disk, mem, opened, key, answer, minted, world, faults>>

End ==
    /\ pc = "ready" /\ SessionEnds
    /\ UNCHANGED <<disk, key, answer, minted, world, faults>>

Crash ==
    /\ pc # "idle" /\ Fault("crash", MaxCrashes) /\ SessionEnds
    /\ UNCHANGED <<disk, key, answer, minted, world>>

-----------------------------------------------------------------------------
(* execute *)

\* The operation of this key, opened now unless an earlier call opened it.
Execute(k) ==
    /\ pc = "ready" /\ sends[k] < MaxSends
    /\ key' = k
    /\ IF mem[k].status = "absent"
       THEN /\ mem' = [mem EXCEPT ![k] = Minted(minted + 1)]
            /\ opened' = opened \cup {minted + 1}
            /\ minted' = minted + 1
            /\ pc' = "intent"
       ELSE pc' = "gate" /\ UNCHANGED <<mem, opened, minted>>
    /\ UNCHANGED <<disk, answer, world, faults>>

\* Mutant (StableIdentity): delivery goes ahead of the save of the intent.
SendAhead ==
    /\ pc = "intent" /\ pc' = "gate"
    /\ UNCHANGED <<disk, mem, opened, key, answer, minted, world, faults>>

SaveIntent ==
    /\ pc = "intent"
    /\ disk' = mem /\ pc' = "gate"
    /\ UNCHANGED <<mem, opened, key, answer, minted, world, faults>>

\* Mutant (NoEffectWithoutIntent): the record of an unsaved intent is kept.
SaveIntentFailsSilently ==
    /\ pc = "intent" /\ Fault("save", MaxSaveFailures)
    /\ pc' = "ready"
    /\ UNCHANGED <<disk, mem, opened, key, answer, minted, world>>

\* The intent is withdrawn: nothing was sent, and the next call opens it anew.
SaveIntentFails ==
    /\ pc = "intent" /\ Fault("save", MaxSaveFailures)
    /\ \/ SessionEnds
       \/ /\ pc' = "ready"
          /\ mem' = [mem EXCEPT ![key] = Absent]
          /\ opened' = opened \ {mem[key].id}
    /\ UNCHANGED <<disk, key, answer, minted, world>>

\* Mutant (AtMostOnceUnlessRetried): an inherited intent is taken for one's own.
AdmissibleIfPending(op) == op.status \in {"failed", "pending"}

\* Mutant (SuccessIsFinal): an operation known to the ledger is delivered again.
AdmissibleAlways(op) == op.status # "ambiguous"

\* Delivery may go on for a confirmed failure and for an intent of this session.
Admissible(op) == op.status = "failed" \/ (op.status = "pending" /\ op.id \in opened)

Admit ==
    /\ pc = "gate" /\ Admissible(mem[key])
    /\ pc' = "sending"
    /\ sent' = [sent EXCEPT ![key] = @ \cup {mem[key].id}]
    /\ sends' = [sends EXCEPT ![key] = @ + 1]
    /\ UNCHANGED <<disk, mem, opened, key, answer, minted, effects, faults>>

\* A delivered operation is skipped; an unresolved one raises ReconciliationRequired.
SkipOrHold ==
    /\ pc = "gate" /\ ~Admissible(mem[key])
    /\ pc' = "ready"
    /\ UNCHANGED <<disk, mem, opened, key, answer, minted, world, faults>>

\* What the provider may do and say.
Conduct == {c \in [acts : BOOLEAN, says : Answers] :
               /\ c.says = "accepted" => c.acts
               /\ c.says = "rejected" /\ HonestRejections => ~c.acts}

Act(c) == effects' = [effects EXCEPT ![key] = @ + (IF c.acts THEN 1 ELSE 0)]

Deliver ==
    /\ pc = "sending"
    /\ \E c \in Conduct : Act(c) /\ answer' = c.says
    /\ pc' = "answered"
    /\ UNCHANGED <<disk, mem, opened, key, minted, sent, sends, faults>>

\* An exception no adapter types: nothing is recorded of the attempt.
Surprise ==
    /\ pc = "sending" /\ Fault("surprise", MaxSurprises)
    /\ \E c \in Conduct : Act(c)
    /\ SessionEnds
    /\ UNCHANGED <<disk, key, answer, minted, sent, sends>>

Classify(a) == CASE a = "accepted" -> "succeeded"
                 [] a = "rejected" -> "failed"
                 [] a = "lost"     -> "ambiguous"

Attempted(op, outcome) ==
    [op EXCEPT !.status = outcome, !.attempts = Append(op.attempts, outcome)]

RecordOutcome ==
    /\ pc = "answered"
    /\ mem' = [mem EXCEPT ![key] = Attempted(@, Classify(answer))]
    /\ pc' = "unsaved"
    /\ UNCHANGED <<disk, opened, key, answer, minted, world, faults>>

SaveOutcome ==
    /\ pc = "unsaved"
    /\ disk' = mem /\ pc' = "ready"
    /\ UNCHANGED <<mem, opened, key, answer, minted, world, faults>>

SaveOutcomeFails ==
    /\ pc = "unsaved" /\ Fault("save", MaxSaveFailures)
    /\ \/ SessionEnds
       \/ pc' = "ready" /\ UNCHANGED <<mem, opened>>
    /\ UNCHANGED <<disk, key, answer, minted, world>>

-----------------------------------------------------------------------------
(* reconcile: a resolved operation is refused; the evidence tells the truth *)

\* Mutant (TypeOK): the decision leaves no evidence of its own.
DecidedUnsigned(op, outcome) == [op EXCEPT !.status = outcome]

Decided(op, outcome) == [op EXCEPT !.status = outcome, !.reconciled = TRUE]

Evidence(k) == IF effects[k] > 0 THEN "succeeded" ELSE "failed"

Reconcile(k) ==
    /\ pc = "ready" /\ mem[k].status \in {"pending", "ambiguous"}
    /\ mem' = [mem EXCEPT ![k] = Decided(@, Evidence(k))]
    /\ pc' = "unsaved"
    /\ UNCHANGED <<disk, opened, key, answer, minted, world, faults>>

Coordinator ==
    \/ \E k \in Keys : Execute(k) \/ Reconcile(k)
    \/ SaveIntent \/ Admit \/ SkipOrHold \/ Deliver \/ RecordOutcome \/ SaveOutcome

Next == Begin \/ End \/ Coordinator \/ SaveIntentFails \/ SaveOutcomeFails \/ Surprise \/ Crash

Spec == Init /\ [][Next]_vars

-----------------------------------------------------------------------------
(* Properties *)

\* Both ledgers pass the state's own validation whenever they can be saved or
\* read: every status has its evidence, through failures, retries and decisions.
TypeOK ==
    /\ disk \in [Keys -> Operation] /\ mem \in [Keys -> Operation]
    /\ minted \in Nat /\ opened \subseteq 1 .. minted
    /\ pc \in {"idle", "ready", "intent", "gate", "sending", "answered", "unsaved"}
    /\ key \in Keys /\ answer \in Answers
    /\ sent \in [Keys -> SUBSET Nat] /\ sends \in [Keys -> Nat] /\ effects \in [Keys -> Nat]
    /\ faults \in [{"crash", "save", "surprise"} -> Nat]

\* However often an operation is sent, over crashes, withdrawn intents and
\* sessions, the provider sees one identifier, the one on record: it can
\* deduplicate by it, as effects.py's module promises (operation_id is stable).
StableIdentity == \A k \in Keys : sent[k] \subseteq {disk[k].id}

\* The provider never acts on an operation the saved state knows nothing of.
NoEffectWithoutIntent == \A k \in Keys : effects[k] > 0 => disk[k].status # "absent"

FailureOnRecord(op) ==
    op.reconciled \/ \E n \in DOMAIN op.attempts : op.attempts[n] = "failed"

\* A provider acts twice on an operation only if a failed attempt or a decision
\* is saved with it: a first delivery is never repeated on a guess, whatever
\* crash, lost answer or failing save came in between.
AtMostOnceUnlessRetried ==
    \A k \in Keys : effects[k] > 1 => FailureOnRecord(disk[k])

\* execute's promise: "Deliver one logical operation at most once, durably."
AtMostOnce == \A k \in Keys : effects[k] <= 1

\* A saved failure means what ADR-0029 says of it: "confirmed no external effect".
\* Unless a session was cut off (see AtMostOnce), a retry that is not yet on record
\* is the only exception.
FailedMeansNoEffect ==
    \A k \in Keys :
        /\ disk[k].status = "failed" /\ \A f \in DOMAIN faults : faults[f] = 0
        /\ pc \in {"idle", "ready"} \/ key # k
        => effects[k] = 0

\* Once saved as delivered, an operation stays delivered and is never acted on again.
SuccessIsFinal ==
    [][\A k \in Keys : disk[k].status = "succeeded" =>
          disk'[k].status = "succeeded" /\ effects'[k] = effects[k]]_vars

\* ADR-0029 bounds an operation at 100 attempts: the saved state keeps the bound,
\* without which it can never be loaded again.
LedgerStaysReadable == Readable(disk)
=============================================================================
