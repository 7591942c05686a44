------------------------- MODULE EffectLedger_proofs -------------------------
(***************************************************************************)
(* Proofs about EffectLedger, for any set of keys and any number of sends  *)
(* and faults.                                                             *)
(***************************************************************************)
EXTENDS EffectLedger, TLAPS

-----------------------------------------------------------------------------
(* How an action changes one operation of the ledger in memory *)

\* Recording an outcome leaves a well-formed operation with the same identifier.
LEMMA AttemptedOperation ==
    ASSUME NEW op \in Operation, op.id # 0, NEW c \in Outcomes
    PROVE  /\ Attempted(op, c) \in Operation
           /\ Attempted(op, c).id = op.id
           /\ Attempted(op, c).status = c
           /\ Attempted(op, c).reconciled = op.reconciled
           /\ Attempted(op, c).attempts = Append(op.attempts, c)
<1> DEFINE new == Attempted(op, c)
           attempts == Append(op.attempts, c)
<1>1. op \in [id : Nat, status : Statuses, attempts : Seq(Outcomes), reconciled : BOOLEAN]
  BY DEF Operation
<1>2. /\ attempts \in Seq(Outcomes)
      /\ attempts # <<>>
      /\ attempts[Len(attempts)] = c
  BY <1>1
<1>3. c \in Statuses /\ c \notin {"absent", "pending"}
  BY DEF Statuses, Outcomes
<1>4. new = [op EXCEPT !.status = c, !.attempts = attempts]
  BY DEF Attempted
<1> HIDE DEF new, attempts
<1>5. /\ new \in [id : Nat, status : Statuses, attempts : Seq(Outcomes), reconciled : BOOLEAN]
      /\ new.id = op.id /\ new.status = c /\ new.reconciled = op.reconciled
      /\ new.attempts = attempts
  BY <1>1, <1>2, <1>3, <1>4
<1>6. new \in Operation
  BY <1>2, <1>3, <1>5 DEF Operation, Evident
<1> QED
  BY <1>5, <1>6 DEF new, attempts

\* So does a decision.
LEMMA DecidedOperation ==
    ASSUME NEW op \in Operation, op.id # 0, NEW c \in {"succeeded", "failed"}
    PROVE  /\ Decided(op, c) \in Operation
           /\ Decided(op, c).id = op.id
           /\ Decided(op, c).status = c
           /\ Decided(op, c).reconciled
           /\ Decided(op, c).attempts = op.attempts
<1> DEFINE new == Decided(op, c)
<1>1. op \in [id : Nat, status : Statuses, attempts : Seq(Outcomes), reconciled : BOOLEAN]
  BY DEF Operation
<1>2. c \in Statuses /\ c \notin {"absent", "pending"}
  BY DEF Statuses, Outcomes
<1>3. new = [op EXCEPT !.status = c, !.reconciled = TRUE]
  BY DEF Decided
<1> HIDE DEF new
<1>4. /\ new \in [id : Nat, status : Statuses, attempts : Seq(Outcomes), reconciled : BOOLEAN]
      /\ new.id = op.id /\ new.status = c /\ new.reconciled
      /\ new.attempts = op.attempts
  BY <1>1, <1>2, <1>3
<1>5. new \in Operation
  BY <1>2, <1>4 DEF Operation, Evident
<1> QED
  BY <1>4, <1>5 DEF new

\* An operation without a record, and one just opened, are well formed.
LEMMA Fresh ==
    /\ Absent \in Operation /\ Absent.id = 0 /\ Absent.status = "absent"
    /\ \A i \in Nat \ {0} : /\ Minted(i) \in Operation
                            /\ Minted(i).id = i /\ Minted(i).status = "pending"
BY DEF Absent, Minted, Operation, Evident, Statuses, Outcomes

\* An operation that failed says so in its record.
LEMMA FailedIsOnRecord ==
    ASSUME NEW op \in Operation, op.status = "failed"
    PROVE  FailureOnRecord(op)
<1>1. CASE op.reconciled
  BY <1>1 DEF FailureOnRecord
<1>2. CASE ~op.reconciled
  <2>1. /\ op.attempts \in Seq(Outcomes) /\ op.attempts # <<>>
        /\ op.attempts[Len(op.attempts)] = "failed"
    BY <1>2 DEF Operation, Evident, Outcomes
  <2>2. Len(op.attempts) \in DOMAIN op.attempts
    BY <2>1
  <2> QED BY <2>1, <2>2 DEF FailureOnRecord
<1> QED BY <1>1, <1>2 DEF Operation

-----------------------------------------------------------------------------
(* Types *)

\* Types and the evidence of each status hold of both ledgers in every state;
\* an operation that is being executed has an identifier.
Engaged == pc \in {"intent", "gate", "sending", "answered"} => mem[key].id # 0
TypeInv == TypeOK /\ Engaged

\* The program starts with two well-formed, empty ledgers.
LEMMA TypeInit == Init => TypeInv
<1> SUFFICES ASSUME Init PROVE TypeInv OBVIOUS
<1>1. Absent \in Operation BY Fresh
<1> QED BY <1>1 DEF Init, TypeInv, TypeOK, Engaged, Answers

\* What Classify returns is an outcome.
LEMMA Classified == \A a \in Answers : Classify(a) \in Outcomes
BY DEF Answers, Classify, Outcomes

\* Every step of the coordinator keeps both ledgers well formed.
LEMMA TypeNext == TypeInv /\ [Next]_vars => TypeInv'
<1> SUFFICES ASSUME TypeInv, [Next]_vars PROVE TypeInv' OBVIOUS
<1> USE DEF TypeInv, TypeOK, Engaged
<1>1. CASE Begin BY <1>1 DEF Begin, world
<1>2. CASE End BY <1>2 DEF End, SessionEnds, world
<1>3. CASE Crash
  BY <1>3 DEF Crash, Fault, SessionEnds, world
<1>4. ASSUME NEW k \in Keys, Execute(k) PROVE TypeInv'
  <2>1. CASE mem[k].status = "absent"
    <3>1. /\ mem' = [mem EXCEPT ![k] = Minted(minted + 1)]
          /\ opened' = opened \cup {minted + 1} /\ minted' = minted + 1 /\ pc' = "intent"
          /\ key' = k /\ UNCHANGED <<disk, answer, sent, sends, effects, faults>>
      BY <1>4, <2>1 DEF Execute, world
    <3>2. minted + 1 \in Nat \ {0} OBVIOUS
    <3>3. Minted(minted + 1) \in Operation BY <3>2, Fresh
    <3>4. opened' \subseteq 1 .. minted' BY <3>1, <3>2
    <3>5. mem' \in [Keys -> Operation] BY <3>1, <3>3
    <3>6. mem'[key'].id # 0 BY <3>1, <3>2, Fresh
    <3> QED BY <3>1, <3>2, <3>4, <3>5, <3>6
  <2>2. CASE mem[k].status # "absent"
    <3>1. mem[k].id # 0 BY <2>2 DEF Operation
    <3> QED BY <1>4, <2>2, <3>1 DEF Execute, world
  <2> QED BY <2>1, <2>2
<1>5. ASSUME NEW k \in Keys, Reconcile(k) PROVE TypeInv'
  <2> DEFINE c == Evidence(k)
             new == Decided(mem[k], c)
  <2>1. mem[k].id # 0 BY <1>5 DEF Reconcile, Operation
  <2>2. c \in {"succeeded", "failed"} BY DEF Evidence
  <2>3. mem[k] \in Operation OBVIOUS
  <2>5. new \in Operation
    <3> HIDE DEF c
    <3> QED BY <2>1, <2>2, <2>3, DecidedOperation
  <2>4. mem' = [mem EXCEPT ![k] = new] BY <1>5 DEF Reconcile
  <2> QED BY <1>5, <2>5, <2>4 DEF Reconcile, world
<1>6. CASE SaveIntent BY <1>6 DEF SaveIntent, world
<1>7. CASE SaveIntentFails
  <2>1. Absent \in Operation BY Fresh
  <2>2. faults' \in [{"crash", "save", "surprise"} -> Nat]
    BY <1>7 DEF SaveIntentFails, Fault
  <2>3. CASE SessionEnds
    BY <1>7, <2>2, <2>3 DEF SaveIntentFails, SessionEnds, world
  <2>4. CASE pc' = "ready" /\ mem' = [mem EXCEPT ![key] = Absent] /\ opened' \subseteq opened
    BY <1>7, <2>1, <2>2, <2>4 DEF SaveIntentFails, world
  <2> QED BY <1>7, <2>3, <2>4 DEF SaveIntentFails
<1>8. CASE Admit BY <1>8 DEF Admit, Operation
<1>9. CASE SkipOrHold BY <1>9 DEF SkipOrHold, world
<1>10. CASE Deliver
  BY <1>10 DEF Deliver, Act, Conduct, Answers
<1>11. CASE Surprise
  BY <1>11 DEF Surprise, Act, Conduct, Fault, SessionEnds
<1>12. CASE RecordOutcome
  <2> DEFINE c == Classify(answer)
             new == Attempted(mem[key], c)
  <2>1. c \in Outcomes BY Classified
  <2>2. mem[key].id # 0 BY <1>12 DEF RecordOutcome
  <2>3. new \in Operation
    <3>1. mem[key] \in Operation OBVIOUS
    <3> HIDE DEF c
    <3> QED BY <2>1, <2>2, <3>1, AttemptedOperation
  <2>4. mem' = [mem EXCEPT ![key] = new] BY <1>12 DEF RecordOutcome
  <2> QED BY <1>12, <2>3, <2>4 DEF RecordOutcome, world
<1>13. CASE SaveOutcome BY <1>13 DEF SaveOutcome, world
<1>14. CASE SaveOutcomeFails
  <2>1. faults' \in [{"crash", "save", "surprise"} -> Nat]
    BY <1>14 DEF SaveOutcomeFails, Fault
  <2>2. CASE SessionEnds
    BY <1>14, <2>1, <2>2 DEF SaveOutcomeFails, SessionEnds, world
  <2>3. CASE pc' = "ready" /\ UNCHANGED <<mem, opened>>
    BY <1>14, <2>1, <2>3 DEF SaveOutcomeFails, world
  <2> QED BY <1>14, <2>2, <2>3 DEF SaveOutcomeFails
<1>15. CASE UNCHANGED vars BY <1>15 DEF vars
<1> QED
  BY <1>1, <1>2, <1>3, <1>4, <1>5, <1>6, <1>7, <1>8, <1>9, <1>10, <1>11, <1>12, <1>13,
     <1>14, <1>15 DEF Next, Coordinator

\* TypeOK holds in every state: no failure, retry or decision leaves a ledger
\* that the state's own validation would refuse (validate_operation_state).
THEOREM TypeCorrect == Spec => []TypeOK
<1>1. TypeInv => TypeOK BY DEF TypeInv
<1> QED BY <1>1, TypeInit, TypeNext, PTL DEF Spec

-----------------------------------------------------------------------------
(* Identity: what was sent is what is on record *)

\* The two ledgers give every key the same identifier, but for the intent that
\* is about to be saved; only saved identifiers were sent.
IdInv ==
    /\ \A k \in Keys : /\ sent[k] \subseteq {disk[k].id}
                       /\ disk[k].id = 0 => sent[k] = {}
                       /\ effects[k] > 0 => disk[k].id # 0
                       /\ pc # "intent" \/ k # key => mem[k].id = disk[k].id
    /\ pc = "intent" => disk[key].id = 0

\* At the start nothing has an identifier and nothing was sent.
LEMMA IdInit == Init => IdInv
BY Fresh DEF Init, IdInv

\* Every step keeps the identifiers of the two ledgers and of the sends in agreement.
LEMMA IdNext == TypeInv /\ IdInv /\ [Next]_vars => IdInv'
<1> SUFFICES ASSUME TypeInv, IdInv, [Next]_vars PROVE IdInv' OBVIOUS
<1> USE DEF TypeInv, TypeOK, Engaged, IdInv
<1>1. CASE Begin BY <1>1 DEF Begin, world
<1>2. CASE End BY <1>2 DEF End, SessionEnds, world
<1>3. CASE Crash BY <1>3 DEF Crash, SessionEnds, world
<1>4. ASSUME NEW k \in Keys, Execute(k) PROVE IdInv'
  <2>1. CASE mem[k].status = "absent"
    <3>1. /\ mem' = [mem EXCEPT ![k] = Minted(minted + 1)]
          /\ pc = "ready" /\ pc' = "intent" /\ key' = k
          /\ UNCHANGED <<disk, sent, effects>>
      BY <1>4, <2>1 DEF Execute, world
    <3>2. mem[k].id = 0 BY <2>1 DEF Operation
    <3> QED BY <3>1, <3>2
  <2>2. CASE mem[k].status # "absent" BY <1>4, <2>2 DEF Execute, world
  <2> QED BY <2>1, <2>2
<1>5. ASSUME NEW k \in Keys, Reconcile(k) PROVE IdInv'
  <2>1. /\ mem' = [mem EXCEPT ![k] = Decided(mem[k], Evidence(k))]
        /\ pc = "ready" /\ pc' = "unsaved" /\ UNCHANGED <<disk, sent, effects, key>>
    BY <1>5 DEF Reconcile, world
  <2>2. Decided(mem[k], Evidence(k)).id = mem[k].id
    <3>1. mem[k] \in Operation /\ mem[k].id # 0 BY <1>5 DEF Reconcile, Operation
    <3>2. Evidence(k) \in {"succeeded", "failed"} BY DEF Evidence
    <3> QED BY <3>1, <3>2, DecidedOperation
  <2> QED BY <2>1, <2>2
<1>6. CASE SaveIntent BY <1>6 DEF SaveIntent, world
<1>7. CASE SaveIntentFails
  <2>1. CASE SessionEnds BY <1>7, <2>1 DEF SaveIntentFails, SessionEnds, world
  <2>2. CASE pc' = "ready" /\ mem' = [mem EXCEPT ![key] = Absent]
    BY <1>7, <2>2, Fresh DEF SaveIntentFails, world
  <2> QED BY <1>7, <2>1, <2>2 DEF SaveIntentFails
<1>8. CASE Admit
  <2>1. mem[key].id = disk[key].id /\ disk[key].id # 0 BY <1>8 DEF Admit
  <2> QED BY <1>8, <2>1 DEF Admit
<1>9. CASE SkipOrHold BY <1>9 DEF SkipOrHold, world
<1>10. CASE Deliver
  <2>1. disk[key].id # 0 BY <1>10 DEF Deliver
  <2> QED BY <1>10, <2>1 DEF Deliver, Act
<1>11. CASE Surprise
  <2>1. disk[key].id # 0 BY <1>11 DEF Surprise
  <2> QED BY <1>11, <2>1 DEF Surprise, Act, SessionEnds
<1>12. CASE RecordOutcome
  <2>1. /\ mem' = [mem EXCEPT ![key] = Attempted(mem[key], Classify(answer))]
        /\ pc = "answered" /\ pc' = "unsaved" /\ UNCHANGED <<disk, sent, effects, key>>
    BY <1>12 DEF RecordOutcome, world
  <2>2. Attempted(mem[key], Classify(answer)).id = mem[key].id
    BY <2>1, Classified, AttemptedOperation
  <2> QED BY <2>1, <2>2
<1>13. CASE SaveOutcome BY <1>13 DEF SaveOutcome, world
<1>14. CASE SaveOutcomeFails
  <2>1. CASE SessionEnds BY <1>14, <2>1 DEF SaveOutcomeFails, SessionEnds, world
  <2>2. CASE pc' = "ready" /\ UNCHANGED mem
    BY <1>14, <2>2 DEF SaveOutcomeFails, world
  <2> QED BY <1>14, <2>1, <2>2 DEF SaveOutcomeFails
<1>15. CASE UNCHANGED vars BY <1>15 DEF vars
<1> QED
  BY <1>1, <1>2, <1>3, <1>4, <1>5, <1>6, <1>7, <1>8, <1>9, <1>10, <1>11, <1>12, <1>13,
     <1>14, <1>15 DEF Next, Coordinator

\* StableIdentity holds in every state: all deliveries of an operation carry the
\* identifier that is saved with it.
THEOREM IdentityIsStable == Spec => []StableIdentity
<1>1. IdInv => StableIdentity BY DEF IdInv, StableIdentity
<1> QED BY <1>1, TypeInit, TypeNext, IdInit, IdNext, PTL DEF Spec

\* NoEffectWithoutIntent holds in every state: the intent is saved before the
\* provider can act, and an intent that could not be saved is withdrawn.
THEOREM IntentComesFirst == Spec => []NoEffectWithoutIntent
<1>1. TypeInv /\ IdInv => NoEffectWithoutIntent
  BY DEF TypeInv, TypeOK, IdInv, NoEffectWithoutIntent, Operation
<1> QED BY <1>1, TypeInit, TypeNext, IdInit, IdNext, PTL DEF Spec

-----------------------------------------------------------------------------
(* Success is final *)

\* What is saved as delivered is delivered in memory too, and is not being sent.
DoneInv ==
    /\ \A k \in Keys : disk[k].status = "succeeded" => mem[k].status = "succeeded"
    /\ pc \in {"intent", "sending", "answered"} => mem[key].status \in {"pending", "failed"}

\* Deciding an unresolved operation and recording an attempt, as facts about mem.
LEMMA AfterReconcile ==
    ASSUME TypeInv, NEW k \in Keys, Reconcile(k)
    PROVE  /\ mem' = [mem EXCEPT ![k] = Decided(mem[k], Evidence(k))]
           /\ Decided(mem[k], Evidence(k)).status = Evidence(k)
           /\ Decided(mem[k], Evidence(k)).reconciled
<1>1. mem[k] \in Operation /\ mem[k].id # 0
  BY DEF Reconcile, Operation, TypeInv, TypeOK
<1>2. Evidence(k) \in {"succeeded", "failed"} BY DEF Evidence
<1> QED BY <1>1, <1>2, DecidedOperation DEF Reconcile

\* The same for the outcome of an attempt.
LEMMA AfterRecordOutcome ==
    ASSUME TypeInv, RecordOutcome
    PROVE  /\ mem' = [mem EXCEPT ![key] = Attempted(mem[key], Classify(answer))]
           /\ Attempted(mem[key], Classify(answer)).status = Classify(answer)
           /\ Attempted(mem[key], Classify(answer)).reconciled = mem[key].reconciled
           /\ Attempted(mem[key], Classify(answer)).attempts
                = Append(mem[key].attempts, Classify(answer))
           /\ mem[key].attempts \in Seq(Outcomes)
<1>1. mem[key] \in Operation /\ mem[key].id # 0 /\ Classify(answer) \in Outcomes
  BY Classified DEF RecordOutcome, TypeInv, TypeOK, Engaged
<1>2. mem[key].attempts \in Seq(Outcomes) BY <1>1 DEF Operation
<1> QED BY <1>1, <1>2, AttemptedOperation DEF RecordOutcome

\* At the start nothing is delivered.
LEMMA DoneInit == Init => DoneInv
BY DEF Init, DoneInv

\* Every step keeps what is saved as delivered out of delivery.
LEMMA DoneNext == TypeInv /\ DoneInv /\ [Next]_vars => DoneInv'
<1> SUFFICES ASSUME TypeInv, DoneInv, [Next]_vars PROVE DoneInv' OBVIOUS
<1> USE DEF DoneInv
<1>0. mem \in [Keys -> Operation] /\ disk \in [Keys -> Operation] /\ key \in Keys
  BY DEF TypeInv, TypeOK
<1>1. CASE Begin BY <1>1 DEF Begin
<1>2. CASE End BY <1>2 DEF End, SessionEnds
<1>3. CASE Crash BY <1>3 DEF Crash, SessionEnds
<1>4. ASSUME NEW k \in Keys, Execute(k) PROVE DoneInv'
  <2>1. CASE mem[k].status = "absent"
    <3>1. Minted(minted + 1).status = "pending" BY DEF Minted
    <3> QED BY <1>0, <1>4, <2>1, <3>1 DEF Execute
  <2>2. CASE mem[k].status # "absent" BY <1>4, <2>2 DEF Execute
  <2> QED BY <2>1, <2>2
<1>5. ASSUME NEW k \in Keys, Reconcile(k) PROVE DoneInv'
  BY <1>0, <1>5, AfterReconcile DEF Reconcile
<1>6. CASE SaveIntent BY <1>6 DEF SaveIntent
<1>7. CASE SaveIntentFails
  BY <1>0, <1>7 DEF SaveIntentFails, SessionEnds
<1>8. CASE Admit BY <1>8 DEF Admit, Admissible
<1>9. CASE SkipOrHold BY <1>9 DEF SkipOrHold
<1>10. CASE Deliver BY <1>10 DEF Deliver
<1>11. CASE Surprise BY <1>11 DEF Surprise, SessionEnds
<1>12. CASE RecordOutcome
  BY <1>0, <1>12, AfterRecordOutcome DEF RecordOutcome
<1>13. CASE SaveOutcome BY <1>13 DEF SaveOutcome
<1>14. CASE SaveOutcomeFails
  BY <1>14 DEF SaveOutcomeFails, SessionEnds
<1>15. CASE UNCHANGED vars BY <1>15 DEF vars
<1> QED
  BY <1>1, <1>2, <1>3, <1>4, <1>5, <1>6, <1>7, <1>8, <1>9, <1>10, <1>11, <1>12, <1>13,
     <1>14, <1>15 DEF Next, Coordinator

\* SuccessIsFinal holds of every step: an operation saved as delivered stays so
\* and the provider is never reached for it again, restarts included.
THEOREM SuccessStands == Spec => SuccessIsFinal
<1> DEFINE Stands == \A k \in Keys : disk[k].status = "succeeded" =>
                        disk'[k].status = "succeeded" /\ effects'[k] = effects[k]
<1>1. TypeInv /\ DoneInv /\ [Next]_vars => [Stands]_vars
  <2> SUFFICES ASSUME TypeInv, DoneInv, Next, NEW k \in Keys, disk[k].status = "succeeded"
               PROVE  disk'[k].status = "succeeded" /\ effects'[k] = effects[k]
    OBVIOUS
  <2>1. mem[k].status = "succeeded" BY DEF DoneInv
  <2>2. disk' \in {disk, mem}
    BY DEF Next, Coordinator, Begin, End, Crash, Execute, Reconcile, SaveIntent,
           SaveIntentFails, Admit, SkipOrHold, Deliver, Surprise, RecordOutcome,
           SaveOutcome, SaveOutcomeFails
  <2>3. effects' = effects \/ ((Deliver \/ Surprise) /\ key # k)
    BY <2>1 DEF Next, Coordinator, Begin, End, Crash, Execute, Reconcile, SaveIntent,
           SaveIntentFails, Admit, SkipOrHold, Deliver, Surprise, RecordOutcome,
           SaveOutcome, SaveOutcomeFails, world, DoneInv
  <2>4. effects'[k] = effects[k]
    BY <2>3 DEF Deliver, Surprise, Act, TypeInv, TypeOK
  <2> QED BY <2>1, <2>2, <2>4
<1> QED BY <1>1, TypeInit, TypeNext, DoneInit, DoneNext, PTL DEF Spec, SuccessIsFinal

-----------------------------------------------------------------------------
(* No delivery is repeated on a guess *)

\* Once the provider has acted, the gate is shut: no retry is possible in memory.
Shut(k) ==
    \/ pc = "answered" /\ key = k
    \/ mem[k].status \in {"succeeded", "ambiguous"}
    \/ mem[k].status = "pending" /\ mem[k].id \notin opened

\* Until a failure is saved, the provider has not acted or the gate is shut.
OnceInv ==
    /\ \A k \in Keys : /\ FailureOnRecord(disk[k]) => FailureOnRecord(mem[k])
                       /\ effects[k] > 1 => FailureOnRecord(disk[k])
                       /\ effects[k] = 0 \/ Shut(k) \/ FailureOnRecord(disk[k])
    /\ pc = "sending" => effects[key] = 0 \/ FailureOnRecord(disk[key])
    /\ pc = "answered" /\ answer = "rejected" =>
          effects[key] = 0 \/ FailureOnRecord(disk[key])

\* Identifiers in memory are minted ones, so a new one opens nothing else.
MintedInv == \A k \in Keys : disk[k].id <= minted /\ mem[k].id <= minted

\* When a session ends, only the saved ledger counts: a saved operation without a
\* failure is delivered, held, or an intent that the next session did not open.
LEMMA ShutAtTheEnd ==
    ASSUME TypeInv, IdInv, OnceInv, SessionEnds, NEW k \in Keys
    PROVE  effects[k] = 0 \/ Shut(k)' \/ FailureOnRecord(disk[k])
<1>1. disk[k] \in Operation /\ mem' = disk /\ opened' = {}
  BY DEF TypeInv, TypeOK, SessionEnds
<1>2. disk[k].status = "absent" => effects[k] = 0
  BY <1>1 DEF IdInv, Operation, TypeInv, TypeOK
<1>3. disk[k].status = "failed" => FailureOnRecord(disk[k])
  BY <1>1, FailedIsOnRecord
<1>4. disk[k].status \in {"pending", "succeeded", "ambiguous"} => Shut(k)'
  BY <1>1 DEF Shut
<1> QED BY <1>1, <1>2, <1>3, <1>4 DEF Operation, Statuses, Outcomes

\* At the start no identifier has been minted.
LEMMA MintedInit == Init => MintedInv
<1> SUFFICES ASSUME Init, NEW k \in Keys PROVE disk[k].id <= minted /\ mem[k].id <= minted
  BY DEF MintedInv
<1>1. disk[k] = Absent /\ mem[k] = Absent /\ minted = 0 BY DEF Init
<1> QED BY <1>1, Fresh

\* Every step keeps the identifiers in use within the minted ones.
LEMMA MintedNext == TypeInv /\ MintedInv /\ [Next]_vars => MintedInv'
<1> SUFFICES ASSUME TypeInv, MintedInv, [Next]_vars PROVE MintedInv' OBVIOUS
<1> USE DEF MintedInv
<1>0. /\ mem \in [Keys -> Operation] /\ disk \in [Keys -> Operation] /\ key \in Keys
      /\ minted \in Nat /\ \A k \in Keys : mem[k].id \in Nat /\ disk[k].id \in Nat
  BY DEF TypeInv, TypeOK, Operation
<1>1. ASSUME NEW k \in Keys, Execute(k) PROVE MintedInv'
  <2>1. CASE mem[k].status = "absent"
    <3>1. Minted(minted + 1).id = minted + 1 BY DEF Minted
    <3> QED BY <1>0, <1>1, <2>1, <3>1 DEF Execute
  <2>2. CASE mem[k].status # "absent" BY <1>1, <2>2 DEF Execute
  <2> QED BY <2>1, <2>2
<1>2. ASSUME NEW k \in Keys, Reconcile(k) PROVE MintedInv'
  <2>1. Decided(mem[k], Evidence(k)).id = mem[k].id
    <3>1. mem[k] \in Operation /\ mem[k].id # 0 BY <1>0, <1>2 DEF Reconcile, Operation
    <3>2. Evidence(k) \in {"succeeded", "failed"} BY DEF Evidence
    <3> QED BY <3>1, <3>2, DecidedOperation
  <2> QED BY <1>0, <1>2, <2>1 DEF Reconcile
<1>3. CASE RecordOutcome
  <2>1. Attempted(mem[key], Classify(answer)).id = mem[key].id
    BY <1>0, <1>3, Classified, AttemptedOperation DEF RecordOutcome, TypeInv, TypeOK, Engaged
  <2> QED BY <1>0, <1>3, <2>1 DEF RecordOutcome
<1>4. CASE SaveIntentFails
  <2>1. CASE SessionEnds BY <1>4, <2>1 DEF SaveIntentFails, SessionEnds
  <2>2. CASE mem' = [mem EXCEPT ![key] = Absent]
    BY <1>0, <1>4, <2>2, Fresh DEF SaveIntentFails
  <2> QED BY <1>4, <2>1, <2>2 DEF SaveIntentFails
<1>5. CASE Begin \/ SkipOrHold \/ Admit \/ Deliver \/ UNCHANGED vars
  BY <1>5 DEF Begin, SkipOrHold, Admit, Deliver, vars
<1>6. CASE End \/ Crash \/ Surprise \/ SaveOutcomeFails
  BY <1>6 DEF End, Crash, Surprise, SaveOutcomeFails, SessionEnds
<1>7. CASE SaveIntent \/ SaveOutcome BY <1>7 DEF SaveIntent, SaveOutcome
<1> QED BY <1>1, <1>2, <1>3, <1>4, <1>5, <1>6, <1>7 DEF Next, Coordinator

\* At the start the provider has done nothing.
LEMMA OnceInit == Init => OnceInv
BY DEF Init, OnceInv

\* Every step keeps the gate shut on what the provider did without a saved failure.
LEMMA OnceNext ==
    ASSUME HonestRejections, TypeInv, IdInv, MintedInv, OnceInv, [Next]_vars
    PROVE  OnceInv'
<1>0. /\ mem \in [Keys -> Operation] /\ disk \in [Keys -> Operation] /\ key \in Keys
      /\ minted \in Nat /\ effects \in [Keys -> Nat] /\ opened \subseteq 1 .. minted
  BY DEF TypeInv, TypeOK
<1>1. CASE Begin BY <1>1 DEF Begin, OnceInv, Shut, world
<1>2. ASSUME SessionEnds, disk' = disk, effects' = effects PROVE OnceInv'
  <2>1. \A k \in Keys : effects[k] = 0 \/ Shut(k)' \/ FailureOnRecord(disk[k])
    BY <1>2, ShutAtTheEnd
  <2> QED BY <1>2, <2>1 DEF OnceInv, SessionEnds
<1>3. CASE End \/ Crash BY <1>2, <1>3 DEF End, Crash, world
<1>4. ASSUME NEW k \in Keys, Execute(k) PROVE OnceInv'
  <2>1. CASE mem[k].status = "absent"
    <3>1. /\ mem' = [mem EXCEPT ![k] = Minted(minted + 1)]
          /\ opened' = opened \cup {minted + 1}
          /\ pc = "ready" /\ pc' = "intent" /\ UNCHANGED <<disk, effects>>
      BY <1>4, <2>1 DEF Execute, world
    <3>2. mem[k].id = 0 /\ disk[k].id = 0
      BY <1>0, <2>1, <3>1 DEF IdInv, Operation
    <3>3. effects[k] = 0 BY <1>0, <3>2 DEF IdInv
    <3>4. ~FailureOnRecord(mem[k])
      BY <1>0, <2>1 DEF Operation, Evident, FailureOnRecord
    <3>5. \A j \in Keys \ {k} : mem'[j] = mem[j] /\ mem[j].id # minted + 1
      BY <1>0, <3>1 DEF MintedInv, Operation
    <3>6. \A j \in Keys \ {k} : Shut(j) => Shut(j)'
      BY <3>1, <3>5 DEF Shut
    <3> QED BY <3>1, <3>3, <3>4, <3>5, <3>6 DEF OnceInv
  <2>2. CASE mem[k].status # "absent"
    BY <1>4, <2>2 DEF Execute, OnceInv, Shut, world
  <2> QED BY <2>1, <2>2
<1>5. ASSUME NEW k \in Keys, Reconcile(k) PROVE OnceInv'
  <2>1. /\ mem' = [mem EXCEPT ![k] = Decided(mem[k], Evidence(k))]
        /\ Decided(mem[k], Evidence(k)).status = Evidence(k)
        /\ Decided(mem[k], Evidence(k)).reconciled
    BY <1>5, AfterReconcile
  <2>2. pc = "ready" /\ pc' = "unsaved" /\ UNCHANGED <<disk, opened, effects, key>>
    BY <1>5 DEF Reconcile, world
  <2>3. FailureOnRecord(mem'[k]) BY <1>0, <2>1 DEF FailureOnRecord
  <2>4. effects[k] = 0 \/ Shut(k)'
    BY <1>0, <2>1, <2>2 DEF Evidence, Shut
  <2>5. \A j \in Keys \ {k} : mem'[j] = mem[j] BY <1>0, <2>1
  <2>6. \A j \in Keys \ {k} : Shut(j) => Shut(j)' BY <2>2, <2>5 DEF Shut
  <2> QED BY <2>2, <2>3, <2>4, <2>5, <2>6 DEF OnceInv
<1>6. CASE SaveIntent \/ SaveOutcome
  BY <1>6 DEF SaveIntent, SaveOutcome, OnceInv, Shut, world
<1>7. CASE SaveIntentFails
  <2>1. disk' = disk /\ effects' = effects BY <1>7 DEF SaveIntentFails, world
  <2>2. CASE pc' = "ready" /\ mem' = [mem EXCEPT ![key] = Absent]
                           /\ opened' = opened \ {mem[key].id}
    <3>1. pc = "intent" /\ key' = key BY <1>7 DEF SaveIntentFails
    <3>2. disk[key].id = 0 /\ effects[key] = 0
      BY <1>0, <3>1 DEF IdInv
    <3>3. ~FailureOnRecord(disk[key])
      BY <1>0, <3>2 DEF Operation, Evident, FailureOnRecord
    <3>4. \A j \in Keys \ {key} : mem'[j] = mem[j] BY <1>0, <2>2
    <3>5. \A j \in Keys \ {key} : Shut(j) => Shut(j)'
      BY <2>2, <3>1, <3>4 DEF Shut
    <3> QED BY <2>1, <2>2, <3>1, <3>2, <3>3, <3>4, <3>5 DEF OnceInv
  <2> QED BY <1>2, <1>7, <2>1, <2>2 DEF SaveIntentFails
<1>8. CASE Admit
  <2>1. effects[key] = 0 \/ FailureOnRecord(disk[key])
    BY <1>0, <1>8 DEF Admit, Admissible, OnceInv, Shut
  <2> QED BY <1>8, <2>1 DEF Admit, OnceInv, Shut
<1>9. CASE SkipOrHold BY <1>9 DEF SkipOrHold, OnceInv, Shut, world
<1>10. CASE Deliver
  <2>1. PICK c \in Conduct : Act(c) /\ answer' = c.says BY <1>10 DEF Deliver
  <2>2. c.says = "rejected" => ~c.acts BY DEF Conduct
  <2>3. /\ effects' = [effects EXCEPT ![key] = @ + (IF c.acts THEN 1 ELSE 0)]
        /\ pc = "sending" /\ pc' = "answered" /\ UNCHANGED <<disk, mem, opened, key>>
    BY <1>10, <2>1 DEF Deliver, Act
  <2>4. effects[key] = 0 \/ FailureOnRecord(disk[key]) BY <2>3 DEF OnceInv
  <2>5. \A j \in Keys \ {key} : effects'[j] = effects[j] BY <1>0, <2>3
  <2>6. /\ effects'[key] > 1 => FailureOnRecord(disk[key])
        /\ answer' = "rejected" => effects'[key] = 0 \/ FailureOnRecord(disk[key])
    BY <1>0, <2>1, <2>2, <2>3, <2>4
  <2>7. Shut(key)' /\ \A j \in Keys \ {key} : Shut(j) => Shut(j)'
    BY <2>3 DEF Shut
  <2> QED BY <2>3, <2>5, <2>6, <2>7 DEF OnceInv
<1>11. CASE Surprise
  <2>1. PICK c \in Conduct : Act(c) BY <1>11 DEF Surprise
  <2>2. effects' = [effects EXCEPT ![key] = @ + (IF c.acts THEN 1 ELSE 0)]
    BY <2>1 DEF Act
  <2>3. pc = "sending" /\ SessionEnds /\ UNCHANGED <<disk, key>> BY <1>11 DEF Surprise
  <2>4. effects[key] = 0 \/ FailureOnRecord(disk[key]) BY <2>3 DEF OnceInv
  <2>5. \A j \in Keys \ {key} : effects'[j] = effects[j] BY <1>0, <2>2
  <2>6. effects'[key] > 1 => FailureOnRecord(disk[key]) BY <1>0, <2>2, <2>4
  <2>7. \A k \in Keys : effects[k] = 0 \/ Shut(k)' \/ FailureOnRecord(disk[k])
    BY <2>3, ShutAtTheEnd
  <2>8. Shut(key)' \/ FailureOnRecord(disk[key])
    <3>1. disk[key] \in Operation /\ disk[key].id # 0 /\ mem' = disk /\ opened' = {}
      BY <1>0, <2>3 DEF TypeInv, Engaged, IdInv, SessionEnds
    <3>2. disk[key].status = "failed" => FailureOnRecord(disk[key])
      BY <3>1, FailedIsOnRecord
    <3> QED BY <2>3, <3>1, <3>2 DEF Shut, Operation, Statuses, Outcomes
  <2> QED BY <2>3, <2>5, <2>6, <2>7, <2>8 DEF OnceInv, SessionEnds
<1>12. CASE RecordOutcome
  <2> DEFINE new == Attempted(mem[key], Classify(answer))
  <2>1. /\ mem' = [mem EXCEPT ![key] = new] /\ new.status = Classify(answer)
        /\ new.reconciled = mem[key].reconciled
        /\ new.attempts = Append(mem[key].attempts, Classify(answer))
        /\ mem[key].attempts \in Seq(Outcomes)
    BY <1>12, AfterRecordOutcome
  <2>2. pc = "answered" /\ pc' = "unsaved" /\ UNCHANGED <<disk, opened, effects, key>>
    BY <1>12 DEF RecordOutcome, world
  <2> HIDE DEF new
  <2>3. FailureOnRecord(mem[key]) => FailureOnRecord(new)
    BY <2>1 DEF FailureOnRecord
  <2>4. \/ Classify(answer) \in {"succeeded", "ambiguous"}
        \/ answer = "rejected"
    BY DEF Classify, TypeInv, TypeOK, Answers
  <2>5. effects[key] = 0 \/ Shut(key)' \/ FailureOnRecord(disk[key])
    BY <1>0, <2>1, <2>2, <2>4 DEF OnceInv, Shut
  <2>6. \A j \in Keys \ {key} : mem'[j] = mem[j] BY <1>0, <2>1
  <2>7. \A j \in Keys \ {key} : Shut(j) => Shut(j)' BY <2>2, <2>6 DEF Shut
  <2>8. mem'[key] = new BY <1>0, <2>1
  <2> QED BY <2>2, <2>3, <2>5, <2>6, <2>7, <2>8 DEF OnceInv
<1>13. CASE SaveOutcomeFails
  <2>1. disk' = disk /\ effects' = effects /\ pc = "unsaved" /\ key' = key
    BY <1>13 DEF SaveOutcomeFails, world
  <2>2. CASE pc' = "ready" /\ UNCHANGED <<mem, opened>>
    BY <2>1, <2>2 DEF OnceInv, Shut
  <2> QED BY <1>2, <1>13, <2>1, <2>2 DEF SaveOutcomeFails
<1>14. CASE UNCHANGED vars BY <1>14 DEF vars, OnceInv, Shut
<1> QED
  BY <1>1, <1>3, <1>4, <1>5, <1>6, <1>7, <1>8, <1>9, <1>10, <1>11, <1>12, <1>13, <1>14
  DEF Next, Coordinator

\* AtMostOnceUnlessRetried holds in every state if a provider that rejects a
\* request has not acted on it: the gate never repeats a delivery whose failure
\* is not saved, whatever crashes, lost answers and failing saves intervene.
THEOREM NoBlindRepeat ==
    ASSUME HonestRejections
    PROVE  Spec => []AtMostOnceUnlessRetried
<1>1. OnceInv => AtMostOnceUnlessRetried BY DEF OnceInv, AtMostOnceUnlessRetried
<1>2. TypeInv /\ IdInv /\ MintedInv /\ OnceInv /\ [Next]_vars => OnceInv'
  BY OnceNext
<1> QED
  BY <1>1, <1>2, TypeInit, TypeNext, IdInit, IdNext, MintedInit, MintedNext, OnceInit, PTL
  DEF Spec
=============================================================================
