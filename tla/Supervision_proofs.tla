-------------------------- MODULE Supervision_proofs --------------------------
(***************************************************************************)
(* Proofs about the processes around one Run: Workers, who executes it, for *)
(* any number of clients, workers and deaths, and Observation, who watches *)
(* it, for any number of operations and events and any buffer.             *)
(*                                                                         *)
(* TypeCorrect needs nothing more.  That an execution excludes every other *)
(* one and every guarded human action is proved with observers and         *)
(* cancellations that take no lock and with deaths wherever the model has   *)
(* them, on one condition: no write puts an earlier worker's record back    *)
(* (UpToDate), which the code cannot know of a record it read before.       *)
(*                                                                         *)
(* A client of the observation follows because a barrier hides only what   *)
(* was published of a state saved before, and because the buffer keeps its *)
(* order: what arrives late is dropped, what overflows is the oldest.      *)
(***************************************************************************)
EXTENDS Workers, Observation, FunctionTheorems, FiniteSetTheorems, SequenceTheorems, TLAPS

-----------------------------------------------------------------------------
(* Invariants *)

\* Where a client is in a launch or a cancellation, and a worker in its execution, what
\* they hold names a worker; once a worker was reserved there is a record.
NamedInv ==
    /\ \A c \in Actors :
          /\ pc[c] \in {"reserved", "unlocked", "saved", "spawned", "piped"} =>
                mine[c] \in Workers /\ proc[mine[c]] # "none"
          /\ pc[c] = "reconcile" => seen[c].worker # 0
          /\ pc[c] = "killing" => seen[c].status = "cancelling"
          /\ seen[c].worker # 0 => record.worker # 0
    /\ \A w \in Workers :
          /\ proc[w] = "booted" => latest[w].worker = w
          /\ proc[w] = "reporting" => latest[w].worker # 0
          /\ proc[w] # "none" => record.worker # 0

\* Nothing has a process, or is about to have one, before the state is saved.
BaselineInv ==
    /\ record.pid # 0 => saved
    /\ \A c \in Actors :
          seen[c].pid # 0 \/ pc[c] \in {"saved", "spawned", "piped"} => saved
    /\ \A w \in Workers : proc[w] \notin Gone \/ latest[w].pid # 0 => saved

TypeInv == TypeOK /\ NamedInv /\ BaselineInv

Locked    == {"read", "probe", "reconcile", "judged", "guarding", "reserved"}
Launching == {"reserved", "unlocked", "saved", "spawned", "piped"}
Waiting   == {"reserved", "spawned"}
Under     == {"booting", "booted", "running", "reporting"}

\* A worker executes the Run or will, unless something dies.
Live(w) == proc[w] = "spawned" \/ proc[w] \in Under

\* Nothing executes the Run and no launch is on its way to it.
Quiet ==
    /\ \A w \in Workers : ~Live(w)
    /\ \A c \in Actors : pc[c] \in Launching => proc[mine[c]] \notin Waiting

\* The lock file admits one client at a time; who observes or cancels without it neither
\* launches nor guards.
LockInv ==
    /\ \A c \in Supervisors : /\ job[c] \notin {"launch", "guard"}
                              /\ pc[c] \notin Launching \cup {"guarding"}
    /\ \A c \in Clients : pc[c] \in Locked => lock
    /\ \A c, d \in Clients : pc[c] \in Locked /\ pc[d] \in Locked => c = d

\* Every launch has a worker of its own, and the record names it until that worker is dead.
LaunchInv ==
    \A c \in Actors : pc[c] \in Launching =>
        /\ \A d \in Actors : pc[d] \in Launching /\ mine[d] = mine[c] => c = d
        /\ pc[c] \in {"reserved", "unlocked", "saved"} => proc[mine[c]] = "reserved"
        /\ pc[c] \in {"spawned", "piped"} => proc[mine[c]] \in {"spawned", "dead"}
        /\ proc[mine[c]] \in Waiting => record.worker = mine[c] /\ record.status \in Active

\* The record names every worker that lives, as an active one.
LiveInv == \A w \in Workers : Live(w) => record.worker = w /\ record.status \in Active

\* What is remembered is of the recorded worker or of an earlier one, and a process that
\* is named was started.
Known(r) == /\ r.worker <= record.worker
            /\ r.pid # 0 => proc[r.pid] \notin {"none", "reserved"}

KnownInv ==
    /\ Known(record)
    /\ \A c \in Actors : Known(seen[c]) /\ (pc[c] \in Launching => mine[c] <= record.worker)
    /\ \A w \in Workers : Known(latest[w])

\* Who is about to write that a process is gone has seen it gone.
GoneInv == \A c \in Actors : pc[c] = "reconcile" => seen[c].pid # 0 /\ proc[seen[c].pid] = "dead"

\* What a client that holds the lock has read is still of the recorded worker; once it has
\* judged that worker inactive or gone, nothing executes the Run.
JudgementInv ==
    \A c \in Clients :
        /\ pc[c] \in {"probe", "reconcile", "judged"} =>
              seen[c].worker = record.worker /\ (seen[c].status \notin Active => Quiet)
        /\ pc[c] = "guarding" => Quiet

ExclusionInv == LockInv /\ LaunchInv /\ LiveInv /\ KnownInv /\ GoneInv /\ JudgementInv

-----------------------------------------------------------------------------
(* Records *)

\* What the type of a record says of its fields.
LEMMA RecordFields ==
    ASSUME NEW r \in Record
    PROVE  /\ r.worker \in 0 .. MaxWorkers
           /\ r.status \in Active \cup Terminal \cup {"absent"}
           /\ r.worker = 0 <=> r.status = "absent"
           /\ r.pid \in {0, r.worker} /\ r.pid \in 0 .. MaxWorkers
           /\ r.cancel \in BOOLEAN
           /\ r.status \in {"running", "cancelling", "crashed"} => r.pid # 0
           /\ r.status \in {"cancelling", "cancelled"} => r.cancel
           /\ r.status \in Active => r.worker # 0
           /\ r.worker # 0 => r.worker \in Workers
           /\ r.pid # 0 => r.pid \in Workers /\ r.pid = r.worker
<1>1. MaxWorkers \in Nat \ {0} BY WorkerBounds
<1> QED BY <1>1 DEF Record, Active, Terminal, Workers

\* No record, and a reservation, are well formed.
LEMMA Reservations ==
    /\ NoRecord \in Record
    /\ NoRecord.worker = 0 /\ NoRecord.pid = 0 /\ NoRecord.status = "absent"
    /\ \A w \in Workers :
          /\ Reservation(w) \in Record /\ Reservation(w).worker = w
          /\ Reservation(w).status = "starting" /\ Reservation(w).pid = 0
<1>1. MaxWorkers \in Nat \ {0} BY WorkerBounds
<1>2. /\ NoRecord \in Record
      /\ NoRecord.worker = 0 /\ NoRecord.pid = 0 /\ NoRecord.status = "absent"
  BY <1>1 DEF NoRecord, Record
<1>3. ASSUME NEW w \in Workers
      PROVE  /\ Reservation(w) \in Record /\ Reservation(w).worker = w
             /\ Reservation(w).status = "starting" /\ Reservation(w).pid = 0
  BY <1>1, <1>3 DEF Workers, Reservation, Record, Active
<1> QED BY <1>2, <1>3

\* An observer turns the record of a vanished process into a well-formed, inactive one.
LEMMA ReconciledRecord ==
    ASSUME NEW r \in Record, Unreported(r)
    PROVE  /\ Reconciled(r) \in Record
           /\ Reconciled(r).worker = r.worker /\ r.worker # 0
           /\ Reconciled(r).pid = r.pid /\ r.pid # 0
           /\ Reconciled(r).status \in {"cancelled", "crashed"}
<1>1. MaxWorkers \in Nat \ {0} BY WorkerBounds
<1> QED BY <1>1 DEF Reconciled, Unreported, Record, Active, Terminal

\* A cancellation makes of an active record with a process a well-formed one.
LEMMA CancelledRecord ==
    ASSUME NEW r \in Record, r.status \in Active, r.pid # 0
    PROVE  LET new == [r EXCEPT !.status = "cancelling", !.cancel = TRUE] IN
           /\ new \in Record /\ new.worker = r.worker /\ new.pid = r.pid
           /\ new.status = "cancelling"
<1>1. MaxWorkers \in Nat \ {0} BY WorkerBounds
<1> QED BY <1>1 DEF Record, Active, Terminal

\* A launch that fails, and a signal that finds no process, leave a failed record.
LEMMA FailedRecord ==
    ASSUME NEW r \in Record, r.worker # 0
    PROVE  LET new == [r EXCEPT !.status = "failed"] IN
           /\ new \in Record /\ new.worker = r.worker /\ new.pid = r.pid
           /\ new.status = "failed"
<1>1. MaxWorkers \in Nat \ {0} BY WorkerBounds
<1> QED BY <1>1 DEF Record, Active, Terminal

\* A launch adds the process to its reservation.
LEMMA LaunchedRecord ==
    ASSUME NEW r \in Record, r.status = "starting"
    PROVE  LET new == [r EXCEPT !.pid = r.worker] IN
           /\ new \in Record /\ new.worker = r.worker /\ new.pid = r.worker
           /\ new.status = "starting"
<1>1. MaxWorkers \in Nat \ {0} BY WorkerBounds
<1> QED BY <1>1 DEF Record, Active, Terminal

\* A worker says that it runs.
LEMMA RunningRecord ==
    ASSUME NEW r \in Record, r.worker # 0
    PROVE  LET new == [r EXCEPT !.status = "running", !.pid = r.worker] IN
           /\ new \in Record /\ new.worker = r.worker /\ new.pid = r.worker
           /\ new.status = "running"
<1>1. MaxWorkers \in Nat \ {0} BY WorkerBounds
<1> QED BY <1>1 DEF Record, Active, Terminal

\* A worker says how it ended.
LEMMA EndedRecord ==
    ASSUME NEW r \in Record, r.worker # 0, NEW outcome \in {"succeeded", "failed"}
    PROVE  LET new == [r EXCEPT !.status = IF r.cancel THEN "cancelled" ELSE outcome] IN
           /\ new \in Record /\ new.worker = r.worker /\ new.pid = r.pid
           /\ new.status \in {"cancelled", "succeeded", "failed"}
<1>1. MaxWorkers \in Nat \ {0} BY WorkerBounds
<1> QED BY <1>1 DEF Record, Active, Terminal

-----------------------------------------------------------------------------
(* Types *)

\* The program starts without a record, a lock or a process.
LEMMA TypeInit == Init => TypeInv
<1>1. MaxWorkers \in Nat /\ MaxClientDeaths \in Nat /\ MaxWorkerDeaths \in Nat BY WorkerBounds
<1> SUFFICES ASSUME Init PROVE TypeInv OBVIOUS
<1>2. TypeOK
  <2>1. /\ 0 \in 0 .. MaxWorkers
        /\ deaths \in [client : 0 .. MaxClientDeaths, worker : 0 .. MaxWorkerDeaths]
    BY <1>1 DEF Init
  <2>2. lock \in BOOLEAN /\ saved \in BOOLEAN /\ record = NoRecord BY DEF Init
  <2>3. CrashedIsRecoverable BY <2>2, Reservations DEF CrashedIsRecoverable
  <2> QED BY <2>1, <2>2, <2>3, Reservations DEF Init, TypeOK
<1>3. NamedInv BY DEF Init, NamedInv
<1>4. BaselineInv BY Reservations DEF Init, BaselineInv, Gone
<1> QED BY <1>2, <1>3, <1>4 DEF TypeInv

\* Beginning a task changes the lock, a client's job and place.
LEMMA TypeBegin ==
    ASSUME TypeInv, NEW c \in Actors,
           \/ \E task \in {"launch", "guard"} : TakeLock(c, task)
           \/ \E task \in {"observe", "cancel"} : Approach(c, task)
    PROVE  TypeInv'
<1>1. TypeOK'
  <2>1. ASSUME NEW task \in {"launch", "guard"}, TakeLock(c, task) PROVE TypeOK'
    BY <2>1 DEF TypeInv, TypeOK, CrashedIsRecoverable, TakeLock, Goto, processes
  <2>2. ASSUME NEW task \in {"observe", "cancel"}, Approach(c, task) PROVE TypeOK'
    BY <2>2 DEF TypeInv, TypeOK, CrashedIsRecoverable, Approach, Goto, processes
  <2> QED BY <2>1, <2>2
<1>2. NamedInv' BY DEF TypeInv, TypeOK, NamedInv, TakeLock, Approach, Goto, processes
<1>3. BaselineInv' BY DEF TypeInv, TypeOK, BaselineInv, TakeLock, Approach, Goto, processes
<1> QED BY <1>1, <1>2, <1>3 DEF TypeInv

\* So do the steps of observe_worker, which may also write a reconciled record.
LEMMA TypeObserve ==
    ASSUME TypeInv, NEW c \in Actors, ReadRecord(c) \/ Probe(c) \/ Reconcile(c)
    PROVE  TypeInv'
<1> USE DEF TypeInv
<1>1. CASE ReadRecord(c)
  <2>1. TypeOK' BY <1>1 DEF TypeOK, CrashedIsRecoverable, ReadRecord, Goto, processes
  <2>2. NamedInv' BY <1>1 DEF TypeOK, NamedInv, ReadRecord, Goto, processes
  <2>3. BaselineInv' BY <1>1 DEF TypeOK, BaselineInv, ReadRecord, Goto, processes
  <2> QED BY <2>1, <2>2, <2>3
<1>2. CASE Probe(c) /\ ~Unreported(seen[c])
  <2>1. TypeOK' BY <1>2 DEF TypeOK, CrashedIsRecoverable, Probe, Goto, processes
  <2>2. NamedInv' BY <1>2 DEF TypeOK, NamedInv, Probe, Goto, processes
  <2>3. BaselineInv' BY <1>2 DEF TypeOK, BaselineInv, Probe, Goto, processes
  <2> QED BY <2>1, <2>2, <2>3
<1>3. CASE Probe(c) /\ Unreported(seen[c])
  <2> DEFINE new == Reconciled(seen[c])
  <2>1. seen[c] \in Record BY DEF TypeOK
  <2>2. /\ new \in Record /\ new.worker = seen[c].worker /\ new.worker # 0
        /\ new.pid = seen[c].pid /\ new.status # "cancelling"
    BY <1>3, <2>1, ReconciledRecord
  <2>3. /\ pc' = [pc EXCEPT ![c] = "reconcile"] /\ seen' = [seen EXCEPT ![c] = new]
        /\ UNCHANGED <<lock, record, saved, processes, job, mine, deaths>>
    BY <1>3 DEF Probe, Goto
  <2> HIDE DEF new
  <2>4. TypeOK' BY <2>2, <2>3 DEF TypeOK, CrashedIsRecoverable, processes
  <2>5. NamedInv' BY <2>2, <2>3 DEF TypeOK, NamedInv, processes
  <2>6. BaselineInv' BY <2>2, <2>3 DEF TypeOK, BaselineInv, processes
  <2> QED BY <2>4, <2>5, <2>6
<1>4. CASE Reconcile(c)
  <2>1. seen[c] \in Record BY DEF TypeOK
  <2>2. seen[c].status = "crashed" => saved
    BY <2>1, RecordFields DEF BaselineInv
  <2>3. TypeOK' BY <1>4, <2>2 DEF TypeOK, CrashedIsRecoverable, Reconcile, Goto, processes
  <2>4. NamedInv' BY <1>4 DEF TypeOK, NamedInv, Reconcile, Goto, processes
  <2>5. BaselineInv' BY <1>4 DEF TypeOK, BaselineInv, Reconcile, Goto, processes
  <2> QED BY <2>3, <2>4, <2>5
<1> QED BY <1>1, <1>2, <1>3, <1>4 DEF Probe

\* Ending a task forgets what the client held.
LEMMA TypeEnd ==
    ASSUME TypeInv, NEW c \in Actors,
           ReturnRecord(c) \/ Refuse(c) \/ LeaveGuard(c)
    PROVE  TypeInv'
<1>1. /\ EndTask(c) /\ lock' \in BOOLEAN /\ UNCHANGED <<record, saved, proc, latest, deaths>>
  BY DEF TypeInv, TypeOK, ReturnRecord, Refuse, LeaveGuard, processes
<1>2. 0 \in 0 .. MaxWorkers BY WorkerBounds
<1>3. TypeOK'
  BY <1>1, <1>2, Reservations DEF TypeInv, TypeOK, CrashedIsRecoverable, EndTask, Goto
<1>4. NamedInv' BY <1>1, Reservations DEF TypeInv, TypeOK, NamedInv, EndTask, Goto
<1>5. BaselineInv' BY <1>1, Reservations DEF TypeInv, TypeOK, BaselineInv, EndTask, Goto
<1> QED BY <1>3, <1>4, <1>5 DEF TypeInv

\* A reservation, its baseline and its process come in this order.
LEMMA TypeLaunch ==
    ASSUME TypeInv, NEW c \in Actors,
           EnterGuard(c) \/ Reserve(c) \/ Unlock(c) \/ SaveBaseline(c) \/ Spawn(c)
    PROVE  TypeInv'
<1> USE DEF TypeInv
<1>1. CASE EnterGuard(c)
  <2>1. TypeOK' BY <1>1 DEF TypeOK, CrashedIsRecoverable, EnterGuard, Goto, processes
  <2>2. NamedInv' BY <1>1 DEF TypeOK, NamedInv, EnterGuard, Goto, processes
  <2>3. BaselineInv' BY <1>1 DEF TypeOK, BaselineInv, EnterGuard, Goto, processes
  <2> QED BY <2>1, <2>2, <2>3
<1>2. CASE Reserve(c)
  <2>1. PICK w \in Unused : /\ record' = Reservation(w) /\ mine' = [mine EXCEPT ![c] = w]
                            /\ proc' = [proc EXCEPT ![w] = "reserved"]
    BY <1>2 DEF Reserve
  <2>2. w \in Workers /\ w # 0 /\ w \in 0 .. MaxWorkers
    BY <2>1, WorkerBounds DEF Unused, Workers
  <2>3. /\ Reservation(w) \in Record /\ Reservation(w).worker = w /\ Reservation(w).pid = 0
        /\ Reservation(w).status = "starting"
    BY <2>2, Reservations
  <2>4. TypeOK' BY <1>2, <2>1, <2>2, <2>3 DEF TypeOK, CrashedIsRecoverable, Reserve, Goto
  <2>5. NamedInv' BY <1>2, <2>1, <2>2, <2>3 DEF TypeOK, NamedInv, Reserve, Goto
  <2>6. BaselineInv' BY <1>2, <2>1, <2>2, <2>3 DEF TypeOK, BaselineInv, Gone, Reserve, Goto
  <2> QED BY <2>4, <2>5, <2>6
<1>3. CASE Unlock(c)
  <2>1. TypeOK' BY <1>3 DEF TypeOK, CrashedIsRecoverable, Unlock, Goto, processes
  <2>2. NamedInv' BY <1>3 DEF TypeOK, NamedInv, Unlock, Goto, processes
  <2>3. BaselineInv' BY <1>3 DEF TypeOK, BaselineInv, Unlock, Goto, processes
  <2> QED BY <2>1, <2>2, <2>3
<1>4. CASE SaveBaseline(c)
  <2>1. TypeOK' BY <1>4 DEF TypeOK, CrashedIsRecoverable, SaveBaseline, Goto, processes
  <2>2. NamedInv' BY <1>4 DEF TypeOK, NamedInv, SaveBaseline, Goto, processes
  <2>3. BaselineInv' BY <1>4 DEF BaselineInv, SaveBaseline
  <2> QED BY <2>1, <2>2, <2>3
<1>5. CASE Spawn(c)
  <2>1. TypeOK' BY <1>5 DEF TypeOK, CrashedIsRecoverable, Spawn, Goto
  <2>2. saved /\ mine[c] \in Workers BY <1>5 DEF BaselineInv, NamedInv, Spawn
  <2>3. record.worker # 0 BY <1>5, <2>2 DEF NamedInv, Spawn
  <2>4. NamedInv' BY <1>5, <2>2, <2>3 DEF TypeOK, NamedInv, Spawn, Goto
  <2>5. BaselineInv' BY <1>5, <2>2 DEF BaselineInv, Spawn
  <2> QED BY <2>1, <2>4, <2>5
<1> QED BY <1>1, <1>2, <1>3, <1>4, <1>5

\* A launch ends with its process recorded and given the request, or as failed.
LEMMA TypeLaunched ==
    ASSUME TypeInv, NEW c \in Actors,
           RecordPid(c) \/ SendRequest(c) \/ BrokenPipe(c) \/ SpawnFails(c)
    PROVE  TypeInv'
<1> USE DEF TypeInv
<1> DEFINE w == mine[c]
<1>1. /\ w \in Workers /\ proc[w] # "none"
  BY DEF NamedInv, RecordPid, SendRequest, BrokenPipe, SpawnFails
<1>2. saved BY DEF BaselineInv, RecordPid, SendRequest, BrokenPipe, SpawnFails
<1>3. 0 \in 0 .. MaxWorkers /\ w # 0 BY <1>1, WorkerBounds DEF Workers
<1>4. /\ Reservation(w) \in Record /\ Reservation(w).worker = w /\ Reservation(w).pid = 0
      /\ Reservation(w).status = "starting"
  BY <1>1, Reservations
<1>5. CASE RecordPid(c)
  <2> DEFINE new == [Reservation(w) EXCEPT !.pid = w]
  <2>1. /\ new \in Record /\ new.worker = w /\ new.pid = w /\ new.status = "starting"
    BY <1>4, LaunchedRecord, Zenon
  <2>2. /\ record' = new /\ pc' = [pc EXCEPT ![c] = "piped"]
        /\ UNCHANGED <<lock, saved, processes, job, seen, mine, deaths>>
    BY <1>5 DEF RecordPid, Goto
  <2> HIDE DEF new
  <2>3. TypeOK' BY <2>1, <2>2 DEF TypeOK, CrashedIsRecoverable, processes
  <2>4. NamedInv' BY <1>1, <1>3, <2>1, <2>2 DEF TypeOK, NamedInv, processes
  <2>5. BaselineInv' BY <1>2, <2>2 DEF BaselineInv
  <2> QED BY <2>3, <2>4, <2>5
<1>6. CASE SendRequest(c)
  <2>1. /\ proc' = [proc EXCEPT ![w] = "booting"] /\ EndTask(c)
        /\ UNCHANGED <<lock, record, saved, latest, deaths>>
    BY <1>6 DEF SendRequest
  <2>2. TypeOK'
    BY <1>3, <2>1, Reservations DEF TypeOK, CrashedIsRecoverable, EndTask, Goto
  <2>3. NamedInv' BY <1>1, <2>1, Reservations DEF TypeOK, NamedInv, EndTask, Goto
  <2>4. BaselineInv' BY <1>2, <2>1 DEF BaselineInv
  <2> QED BY <2>2, <2>3, <2>4
<1>7. CASE LaunchFailed(c)
  <2> DEFINE new == [Reservation(w) EXCEPT !.status = "failed"]
  <2>1. /\ new \in Record /\ new.worker = w /\ new.status = "failed"
    BY <1>3, <1>4, FailedRecord, Zenon
  <2>2. /\ record' = new /\ EndTask(c) /\ UNCHANGED <<lock, saved, proc, latest, deaths>>
    BY <1>7 DEF LaunchFailed, processes
  <2> HIDE DEF new
  <2>3. TypeOK'
    BY <1>3, <2>1, <2>2, Reservations DEF TypeOK, CrashedIsRecoverable, EndTask, Goto
  <2>4. NamedInv'
    BY <1>1, <1>3, <2>1, <2>2, Reservations DEF TypeOK, NamedInv, EndTask, Goto
  <2>5. BaselineInv' BY <1>2, <2>2 DEF BaselineInv
  <2> QED BY <2>3, <2>4, <2>5
<1> QED BY <1>5, <1>6, <1>7 DEF BrokenPipe, SpawnFails

\* A process that ends forgets what it read.
LEMMA TypeExit ==
    ASSUME TypeInv, NEW w, Exit(w), lock' \in BOOLEAN, saved' = saved, record' \in Record,
           record'.worker # 0, record'.pid # 0 => saved, CrashedIsRecoverable',
           deaths' \in [client : 0 .. MaxClientDeaths, worker : 0 .. MaxWorkerDeaths],
           \/ UNCHANGED <<pc, job, seen, mine>>
           \/ \E c \in Actors : EndTask(c)
    PROVE  TypeInv'
<1> USE DEF TypeInv
<1>1. 0 \in 0 .. MaxWorkers BY WorkerBounds
<1>2. /\ proc' = [proc EXCEPT ![w] = "dead"] /\ latest' = [latest EXCEPT ![w] = NoRecord]
  BY DEF Exit
<1>3. CASE UNCHANGED <<pc, job, seen, mine>>
  <2>1. TypeOK' BY <1>2, <1>3, Reservations DEF TypeOK
  <2>2. NamedInv' BY <1>2, <1>3, Reservations DEF TypeOK, NamedInv
  <2>3. BaselineInv'
    <3>1. \A v \in Workers : /\ proc'[v] = proc[v] \/ proc'[v] = "dead"
                             /\ latest'[v] = latest[v] \/ latest'[v].pid = 0
      BY <1>2, Reservations DEF TypeOK
    <3>2. seen' = seen /\ pc' = pc
      BY <1>3
    <3>3. BaselineInv /\ saved' = saved /\ (record'.pid # 0 => saved')
      OBVIOUS
    <3>4. ASSUME NEW v \in Workers, proc'[v] \notin Gone \/ latest'[v].pid # 0 PROVE saved'
      <4>1. proc[v] \notin Gone \/ latest[v].pid # 0
        BY <3>1, <3>4 DEF Gone
      <4>2. saved
        BY <3>3, <4>1 DEF BaselineInv
      <4> QED BY <3>3, <4>2
    <3>5. ASSUME NEW d \in Actors,
                 seen'[d].pid # 0 \/ pc'[d] \in {"saved", "spawned", "piped"}
          PROVE  saved'
      <4>1. seen[d].pid # 0 \/ pc[d] \in {"saved", "spawned", "piped"}
        BY <3>2, <3>5
      <4>2. saved
        BY <3>3, <4>1 DEF BaselineInv
      <4> QED BY <3>3, <4>2
    <3> QED BY <3>3, <3>4, <3>5, Zenon DEF BaselineInv, Gone
  <2> QED BY <2>1, <2>2, <2>3
<1>4. ASSUME NEW c \in Actors, EndTask(c) PROVE TypeInv'
  <2>1. TypeOK' BY <1>1, <1>2, <1>4, Reservations DEF TypeOK, EndTask, Goto
  <2>2. NamedInv' BY <1>2, <1>4, Reservations DEF TypeOK, NamedInv, EndTask, Goto
  <2>3. BaselineInv'
    <3>1. \A v \in Workers : /\ proc'[v] = proc[v] \/ proc'[v] = "dead"
                             /\ latest'[v] = latest[v] \/ latest'[v].pid = 0
      BY <1>2, Reservations DEF TypeOK
    <3>2. \A d \in Actors : /\ seen'[d] = seen[d] \/ seen'[d].pid = 0
                            /\ pc'[d] = pc[d] \/ pc'[d] = "idle"
      BY <1>4, Reservations DEF TypeOK, EndTask, Goto
    <3>3. BaselineInv /\ saved' = saved /\ (record'.pid # 0 => saved')
      OBVIOUS
    <3>4. ASSUME NEW v \in Workers, proc'[v] \notin Gone \/ latest'[v].pid # 0 PROVE saved'
      <4>1. proc[v] \notin Gone \/ latest[v].pid # 0
        BY <3>1, <3>4 DEF Gone
      <4>2. saved
        BY <3>3, <4>1 DEF BaselineInv
      <4> QED BY <3>3, <4>2
    <3>5. ASSUME NEW d \in Actors,
                 seen'[d].pid # 0 \/ pc'[d] \in {"saved", "spawned", "piped"}
          PROVE  saved'
      <4>1. seen[d].pid # 0 \/ pc[d] \in {"saved", "spawned", "piped"}
        BY <3>2, <3>5
      <4>2. saved
        BY <3>3, <4>1 DEF BaselineInv
      <4> QED BY <3>3, <4>2
    <3> QED BY <3>3, <3>4, <3>5, Zenon DEF BaselineInv, Gone
  <2> QED BY <2>1, <2>2, <2>3
<1> QED BY <1>3, <1>4

\* A cancellation is recorded, then its process is signalled.
LEMMA TypeCancel ==
    ASSUME TypeInv, NEW c \in Actors, RecordCancel(c) \/ Kill(c) \/ KillFails(c)
    PROVE  TypeInv'
<1> USE DEF TypeInv
<1> DEFINE r == seen[c]
<1>1. r \in Record BY DEF TypeOK
<1>2. CASE RecordCancel(c)
  <2> DEFINE new == [r EXCEPT !.status = "cancelling", !.cancel = TRUE]
  <2>1. r.status \in Active /\ r.pid # 0 BY <1>2 DEF RecordCancel, Judged
  <2>2. /\ new \in Record /\ new.worker = r.worker /\ new.pid = r.pid
        /\ new.status = "cancelling"
    BY <1>1, <2>1, CancelledRecord, Zenon
  <2>3. r.worker # 0 BY <1>1, <2>1, RecordFields
  <2>4. seen' = [seen EXCEPT ![c] = new] /\ record' = new
    BY <1>2 DEF RecordCancel, TypeOK
  <2>5. /\ pc' = [pc EXCEPT ![c] = "killing"]
        /\ UNCHANGED <<lock, saved, proc, latest, job, mine, deaths>>
    BY <1>2 DEF RecordCancel, Goto, processes
  <2> HIDE DEF new
  <2>6. TypeOK' BY <2>2, <2>4, <2>5 DEF TypeOK, CrashedIsRecoverable
  <2>7. NamedInv' BY <2>2, <2>3, <2>4, <2>5 DEF TypeOK, NamedInv
  <2>8. BaselineInv' BY <2>1, <2>2, <2>4, <2>5 DEF TypeOK, BaselineInv
  <2> QED BY <2>6, <2>7, <2>8
<1>3. CASE Kill(c)
  <2>1. /\ Exit(r.pid) /\ EndTask(c) /\ UNCHANGED <<lock, record, saved, deaths>>
    BY <1>3 DEF Kill
  <2>2. lock' \in BOOLEAN /\ record' \in Record /\ CrashedIsRecoverable'
    BY <2>1 DEF TypeOK, CrashedIsRecoverable
  <2>3. record'.pid # 0 => saved BY <2>1 DEF BaselineInv
  <2>4. deaths' \in [client : 0 .. MaxClientDeaths, worker : 0 .. MaxWorkerDeaths]
    BY <2>1 DEF TypeOK
  <2>5. r.worker # 0 BY <1>1, <1>3, RecordFields DEF Kill, NamedInv
  <2>6. record'.worker # 0 BY <2>1, <2>5 DEF NamedInv
  <2> QED BY <2>1, <2>2, <2>3, <2>4, <2>6, TypeExit
<1>4. CASE KillFails(c)
  <2> DEFINE new == [r EXCEPT !.status = "failed"]
  <2>1. r.status = "cancelling" BY <1>4 DEF KillFails, NamedInv
  <2>2. r.worker # 0 BY <1>1, <2>1, RecordFields DEF Active
  <2>3. /\ new \in Record /\ new.worker = r.worker /\ new.pid = r.pid /\ new.status = "failed"
    BY <1>1, <2>2, FailedRecord, Zenon
  <2>4. /\ record' = new /\ EndTask(c) /\ UNCHANGED <<lock, saved, proc, latest, deaths>>
    BY <1>4 DEF KillFails, processes
  <2> HIDE DEF new
  <2>5. 0 \in 0 .. MaxWorkers BY WorkerBounds
  <2>6. TypeOK'
    BY <2>3, <2>4, <2>5, Reservations DEF TypeOK, CrashedIsRecoverable, EndTask, Goto
  <2>7. NamedInv' BY <2>2, <2>3, <2>4, Reservations DEF TypeOK, NamedInv, EndTask, Goto
  <2>8. BaselineInv' BY <2>3, <2>4, Reservations DEF TypeOK, BaselineInv, EndTask, Goto
  <2> QED BY <2>6, <2>7, <2>8
<1> QED BY <1>2, <1>3, <1>4

\* A worker writes records of its own making, about what it last read.
LEMMA TypeWork ==
    ASSUME TypeInv, NEW w \in Workers, WorkerStep(w)
    PROVE  TypeInv'
<1> USE DEF TypeInv
<1>1. CASE Boot(w) /\ record.worker = w
  <2>1. /\ proc' = [proc EXCEPT ![w] = "booted"] /\ latest' = [latest EXCEPT ![w] = record]
        /\ proc[w] = "booting"
        /\ UNCHANGED <<lock, record, saved, pc, job, seen, mine, deaths>>
    BY <1>1 DEF Boot
  <2>2. saved BY <2>1 DEF BaselineInv, Gone
  <2>3. TypeOK' BY <2>1 DEF TypeOK, CrashedIsRecoverable
  <2>4. NamedInv' BY <1>1, <2>1 DEF TypeOK, NamedInv
  <2>5. BaselineInv' BY <2>1, <2>2 DEF BaselineInv
  <2> QED BY <2>3, <2>4, <2>5
<1>2. CASE Boot(w) /\ record.worker # w
  <2>1. Exit(w) /\ UNCHANGED <<lock, record, saved, pc, job, seen, mine, deaths>>
    BY <1>2 DEF Boot
  <2>2. /\ lock' \in BOOLEAN /\ record' \in Record /\ CrashedIsRecoverable'
        /\ deaths' \in [client : 0 .. MaxClientDeaths, worker : 0 .. MaxWorkerDeaths]
    BY <2>1 DEF TypeOK, CrashedIsRecoverable
  <2>3. record'.pid # 0 => saved BY <2>1 DEF BaselineInv
  <2>4. record'.worker # 0 BY <1>2, <2>1 DEF Boot, NamedInv
  <2> QED BY <2>1, <2>2, <2>3, <2>4, TypeExit
<1>3. CASE BeginExecution(w)
  <2> DEFINE r == latest[w]
             new == [r EXCEPT !.status = "running", !.pid = w]
  <2>1. r \in Record /\ r.worker = w /\ w # 0
    BY <1>3, WorkerBounds DEF TypeOK, NamedInv, BeginExecution, Workers
  <2>2. /\ new \in Record /\ new.worker = w /\ new.pid = w /\ new.status = "running"
    BY <2>1, RunningRecord, Zenon
  <2>3. /\ record' = new /\ proc' = [proc EXCEPT ![w] = "running"] /\ proc[w] = "booted"
        /\ latest' = [latest EXCEPT ![w] = NoRecord]
        /\ UNCHANGED <<lock, saved, pc, job, seen, mine, deaths>>
    BY <1>3 DEF BeginExecution
  <2> HIDE DEF new
  <2>4. saved BY <2>3 DEF BaselineInv, Gone
  <2>5. TypeOK' BY <2>2, <2>3, Reservations DEF TypeOK, CrashedIsRecoverable
  <2>6. NamedInv' BY <2>1, <2>2, <2>3 DEF TypeOK, NamedInv
  <2>7. BaselineInv' BY <2>3, <2>4 DEF BaselineInv
  <2> QED BY <2>5, <2>6, <2>7
<1>4. ASSUME NEW outcome \in {"succeeded", "failed"}, EndExecution(w, outcome) PROVE TypeInv'
  <2> DEFINE new == [record EXCEPT !.status = IF record.cancel THEN "cancelled" ELSE outcome]
  <2>1. /\ proc' = [proc EXCEPT ![w] = "reporting"] /\ latest' = [latest EXCEPT ![w] = new]
        /\ proc[w] = "running"
        /\ UNCHANGED <<lock, record, saved, pc, job, seen, mine, deaths>>
    BY <1>4 DEF EndExecution
  <2>2. record \in Record /\ record.worker # 0 BY <2>1 DEF TypeOK, NamedInv
  <2>3. new \in Record /\ new.worker = record.worker /\ new.pid = record.pid
    BY <2>2, EndedRecord, Zenon
  <2> HIDE DEF new
  <2>4. saved BY <2>1 DEF BaselineInv, Gone
  <2>5. TypeOK' BY <2>1, <2>3 DEF TypeOK, CrashedIsRecoverable
  <2>6. NamedInv' BY <2>1, <2>2, <2>3 DEF TypeOK, NamedInv
  <2>7. BaselineInv' BY <2>1, <2>4 DEF BaselineInv
  <2> QED BY <2>5, <2>6, <2>7
<1>5. CASE Report(w)
  <2>1. /\ record' = latest[w] /\ proc[w] = "reporting" /\ Exit(w)
        /\ UNCHANGED <<lock, saved, pc, job, seen, mine, deaths>>
    BY <1>5 DEF Report
  <2>2. saved BY <2>1 DEF BaselineInv, Gone
  <2>3. /\ lock' \in BOOLEAN /\ record' \in Record /\ CrashedIsRecoverable'
        /\ deaths' \in [client : 0 .. MaxClientDeaths, worker : 0 .. MaxWorkerDeaths]
    BY <2>1, <2>2 DEF TypeOK, CrashedIsRecoverable
  <2>4. record'.worker # 0 BY <2>1 DEF NamedInv
  <2> QED BY <2>1, <2>2, <2>3, <2>4, TypeExit
<1> QED BY <1>1, <1>2, <1>3, <1>4, <1>5 DEF WorkerStep, Boot

\* What dies takes its memory with it; a worker that waits for its request ends with its
\* client.
LEMMA TypeDeath ==
    ASSUME TypeInv,
           \/ \E c \in Actors : ClientDies(c)
           \/ \E w \in Workers : WorkerDies(w)
    PROVE  TypeInv'
<1> USE DEF TypeInv
<1>1. 0 \in 0 .. MaxWorkers /\ MaxClientDeaths \in Nat /\ MaxWorkerDeaths \in Nat
  BY WorkerBounds
<1>2. ASSUME NEW c \in Actors, ClientDies(c) PROVE TypeInv'
  <2>1. \/ UNCHANGED proc
        \/ /\ proc' = [proc EXCEPT ![mine[c]] = "dead"]
           /\ proc[mine[c]] = "spawned" /\ pc[c] \in {"spawned", "piped"}
    BY <1>2 DEF ClientDies
  <2>2. deaths' \in [client : 0 .. MaxClientDeaths, worker : 0 .. MaxWorkerDeaths]
    BY <1>1, <1>2 DEF TypeOK, ClientDies
  <2>3. EndTask(c) /\ UNCHANGED <<lock, record, saved, latest>> BY <1>2 DEF ClientDies
  <2>4. mine' \in [Actors -> 0 .. MaxWorkers] /\ seen' \in [Actors -> Record]
    BY <1>1, <2>3, Reservations DEF TypeOK, EndTask
  <2>5. TypeOK'
    BY <2>1, <2>2, <2>3, <2>4 DEF TypeOK, CrashedIsRecoverable, EndTask, Goto
  <2>6. NamedInv' BY <2>1, <2>3, Reservations DEF TypeOK, NamedInv, EndTask, Goto
  <2>7. BaselineInv' BY <2>1, <2>3, Reservations DEF TypeOK, BaselineInv, Gone, EndTask, Goto
  <2> QED BY <2>5, <2>6, <2>7
<1>3. ASSUME NEW w \in Workers, WorkerDies(w) PROVE TypeInv'
  <2>1. Exit(w) /\ UNCHANGED <<lock, record, saved, pc, job, seen, mine>>
    BY <1>3 DEF WorkerDies
  <2>2. /\ lock' \in BOOLEAN /\ record' \in Record /\ CrashedIsRecoverable'
        /\ record'.pid # 0 => saved
    BY <2>1 DEF TypeOK, CrashedIsRecoverable, BaselineInv
  <2>3. deaths' \in [client : 0 .. MaxClientDeaths, worker : 0 .. MaxWorkerDeaths]
    BY <1>1, <1>3 DEF TypeOK, WorkerDies
  <2>4. record'.worker # 0 BY <1>3, <2>1, WorkerBounds DEF WorkerDies, NamedInv
  <2> QED BY <2>1, <2>2, <2>3, <2>4, TypeExit
<1> QED BY <1>2, <1>3

\* The actions of Next, by who takes them.
LEMMA NextSteps ==
    ASSUME Next
    PROVE  \/ \E c \in Actors :
                 \/ \E task \in {"launch", "guard"} : c \in Clients /\ TakeLock(c, task)
                 \/ \E task \in {"observe", "cancel"} : c \in Supervisors /\ Approach(c, task)
                 \/ ClientStep(c) \/ SpawnFails(c) \/ KillFails(c)
           \/ \E w \in Workers : WorkerStep(w)
           \/ \E c \in Actors : ClientDies(c)
           \/ \E w \in Workers : WorkerDies(w)
BY Zenon DEF Next, Actors

\* Every step keeps what is recorded and remembered well formed.
LEMMA TypeNext == TypeInv /\ [Next]_vars => TypeInv'
<1> SUFFICES ASSUME TypeInv, [Next]_vars PROVE TypeInv' OBVIOUS
<1>1. CASE Next
  <2>1. ASSUME NEW c \in Actors, NEW task \in {"launch", "guard"}, TakeLock(c, task)
        PROVE  TypeInv'
    BY <2>1, TypeBegin, Zenon
  <2>2. ASSUME NEW c \in Actors, NEW task \in {"observe", "cancel"}, Approach(c, task)
        PROVE  TypeInv'
    BY <2>2, TypeBegin, Zenon
  <2>3. ASSUME NEW c \in Actors, ClientStep(c) \/ SpawnFails(c) \/ KillFails(c) PROVE TypeInv'
    BY <2>3, TypeObserve, TypeEnd, TypeLaunch, TypeLaunched, TypeCancel, Zenon DEF ClientStep
  <2>4. ASSUME NEW w \in Workers, WorkerStep(w) PROVE TypeInv'
    BY <2>4, TypeWork
  <2> QED BY <1>1, <2>1, <2>2, <2>3, <2>4, NextSteps, TypeDeath, Zenon
<1>2. CASE UNCHANGED vars
  <2>1. TypeOK' BY <1>2 DEF vars, TypeInv, TypeOK, CrashedIsRecoverable
  <2>2. NamedInv' BY <1>2 DEF vars, TypeInv, NamedInv
  <2>3. BaselineInv' BY <1>2 DEF vars, TypeInv, BaselineInv
  <2> QED BY <2>1, <2>2, <2>3 DEF TypeInv
<1> QED BY <1>1, <1>2

\* Types and their strengthening hold throughout.
THEOREM TypeInvariance == Spec => []TypeInv
<1>1. Init => TypeInv BY TypeInit
<1>2. TypeInv /\ [Next]_vars => TypeInv' BY TypeNext
<1> QED BY <1>1, <1>2, PTL DEF Spec

\* Every worker record, on disk and in memory, is well formed, whoever observes, cancels and
\* dies; and a record that says "crashed" has a saved state to resume from.
THEOREM TypeCorrect == Spec => []TypeOK
<1>1. TypeInv => TypeOK BY DEF TypeInv
<1> QED BY <1>1, TypeInvariance, PTL

-----------------------------------------------------------------------------
(* Exclusion *)

\* At first nobody holds the lock and nothing lives.
LEMMA ExclusionInit == Init => ExclusionInv
<1> SUFFICES ASSUME Init PROVE ExclusionInv OBVIOUS
<1> USE DEF Init
<1>1. LockInv BY WorkerBounds DEF LockInv, Locked, Launching, Actors
<1>2. LaunchInv BY DEF LaunchInv, Launching
<1>3. LiveInv BY DEF LiveInv, Live, Under
<1>4. KnownInv BY Reservations DEF KnownInv, Known, Launching
<1>5. GoneInv BY DEF GoneInv
<1>6. JudgementInv BY DEF JudgementInv, Actors
<1> QED BY <1>1, <1>2, <1>3, <1>4, <1>5, <1>6 DEF ExclusionInv

\* An inactive record means that nothing executes the Run and nothing is on its way.
LEMMA InactiveIsQuiet ==
    ASSUME ExclusionInv, record.status \notin Active PROVE Quiet
BY DEF ExclusionInv, LiveInv, LaunchInv, Quiet

\* So does a record whose process is gone.
LEMMA GoneIsQuiet ==
    ASSUME TypeInv, ExclusionInv, record.worker \in Workers, proc[record.worker] = "dead"
    PROVE  Quiet
BY DEF ExclusionInv, LiveInv, Live, LaunchInv, Quiet, Waiting, Under

\* How processes and launches move in every step but three.
ProcMoves(w) ==
    \/ proc'[w] = proc[w]
    \/ Live(w) /\ proc'[w] = "dead"
    \/ proc[w] \in Under /\ proc'[w] \in Under

LaunchMoves(c) ==
    pc'[c] \in Launching =>
        /\ mine'[c] = mine[c]
        /\ \/ pc'[c] = pc[c]
           \/ pc[c] = "reserved" /\ pc'[c] = "unlocked"
           \/ pc[c] = "unlocked" /\ pc'[c] = "saved"
           \/ pc[c] = "spawned" /\ pc'[c] = "piped"

\* Those steps keep what is launched and what lives on the record, and the quiet.
LEMMA NothingStarts ==
    ASSUME TypeInv, ExclusionInv,
           \A w \in Workers : ProcMoves(w), \A c \in Actors : LaunchMoves(c),
           record'.worker = record.worker,
           record' = record \/ record'.status \in Active \/ Quiet'
    PROVE  LaunchInv' /\ LiveInv' /\ (Quiet => Quiet')
<1>1. \A w \in Workers : Live(w)' => Live(w)
  BY DEF ProcMoves, Live, Under
<1>2. \A c \in Actors : pc'[c] \in Launching =>
          /\ pc[c] \in Launching /\ mine'[c] = mine[c] /\ mine[c] \in Workers
          /\ proc'[mine[c]] \in Waiting => proc'[mine[c]] = proc[mine[c]]
  <2> SUFFICES ASSUME NEW c \in Actors, pc'[c] \in Launching
               PROVE  /\ pc[c] \in Launching /\ mine'[c] = mine[c] /\ mine[c] \in Workers
                      /\ proc'[mine[c]] \in Waiting => proc'[mine[c]] = proc[mine[c]]
    OBVIOUS
  <2>1. pc[c] \in Launching /\ mine'[c] = mine[c] BY DEF LaunchMoves, Launching
  <2>2. mine[c] \in Workers BY <2>1 DEF TypeInv, NamedInv, Launching
  <2> QED BY <2>1, <2>2 DEF ProcMoves, Waiting, Under
<1>3. Quiet => Quiet'
  BY <1>1, <1>2 DEF Quiet, Waiting
<1>4. record' = record \/ record'.status \in Active \/ Quiet'
  OBVIOUS
<1>5. LiveInv'
  BY <1>1, <1>4 DEF ExclusionInv, LiveInv, Quiet
<1>6. LaunchInv'
  <2> SUFFICES ASSUME NEW c \in Actors, pc'[c] \in Launching
               PROVE  /\ \A d \in Actors : pc'[d] \in Launching /\ mine'[d] = mine'[c] => c = d
                      /\ pc'[c] \in {"reserved", "unlocked", "saved"} => proc'[mine'[c]] = "reserved"
                      /\ pc'[c] \in {"spawned", "piped"} => proc'[mine'[c]] \in {"spawned", "dead"}
                      /\ proc'[mine'[c]] \in Waiting =>
                             record'.worker = mine'[c] /\ record'.status \in Active
    BY DEF LaunchInv
  <2>1. /\ pc[c] \in Launching /\ mine'[c] = mine[c] /\ mine[c] \in Workers
        /\ proc'[mine[c]] \in Waiting => proc'[mine[c]] = proc[mine[c]]
    BY <1>2
  <2>2. /\ \A d \in Actors : pc[d] \in Launching /\ mine[d] = mine[c] => c = d
        /\ pc[c] \in {"reserved", "unlocked", "saved"} => proc[mine[c]] = "reserved"
        /\ pc[c] \in {"spawned", "piped"} => proc[mine[c]] \in {"spawned", "dead"}
        /\ proc[mine[c]] \in Waiting => record.worker = mine[c] /\ record.status \in Active
    BY <2>1 DEF ExclusionInv, LaunchInv
  <2>3. \A d \in Actors : pc'[d] \in Launching /\ mine'[d] = mine'[c] => c = d
    BY <1>2, <2>1, <2>2
  <2>4. ProcMoves(mine[c]) /\ LaunchMoves(c) BY <2>1
  <2>5. pc'[c] \in {"reserved", "unlocked", "saved"} => proc'[mine'[c]] = "reserved"
    BY <2>1, <2>2, <2>4 DEF ProcMoves, LaunchMoves, Live, Under
  <2>6. pc'[c] \in {"spawned", "piped"} => proc'[mine'[c]] \in {"spawned", "dead"}
    BY <2>1, <2>2, <2>4 DEF ProcMoves, LaunchMoves, Live, Under
  <2>7. proc'[mine'[c]] \in Waiting => record'.worker = mine'[c] /\ record'.status \in Active
    BY <1>4, <2>1, <2>2 DEF Quiet
  <2> QED BY <2>3, <2>5, <2>6, <2>7
<1> QED BY <1>3, <1>5, <1>6

\* A step that takes no lock and gives none back.
LEMMA LockKeeps ==
    ASSUME ExclusionInv, lock' = lock, NEW c \in Actors,
           \A d \in Actors \ {c} : pc'[d] = pc[d] /\ job'[d] = job[d],
           job'[c] \in {job[c], "none"} \/ (c \in Supervisors /\ job'[c] \in {"observe", "cancel"}),
           c \in Clients /\ pc'[c] \in Locked => pc[c] \in Locked,
           c \in Supervisors => pc'[c] \notin Launching \cup {"guarding"}
    PROVE  LockInv'
BY WorkerBounds DEF ExclusionInv, LockInv, Actors

\* What was known stays known: the record moves on, and no process is unstarted.
LEMMA KnownKeeps ==
    ASSUME TypeInv, TypeInv', UpToDate, NEW r \in Record, Known(r),
           \A w \in Workers : proc[w] \notin {"none", "reserved"} =>
               proc'[w] \notin {"none", "reserved"}
    PROVE  r.worker <= record'.worker /\ (r.pid # 0 => proc'[r.pid] \notin {"none", "reserved"})
<1>1. MaxWorkers \in Nat /\ record \in Record /\ record' \in Record
  BY WorkerBounds DEF TypeInv, TypeOK
<1>2. /\ r.worker \in 0 .. MaxWorkers /\ record.worker \in 0 .. MaxWorkers
      /\ record'.worker \in 0 .. MaxWorkers
      /\ r.pid # 0 => r.pid \in Workers
  BY <1>1, RecordFields
<1> QED BY <1>1, <1>2 DEF Known, UpToDate

\* An actor that does nothing, and what is asked of one that does.
Same(d) == pc'[d] = pc[d] /\ job'[d] = job[d] /\ seen'[d] = seen[d] /\ mine'[d] = mine[d]

Fine(d) ==
    /\ LaunchMoves(d)
    /\ seen'[d] = seen[d] \/ Known(seen[d])'
    /\ pc'[d] = "reconcile" => seen'[d].pid # 0 /\ proc'[seen'[d].pid] = "dead"
    /\ d \in Clients /\ pc'[d] \in {"probe", "reconcile", "judged"} =>
           seen'[d].worker = record'.worker /\ (seen'[d].status \notin Active => Quiet')
    /\ d \in Clients /\ pc'[d] = "guarding" => Quiet'

\* A step that starts nothing, and writes about the recorded worker only.
LEMMA ExclusionKeeps ==
    ASSUME TypeInv, TypeInv', ExclusionInv, UpToDate, LockInv',
           \A w \in Workers : ProcMoves(w), \A d \in Actors : Same(d) \/ Fine(d),
           record'.worker = record.worker,
           \/ record' = record
           \/ Known(record)' /\ (record'.status \in Active \/ Quiet'),
           \A w \in Workers : latest'[w] = latest[w] \/ Known(latest[w])'
    PROVE  ExclusionInv'
<1>1. \A d \in Actors : LaunchMoves(d) BY DEF Same, Fine, LaunchMoves
<1>2. LaunchInv' /\ LiveInv' /\ (Quiet => Quiet') BY <1>1, NothingStarts
<1>3. \A w \in Workers : proc[w] \notin {"none", "reserved"} => proc'[w] \notin {"none", "reserved"}
  BY DEF ProcMoves, Live, Under
<1>4. /\ record \in Record /\ \A d \in Actors : seen[d] \in Record
      /\ \A w \in Workers : latest[w] \in Record
  BY DEF TypeInv, TypeOK
<1>5. KnownInv'
  <2>1. \A r \in Record : Known(r) => /\ r.worker <= record'.worker
                                      /\ r.pid # 0 => proc'[r.pid] \notin {"none", "reserved"}
    BY <1>3, KnownKeeps
  <2>2. Known(record)'
    BY <1>4, <2>1 DEF ExclusionInv, KnownInv, Known
  <2>3. ASSUME NEW d \in Actors PROVE Known(seen[d])'
    <3>1. CASE seen'[d] = seen[d] BY <1>4, <2>1, <3>1 DEF ExclusionInv, KnownInv, Known
    <3>2. CASE seen'[d] # seen[d] BY <3>2 DEF Same, Fine
    <3> QED BY <3>1, <3>2
  <2>4. ASSUME NEW w \in Workers PROVE Known(latest[w])'
    <3>1. CASE latest'[w] = latest[w] BY <1>4, <2>1, <3>1 DEF ExclusionInv, KnownInv, Known
    <3> QED BY <3>1
  <2>5. ASSUME NEW d \in Actors, pc'[d] \in Launching PROVE mine'[d] <= record'.worker
    <3>1. pc[d] \in Launching /\ mine'[d] = mine[d] BY <1>1, <2>5 DEF LaunchMoves, Launching
    <3> QED BY <3>1 DEF ExclusionInv, KnownInv
  <2> QED BY <2>2, <2>3, <2>4, <2>5 DEF KnownInv
<1>6. GoneInv'
  <2> SUFFICES ASSUME NEW d \in Actors, pc'[d] = "reconcile"
               PROVE  seen'[d].pid # 0 /\ proc'[seen'[d].pid] = "dead"
    BY DEF GoneInv
  <2>1. CASE Fine(d) BY <2>1 DEF Fine
  <2>2. CASE Same(d)
    <3>1. seen[d].pid # 0 /\ proc[seen[d].pid] = "dead"
      BY <2>2 DEF Same, ExclusionInv, GoneInv
    <3>2. seen[d].pid \in Workers BY <1>4, <3>1, RecordFields
    <3> QED BY <2>2, <3>1, <3>2 DEF Same, ProcMoves, Live, Under
  <2> QED BY <2>1, <2>2
<1>7. JudgementInv'
  <2> SUFFICES ASSUME NEW d \in Clients
               PROVE  /\ pc'[d] \in {"probe", "reconcile", "judged"} =>
                            /\ seen'[d].worker = record'.worker
                            /\ seen'[d].status \notin Active => Quiet'
                      /\ pc'[d] = "guarding" => Quiet'
    BY DEF JudgementInv
  <2>1. d \in Actors BY DEF Actors
  <2>2. CASE Fine(d) BY <2>2 DEF Fine
  <2>3. CASE Same(d) BY <1>2, <2>3 DEF Same, ExclusionInv, JudgementInv
  <2> QED BY <2>1, <2>2, <2>3
<1> QED BY <1>2, <1>5, <1>6, <1>7 DEF ExclusionInv

\* Whoever takes the lock finds nobody in its section; an observer takes none.
LEMMA ExclusionBegin ==
    ASSUME TypeInv, TypeInv', ExclusionInv, UpToDate, NEW c \in Actors,
           \/ c \in Clients /\ \E task \in {"launch", "guard"} : TakeLock(c, task)
           \/ c \in Supervisors /\ \E task \in {"observe", "cancel"} : Approach(c, task)
    PROVE  ExclusionInv'
<1>1. /\ record' = record /\ proc' = proc /\ latest' = latest /\ seen' = seen /\ mine' = mine
      /\ pc[c] = "idle" /\ pc' = [pc EXCEPT ![c] = "read"]
  BY DEF TakeLock, Approach, Goto, processes
<1>2. pc'[c] = "read" /\ \A d \in Actors \ {c} : Same(d)
  <2>1. \A d \in Actors \ {c} : job'[d] = job[d] BY DEF TakeLock, Approach, TypeInv, TypeOK
  <2> QED BY <1>1, <2>1 DEF Same, TypeInv, TypeOK
<1>3. LockInv'
  <2>1. CASE c \in Clients /\ \E task \in {"launch", "guard"} : TakeLock(c, task)
    <3>1. ~lock /\ lock' = TRUE BY <2>1 DEF TakeLock
    <3>2. \A d \in Clients : pc[d] \notin Locked BY <3>1 DEF ExclusionInv, LockInv
    <3>3. c \notin Supervisors BY <2>1, WorkerBounds
    <3>4. \A d \in Supervisors : job'[d] \notin {"launch", "guard"}
                                 /\ pc'[d] \notin Launching \cup {"guarding"}
      BY <1>2, <3>3 DEF Same, Actors, ExclusionInv, LockInv
    <3>5. \A d \in Clients : pc'[d] \in Locked => d = c
      BY <1>2, <3>2 DEF Same, Actors
    <3> QED BY <3>1, <3>4, <3>5 DEF LockInv
  <2>2. CASE c \in Supervisors /\ \E task \in {"observe", "cancel"} : Approach(c, task)
    <3>1. c \notin Clients /\ lock' = lock BY <2>2, WorkerBounds DEF Approach
    <3>2. job'[c] \in {"observe", "cancel"} BY <2>2 DEF Approach, TypeInv, TypeOK
    <3>3. pc'[c] \notin Launching \cup {"guarding"} BY <1>2 DEF Launching
    <3> QED BY <1>2, <2>2, <3>1, <3>2, <3>3, LockKeeps DEF Same
  <2> QED BY <2>1, <2>2
<1>4. Fine(c) BY <1>1, <1>2 DEF Fine, LaunchMoves, Launching
<1>5. \A w \in Workers : ProcMoves(w) BY <1>1 DEF ProcMoves
<1> QED BY <1>1, <1>2, <1>3, <1>4, <1>5, ExclusionKeeps

\* Observing: an inactive record, or one of a process that is gone, means that nothing
\* executes the Run; and what an unlocked observer writes is of a worker that is gone.
LEMMA ExclusionObserve ==
    ASSUME TypeInv, TypeInv', ExclusionInv, UpToDate, NEW c \in Actors,
           ReadRecord(c) \/ Probe(c) \/ Reconcile(c)
    PROVE  ExclusionInv'
<1>1. /\ proc' = proc /\ latest' = latest /\ mine' = mine /\ job' = job /\ lock' = lock
      /\ pc[c] \in {"read", "probe", "reconcile"}
      /\ pc'[c] \in {"probe", "reconcile", "judged"}
      /\ \A d \in Actors \ {c} : Same(d)
  BY DEF ReadRecord, Probe, Reconcile, Goto, processes, TypeInv, TypeOK, Same
<1>2. LockInv'
  <2>1. pc[c] \in Locked /\ pc'[c] \notin Launching \cup {"guarding"}
    BY <1>1 DEF Locked, Launching
  <2> QED BY <1>1, <2>1, LockKeeps DEF Same
<1>3. \A w \in Workers : ProcMoves(w) BY <1>1 DEF ProcMoves
<1>4. LaunchMoves(c) BY <1>1 DEF LaunchMoves, Launching
<1>5. \A d \in Actors : LaunchMoves(d) BY <1>1, <1>4 DEF Same, LaunchMoves
<1>6. seen[c] \in Record /\ record \in Record BY DEF TypeInv, TypeOK
<1>7. CASE ReadRecord(c)
  <2>1. record' = record /\ seen'[c] = record /\ pc'[c] = "probe"
    BY <1>7 DEF ReadRecord, Goto, TypeInv, TypeOK
  <2>2. Quiet => Quiet' BY <1>3, <1>5, <2>1, NothingStarts
  <2>3. Known(seen[c])' BY <1>1, <2>1 DEF ExclusionInv, KnownInv, Known
  <2>4. Fine(c) BY <1>4, <2>1, <2>2, <2>3, InactiveIsQuiet DEF Fine
  <2> QED BY <1>1, <1>2, <1>3, <2>1, <2>4, ExclusionKeeps
<1>8. CASE Probe(c) /\ ~Unreported(seen[c])
  <2>1. record' = record /\ seen'[c] = seen[c] /\ pc[c] = "probe" /\ pc'[c] = "judged"
    BY <1>8 DEF Probe, Goto, TypeInv, TypeOK, processes
  <2>2. Quiet => Quiet' BY <1>3, <1>5, <2>1, NothingStarts
  <2>3. Fine(c) BY <1>4, <2>1, <2>2 DEF Fine, ExclusionInv, JudgementInv
  <2> QED BY <1>1, <1>2, <1>3, <2>1, <2>3, ExclusionKeeps
<1>9. CASE Probe(c) /\ Unreported(seen[c])
  <2> DEFINE new == Reconciled(seen[c])
  <2>1. /\ new.worker = seen[c].worker /\ new.pid = seen[c].pid /\ seen[c].pid # 0
        /\ new.status \in {"cancelled", "crashed"}
    BY <1>6, <1>9, ReconciledRecord
  <2>2. record' = record /\ pc[c] = "probe" /\ pc'[c] = "reconcile" /\ seen'[c] = new
    BY <1>9 DEF Probe, Goto, TypeInv, TypeOK, processes
  <2> HIDE DEF new
  <2>3. /\ seen[c].pid \in Workers /\ seen[c].worker = seen[c].pid
        /\ proc[seen[c].pid] \in Gone \ {"none", "reserved"}
    <3>1. seen[c].pid \in Workers /\ seen[c].worker = seen[c].pid BY <1>6, <2>1, RecordFields
    <3>2. proc[seen[c].pid] \in Gone BY <1>9 DEF Unreported, Alive
    <3>3. proc[seen[c].pid] \notin {"none", "reserved"}
      BY <2>1 DEF ExclusionInv, KnownInv, Known
    <3> QED BY <3>1, <3>2, <3>3
  <2>4. proc[seen[c].pid] = "dead" BY <2>3 DEF Gone
  <2>5. Quiet => Quiet' BY <1>3, <1>5, <2>2, NothingStarts
  <2>6. Known(seen[c])'
    BY <1>1, <2>1, <2>2 DEF ExclusionInv, KnownInv, Known
  <2>7. c \in Clients => seen[c].worker = record.worker
    BY <2>2 DEF ExclusionInv, JudgementInv
  <2>8. c \in Clients => Quiet' BY <2>3, <2>4, <2>5, <2>7, GoneIsQuiet
  <2>9. Fine(c) BY <1>1, <1>4, <2>1, <2>2, <2>4, <2>6, <2>7, <2>8 DEF Fine
  <2> QED BY <1>1, <1>2, <1>3, <2>2, <2>9, ExclusionKeeps
<1>10. CASE Reconcile(c)
  <2>1. /\ record' = seen[c] /\ seen'[c] = seen[c] /\ pc[c] = "reconcile" /\ pc'[c] = "judged"
    BY <1>10 DEF Reconcile, Goto, TypeInv, TypeOK, processes
  <2>2. /\ seen[c].pid # 0 /\ proc[seen[c].pid] = "dead" /\ Known(seen[c])
    BY <2>1 DEF ExclusionInv, GoneInv, KnownInv
  <2>3. /\ seen[c].worker \in Workers /\ seen[c].worker = seen[c].pid
        /\ seen[c].worker \in Nat /\ record.worker \in Nat
    BY <1>6, <2>2, RecordFields, WorkerBounds DEF Workers
  <2>4. seen[c].worker = record.worker
    BY <2>1, <2>2, <2>3 DEF Known, UpToDate
  <2>5. Quiet BY <2>2, <2>3, <2>4, GoneIsQuiet
  <2>6. Quiet'
    BY <1>1, <1>5, <2>5 DEF Quiet, Live, LaunchMoves, Launching
  <2>7. Known(record)' BY <1>1, <2>1, <2>2, <2>3 DEF Known
  <2>8. Fine(c) BY <1>4, <2>1, <2>6 DEF Fine
  <2> QED BY <1>1, <1>2, <1>3, <2>1, <2>4, <2>6, <2>7, <2>8, ExclusionKeeps
<1> QED BY <1>7, <1>8, <1>9, <1>10 DEF Probe

\* Once nothing lives and nothing is on its way, no such step changes that.
LEMMA QuietStays ==
    ASSUME TypeInv, Quiet, \A w \in Workers : ProcMoves(w), \A d \in Actors : LaunchMoves(d)
    PROVE  Quiet'
<1>1. \A w \in Workers : proc'[w] = proc[w] BY DEF Quiet, ProcMoves, Live
<1>2. \A w \in Workers : ~Live(w)' BY <1>1 DEF Quiet, Live
<1>3. ASSUME NEW d \in Actors, pc'[d] \in Launching PROVE proc'[mine'[d]] \notin Waiting
  <2>1. pc[d] \in Launching /\ mine'[d] = mine[d] BY <1>3 DEF LaunchMoves, Launching
  <2>2. mine[d] \in Workers BY <2>1 DEF TypeInv, NamedInv, Launching
  <2> QED BY <1>1, <2>1, <2>2 DEF Quiet
<1> QED BY <1>2, <1>3 DEF Quiet

\* Whoever ends its task holds nothing any more.
LEMMA EndsFine ==
    ASSUME TypeInv, TypeInv', NEW c \in Actors, EndTask(c)
    PROVE  /\ pc'[c] = "idle" /\ job'[c] = "none" /\ Fine(c)
           /\ \A d \in Actors \ {c} : Same(d)
<1>1. /\ pc'[c] = "idle" /\ job'[c] = "none" /\ seen'[c] = NoRecord
      /\ \A d \in Actors \ {c} : Same(d)
  BY DEF EndTask, Goto, Same, TypeInv, TypeOK
<1>2. record'.worker \in 0 .. MaxWorkers /\ MaxWorkers \in Nat
  BY RecordFields, WorkerBounds DEF TypeInv, TypeOK
<1>3. seen'[c].worker <= record'.worker /\ seen'[c].pid = 0 BY <1>1, <1>2 DEF NoRecord
<1>4. Known(seen[c])' BY <1>3 DEF Known
<1>5. LaunchMoves(c) BY <1>1 DEF LaunchMoves, Launching
<1> QED BY <1>1, <1>4, <1>5 DEF Fine

\* Returning, being refused and leaving the guard: only its holder gives the lock back.
LEMMA ExclusionEnd ==
    ASSUME TypeInv, TypeInv', ExclusionInv, UpToDate, NEW c \in Actors,
           ReturnRecord(c) \/ Refuse(c) \/ LeaveGuard(c)
    PROVE  ExclusionInv'
<1>1. record' = record /\ proc' = proc /\ latest' = latest /\ EndTask(c)
  BY DEF ReturnRecord, Refuse, LeaveGuard, processes
<1>2. /\ pc'[c] = "idle" /\ job'[c] = "none" /\ Fine(c)
      /\ \A d \in Actors \ {c} : Same(d)
  BY <1>1, EndsFine
<1>3. pc'[c] \notin Locked /\ pc'[c] \notin Launching \cup {"guarding"}
  BY <1>2 DEF Locked, Launching
<1>4. LockInv'
  <2>1. CASE ReturnRecord(c)
    <3>1. lock' = lock BY <2>1 DEF ReturnRecord
    <3> QED BY <1>2, <1>3, <3>1, LockKeeps DEF Same
  <2>2. CASE Refuse(c) \/ LeaveGuard(c)
    <3>1. pc[c] \in Locked BY <2>2 DEF Refuse, LeaveGuard, Judged, Locked
    <3>2. c \in Clients
      BY <2>2 DEF Refuse, LeaveGuard, Judged, Actors, ExclusionInv, LockInv
    <3>3. \A d \in Clients : d # c => pc[d] \notin Locked
      BY <3>1, <3>2 DEF ExclusionInv, LockInv
    <3>4. \A d \in Clients : pc'[d] \notin Locked BY <1>2, <1>3, <3>3 DEF Same, Actors
    <3>5. \A d \in Supervisors : job'[d] \notin {"launch", "guard"}
                                 /\ pc'[d] \notin Launching \cup {"guarding"}
      BY <1>2, <1>3 DEF Same, Actors, ExclusionInv, LockInv
    <3> QED BY <3>4, <3>5 DEF LockInv
  <2> QED BY <2>1, <2>2
<1>5. \A w \in Workers : ProcMoves(w) BY <1>1 DEF ProcMoves
<1> QED BY <1>1, <1>2, <1>4, <1>5, ExclusionKeeps

\* Entering the guard on an inactive record, and a launch up to its process.
LEMMA ExclusionLaunch ==
    ASSUME TypeInv, TypeInv', ExclusionInv, UpToDate, NEW c \in Actors,
           EnterGuard(c) \/ Unlock(c) \/ SaveBaseline(c)
    PROVE  ExclusionInv'
<1>1. /\ record' = record /\ proc' = proc /\ latest' = latest
      /\ job' = job /\ seen' = seen /\ mine' = mine
      /\ \A d \in Actors \ {c} : Same(d)
  BY DEF EnterGuard, Unlock, SaveBaseline, Goto, processes, Same, TypeInv, TypeOK
<1>2. \A w \in Workers : ProcMoves(w) BY <1>1 DEF ProcMoves
<1>3. c \in Clients
  BY DEF EnterGuard, Unlock, SaveBaseline, Judged, Launching, Actors, ExclusionInv, LockInv
<1>4. c \notin Supervisors BY <1>3, WorkerBounds
<1>5. CASE EnterGuard(c)
  <2>1. lock' = lock /\ pc[c] = "judged" /\ pc'[c] = "guarding" /\ seen[c].status \notin Active
    BY <1>5 DEF EnterGuard, Judged, Goto, TypeInv, TypeOK
  <2>2. LaunchMoves(c) BY <2>1 DEF LaunchMoves, Launching
  <2>3. \A d \in Actors : LaunchMoves(d) BY <1>1, <2>2 DEF Same, LaunchMoves
  <2>4. Quiet BY <1>3, <2>1 DEF ExclusionInv, JudgementInv
  <2>5. Quiet' BY <1>2, <2>3, <2>4, QuietStays
  <2>6. Fine(c) BY <1>1, <2>1, <2>2, <2>5 DEF Fine
  <2>7. pc[c] \in Locked BY <2>1 DEF Locked
  <2>8. LockInv' BY <1>1, <1>4, <2>1, <2>7, LockKeeps DEF Same
  <2> QED BY <1>1, <1>2, <2>6, <2>8, ExclusionKeeps
<1>6. CASE Unlock(c)
  <2>1. lock' = FALSE /\ pc[c] = "reserved" /\ pc'[c] = "unlocked"
    BY <1>6 DEF Unlock, Goto, TypeInv, TypeOK
  <2>2. Fine(c) BY <1>1, <2>1 DEF Fine, LaunchMoves
  <2>3. pc[c] \in Locked /\ pc'[c] \notin Locked BY <2>1 DEF Locked
  <2>4. \A d \in Clients : d # c => pc[d] \notin Locked
    BY <1>3, <2>3 DEF ExclusionInv, LockInv
  <2>5. \A d \in Clients : pc'[d] \notin Locked BY <1>1, <2>3, <2>4 DEF Same, Actors
  <2>6. \A d \in Supervisors : job'[d] \notin {"launch", "guard"}
                               /\ pc'[d] \notin Launching \cup {"guarding"}
    BY <1>1, <1>4 DEF Same, Actors, ExclusionInv, LockInv
  <2>7. LockInv' BY <2>5, <2>6 DEF LockInv
  <2> QED BY <1>1, <1>2, <2>2, <2>7, ExclusionKeeps
<1>7. CASE SaveBaseline(c)
  <2>1. lock' = lock /\ pc[c] = "unlocked" /\ pc'[c] = "saved"
    BY <1>7 DEF SaveBaseline, Goto, TypeInv, TypeOK
  <2>2. Fine(c) BY <1>1, <2>1 DEF Fine, LaunchMoves
  <2>3. pc'[c] \notin Locked BY <2>1 DEF Locked
  <2>4. LockInv' BY <1>1, <1>4, <2>1, <2>3, LockKeeps DEF Same
  <2> QED BY <1>1, <1>2, <2>2, <2>4, ExclusionKeeps
<1> QED BY <1>5, <1>6, <1>7

\* A reservation finds nothing alive or on its way; its worker is one nobody has had.
LEMMA ExclusionReserve ==
    ASSUME TypeInv, TypeInv', ExclusionInv, UpToDate, NEW c \in Actors, Reserve(c)
    PROVE  ExclusionInv'
<1>1. PICK w \in Unused : record' = Reservation(w) /\ mine' = [mine EXCEPT ![c] = w]
                          /\ proc' = [proc EXCEPT ![w] = "reserved"]
  BY DEF Reserve
<1>2. w \in Workers /\ proc[w] = "none" BY DEF Unused
<1>3. /\ pc[c] = "judged" /\ job[c] = "launch" /\ seen[c].status \notin Active
      /\ pc' = [pc EXCEPT ![c] = "reserved"]
      /\ lock' = lock /\ latest' = latest /\ job' = job /\ seen' = seen
  BY DEF Reserve, Judged, Goto
<1>4. /\ pc'[c] = "reserved" /\ mine'[c] = w /\ proc'[w] = "reserved"
      /\ \A u \in Workers \ {w} : proc'[u] = proc[u]
      /\ \A d \in Actors \ {c} : Same(d)
  BY <1>1, <1>2, <1>3 DEF Same, TypeInv, TypeOK
<1>5. record'.worker = w /\ record'.status \in Active /\ record'.pid = 0
  BY <1>1 DEF Reservation, Active
<1>6. c \in Clients /\ c \notin Supervisors
  BY <1>3, WorkerBounds DEF ExclusionInv, LockInv, Actors
<1>7. Quiet BY <1>3, <1>6 DEF ExclusionInv, JudgementInv
<1>8. pc[c] \in Locked BY <1>3 DEF Locked
<1>9. LockInv'
  <2>1. pc'[c] \in Locked BY <1>4 DEF Locked
  <2> QED BY <1>3, <1>4, <1>6, <1>8, LockKeeps DEF Same
<1>10. \A d \in Actors \ {c} : pc'[d] \in Launching =>
           /\ pc[d] \in Launching /\ mine'[d] = mine[d] /\ mine[d] \in Workers /\ mine[d] # w
           /\ proc'[mine[d]] = proc[mine[d]] /\ proc[mine[d]] \notin Waiting
  <2> SUFFICES ASSUME NEW d \in Actors \ {c}, pc'[d] \in Launching
               PROVE  /\ pc[d] \in Launching /\ mine'[d] = mine[d]
                      /\ mine[d] \in Workers /\ mine[d] # w
                      /\ proc'[mine[d]] = proc[mine[d]] /\ proc[mine[d]] \notin Waiting
    OBVIOUS
  <2>1. pc[d] \in Launching /\ mine'[d] = mine[d] BY <1>4 DEF Same
  <2>2. mine[d] \in Workers /\ mine[d] # w
    BY <1>2, <2>1 DEF TypeInv, NamedInv, Launching
  <2> QED BY <1>4, <1>7, <2>1, <2>2 DEF Quiet
<1>11. LaunchInv'
  <2> SUFFICES ASSUME NEW d \in Actors, pc'[d] \in Launching
               PROVE  /\ \A e \in Actors : pc'[e] \in Launching /\ mine'[e] = mine'[d] => d = e
                      /\ pc'[d] \in {"reserved", "unlocked", "saved"} => proc'[mine'[d]] = "reserved"
                      /\ pc'[d] \in {"spawned", "piped"} => proc'[mine'[d]] \in {"spawned", "dead"}
                      /\ proc'[mine'[d]] \in Waiting =>
                             record'.worker = mine'[d] /\ record'.status \in Active
    BY DEF LaunchInv
  <2>1. CASE d = c
    <3>1. \A e \in Actors : pc'[e] \in Launching /\ mine'[e] = mine'[d] => d = e
      BY <1>4, <1>10, <2>1
    <3> QED BY <1>4, <1>5, <2>1, <3>1
  <2>2. CASE d # c
    <3>1. /\ pc[d] \in Launching /\ mine'[d] = mine[d] /\ mine[d] # w
          /\ proc'[mine[d]] = proc[mine[d]] /\ proc[mine[d]] \notin Waiting
          /\ pc'[d] = pc[d]
      BY <1>4, <1>10, <2>2 DEF Same
    <3>2. /\ \A e \in Actors : pc[e] \in Launching /\ mine[e] = mine[d] => d = e
          /\ pc[d] \in {"reserved", "unlocked", "saved"} => proc[mine[d]] = "reserved"
          /\ pc[d] \in {"spawned", "piped"} => proc[mine[d]] \in {"spawned", "dead"}
      BY <3>1 DEF ExclusionInv, LaunchInv
    <3>3. \A e \in Actors : pc'[e] \in Launching /\ mine'[e] = mine'[d] => d = e
      BY <1>4, <1>10, <3>1, <3>2
    <3> QED BY <3>1, <3>2, <3>3
  <2> QED BY <2>1, <2>2
<1>12. LiveInv'
  BY <1>4, <1>7 DEF LiveInv, Quiet, Live, Under
<1>13. KnownInv'
  <2>1. \A u \in Workers : proc[u] \notin {"none", "reserved"} => proc'[u] \notin {"none", "reserved"}
    BY <1>2, <1>4
  <2>2. \A r \in Record : Known(r) => /\ r.worker <= record'.worker
                                      /\ r.pid # 0 => proc'[r.pid] \notin {"none", "reserved"}
    BY <2>1, KnownKeeps
  <2>3. record \in Record /\ \A d \in Actors : seen[d] \in Record
        /\ \A u \in Workers : latest[u] \in Record
    BY DEF TypeInv, TypeOK
  <2>4. record.worker \in Nat /\ w \in Nat
    BY <1>2, <2>3, RecordFields, WorkerBounds DEF Workers
  <2>5. Known(record)' BY <1>5, <2>4 DEF Known
  <2>6. ASSUME NEW d \in Actors PROVE Known(seen[d])'
    BY <1>3, <2>2, <2>3 DEF ExclusionInv, KnownInv, Known
  <2>7. ASSUME NEW u \in Workers PROVE Known(latest[u])'
    BY <1>3, <2>2, <2>3 DEF ExclusionInv, KnownInv, Known
  <2>8. ASSUME NEW d \in Actors, pc'[d] \in Launching PROVE mine'[d] <= record'.worker
    <3>1. CASE d = c BY <1>4, <1>5, <2>4, <3>1
    <3>2. CASE d # c
      <4>1. pc[d] \in Launching /\ mine'[d] = mine[d] /\ mine[d] \in Nat
        BY <1>10, <2>8, <3>2, WorkerBounds DEF Workers
      <4>2. mine[d] <= record.worker BY <4>1 DEF ExclusionInv, KnownInv
      <4>3. record.worker <= w BY <1>5, <2>4 DEF UpToDate
      <4> QED BY <1>5, <2>4, <4>1, <4>2, <4>3
    <3> QED BY <3>1, <3>2
  <2> QED BY <2>5, <2>6, <2>7, <2>8 DEF KnownInv
<1>14. GoneInv'
  <2> SUFFICES ASSUME NEW d \in Actors, pc'[d] = "reconcile"
               PROVE  seen'[d].pid # 0 /\ proc'[seen'[d].pid] = "dead"
    BY DEF GoneInv
  <2>1. pc[d] = "reconcile" /\ seen'[d] = seen[d] BY <1>4 DEF Same
  <2>2. seen[d].pid # 0 /\ proc[seen[d].pid] = "dead" BY <2>1 DEF ExclusionInv, GoneInv
  <2>3. seen[d].pid \in Workers BY <2>2, RecordFields DEF TypeInv, TypeOK
  <2> QED BY <1>2, <1>4, <2>1, <2>2, <2>3
<1>15. JudgementInv'
  <2>1. \A d \in Clients : d # c => pc[d] \notin Locked
    BY <1>6, <1>8 DEF ExclusionInv, LockInv
  <2>2. \A d \in Clients : pc'[d] \notin {"probe", "reconcile", "judged", "guarding"}
    BY <1>4, <2>1 DEF Same, Actors, Locked
  <2> QED BY <2>2 DEF JudgementInv
<1> QED BY <1>9, <1>11, <1>12, <1>13, <1>14, <1>15 DEF ExclusionInv

\* A process that begins, or is given its request, is the one worker the record names.
LEMMA ExclusionStarts ==
    ASSUME TypeInv, TypeInv', ExclusionInv, UpToDate, NEW c \in Actors, LockInv',
           record' = record, latest' = latest, \A d \in Actors \ {c} : Same(d),
           pc[c] \in Launching, proc[mine[c]] \in Waiting,
           \A u \in Workers : u # mine[c] => proc'[u] = proc[u],
           \/ pc'[c] = "spawned" /\ mine'[c] = mine[c] /\ seen'[c] = seen[c]
              /\ proc'[mine[c]] = "spawned"
           \/ pc'[c] = "idle" /\ Known(seen[c])' /\ proc'[mine[c]] = "booting"
    PROVE  ExclusionInv'
<1>1. mine[c] \in Workers BY DEF TypeInv, NamedInv, Launching
<1>2. record.worker = mine[c] /\ record.status \in Active BY DEF ExclusionInv, LaunchInv
<1>3. ~Quiet BY DEF Quiet
<1>4. \A d \in Actors \ {c} : pc'[d] \in Launching =>
          /\ pc[d] \in Launching /\ pc'[d] = pc[d] /\ mine'[d] = mine[d] /\ mine[d] # mine[c]
          /\ proc'[mine[d]] = proc[mine[d]]
  <2> SUFFICES ASSUME NEW d \in Actors \ {c}, pc'[d] \in Launching
               PROVE  /\ pc[d] \in Launching /\ pc'[d] = pc[d] /\ mine'[d] = mine[d]
                      /\ mine[d] # mine[c] /\ proc'[mine[d]] = proc[mine[d]]
    OBVIOUS
  <2>1. pc[d] \in Launching /\ pc'[d] = pc[d] /\ mine'[d] = mine[d] BY DEF Same
  <2>2. mine[d] \in Workers BY <2>1 DEF TypeInv, NamedInv, Launching
  <2>3. mine[d] # mine[c] BY <2>1 DEF ExclusionInv, LaunchInv
  <2> QED BY <2>1, <2>2, <2>3
<1>5. LaunchInv'
  <2> SUFFICES ASSUME NEW d \in Actors, pc'[d] \in Launching
               PROVE  /\ \A e \in Actors : pc'[e] \in Launching /\ mine'[e] = mine'[d] => d = e
                      /\ pc'[d] \in {"reserved", "unlocked", "saved"} => proc'[mine'[d]] = "reserved"
                      /\ pc'[d] \in {"spawned", "piped"} => proc'[mine'[d]] \in {"spawned", "dead"}
                      /\ proc'[mine'[d]] \in Waiting =>
                             record'.worker = mine'[d] /\ record'.status \in Active
    BY DEF LaunchInv
  <2>1. CASE d = c
    <3>1. pc'[c] = "spawned" /\ mine'[c] = mine[c] /\ proc'[mine[c]] = "spawned"
      BY <2>1 DEF Launching
    <3> QED BY <1>2, <1>4, <2>1, <3>1
  <2>2. CASE d # c
    <3>1. /\ pc[d] \in Launching /\ pc'[d] = pc[d] /\ mine'[d] = mine[d] /\ mine[d] # mine[c]
          /\ proc'[mine[d]] = proc[mine[d]]
      BY <1>4, <2>2
    <3>2. /\ \A e \in Actors : pc[e] \in Launching /\ mine[e] = mine[d] => d = e
          /\ pc[d] \in {"reserved", "unlocked", "saved"} => proc[mine[d]] = "reserved"
          /\ pc[d] \in {"spawned", "piped"} => proc[mine[d]] \in {"spawned", "dead"}
          /\ proc[mine[d]] \in Waiting => record.worker = mine[d] /\ record.status \in Active
      BY <3>1 DEF ExclusionInv, LaunchInv
    <3>3. pc'[c] \in Launching => mine'[c] = mine[c] BY DEF Launching
    <3>4. \A e \in Actors : pc'[e] \in Launching /\ mine'[e] = mine'[d] => d = e
      BY <1>4, <3>1, <3>2, <3>3
    <3> QED BY <3>1, <3>2, <3>4
  <2> QED BY <2>1, <2>2
<1>6. LiveInv'
  <2> SUFFICES ASSUME NEW w \in Workers, Live(w)'
               PROVE  record'.worker = w /\ record'.status \in Active
    BY DEF LiveInv
  <2>1. CASE w = mine[c] BY <1>2, <2>1
  <2>2. CASE w # mine[c]
    <3>1. Live(w) BY <2>2 DEF Live
    <3> QED BY <3>1 DEF ExclusionInv, LiveInv
  <2> QED BY <2>1, <2>2
<1>7. \A u \in Workers : proc[u] \notin {"none", "reserved"} => proc'[u] \notin {"none", "reserved"}
  <2>1. proc'[mine[c]] \notin {"none", "reserved"} OBVIOUS
  <2> QED BY <2>1
<1>8. KnownInv'
  <2>1. \A r \in Record : Known(r) => /\ r.worker <= record'.worker
                                      /\ r.pid # 0 => proc'[r.pid] \notin {"none", "reserved"}
    BY <1>7, KnownKeeps
  <2>2. record \in Record /\ \A d \in Actors : seen[d] \in Record
        /\ \A u \in Workers : latest[u] \in Record
    BY DEF TypeInv, TypeOK
  <2>3. Known(record)' BY <2>1, <2>2 DEF ExclusionInv, KnownInv, Known
  <2>4. ASSUME NEW d \in Actors PROVE Known(seen[d])'
    <3>1. CASE seen'[d] = seen[d] BY <2>1, <2>2, <3>1 DEF ExclusionInv, KnownInv, Known
    <3>2. CASE seen'[d] # seen[d] BY <3>2 DEF Same
    <3> QED BY <3>1, <3>2
  <2>5. ASSUME NEW u \in Workers PROVE Known(latest[u])'
    BY <2>1, <2>2 DEF ExclusionInv, KnownInv, Known
  <2>6. ASSUME NEW d \in Actors, pc'[d] \in Launching PROVE mine'[d] <= record'.worker
    <3>1. pc[d] \in Launching /\ mine'[d] = mine[d]
      <4>1. CASE d = c BY <2>6, <4>1 DEF Launching
      <4>2. CASE d # c BY <1>4, <2>6, <4>2
      <4> QED BY <4>1, <4>2
    <3> QED BY <3>1 DEF ExclusionInv, KnownInv
  <2> QED BY <2>3, <2>4, <2>5, <2>6 DEF KnownInv
<1>9. GoneInv'
  <2> SUFFICES ASSUME NEW d \in Actors, pc'[d] = "reconcile"
               PROVE  seen'[d].pid # 0 /\ proc'[seen'[d].pid] = "dead"
    BY DEF GoneInv
  <2>1. pc[d] = "reconcile" /\ seen'[d] = seen[d] BY DEF Same
  <2>2. seen[d].pid # 0 /\ proc[seen[d].pid] = "dead" BY <2>1 DEF ExclusionInv, GoneInv
  <2>3. seen[d].pid \in Workers BY <2>2, RecordFields DEF TypeInv, TypeOK
  <2>4. seen[d].pid # mine[c] BY <2>2 DEF Waiting
  <2> QED BY <2>1, <2>2, <2>3, <2>4
<1>10. JudgementInv'
  <2> SUFFICES ASSUME NEW d \in Clients
               PROVE  /\ pc'[d] \in {"probe", "reconcile", "judged"} =>
                            /\ seen'[d].worker = record'.worker
                            /\ seen'[d].status \notin Active => Quiet'
                      /\ pc'[d] = "guarding" => Quiet'
    BY DEF JudgementInv
  <2>1. CASE d = c BY <2>1
  <2>2. CASE d # c
    <3>1. pc'[d] = pc[d] /\ seen'[d] = seen[d] BY <2>2 DEF Same, Actors
    <3> QED BY <1>3, <3>1 DEF ExclusionInv, JudgementInv
  <2> QED BY <2>1, <2>2
<1> QED BY <1>5, <1>6, <1>8, <1>9, <1>10 DEF ExclusionInv


\* A launch from its process to its end: what it writes is of its own worker, which the
\* record names unless the write is stale.
LEMMA ExclusionLaunched ==
    ASSUME TypeInv, TypeInv', ExclusionInv, UpToDate, NEW c \in Actors,
           \/ Spawn(c) \/ SpawnFails(c) \/ RecordPid(c) \/ SendRequest(c) \/ BrokenPipe(c)
    PROVE  ExclusionInv'
<1>1. /\ latest' = latest /\ lock' = lock
      /\ pc[c] \in {"saved", "spawned", "piped"} /\ pc[c] \in Launching
      /\ mine[c] \in Workers
  <2>1. /\ latest' = latest /\ lock' = lock
        /\ pc[c] \in {"saved", "spawned", "piped"}
    BY DEF Spawn, SpawnFails, RecordPid, SendRequest, BrokenPipe, LaunchFailed, processes
  <2> QED BY <2>1 DEF Launching, TypeInv, NamedInv
<1>2. c \in Clients /\ c \notin Supervisors
  BY <1>1, WorkerBounds DEF ExclusionInv, LockInv, Actors
<1>3. /\ pc[c] = "saved" => proc[mine[c]] = "reserved"
      /\ pc[c] \in {"spawned", "piped"} => proc[mine[c]] \in {"spawned", "dead"}
      /\ proc[mine[c]] \in Waiting => record.worker = mine[c] /\ record.status \in Active
      /\ \A d \in Actors : pc[d] \in Launching /\ mine[d] = mine[c] => c = d
      /\ mine[c] <= record.worker
  BY <1>1 DEF ExclusionInv, LaunchInv, KnownInv
<1>4. record.worker \in Nat /\ record'.worker \in Nat /\ mine[c] \in Nat
  BY <1>1, RecordFields, WorkerBounds DEF Workers, TypeInv, TypeOK
<1>5. record'.worker = mine[c] => record'.worker = record.worker
  BY <1>3, <1>4 DEF UpToDate
<1>6. ASSUME LaunchFailed(c)
      PROVE  /\ record'.worker = mine[c] /\ record'.pid = 0 /\ record'.status = "failed"
             /\ proc' = proc /\ EndTask(c)
  BY <1>6 DEF LaunchFailed, Reservation, processes
<1>7. ASSUME EndTask(c)
      PROVE  LockInv' /\ Fine(c) /\ \A d \in Actors \ {c} : Same(d)
  <2>1. /\ pc'[c] = "idle" /\ job'[c] = "none" /\ Fine(c)
        /\ \A d \in Actors \ {c} : Same(d)
    BY <1>7, EndsFine
  <2>2. pc'[c] \notin Locked BY <2>1 DEF Locked
  <2>3. LockInv' BY <1>1, <1>2, <2>1, <2>2, LockKeeps DEF Same
  <2> QED BY <2>1, <2>3
<1>8. ASSUME pc'[c] \in {"spawned", "piped"}, job' = job, \A d \in Actors \ {c} : Same(d)
      PROVE  LockInv'
  <2>1. pc'[c] \notin Locked BY <1>8 DEF Locked
  <2> QED BY <1>1, <1>2, <1>8, <2>1, LockKeeps DEF Same
<1>9. CASE Spawn(c)
  <2>1. /\ record' = record /\ job' = job /\ pc[c] = "saved" /\ pc'[c] = "spawned"
        /\ mine'[c] = mine[c] /\ seen'[c] = seen[c] /\ \A d \in Actors \ {c} : Same(d)
    BY <1>9 DEF Spawn, Goto, Same, TypeInv, TypeOK
  <2>2. proc'[mine[c]] = "spawned" /\ \A u \in Workers : u # mine[c] => proc'[u] = proc[u]
    BY <1>1, <1>9 DEF Spawn, TypeInv, TypeOK
  <2>3. proc[mine[c]] \in Waiting BY <1>3, <2>1 DEF Waiting
  <2>4. LockInv' BY <1>8, <2>1
  <2> QED BY <1>1, <2>1, <2>2, <2>3, <2>4, ExclusionStarts
<1>10. CASE SendRequest(c)
  <2>1. record' = record /\ pc[c] = "piped" /\ proc[mine[c]] = "spawned" /\ EndTask(c)
    BY <1>10 DEF SendRequest
  <2>2. proc'[mine[c]] = "booting" /\ \A u \in Workers : u # mine[c] => proc'[u] = proc[u]
    BY <1>1, <1>10 DEF SendRequest, TypeInv, TypeOK
  <2>3. proc[mine[c]] \in Waiting BY <2>1 DEF Waiting
  <2>4. /\ pc'[c] = "idle" /\ seen'[c] = NoRecord
    BY <2>1 DEF EndTask, Goto, TypeInv, TypeOK
  <2>5. Known(seen[c])' BY <1>4, <2>4 DEF Known, NoRecord
  <2>6. LockInv' /\ \A d \in Actors \ {c} : Same(d) BY <1>7, <2>1
  <2> QED BY <1>1, <2>1, <2>2, <2>3, <2>4, <2>5, <2>6, ExclusionStarts
<1>11. CASE RecordPid(c)
  <2>1. /\ proc' = proc /\ job' = job /\ pc[c] = "spawned" /\ pc'[c] = "piped"
        /\ mine'[c] = mine[c] /\ seen'[c] = seen[c] /\ \A d \in Actors \ {c} : Same(d)
    BY <1>11 DEF RecordPid, Goto, Same, TypeInv, TypeOK, processes
  <2>2. record'.worker = mine[c] /\ record'.pid = mine[c] /\ record'.status \in Active
    BY <1>11 DEF RecordPid, Reservation, Active
  <2>3. \A w \in Workers : ProcMoves(w) BY <2>1 DEF ProcMoves
  <2>4. Fine(c) BY <2>1 DEF Fine, LaunchMoves
  <2>5. Known(record)' BY <1>3, <1>4, <2>1, <2>2 DEF Known
  <2>6. LockInv' BY <1>8, <2>1
  <2> QED BY <1>1, <1>5, <2>1, <2>2, <2>3, <2>4, <2>5, <2>6, ExclusionKeeps
<1>12. CASE BrokenPipe(c)
  <2>1. LaunchFailed(c) /\ proc[mine[c]] = "dead" BY <1>12 DEF BrokenPipe
  <2>2. /\ record'.worker = mine[c] /\ record'.pid = 0
        /\ proc' = proc /\ EndTask(c)
    BY <1>6, <2>1
  <2>3. LockInv' /\ Fine(c) /\ \A d \in Actors \ {c} : Same(d) BY <1>7, <2>2
  <2>4. \A w \in Workers : ProcMoves(w) BY <2>2 DEF ProcMoves
  <2>5. Quiet BY <1>1, <1>5, <2>1, <2>2, GoneIsQuiet
  <2>6. \A d \in Actors : LaunchMoves(d) BY <2>3 DEF Fine, Same, LaunchMoves
  <2>7. Quiet' BY <2>4, <2>5, <2>6, QuietStays
  <2>8. Known(record)' BY <1>4, <2>2 DEF Known
  <2> QED BY <1>1, <1>5, <2>2, <2>3, <2>4, <2>7, <2>8, ExclusionKeeps
<1>13. CASE SpawnFails(c)
  <2>1. LaunchFailed(c) /\ pc[c] = "saved" BY <1>13 DEF SpawnFails
  <2>2. /\ record'.worker = mine[c] /\ record'.pid = 0
        /\ proc' = proc /\ EndTask(c)
    BY <1>6, <2>1
  <2>3. LockInv' /\ Fine(c) /\ \A d \in Actors \ {c} : Same(d) BY <1>7, <2>2
  <2>4. pc'[c] = "idle" BY <2>2 DEF EndTask, Goto, TypeInv, TypeOK
  <2>5. proc[mine[c]] = "reserved" /\ record.worker = mine[c] BY <1>3, <2>1 DEF Waiting
  <2>6. \A w \in Workers : ~Live(w)
    BY <2>5 DEF ExclusionInv, LiveInv, Live, Under
  <2>7. \A d \in Actors : pc'[d] \in Launching => proc'[mine'[d]] \notin Waiting
    <3> SUFFICES ASSUME NEW d \in Actors, pc'[d] \in Launching, proc'[mine'[d]] \in Waiting
                 PROVE  FALSE
      OBVIOUS
    <3>1. d # c BY <2>4 DEF Launching
    <3>2. pc[d] \in Launching /\ mine'[d] = mine[d] BY <2>3, <3>1 DEF Same
    <3>3. record.worker = mine[d] BY <2>2, <3>2 DEF ExclusionInv, LaunchInv
    <3> QED BY <1>3, <2>5, <3>1, <3>2, <3>3
  <2>8. Quiet' BY <2>2, <2>6, <2>7 DEF Quiet, Live
  <2>9. Known(record)' BY <1>4, <2>2 DEF Known
  <2>10. \A w \in Workers : ProcMoves(w) BY <2>2 DEF ProcMoves
  <2> QED BY <1>1, <1>5, <2>2, <2>3, <2>8, <2>9, <2>10, ExclusionKeeps
<1> QED BY <1>9, <1>10, <1>11, <1>12, <1>13

\* A process that ends is one that lived or was dead already.
LEMMA ExitMoves ==
    ASSUME TypeInv, NEW w \in Workers, Exit(w), proc[w] \notin {"none", "reserved"}
    PROVE  /\ \A u \in Workers : ProcMoves(u)
           /\ proc'[w] = "dead" /\ latest'[w] = NoRecord
           /\ \A u \in Workers \ {w} : proc'[u] = proc[u] /\ latest'[u] = latest[u]
<1>1. /\ proc'[w] = "dead" /\ latest'[w] = NoRecord
      /\ \A u \in Workers \ {w} : proc'[u] = proc[u] /\ latest'[u] = latest[u]
  BY DEF Exit, TypeInv, TypeOK
<1>2. proc[w] = "dead" \/ Live(w) BY DEF TypeInv, TypeOK, Live, Under
<1>3. ProcMoves(w) BY <1>1, <1>2 DEF ProcMoves
<1>4. \A u \in Workers \ {w} : ProcMoves(u) BY <1>1 DEF ProcMoves
<1> QED BY <1>1, <1>3, <1>4

\* What is forgotten is known.
LEMMA NothingKnown == ASSUME TypeInv', NEW r, r = NoRecord
                      PROVE  r.worker <= record'.worker /\ r.pid = 0
<1>1. record'.worker \in 0 .. MaxWorkers /\ MaxWorkers \in Nat
  BY RecordFields, WorkerBounds DEF TypeInv, TypeOK
<1> QED BY <1>1 DEF NoRecord

\* Cancelling writes about the recorded worker, unless the write is stale, and ends it.
LEMMA ExclusionCancel ==
    ASSUME TypeInv, TypeInv', ExclusionInv, UpToDate, NEW c \in Actors,
           RecordCancel(c) \/ Kill(c) \/ KillFails(c)
    PROVE  ExclusionInv'
<1>1. lock' = lock BY DEF RecordCancel, Kill, KillFails
<1>2. seen[c] \in Record /\ record \in Record /\ record' \in Record /\ seen'[c] \in Record
  BY DEF TypeInv, TypeOK
<1>3. seen[c].worker \in Nat /\ record.worker \in Nat /\ record'.worker \in Nat
  BY <1>2, RecordFields, WorkerBounds
<1>4. Known(seen[c]) BY DEF ExclusionInv, KnownInv
<1>5. record'.worker = seen[c].worker => record'.worker = record.worker
  BY <1>3, <1>4 DEF Known, UpToDate
<1>6. CASE RecordCancel(c)
  <2>1. /\ proc' = proc /\ latest' = latest /\ job' = job
        /\ pc[c] = "judged" /\ pc'[c] = "killing" /\ mine'[c] = mine[c]
        /\ \A d \in Actors \ {c} : Same(d)
    BY <1>6 DEF RecordCancel, Judged, Goto, processes, Same, TypeInv, TypeOK
  <2>2. /\ record' = seen'[c] /\ record'.worker = seen[c].worker /\ record'.pid = seen[c].pid
        /\ record'.status \in Active
    <3>1. seen'[c] = [seen[c] EXCEPT !.status = "cancelling", !.cancel = TRUE]
          /\ record' = seen'[c]
      BY <1>6 DEF RecordCancel, TypeInv, TypeOK
    <3> QED BY <1>2, <3>1 DEF Record, Active
  <2>3. \A w \in Workers : ProcMoves(w) BY <2>1 DEF ProcMoves
  <2>4. Known(record)' BY <1>3, <1>4, <2>1, <2>2 DEF Known
  <2>5. Known(seen[c])' BY <2>2, <2>4 DEF Known
  <2>6. LaunchMoves(c) BY <2>1 DEF LaunchMoves, Launching
  <2>7. Fine(c) BY <2>1, <2>5, <2>6 DEF Fine
  <2>8. LockInv'
    <3>1. pc'[c] \notin Locked /\ pc'[c] \notin Launching \cup {"guarding"}
      BY <2>1 DEF Locked, Launching
    <3> QED BY <1>1, <2>1, <3>1, LockKeeps DEF Same
  <2> QED BY <1>5, <2>1, <2>2, <2>3, <2>4, <2>7, <2>8, ExclusionKeeps
<1>7. CASE Kill(c) \/ KillFails(c)
  <2>1. pc[c] = "killing" /\ EndTask(c) BY <1>7 DEF Kill, KillFails
  <2>2. /\ pc'[c] = "idle" /\ job'[c] = "none" /\ Fine(c)
        /\ \A d \in Actors \ {c} : Same(d)
    BY <2>1, EndsFine
  <2>3. LockInv'
    <3>1. pc'[c] \notin Locked /\ pc'[c] \notin Launching \cup {"guarding"}
      BY <2>2 DEF Locked, Launching
    <3> QED BY <1>1, <2>2, <3>1, LockKeeps DEF Same
  <2>4. seen[c].status = "cancelling" BY <2>1 DEF TypeInv, NamedInv
  <2>5. seen[c].pid # 0 BY <1>2, <2>4, RecordFields
  <2>6. seen[c].pid \in Workers /\ seen[c].worker = seen[c].pid
    BY <1>2, <2>5, RecordFields
  <2>7. proc[seen[c].pid] \notin {"none", "reserved"} BY <1>4, <2>5 DEF Known
  <2>8. CASE Kill(c)
    <3>1. record' = record /\ Exit(seen[c].pid) BY <2>8 DEF Kill
    <3>2. PICK w \in Workers : w = seen[c].pid BY <2>6
    <3>3. /\ \A u \in Workers : ProcMoves(u)
          /\ proc'[w] = "dead" /\ latest'[w] = NoRecord
          /\ \A u \in Workers \ {w} : proc'[u] = proc[u] /\ latest'[u] = latest[u]
      BY <2>7, <3>1, <3>2, ExitMoves
    <3>4. Known(latest[w])'
      BY <3>3, NothingKnown DEF Known
    <3>5. \A u \in Workers : latest'[u] = latest[u] \/ Known(latest[u])'
      BY <3>3, <3>4
    <3> QED BY <2>2, <2>3, <3>1, <3>3, <3>5, ExclusionKeeps
  <2>9. CASE KillFails(c)
    <3>1. /\ record' = [seen[c] EXCEPT !.status = "failed"]
          /\ proc' = proc /\ latest' = latest /\ ~Alive(seen[c].pid)
      BY <2>9 DEF KillFails, processes
    <3>2. record'.worker = seen[c].worker /\ record'.pid = seen[c].pid
      BY <1>2, <3>1 DEF Record
    <3>3. proc[seen[c].pid] = "dead" BY <2>6, <2>7, <2>5, <3>1 DEF Alive, Gone
    <3>4. Quiet BY <1>5, <2>6, <3>2, <3>3, GoneIsQuiet
    <3>5. \A w \in Workers : ProcMoves(w) BY <3>1 DEF ProcMoves
    <3>6. \A d \in Actors : LaunchMoves(d) BY <2>2 DEF Fine, Same, LaunchMoves
    <3>7. Quiet' BY <3>4, <3>5, <3>6, QuietStays
    <3>8. Known(record)' BY <1>3, <1>4, <3>1, <3>2 DEF Known
    <3> QED BY <1>5, <2>2, <2>3, <3>1, <3>2, <3>5, <3>7, <3>8, ExclusionKeeps
  <2> QED BY <1>7, <2>8, <2>9
<1> QED BY <1>6, <1>7

\* What a worker writes is of itself, and it is the recorded one while it lives.
LEMMA ExclusionWork ==
    ASSUME TypeInv, TypeInv', ExclusionInv, UpToDate, NEW w \in Workers, WorkerStep(w)
    PROVE  ExclusionInv'
<1>1. /\ lock' = lock /\ pc' = pc /\ job' = job /\ seen' = seen /\ mine' = mine
      /\ proc[w] \in Under
  BY DEF WorkerStep, Boot, BeginExecution, EndExecution, Report, Under
<1>2. \A d \in Actors : Same(d) BY <1>1 DEF Same
<1>3. LockInv' BY <1>1 DEF ExclusionInv, LockInv
<1>4. record.worker = w /\ record.status \in Active
  BY <1>1 DEF ExclusionInv, LiveInv, Live
<1>5. record \in Record /\ latest[w] \in Record /\ record' \in Record
  BY DEF TypeInv, TypeOK
<1>6. Known(record) /\ Known(latest[w]) BY DEF ExclusionInv, KnownInv
<1>7. w \in Nat /\ record'.worker \in Nat /\ latest[w].worker \in Nat
  BY <1>5, RecordFields, WorkerBounds DEF Workers
<1>8. proc[w] \notin {"none", "reserved"} BY <1>1 DEF Under
<1>9. ASSUME Exit(w)
      PROVE  /\ \A u \in Workers : ProcMoves(u)
             /\ \A u \in Workers : latest'[u] = latest[u] \/ Known(latest[u])'
             /\ proc'[w] = "dead" /\ \A u \in Workers \ {w} : proc'[u] = proc[u]
  <2>1. /\ \A u \in Workers : ProcMoves(u)
        /\ proc'[w] = "dead" /\ latest'[w] = NoRecord
        /\ \A u \in Workers \ {w} : proc'[u] = proc[u] /\ latest'[u] = latest[u]
    BY <1>8, <1>9, ExitMoves
  <2>2. Known(latest[w])' BY <2>1, NothingKnown DEF Known
  <2> QED BY <2>1, <2>2
<1>10. CASE Boot(w)
  <2>1. /\ record' = record /\ proc' = [proc EXCEPT ![w] = "booted"]
        /\ latest' = [latest EXCEPT ![w] = record]
    BY <1>4, <1>10 DEF Boot
  <2>2. \A u \in Workers : ProcMoves(u)
    BY <1>1, <2>1 DEF ProcMoves, Under, TypeInv, TypeOK
  <2>3. proc'[w] = "booted" /\ \A u \in Workers \ {w} : proc'[u] = proc[u] /\ latest'[u] = latest[u]
    BY <2>1 DEF TypeInv, TypeOK
  <2>4. latest'[w] = record BY <2>1 DEF TypeInv, TypeOK
  <2>5. record.pid # 0 => record.pid \in Workers BY <1>5, RecordFields
  <2>6. Known(latest[w])' BY <1>6, <2>1, <2>3, <2>4, <2>5 DEF Known
  <2> QED BY <1>2, <1>3, <2>1, <2>2, <2>3, <2>6, ExclusionKeeps
<1>11. CASE BeginExecution(w)
  <2>1. /\ record' = [latest[w] EXCEPT !.status = "running", !.pid = w]
        /\ proc' = [proc EXCEPT ![w] = "running"] /\ latest' = [latest EXCEPT ![w] = NoRecord]
        /\ proc[w] = "booted"
    BY <1>11 DEF BeginExecution
  <2>2. latest[w].worker = w BY <2>1 DEF TypeInv, NamedInv
  <2>3. record'.worker = w /\ record'.pid = w /\ record'.status \in Active
    BY <1>5, <2>1, <2>2 DEF Record, Active
  <2>4. \A u \in Workers : ProcMoves(u)
    BY <1>1, <2>1 DEF ProcMoves, Under, TypeInv, TypeOK
  <2>5. /\ proc'[w] = "running" /\ latest'[w] = NoRecord
        /\ \A u \in Workers \ {w} : latest'[u] = latest[u]
    BY <2>1 DEF TypeInv, TypeOK
  <2>6. Known(record)' BY <1>7, <2>3, <2>5 DEF Known
  <2>7. Known(latest[w])' BY <2>5, NothingKnown DEF Known
  <2>8. \A u \in Workers : latest'[u] = latest[u] \/ Known(latest[u])' BY <2>5, <2>7
  <2> QED BY <1>2, <1>3, <1>4, <2>3, <2>4, <2>6, <2>8, ExclusionKeeps
<1>12. CASE \E outcome \in {"succeeded", "failed"} : EndExecution(w, outcome)
  <2>1. PICK outcome \in {"succeeded", "failed"} : EndExecution(w, outcome) BY <1>12
  <2>2. /\ record' = record /\ proc' = [proc EXCEPT ![w] = "reporting"]
        /\ latest' = [latest EXCEPT ![w] =
               [record EXCEPT !.status = IF record.cancel THEN "cancelled" ELSE outcome]]
    BY <2>1 DEF EndExecution
  <2>3. \A u \in Workers : ProcMoves(u)
    BY <1>1, <2>2 DEF ProcMoves, Under, TypeInv, TypeOK
  <2>4. /\ proc'[w] = "reporting"
        /\ \A u \in Workers \ {w} : proc'[u] = proc[u] /\ latest'[u] = latest[u]
    BY <2>2 DEF TypeInv, TypeOK
  <2>5. latest'[w].worker = record.worker /\ latest'[w].pid = record.pid
    BY <1>5, <2>2 DEF TypeInv, TypeOK, Record
  <2>6. record.pid # 0 => record.pid \in Workers BY <1>5, RecordFields
  <2>7. Known(latest[w])' BY <1>6, <2>2, <2>4, <2>5, <2>6 DEF Known
  <2> QED BY <1>2, <1>3, <2>2, <2>3, <2>4, <2>7, ExclusionKeeps
<1>13. CASE Report(w)
  <2>1. record' = latest[w] /\ Exit(w) BY <1>13 DEF Report
  <2>2. /\ \A u \in Workers : ProcMoves(u)
        /\ \A u \in Workers : latest'[u] = latest[u] \/ Known(latest[u])'
        /\ proc'[w] = "dead" /\ \A u \in Workers \ {w} : proc'[u] = proc[u]
    BY <1>9, <2>1
  <2>3. record'.worker = record.worker
    BY <1>4, <1>6, <1>7, <2>1 DEF Known, UpToDate
  <2>4. \A u \in Workers : ~Live(u)'
    <3>1. ~Live(w)' BY <2>2 DEF Live, Under
    <3>2. \A u \in Workers \ {w} : ~Live(u) BY <1>4 DEF ExclusionInv, LiveInv
    <3> QED BY <2>2, <3>1, <3>2 DEF Live
  <2>5. \A d \in Actors : pc'[d] \in Launching => proc'[mine'[d]] \notin Waiting
    <3> SUFFICES ASSUME NEW d \in Actors, pc'[d] \in Launching, proc'[mine'[d]] \in Waiting
                 PROVE  FALSE
      OBVIOUS
    <3>1. pc[d] \in Launching /\ mine'[d] = mine[d] /\ mine[d] \in Workers
      BY <1>1 DEF TypeInv, NamedInv, Launching
    <3>2. mine[d] # w BY <2>2, <3>1 DEF Waiting
    <3>3. proc[mine[d]] \in Waiting BY <2>2, <3>1, <3>2
    <3> QED BY <1>4, <3>1, <3>2, <3>3 DEF ExclusionInv, LaunchInv
  <2>6. Quiet' BY <2>4, <2>5 DEF Quiet
  <2>7. record'.pid # 0 => record'.pid \in Workers BY <1>5, RecordFields
  <2>8. record'.pid # 0 => proc'[record'.pid] \notin {"none", "reserved"}
    BY <1>6, <2>1, <2>2, <2>7 DEF Known
  <2>9. Known(record)' BY <1>7, <2>8 DEF Known
  <2> QED BY <1>2, <1>3, <2>2, <2>3, <2>6, <2>9, ExclusionKeeps
<1> QED BY <1>10, <1>11, <1>12, <1>13 DEF WorkerStep

\* A death takes its lock file and its record with nobody: both stay as they are.
LEMMA ExclusionDeath ==
    ASSUME TypeInv, TypeInv', ExclusionInv, UpToDate
    PROVE  /\ \A c \in Actors : ClientDies(c) => ExclusionInv'
           /\ \A w \in Workers : WorkerDies(w) => ExclusionInv'
<1>1. ASSUME NEW c \in Actors, ClientDies(c) PROVE ExclusionInv'
  <2>1. lock' = lock /\ record' = record /\ latest' = latest /\ EndTask(c)
    BY <1>1 DEF ClientDies
  <2>2. /\ pc'[c] = "idle" /\ job'[c] = "none" /\ Fine(c)
        /\ \A d \in Actors \ {c} : Same(d)
    BY <2>1, EndsFine
  <2>3. LockInv'
    <3>1. pc'[c] \notin Locked /\ pc'[c] \notin Launching \cup {"guarding"}
      BY <2>2 DEF Locked, Launching
    <3> QED BY <2>1, <2>2, <3>1, LockKeeps DEF Same
  <2>4. \A w \in Workers : ProcMoves(w)
    <3>1. proc' = proc \/ (/\ mine[c] \in Workers /\ proc[mine[c]] = "spawned"
                           /\ proc' = [proc EXCEPT ![mine[c]] = "dead"])
      BY <1>1 DEF ClientDies, TypeInv, NamedInv
    <3> QED BY <3>1 DEF ProcMoves, Live, TypeInv, TypeOK
  <2> QED BY <2>1, <2>2, <2>3, <2>4, ExclusionKeeps
<1>2. ASSUME NEW w \in Workers, WorkerDies(w) PROVE ExclusionInv'
  <2>1. /\ lock' = lock /\ record' = record /\ pc' = pc /\ job' = job /\ seen' = seen
        /\ mine' = mine /\ Exit(w) /\ proc[w] \in DeathPoints
    BY <1>2 DEF WorkerDies
  <2>2. proc[w] \notin {"none", "reserved"} BY <2>1, WorkerBounds
  <2>3. /\ \A u \in Workers : ProcMoves(u)
        /\ proc'[w] = "dead" /\ latest'[w] = NoRecord
        /\ \A u \in Workers \ {w} : proc'[u] = proc[u] /\ latest'[u] = latest[u]
    BY <2>1, <2>2, ExitMoves
  <2>4. Known(latest[w])' BY <2>3, NothingKnown DEF Known
  <2>5. \A u \in Workers : latest'[u] = latest[u] \/ Known(latest[u])' BY <2>3, <2>4
  <2>6. \A d \in Actors : Same(d) BY <2>1 DEF Same
  <2>7. LockInv' BY <2>1 DEF ExclusionInv, LockInv
  <2> QED BY <2>1, <2>3, <2>5, <2>6, <2>7, ExclusionKeeps
<1> QED BY <1>1, <1>2

\* Every step whose write is not stale keeps the exclusion.
LEMMA ExclusionNext ==
    TypeInv /\ ExclusionInv /\ [Next]_vars /\ [UpToDate]_vars => ExclusionInv'
<1> SUFFICES ASSUME TypeInv, ExclusionInv, [Next]_vars, [UpToDate]_vars PROVE ExclusionInv'
  OBVIOUS
<1>1. TypeInv' BY TypeNext
<1>2. CASE UNCHANGED vars
  <2>1. LockInv' /\ GoneInv'
    BY <1>2 DEF vars, ExclusionInv, LockInv, GoneInv
  <2>2. LaunchInv' BY <1>2 DEF vars, ExclusionInv, LaunchInv
  <2>3. LiveInv' BY <1>2 DEF vars, ExclusionInv, LiveInv, Live
  <2>4. KnownInv' BY <1>2 DEF vars, ExclusionInv, KnownInv, Known
  <2>5. JudgementInv' BY <1>2 DEF vars, ExclusionInv, JudgementInv, Quiet, Live
  <2> QED BY <2>1, <2>2, <2>3, <2>4, <2>5 DEF ExclusionInv
<1>3. CASE Next /\ UpToDate
  <2>1. ASSUME NEW c \in Actors, NEW task \in {"launch", "guard"},
               c \in Clients /\ TakeLock(c, task)
        PROVE  ExclusionInv'
    BY <1>1, <1>3, <2>1, ExclusionBegin
  <2>2. ASSUME NEW c \in Actors, NEW task \in {"observe", "cancel"},
               c \in Supervisors /\ Approach(c, task)
        PROVE  ExclusionInv'
    BY <1>1, <1>3, <2>2, ExclusionBegin
  <2>3. ASSUME NEW c \in Actors, ClientStep(c) \/ SpawnFails(c) \/ KillFails(c)
        PROVE  ExclusionInv'
    BY <1>1, <1>3, <2>3, ExclusionObserve, ExclusionEnd, ExclusionLaunch, ExclusionReserve,
       ExclusionLaunched, ExclusionCancel, Zenon DEF ClientStep
  <2>4. ASSUME NEW w \in Workers, WorkerStep(w) PROVE ExclusionInv'
    BY <1>1, <1>3, <2>4, ExclusionWork
  <2> QED BY <1>1, <1>3, <2>1, <2>2, <2>3, <2>4, NextSteps, ExclusionDeath, Zenon
<1> QED BY <1>2, <1>3

\* The exclusion holds throughout, as long as no write puts an earlier worker's record back.
THEOREM ExclusionInvariance == Spec /\ [][UpToDate]_vars => []ExclusionInv
<1>1. Init => ExclusionInv BY ExclusionInit
<1>2. TypeInv /\ ExclusionInv /\ [Next]_vars /\ [UpToDate]_vars => ExclusionInv'
  BY ExclusionNext
<1> QED BY <1>1, <1>2, TypeInvariance, PTL DEF Spec

\* However many clients launch, whoever observes and cancels without the lock and whatever
\* dies, two processes never execute the Run at once, unless a write puts an earlier
\* worker's record back over a later one's.
THEOREM OneExecutionCorrect == Spec /\ [][UpToDate]_vars => []OneExecution
<1>1. ASSUME TypeInv, ExclusionInv PROVE OneExecution
  <2>1. Executing \subseteq {record.worker}
    BY <1>1 DEF ExclusionInv, LiveInv, Live, Under, Executing
  <2>2. IsFiniteSet({record.worker}) /\ Cardinality({record.worker}) = 1 BY FS_Singleton
  <2>3. Cardinality(Executing) <= Cardinality({record.worker})
    <3>1. Executing \in SUBSET {record.worker} BY <2>1
    <3> QED BY <2>2, <3>1, FS_Subset, Zenon
  <2> QED BY <2>2, <2>3 DEF OneExecution
<1> QED BY <1>1, ExclusionInvariance, TypeInvariance, PTL

\* Nor does a worker execute the Run, or come to it, while a human action is persisted
\* behind the guard, on the same condition and no other.
THEOREM GuardCorrect == Spec /\ [][UpToDate]_vars => []GuardExcludesWork
<1>1. ASSUME ExclusionInv PROVE GuardExcludesWork
  BY <1>1 DEF ExclusionInv, JudgementInv, Quiet, Live, Under, GuardExcludesWork, Actors
<1> QED BY <1>1, ExclusionInvariance, PTL

-----------------------------------------------------------------------------
(* Observation: what a client consumes *)

\* In a finite set of naturals, every place is somebody's.
LEMMA PlacesTaken ==
    ASSUME NEW S \in SUBSET Nat, IsFiniteSet(S), NEW k \in 1..Cardinality(S)
    PROVE  \E i \in S : Cardinality({j \in S : j <= i}) = k
<1> DEFINE Below(i) == {j \in S : j <= i}
           place == [i \in S |-> Cardinality(Below(i))]
           n == Cardinality(S)
<1>1. n \in Nat BY FS_CardinalityType
<1>2. \A i \in S : IsFiniteSet(Below(i)) /\ Cardinality(Below(i)) \in 1..n
    <2> SUFFICES ASSUME NEW i \in S
                 PROVE  IsFiniteSet(Below(i)) /\ Cardinality(Below(i)) \in 1..n
        OBVIOUS
    <2>1. Below(i) \subseteq S OBVIOUS
    <2>2. IsFiniteSet(Below(i)) /\ Cardinality(Below(i)) <= n
        BY <2>1, FS_Subset
    <2>3. Below(i) # {} OBVIOUS
    <2>4. Cardinality(Below(i)) \in Nat /\ Cardinality(Below(i)) # 0
        BY <2>2, <2>3, FS_CardinalityType, FS_EmptySet
    <2> QED BY <2>2, <2>4, <1>1
<1>3. \A i, j \in S : i < j => place[i] < place[j]
    <2> SUFFICES ASSUME NEW i \in S, NEW j \in S, i < j PROVE place[i] < place[j]
        OBVIOUS
    <2>1. Below(i) \subseteq Below(j) /\ j \in Below(j) /\ j \notin Below(i)
        <3>1. i \in Nat /\ j \in Nat /\ \A l \in S : l \in Nat OBVIOUS
        <3>2. \A l \in S : l <= i => l <= j
            BY <3>1
        <3>5. Below(i) \subseteq Below(j) BY <3>2, Zenon
        <3>3. j \in Below(j) BY <3>1
        <3>4. j \notin Below(i) BY <3>1
        <3> QED BY <3>3, <3>4, <3>5
    <2>2. Below(i) # Below(j) BY <2>1
    <2> HIDE DEF Below
    <2>3. Cardinality(Below(i)) <= Cardinality(Below(j))
          /\ (Cardinality(Below(i)) = Cardinality(Below(j)) => Below(i) = Below(j))
        BY <2>1, <1>2, FS_Subset
    <2> QED BY <2>2, <2>3, <1>2
<1>4. \A i, j \in S : place[i] = place[j] => i = j
    <2>1. \A i \in S : place[i] \in Nat BY <1>2, <1>1
    <2> HIDE DEF place
    <2> QED BY <1>3, <2>1
<1> DEFINE T == {place[i] : i \in S}
<1>5. place \in Bijection(S, T)
    <2>1. place \in [S -> T] OBVIOUS
    <2>2. \A t \in T : \E i \in S : place[i] = t OBVIOUS
    <2> HIDE DEF place, T
    <2> QED BY <1>4, <2>1, <2>2, Fun_IsBij
<1>6. Cardinality(T) = n
    <2> HIDE DEF place, Below
    <2>1. ExistsBijection(S, T) BY <1>5 DEF ExistsBijection
    <2> QED BY <2>1, FS_Bijection
<1>7. T \subseteq 1..n
    BY <1>2
<1>8. T = 1..n
    <2>1. IsFiniteSet(1..n) /\ Cardinality(1..n) = n
        BY <1>1, FS_Interval
    <2> HIDE DEF T, n
    <2> QED BY <1>6, <1>7, <2>1, FS_Subset
<1>9. PICK i \in S : place[i] = k
    BY <1>8
<1> QED BY <1>9

Rising(s) == \A i, j \in DOMAIN s : i < j => s[i] < s[j]

\* The numbers after c of a rising sequence rise, and lie beyond c.
LEMMA AfterRises ==
    ASSUME NEW s \in Seq(Nat), NEW c \in Nat, Rising(s)
    PROVE  LET b == After(s, c)
           IN  /\ b \in Seq(Nat) /\ Rising(b)
               /\ \A i \in DOMAIN b : b[i] > c
<1> DEFINE kept == {i \in DOMAIN s : s[i] > c}
           b == After(s, c)
           Place(i) == Cardinality({j \in kept : j <= i})
           at(k) == CHOOSE i \in kept : Place(i) = k
<1>1. kept \subseteq Nat /\ IsFiniteSet(kept)
    <2>1. DOMAIN s = 1..Len(s) /\ Len(s) \in Nat OBVIOUS
    <2>2. IsFiniteSet(1..Len(s)) BY <2>1, FS_Interval
    <2>3. kept \subseteq 1..Len(s) BY <2>1
    <2>4. 1..Len(s) \subseteq Nat BY <2>1
    <2> HIDE DEF kept
    <2>5. IsFiniteSet(kept) BY <2>2, <2>3, FS_Subset
    <2> QED BY <2>3, <2>4, <2>5
<1>2. b = [k \in 1..Cardinality(kept) |-> s[at(k)]]
    BY Zenon DEF After
<1>3. \A k \in 1..Cardinality(kept) : at(k) \in kept /\ Place(at(k)) = k
    <2> HIDE DEF kept
    <2> SUFFICES ASSUME NEW k \in 1..Cardinality(kept)
                 PROVE  at(k) \in kept /\ Place(at(k)) = k
        OBVIOUS
    <2>1. \E i \in kept : Place(i) = k BY <1>1, PlacesTaken
    <2> QED BY <2>1, Zenon
<1>4. \A i, j \in kept : i <= j => Place(i) <= Place(j)
    <2> SUFFICES ASSUME NEW i \in kept, NEW j \in kept, i <= j PROVE Place(i) <= Place(j)
        OBVIOUS
    <2>1. {l \in kept : l <= i} \subseteq {l \in kept : l <= j}
        BY <1>1
    <2>2. {l \in kept : l <= j} \subseteq kept OBVIOUS
    <2>3. IsFiniteSet({l \in kept : l <= j}) BY <1>1, <2>2, FS_Subset
    <2> QED BY <2>1, <2>3, FS_Subset
<1> HIDE DEF b
<1>5. DOMAIN b = 1..Cardinality(kept) /\ Cardinality(kept) \in Nat
    BY <1>1, <1>2, FS_CardinalityType
<1>6. ASSUME NEW k \in DOMAIN b, NEW l \in DOMAIN b, k < l PROVE b[k] < b[l]
    <2>1. /\ at(k) \in kept /\ Place(at(k)) = k
          /\ at(l) \in kept /\ Place(at(l)) = l
        BY <1>3, <1>5
    <2>2. b[k] = s[at(k)] /\ b[l] = s[at(l)]
        BY <1>2, <1>5
    <2>3. k \in Nat /\ l \in Nat BY <1>5
    <2> HIDE DEF at, Place
    <2>4. at(k) < at(l)
        BY <2>1, <2>3, <1>1, <1>4, <1>6
    <2>5. at(k) \in DOMAIN s /\ at(l) \in DOMAIN s BY <2>1
    <2> QED BY <2>2, <2>4, <2>5 DEF Rising
<1>7. ASSUME NEW k \in DOMAIN b PROVE b[k] > c
    <2>1. at(k) \in kept BY <1>3, <1>5
    <2>2. b[k] = s[at(k)] BY <1>2, <1>5
    <2> QED BY <2>1, <2>2
<1>8. b \in Seq(Nat)
    <2>1. \A k \in 1..Cardinality(kept) : s[at(k)] \in Nat
        <3> SUFFICES ASSUME NEW k \in 1..Cardinality(kept) PROVE s[at(k)] \in Nat
            OBVIOUS
        <3>1. at(k) \in DOMAIN s BY <1>3
        <3> HIDE DEF at
        <3> QED BY <3>1
    <2> HIDE DEF kept, at
    <2> QED BY <1>2, <1>5, <2>1, SeqDef
<1> QED BY <1>6, <1>7, <1>8, Zenon DEF Rising, b

-----------------------------------------------------------------------------
(* Observation: the operation, the transport and the client *)

Kinds == {"checkpoint", "node_start", "node_end", "node_error", "token", "interrupt",
          "role_contract_correction"}
Steps == [do : {"save"}, paused : BOOLEAN] \cup [do : {"report"}, kind : Kinds]
Places == {"stopped", "broken", "refused", "between", "role", "final"}
Events == [kind : Kinds, version : Nat]

\* Only an operation that was started has a stream, and something to do.
OpInv ==
    /\ op \in [stream : 0..MaxStreams, at : Places, todo : Seq(Steps), attempt : BOOLEAN]
    /\ op.stream = 0 => op.at = "stopped" /\ op.todo = <<>>

\* Nothing is published of a state that was not saved.
HistoryInv ==
    /\ disk \in [version : Nat, paused : BOOLEAN]
    /\ history \in [Streams -> Seq(Events)]
    /\ \A s \in Streams : \A n \in DOMAIN history[s] : history[s][n].version <= disk.version

\* What is under way, received or buffered was published; what is buffered is in order.
TransportInv ==
    /\ \A e \in transit : /\ e.stream \in Streams
                          /\ e.sequence \in DOMAIN history[e.stream]
    /\ received \in [Streams -> Nat]
    /\ \A s \in Streams : received[s] <= Len(history[s])
    /\ buffer \in [Streams -> Seq(Nat)]
    /\ \A s \in Streams :
          /\ Rising(buffer[s])
          /\ \A i \in DOMAIN buffer[s] : buffer[s][i] <= received[s]

\* A barrier hides only what was published before it was taken.
ClientInv ==
    /\ client \in [at : {"away", "barrier", "shown", "live"}, stream : 0..MaxStreams,
                   cursor : Nat, version : Nat, batch : Seq(Nat)]
    /\ client.at # "away" => /\ client.stream \in Streams
                             /\ client.cursor <= Len(history[client.stream])
    /\ client.at \in {"barrier", "shown"} => client.batch = <<>>

ObsInv == OpInv /\ HistoryInv /\ TransportInv /\ ClientInv /\ ClientFollows

LEMMA ObsInit == ASSUME ObservationBounds, ObservationInit PROVE ObsInv
<1> USE DEF ObservationBounds, Streams
<1>1. OpInv
    BY SMT DEF ObservationInit, OpInv, Places
<1>2. HistoryInv
    BY SMT DEF ObservationInit, HistoryInv
<1>3. TransportInv
    BY SMT DEF ObservationInit, TransportInv, Rising
<1>4. ClientInv
    BY SMT DEF ObservationInit, ClientInv, Away
<1>5. ClientFollows
    BY SMT DEF ObservationInit, Away, ClientFollows, NothingHidden, InOrder
<1> QED BY <1>1, <1>2, <1>3, <1>4, <1>5 DEF ObsInv

\* What the operation goes on to do, and where.
LEMMA OperationStep ==
    ASSUME OpInv, NEW at \in Places, NEW todo \in Seq(Steps), Settle(at, todo), op.stream # 0
    PROVE  OpInv'
<1> DEFINE R == [stream : 0..MaxStreams, at : Places, todo : Seq(Steps), attempt : BOOLEAN]
<1>1. op \in R /\ op' = [op EXCEPT !.at = at, !.todo = todo]
    BY Zenon DEF OpInv, Settle
<1> HIDE DEF Places, Steps
<1>2. op' \in R
    <2> DEFINE Q == Seq(Steps)
    <2> HIDE DEF Q
    <2> DEFINE T == 0..MaxStreams
    <2> HIDE DEF T
    <2>1. todo \in Q /\ op \in [stream : T, at : Places, todo : Q, attempt : BOOLEAN]
        BY <1>1, Zenon DEF Q, T
    <2>2. op' \in [stream : T, at : Places, todo : Q, attempt : BOOLEAN]
        BY <1>1, <2>1, Zenon
    <2> QED BY <2>2, Zenon DEF Q, T
<1>3. op'.stream = op.stream BY <1>1, SMT
<1> QED BY <1>2, <1>3, Zenon DEF OpInv

LEMMA StepsAre ==
    ASSUME NEW paused \in BOOLEAN, NEW kind \in Kinds
    PROVE  /\ Save(paused) \in Steps /\ Notify(kind) \in Steps
           /\ Checkpoint(paused) \in Seq(Steps)
<1>1. Save(paused) \in Steps /\ Notify(kind) \in Steps
    BY SMT DEF Save, Notify, Steps
<1>2. Notify("checkpoint") \in Steps
    BY SMT DEF Notify, Steps, Kinds
<1> HIDE DEF Steps
<1> QED BY <1>1, <1>2, SMT DEF Checkpoint

\* A node, a role and a crash change only what the operation has left to do.
LEMMA NodeStep ==
    ASSUME OpInv,
           \/ EnterNode \/ BudgetPause \/ Token \/ Succeed \/ Fail
           \/ Correct \/ PublisherRaises \/ OperationCrashes
    PROVE  OpInv' /\ UNCHANGED <<disk, history, transit, buffer, received, client>>
<1>1. UNCHANGED <<disk, history, transit, buffer, received, client>>
    BY DEF EnterNode, BudgetPause, Token, Succeed, Fail,
           Correct, PublisherRaises, OperationCrashes
<1>2. op.stream # 0
    <2> SUFFICES ASSUME op.stream = 0 PROVE FALSE OBVIOUS
    <2>1. op.at = "stopped" /\ op.todo = <<>> BY DEF OpInv
    <2>2. ~ \E at \in {"between", "role", "final"} : Free(at)
        BY <2>1 DEF Free
    <2>3. ~ PublisherRaises /\ ~ OperationCrashes
        BY <2>1 DEF PublisherRaises, OperationCrashes
    <2> QED
        BY <2>2, <2>3, Zenon DEF EnterNode, BudgetPause, Token, Succeed, Fail,
           Correct
<1>3. /\ Notify("node_start") \in Steps /\ Notify("node_end") \in Steps
      /\ Notify("node_error") \in Steps /\ Notify("token") \in Steps
      /\ Notify("interrupt") \in Steps
      /\ Notify("role_contract_correction") \in Steps
    BY StepsAre DEF Kinds
<1>4. Checkpoint(TRUE) \in Seq(Steps) /\ Checkpoint(FALSE) \in Seq(Steps)
    BY StepsAre DEF Kinds
<1>5. \E at \in Places : \E todo \in Seq(Steps) : Settle(at, todo)
    <2>0. /\ \A x \in Steps : <<x>> \in Seq(Steps)
          /\ \A x, y \in Steps : <<x, y>> \in Seq(Steps)
          /\ \A a, b \in Seq(Steps) : a \o b \in Seq(Steps)
        <3> HIDE DEF Steps
        <3> QED OBVIOUS
    <2> USE <1>3, <1>4, <2>0 DEF Places
    <2> HIDE DEF Steps
    <2>1. CASE EnterNode
        <3> DEFINE kept == Checkpoint(FALSE)
        <3>1. kept \in Seq(Steps) /\ <<Notify("node_start")>> \in Seq(Steps) BY Zenon
        <3> HIDE DEF kept
        <3>2. kept \o kept \in Seq(Steps) BY <3>1, Zenon
        <3>3. kept \o kept \o <<Notify("node_start")>> \in Seq(Steps) BY <3>1, <3>2, Zenon
        <3>4. kept \o (kept \o kept \o <<Notify("node_start")>>) \in Seq(Steps)
            BY <3>1, <3>3, Zenon
        <3> USE DEF kept
        <3>5. CASE Settle("role", Checkpoint(FALSE) \o Checkpoint(FALSE) \o <<Notify("node_start")>>)
            BY <3>3, <3>5, Zenon
        <3>6. CASE Settle("role", Checkpoint(FALSE)
                       \o (Checkpoint(FALSE) \o Checkpoint(FALSE) \o <<Notify("node_start")>>))
            BY <3>4, <3>6, Zenon
        <3>7. CASE Settle("refused", Checkpoint(FALSE))
            BY <3>1, <3>7, Zenon
        <3> QED BY <2>1, <3>5, <3>6, <3>7, Zenon DEF EnterNode
    <2>2. CASE BudgetPause
        <3>1. Checkpoint(TRUE) \o <<Notify("interrupt")>> \in Seq(Steps) BY Zenon
        <3> QED BY <2>2, <3>1, Zenon DEF BudgetPause
    <2>3. CASE Token
        <3>1. <<Notify("token")>> \in Seq(Steps) BY Zenon
        <3> QED BY <2>3, <3>1, Zenon DEF Token
    <2>4. CASE Succeed
        <3>1. Checkpoint(FALSE) \o <<Notify("node_end")>> \in Seq(Steps) BY Zenon
        <3>2. Checkpoint(TRUE) \o <<Notify("interrupt"), Notify("node_end")>>
                \in Seq(Steps)
            BY Zenon
        <3> QED BY <2>4, <3>1, <3>2, Zenon DEF Succeed
    <2>5. CASE Fail
        <3>1. <<Notify("node_error"), Notify("interrupt")>> \o Checkpoint(TRUE)
                \in Seq(Steps)
            BY Zenon
        <3> QED BY <2>5, <3>1, Zenon DEF Fail
    <2>6. CASE Correct
        <3>1. Checkpoint(FALSE) \o <<Notify("role_contract_correction")>> \in Seq(Steps)
            BY Zenon
        <3> QED BY <2>6, <3>1, Zenon DEF Correct
    <2>7. <<>> \in Seq(Steps) OBVIOUS
    <2>8. CASE PublisherRaises
        BY <2>7, <2>8, Zenon DEF PublisherRaises
    <2>9. CASE OperationCrashes
        BY <2>7, <2>9, Zenon DEF OperationCrashes
    <2> QED BY <2>1, <2>2, <2>3, <2>4, <2>5, <2>6, <2>8, <2>9
<1> QED BY <1>1, <1>2, <1>5, OperationStep

\* What the operation alone changes disturbs nobody else.
LEMMA OthersRest ==
    ASSUME ObsInv, OpInv', UNCHANGED <<disk, history, transit, buffer, received, client>>
    PROVE  ObsInv'
<1>1. HistoryInv' BY SMT DEF ObsInv, HistoryInv
<1>2. TransportInv' BY SMT DEF ObsInv, TransportInv, Rising
<1>3. ClientInv' BY SMT DEF ObsInv, ClientInv
<1>4. ClientFollows'
    BY SMT DEF ObsInv, ClientFollows, NothingHidden, InOrder
<1> QED BY <1>1, <1>2, <1>3, <1>4 DEF ObsInv

\* What is saved is newer than all that was published.
LEMMA SavedStep ==
    ASSUME ObsInv, OpInv', disk' \in [version : Nat, paused : BOOLEAN],
           disk.version <= disk'.version,
           UNCHANGED <<history, transit, buffer, received, client>>
    PROVE  ObsInv'
<1>1. HistoryInv'
    <2>1. \A s \in Streams : \A n \in DOMAIN history[s] : history[s][n].version \in Nat
        <3> SUFFICES ASSUME NEW s \in Streams, NEW n \in DOMAIN history[s]
                     PROVE  history[s][n].version \in Nat
            OBVIOUS
        <3>1. history[s] \in Seq(Events) BY DEF ObsInv, HistoryInv
        <3>2. history[s][n] \in Events BY <3>1
        <3> QED BY <3>2 DEF Events
    <2>2. disk.version \in Nat /\ disk'.version \in Nat BY DEF ObsInv, HistoryInv
    <2>3. \A s \in Streams : \A n \in DOMAIN history[s] :
             history[s][n].version <= disk'.version
        BY <2>1, <2>2 DEF ObsInv, HistoryInv
    <2> QED BY <2>3, Zenon DEF ObsInv, HistoryInv
<1>2. TransportInv' BY SMT DEF ObsInv, TransportInv, Rising
<1>3. ClientInv' BY SMT DEF ObsInv, ClientInv
<1>4. ClientFollows'
    BY SMT DEF ObsInv, ClientFollows, NothingHidden, InOrder
<1> QED BY <1>1, <1>2, <1>3, <1>4 DEF ObsInv

LEMMA SaveSteps ==
    ASSUME ObservationBounds, ObsInv,
           StartOperation \/ SaveState \/ Return
    PROVE  ObsInv'
<1> DEFINE Q == Seq(Steps)
<1> HIDE DEF Q
<1>0. /\ op \in [stream : 0..MaxStreams, at : Places, todo : Q, attempt : BOOLEAN]
      /\ <<>> \in Q /\ (op.todo # <<>> => Tail(op.todo) \in Q /\ Head(op.todo) \in Steps)
      /\ disk \in [version : Nat, paused : BOOLEAN] /\ MaxStreams \in Nat
    <2>1. op \in [stream : 0..MaxStreams, at : Places, todo : Q, attempt : BOOLEAN]
        BY DEF ObsInv, OpInv, Q
    <2>2. op.todo \in Seq(Steps) BY <2>1 DEF Q
    <2> HIDE DEF Steps
    <2>3. op.todo # <<>> => Tail(op.todo) \in Seq(Steps) /\ Head(op.todo) \in Steps
        BY <2>2
    <2>4. <<>> \in Seq(Steps) OBVIOUS
    <2> QED BY <2>1, <2>3, <2>4 DEF ObsInv, HistoryInv, ObservationBounds, Q
<1>1. CASE StartOperation
    <2>1. op' \in [stream : 0..MaxStreams, at : Places, todo : Q, attempt : BOOLEAN]
        BY <1>0, <1>1, SMT DEF StartOperation, Places
    <2>2. op'.stream # 0 BY <1>0, <1>1, SMT DEF StartOperation
    <2>3. OpInv' BY <2>1, <2>2, Zenon DEF OpInv, Q
    <2>4. disk' \in [version : Nat, paused : BOOLEAN] /\ disk.version <= disk'.version
        BY <1>0, <1>1, SMT DEF StartOperation
    <2> QED BY <1>1, <2>3, <2>4, SavedStep DEF StartOperation
<1>2. CASE SaveState
    <2>1. /\ op' \in [stream : 0..MaxStreams, at : Places, todo : Q, attempt : BOOLEAN]
          /\ op'.stream = op.stream /\ op'.at = op.at
        <3> DEFINE T == Tail(op.todo)
        <3> HIDE DEF T
        <3>1. T \in Q /\ op' = [op EXCEPT !.todo = T]
            BY <1>0, <1>2, Zenon DEF SaveState, T
        <3> QED BY <1>0, <3>1, SMT
    <2>2. op.stream # 0 BY <1>2 DEF SaveState, ObsInv, OpInv
    <2>3. OpInv' BY <2>1, <2>2, Zenon DEF OpInv, Q
    <2>4. Head(op.todo).paused \in BOOLEAN
        BY <1>0, <1>2, SMT DEF SaveState, Steps
    <2>5. disk' \in [version : Nat, paused : BOOLEAN] /\ disk.version <= disk'.version
        BY <1>0, <1>2, <2>4, SMT DEF SaveState
    <2> QED BY <1>2, <2>3, <2>5, SavedStep DEF SaveState
<1>3. CASE Return
    <2>1. op.stream # 0
        BY <1>3 DEF Return, Free, ObsInv, OpInv
    <2>2. "stopped" \in Places BY DEF Places
    <2>3. <<>> \in Seq(Steps) BY <1>0 DEF Q
    <2>4. OpInv'
        BY <1>3, <2>1, <2>2, <2>3, OperationStep DEF Return, ObsInv
    <2>5. disk' \in [version : Nat, paused : BOOLEAN] /\ disk.version <= disk'.version
        BY <1>0, <1>3, SMT DEF Return
    <2> QED BY <1>3, <2>4, <2>5, SavedStep DEF Return
<1> QED BY <1>1, <1>2, <1>3

\* One event more is numbered, and carries the version that is saved.
LEMMA PublishStep == ASSUME ObservationBounds, ObsInv, Publish PROVE ObsInv'
<1> DEFINE s == op.stream
           kind == Head(op.todo).kind
           e == [kind |-> kind, version |-> disk.version]
           t == [stream |-> s, sequence |-> Len(history'[s])]
<1>1. /\ s \in Streams /\ op.todo \in Seq(Steps) /\ op.todo # <<>>
      /\ kind \in Kinds /\ e \in Events
    <2>1. op.todo \in Seq(Steps) /\ op.todo # <<>> /\ op.stream \in 0..MaxStreams /\ op.stream # 0
        BY DEF Publish, ObsInv, OpInv
    <2>2. Head(op.todo) \in Steps
        <3> HIDE DEF Steps
        <3> QED BY <2>1
    <2>3. kind \in Kinds BY <2>2, SMT DEF Publish, Steps
    <2>4. disk.version \in Nat BY DEF ObsInv, HistoryInv
    <2> HIDE DEF kind
    <2>5. e \in Events BY <2>3, <2>4, SMT DEF Events
    <2> QED BY <2>1, <2>3, <2>5, SMT DEF Streams, ObservationBounds
<1>2. /\ history' = [history EXCEPT ![s] = Append(@, e)]
      /\ transit' = transit \cup {t}
      /\ UNCHANGED <<disk, buffer, received, client>>
    BY Zenon DEF Publish
<1>3. OpInv'
    <2> DEFINE T == Tail(op.todo)
               Q == Seq(Steps)
               a == kind # "node_end" /\ (op.attempt \/ kind = "node_start")
               O == 0..MaxStreams
    <2>1. op \in [stream : O, at : Places, todo : Q, attempt : BOOLEAN] /\ op.stream # 0
        BY <1>1, SMT DEF ObsInv, OpInv, Streams
    <2>2. T \in Q
        <3> HIDE DEF Steps
        <3> QED BY <1>1
    <2>3. op' = [op EXCEPT !.todo = T, !.attempt = a]
        BY Zenon DEF Publish
    <2>4. a \in BOOLEAN BY Zenon
    <2> HIDE DEF T, Q, a, O
    <2>7. op' \in [stream : O, at : Places, todo : Q, attempt : BOOLEAN]
        BY <2>1, <2>2, <2>3, <2>4, Zenon
    <2>8. op'.stream # 0 BY <2>1, <2>3, SMT
    <2> QED BY <2>7, <2>8, Zenon DEF OpInv, Q, O
<1> HIDE DEF e, s, t
<1>4. /\ history \in [Streams -> Seq(Events)] /\ history[s] \in Seq(Events)
      /\ history' \in [Streams -> Seq(Events)]
      /\ history'[s] = Append(history[s], e)
      /\ \A r \in Streams : r # s => history'[r] = history[r]
    <2>1. history \in [Streams -> Seq(Events)] BY DEF ObsInv, HistoryInv
    <2>2. history[s] \in Seq(Events) BY <1>1, <2>1
    <2>3. Append(history[s], e) \in Seq(Events)
        <3> HIDE DEF Events
        <3> QED BY <1>1, <2>2
    <2> QED BY <1>1, <1>2, <2>1, <2>2, <2>3, Zenon
<1>5. \A r \in Streams :
         /\ Len(history[r]) \in Nat /\ Len(history'[r]) \in Nat
         /\ Len(history[r]) <= Len(history'[r])
         /\ DOMAIN history[r] = 1..Len(history[r]) /\ DOMAIN history'[r] = 1..Len(history'[r])
         /\ \A n \in DOMAIN history[r] : history'[r][n] = history[r][n]
    <2> HIDE DEF Events
    <2> SUFFICES ASSUME NEW r \in Streams
                 PROVE  /\ Len(history[r]) \in Nat /\ Len(history'[r]) \in Nat
                        /\ Len(history[r]) <= Len(history'[r])
                        /\ DOMAIN history[r] = 1..Len(history[r])
                        /\ DOMAIN history'[r] = 1..Len(history'[r])
                        /\ \A n \in DOMAIN history[r] : history'[r][n] = history[r][n]
        OBVIOUS
    <2>1. history[r] \in Seq(Events) BY <1>4
    <2>2. CASE r = s
        <3>1. history'[r] = Append(history[r], e) /\ e \in Events
            BY <1>1, <1>4, <2>2
        <3> HIDE DEF kind
        <3> QED BY <2>1, <3>1
    <2>3. CASE r # s
        <3>1. history'[r] = history[r] BY <1>4, <2>3
        <3> QED BY <2>1, <3>1
    <2> QED BY <2>2, <2>3
<1>6. HistoryInv'
    <2>1. disk.version \in Nat /\ disk' = disk BY <1>2 DEF ObsInv, HistoryInv
    <2>2. ASSUME NEW r \in Streams, NEW n \in DOMAIN history'[r]
          PROVE  history'[r][n].version <= disk.version
        <3>1. CASE n \in DOMAIN history[r]
            BY <1>5, <3>1 DEF ObsInv, HistoryInv
        <3>2. CASE n \notin DOMAIN history[r]
            <4>1. r = s BY <1>4, <2>2, <3>2
            <4>2. Len(history'[s]) = Len(history[s]) + 1 /\ history'[s][Len(history[s]) + 1] = e
                <5> HIDE DEF Events
                <5> QED BY <1>1, <1>4
            <4>3. n = Len(history[s]) + 1
                BY <1>1, <1>5, <2>2, <3>2, <4>1, <4>2
            <4>4. e.version = disk.version BY DEF e
            <4> QED BY <2>1, <4>1, <4>2, <4>3, <4>4
        <3> QED BY <3>1, <3>2
    <2> QED BY <1>4, <2>1, <2>2, Zenon DEF ObsInv, HistoryInv
<1>7. TransportInv'
    <2>1. \A x \in transit' : x.stream \in Streams /\ x.sequence \in DOMAIN history'[x.stream]
        <3> SUFFICES ASSUME NEW x \in transit'
                     PROVE  x.stream \in Streams /\ x.sequence \in DOMAIN history'[x.stream]
            OBVIOUS
        <3>1. CASE x \in transit
            <4>1. x.stream \in Streams /\ x.sequence \in DOMAIN history[x.stream]
                BY <3>1 DEF ObsInv, TransportInv
            <4> QED BY <1>5, <4>1
        <3>2. CASE x = t
            <4>1. x.stream = s /\ x.sequence = Len(history'[s]) BY <3>2 DEF t
            <4>2. Len(history'[s]) \in DOMAIN history'[s]
                <5> HIDE DEF Events
                <5> QED BY <1>1, <1>4
            <4> QED BY <1>1, <4>1, <4>2
        <3> QED BY <1>2, <3>1, <3>2
    <2>2. received \in [Streams -> Nat] BY DEF ObsInv, TransportInv
    <2>3. \A r \in Streams : received[r] <= Len(history'[r])
        <3> SUFFICES ASSUME NEW r \in Streams PROVE received[r] <= Len(history'[r])
            OBVIOUS
        <3>1. received[r] \in Nat /\ received[r] <= Len(history[r])
            BY <2>2 DEF ObsInv, TransportInv
        <3>2. Len(history[r]) \in Nat /\ Len(history'[r]) \in Nat
              /\ Len(history[r]) <= Len(history'[r])
            BY <1>5
        <3> HIDE DEF Events
        <3> QED BY <3>1, <3>2, SMT
    <2> QED BY <1>2, <2>1, <2>3, Zenon DEF ObsInv, TransportInv, Rising
<1>8. ClientInv'
    <2>1. client.cursor \in Nat BY DEF ObsInv, ClientInv
    <2>2. client.at # "away" => client.cursor <= Len(history'[client.stream])
        BY <1>5, <2>1 DEF ObsInv, ClientInv
    <2> QED BY <1>2, <2>2, Zenon DEF ObsInv, ClientInv
<1>9. ClientFollows'
    <2>1. ASSUME client.at \in {"shown", "live"}, NEW n \in DOMAIN history'[client.stream],
                 n <= client.cursor
          PROVE  n \in DOMAIN history[client.stream]
                 /\ history'[client.stream][n] = history[client.stream][n]
        <3>1. client.stream \in Streams /\ client.cursor <= Len(history[client.stream])
              /\ client.cursor \in Nat
            BY <2>1, SMT DEF ObsInv, ClientInv
        <3>2. n \in 1..Len(history[client.stream])
            BY <1>5, <2>1, <3>1
        <3> QED BY <1>5, <3>1, <3>2
    <2>2. NothingHidden'
        BY <1>2, <2>1, Zenon DEF ObsInv, ClientFollows, NothingHidden
    <2>3. InOrder'
        BY <1>2, Zenon DEF ObsInv, ClientFollows, InOrder
    <2> QED BY <2>2, <2>3 DEF ClientFollows
<1> QED BY <1>3, <1>6, <1>7, <1>8, <1>9 DEF ObsInv

\* A sequence that grew by one has one place that was not there.
LEMMA NewPlace ==
    ASSUME NEW n \in Nat, NEW k \in 1..(n + 1), k \notin 1..n PROVE k = n + 1
OBVIOUS

\* An event that is not passed joins the buffer, which may give up its oldest.
LEMMA DeliverStep == ASSUME ObservationBounds, ObsInv, Deliver PROVE ObsInv'
<1>1. PICK e \in transit :
         /\ transit' \in {transit, transit \ {e}}
         /\ IF Keeps(e)
            THEN /\ buffer' = [buffer EXCEPT ![e.stream] =
                      LET all == Append(@, e.sequence)
                      IN  IF Len(all) > Capacity THEN Tail(all) ELSE all]
                 /\ received' = [received EXCEPT ![e.stream] = e.sequence]
            ELSE UNCHANGED <<buffer, received>>
    BY Zenon DEF Deliver
<1>2. UNCHANGED <<disk, op, history, client>> BY DEF Deliver
<1> DEFINE s == e.stream
           q == e.sequence
           all == Append(buffer[s], q)
<1>3. /\ s \in Streams /\ q \in DOMAIN history[s] /\ history[s] \in Seq(Events)
      /\ received \in [Streams -> Nat] /\ buffer \in [Streams -> Seq(Nat)]
      /\ Rising(buffer[s]) /\ \A i \in DOMAIN buffer[s] : buffer[s][i] <= received[s]
    BY DEF ObsInv, TransportInv, HistoryInv
<1>4. q \in Nat /\ q <= Len(history[s]) /\ Len(history[s]) \in Nat
    <2> HIDE DEF Events
    <2> QED BY <1>3
<1>5. transit' \subseteq transit BY <1>1
<1> HIDE DEF s, q
<1>6. ASSUME Keeps(e)
      PROVE  /\ buffer' \in [Streams -> Seq(Nat)] /\ received' \in [Streams -> Nat]
             /\ \A r \in Streams : r # s => buffer'[r] = buffer[r] /\ received'[r] = received[r]
             /\ received'[s] = q
             /\ Rising(buffer'[s]) /\ \A i \in DOMAIN buffer'[s] : buffer'[s][i] <= q
    <2>1. q > received[s] BY <1>6 DEF Keeps, s, q
    <2>2. received[s] \in Nat /\ buffer[s] \in Seq(Nat) BY <1>3
    <2>3. all \in Seq(Nat) /\ Len(all) = Len(buffer[s]) + 1 /\ DOMAIN all = 1..Len(all)
          /\ all[Len(all)] = q /\ \A i \in DOMAIN buffer[s] : all[i] = buffer[s][i]
        BY <1>4, <2>2
    <2>4. DOMAIN buffer[s] = 1..Len(buffer[s]) /\ Len(buffer[s]) \in Nat BY <2>2
    <2> HIDE DEF all
    <2>5. \A i \in DOMAIN all : all[i] <= q
        <3> SUFFICES ASSUME NEW i \in DOMAIN all PROVE all[i] <= q OBVIOUS
        <3>1. CASE i \in DOMAIN buffer[s]
            <4>1. buffer[s][i] <= received[s] /\ buffer[s][i] \in Nat BY <1>3, <2>2, <3>1
            <4> QED BY <1>4, <2>1, <2>2, <2>3, <3>1, <4>1
        <3>2. CASE i \notin DOMAIN buffer[s]
            <4>1. i = Len(all) BY <2>3, <2>4, <3>2
            <4> QED BY <1>4, <2>3, <4>1
        <3> QED BY <3>1, <3>2
    <2>6. Rising(all)
        <3> SUFFICES ASSUME NEW i \in DOMAIN all, NEW j \in DOMAIN all, i < j
                     PROVE  all[i] < all[j]
            BY DEF Rising
        <3>1. i \in DOMAIN buffer[s] BY <2>3, <2>4
        <3>2. CASE j \in DOMAIN buffer[s] BY <1>3, <2>3, <3>1, <3>2 DEF Rising
        <3>3. CASE j \notin DOMAIN buffer[s]
            <4>1. j = Len(all)
                <5>1. j \in 1..(Len(buffer[s]) + 1) BY <2>3
                <5> QED BY <2>3, <2>4, <3>3, <5>1, NewPlace
            <4>2. buffer[s][i] <= received[s] /\ buffer[s][i] \in Nat BY <1>3, <2>2, <3>1
            <4> QED BY <1>4, <2>1, <2>2, <2>3, <3>1, <4>1, <4>2
        <3> QED BY <3>2, <3>3
    <2> DEFINE b == IF Len(all) > Capacity THEN Tail(all) ELSE all
    <2>7. /\ b \in Seq(Nat) /\ Rising(b) /\ \A i \in DOMAIN b : b[i] <= q
        <3>1. CASE b = all BY <2>3, <2>5, <2>6, <3>1
        <3>2. CASE b = Tail(all)
            <4>1. /\ Tail(all) \in Seq(Nat) /\ DOMAIN Tail(all) = 1..(Len(all) - 1)
                  /\ \A i \in DOMAIN Tail(all) : Tail(all)[i] = all[i + 1]
                <5>1. all # <<>> /\ Len(all) \in Nat BY <2>3, <2>4
                <5> QED BY <2>3, <5>1
            <4>2. \A i \in DOMAIN Tail(all) : i \in Nat /\ i + 1 \in DOMAIN all
                BY <2>3, <2>4, <4>1
            <4> HIDE DEF b
            <4>3. Rising(Tail(all))
                <5> SUFFICES ASSUME NEW i \in DOMAIN Tail(all), NEW j \in DOMAIN Tail(all), i < j
                             PROVE  Tail(all)[i] < Tail(all)[j]
                    BY DEF Rising
                <5>1. i + 1 < j + 1 BY <4>2
                <5>2. all[i + 1] < all[j + 1] BY <2>6, <4>2, <5>1 DEF Rising
                <5> QED BY <4>1, <5>2
            <4>4. \A i \in DOMAIN Tail(all) : Tail(all)[i] <= q
                BY <2>5, <4>1, <4>2
            <4> QED BY <3>2, <4>1, <4>3, <4>4
        <3> QED BY <3>1, <3>2
    <2>8. buffer' = [buffer EXCEPT ![s] = b] /\ received' = [received EXCEPT ![s] = q]
        BY <1>1, <1>6, Zenon DEF s, q, all
    <2> HIDE DEF b
    <2>9. buffer'[s] = b BY <1>3, <2>8, Zenon
    <2>10. /\ buffer' \in [Streams -> Seq(Nat)]
           /\ \A r \in Streams : r # s => buffer'[r] = buffer[r]
        BY <1>3, <2>7, <2>8, Zenon
    <2>11. /\ received' \in [Streams -> Nat] /\ received'[s] = q
           /\ \A r \in Streams : r # s => received'[r] = received[r]
        BY <1>3, <1>4, <2>8, Zenon
    <2> QED BY <2>7, <2>9, <2>10, <2>11, Zenon
<1>7. TransportInv'
    <2>1. \A x \in transit' : x.stream \in Streams /\ x.sequence \in DOMAIN history'[x.stream]
        BY <1>2, <1>5 DEF ObsInv, TransportInv
    <2>2. CASE ~ Keeps(e)
        BY <1>1, <1>2, <2>1, <2>2, Zenon DEF ObsInv, TransportInv, Rising
    <2>3. CASE Keeps(e)
        <3>1. ASSUME NEW r \in Streams
              PROVE  /\ received'[r] <= Len(history'[r]) /\ Rising(buffer'[r])
                     /\ \A i \in DOMAIN buffer'[r] : buffer'[r][i] <= received'[r]
            <4>1. CASE r = s BY <1>2, <1>4, <1>6, <2>3, <4>1, Zenon
            <4>2. CASE r # s BY <1>2, <1>6, <2>3, <4>2, Zenon DEF ObsInv, TransportInv
            <4> QED BY <4>1, <4>2
        <3> QED BY <1>6, <2>1, <2>3, <3>1, Zenon DEF TransportInv, Rising
    <2> QED BY <2>2, <2>3
<1>8. OpInv' /\ HistoryInv' /\ ClientInv' /\ ClientFollows'
    BY <1>2, Zenon DEF ObsInv, OpInv, HistoryInv, ClientInv, ClientFollows, NothingHidden,
       InOrder
<1> QED BY <1>7, <1>8 DEF ObsInv

LEMMA LoseStep == ASSUME ObsInv, Lose PROVE ObsInv'
<1>1. /\ transit' \subseteq transit
      /\ UNCHANGED <<disk, op, history, buffer, received, client>>
    BY DEF Lose
<1>2. TransportInv'
    <2>1. \A x \in transit' : x.stream \in Streams /\ x.sequence \in DOMAIN history'[x.stream]
        BY <1>1 DEF ObsInv, TransportInv
    <2> QED BY <1>1, <2>1, Zenon DEF ObsInv, TransportInv, Rising
<1>3. OpInv' /\ HistoryInv' /\ ClientInv' /\ ClientFollows'
    BY <1>1, Zenon DEF ObsInv, OpInv, HistoryInv, ClientInv, ClientFollows, NothingHidden,
       InOrder
<1> QED BY <1>2, <1>3 DEF ObsInv

\* The saved state a client reads after its barrier is as new as all the
\* barrier hides; what it consumes afterwards comes from a buffer in order.
LEMMA ObserverStep ==
    ASSUME ObservationBounds, ObsInv,
           Barrier \/ Inspect \/ Consume \/ Leave
    PROVE  ObsInv'
<1> DEFINE Cs == [at : {"away", "barrier", "shown", "live"}, stream : 0..MaxStreams,
                  cursor : Nat, version : Nat, batch : Seq(Nat)]
<1>1. UNCHANGED <<disk, op, history, transit, buffer, received>>
    BY DEF Barrier, Inspect, Consume, Leave
<1>2. OpInv' /\ HistoryInv' /\ TransportInv'
    BY <1>1, Zenon DEF ObsInv, OpInv, HistoryInv, TransportInv
<1>3. client \in Cs BY Zenon DEF ObsInv, ClientInv
<1>4. MaxStreams \in Nat BY DEF ObservationBounds
<1>5. Away \in Cs /\ Away.at = "away" /\ Away.batch = <<>>
    BY <1>4, SMT DEF Away
<1>6. CASE Leave
    <2>1. client' = Away BY <1>6 DEF Leave
    <2>2. ClientInv' BY <1>5, <2>1, SMT DEF ClientInv
    <2>3. ClientFollows'
        BY <1>5, <2>1, SMT DEF ClientFollows, NothingHidden, InOrder
    <2> QED BY <1>2, <2>2, <2>3 DEF ObsInv
<1>7. CASE Barrier
    <2>1. PICK s \in 1..op.stream :
             client' = [Away EXCEPT !.at = "barrier", !.stream = s, !.cursor = received[s]]
        BY <1>7 DEF Barrier
    <2>2. s \in Streams /\ s \in 0..MaxStreams
        BY <1>4, SMT DEF ObsInv, OpInv, Streams
    <2>3. received[s] \in Nat /\ received[s] <= Len(history[s])
        BY <2>2 DEF ObsInv, TransportInv
    <2>4. client' = [at |-> "barrier", stream |-> s, cursor |-> received[s], version |-> 0, batch |-> <<>>]
        BY <2>1, Zenon DEF Away
    <2>5. client' \in Cs BY <2>2, <2>3, <2>4, SMT
    <2>6. /\ client'.at = "barrier" /\ client'.stream = s /\ client'.cursor = received[s]
          /\ client'.batch = <<>>
        BY <2>4, SMT
    <2>7. ClientInv'
        BY <1>1, <2>2, <2>3, <2>5, <2>6, Zenon DEF ClientInv
    <2>8. ClientFollows'
        BY <2>6, SMT DEF ClientFollows, NothingHidden, InOrder
    <2> QED BY <1>2, <2>7, <2>8 DEF ObsInv
<1>8. CASE Inspect
    <2>1. client.at = "barrier" /\ client' = [client EXCEPT !.at = "shown", !.version = disk.version]
        BY <1>8 DEF Inspect
    <2>2. disk.version \in Nat BY DEF ObsInv, HistoryInv
    <2>3. client' \in Cs BY <1>3, <2>1, <2>2, Zenon
    <2>4. /\ client'.at = "shown" /\ client'.stream = client.stream /\ client'.cursor = client.cursor
          /\ client'.version = disk.version /\ client'.batch = <<>>
        BY <1>3, <2>1, SMT DEF ObsInv, ClientInv
    <2>5. client.stream \in Streams /\ client.cursor <= Len(history[client.stream])
        BY <2>1 DEF ObsInv, ClientInv
    <2>6. ClientInv'
        BY <1>1, <2>3, <2>4, <2>5, Zenon DEF ClientInv
    <2>7. NothingHidden'
        BY <1>1, <2>4, <2>5, Zenon DEF NothingHidden, ObsInv, HistoryInv
    <2>8. InOrder' BY <2>4, SMT DEF InOrder
    <2> QED BY <1>2, <2>6, <2>7, <2>8 DEF ObsInv, ClientFollows
<1>9. CASE Consume
    <2> DEFINE b == After(buffer[client.stream], client.cursor)
    <2>1. client.at = "shown" /\ client' = [client EXCEPT !.at = "live", !.batch = b]
        BY <1>9 DEF Consume
    <2>2. client.stream \in Streams /\ client.cursor <= Len(history[client.stream])
          /\ client.cursor \in Nat
        BY <2>1 DEF ObsInv, ClientInv
    <2>3. buffer[client.stream] \in Seq(Nat) /\ Rising(buffer[client.stream])
        BY <2>2 DEF ObsInv, TransportInv
    <2>4. b \in Seq(Nat) /\ Rising(b) /\ \A i \in DOMAIN b : b[i] > client.cursor
        BY <2>2, <2>3, AfterRises, Zenon
    <2> HIDE DEF b
    <2>5. client' \in Cs BY <1>3, <2>1, <2>4, Zenon
    <2>6. /\ client'.at = "live" /\ client'.stream = client.stream /\ client'.cursor = client.cursor
          /\ client'.version = client.version /\ client'.batch = b
        BY <1>3, <2>1, SMT
    <2>7. ClientInv'
        BY <1>1, <2>2, <2>5, <2>6, Zenon DEF ClientInv
    <2>8. NothingHidden'
        BY <1>1, <2>1, <2>6, Zenon DEF NothingHidden, ObsInv, ClientFollows
    <2>9. InOrder' BY <2>4, <2>6, Zenon DEF InOrder, Rising
    <2> QED BY <1>2, <2>7, <2>8, <2>9 DEF ObsInv, ClientFollows
<1> QED BY <1>6, <1>7, <1>8, <1>9

LEMMA ObsNext ==
    ASSUME ObservationBounds, ObsInv, [ObservationNext]_observationVars PROVE ObsInv'
<1>1. CASE UNCHANGED observationVars
    <2>1. OpInv' BY <1>1, Zenon DEF ObsInv, OpInv, observationVars
    <2> QED BY <1>1, <2>1, OthersRest DEF observationVars
<1>2. CASE ObservationNext
    <2>1. ASSUME EnterNode \/ BudgetPause \/ Token \/ Succeed \/ Fail
                 \/ Correct \/ PublisherRaises \/ OperationCrashes
          PROVE  ObsInv'
        BY <2>1, NodeStep, OthersRest DEF ObsInv
    <2> QED
        BY <1>2, <2>1, SaveSteps, PublishStep, DeliverStep, LoseStep, ObserverStep DEF ObservationNext
<1> QED BY <1>1, <1>2

\* Whatever the transport loses, repeats and reorders, and however small the
\* buffer: nothing saved before a client's barrier is newer than what it is
\* shown, and what it consumes is new and in order (observation.py,
\* desktop/controller.py).
THEOREM FollowsCorrect == ObservationSpec => []ClientFollows
<1>1. ObservationInit => ObsInv BY ObservationBounds, ObsInit
<1>2. ObsInv /\ [ObservationNext]_observationVars => ObsInv' BY ObservationBounds, ObsNext
<1>3. ObsInv => ClientFollows BY DEF ObsInv
<1> QED BY <1>1, <1>2, <1>3, PTL DEF ObservationSpec
===============================================================================
