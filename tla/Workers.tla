------------------------------- MODULE Workers -------------------------------
(***************************************************************************)
(* Supervision of the detached processes that execute one Run              *)
(* (battalion/workers.py): a launch lock file, one worker record that is    *)
(* replaced atomically but read, judged and written in separate steps, and *)
(* worker processes that outlive the clients that launched them.           *)
(*                                                                         *)
(* A client is a desktop or CLI process.  What it is doing is its job, and *)
(* pc says how far it is:                                                  *)
(*   idle       nothing                                                    *)
(*   read       about to read the record (launch and guard hold the lock)  *)
(*   probe      has read it; about to test whether its process lives       *)
(*   reconcile  about to write that the process is gone                    *)
(*   judged     the record is observed; about to act on it                 *)
(*   guarding   no worker is active: a human action is being persisted     *)
(*   reserved .. piped   the steps of a launch after the reservation       *)
(*   killing    has recorded the cancellation; about to signal             *)
(*                                                                         *)
(* A process identifier is the number of the worker it runs: identifiers   *)
(* are not reused within the modelled period.                              *)
(***************************************************************************)
EXTENDS Naturals, FiniteSets

CONSTANTS
    Clients,       \* processes that launch workers or persist human actions
    Supervisors,   \* processes that observe and cancel, without the lock
    DeathPoints,   \* where in its life a worker process may die abruptly
    MaxWorkers,    \* bound: launches of this Run
    MaxClientDeaths, MaxWorkerDeaths   \* bounds: abrupt process deaths

ASSUME WorkerBounds ==
    /\ Clients \cap Supervisors = {}
    /\ DeathPoints \subseteq {"spawned", "booting", "booted", "running", "reporting"}
    /\ MaxWorkers \in Nat \ {0} /\ MaxClientDeaths \in Nat /\ MaxWorkerDeaths \in Nat

Workers == 1 .. MaxWorkers
Actors  == Clients \cup Supervisors

Active   == {"starting", "running", "cancelling"}
Terminal == {"succeeded", "failed", "cancelled", "crashed"}

\* pid 0: no process is known yet.  worker 0: there is no record.
Record   == {r \in [worker : 0 .. MaxWorkers, status : Active \cup Terminal \cup {"absent"},
                    pid : 0 .. MaxWorkers, cancel : BOOLEAN] :
                /\ r.worker = 0 <=> r.status = "absent"
                /\ r.pid \in {0, r.worker}
                /\ r.status \in {"running", "cancelling", "crashed"} => r.pid # 0
                /\ r.status \in {"cancelling", "cancelled"} => r.cancel}
NoRecord == [worker |-> 0, status |-> "absent", pid |-> 0, cancel |-> FALSE]

VARIABLES
    lock,      \* the .launch.lock file exists
    record,    \* the worker record file
    saved,     \* the canonical state file of the Run exists
    proc,      \* each worker process
    latest,    \* what each worker process last read of the record
    pc, job,   \* each client's position and task
    seen,      \* the record a client holds in memory
    mine,      \* the worker a client has reserved
    deaths     \* [client, worker]: bounded counters

vars == <<lock, record, saved, proc, latest, pc, job, seen, mine, deaths>>
processes == <<proc, latest>>

\* What a process held in memory is gone with it.
Exit(w) == proc' = [proc EXCEPT ![w] = "dead"] /\ latest' = [latest EXCEPT ![w] = NoRecord]

Gone  == {"none", "reserved", "dead"}
Alive(w) == w # 0 /\ proc[w] \notin Gone
Executing == {w \in Workers : proc[w] = "running"}

Init ==
    /\ lock = FALSE /\ record = NoRecord /\ saved = FALSE
    /\ proc = [w \in Workers |-> "none"] /\ latest = [w \in Workers |-> NoRecord]
    /\ pc = [c \in Actors |-> "idle"] /\ job = [c \in Actors |-> "none"]
    /\ seen = [c \in Actors |-> NoRecord] /\ mine = [c \in Actors |-> 0]
    /\ deaths = [client |-> 0, worker |-> 0]

-----------------------------------------------------------------------------
(* Beginning a task *)

Goto(c, next) == pc' = [pc EXCEPT ![c] = next]

\* O_CREAT | O_EXCL: without the lock file, a launch or a guard is refused.
TakeLock(c, task) ==
    /\ pc[c] = "idle" /\ ~lock
    /\ lock' = TRUE
    /\ job' = [job EXCEPT ![c] = task]
    /\ Goto(c, "read")
    /\ UNCHANGED <<record, saved, processes, seen, mine, deaths>>

\* Observing and cancelling take no lock.
Approach(c, task) ==
    /\ pc[c] = "idle" /\ record # NoRecord
    /\ job' = [job EXCEPT ![c] = task]
    /\ Goto(c, "read")
    /\ UNCHANGED <<lock, record, saved, processes, seen, mine, deaths>>

-----------------------------------------------------------------------------
(* observe_worker, which every task goes through *)

ReadRecord(c) ==
    /\ pc[c] = "read"
    /\ seen' = [seen EXCEPT ![c] = record]
    /\ Goto(c, "probe")
    /\ UNCHANGED <<lock, record, saved, processes, job, mine, deaths>>

\* Mutant (ReservationEnds): the death of a cancelled process is not noticed.
UnreportedUnlessCancelling(r) == r.status \in {"starting", "running"} /\ r.pid # 0 /\ ~Alive(r.pid)

Unreported(r) == r.status \in Active /\ r.pid # 0 /\ ~Alive(r.pid)

Reconciled(r) == [r EXCEPT !.status = IF r.cancel THEN "cancelled" ELSE "crashed"]

Probe(c) ==
    /\ pc[c] = "probe"
    /\ IF Unreported(seen[c])
       THEN Goto(c, "reconcile") /\ seen' = [seen EXCEPT ![c] = Reconciled(@)]
       ELSE Goto(c, "judged") /\ UNCHANGED seen
    /\ UNCHANGED <<lock, record, saved, processes, job, mine, deaths>>

Reconcile(c) ==
    /\ pc[c] = "reconcile"
    /\ record' = seen[c]
    /\ Goto(c, "judged")
    /\ UNCHANGED <<lock, saved, processes, job, seen, mine, deaths>>

Judged(c, task) == pc[c] = "judged" /\ job[c] = task

EndTask(c) ==
    /\ Goto(c, "idle") /\ job' = [job EXCEPT ![c] = "none"]
    /\ seen' = [seen EXCEPT ![c] = NoRecord] /\ mine' = [mine EXCEPT ![c] = 0]

\* Nothing more to do for an observer, or for a cancel with nothing to kill.
ReturnRecord(c) ==
    /\ \/ Judged(c, "observe")
       \/ Judged(c, "cancel") /\ (seen[c].status \notin Active \/ seen[c].pid = 0)
    /\ EndTask(c)
    /\ UNCHANGED <<lock, record, saved, processes, deaths>>

\* WorkerAlreadyActive: the lock is released and the task fails.
Refuse(c) ==
    /\ Judged(c, "launch") \/ Judged(c, "guard")
    /\ seen[c].status \in Active
    /\ lock' = FALSE
    /\ EndTask(c)
    /\ UNCHANGED <<record, saved, processes, deaths>>

-----------------------------------------------------------------------------
(* inactive_worker_guard: a human action is persisted under the lock *)

\* Mutant (GuardExcludesWork): the record is not consulted.
EnterGuardUnchecked(c) ==
    /\ Judged(c, "guard")
    /\ Goto(c, "guarding")
    /\ UNCHANGED <<lock, record, saved, processes, job, seen, mine, deaths>>

EnterGuard(c) ==
    /\ Judged(c, "guard") /\ seen[c].status \notin Active
    /\ Goto(c, "guarding")
    /\ UNCHANGED <<lock, record, saved, processes, job, seen, mine, deaths>>

LeaveGuard(c) ==
    /\ pc[c] = "guarding"
    /\ lock' = FALSE
    /\ EndTask(c)
    /\ UNCHANGED <<record, saved, processes, deaths>>

-----------------------------------------------------------------------------
(* launch_worker *)

Unused == {w \in Workers : proc[w] = "none"}

Reservation(w) == [worker |-> w, status |-> "starting", pid |-> 0, cancel |-> FALSE]

\* Mutant (OneExecution): an existing active record does not stop a launch.
ReserveUnchecked(c) ==
    /\ Judged(c, "launch")
    /\ \E w \in Unused :
          /\ \A v \in Unused : w <= v
          /\ record' = Reservation(w) /\ mine' = [mine EXCEPT ![c] = w]
          /\ proc' = [proc EXCEPT ![w] = "reserved"]
    /\ Goto(c, "reserved")
    /\ UNCHANGED <<lock, saved, latest, job, seen, deaths>>

Reserve(c) ==
    /\ Judged(c, "launch") /\ seen[c].status \notin Active
    /\ \E w \in Unused :
          /\ \A v \in Unused : w <= v
          /\ record' = Reservation(w) /\ mine' = [mine EXCEPT ![c] = w]
          /\ proc' = [proc EXCEPT ![w] = "reserved"]
    /\ Goto(c, "reserved")
    /\ UNCHANGED <<lock, saved, latest, job, seen, deaths>>

Unlock(c) ==
    /\ pc[c] = "reserved"
    /\ lock' = FALSE
    /\ Goto(c, "unlocked")
    /\ UNCHANGED <<record, saved, processes, job, seen, mine, deaths>>

\* Mutant (TypeOK): the baseline is left to the worker.
SkipBaseline(c) ==
    /\ pc[c] = "unlocked"
    /\ Goto(c, "saved")
    /\ UNCHANGED <<lock, record, saved, processes, job, seen, mine, deaths>>

\* A start saves its baseline state first; a resume was refused without one.
SaveBaseline(c) ==
    /\ pc[c] = "unlocked"
    /\ saved' = TRUE
    /\ Goto(c, "saved")
    /\ UNCHANGED <<lock, record, processes, job, seen, mine, deaths>>

Spawn(c) ==
    /\ pc[c] = "saved"
    /\ proc' = [proc EXCEPT ![mine[c]] = "spawned"]
    /\ Goto(c, "spawned")
    /\ UNCHANGED <<lock, record, saved, latest, job, seen, mine, deaths>>

LaunchFailed(c) ==
    /\ record' = [Reservation(mine[c]) EXCEPT !.status = "failed"]
    /\ EndTask(c)
    /\ UNCHANGED <<lock, saved, processes, deaths>>

SpawnFails(c) == pc[c] = "saved" /\ LaunchFailed(c)

RecordPid(c) ==
    /\ pc[c] = "spawned"
    /\ record' = [Reservation(mine[c]) EXCEPT !.pid = mine[c]]
    /\ Goto(c, "piped")
    /\ UNCHANGED <<lock, saved, processes, job, seen, mine, deaths>>

\* The request crosses the pipe, after which the worker needs no client.
SendRequest(c) ==
    /\ pc[c] = "piped" /\ proc[mine[c]] = "spawned"
    /\ proc' = [proc EXCEPT ![mine[c]] = "booting"]
    /\ EndTask(c)
    /\ UNCHANGED <<lock, record, saved, latest, deaths>>

BrokenPipe(c) == pc[c] = "piped" /\ proc[mine[c]] = "dead" /\ LaunchFailed(c)

-----------------------------------------------------------------------------
(* cancel_worker *)

RecordCancel(c) ==
    /\ Judged(c, "cancel") /\ seen[c].status \in Active /\ seen[c].pid # 0
    /\ seen' = [seen EXCEPT ![c].status = "cancelling", ![c].cancel = TRUE]
    /\ record' = seen'[c]
    /\ Goto(c, "killing")
    /\ UNCHANGED <<lock, saved, processes, job, mine, deaths>>

\* SIGTERM ends the process at once, or finds it gone.
Kill(c) ==
    /\ pc[c] = "killing"
    /\ Exit(seen[c].pid)
    /\ EndTask(c)
    /\ UNCHANGED <<lock, record, saved, deaths>>

\* Some platforms report a vanished process as a plain OSError.
KillFails(c) ==
    /\ pc[c] = "killing" /\ ~Alive(seen[c].pid)
    /\ record' = [seen[c] EXCEPT !.status = "failed"]
    /\ EndTask(c)
    /\ UNCHANGED <<lock, saved, processes, deaths>>

-----------------------------------------------------------------------------
(* _worker_main *)

\* The request is read; a superseded worker exits without executing anything.
Boot(w) ==
    /\ proc[w] = "booting"
    /\ IF record.worker = w
       THEN proc' = [proc EXCEPT ![w] = "booted"] /\ latest' = [latest EXCEPT ![w] = record]
       ELSE Exit(w)
    /\ UNCHANGED <<lock, record, saved, pc, job, seen, mine, deaths>>

BeginExecution(w) ==
    /\ proc[w] = "booted"
    /\ record' = [latest[w] EXCEPT !.status = "running", !.pid = w]
    /\ proc' = [proc EXCEPT ![w] = "running"]
    /\ latest' = [latest EXCEPT ![w] = NoRecord]
    /\ UNCHANGED <<lock, saved, pc, job, seen, mine, deaths>>

\* start_run or resume_run returns or raises; the record is read again.
EndExecution(w, outcome) ==
    /\ proc[w] = "running"
    /\ proc' = [proc EXCEPT ![w] = "reporting"]
    /\ latest' = [latest EXCEPT ![w] =
           [record EXCEPT !.status = IF record.cancel THEN "cancelled" ELSE outcome]]
    /\ UNCHANGED <<lock, record, saved, pc, job, seen, mine, deaths>>

\* The last act of a worker is to write its outcome.
Report(w) ==
    /\ proc[w] = "reporting"
    /\ record' = latest[w]
    /\ Exit(w)
    /\ UNCHANGED <<lock, saved, pc, job, seen, mine, deaths>>

-----------------------------------------------------------------------------
(* Abrupt deaths *)

\* A worker still waiting for its request reads end-of-file when its client dies.  A
\* baseline that cannot be saved raises out of the launch and leaves the same behind.
ClientDies(c) ==
    /\ pc[c] # "idle" /\ deaths.client < MaxClientDeaths
    /\ deaths' = [deaths EXCEPT !.client = @ + 1]
    /\ proc' = IF pc[c] \in {"spawned", "piped"} /\ proc[mine[c]] = "spawned"
               THEN [proc EXCEPT ![mine[c]] = "dead"] ELSE proc
    /\ EndTask(c)
    /\ UNCHANGED <<lock, record, saved, latest>>

WorkerDies(w) ==
    /\ proc[w] \in DeathPoints /\ deaths.worker < MaxWorkerDeaths
    /\ deaths' = [deaths EXCEPT !.worker = @ + 1]
    /\ Exit(w)
    /\ UNCHANGED <<lock, record, saved, pc, job, seen, mine>>

-----------------------------------------------------------------------------
ClientStep(c) ==
    \/ ReadRecord(c) \/ Probe(c) \/ Reconcile(c) \/ ReturnRecord(c) \/ Refuse(c)
    \/ EnterGuard(c) \/ LeaveGuard(c)
    \/ Reserve(c) \/ Unlock(c) \/ SaveBaseline(c) \/ Spawn(c) \/ RecordPid(c)
    \/ SendRequest(c) \/ BrokenPipe(c)
    \/ RecordCancel(c) \/ Kill(c)

WorkerStep(w) ==
    \/ Boot(w) \/ BeginExecution(w) \/ Report(w)
    \/ \E outcome \in {"succeeded", "failed"} : EndExecution(w, outcome)

Next ==
    \/ \E c \in Clients : \E task \in {"launch", "guard"} : TakeLock(c, task)
    \/ \E c \in Supervisors : \E task \in {"observe", "cancel"} : Approach(c, task)
    \/ \E c \in Actors : ClientStep(c) \/ SpawnFails(c) \/ KillFails(c) \/ ClientDies(c)
    \/ \E w \in Workers : WorkerStep(w) \/ WorkerDies(w)

Spec == Init /\ [][Next]_vars

-----------------------------------------------------------------------------
(* Properties *)

\* A record that observe_worker turned into "crashed" is recoverable: whenever the worker
\* died, the canonical state to resume from had been saved before it was spawned.
CrashedIsRecoverable == record.status = "crashed" => saved

\* Every record on disk and in a process's memory is well formed: it names its own
\* worker's process or none, an execution or a cancellation has a process, and only a
\* recorded intent cancels.
TypeOK ==
    /\ lock \in BOOLEAN /\ record \in Record /\ saved \in BOOLEAN
    /\ proc \in [Workers -> {"none", "reserved", "spawned", "booting", "booted", "running",
                             "reporting", "dead"}]
    /\ latest \in [Workers -> Record]
    /\ pc \in [Actors -> {"idle", "read", "probe", "reconcile", "judged", "guarding",
                          "reserved", "unlocked", "saved", "spawned", "piped", "killing"}]
    /\ job \in [Actors -> {"none", "launch", "guard", "observe", "cancel"}]
    /\ seen \in [Actors -> Record] /\ mine \in [Actors -> 0 .. MaxWorkers]
    /\ deaths \in [client : 0 .. MaxClientDeaths, worker : 0 .. MaxWorkerDeaths]
    /\ CrashedIsRecoverable

\* No write puts an earlier worker's record back over a later one's.
UpToDate == record'.worker >= record.worker

\* Two processes never execute the Run at once, whatever dies between two steps of a
\* launch or of an execution (launch_worker's lock and reservation).  Only a write that is
\* not UpToDate can break it, as an unlocked observer's does in FindOneExecution.
OneExecution == Cardinality(Executing) <= 1

\* While a human action is persisted under inactive_worker_guard, no worker executes the
\* Run and none that will execute it is about to: the guard really excludes generation.
\* Only a write that is not UpToDate can break it, as a launch's does in FindGuard.
GuardExcludesWork ==
    \A c \in Clients : pc[c] = "guarding" =>
        \A w \in Workers :
            /\ proc[w] \notin {"booted", "running", "reporting"}
            /\ proc[w] = "booting" => record.worker # w

\* A worker that reported its own success is never declared crashed afterwards
\* (observe_worker reconciles only an unreported death).
ReportStands ==
    [][record.status = "succeeded" /\ record'.worker = record.worker
          => record'.status # "crashed"]_vars

\* A recorded cancellation intent stays on the worker's record, so that its process is
\* reported cancelled when it is gone (cancel_worker, observe_worker).
CancelIntentStands ==
    [][record.cancel /\ record'.worker = record.worker => record'.cancel]_vars

\* The clients and the processes keep taking the steps they have begun, a supervisor
\* keeps observing, and an execution ends.  Deaths, launches and cancels are not fair.
Fairness ==
    /\ \A c \in Actors : WF_vars(ClientStep(c))
    /\ \A c \in Supervisors : WF_vars(Approach(c, "observe"))
    /\ \A w \in Workers : WF_vars(WorkerStep(w))
LiveSpec == Spec /\ Fairness

\* An active record does not stay active forever, and so never bars the Run from its next
\* launch: the worker reports, or an observer finds its process gone (observe_worker).
ReservationEnds == record.status \in Active ~> record.status \notin Active
=============================================================================
