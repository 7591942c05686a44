# Battalion in TLA+

Battalion runs one coding ticket as a *Run*: a fixed graph of roles (Architect,
Driver, Reviewer, Refactorer) that write tests and code in turn, with a human
who decides at interrupts. Everything it promises rests on files that must
survive the death of any process at any moment: one state file per Run, a worker
record that says which detached process executes it, a ledger of what was sent
outside, and beside them the project's registries, Specifications, accepted
knowledge and map. This directory models these parts, checks them with TLC and
proves with TLAPS what matters most about each of them.

    tlc -config RunWhole.cfg RunGraphProps       # any run below, likewise
    tlapm RunGraph_proofs.tla                    # any module named *_proofs

## 1. Inventory

The implementation is about 26 800 lines of Python under `battalion/`.

| Component | State it keeps | Operations | What is hard | What makes it correct |
|---|---|---|---|---|
| Run graph (`graph.py`, `execution.py`, `recovery.py`, `state/models.py`) | `RunState`: phase, status, budget, attempts, rejections, interrupts, human actions, resume cursor | run a node, checkpoint, route, correct, pause, stop | a crash between any two of five saves per attempt; resume targets inferred from several fields | readable and resumable record; work follows the graph; nothing replayed, nothing skipped |
| Roles (`nodes/`, `role_results.py`) | the workspace | call the model, parse, write files | malformed or out-of-scope output | every output becomes one typed outcome |
| Interrupts and budget (`interrupts/`) | none: functions of `RunState` | four triggers, consumption | several triggers at once, off-by-one at the limit | no work without the decision that is owed |
| Application (`application.py`, `state/persistence.py`) | the state file | start, resume, resolve, queue context | decision saved, then crash; two processes on one file | one decision per interrupt; no context lost |
| Workers (`workers.py`, `worker_entry.py`) | lock file, worker record, processes | launch, observe, cancel, guard, report | everyone reads, judges and writes in separate steps; anyone may die | at most one execution; a reservation ends |
| Effects (`integrations/effects.py`, `events.py`) | ledger inside `RunState` | execute, reconcile | a lost answer; a crash between send and save; a failing save | a delivery is not repeated on a guess |
| Artifact-target handoff (`artifact_target*.py`, `project_source*.py`) | chain of contracts, reconciliations and corrections in `RunState` | seal, approve, return, cancel, reconcile, gate the Driver | stale evidence; foreign edits of the workspace; corrections against a moving tip | a Driver works only on the active tip, on an accounted workspace, authorised for that contract |
| Workflow admission and execution (`workflow_*.py`, `next_step_admission.py`, `tactician.py`) | admission record and stage evidence in `RunState`, Run catalog | assess, consult, choose, create, amend, upgrade | evidence revised between question and choice; commands save a whole state they loaded earlier | compact only when justified; an upgrade is final |
| Specifications (`specification*.py`) | pointer, immutable revisions, Markdown, its status; executions | create, accept, reject, supersede, render; author | four files written one at a time | what is shown as fresh is the current accepted revision |
| Actors and identity (`actors.py`, `identity.py`, `workspace_catalog.py`) | project marker, Actor registry, Run catalog | bootstrap, create, select, link, list a Run | load, change, replace without a lock | identifiers are never reassigned, attributions resolve |
| Intel (`intel/`, `nodes/recon.py`) | candidates, decisions, accepted Instincts, one file each | propose, review, retrieve | two files per review, each created before it is filled | a recorded acceptance has its Instinct; supersession loses nothing |
| Cartography (`cartography/`) | revisions, rendered Markdown, its status | refresh, reconcile, publish | identities over a refresh; three files, written in turn | protected records survive; "current" is what is shown |
| Observation (`observation.py`, `progress.py`) | event stream, buffer | publish, subscribe, reconnect | loss, repetition and reordering; reading the state beside the stream | nothing saved is hidden from a client that reconnects |
| Reviewer tests (`reviewer_testing.py`) | process group | run, time out, cancel, clean up | exit racing a timeout | no process survives its run |
| Integrations (`integrations/`, `notifications.py`, `work.py`) | bindings | resolve, invoke | deadlines and cancellation | typed outcomes only |
| LLM client (`llm/`, `config.py`) | none | complete with retries | retry of a partial stream | bounded attempts; free-only policy |
| Scope, prompts, history, CLI, desktop, setup | none or read-only | — | — | not planned, see 7 |

They interact by calls inside one process, and between processes by files: the
desktop or CLI launches a worker (worker record, lock), the worker calls
`resume_run`/`start_run` (state file), whose graph saves after every durable
step, asks the handoff's gate before a Driver, reports to observers, and whose
end publishes events through the ledger in the same state. Admission comes
before a Run exists and lists it in the catalog; human actions name Actors of
the registry; a completed Run feeds Recon, and later Runs are given Instincts.

The hazards this leads to are listed, each at its line, in `PROJECT.json`.

## 2. Modules

| Module | What it is |
|---|---|
| `RunState` | the Run's record and the pure functions on it: routing, triggers, resume-target inference, closing of attempts, delivery of interventions |
| `RunGraph` | one Run: every durable step of a node, the graph's edges, start/resume/queue, crashes |
| `RunContract` | what a Run promises its human, over the saved record only: the abstract specification |
| `RunGraphProps` | the properties of `RunGraph`, and the refinement of `RunContract` |
| `RunGraph_proofs` | TLAPS proofs about `RunGraph`: its record; the order of its work, its decisions, its reviews, and the refinement |
| `Workers` | the lock, the worker record, clients, supervisors and worker processes |
| `EffectLedger`, `EffectLedger_proofs` | one Run's ledger of external operations, its sessions and the provider |
| `Handoff`, `HandoffProps`, `Handoff_proofs` | the artifact-target handoff: contracts, reconciliations, corrections, the Driver's gate |
| `Admission` | the pure questions asked before work: workflow outcome, next step, advice, choices |
| `Workflow`, `Workflow_proofs` | one admitted Run: assessment, choice, creation, execution, amendments |
| `Specifications`, `Specifications_proofs` | Specifications, their revisions and projection, and the executions that author them |
| `Registries`, `Registries_proofs` | project marker, Actor registry and Run catalog under read and replace |
| `Instincts` | candidates, review and retrieval of accepted knowledge |
| `Cartography` | reconciliation, refresh, publication and rendering of the map |
| `Observation` | publisher, transport, buffer, and a client that reconnects |
| `Knowledge_proofs` | proofs about what a project knows: `Instincts`, `Cartography` |
| `Supervision_proofs` | proofs about the processes around a Run: `Workers`, `Observation` |

**RunState/RunGraph.** `disk` is the state file and `mem` the `RunState` of the
process; a crash discards `mem`. `pc` names the last durable step, so that a
crash between any two saves is one action, `Crash`. The actions are the code's
durable steps: `CreateAttempt` (with delivery of queued interventions),
`StartAttempt` (with the budget), one action per outcome of a role
(`RoleSucceeds`, `ReviewAccepts`, `ReviewRejects`, `RoleFails`,
`RoleViolatesContract`, `DriverBlocks`, `DriverEscalates`), `HoldCorrection`,
`CheckpointOutcome`, `Route`, `StopNode`, `RecursionLimit`, `FinalSave`, and
the application's `Resume` and `QueueIntervention`. A rejection cause is a
value of `Causes`; prompts, costs and provenance are abstracted; the phase is kept,
because the code routes by it.

**RunContract** is the reading of the record a supervisor relies on: attempts
follow the edges one at a time, each is started once, an attempt with a lost
outcome ends the Run, nothing is created while a decision is owed.
`KeepsContract` maps `settled`, `current` and `owed` to the saved attempts, the
cursor and the interrupt log.

**Workers.** `record` is the worker file; every read, probe, judgement and
write is a step of its own (`ReadRecord`, `Probe`, `Reconcile`, `Reserve`,
`Spawn`, `RecordPid`, `SendRequest`, `RecordCancel`, `Kill`, `Boot`,
`BeginExecution`, `Report`, …), `pc`/`job` say where a client is in which task,
`seen` is what it read. Clients take the lock, supervisors never do.

**EffectLedger.** `disk`/`mem` are the two copies of the ledger, `opened` the
coordinator's `_session_opened`, `pc` the point inside `execute` or
`reconcile`. The provider is outside: `Deliver` chooses whether it acts and
what it says; `effects` counts its acts. `Surprise` is an exception no adapter
types.

**Handoff.** `disk`/`mem` hold the handoff's part of the record; a contract is
named by its place in the chain. `file`, `plan` and `policy` are the world
outside: who wrote the target file and `plan.md`, and the version of the write
scope. `Assess` is one reconciliation, `Observed` what the gate makes of the
record; `GateAdmits`, `GateRejects`, `CreateAttempt`, `StartAttempt`,
`RoleSucceeds`, `RoleFails` and `Crash` are the foreground process, `Seal`,
`Approve`, `Return`, `Cancel` and `Resume` the commands, `Edit` changes the world at
any moment. `intent` and `pending` are the record's resume intent: a resume repeats
a decision that was saved and not acted on (`Decided`), and with a contract named
passes the gate once more (`Authorising`). Of the roles only the Architect and the Drivers appear: the gate
looks at no other. It refines, for those, the points where `RunGraph` calls the
gate.

**Admission/Workflow.** `Admission` has the decisions as operators on evidence:
`WorkflowOutcome`, `NextStep`, `Offered`, `StepAdmitted`. `Workflow` is the
life of one Run around them: `Assess`, `Reread` (the client reads the evidence again
and keeps its assessment), `AssessStep`, `Consult`, `UpgradeStep`,
`Create` (which lists the Run), `SaveRun`, then `Start`, `Checkpoint`, `Finish`
of a foreground process, and `Load`/`Amend`, a command on the workflow record
that loads the whole state and saves it changed. `Change` revises the evidence
or the policy in between.

**Specifications.** A command of the repository is one action per file it
writes (`Store`, `Point`, `Reread`, `Clear`, `MarkStale`; `WriteProjection`,
`Render`, `WriteMarkdown`, `WriteStatus`), `job` is what it still has to do; `StoreDies`
leaves a revision's file torn. `overtaken` remembers the acceptances that were written
while a supersession had the pointer reread and not yet cleared. An
execution is a value: `Load`, `Advance`, `SaveExecution` are its life in memory.

**Registries.** Marker, registry and catalog are three files with one
discipline: `Missing`/`Load`/`LoadCatalog` read, every other command replaces
the file by its changed copy. Only the registry's first write is exclusive; any
two commands on one file may overlap, and `read` says which copy each will write.

**Instincts.** Each identifier has a candidate, a decision and an Instinct file.
A file is created exclusively (`Torn`) and filled in a second step; a review
stores the Instinct, then the decision, and a `Crash` may come before any. A torn file
stops every listing (`Listable`).

**Cartography.** `Reconcile` is the identity algorithm over the candidates of a
refresh, `Preserve` what a refresh keeps of the earlier records. `Refresh` (it reads
and reconciles; `Assembled` adds the records), `Attribute` and `Republish` are the ways to a publication (`draft`), `ReadStore`,
`WriteStore`, `WriteMarkdown`, `WriteStatus`, `MarkStale` its file steps. `alone`
remembers whether two publications have ever overlapped.

**Observation.** The operation carries out, one by one, the saves and reports of
a node in the graph's order (`EnterNode`, with the gate's save, the created and the
started attempt; `Succeed`, `Fail`, `Correct`,
`BudgetPause`; `SaveState`, `Publish`); `Deliver` and `Lose` are the transport;
the client goes `Barrier`, `Inspect`, `Consume`, `Leave`, and may come back.

`Cartography` and `Observation` say `MapSpec` and `ObservationSpec`, because a module of
proofs extends them together with another component.

A definition commented "Mutant (P)" is the next one with a plausible bug; no
specification uses it. Put in the place of the real one it breaks P: the
property can fail.

## 3. Runs

`CHECK_DEADLOCK FALSE` throughout: a Run that is done, a Run nobody resumes, a
worker that has reported, a ledger or a registry nobody uses all stop, and the
bounds stop the rest.

| Run | Question | Bounds and why they are enough |
|---|---|---|
| `RunWhole` | is the saved record readable, resumable, append-only and a behaviour of `RunContract`; what does the budget count; does context reach exactly the next attempt of its target; does a Run that is always resumed finish? | 2 adverse outcomes, 2 causes, a manual checkpoint (after the Architect, and when a GREEN review rejects), a crash, 5 turns, a budget of 8 and 7 invocations, one item of context to either Driver: a repeated and a changed cause, a correction at and beyond the budget, a turn limit inside a phase, a crash between delivery and start, and a whole Run of seven phases with one retry |
| `WorkersExclusion` | do lock, reservation and worker identity exclude double execution? | 2 clients, 3 workers, 2 deaths of each: a relaunch over a late worker, a stale lock. Without observers that skip the lock and without deaths of a worker before it has its request: with those it is violated, see 5, and what remains is proved, see 4 |
| `WorkersSupervised` | are records well formed, and does every reservation end? | a client, an unlocked supervisor, 2 workers, a worker's death at any point |
| `LedgerFaults` | is every delivery made under one saved intent, and none repeated on a guess? | 2 operations, 3 sends each, one crash, one failing save, one untyped exception: three lost sessions in any order |
| `HandoffRun` | is a Driver admitted only to what human and workspace stand behind, and does the handoff's history stand? | a checkpoint before RED, 4 attempts, 2 corrections, 1 edit at any moment, 1 crash: return, a new Architect, approval and a renewed authorisation; an edit between approval and admission that is undone or not; a crash after a resolution is saved, and the resume that repeats it |
| `WorkflowRun` | is a compact Run justified, listed before it is saved, and an upgrade final? | 2 changes of evidence or policy, 2 attempts, one command at a time: evidence is read again after it was assessed, advice outlives its revision, an upgrade follows and precedes evidence |
| `SpecificationsRun` | is what is shown as fresh the current accepted revision, and what can take an acceptance back? | 2 clients and 2 authors in any interleaving, 4 revisions (one once an execution is there): two candidates and two acceptances, or an acceptance and its supersession, with a death between any two files, and two authors with copies of one execution. Two acceptances overtaken by one supersession need 5 revisions: `FindAcceptance` |
| `RegistriesRun` | does an attribution resolve, and what may a stale copy take back? | 2 clients in any interleaving of reads and writes, 3 Actors, 1 subject, 2 Runs: racing bootstraps, two first clients, overlapping commands on each file |
| `InstinctsRun` | does an acceptance have its Instinct, and is knowledge that can be listed never buried? | 2 reviewers, 2 identifiers: both reviewers on one candidate, an edit onto the other's identifier, mutual supersession, a death at each file |
| `CartographyRun` | what may overlapping refreshes take from each other, are identities accounted for, and is "current" what is shown? | 2 clients in any interleaving, 2 revisions, 3 entities, 4 records: two first publications, a second one made from either, a split, a merge, a conflict of claims, a crash between store, Markdown and status |
| `ObservationRun` | does a client that reconnects follow the Run? | one stream of 7 events, buffer of 2, 2 under way: overflow, overtaking and repetition before, inside and after the client's barrier |
| `FindObserver` | see 5 | one stream of 4 events: a correction is among the first |

Many properties are conjunctions of named parts, each with its own comment
(`AdmittedRightly`, `RegistriesStand`, `AppendOnly`, `MapStands`, …): a part can be
checked alone. `TypeOK` of the modules where no run lists it holds in the same
run; a typed invariant of each is proved.

Where nothing in the code keeps commands apart, the properties are stated for any
interleaving, and say what an overlap may take back and no more
(`AttributionResolves`, `RegistriesStand`, `AcceptanceStands`, `MapStands`): a loss is
allowed only to a command that had read the file before, at the step that writes it.
The stronger properties a reader may expect, that nothing is taken back at all, are
stated beside them and violated (5).

The properties and their meaning are stated, in words, above each definition.

Fairness. `RunWhole`: `WF(Process)`, a live process goes on, and
`WF(Resume)`, the human resumes what can be resumed; crashes, adverse outcomes
and queued context are never fair. `EventuallyFinishes` exempts a Run whose
crash left a started attempt behind, and one in which accepted work is repeated:
a pause on an accepted review resumes at the producer, and with a spent budget
it does so forever. The count of invocations is not exempted: the bound on them is
high enough never to stop a Run that could have gone on. `WorkersSupervised`: a
client in the middle of a task, a worker that lives, and a supervisor's
observation (the desktop polls) are weakly fair; launches, cancellations and
deaths are not.

## 4. Proofs

All hold for every value of the constants, every bound included.

`RunGraph_proofs`: `TypeCorrect`, `EvidenceCorrect`, `OrphansImpossible`,
`BudgetCorrect`, `ReplayImpossible`. None of the properties is inductive. The
invariant `RunInv` says, of both copies of the record, that the cursor and the
attempts agree (`CursorInv`: exactly the newest attempt is open, exactly while
the cursor's stage says so), that starts are counted and an unstarted
correction has budget or authority (`BudgetInv`: otherwise its retry after a
crash would be held while open), that the pending intent names a decision
(`IntentInv`), that a paused or blocked record has no open attempt, and where
the process is in terms of the cursor (`ControlInv`). One lemma per action;
`NextInv` combines them. `ReplayImpossible` follows from the invariant and a
case split over `Next`. `HistoryAppends` needs besides that the process only
adds to what is saved (`Extends(disk, mem)`); it assumes `Supervised`, since
without it a save drops queued context (5). `ContextReaches` needs no such
assumption; its invariant `ContextInv` says of both copies that queue, attempts
and human log agree.

Its second half is about the story the record tells: `SuccessionLegal`,
`DecisionsCorrect` and `DecisionsFirst`, from `StoryInv`. None of the three can be
shown from the attempts alone, because a resume infers where to go from the
phase, the failed role, the last interrupt and the cursor. `StoryInv` says that
these tell one story, in the file and in
memory: every log entry leads where its attempt leads, every resolved interrupt
has its one decision, the cursor leads where the newest attempt leads, and the
status waits exactly for what is undecided; its `PlaceInv` says how far the
process has got in telling it.

`ReviewedCorrect` takes `ReviewInv` besides, about the last level. An accepted
review ends the Run only on the newest attempt, but that the refactoring before it
was reviewed since, and followed an accepted GREEN review, is a fact about the whole
history: `EnteredInv` says how an attempt there was reached, `LevelInv` that the level
is never left. A block breaks the chain of edges (after one, `LegalSuccession` names
no successor), so `WayInv` says that only Drivers block and that none of the places
a resume looks in names the last level or DONE afterwards; `InferOutside` shows it of
the inferred target, from the log by `StoryInv` and from the rejections by
`LevelInv`. TLC had checked `ReviewInv` on `RunWhole` before.

Of `EventuallyFinishes` the safety half is proved. `InvocationEnds`
(`InvocationAdvances`): each step of a process lowers what is `Remaining` of its
node's visit or takes one of at most `MaxTurns` turns, so no invocation circles
through corrections or retry edges. `ResumeWorks` (`ResumeEntersWork`): a resume
enters a role or DONE, never the stop the Run was at, although its phase, its
cursor and its last interrupt may all name one. No run lists these two (TLC agreed,
at the constants of `RunWhole`, before they were proved). What remains for TLC is
that a live process always has a step and a stopped Run a decision that resumes it,
which is a statement about ENABLED, and how fairness composes them.

And `ContractKept`, the refinement of `RunContract`: the initial
states map, and each action is mapped to one step of the contract or a stutter.
It takes `ContractInv`: process and file tell the same story save for queued
context (`Agree`), so that what is decided in memory is decided of what is
saved, and a typed block is only ever decided about a blocked attempt
(`BlockInv`).

`Handoff_proofs`: `TypeCorrect`, `AdmissionCorrect`, `AuthorizationCorrect` and
`ReturnCorrect`, whoever corrects a Run that executes; `HistoryCorrect` under
`Supervised`. `RecordInv` says of every copy of the record, saved or held, that
its contracts are one chain (`ChainInv`), that evidence follows the chain and a
clarification is the last word about its contract (`EvidenceInv`), and that a
Driver's attempt has an earlier resolution about its very contract; `ControlInv`
says where the process is in terms of what it holds: past the gate the newest
evidence is ready, about the active end, and authorised. The order of evidence,
corrections and attempts is what makes it inductive: the gate reads the newest of
each, the properties speak of all. `HistoryCorrect` takes `AgreeInv` besides: the
process holds the contracts, evidence and corrections that are saved, and no
cancelled Run; without the worker guard it is false (`FindLostCorrection`).
`AdmissionCorrect` has two parts. That a Driver works on the ready end of the chain is
in `ControlInv`; that at the admission write scope, plan and target file stand as they
were approved, whatever was edited before and looks clean again, is a fact about the
step (`OnlyGateAdmits`): the gate's reconciliation compares with the one before it,
which compared with its own predecessor, back to the approval (`Unmoved`). For
`AuthorizationCorrect` a saved decision whose resume is repeated counts as well: by
`IntentInv` a resume acts on a resolved pause, so whoever passes the gate again, after a
death too, does so with the decision that is saved.

`Supervision_proofs`, `Workers`: `TypeCorrect` holds for whoever observes, cancels and dies (it
needs that nothing has a process before the baseline is saved).
`OneExecutionCorrect` and `GuardCorrect` hold for every interleaving of observers,
cancellations and deaths at any point, on one condition on the behaviour,
`[][UpToDate]_vars`: no write puts an earlier worker's record back over a later one's.
The condition cannot be dropped, since observers and failing launchers do write such
records (`FindOneExecution`, `FindGuard`); the theorems say that this stale write is the
only way to a double execution, so that a compare before it, or the lock around it,
would be enough. In `WorkersExclusion` no step breaks the condition. The lock alone
excludes nothing, since a launch leaves it before its worker lives; `ExclusionInv` says
what carries over: the record names the worker of a launch under way and every worker
that lives, as active (`LaunchInv`, `LiveInv`), and what the holder of the lock has read
is still about the recorded worker, so that an inactive or vanished one means that
nothing executes the Run (`JudgementInv`).

`Supervision_proofs`, `Observation`: `FollowsCorrect`, for any number of
operations and events, any buffer and any transport. A barrier is at most the
newest event received, which is at most what was published, and nothing is
published of a state that is not saved (`HistoryInv`), so the state a client is
shown after its barrier is as new as what the barrier hides; the buffer rises
(`TransportInv`), because what arrives late is dropped and what overflows is the
oldest.

`EffectLedger_proofs`: `TypeCorrect`; `IdentityIsStable` and
`IntentComesFirst` from `IdInv` (the two ledgers agree on every identifier but
that of an intent about to be saved; only saved identifiers were sent);
`SuccessStands` from `DoneInv`; and `NoBlindRepeat` from `OnceInv`: until a
failure is saved, the provider has not acted or the gate is shut in memory,
and by the evidence that validation demands it is shut again after any loss of
memory. `NoBlindRepeat` assumes `HonestRejections` (a provider that rejects
has not acted).

`Workflow_proofs`: `TypeCorrect` (every saved record passes the validation of
its next load), `CompactCorrect` and `ListedCorrect` hold even for overlapping
commands; that a compact Run's assessment is of the evidence last read is `ReadInv`,
which every amendment keeps because none touches the assessment. `RatchetCorrect` is
proved for `~Concurrent`, from `ExclusiveInv`: then a command that will save holds
exactly what is on disk, and so does the process.

`Registries_proofs`: `TypeCorrect`, `AttributionCorrect` and `RegistriesCorrect`, for any
interleaving of any number of clients. `TypeInv` says that every copy a command will
write is a valid registry or catalog; `CopyInv`, that a command holds a copy of the
registry only of an open project, and that the copy names the registry's bootstrap Actor
or none. The rest are facts about the one step that writes (`Kept`, by `OneChange`): a
command writes what it read with one link, Actor or Run changed.

`Knowledge_proofs`, `Instincts`: `TypeCorrect`; `PromotionCorrect` for any
number of reviewers and identifiers, from `Filed` (a file lies under its own
identifier), `OwnerInv` (each torn or full Instinct belongs to at most one review
that goes on) and `DecisionInv` (who records an acceptance has stored its
Instinct); and `HeirCorrect`: by `HeirInv` what an Instinct supersedes was
complete before it was created, so as long as no file is torn the listing finds every
predecessor and does not raise, one Instinct is superseded by none, and retrieval ranks
those it finds without losing any.

`Knowledge_proofs`, `Cartography`: all for any number of clients that overlap.
`IdentitiesCorrect`, from `MapTyped` (besides types: every identity in use was handed
out, so a new one is new, and a reconciled report accounts for what it was made of);
`LoadsCorrect` for any identifiers the producers choose: a publication is unreadable
only if two of its records clash across kinds, which nothing checks; `StandsCorrect`,
because a draft carries every protected record of the revision it was made on and
the conflict check compares with what was read; `FreshCorrect` from `MapInv`: as long as
no two publications have overlapped, the status speaks truly of the current revision,
whatever the Markdown shows (`FilesAgree`).

`Specifications_proofs`: all for any number of clients and authors. `PointerCorrect`:
the pointer names an accepted revision made from an exact candidate, and a command
that has files left to write has already stored the reason (`SpecInv`).
`ProjectionCorrect`: a rendering is called fresh for a revision only by who rendered that
very revision, and revisions never change. `AcceptanceCorrect`: a pointer is cleared only
by a supersession that reread it, about what it named then (`StandCorrect`: the
acceptance it would take back is recorded in `overtaken`), and an author holds no less
than was saved when the copy was read (`HeldCorrect`).

Only model-checked: liveness (`EventuallyFinishes`, `ReservationEnds`) and the ENABLED
facts it rests on, which are outside the prover's reach. Every invariant and action property of the passing runs
has its theorem.

## 5. Where the code and its documentation disagree

TLC finds each property violated. `FindObserver` is a run of the project, and
`PROJECT.json` quotes the documentation it contradicts. The others are
configurations kept beside it for the reader; each is the configuration named
with the module in the second column.

| Configuration | Module | What happens |
|---|---|---|
| `FindObserver` | `Observation` | an automatic correction is announced as a kind of event the publisher refuses: its exception ends the Run, only because someone observes it |
| `FindPause` | `Observation` | the pause of a failed role is announced before it is saved |
| `FindSameCause` | `RunGraphProps` | after a cause was once repeated, every later success pauses as "same root cause twice" |
| `FindCheckpoint` | `RunGraphProps` | a checkpoint on an accepted review resumes at the producer, repeating the reviewed work |
| `FindIntervention` | `RunGraphProps` | context queued while a foreground process executes is overwritten by its next save |
| `FindBlock` | `RunGraphProps` | a resolved typed block resumes at an older interrupt's phase after a crash behind the Driver gate |
| `FindOneExecution` | `Workers` | a stale "crashed", written without the lock, admits a second worker |
| `FindGuard` | `Workers` | a stale "failed", written after the lock is released, admits a human action beside a worker |
| `FindReport` | `Workers` | "crashed" is written over "succeeded" |
| `FindCancelIntent` | `Workers` | a launcher's "failed" erases a recorded cancellation |
| `FindReservation` | `Workers` | a client that dies after its reservation bars the Run for good |
| `FindLostRetry` | `EffectLedger` | the retry of a failed delivery has no write-ahead save: a crash after it leads to a third delivery |
| `FindRejection` | `EffectLedger` | an error status from a provider that did act is recorded as "no external effect" and retried |
| `FindAttemptLimit` | `EffectLedger` | the attempt beyond the bound is saved, and the state can no longer be loaded |
| `FindLostCorrection` | `HandoffProps` | a correction made beside a foreground process, which the worker guard does not see, is overwritten by its next save |
| `FindUnanswerable` | `HandoffProps` | a Run refused for want of an authorisation is not waiting for one: nobody can give it |
| `FindRatchet` | `Workflow` | a command with an older copy takes an upgrade back |
| `FindAcceptance` | `Specifications` | a supersession that checked the pointer clears it after another acceptance |
| `FindUnloadable` | `Specifications` | a completion is saved that no load accepts |
| `FindLostLink` | `Registries` | two overlapping commands on one file: a link, an Actor or a listed Run is taken back. With `OneIdentity` in the place of `NothingTakenBack`: two first clients, and the project's identity is replaced |
| `FindRejectedKnown` | `Instincts` | an acceptance dies before its decision, the candidate is then rejected, and its Instinct stays known |
| `FindTornInstinct` | `Instincts` | a reviewer dies after the Instinct's file is created and before it is filled: listing raises on it, and from then on no task is given any Instinct |
| `FindUnreadableMap` | `Cartography` | a refresh assembles a protected and a generated record with one identifier: the published map is not loaded again |
| `FindOlderFresh` | `Cartography` | after a crash between Markdown and status, an older revision is called current that is no longer shown |

Overlapping commands lose updates elsewhere too. Each of these is stated beside the
property that holds, and is violated with two clients: `NoProtectedLost` and
`AnyFreshIsShown` in `Cartography` (of two refreshes the later one replaces the map the
earlier one made, with its protected records), `FreshShowsNone` in `Specifications` (a
rendering of a revision that was superseded meanwhile is called fresh), and
`RecordStands` in `Workflow` (with `Concurrent`).

## 6. Assumptions

- A state, worker or registry file is replaced atomically (`os.replace` of a synced
  sibling); a failed save leaves the old file.
- One process executes a Run at a time in `RunGraph`; `Workers` is where that is
  examined. `Supervised` says whether interventions and corrections are excluded
  by the worker guard.
- Process identifiers are not reused and a liveness probe is exact (a POSIX
  zombie of a live launcher, which would still answer, is left out). A failing
  baseline save equals the death of its client.
- No role changes its `write_scope`, so the role-definition trigger never fires.
- A provider acts before its answer is judged or never, and reconciliation is
  given true evidence. A caller of the coordinator may go on after a failed
  save; after an untyped exception the session ends, as in the application.
- The listed run of `Workflow` keeps amending commands on one Run apart, as one user
  at one terminal does: nothing in the code does. What happens without it is in 5.
  Commands on Specifications, registries, Instincts and the map overlap freely.
- A client that decides an admission supplies evidence with its decision, and the code
  compares the assessment with that (`Current`): that the world has moved on since the
  client read it (`Change`), it cannot see.
- An edit of the workspace after a Driver's admission is not seen before the next gate
  or correction: `AdmittedRightly` speaks of the admission.
- Revision, entity, Actor and Run identifiers are fresh (random in the code).
- In `CartographyRun` producers give a record an identifier of its own kind, to keep the
  run small; without it see `FindUnreadableMap`, and `LoadsCorrect` for what still holds.

## 7. Not modelled, and the plan

In the modelled parts: contract-authorised checkpoints in `RunGraph` (they are in
`Handoff`), conflicting action identifiers, the refusal of a changed model or
prompt on resume, the cancelled handoff's route, descriptor conflicts in the
ledger and the choice of events (`events_for_state`); parsing of the Architect's
Markdown and containment of paths; the wording of evidence and prompts; text
ranking in retrieval; graph queries on the map; disclosure scanning; a torn
`specification.json`, whose Specification nobody can open and nothing else depends on.

What is left, in this order:

1. `Publication`: the composition of `RunGraph`'s final save with `EffectLedger`
   (`events_for_state`, two processes, the repeated `run_failed` event), and of
   `Handoff` with `RunGraph` at the Driver's gate.
2. `ReviewerTests`: timeout, exit and cleanup of a process group; `Invocation`:
   retries and deadlines of integrations and of the model client.

Not planned: the integrations' providers, configuration and cost policy
(formatting over HTTP, parsing), write scope and prompts (file system and text),
history and benchmarks (read-only queries), CLI, desktop presentation and setup.
