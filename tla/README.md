# TLA+ models of systemd

This directory models four parts of systemd whose correctness depends on orders
of events that a test hardly reaches: how the service manager turns a request
into *jobs* (transactions), how the jobs run, wait, fail and disappear (the job
engine), how a *service* follows its processes, and how journald takes its files
offline in a second thread. TLC checks the models on small instances; TLAPS
proves their safety properties for every value of the constants. Paths below are
relative to the root of the repository.

## 1. The system and its parts

systemd is a collection of daemons and libraries (`components` in `PROJECT.json`
lists them all). The manager is a single thread around an event loop: what makes
it hard is not parallelism but *re-entrance*. Finishing one job calls handlers
that finish, create or wake other jobs before the first call returns. journald
has real threads: the offline thread of a file shares two words with the main
thread and nothing else.

| part | source | state | operations |
|---|---|---|---|
| job types | `src/core/job.c:360-458`, `job.h` | none (tables) | merge, collapse, redundant, conflicting, superset |
| transactions | `src/core/transaction.c`, `manager.c:1725-1866` | jobs, links and marks of one transaction, anchor, generation of the order walk | add with dependencies, isolate, triggering, mark, minimize, drop redundant, collect garbage, verify order, merge, apply |
| job engine | `src/core/job.c`, the job half of `unit.c`, queues of `manager.c` | `Manager.jobs`, `Unit.job`, run queue, gc queue, timers, `n_running_jobs` | install, merge, run, finish, fail dependents, requeue, notify, time out, collect, cancel, clear, reload |
| path units | `src/core/path.c` | dead, waiting, running | start, fire, stop, re-check when the triggered unit changes, coldplug |
| services | `src/core/service.c` | state, result, main and control process, timer, watch on the PID file, running command, cgroup | the `service_enter_*()` functions, start, stop, reload, child exits, timeouts, watchdog, `sd_notify()` messages, bus name, PID file, cgroup empty and OOM events, clean, reset, daemon-reload |
| journal files | `src/journal/journal-file.c`, `journald-server.c` | `offline_state`, header state, set of deferred closes | online, append, offline (in a thread), archive, rotate, close, reopen |

How they interact: a client request, `OnFailure=`, a retroactive start or stop,
`BindsTo=` and a path unit all call `manager_add_job()`; its transaction is
applied by `transaction_apply()`, which installs jobs; the run queue hands jobs
to unit methods such as `service_start()`; a unit method reports state changes
through `unit_notify()`, which finishes jobs, which calls all of the former
again. `Transaction` models the way to the installed jobs, `Jobs` what happens to
them from there with any units at all, `Service` one kind of unit with any job
sequence at all. The assumptions `Jobs` makes about transactions
(`SingleAssumption`, `PulledAssumption`) are what `Transaction` does: one job per
unit after merging, and no reload or restart pulled in by a start or a stop.

The hazards, each with its line, are `hazards` in `PROJECT.json`.

## 2. Modules

| module | models | checked by |
|---|---|---|
| `JobTypes` | the operators on job types | (used by the next three) |
| `JobMerge` | merging requests for one unit in any order | `job_merge`; proofs at the end of `JobsTheorems` |
| `Jobs` | the job engine and path units | `jobs_*`; proofs in `JobsLemmas`, `JobsApplying`, `JobsTheorems` |
| `Transaction` | `manager_add_job()` and `manager_propagate_reload()` up to the installed jobs | `transaction_*`; proofs in `TransactionLemmas`, `TransactionOutcome`, `TransactionTheorems` |
| `Service` | one service | `service`, `service_stop`; proofs in `ServiceProofs` |
| `JournalOffline` | journald's files and their offline threads | `journal_*`; proofs in `JournalProofs` |
| `DurableJournal` | what a journal file promises after a power failure (abstract) | implemented by `JournalOffline` |
| `MCJobs`, `MCTransaction`, `MCService`, `MCJournal` | instances for TLC | |

Operators introduced by the words "A changed form of" are plausible mistakes in
the definition that follows them. Nothing uses them; with one of them in its
place the property named in `mutants` of `PROJECT.json` is violated.

### JobTypes and JobMerge

The merge table of `job.c` is a function on sets of types; `job_type_collapse()`,
`job_type_is_redundant()` and the others are translated one to one. `JobMerge`
folds requests in every order and compares the result with `MergeOf`, a
definition that only looks at *which* types were asked for.

### Jobs

State: `ustate` (`unit_active_state()`), `jobs` (`Manager.jobs`), `slot`
(`Unit.job`), `runq`, `gcq`, `armed` (jobs with a timer), `nrun`
(`n_running_jobs`), `path`, `stack`, and `doomed`, a history variable: the jobs a
failed start must take with it. The manager is one thread, so a handler
is never interrupted by an event; but the handlers nest. `stack` holds the calls
the running handler still has to make, innermost first; while it is not empty
only its top frame may move. `job_install()` that cancels the job in its slot,
for instance, pushes a `place` frame below the frames of the cancellation: what
the cancellation sets off happens between the two halves, as in the C code.

* Events (only with an empty stack): `Request`, `CancelJob`, `ClearJobs`,
  `JobTimesOut`, `CollectJob`, `UnitEvent`, `DispatchRunQueue`, `Reload`,
  `PathStarts`, `PathFires`, `PathStops`.
* Frames: `FailStep` (`job_fail_dependencies()`), `RequeueStep` (the loop that
  queues ordered jobs again), `AddsStep` (requests made by handlers),
  `FlushStep` (the one pass in which isolate and flush cancel what is not in the
  transaction), `InstallStep`, `PlaceStep` (`transaction_apply()` and
  `job_install()`), `ClearStep` (`manager_clear_jobs()`, which starts over until
  no job is left), `NotifyStep` (`unit_notify()`), `BindsStep`
  (`unit_check_binds_to()`), `TriggerStep` and `PathStep` (`path.c`),
  `DispatchStep`, `RanStep` (`job_run_and_invalidate()` before and after the
  unit method), `ColdplugStep`.

What is abstracted: a transaction is a member of the constant `Transactions`;
what a unit does on start, stop or reload is any error and any state change its
vtable allows, `EPROTO` standing for the refusals that are treated alike; the run
queue is a set, so its order by priority is one of the orders explored; an
identifier is reused when free. Not modelled: the NOP slot, bus signals and bus
tracking, emergency actions, `StopWhenUnneeded=`, jobs of the path unit itself.
`OnFailureJobMode=` is its default, replace.

### Transaction

State: `tr` (per unit the list of its jobs, the links, the marks
`matters_to_anchor`), `anchor`, `calls` (the recursion of
`transaction_add_job_and_dependencies()`), `visit` (the loop of isolate and
triggering), `walk` and `seen` (the recursion and the generation marks of
`transaction_verify_order_one()`), `phase` (where `manager_add_job()` is),
`installed`, `ustate`, and `dep`, the dependency graph, chosen initially. A job
of a transaction is `<<unit, type>>`, as the code keeps one job per type and
unit. Hash tables are walked in an order nobody chose, so their loops take any
order. The list of jobs of one unit keeps its order, which the code depends on.

Actions are the steps of the code in order: `AddJob`/`PropagateReload`, `Build`
(one dependency at a time, with the error paths), `Built`, `StopOther`,
`OthersStopped`, `Mark`, `Minimize`, `DropRedundant`, `CollectGarbage`,
`VerifyOrder`, `DropUnmergeable`, `MergeJobs`, `Activate`; and `JobEnds`, the
environment in which installed jobs run (module `Jobs`). Not modelled: running
out of memory, loading units on demand, the NOP slot, the running flag of an
installed job (a merge yields the same type). `can_start` and `can_stop` are
reduced to `Perpetual`.

### Service

State: `cfg` (the settings of the unit file), `s` (the `Service` object and the
processes of its cgroup), `job` (`Unit.job`), `cgroup` (the way of the empty
event to the service), `call`. The functions `service_enter_*()` call each other
last, so the running handler is always in *one* function; `call` names it with
its arguments, and each function is one action. An event (a child exit, the
timer, the watchdog, a message, the bus, the PID file, the cgroup, the OOM
killer, daemon-reload, a job) is taken when no function runs. Processes fork and
exit at any moment, and a signal says nothing about when a process is gone.

What is abstracted: commands are counted, not named; a command with the prefix
`-` is one that exits cleanly; the exit status is success, exit code or signal (a
core dump is a signal); the abort timeout is the stop timeout; the cgroup may be
populated or not, the processes besides main and control are one. Time has no
measure: an armed timer may elapse at any step, and `EXTEND_TIMEOUT_USEC=`
(`service_extend_timeout`) is a step that leaves it armed, so that a process
which keeps asking for time puts it off for ever. The owner of a bus name, for
`Type=dbus` and any other type, comes, goes and is replaced at any moment. When
the PID file is demanded, the file may be read and the service may enter running
before the code looks whether anybody is left in the cgroup; `demanded` marks
that second half (`DemandReturns`). Not modelled: failures of allocations and of
`kill()`, the restart counter, the descriptor store, sockets.

### JournalOffline and DurableJournal

State per file: `offline` (`offline_state`), `thread` (where its offline thread
is), `header` (the state in the mapped header), `disk` (the state a power failure
would leave), `pending` (it has entries that are not on disk), `lost`, `archive`,
`sigbus`, `place` (free, open, waiting to be closed, closed, left by a crash,
disposed of); `call`, the function on a file the main thread is in, and `todo`,
what the running handler does after it. The two threads change `offline` by
compare-and-swap; a swap that fails is tried again, so the read and the swap that
succeeds are one step, and everything between two swaps is a step of its own.
The kernel writes pages back whenever it likes (`Writeback`), accesses may fail
(`SigBus`), and journald or the machine may crash at any step (`Crash`). A file
that an earlier run left and that is not offline, or can not be put online because
of an I/O error, is renamed and replaced by a new one, once (`DisposeJournal`,
from `journal_file_open_reliably()`).

`DurableJournal` has only `mark`, `pending` and `lost`. The refinement mapping
takes `mark` from `disk`: an `fsync()` or a writeback is `Persist`, `GoOnline` or
`Clean` depending on what the header said, appending an object is `Write`, a
crash with loss of power is `PowerFailure`, and every other step stutters. Of a
file's contents only "all of it is on disk" is kept. `fsync()` is taken to
succeed: the code ignores its errors (observation 12), and with a failing disk
nothing can be said of what is on it. Left out: reception of messages, rate
limits, vacuuming, one journal per user, running out of memory (in
`journal_initiate_close()`), and a failing `pthread_sigmask()`, whose arguments
are constants.

## 3. What the runs check

| run | question | properties |
|---|---|---|
| `job_merge` | does the outcome of merging depend on the order? | `OrderIrrelevant`, `StopNeverAbsorbed`, `RefusalExplained` |
| `jobs_modes` | two units, one bound to the other: every job type, four modes, with cancellation, timeouts and reload | `TypeOK`, `JobTableConsistent`, `TimerArmed`, `NoLostWakeup`, `OrderRespected` |
| `jobs_mixed` | three units, one a device and one triggered by a path unit, with conflicts, requisites, wants and `OnFailure=` | `JobTableConsistent`, `RequirementPropagated`, `RunningJobPending`, `IrreversibleKept` |
| `jobs_live` | does every job end and every handler return? | `JobsFinish`, `HandlersReturn` |
| `transaction_pulled` | one request, every graph of up to three edges | `AnchorKept`, `MarksClosed`, `RequirementsHonoured`, `ConflictsHonoured`, `StopsPropagated`, `NoNeedlessStop` |
| `transaction_installed` | a second request on top of what the first installed | `OrderAcyclic`, `RequirementsHonoured`, `AnchorHonoured`, `IrreversibleKept` |
| `transaction_rest` | the other dependency types, job types and modes; do the loops end? | `ReloadApart`, `TransactionEnds` |
| `service` | fourteen unit files: do the state, the processes, the timer and the job agree, is everything killed, does a stop stay a stop, do start and stop end? | `TypeOK`, `RightTime`, `JobAwaited`, `LeftoversKilled`, `ManualStopFinal`, `StartEnds`, `StopEnds` |
| `journal_offline` | two files written, synced, rotated, closed and reopened, with crashes | `CleanMeansComplete`, `ClosedClean`, `JoinsThread`, `Implements` |
| `journal_live` | does every call return and every sync happen? | `CallsReturn`, `SyncHappens` |

All of them hold on the instances described below. Some of these statements are
narrower than one might expect, because the wider one is false:

* `IrreversibleKept` of `Jobs` speaks of everything from the check for destructive
  transactions to the last installation except the loop in which isolate and
  flush cancel the jobs outside the transaction: that loop makes no exception for
  irreversible jobs.
* `RightTime` says of every type but idle that a reload starts in running or
  exited (observation 13).
* `StartEnds` is about processes that do not send `EXTEND_TIMEOUT_USEC=`,
  `StopEnds` about processes that send neither that nor watchdog messages.
* `ManualStopFinal` leaves out services with directories to clean (observation 9),
  `LeftoversKilled` those with somebody new in a final state (observation 8).
* `OrderAcyclic` is checked for requests to start and to stop (observation 2).

Two more runs show where what
an assertion or a manual page states does not hold:

* `jobs_orphan` (`SlotConsistent`): `job_install()` cancels the conflicting job
  in a slot and then stores its own. A running path unit whose condition is true
  enqueues a new start job of the same unit from inside the cancellation; it is
  installed into the slot and overwritten. `job_uninstall()` asserts the
  contrary. This is why the path unit of `jobs_mixed` triggers a unit that no
  request conflicts with, and why the theorems on `Jobs` exclude path units.
* `service_stop` (`StopTimeoutEnds`): a oneshot service that is being stopped
  still goes on to the next `ExecStart=` command when the running one exits
  cleanly, and arms its timer with the timeout of the *start*, by default
  infinite. `TimeoutStopSec=` then does not end the stop. `StopEnds` of run
  `service` states what does hold.

### Bounds, and why they are enough

* Jobs: two or three units, one more job identifier than units (a job can be
  created while each unit still has one), two or three client requests
  (`MaxRequests`; cancel, clear and reload count as requests). The races the
  hazards describe need two jobs, one ordered against the other or cancelled by
  it, and one event in between; three requests allow a job to be merged into or
  replaced and a reload or cancellation to follow. Everything the environment
  does by itself (`EnvStep`, timers, garbage collection, path units) is unbounded.
  `jobs_modes` and `jobs_mixed` have the ends of operations, failures out of
  nowhere and units that come up by themselves (`ProgressDown`, in `jobs_mixed`
  without starts that end in inactive, which are done or skipped and which
  `jobs_modes` has); `jobs_live` only
  the ends of operations, since a unit that keeps going down and up need not let
  a job end.
* Transaction: three units, which is what a cycle through a third unit, a
  contradiction between two pulled-in units or a chain of requirements needs;
  every graph of up to three edges of the main dependency types
  (`transaction_pulled`), of two edges or a circle with wants or requires
  (`transaction_installed`), and chosen combinations of the others
  (`transaction_rest`); two requests where installed jobs matter, else one.
* Service: fourteen unit files that between them have every type, every
  `Restart=`, `KillMode=` and timeout mode, lists of zero, one and two commands,
  and every kind of message; two client requests, so that a stop meets a start
  and a start follows a stop. Exits, timeouts, messages and restarts are
  unbounded.
* Journal: two files (one is rotated away while the next is written) and two
  objects per entry (one after the first was followed by a change of the state).
  `journal_live` has one file: a call works on one file at a time.
* Symmetry: job identifiers are interchangeable (`JobSymmetry`), and so are
  journal files; in `transaction_pulled` all requests are for `a`, and `b` and
  `c` are alike (`OthersAlike`). None is used with liveness.

Deadlock is not checked in the runs of the manager: with all requests used up and
nothing queued it idles, and that is right. The journal runs check it.

### Fairness

* `WF(HandlerStep)`, `WF(Step)`, `WF(Function)`, `WF(Main)`: a handler,
  `manager_add_job()`, a function of `service.c` and a function of journald's main
  thread run to their end; a step that waits for a thread is not enabled
  before the thread is done.
* `WF(DispatchRunQueue)`: the run queue is an event source that is enabled as
  long as the queue is not empty. `WF(service_dispatch_timer)`: an armed timer
  elapses, unless it is put off; that nobody does is a hypothesis of `StartEnds` and
  `StopEnds` themselves (`EXTEND_TIMEOUT_USEC=`, and for the stop watchdog
  messages). They do not depend on any process exiting. `service_stop` also assumes that the loop dispatches
  exits and cgroup events (`LoopSpec`), so that its counterexample is none of
  an event loop that ignores them.
* `SF(Settles(u))` of `Jobs`: a unit leaves a transitional state. The unit types
  arm a timer when they enter one; `StartEnds` and `StopEnds` show it for
  services. This is an assumption about units with finite timeouts; a unit with
  `TimeoutSec=infinity` that hangs does keep its job.
* `WF(Thread(f))`: the kernel schedules the offline thread.
  `SF(Thread(f) /\ thread'[f] = "fsync")`: a sync is requested by a timer and at
  once by a message of priority crit or higher; such messages do not for ever
  arrive just between the thread's swap to `SYNCING` and its next look at the
  state, a few instructions later.

Clients, job timers and job garbage collection have no fairness, so `JobsFinish`
does not depend on them.

## 4. What is proved

TLAPS checks the following for every value of the constants. The assumptions are
the named `ASSUME`s of the modules (types of the constants, finitely many units
and job identifiers, `None` is no job, and for `Jobs` what `Transaction` makes of
a request), all evaluated by TLC in the runs, and the hypotheses named below.

**JobMerge** (`MergeCorrect`, `StopKept`, `RefusalSound`). The inductive invariant
`MergeInv` adds the types and that at least one type was merged. The three
properties need each other: the merged type is `MergeOf` of the set merged so far
only because a stop stands alone in it. The proof is a case analysis of the table.

**Jobs**, without path units (`Watched = {}`; `jobs_orphan` shows why). Three
inductive invariants, each on top of the one before.

* `Inv` gives `JobTableCorrect` and `JobTypesCorrect`. The tables alone are not
  inductive: the second half of `job_install()` stores into a slot that it
  emptied earlier. `PlacePending` says that a `place` frame has an empty slot and
  above it only frames that neither install nor request anything.
* `BInv` gives `NoWakeupLost`, `RunningJobsPending` and `TimersArmed`. Between two
  calls of one handler these properties are false; `BInv` says who will make them
  true again. A waiting job that is not in the run queue is blocked, or its unit
  is busy, or a `notify` or `requeue` frame on the stack is about to queue it; a
  running job that has got where it wanted is about to be notified, or its `ran`
  frame is still there; and a `notify` frame, or a `ran` frame that saw `EAGAIN`,
  is on top, where what it saw still holds. `OrderAlwaysRespected` is an action
  property and follows from `Inv`.
* `EInv` gives `RequirementsPropagate` and `IrreversibleJobsStay`. `Shape`: above
  an `install` frame there are only frames of cancellations of units it is done
  with, and frames of the loop of isolate and flush, so what
  `transaction_is_destructive()` saw of the other units still holds when the last
  job is installed. `Falling`: a start job that a failed start dooms is covered by a
  `fail` frame on the stack; the frames empty the set one unit at a time.

There is one lemma per action and invariant. `JobsLemmas` has `Inv` and `BInv`,
`JobsApplying` has `EInv`, `JobsTheorems` the theorems. Facts about finite sets
are a conjunct of the invariant (`FiniteSetFacts`, a constant formula), which the
last module discharges from the library.

**Transaction**. `TInv` is the type invariant, `WellFormed` (links and marks name
jobs that exist, no list has a type twice), `CallsOK` (the recursion's stack) and
`Staged` (what holds in each phase). It gives `AnchorNeverDeleted` (every deletion
stays in the complement of the marked jobs, garbage is the object of no link, and
the anchor is never redundant), `MarksStayClosed`, `ReloadNeverMeetsStart`,
`RequestGranted` and `IrreversibleJobsKept`. `OutcomeInv` follows a requirement
from the dependency graph to the installed job: while building, a job's unfinished
dependencies are on the stack (`BuildOK`); from then on a job that is deleted
takes with it those that need it (`KeepOK`), and a job dropped as redundant or
merged leaves its effect (`FinalOK`). It gives `RequirementsPulledIn`,
`ConflictsStopped` and `StopsReachDependents`, under `Masked = {}` (observation 7
below). `NothingStoppedNeedlessly` has an invariant of its own for mode fail. What
the loops compute (`Reach`, `Selected`, `MergedType`) is characterised without
induction over data: the least number for which a claim fails is ruled out.

**Service**. `IInv` describes the `Service` object at every function of
`service.c`: in a resting state the processes, the timer, the watch and the
running command are those the state has a handler for, the running job waits for a
state the service is on its way to, and the next command exists; inside a function
what its callers promise it. It gives `RightTimeHolds` (the assertions of
`service.c`, except that of `service_reload()` for `Type=idle`) and
`JobAwaitedHolds`, for every unit file `service_verify()` accepts (`Verified`), and
with the types of the remaining variables `TypesKept`.

**JournalOffline**. `IInv` has the protocol of the two threads (`Protocol`: what
the main thread and the offline thread may assume of header and disk at each place
of theirs, in each value of `offline_state`) and the shape of journald's handlers
(`Handlers`). It gives `TypesCorrect`, `CleanComplete`, `ThreadsInUse` and the
refinement, `FilesDurable`. `CInv` adds that a file in use that is not joined has a
thread or is about to be closed, that a call that waits ends with the mark on disk,
and that a close frame is below the frame that stops the thread: `ClosedCleanHolds`
and `JoinsThreadHolds`.

Model-checked only:

* Liveness, which is out of the prover's reach: `JobsFinish`, `HandlersReturn`,
  `TransactionEnds`, `StartEnds`, `StopEnds`, `CallsReturn`, `SyncHappens`.
* `OrderAcyclic`: not true of all graphs and requests (observation 2), and what
  the recursive walk finds is an induction over its depth.
* `LeftoversKilled` and `ManualStopFinal`: checked for the fourteen unit files;
  the first needs the whole history of signals to the processes of the cgroup in
  the invariant.
* All of `Jobs` with path units (`jobs_mixed`).

## 5. Observations

Met while modelling; the first group limits what the properties can say.

1. Two services that propagate reloads to each other: `RELOADING=1` of one leads
   to a NOP and a RELOAD job of that unit in one transaction, and merging them
   fails an assertion (`src/core/job.c:375`). No property says that a NOP is alone
   in its transaction; the graphs of `transaction_rest` have no such pair.
2. The order is verified before the jobs of a unit are merged; a START in front of
   a RESTART hides a cycle that the merged RESTART closes.
   `transaction_installed` therefore has start and stop requests only.
3. Garbage collection looks at the first job of each unit
   (`src/core/transaction.c:518`); a job nobody pulled in any more may hide behind
   it. The marks `matters_to_anchor` are not closed after merging, which nothing
   relies on.
4. A restart of a unit that is activating without a job is dropped as redundant;
   `RequirementsHonoured` therefore counts an activating unit as up.
5. `ClearJobs()` cancels jobs until there are none (`src/core/manager.c:2165`); a
   path unit whose condition stays true enqueues its unit each time, so the loop
   goes on for as long as it does.
6. `CancelJob()` removes running jobs too (`src/core/dbus-job.c:65`), while
   `man/org.freedesktop.systemd1.xml:1174` says it has no effect on them.
7. A unit pulled in by `Wants=` whose own `Requires=` is masked is started without
   it: the failure is ignored at the `Wants=` edge, the job already added stays
   (`src/core/transaction.c:1017`; compare `man/systemd.unit.xml:626`). The runs
   and theorems on requirements have no masked units.
8. With `ExecStopPost=`, when the control process exits in final-sigterm the
   service is dead without SIGKILL for the rest of its cgroup; so it is when a main
   process is adopted, or a next command started, in that state.
   `LeftoversKilled` has `NobodyNew` for that.
9. A service that is being cleaned and has `Restart=` may enter auto-restart after
   a stop (`src/core/service.c:1667`).
10. A comment at `src/core/service.c:2326` says that no loops are possible;
    a reload announced by a message can make one. Watchdog messages are accepted in
    every state, and so is `EXTEND_TIMEOUT_USEC=` (hence `Silent` in `StopEnds`).
11. A service in auto-restart whose restart job is cancelled stays there without a
    timer. Over daemon-reload the exec descriptor's hot flag, the watch on the PID
    file and a queued cgroup-empty event are lost.
12. A rotated file that is already offline is never marked archived
    (`src/journal/journal-file.c:3681-3685`); the final tag of a sealed file closed
    after rotation fails; rotation does not look at `DEFERRED_CLOSES_MAX`; errors
    of `fsync()` are ignored.
13. A service with `Type=idle` counts as active while it starts
    (`src/core/service.c:66-90`), so a reload is accepted then; `service_verify()`
    accepts `ExecReload=` for it, and `service_reload()` asserts that the service is
    running or exited (`src/core/service.c:2552`).

## 6. Not modelled

The remaining parts are in `components` with the reason: the other unit types
(socket, mount, swap, automount, timer, scope), parsers and loaders, process
execution, control groups, the bus, the rest of journald, logind, resolved,
networkd, homed, udev and the tools. They are sequences of system calls, formats,
or projects of their own.
