------------------------------ MODULE Service ------------------------------
(***************************************************************************)
(* One service of the manager (service.c): the state machine that starts,  *)
(* watches, reloads and stops its processes.                               *)
(*                                                                         *)
(* The functions service_enter_*() call each other last, so the running    *)
(* handler is always in one function, call, and each function is one       *)
(* action.  A handler of the event loop starts when no function runs.      *)
(* Processes fork and exit at any moment, and a signal promises nothing    *)
(* about when a process is gone.                                           *)
(*                                                                         *)
(* Not in the model: the failures that only an allocation or the kernel's  *)
(* event queue can cause, other than a failed spawn, a failed watch and a  *)
(* failed restart job; the restart counter, the descriptor store, the      *)
(* sockets, and everything that is only reported.                          *)
(***************************************************************************)
EXTENDS Naturals

CONSTANTS
    Configs,        \* unit files; daemon-reload keeps the one in use
    MaxRequests     \* bound: jobs queued by clients

VARIABLES
    cfg,            \* the settings of the unit file
    s,              \* the Service object, and the processes of its cgroup
    call,           \* the function that runs
    job,            \* Unit.job
    cgroup,         \* the way of "the cgroup is empty" to the service
    stopped,        \* history: service_stop() ran after the last start
    requests        \* client requests so far

vars == <<cfg, s, call, job, cgroup, stopped, requests>>

Starting == {"condition", "start-pre", "start", "start-post"}
StopStates == {"stop-watchdog", "stop-sigterm", "stop-sigkill"}
FinalStates == {"final-watchdog", "final-sigterm", "final-sigkill"}
Stopping == {"stop", "stop-post"} \cup StopStates \cup FinalStates
State == Starting \cup Stopping
         \cup {"dead", "failed", "running", "exited", "reload",
               "auto-restart", "cleaning"}

\* core-dump is signal here: nothing tells the two apart.
ExitResult == {"success", "exit-code", "signal"}
Result == ExitResult \cup {"resources", "protocol", "timeout", "watchdog",
                           "start-limit-hit", "oom-kill", "exec-condition"}

\* A process the service knows the PID of: exited until SIGCHLD is handled.
Process == {"none", "running", "exited"}
Exec == {"condition", "start-pre", "start", "start-post", "reload", "stop",
         "stop-post"}
NotifyMessage == {"MAINPID", "READY", "RELOADING", "STOPPING", "WATCHDOG",
                  "WATCHDOG=trigger", "EXTEND_TIMEOUT"}
Timeout == {"start", "stop", "runtime", "restart", "clean"}

\* exec: how many commands each Exec*= setting lists.  finite: the timeouts
\* that are not infinity.  bus: BusName= is set.  says: what the processes send
\* with sd_notify().
Config == [type : {"simple", "idle", "exec", "forking", "oneshot", "dbus",
                   "notify"},
           exec : [Exec -> 0 .. 2],
           restart : {"no", "always", "on-success", "on-failure",
                      "on-abnormal", "on-watchdog", "on-abort"},
           prevent : SUBSET ExitResult, force : SUBSET ExitResult,
           remain : BOOLEAN, successaction : BOOLEAN,
           pidfile : BOOLEAN, bus : BOOLEAN, clean : BOOLEAN,
           kill : {"control-group", "mixed", "process", "none"},
           sigkill : BOOLEAN,
           finite : SUBSET Timeout, watchdog : BOOLEAN,
           startmode : {"terminate", "abort", "kill"},
           stopmode : {"terminate", "abort", "kill"},
           oom : {"continue", "stop", "kill"},
           access : {"none", "main", "exec", "all"},
           says : SUBSET NotifyMessage]

\* service_verify()
Verified(c) ==
    /\ c.exec["start"] # 1 => c.type = "oneshot"
    /\ c.exec["start"] = 0 => \/ c.exec["stop"] > 0 /\ c.remain
                             \/ c.successaction
    /\ c.type = "oneshot" => /\ c.restart \notin {"always", "on-success"}
                             /\ c.force = {}
    /\ c.type = "dbus" => c.bus

ASSUME ConfigsAssumption == \A c \in Configs : c \in Config /\ Verified(c)
ASSUME MaxRequestsAssumption == MaxRequests \in Nat

\* ccmd, mcmd: the running control and main command, by setting and position.
\* execfd: exec_fd_event_source, and whether exec_fd_hot.  exit: the status of
\* the last main process.  stray: the cgroup has processes besides main and
\* control.  killed: the processes that SIGKILL was sent to while they ran.
\* demanded: service_sigchld_event() goes on when the function that runs has
\* returned: it was in this state, and the PID file it demanded was there.
Service == [state : State, result : Result,
            main : Process, known : BOOLEAN, alien : BOOLEAN, mcmd : 0 .. 2,
            control : Process, ccmd : Exec \cup {"none"}, cpos : 0 .. 2,
            timer : BOOLEAN, watchdog : BOOLEAN,
            execfd : {"off", "cold", "hot"}, pidwatch : BOOLEAN,
            notify : {"unknown", "READY", "RELOADING", "STOPPING"},
            busname : BOOLEAN, forbid : BOOLEAN,
            exit : ExitResult \cup {"none"},
            stray : BOOLEAN, killed : SUBSET {"main", "control", "stray"},
            demanded : {"no", "start", "start-post"}]

JobType == {"none", "start", "stop", "restart", "reload"}
Job == [type : JobType, running : BOOLEAN]
NoJob == [type |-> "none", running |-> FALSE]

Fn == {"idle", "condition", "start_pre", "start", "start_post", "running",
       "reload", "reload_by_notify", "stop_by_notify", "stop", "signal",
       "stop_post", "dead", "restart", "run_next_control", "run_next_main",
       "extend_timeout"}
Call == [fn : Fn, f : Result, to : State, allow : BOOLEAN]

Return == [fn |-> "idle", f |-> "success", to |-> "dead", allow |-> TRUE]
Enter(fn, f) == [Return EXCEPT !.fn = fn, !.f = f]
Signal(to, f) == [Return EXCEPT !.fn = "signal", !.to = to, !.f = f]
Dead(f, allow) == [Return EXCEPT !.fn = "dead", !.f = f, !.allow = allow]

TypeOK ==
    /\ cfg \in Configs
    /\ s \in Service
    /\ call \in Call
    /\ job \in Job
    /\ cgroup \in [event : BOOLEAN, queued : BOOLEAN]
    /\ stopped \in BOOLEAN
    /\ requests \in 0 .. MaxRequests

-----------------------------------------------------------------------------
(* The processes *)

Live(v, p) == v[p] = "running"
Alive(v) == {p \in {"main", "control"} : Live(v, p)}
            \cup {p \in {"stray"} : v.stray}
Populated(v) == Alive(v) # {}

\* service_unwatch_*_pid(): a process that still runs is one of many now.
Unwatch(v, p) ==
    [v EXCEPT ![p] = "none", !.stray = @ \/ Live(v, p),
              !.killed = IF Live(v, p) /\ p \notin @ THEN @ \ {p, "stray"}
                         ELSE IF Live(v, p) /\ ~v.stray
                         THEN (@ \ {p}) \cup {"stray"}
                         ELSE @ \ {p}]

\* service_set_main_pid() with a process that was a stray; rest tells whether
\* there are others.
AdoptMain(v, alien, rest) ==
    [Unwatch(v, "main") EXCEPT !.main = "running", !.known = TRUE,
                               !.alien = alien, !.exit = "none",
                               !.stray = rest \/ Live(v, "main"),
                               !.killed = IF "stray" \in v.killed
                                          THEN @ \cup {"main"} ELSE @]
Adopted(v) == {AdoptMain(v, alien, rest) : alien \in BOOLEAN, rest \in BOOLEAN}

\* What service_load_pid_file() can do: fail, find the known main process, or
\* find another one.
LoadPidFile(v) ==
    {[r |-> "error", v |-> v]}
    \cup (IF cfg.pidfile /\ v.known /\ v.main # "none"
          THEN {[r |-> "same", v |-> v]} ELSE {})
    \cup (IF cfg.pidfile /\ v.stray
          THEN {[r |-> "changed", v |-> w] : w \in Adopted(v)} ELSE {})

\* service_search_main_pid()
SearchMainPid(v) ==
    {v} \cup IF ~v.known /\ v.stray THEN Adopted(v) ELSE {}

\* main_pid_good(): dead, alive or unknown.  The death of an alien is looked
\* up; of a child it is told by SIGCHLD.
MainPidGood(v) ==
    IF ~v.known THEN "unknown"
    ELSE IF v.main = "none" \/ (v.alien /\ ~Live(v, "main")) THEN "dead"
    ELSE "alive"

ControlPidGood(v) == v.control # "none"

ServiceGood(v) ==
    /\ cfg.type = "dbus" => v.busname
    /\ \/ MainPidGood(v) = "alive"
       \/ MainPidGood(v) = "unknown" /\ Populated(v)

\* unit_kill_context(): whether it left something to wait for.
KillWaits(v, to) ==
    /\ cfg.kill # "none"
    /\ \/ v.main # "none" /\ ~v.alien
       \/ v.control # "none"
       \/ /\ v.stray
          /\ \/ cfg.kill = "control-group"
             \/ cfg.kill = "mixed" /\ to \in {"stop-sigkill", "final-sigkill"}

\* A faulty variant: with KillMode=mixed SIGKILL reaches the main and control
\* processes only, as SIGTERM does.
KilledTracked(v, to) ==
    IF cfg.kill # "none" /\ to \in {"stop-sigkill", "final-sigkill"}
    THEN [v EXCEPT !.killed = @ \cup
             (IF cfg.kill \in {"process", "mixed"} THEN Alive(v) \ {"stray"}
              ELSE Alive(v))]
    ELSE v

Killed(v, to) ==
    IF cfg.kill # "none" /\ to \in {"stop-sigkill", "final-sigkill"}
    THEN [v EXCEPT !.killed = @ \cup
             (IF cfg.kill = "process" THEN Alive(v) \ {"stray"} ELSE Alive(v))]
    ELSE v

\* The kernel tells when the cgroup becomes populated or empty.
Observe ==
    cgroup' = [cgroup EXCEPT !.event = @ \/ Populated(s) # Populated(s')]

-----------------------------------------------------------------------------
(* The state of the unit and its job *)

\* state_translation_table and state_translation_table_idle
ActiveState(st) ==
    CASE st \in {"running", "exited"} -> "active"
      [] st \in Starting -> IF cfg.type = "idle" THEN "active" ELSE "activating"
      [] st = "auto-restart" -> "activating"
      [] st = "reload" -> "reloading"
      [] st \in Stopping -> "deactivating"
      [] st = "cleaning" -> "maintenance"
      [] st = "dead" -> "inactive"
      [] st = "failed" -> "failed"

\* job_finish_and_invalidate() of a job that is done.
JobDone(j) == IF j.type = "restart" THEN [type |-> "start", running |-> FALSE]
              ELSE NoJob

\* A faulty variant: a start ends only when the service is active.
ProcessJobActive(j, st) ==
    LET ns == ActiveState(st)
        gone == ns \in {"inactive", "failed"}
    IN  CASE j.type = "start" ->
               IF ns \in {"active", "reloading"} THEN NoJob ELSE j
          [] j.type = "reload" ->
               IF j.running /\ (ns = "active" \/ gone) THEN NoJob ELSE j
          [] j.type \in {"stop", "restart"} ->
               IF gone THEN JobDone(j)
               ELSE IF j.running /\ ns # "deactivating" THEN NoJob
               ELSE j
          [] OTHER -> j

\* unit_notify(): unit_process_job() of the unit's job.
ProcessJob(j, st) ==
    LET ns == ActiveState(st)
        gone == ns \in {"inactive", "failed"}
    IN  CASE j.type = "start" ->
               IF ns \in {"active", "reloading"} \/ (j.running /\ gone)
               THEN NoJob ELSE j
          [] j.type = "reload" ->
               IF j.running /\ (ns = "active" \/ gone) THEN NoJob ELSE j
          [] j.type \in {"stop", "restart"} ->
               IF gone THEN JobDone(j)
               ELSE IF j.running /\ ns # "deactivating" THEN NoJob
               ELSE j
          [] OTHER -> j

\* A faulty variant: service_set_state() takes the timer from start-post.
TimerStatesNoPost == (Starting \ {"start-post"}) \cup Stopping
                     \cup {"running", "reload", "auto-restart", "cleaning"}
TimerStates == Starting \cup Stopping
               \cup {"running", "reload", "auto-restart", "cleaning"}
MainStates == {"start", "start-post", "running", "reload"} \cup Stopping
ControlStates == Starting \cup Stopping \cup {"reload", "cleaning"}
WatchdogStates == {"start-post", "running", "reload"}

NoControlCommand(v) == [v EXCEPT !.ccmd = "none", !.cpos = 0]

\* A faulty variant: the PID file is watched on.
SetStateWatching(v, st) ==
    LET m == IF st \in MainStates THEN v
             ELSE [Unwatch(v, "main") EXCEPT !.mcmd = 0]
        c == IF st \in ControlStates THEN m
             ELSE NoControlCommand(Unwatch(m, "control"))
    IN  [c EXCEPT !.state = st,
                  !.timer = @ /\ st \in TimerStates,
                  !.execfd = IF st = "start" THEN @ ELSE "off",
                  !.watchdog = @ /\ st \in WatchdogStates]

\* service_set_state(), except for what unit_notify() does to the job.
SetState(v, st) ==
    LET m == IF st \in MainStates THEN v
             ELSE [Unwatch(v, "main") EXCEPT !.mcmd = 0]
        c == IF st \in ControlStates THEN m
             ELSE NoControlCommand(Unwatch(m, "control"))
    IN  [c EXCEPT !.state = st,
                  !.pidwatch = FALSE,
                  !.timer = @ /\ st \in TimerStates,
                  !.execfd = IF st = "start" THEN @ ELSE "off",
                  !.watchdog = @ /\ st \in WatchdogStates]

First(v, f) == [v EXCEPT !.result = IF @ = "success" THEN f ELSE @]
Armed(v, timeout) == [v EXCEPT !.timer = timeout \in cfg.finite]
ResetWatchdog(v) == [v EXCEPT !.watchdog = cfg.watchdog]

\* The running function goes to v and calls c, which does not change the job.
Go(v, c) == s' = v /\ call' = c /\ UNCHANGED job
\* The running function sets the state last.
Reach(v, st) ==
    /\ s' = SetState(v, st)
    /\ job' = ProcessJob(job, st)
    /\ call' = Return

\* service_spawn() fails before or after it arms the timer.
SpawnFails(v, timeout, c) ==
    \E w \in {v, Armed(v, timeout)} : Go(w, c)

-----------------------------------------------------------------------------
(* The functions that enter a state *)

In(fn) == call.fn = fn /\ UNCHANGED <<cfg, stopped, requests>>

\* How service_enter_*() starts the commands of a setting: none to start,
\* started, or failed.
RunControl(v, id, to, timeout, otherwise, failed) ==
    LET w == [v EXCEPT !.ccmd = id, !.cpos = 1]
    IN  \/ /\ cfg.exec[id] = 0
           /\ Go([v EXCEPT !.cpos = 0], otherwise)
        \/ /\ cfg.exec[id] > 0
           /\ \/ Reach([Armed(w, timeout) EXCEPT !.control = "running"], to)
              \/ SpawnFails(w, timeout, failed)

\* service_adverse_to_leftover_processes()
AdverseToLeftover(v) ==
    v.stray /\ cfg.kill \in {"mixed", "control-group"} /\ ~cfg.sigkill

service_enter_condition ==
    LET v == Unwatch(s, "control")
    IN  /\ In("condition")
        /\ IF AdverseToLeftover(v) /\ cfg.exec["condition"] > 0
           THEN Go([v EXCEPT !.cpos = 1], Dead("resources", TRUE))
           ELSE RunControl(v, "condition", "condition", "start",
                           Enter("start_pre", "success"),
                           Dead("resources", TRUE))

service_enter_start_pre ==
    LET v == Unwatch(s, "control")
    IN  /\ In("start_pre")
        /\ IF AdverseToLeftover(v) /\ cfg.exec["start-pre"] > 0
           THEN Go([v EXCEPT !.cpos = 1], Dead("resources", TRUE))
           ELSE RunControl(v, "start-pre", "start-pre", "start",
                           Enter("start", "success"),
                           Dead("resources", TRUE))

\* A process the service starts itself is its main process.
NewMain(v) == [v EXCEPT !.main = "running", !.known = TRUE, !.alien = FALSE,
                        !.exit = "none"]

service_enter_start ==
    LET v == Unwatch(Unwatch(s, "control"), "main")
        failed == Signal("stop-sigterm", "resources")
        n == IF cfg.exec["start"] = 0 THEN 0 ELSE 1
        simple == cfg.type \in {"simple", "idle"}
        w == IF cfg.type = "forking"
             THEN [v EXCEPT !.ccmd = "start", !.cpos = n, !.mcmd = 0]
             ELSE [NoControlCommand(v) EXCEPT !.mcmd = n]
        armed == IF simple THEN [w EXCEPT !.timer = FALSE] ELSE Armed(w, "start")
    IN  /\ In("start")
        /\ \/ /\ AdverseToLeftover(v)
              /\ Go(v, failed)
           \/ /\ ~AdverseToLeftover(v)
              /\ cfg.exec["start"] = 0
              /\ s' = SetState(w, "start")
              /\ job' = ProcessJob(job, "start")
              /\ call' = Enter("start_post", "success")
           \/ /\ ~AdverseToLeftover(v)
              /\ cfg.exec["start"] > 0
              /\ \/ \E x \in {w, armed} : Go(x, failed)
                 \/ /\ simple
                    /\ Go(NewMain(armed), Enter("start_post", "success"))
                 \/ /\ cfg.type = "forking"
                    /\ Reach([armed EXCEPT !.control = "running"], "start")
                 \/ /\ cfg.type \in {"oneshot", "dbus", "notify", "exec"}
                    /\ Reach([NewMain(armed) EXCEPT
                                !.execfd = IF cfg.type = "exec" THEN "cold"
                                           ELSE @],
                             "start")

service_enter_start_post ==
    /\ In("start_post")
    /\ RunControl(ResetWatchdog(Unwatch(s, "control")), "start-post",
                  "start-post", "start",
                  Enter("running", "success"), Enter("stop", "resources"))

service_enter_running ==
    LET v == Unwatch(First(s, call.f), "control")
    IN  /\ In("running")
        /\ \/ /\ v.result # "success"
              /\ Go(v, Signal("stop-sigterm", call.f))
           \/ /\ v.result = "success"
              /\ ServiceGood(v)
              /\ \/ /\ v.notify = "RELOADING"
                    /\ Go(v, Enter("reload_by_notify", "success"))
                 \/ /\ v.notify = "STOPPING"
                    /\ Go(v, Enter("stop_by_notify", "success"))
                 \/ /\ v.notify \in {"unknown", "READY"}
                    /\ s' = Armed(SetState(v, "running"), "runtime")
                    /\ job' = ProcessJob(job, "running")
                    /\ call' = Return
           \/ /\ v.result = "success"
              /\ ~ServiceGood(v)
              /\ IF cfg.remain THEN Reach(v, "exited")
                 ELSE Go(v, Enter("stop", "success"))

\* In any other state the assertion of service_reload() ends the manager.
service_enter_reload ==
    /\ In("reload")
    /\ s.state \in {"running", "exited"}
    /\ RunControl(Unwatch(s, "control"), "reload", "reload", "start",
                  Enter("running", "success"), Enter("running", "success"))

service_enter_reload_by_notify ==
    /\ In("reload_by_notify")
    /\ Reach(Armed(s, "start"), "reload")

\* A faulty variant: the stop has no timeout.
StopByNotifyUntimed ==
    /\ In("stop_by_notify")
    /\ Reach(s, "stop-sigterm")

service_enter_stop_by_notify ==
    /\ In("stop_by_notify")
    /\ Reach(Armed(s, "stop"), "stop-sigterm")

service_enter_stop ==
    /\ In("stop")
    /\ RunControl(Unwatch(First(s, call.f), "control"), "stop", "stop", "stop",
                  Signal("stop-sigterm", "success"),
                  Signal("stop-sigterm", "resources"))

service_enter_stop_post ==
    /\ In("stop_post")
    /\ RunControl(Unwatch(First(s, call.f), "control"), "stop-post",
                  "stop-post", "stop",
                  Signal("final-sigterm", "success"),
                  Signal("final-sigterm", "resources"))

service_enter_signal ==
    LET v == Killed(First(s, call.f), call.to)
        to == call.to
    IN  /\ In("signal")
        /\ \/ /\ KillWaits(v, to)
              /\ Reach(Armed(v, "stop"), to)     \* or service_timeout_abort_usec()
           \/ /\ ~KillWaits(v, to)
              /\ Go(v, IF to \in {"stop-watchdog", "stop-sigterm"} /\ cfg.sigkill
                       THEN Signal("stop-sigkill", "success")
                       ELSE IF to \in StopStates
                       THEN Enter("stop_post", "success")
                       ELSE IF to # "final-sigkill" /\ cfg.sigkill
                       THEN Signal("final-sigkill", "success")
                       ELSE Dead("success", TRUE))

\* A faulty variant: forbid_restart is not looked at.
ShallRestartAlways(v) ==
    /\ v.exit \notin cfg.prevent
    /\ v.exit \in cfg.force \/ cfg.restart = "always"

\* service_shall_restart()
ShallRestart(v) ==
    /\ ~v.forbid
    /\ v.exit \notin cfg.prevent
    /\ \/ v.exit \in cfg.force
       \/ cfg.restart = "always"
       \/ cfg.restart = "on-success" /\ v.result = "success"
       \/ /\ cfg.restart = "on-failure"
          /\ v.result \notin {"success", "exec-condition"}
       \/ /\ cfg.restart = "on-abnormal"
          /\ v.result \notin {"success", "exit-code", "exec-condition"}
       \/ cfg.restart = "on-watchdog" /\ v.result = "watchdog"
       \/ cfg.restart = "on-abort" /\ v.result = "signal"

\* unit_stop_pending()
StopPending == job.type = "stop"

service_enter_dead ==
    LET v == First(s, call.f)
        end == IF v.result \in {"success", "exec-condition"} THEN "dead"
               ELSE "failed"
        gone == SetState(v, end)
        again == call.allow /\ ~StopPending /\ ShallRestart(v)
    IN  /\ In("dead")
        /\ s' = IF again
                THEN [SetState(Armed(gone, "restart"), "auto-restart")
                         EXCEPT !.forbid = FALSE]
                ELSE [gone EXCEPT !.forbid = FALSE]
        /\ job' = IF again THEN ProcessJob(ProcessJob(job, end), "auto-restart")
                  ELSE ProcessJob(job, end)
        /\ call' = Return

\* manager_add_job() may refuse the restart.
service_enter_restart ==
    /\ In("restart")
    /\ \/ /\ job.type = "stop"
          /\ Go(Armed(s, "restart"), Return)
       \/ /\ job.type # "stop"
          /\ \/ /\ s' = s
                /\ job' = [type |-> "restart", running |-> FALSE]
                /\ call' = Return
             \/ Go(s, Dead("resources", FALSE))

HasNextControl(v) == v.ccmd # "none" /\ 0 < v.cpos /\ v.cpos < cfg.exec[v.ccmd]
\* A faulty variant: the last command has a next one.
HasNextLast(v) == 0 < v.mcmd /\ v.mcmd <= cfg.exec["start"]
HasNextMain(v) == 0 < v.mcmd /\ v.mcmd < cfg.exec["start"]

service_run_next_control ==
    LET v == [Unwatch(s, "control") EXCEPT !.cpos = @ + 1]
        timeout == IF s.state \in Starting \cup {"running", "reload"}
                   THEN "start" ELSE "stop"
    IN  /\ In("run_next_control")
        /\ \/ Go([Armed(v, timeout) EXCEPT !.control = "running"], Return)
           \/ SpawnFails(v, timeout,
                 IF s.state \in {"condition", "start-pre", "start-post", "stop"}
                 THEN Signal("stop-sigterm", "resources")
                 ELSE IF s.state = "stop-post" THEN Dead("resources", TRUE)
                 ELSE IF s.state = "reload" THEN Enter("running", "success")
                 ELSE Enter("stop", "resources"))

service_run_next_main ==
    LET v == [Unwatch(s, "main") EXCEPT !.mcmd = @ + 1]
    IN  /\ In("run_next_main")
        /\ \/ Go(NewMain(Armed(v, "start")), Return)
           \/ SpawnFails(v, "start", Enter("stop", "resources"))

\* A timer or watchdog that is armed elapses later.
service_extend_timeout == In("extend_timeout") /\ Go(s, Return)

-----------------------------------------------------------------------------
(* What the unit's job asks for: job_run_and_invalidate(), unit_start() *)

Idle == call.fn = "idle" /\ s.demanded = "no"
Runs(types) == Idle /\ job.type \in types /\ ~job.running
Running == [job EXCEPT !.running = TRUE]

service_start ==
    /\ Runs({"start"})
    /\ UNCHANGED <<cfg, cgroup, requests>>
    /\ \/ /\ ActiveState(s.state) \in {"active", "reloading"}
          /\ job' = JobDone(job)
          /\ UNCHANGED <<s, call, stopped>>
       \/ /\ ActiveState(s.state) = "activating" /\ s.state # "auto-restart"
          /\ job' = Running
          /\ UNCHANGED <<s, call, stopped>>
       \/ /\ s.state \in {"dead", "failed"}
          /\ \/ /\ job' = NoJob     \* a condition of the unit does not hold
                /\ UNCHANGED <<s, call, stopped>>
             \/ /\ job' = Running
                /\ call' = Dead("start-limit-hit", FALSE)
                /\ UNCHANGED <<s, stopped>>
             \/ /\ job' = Running
                /\ s' = [s EXCEPT !.result = "success", !.known = FALSE,
                                  !.alien = FALSE, !.forbid = FALSE,
                                  !.notify = "unknown", !.exit = "none"]
                /\ call' = Enter("condition", "success")
                /\ stopped' = FALSE

service_stop ==
    /\ Runs({"stop", "restart"})
    /\ UNCHANGED <<cfg, cgroup, requests>>
    /\ \/ /\ s.state \in {"dead", "failed"}
          /\ job' = JobDone(job)
          /\ UNCHANGED <<s, call, stopped>>
       \/ /\ s.state \notin {"dead", "failed"}
          /\ stopped' = TRUE
          /\ LET v == [s EXCEPT !.forbid = TRUE]
             IN  \/ /\ s.state \in Stopping \ {"stop-watchdog"}
                    /\ s' = v /\ job' = Running /\ UNCHANGED call
                 \/ /\ s.state = "auto-restart"
                    /\ s' = SetState(v, "dead")
                    /\ job' = ProcessJob(Running, "dead")
                    /\ UNCHANGED call
                 \/ /\ s.state \in Starting \cup {"reload", "stop-watchdog"}
                    /\ s' = v /\ job' = Running
                    /\ call' = Signal("stop-sigterm", "success")
                 \/ /\ s.state = "cleaning"
                    /\ s' = v /\ job' = Running
                    /\ call' = Signal("final-sigkill", "success")
                 \/ /\ s.state \in {"running", "exited"}
                    /\ s' = v /\ job' = Running
                    /\ call' = Enter("stop", "success")

service_reload ==
    /\ Runs({"reload"})
    /\ UNCHANGED <<cfg, s, cgroup, stopped, requests>>
    /\ \/ /\ \/ cfg.exec["reload"] = 0
             \/ ActiveState(s.state) \notin {"active", "reloading"}
          /\ job' = NoJob
          /\ UNCHANGED call
       \/ /\ cfg.exec["reload"] > 0
          /\ ActiveState(s.state) = "active"
          /\ job' = Running
          /\ call' = Enter("reload", "success")

-----------------------------------------------------------------------------
(* The handlers of the event loop *)

Handler == Idle /\ UNCHANGED <<cfg, cgroup, stopped, requests>>

\* How a process exited, as the service sees it.  A condition that exits with
\* a code below 255 skips the start.
ExitStatus(p) ==
    IF p \in s.killed THEN {"signal"}
    ELSE IF p = "control" /\ s.state = "condition"
    THEN ExitResult \cup {"exec-condition"}
    ELSE ExitResult

\* The main process is reaped, and was not replaced: s.main is 0 now.
MainExited(v, f) ==
    LET w == [v EXCEPT !.mcmd = 0]
        alone == ~ControlPidGood(v)
    IN  \/ /\ cfg.type = "oneshot" /\ f = "success" /\ HasNextMain(v)
           /\ Go(v, Enter("run_next_main", "success"))
        \/ /\ ~(cfg.type = "oneshot" /\ f = "success" /\ HasNextMain(v))
           /\ \/ /\ v.state \in {"start-post", "reload", "stop"}
                 /\ Go(w, Return)
              \/ /\ v.state = "start" /\ cfg.type = "oneshot"
                 /\ Go(w, IF f = "success" THEN Enter("start_post", "success")
                          ELSE Signal("stop-sigterm", f))
              \/ /\ v.state = "start" /\ cfg.type = "notify"
                 /\ Go(w, IF f # "success" THEN Signal("stop-sigterm", f)
                          ELSE IF ~cfg.remain \/ cfg.access = "main"
                          THEN Signal("stop-sigterm", "protocol")
                          ELSE Return)
              \/ /\ \/ v.state = "running"
                    \/ v.state = "start" /\ cfg.type \notin {"oneshot", "notify"}
                 /\ Go(w, Enter("running", f))
              \/ /\ v.state \in StopStates
                 /\ Go(w, IF alone THEN Enter("stop_post", f) ELSE Return)
              \/ /\ v.state = "stop-post"
                 /\ Go(w, IF alone THEN Signal("final-sigterm", f) ELSE Return)
              \/ /\ v.state \in FinalStates
                 /\ Go(w, IF alone THEN Dead(f, TRUE) ELSE Return)

\* service_sigchld_event() for the main process.
SigchldMain ==
    /\ Handler
    /\ s.main = "exited"
    /\ \E o \in LoadPidFile(s), f \in ExitStatus("main") :
          IF o.r = "changed" THEN Go(o.v, Return)
          ELSE MainExited(First([Unwatch(s, "main") EXCEPT !.exit = f], f), f)

\* service_demand_pid_file(), service_watch_pid_file(), service_retry_pid_file():
\* the watch fails, the file is read after all and the service enters running,
\* or the wait for the file begins.  Then, in all cases, the service fails if
\* nobody is left in the cgroup to write it.
DemandFails(st) == IF st = "start" THEN Signal("stop-sigterm", "protocol")
                   ELSE Enter("stop", "protocol")
DemandPidFile(v) ==
    \/ Go(v, DemandFails(v.state))
    \/ \E o \in LoadPidFile(v) :
          IF o.r # "error"
          THEN Go([o.v EXCEPT !.demanded = v.state], Enter("running", "success"))
          ELSE Go([v EXCEPT !.pidwatch = TRUE],
                  IF Populated(v) THEN Return ELSE DemandFails(v.state))

DemandReturns ==
    /\ In("idle")
    /\ s.demanded # "no"
    /\ Go([s EXCEPT !.demanded = "no"],
          IF Populated(s) THEN Return ELSE DemandFails(s.demanded))

\* The last command of a setting is reaped: s.control is 0 now.
ControlExited(v, f) ==
    LET alone == MainPidGood(v) # "alive"
        signal == Signal("stop-sigterm", f)
        read == IF cfg.pidfile THEN LoadPidFile(v)
                ELSE {[r |-> "same", v |-> w] : w \in SearchMainPid(v)}
    IN  \/ /\ v.state = "condition"
           /\ Go(v, IF f = "success" THEN Enter("start_pre", f) ELSE signal)
        \/ /\ v.state = "start-pre"
           /\ Go(v, IF f = "success" THEN Enter("start", f) ELSE signal)
        \/ /\ v.state = "start"
           /\ \/ f # "success" /\ Go(v, signal)
              \/ /\ f = "success"
                 /\ \E o \in read :
                       IF cfg.exec["start-post"] = 0 /\ o.r = "error"
                       THEN DemandPidFile(v)
                       ELSE Go(o.v, Enter("start_post", "success"))
        \/ /\ v.state = "start-post"
           /\ \/ f # "success" /\ Go(v, signal)
              \/ /\ f = "success"
                 /\ \E o \in read :
                       IF o.r = "error"
                       THEN DemandPidFile(v)
                       ELSE Go(o.v, Enter("running", "success"))
        \/ /\ v.state = "reload"
           /\ \E o \in LoadPidFile(v) :
                 \E w \in IF f # "success" THEN {v}
                          ELSE IF o.r = "error" THEN SearchMainPid(v)
                          ELSE {o.v} :
                    Go(w, Enter("running", "success"))
        \/ v.state = "stop" /\ Go(v, signal)
        \/ /\ v.state \in StopStates
           /\ Go(v, IF alone THEN Enter("stop_post", f) ELSE Return)
        \/ /\ v.state = "stop-post"
           /\ Go(v, IF alone THEN Signal("final-sigterm", f) ELSE Return)
        \/ /\ v.state \in FinalStates
           /\ Go(v, IF alone THEN Dead(f, TRUE) ELSE Return)
        \/ v.state = "cleaning" /\ Go(v, Dead("success", FALSE))

\* service_sigchld_event() for the control process.
SigchldControl ==
    /\ Handler
    /\ s.control = "exited"
    /\ \E f \in ExitStatus("control") :
          LET v == Unwatch(s, "control")
              w == IF s.state = "reload" THEN v ELSE First(v, f)
          IN  IF HasNextControl(s) /\ f = "success"
              THEN Go(w, Enter("run_next_control", "success"))
              ELSE ControlExited(NoControlCommand(w), f)

\* What a timeout does when it may send SIGKILL, and when it may not.
KillOr(to, otherwise) ==
    IF cfg.sigkill THEN Signal(to, "timeout") ELSE otherwise

\* TimeoutStartFailureMode=, TimeoutStopFailureMode=
FailureMode(mode, sigterm, watchdog, sigkill, otherwise) ==
    CASE mode = "terminate" -> Signal(sigterm, "timeout")
      [] mode = "abort" -> Signal(watchdog, "timeout")
      [] mode = "kill" -> KillOr(sigkill, otherwise)

TimeoutCall(st) ==
    LET post == Enter("stop_post", "timeout")
        dead == Dead("timeout", FALSE)
        stop(mode) == FailureMode(mode, "stop-sigterm", "stop-watchdog",
                                  "stop-sigkill", post)
        final == FailureMode(cfg.stopmode, "final-sigterm", "final-watchdog",
                             "final-sigkill", dead)
        abort == cfg.stopmode = "abort"
    IN  CASE st \in Starting -> stop(cfg.startmode)
          [] st = "running" -> Enter("stop", "timeout")
          [] st = "reload" -> Enter("running", "success")
          [] st = "stop" -> stop(cfg.stopmode)
          [] st = "stop-sigterm" /\ abort -> Signal("stop-watchdog", "timeout")
          [] st = "stop-watchdog" \/ (st = "stop-sigterm" /\ ~abort) ->
               KillOr("stop-sigkill", post)
          [] st = "stop-sigkill" -> post
          [] st = "stop-post" -> final
          [] st = "final-sigterm" /\ abort -> Signal("final-watchdog", "timeout")
          [] st = "final-watchdog" \/ (st = "final-sigterm" /\ ~abort) ->
               KillOr("final-sigkill", dead)
          [] st = "final-sigkill" -> Dead("timeout", TRUE)
          [] st = "auto-restart" -> Enter("restart", "success")
          [] st = "cleaning" -> Signal("final-sigkill", "success")

service_dispatch_timer ==
    /\ Handler
    /\ s.timer
    /\ s.state \in TimerStates
    /\ Go([s EXCEPT !.timer = FALSE,
                    !.killed = IF s.state = "reload" /\ Live(s, "control")
                               THEN @ \cup {"control"} ELSE @],
          TimeoutCall(s.state))

service_dispatch_watchdog ==
    /\ Handler
    /\ s.watchdog
    /\ Go([s EXCEPT !.watchdog = FALSE], Signal("stop-watchdog", "watchdog"))

\* service_notify_message_authorized(): the sender is the main process, the
\* control process or another process of the cgroup.  A message is read before
\* the SIGCHLD of its sender.
Authorized ==
    \/ cfg.access # "none" /\ s.main # "none"
    \/ cfg.access \in {"exec", "all"} /\ s.control # "none"
    \/ cfg.access = "all" /\ s.stray

\* service_notify_message(), for each message a handler of its own.
service_notify_message ==
    /\ Handler
    /\ Authorized
    /\ \/ /\ "MAINPID" \in cfg.says
          /\ s.state \in {"start", "start-post", "running", "reload"}
          /\ s.stray
          /\ \E v \in Adopted(s) : Go(v, Return)
       \/ /\ "READY" \in cfg.says
          /\ Go([s EXCEPT !.notify = "READY"],
                IF cfg.type = "notify" /\ s.state = "start"
                THEN Enter("start_post", "success")
                ELSE IF s.state = "reload" /\ s.control = "none"
                THEN Enter("running", "success")
                ELSE Return)
       \/ /\ "RELOADING" \in cfg.says
          /\ Go([s EXCEPT !.notify = "RELOADING"],
                IF s.state = "running" THEN Enter("reload_by_notify", "success")
                ELSE Return)
       \/ /\ "STOPPING" \in cfg.says
          /\ Go([s EXCEPT !.notify = "STOPPING"],
                IF s.state = "running" THEN Enter("stop_by_notify", "success")
                ELSE Return)
       \/ /\ "WATCHDOG" \in cfg.says
          /\ Go(ResetWatchdog(s), Return)
       \/ /\ "WATCHDOG=trigger" \in cfg.says
          /\ Go(s, Signal("stop-watchdog", "watchdog"))
       \/ /\ "EXTEND_TIMEOUT" \in cfg.says
          /\ Go(s, Enter("extend_timeout", "success"))

\* service_dispatch_exec_io(): a byte, or the end of the pipe, which execve()
\* and exit() both close.
service_dispatch_exec_io ==
    /\ Handler
    /\ s.execfd # "off"
    /\ \/ \E x \in {"cold", "hot"} : Go([s EXCEPT !.execfd = x], Return)
       \/ Go([s EXCEPT !.execfd = "off"],
             IF s.execfd = "hot" /\ cfg.type = "exec" /\ s.state = "start"
             THEN Enter("start_post", "success") ELSE Return)

\* service_dispatch_inotify_io(): the PID file or its directory changed.
service_dispatch_inotify_io ==
    /\ Handler
    /\ s.pidwatch
    /\ \/ Go([s EXCEPT !.pidwatch = FALSE], Signal("stop-sigterm", "resources"))
       \/ \E o \in LoadPidFile(s) :
             IF o.r = "error" THEN Go(s, Return)
             ELSE Go([o.v EXCEPT !.pidwatch = FALSE], Enter("running", "success"))

\* The name gets an owner, another owner, or none.  For a type other than dbus
\* the owner becomes the main process of a service that knows of none.
service_bus_name_owner_change ==
    /\ Handler
    /\ cfg.bus
    /\ \E owned \in {TRUE, ~s.busname} :
          LET v == [s EXCEPT !.busname = owned]
          IN  \/ /\ cfg.type = "dbus"
                 /\ Go(v, IF s.state = "running" THEN Enter("running", "success")
                          ELSE IF s.state = "start" /\ owned
                          THEN Enter("start_post", "success")
                          ELSE Return)
              \/ /\ cfg.type # "dbus"
                 /\ \E w \in {v} \cup
                             IF /\ owned /\ s.main = "none" /\ s.stray
                                /\ s.state \in {"start", "start-post", "running", "reload"}
                             THEN Adopted(v) ELSE {} : Go(w, Return)

\* service_notify_cgroup_empty_event(): the event was queued when the cgroup
\* was found empty, and may be late.
service_notify_cgroup_empty_event ==
    LET nobody == MainPidGood(s) # "alive" /\ ~ControlPidGood(s)
        unwritten == s.pidwatch /\ MainPidGood(s) = "dead" /\ ~ControlPidGood(s)
    IN  /\ Idle
        /\ cgroup.queued /\ ~cgroup.event    \* the priorities of the two sources
        /\ cgroup' = [cgroup EXCEPT !.queued = FALSE]
        /\ UNCHANGED <<cfg, job, stopped, requests>>
        /\ s' = IF s.state \in {"start", "start-post"} /\ unwritten
                THEN [s EXCEPT !.pidwatch = FALSE] ELSE s
        /\ call' = IF /\ s.state = "start" /\ cfg.type = "notify"
                      /\ MainPidGood(s) = "dead" /\ ~ControlPidGood(s)
                   THEN Enter("stop_post", "protocol")
                   ELSE IF s.state = "start" /\ unwritten
                   THEN Enter("stop_post", "protocol")
                   ELSE IF s.state = "start-post" /\ unwritten
                   THEN Enter("stop", "protocol")
                   ELSE IF s.state = "running" THEN Enter("running", "success")
                   ELSE IF s.state \in StopStates /\ nobody
                   THEN Enter("stop_post", "success")
                   ELSE IF s.state \in {"stop-post"} \cup FinalStates /\ nobody
                   THEN Dead("success", TRUE)
                   ELSE Return

service_notify_cgroup_oom_event ==
    LET kill(term) == IF cfg.oom = "stop" THEN term
                      ELSE Signal("stop-sigkill", "oom-kill")
    IN  /\ Handler
        /\ cfg.oom # "continue"
        /\ \/ /\ s.state \in Starting \cup {"stop"}
              /\ Go(s, kill(Signal("stop-sigterm", "oom-kill")))
           \/ /\ s.state \in {"exited", "running"}
              /\ Go(s, kill(Enter("stop", "oom-kill")))
           \/ /\ s.state \in {"stop-watchdog", "stop-sigterm"}
              /\ Go(s, Signal("stop-sigkill", "oom-kill"))
           \/ /\ s.state \in {"stop-sigkill", "final-sigkill"}
              /\ Go(First(s, "oom-kill"), Return)
           \/ /\ s.state \in {"stop-post", "final-sigterm"}
              /\ Go(s, Signal("final-sigkill", "oom-kill"))

service_reset_failed ==
    /\ Handler
    /\ IF s.state = "failed"
       THEN Reach([s EXCEPT !.result = "success"], "dead")
       ELSE Go([s EXCEPT !.result = "success"], Return)

\* unit_clean(), service_clean()
service_clean ==
    /\ Idle
    /\ cfg.clean
    /\ job = NoJob
    /\ s.state = "dead"
    /\ Reach([Armed(NoControlCommand(Unwatch(s, "control")), "clean")
                EXCEPT !.control = "running"], "cleaning")
    /\ Observe
    /\ UNCHANGED <<cfg, stopped, requests>>

\* service_coldplug_timeout()
ColdplugTimeout(st) ==
    CASE st \in Starting \cup {"reload"} -> "start"
      [] st = "running" -> "runtime"
      [] st \in Stopping -> "stop"
      [] st = "auto-restart" -> "restart"
      [] st = "cleaning" -> "clean"
      [] OTHER -> "none"

\* daemon-reload: service_serialize(), service_deserialize_item(), and
\* service_coldplug() of the new object.  notify_state, the watch for the PID
\* file, exec_fd_hot and what was queued for the cgroup are not carried over.
Reload ==
    LET v == [s EXCEPT !.notify = "unknown", !.pidwatch = FALSE,
                       !.execfd = IF @ = "hot" THEN "cold" ELSE @,
                       !.watchdog = cfg.watchdog /\ s.state \in WatchdogStates]
    IN  /\ Idle
        /\ s' = IF s.state = "dead" THEN v
                ELSE SetState(Armed(v, ColdplugTimeout(s.state)), s.state)
        /\ cgroup' = [event |-> FALSE, queued |-> FALSE]
        /\ UNCHANGED <<cfg, call, job, stopped, requests>>

-----------------------------------------------------------------------------
(* Clients, and the processes themselves *)

Request ==
    /\ Idle
    /\ requests < MaxRequests
    /\ requests' = requests + 1
    /\ \E t \in JobType \ {"none", job.type} :
          job' = [type |-> t, running |-> FALSE]
    /\ UNCHANGED <<cfg, s, call, cgroup, stopped>>

Cancel ==
    /\ Idle
    /\ job # NoJob
    /\ job' = NoJob
    /\ UNCHANGED <<cfg, s, call, cgroup, stopped, requests>>

ProcessesAct(v) ==
    /\ s' = v
    /\ Observe
    /\ UNCHANGED <<cfg, call, job, stopped, requests>>

Fork == /\ \E p \in {"main", "control"} : Live(s, p) /\ p \notin s.killed
        /\ ProcessesAct([s EXCEPT !.stray = TRUE, !.killed = @ \ {"stray"}])
Exit(p) == Live(s, p) /\ ProcessesAct([s EXCEPT ![p] = "exited"])
StrayExits == /\ s.stray
              /\ ProcessesAct([s EXCEPT !.stray = FALSE, !.killed = @ \ {"stray"}])

\* unit_check_cgroup_events(): only what the cgroup is now counts.
CgroupEvent ==
    /\ Idle
    /\ cgroup.event
    /\ cgroup' = [event |-> FALSE, queued |-> ~Populated(s)]
    /\ UNCHANGED <<cfg, s, call, job, stopped, requests>>

-----------------------------------------------------------------------------
Init ==
    /\ cfg \in Configs
    /\ s = [state |-> "dead", result |-> "success",
            main |-> "none", known |-> FALSE, alien |-> FALSE, mcmd |-> 0,
            control |-> "none", ccmd |-> "none", cpos |-> 0,
            timer |-> FALSE, watchdog |-> FALSE,
            execfd |-> "off", pidwatch |-> FALSE, notify |-> "unknown",
            busname |-> FALSE, forbid |-> FALSE, exit |-> "none",
            stray |-> FALSE, killed |-> {}, demanded |-> "no"]
    /\ call = Return
    /\ job = NoJob
    /\ cgroup = [event |-> FALSE, queued |-> FALSE]
    /\ stopped = FALSE
    /\ requests = 0

Function ==
    /\ \/ service_enter_condition \/ service_enter_start_pre
       \/ service_enter_start \/ service_enter_start_post
       \/ service_enter_running \/ service_enter_reload
       \/ service_enter_reload_by_notify \/ service_enter_stop_by_notify
       \/ service_enter_stop \/ service_enter_stop_post \/ service_enter_signal
       \/ service_enter_dead \/ service_enter_restart
       \/ service_run_next_control \/ service_run_next_main
       \/ service_extend_timeout \/ DemandReturns
    /\ Observe

RunJob == service_start \/ service_stop \/ service_reload

Event ==
    \/ SigchldMain \/ SigchldControl
    \/ service_dispatch_timer \/ service_dispatch_watchdog
    \/ service_notify_message \/ service_dispatch_exec_io
    \/ service_dispatch_inotify_io \/ service_bus_name_owner_change
    \/ service_notify_cgroup_empty_event \/ service_notify_cgroup_oom_event
    \/ service_reset_failed \/ service_clean \/ Reload \/ CgroupEvent

Processes == Fork \/ StrayExits \/ \E p \in {"main", "control"} : Exit(p)

Next == Function \/ RunJob \/ Event \/ Request \/ Cancel \/ Processes

Spec == Init /\ [][Next]_vars

\* The event loop goes on, and dispatches a timer that has elapsed.
FairSpec == Spec /\ WF_vars(Function) /\ WF_vars(service_dispatch_timer)

\* It dispatches all that the kernel tells it of, too.
LoopSpec == /\ FairSpec
            /\ WF_vars(SigchldMain \/ SigchldControl)
            /\ WF_vars(CgroupEvent)
            /\ WF_vars(service_notify_cgroup_empty_event)

-----------------------------------------------------------------------------
(* Properties *)

\* The assertions of service.c hold: a process that is tracked, a timer and a
\* watch exist only in states whose handlers know what to do with them
\* (service_sigchld_event(), service_dispatch_timer() and
\* service_dispatch_inotify_io() reach an assertion otherwise), a PID file is
\* demanded only once, the main PID is guessed only while there is none, a
\* reload starts from running or exited, and a next command is run only if
\* there is one.  Type=idle is left out of what is said of reloads: such a
\* service counts as active while it starts, and service_verify() accepts it
\* with ExecReload=, so that a reload can fail the assertion of service_reload().
RightTime ==
    /\ Idle => /\ s.main # "none" => s.state \in MainStates
               /\ s.control # "none" => s.state \in ControlStates
               /\ s.timer => s.state \in TimerStates
               /\ s.pidwatch => s.state \in {"start", "start-post"}
               /\ s.pidwatch => s.control = "none"
               /\ ~s.known => s.main = "none"
    /\ call.fn = "reload" /\ cfg.type # "idle" => s.state \in {"running", "exited"}
    /\ call.fn = "run_next_control" => HasNextControl(s) /\ s.ccmd # "start"
    /\ call.fn = "run_next_main" => HasNextMain(s) /\ cfg.type = "oneshot"
    /\ call.fn = "start" => s.execfd = "off"

\* A job never waits for a service that has come to rest: while the job runs
\* the service is on its way, and a stop or restart is under way only if the
\* service stops.  unit_notify() ends the job in the step that gets there.
JobAwaited ==
    Idle /\ job.running =>
        s.state \in Stopping
                  \cup (CASE job.type = "start" -> Starting
                         [] job.type = "reload" -> {"reload"}
                         [] OTHER -> {})

\* No process becomes a main or control process once the stop has come to
\* SIGTERM: no ExecStopPost=, no list of commands of which the next is run, no
\* PID file to find another main process in, none whose death is looked up.
NobodyNew ==
    /\ cfg.exec["stop-post"] = 0 /\ \A x \in Exec : cfg.exec[x] <= 1
    /\ ~cfg.pidfile /\ ~s.alien

\* A service with KillMode=control-group or mixed and SendSIGKILL=yes that was
\* stopped has sent SIGKILL to every process that is still in its cgroup.
LeftoversKilled ==
    [][/\ s.state \in Stopping
       /\ s'.state \in {"dead", "failed", "auto-restart"}
       /\ cfg.kill \in {"control-group", "mixed"} /\ cfg.sigkill
       /\ NobodyNew
       => Alive(s) \subseteq s.killed]_vars

\* Restart= never undoes a stop: after service_stop() the service waits for
\* no restart before it is started again, and neither enters auto-restart nor
\* queues the restart while a stop job is queued.  A service with directories
\* to clean is left out of the first: when cleaning them times out after the
\* stop, service_enter_dead() may restart it.
ManualStopFinal ==
    [][/\ s.state # "auto-restart" /\ s'.state = "auto-restart"
             => (~stopped \/ cfg.clean) /\ ~StopPending
       /\ call.fn = "restart" /\ StopPending => job' = job]_vars

\* A start does not last for ever when its timeout is finite and the processes
\* do not ask for more time with EXTEND_TIMEOUT_USEC=, whatever else they do:
\* service_arm_timer() armed the timer in every state it waits in.
StartEnds ==
    []<>("start" \in cfg.finite /\ "EXTEND_TIMEOUT" \notin cfg.says
            => s.state \notin Starting)

Silent == cfg.says \cap {"WATCHDOG", "WATCHDOG=trigger", "EXTEND_TIMEOUT"} = {}

\* A stop does not last for ever when its timeout is finite, and that of the
\* start too: the commands of ExecStart= and ExecStartPre= that follow the one
\* that SIGTERM ended are started during the stop, with the timeout of the
\* start.  Messages of the watchdog, which start the stop anew, and
\* EXTEND_TIMEOUT_USEC= could put the timeout off for ever.
StopEnds ==
    []<>({"start", "stop"} \subseteq cfg.finite /\ Silent
            => s.state \notin Stopping)

\* TimeoutStopSec= alone bounds the stop: "If it doesn't terminate in the
\* specified time, it will be forcibly terminated by SIGKILL".  It does not,
\* while ExecStart= of a oneshot service has a next command to run.
StopTimeoutEnds == []<>("stop" \in cfg.finite => s.state \notin Stopping)
====
