----------------------------- MODULE MCService -----------------------------
(***************************************************************************)
(* Unit files that between them reach every branch of Service.             *)
(***************************************************************************)
EXTENDS Service, TLC

Plain == [type |-> "simple", exec |-> [x \in Exec |-> IF x = "start" THEN 1 ELSE 0],
          restart |-> "no", prevent |-> {}, force |-> {},
          remain |-> FALSE, successaction |-> FALSE,
          pidfile |-> FALSE, bus |-> FALSE, clean |-> FALSE,
          kill |-> "control-group", sigkill |-> TRUE,
          finite |-> {"start", "stop", "restart"}, watchdog |-> FALSE,
          startmode |-> "terminate", stopmode |-> "terminate",
          oom |-> "continue", access |-> "none", says |-> {}]

Lists(f) == f @@ Plain.exec

Simple == [Plain EXCEPT !.exec = Lists("stop" :> 1),
                        !.restart = "on-failure", !.kill = "mixed",
                        !.stopmode = "abort", !.force = {"success"}]

Idler == [Plain EXCEPT !.type = "idle", !.exec = Lists("condition" :> 1 @@ "start-pre" :> 1
                                      @@ "stop-post" :> 1),
                       !.sigkill = FALSE, !.clean = TRUE,
                       !.finite = @ \cup {"clean"},
                       !.startmode = "kill", !.stopmode = "kill"]

Executed == [Plain EXCEPT !.type = "exec", !.restart = "always",
                          !.prevent = {"exit-code"}, !.oom = "kill"]

Forking == [Plain EXCEPT !.type = "forking", !.pidfile = TRUE,
                         !.restart = "on-abort", !.kill = "process"]

ForkingPost == [Plain EXCEPT !.type = "forking", !.pidfile = TRUE,
                             !.exec = Lists("start-post" :> 1),
                             !.startmode = "kill", !.kill = "none"]

Guessed == [Plain EXCEPT !.type = "forking", !.exec = Lists("reload" :> 2),
                         !.restart = "on-success", !.kill = "process"]

Oneshot == [Plain EXCEPT !.type = "oneshot",
                         !.exec = Lists("start" :> 2)]

Empty == [Plain EXCEPT !.type = "oneshot", !.remain = TRUE, !.oom = "stop",
                       !.exec = Lists("start" :> 0 @@ "stop" :> 1)]

\* No command at all: its end is what it is for.
Action == [Plain EXCEPT !.type = "oneshot", !.successaction = TRUE,
                        !.exec = Lists("start" :> 0)]

Bus == [Plain EXCEPT !.type = "dbus", !.bus = TRUE, !.finite = @ \cup {"runtime"},
                     !.restart = "on-abnormal", !.kill = "none"]

Watched == [Plain EXCEPT !.watchdog = TRUE, !.restart = "on-watchdog",
                         !.access = "main",
                         !.says = {"WATCHDOG", "WATCHDOG=trigger"}]

Notify == [Plain EXCEPT !.type = "notify", !.access = "exec",
                        !.says = {"READY", "RELOADING", "STOPPING"}]

NotifyAll == [Plain EXCEPT !.type = "notify", !.remain = TRUE,
                           !.access = "all", !.says = {"READY", "MAINPID"},
                           !.kill = "none", !.bus = TRUE]

\* Asks for more time.
Extender == [Plain EXCEPT !.type = "notify", !.access = "main",
                          !.says = {"READY", "EXTEND_TIMEOUT"}]

MCConfigs == {Simple, Idler, Executed, Forking, ForkingPost, Guessed,
              Oneshot, Empty, Action, Bus, Watched, Notify, NotifyAll, Extender}

\* TimeoutStartSec= of a oneshot service is infinite unless it is set.
Unbounded == {[Oneshot EXCEPT !.finite = {"stop", "restart"}]}
====
