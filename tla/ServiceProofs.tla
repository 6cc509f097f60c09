--------------------------- MODULE ServiceProofs ---------------------------
(***************************************************************************)
(* Theorems about Service, for every set of unit files that service_verify() *)
(* accepts: the functions of service.c are called only in the states that  *)
(* RightTime names, and a job never waits for a service that has come to   *)
(* rest.  The inductive invariant comes first, then how the parts of the   *)
(* functions preserve it, then the handlers.                               *)
(***************************************************************************)
EXTENDS Service, TLAPS

Known(v) == ~v.known => v.main = "none"
Tracked(v) ==
    /\ v.main # "none" => v.state \in MainStates
    /\ v.control # "none" => v.state \in ControlStates
    /\ v.timer => v.state \in TimerStates
    /\ v.pidwatch => v.state \in {"start", "start-post"}
    /\ v.pidwatch => v.control = "none"

\* Commands, timer and flags: what w keeps of v whatever becomes of processes.
Keeps(v, w) ==
    /\ w \in Service
    /\ w.state = v.state /\ w.timer = v.timer
    /\ w.mcmd = v.mcmd /\ w.ccmd = v.ccmd /\ w.cpos = v.cpos
    /\ w.execfd = v.execfd /\ w.pidwatch = v.pidwatch

LEMMA LoseMain ==
    ASSUME NEW v \in Service, NEW w, NEW b \in BOOLEAN,
           NEW k \in SUBSET {"main", "control", "stray"},
           w = [v EXCEPT !.main = "none", !.stray = b, !.killed = k]
    PROVE  /\ Keeps(v, w)
           /\ w.main = "none" /\ w.control = v.control /\ w.known = v.known
  BY ZenonT(60) DEF Service, Process, Keeps

LEMMA UnwatchMain ==
    ASSUME NEW v \in Service, NEW w, w = Unwatch(v, "main")
    PROVE  /\ Keeps(v, w)
           /\ w.main = "none" /\ w.control = v.control /\ w.known = v.known
  <1> DEFINE live == Live(v, "main")
             b == v.stray \/ live
             k == IF live /\ "main" \notin v.killed
                  THEN v.killed \ {"main", "stray"}
                  ELSE IF live /\ ~v.stray
                  THEN (v.killed \ {"main"}) \cup {"stray"}
                  ELSE v.killed \ {"main"}
  <1>1. b \in BOOLEAN
    BY DEF Service
  <1>2. k \in SUBSET {"main", "control", "stray"}
    BY DEF Service
  <1>3. w = [v EXCEPT !.main = "none", !.stray = b, !.killed = k]
    BY Zenon DEF Unwatch
  <1> HIDE DEF b, k
  <1> QED
    BY Zenon, <1>1, <1>2, <1>3, LoseMain

LEMMA LoseControl ==
    ASSUME NEW v \in Service, NEW w, NEW b \in BOOLEAN,
           NEW k \in SUBSET {"main", "control", "stray"},
           w = [v EXCEPT !.control = "none", !.stray = b, !.killed = k]
    PROVE  /\ Keeps(v, w)
           /\ w.control = "none" /\ w.main = v.main /\ w.known = v.known
  BY Zenon DEF Service, Process, Keeps

LEMMA UnwatchControl ==
    ASSUME NEW v \in Service, NEW w, w = Unwatch(v, "control")
    PROVE  /\ Keeps(v, w)
           /\ w.control = "none" /\ w.main = v.main /\ w.known = v.known
  <1> DEFINE live == Live(v, "control")
             b == v.stray \/ live
             k == IF live /\ "control" \notin v.killed
                  THEN v.killed \ {"control", "stray"}
                  ELSE IF live /\ ~v.stray
                  THEN (v.killed \ {"control"}) \cup {"stray"}
                  ELSE v.killed \ {"control"}
  <1>1. b \in BOOLEAN
    BY DEF Service
  <1>2. k \in SUBSET {"main", "control", "stray"}
    BY DEF Service
  <1>3. w = [v EXCEPT !.control = "none", !.stray = b, !.killed = k]
    BY Zenon DEF Unwatch
  <1> HIDE DEF b, k
  <1> QED
    BY Zenon, <1>1, <1>2, <1>3, LoseControl

\* w differs from v only in what no part of the invariant looks at.
Same(v, w) ==
    Keeps(v, w) /\ w.main = v.main /\ w.control = v.control /\ w.known = v.known

LEMMA FirstSame ==
    ASSUME NEW v \in Service, NEW f \in Result, NEW w, w = First(v, f)
    PROVE  Same(v, w) /\ w.result \in {v.result, f}
  <1>1. PICK r \in Result : r \in {v.result, f} /\ w = [v EXCEPT !.result = r]
    BY DEF First, Service
  <1> QED
    BY <1>1 DEF Service, Keeps, Same

LEMMA ResetWatchdogSame ==
    ASSUME NEW v \in Service, cfg \in Config, NEW w, w = ResetWatchdog(v)
    PROVE  Same(v, w)
  <1>1. PICK b \in BOOLEAN : w = [v EXCEPT !.watchdog = b]
    BY DEF ResetWatchdog, Config
  <1> QED
    BY <1>1 DEF Service, Keeps, Same

LEMMA KilledSame ==
    ASSUME NEW v \in Service, NEW to, NEW w, w = Killed(v, to)
    PROVE  Same(v, w)
  <1>1. Alive(v) \subseteq {"main", "control", "stray"}
    BY DEF Alive
  <1>2. PICK k \in SUBSET {"main", "control", "stray"} :
           w = v \/ w = [v EXCEPT !.killed = k]
    <2>1. v.killed \cup (IF cfg.kill = "process" THEN Alive(v) \ {"stray"}
                         ELSE Alive(v)) \in SUBSET {"main", "control", "stray"}
      BY <1>1 DEF Service
    <2> QED
      BY <2>1 DEF Killed
  <1> QED
    BY <1>2 DEF Service, Keeps, Same

\* What Armed and NoControlCommand change.
Timed(v, w) ==
    /\ w \in Service
    /\ w.state = v.state /\ w.mcmd = v.mcmd /\ w.ccmd = v.ccmd /\ w.cpos = v.cpos
    /\ w.execfd = v.execfd /\ w.pidwatch = v.pidwatch
    /\ w.main = v.main /\ w.control = v.control /\ w.known = v.known

LEMMA ArmedTimed ==
    ASSUME NEW v \in Service, NEW t, NEW w, w = Armed(v, t)
    PROVE  Timed(v, w)
  <1> DEFINE b == t \in cfg.finite
  <1>1. b \in BOOLEAN
    OBVIOUS
  <1>2. w = [v EXCEPT !.timer = b]
    BY DEF Armed
  <1> HIDE DEF b
  <1>3. PICK x \in BOOLEAN : w = [v EXCEPT !.timer = x]
    BY <1>1, <1>2
  <1> QED
    BY <1>3 DEF Service, Timed

LEMMA NoCommand ==
    ASSUME NEW v \in Service, NEW w, w = NoControlCommand(v)
    PROVE  /\ w \in Service
           /\ w.state = v.state /\ w.timer = v.timer /\ w.mcmd = v.mcmd
           /\ w.ccmd = "none" /\ w.cpos = 0
           /\ w.execfd = v.execfd /\ w.pidwatch = v.pidwatch
           /\ w.main = v.main /\ w.control = v.control /\ w.known = v.known
  <1>1. PICK z \in 0 .. 2 : z = 0 /\ w = [v EXCEPT !.ccmd = "none", !.cpos = z]
    BY DEF NoControlCommand
  <1> QED
    BY ZenonT(60), <1>1 DEF Service

LEMMA NewMainKeeps ==
    ASSUME NEW v \in Service, NEW w, w = NewMain(v)
    PROVE  /\ Keeps(v, w)
           /\ w.main = "running" /\ w.known /\ w.control = v.control
  BY Zenon DEF Service, Process, Keeps, NewMain

LEMMA AdoptedKeeps ==
    ASSUME NEW v \in Service, NEW w \in Adopted(v)
    PROVE  /\ Keeps(v, w)
           /\ w.main = "running" /\ w.known /\ w.control = v.control
  <1>1. PICK alien \in BOOLEAN, rest \in BOOLEAN : w = AdoptMain(v, alien, rest)
    BY DEF Adopted
  <1>2. PICK u : u = Unwatch(v, "main")
    OBVIOUS
  <1>3. Keeps(v, u) /\ u.control = v.control
    BY <1>2, UnwatchMain
  <1>4. PICK b \in BOOLEAN : b = (rest \/ Live(v, "main"))
    BY Zenon
  <1>5. PICK k \in SUBSET {"main", "control", "stray"} :
           k = IF "stray" \in v.killed THEN u.killed \cup {"main"} ELSE u.killed
    BY Zenon, <1>3 DEF Keeps, Service
  <1>6. PICK x : x = [u EXCEPT !.main = "running", !.known = TRUE, !.alien = alien]
    OBVIOUS
  <1>7. w = [x EXCEPT !.exit = "none", !.stray = b, !.killed = k]
    BY <1>1, <1>2, <1>4, <1>5, <1>6 DEF AdoptMain
  <1>8. Keeps(u, x) /\ x.main = "running" /\ x.known /\ x.control = u.control
    <2>1. u \in Service
      BY <1>3 DEF Keeps
    <2> QED
      BY Zenon, <2>1, <1>6 DEF Keeps, Service, Process
  <1>9. Keeps(x, w) /\ w.main = x.main /\ w.known = x.known /\ w.control = x.control
    <2>1. x \in Service
      BY <1>8 DEF Keeps
    <2> QED
      BY ZenonT(60), <2>1, <1>7 DEF Keeps, Service
  <1> QED
    BY <1>3, <1>8, <1>9 DEF Keeps

LEMMA PidFile ==
    ASSUME NEW v \in Service, Known(v), NEW o \in LoadPidFile(v)
    PROVE  /\ Keeps(v, o.v) /\ o.v.control = v.control /\ Known(o.v)
           /\ o.r \in {"error", "same", "changed"}
  <1>1. Keeps(v, v)
    BY DEF Keeps
  <1>2. \/ o.v = v /\ o.r \in {"error", "same"}
        \/ o.v \in Adopted(v) /\ o.r = "changed"
    BY DEF LoadPidFile
  <1> QED
    BY <1>1, <1>2, AdoptedKeeps DEF Known

LEMMA Search ==
    ASSUME NEW v \in Service, Known(v), NEW w \in SearchMainPid(v)
    PROVE  Keeps(v, w) /\ w.control = v.control /\ Known(w)
  <1>1. Keeps(v, v)
    BY DEF Keeps
  <1>2. w = v \/ w \in Adopted(v)
    BY DEF SearchMainPid
  <1> QED
    BY <1>1, <1>2, AdoptedKeeps DEF Known

\* The last part of SetState, and its halves.
InState(c, st) ==
    [c EXCEPT !.state = st, !.pidwatch = FALSE, !.timer = @ /\ st \in TimerStates,
              !.execfd = IF st = "start" THEN @ ELSE "off",
              !.watchdog = @ /\ st \in WatchdogStates]
Placed(c, st) ==
    [c EXCEPT !.state = st, !.pidwatch = FALSE, !.timer = @ /\ st \in TimerStates]
Sources(x, st) ==
    [x EXCEPT !.execfd = IF st = "start" THEN @ ELSE "off",
              !.watchdog = @ /\ st \in WatchdogStates]

LEMMA PlacedSet ==
    ASSUME NEW c \in Service, NEW st \in State, NEW x, x = Placed(c, st)
    PROVE  /\ x \in Service /\ x.state = st /\ ~x.pidwatch
           /\ x.main = c.main /\ x.control = c.control /\ x.known = c.known
           /\ x.ccmd = c.ccmd
           /\ x.timer => st \in TimerStates
  <1>1. PICK t \in BOOLEAN : t = (c.timer /\ st \in TimerStates)
    BY Zenon
  <1>2. x = [c EXCEPT !.state = st, !.pidwatch = FALSE, !.timer = t]
    BY <1>1 DEF Placed
  <1> QED
    BY ZenonT(60), <1>1, <1>2 DEF Service

LEMMA SourcesSet ==
    ASSUME NEW x \in Service, NEW st \in State, NEW w, w = Sources(x, st)
    PROVE  /\ w \in Service /\ w.state = x.state /\ w.pidwatch = x.pidwatch
           /\ w.main = x.main /\ w.control = x.control /\ w.known = x.known
           /\ w.ccmd = x.ccmd /\ w.timer = x.timer
           /\ w.execfd # "off" => st = "start"
  <1>1. PICK g \in BOOLEAN : g = (x.watchdog /\ st \in WatchdogStates)
    BY Zenon
  <1>2. PICK e \in {"off", "cold", "hot"} :
           e = IF st = "start" THEN x.execfd ELSE "off"
    BY DEF Service
  <1>3. w = [x EXCEPT !.execfd = e, !.watchdog = g]
    BY <1>1, <1>2 DEF Sources
  <1> QED
    BY ZenonT(60), <1>2, <1>3 DEF Service

LEMMA InStateSet ==
    ASSUME NEW c \in Service, NEW st \in State, NEW w, w = InState(c, st)
    PROVE  /\ w \in Service /\ w.state = st /\ ~w.pidwatch
           /\ w.main = c.main /\ w.control = c.control /\ w.known = c.known
           /\ w.ccmd = c.ccmd
           /\ w.timer => st \in TimerStates
           /\ w.execfd # "off" => st = "start"
  <1>1. PICK x : x = Placed(c, st)
    OBVIOUS
  <1>2. w = Sources(x, st)
    BY <1>1 DEF InState, Sources, Placed
  <1>3. /\ x \in Service /\ x.state = st /\ ~x.pidwatch
        /\ x.main = c.main /\ x.control = c.control /\ x.known = c.known
        /\ x.ccmd = c.ccmd
        /\ x.timer => st \in TimerStates
    BY <1>1, PlacedSet
  <1>4. /\ w \in Service /\ w.state = x.state /\ w.pidwatch = x.pidwatch
        /\ w.main = x.main /\ w.control = x.control /\ w.known = x.known
        /\ w.ccmd = x.ccmd /\ w.timer = x.timer
        /\ w.execfd # "off" => st = "start"
    BY <1>2, <1>3, SourcesSet
  <1> QED
    BY <1>3, <1>4

\* What SetState does before: the processes that the new state has no place for.
Forget(v, st) == IF st \in MainStates THEN v
                 ELSE [Unwatch(v, "main") EXCEPT !.mcmd = 0]
ForgetControl(m, st) == IF st \in ControlStates THEN m
                        ELSE NoControlCommand(Unwatch(m, "control"))

LEMMA ForgetMain ==
    ASSUME NEW v \in Service, Known(v), NEW st \in State, NEW m, m = Forget(v, st)
    PROVE  /\ m \in Service /\ m.control = v.control /\ m.ccmd = v.ccmd
           /\ st \notin MainStates => m.main = "none"
           /\ Known(m)
  <1>1. CASE st \in MainStates
    BY <1>1 DEF Forget
  <1>2. CASE st \notin MainStates
    <2>1. PICK u : u = Unwatch(v, "main")
      OBVIOUS
    <2>2. Keeps(v, u) /\ u.main = "none" /\ u.control = v.control
      BY <2>1, UnwatchMain
    <2>3. m = [u EXCEPT !.mcmd = 0]
      BY <1>2, <2>1 DEF Forget
    <2>4. u \in Service
      BY <2>2 DEF Keeps
    <2>5. m \in Service /\ m.main = u.main /\ m.control = u.control /\ m.ccmd = u.ccmd
      BY <2>3, <2>4 DEF Service
    <2> QED
      BY <2>2, <2>5 DEF Keeps, Known
  <1> QED
    BY <1>1, <1>2

LEMMA ForgetBoth ==
    ASSUME NEW m \in Service, NEW st \in State, NEW c, c = ForgetControl(m, st)
    PROVE  /\ c \in Service /\ c.main = m.main /\ c.known = m.known
           /\ c.ccmd \in {m.ccmd, "none"}
           /\ st \notin ControlStates => c.control = "none"
  <1>1. CASE st \in ControlStates
    BY <1>1 DEF ForgetControl
  <1>2. CASE st \notin ControlStates
    <2>1. PICK u : u = Unwatch(m, "control")
      OBVIOUS
    <2>2. Keeps(m, u) /\ u.control = "none" /\ u.main = m.main /\ u.known = m.known
      BY <2>1, UnwatchControl
    <2>3. c = NoControlCommand(u)
      BY <1>2, <2>1 DEF ForgetControl
    <2> QED
      BY <2>2, <2>3, NoCommand DEF Keeps
  <1> QED
    BY <1>1, <1>2

LEMMA SetStateOK ==
    ASSUME NEW v \in Service, Known(v), NEW st \in State,
           NEW w, w = SetState(v, st)
    PROVE  /\ w \in Service /\ w.state = st
           /\ Tracked(w) /\ Known(w)
           /\ w.ccmd \in {v.ccmd, "none"}
           /\ w.execfd # "off" => st = "start"
           /\ ~w.pidwatch
  <1>1. PICK m : m = Forget(v, st)
    OBVIOUS
  <1>2. PICK c : c = ForgetControl(m, st)
    OBVIOUS
  <1>3. w = InState(c, st)
    BY <1>1, <1>2 DEF SetState, Forget, ForgetControl, InState
  <1>4. /\ m \in Service /\ m.control = v.control /\ m.ccmd = v.ccmd
        /\ st \notin MainStates => m.main = "none"
        /\ Known(m)
    BY <1>1, ForgetMain
  <1>5. /\ c \in Service /\ c.main = m.main /\ c.known = m.known
        /\ c.ccmd \in {m.ccmd, "none"}
        /\ st \notin ControlStates => c.control = "none"
    BY <1>2, <1>4, ForgetBoth
  <1>6. /\ w \in Service /\ w.state = st /\ ~w.pidwatch
        /\ w.main = c.main /\ w.control = c.control /\ w.known = c.known
        /\ w.ccmd = c.ccmd
        /\ w.timer => st \in TimerStates
        /\ w.execfd # "off" => st = "start"
    BY <1>3, <1>5, InStateSet
  <1> QED
    BY <1>4, <1>5, <1>6 DEF Tracked, Known
-----------------------------------------------------------------------------
(* The inductive invariant *)

\* What holds of the object at every moment.
Base(v) ==
    /\ v \in Service
    /\ Known(v)
    /\ v.ccmd = "start" => cfg.type = "forking"
    /\ v.execfd # "off" => v.state = "start"

\* The functions that leave the state as it is.
Resting == {"idle", "run_next_control", "run_next_main", "extend_timeout"}

\* JobAwaited, of a state and a job.
Awaited(st, j) ==
    j.running =>
        /\ j.type # "none"
        /\ st \in Stopping \/ (j.type = "start" /\ st \in Starting)
                           \/ (j.type = "reload" /\ st = "reload")

\* Where a function that sets a state is called, and with which job.
Due(st, c, j) ==
    /\ c.fn \in {"condition", "start_pre", "start"} =>
          st \in {"dead", "failed", "condition", "start-pre"}
    /\ c.fn = "reload" /\ cfg.type # "idle" => st \in {"running", "exited"}
    /\ c.fn = "signal" => c.to \in StopStates \cup FinalStates
    /\ j.running =>
          /\ j.type # "none"
          /\ j.type \in {"stop", "restart"} =>
                c.fn \in {"signal", "stop", "stop_post", "dead"}
          /\ j.type = "start" => c.fn # "reload"
          /\ j.type = "reload" =>
                c.fn \notin {"condition", "start_pre", "start", "start_post"}

NextDue(v, c) ==
    /\ c.fn = "run_next_control" =>
          /\ HasNextControl(v) /\ v.ccmd # "start"
          /\ v.state \in ControlStates /\ ~v.pidwatch
    /\ c.fn = "run_next_main" =>
          HasNextMain(v) /\ cfg.type = "oneshot" /\ v.state \in MainStates

OK(v, c, j) ==
    /\ Base(v)
    /\ c \in Call
    /\ j \in Job
    /\ c.fn \in Resting => Tracked(v) /\ Awaited(v.state, j) /\ NextDue(v, c)
    /\ c.fn = "restart" => Tracked(v) /\ v.state = "auto-restart" /\ ~j.running
    /\ c.fn \notin Resting \cup {"restart"} => Due(v.state, c, j)

IInv == cfg \in Configs /\ OK(s, call, job)

LEMMA EnterCall ==
    ASSUME NEW fn \in Fn, NEW f \in Result
    PROVE  Enter(fn, f) \in Call /\ Enter(fn, f).fn = fn /\ Enter(fn, f).f = f
  BY Zenon DEF Enter, Return, Call, State, Starting, Stopping

LEMMA SignalCall ==
    ASSUME NEW to \in State, NEW f \in Result
    PROVE  /\ Signal(to, f) \in Call /\ Signal(to, f).fn = "signal"
           /\ Signal(to, f).to = to
  BY Zenon DEF Signal, Return, Call, Fn

LEMMA DeadCall ==
    ASSUME NEW f \in Result
    PROVE  /\ Dead(f, TRUE) \in Call /\ Dead(f, TRUE).fn = "dead"
           /\ Dead(f, FALSE) \in Call /\ Dead(f, FALSE).fn = "dead"
  BY Zenon DEF Dead, Return, Call, Fn, State

LEMMA ReturnCall == Return \in Call /\ Return.fn = "idle"
  BY DEF Return, Call, Fn, State, Result, ExitResult

\* The running function calls another one.
LEMMA DueOK ==
    ASSUME NEW v, NEW c \in Call, NEW j \in Job, Base(v),
           c.fn \notin Resting \cup {"restart"}, Due(v.state, c, j)
    PROVE  OK(v, c, j)
  BY DEF OK, Resting

\* The running function returns.
LEMMA RestOK ==
    ASSUME NEW v, NEW j \in Job, Base(v), Tracked(v), Awaited(v.state, j)
    PROVE  OK(v, Return, j)
  BY ReturnCall DEF OK, Resting, NextDue

LEMMA ActiveStates ==
    ASSUME NEW st \in State
    PROVE  /\ st \in {"running", "exited"} => ActiveState(st) = "active"
           /\ st \in Starting => ActiveState(st) \in {"active", "activating"}
           /\ st = "auto-restart" => ActiveState(st) = "activating"
           /\ st = "reload" => ActiveState(st) = "reloading"
           /\ st \in Stopping => ActiveState(st) = "deactivating"
           /\ st = "cleaning" => ActiveState(st) = "maintenance"
           /\ st = "dead" => ActiveState(st) = "inactive"
           /\ st = "failed" => ActiveState(st) = "failed"
  BY DEF ActiveState, State, Starting, Stopping, StopStates, FinalStates

LEMMA StartingStates ==
    ASSUME NEW st \in Starting, cfg.type # "idle"
    PROVE  ActiveState(st) = "activating"
  <1>1. ActiveState(st) = IF cfg.type = "idle" THEN "active" ELSE "activating"
    BY DEF ActiveState, Starting, Stopping, StopStates, FinalStates
  <1> QED
    BY <1>1

LEMMA NoJobType == NoJob \in Job /\ ~NoJob.running
  BY DEF NoJob, Job, JobType

LEMMA JobDoneType ==
    ASSUME NEW j \in Job
    PROVE  JobDone(j) \in Job /\ ~JobDone(j).running
  BY DEF JobDone, NoJob, Job, JobType

LEMMA ProcessJobType ==
    ASSUME NEW j \in Job, NEW st \in State
    PROVE  /\ ProcessJob(j, st) \in Job
           /\ ProcessJob(j, st) = j \/ ~ProcessJob(j, st).running
           /\ st \in {"dead", "failed"} => ~ProcessJob(j, st).running \/ j.type = "none"
  BY NoJobType, JobDoneType, ActiveStates DEF ProcessJob, Job, JobType

\* The states a running job may see.
Shown(j, st) ==
    j.running => /\ j.type # "none"
                 /\ st \notin {"auto-restart", "cleaning"}
                 /\ j.type = "reload" => st \notin Starting

LEMMA ProcessJobAwaited ==
    ASSUME NEW j \in Job, NEW st \in State, Shown(j, st)
    PROVE  Awaited(st, ProcessJob(j, st))
  <1>1. CASE ~ProcessJob(j, st).running
    BY <1>1 DEF Awaited
  <1>2. CASE ProcessJob(j, st).running
    <2>1. ProcessJob(j, st) = j
      BY <1>2, ProcessJobType
    <2>2. j.running /\ j.type # "none" /\ st \notin {"auto-restart", "cleaning"}
      BY <1>2, <2>1 DEF Shown
    <2>3. CASE j.type = "start"
      <3>1. ActiveState(st) \notin {"active", "reloading", "inactive", "failed"}
        BY <1>2, <2>2, <2>3, NoJobType DEF ProcessJob
      <3>2. st \in Starting \cup Stopping
        BY <2>2, <3>1, ActiveStates DEF State
      <3> QED
        BY <2>1, <2>2, <2>3, <3>2 DEF Awaited
    <2>4. CASE j.type = "reload"
      <3>1. ActiveState(st) \notin {"active", "inactive", "failed"}
        BY <1>2, <2>2, <2>4, NoJobType DEF ProcessJob
      <3>2. st \in Stopping \cup {"reload"}
        BY <2>2, <2>4, <3>1, ActiveStates DEF State, Shown
      <3> QED
        BY <2>1, <2>2, <2>4, <3>2 DEF Awaited
    <2>5. CASE j.type \in {"stop", "restart"}
      <3>1. ActiveState(st) = "deactivating"
        BY <1>2, <2>2, <2>5, NoJobType, JobDoneType DEF ProcessJob
      <3>2. st \in Stopping
        BY <2>2, <3>1, ActiveStates DEF State
      <3> QED
        BY <2>1, <2>2, <2>5, <3>2 DEF Awaited
    <2> QED
      BY <2>2, <2>3, <2>4, <2>5 DEF Job, JobType
  <1> QED
    BY <1>1, <1>2

LEMMA ReachOK ==
    ASSUME NEW v, NEW st \in State, NEW j \in Job,
           v \in Service, Known(v), v.ccmd = "start" => cfg.type = "forking",
           Shown(j, st)
    PROVE  /\ OK(SetState(v, st), Return, ProcessJob(j, st))
           /\ Base(SetState(v, st)) /\ SetState(v, st).state = st
  <1>1. PICK w : w = SetState(v, st)
    OBVIOUS
  <1>2. /\ w \in Service /\ w.state = st
        /\ Tracked(w) /\ Known(w)
        /\ w.ccmd \in {v.ccmd, "none"}
        /\ w.execfd # "off" => st = "start"
        /\ ~w.pidwatch
    BY <1>1, SetStateOK
  <1>3. Base(w)
    BY <1>2 DEF Base
  <1>4. ProcessJob(j, st) \in Job /\ Awaited(st, ProcessJob(j, st))
    BY ProcessJobType, ProcessJobAwaited
  <1>5. OK(w, Return, ProcessJob(j, st))
    BY <1>2, <1>3, <1>4, RestOK
  <1> QED
    BY <1>1, <1>2, <1>3, <1>5

-----------------------------------------------------------------------------
(* What the parts of the functions leave of Base *)

\* w may replace v where the state alone matters.
Like(v, w) == Base(w) /\ w.state = v.state

LEMMA SameLike ==
    ASSUME NEW v, NEW w, Base(v), Same(v, w)
    PROVE  Like(v, w)
  BY DEF Like, Base, Same, Keeps, Known

LEMMA TimedLike ==
    ASSUME NEW v, NEW w, Base(v), Timed(v, w)
    PROVE  Like(v, w)
  BY DEF Like, Base, Timed, Known

LEMMA ArmedLike ==
    ASSUME NEW v, NEW t, Base(v)
    PROVE  Like(v, Armed(v, t)) /\ Timed(v, Armed(v, t))
  BY ArmedTimed, TimedLike DEF Base

LEMMA FirstLike ==
    ASSUME NEW v, NEW f \in Result, Base(v)
    PROVE  Like(v, First(v, f)) /\ Same(v, First(v, f))
  BY FirstSame, SameLike DEF Base

LEMMA UnwatchMainLike ==
    ASSUME NEW v, Base(v)
    PROVE  /\ Like(v, Unwatch(v, "main")) /\ Keeps(v, Unwatch(v, "main"))
           /\ Unwatch(v, "main").main = "none"
           /\ Unwatch(v, "main").control = v.control
  BY UnwatchMain DEF Base, Like, Keeps, Known

LEMMA UnwatchControlLike ==
    ASSUME NEW v, Base(v)
    PROVE  /\ Like(v, Unwatch(v, "control")) /\ Keeps(v, Unwatch(v, "control"))
           /\ Unwatch(v, "control").control = "none"
           /\ Unwatch(v, "control").main = v.main
  BY UnwatchControl DEF Base, Like, Keeps, Known

LEMMA NoCommandLike ==
    ASSUME NEW v, Base(v)
    PROVE  Like(v, NoControlCommand(v))
  BY NoCommand DEF Base, Like, Known

LEMMA NewMainLike ==
    ASSUME NEW v, Base(v)
    PROVE  Like(v, NewMain(v))
  BY NewMainKeeps DEF Base, Like, Keeps, Known

LEMMA ControlRuns ==
    ASSUME NEW v, Base(v), NEW w, w = [v EXCEPT !.control = "running"]
    PROVE  /\ Like(v, w)
           /\ w.main = v.main /\ w.timer = v.timer /\ w.pidwatch = v.pidwatch
           /\ w.known = v.known
  <1>1. v \in Service
    BY DEF Base
  <1>2. /\ w \in Service /\ w.state = v.state /\ w.main = v.main /\ w.known = v.known
        /\ w.timer = v.timer /\ w.pidwatch = v.pidwatch
        /\ w.ccmd = v.ccmd /\ w.execfd = v.execfd
    BY <1>1 DEF Service, Process
  <1> QED
    BY <1>2 DEF Base, Like, Known

LEMMA CommandLike ==
    ASSUME NEW v, Base(v), NEW id \in Exec, NEW n \in 0 .. 2,
           id = "start" => cfg.type = "forking",
           NEW w, w = [v EXCEPT !.ccmd = id, !.cpos = n]
    PROVE  Like(v, w)
  <1>1. v \in Service
    BY DEF Base
  <1>2. /\ w \in Service /\ w.state = v.state /\ w.main = v.main /\ w.known = v.known
        /\ w.ccmd = id /\ w.execfd = v.execfd
    BY Zenon, <1>1 DEF Service
  <1> QED
    BY <1>2 DEF Base, Like, Known

LEMMA PositionLike ==
    ASSUME NEW v, Base(v), NEW n \in 0 .. 2, NEW w, w = [v EXCEPT !.cpos = n]
    PROVE  Like(v, w)
  <1>1. v \in Service
    BY DEF Base
  <1>2. /\ w \in Service /\ w.state = v.state /\ w.main = v.main /\ w.known = v.known
        /\ w.ccmd = v.ccmd /\ w.execfd = v.execfd
    BY <1>1 DEF Service
  <1> QED
    BY <1>2 DEF Base, Like, Known

LEMMA MainPositionLike ==
    ASSUME NEW v, Base(v), NEW n \in 0 .. 2, NEW w, w = [v EXCEPT !.mcmd = n]
    PROVE  /\ Like(v, w)
           /\ w.main = v.main /\ w.timer = v.timer /\ w.pidwatch = v.pidwatch
           /\ w.known = v.known /\ w.control = v.control
  <1>1. v \in Service
    BY DEF Base
  <1>2. /\ w \in Service /\ w.state = v.state /\ w.main = v.main /\ w.known = v.known
        /\ w.timer = v.timer /\ w.pidwatch = v.pidwatch /\ w.control = v.control
        /\ w.ccmd = v.ccmd /\ w.execfd = v.execfd
    BY <1>1 DEF Service
  <1> QED
    BY <1>2 DEF Base, Like, Known

\* A step that only calls another function.
LEMMA GoDue ==
    ASSUME NEW v, NEW w, NEW c \in Call, job \in Job, Like(v, w),
           c.fn \notin Resting \cup {"restart"}, Due(v.state, c, job),
           Go(w, c)
    PROVE  OK(s', call', job')
  BY DueOK DEF Go, Like

\* A step that ends in a state.
LEMMA ReachState ==
    ASSUME NEW w, NEW st \in State, job \in Job, Base(w), Shown(job, st),
           Reach(w, st)
    PROVE  OK(s', call', job')
  <1>1. OK(SetState(w, st), Return, ProcessJob(job, st))
    BY ReachOK DEF Base
  <1> QED
    BY <1>1 DEF Reach

LEMMA SpawnFailsOK ==
    ASSUME NEW v, NEW t, NEW c \in Call, job \in Job, Base(v),
           c.fn \notin Resting \cup {"restart"}, Due(v.state, c, job),
           SpawnFails(v, t, c)
    PROVE  OK(s', call', job')
  <1>1. PICK w \in {v, Armed(v, t)} : Go(w, c)
    BY DEF SpawnFails
  <1>2. Like(v, w)
    BY ArmedLike DEF Like
  <1> QED
    BY <1>1, <1>2, GoDue

LEMMA RunControlOK ==
    ASSUME NEW v, NEW id \in Exec \ {"start"}, NEW to \in State, NEW t,
           NEW c \in Call, NEW f \in Call, job \in Job, Base(v),
           c.fn \notin Resting \cup {"restart"}, Due(v.state, c, job),
           f.fn \notin Resting \cup {"restart"}, Due(v.state, f, job),
           Shown(job, to),
           RunControl(v, id, to, t, c, f)
    PROVE  OK(s', call', job')
  <1>1. PICK w : w = [v EXCEPT !.ccmd = id, !.cpos = 1]
    OBVIOUS
  <1>2. Like(v, w)
    <2>1. PICK n \in 0 .. 2 : n = 1
      OBVIOUS
    <2>2. w = [v EXCEPT !.ccmd = id, !.cpos = n]
      BY <1>1, <2>1
    <2> QED
      BY Zenon, <2>2, CommandLike
  <1>3. CASE Go([v EXCEPT !.cpos = 0], c)
    <2>1. PICK x : x = [v EXCEPT !.cpos = 0]
      BY Zenon
    <2>2. Like(v, x)
      BY <2>1, PositionLike
    <2> QED
      BY <1>3, <2>1, <2>2, GoDue
  <1>4. CASE Reach([Armed(w, t) EXCEPT !.control = "running"], to)
    <2>1. PICK x : x = [Armed(w, t) EXCEPT !.control = "running"]
      BY Zenon
    <2>2. Base(Armed(w, t))
      BY <1>2, ArmedLike DEF Like
    <2>3. Base(x)
      BY <2>1, <2>2, ControlRuns DEF Like
    <2> QED
      BY <1>4, <2>1, <2>3, ReachState
  <1>5. CASE SpawnFails(w, t, f)
    <2>1. Base(w) /\ Due(w.state, f, job)
      BY <1>2 DEF Like
    <2> QED
      BY <1>5, <2>1, SpawnFailsOK
  <1> QED
    BY <1>1, <1>3, <1>4, <1>5 DEF RunControl

-----------------------------------------------------------------------------
(* The functions *)

LEMMA StopDue ==
    ASSUME NEW st, NEW c, NEW j,
           c.fn \in {"signal", "stop", "stop_post", "dead"},
           c.fn = "signal" => c.to \in StopStates \cup FinalStates,
           j.running => j.type # "none"
    PROVE  Due(st, c, j) /\ c.fn \notin Resting \cup {"restart"}
  BY DEF Due, Resting

\* The calls that stop are due whenever the job is one.
LEMMA StopCalls ==
    ASSUME NEW st, NEW j, j.running => j.type # "none", NEW f \in Result
    PROVE  /\ \A c \in {Enter("stop", f), Enter("stop_post", f), Dead(f, TRUE),
                        Dead(f, FALSE)} :
                 c \in Call /\ Due(st, c, j) /\ c.fn \notin Resting \cup {"restart"}
           /\ \A to \in StopStates \cup FinalStates :
                 /\ Signal(to, f) \in Call /\ Due(st, Signal(to, f), j)
                 /\ Signal(to, f).fn \notin Resting \cup {"restart"}
  <1>1. {"stop", "stop_post"} \subseteq Fn
    BY DEF Fn
  <1>2. StopStates \cup FinalStates \subseteq State
    BY DEF State, Stopping
  <1>3. /\ Enter("stop", f) \in Call /\ Enter("stop", f).fn = "stop"
        /\ Enter("stop_post", f) \in Call /\ Enter("stop_post", f).fn = "stop_post"
    BY <1>1, EnterCall
  <1>4. ASSUME NEW to \in StopStates \cup FinalStates
        PROVE  /\ Signal(to, f) \in Call /\ Due(st, Signal(to, f), j)
               /\ Signal(to, f).fn \notin Resting \cup {"restart"}
    BY <1>2, SignalCall, StopDue
  <1>5. ASSUME NEW c \in {Enter("stop", f), Enter("stop_post", f), Dead(f, TRUE),
                          Dead(f, FALSE)}
        PROVE  c \in Call /\ Due(st, c, j) /\ c.fn \notin Resting \cup {"restart"}
    <2>1. c \in Call /\ c.fn \in {"stop", "stop_post", "dead"}
      BY Zenon, <1>3, DeadCall
    <2> QED
      BY <2>1, StopDue
  <1> QED
    BY Zenon, <1>4, <1>5

LEMMA Results ==
    {"success", "exit-code", "signal", "resources", "protocol", "timeout",
     "watchdog", "start-limit-hit", "oom-kill", "exec-condition"} \subseteq Result
  BY DEF Result, ExitResult

\* What is known when a function that sets a state runs.
LEMMA Entered ==
    ASSUME OK(s, call, job), call.fn \notin Resting \cup {"restart"}
    PROVE  /\ Base(s) /\ call \in Call /\ call.f \in Result /\ job \in Job
           /\ Due(s.state, call, job) /\ (job.running => job.type # "none")
  BY DEF OK, Due, Call

LEMMA ConditionOK ==
    ASSUME OK(s, call, job), service_enter_condition
    PROVE  OK(s', call', job')
  <1> DEFINE v == Unwatch(s, "control")
             next == Enter("start_pre", "success")
             failed == Dead("resources", TRUE)
  <1>1. call.fn = "condition"
    BY DEF service_enter_condition, In
  <1>2. /\ Base(s) /\ job \in Job /\ Due(s.state, call, job)
        /\ (job.running => job.type # "none")
    BY <1>1, Entered DEF Resting
  <1>3. Like(s, v) /\ Base(v)
    BY <1>2, UnwatchControlLike DEF Like
  <1>4. /\ s.state \in {"dead", "failed", "condition", "start-pre"}
        /\ (job.running => job.type = "start")
    BY <1>1, <1>2 DEF Due, Job, JobType
  <1>5. failed \in Call /\ failed.fn \notin Resting \cup {"restart"}
        /\ Due(s.state, failed, job)
    BY Zenon, <1>2, StopCalls, Results
  <1>6. next \in Call /\ next.fn = "start_pre"
    BY EnterCall, Results DEF Fn
  <1>7. Due(s.state, next, job)
    BY <1>4, <1>6 DEF Due
  <1>8. v.state = s.state
    BY <1>3 DEF Like
  <1> HIDE DEF v, next, failed
  <1>9. CASE Go([v EXCEPT !.cpos = 1], failed)
    <2>1. PICK n \in 0 .. 2 : n = 1
      OBVIOUS
    <2>2. PICK x : x = [v EXCEPT !.cpos = n]
      BY Zenon
    <2>3. Like(v, x)
      BY <1>3, <2>2, PositionLike
    <2> QED
      BY <1>2, <1>5, <1>8, <1>9, <2>1, <2>2, <2>3, GoDue
  <1>10. CASE RunControl(v, "condition", "condition", "start", next, failed)
    <2>1. "condition" \in Exec \ {"start"} /\ "condition" \in State
      BY DEF Exec, State, Starting
    <2>2. Shown(job, "condition")
      BY <1>4 DEF Shown
    <2> QED
      BY <1>2, <1>3, <1>5, <1>6, <1>7, <1>8, <1>10, <2>1, <2>2, RunControlOK DEF Resting
  <1> QED
    BY Zenon, <1>9, <1>10 DEF service_enter_condition, v, next, failed

LEMMA StartPreOK ==
    ASSUME OK(s, call, job), service_enter_start_pre
    PROVE  OK(s', call', job')
  <1> DEFINE v == Unwatch(s, "control")
             next == Enter("start", "success")
             failed == Dead("resources", TRUE)
  <1>1. call.fn = "start_pre"
    BY DEF service_enter_start_pre, In
  <1>2. /\ Base(s) /\ job \in Job /\ Due(s.state, call, job)
        /\ (job.running => job.type # "none")
    BY <1>1, Entered DEF Resting
  <1>3. Like(s, v) /\ Base(v)
    BY <1>2, UnwatchControlLike DEF Like
  <1>4. /\ s.state \in {"dead", "failed", "condition", "start-pre"}
        /\ (job.running => job.type = "start")
    BY <1>1, <1>2 DEF Due, Job, JobType
  <1>5. failed \in Call /\ failed.fn \notin Resting \cup {"restart"}
        /\ Due(s.state, failed, job)
    BY Zenon, <1>2, StopCalls, Results
  <1>6. next \in Call /\ next.fn = "start"
    BY EnterCall, Results DEF Fn
  <1>7. Due(s.state, next, job)
    BY <1>4, <1>6 DEF Due
  <1>8. v.state = s.state
    BY <1>3 DEF Like
  <1> HIDE DEF v, next, failed
  <1>9. CASE Go([v EXCEPT !.cpos = 1], failed)
    <2>1. PICK n \in 0 .. 2 : n = 1
      OBVIOUS
    <2>2. PICK x : x = [v EXCEPT !.cpos = n]
      BY Zenon
    <2>3. Like(v, x)
      BY <1>3, <2>2, PositionLike
    <2> QED
      BY <1>2, <1>5, <1>8, <1>9, <2>1, <2>2, <2>3, GoDue
  <1>10. CASE RunControl(v, "start-pre", "start-pre", "start", next, failed)
    <2>1. "start-pre" \in Exec \ {"start"} /\ "start-pre" \in State
      BY DEF Exec, State, Starting
    <2>2. Shown(job, "start-pre")
      BY <1>4 DEF Shown
    <2> QED
      BY <1>2, <1>3, <1>5, <1>6, <1>7, <1>8, <1>10, <2>1, <2>2, RunControlOK DEF Resting
  <1> QED
    BY Zenon, <1>9, <1>10 DEF service_enter_start_pre, v, next, failed

LEMMA StartPostOK ==
    ASSUME cfg \in Config, OK(s, call, job), service_enter_start_post
    PROVE  OK(s', call', job')
  <1> DEFINE u == Unwatch(s, "control")
             v == ResetWatchdog(u)
             next == Enter("running", "success")
             failed == Enter("stop", "resources")
  <1>1. call.fn = "start_post"
    BY DEF service_enter_start_post, In
  <1>2. /\ Base(s) /\ job \in Job /\ Due(s.state, call, job)
        /\ (job.running => job.type # "none")
    BY <1>1, Entered DEF Resting
  <1>3. Base(v) /\ v.state = s.state
    <2>1. Base(u) /\ u.state = s.state
      BY <1>2, UnwatchControlLike DEF Like
    <2>2. Same(u, v)
      BY <2>1, ResetWatchdogSame DEF Base
    <2> QED
      BY <2>1, <2>2, SameLike DEF Like
  <1>4. job.running => job.type = "start"
    BY <1>1, <1>2 DEF Due, Job, JobType
  <1>5. failed \in Call /\ failed.fn \notin Resting \cup {"restart"}
        /\ Due(s.state, failed, job)
    BY Zenon, <1>2, StopCalls, Results
  <1>6. next \in Call /\ next.fn = "running"
    BY EnterCall, Results DEF Fn
  <1>7. Due(s.state, next, job) /\ next.fn \notin Resting \cup {"restart"}
    BY <1>4, <1>6 DEF Due, Resting
  <1>8. RunControl(v, "start-post", "start-post", "start", next, failed)
    BY DEF service_enter_start_post
  <1> HIDE DEF v, next, failed
  <1>9. "start-post" \in Exec \ {"start"} /\ "start-post" \in State
    BY DEF Exec, State, Starting
  <1>10. Shown(job, "start-post")
    BY <1>4 DEF Shown
  <1> QED
    BY <1>2, <1>3, <1>5, <1>6, <1>7, <1>8, <1>9, <1>10, RunControlOK

LEMMA ReloadFunctionOK ==
    ASSUME OK(s, call, job), service_enter_reload
    PROVE  OK(s', call', job')
  <1> DEFINE v == Unwatch(s, "control")
             next == Enter("running", "success")
  <1>1. call.fn = "reload"
    BY DEF service_enter_reload, In
  <1>2. /\ Base(s) /\ job \in Job /\ Due(s.state, call, job)
        /\ (job.running => job.type # "none")
    BY <1>1, Entered DEF Resting
  <1>3. Base(v) /\ v.state = s.state
    BY <1>2, UnwatchControlLike DEF Like
  <1>4. job.running => job.type = "reload"
    BY <1>1, <1>2 DEF Due, Job, JobType
  <1>5. next \in Call /\ next.fn = "running"
    BY EnterCall, Results DEF Fn
  <1>6. Due(s.state, next, job) /\ next.fn \notin Resting \cup {"restart"}
    BY <1>4, <1>5 DEF Due, Resting
  <1>7. RunControl(v, "reload", "reload", "start", next, next)
    BY DEF service_enter_reload
  <1> HIDE DEF v, next
  <1>8. "reload" \in Exec \ {"start"} /\ "reload" \in State
    BY DEF Exec, State, Starting
  <1>9. Shown(job, "reload")
    BY <1>4 DEF Shown, Starting
  <1> QED
    BY <1>2, <1>3, <1>5, <1>6, <1>7, <1>8, <1>9, RunControlOK

LEMMA StopFunctionsOK ==
    ASSUME OK(s, call, job), service_enter_stop \/ service_enter_stop_post
    PROVE  OK(s', call', job')
  <1> DEFINE u == First(s, call.f)
             v == Unwatch(u, "control")
  <1>1. call.fn \in {"stop", "stop_post"}
    BY DEF service_enter_stop, service_enter_stop_post, In
  <1>2. /\ Base(s) /\ call.f \in Result /\ job \in Job /\ Due(s.state, call, job)
        /\ (job.running => job.type # "none")
    BY <1>1, Entered DEF Resting
  <1>3. Base(v) /\ v.state = s.state
    <2>1. Base(u) /\ u.state = s.state
      BY <1>2, FirstLike DEF Like
    <2> QED
      BY <2>1, UnwatchControlLike DEF Like
  <1>4. ASSUME NEW f \in Result, NEW to \in {"stop-sigterm", "final-sigterm"}
        PROVE  /\ Signal(to, f) \in Call /\ Due(v.state, Signal(to, f), job)
               /\ Signal(to, f).fn \notin Resting \cup {"restart"}
    BY Zenon, <1>2, StopCalls DEF StopStates, FinalStates
  <1>5. ASSUME NEW id \in {"stop", "stop-post"}
        PROVE  /\ id \in Exec \ {"start"} /\ id \in State
               /\ Shown(job, id)
    BY <1>2 DEF Exec, State, Starting, Stopping, Shown
  <1>6. ASSUME NEW id \in {"stop", "stop-post"}, NEW to \in {"stop-sigterm", "final-sigterm"},
               RunControl(v, id, id, "stop", Signal(to, "success"), Signal(to, "resources"))
        PROVE  OK(s', call', job')
    <2>1. /\ Signal(to, "success") \in Call /\ Due(v.state, Signal(to, "success"), job)
          /\ Signal(to, "success").fn \notin Resting \cup {"restart"}
      BY <1>4, Results
    <2>2. /\ Signal(to, "resources") \in Call /\ Due(v.state, Signal(to, "resources"), job)
          /\ Signal(to, "resources").fn \notin Resting \cup {"restart"}
      BY <1>4, Results
    <2> HIDE DEF v
    <2> QED
      BY <1>2, <1>3, <1>5, <1>6, <2>1, <2>2, RunControlOK
  <1> QED
    BY <1>6 DEF service_enter_stop, service_enter_stop_post

LEMMA NotifyFunctionsOK ==
    ASSUME OK(s, call, job),
           service_enter_reload_by_notify \/ service_enter_stop_by_notify
    PROVE  OK(s', call', job')
  <1>1. call.fn \in {"reload_by_notify", "stop_by_notify"}
    BY DEF service_enter_reload_by_notify, service_enter_stop_by_notify, In
  <1>2. /\ Base(s) /\ job \in Job /\ Due(s.state, call, job)
        /\ (job.running => job.type # "none")
    BY <1>1, Entered DEF Resting
  <1>3. ASSUME NEW t, NEW to \in {"reload", "stop-sigterm"}, Reach(Armed(s, t), to)
        PROVE  OK(s', call', job')
    <2>1. Base(Armed(s, t))
      BY <1>2, ArmedLike DEF Like
    <2>2. to \in State
      BY DEF State, Stopping, StopStates
    <2>3. Shown(job, to)
      BY <1>1, <1>2 DEF Shown, Due, Starting
    <2> QED
      BY <1>2, <1>3, <2>1, <2>2, <2>3, ReachState
  <1> QED
    BY <1>3 DEF service_enter_reload_by_notify, service_enter_stop_by_notify

LEMMA SignalFunctionOK ==
    ASSUME OK(s, call, job), service_enter_signal
    PROVE  OK(s', call', job')
  <1> DEFINE u == First(s, call.f)
             v == Killed(u, call.to)
  <1>1. call.fn = "signal"
    BY DEF service_enter_signal, In
  <1>2. /\ Base(s) /\ call.f \in Result /\ job \in Job
        /\ call.to \in StopStates \cup FinalStates
        /\ (job.running => job.type # "none")
    BY <1>1, Entered DEF Resting, Due
  <1>3. Base(v) /\ Like(v, v)
    <2>1. Base(u)
      BY <1>2, FirstLike DEF Like
    <2>2. Same(u, v)
      BY <2>1, KilledSame DEF Base
    <2> QED
      BY <2>1, <2>2, SameLike DEF Like
  <1> HIDE DEF v
  <1>4. CASE Reach(Armed(v, "stop"), call.to)
    <2>1. Base(Armed(v, "stop"))
      BY <1>3, ArmedLike DEF Like
    <2>2. call.to \in State /\ Shown(job, call.to)
      BY <1>2 DEF State, Stopping, StopStates, FinalStates, Shown, Starting
    <2> QED
      BY <1>2, <1>4, <2>1, <2>2, ReachState
  <1>5. ASSUME NEW c, Go(v, c),
               \/ c \in {Signal("stop-sigkill", "success"), Signal("final-sigkill", "success")}
               \/ c \in {Enter("stop_post", "success"), Dead("success", TRUE)}
        PROVE  OK(s', call', job')
    <2>1. c \in Call /\ Due(v.state, c, job) /\ c.fn \notin Resting \cup {"restart"}
      <3>1. "success" \in Result /\ {"stop-sigkill", "final-sigkill"}
                                       \subseteq StopStates \cup FinalStates
        BY Results DEF StopStates, FinalStates
      <3>2. CASE c \in {Enter("stop_post", "success"), Dead("success", TRUE)}
        BY Zenon, <1>2, <3>1, <3>2, StopCalls
      <3>3. CASE c \in {Signal("stop-sigkill", "success"),
                        Signal("final-sigkill", "success")}
        BY Zenon, <1>2, <3>1, <3>3, StopCalls
      <3> QED
        BY Zenon, <1>5, <3>2, <3>3
    <2> QED
      BY <1>2, <1>3, <1>5, <2>1, GoDue
  <1> QED
    BY Zenon, <1>4, <1>5 DEF service_enter_signal, v

LEMMA ArmedTracked ==
    ASSUME NEW v, NEW t, Base(v), Tracked(v), v.state \in TimerStates
    PROVE  Base(Armed(v, t)) /\ Tracked(Armed(v, t)) /\ Armed(v, t).state = v.state
  BY ArmedLike DEF Like, Tracked, Timed

LEMMA RunningOK ==
    ASSUME OK(s, call, job), service_enter_running
    PROVE  OK(s', call', job')
  <1> DEFINE u == First(s, call.f)
             v == Unwatch(u, "control")
  <1>1. call.fn = "running"
    BY DEF service_enter_running, In
  <1>2. /\ Base(s) /\ call.f \in Result /\ job \in Job
        /\ (job.running => job.type \in {"start", "reload"})
        /\ (job.running => job.type # "none")
    BY <1>1, Entered DEF Resting, Due, Job, JobType
  <1>3. Base(v) /\ Like(v, v)
    <2>1. Base(u)
      BY <1>2, FirstLike DEF Like
    <2> QED
      BY <2>1, UnwatchControlLike DEF Like
  <1>4. {"running", "exited"} \subseteq State
        /\ Shown(job, "running") /\ Shown(job, "exited")
    BY <1>2 DEF State, Shown, Starting
  <1> HIDE DEF v
  <1>5. CASE Go(v, Signal("stop-sigterm", call.f)) \/ Go(v, Enter("stop", "success"))
    <2>1. /\ Signal("stop-sigterm", call.f) \in Call
          /\ Signal("stop-sigterm", call.f).fn \notin Resting \cup {"restart"}
          /\ Due(v.state, Signal("stop-sigterm", call.f), job)
      BY Zenon, <1>2, StopCalls DEF StopStates
    <2>2. /\ Enter("stop", "success") \in Call
          /\ Enter("stop", "success").fn \notin Resting \cup {"restart"}
          /\ Due(v.state, Enter("stop", "success"), job)
      BY Zenon, <1>2, StopCalls, Results
    <2> QED
      BY <1>2, <1>3, <1>5, <2>1, <2>2, GoDue
  <1>6. ASSUME NEW fn \in {"reload_by_notify", "stop_by_notify"},
               Go(v, Enter(fn, "success"))
        PROVE  OK(s', call', job')
    <2>1. Enter(fn, "success") \in Call /\ Enter(fn, "success").fn = fn
      BY EnterCall, Results DEF Fn
    <2>2. Due(v.state, Enter(fn, "success"), job)
      BY <1>2, <2>1 DEF Due
    <2> QED
      BY <1>2, <1>3, <1>6, <2>1, <2>2, GoDue DEF Resting
  <1>7. CASE /\ s' = Armed(SetState(v, "running"), "runtime")
             /\ job' = ProcessJob(job, "running")
             /\ call' = Return
    <2>1. PICK w : w = SetState(v, "running")
      OBVIOUS
    <2>2. OK(w, Return, ProcessJob(job, "running")) /\ Base(w) /\ w.state = "running"
      BY <1>2, <1>3, <1>4, <2>1, ReachOK DEF Base
    <2>3. Tracked(w) /\ Awaited(w.state, ProcessJob(job, "running"))
          /\ ProcessJob(job, "running") \in Job
      BY <2>2, ReturnCall DEF OK, Resting
    <2>4. /\ Base(Armed(w, "runtime")) /\ Tracked(Armed(w, "runtime"))
          /\ Armed(w, "runtime").state = w.state
      BY <2>2, <2>3, ArmedTracked DEF TimerStates
    <2> QED
      BY <1>7, <2>1, <2>3, <2>4, RestOK
  <1>8. CASE Reach(v, "exited")
    BY <1>2, <1>3, <1>4, <1>8, ReachState
  <1> QED
    BY <1>5, <1>6, <1>7, <1>8 DEF service_enter_running, v

LEMMA DeadFunctionOK ==
    ASSUME OK(s, call, job), service_enter_dead
    PROVE  OK(s', call', job')
  <1> DEFINE v == First(s, call.f)
  <1>1. call.fn = "dead"
    BY DEF service_enter_dead, In
  <1>2. /\ Base(s) /\ call.f \in Result /\ job \in Job
        /\ (job.running => job.type # "none")
    BY <1>1, Entered DEF Resting
  <1>3. Base(v)
    BY <1>2, FirstLike DEF Like
  <1> HIDE DEF v
  <1>4. PICK end \in {"dead", "failed"} :
           \/ /\ s' = [SetState(Armed(SetState(v, end), "restart"), "auto-restart")
                          EXCEPT !.forbid = FALSE]
              /\ job' = ProcessJob(ProcessJob(job, end), "auto-restart")
              /\ call' = Return
           \/ /\ s' = [SetState(v, end) EXCEPT !.forbid = FALSE]
              /\ job' = ProcessJob(job, end)
              /\ call' = Return
    <2> DEFINE end == IF v.result \in {"success", "exec-condition"} THEN "dead"
                      ELSE "failed"
    <2>1. end \in {"dead", "failed"}
      OBVIOUS
    <2> QED
      BY Zenon, <2>1 DEF service_enter_dead, v
  <1>5. PICK j : j = ProcessJob(job, end)
    OBVIOUS
  <1>6. end \in State /\ "auto-restart" \in State /\ Shown(job, end)
    BY <1>2 DEF State, Shown, Starting
  <1>7. j \in Job /\ ~j.running
    BY <1>2, <1>5, <1>6, ProcessJobType
  <1>8. PICK gone : gone = SetState(v, end)
    OBVIOUS
  <1>9. OK(gone, Return, j) /\ Base(gone)
    BY <1>2, <1>3, <1>5, <1>6, <1>8, ReachOK DEF Base
  <1>10. Base(Armed(gone, "restart"))
    BY <1>9, ArmedLike DEF Like
  <1>11. PICK again : again = SetState(Armed(gone, "restart"), "auto-restart")
    OBVIOUS
  <1>12. OK(again, Return, ProcessJob(j, "auto-restart"))
    <2>1. Shown(j, "auto-restart")
      BY <1>7 DEF Shown
    <2> QED
      BY <1>6, <1>7, <1>10, <1>11, <2>1, ReachOK DEF Base
  <1>13. ASSUME NEW w, NEW k, OK(w, Return, k), s' = [w EXCEPT !.forbid = FALSE],
                job' = k, call' = Return
         PROVE  OK(s', call', job')
    <2>1. Base(w) /\ k \in Job /\ Tracked(w) /\ Awaited(w.state, k)
      BY <1>13, ReturnCall DEF OK, Resting
    <2>2. w \in Service
      BY <2>1 DEF Base
    <2>3. PICK x : x = [w EXCEPT !.forbid = FALSE]
      BY Zenon
    <2>4. Same(w, x)
      BY Zenon, <2>2, <2>3 DEF Service, Same, Keeps
    <2>5. Base(x) /\ x.state = w.state
      BY <2>1, <2>4, SameLike DEF Like
    <2>6. Tracked(x)
      BY <2>1, <2>4 DEF Tracked, Same, Keeps
    <2> QED
      BY Zenon, <1>13, <2>1, <2>3, <2>5, <2>6, RestOK
  <1> QED
    BY <1>4, <1>5, <1>8, <1>9, <1>11, <1>12, <1>13

LEMMA RestartFunctionOK ==
    ASSUME OK(s, call, job), service_enter_restart
    PROVE  OK(s', call', job')
  <1>1. call.fn = "restart"
    BY DEF service_enter_restart, In
  <1>2. /\ Base(s) /\ job \in Job /\ Tracked(s) /\ s.state = "auto-restart"
        /\ ~job.running
    BY <1>1 DEF OK
  <1>3. CASE Go(Armed(s, "restart"), Return)
    <2>1. /\ Base(Armed(s, "restart")) /\ Tracked(Armed(s, "restart"))
      BY <1>2, ArmedTracked DEF TimerStates
    <2>2. Awaited(Armed(s, "restart").state, job)
      BY <1>2 DEF Awaited
    <2> QED
      BY <1>2, <1>3, <2>1, <2>2, RestOK DEF Go
  <1>4. CASE /\ s' = s /\ job' = [type |-> "restart", running |-> FALSE]
             /\ call' = Return
    <2>1. job' \in Job /\ Awaited(s.state, job')
      BY <1>4 DEF Job, JobType, Awaited
    <2> QED
      BY <1>2, <1>4, <2>1, RestOK
  <1>5. CASE Go(s, Dead("resources", FALSE))
    <2>1. /\ Dead("resources", FALSE) \in Call
          /\ Due(s.state, Dead("resources", FALSE), job)
          /\ Dead("resources", FALSE).fn \notin Resting \cup {"restart"}
      BY Zenon, <1>2, StopCalls, Results
    <2> QED
      BY Zenon, <1>2, <1>5, <2>1, GoDue DEF Like
  <1> QED
    BY Zenon, <1>3, <1>4, <1>5 DEF service_enter_restart

\* The commands that service_enter_start() sets.
Commanded(v, n) ==
    IF cfg.type = "forking" THEN [v EXCEPT !.ccmd = "start", !.cpos = n, !.mcmd = 0]
    ELSE [NoControlCommand(v) EXCEPT !.mcmd = n]
StartArmed(w) ==
    IF cfg.type \in {"simple", "idle"} THEN [w EXCEPT !.timer = FALSE]
    ELSE Armed(w, "start")

LEMMA CommandedLike ==
    ASSUME NEW v, Base(v), NEW n \in 0 .. 2
    PROVE  Like(v, Commanded(v, n))
  <1>1. CASE cfg.type = "forking"
    <2>1. PICK m \in 0 .. 2 : m = 0
      OBVIOUS
    <2>2. PICK x : x = [v EXCEPT !.ccmd = "start", !.cpos = n]
      OBVIOUS
    <2>3. PICK w : w = [x EXCEPT !.mcmd = m]
      BY Zenon
    <2>4. Like(v, x)
      BY Zenon, <1>1, <2>2, CommandLike DEF Exec
    <2>5. Like(x, w)
      BY <2>3, <2>4, MainPositionLike DEF Like
    <2>6. w = Commanded(v, n)
      BY <1>1, <2>1, <2>2, <2>3 DEF Commanded
    <2> QED
      BY <2>4, <2>5, <2>6 DEF Like
  <1>2. CASE cfg.type # "forking"
    <2>1. PICK x : x = NoControlCommand(v)
      OBVIOUS
    <2>2. PICK w : w = [x EXCEPT !.mcmd = n]
      BY Zenon
    <2>3. Like(v, x)
      BY <2>1, NoCommandLike
    <2>4. Like(x, w)
      BY <2>2, <2>3, MainPositionLike DEF Like
    <2>5. w = Commanded(v, n)
      BY <1>2, <2>1, <2>2 DEF Commanded
    <2> QED
      BY <2>3, <2>4, <2>5 DEF Like
  <1> QED
    BY <1>1, <1>2

LEMMA StartArmedLike ==
    ASSUME NEW v, Base(v)
    PROVE  Like(v, StartArmed(v))
  <1>1. CASE cfg.type \in {"simple", "idle"}
    <2>1. PICK w : w = [v EXCEPT !.timer = FALSE]
      BY Zenon
    <2>2. v \in Service
      BY DEF Base
    <2>3. Timed(v, w)
      BY Zenon, <2>1, <2>2 DEF Timed, Service
    <2>4. w = StartArmed(v)
      BY <1>1, <2>1 DEF StartArmed
    <2> QED
      BY <2>3, <2>4, TimedLike
  <1>2. CASE cfg.type \notin {"simple", "idle"}
    BY <1>2, ArmedLike DEF StartArmed
  <1> QED
    BY <1>1, <1>2

LEMMA StartOK ==
    ASSUME OK(s, call, job), service_enter_start
    PROVE  OK(s', call', job')
  <1> DEFINE u == Unwatch(s, "control")
             v == Unwatch(u, "main")
             failed == Signal("stop-sigterm", "resources")
             post == Enter("start_post", "success")
             n == IF cfg.exec["start"] = 0 THEN 0 ELSE 1
             w == Commanded(v, n)
             armed == StartArmed(w)
  <1>1. call.fn = "start"
    BY DEF service_enter_start, In
  <1>2. /\ Base(s) /\ job \in Job
        /\ (job.running => job.type # "none")
        /\ (job.running => job.type = "start")
    BY <1>1, Entered DEF Resting, Due, Job, JobType
  <1>3. Like(s, v)
    <2>1. Like(s, u)
      BY <1>2, UnwatchControlLike
    <2> QED
      BY <2>1, UnwatchMainLike DEF Like
  <1>4. n \in 0 .. 2
    OBVIOUS
  <1>5. \/ Go(v, failed)
        \/ /\ s' = SetState(w, "start") /\ job' = ProcessJob(job, "start")
           /\ call' = post
        \/ \E x \in {w, armed} : Go(x, failed)
        \/ Go(NewMain(armed), post)
        \/ Reach([armed EXCEPT !.control = "running"], "start")
        \/ Reach([NewMain(armed) EXCEPT
                     !.execfd = IF cfg.type = "exec" THEN "cold" ELSE @], "start")
    BY DEF service_enter_start, Commanded, StartArmed
  <1> HIDE DEF v, n
  <1>6. Like(v, w)
    BY <1>3, <1>4, CommandedLike DEF Like
  <1> HIDE DEF w
  <1>7. Like(w, armed)
    BY <1>6, StartArmedLike DEF Like
  <1> HIDE DEF armed
  <1>8. /\ failed \in Call /\ failed.fn \notin Resting \cup {"restart"}
        /\ \A st : Due(st, failed, job)
    BY Zenon, <1>2, StopCalls, Results DEF StopStates
  <1>9. post \in Call /\ post.fn = "start_post"
    BY EnterCall, Results DEF Fn
  <1>10. ASSUME NEW j, j.running => j.type = "start"
         PROVE  \A st : Due(st, post, j)
    BY <1>9, <1>10 DEF Due
  <1>11. "start" \in State /\ Shown(job, "start")
    BY <1>2 DEF State, Starting, Shown
  <1> HIDE DEF failed, post
  <1>12. ASSUME NEW x \in {v, w, armed}, Go(x, failed)
         PROVE  OK(s', call', job')
    <2>1. Like(x, x)
      BY <1>3, <1>6, <1>7 DEF Like
    <2> QED
      BY <1>2, <1>8, <1>12, <2>1, GoDue
  <1>13. CASE /\ s' = SetState(w, "start") /\ job' = ProcessJob(job, "start")
              /\ call' = post
    <2>1. Base(s') /\ s'.state = "start"
      BY <1>2, <1>6, <1>11, <1>13, ReachOK DEF Base, Like
    <2>2. job' \in Job /\ (job'.running => job'.type = "start")
      BY <1>2, <1>11, <1>13, ProcessJobType
    <2> QED
      BY <1>9, <1>10, <1>13, <2>1, <2>2, DueOK DEF Resting
  <1>14. CASE Go(NewMain(armed), post)
    <2>1. Like(armed, NewMain(armed))
      BY <1>7, NewMainLike DEF Like
    <2> QED
      BY <1>2, <1>9, <1>10, <1>14, <2>1, GoDue DEF Resting
  <1>15. CASE Reach([armed EXCEPT !.control = "running"], "start")
    <2>1. PICK x : x = [armed EXCEPT !.control = "running"]
      BY Zenon
    <2>2. Base(x)
      BY <1>7, <2>1, ControlRuns DEF Like
    <2> QED
      BY <1>2, <1>11, <1>15, <2>1, <2>2, ReachState
  <1>16. CASE Reach([NewMain(armed) EXCEPT
                        !.execfd = IF cfg.type = "exec" THEN "cold" ELSE @], "start")
    <2>1. PICK m : m = NewMain(armed)
      OBVIOUS
    <2>2. Base(m)
      BY <1>7, <2>1, NewMainLike DEF Like
    <2>3. m \in Service
      BY <2>2 DEF Base
    <2>4. PICK e \in {"off", "cold", "hot"} :
             e = IF cfg.type = "exec" THEN "cold" ELSE m.execfd
      BY <2>3 DEF Service
    <2>5. PICK x : x = [m EXCEPT !.execfd = e]
      BY Zenon
    <2>6. x \in Service /\ x.known = m.known /\ x.main = m.main /\ x.ccmd = m.ccmd
      BY <2>3, <2>5 DEF Service
    <2>7. Known(x) /\ (x.ccmd = "start" => cfg.type = "forking")
      BY <2>2, <2>6 DEF Base, Known
    <2>8. Reach(x, "start")
      BY <1>16, <2>1, <2>4, <2>5
    <2>9. OK(SetState(x, "start"), Return, ProcessJob(job, "start"))
      BY <1>2, <1>11, <2>6, <2>7, ReachOK
    <2> QED
      BY <2>8, <2>9 DEF Reach
  <1> QED
    BY <1>5, <1>12, <1>13, <1>14, <1>15, <1>16

\* The next command of a setting keeps what was tracked.
LEMMA RunNextControlOK ==
    ASSUME cfg \in Config, OK(s, call, job), service_run_next_control
    PROVE  OK(s', call', job')
  <1> DEFINE u == Unwatch(s, "control")
             v == [u EXCEPT !.cpos = @ + 1]
             timeout == IF s.state \in Starting \cup {"running", "reload"}
                        THEN "start" ELSE "stop"
             failed == IF s.state \in {"condition", "start-pre", "start-post", "stop"}
                       THEN Signal("stop-sigterm", "resources")
                       ELSE IF s.state = "stop-post" THEN Dead("resources", TRUE)
                       ELSE IF s.state = "reload" THEN Enter("running", "success")
                       ELSE Enter("stop", "resources")
  <1>1. call.fn = "run_next_control"
    BY DEF service_run_next_control, In
  <1>2. /\ Base(s) /\ job \in Job /\ Tracked(s) /\ Awaited(s.state, job)
        /\ HasNextControl(s) /\ s.ccmd # "start" /\ s.state \in ControlStates
        /\ ~s.pidwatch
    BY <1>1 DEF OK, Resting, NextDue
  <1>3. /\ Base(u) /\ u.state = s.state /\ Keeps(s, u)
        /\ u.control = "none" /\ u.main = s.main
    BY <1>2, UnwatchControlLike DEF Like
  <1>4. \/ Go([Armed(v, timeout) EXCEPT !.control = "running"], Return)
        \/ SpawnFails(v, timeout, failed)
    BY Zenon DEF service_run_next_control
  <1>5. PICK n \in 0 .. 2 : n = u.cpos + 1
    <2>1. s \in Service /\ u.cpos = s.cpos
      BY <1>2, <1>3 DEF Base, Keeps
    <2>2. s.cpos \in 0 .. 2 /\ s.ccmd \in Exec
      BY <1>2, <2>1 DEF Service, HasNextControl
    <2>3. cfg.exec[s.ccmd] \in 0 .. 2
      BY <2>2 DEF Config
    <2>4. s.cpos + 1 \in 0 .. 2
      BY <1>2, <2>2, <2>3 DEF HasNextControl
    <2> QED
      BY <2>1, <2>4
  <1> HIDE DEF u
  <1>6. PICK x : x = [u EXCEPT !.cpos = n]
    BY Zenon
  <1>7. v = x
    BY <1>5, <1>6
  <1>8. /\ Base(x) /\ x.state = s.state
        /\ x.main = u.main /\ x.timer = u.timer /\ x.pidwatch = u.pidwatch
    <2>1. Like(u, x)
      BY <1>3, <1>6, PositionLike
    <2>2. u \in Service
      BY <1>3 DEF Base
    <2> QED
      BY <1>3, <1>6, <2>1, <2>2 DEF Like, Service
  <1> HIDE DEF v
  <1>9. CASE Go([Armed(v, timeout) EXCEPT !.control = "running"], Return)
    <2>1. PICK y : y = Armed(x, timeout)
      OBVIOUS
    <2>2. Base(y) /\ Timed(x, y)
      BY <1>8, <2>1, ArmedLike DEF Like
    <2>3. PICK z : z = [y EXCEPT !.control = "running"]
      BY Zenon
    <2>4. /\ Base(z) /\ z.state = y.state
          /\ z.main = y.main /\ z.timer = y.timer /\ z.pidwatch = y.pidwatch
      BY <2>2, <2>3, ControlRuns DEF Like
    <2>5. z.state = s.state /\ z.main = s.main /\ ~z.pidwatch
      BY <1>2, <1>3, <1>8, <2>2, <2>4 DEF Timed, Keeps
    <2>6. Tracked(z)
      BY <1>2, <2>5 DEF Tracked, ControlStates, TimerStates
    <2> QED
      BY Zenon, <1>2, <1>7, <1>9, <2>1, <2>3, <2>4, <2>5, <2>6, RestOK DEF Go
  <1>10. CASE SpawnFails(v, timeout, failed)
    <2>1. job.running => job.type # "none"
      BY <1>2 DEF Awaited
    <2>2. failed \in Call /\ failed.fn \notin Resting \cup {"restart"}
          /\ Due(s.state, failed, job)
      <3>1. CASE s.state = "reload"
        <4>1. failed = Enter("running", "success")
          BY <3>1
        <4>2. /\ Enter("running", "success") \in Call
              /\ Enter("running", "success").fn = "running"
          BY EnterCall, Results DEF Fn
        <4>3. job.running => job.type = "reload"
          BY <1>2, <3>1 DEF Awaited, Stopping, StopStates, FinalStates, Starting
        <4> HIDE DEF failed
        <4> QED
          BY <4>1, <4>2, <4>3 DEF Due, Resting
      <3>2. CASE s.state # "reload"
        <4>1. failed \in {Enter("stop", "resources"), Dead("resources", TRUE)}
              \/ failed = Signal("stop-sigterm", "resources")
          BY <3>2
        <4> QED
          BY Zenon, <2>1, <4>1, StopCalls, Results DEF StopStates
      <3> QED
        BY Zenon, <3>1, <3>2
    <2> HIDE DEF failed
    <2> QED
      BY <1>2, <1>7, <1>8, <1>10, <2>2, SpawnFailsOK
  <1> QED
    BY Zenon, <1>4, <1>9, <1>10

LEMMA RunNextMainOK ==
    ASSUME cfg \in Config, OK(s, call, job), service_run_next_main
    PROVE  OK(s', call', job')
  <1> DEFINE u == Unwatch(s, "main")
             v == [u EXCEPT !.mcmd = @ + 1]
             failed == Enter("stop", "resources")
  <1>1. call.fn = "run_next_main"
    BY DEF service_run_next_main, In
  <1>2. /\ Base(s) /\ job \in Job /\ Tracked(s) /\ Awaited(s.state, job)
        /\ HasNextMain(s) /\ s.state \in MainStates
    BY <1>1 DEF OK, Resting, NextDue
  <1>3. /\ Base(u) /\ u.state = s.state /\ Keeps(s, u)
        /\ u.main = "none" /\ u.control = s.control
    BY <1>2, UnwatchMainLike DEF Like
  <1>4. \/ Go(NewMain(Armed(v, "start")), Return)
        \/ SpawnFails(v, "start", failed)
    BY DEF service_run_next_main
  <1>5. PICK n \in 0 .. 2 : n = u.mcmd + 1
    <2>1. s \in Service /\ u.mcmd = s.mcmd
      BY <1>2, <1>3 DEF Base, Keeps
    <2>2. s.mcmd \in 0 .. 2
      BY <2>1 DEF Service
    <2>3. cfg.exec["start"] \in 0 .. 2
      BY DEF Config, Exec
    <2>4. s.mcmd + 1 \in 0 .. 2
      BY <1>2, <2>2, <2>3 DEF HasNextMain
    <2> QED
      BY <2>1, <2>4
  <1> HIDE DEF u
  <1>6. PICK x : x = [u EXCEPT !.mcmd = n]
    BY Zenon
  <1>7. v = x
    BY <1>5, <1>6
  <1>8. /\ Base(x) /\ x.state = s.state
        /\ x.pidwatch = u.pidwatch /\ x.control = u.control
    BY <1>3, <1>6, MainPositionLike DEF Like
  <1> HIDE DEF v
  <1>9. CASE Go(NewMain(Armed(v, "start")), Return)
    <2>1. PICK y : y = Armed(x, "start")
      OBVIOUS
    <2>2. Base(y) /\ Timed(x, y)
      BY <1>8, <2>1, ArmedLike DEF Like
    <2>3. PICK z : z = NewMain(y)
      OBVIOUS
    <2>4. Base(z) /\ Keeps(y, z) /\ z.control = y.control
      BY <2>2, <2>3, NewMainLike, NewMainKeeps DEF Like, Base
    <2>5. z.state = s.state /\ z.control = s.control /\ z.pidwatch = s.pidwatch
      BY <1>3, <1>8, <2>2, <2>4 DEF Timed, Keeps
    <2>6. Tracked(z)
      BY <1>2, <2>5 DEF Tracked, MainStates, TimerStates, Starting
    <2> QED
      BY <1>2, <1>7, <1>9, <2>1, <2>3, <2>4, <2>5, <2>6, RestOK DEF Go
  <1>10. CASE SpawnFails(v, "start", failed)
    <2>1. job.running => job.type # "none"
      BY <1>2 DEF Awaited
    <2>2. failed \in Call /\ failed.fn \notin Resting \cup {"restart"}
          /\ Due(s.state, failed, job)
      BY Zenon, <2>1, StopCalls, Results
    <2> HIDE DEF failed
    <2> QED
      BY <1>2, <1>7, <1>8, <1>10, <2>2, SpawnFailsOK
  <1> QED
    BY <1>4, <1>9, <1>10

-----------------------------------------------------------------------------
(* The job *)

\* What is known when no function runs.
LEMMA AtRest ==
    ASSUME OK(s, call, job), Idle
    PROVE  /\ Base(s) /\ job \in Job /\ Tracked(s) /\ Awaited(s.state, job)
           /\ (job.running => job.type # "none")
           /\ s.state \in State
  <1>1. Base(s) /\ job \in Job /\ Tracked(s) /\ Awaited(s.state, job)
    BY DEF OK, Idle, Resting
  <1>2. s.state \in State
    BY <1>1 DEF Base, Service
  <1> QED
    BY <1>1, <1>2 DEF Awaited

\* The call stays idle, and so does what is due.
LEMMA StillOK ==
    ASSUME NEW v, NEW j \in Job, OK(s, call, job), Idle, Base(v), Tracked(v),
           Awaited(v.state, j)
    PROVE  OK(v, call, j)
  BY DEF OK, Idle, Resting, NextDue

LEMMA NotRunningOK ==
    ASSUME NEW j \in Job, ~j.running, OK(s, call, job), Idle
    PROVE  OK(s, call, j)
  BY AtRest, StillOK DEF Awaited

LEMMA ServiceStartOK ==
    ASSUME OK(s, call, job), service_start
    PROVE  OK(s', call', job')
  <1>1. Idle /\ job.type = "start"
    BY DEF service_start, Runs
  <1>2. Base(s) /\ job \in Job /\ Tracked(s) /\ s.state \in State
    BY <1>1, AtRest
  <1>3. Running \in Job /\ Running.running /\ Running.type = "start"
    BY Zenon, <1>1, <1>2 DEF Running, Job
  <1>4. CASE job' \in {JobDone(job), NoJob} /\ UNCHANGED <<s, call>>
    BY <1>1, <1>2, <1>4, JobDoneType, NoJobType, NotRunningOK
  <1>5. CASE /\ ActiveState(s.state) = "activating" /\ s.state # "auto-restart"
             /\ job' = Running /\ UNCHANGED <<s, call>>
    <2>1. s.state \in Starting
      BY <1>2, <1>5, ActiveStates DEF State
    <2>2. Awaited(s.state, Running)
      BY <1>3, <2>1 DEF Awaited
    <2> QED
      BY <1>1, <1>2, <1>3, <1>5, <2>2, StillOK
  <1>6. CASE job' = Running /\ call' = Dead("start-limit-hit", FALSE) /\ s' = s
    <2>1. /\ call' \in Call /\ Due(s.state, call', Running)
          /\ call'.fn \notin Resting \cup {"restart"}
      BY Zenon, <1>3, <1>6, StopCalls, Results
    <2> QED
      BY Zenon, <1>2, <1>3, <1>6, <2>1, DueOK
  <1>7. CASE /\ s.state \in {"dead", "failed"} /\ job' = Running
             /\ s' = [s EXCEPT !.result = "success", !.known = FALSE,
                               !.alien = FALSE, !.forbid = FALSE,
                               !.notify = "unknown", !.exit = "none"]
             /\ call' = Enter("condition", "success")
    <2>1. s \in Service /\ s.main = "none"
      BY <1>2, <1>7 DEF Base, Tracked, MainStates, Stopping, StopStates, FinalStates
    <2>2. PICK x : x = [s EXCEPT !.result = "success", !.known = FALSE,
                                 !.alien = FALSE]
      OBVIOUS
    <2>3. /\ x \in Service /\ x.state = s.state /\ x.main = s.main
          /\ x.ccmd = s.ccmd /\ x.execfd = s.execfd
      BY ZenonT(60), <2>1, <2>2 DEF Service, Result, ExitResult
    <2>4. PICK y : y = [x EXCEPT !.forbid = FALSE, !.notify = "unknown",
                                 !.exit = "none"]
      OBVIOUS
    <2>5. /\ y \in Service /\ y.state = x.state /\ y.main = x.main
          /\ y.ccmd = x.ccmd /\ y.execfd = x.execfd
      BY Zenon, <2>3, <2>4 DEF Service
    <2>6. s' = y
      BY <1>7, <2>2, <2>4
    <2>7. Base(y) /\ y.state \in {"dead", "failed"}
      BY <1>2, <1>7, <2>1, <2>3, <2>5 DEF Base, Known
    <2>8. call' \in Call /\ call'.fn = "condition"
      BY <1>7, EnterCall, Results DEF Fn
    <2>9. Due(y.state, call', Running)
      BY <1>3, <2>7, <2>8 DEF Due
    <2> QED
      BY <1>3, <1>7, <2>6, <2>7, <2>8, <2>9, DueOK DEF Resting
  <1> QED
    BY Zenon, <1>4, <1>5, <1>6, <1>7 DEF service_start

LEMMA ServiceStopOK ==
    ASSUME OK(s, call, job), service_stop
    PROVE  OK(s', call', job')
  <1> DEFINE v == [s EXCEPT !.forbid = TRUE]
  <1>1. Idle /\ job.type \in {"stop", "restart"}
    BY DEF service_stop, Runs
  <1>2. Base(s) /\ job \in Job /\ Tracked(s) /\ s.state \in State
    BY <1>1, AtRest
  <1>3. Running \in Job /\ Running.type \in {"stop", "restart"}
    BY Zenon, <1>1, <1>2 DEF Running, Job
  <1>4. Base(v) /\ Tracked(v) /\ v.state = s.state
    <2>1. PICK x : x = [s EXCEPT !.forbid = TRUE]
      BY Zenon
    <2>2. s \in Service
      BY <1>2 DEF Base
    <2>3. Same(s, x)
      BY Zenon, <2>1, <2>2 DEF Service, Same, Keeps
    <2>4. Like(s, x) /\ Tracked(x)
      BY <1>2, <2>3, SameLike DEF Same, Keeps, Tracked
    <2> QED
      BY <2>1, <2>4 DEF Like
  <1> HIDE DEF v
  <1>5. CASE job' = JobDone(job) /\ UNCHANGED <<s, call>>
    BY <1>1, <1>2, <1>5, JobDoneType, NotRunningOK
  <1>6. CASE /\ s.state \in Stopping /\ s' = v /\ job' = Running /\ UNCHANGED call
    <2>1. Awaited(v.state, Running)
      BY <1>3, <1>4, <1>6 DEF Awaited
    <2> QED
      BY <1>1, <1>3, <1>4, <1>6, <2>1, StillOK
  <1>7. CASE s' = SetState(v, "dead") /\ job' = ProcessJob(Running, "dead")
             /\ UNCHANGED call
    <2>1. "dead" \in State /\ Shown(Running, "dead")
      BY <1>3 DEF State, Shown, Starting
    <2>2. OK(s', Return, job') /\ Base(s') /\ s'.state = "dead"
      BY <1>3, <1>4, <1>7, <2>1, ReachOK DEF Base
    <2>3. Tracked(s') /\ Awaited(s'.state, job') /\ job' \in Job
      BY <2>2, ReturnCall DEF OK, Resting
    <2> QED
      BY <1>1, <1>7, <2>2, <2>3, StillOK
  <1>8. ASSUME s' = v, job' = Running,
               \/ call' \in {Signal("stop-sigterm", "success"),
                             Signal("final-sigkill", "success")}
               \/ call' = Enter("stop", "success")
        PROVE  OK(s', call', job')
    <2>1. "success" \in Result /\ {"stop-sigterm", "final-sigkill"}
                                     \subseteq StopStates \cup FinalStates
      BY Results DEF StopStates, FinalStates
    <2>2. Running.running => Running.type # "none"
      BY <1>3
    <2>3. CASE call' \in {Signal("stop-sigterm", "success"),
                          Signal("final-sigkill", "success")}
      <3>1. /\ call' \in Call /\ Due(v.state, call', Running)
            /\ call'.fn \notin Resting \cup {"restart"}
        BY Zenon, <2>1, <2>2, <2>3, StopCalls
      <3> QED
        BY <1>3, <1>4, <1>8, <3>1, DueOK
    <2>4. CASE call' = Enter("stop", "success")
      <3>1. /\ call' \in Call /\ Due(v.state, call', Running)
            /\ call'.fn \notin Resting \cup {"restart"}
        BY Zenon, <2>1, <2>2, <2>4, StopCalls
      <3> QED
        BY <1>3, <1>4, <1>8, <3>1, DueOK
    <2> QED
      BY <1>8, <2>3, <2>4
  <1> QED
    BY <1>5, <1>6, <1>7, <1>8 DEF service_stop, v

LEMMA ServiceReloadOK ==
    ASSUME OK(s, call, job), service_reload
    PROVE  OK(s', call', job')
  <1>1. Idle /\ job.type = "reload" /\ s' = s
    BY DEF service_reload, Runs
  <1>2. Base(s) /\ job \in Job /\ s.state \in State
    BY <1>1, AtRest
  <1>3. CASE job' = NoJob /\ UNCHANGED call
    BY <1>1, <1>3, NoJobType, NotRunningOK
  <1>4. CASE /\ cfg.exec["reload"] > 0 /\ ActiveState(s.state) = "active"
             /\ job' = Running /\ call' = Enter("reload", "success")
    <2>1. Running \in Job /\ Running.type = "reload"
      BY Zenon, <1>1, <1>2 DEF Running, Job
    <2>2. ASSUME cfg.type # "idle"
          PROVE  s.state \in {"running", "exited"}
      <3>1. s.state \notin Starting
        BY <1>4, <2>2, StartingStates
      <3> QED
        BY <1>2, <1>4, <3>1, ActiveStates DEF State
    <2>3. call' \in Call /\ call'.fn = "reload"
      BY <1>4, EnterCall, Results DEF Fn
    <2>4. Due(s.state, call', job')
      BY <1>4, <2>1, <2>2, <2>3 DEF Due
    <2> QED
      BY <1>1, <1>2, <1>4, <2>1, <2>3, <2>4, DueOK DEF Resting
  <1> QED
    BY <1>3, <1>4 DEF service_reload

LEMMA ClientsOK ==
    ASSUME OK(s, call, job), Request \/ Cancel
    PROVE  OK(s', call', job')
  <1>1. Idle /\ s' = s /\ call' = call
    BY DEF Request, Cancel
  <1>2. job' \in Job /\ ~job'.running
    <2>1. CASE job' = NoJob
      BY <2>1, NoJobType
    <2>2. ASSUME NEW t \in JobType, job' = [type |-> t, running |-> FALSE]
          PROVE  job' \in Job /\ ~job'.running
      BY SMTT(30), <2>2 DEF Job
    <2> QED
      BY <2>1, <2>2 DEF Request, Cancel
  <1> QED
    BY <1>1, <1>2, NotRunningOK

-----------------------------------------------------------------------------
(* The handlers *)

\* A handler that only calls a function that stops.
LEMMA StopsOK ==
    ASSUME NEW v, NEW c, Base(v), job \in Job, job.running => job.type # "none",
           NEW f \in Result,
           \/ c \in {Enter("stop", f), Enter("stop_post", f), Dead(f, TRUE),
                     Dead(f, FALSE)}
           \/ \E to \in StopStates \cup FinalStates : c = Signal(to, f),
           Go(v, c)
    PROVE  OK(s', call', job')
  <1>1. c \in Call /\ Due(v.state, c, job) /\ c.fn \notin Resting \cup {"restart"}
    <2>1. CASE c \in {Enter("stop", f), Enter("stop_post", f), Dead(f, TRUE),
                      Dead(f, FALSE)}
      BY Zenon, <2>1, StopCalls
    <2>2. CASE \E to \in StopStates \cup FinalStates : c = Signal(to, f)
      BY Zenon, <2>2, StopCalls
    <2> QED
      BY Zenon, <2>1, <2>2
  <1> QED
    BY <1>1, GoDue DEF Like

\* A handler that only calls a function that goes on with a start or a reload,
\* in the state that the service is in.
LEMMA GoesOnOK ==
    ASSUME NEW v, NEW fn, Base(v), job \in Job, Awaited(v.state, job),
           NEW f \in Result,
           \/ fn \in {"start_pre", "start"} /\ v.state \in {"condition", "start-pre"}
           \/ fn = "start_post" /\ v.state = "start"
           \/ /\ fn \in {"running", "reload_by_notify", "stop_by_notify"}
              /\ v.state \notin Stopping,
           Go(v, Enter(fn, f))
    PROVE  OK(s', call', job')
  <1>1. fn \in Fn
    BY DEF Fn
  <1>2. Enter(fn, f) \in Call /\ Enter(fn, f).fn = fn
    BY <1>1, EnterCall
  <1>3. v.state \notin Stopping
    BY DEF Stopping, StopStates, FinalStates
  <1>4. /\ job.running => job.type \in {"start", "reload"}
        /\ job.running /\ job.type = "reload" => v.state = "reload"
    BY <1>3 DEF Awaited
  <1>5. Due(v.state, Enter(fn, f), job)
    BY <1>2, <1>4 DEF Due
  <1> QED
    BY <1>2, <1>5, GoDue DEF Like, Resting

\* A handler that changes what no function looks at.
LEMMA ReturnsOK ==
    ASSUME NEW v, Base(v), Tracked(v), job \in Job, Awaited(v.state, job),
           Go(v, Return)
    PROVE  OK(s', call', job')
  BY RestOK DEF Go

LEMMA Signals ==
    /\ {"stop-watchdog", "stop-sigterm", "stop-sigkill", "final-watchdog",
        "final-sigterm", "final-sigkill"} \subseteq StopStates \cup FinalStates
    /\ StopStates \cup FinalStates \cup {"stop", "stop-post"} \subseteq Stopping
  BY DEF StopStates, FinalStates, Stopping

LEMMA SignalsOK ==
    ASSUME NEW v, Base(v), job \in Job, job.running => job.type # "none",
           NEW f \in Result, NEW to \in StopStates \cup FinalStates,
           Go(v, Signal(to, f))
    PROVE  OK(s', call', job')
  BY Zenon, StopsOK

LEMMA KeepsLike ==
    ASSUME NEW v, NEW w, Base(v), Keeps(v, w), Known(w)
    PROVE  Like(v, w)
  BY DEF Base, Keeps, Like

LEMMA AdoptedTracked ==
    ASSUME NEW v, NEW w \in Adopted(v), Base(v), Tracked(v), v.state \in MainStates
    PROVE  Base(w) /\ Tracked(w) /\ w.state = v.state
  <1>1. Keeps(v, w) /\ w.main = "running" /\ w.known /\ w.control = v.control
    BY AdoptedKeeps DEF Base
  <1>2. Like(v, w)
    BY <1>1, KeepsLike DEF Known
  <1> QED
    BY <1>1, <1>2 DEF Like, Tracked, Keeps

LEMMA MainExitedOK ==
    ASSUME NEW v, NEW f \in Result, Base(v), Tracked(v), v.state \in MainStates,
           job \in Job, Awaited(v.state, job), MainExited(v, f)
    PROVE  OK(s', call', job')
  <1>1. PICK n \in 0 .. 2 : n = 0
    OBVIOUS
  <1>2. PICK w : w = [v EXCEPT !.mcmd = 0]
    BY Zenon
  <1>3. w = [v EXCEPT !.mcmd = n]
    BY <1>1, <1>2
  <1>4. /\ Like(v, w) /\ w.main = v.main /\ w.timer = v.timer
        /\ w.pidwatch = v.pidwatch /\ w.control = v.control
    BY <1>3, MainPositionLike
  <1>5. Base(w) /\ Tracked(w) /\ w.state = v.state /\ Awaited(w.state, job)
    BY <1>4 DEF Like, Tracked
  <1>6. job.running => job.type # "none"
    BY DEF Awaited
  <1>7. CASE /\ cfg.type = "oneshot" /\ HasNextMain(v)
             /\ Go(v, Enter("run_next_main", "success"))
    <2>1. call' \in Call /\ call'.fn = "run_next_main"
      BY <1>7, EnterCall, Results DEF Go, Fn
    <2>2. s' = v /\ job' = job
      BY <1>7 DEF Go
    <2> QED
      BY <1>7, <2>1, <2>2 DEF OK, Resting, NextDue
  <1>8. CASE Go(w, Return)
    BY <1>5, <1>8, ReturnsOK
  <1>9. ASSUME NEW g \in Result, NEW c \in {Enter("stop_post", g), Dead(g, TRUE)}, Go(w, c)
        PROVE  OK(s', call', job')
    BY Zenon, <1>5, <1>6, <1>9, StopsOK
  <1>10. ASSUME NEW g \in Result, NEW to \in {"stop-sigterm", "final-sigterm"},
                Go(w, Signal(to, g))
         PROVE  OK(s', call', job')
    BY <1>5, <1>6, <1>10, Signals, SignalsOK
  <1>11. CASE v.state = "start" /\ Go(w, Enter("start_post", "success"))
    BY <1>5, <1>11, GoesOnOK, Results
  <1>12. CASE v.state \in {"running", "start"} /\ Go(w, Enter("running", f))
    <2>1. w.state \notin Stopping
      BY <1>5, <1>12 DEF Stopping, StopStates, FinalStates
    <2> QED
      BY <1>5, <1>12, <2>1, GoesOnOK
  <1>13. "protocol" \in Result
    BY Results
  <1> QED
    BY Zenon, <1>2, <1>7, <1>8, <1>9, <1>10, <1>11, <1>12, <1>13 DEF MainExited

LEMMA SigchldMainOK ==
    ASSUME OK(s, call, job), SigchldMain
    PROVE  OK(s', call', job')
  <1>1. Idle /\ s.main = "exited"
    BY DEF SigchldMain, Handler
  <1>2. Base(s) /\ job \in Job /\ Tracked(s) /\ Awaited(s.state, job)
    BY <1>1, AtRest
  <1>3. s.state \in MainStates
    BY <1>1, <1>2 DEF Tracked
  <1>4. PICK o \in LoadPidFile(s), f \in ExitStatus("main") :
           IF o.r = "changed" THEN Go(o.v, Return)
           ELSE MainExited(First([Unwatch(s, "main") EXCEPT !.exit = f], f), f)
    BY DEF SigchldMain
  <1>5. CASE o.r = "changed"
    <2>1. o.v \in Adopted(s)
      BY <1>5 DEF LoadPidFile
    <2>2. Base(o.v) /\ Tracked(o.v) /\ o.v.state = s.state
      BY <1>2, <1>3, <2>1, AdoptedTracked
    <2> QED
      BY <1>2, <1>4, <1>5, <2>2, ReturnsOK
  <1>6. CASE o.r # "changed"
    <2>1. f \in ExitResult
      BY DEF ExitStatus, ExitResult
    <2>2. PICK u : u = Unwatch(s, "main")
      OBVIOUS
    <2>3. /\ Base(u) /\ u.state = s.state /\ Keeps(s, u)
          /\ u.main = "none" /\ u.control = s.control
      BY <1>2, <2>2, UnwatchMainLike DEF Like
    <2>4. PICK x : x = [u EXCEPT !.exit = f]
      BY Zenon
    <2>5. Same(u, x)
      <3>1. u \in Service
        BY <2>3 DEF Base
      <3> QED
        BY <2>1, <2>4, <3>1 DEF Same, Keeps, Service
    <2>6. PICK v : v = First(x, f)
      OBVIOUS
    <2>7. Like(u, x)
      BY <2>3, <2>5, SameLike
    <2>8. f \in Result
      BY <2>1 DEF Result
    <2>9. Like(x, v) /\ Same(x, v)
      BY <2>6, <2>7, <2>8, FirstLike DEF Like
    <2>10. Base(v) /\ v.state = s.state /\ Tracked(v)
      BY <1>2, <2>3, <2>5, <2>7, <2>9 DEF Like, Same, Keeps, Tracked
    <2>11. MainExited(v, f)
      BY <1>4, <1>6, <2>2, <2>4, <2>6
    <2> QED
      BY <1>2, <1>3, <2>8, <2>10, <2>11, MainExitedOK
  <1> QED
    BY <1>5, <1>6

LEMMA DemandFailsOK ==
    ASSUME NEW v, NEW st, Base(v), job \in Job, job.running => job.type # "none",
           Go(v, DemandFails(st))
    PROVE  OK(s', call', job')
  <1>1. CASE Go(v, Signal("stop-sigterm", "protocol"))
    BY <1>1, Signals, Results, SignalsOK
  <1>2. CASE Go(v, Enter("stop", "protocol"))
    BY Zenon, <1>2, Results, StopsOK
  <1> QED
    BY <1>1, <1>2 DEF DemandFails

LEMMA Demanded ==
    ASSUME NEW v, NEW w, NEW d \in {"no", "start", "start-post"}, Base(v),
           w = [v EXCEPT !.demanded = d]
    PROVE  Same(v, w)
  BY ZenonT(60) DEF Base, Same, Keeps, Service

LEMMA DemandPidFileOK ==
    ASSUME NEW v, Base(v), Tracked(v), v.state \in {"start", "start-post"},
           v.control = "none", job \in Job, Awaited(v.state, job),
           DemandPidFile(v)
    PROVE  OK(s', call', job')
  <1>1. job.running => job.type # "none"
    BY DEF Awaited
  <1>2. ASSUME NEW w, Base(w), Go(w, DemandFails(v.state))
        PROVE  OK(s', call', job')
    BY <1>1, <1>2, DemandFailsOK
  <1>3. ASSUME NEW o \in LoadPidFile(v),
               Go([o.v EXCEPT !.demanded = v.state], Enter("running", "success"))
        PROVE  OK(s', call', job')
    <2>1. Keeps(v, o.v) /\ Known(o.v)
      BY PidFile DEF Base
    <2>2. Base(o.v) /\ o.v.state = v.state
      BY <2>1, KeepsLike DEF Like
    <2>3. PICK w : w = [o.v EXCEPT !.demanded = v.state]
      BY Zenon
    <2>4. Base(w) /\ w.state = v.state
      BY <2>2, <2>3, Demanded, SameLike DEF Like
    <2>5. w.state \notin Stopping
      BY <2>4 DEF Stopping, StopStates, FinalStates
    <2> QED
      BY Zenon, <1>3, <2>3, <2>4, <2>5, Results, GoesOnOK
  <1>4. PICK w : w = [v EXCEPT !.pidwatch = TRUE]
    BY Zenon
  <1>5. Base(w) /\ Tracked(w) /\ w.state = v.state
    <2>1. v \in Service
      BY DEF Base
    <2>2. /\ w \in Service /\ w.state = v.state /\ w.main = v.main
          /\ w.control = v.control /\ w.known = v.known /\ w.timer = v.timer
          /\ w.ccmd = v.ccmd /\ w.execfd = v.execfd
      BY Zenon, <1>4, <2>1 DEF Service
    <2> QED
      BY <2>2 DEF Base, Known, Tracked
  <1>6. CASE Go(w, Return)
    BY <1>5, <1>6, ReturnsOK
  <1> QED
    BY Zenon, <1>2, <1>3, <1>4, <1>5, <1>6 DEF DemandPidFile

\* service_sigchld_event() goes on after service_enter_running().
LEMMA DemandReturnsOK ==
    ASSUME OK(s, call, job), DemandReturns
    PROVE  OK(s', call', job')
  <1>1. /\ Base(s) /\ job \in Job /\ Tracked(s) /\ Awaited(s.state, job)
        /\ (job.running => job.type # "none")
    BY DEF OK, Resting, DemandReturns, In, Awaited
  <1>2. PICK v : v = [s EXCEPT !.demanded = "no"]
    BY Zenon
  <1>3. Base(v) /\ Tracked(v) /\ v.state = s.state
    BY <1>1, <1>2, Demanded, SameLike DEF Like, Same, Keeps, Tracked
  <1>4. CASE Go(v, Return)
    BY <1>1, <1>3, <1>4, ReturnsOK
  <1>5. CASE Go(v, DemandFails(s.demanded))
    BY <1>1, <1>3, <1>5, DemandFailsOK
  <1> QED
    BY Zenon, <1>2, <1>4, <1>5 DEF DemandReturns

LEMMA ExtendTimeoutOK ==
    ASSUME OK(s, call, job), service_extend_timeout
    PROVE  OK(s', call', job')
  <1>1. Base(s) /\ job \in Job /\ Tracked(s) /\ Awaited(s.state, job)
    BY DEF OK, Resting, service_extend_timeout, In
  <1> QED
    BY <1>1, ReturnsOK DEF service_extend_timeout

LEMMA FunctionOK ==
    ASSUME cfg \in Config, OK(s, call, job), Function
    PROVE  OK(s', call', job')
  BY ConditionOK, StartPreOK, StartOK, StartPostOK, RunningOK, ReloadFunctionOK,
     NotifyFunctionsOK, StopFunctionsOK, SignalFunctionOK, DeadFunctionOK,
     RestartFunctionOK, RunNextControlOK, RunNextMainOK, ExtendTimeoutOK,
     DemandReturnsOK DEF Function

LEMMA ControlExitedOK ==
    ASSUME NEW v, NEW f \in Result, Base(v), Tracked(v), v.control = "none",
           ~v.pidwatch, job \in Job, Awaited(v.state, job), ControlExited(v, f)
    PROVE  OK(s', call', job')
  <1> DEFINE read == IF cfg.pidfile THEN LoadPidFile(v)
                     ELSE {[r |-> "same", v |-> w] : w \in SearchMainPid(v)}
  <1>1. job.running => job.type # "none"
    BY DEF Awaited
  <1>2. v \in Service /\ Known(v)
    BY DEF Base
  <1>3. ASSUME NEW w \in SearchMainPid(v)
        PROVE  Base(w) /\ w.state = v.state
    BY <1>2, <1>3, Search, KeepsLike DEF Like
  <1>4. ASSUME NEW o \in LoadPidFile(v)
        PROVE  Base(o.v) /\ o.v.state = v.state
    BY <1>2, <1>4, PidFile, KeepsLike DEF Like
  <1>5. ASSUME NEW o \in read
        PROVE  Base(o.v) /\ o.v.state = v.state
    BY <1>3, <1>4, <1>5
  <1>6. CASE Go(v, Return)
    BY <1>6, ReturnsOK
  <1>7. ASSUME NEW c \in {Enter("stop_post", f), Dead(f, TRUE)}, Go(v, c)
        PROVE  OK(s', call', job')
    BY Zenon, <1>1, <1>7, StopsOK
  <1>8. CASE Go(v, Dead("success", FALSE))
    BY Zenon, <1>1, <1>8, Results, StopsOK
  <1>9. ASSUME NEW to \in {"stop-sigterm", "final-sigterm"}, Go(v, Signal(to, f))
        PROVE  OK(s', call', job')
    BY <1>1, <1>9, Signals, SignalsOK
  <1>10. ASSUME v.state \in {"condition", "start-pre"}, NEW fn \in {"start_pre", "start"},
                Go(v, Enter(fn, f))
         PROVE  OK(s', call', job')
    BY <1>10, GoesOnOK
  <1>11. ASSUME v.state = "start", NEW o \in read, Go(o.v, Enter("start_post", "success"))
         PROVE  OK(s', call', job')
    <2> HIDE DEF read
    <2> QED
      BY <1>5, <1>11, Results, GoesOnOK
  <1>12. ASSUME v.state \in {"start-post", "reload"}, NEW w, Base(w), w.state = v.state,
                Go(w, Enter("running", "success"))
         PROVE  OK(s', call', job')
    <2>1. w.state \notin Stopping
      BY <1>12 DEF Stopping, StopStates, FinalStates
    <2> QED
      BY <1>12, <2>1, Results, GoesOnOK
  <1>13. ASSUME v.state \in {"start", "start-post"}, DemandPidFile(v)
         PROVE  OK(s', call', job')
    BY SMTT(30), <1>13, DemandPidFileOK
  <1>14. CASE v.state \in {"condition", "start-pre"}
    BY Zenon, <1>9, <1>10, <1>14 DEF ControlExited, StopStates, FinalStates
  <1>15. CASE v.state = "start"
    <2>1. CASE Go(v, Signal("stop-sigterm", f))
      BY <1>9, <2>1
    <2>2. ASSUME NEW o \in read,
                 \/ DemandPidFile(v)
                 \/ Go(o.v, Enter("start_post", "success"))
          PROVE  OK(s', call', job')
      BY SMTT(30), <1>11, <1>13, <1>15, <2>2
    <2> QED
      BY Zenon, <1>15, <2>1, <2>2 DEF ControlExited, StopStates, FinalStates
  <1>16. CASE v.state = "start-post"
    <2>1. CASE Go(v, Signal("stop-sigterm", f))
      BY <1>9, <2>1
    <2>2. ASSUME NEW o \in read,
                 \/ DemandPidFile(v)
                 \/ Go(o.v, Enter("running", "success"))
          PROVE  OK(s', call', job')
      <3>1. Base(o.v) /\ o.v.state = v.state
        BY ZenonT(60), <1>5
      <3> QED
        BY ZenonT(60), <1>12, <1>13, <1>16, <2>2, <3>1
    <2> QED
      BY ZenonT(60), <1>16, <2>1, <2>2 DEF ControlExited, StopStates, FinalStates
  <1>17. CASE v.state = "reload"
    <2>1. PICK o \in LoadPidFile(v) :
             \E w \in IF f # "success" THEN {v}
                      ELSE IF o.r = "error" THEN SearchMainPid(v) ELSE {o.v} :
                Go(w, Enter("running", "success"))
      BY SMTT(30), <1>17 DEF ControlExited, StopStates, FinalStates
    <2>2. PICK w \in IF f # "success" THEN {v}
                     ELSE IF o.r = "error" THEN SearchMainPid(v) ELSE {o.v} :
                Go(w, Enter("running", "success"))
      BY <2>1
    <2>3. Base(w) /\ w.state = v.state
      BY SMTT(30), <1>3, <1>4, <2>2
    <2> QED
      BY ZenonT(60), <1>12, <1>17, <2>2, <2>3
  <1>18. CASE v.state \notin {"condition", "start-pre", "start", "start-post", "reload"}
    BY Zenon, <1>6, <1>7, <1>8, <1>9, <1>18 DEF ControlExited
  <1> QED
    BY <1>14, <1>15, <1>16, <1>17, <1>18

LEMMA SigchldControlOK ==
    ASSUME cfg \in Config, Verified(cfg), OK(s, call, job), SigchldControl
    PROVE  OK(s', call', job')
  <1>1. Idle /\ s.control = "exited"
    BY DEF SigchldControl, Handler
  <1>2. Base(s) /\ job \in Job /\ Tracked(s) /\ Awaited(s.state, job)
    BY <1>1, AtRest
  <1>3. s.state \in ControlStates /\ ~s.pidwatch
    BY <1>1, <1>2 DEF Tracked
  <1>4. PICK v : v = Unwatch(s, "control")
    OBVIOUS
  <1>5. /\ Base(v) /\ v.state = s.state /\ Keeps(s, v)
        /\ v.control = "none" /\ v.main = s.main
    BY <1>2, <1>4, UnwatchControlLike DEF Like
  <1>6. PICK f \in ExitStatus("control") :
           LET w == IF s.state = "reload" THEN v ELSE First(v, f)
           IN  IF HasNextControl(s) /\ f = "success"
               THEN Go(w, Enter("run_next_control", "success"))
               ELSE ControlExited(NoControlCommand(w), f)
    BY <1>4 DEF SigchldControl
  <1>7. f \in Result
    BY DEF ExitStatus, Result, ExitResult
  <1>8. PICK w : w = IF s.state = "reload" THEN v ELSE First(v, f)
    OBVIOUS
  <1>9. Base(w) /\ Same(v, w) /\ w.state = s.state
    <2>1. Same(v, v)
      BY <1>5 DEF Same, Keeps, Base
    <2>2. Like(v, First(v, f)) /\ Same(v, First(v, f))
      BY <1>5, <1>7, FirstLike
    <2> QED
      BY <1>5, <1>8, <2>1, <2>2 DEF Like
  <1>10. Tracked(w) /\ w.control = "none" /\ ~w.pidwatch
    BY <1>2, <1>3, <1>5, <1>9 DEF Tracked, Same, Keeps
  <1>11. CASE HasNextControl(s) /\ Go(w, Enter("run_next_control", "success"))
    <2>1. call' \in Call /\ call'.fn = "run_next_control"
      BY <1>11, EnterCall, Results DEF Go, Fn
    <2>2. s' = w /\ job' = job
      BY <1>11 DEF Go
    <2>3. w.ccmd = s.ccmd /\ w.cpos = s.cpos
      BY <1>5, <1>9 DEF Same, Keeps
    <2>4. s.ccmd # "start"
      <3>1. ASSUME s.ccmd = "start" PROVE FALSE
        <4>1. cfg.type = "forking"
          BY <1>2, <3>1 DEF Base
        <4>2. cfg.exec["start"] = 1
          BY <4>1 DEF Verified
        <4>3. s.cpos \in 0 .. 2
          BY <1>2 DEF Base, Service
        <4> QED
          BY <1>11, <3>1, <4>2, <4>3 DEF HasNextControl
      <3> QED
        BY <3>1
    <2>5. HasNextControl(w)
      BY <1>11, <2>3 DEF HasNextControl
    <2> QED
      BY SMTT(30), <1>2, <1>3, <1>9, <1>10, <2>1, <2>2, <2>3, <2>4, <2>5 DEF OK, Resting, NextDue
  <1>12. CASE ControlExited(NoControlCommand(w), f)
    <2>1. PICK x : x = NoControlCommand(w)
      OBVIOUS
    <2>2. w \in Service
      BY <1>9 DEF Base
    <2>3. /\ x.state = w.state /\ x.timer = w.timer /\ x.pidwatch = w.pidwatch
          /\ x.main = w.main /\ x.control = w.control
      BY <2>1, <2>2, NoCommand
    <2>4. Base(x)
      BY <1>9, <2>1, NoCommandLike DEF Like
    <2>5. Tracked(x) /\ ~x.pidwatch
      BY <1>10, <2>3 DEF Tracked
    <2> QED
      BY <1>2, <1>7, <1>9, <1>10, <1>12, <2>1, <2>3, <2>4, <2>5, ControlExitedOK
  <1> QED
    BY <1>6, <1>8, <1>11, <1>12

\* What service_dispatch_timer() may call, in terms of the state.
LEMMA FailureModes ==
    ASSUME NEW mode \in {"terminate", "abort", "kill"}, NEW t, NEW w, NEW k, NEW c
    PROVE  FailureMode(mode, t, w, k, c) \in {Signal(t, "timeout"),
                     Signal(w, "timeout"), Signal(k, "timeout"), c}
  BY DEF FailureMode, KillOr

TimeoutStops ==
    {Enter("stop", "timeout"), Enter("stop_post", "timeout"),
     Dead("timeout", FALSE), Dead("timeout", TRUE)}
TimeoutSignals == {Signal(to, "timeout") : to \in StopStates \cup FinalStates}

LEMMA TimeoutCalls ==
    ASSUME NEW st \in TimerStates, cfg \in Config
    PROVE  \/ TimeoutCall(st) \in TimeoutStops
           \/ TimeoutCall(st) \in TimeoutSignals
           \/ TimeoutCall(st) = Signal("final-sigkill", "success")
           \/ st = "reload" /\ TimeoutCall(st) = Enter("running", "success")
           \/ st = "auto-restart" /\ TimeoutCall(st) = Enter("restart", "success")
  <1> DEFINE post == Enter("stop_post", "timeout")
             dead == Dead("timeout", FALSE)
             stop(mode) == FailureMode(mode, "stop-sigterm", "stop-watchdog",
                                       "stop-sigkill", post)
             final == FailureMode(cfg.stopmode, "final-sigterm", "final-watchdog",
                                  "final-sigkill", dead)
  <1>1. cfg.startmode \in {"terminate", "abort", "kill"}
        /\ cfg.stopmode \in {"terminate", "abort", "kill"}
    BY DEF Config
  <1>2. ASSUME NEW to \in StopStates \cup FinalStates
        PROVE  Signal(to, "timeout") \in TimeoutSignals
    BY DEF TimeoutSignals
  <1>3. post \in TimeoutStops /\ dead \in TimeoutStops
    BY DEF TimeoutStops
  <1> HIDE DEF post, dead
  <1>4. ASSUME NEW mode \in {"terminate", "abort", "kill"}
        PROVE  stop(mode) \in TimeoutStops \cup TimeoutSignals
    BY <1>2, <1>3, FailureModes, Signals
  <1>5. final \in TimeoutStops \cup TimeoutSignals
    BY <1>1, <1>2, <1>3, FailureModes, Signals
  <1>6. ASSUME NEW to \in {"stop-sigkill", "final-sigkill"}, NEW c \in TimeoutStops
        PROVE  KillOr(to, c) \in TimeoutStops \cup TimeoutSignals
    BY <1>2, Signals DEF KillOr
  <1> HIDE DEF stop, final
  <1>7. CASE st \in Starting
    <2>1. TimeoutCall(st) = stop(cfg.startmode)
      BY Zenon, <1>7 DEF TimeoutCall, Starting, stop, post
    <2> QED
      BY <1>1, <1>4, <2>1
  <1>8. CASE st = "stop"
    <2>1. TimeoutCall(st) = stop(cfg.stopmode)
      BY <1>8 DEF TimeoutCall, Starting, stop, post
    <2> QED
      BY <1>1, <1>4, <2>1
  <1>9. CASE st = "stop-post"
    <2>1. TimeoutCall(st) = final
      BY <1>9 DEF TimeoutCall, Starting, final, dead
    <2> QED
      BY <1>5, <2>1
  <1>10. CASE st = "stop-sigterm" \/ st = "stop-watchdog"
    <2>1. TimeoutCall(st) \in {Signal("stop-watchdog", "timeout"),
                               KillOr("stop-sigkill", post)}
      BY Zenon, <1>10 DEF TimeoutCall, Starting, post
    <2> QED
      BY <1>2, <1>3, <1>6, <2>1, Signals
  <1>11. CASE st = "final-sigterm" \/ st = "final-watchdog"
    <2>1. TimeoutCall(st) \in {Signal("final-watchdog", "timeout"),
                               KillOr("final-sigkill", dead)}
      BY Zenon, <1>11 DEF TimeoutCall, Starting, dead
    <2> QED
      BY <1>2, <1>3, <1>6, <2>1, Signals
  <1>12. CASE st \in {"running", "stop-sigkill", "final-sigkill"}
    BY Zenon, <1>12 DEF TimeoutCall, Starting, TimeoutStops
  <1>13. CASE st \in {"reload", "auto-restart", "cleaning"}
    BY Zenon, <1>13 DEF TimeoutCall, Starting
  <1> QED
    BY <1>7, <1>8, <1>9, <1>10, <1>11, <1>12, <1>13
       DEF TimerStates, Stopping, StopStates, FinalStates

LEMMA TimerOK ==
    ASSUME cfg \in Config, OK(s, call, job), service_dispatch_timer
    PROVE  OK(s', call', job')
  <1>1. Idle /\ s.state \in TimerStates
    BY DEF service_dispatch_timer, Handler
  <1>2. /\ Base(s) /\ job \in Job /\ Tracked(s) /\ Awaited(s.state, job)
        /\ (job.running => job.type # "none")
    BY <1>1, AtRest
  <1>3. s \in Service
    BY <1>2 DEF Base
  <1>4. PICK k \in SUBSET {"main", "control", "stray"} :
           k = IF s.state = "reload" /\ Live(s, "control")
               THEN s.killed \cup {"control"} ELSE s.killed
    BY Zenon, <1>3 DEF Service
  <1>5. PICK v : v = [s EXCEPT !.timer = FALSE, !.killed = k]
    OBVIOUS
  <1>6. Go(v, TimeoutCall(s.state))
    BY <1>4, <1>5 DEF service_dispatch_timer
  <1>7. Timed(s, v) /\ ~v.timer
    BY Zenon, <1>3, <1>5 DEF Timed, Service
  <1>8. Base(v) /\ v.state = s.state /\ Tracked(v)
    BY <1>2, <1>7, TimedLike DEF Like, Timed, Tracked
  <1>9. CASE TimeoutCall(s.state) \in TimeoutStops
    BY Zenon, <1>2, <1>6, <1>8, <1>9, StopsOK, Results DEF TimeoutStops
  <1>10. CASE TimeoutCall(s.state) \in TimeoutSignals
    BY <1>2, <1>6, <1>8, <1>10, SignalsOK, Results DEF TimeoutSignals
  <1>11. CASE TimeoutCall(s.state) = Signal("final-sigkill", "success")
    BY <1>2, <1>6, <1>8, <1>11, SignalsOK, Signals, Results
  <1>12. CASE s.state = "reload" /\ TimeoutCall(s.state) = Enter("running", "success")
    <2>1. v.state \notin Stopping
      BY <1>8, <1>12 DEF Stopping, StopStates, FinalStates
    <2> QED
      BY <1>2, <1>6, <1>8, <1>12, <2>1, GoesOnOK, Results
  <1>13. CASE s.state = "auto-restart" /\ TimeoutCall(s.state) = Enter("restart", "success")
    <2>1. ~job.running
      BY <1>2, <1>13 DEF Awaited, Stopping, StopStates, FinalStates, Starting
    <2>2. call' \in Call /\ call'.fn = "restart" /\ s' = v /\ job' = job
      BY <1>6, <1>13, EnterCall, Results DEF Go, Fn
    <2> QED
      BY <1>2, <1>8, <1>13, <2>1, <2>2 DEF OK, Resting
  <1> QED
    BY <1>1, <1>9, <1>10, <1>11, <1>12, <1>13, TimeoutCalls

\* A handler that changes only what the invariant does not look at.
LEMMA SameRest ==
    ASSUME NEW v, NEW w, Base(v), Tracked(v), Same(v, w)
    PROVE  Base(w) /\ Tracked(w) /\ w.state = v.state
  BY SameLike DEF Like, Same, Keeps, Tracked

LEMMA WatchdogOK ==
    ASSUME OK(s, call, job), service_dispatch_watchdog
    PROVE  OK(s', call', job')
  <1>1. Idle
    BY DEF service_dispatch_watchdog, Handler
  <1>2. Base(s) /\ job \in Job /\ Tracked(s) /\ (job.running => job.type # "none")
    BY <1>1, AtRest
  <1>3. PICK v : v = [s EXCEPT !.watchdog = FALSE]
    BY Zenon
  <1>4. s \in Service
    BY <1>2 DEF Base
  <1>5. Same(s, v)
    BY Zenon, <1>3, <1>4 DEF Same, Keeps, Service
  <1>6. Go(v, Signal("stop-watchdog", "watchdog"))
    BY <1>3 DEF service_dispatch_watchdog
  <1> QED
    BY <1>2, <1>5, <1>6, SameRest, SignalsOK, Signals, Results

LEMMA NotifyOK ==
    ASSUME cfg \in Config, OK(s, call, job), service_notify_message
    PROVE  OK(s', call', job')
  <1>1. Idle
    BY DEF service_notify_message, Handler
  <1>2. /\ Base(s) /\ job \in Job /\ Tracked(s) /\ Awaited(s.state, job)
        /\ (job.running => job.type # "none")
    BY <1>1, AtRest
  <1>3. s \in Service
    BY <1>2 DEF Base
  <1>4. ASSUME s.state \in {"start", "start-post", "running", "reload"},
               NEW v \in Adopted(s), Go(v, Return)
        PROVE  OK(s', call', job')
    <2>1. Base(v) /\ Tracked(v) /\ v.state = s.state
      BY <1>2, <1>4, AdoptedTracked DEF MainStates
    <2> QED
      BY <1>2, <1>4, <2>1, ReturnsOK
  <1>5. ASSUME NEW n \in {"READY", "RELOADING", "STOPPING"},
               NEW c, Go([s EXCEPT !.notify = n], c),
               \/ c = Return
               \/ s.state = "start" /\ c = Enter("start_post", "success")
               \/ /\ s.state \in {"running", "reload"}
                  /\ \E fn \in {"running", "reload_by_notify", "stop_by_notify"} :
                        c = Enter(fn, "success")
        PROVE  OK(s', call', job')
    <2>1. PICK v : v = [s EXCEPT !.notify = n]
      BY Zenon
    <2>2. Same(s, v)
      BY <1>3, <2>1 DEF Same, Keeps, Service
    <2>3. Base(v) /\ Tracked(v) /\ v.state = s.state
      BY <1>2, <2>2, SameRest
    <2>4. Go(v, c)
      BY <1>5, <2>1
    <2>5. CASE c = Return
      BY <1>2, <2>3, <2>4, <2>5, ReturnsOK
    <2>6. CASE s.state = "start" /\ c = Enter("start_post", "success")
      BY <1>2, <2>3, <2>4, <2>6, GoesOnOK, Results
    <2>7. ASSUME s.state \in {"running", "reload"},
                 NEW fn \in {"running", "reload_by_notify", "stop_by_notify"},
                 c = Enter(fn, "success")
          PROVE  OK(s', call', job')
      <3>1. v.state \notin Stopping
        BY <2>3, <2>7 DEF Stopping, StopStates, FinalStates
      <3> QED
        BY <1>2, <2>3, <2>4, <2>7, <3>1, GoesOnOK, Results
    <2> QED
      BY <1>5, <2>5, <2>6, <2>7
  <1>6. CASE Go(ResetWatchdog(s), Return)
    <2>1. Same(s, ResetWatchdog(s))
      BY <1>3, ResetWatchdogSame
    <2> QED
      BY <1>2, <1>6, <2>1, SameRest, ReturnsOK
  <1>7. CASE Go(s, Signal("stop-watchdog", "watchdog"))
    BY <1>2, <1>7, SignalsOK, Signals, Results
  <1>8. CASE Go(s, Enter("extend_timeout", "success"))
    <2>1. call' \in Call /\ call'.fn = "extend_timeout"
      BY <1>8, EnterCall, Results DEF Go, Fn
    <2>2. s' = s /\ job' = job
      BY <1>8 DEF Go
    <2> QED
      BY <1>2, <2>1, <2>2 DEF OK, Resting, NextDue
  <1> QED
    BY <1>4, <1>5, <1>6, <1>7, <1>8 DEF service_notify_message

LEMMA ExecIoOK ==
    ASSUME OK(s, call, job), service_dispatch_exec_io
    PROVE  OK(s', call', job')
  <1>1. Idle /\ s.execfd # "off"
    BY DEF service_dispatch_exec_io, Handler
  <1>2. Base(s) /\ job \in Job /\ Tracked(s) /\ Awaited(s.state, job)
    BY <1>1, AtRest
  <1>3. s \in Service /\ s.state = "start"
    BY <1>1, <1>2 DEF Base
  <1>4. ASSUME NEW x \in {"off", "cold", "hot"}, NEW c, Go([s EXCEPT !.execfd = x], c),
               c = Return \/ c = Enter("start_post", "success")
        PROVE  OK(s', call', job')
    <2>1. PICK v : v = [s EXCEPT !.execfd = x]
      BY Zenon
    <2>2. /\ v \in Service /\ v.state = s.state /\ v.main = s.main
          /\ v.control = s.control /\ v.known = s.known /\ v.timer = s.timer
          /\ v.ccmd = s.ccmd /\ v.pidwatch = s.pidwatch
      BY <1>3, <2>1 DEF Service
    <2>3. Base(v) /\ Tracked(v)
      BY <1>2, <1>3, <2>2 DEF Base, Known, Tracked
    <2>4. Go(v, c)
      BY <1>4, <2>1
    <2>5. CASE c = Return
      BY <1>2, <2>2, <2>3, <2>4, <2>5, ReturnsOK
    <2>6. CASE c = Enter("start_post", "success")
      BY <1>2, <1>3, <2>2, <2>3, <2>4, <2>6, GoesOnOK, Results
    <2> QED
      BY <1>4, <2>5, <2>6
  <1> QED
    BY <1>4 DEF service_dispatch_exec_io

LEMMA UnwatchFile ==
    ASSUME NEW v, NEW w, Base(v), w = [v EXCEPT !.pidwatch = FALSE]
    PROVE  /\ Base(w) /\ w.state = v.state
           /\ Tracked(v) => Tracked(w)
  <1>1. v \in Service
    BY DEF Base
  <1>2. /\ w \in Service /\ w.state = v.state /\ w.main = v.main
        /\ w.control = v.control /\ w.known = v.known /\ w.timer = v.timer
        /\ w.ccmd = v.ccmd /\ w.execfd = v.execfd /\ ~w.pidwatch
    BY Zenon, <1>1 DEF Service
  <1> QED
    BY <1>2 DEF Base, Known, Tracked

LEMMA InotifyOK ==
    ASSUME OK(s, call, job), service_dispatch_inotify_io
    PROVE  OK(s', call', job')
  <1>1. Idle /\ s.pidwatch
    BY DEF service_dispatch_inotify_io, Handler
  <1>2. /\ Base(s) /\ job \in Job /\ Tracked(s) /\ Awaited(s.state, job)
        /\ (job.running => job.type # "none")
    BY <1>1, AtRest
  <1>3. s.state \in {"start", "start-post"}
    BY <1>1, <1>2 DEF Tracked
  <1>4. CASE Go([s EXCEPT !.pidwatch = FALSE], Signal("stop-sigterm", "resources"))
    <2>1. PICK v : v = [s EXCEPT !.pidwatch = FALSE]
      BY Zenon
    <2>2. Base(v)
      BY <1>2, <2>1, UnwatchFile
    <2> QED
      BY <1>2, <1>4, <2>1, <2>2, SignalsOK, Signals, Results
  <1>5. CASE Go(s, Return)
    BY <1>2, <1>5, ReturnsOK
  <1>6. ASSUME NEW o \in LoadPidFile(s),
               Go([o.v EXCEPT !.pidwatch = FALSE], Enter("running", "success"))
        PROVE  OK(s', call', job')
    <2>1. Keeps(s, o.v) /\ Known(o.v)
      BY <1>2, PidFile DEF Base
    <2>2. Base(o.v) /\ o.v.state = s.state
      BY <1>2, <2>1, KeepsLike DEF Like
    <2>3. PICK v : v = [o.v EXCEPT !.pidwatch = FALSE]
      BY Zenon
    <2>4. Base(v) /\ v.state = s.state
      BY <2>2, <2>3, UnwatchFile
    <2>5. v.state \notin Stopping
      BY <1>3, <2>4 DEF Stopping, StopStates, FinalStates
    <2> QED
      BY Zenon, <1>2, <1>6, <2>3, <2>4, <2>5, GoesOnOK, Results
  <1> QED
    BY Zenon, <1>4, <1>5, <1>6 DEF service_dispatch_inotify_io

LEMMA BusNameOK ==
    ASSUME OK(s, call, job), service_bus_name_owner_change
    PROVE  OK(s', call', job')
  <1>1. Idle
    BY DEF service_bus_name_owner_change, Handler
  <1>2. Base(s) /\ job \in Job /\ Tracked(s) /\ Awaited(s.state, job)
    BY <1>1, AtRest
  <1>3. s \in Service
    BY <1>2 DEF Base
  <1>4. PICK owned \in {TRUE, ~s.busname} :
           LET v == [s EXCEPT !.busname = owned]
           IN  \/ Go(v, IF s.state = "running" THEN Enter("running", "success")
                        ELSE IF s.state = "start" /\ owned
                        THEN Enter("start_post", "success")
                        ELSE Return)
               \/ \E w \in {v} \cup
                           IF /\ owned /\ s.main = "none" /\ s.stray
                              /\ s.state \in {"start", "start-post", "running", "reload"}
                           THEN Adopted(v) ELSE {} : Go(w, Return)
    BY Zenon DEF service_bus_name_owner_change
  <1>5. PICK v : v = [s EXCEPT !.busname = owned]
    BY Zenon
  <1>6. Same(s, v)
    <2>1. owned \in BOOLEAN
      BY Zenon, <1>4
    <2> QED
      BY ZenonT(60), <1>3, <1>5, <2>1 DEF Same, Keeps, Service
  <1>7. Base(v) /\ Tracked(v) /\ v.state = s.state
    BY <1>2, <1>6, SameRest
  <1>8. CASE s.state = "running" /\ Go(v, Enter("running", "success"))
    <2>1. v.state \notin Stopping
      BY <1>7, <1>8 DEF Stopping, StopStates, FinalStates
    <2> QED
      BY <1>2, <1>7, <1>8, <2>1, GoesOnOK, Results
  <1>9. CASE Go(v, Return)
    BY <1>2, <1>7, <1>9, ReturnsOK
  <1>10. CASE s.state = "start" /\ Go(v, Enter("start_post", "success"))
    BY <1>2, <1>7, <1>10, GoesOnOK, Results
  <1>11. ASSUME s.state \in {"start", "start-post", "running", "reload"},
                NEW w \in Adopted(v), Go(w, Return)
         PROVE  OK(s', call', job')
    <2>1. Base(w) /\ Tracked(w) /\ w.state = v.state
      BY <1>7, <1>11, AdoptedTracked DEF MainStates
    <2> QED
      BY <1>2, <1>7, <1>11, <2>1, ReturnsOK
  <1> QED
    BY Zenon, <1>4, <1>5, <1>8, <1>9, <1>10, <1>11

LEMMA CgroupEmptyOK ==
    ASSUME OK(s, call, job), service_notify_cgroup_empty_event
    PROVE  OK(s', call', job')
  <1>1. Idle
    BY DEF service_notify_cgroup_empty_event
  <1>2. /\ Base(s) /\ job \in Job /\ Tracked(s) /\ Awaited(s.state, job)
        /\ (job.running => job.type # "none")
    BY <1>1, AtRest
  <1>3. PICK x : x = [s EXCEPT !.pidwatch = FALSE]
    BY Zenon
  <1>4. PICK v : v \in {s, x} /\ s' = v
    BY <1>3 DEF service_notify_cgroup_empty_event
  <1>5. Base(v) /\ Tracked(v) /\ v.state = s.state
    BY <1>2, <1>3, <1>4, UnwatchFile
  <1>6. job' = job
    BY DEF service_notify_cgroup_empty_event
  <1>7. \/ call' \in {Enter("stop_post", "protocol"), Enter("stop", "protocol")}
        \/ call' \in {Enter("stop_post", "success"), Dead("success", TRUE)}
        \/ s.state = "running" /\ call' = Enter("running", "success")
        \/ call' = Return
    BY Zenon DEF service_notify_cgroup_empty_event
  <1>8. Go(v, call')
    BY <1>4, <1>6 DEF Go
  <1>9. CASE call' \in {Enter("stop_post", "protocol"), Enter("stop", "protocol")}
    BY Zenon, <1>2, <1>5, <1>8, <1>9, StopsOK, Results
  <1>10. CASE call' \in {Enter("stop_post", "success"), Dead("success", TRUE)}
    BY Zenon, <1>2, <1>5, <1>8, <1>10, StopsOK, Results
  <1>11. CASE s.state = "running" /\ call' = Enter("running", "success")
    <2>1. v.state \notin Stopping
      BY <1>5, <1>11 DEF Stopping, StopStates, FinalStates
    <2>2. Go(v, Enter("running", "success"))
      BY <1>8, <1>11
    <2> QED
      BY <1>2, <1>5, <2>1, <2>2, GoesOnOK, Results
  <1>12. CASE call' = Return
    BY <1>2, <1>5, <1>8, <1>12, ReturnsOK
  <1> QED
    BY Zenon, <1>7, <1>9, <1>10, <1>11, <1>12

LEMMA OomOK ==
    ASSUME OK(s, call, job), service_notify_cgroup_oom_event
    PROVE  OK(s', call', job')
  <1>1. Idle
    BY DEF service_notify_cgroup_oom_event, Handler
  <1>2. /\ Base(s) /\ job \in Job /\ Tracked(s) /\ Awaited(s.state, job)
        /\ (job.running => job.type # "none")
    BY <1>1, AtRest
  <1>3. ASSUME NEW to \in {"stop-sigterm", "stop-sigkill", "final-sigkill"},
               Go(s, Signal(to, "oom-kill"))
        PROVE  OK(s', call', job')
    BY <1>2, <1>3, SignalsOK, Signals, Results
  <1>4. CASE Go(s, Enter("stop", "oom-kill"))
    BY Zenon, <1>2, <1>4, StopsOK, Results
  <1>5. CASE Go(First(s, "oom-kill"), Return)
    <2>1. Same(s, First(s, "oom-kill"))
      BY <1>2, FirstLike, Results
    <2> QED
      BY <1>2, <1>5, <2>1, SameRest, ReturnsOK
  <1> QED
    BY <1>3, <1>4, <1>5 DEF service_notify_cgroup_oom_event

LEMMA ResetFailedOK ==
    ASSUME OK(s, call, job), service_reset_failed
    PROVE  OK(s', call', job')
  <1>1. Idle
    BY DEF service_reset_failed, Handler
  <1>2. Base(s) /\ job \in Job /\ Tracked(s) /\ Awaited(s.state, job)
    BY <1>1, AtRest
  <1>3. PICK v : v = [s EXCEPT !.result = "success"]
    BY Zenon
  <1>4. s \in Service
    BY <1>2 DEF Base
  <1>5. Same(s, v)
    BY <1>3, <1>4, Results DEF Same, Keeps, Service
  <1>6. Base(v) /\ Tracked(v) /\ v.state = s.state
    BY <1>2, <1>5, SameRest
  <1>7. CASE s.state = "failed" /\ Reach(v, "dead")
    <2>1. "dead" \in State /\ Shown(job, "dead")
      BY <1>2 DEF State, Shown, Starting, Awaited
    <2> QED
      BY <1>2, <1>6, <1>7, <2>1, ReachState
  <1>8. CASE Go(v, Return)
    BY <1>2, <1>6, <1>8, ReturnsOK
  <1> QED
    BY <1>3, <1>7, <1>8 DEF service_reset_failed

LEMMA CleanOK ==
    ASSUME OK(s, call, job), service_clean
    PROVE  OK(s', call', job')
  <1>1. Idle /\ job = NoJob
    BY DEF service_clean
  <1>2. Base(s) /\ job \in Job
    BY <1>1, AtRest
  <1>3. PICK u : u = Armed(NoControlCommand(Unwatch(s, "control")), "clean")
    OBVIOUS
  <1>4. Base(u)
    <2>1. Base(Unwatch(s, "control"))
      BY <1>2, UnwatchControlLike DEF Like
    <2>2. Base(NoControlCommand(Unwatch(s, "control")))
      BY <2>1, NoCommandLike DEF Like
    <2> QED
      BY <1>3, <2>2, ArmedLike DEF Like
  <1>5. PICK v : v = [u EXCEPT !.control = "running"]
    BY Zenon
  <1>6. Base(v)
    BY <1>4, <1>5, ControlRuns DEF Like
  <1>7. "cleaning" \in State /\ Shown(job, "cleaning")
    BY <1>1, NoJobType DEF State, Shown
  <1>8. Reach(v, "cleaning")
    BY <1>3, <1>5 DEF service_clean
  <1> QED
    BY <1>2, <1>6, <1>7, <1>8, ReachState

LEMMA DaemonReloadOK ==
    ASSUME cfg \in Config, OK(s, call, job), Reload
    PROVE  OK(s', call', job')
  <1>1. Idle /\ call' = call /\ job' = job
    BY DEF Reload
  <1>2. /\ Base(s) /\ job \in Job /\ Tracked(s) /\ Awaited(s.state, job)
        /\ s.state \in State
    BY <1>1, AtRest
  <1>3. s \in Service
    BY <1>2 DEF Base
  <1>4. PICK e \in {"off", "cold", "hot"} : e = IF s.execfd = "hot" THEN "cold" ELSE s.execfd
    BY <1>3 DEF Service
  <1>5. PICK g \in BOOLEAN : g = (cfg.watchdog /\ s.state \in WatchdogStates)
    BY Zenon
  <1>6. PICK v : v = [s EXCEPT !.notify = "unknown", !.pidwatch = FALSE,
                               !.execfd = e, !.watchdog = g]
    OBVIOUS
  <1>7. /\ v \in Service /\ v.state = s.state /\ v.main = s.main
        /\ v.control = s.control /\ v.known = s.known /\ v.timer = s.timer
        /\ v.ccmd = s.ccmd /\ v.execfd = e /\ ~v.pidwatch
    BY Zenon, <1>3, <1>6 DEF Service
  <1>8. Base(v) /\ Tracked(v)
    BY <1>2, <1>4, <1>7 DEF Base, Known, Tracked
  <1>9. s' = v \/ s' = SetState(Armed(v, ColdplugTimeout(s.state)), s.state)
    BY <1>4, <1>5, <1>6 DEF Reload
  <1>10. CASE s' = v
    BY <1>1, <1>2, <1>7, <1>8, <1>10, StillOK
  <1>11. CASE s' = SetState(Armed(v, ColdplugTimeout(s.state)), s.state)
    <2>1. PICK w : w = Armed(v, ColdplugTimeout(s.state))
      OBVIOUS
    <2>2. Base(w)
      BY <1>8, <2>1, ArmedLike DEF Like
    <2>3. PICK x : x = SetState(w, s.state)
      OBVIOUS
    <2>4. /\ x \in Service /\ x.state = s.state
          /\ Tracked(x) /\ Known(x)
          /\ x.ccmd \in {w.ccmd, "none"}
          /\ x.execfd # "off" => s.state = "start"
      BY <1>2, <2>2, <2>3, SetStateOK DEF Base
    <2>5. Base(x)
      BY <2>2, <2>4 DEF Base
    <2> QED
      BY <1>1, <1>2, <1>11, <2>1, <2>3, <2>4, <2>5, StillOK
  <1> QED
    BY <1>9, <1>10, <1>11

LEMMA EventOK ==
    ASSUME cfg \in Config, Verified(cfg), OK(s, call, job), Event
    PROVE  OK(s', call', job')
  BY SigchldMainOK, SigchldControlOK, TimerOK, WatchdogOK, NotifyOK, ExecIoOK,
     InotifyOK, BusNameOK, CgroupEmptyOK, OomOK, ResetFailedOK, CleanOK,
     DaemonReloadOK DEF Event, CgroupEvent

-----------------------------------------------------------------------------
(* The processes *)

LEMMA SameOK ==
    ASSUME NEW v, Same(s, v), OK(s, call, job)
    PROVE  OK(v, call, job)
  <1>1. Base(v) /\ v.state = s.state
    BY SameLike DEF OK, Like
  <1>2. Tracked(s) => Tracked(v)
    BY DEF Same, Keeps, Tracked
  <1>3. NextDue(s, call) => NextDue(v, call)
    BY DEF Same, Keeps, NextDue, HasNextControl, HasNextMain
  <1> QED
    BY <1>1, <1>2, <1>3 DEF OK

LEMMA ProcessesOK ==
    ASSUME OK(s, call, job), Processes
    PROVE  OK(s', call', job')
  <1>1. Base(s) /\ s \in Service
    BY DEF OK, Base
  <1>2. call' = call /\ job' = job
    BY DEF Processes, Fork, StrayExits, Exit, ProcessesAct
  <1>3. ASSUME NEW b \in BOOLEAN, s' = [s EXCEPT !.stray = b, !.killed = @ \ {"stray"}]
        PROVE  OK(s', call', job')
    <2>1. PICK k \in SUBSET {"main", "control", "stray"} : k = s.killed \ {"stray"}
      BY Zenon, <1>1 DEF Service
    <2>2. PICK v : v = [s EXCEPT !.stray = b, !.killed = k]
      OBVIOUS
    <2>3. Same(s, v)
      BY Zenon, <1>1, <2>2 DEF Same, Keeps, Service
    <2>4. s' = v
      BY <1>3, <2>1, <2>2
    <2> QED
      BY <1>2, <2>3, <2>4, SameOK
  <1>4. CASE Exit("main")
    <2>1. PICK v : v = [s EXCEPT !.main = "exited"]
      BY Zenon
    <2>2. Keeps(s, v) /\ v.main = "exited" /\ v.control = s.control /\ v.known = s.known
      BY <1>1, <2>1 DEF Keeps, Service, Process
    <2>3. s.main = "running" /\ s' = v
      BY Zenon, <1>4, <2>1 DEF Exit, Live, ProcessesAct
    <2>4. Base(v) /\ v.state = s.state
      BY <1>1, <2>2, <2>3, KeepsLike DEF Like, Base, Known
    <2>5. (Tracked(s) => Tracked(v)) /\ (NextDue(s, call) => NextDue(v, call))
      BY <2>2, <2>3 DEF Keeps, Tracked, NextDue, HasNextControl, HasNextMain
    <2> QED
      BY <1>2, <2>3, <2>4, <2>5 DEF OK
  <1>5. CASE Exit("control")
    <2>1. PICK v : v = [s EXCEPT !.control = "exited"]
      BY Zenon
    <2>2. Keeps(s, v) /\ v.control = "exited" /\ v.main = s.main /\ v.known = s.known
      BY <1>1, <2>1 DEF Keeps, Service, Process
    <2>3. s.control = "running" /\ s' = v
      BY Zenon, <1>5, <2>1 DEF Exit, Live, ProcessesAct
    <2>4. Base(v) /\ v.state = s.state
      BY <1>1, <2>2, <2>3, KeepsLike DEF Like, Base, Known
    <2>5. (Tracked(s) => Tracked(v)) /\ (NextDue(s, call) => NextDue(v, call))
      BY SMTT(30), <2>2, <2>3 DEF Keeps, Tracked, NextDue, HasNextControl, HasNextMain
    <2> QED
      BY <1>2, <2>3, <2>4, <2>5 DEF OK
  <1>6. CASE Fork
    BY ZenonT(60), <1>3, <1>6 DEF Fork, ProcessesAct
  <1>7. CASE StrayExits
    BY Zenon, <1>3, <1>7 DEF StrayExits, ProcessesAct
  <1> QED
    BY <1>4, <1>5, <1>6, <1>7 DEF Processes

-----------------------------------------------------------------------------
LEMMA Inductive == Spec => []IInv
  <1>1. Init => IInv
    <2> SUFFICES ASSUME Init PROVE IInv
      OBVIOUS
    <2>1. s \in Service
      <3>1. "dead" \in State /\ "success" \in Result /\ "none" \in Process
        BY Results DEF State, Process
      <3>2. 0 \in 0 .. 2 /\ {} \in SUBSET {"main", "control", "stray"}
        OBVIOUS
      <3> QED
        BY <3>1, <3>2 DEF Init, Service
    <2>2. /\ s.main = "none" /\ s.control = "none" /\ ~s.timer
          /\ ~s.pidwatch /\ s.ccmd = "none" /\ s.execfd = "off"
      BY DEF Init
    <2>3. Base(s) /\ Tracked(s)
      BY <2>1, <2>2 DEF Base, Known, Tracked
    <2>4. Awaited(s.state, job) /\ job \in Job
      BY SMTT(30), NoJobType DEF Init, Awaited
    <2> QED
      BY <2>3, <2>4, RestOK DEF Init, IInv
  <1>2. IInv /\ [Next]_vars => IInv'
    <2> SUFFICES ASSUME IInv, [Next]_vars PROVE IInv'
      OBVIOUS
    <2>1. cfg \in Configs /\ cfg \in Config /\ Verified(cfg) /\ OK(s, call, job)
      BY ConfigsAssumption DEF IInv
    <2>2. cfg' = cfg
      <3>1. CASE Next
        BY Zenon, <3>1 DEF Next, Function, RunJob, Event, Processes, Request, Cancel,
             service_enter_condition, service_enter_start_pre, service_enter_start,
             service_enter_start_post, service_enter_running, service_enter_reload,
             service_enter_reload_by_notify, service_enter_stop_by_notify,
             service_enter_stop, service_enter_stop_post, service_enter_signal,
             service_enter_dead, service_enter_restart, service_run_next_control,
             service_run_next_main, service_extend_timeout, DemandReturns, In,
             service_start, service_stop, service_reload,
             SigchldMain, SigchldControl, service_dispatch_timer,
             service_dispatch_watchdog, service_notify_message,
             service_dispatch_exec_io, service_dispatch_inotify_io,
             service_bus_name_owner_change, service_notify_cgroup_empty_event,
             service_notify_cgroup_oom_event, service_reset_failed, service_clean,
             Reload, CgroupEvent, Handler, Fork, StrayExits, Exit, ProcessesAct
      <3>2. CASE UNCHANGED vars
        BY <3>2 DEF vars
      <3> QED
        BY SMTT(30), <3>1, <3>2
    <2>3. OK(s', call', job')
      <3>1. CASE Function
        BY <2>1, <3>1, FunctionOK
      <3>2. CASE RunJob
        BY <2>1, <3>2, ServiceStartOK, ServiceStopOK, ServiceReloadOK DEF RunJob
      <3>3. CASE Event
        BY <2>1, <3>3, EventOK
      <3>4. CASE Request \/ Cancel
        BY <2>1, <3>4, ClientsOK
      <3>5. CASE Processes
        BY <2>1, <3>5, ProcessesOK
      <3>6. CASE UNCHANGED vars
        BY <2>1, <3>6 DEF vars
      <3> QED
        BY <3>1, <3>2, <3>3, <3>4, <3>5, <3>6 DEF Next
    <2> QED
      BY Zenon, <2>1, <2>2, <2>3 DEF IInv, OK, Base, Due, NextDue, HasNextControl, HasNextMain
  <1> QED
    BY <1>1, <1>2, PTL DEF Spec

\* Whatever the unit file says, as long as service_verify() accepts it, and
\* whatever the processes do: the handlers of service.c find the state that
\* their assertions and their default branches name.  The assertion of
\* service_reload() is proved for every Type= but idle, where it can fail.
THEOREM RightTimeHolds == Spec => []RightTime
  <1>1. IInv => RightTime
    <2> SUFFICES ASSUME IInv PROVE RightTime
      OBVIOUS
    <2>1. OK(s, call, job)
      BY DEF IInv
    <2>2. Idle => Tracked(s) /\ Known(s)
      BY <2>1 DEF OK, Idle, Resting, Base
    <2>3. call.fn \in {"reload", "start"} => Due(s.state, call, job) /\ Base(s)
      BY <2>1 DEF OK, Resting
    <2>4. call.fn \in {"run_next_control", "run_next_main"} => NextDue(s, call)
      BY <2>1 DEF OK, Resting
    <2> QED
      BY <2>2, <2>3, <2>4 DEF RightTime, Tracked, Known, Due, NextDue, Base
  <1> QED
    BY <1>1, Inductive, PTL

\* unit_notify() ends the job in the step in which the service comes to rest,
\* for every unit file.
THEOREM JobAwaitedHolds == Spec => []JobAwaited
  <1>1. IInv => JobAwaited
    <2> SUFFICES ASSUME IInv, Idle, job.running
                 PROVE  s.state \in Stopping \cup (CASE job.type = "start" -> Starting
                                                     [] job.type = "reload" -> {"reload"}
                                                     [] OTHER -> {})
      BY DEF JobAwaited
    <2>1. Awaited(s.state, job)
      BY AtRest DEF IInv
    <2> QED
      BY <2>1 DEF Awaited
  <1> QED
    BY <1>1, Inductive, PTL

\* The variables IInv says nothing of.
Loose == /\ cgroup \in [event : BOOLEAN, queued : BOOLEAN]
         /\ stopped \in BOOLEAN
         /\ requests \in 0 .. MaxRequests

LEMMA LooseKept ==
    ASSUME Loose, [Next]_vars
    PROVE  Loose'
  <1>1. Observe \/ UNCHANGED cgroup => cgroup' \in [event : BOOLEAN, queued : BOOLEAN]
    BY Zenon DEF Loose, Observe
  <1>2. CASE Function
    <2>1. Observe /\ UNCHANGED <<stopped, requests>>
      BY Zenon, <1>2 DEF Function, service_enter_condition, service_enter_start_pre,
           service_enter_start, service_enter_start_post, service_enter_running,
           service_enter_reload, service_enter_reload_by_notify, service_enter_stop_by_notify,
           service_enter_stop, service_enter_stop_post, service_enter_signal,
           service_enter_dead, service_enter_restart, service_run_next_control,
           service_run_next_main, service_extend_timeout, DemandReturns, In
    <2> QED
      BY <1>1, <2>1 DEF Loose
  <1>3. CASE RunJob
    <2>1. UNCHANGED <<cgroup, requests>> /\ stopped' \in {stopped, TRUE, FALSE}
      BY Zenon, <1>3 DEF RunJob, service_start, service_stop, service_reload
    <2> QED
      BY Zenon, <2>1 DEF Loose
  <1>4. CASE Event
    <2>1. /\ UNCHANGED <<stopped, requests>>
          /\ \/ Observe \/ UNCHANGED cgroup \/ cgroup' = [cgroup EXCEPT !.queued = FALSE]
             \/ \E q \in BOOLEAN : cgroup' = [event |-> FALSE, queued |-> q]
      <3>1. CASE CgroupEvent
        BY Zenon, <3>1 DEF CgroupEvent
      <3>2. CASE Reload
        BY Zenon, <3>2 DEF Reload
      <3>3. CASE service_notify_cgroup_empty_event
        BY <3>3 DEF service_notify_cgroup_empty_event
      <3>4. CASE service_clean
        BY <3>4 DEF service_clean
      <3> QED
        BY <1>4, <3>1, <3>2, <3>3, <3>4 DEF Event, SigchldMain, SigchldControl,
           service_dispatch_timer, service_dispatch_watchdog, service_notify_message,
           service_dispatch_exec_io, service_dispatch_inotify_io,
           service_bus_name_owner_change, service_notify_cgroup_oom_event,
           service_reset_failed, Handler
    <2>2. /\ [cgroup EXCEPT !.queued = FALSE] \in [event : BOOLEAN, queued : BOOLEAN]
          /\ \A q \in BOOLEAN : [event |-> FALSE, queued |-> q] \in [event : BOOLEAN, queued : BOOLEAN]
      BY Zenon DEF Loose
    <2>3. cgroup' \in [event : BOOLEAN, queued : BOOLEAN]
      BY Zenon, <1>1, <2>1, <2>2
    <2> QED
      BY <2>1, <2>3 DEF Loose
  <1>5. CASE Request
    BY <1>5, MaxRequestsAssumption DEF Request, Loose
  <1>6. CASE Cancel
    BY <1>6 DEF Cancel, Loose
  <1>7. CASE Processes
    <2>1. Observe /\ UNCHANGED <<stopped, requests>>
      BY <1>7 DEF Processes, Fork, StrayExits, Exit, ProcessesAct
    <2> QED
      BY <1>1, <2>1 DEF Loose
  <1>8. CASE UNCHANGED vars
    BY <1>8 DEF vars, Loose
  <1> QED
    BY <1>2, <1>3, <1>4, <1>5, <1>6, <1>7, <1>8 DEF Next

\* What service.c keeps of a service stays what its fields are for, for every
\* unit file: a state, a result, the commands of the lists that exist, and
\* arguments its functions are called with.
THEOREM TypesKept == Spec => []TypeOK
  <1>1. Init => Loose
    <2>1. 0 \in 0 .. MaxRequests
      BY MaxRequestsAssumption
    <2>2. [event |-> FALSE, queued |-> FALSE] \in [event : BOOLEAN, queued : BOOLEAN]
      OBVIOUS
    <2> QED
      BY Zenon, <2>1, <2>2 DEF Init, Loose
  <1>2. Loose /\ [Next]_vars => Loose'
    BY LooseKept
  <1>3. IInv /\ Loose => TypeOK
    BY DEF IInv, OK, Base, Loose, TypeOK
  <1> QED
    BY <1>1, <1>2, <1>3, Inductive, PTL DEF Spec
=============================================================================
