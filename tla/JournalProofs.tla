--------------------------- MODULE JournalProofs ---------------------------
(***************************************************************************)
(* Theorems about JournalOffline, for any number of files and of objects per *)
(* entry: a file that is marked clean on disk is complete, the files       *)
(* implement DurableJournal, a file is closed only once its offline thread *)
(* is gone and its mark is on disk, and a thread is joined only while there *)
(* is one.                                                                 *)
(*                                                                         *)
(* The inductive invariant has two parts.  Protocol relates the state of an *)
(* offline thread, what the main thread is doing with the file, the mark and *)
(* the entries.  Handlers says that what the main thread still has to do   *)
(* concerns files that are in use, so that a thread never works on a file  *)
(* that was closed and a file is not closed under its thread.              *)
(***************************************************************************)
EXTENDS JournalOffline, TLAPS

InUse(f) == place[f] \in {"open", "deferred"}

Writing == {"mark_online", "sync_online", "append"}

\* One file and its thread.
FileOK(f) ==
    /\ pending[f] => header[f] = "online" /\ disk[f] = "online" /\ place[f] # "free"
    /\ lost[f] => header[f] = "online" /\ disk[f] = "online"
    /\ lost[f] => ~InUse(f) /\ place[f] # "free"
    /\ place[f] = "free" => header[f] = "offline" /\ disk[f] = "offline"
    /\ InUse(f) /\ header[f] = "online" =>
         disk[f] = "online" \/ (call.fn = "sync_online" /\ call.f = f)
    /\ disk[f] = "archived" => header[f] = "archived"
    /\ header[f] = "archived" => archive[f]
    /\ ~InUse(f) => thread[f] = "none"
    /\ offline[f] = "joined" => thread[f] = "none"
    /\ thread[f] = "swap" /\ offline[f] = "syncing" => ~pending[f]
    /\ thread[f] \in {"mark", "commit"} =>
         /\ ~pending[f]
         /\ \/ offline[f] \in {"offlining", "again_from_offlining"}
            \/ offline[f] = "cancel" /\ call.fn = "join" /\ call.f = f

\* What the main thread knows of the file inside a function.
CallOK ==
    call.fn # "idle" =>
        /\ call.f \in File /\ InUse(call.f)
        /\ call.fn \in Writing => offline[call.f] \in {"joined", "cancel", "done"}
        /\ call.fn = "sync_online" => header[call.f] = "online"
        /\ call.fn = "append" => header[call.f] = "online" /\ disk[call.f] = "online"
        /\ call.fn = "begin" => offline[call.f] = "joined"

\* The frames that work on a file in use.
Closing == {"close", "tag", "stop", "closed"}
Using == Closing \cup {"opened", "created", "defer", "sync"}
Opener == {"find", "open", "create", "reopen", "dispose"}
Calling == {"opened", "created", "append_first", "append", "tag", "stop", "sync", "defer"}

FrameOK(x) ==
    /\ x.op \in Using => x.f \in File /\ InUse(x.f)
    /\ x.op \in Closing \cup {"defer"} => x.f # journal
    /\ x.op = "reopen" => x.f \in File /\ place[x.f] \in {"closed", "left"}
    /\ x.op = "dispose" => x.f \in File

\* x is done before y.
Before(x, y) ==
    /\ x.op \in {"opened", "created", "defer", "close", "closed"} /\ y.op \in Using => x.f # y.f
    /\ x.op \in Opener \cup {"opened", "process", "process_all"} /\ y.op \in Using =>
          place[y.f] = "open"
    /\ x.op \in {"rotate", "append", "append_first"} => y.op \notin Using
    /\ y.op = "reopen" => x.op \in Closing \cup {"process_all"}

Handlers ==
    /\ \A i \in 1 .. Len(todo) : FrameOK(todo[i])
    /\ \A i, j \in 1 .. Len(todo) : i < j => Before(todo[i], todo[j])
    /\ \A i \in 1 .. Len(todo) : todo[i].op = "closed" =>
         IF i = 1 THEN call.fn = "idle" /\ thread[todo[1].f] = "none"
                  ELSE todo[i - 1].op = "stop" /\ todo[i - 1].f = todo[i].f

Caller ==
    call.fn # "idle" =>
        /\ todo # <<>>
        /\ todo[1].op \in Calling
        /\ todo[1].op \in Using => todo[1].f = call.f
        /\ todo[1].op = "stop" =>
             /\ call.wait
             /\ call.fn \in {"offline", "restart", "join", "begin", "inline"}
             /\ call.next # "mark_online"

JournalOK == journal # None => place[journal] = "open"

Protocol == (\A f \in File : FileOK(f)) /\ CallOK

IInv == TypeOK /\ Protocol /\ Handlers /\ Caller /\ JournalOK

-----------------------------------------------------------------------------
(* Frames put in place of the first one.                                   *)

LEMMA Pop ==
    ASSUME NEW s \in Seq(Frame), s # <<>>, NEW u, u = Tail(s)
    PROVE  /\ u \in Seq(Frame) /\ Len(u) = Len(s) - 1 /\ Len(s) \in Nat \ {0}
           /\ \A i \in 1 .. Len(u) : u[i] = s[i + 1]
  OBVIOUS

LEMMA Pop0 ==
    ASSUME NEW s \in Seq(Frame), s # <<>>
    PROVE  <<>> \o Tail(s) = Tail(s)
  OBVIOUS

LEMMA Push ==
    ASSUME NEW s \in Seq(Frame), s # <<>>, NEW p \in Seq(Frame), NEW u, u = p \o Tail(s)
    PROVE  /\ u \in Seq(Frame) /\ Len(u) = Len(p) + Len(s) - 1
           /\ Len(s) \in Nat \ {0} /\ Len(p) \in Nat
           /\ \A i \in 1 .. Len(p) : u[i] = p[i]
           /\ \A i \in Len(p) + 1 .. Len(u) : u[i] = s[i - Len(p) + 1]
  OBVIOUS

LEMMA FrameTyped ==
    ASSUME NEW op \in Op
    PROVE  /\ Do(op) \in Frame /\ Process(op) \in Frame
           /\ \A f \in File \cup {None} : DoOn(op, f) \in Frame
  BY DEF Frame, Do, DoOn, Process

-----------------------------------------------------------------------------
(* The offline thread and the environment.                                 *)

LEMMA InitOK ==
    ASSUME Init
    PROVE  IInv
  <1>1. TypeOK
    BY MaxObjectsAssumption
    DEF Init, TypeOK, OfflineState, ThreadState, HeaderState, Place, Call, Idle, Fn
  <1>2. Protocol
    BY DEF Init, Protocol, FileOK, CallOK, Idle, InUse
  <1>3. Handlers /\ Caller /\ JournalOK
    BY DEF Init, Handlers, Caller, JournalOK, Idle
  <1> QED
    BY <1>1, <1>2, <1>3 DEF IInv

\* What a step of a thread leaves alone.
LEMMA ThreadHandlers ==
    ASSUME IInv, NEW f \in File, thread[f] # "none",
           NEW q \in ThreadState, thread' = [thread EXCEPT ![f] = q],
           UNCHANGED <<svars, call, todo>>
    PROVE  Handlers' /\ Caller' /\ JournalOK'
  BY DEF IInv, TypeOK, Handlers, Caller, JournalOK, FrameOK, Before, InUse, svars

LEMMA ThreadStep ==
    ASSUME IInv, NEW f \in File, Thread(f)
    PROVE  IInv'
  <1> USE DEF ThreadAt, Offline
  <1>1. TypeOK'
    BY ZenonT(30) DEF IInv, TypeOK, Thread, ThreadReturns, ThreadAgain, ThreadSyncs, ThreadFsync, ThreadSwap,
           ThreadMark, ThreadCommit, Fsync, svars, fvars, OfflineState, ThreadState, HeaderState
  <1>2. Handlers' /\ Caller' /\ JournalOK'
    BY ThreadHandlers DEF Thread, ThreadReturns, ThreadAgain, ThreadSyncs, ThreadFsync, ThreadSwap,
           ThreadMark, ThreadCommit, ThreadState
  <1>3. CallOK'
    BY DEF IInv, TypeOK, Protocol, FileOK, CallOK, InUse, svars, fvars, Writing, Thread, ThreadReturns,
           ThreadAgain, ThreadSyncs, ThreadFsync, ThreadSwap, ThreadMark, ThreadCommit, Fsync
  <1>4. ASSUME NEW g \in File PROVE FileOK(g)'
    <2> USE DEF IInv, TypeOK, Protocol, FileOK, InUse, svars, fvars
    <2>1. CASE ThreadReturns(f)
      BY <2>1 DEF Thread, ThreadReturns
    <2>2. CASE ThreadAgain(f)
      BY <2>2 DEF Thread, ThreadAgain
    <2>3. CASE ThreadSyncs(f)
      BY <2>3 DEF Thread, ThreadSyncs
    <2>4. CASE ThreadFsync(f)
      BY <2>4 DEF Thread, ThreadFsync, Fsync
    <2>5. CASE ThreadSwap(f)
      BY <2>5 DEF Thread, ThreadSwap
    <2>6. CASE ThreadMark(f)
      BY <2>6 DEF Thread, ThreadMark
    <2>7. CASE ThreadCommit(f)
      BY <2>7 DEF Thread, ThreadCommit, Fsync
    <2> QED
      BY <2>1, <2>2, <2>3, <2>4, <2>5, <2>6, <2>7 DEF Thread
  <1> QED
    BY <1>1, <1>2, <1>3, <1>4 DEF IInv, Protocol

LEMMA WritebackStep ==
    ASSUME IInv, NEW f \in File, Writeback(f)
    PROVE  IInv'
  <1>1. TypeOK'
    BY Zenon DEF IInv, TypeOK, Writeback, tvars, svars
  <1>2. Handlers' /\ Caller' /\ JournalOK'
    BY DEF IInv, Writeback, tvars, svars, Handlers, Caller, JournalOK, FrameOK, Before, InUse
  <1>3. CallOK'
    BY DEF IInv, TypeOK, Writeback, tvars, svars, Protocol, CallOK, InUse, Writing
  <1>4. ASSUME NEW g \in File PROVE FileOK(g)'
    BY DEF IInv, TypeOK, Writeback, tvars, svars, Protocol, FileOK, InUse
  <1> QED
    BY <1>1, <1>2, <1>3, <1>4 DEF IInv, Protocol

LEMMA SigBusStep ==
    ASSUME IInv, NEW f \in File, SigBus(f)
    PROVE  IInv'
  <1>1. TypeOK'
    BY DEF IInv, TypeOK, SigBus, tvars, fvars
  <1>2. Handlers' /\ Caller' /\ JournalOK'
    BY DEF IInv, SigBus, tvars, fvars, Handlers, Caller, JournalOK, FrameOK, Before, InUse
  <1>3. Protocol'
    BY DEF IInv, SigBus, tvars, fvars, Protocol, FileOK, CallOK, InUse, Writing
  <1> QED
    BY <1>1, <1>2, <1>3 DEF IInv

LEMMA CrashStep ==
    ASSUME IInv, NEW power \in BOOLEAN, Crash(power)
    PROVE  IInv'
  <1>1. TypeOK'
    <2>1. Idle \in Call /\ <<>> \in Seq(Frame)
      BY MaxObjectsAssumption DEF Idle, Call, Fn
    <2> QED
      BY <2>1 DEF IInv, TypeOK, Crash, OfflineState, ThreadState, Place
  <1>2. Handlers' /\ Caller' /\ JournalOK'
    BY DEF Crash, Handlers, Caller, JournalOK, Idle
  <1>3. Protocol'
    <2>1. CallOK'
      BY SMTT(90) DEF Crash, Idle, CallOK
    <2>2. ASSUME NEW f \in File PROVE FileOK(f)'
      <3> USE DEF IInv, TypeOK, Crash, Protocol, FileOK, InUse
      <3>1. offline'[f] = "joined" /\ thread'[f] = "none" /\ ~InUse(f)'
        BY DEF Place
      <3>2. CASE power
        <4>1. header'[f] = disk[f] /\ ~pending'[f] /\ (lost'[f] => lost[f] \/ pending[f])
          BY <3>2
        <4> QED
          BY <3>1, <4>1
      <3>3. CASE ~power
        <4>1. header' = header /\ pending' = pending /\ lost' = lost
          BY <3>3
        <4> QED
          BY <3>1, <4>1
      <3> QED
        BY <3>2, <3>3
    <2> QED
      BY <2>1, <2>2 DEF Protocol
  <1> QED
    BY <1>1, <1>2, <1>3 DEF IInv

-----------------------------------------------------------------------------
(* What is left to do, after a step that leaves the files in place.        *)

LEMMA SameFrames ==
    ASSUME place' = place, journal' \in {journal, None}
    PROVE  /\ \A x : FrameOK(x) => FrameOK(x)'
           /\ \A x, y : Before(x, y) => Before(x, y)'
  BY FileAssumption DEF FrameOK, Before, InUse, Using, Closing

LEMMA PoppedOK ==
    ASSUME IInv, todo # <<>>, todo' = Tail(todo),
           place' = place, journal' \in {journal, None}, call'.fn = "idle",
           todo[1].op = "stop" => thread'[todo[1].f] = "none"
    PROVE  Handlers' /\ Caller'
  <1>1. /\ todo' \in Seq(Frame) /\ Len(todo') = Len(todo) - 1 /\ Len(todo) \in Nat \ {0}
        /\ \A i \in 1 .. Len(todo') : todo'[i] = todo[i + 1]
    BY Pop DEF IInv, TypeOK
  <1>2. (\A i \in 1 .. Len(todo) : FrameOK(todo[i]))'
    <2>1. \A i \in 1 .. Len(todo') : FrameOK(todo[i + 1])
      BY <1>1 DEF IInv, Handlers
    <2> QED
      BY <1>1, <2>1, SameFrames
  <1>3. (\A i, j \in 1 .. Len(todo) : i < j => Before(todo[i], todo[j]))'
    <2>1. \A i, j \in 1 .. Len(todo') : i < j => Before(todo[i + 1], todo[j + 1])
      BY <1>1 DEF IInv, Handlers
    <2> QED
      BY <1>1, <2>1, SameFrames
  <1>4. ASSUME NEW i \in 1 .. Len(todo'), todo'[i].op = "closed"
        PROVE  IF i = 1 THEN call'.fn = "idle" /\ thread'[todo'[1].f] = "none"
                        ELSE todo'[i - 1].op = "stop" /\ todo'[i - 1].f = todo'[i].f
    <2>1. todo[i].op = "stop" /\ todo[i].f = todo'[i].f
      BY <1>1, <1>4 DEF IInv, Handlers
    <2> QED
      BY <1>1, <2>1
  <1> QED
    BY Zenon, <1>2, <1>3, <1>4 DEF Handlers, Caller

LEMMA PushedOK ==
    ASSUME IInv, todo # <<>>, todo[1].op # "stop",
           NEW p \in Seq(Frame), todo' = p \o Tail(todo),
           place' = place, journal' \in {journal, None},
           \A i \in 1 .. Len(p) : FrameOK(p[i])',
           \A i, j \in 1 .. Len(p) : i < j => Before(p[i], p[j]),
           \A i \in 1 .. Len(p), j \in 2 .. Len(todo) : Before(p[i], todo[j]),
           \A i \in 1 .. Len(p) : p[i].op = "closed" =>
               i > 1 /\ p[i - 1].op = "stop" /\ p[i - 1].f = p[i].f
    PROVE  Handlers'
  <1>1. /\ todo' \in Seq(Frame) /\ Len(todo') = Len(p) + Len(todo) - 1
        /\ Len(todo) \in Nat \ {0} /\ Len(p) \in Nat
        /\ \A i \in 1 .. Len(p) : todo'[i] = p[i]
        /\ \A i \in Len(p) + 1 .. Len(todo') : todo'[i] = todo[i - Len(p) + 1]
    BY Push DEF IInv, TypeOK
  <1>2. (\A i \in 1 .. Len(todo) : FrameOK(todo[i]))'
    <2>1. \A i \in 1 .. Len(todo) : FrameOK(todo[i])
      BY DEF IInv, Handlers
    <2>2. \A i \in 1 .. Len(todo') : i \in 1 .. Len(p) \/ i - Len(p) + 1 \in 2 .. Len(todo)
      BY <1>1
    <2> QED
      BY <1>1, <2>1, <2>2, SameFrames
  <1>3. ASSUME NEW i \in 1 .. Len(todo'), NEW j \in 1 .. Len(todo'), i < j
        PROVE  Before(todo[i], todo[j])'
    <2>1. Before(todo'[i], todo'[j])
      <3>1. CASE j \in 1 .. Len(p)
        BY <1>1, <1>3, <3>1
      <3>2. CASE j \notin 1 .. Len(p) /\ i \in 1 .. Len(p)
        <4>1. j - Len(p) + 1 \in 2 .. Len(todo) /\ todo'[j] = todo[j - Len(p) + 1] /\ todo'[i] = p[i]
          BY <1>1, <3>2
        <4> QED
          BY <3>2, <4>1
      <3>3. CASE i \notin 1 .. Len(p)
        <4>1. /\ i - Len(p) + 1 \in 1 .. Len(todo) /\ j - Len(p) + 1 \in 1 .. Len(todo)
              /\ i - Len(p) + 1 < j - Len(p) + 1
          BY <1>1, <1>3, <3>3
        <4> QED
          BY SMTT(90), <1>1, <1>3, <3>3, <4>1 DEF IInv, Handlers
      <3> QED
        BY <1>1, <1>3, <3>1, <3>2, <3>3
    <2> QED
      BY <2>1, SameFrames
  <1>4. ASSUME NEW i \in 1 .. Len(todo'), todo'[i].op = "closed"
        PROVE  i # 1 /\ todo'[i - 1].op = "stop" /\ todo'[i - 1].f = todo'[i].f
    <2>1. CASE i \in 1 .. Len(p)
      BY SMTT(90), <1>1, <1>4, <2>1
    <2>2. CASE i \notin 1 .. Len(p)
      <3> DEFINE k == i - Len(p) + 1
      <3>1. k \in 2 .. Len(todo) /\ todo'[i] = todo[k]
        BY SMTT(90), <1>1, <2>2
      <3>2. todo[k - 1].op = "stop" /\ todo[k - 1].f = todo[k].f
        BY <3>1, <1>4 DEF IInv, Handlers
      <3>3. k - 1 \in 2 .. Len(todo) /\ i - 1 \in Len(p) + 1 .. Len(todo') /\ k - 1 = (i - 1) - Len(p) + 1
        BY SMTT(90), <1>1, <3>1, <3>2, <2>2
      <3> QED
        BY SMTT(90), <1>1, <3>1, <3>2, <3>3
    <2> QED
      BY SMTT(90), <2>1, <2>2
  <1> QED
    BY SMTT(90), <1>2, <1>3, <1>4 DEF Handlers

-----------------------------------------------------------------------------
(* The main thread, inside a function on a file.                           *)

\* A fact about nothing: with a record update in sight the SMT backend does
\* without its type inference, the cost of which grows with every step proved.
LEMMA Untyped == \A r : [r EXCEPT !.op = "none"] = [r EXCEPT !.op = "none"]
  OBVIOUS

USE Untyped

\* It stays in a function on the same file.
LEMMA CallKept ==
    ASSUME IInv, call.fn # "idle", todo' = todo, place' = place, journal' = journal,
           call'.fn # "idle", call'.f = call.f, call'.wait = call.wait,
           todo[1].op = "stop" =>
               /\ call'.fn \in {"offline", "restart", "join", "begin", "inline"}
               /\ call'.next # "mark_online"
    PROVE  Handlers' /\ Caller' /\ JournalOK'
  <1>1. todo[1].op # "closed"
    BY DEF IInv, Caller, Calling
  <1>2. (\A i \in 1 .. Len(todo) : FrameOK(todo[i]))'
    BY SameFrames DEF IInv, Handlers
  <1>3. (\A i, j \in 1 .. Len(todo) : i < j => Before(todo[i], todo[j]))'
    BY SameFrames DEF IInv, Handlers
  <1>4. Handlers'
    BY <1>1, <1>2, <1>3 DEF IInv, Handlers
  <1> QED
    BY <1>4 DEF IInv, Caller, JournalOK

LEMMA Returned ==
    ASSUME IInv, call.fn # "idle", Return, place' = place, journal' = journal,
           todo[1].op = "stop" => thread'[call.f] = "none"
    PROVE  Handlers' /\ Caller' /\ JournalOK' /\ CallOK' /\ call' \in Call /\ todo' \in Seq(Frame)
  <1>1. todo # <<>> /\ call'.fn = "idle" /\ todo' = Tail(todo)
    BY DEF IInv, Caller, Return, Idle
  <1>2. todo[1].op = "stop" => thread'[todo[1].f] = "none"
    BY DEF IInv, Caller, Using, Closing
  <1>3. Handlers' /\ Caller'
    BY <1>1, <1>2, PoppedOK
  <1>4. call' \in Call
    BY MaxObjectsAssumption DEF Return, Idle, Call, Fn
  <1>5. todo' \in Seq(Frame)
    BY <1>1, Pop DEF IInv, TypeOK
  <1> QED
    BY <1>1, <1>3, <1>4, <1>5 DEF IInv, JournalOK, CallOK

\* A file that can not be put online is closed, one that was there before may be
\* disposed of next.
LEMMA OpenFails ==
    ASSUME NEW retry \in BOOLEAN, FailWith(retry), Head(todo).op \in {"opened", "created"},
           NEW f \in File, f = call.f
    PROVE  /\ journal' = None
           /\ \E p \in Seq(Frame) :
                /\ todo' = p \o Tail(todo) /\ Len(p) \in {1, 2}
                /\ p[1].op = "close" /\ p[1].f = f
                /\ Len(p) = 2 => p[2].op = "dispose" /\ p[2].f = f /\ Head(todo).op = "opened"
  <1>1. PICK x \in Frame : x = DoOn("close", f) /\ x.op = "close" /\ x.f = f
    <2>1. DoOn("close", f) \in Frame /\ DoOn("close", f).op = "close" /\ DoOn("close", f).f = f
      BY DEF DoOn, Frame, Op
    <2> QED
      BY Zenon, <2>1
  <1>2. PICK y \in Frame : y = DoOn("dispose", f) /\ y.op = "dispose" /\ y.f = f
    <2>1. DoOn("dispose", f) \in Frame /\ DoOn("dispose", f).op = "dispose" /\ DoOn("dispose", f).f = f
      BY DEF DoOn, Frame, Op
    <2> QED
      BY Zenon, <2>1
  <1>3. /\ <<x>> \in Seq(Frame) /\ Len(<<x>>) = 1 /\ <<x>>[1] = x
        /\ <<x, y>> \in Seq(Frame) /\ Len(<<x, y>>) = 2 /\ <<x, y>>[1] = x /\ <<x, y>>[2] = y
    OBVIOUS
  <1>4. journal' = None
    BY Zenon DEF FailWith
  <1>5. Head(todo).op # "append_first"
    OBVIOUS
  <1>6. CASE Head(todo).op = "opened" /\ sigbus[f]
    <2>1. todo' = <<DoOn("close", f), DoOn("dispose", f)>> \o Tail(todo)
      BY Zenon, <1>5, <1>6 DEF FailWith
    <2>2. PICK p : p = <<x, y>>
      BY Zenon
    <2>3. todo' = p \o Tail(todo)
      BY Zenon, <1>1, <1>2, <2>1, <2>2
    <2> QED
      BY Zenon, <1>1, <1>2, <1>3, <1>4, <1>6, <2>2, <2>3
  <1>7. CASE ~(Head(todo).op = "opened" /\ sigbus[f])
    <2>1. todo' = <<DoOn("close", f)>> \o Tail(todo)
      BY Zenon, <1>5, <1>7 DEF FailWith
    <2>2. PICK p : p = <<x>>
      BY Zenon
    <2>3. todo' = p \o Tail(todo)
      BY Zenon, <1>1, <2>1, <2>2
    <2>4. p \in Seq(Frame) /\ Len(p) = 1 /\ p[1] = x
      BY Zenon, <1>3, <2>2
    <2>5. Len(p) \in {1, 2} /\ Len(p) # 2 /\ p[1].op = "close" /\ p[1].f = f
      BY <1>1, <2>4
    <2> QED
      BY Zenon, <1>4, <2>3, <2>4, <2>5
  <1> QED
    BY Zenon, <1>6, <1>7

LEMMA Failed ==
    ASSUME IInv, call.fn # "idle", NEW retry \in BOOLEAN, FailWith(retry),
           todo[1].op = "stop" => thread'[call.f] = "none"
    PROVE  /\ Handlers' /\ Caller' /\ JournalOK' /\ CallOK'
           /\ call' \in Call /\ todo' \in Seq(Frame) /\ journal' \in File \cup {None}
  <1> DEFINE x == todo[1]
  <1>1. /\ todo # <<>> /\ todo \in Seq(Frame) /\ Head(todo) = x /\ Len(todo) \in Nat \ {0}
        /\ x \in Frame /\ call.f \in File
        /\ x.op \in Calling
        /\ x.op \in Using => x.f = call.f
        /\ FrameOK(x)
        /\ \A j \in 2 .. Len(todo) : Before(x, todo[j])
    <2>1. todo # <<>> /\ todo \in Seq(Frame) /\ Head(todo) = x /\ Len(todo) \in Nat \ {0} /\ x \in Frame
      BY DEF IInv, TypeOK, Caller
    <2>2. 1 \in 1 .. Len(todo) /\ \A j \in 2 .. Len(todo) : j \in 1 .. Len(todo) /\ 1 < j
      BY <2>1
    <2> QED
      BY <2>1, <2>2 DEF IInv, Caller, Handlers, Protocol, CallOK
  <1>2. place' = place /\ journal' \in {journal, None} /\ call' = Idle
    BY Zenon DEF FailWith
  <1>3. call' \in Call /\ call'.fn = "idle" /\ CallOK' /\ JournalOK' /\ journal' \in File \cup {None}
    BY SMTT(90), <1>2, MaxObjectsAssumption DEF Idle, Call, Fn, CallOK, IInv, TypeOK, JournalOK
  <1>4. CASE x.op = "append_first" /\ retry
    <2>1. todo' = RotateAndAppend \o Tail(todo)
      BY Zenon, <1>1, <1>4 DEF FailWith
    <2>2. RotateAndAppend \in Seq(Frame) /\ Len(RotateAndAppend) = 3
      BY DEF RotateAndAppend, Frame, Do, Op
    <2>3. \A i \in 1 .. 3 : RotateAndAppend[i].op \in {"rotate", "find", "append"}
      BY DEF RotateAndAppend, Do
    <2>4. \A i \in 1 .. 3 : FrameOK(RotateAndAppend[i])'
      BY <2>3 DEF FrameOK, Using, Closing, RotateAndAppend
    <2>5. \A i, j \in 1 .. 3 : i < j => Before(RotateAndAppend[i], RotateAndAppend[j])
      BY <2>3 DEF Before, Using, Closing
    <2>6. \A i \in 1 .. 3, j \in 2 .. Len(todo) : Before(RotateAndAppend[i], todo[j])
      BY SMTT(90), <1>1, <1>4, <2>3 DEF Before, Using, Closing
    <2>7. Handlers'
      BY Zenon, <1>1, <1>2, <1>4, <2>1, <2>2, <2>3, <2>4, <2>5, <2>6, PushedOK
    <2> QED
      BY SMTT(90), <1>1, <1>3, <2>1, <2>2, <2>7, Push DEF Caller
  <1>5. CASE x.op \in {"opened", "created"}
    <2>0. PICK f \in File : f = call.f
      BY <1>1
    <2>1. journal' = None
      BY Zenon, <1>1, <1>5, <2>0, OpenFails
    <2>2. PICK p \in Seq(Frame) :
            /\ todo' = p \o Tail(todo) /\ Len(p) \in {1, 2} /\ p[1].op = "close" /\ p[1].f = f
            /\ Len(p) = 2 => p[2].op = "dispose" /\ p[2].f = f /\ x.op = "opened"
      BY Zenon, <1>1, <1>5, <2>0, OpenFails
    <2>3. x.f = f /\ InUse(f)
      BY <1>1, <1>5, <2>0 DEF FrameOK, Using
    <2>4. \A i \in 1 .. Len(p) : FrameOK(p[i])'
      BY <1>1, <1>2, <2>1, <2>2, <2>3, FileAssumption DEF FrameOK, InUse, Using, Closing
    <2>5. \A i \in 1 .. Len(p), j \in 2 .. Len(todo) : Before(p[i], todo[j])
      BY SMTT(90), <1>1, <1>5, <2>2, <2>3 DEF Before, Using, Closing, Opener
    <2>6. /\ \A i, j \in 1 .. Len(p) : i < j => Before(p[i], p[j])
          /\ \A i \in 1 .. Len(p) : p[i].op # "closed"
      <3>1. \A i \in 1 .. Len(p) : i = 1 \/ (i = 2 /\ Len(p) = 2)
        BY <2>2
      <3>2. \A i, j \in 1 .. Len(p) : i < j => i = 1 /\ j = 2 /\ Len(p) = 2
        BY <3>1
      <3>3. Len(p) = 2 => Before(p[1], p[2])
        BY <2>2 DEF Before, Using, Closing
      <3>4. \A i \in 1 .. Len(p) : p[i].op # "closed"
        BY <2>2, <3>1
      <3> QED
        BY Zenon, <3>2, <3>3, <3>4
    <2>7. Handlers'
      <3>1. todo[1].op # "stop"
        BY <1>5
      <3> QED
        BY Zenon, <1>1, <1>2, <2>1, <2>2, <2>4, <2>5, <2>6, <3>1, PushedOK
    <2> QED
      BY <1>1, <1>3, <2>1, <2>2, <2>7, Push DEF Caller
  <1>6. CASE ~(x.op = "append_first" /\ retry) /\ x.op \notin {"opened", "created"}
    <2>1. todo' = Tail(todo)
      BY Zenon, <1>1, <1>6, Pop0 DEF FailWith
    <2>2. x.op = "stop" => thread'[x.f] = "none"
      BY <1>1 DEF Using, Closing
    <2> QED
      BY SMTT(30), <1>1, <1>2, <1>3, <2>1, <2>2, PoppedOK, Pop
  <1> QED
    BY SMTT(90), <1>4, <1>5, <1>6

LEMMA CallPoint ==
    ASSUME NEW c \in Call, NEW fn \in Fn, NEW d, d = [c EXCEPT !.fn = fn]
    PROVE  /\ d \in Call /\ d.fn = fn /\ d.f = c.f /\ d.wait = c.wait
           /\ d.left = c.left /\ d.next = c.next
  BY DEF Call

LEMMA CallPointNext ==
    ASSUME NEW c \in Call, NEW fn \in Fn, NEW next \in {"mark_online", "begin", "return"},
           NEW d, d = [c EXCEPT !.fn = fn, !.next = next]
    PROVE  /\ d \in Call /\ d.fn = fn /\ d.f = c.f /\ d.wait = c.wait
           /\ d.left = c.left /\ d.next = next
  BY Zenon DEF Call

\* A move to another point of the function.
LEMMA Moved ==
    ASSUME IInv, call.fn # "idle", NEW fn \in Fn, NEW next \in {"mark_online", "begin", "return"},
           call' = [call EXCEPT !.fn = fn] \/ call' = [call EXCEPT !.fn = fn, !.next = next]
    PROVE  /\ call' \in Call /\ call'.fn = fn /\ call'.f = call.f /\ call'.wait = call.wait
           /\ call'.next \in {call.next, next} /\ call'.left = call.left
  <1>1. call \in Call
    BY DEF IInv, TypeOK
  <1>2. CASE call' = [call EXCEPT !.fn = fn]
    BY <1>1, <1>2, CallPoint
  <1>3. CASE call' = [call EXCEPT !.fn = fn, !.next = next]
    BY Zenon, <1>1, <1>3 DEF Call
  <1> QED
    BY <1>2, <1>3

LEMMA WentTo ==
    ASSUME IInv, call.fn # "idle", NEW fn \in Fn, GoTo(fn)
    PROVE  /\ call' \in Call /\ call'.fn = fn /\ call'.f = call.f /\ call'.wait = call.wait
           /\ call'.next = call.next /\ todo' = todo
  BY CallPoint DEF GoTo, IInv, TypeOK

-----------------------------------------------------------------------------
(* The functions on a file, and the handlers that leave the files in place. *)

LEMMA SetOnlineStep ==
    ASSUME IInv, SetOnline
    PROVE  IInv'
  <1> DEFINE f == call.f
  <1>1. /\ call.fn = "online" /\ f \in File /\ InUse(f)
        /\ todo' = todo /\ UNCHANGED <<thread, fvars, svars>>
        /\ \/ /\ call' = [call EXCEPT !.fn = "mark_online"]
              /\ \/ offline[f] = "joined" /\ offline' = offline
                 \/ /\ offline[f] \in {"syncing", "again_from_syncing"}
                    /\ offline' = [offline EXCEPT ![f] = "cancel"]
           \/ /\ call' = [call EXCEPT !.fn = "join", !.next = "mark_online"]
              /\ \/ offline' = offline
                 \/ /\ offline[f] = "again_from_offlining"
                    /\ offline' = [offline EXCEPT ![f] = "cancel"]
    BY DEF SetOnline, GoTo, JoinThen, In, Offline, IInv, Protocol, CallOK
  <1>2. /\ call' \in Call /\ call'.f = f /\ call'.wait = call.wait
        /\ call' = [call EXCEPT !.fn = "mark_online"] => call'.fn = "mark_online"
        /\ call' = [call EXCEPT !.fn = "join", !.next = "mark_online"] => call'.fn = "join"
    <2>1. CASE call' = [call EXCEPT !.fn = "mark_online"]
      BY <1>1, <2>1, Moved DEF Fn
    <2>2. CASE call' = [call EXCEPT !.fn = "join", !.next = "mark_online"]
      BY <1>1, <2>2, Moved DEF Fn
    <2> QED
      BY <1>1, <2>1, <2>2
  <1>3. \/ /\ call'.fn = "mark_online"
           /\ \/ offline[f] = "joined" /\ offline' = offline
              \/ /\ offline[f] \in {"syncing", "again_from_syncing"}
                 /\ offline' = [offline EXCEPT ![f] = "cancel"]
        \/ /\ call'.fn = "join"
           /\ \/ offline' = offline
              \/ /\ offline[f] = "again_from_offlining"
                 /\ offline' = [offline EXCEPT ![f] = "cancel"]
    BY <1>1, <1>2
  <1>4. Handlers' /\ Caller' /\ JournalOK'
    <2>1. todo[1].op # "stop"
      BY <1>1 DEF IInv, Caller
    <2>2. call.fn # "idle" /\ call'.fn # "idle"
      BY <1>1, <1>3
    <2> QED
      BY <1>1, <1>2, <2>1, <2>2, CallKept DEF svars
  <1>5. TypeOK'
    BY <1>1, <1>2, <1>3 DEF IInv, TypeOK, OfflineState, svars, fvars
  <1>6. CallOK'
    BY <1>1, <1>2, <1>3 DEF IInv, TypeOK, CallOK, InUse, svars, fvars, Writing
  <1>7. ASSUME NEW g \in File PROVE FileOK(g)'
    BY <1>1, <1>2, <1>3 DEF IInv, TypeOK, Protocol, FileOK, InUse, svars, fvars
  <1> QED
    BY <1>4, <1>5, <1>6, <1>7 DEF IInv, Protocol

LEMMA JoinStep ==
    ASSUME IInv, Join
    PROVE  IInv'
  <1> DEFINE f == call.f
  <1>1. call.fn = "join" /\ f \in File /\ UNCHANGED fvars
    BY DEF IInv, Protocol, CallOK, Join, In
  <1>2. CASE offline[f] = "joined" /\ UNCHANGED <<tvars, svars>>
    <2>1. CASE call.next = "return" /\ Return
      <3>1. /\ Handlers' /\ Caller' /\ JournalOK' /\ CallOK' /\ call' \in Call /\ todo' \in Seq(Frame)
        BY <1>1, <1>2, <2>1, Returned DEF IInv, Protocol, FileOK, svars, tvars
      <3>2. TypeOK'
        BY <1>1, <1>2, <3>1 DEF IInv, TypeOK, svars, tvars, fvars
      <3>3. ASSUME NEW g \in File PROVE FileOK(g)'
        BY <1>1, <1>2, <2>1 DEF IInv, Protocol, FileOK, InUse, svars, tvars, fvars, Return
      <3> QED
        BY <3>1, <3>2, <3>3 DEF IInv, Protocol
    <2>2. CASE call.next # "return" /\ GoTo(call.next)
      <3>1. call.next \in {"mark_online", "begin"} /\ todo' = todo
        BY <2>2 DEF IInv, TypeOK, Call, GoTo
      <3>2. call' \in Call /\ call'.fn = call.next /\ call'.f = f /\ call'.wait = call.wait /\ call'.next = call.next
        BY <2>2, <3>1 DEF IInv, TypeOK, Call, GoTo, Fn
      <3>3. Handlers' /\ Caller' /\ JournalOK'
        BY <1>1, <1>2, <3>1, <3>2, CallKept DEF svars, IInv, Caller
      <3>4. TypeOK'
        BY <1>1, <1>2, <3>1, <3>2 DEF IInv, TypeOK, svars, tvars, fvars
      <3>5. CallOK'
        BY <1>1, <1>2, <3>1, <3>2 DEF IInv, Protocol, CallOK, InUse, svars, tvars, fvars, Writing
      <3>6. ASSUME NEW g \in File PROVE FileOK(g)'
        BY SMTT(90), <1>1, <1>2, <3>2 DEF IInv, Protocol, FileOK, InUse, svars, tvars, fvars
      <3> QED
        BY <3>3, <3>4, <3>5, <3>6 DEF IInv, Protocol
    <2> QED
      BY <1>2, <2>1, <2>2 DEF Join, ThreadAt, Offline
  <1>3. CASE ThreadAt(f, "exited", "none") /\ Offline(f, OfflineState \ {"joined"}, "joined")
    <2>1. /\ offline' = [offline EXCEPT ![f] = "joined"] /\ thread' = [thread EXCEPT ![f] = "none"]
          /\ thread[f] = "exited" /\ thread'[f] = "none" /\ offline'[f] = "joined"
      BY <1>1, <1>3 DEF ThreadAt, Offline, IInv, TypeOK
    <2>2. /\ offline' \in [File -> OfflineState] /\ thread' \in [File -> ThreadState]
      BY <1>1, <2>1 DEF IInv, TypeOK, OfflineState, ThreadState
    <2>3. ASSUME NEW g \in File, place' = place, archive' = archive PROVE FileOK(g)'
      BY <1>1, <2>1, <2>3 DEF IInv, TypeOK, Protocol, FileOK, InUse, fvars
    <2>4. CASE call.next = "return" /\ Return /\ UNCHANGED svars
      <3>1. /\ Handlers' /\ Caller' /\ JournalOK' /\ CallOK' /\ call' \in Call /\ todo' \in Seq(Frame)
        BY <1>1, <2>1, <2>4, Returned DEF svars
      <3>2. TypeOK'
        BY <1>1, <2>2, <2>4, <3>1 DEF IInv, TypeOK, svars, fvars
      <3> QED
        BY <2>3, <2>4, <3>1, <3>2 DEF IInv, Protocol, svars
    <2>5. CASE call.next # "return" /\ GoTo(call.next) /\ UNCHANGED svars
      <3>1. call.next \in {"mark_online", "begin"} /\ todo' = todo
        BY <2>5 DEF IInv, TypeOK, Call, GoTo
      <3>2. call' \in Call /\ call'.fn = call.next /\ call'.f = f /\ call'.wait = call.wait /\ call'.next = call.next
        BY <2>5, <3>1 DEF IInv, TypeOK, Call, GoTo, Fn
      <3>3. Handlers' /\ Caller' /\ JournalOK'
        BY <1>1, <2>5, <3>1, <3>2, CallKept DEF svars, IInv, Caller
      <3>4. TypeOK'
        BY SMTT(90), <1>1, <2>2, <2>5, <3>1, <3>2 DEF IInv, TypeOK, svars, fvars
      <3>5. CallOK'
        BY <1>1, <2>1, <2>5, <3>1, <3>2 DEF IInv, Protocol, CallOK, InUse, svars, fvars, Writing
      <3> QED
        BY <2>3, <2>5, <3>3, <3>4, <3>5 DEF IInv, Protocol, svars
    <2>6. CASE FailWith(TRUE)
      <3>1. /\ Handlers' /\ Caller' /\ JournalOK' /\ CallOK'
            /\ call' \in Call /\ todo' \in Seq(Frame) /\ journal' \in File \cup {None}
        BY ZenonT(60), <1>1, <2>1, <2>6, Failed
      <3>2. UNCHANGED <<archive, sigbus, place>>
        BY <2>6 DEF FailWith
      <3>3. TypeOK'
        BY <1>1, <2>2, <3>1, <3>2 DEF IInv, TypeOK, fvars
      <3> QED
        BY <2>3, <3>1, <3>2, <3>3 DEF IInv, Protocol
    <2> QED
      BY Zenon, <1>3, <2>1, <2>4, <2>5, <2>6 DEF Join, IInv, Protocol, FileOK
  <1> QED
    BY Zenon, <1>2, <1>3 DEF Join

LEMMA MarkOnlineStep ==
    ASSUME IInv, MarkOnline
    PROVE  IInv'
  <1> DEFINE f == call.f
  <1>1. /\ call.fn = "mark_online" /\ f \in File /\ InUse(f) /\ UNCHANGED <<tvars, disk, pending, lost>>
        /\ offline[f] \in {"joined", "cancel", "done"} /\ todo[1].op # "stop"
    BY DEF MarkOnline, In, IInv, Protocol, CallOK, Writing, Caller
  <1>2. CASE (FailWith(TRUE) \/ FailWith(FALSE)) /\ header' = header
    <2>1. /\ Handlers' /\ Caller' /\ JournalOK' /\ CallOK'
          /\ call' \in Call /\ todo' \in Seq(Frame) /\ journal' \in File \cup {None}
      BY Zenon, <1>1, <1>2, Failed
    <2>2. UNCHANGED <<archive, sigbus, place>> /\ call' = Idle
      BY Zenon, <1>2 DEF FailWith
    <2>3. TypeOK'
      BY <1>1, <1>2, <2>1, <2>2 DEF IInv, TypeOK, tvars
    <2>4. ASSUME NEW g \in File PROVE FileOK(g)'
      BY <1>1, <1>2, <2>2 DEF IInv, Protocol, FileOK, InUse, tvars, Idle
    <2> QED
      BY <2>1, <2>3, <2>4 DEF IInv, Protocol
  <1>3. CASE GoTo("append") /\ header[f] = "online" /\ UNCHANGED <<header, svars>>
    <2>1. call' \in Call /\ call'.f = f /\ call'.wait = call.wait /\ call'.fn = "append" /\ todo' = todo
      BY <1>1, <1>3, WentTo DEF Fn
    <2>2. Handlers' /\ Caller' /\ JournalOK'
      BY <1>1, <1>3, <2>1, CallKept DEF svars
    <2>3. TypeOK'
      BY SMTT(90), <1>1, <1>3, <2>1 DEF IInv, TypeOK, svars, tvars
    <2>4. CallOK'
      <3>1. disk[f] = "online"
        <4>1. FileOK(f)
          BY <1>1 DEF IInv, Protocol
        <4> QED
          BY SMTT(90), <1>1, <1>3, <4>1 DEF FileOK
      <3>2. offline' = offline /\ header' = header /\ disk' = disk /\ place' = place
        BY <1>1, <1>3 DEF svars, tvars
      <3> QED
        BY <1>1, <1>3, <2>1, <3>1, <3>2 DEF CallOK, InUse, Writing
    <2>5. ASSUME NEW g \in File PROVE FileOK(g)'
      BY <1>1, <1>3, <2>1 DEF IInv, Protocol, FileOK, InUse, svars, tvars
    <2> QED
      BY <2>2, <2>3, <2>4, <2>5 DEF IInv, Protocol
  <1>4. CASE /\ GoTo("sync_online") /\ header[f] = "offline"
             /\ header' = [header EXCEPT ![f] = "online"] /\ UNCHANGED svars
    <2>1. call' \in Call /\ call'.f = f /\ call'.wait = call.wait /\ call'.fn = "sync_online" /\ todo' = todo
      BY SMTT(90), <1>1, <1>4, WentTo DEF Fn
    <2>2. Handlers' /\ Caller' /\ JournalOK'
      BY <1>1, <1>4, <2>1, CallKept DEF svars
    <2>3. TypeOK'
      BY <1>1, <1>4, <2>1 DEF IInv, TypeOK, svars, tvars, HeaderState
    <2>4. CallOK'
      BY SMTT(90), <1>1, <1>4, <2>1 DEF IInv, TypeOK, CallOK, InUse, svars, tvars, Writing
    <2>5. ASSUME NEW g \in File PROVE FileOK(g)'
      BY SMTT(90), <1>1, <1>4, <2>1 DEF IInv, TypeOK, Protocol, FileOK, InUse, svars, tvars
    <2> QED
      BY <2>2, <2>3, <2>4, <2>5 DEF IInv, Protocol
  <1> QED
    BY Zenon, <1>2, <1>3, <1>4 DEF MarkOnline

LEMMA SyncOnlineStep ==
    ASSUME IInv, SyncOnline
    PROVE  IInv'
  <1> DEFINE f == call.f
  <1>1. /\ call.fn = "sync_online" /\ f \in File /\ InUse(f) /\ UNCHANGED <<tvars, svars, header, lost>>
        /\ offline[f] \in {"joined", "cancel", "done"} /\ todo[1].op # "stop" /\ header[f] = "online"
        /\ disk' = [disk EXCEPT ![f] = header[f]] /\ pending' = [pending EXCEPT ![f] = FALSE]
    BY DEF SyncOnline, Fsync, In, IInv, Protocol, CallOK, Writing, Caller
  <1>2. call' \in Call /\ call'.f = f /\ call'.wait = call.wait /\ call'.fn = "append" /\ todo' = todo
    BY <1>1, WentTo DEF SyncOnline, Fn
  <1>3. Handlers' /\ Caller' /\ JournalOK'
    BY <1>1, <1>2, CallKept DEF svars
  <1>4. TypeOK'
    BY <1>1, <1>2 DEF IInv, TypeOK, svars, tvars, HeaderState
  <1>5. CallOK'
    BY SMTT(90), <1>1, <1>2 DEF IInv, TypeOK, CallOK, InUse, svars, tvars, Writing
  <1>6. ASSUME NEW g \in File PROVE FileOK(g)'
    BY <1>1, <1>2 DEF IInv, TypeOK, Protocol, FileOK, InUse, svars, tvars
  <1> QED
    BY <1>3, <1>4, <1>5, <1>6 DEF IInv, Protocol

LEMMA AppendObjectStep ==
    ASSUME IInv, AppendObject
    PROVE  IInv'
  <1> DEFINE f == call.f
  <1>1. /\ call.fn = "append" /\ f \in File /\ InUse(f) /\ UNCHANGED <<tvars, header, disk, lost>>
        /\ offline[f] \in {"joined", "cancel", "done"} /\ todo[1].op # "stop"
        /\ header[f] = "online" /\ disk[f] = "online"
    BY DEF AppendObject, In, IInv, Protocol, CallOK, Writing, Caller
  <1>2. /\ pending' \in [File -> BOOLEAN]
        /\ \A g \in File : g # f => pending'[g] = pending[g]
    BY Zenon, <1>1 DEF AppendObject, IInv, TypeOK
  <1>3. ASSUME NEW g \in File, place' = place, archive' = archive PROVE FileOK(g)'
    BY <1>1, <1>2, <1>3 DEF IInv, TypeOK, Protocol, FileOK, InUse, tvars
  <1>4. CASE Return /\ UNCHANGED svars
    <2>1. /\ Handlers' /\ Caller' /\ JournalOK' /\ CallOK' /\ call' \in Call /\ todo' \in Seq(Frame)
      BY SMTT(90), <1>1, <1>4, Returned DEF svars
    <2>2. TypeOK'
      BY <1>1, <1>2, <1>4, <2>1 DEF IInv, TypeOK, svars, tvars
    <2> QED
      BY <1>3, <1>4, <2>1, <2>2 DEF IInv, Protocol, svars
  <1>5. CASE /\ call.left > 0 /\ call' = [call EXCEPT !.fn = "online", !.left = @ - 1]
             /\ UNCHANGED todo /\ UNCHANGED svars
    <2>1. call \in Call /\ call.left \in 0 .. MaxObjects /\ call.left - 1 \in 0 .. MaxObjects
      BY <1>5, MaxObjectsAssumption DEF IInv, TypeOK, Call
    <2>2. call' \in Call /\ call'.f = f /\ call'.wait = call.wait /\ call'.fn = "online"
      BY Zenon, <1>5, <2>1 DEF Call, Fn
    <2>3. Handlers' /\ Caller' /\ JournalOK'
      BY <1>1, <1>5, <2>2, CallKept DEF svars
    <2>4. TypeOK'
      BY <1>1, <1>2, <1>5, <2>2 DEF IInv, TypeOK, svars, tvars
    <2>5. CallOK'
      BY <1>1, <1>5, <2>2 DEF CallOK, InUse, svars, tvars, Writing
    <2> QED
      BY <1>3, <1>5, <2>3, <2>4, <2>5 DEF IInv, Protocol, svars
  <1>6. CASE FailWith(TRUE)
    <2>1. /\ Handlers' /\ Caller' /\ JournalOK' /\ CallOK'
          /\ call' \in Call /\ todo' \in Seq(Frame) /\ journal' \in File \cup {None}
      BY Zenon, <1>1, <1>6, Failed
    <2>2. UNCHANGED <<archive, sigbus, place>>
      BY <1>6 DEF FailWith
    <2>3. TypeOK'
      BY <1>1, <1>2, <2>1, <2>2 DEF IInv, TypeOK, tvars
    <2> QED
      BY <1>3, <2>1, <2>2, <2>3 DEF IInv, Protocol
  <1> QED
    BY Zenon, <1>4, <1>5, <1>6 DEF AppendObject, svars

LEMMA Joins ==
    ASSUME IInv, call.fn # "idle", NEW next \in {"mark_online", "begin", "return"}, JoinThen(next)
    PROVE  /\ call' \in Call /\ call'.fn = "join" /\ call'.f = call.f /\ call'.wait = call.wait
           /\ call'.next = next /\ todo' = todo
  <1>1. call \in Call /\ call' = [call EXCEPT !.fn = "join", !.next = next] /\ todo' = todo
    BY DEF IInv, TypeOK, JoinThen
  <1> QED
    BY Zenon, <1>1 DEF Call, Fn

\* set_offline() begins.
LEMMA SetOfflineStep ==
    ASSUME IInv, SetOffline
    PROVE  IInv'
  <1>1. /\ call.fn = "offline" /\ call.f \in File /\ InUse(call.f) /\ UNCHANGED <<tvars, fvars, svars>>
        /\ GoTo("restart") \/ JoinThen("return")
    BY DEF SetOffline, In, IInv, Protocol, CallOK
  <1>2. /\ call' \in Call /\ call'.f = call.f /\ call'.wait = call.wait /\ todo' = todo
        /\ call'.fn \in {"restart", "join"} /\ call'.next \in {call.next, "return"}
    BY <1>1, WentTo, Joins DEF Fn
  <1>3. Handlers' /\ Caller' /\ JournalOK'
    BY <1>1, <1>2, CallKept DEF svars, IInv, Caller
  <1>4. TypeOK'
    BY <1>1, <1>2 DEF IInv, TypeOK, svars, tvars, fvars
  <1>5. CallOK'
    BY SMTT(90), <1>1, <1>2 DEF CallOK, InUse, svars, Writing
  <1>6. ASSUME NEW g \in File PROVE FileOK(g)'
    BY <1>1, <1>2 DEF IInv, Protocol, FileOK, InUse, svars, tvars, fvars
  <1> QED
    BY <1>3, <1>4, <1>5, <1>6 DEF IInv, Protocol

LEMMA TryRestartStep ==
    ASSUME IInv, TryRestart
    PROVE  IInv'
  <1> DEFINE f == call.f
  <1>1. /\ call.fn = "restart" /\ f \in File /\ InUse(f) /\ UNCHANGED <<thread, fvars, svars>>
        /\ \/ /\ offline[f] \in {"again_from_syncing", "cancel", "syncing"}
              /\ offline' = [offline EXCEPT ![f] = "again_from_syncing"]
           \/ /\ offline[f] \in {"again_from_offlining", "offlining"}
              /\ offline' = [offline EXCEPT ![f] = "again_from_offlining"]
           \/ offline' = offline
        /\ (call.wait /\ JoinThen("return")) \/ (~call.wait /\ Return) \/ JoinThen("begin")
    BY SMTT(90) DEF TryRestart, In, Offline, IInv, Protocol, CallOK
  <1>2. ASSUME NEW g \in File PROVE FileOK(g)'
    <2>1. ~(call.fn = "join") /\ ~(call.fn = "sync_online")
      BY <1>1
    <2> QED
      BY <1>1, <2>1 DEF IInv, TypeOK, Protocol, FileOK, InUse, svars, fvars
  <1>3. offline' \in [File -> OfflineState]
    BY <1>1 DEF IInv, TypeOK, OfflineState
  <1>4. CASE Return /\ ~call.wait
    <2>1. todo[1].op # "stop"
      BY <1>1, <1>4 DEF IInv, Caller
    <2>2. /\ Handlers' /\ Caller' /\ JournalOK' /\ CallOK' /\ call' \in Call /\ todo' \in Seq(Frame)
      BY <1>1, <1>4, <2>1, Returned DEF svars
    <2>3. TypeOK'
      BY <1>1, <1>3, <2>2 DEF IInv, TypeOK, svars, fvars
    <2> QED
      BY <1>2, <2>2, <2>3 DEF IInv, Protocol
  <1>5. CASE JoinThen("return") \/ JoinThen("begin")
    <2>1. /\ call' \in Call /\ call'.f = f /\ call'.wait = call.wait /\ todo' = todo
          /\ call'.fn = "join" /\ call'.next \in {"return", "begin"}
      BY SMTT(90), <1>1, <1>5, Joins
    <2>2. Handlers' /\ Caller' /\ JournalOK'
      BY <1>1, <2>1, CallKept DEF svars, IInv, Caller
    <2>3. TypeOK'
      BY SMTT(90), <1>1, <1>3, <2>1 DEF IInv, TypeOK, svars, fvars
    <2>4. CallOK'
      BY <1>1, <2>1 DEF CallOK, InUse, svars, Writing
    <2> QED
      BY <1>2, <2>2, <2>3, <2>4 DEF IInv, Protocol
  <1> QED
    BY SMTT(90), <1>1, <1>4, <1>5

LEMMA BeginStep ==
    ASSUME IInv, Begin
    PROVE  IInv'
  <1> DEFINE f == call.f
  <1>1. /\ call.fn = "begin" /\ f \in File /\ InUse(f) /\ UNCHANGED <<fvars, svars>>
        /\ offline[f] = "joined" /\ thread[f] = "none"
        /\ \/ offline' = [offline EXCEPT ![f] = "syncing"] /\ thread' = [thread EXCEPT ![f] = "loop"]
           \/ offline' = [offline EXCEPT ![f] = "joined"] /\ thread' = thread
        /\ (call.wait /\ GoTo("inline")) \/ (~call.wait /\ Return)
    BY SMTT(90) DEF Begin, In, IInv, Protocol, CallOK, FileOK
  <1>2. ASSUME NEW g \in File PROVE FileOK(g)'
    <2>1. ~(call.fn = "join") /\ ~(call.fn = "sync_online")
      BY <1>1
    <2> QED
      BY <1>1, <2>1 DEF IInv, TypeOK, Protocol, FileOK, InUse, svars, fvars
  <1>3. offline' \in [File -> OfflineState] /\ thread' \in [File -> ThreadState]
    BY SMTT(90), <1>1 DEF IInv, TypeOK, OfflineState, ThreadState
  <1>4. CASE ~call.wait /\ Return
    <2>1. todo[1].op # "stop"
      BY <1>1, <1>4 DEF IInv, Caller
    <2>2. /\ Handlers' /\ Caller' /\ JournalOK' /\ CallOK' /\ call' \in Call /\ todo' \in Seq(Frame)
      BY <1>1, <1>4, <2>1, Returned DEF svars
    <2>3. TypeOK'
      BY SMTT(90), <1>1, <1>3, <2>2 DEF IInv, TypeOK, svars, fvars
    <2> QED
      BY <1>2, <2>2, <2>3 DEF IInv, Protocol
  <1>5. CASE GoTo("inline")
    <2>1. /\ call' \in Call /\ call'.f = f /\ call'.wait = call.wait /\ todo' = todo
          /\ call'.fn = "inline" /\ call'.next = call.next
      BY SMTT(90), <1>1, <1>5, WentTo DEF Fn
    <2>2. Handlers' /\ Caller' /\ JournalOK'
      BY <1>1, <2>1, CallKept DEF svars, IInv, Caller
    <2>3. TypeOK'
      BY SMTT(90), <1>1, <1>3, <2>1 DEF IInv, TypeOK, svars, fvars
    <2>4. CallOK'
      BY SMTT(90), <1>1, <2>1 DEF CallOK, InUse, svars, Writing
    <2> QED
      BY <1>2, <2>2, <2>3, <2>4 DEF IInv, Protocol
  <1> QED
    BY SMTT(90), <1>1, <1>4, <1>5

LEMMA InlineStep ==
    ASSUME IInv, InlineReturns
    PROVE  IInv'
  <1> DEFINE f == call.f
  <1>1. /\ call.fn = "inline" /\ f \in File /\ Return /\ UNCHANGED <<offline, fvars, svars>>
        /\ thread' = [thread EXCEPT ![f] = "none"]
    BY DEF InlineReturns, ThreadAt, In, IInv, Protocol, CallOK
  <1>2. thread'[f] = "none" /\ thread' \in [File -> ThreadState]
    BY <1>1 DEF IInv, TypeOK, ThreadState
  <1>3. /\ Handlers' /\ Caller' /\ JournalOK' /\ CallOK' /\ call' \in Call /\ todo' \in Seq(Frame)
    BY SMTT(90), <1>1, <1>2, Returned DEF svars
  <1>4. TypeOK'
    BY SMTT(90), <1>1, <1>2, <1>3 DEF IInv, TypeOK, svars, fvars
  <1>5. ASSUME NEW g \in File PROVE FileOK(g)'
    <2>1. ~(call.fn = "join") /\ ~(call.fn = "sync_online")
      BY <1>1
    <2> QED
      BY <1>1, <2>1 DEF IInv, TypeOK, Protocol, FileOK, InUse, svars, fvars
  <1> QED
    BY <1>3, <1>4, <1>5 DEF IInv, Protocol

-----------------------------------------------------------------------------
(* The handlers that leave the files where they are *)

\* What is known when the first frame is taken up.
LEMMA HeadFacts ==
    ASSUME IInv, call = Idle, todo # <<>>
    PROVE  /\ todo \in Seq(Frame) /\ Head(todo) = todo[1] /\ todo[1] \in Frame
           /\ Len(todo) \in Nat \ {0}
           /\ call.fn = "idle" /\ call \in Call
           /\ FrameOK(todo[1])
           /\ \A j \in 2 .. Len(todo) : Before(todo[1], todo[j]) /\ FrameOK(todo[j]) /\ todo[j] \in Frame
  <1>1. todo \in Seq(Frame) /\ Head(todo) = todo[1] /\ todo[1] \in Frame /\ Len(todo) \in Nat \ {0}
    BY DEF IInv, TypeOK
  <1>2. 1 \in 1 .. Len(todo) /\ \A j \in 2 .. Len(todo) : j \in 1 .. Len(todo) /\ 1 < j
    BY <1>1
  <1>3. call.fn = "idle" /\ call \in Call
    BY DEF IInv, TypeOK, Idle
  <1> QED
    BY <1>1, <1>2, <1>3 DEF IInv, Handlers

\* The first frame is replaced, and no file changes.
LEMMA Replaced ==
    ASSUME IInv, call = Idle, todo # <<>>, todo[1].op # "stop",
           NEW p \in Seq(Frame), Then(p),
           UNCHANGED <<tvars, fvars, sigbus, place>>, journal' \in {journal, None},
           archive' \in [File -> BOOLEAN], \A f \in File : archive[f] => archive'[f],
           \A i \in 1 .. Len(p) : FrameOK(p[i])',
           \A i, j \in 1 .. Len(p) : i < j => Before(p[i], p[j]),
           \A i \in 1 .. Len(p), j \in 2 .. Len(todo) : Before(p[i], todo[j]),
           \A i \in 1 .. Len(p) : p[i].op = "closed" =>
               i > 1 /\ p[i - 1].op = "stop" /\ p[i - 1].f = p[i].f
    PROVE  IInv'
  <1>1. call' = call /\ call.fn = "idle" /\ todo' = p \o Tail(todo)
    BY DEF Then, Idle
  <1>2. place' = place
    OBVIOUS
  <1>3. Handlers'
    BY Zenon, <1>1, <1>2, PushedOK
  <1>4. todo' \in Seq(Frame)
    BY <1>1, Push DEF IInv, TypeOK
  <1>5. TypeOK'
    BY <1>1, <1>4 DEF IInv, TypeOK, tvars, fvars
  <1>6. CallOK' /\ Caller' /\ JournalOK'
    BY <1>1 DEF CallOK, Caller, JournalOK, IInv
  <1>7. ASSUME NEW g \in File PROVE FileOK(g)'
    BY <1>1 DEF IInv, Protocol, FileOK, InUse, tvars, fvars
  <1> QED
    BY <1>3, <1>5, <1>6, <1>7 DEF IInv, Protocol

LEMMA Dropped ==
    ASSUME IInv, call = Idle, todo # <<>>, todo[1].op # "stop", Then(<<>>),
           UNCHANGED <<tvars, fvars, archive, sigbus, place>>, journal' \in {journal, None}
    PROVE  IInv'
  <1>1. <<>> \in Seq(Frame) /\ Len(<<>>) = 0
    OBVIOUS
  <1>2. archive' \in [File -> BOOLEAN] /\ \A f \in File : archive[f] => archive'[f]
    BY DEF IInv, TypeOK
  <1>3. PICK p \in Seq(Frame) : p = <<>> /\ Len(p) = 0
    BY Zenon, <1>1
  <1>4. Then(p)
    BY <1>3
  <1>5. ~ \E i \in 1 .. Len(p) : TRUE
    BY <1>3
  <1>6. UNCHANGED <<tvars, fvars, sigbus, place>>
    OBVIOUS
  <1> QED
    BY <1>2, <1>4, <1>5, <1>6, Replaced

LEMMA FindJournalStep ==
    ASSUME IInv, FindJournal
    PROVE  IInv'
  BY HeadFacts, Dropped DEF FindJournal, Doing, svars

LEMMA FindExistingStep ==
    ASSUME IInv, FindExisting
    PROVE  IInv'
  <1>1. PICK g \in File : /\ place[g] \in {"closed", "left"}
                          /\ Then(<<Process("process_all"), DoOn("reopen", g)>>)
    BY DEF FindExisting
  <1> DEFINE p == <<Process("process_all"), DoOn("reopen", g)>>
  <1>2. /\ call = Idle /\ todo # <<>> /\ Head(todo).op \in {"find", "open"}
        /\ UNCHANGED <<tvars, fvars, svars>>
    BY DEF FindExisting, Opening, Doing
  <1>3. todo[1].op \in {"find", "open"}
    BY <1>2, HeadFacts
  <1>4. /\ p \in Seq(Frame) /\ Len(p) = 2 /\ p[1].op = "process_all"
        /\ p[2].op = "reopen" /\ p[2].f = g
    BY DEF Process, DoOn, Frame, Op
  <1>5. \A i \in 1 .. Len(p) : FrameOK(p[i])'
    BY <1>1, <1>2, <1>4 DEF FrameOK, Using, Closing, svars
  <1>6. \A i, j \in 1 .. Len(p) : i < j => Before(p[i], p[j])
    BY <1>4 DEF Before, Using, Closing
  <1>7. \A i \in 1 .. Len(p), j \in 2 .. Len(todo) : Before(p[i], todo[j])
    BY <1>2, <1>3, <1>4, HeadFacts DEF Before, Using, Closing, Opener
  <1>8. \A i \in 1 .. Len(p) : p[i].op # "closed"
    BY <1>4
  <1>9. archive' \in [File -> BOOLEAN] /\ archive' = archive /\ UNCHANGED <<sigbus, place, journal>>
    BY <1>2 DEF IInv, TypeOK, svars
  <1> HIDE DEF p
  <1>10. Then(p)
    BY <1>1 DEF p
  <1> QED
    BY <1>2, <1>3, <1>4, <1>5, <1>6, <1>7, <1>8, <1>9, <1>10, Replaced

LEMMA RotateStep ==
    ASSUME IInv, Rotate
    PROVE  IInv'
  <1>1. /\ call = Idle /\ todo # <<>> /\ todo[1].op = "rotate"
        /\ UNCHANGED <<tvars, fvars, sigbus, place>>
    BY HeadFacts DEF Rotate, Doing
  <1>2. \A j \in 2 .. Len(todo) : todo[j].op \notin Using \cup {"reopen"}
    BY <1>1, HeadFacts DEF Before, Closing
  <1>3. CASE /\ journal # None /\ archive' = [archive EXCEPT ![journal] = TRUE] /\ journal' = None
             /\ Then(<<Do("create"), DoOn("defer", journal), Process("process")>>)
    <2>1. PICK f \in File : f = journal
      BY <1>3 DEF IInv, TypeOK
    <2> DEFINE p == <<Do("create"), DoOn("defer", f), Process("process")>>
    <2>2. /\ p \in Seq(Frame) /\ Len(p) = 3 /\ p[1].op = "create"
          /\ p[2].op = "defer" /\ p[2].f = f /\ p[3].op = "process"
      BY DEF Process, Do, DoOn, Frame, Op
    <2>3. place[f] = "open" /\ place'[f] = "open" /\ f # journal'
      BY <1>1, <1>3, <2>1, FileAssumption DEF IInv, JournalOK
    <2>4. \A i \in 1 .. Len(p) : FrameOK(p[i])'
      BY <2>2, <2>3 DEF FrameOK, Using, Closing, InUse
    <2>5. \A i, j \in 1 .. Len(p) : i < j => Before(p[i], p[j])
      BY <2>2, <2>3 DEF Before, Using, Closing
    <2>6. \A i \in 1 .. Len(p), j \in 2 .. Len(todo) : Before(p[i], todo[j])
      BY <1>2, <2>2 DEF Before
    <2>7. \A i \in 1 .. Len(p) : p[i].op # "closed"
      BY <2>2
    <2>8. archive' \in [File -> BOOLEAN] /\ \A g \in File : archive[g] => archive'[g]
      BY <1>3, <2>1 DEF IInv, TypeOK
    <2> HIDE DEF p
    <2>9. Then(p)
      BY <1>3, <2>1 DEF p
    <2> QED
      BY Zenon, <1>1, <1>3, <2>2, <2>4, <2>5, <2>6, <2>7, <2>8, <2>9, Replaced
  <1>4. CASE Then(<<Process("process")>>) /\ UNCHANGED <<archive, journal>>
    <2> DEFINE p == <<Process("process")>>
    <2>1. p \in Seq(Frame) /\ Len(p) = 1 /\ p[1].op = "process"
      BY DEF Process, Frame, Op
    <2>2. \A i \in 1 .. Len(p) : FrameOK(p[i])'
      BY <2>1 DEF FrameOK, Using, Closing
    <2>3. \A i, j \in 1 .. Len(p) : i < j => Before(p[i], p[j])
      BY <2>1
    <2>4. \A i \in 1 .. Len(p), j \in 2 .. Len(todo) : Before(p[i], todo[j])
      BY <1>2, <2>1 DEF Before
    <2>5. \A i \in 1 .. Len(p) : p[i].op # "closed"
      BY <2>1
    <2>6. archive' \in [File -> BOOLEAN] /\ \A g \in File : archive[g] => archive'[g]
      BY <1>4 DEF IInv, TypeOK
    <2> HIDE DEF p
    <2>7. Then(p)
      BY <1>4 DEF p
    <2> QED
      BY <1>1, <1>4, <2>1, <2>2, <2>3, <2>4, <2>5, <2>6, <2>7, Replaced
  <1> QED
    BY <1>3, <1>4 DEF Rotate

LEMMA ProcessDeferredStep ==
    ASSUME IInv, ProcessDeferred
    PROVE  IInv'
  <1> DEFINE left == Head(todo).left \cap Deferred
             Rest(f) == [Head(todo) EXCEPT !.left = left \ {f}]
  <1>1. /\ call = Idle /\ todo # <<>> /\ UNCHANGED <<tvars, fvars, svars>>
        /\ todo[1].op \in {"process", "process_all"} /\ Head(todo) = todo[1] /\ todo[1] \in Frame
    BY HeadFacts DEF ProcessDeferred, Doing
  <1>2. /\ archive' \in [File -> BOOLEAN] /\ archive' = archive /\ journal' = journal
        /\ UNCHANGED <<tvars, fvars, sigbus, place>>
    BY <1>1 DEF IInv, TypeOK, svars
  <1>3. CASE Then(<<>>)
    BY <1>1, <1>2, <1>3, Dropped
  <1>4. CASE \E f \in left : \/ Then(<<Rest(f)>>)
                             \/ Then(<<DoOn("close", f), Rest(f)>>)
    <2>1. PICK f \in left : Then(<<Rest(f)>>) \/ Then(<<DoOn("close", f), Rest(f)>>)
      BY Zenon, <1>4
    <2>2. f \in File /\ place[f] = "deferred" /\ left \subseteq File
      BY <2>1 DEF Deferred
    <2>3. Rest(f) \in Frame /\ Rest(f).op = todo[1].op
      BY <1>1, <2>2 DEF Frame
    <2>4. PICK r \in Frame : r = Rest(f)
      BY <2>3
    <2> HIDE DEF left, Rest
    <2>5. r.op = todo[1].op /\ r.op \in {"process", "process_all"}
      BY <1>1, <2>3, <2>4
    <2>6. FrameOK(r)' /\ \A j \in 2 .. Len(todo) : Before(r, todo[j])
      <3>1. \A j \in 2 .. Len(todo) : Before(todo[1], todo[j])
        BY <1>1, HeadFacts
      <3> QED
        BY <2>5, <3>1 DEF FrameOK, Before, Using, Closing
    <2>7. CASE Then(<<Rest(f)>>)
      <3> DEFINE p == <<r>>
      <3>1. p \in Seq(Frame) /\ Len(p) = 1 /\ p[1] = r
        OBVIOUS
      <3>2. \A i \in 1 .. Len(p) : FrameOK(p[i])' /\ p[i].op # "closed"
        BY <2>5, <2>6
      <3>3. /\ \A i, j \in 1 .. Len(p) : i < j => Before(p[i], p[j])
            /\ \A i \in 1 .. Len(p), j \in 2 .. Len(todo) : Before(p[i], todo[j])
        BY <2>6, <3>1
      <3>4. Then(p)
        BY <2>4, <2>7
      <3> HIDE DEF p
      <3> QED
        BY <1>1, <1>2, <3>1, <3>2, <3>3, <3>4, Replaced
    <2>8. CASE Then(<<DoOn("close", f), Rest(f)>>)
      <3> DEFINE p == <<DoOn("close", f), r>>
      <3>1. /\ p \in Seq(Frame) /\ Len(p) = 2 /\ p[2] = r
            /\ p[1].op = "close" /\ p[1].f = f
        BY <2>2 DEF DoOn, Frame, Op
      <3>2. f # journal /\ InUse(f) /\ InUse(f)'
        BY <1>2, <2>2, FileAssumption DEF IInv, JournalOK, InUse
      <3>3. FrameOK(p[1])'
        BY <1>2, <2>2, <3>1, <3>2 DEF FrameOK, Closing
      <3>4. \A i \in 1 .. Len(p) : FrameOK(p[i])' /\ p[i].op # "closed"
        BY <2>5, <2>6, <3>1, <3>3
      <3>5. \A i, j \in 1 .. Len(p) : i < j => Before(p[i], p[j])
        BY <2>5, <3>1 DEF Before, Using, Closing
      <3>6. \A j \in 2 .. Len(todo) : Before(p[1], todo[j])
        BY <2>2, <2>5, <2>6, <3>1 DEF Before, Closing, Opener
      <3>7. \A i \in 1 .. Len(p), j \in 2 .. Len(todo) : Before(p[i], todo[j])
        BY <2>6, <3>1, <3>6
      <3>8. Then(p)
        BY <2>4, <2>8
      <3> HIDE DEF p
      <3> QED
        BY Zenon, <1>1, <1>2, <3>1, <3>4, <3>5, <3>7, <3>8, Replaced
    <2> QED
      BY <2>1, <2>7, <2>8
  <1> QED
    BY SMTT(90), <1>3, <1>4 DEF ProcessDeferred

LEMMA CloseStep ==
    ASSUME IInv, journal_file_close
    PROVE  IInv'
  <1>1. /\ call = Idle /\ todo # <<>> /\ UNCHANGED <<tvars, fvars, svars>>
        /\ todo[1].op = "close" /\ Head(todo) = todo[1] /\ todo[1] \in Frame
    BY HeadFacts DEF journal_file_close, Doing
  <1>2. /\ archive' \in [File -> BOOLEAN] /\ archive' = archive /\ journal' = journal
        /\ UNCHANGED <<tvars, fvars, sigbus, place>>
    BY <1>1 DEF IInv, TypeOK, svars
  <1>3. PICK f \in File : f = Head(todo).f /\ InUse(f) /\ f # journal
    BY <1>1, HeadFacts DEF FrameOK, Using, Closing
  <1> DEFINE p == <<DoOn("stop", f), DoOn("closed", f)>>
             q == <<DoOn("tag", f), DoOn("stop", f), DoOn("closed", f)>>
  <1>4. Then(p) \/ Then(q)
    BY SMTT(90), <1>3 DEF journal_file_close
  <1>5. ASSUME NEW op \in {"tag", "stop", "closed"}
        PROVE  /\ DoOn(op, f) \in Frame /\ FrameOK(DoOn(op, f))'
               /\ DoOn(op, f).op = op /\ DoOn(op, f).f = f
               /\ \A j \in 2 .. Len(todo) : Before(DoOn(op, f), todo[j])
    <2>1. DoOn(op, f) \in Frame /\ DoOn(op, f).op = op /\ DoOn(op, f).f = f
      BY DEF DoOn, Frame, Op
    <2>2. FrameOK(DoOn(op, f))'
      BY <1>2, <1>3, <2>1 DEF FrameOK, Using, Closing, InUse
    <2>3. \A j \in 2 .. Len(todo) : Before(todo[1], todo[j])
      BY <1>1, HeadFacts
    <2> QED
      BY <1>1, <1>3, <2>1, <2>2, <2>3 DEF Before, Closing, Opener
  <1>6. PICK tag \in Frame, stop \in Frame, closed \in Frame :
          tag = DoOn("tag", f) /\ stop = DoOn("stop", f) /\ closed = DoOn("closed", f)
    BY <1>5
  <1>7. /\ FrameOK(tag)' /\ FrameOK(stop)' /\ FrameOK(closed)'
        /\ tag.op = "tag" /\ stop.op = "stop" /\ closed.op = "closed" /\ stop.f = closed.f
        /\ \A j \in 2 .. Len(todo) :
             Before(tag, todo[j]) /\ Before(stop, todo[j]) /\ Before(closed, todo[j])
    BY <1>5, <1>6
  <1>8. Before(tag, stop) /\ Before(tag, closed) /\ Before(stop, closed)
    BY SMTT(90), <1>7 DEF Before, Using, Closing, Opener
  <1>9. CASE Then(p)
    <2> DEFINE s == <<stop, closed>>
    <2>1. s \in Seq(Frame) /\ Len(s) = 2 /\ s[1] = stop /\ s[2] = closed
      OBVIOUS
    <2>2. Then(s)
      BY <1>6, <1>9
    <2> HIDE DEF s
    <2>3. /\ \A i \in 1 .. Len(s) : FrameOK(s[i])'
          /\ \A i, j \in 1 .. Len(s) : i < j => Before(s[i], s[j])
          /\ \A i \in 1 .. Len(s), j \in 2 .. Len(todo) : Before(s[i], todo[j])
      BY <1>7, <1>8, <2>1
    <2>4. \A i \in 1 .. Len(s) : s[i].op = "closed" =>
             i > 1 /\ s[i - 1].op = "stop" /\ s[i - 1].f = s[i].f
      BY <1>7, <2>1
    <2>5. todo[1].op # "stop"
      BY <1>1
    <2> QED
      BY Zenon, <1>1, <1>2, <2>1, <2>2, <2>3, <2>4, <2>5, Replaced
  <1>10. CASE Then(q)
    <2> DEFINE s == <<tag, stop, closed>>
    <2>1. s \in Seq(Frame) /\ Len(s) = 3 /\ s[1] = tag /\ s[2] = stop /\ s[3] = closed
      OBVIOUS
    <2>2. Then(s)
      BY <1>6, <1>10
    <2> HIDE DEF s
    <2>3. /\ \A i \in 1 .. Len(s) : FrameOK(s[i])'
          /\ \A i, j \in 1 .. Len(s) : i < j => Before(s[i], s[j])
          /\ \A i \in 1 .. Len(s), j \in 2 .. Len(todo) : Before(s[i], todo[j])
      BY <1>7, <1>8, <2>1
    <2>4. \A i \in 1 .. Len(s) : s[i].op = "closed" =>
             i > 1 /\ s[i - 1].op = "stop" /\ s[i - 1].f = s[i].f
      BY <1>7, <2>1
    <2>5. todo[1].op # "stop"
      BY <1>1
    <2> QED
      BY Zenon, <1>1, <1>2, <2>1, <2>2, <2>3, <2>4, <2>5, Replaced
  <1> QED
    BY <1>4, <1>9, <1>10

\* A function on a file is called.
LEMMA Started ==
    ASSUME IInv, call = Idle, todo # <<>>, todo[1].op \in Calling \ {"opened"},
           NEW fn \in {"online", "offline"}, NEW f \in File, InUse(f), InUse(f)',
           NEW wait \in BOOLEAN, NEW left \in 0 .. MaxObjects, CallOn(fn, f, wait, left), todo' = todo,
           todo[1].op \in Using => todo[1].f = f,
           todo[1].op = "stop" => fn = "offline" /\ wait
    PROVE  Caller' /\ CallOK' /\ call' \in Call /\ call'.fn = fn
  <1>1. /\ call' \in Call /\ call'.fn = fn /\ call'.f = f /\ call'.wait = wait /\ call'.next = "return"
    BY DEF CallOn, Call, Fn
  <1> QED
    BY <1>1 DEF Caller, CallOK, Writing

LEMMA StartedInPlace ==
    ASSUME IInv, call = Idle, todo # <<>>, todo[1].op \in Calling \ {"opened"},
           NEW fn \in {"online", "offline"}, NEW f \in File, InUse(f),
           NEW wait \in BOOLEAN, NEW left \in 0 .. MaxObjects, CallOn(fn, f, wait, left), todo' = todo,
           todo[1].op \in Using => todo[1].f = f,
           todo[1].op = "stop" => fn = "offline" /\ wait,
           UNCHANGED <<tvars, fvars, svars>>
    PROVE  IInv'
  <1>1. InUse(f)' /\ place' = place /\ journal' = journal
    BY DEF InUse, svars
  <1>2. Caller' /\ CallOK' /\ call' \in Call /\ call'.fn = fn
    BY SMTT(90), <1>1, Started
  <1>3. TypeOK'
    BY SMTT(90), <1>2 DEF IInv, TypeOK, tvars, fvars, svars
  <1>4. Handlers'
    <2>1. todo[1].op # "closed" /\ call'.fn # "idle"
      BY <1>2 DEF Calling
    <2>2. (\A i \in 1 .. Len(todo) : FrameOK(todo[i]))'
      BY <1>1, SameFrames DEF IInv, Handlers
    <2>3. (\A i, j \in 1 .. Len(todo) : i < j => Before(todo[i], todo[j]))'
      BY <1>1, SameFrames DEF IInv, Handlers
    <2> QED
      BY <2>1, <2>2, <2>3 DEF IInv, Handlers
  <1>5. JournalOK'
    BY SMTT(90), <1>1 DEF IInv, JournalOK
  <1>6. ASSUME NEW g \in File PROVE FileOK(g)'
    <2>1. call.fn = "idle"
      BY DEF Idle
    <2>2. FileOK(g)
      BY DEF IInv, Protocol
    <2>3. /\ header' = header /\ disk' = disk /\ pending' = pending /\ lost' = lost
          /\ archive' = archive /\ thread' = thread /\ offline' = offline /\ place' = place
      BY DEF tvars, fvars, svars
    <2> QED
      BY SMTT(90), <2>1, <2>2, <2>3 DEF FileOK, InUse
  <1> QED
    BY <1>2, <1>3, <1>4, <1>5, <1>6 DEF IInv, Protocol

LEMMA CallStepStep ==
    ASSUME IInv, CallStep
    PROVE  IInv'
  <1>1. /\ call = Idle /\ todo # <<>> /\ UNCHANGED <<tvars, fvars, svars>> /\ todo' = todo
        /\ Head(todo) = todo[1] /\ FrameOK(todo[1])
        /\ \/ todo[1].op = "tag" /\ CallOn("online", todo[1].f, FALSE, 0)
           \/ todo[1].op = "stop" /\ CallOn("offline", todo[1].f, TRUE, 0)
           \/ todo[1].op = "sync" /\ CallOn("offline", todo[1].f, FALSE, 0)
    BY Zenon, HeadFacts DEF CallStep, Doing
  <1>2. PICK f \in File : f = todo[1].f /\ InUse(f)
    BY Zenon, <1>1 DEF FrameOK, Using, Closing
  <1>3. 0 \in 0 .. MaxObjects
    BY MaxObjectsAssumption
  <1>4. PICK fn \in {"online", "offline"}, wait \in BOOLEAN :
          /\ CallOn(fn, f, wait, 0)
          /\ todo[1].op = "stop" => fn = "offline" /\ wait
    BY Zenon, <1>1, <1>2
  <1>5. todo[1].op \in Calling \ {"opened"}
    BY Zenon, <1>1 DEF Calling
  <1> QED
    BY <1>1, <1>2, <1>3, <1>4, <1>5, StartedInPlace

LEMMA AppendEntryStep ==
    ASSUME IInv, AppendEntry
    PROVE  IInv'
  <1>1. /\ call = Idle /\ todo # <<>> /\ UNCHANGED <<tvars, fvars, svars>>
        /\ todo[1].op \in {"append_first", "append"} /\ Head(todo) = todo[1]
    BY HeadFacts DEF AppendEntry, Doing
  <1>2. /\ archive' \in [File -> BOOLEAN] /\ archive' = archive /\ journal' = journal
        /\ UNCHANGED <<tvars, fvars, archive, sigbus, place>>
    BY <1>1 DEF IInv, TypeOK, svars
  <1>3. CASE Then(<<>>)
    BY <1>1, <1>2, <1>3, Dropped
  <1>4. CASE Then(RotateAndAppend)
    <2>1. RotateAndAppend \in Seq(Frame) /\ Len(RotateAndAppend) = 3
      BY DEF RotateAndAppend, Frame, Do, Op
    <2>2. \A i \in 1 .. 3 : RotateAndAppend[i].op \in {"rotate", "find", "append"}
      BY DEF RotateAndAppend, Do
    <2>3. \A i \in 1 .. 3 : FrameOK(RotateAndAppend[i])'
      BY <2>2 DEF FrameOK, Using, Closing, RotateAndAppend
    <2>4. \A i, j \in 1 .. 3 : i < j => Before(RotateAndAppend[i], RotateAndAppend[j])
      BY SMTT(90), <2>2 DEF Before, Using, Closing
    <2>5. \A i \in 1 .. 3, j \in 2 .. Len(todo) : Before(RotateAndAppend[i], todo[j])
      BY <1>1, <2>2, HeadFacts DEF Before, Using, Closing
    <2>6. /\ \A i \in 1 .. Len(RotateAndAppend) : FrameOK(RotateAndAppend[i])'
          /\ \A i, j \in 1 .. Len(RotateAndAppend) : i < j => Before(RotateAndAppend[i], RotateAndAppend[j])
          /\ \A i \in 1 .. Len(RotateAndAppend), j \in 2 .. Len(todo) : Before(RotateAndAppend[i], todo[j])
          /\ \A i \in 1 .. Len(RotateAndAppend) : RotateAndAppend[i].op # "closed"
      BY <2>1, <2>2, <2>3, <2>4, <2>5
    <2>7. todo[1].op # "stop"
      BY <1>1
    <2> QED
      BY SMTT(90), <1>1, <1>2, <1>4, <2>1, <2>6, <2>7, Replaced
  <1>5. CASE /\ journal # None /\ todo' = todo
             /\ \E left \in 0 .. MaxObjects - 1 : CallOn("online", journal, FALSE, left)
    <2>1. PICK f \in File : f = journal /\ InUse(f)
      BY <1>5 DEF IInv, TypeOK, JournalOK, InUse
    <2>2. PICK left \in 0 .. MaxObjects - 1 : CallOn("online", f, FALSE, left)
      BY Zenon, <1>5, <2>1 DEF CallOn
    <2>4. left \in 0 .. MaxObjects
      BY MaxObjectsAssumption
    <2>3. todo[1].op \in Calling \ {"opened"} /\ todo[1].op \notin Using /\ todo[1].op # "stop"
      BY <1>1 DEF Calling, Using, Closing
    <2> QED
      BY Zenon, <1>1, <1>5, <2>1, <2>2, <2>3, <2>4, StartedInPlace
  <1> QED
    BY Zenon, <1>3, <1>4, <1>5 DEF AppendEntry

-----------------------------------------------------------------------------
(* The handlers that open, defer, close or dispose of a file *)

HIDE Untyped

\* The first frame is replaced while a file changes its place.
LEMMA Placed ==
    ASSUME NEW t \in Seq(Frame), t # <<>>, t[1].op # "stop",
           NEW p \in Seq(Frame), todo' = p \o Tail(t),
           \A i \in 1 .. Len(p) : FrameOK(p[i])' /\ p[i].op # "closed",
           \A j \in 2 .. Len(t) : FrameOK(t[j])',
           \A i, j \in 1 .. Len(p) : i < j => Before(p[i], p[j])',
           \A i \in 1 .. Len(p), j \in 2 .. Len(t) : Before(p[i], t[j])',
           \A i, j \in 2 .. Len(t) : i < j => Before(t[i], t[j])',
           \A j \in 2 .. Len(t) : t[j].op = "closed" => t[j - 1].op = "stop" /\ t[j - 1].f = t[j].f
    PROVE  Handlers'
  <1>1. /\ todo' \in Seq(Frame) /\ Len(todo') = Len(p) + Len(t) - 1
        /\ Len(t) \in Nat \ {0} /\ Len(p) \in Nat
        /\ \A i \in 1 .. Len(p) : todo'[i] = p[i]
        /\ \A i \in Len(p) + 1 .. Len(todo') : todo'[i] = t[i - Len(p) + 1]
    BY Push
  <1>2. \A i \in 1 .. Len(todo') : i \in 1 .. Len(p) \/ i - Len(p) + 1 \in 2 .. Len(t)
    BY <1>1
  <1>3. (\A i \in 1 .. Len(todo) : FrameOK(todo[i]))'
    BY <1>1, <1>2
  <1>4. ASSUME NEW i \in 1 .. Len(todo'), NEW j \in 1 .. Len(todo'), i < j
        PROVE  Before(todo[i], todo[j])'
    <2>1. CASE j \in 1 .. Len(p)
      BY <1>1, <1>4, <2>1
    <2>2. CASE j \notin 1 .. Len(p) /\ i \in 1 .. Len(p)
      <3>1. j - Len(p) + 1 \in 2 .. Len(t) /\ todo'[j] = t[j - Len(p) + 1] /\ todo'[i] = p[i]
        BY <1>1, <2>2
      <3> QED
        BY <2>2, <3>1
    <2>3. CASE i \notin 1 .. Len(p)
      <3>1. /\ i - Len(p) + 1 \in 2 .. Len(t) /\ j - Len(p) + 1 \in 2 .. Len(t)
            /\ i - Len(p) + 1 < j - Len(p) + 1
            /\ todo'[i] = t[i - Len(p) + 1] /\ todo'[j] = t[j - Len(p) + 1]
        BY <1>1, <1>4, <2>3
      <3> QED
        BY Zenon, <3>1
    <2> QED
      BY <1>1, <1>4, <2>1, <2>2, <2>3
  <1>5. ASSUME NEW i \in 1 .. Len(todo'), todo'[i].op = "closed"
        PROVE  i # 1 /\ todo'[i - 1].op = "stop" /\ todo'[i - 1].f = todo'[i].f
    <2> DEFINE k == i - Len(p) + 1
    <2>1. k \in 2 .. Len(t) /\ todo'[i] = t[k]
      BY <1>1, <1>2, <1>5
    <2>2. t[k - 1].op = "stop" /\ t[k - 1].f = t[k].f
      BY <2>1, <1>5
    <2>3. k - 1 \in 2 .. Len(t) /\ i - 1 \in Len(p) + 1 .. Len(todo') /\ k - 1 = (i - 1) - Len(p) + 1
      BY <1>1, <2>1, <2>2
    <2> QED
      BY SMTT(90), <1>1, <2>1, <2>2, <2>3
  <1> QED
    BY Zenon, <1>3, <1>4, <1>5 DEF Handlers

USE Untyped

\* journal_file_open(): the file that is opened is not in use, and no later
\* frame works on it.
LEMMA OpenedOK ==
    ASSUME IInv, call = Idle, todo # <<>>, todo[1].op \in Opener,
           NEW g \in File, place[g] \notin {"open", "deferred"}, ~lost[g], header[g] = "online" => disk[g] = "online",
           OpenFile(g), UNCHANGED <<thread, fvars, archive>>
    PROVE  IInv'
  <1>1. PICK t \in Seq(Frame) : t = todo
    BY DEF IInv, TypeOK
  <1>2. PICK left \in 0 .. MaxObjects - 1 : CallOn("online", g, FALSE, left)
    BY Zenon DEF OpenFile
  <1>3. /\ call' \in Call /\ call'.fn = "online" /\ call'.f = g /\ call'.wait = FALSE
    <2>1. left \in 0 .. MaxObjects
      BY MaxObjectsAssumption
    <2> QED
      BY <1>2, <2>1 DEF CallOn, Call, Fn
  <1>4. /\ place' = [place EXCEPT ![g] = "open"] /\ journal' = g
        /\ offline' = [offline EXCEPT ![g] = "joined"] /\ sigbus' = [sigbus EXCEPT ![g] = FALSE]
    BY <1>1 DEF OpenFile
  <1>5. PICK x \in Frame : /\ x.op \in {"opened", "created"} /\ x.f = g
                           /\ todo' = <<x>> \o Tail(t)
    <2>1. PICK o \in {"opened", "created"} : todo' = <<DoOn(o, g)>> \o Tail(t)
      BY Zenon, <1>1 DEF OpenFile
    <2>2. DoOn(o, g) \in Frame /\ DoOn(o, g).op = o /\ DoOn(o, g).f = g
      BY DEF DoOn, Frame, Op
    <2> QED
      BY Zenon, <2>1, <2>2
  <1> DEFINE p == <<x>>
  <1>6. p \in Seq(Frame) /\ Len(p) = 1 /\ p[1] = x
    OBVIOUS
  <1>7. place'[g] = "open" /\ \A f \in File : f # g => place'[f] = place[f]
    BY <1>4 DEF IInv, TypeOK
  <1>8. ASSUME NEW j \in 2 .. Len(t)
        PROVE  /\ t[j] \in Frame /\ FrameOK(t[j]) /\ t[j].op # "reopen"
               /\ t[j].op \in Using => t[j].f \in File /\ place[t[j].f] = "open" /\ t[j].f # g
    <2>1. Before(todo[1], todo[j]) /\ FrameOK(todo[j]) /\ todo[j] \in Frame
      BY <1>1, HeadFacts
    <2>2. todo[j].op # "reopen"
      BY <2>1 DEF Before, Opener, Closing
    <2>3. todo[j].op \in Using => todo[j].f \in File /\ place[todo[j].f] = "open"
      BY <2>1 DEF Before, FrameOK
    <2> QED
      BY <1>1, <2>1, <2>2, <2>3
  <1>9. \A j \in 2 .. Len(t) : FrameOK(t[j])'
    BY <1>4, <1>7, <1>8 DEF FrameOK, InUse, Using
  <1>10. \A j \in 2 .. Len(t) : Before(x, t[j])'
    BY <1>5, <1>7, <1>8 DEF Before, Opener
  <1>11. \A i, j \in 2 .. Len(t) : i < j => Before(t[i], t[j])'
    <2>1. \A i, j \in 2 .. Len(t) : i < j => Before(t[i], t[j])
      <3>1. Len(t) \in Nat /\ \A i \in 2 .. Len(t) : i \in 1 .. Len(t)
        OBVIOUS
      <3> QED
        BY <1>1, <3>1 DEF IInv, Handlers
    <2> QED
      BY <1>7, <1>8, <2>1 DEF Before
  <1>12. FrameOK(x)'
    BY <1>5, <1>7 DEF FrameOK, InUse, Using, Closing
  <1>13. \A j \in 2 .. Len(t) : t[j].op = "closed" => t[j - 1].op = "stop" /\ t[j - 1].f = t[j].f
    <2>1. \A j \in 2 .. Len(t) : j \in 1 .. Len(t) /\ j # 1
      OBVIOUS
    <2> QED
      BY <1>1, <2>1 DEF IInv, Handlers
  <1>14. Handlers'
    <2> HIDE DEF p
    <2>1. todo' = p \o Tail(t)
      BY <1>4, <1>5 DEF p
    <2>2. t[1].op # "stop" /\ t # <<>>
      BY <1>1 DEF Opener
    <2>3. /\ \A i \in 1 .. Len(p) : FrameOK(p[i])' /\ p[i].op # "closed"
          /\ \A i, j \in 1 .. Len(p) : i < j => Before(p[i], p[j])'
          /\ \A i \in 1 .. Len(p), j \in 2 .. Len(t) : Before(p[i], t[j])'
      BY <1>5, <1>6, <1>10, <1>12
    <2> QED
      BY Zenon, <1>6, <1>9, <1>11, <1>13, <2>1, <2>2, <2>3, Placed
  <1>15. todo' \in Seq(Frame) /\ todo' # <<>> /\ todo'[1] = x
    <2>1. t # <<>> /\ todo' = p \o Tail(t)
      BY <1>1, <1>4, <1>5
    <2> HIDE DEF p
    <2>2. todo' \in Seq(Frame) /\ Len(todo') > 0 /\ todo'[1] = p[1]
      <3>1. /\ todo' \in Seq(Frame) /\ Len(todo') = Len(p) + Len(t) - 1 /\ Len(t) \in Nat \ {0}
            /\ \A i \in 1 .. Len(p) : todo'[i] = p[i]
        <4>1. p \in Seq(Frame) /\ t \in Seq(Frame)
          BY <1>6
        <4> QED
          BY <4>1, <2>1, Push
      <3> QED
        BY <1>6, <3>1
    <2> QED
      BY <1>6, <2>2
  <1>16. Caller' /\ JournalOK'
    BY <1>3, <1>4, <1>5, <1>7, <1>15 DEF Caller, JournalOK, Calling, Using
  <1>17. TypeOK'
    BY <1>3, <1>4, <1>15 DEF IInv, TypeOK, OfflineState, Place, fvars
  <1>18. CallOK'
    BY <1>3, <1>7 DEF CallOK, InUse, Writing
  <1>19. ASSUME NEW f \in File PROVE FileOK(f)'
    <2>1. call.fn = "idle" /\ FileOK(f)
      BY DEF Idle, IInv, Protocol
    <2>2. CASE f # g
      <3>1. place'[f] = place[f] /\ offline'[f] = offline[f]
        BY SMTT(90), <1>4, <2>2 DEF IInv, TypeOK
      <3> QED
        BY <2>1, <3>1 DEF FileOK, InUse, fvars
    <2>3. CASE f = g
      <3>1. place'[f] = "open" /\ offline'[f] = "joined" /\ thread[f] = "none"
        BY <1>4, <2>1, <2>3 DEF IInv, TypeOK, FileOK, InUse
      <3> QED
        BY <2>1, <2>3, <3>1 DEF FileOK, InUse, fvars
    <2> QED
      BY <2>2, <2>3
  <1> QED
    BY <1>14, <1>16, <1>17, <1>18, <1>19 DEF IInv, Protocol

LEMMA CreateJournalStep ==
    ASSUME IInv, CreateJournal
    PROVE  IInv'
  <1>1. call = Idle /\ todo # <<>> /\ Head(todo).op \in Opener /\ UNCHANGED <<thread, fvars, archive>>
    BY DEF CreateJournal, Opening, Doing, Opener
  <1>2. todo[1].op \in Opener /\ todo[1].op # "stop"
    BY <1>1, HeadFacts DEF Opener
  <1>3. CASE \E g \in File : place[g] = "free" /\ OpenFile(g)
    <2>1. PICK g \in File : place[g] = "free" /\ OpenFile(g)
      BY <1>3
    <2>2. ~lost[g] /\ header[g] = "offline"
      BY <2>1 DEF IInv, Protocol, FileOK
    <2> QED
      BY <1>1, <1>2, <2>1, <2>2, OpenedOK
  <1>4. CASE journal' = None /\ Then(<<>>) /\ UNCHANGED <<offline, sigbus, place>>
    BY <1>1, <1>2, <1>4, Dropped DEF tvars
  <1> QED
    BY <1>3, <1>4 DEF CreateJournal

LEMMA ReopenJournalStep ==
    ASSUME IInv, ReopenJournal
    PROVE  IInv'
  <1>1. /\ call = Idle /\ todo # <<>> /\ todo[1].op = "reopen" /\ Head(todo) = todo[1]
        /\ UNCHANGED <<thread, fvars, archive>> /\ FrameOK(todo[1])
    BY HeadFacts DEF ReopenJournal, Doing
  <1>2. PICK g \in File : g = Head(todo).f /\ place[g] \in {"closed", "left"}
    BY <1>1 DEF FrameOK
  <1>3. CASE header[g] = "offline" /\ OpenFile(g)
    <2>1. ~lost[g] /\ todo[1].op \in Opener
      BY <1>1, <1>3 DEF IInv, Protocol, FileOK, Opener
    <2> QED
      BY SMTT(90), <1>1, <1>2, <1>3, <2>1, OpenedOK
  <1>4. CASE Then(<<DoOn("dispose", g)>>) /\ UNCHANGED <<offline, sigbus, place, journal>>
    <2>1. PICK p : p = <<DoOn("dispose", g)>>
      BY Zenon
    <2>2. p \in Seq(Frame) /\ Len(p) = 1 /\ p[1].op = "dispose" /\ p[1].f = g
      BY <2>1 DEF DoOn, Frame, Op
    <2>3. \A i \in 1 .. Len(p) : FrameOK(p[i])'
      BY <2>2 DEF FrameOK, Using, Closing
    <2>4. \A i \in 1 .. Len(p), j \in 2 .. Len(todo) : Before(p[i], todo[j])
      BY <1>1, <2>2, HeadFacts DEF Before, Using, Closing, Opener
    <2>5. /\ \A i, j \in 1 .. Len(p) : i < j => Before(p[i], p[j])
          /\ \A i \in 1 .. Len(p) : p[i].op # "closed"
      BY <2>2
    <2>6. archive' \in [File -> BOOLEAN] /\ archive' = archive
      BY <1>1 DEF IInv, TypeOK
    <2>7. Then(p) /\ UNCHANGED tvars
      BY <1>1, <1>4, <2>1 DEF tvars
    <2> QED
      BY <1>1, <1>4, <2>2, <2>3, <2>4, <2>5, <2>6, <2>7, Replaced
  <1> QED
    BY Zenon, <1>2, <1>3, <1>4 DEF ReopenJournal

LEMMA DisposeJournalStep ==
    ASSUME IInv, DisposeJournal
    PROVE  IInv'
  <1>1. /\ call = Idle /\ todo # <<>> /\ todo[1].op = "dispose" /\ Head(todo) = todo[1]
        /\ UNCHANGED <<tvars, fvars, archive, sigbus, journal>> /\ FrameOK(todo[1])
    BY HeadFacts DEF DisposeJournal, Doing
  <1>2. PICK g \in File : g = Head(todo).f /\ place[g] \in {"closed", "left"}
    BY <1>1 DEF FrameOK, DisposeJournal
  <1>3. CASE Then(<<>>) /\ UNCHANGED place
    BY <1>1, <1>3, Dropped
  <1>4. CASE /\ place' = [place EXCEPT ![g] = "disposed"] /\ Then(<<Do("create")>>)
    <2>1. PICK t \in Seq(Frame) : t = todo
      BY DEF IInv, TypeOK
    <2>2. PICK x \in Frame : x = Do("create") /\ x.op = "create"
      <3>1. Do("create") \in Frame /\ Do("create").op = "create"
        BY DEF Do, Frame, Op
      <3> QED
        BY <3>1
    <2> DEFINE p == <<x>>
    <2>3. p \in Seq(Frame) /\ Len(p) = 1 /\ p[1] = x
      OBVIOUS
    <2>4. place'[g] = "disposed" /\ \A f \in File : f # g => place'[f] = place[f]
      BY <1>4 DEF IInv, TypeOK
    <2>5. ASSUME NEW j \in 2 .. Len(t)
          PROVE  /\ t[j] \in Frame /\ FrameOK(t[j]) /\ t[j].op # "reopen"
                 /\ t[j].op \in Using => t[j].f \in File /\ place[t[j].f] = "open" /\ t[j].f # g
      <3>1. Before(todo[1], todo[j]) /\ FrameOK(todo[j]) /\ todo[j] \in Frame
        BY <1>1, <2>1, HeadFacts
      <3>2. todo[j].op # "reopen"
        BY <1>1, <3>1 DEF Before, Closing
      <3>3. todo[j].op \in Using => todo[j].f \in File /\ place[todo[j].f] = "open"
        BY <1>1, <3>1 DEF Before, FrameOK, Opener
      <3> QED
        BY <1>2, <2>1, <3>1, <3>2, <3>3
    <2>6. \A j \in 2 .. Len(t) : FrameOK(t[j])'
      BY <1>1, <1>4, <2>4, <2>5 DEF FrameOK, InUse
    <2>7. \A j \in 2 .. Len(t) : Before(x, t[j])'
      BY SMTT(90), <2>2, <2>4, <2>5 DEF Before
    <2>8. \A i, j \in 2 .. Len(t) : i < j => Before(t[i], t[j])'
      <3>1. \A i, j \in 2 .. Len(t) : i < j => Before(t[i], t[j])
        <4>1. Len(t) \in Nat /\ \A i \in 2 .. Len(t) : i \in 1 .. Len(t)
          OBVIOUS
        <4> QED
          BY <2>1, <4>1 DEF IInv, Handlers
      <3> QED
        BY SMTT(90), <2>4, <2>5, <3>1 DEF Before
    <2>9. FrameOK(x)'
      BY <2>2 DEF FrameOK, Using, Closing
    <2>10. \A j \in 2 .. Len(t) : t[j].op = "closed" => t[j - 1].op = "stop" /\ t[j - 1].f = t[j].f
      <3>1. \A j \in 2 .. Len(t) : j \in 1 .. Len(t) /\ j # 1
        OBVIOUS
      <3> QED
        BY <2>1, <3>1 DEF IInv, Handlers
    <2> HIDE DEF p
    <2>11. todo' = p \o Tail(t) /\ call' = call /\ t[1].op # "stop" /\ t # <<>>
      BY <1>1, <1>4, <2>1, <2>2 DEF p, Then
    <2>12. Handlers'
      <3>1. /\ \A i \in 1 .. Len(p) : FrameOK(p[i])' /\ p[i].op # "closed"
            /\ \A i, j \in 1 .. Len(p) : i < j => Before(p[i], p[j])'
            /\ \A i \in 1 .. Len(p), j \in 2 .. Len(t) : Before(p[i], t[j])'
        BY <2>2, <2>3, <2>7, <2>9
      <3> QED
        BY Zenon, <2>3, <2>6, <2>8, <2>10, <2>11, <3>1, Placed
    <2>13. call.fn = "idle" /\ todo' \in Seq(Frame)
      BY <1>1, <2>3, <2>11, Push DEF Idle
    <2>14. TypeOK'
      BY <1>1, <1>4, <2>11, <2>13 DEF IInv, TypeOK, Place, fvars, tvars
    <2>15. Caller' /\ CallOK'
      BY <2>11, <2>13 DEF Caller, CallOK
    <2>16. JournalOK'
      BY <1>1, <1>2, <2>4 DEF IInv, TypeOK, JournalOK
    <2>17. ASSUME NEW f \in File PROVE FileOK(f)'
      <3>1. CASE f # g
        <4>1. place'[f] = place[f]
          BY SMTT(90), <2>4, <3>1
        <4> QED
          BY <1>1, <1>4, <2>11, <2>13, <4>1 DEF IInv, Protocol, FileOK, InUse, fvars, tvars
      <3>2. CASE f = g
        <4>1. place'[f] = "disposed" /\ place[f] \notin {"open", "deferred", "free"}
          BY SMTT(90), <1>2, <2>4, <3>2
        <4> QED
          BY <1>1, <1>4, <2>11, <2>13, <4>1 DEF IInv, Protocol, FileOK, InUse, fvars, tvars
      <3> QED
        BY SMTT(90), <3>1, <3>2
    <2> QED
      BY <2>12, <2>14, <2>15, <2>16, <2>17 DEF IInv, Protocol
  <1> QED
    BY Zenon, <1>2, <1>3, <1>4 DEF DisposeJournal

\* A file in use changes its place while the first frame is on it.
LEMMA Replacing ==
    ASSUME IInv, call = Idle, todo # <<>>, todo[1].op \in {"defer", "closed"},
           NEW f \in File, f = todo[1].f, NEW q \in {"deferred", "closed"},
           q = "closed" => todo[1].op = "closed",
           place' = [place EXCEPT ![f] = q], journal' = journal
    PROVE  /\ \A j \in 2 .. Len(todo) : \A x : x = todo[j] => FrameOK(x)'
           /\ \A i, j \in 2 .. Len(todo) : \A x, y : i < j /\ x = todo[i] /\ y = todo[j] => Before(x, y)'
           /\ \A j \in 2 .. Len(todo) : \A x, y : x = todo[1] /\ y = todo[j] => Before(x, y)'
           /\ InUse(f) /\ f # journal /\ JournalOK'
  <1>1. place'[f] = q /\ \A g \in File : g # f => place'[g] = place[g]
    BY SMTT(90) DEF IInv, TypeOK
  <1>2. InUse(f) /\ f # journal
    BY HeadFacts DEF FrameOK, Using, Closing
  <1>3. ASSUME NEW j \in 2 .. Len(todo)
        PROVE  /\ todo[j].op \in Using => todo[j].f # f
               /\ FrameOK(todo[j]) /\ Before(todo[1], todo[j])
    BY HeadFacts DEF Before
  <1>4. ASSUME NEW j \in 2 .. Len(todo), NEW x, x = todo[j] PROVE FrameOK(x)'
    BY <1>1, <1>2, <1>3, <1>4 DEF FrameOK, InUse
  <1>5. ASSUME NEW i \in 2 .. Len(todo), NEW j \in 2 .. Len(todo), NEW x, NEW y,
               i < j, x = todo[i], y = todo[j]
        PROVE  Before(x, y)'
    <2>1. Before(x, y)
      <3>1. i \in 1 .. Len(todo) /\ j \in 1 .. Len(todo)
        BY HeadFacts
      <3> QED
        BY <1>5, <3>1 DEF IInv, Handlers
    <2>2. y.op \in Using => y.f \in File /\ y.f # f
      BY <1>3, <1>5 DEF FrameOK
    <2> QED
      BY <1>1, <2>1, <2>2 DEF Before
  <1>6. ASSUME NEW j \in 2 .. Len(todo), NEW x, NEW y, x = todo[1], y = todo[j]
        PROVE  Before(x, y)'
    BY <1>3, <1>6 DEF Before, Opener
  <1>7. JournalOK'
    BY <1>1, <1>2 DEF IInv, TypeOK, JournalOK
  <1> QED
    BY <1>2, <1>4, <1>5, <1>6, <1>7

LEMMA InitiateCloseStep ==
    ASSUME IInv, InitiateClose
    PROVE  IInv'
  <1>1. /\ call = Idle /\ todo # <<>> /\ todo[1].op = "defer" /\ Head(todo) = todo[1]
        /\ UNCHANGED <<tvars, fvars, archive, sigbus, journal, todo>> /\ FrameOK(todo[1])
    BY HeadFacts DEF InitiateClose, Doing
  <1>2. PICK f \in File : f = todo[1].f /\ InUse(f)
    BY <1>1 DEF FrameOK, Using
  <1>3. place' = [place EXCEPT ![f] = "deferred"] /\ CallOn("offline", f, FALSE, 0)
    BY Zenon, <1>1, <1>2 DEF InitiateClose
  <1>4. /\ \A j \in 2 .. Len(todo) : \A x : x = todo[j] => FrameOK(x)'
        /\ \A i, j \in 2 .. Len(todo) : \A x, y : i < j /\ x = todo[i] /\ y = todo[j] => Before(x, y)'
        /\ \A j \in 2 .. Len(todo) : \A x, y : x = todo[1] /\ y = todo[j] => Before(x, y)'
        /\ f # journal /\ JournalOK'
    BY Zenon, <1>1, <1>2, <1>3, Replacing
  <1>5. place'[f] = "deferred" /\ InUse(f)' /\ 0 \in 0 .. MaxObjects
    BY <1>3, MaxObjectsAssumption DEF IInv, TypeOK, InUse
  <1>6. Caller' /\ CallOK' /\ call' \in Call /\ call'.fn = "offline"
    BY ZenonT(30), <1>1, <1>2, <1>3, <1>5, Started DEF Calling
  <1>7. PICK t \in Seq(Frame) : t = todo
    BY DEF IInv, TypeOK
  <1>8. \A i \in 1 .. Len(t) : i = 1 \/ i \in 2 .. Len(t)
    OBVIOUS
  <1>9. \A i \in 1 .. Len(t) : FrameOK(t[i])'
    <2>1. FrameOK(t[1])'
      BY <1>1, <1>2, <1>4, <1>5, <1>7 DEF FrameOK
    <2> QED
      BY <1>4, <1>7, <1>8, <2>1
  <1>10. \A i, j \in 1 .. Len(t) : i < j => Before(t[i], t[j])'
    <2>1. \A i, j \in 1 .. Len(t) : i < j => j \in 2 .. Len(t)
      OBVIOUS
    <2> QED
      BY <1>4, <1>7, <1>8, <2>1
  <1>11. Handlers'
    <2>1. \A i \in 1 .. Len(t) : t[i].op = "closed" =>
            i # 1 /\ t[i - 1].op = "stop" /\ t[i - 1].f = t[i].f
      BY <1>1, <1>7 DEF IInv, Handlers
    <2> QED
      BY <1>1, <1>7, <1>9, <1>10, <2>1 DEF Handlers
  <1>12. TypeOK'
    BY <1>1, <1>3, <1>6 DEF IInv, TypeOK, Place, tvars, fvars
  <1>13. ASSUME NEW g \in File PROVE FileOK(g)'
    <2>1. /\ call.fn = "idle" /\ (InUse(g) => InUse(g)') /\ (InUse(g)' => InUse(g))
          /\ place'[g] = "free" => place[g] = "free"
      BY <1>1, <1>2, <1>3 DEF Idle, IInv, TypeOK, InUse
    <2>2. FileOK(g)
      BY DEF IInv, Protocol
    <2>3. /\ header' = header /\ disk' = disk /\ pending' = pending /\ lost' = lost
          /\ thread' = thread /\ offline' = offline /\ archive' = archive
      BY <1>1 DEF tvars, fvars
    <2> QED
      BY SMTT(90), <1>6, <2>1, <2>2, <2>3 DEF FileOK
  <1> QED
    BY <1>4, <1>6, <1>11, <1>12, <1>13 DEF IInv, Protocol

LEMMA ClosedStep ==
    ASSUME IInv, Closed
    PROVE  IInv'
  <1>1. /\ call = Idle /\ todo # <<>> /\ todo[1].op = "closed" /\ Head(todo) = todo[1]
        /\ UNCHANGED <<tvars, fvars, archive, sigbus, journal>> /\ FrameOK(todo[1])
        /\ Len(todo) \in Nat \ {0}
    BY HeadFacts DEF Closed, Doing
  <1>2. PICK f \in File : f = todo[1].f /\ InUse(f)
    BY <1>1 DEF FrameOK, Using, Closing
  <1>3. /\ place' = [place EXCEPT ![f] = "closed"] /\ call' = call /\ todo' = Tail(todo)
    BY Zenon, <1>1, <1>2, HeadFacts, Pop0 DEF Closed, Then
  <1>4. /\ \A j \in 2 .. Len(todo) : \A x : x = todo[j] => FrameOK(x)'
        /\ \A i, j \in 2 .. Len(todo) : \A x, y : i < j /\ x = todo[i] /\ y = todo[j] => Before(x, y)'
        /\ f # journal /\ JournalOK'
    BY Zenon, <1>1, <1>2, <1>3, Replacing
  <1>5. thread[f] = "none"
    BY <1>1, <1>2 DEF IInv, Handlers
  <1>6. PICK t \in Seq(Frame) : t = todo
    BY DEF IInv, TypeOK
  <1>7. Handlers' /\ todo' \in Seq(Frame)
    <2>1. /\ todo' \in Seq(Frame) /\ Len(todo') = Len(t) - 1 /\ Len(t) \in Nat \ {0}
          /\ \A i \in 1 .. Len(todo') : todo'[i] = t[i + 1] /\ i + 1 \in 2 .. Len(t)
      <3>1. /\ todo' \in Seq(Frame) /\ Len(todo') = Len(t) - 1 /\ Len(t) \in Nat \ {0}
            /\ \A i \in 1 .. Len(todo') : todo'[i] = t[i + 1]
        BY <1>1, <1>3, <1>6, Pop
      <3> QED
        BY <3>1
    <2>2. (\A i \in 1 .. Len(todo) : FrameOK(todo[i]))'
      BY <1>4, <1>6, <2>1
    <2>3. (\A i, j \in 1 .. Len(todo) : i < j => Before(todo[i], todo[j]))'
      <3>1. \A i, j \in 1 .. Len(todo') : i < j => i + 1 < j + 1
        OBVIOUS
      <3> QED
        BY SMTT(30), <1>4, <1>6, <2>1, <3>1
    <2>4. ASSUME NEW i \in 1 .. Len(todo'), todo'[i].op = "closed"
          PROVE  i # 1 /\ todo'[i - 1].op = "stop" /\ todo'[i - 1].f = todo'[i].f
      <3>1. t[i].op = "stop" /\ t[i].f = todo'[i].f
        <4>1. i + 1 \in 1 .. Len(t) /\ i + 1 # 1 /\ (i + 1) - 1 = i /\ t[i + 1].op = "closed"
          BY <2>1, <2>4
        <4>2. t[(i + 1) - 1].op = "stop" /\ t[(i + 1) - 1].f = t[i + 1].f
          BY <1>6, <4>1 DEF IInv, Handlers
        <4> QED
          BY Zenon, <2>1, <4>1, <4>2
      <3>2. i # 1
        BY <1>1, <1>6, <3>1
      <3>3. i - 1 \in 1 .. Len(todo') /\ (i - 1) + 1 = i
        BY SMTT(90), <2>1, <3>2
      <3> QED
        BY Zenon, <2>1, <3>1, <3>2, <3>3
    <2> QED
      BY SMTT(90), <2>1, <2>2, <2>3, <2>4 DEF Handlers
  <1>8. call.fn = "idle" /\ Caller' /\ CallOK'
    BY SMTT(90), <1>1, <1>3 DEF Idle, Caller, CallOK
  <1>9. TypeOK'
    BY <1>1, <1>3, <1>7 DEF IInv, TypeOK, Place, tvars, fvars
  <1>10. ASSUME NEW g \in File PROVE FileOK(g)'
    <2>1. CASE g # f
      <3>1. place'[g] = place[g]
        BY SMTT(90), <1>3, <2>1 DEF IInv, TypeOK
      <3> QED
        BY SMTT(90), <1>1, <1>3, <3>1 DEF IInv, Protocol, FileOK, InUse, tvars, fvars
    <2>2. CASE g = f
      <3>1. place'[g] = "closed" /\ thread'[g] = "none"
        BY SMTT(90), <1>1, <1>3, <1>5, <2>2 DEF IInv, TypeOK, tvars
      <3>2. FileOK(g) /\ ~lost[g] /\ ~InUse(g)' /\ place'[g] # "free"
        BY ZenonT(60), <1>2, <2>2, <3>1 DEF IInv, Protocol, FileOK, InUse
      <3>3. UNCHANGED <<header, disk, pending, lost, archive, offline>>
        BY <1>1 DEF tvars, fvars
      <3> QED
        BY ZenonT(30), <3>1, <3>2, <3>3 DEF FileOK
    <2> QED
      BY SMTT(90), <2>1, <2>2
  <1> QED
    BY <1>4, <1>7, <1>8, <1>9, <1>10 DEF IInv, Protocol

-----------------------------------------------------------------------------
(* The theorems *)

LEMMA HandleStep ==
    ASSUME IInv, Handle
    PROVE  IInv'
  BY Zenon, CreateJournalStep, FindExistingStep, ReopenJournalStep, DisposeJournalStep, FindJournalStep, AppendEntryStep,
     RotateStep, InitiateCloseStep, ProcessDeferredStep, CloseStep, CallStepStep, ClosedStep
  DEF Handle

LEMMA InCallStep ==
    ASSUME IInv, InCall
    PROVE  IInv'
  BY Zenon, SetOnlineStep, JoinStep, MarkOnlineStep, SyncOnlineStep, AppendObjectStep, SetOfflineStep,
     TryRestartStep, BeginStep, InlineStep
  DEF InCall

-----------------------------------------------------------------------------
(* The events of the main loop, and the invariant.                         *)

LEMMA EventStep ==
    ASSUME IInv, NEW p \in Seq(Frame), Event(p), journal' \in {journal, None},
           \A i \in 1 .. Len(p) : FrameOK(p[i])' /\ p[i].op # "closed",
           \A i, j \in 1 .. Len(p) : i < j => Before(p[i], p[j])'
    PROVE  IInv'
  <1>1. /\ call' = call /\ call.fn = "idle" /\ todo' = p /\ UNCHANGED <<tvars, fvars, archive, sigbus, place>>
    BY DEF Event, Idle
  <1>2. Handlers'
    BY <1>1 DEF Handlers
  <1>3. Caller' /\ CallOK' /\ JournalOK'
    BY <1>1 DEF Caller, CallOK, JournalOK, IInv
  <1>4. TypeOK'
    BY <1>1 DEF IInv, TypeOK, tvars, fvars
  <1>5. ASSUME NEW g \in File PROVE FileOK(g)'
    BY <1>1 DEF IInv, Protocol, FileOK, InUse, tvars, fvars
  <1> QED
    BY <1>2, <1>3, <1>4, <1>5 DEF IInv, Protocol

LEMMA WriteEntryStep ==
    ASSUME IInv, WriteEntry \/ server_rotate
    PROVE  IInv'
  <1>1. ASSUME NEW p \in Seq(Frame), Event(p), journal' = journal,
               \A i \in 1 .. Len(p) : p[i].op \in {"find", "append_first", "append", "rotate"}
        PROVE  IInv'
    BY SMTT(90), <1>1, EventStep DEF FrameOK, Before, Using, Closing
  <1>2. CASE Event(<<Do("find"), Do("append_first")>>) /\ journal' = journal
    <2> DEFINE p == <<Do("find"), Do("append_first")>>
    <2>1. p \in Seq(Frame) /\ Len(p) = 2 /\ p[1].op = "find" /\ p[2].op = "append_first"
      BY DEF Do, Frame, Op
    <2>2. Event(p)
      BY <1>2
    <2> HIDE DEF p
    <2> QED
      BY <1>1, <1>2, <2>1, <2>2
  <1>3. CASE Event(RotateAndAppend) /\ journal' = journal
    <2>1. RotateAndAppend \in Seq(Frame) /\ Len(RotateAndAppend) = 3
      BY DEF RotateAndAppend, Frame, Do, Op
    <2>2. \A i \in 1 .. 3 : RotateAndAppend[i].op \in {"rotate", "find", "append"}
      BY DEF RotateAndAppend, Do
    <2> QED
      BY <1>1, <1>3, <2>1, <2>2
  <1>4. CASE Event(<<Do("rotate")>>) /\ journal' = journal
    <2> DEFINE p == <<Do("rotate")>>
    <2>1. p \in Seq(Frame) /\ Len(p) = 1 /\ p[1].op = "rotate"
      BY DEF Do, Frame, Op
    <2>2. Event(p)
      BY <1>4
    <2> HIDE DEF p
    <2> QED
      BY <1>1, <1>4, <2>1, <2>2
  <1> QED
    BY <1>2, <1>3, <1>4 DEF WriteEntry, server_rotate

LEMMA SyncStep ==
    ASSUME IInv, server_sync
    PROVE  IInv'
  <1>1. PICK f \in File : f = journal /\ place[f] = "open"
    BY DEF server_sync, IInv, TypeOK, JournalOK
  <1> DEFINE p == <<DoOn("sync", f)>>
  <1>2. Event(p) /\ journal' = journal /\ place' = place
    BY <1>1 DEF server_sync, Event
  <1>3. p \in Seq(Frame) /\ Len(p) = 1 /\ p[1].op = "sync" /\ p[1].f = f
    BY DEF DoOn, Frame, Op
  <1>4. \A i \in 1 .. Len(p) : FrameOK(p[i])' /\ p[i].op # "closed"
    BY <1>1, <1>2, <1>3 DEF FrameOK, Using, Closing, InUse
  <1>5. \A i, j \in 1 .. Len(p) : ~(i < j)
    BY <1>3
  <1> HIDE DEF p
  <1> QED
    BY <1>2, <1>3, <1>4, <1>5, EventStep

LEMMA RelinquishStep ==
    ASSUME IInv, RelinquishVar
    PROVE  IInv'
  <1>1. PICK f \in File : f = journal /\ place[f] = "open"
    BY DEF RelinquishVar, IInv, TypeOK, JournalOK
  <1> DEFINE p == <<Do("open"), DoOn("close", f), Process("process_all")>>
  <1>2. Event(p) /\ journal' = None /\ place' = place
    BY <1>1 DEF RelinquishVar, Event
  <1>3. /\ p \in Seq(Frame) /\ Len(p) = 3 /\ p[1].op = "open"
        /\ p[2].op = "close" /\ p[2].f = f /\ p[3].op = "process_all"
    BY DEF Do, DoOn, Process, Frame, Op
  <1>4. \A i \in 1 .. Len(p) : FrameOK(p[i])' /\ p[i].op # "closed"
    BY <1>1, <1>2, <1>3, FileAssumption DEF FrameOK, Using, Closing, InUse
  <1>5. \A i, j \in 1 .. Len(p) : i < j => Before(p[i], p[j])'
    BY <1>1, <1>2, <1>3 DEF Before, Using, Closing, Opener
  <1> HIDE DEF p
  <1> QED
    BY <1>2, <1>3, <1>4, <1>5, EventStep

LEMMA StutterStep ==
    ASSUME IInv, UNCHANGED vars
    PROVE  IInv'
  <1>1. TypeOK'
    BY SMTT(90) DEF IInv, TypeOK, vars, tvars, fvars, svars
  <1>2. Handlers' /\ Caller' /\ JournalOK'
    <2>1. Handlers
      BY DEF IInv
    <2>2. place' = place /\ journal' = journal /\ todo' = todo /\ call' = call /\ thread' = thread
      BY DEF vars, tvars, fvars, svars
    <2>3. (\A i \in 1 .. Len(todo) : FrameOK(todo[i]))'
      BY <2>1, <2>2, SameFrames DEF Handlers
    <2>4. (\A i, j \in 1 .. Len(todo) : i < j => Before(todo[i], todo[j]))'
      BY <2>1, <2>2, SameFrames DEF Handlers
    <2>5. Handlers'
      BY <2>1, <2>2, <2>3, <2>4 DEF Handlers
    <2>6. Caller' /\ JournalOK'
      BY <2>2 DEF IInv, Caller, JournalOK
    <2> QED
      BY <2>5, <2>6
  <1>3. Protocol'
    BY DEF IInv, Protocol, FileOK, CallOK, InUse, Writing, vars, tvars, fvars, svars
  <1> QED
    BY <1>1, <1>2, <1>3 DEF IInv

LEMMA NextStep ==
    ASSUME IInv, [Next]_vars
    PROVE  IInv'
  BY Zenon, HandleStep, InCallStep, WriteEntryStep, SyncStep, RelinquishStep, ThreadStep, WritebackStep,
     SigBusStep, CrashStep, StutterStep
  DEF Next, Main

LEMMA Inductive == Spec => []IInv
  <1>1. Init => IInv
    BY InitOK
  <1>2. IInv /\ [Next]_vars => IInv'
    BY NextStep
  <1> QED
    BY <1>1, <1>2, PTL DEF Spec

-----------------------------------------------------------------------------
(* The files implement DurableJournal, the mark being the one on disk.     *)

LEMMA Persists ==
    ASSUME IInv, NEW f \in File, disk' = [disk EXCEPT ![f] = header[f]], lost' = lost,
           pending' = pending \/ pending' = [pending EXCEPT ![f] = FALSE]
    PROVE  [Durable!Next]_(Durable!vars)
  <1>1. /\ disk \in [File -> HeaderState] /\ header[f] \in HeaderState /\ FileOK(f)
        /\ pending \in [File -> BOOLEAN]
    BY DEF IInv, TypeOK, Protocol
  <1>2. CASE disk[f] = header[f]
    <2>1. disk' = disk
      BY <1>1, <1>2
    <2> QED
      BY <2>1 DEF Durable!Next, Durable!Persist, Durable!vars
  <1>3. CASE disk[f] # header[f]
    <2>1. ~pending[f] /\ disk[f] # "archived"
      BY <1>1, <1>3 DEF FileOK
    <2>2. pending' = pending
      BY Zenon, <1>1, <2>1
    <2>3. CASE header[f] = "online"
      <3>1. disk[f] = "offline"
        BY <1>1, <1>3, <2>1, <2>3 DEF HeaderState
      <3>2. Durable!GoOnline(f)
        BY <2>2, <2>3, <3>1 DEF Durable!GoOnline
      <3> QED
        BY <3>2 DEF Durable!Next
    <2>4. CASE header[f] # "online"
      <3>1. ~lost[f] /\ header[f] \in {"offline", "archived"}
        BY <1>1, <2>4 DEF FileOK, HeaderState
      <3>2. Durable!Clean(f)
        BY Zenon, <2>1, <2>2, <3>1 DEF Durable!Clean
      <3> QED
        BY <3>2 DEF Durable!Next
    <2> QED
      BY <2>3, <2>4
  <1> QED
    BY <1>2, <1>3

LEMMA ThreadImplements ==
    ASSUME IInv, NEW f \in File, Thread(f)
    PROVE  [Durable!Next]_(Durable!vars)
  <1>1. CASE Fsync(f)
    BY Zenon, <1>1, Persists DEF Fsync
  <1>2. CASE UNCHANGED <<disk, pending, lost>>
    BY <1>2 DEF Durable!vars
  <1> QED
    BY <1>1, <1>2 DEF Thread, ThreadReturns, ThreadAgain, ThreadSyncs, ThreadFsync, ThreadSwap,
                      ThreadMark, ThreadCommit, fvars

LEMMA WritebackImplements ==
    ASSUME IInv, NEW f \in File, Writeback(f)
    PROVE  [Durable!Next]_(Durable!vars)
  <1>1. CASE disk' = [disk EXCEPT ![f] = header[f]] /\ UNCHANGED pending
    BY Zenon, <1>1, Persists DEF Writeback
  <1>2. CASE pending' = [pending EXCEPT ![f] = FALSE] /\ UNCHANGED disk
    BY Zenon, <1>2 DEF Writeback, Durable!Next, Durable!Persist
  <1> QED
    BY <1>1, <1>2 DEF Writeback

LEMMA InCallImplements ==
    ASSUME IInv, InCall
    PROVE  [Durable!Next]_(Durable!vars)
  <1>1. CASE SyncOnline
    <2>1. call.f \in File /\ Fsync(call.f)
      BY <1>1 DEF SyncOnline, In, IInv, Protocol, CallOK
    <2> QED
      BY Zenon, <2>1, Persists DEF Fsync
  <1>2. CASE AppendObject
    <2>1. /\ call.f \in File /\ disk[call.f] = "online" /\ ~lost[call.f] /\ UNCHANGED <<disk, lost>>
          /\ pending' = [pending EXCEPT ![call.f] = TRUE] \/ pending' = pending
      BY Zenon, <1>2 DEF AppendObject, In, IInv, Protocol, CallOK, FileOK
    <2>2. CASE pending' = pending
      BY <2>1, <2>2 DEF Durable!vars
    <2>3. CASE pending' = [pending EXCEPT ![call.f] = TRUE]
      BY Zenon, <2>1, <2>3 DEF Durable!Next, Durable!Write
    <2> QED
      BY <2>1, <2>2, <2>3
  <1>3. CASE SetOnline \/ Join \/ MarkOnline \/ SetOffline \/ TryRestart \/ Begin \/ InlineReturns
    <2>1. UNCHANGED <<disk, pending, lost>>
      BY Zenon, <1>3 DEF SetOnline, Join, MarkOnline, SetOffline, TryRestart, Begin, InlineReturns, fvars
    <2> QED
      BY <2>1 DEF Durable!vars
  <1> QED
    BY <1>1, <1>2, <1>3 DEF InCall

LEMMA HandleImplements ==
    ASSUME Handle
    PROVE  UNCHANGED <<disk, pending, lost>>
  <1>1. UNCHANGED fvars
    BY Zenon DEF Handle, CreateJournal, FindExisting, ReopenJournal, DisposeJournal, FindJournal, AppendEntry, Rotate,
           InitiateClose, ProcessDeferred, journal_file_close, CallStep, Closed
  <1> QED
    BY <1>1 DEF fvars

LEMMA StepImplements ==
    ASSUME IInv, [Next]_vars
    PROVE  [Durable!Next]_(Durable!vars)
  <1>1. CASE Handle
    BY <1>1, HandleImplements DEF Durable!vars
  <1>2. CASE WriteEntry \/ server_sync \/ server_rotate \/ RelinquishVar
    BY <1>2 DEF WriteEntry, server_sync, server_rotate, RelinquishVar, Event, fvars, Durable!vars
  <1>3. CASE \E f \in File : SigBus(f)
    BY SMTT(90), <1>3 DEF SigBus, fvars, Durable!vars
  <1>4. CASE Crash(TRUE)
    BY <1>4 DEF Crash, Durable!Next, Durable!PowerFailure
  <1>5. CASE Crash(FALSE)
    BY <1>5 DEF Crash, Durable!vars
  <1>6. CASE UNCHANGED vars
    BY <1>6 DEF vars, fvars, Durable!vars
  <1>7. CASE InCall
    BY <1>7, InCallImplements
  <1>8. CASE \E f \in File : Thread(f) \/ Writeback(f)
    BY <1>8, ThreadImplements, WritebackImplements
  <1>9. CASE \E power \in BOOLEAN : Crash(power)
    BY Zenon, <1>4, <1>5, <1>9
  <1> QED
    BY <1>1, <1>2, <1>3, <1>6, <1>7, <1>8, <1>9 DEF Next, Main

-----------------------------------------------------------------------------

\* Every variable keeps its type: journald's handlers never lose track of the
\* file they work on.
THEOREM TypesCorrect == Spec => []TypeOK
  <1>1. IInv => TypeOK
    BY DEF IInv
  <1> QED
    BY <1>1, Inductive, PTL

\* Wherever a crash or a power failure hits: a file that is marked offline or
\* archived on disk has all its entries, whatever journal_file_set_offline()
\* and journal_file_append_object() were doing with it.
THEOREM CleanComplete == Spec => []CleanMeansComplete
  <1>1. IInv => CleanMeansComplete
    BY DEF IInv, Protocol, FileOK, CleanMeansComplete
  <1> QED
    BY <1>1, Inductive, PTL

\* An offline thread only runs for a file that is open or waits to be closed:
\* journal_file_close() never leaves a thread with a file it has freed.
THEOREM ThreadsInUse == Spec => [](\A f \in File : thread[f] # "none" => InUse(f))
  <1>1. IInv => \A f \in File : thread[f] # "none" => InUse(f)
    BY DEF IInv, Protocol, FileOK
  <1> QED
    BY <1>1, Inductive, PTL

\* The writing, syncing, rotating and closing of the files implements
\* DurableJournal: a step never writes to a file that is not marked online on
\* disk, never marks one that is incomplete as clean, and never takes an
\* archived file back.
THEOREM FilesDurable == Spec => Implements
  <1>1. Init => Durable!Init
    BY DEF Init, Durable!Init
  <1>2. IInv /\ [Next]_vars => [Durable!Next]_(Durable!vars)
    BY StepImplements
  <1> QED
    BY <1>1, <1>2, Inductive, PTL DEF Spec, Implements, Durable!Spec

-----------------------------------------------------------------------------
(* Closing a file: what the theorems about it rest on.                     *)

\* What closing a file relies on, given IInv: a file in use has a thread unless
\* it is joined or about to be closed, and a call that waits ends with the mark
\* on disk.
AtClosed(f) == call.fn = "idle" /\ todo # <<>> /\ todo[1].op = "closed" /\ todo[1].f = f

\* The file was opened and is not marked yet.
Opened(f) ==
    /\ call.f = f /\ call.fn \in {"online", "mark_online"}
    /\ offline[f] = "joined" /\ header[f] = "offline"

Clean(f) == sigbus[f] \/ (header[f] # "online" /\ disk[f] # "online")

\* The thread still has to mark the file, and will.
Offlining(f) ==
    \/ offline[f] \in {"syncing", "again_from_syncing", "again_from_offlining"}
    \/ offline[f] = "offlining" /\ thread[f] = "mark"

ClosingOK(f) ==
    /\ thread[f] = "exited" => offline[f] = "done"
    /\ InUse(f) /\ offline[f] # "joined" /\ thread[f] = "none" => AtClosed(f)
    /\ InUse(f) /\ header[f] # "online" /\ disk[f] = "online" =>
         sigbus[f] \/ thread[f] = "commit" \/ Opened(f)
    /\ place[f] = "closed" \/ AtClosed(f) => Clean(f)

WaitOK ==
    call.wait =>
        /\ call.fn # "idle" /\ todo[1].op = "stop"
        /\ /\ call.fn = "inline" \/ (call.fn = "join" /\ call.next = "return")
           /\ header[call.f] = "online"
           => Offlining(call.f)

StopsOK ==
    /\ call.fn = "inline" => call.wait
    /\ \A i \in 1 .. Len(todo) : todo[i].op = "stop" =>
         i + 1 \in 1 .. Len(todo) /\ todo[i + 1].op = "closed" /\ todo[i + 1].f = todo[i].f

CInv == (\A f \in File : ClosingOK(f)) /\ WaitOK /\ StopsOK

-----------------------------------------------------------------------------
(* Closing: the threads and the environment.                               *)

LEMMA InitClosing ==
    ASSUME Init
    PROVE  CInv
  <1>1. call.wait = FALSE /\ call.fn = "idle" /\ todo = <<>>
    BY DEF Init, Idle
  <1> QED
    BY <1>1 DEF Init, CInv, ClosingOK, WaitOK, StopsOK, AtClosed, InUse

\* Nothing a handler or a function did concerns this file.
LEMMA SteadyFile ==
    ASSUME NEW g \in File, ClosingOK(g), ~AtClosed(g), ~AtClosed(g)', ~Opened(g),
           InUse(g)' => InUse(g), place'[g] = "closed" => place[g] = "closed",
           thread'[g] = thread[g], offline'[g] = offline[g],
           header'[g] = header[g], disk'[g] = disk[g], sigbus[g] => sigbus'[g]
    PROVE  ClosingOK(g)'
  BY DEF ClosingOK, Clean

\* Only the thread or the kernel changed this file.
LEMMA CallSame ==
    ASSUME CInv, call' = call, todo' = todo
    PROVE  /\ \A g : AtClosed(g) => AtClosed(g)'
           /\ \A g : AtClosed(g)' => AtClosed(g)
           /\ StopsOK'
  BY DEF CInv, StopsOK, AtClosed

LEMMA UntouchedFile ==
    ASSUME NEW g \in File, ClosingOK(g), AtClosed(g) => AtClosed(g)', AtClosed(g)' => AtClosed(g),
           call' = call, place' = place, sigbus' = sigbus,
           thread'[g] = thread[g], offline'[g] = offline[g],
           header'[g] = header[g], disk'[g] = disk[g]
    PROVE  ClosingOK(g)'
  BY SMTT(30) DEF ClosingOK, Clean, InUse, Opened

LEMMA ThreadCases ==
    ASSUME IInv, NEW f \in File, Thread(f)
    PROVE  /\ thread[f] # "none" /\ thread'[f] # "none" /\ InUse(f) /\ place[f] # "closed"
           /\ call' = call /\ todo' = todo /\ place' = place /\ sigbus' = sigbus
           /\ \A g \in File \ {f} : /\ thread'[g] = thread[g] /\ offline'[g] = offline[g]
                                    /\ header'[g] = header[g] /\ disk'[g] = disk[g]
           /\ \/ /\ thread'[f] = "exited" /\ thread[f] = "loop" /\ offline'[f] = "done"
                 /\ offline[f] \in {"cancel", "offlining", "done"}
                 /\ header'[f] = header[f] /\ disk'[f] = disk[f]
              \/ /\ thread[f] \in {"loop", "fsync"} /\ thread'[f] \in {"loop", "fsync", "swap"}
                 /\ offline'[f] = offline[f] \/ offline'[f] = "syncing"
                 /\ header'[f] = header[f] /\ disk'[f] \in {disk[f], header[f]}
              \/ /\ thread[f] = "swap" /\ thread'[f] = "mark" /\ offline'[f] = "offlining"
                 /\ header'[f] = header[f] /\ disk'[f] = disk[f]
              \/ /\ thread[f] = "swap" /\ thread'[f] = "loop" /\ offline'[f] = offline[f]
                 /\ header'[f] = header[f] /\ disk'[f] = disk[f]
              \/ /\ thread[f] = "mark" /\ thread'[f] = "commit" /\ offline'[f] = offline[f]
                 /\ header'[f] \in {"archived", "offline"} /\ disk'[f] = disk[f]
              \/ /\ thread[f] = "commit" /\ thread'[f] = "loop" /\ offline'[f] = offline[f]
                 /\ header'[f] = header[f] /\ disk'[f] = header[f]
  <1> USE DEF ThreadAt, Offline
  <1>1. /\ thread[f] # "none" /\ thread'[f] # "none"
        /\ \A g \in File \ {f} : /\ thread'[g] = thread[g] /\ offline'[g] = offline[g]
                                 /\ header'[g] = header[g] /\ disk'[g] = disk[g]
    BY DEF Thread, IInv, TypeOK, ThreadReturns, ThreadAgain, ThreadSyncs, ThreadFsync, ThreadSwap,
           ThreadMark, ThreadCommit, Fsync, fvars
  <1>2. InUse(f)
    BY <1>1 DEF IInv, Protocol, FileOK
  <1>3. call' = call /\ todo' = todo /\ place' = place /\ sigbus' = sigbus
    BY DEF Thread, svars
  <1>4. place[f] # "closed"
    BY <1>2 DEF InUse
  <1> USE DEF IInv, TypeOK, fvars
  <1>5. CASE ThreadReturns(f)
    BY <1>1, <1>2, <1>3, <1>4, <1>5 DEF ThreadReturns
  <1>6. CASE ThreadAgain(f) \/ ThreadSyncs(f) \/ ThreadFsync(f)
    BY <1>1, <1>2, <1>3, <1>4, <1>6 DEF ThreadAgain, ThreadSyncs, ThreadFsync, Fsync
  <1>7. CASE ThreadSwap(f)
    BY <1>1, <1>2, <1>3, <1>4, <1>7 DEF ThreadSwap
  <1>8. CASE ThreadMark(f)
    BY <1>1, <1>2, <1>3, <1>4, <1>8 DEF ThreadMark
  <1>9. CASE ThreadCommit(f)
    BY <1>1, <1>2, <1>3, <1>4, <1>9 DEF ThreadCommit, Fsync
  <1> QED
    BY <1>5, <1>6, <1>7, <1>8, <1>9 DEF Thread

LEMMA ThreadClosing ==
    ASSUME IInv, CInv, NEW f \in File, Thread(f)
    PROVE  CInv'
  <1>1. StopsOK' /\ (\A g : AtClosed(g) => AtClosed(g)') /\ (\A g : AtClosed(g)' => AtClosed(g))
    BY ThreadCases, CallSame
  <1>2. ASSUME NEW g \in File, g # f PROVE ClosingOK(g)'
    BY <1>1, <1>2, ThreadCases, UntouchedFile DEF CInv
  <1>3. ~AtClosed(f)
    <2>1. AtClosed(f) => thread[f] = "none"
      <3>1. todo # <<>> => 1 \in 1 .. Len(todo)
        BY DEF IInv, TypeOK
      <3> QED
        BY <3>1 DEF AtClosed, IInv, Handlers
    <2> QED
      BY <2>1, ThreadCases
  <1>4. FileOK(f) /\ ClosingOK(f) /\ (call.fn # "idle" => CallOK)
    BY DEF IInv, Protocol, CInv
  <1>5. ClosingOK(f)'
    <2>1. ~Opened(f) /\ ~AtClosed(f)' /\ place'[f] # "closed"
      BY <1>1, <1>3, <1>4, ThreadCases DEF Opened, FileOK
    <2>2. thread'[f] = "exited" => offline'[f] = "done"
      BY <1>4, ThreadCases DEF ClosingOK
    <2>3. thread'[f] # "none"
      BY ThreadCases
    <2>4. header'[f] # "online" /\ disk'[f] = "online" => sigbus'[f] \/ thread'[f] = "commit"
      <3>1. header[f] # "online" /\ disk[f] = "online" => sigbus[f] \/ thread[f] = "commit"
        BY <1>4, <2>1, ThreadCases DEF ClosingOK
      <3> QED
        BY <3>1, ThreadCases
    <2> QED
      BY <2>1, <2>2, <2>3, <2>4 DEF ClosingOK
  <1>6. Offlining(f) /\ header'[f] = "online" => Offlining(f)'
    BY <1>4, ThreadCases DEF Offlining, FileOK
  <1>7. WaitOK'
    <2>0. header'[f] = "online" => header[f] = "online"
      BY ThreadCases
    <2>1. \A g \in File : header'[g] = "online" => header[g] = "online"
      BY <2>0, ThreadCases
    <2>2. \A g \in File : header'[g] = "online" /\ Offlining(g) => Offlining(g)'
      BY <1>6, ThreadCases DEF Offlining
    <2>3. call.fn # "idle" => call.f \in File
      BY DEF IInv, Protocol, CallOK
    <2> QED
      BY <2>1, <2>2, <2>3, ThreadCases DEF CInv, WaitOK
  <1> QED
    BY <1>1, <1>2, <1>5, <1>7 DEF CInv

LEMMA WritebackClosing ==
    ASSUME IInv, CInv, NEW f \in File, Writeback(f)
    PROVE  CInv'
  <1>1. call' = call /\ todo' = todo /\ tvars' = tvars /\ header' = header /\ svars' = svars
    BY DEF Writeback
  <1>2. StopsOK' /\ (\A g : AtClosed(g) => AtClosed(g)') /\ (\A g : AtClosed(g)' => AtClosed(g))
    BY <1>1, CallSame
  <1>3. ASSUME NEW g \in File PROVE ClosingOK(g)'
    <2>1. disk'[g] \in {disk[g], header[g]}
      BY DEF Writeback, IInv, TypeOK
    <2>2. ClosingOK(g)
      BY DEF CInv
    <2> QED
      BY <1>1, <1>2, <2>1, <2>2 DEF ClosingOK, Clean, InUse, Opened, tvars, svars
  <1>4. WaitOK'
    BY <1>1 DEF CInv, WaitOK, Offlining, tvars
  <1> QED
    BY <1>2, <1>3, <1>4 DEF CInv

LEMMA SigBusClosing ==
    ASSUME IInv, CInv, NEW f \in File, SigBus(f)
    PROVE  CInv'
  <1>1. /\ call' = call /\ todo' = todo /\ tvars' = tvars /\ fvars' = fvars /\ place' = place
        /\ \A g \in File : sigbus[g] => sigbus'[g]
    BY DEF SigBus, IInv, TypeOK
  <1>2. StopsOK' /\ (\A g : AtClosed(g) => AtClosed(g)') /\ (\A g : AtClosed(g)' => AtClosed(g))
    BY <1>1, CallSame
  <1>3. ASSUME NEW g \in File PROVE ClosingOK(g)'
    <2>1. ClosingOK(g)
      BY DEF CInv
    <2> QED
      BY <1>1, <1>2, <2>1 DEF ClosingOK, Clean, InUse, Opened, tvars, fvars
  <1>4. WaitOK'
    BY <1>1 DEF CInv, WaitOK, Offlining, tvars, fvars
  <1> QED
    BY <1>2, <1>3, <1>4 DEF CInv

LEMMA CrashClosing ==
    ASSUME IInv, CInv, NEW power \in BOOLEAN, Crash(power)
    PROVE  CInv'
  <1>1. call'.fn = "idle" /\ call'.wait = FALSE /\ todo' = <<>>
    BY SMTT(90) DEF Crash, Idle
  <1>2. WaitOK' /\ StopsOK' /\ \A g : ~AtClosed(g)'
    BY <1>1 DEF WaitOK, StopsOK, AtClosed
  <1>3. ASSUME NEW g \in File PROVE ClosingOK(g)'
    <2>1. thread'[g] = "none" /\ ~InUse(g)' /\ (place'[g] = "closed" => place[g] = "closed")
      BY DEF Crash, IInv, TypeOK, InUse, Place
    <2>2. disk' = disk /\ sigbus' = sigbus /\ header'[g] \in {disk[g], header[g]}
      BY DEF Crash
    <2>3. place[g] = "closed" => Clean(g)
      BY DEF CInv, ClosingOK
    <2> QED
      BY <1>2, <2>1, <2>2, <2>3 DEF ClosingOK, Clean
  <1> QED
    BY <1>2, <1>3 DEF CInv

-----------------------------------------------------------------------------
(* Closing: the frames.                                                    *)

HIDE Untyped

\* Frames that a stop is followed by the end of the close in.
Paired(s) ==
    \A i \in 1 .. Len(s) : s[i].op = "stop" =>
        i + 1 \in 1 .. Len(s) /\ s[i + 1].op = "closed" /\ s[i + 1].f = s[i].f

LEMMA PushPaired ==
    ASSUME NEW s \in Seq(Frame), s # <<>>, Paired(s), NEW p \in Seq(Frame), Paired(p),
           NEW u, u = p \o Tail(s)
    PROVE  Paired(u)
  <1>1. /\ u \in Seq(Frame) /\ Len(u) = Len(p) + Len(s) - 1
        /\ Len(s) \in Nat \ {0} /\ Len(p) \in Nat
        /\ \A i \in 1 .. Len(p) : u[i] = p[i]
        /\ \A i \in Len(p) + 1 .. Len(u) : u[i] = s[i - Len(p) + 1]
    BY Push
  <1> SUFFICES ASSUME NEW i \in 1 .. Len(u), u[i].op = "stop"
               PROVE  i + 1 \in 1 .. Len(u) /\ u[i + 1].op = "closed" /\ u[i + 1].f = u[i].f
    BY DEF Paired
  <1>2. CASE i \in 1 .. Len(p)
    BY <1>1, <1>2 DEF Paired
  <1>3. CASE i \in Len(p) + 1 .. Len(u)
    <2>1. PICK k \in 1 .. Len(s) : k = i - Len(p) + 1
      BY <1>1, <1>3
    <2>2. k + 1 \in 1 .. Len(s) /\ s[k + 1].op = "closed" /\ s[k + 1].f = s[k].f
      BY <1>1, <1>3, <2>1 DEF Paired
    <2>3. i + 1 \in Len(p) + 1 .. Len(u) /\ k + 1 = (i + 1) - Len(p) + 1
      BY <1>1, <1>3, <2>1, <2>2
    <2> QED
      BY <1>1, <1>3, <2>1, <2>2, <2>3
  <1> QED
    BY <1>1, <1>2, <1>3

\* A frame that is no stop was taken: what comes next is not the end of a close.
LEMMA NotAtClosed ==
    ASSUME IInv, todo # <<>>, todo[1].op # "stop",
           NEW p \in Seq(Frame), p # <<>> => p[1].op # "closed", todo' = p \o Tail(todo)
    PROVE  \A g : ~AtClosed(g)'
  <1>1. /\ todo' \in Seq(Frame) /\ Len(todo') = Len(p) + Len(todo) - 1
        /\ Len(todo) \in Nat \ {0} /\ Len(p) \in Nat
        /\ \A i \in 1 .. Len(p) : todo'[i] = p[i]
        /\ \A i \in Len(p) + 1 .. Len(todo') : todo'[i] = todo[i - Len(p) + 1]
    BY Push DEF IInv, TypeOK
  <1> SUFFICES ASSUME todo' # <<>> PROVE todo'[1].op # "closed"
    BY DEF AtClosed
  <1>2. CASE p # <<>>
    BY <1>1, <1>2
  <1>3. CASE p = <<>>
    <2>1. 2 \in 1 .. Len(todo) /\ todo'[1] = todo[2]
      BY <1>1, <1>3
    <2>2. todo[2].op = "closed" => todo[2 - 1].op = "stop"
      BY <2>1 DEF IInv, Handlers
    <2> QED
      BY SMTT(30), <2>1, <2>2
  <1> QED
    BY <1>2, <1>3

USE Untyped

\* A handler that changes no file: it goes on with other frames, or calls a
\* function that does not wait.
LEMMA FramesClosing ==
    ASSUME IInv, CInv, call = Idle, todo # <<>>, todo[1].op \notin {"stop", "closed"},
           UNCHANGED <<tvars, fvars, sigbus, place>>,
           \/ call' = call
           \/ call'.fn \notin {"idle", "inline"} /\ call'.wait = FALSE,
           NEW p \in Seq(Frame), Paired(p), p # <<>> => p[1].op # "closed",
           todo' = todo \/ todo' = p \o Tail(todo)
    PROVE  CInv'
  <1>1. call.fn = "idle" /\ call'.wait = FALSE /\ call'.fn # "inline"
    BY DEF Idle
  <1>2. Paired(todo)
    BY DEF CInv, StopsOK, Paired
  <1>3. Paired(todo')
    BY Zenon, <1>2, PushPaired DEF IInv, TypeOK
  <1>4. WaitOK' /\ StopsOK'
    BY <1>1, <1>3 DEF WaitOK, StopsOK, Paired
  <1>5. \A g : ~AtClosed(g) /\ ~AtClosed(g)'
    <2>1. \A g : ~AtClosed(g)
      BY DEF AtClosed
    <2>2. CASE todo' = todo
      <3>1. todo'[1].op # "closed"
        BY <2>2
      <3> QED
        BY <2>1, <3>1 DEF AtClosed
    <2>3. CASE todo' = p \o Tail(todo)
      BY <2>1, <2>3, NotAtClosed
    <2> QED
      BY <2>1, <2>2, <2>3
  <1>6. ASSUME NEW g \in File PROVE ClosingOK(g)'
    <2>1. ClosingOK(g) /\ ~Opened(g)
      BY <1>1 DEF CInv, Opened
    <2> QED
      BY <1>5, <2>1, SteadyFile DEF tvars, fvars, InUse
  <1> QED
    BY <1>4, <1>6 DEF CInv

LEMMA HeadTyped ==
    ASSUME IInv, todo # <<>>
    PROVE  /\ Head(todo) = todo[1] /\ todo[1] \in Frame /\ 1 \in 1 .. Len(todo)
           /\ todo[1].f \in File \cup {None} /\ todo[1].left \in SUBSET File
           /\ FrameOK(todo[1])
  <1>1. /\ Head(todo) = todo[1] /\ todo[1] \in Frame /\ 1 \in 1 .. Len(todo)
    BY DEF IInv, TypeOK
  <1> QED
    BY <1>1 DEF Frame, IInv, Handlers

\* A handler that goes on with up to three frames, no file changed.
LEMMA QuietClosing ==
    ASSUME IInv, CInv, FindExisting \/ FindJournal \/ AppendEntry \/ Rotate \/ ProcessDeferred
    PROVE  CInv'
  <1> DEFINE op == todo[1].op
  <1>1. /\ call = Idle /\ todo # <<>>
        /\ Head(todo).op \in {"find", "open", "append_first", "append", "rotate", "process", "process_all"}
    BY Zenon DEF FindExisting, FindJournal, AppendEntry, Rotate, ProcessDeferred, Opening, Doing
  <1>2. Head(todo) = todo[1] /\ todo[1] \in Frame /\ todo[1].left \in SUBSET File
    BY <1>1, HeadTyped
  <1>3. UNCHANGED <<tvars, fvars, sigbus, place>>
    BY Zenon DEF FindExisting, FindJournal, AppendEntry, Rotate, ProcessDeferred, svars
  <1>4. /\ call' = call \/ (call'.fn \notin {"idle", "inline"} /\ call'.wait = FALSE)
        /\ \E p \in Seq(Frame) : /\ Paired(p) /\ (p # <<>> => p[1].op # "closed")
                                 /\ todo' = todo \/ todo' = p \o Tail(todo)
    <2>0. << >> \in Seq(Frame) /\ Paired(<< >>)
      BY DEF Paired
    <2>1. CASE FindExisting
      <3>1. PICK g \in File : call' = call /\ todo' = <<Process("process_all"), DoOn("reopen", g)>> \o Tail(todo)
        BY Zenon, <2>1 DEF FindExisting, Then
      <3>2. /\ <<Process("process_all"), DoOn("reopen", g)>> \in Seq(Frame)
            /\ Paired(<<Process("process_all"), DoOn("reopen", g)>>)
            /\ <<Process("process_all"), DoOn("reopen", g)>>[1].op # "closed"
        BY DEF Process, DoOn, Frame, Op, Paired
      <3> QED
        BY Zenon, <3>1, <3>2
    <2>2. CASE FindJournal
      <3>1. call' = call /\ todo' = << >> \o Tail(todo)
        BY <2>2 DEF FindJournal, Then
      <3> QED
        BY Zenon, <2>0, <3>1
    <2>3. CASE AppendEntry
      <3>1. /\ RotateAndAppend \in Seq(Frame) /\ Paired(RotateAndAppend)
            /\ RotateAndAppend[1].op # "closed"
        BY DEF RotateAndAppend, Do, Frame, Op, Paired
      <3>2. CASE call' = call /\ (todo' = << >> \o Tail(todo) \/ todo' = RotateAndAppend \o Tail(todo))
        BY Zenon, <2>0, <3>1, <3>2
      <3>3. CASE (\E left \in 0 .. MaxObjects - 1 : CallOn("online", journal, FALSE, left)) /\ todo' = todo
        <4>1. call'.fn = "online" /\ call'.wait = FALSE
          BY <3>3 DEF CallOn
        <4> QED
          BY Zenon, <2>0, <3>3, <4>1
      <3> QED
        BY Zenon, <2>3, <3>2, <3>3 DEF AppendEntry, Then
    <2>4. CASE Rotate
      <3>1. CASE call' = call /\ todo' = <<Process("process")>> \o Tail(todo)
        <4>1. /\ <<Process("process")>> \in Seq(Frame) /\ Paired(<<Process("process")>>)
              /\ <<Process("process")>>[1].op # "closed"
          BY DEF Process, Frame, Op, Paired
        <4> QED
          BY Zenon, <3>1, <4>1
      <3>2. CASE /\ journal # None /\ call' = call
                 /\ todo' = <<Do("create"), DoOn("defer", journal), Process("process")>> \o Tail(todo)
        <4>0. journal \in File \cup {None}
          BY DEF IInv, TypeOK
        <4>1. PICK p : p = <<Do("create"), DoOn("defer", journal), Process("process")>>
          BY Zenon
        <4>2. p \in Seq(Frame) /\ p # <<>> /\ p[1].op # "closed" /\ Paired(p)
          BY <4>0, <4>1 DEF Process, Do, DoOn, Frame, Op, Paired
        <4> QED
          BY Zenon, <3>2, <4>1, <4>2
      <3> QED
        BY Zenon, <2>4, <3>1, <3>2 DEF Rotate, Then
    <2>5. CASE ProcessDeferred
      <3>1. PICK left \in SUBSET File : left = Head(todo).left \cap Deferred
        BY Zenon, <1>2
      <3>2. CASE call' = call /\ todo' = << >> \o Tail(todo)
        BY Zenon, <2>0, <3>2
      <3>3. CASE \E f \in left :
                   /\ call' = call
                   /\ \/ todo' = <<[Head(todo) EXCEPT !.left = left \ {f}]>> \o Tail(todo)
                      \/ todo' = <<DoOn("close", f), [Head(todo) EXCEPT !.left = left \ {f}]>> \o Tail(todo)
        <4>1. PICK f \in left :
                   /\ call' = call
                   /\ \/ todo' = <<[Head(todo) EXCEPT !.left = left \ {f}]>> \o Tail(todo)
                      \/ todo' = <<DoOn("close", f), [Head(todo) EXCEPT !.left = left \ {f}]>> \o Tail(todo)
          BY Zenon, <3>3
        <4>2. PICK x : x = [Head(todo) EXCEPT !.left = left \ {f}]
          BY Zenon
        <4>3. x \in Frame /\ x.op \in {"process", "process_all"}
          <5>1. todo[1].op \in {"process", "process_all"}
            BY <1>2, <2>5 DEF ProcessDeferred, Doing
          <5> QED
            BY <1>2, <4>2, <5>1 DEF Frame
        <4>4. DoOn("close", f) \in Frame /\ DoOn("close", f).op = "close"
          BY DEF DoOn, Frame, Op
        <4>5. PICK y : y = DoOn("close", f)
          OBVIOUS
        <4>6. <<x>> \in Seq(Frame) /\ Paired(<<x>>) /\ <<x>>[1].op # "closed"
          BY <4>3 DEF Paired
        <4>7. <<y, x>> \in Seq(Frame) /\ Paired(<<y, x>>) /\ <<y, x>>[1].op # "closed"
          BY <4>3, <4>4, <4>5 DEF Paired
        <4> QED
          BY Zenon, <4>1, <4>2, <4>5, <4>6, <4>7
      <3> QED
        BY Zenon, <2>5, <3>1, <3>2, <3>3 DEF ProcessDeferred, Then
    <2> QED
      BY Zenon, <2>1, <2>2, <2>3, <2>4, <2>5
  <1>5. PICK p \in Seq(Frame) : /\ Paired(p) /\ (p # <<>> => p[1].op # "closed")
                                /\ todo' = todo \/ todo' = p \o Tail(todo)
    BY <1>4
  <1>6. todo[1].op \notin {"stop", "closed"}
    BY <1>1, <1>2
  <1> QED
    BY Zenon, <1>1, <1>3, <1>4, <1>5, <1>6, FramesClosing

LEMMA CloseClosing ==
    ASSUME IInv, CInv, journal_file_close
    PROVE  CInv'
  <1>1. /\ call = Idle /\ todo # <<>> /\ Head(todo).op = "close" /\ call' = call
        /\ UNCHANGED <<tvars, fvars, sigbus, place>>
    BY DEF journal_file_close, Doing, Then, svars
  <1>2. Head(todo) = todo[1] /\ todo[1].f \in File \cup {None}
    BY <1>1, HeadTyped
  <1>3. PICK t, s, c : /\ t = DoOn("tag", todo[1].f) /\ s = DoOn("stop", todo[1].f)
                       /\ c = DoOn("closed", todo[1].f)
    OBVIOUS
  <1>4. /\ t \in Frame /\ t.op = "tag" /\ s \in Frame /\ s.op = "stop"
        /\ c \in Frame /\ c.op = "closed" /\ c.f = s.f
    BY <1>2, <1>3 DEF DoOn, Frame, Op
  <1>5. <<s, c>> \in Seq(Frame) /\ Paired(<<s, c>>) /\ <<s, c>>[1].op # "closed"
    BY <1>4 DEF Paired
  <1>6. <<t, s, c>> \in Seq(Frame) /\ Paired(<<t, s, c>>) /\ <<t, s, c>>[1].op # "closed"
    BY <1>4 DEF Paired
  <1>7. todo' = <<s, c>> \o Tail(todo) \/ todo' = <<t, s, c>> \o Tail(todo)
    BY <1>2, <1>3 DEF journal_file_close, Then
  <1>8. todo[1].op \notin {"stop", "closed"}
    BY <1>1, <1>2
  <1> QED
    BY Zenon, <1>1, <1>5, <1>6, <1>7, <1>8, FramesClosing

LEMMA CallStepClosing ==
    ASSUME IInv, CInv, CallStep
    PROVE  CInv'
  <1>1. /\ call = Idle /\ todo # <<>> /\ todo' = todo /\ UNCHANGED <<tvars, fvars, sigbus, place>>
    BY Zenon DEF CallStep, Doing, svars
  <1>2. Head(todo) = todo[1]
    BY <1>1, HeadTyped
  <1>3. CASE todo[1].op \in {"tag", "sync"}
    <2>1. call'.fn \in {"online", "offline"} /\ call'.wait = FALSE
      BY <1>2, <1>3 DEF CallStep, Doing, CallOn
    <2>2. << >> \in Seq(Frame) /\ Paired(<< >>)
      BY DEF Paired
    <2>3. todo[1].op \notin {"stop", "closed"}
      BY <1>3
    <2> QED
      BY Zenon, <1>1, <2>1, <2>2, <2>3, FramesClosing
  <1>4. CASE todo[1].op = "stop"
    <2>1. call'.fn = "offline"
      BY <1>2, <1>4 DEF CallStep, Doing, CallOn
    <2>2. WaitOK'
      BY <1>1, <1>4, <2>1 DEF WaitOK
    <2>3. StopsOK'
      BY <1>1, <2>1 DEF CInv, StopsOK
    <2>4. \A g : ~AtClosed(g) /\ ~AtClosed(g)'
      BY <1>4, <2>1 DEF AtClosed
    <2>5. ASSUME NEW g \in File PROVE ClosingOK(g)'
      <3>1. ClosingOK(g) /\ ~Opened(g)
        BY <1>1 DEF CInv, Opened, Idle
      <3> QED
        BY <1>1, <2>4, <3>1, SteadyFile DEF tvars, fvars, InUse
    <2> QED
      BY <2>2, <2>3, <2>5 DEF CInv
  <1> QED
    BY Zenon, <1>2, <1>3, <1>4 DEF CallStep, Doing

LEMMA InitiateClosing ==
    ASSUME IInv, CInv, InitiateClose
    PROVE  CInv'
  <1>1. /\ call = Idle /\ todo # <<>> /\ todo' = todo /\ UNCHANGED <<tvars, fvars, sigbus>>
        /\ Head(todo).op = "defer" /\ call'.fn = "offline" /\ call'.wait = FALSE
        /\ place' = [place EXCEPT ![Head(todo).f] = "deferred"]
    BY DEF InitiateClose, Doing, CallOn
  <1>2. Head(todo) = todo[1] /\ FrameOK(todo[1])
    BY <1>1, HeadTyped
  <1>3. todo[1].f \in File /\ InUse(todo[1].f)
    BY <1>1, <1>2 DEF FrameOK, Using
  <1>4. WaitOK' /\ StopsOK'
    BY <1>1 DEF CInv, WaitOK, StopsOK
  <1>5. \A g : ~AtClosed(g) /\ ~AtClosed(g)'
    BY <1>1, <1>2 DEF AtClosed
  <1>6. ASSUME NEW g \in File PROVE ClosingOK(g)'
    <2>1. ClosingOK(g) /\ ~Opened(g)
      BY <1>1 DEF CInv, Opened, Idle
    <2>2. (InUse(g)' => InUse(g)) /\ (place'[g] = "closed" => place[g] = "closed")
      BY <1>1, <1>2, <1>3 DEF IInv, TypeOK, InUse
    <2> QED
      BY <1>1, <1>5, <2>1, <2>2, SteadyFile DEF tvars, fvars
  <1> QED
    BY <1>4, <1>6 DEF CInv

LEMMA ClosedClosing ==
    ASSUME IInv, CInv, Closed
    PROVE  CInv'
  <1>1. /\ call = Idle /\ todo # <<>> /\ todo' = << >> \o Tail(todo) /\ UNCHANGED <<tvars, fvars, sigbus>>
        /\ Head(todo).op = "closed" /\ call' = call /\ call.fn = "idle" /\ call.wait = FALSE
        /\ place' = [place EXCEPT ![Head(todo).f] = "closed"]
    BY DEF Closed, Doing, Then, Idle
  <1>2. Head(todo) = todo[1] /\ FrameOK(todo[1]) /\ 1 \in 1 .. Len(todo)
    BY <1>1, HeadTyped
  <1>3. PICK f \in File : f = todo[1].f
    BY <1>1, <1>2 DEF FrameOK, Using, Closing
  <1>4. Paired(todo')
    <2>1. Paired(todo) /\ Paired(<< >>) /\ << >> \in Seq(Frame)
      BY DEF CInv, StopsOK, Paired
    <2> QED
      BY Zenon, <1>1, <2>1, PushPaired DEF IInv, TypeOK
  <1>5. WaitOK' /\ StopsOK'
    <2>1. call'.fn = "idle" /\ call'.wait = FALSE
      BY <1>1
    <2> QED
      BY <1>4, <2>1 DEF WaitOK, StopsOK, Paired
  <1>6. \A g : ~AtClosed(g)'
    <2>0. << >> \in Seq(Frame)
      OBVIOUS
    <2>1. PICK p \in Seq(Frame) : p = << >>
      BY Zenon, <2>0
    <2>2. todo[1].op # "stop"
      BY <1>1, <1>2
    <2> QED
      BY Zenon, <1>1, <2>1, <2>2, NotAtClosed
  <1>7. ClosingOK(f)'
    <2>1. AtClosed(f) /\ ClosingOK(f) /\ thread[f] = "none" /\ place'[f] = "closed"
      BY Zenon, <1>1, <1>2, <1>3 DEF AtClosed, CInv, IInv, Handlers, TypeOK
    <2> QED
      BY <1>1, <2>1 DEF ClosingOK, Clean, InUse, tvars, fvars
  <1>8. ASSUME NEW g \in File, g # f PROVE ClosingOK(g)'
    <2>1. ClosingOK(g) /\ ~Opened(g) /\ ~AtClosed(g)
      BY <1>1, <1>3, <1>8 DEF CInv, Opened, AtClosed
    <2>2. (InUse(g)' => InUse(g)) /\ (place'[g] = "closed" => place[g] = "closed")
      BY <1>1, <1>2, <1>3, <1>8 DEF IInv, TypeOK, InUse
    <2> QED
      BY <1>1, <1>6, <2>1, <2>2, SteadyFile DEF tvars, fvars
  <1> QED
    BY <1>5, <1>7, <1>8 DEF CInv

\* journal_file_open() on a file that is marked offline.
LEMMA OpenClosing ==
    ASSUME IInv, CInv, call = Idle, todo # <<>>, todo[1].op \in Opener,
           NEW g \in File, OpenFile(g), header[g] = "offline", thread[g] = "none",
           UNCHANGED <<thread, fvars>>
    PROVE  CInv'
  <1>1. /\ call'.fn = "online" /\ call'.f = g /\ call'.wait = FALSE
        /\ offline' = [offline EXCEPT ![g] = "joined"]
        /\ sigbus' = [sigbus EXCEPT ![g] = FALSE]
        /\ place' = [place EXCEPT ![g] = "open"]
    BY DEF OpenFile, CallOn
  <1>2. StopsOK'
    <2>1. Paired(todo)
      BY DEF CInv, StopsOK, Paired
    <2>2. PICK o \in {"opened", "created"} : todo' = <<DoOn(o, g)>> \o Tail(todo)
      BY Zenon DEF OpenFile
    <2>3. PICK x \in Frame : x = DoOn(o, g) /\ x.op = o
      <3>1. DoOn(o, g) \in Frame /\ DoOn(o, g).op = o
        BY <2>2 DEF DoOn, Frame, Op
      <3> QED
        BY Zenon, <3>1
    <2>4. <<x>> \in Seq(Frame) /\ Paired(<<x>>)
      BY <2>3 DEF Paired
    <2>5. Paired(todo')
      BY Zenon, <2>1, <2>2, <2>3, <2>4, PushPaired DEF IInv, TypeOK
    <2> QED
      BY Zenon, <1>1, <2>5 DEF StopsOK, Paired
  <1>3. WaitOK'
    BY <1>1 DEF WaitOK
  <1>4. \A h : ~AtClosed(h) /\ ~AtClosed(h)'
    BY <1>1 DEF AtClosed, Opener
  <1>5. ASSUME NEW h \in File, h # g PROVE ClosingOK(h)'
    <2>1. ClosingOK(h) /\ ~Opened(h)
      BY DEF CInv, Opened, Idle
    <2>2. /\ InUse(h)' => InUse(h)
          /\ place'[h] = place[h] /\ offline'[h] = offline[h] /\ sigbus'[h] = sigbus[h]
      BY <1>1, <1>5 DEF IInv, TypeOK, InUse
    <2> QED
      BY <1>4, <2>1, <2>2, SteadyFile DEF fvars
  <1>6. ClosingOK(g)'
    <2>1. offline'[g] = "joined" /\ place'[g] = "open" /\ thread'[g] = "none" /\ header'[g] = "offline"
      BY <1>1 DEF IInv, TypeOK, fvars
    <2>2. Opened(g)'
      BY <1>1, <2>1 DEF Opened
    <2> QED
      BY <1>4, <2>1, <2>2 DEF ClosingOK
  <1> QED
    BY <1>2, <1>3, <1>5, <1>6 DEF CInv

LEMMA CreateClosing ==
    ASSUME IInv, CInv, CreateJournal
    PROVE  CInv'
  <1>1. /\ call = Idle /\ todo # <<>> /\ Head(todo).op \in {"create", "open", "find"}
        /\ UNCHANGED <<thread, fvars>>
    BY DEF CreateJournal, Opening, Doing
  <1>2. todo[1].op \in Opener /\ todo[1].op \notin {"stop", "closed"}
    BY <1>1, HeadTyped DEF Opener
  <1>3. CASE \E g \in File : place[g] = "free" /\ OpenFile(g)
    <2>1. PICK g \in File : place[g] = "free" /\ OpenFile(g)
      BY <1>3
    <2>2. header[g] = "offline" /\ thread[g] = "none"
      BY <2>1 DEF IInv, Protocol, FileOK, InUse
    <2> QED
      BY <1>1, <1>2, <2>1, <2>2, OpenClosing
  <1>4. CASE journal' = None /\ Then(<< >>) /\ UNCHANGED <<offline, sigbus, place>>
    <2>1. << >> \in Seq(Frame) /\ Paired(<< >>)
      BY DEF Paired
    <2>2. todo' = << >> \o Tail(todo) /\ call' = call /\ UNCHANGED <<tvars, fvars, sigbus, place>>
      BY <1>1, <1>4 DEF Then, tvars
    <2> QED
      BY Zenon, <1>1, <1>2, <2>1, <2>2, FramesClosing
  <1> QED
    BY <1>3, <1>4 DEF CreateJournal

LEMMA ReopenClosing ==
    ASSUME IInv, CInv, ReopenJournal
    PROVE  CInv'
  <1>1. /\ call = Idle /\ todo # <<>> /\ Head(todo).op = "reopen" /\ UNCHANGED <<thread, fvars>>
    BY DEF ReopenJournal, Doing
  <1>2. Head(todo) = todo[1] /\ FrameOK(todo[1])
    BY <1>1, HeadTyped
  <1>3. PICK g \in File : g = todo[1].f /\ place[g] \in {"closed", "left"}
    BY <1>1, <1>2 DEF FrameOK
  <1>4. todo[1].op \in Opener /\ todo[1].op \notin {"stop", "closed"}
    BY <1>1, <1>2 DEF Opener
  <1>5. CASE header[g] = "offline" /\ OpenFile(g)
    <2>1. thread[g] = "none"
      BY <1>3 DEF IInv, Protocol, FileOK, InUse
    <2> QED
      BY <1>1, <1>4, <1>5, <2>1, OpenClosing
  <1>6. CASE Then(<<DoOn("dispose", g)>>) /\ UNCHANGED <<offline, sigbus, place, journal>>
    <2>1. PICK p : p = <<DoOn("dispose", g)>>
      BY Zenon
    <2>2. p \in Seq(Frame) /\ Paired(p) /\ p[1].op # "closed"
      BY <2>1 DEF DoOn, Frame, Op, Paired
    <2>3. todo' = p \o Tail(todo) /\ call' = call /\ UNCHANGED <<tvars, fvars, sigbus, place>>
      BY <1>1, <1>6, <2>1 DEF Then, tvars
    <2> QED
      BY Zenon, <1>1, <1>4, <2>2, <2>3, FramesClosing
  <1> QED
    BY Zenon, <1>2, <1>3, <1>5, <1>6 DEF ReopenJournal

LEMMA DisposeClosing ==
    ASSUME IInv, CInv, DisposeJournal
    PROVE  CInv'
  <1>1. /\ call = Idle /\ todo # <<>> /\ Head(todo).op = "dispose"
        /\ UNCHANGED <<tvars, fvars, sigbus>>
    BY DEF DisposeJournal, Doing
  <1>2. Head(todo) = todo[1] /\ FrameOK(todo[1])
    BY <1>1, HeadTyped
  <1>3. PICK g \in File : g = todo[1].f /\ place[g] \in {"closed", "left"}
    BY <1>1, <1>2 DEF FrameOK, DisposeJournal
  <1>4. todo[1].op \in Opener /\ todo[1].op \notin {"stop", "closed"}
    BY <1>1, <1>2 DEF Opener
  <1>5. CASE Then(<< >>) /\ UNCHANGED place
    <2>1. << >> \in Seq(Frame) /\ Paired(<< >>)
      BY DEF Paired
    <2>2. todo' = << >> \o Tail(todo) /\ call' = call
      BY <1>5 DEF Then
    <2> QED
      BY Zenon, <1>1, <1>4, <1>5, <2>1, <2>2, FramesClosing
  <1>6. CASE /\ place' = [place EXCEPT ![g] = "disposed"]
             /\ Then(<<Do("create")>>)
    <2>1. call' = call /\ call'.fn = "idle" /\ call'.wait = FALSE
      BY <1>1, <1>6 DEF Then, Idle
    <2>2. PICK x : x = Do("create")
      OBVIOUS
    <2>3. x \in Frame /\ x.op = "create"
      BY <2>2 DEF Do, Frame, Op
    <2>4. <<x>> \in Seq(Frame) /\ Paired(<<x>>) /\ <<x>>[1].op # "closed"
      BY <2>3 DEF Paired
    <2>5. todo' = <<x>> \o Tail(todo)
      BY <1>6, <2>2 DEF Then
    <2>6. Paired(todo') /\ \A h : ~AtClosed(h)'
      <3>1. Paired(todo)
        BY DEF CInv, StopsOK, Paired
      <3>2. Paired(todo')
        BY Zenon, <1>1, <2>4, <2>5, <3>1, PushPaired DEF IInv, TypeOK
      <3>3. \A h : ~AtClosed(h)'
        BY Zenon, <1>1, <1>4, <2>4, <2>5, NotAtClosed
      <3> QED
        BY <3>2, <3>3
    <2>7. WaitOK' /\ StopsOK'
      BY <2>1, <2>6 DEF WaitOK, StopsOK, Paired
    <2>8. ASSUME NEW h \in File PROVE ClosingOK(h)'
      <3>1. ClosingOK(h) /\ ~Opened(h) /\ ~AtClosed(h)
        BY <1>1, <1>4 DEF CInv, Opened, Idle, AtClosed
      <3>2. /\ InUse(h)' => InUse(h)
            /\ place'[h] = "closed" => place[h] = "closed"
        BY <1>6 DEF IInv, TypeOK, InUse
      <3> QED
        BY <1>1, <1>6, <2>6, <3>1, <3>2, SteadyFile DEF fvars, tvars
    <2> QED
      BY <2>7, <2>8 DEF CInv
  <1> QED
    BY Zenon, <1>2, <1>3, <1>5, <1>6 DEF DisposeJournal

-----------------------------------------------------------------------------
(* Closing: the functions on a file.                                       *)

LEMMA InCallFacts ==
    ASSUME IInv, CInv, call.fn # "idle"
    PROVE  /\ todo # <<>> /\ todo \in Seq(Frame) /\ Head(todo) = todo[1] /\ todo[1] \in Frame
           /\ call.f \in File /\ InUse(call.f) /\ place[call.f] # "closed"
           /\ FileOK(call.f) /\ ClosingOK(call.f) /\ CallOK
           /\ call.wait => todo[1].op = "stop"
           /\ todo[1].op = "stop" => /\ call.wait /\ call.next # "mark_online"
                                     /\ call.fn \in {"offline", "restart", "join", "begin", "inline"}
           /\ \A g : ~AtClosed(g)
  <1>1. todo # <<>> /\ todo \in Seq(Frame)
    BY DEF IInv, Caller, TypeOK
  <1>2. Head(todo) = todo[1] /\ todo[1] \in Frame
    BY <1>1
  <1>3. call.f \in File /\ InUse(call.f) /\ CallOK
    BY DEF IInv, Protocol, CallOK
  <1> QED
    BY <1>1, <1>2, <1>3 DEF IInv, CInv, Protocol, Caller, WaitOK, AtClosed, InUse

\* The function goes on.
LEMMA GoesOn ==
    ASSUME IInv, CInv, call.fn # "idle", call'.fn # "idle", call'.wait = call.wait, call'.f = call.f,
           todo' = todo, call'.fn = "inline" => call.wait,
           call.wait /\ (call'.fn = "inline" \/ (call'.fn = "join" /\ call'.next = "return"))
               /\ header'[call.f] = "online" => Offlining(call.f)',
           UNCHANGED <<place, sigbus>>,
           \A g \in File \ {call.f} : /\ thread'[g] = thread[g] /\ offline'[g] = offline[g]
                                      /\ header'[g] = header[g] /\ disk'[g] = disk[g],
           thread'[call.f] = "exited" => offline'[call.f] = "done",
           offline'[call.f] # "joined" => thread'[call.f] # "none",
           header'[call.f] # "online" /\ disk'[call.f] = "online" =>
               sigbus[call.f] \/ thread'[call.f] = "commit" \/ Opened(call.f)'
    PROVE  CInv'
  <1>1. StopsOK'
    BY DEF CInv, StopsOK
  <1>2. WaitOK'
    <2>1. call.wait => todo[1].op = "stop"
      BY InCallFacts
    <2> QED
      BY <2>1 DEF WaitOK, Offlining
  <1>3. \A g : ~AtClosed(g) /\ ~AtClosed(g)'
    BY DEF AtClosed
  <1>4. ASSUME NEW g \in File, g # call.f PROVE ClosingOK(g)'
    <2>1. ClosingOK(g) /\ ~Opened(g)
      BY <1>4 DEF CInv, Opened
    <2> QED
      BY <1>3, <1>4, <2>1, SteadyFile DEF InUse
  <1>5. ClosingOK(call.f)'
    <2>1. place'[call.f] # "closed" /\ ~AtClosed(call.f)'
      BY <1>3, InCallFacts
    <2>2. ClosingOK(call.f)'
      BY <2>1 DEF ClosingOK, InUse
    <2> QED
      BY <2>2
  <1>6. call.f \in File
    BY InCallFacts
  <1> QED
    BY <1>1, <1>2, <1>4, <1>5, <1>6 DEF CInv

\* The function returns or fails: what it leaves of its file.
LEMMA GoesBack ==
    ASSUME IInv, CInv, call.fn # "idle", NEW f \in File, f = call.f,
           call'.fn = "idle", call'.wait = FALSE,
           NEW p \in Seq(Frame), Paired(p), p # <<>> => p[1].op # "closed" /\ todo[1].op # "stop",
           todo' = p \o Tail(todo),
           UNCHANGED <<place, sigbus>>,
           \A g \in File \ {f} : /\ thread'[g] = thread[g] /\ offline'[g] = offline[g]
                                      /\ header'[g] = header[g] /\ disk'[g] = disk[g],
           thread'[f] = "exited" => offline'[f] = "done",
           offline'[f] # "joined" => thread'[f] # "none" \/ todo[1].op = "stop",
           header'[f] # "online" /\ disk'[f] = "online" =>
               sigbus[f] \/ thread'[f] = "commit",
           todo[1].op = "stop" => sigbus[f] \/ (header'[f] # "online" /\ disk'[f] # "online")
    PROVE  CInv'
  <1>0. /\ todo # <<>> /\ todo \in Seq(Frame) /\ Paired(todo)
        /\ place[f] # "closed"
    BY InCallFacts DEF CInv, StopsOK, Paired
  <1>1. Paired(todo')
    BY Zenon, <1>0, PushPaired
  <1>2. StopsOK' /\ WaitOK'
    BY <1>1 DEF StopsOK, WaitOK, Paired
  <1>3. /\ \A g : ~AtClosed(g)
        /\ \A g : g # f => ~AtClosed(g)'
        /\ AtClosed(f)' => todo[1].op = "stop"
        /\ todo[1].op = "stop" => AtClosed(f)'
    <2>1. \A g : ~AtClosed(g)
      BY DEF AtClosed
    <2>2. CASE todo[1].op # "stop"
      <3>1. \A g : ~AtClosed(g)'
        BY Zenon, <1>0, <2>2, NotAtClosed
      <3> QED
        BY <2>1, <2>2, <3>1
    <2>3. CASE todo[1].op = "stop"
      <3>1. p = << >> /\ 1 \in 1 .. Len(todo)
        BY <1>0, <2>3
      <3>2. 2 \in 1 .. Len(todo) /\ todo[2].op = "closed" /\ todo[2].f = todo[1].f
        BY <2>3, <3>1 DEF CInv, StopsOK
      <3>3. todo[1].f = f
        BY <2>3 DEF IInv, Caller, Using, Closing
      <3>4. todo' # <<>> /\ todo'[1] = todo[2]
        <4>1. todo' = Tail(todo)
          BY <1>0, <3>1, Pop0
        <4> QED
          BY <1>0, <3>2, <4>1, Pop
      <3> QED
        BY <2>1, <2>3, <3>2, <3>3, <3>4 DEF AtClosed
    <2> QED
      BY <2>2, <2>3
  <1>4. ASSUME NEW g \in File, g # f PROVE ClosingOK(g)'
    <2>1. ClosingOK(g) /\ ~Opened(g)
      BY <1>4 DEF CInv, Opened
    <2> QED
      BY <1>3, <1>4, <2>1, SteadyFile DEF InUse
  <1>5. ClosingOK(f)'
    <2>1. place'[f] # "closed" /\ sigbus'[f] = sigbus[f]
      BY <1>0
    <2>2. AtClosed(f)' => Clean(f)'
      BY <1>3, <2>1 DEF Clean
    <2> QED
      BY <1>3, <2>1, <2>2 DEF ClosingOK, InUse
  <1> QED
    BY <1>2, <1>4, <1>5 DEF CInv

LEMMA ReturnFrames ==
    ASSUME IInv, CInv, call.fn # "idle", Return
    PROVE  \E p \in Seq(Frame) : /\ Paired(p) /\ todo' = p \o Tail(todo)
                                 /\ p # <<>> => p[1].op # "closed" /\ todo[1].op # "stop"
  <1>1. << >> \in Seq(Frame) /\ Paired(<< >>)
    BY DEF Paired
  <1>2. todo' = << >> \o Tail(todo)
    BY InCallFacts, Pop0 DEF Return
  <1> QED
    BY Zenon, <1>1, <1>2

LEMMA FailFrames ==
    ASSUME IInv, CInv, call.fn # "idle", NEW retry \in BOOLEAN, FailWith(retry)
    PROVE  /\ call' = Idle /\ place' = place /\ sigbus' = sigbus
           /\ \E p \in Seq(Frame) : /\ Paired(p) /\ todo' = p \o Tail(todo)
                                    /\ p # <<>> => p[1].op # "closed" /\ todo[1].op # "stop"
  <1>1. call' = Idle /\ place' = place /\ sigbus' = sigbus
    BY Zenon DEF FailWith
  <1>2. Head(todo) = todo[1] /\ call.f \in File
    BY InCallFacts
  <1>3. CASE todo[1].op = "append_first" /\ retry
    <2>1. todo' = RotateAndAppend \o Tail(todo)
      BY Zenon, <1>2, <1>3 DEF FailWith
    <2>2. RotateAndAppend \in Seq(Frame) /\ Paired(RotateAndAppend) /\ RotateAndAppend[1].op # "closed"
      BY DEF RotateAndAppend, Frame, Do, Op, Paired
    <2> QED
      BY SMTT(30), <1>1, <1>3, <2>1, <2>2
  <1>4. CASE todo[1].op \in {"opened", "created"}
    <2>1. PICK p \in Seq(Frame) : /\ todo' = p \o Tail(todo) /\ Len(p) \in {1, 2}
                                  /\ p[1].op = "close"
                                  /\ Len(p) = 2 => p[2].op = "dispose"
      BY Zenon, <1>2, <1>4, OpenFails
    <2>2. p \in Seq(Frame) /\ Paired(p) /\ p[1].op # "closed"
      <3>1. \A i \in 1 .. Len(p) : i = 1 \/ (i = 2 /\ Len(p) = 2)
        BY <2>1
      <3>2. \A i \in 1 .. Len(p) : p[i].op # "stop"
        BY <2>1, <3>1
      <3> QED
        BY <2>1, <3>2 DEF Paired
    <2> QED
      BY Zenon, <1>1, <1>4, <2>1, <2>2
  <1>5. CASE ~(todo[1].op = "append_first" /\ retry) /\ todo[1].op \notin {"opened", "created"}
    <2>1. todo' = << >> \o Tail(todo)
      BY Zenon, <1>2, <1>5 DEF FailWith
    <2>2. << >> \in Seq(Frame) /\ Paired(<< >>)
      BY DEF Paired
    <2> QED
      BY Zenon, <1>1, <2>1, <2>2
  <1> QED
    BY SMTT(90), <1>3, <1>4, <1>5

LEMMA SetOnlineClosing ==
    ASSUME IInv, CInv, SetOnline
    PROVE  CInv'
  <1>1. call.fn = "online" /\ UNCHANGED <<thread, fvars, svars>>
    BY DEF SetOnline, In
  <1>2. PICK f \in File : f = call.f /\ InUse(f) /\ ClosingOK(f) /\ ~AtClosed(f) /\ ~call.wait
    BY <1>1, InCallFacts
  <1>3. offline \in [File -> OfflineState]
    BY DEF IInv, TypeOK
  <1>4. /\ \/ offline[f] = "joined" /\ GoTo("mark_online") /\ offline' = offline
           \/ GoTo("mark_online") \/ JoinThen("mark_online")
        /\ offline[f] = "joined" => GoTo("mark_online")
        /\ \A g \in File \ {f} : offline'[g] = offline[g]
        /\ \/ offline'[f] = offline[f]
           \/ offline[f] \notin {"joined", "done"} /\ offline'[f] = "cancel"
    BY <1>2, <1>3 DEF SetOnline, Offline
  <1>5. /\ call'.fn \in {"mark_online", "join"} /\ call'.f = f /\ call'.wait = call.wait /\ todo' = todo
        /\ offline[f] = "joined" => call'.fn = "mark_online"
    <2>1. CASE GoTo("mark_online")
      BY <1>1, <1>2, <2>1, WentTo DEF Fn
    <2>2. CASE JoinThen("mark_online") /\ offline[f] # "joined"
      BY <1>1, <1>2, <2>2, Moved DEF Fn, JoinThen
    <2> QED
      BY <1>4, <2>1, <2>2
  <1>6. /\ thread'[f] = "exited" => offline'[f] = "done"
        /\ offline'[f] # "joined" => thread'[f] # "none"
    BY <1>1, <1>2, <1>4 DEF ClosingOK
  <1>7. header'[f] # "online" /\ disk'[f] = "online" => sigbus[f] \/ thread'[f] = "commit" \/ Opened(f)'
    <2>1. Opened(f) => Opened(f)'
      BY <1>1, <1>2, <1>4, <1>5 DEF Opened, fvars
    <2> QED
      BY <1>1, <1>2, <2>1 DEF ClosingOK, fvars
  <1> QED
    BY <1>1, <1>2, <1>4, <1>5, <1>6, <1>7, GoesOn DEF fvars, svars

LEMMA FailClosing ==
    ASSUME IInv, CInv, call.fn # "idle", NEW f \in File, f = call.f, NEW retry \in BOOLEAN, FailWith(retry),
           \A g \in File \ {f} : thread'[g] = thread[g] /\ offline'[g] = offline[g],
           header' = header, disk' = disk,
           thread'[f] = "exited" => offline'[f] = "done",
           offline'[f] # "joined" => thread'[f] # "none",
           header[f] # "online" /\ disk[f] = "online" => sigbus[f] \/ thread'[f] = "commit",
           todo[1].op = "stop" => sigbus[f]
    PROVE  CInv'
  <1>1. PICK p \in Seq(Frame) : /\ Paired(p) /\ todo' = p \o Tail(todo)
                                /\ p # <<>> => p[1].op # "closed" /\ todo[1].op # "stop"
    BY FailFrames
  <1>2. call' = Idle /\ place' = place /\ sigbus' = sigbus
    BY FailFrames
  <1>3. call'.fn = "idle" /\ call'.wait = FALSE
    BY <1>2 DEF Idle
  <1> QED
    BY Zenon, <1>1, <1>2, <1>3, GoesBack

LEMMA ReturnClosing ==
    ASSUME IInv, CInv, call.fn # "idle", NEW f \in File, f = call.f, Return, UNCHANGED svars,
           \A g \in File \ {f} : thread'[g] = thread[g] /\ offline'[g] = offline[g],
           header' = header, disk' = disk,
           thread'[f] = "exited" => offline'[f] = "done",
           offline'[f] # "joined" => thread'[f] # "none" \/ todo[1].op = "stop",
           header[f] # "online" /\ disk[f] = "online" => sigbus[f] \/ thread'[f] = "commit",
           todo[1].op = "stop" => sigbus[f] \/ (header[f] # "online" /\ disk[f] # "online")
    PROVE  CInv'
  <1>1. PICK p \in Seq(Frame) : /\ Paired(p) /\ todo' = p \o Tail(todo)
                                /\ p # <<>> => p[1].op # "closed" /\ todo[1].op # "stop"
    BY ReturnFrames
  <1>2. call' = Idle /\ place' = place /\ sigbus' = sigbus
    BY DEF Return, svars
  <1>3. call'.fn = "idle" /\ call'.wait = FALSE
    BY <1>2 DEF Idle
  <1> QED
    BY Zenon, <1>1, <1>2, <1>3, GoesBack

LEMMA MarkOnlineClosing ==
    ASSUME IInv, CInv, MarkOnline
    PROVE  CInv'
  <1>1. call.fn = "mark_online" /\ UNCHANGED <<tvars, disk>>
    BY DEF MarkOnline, In
  <1>2. PICK f \in File : f = call.f /\ InUse(f) /\ ClosingOK(f) /\ ~AtClosed(f) /\ ~call.wait /\ todo[1].op # "stop"
    BY <1>1, InCallFacts
  <1>3. /\ thread'[f] = "exited" => offline'[f] = "done"
        /\ offline'[f] # "joined" => thread'[f] # "none"
    BY <1>1, <1>2 DEF ClosingOK, tvars
  <1>4. CASE sigbus[f] /\ FailWith(TRUE) /\ header' = header
    BY Zenon, <1>1, <1>2, <1>3, <1>4, FailClosing DEF tvars
  <1>5. CASE ~sigbus[f] /\ header[f] = "archived" /\ FailWith(FALSE) /\ header' = header
    <2>1. header[f] # "online" /\ disk[f] = "online" => sigbus[f] \/ thread'[f] = "commit"
      BY <1>1, <1>2, <1>5 DEF ClosingOK, Opened, tvars
    <2> QED
      BY Zenon, <1>1, <1>2, <1>3, <1>5, <2>1, FailClosing DEF tvars
  <1>6. CASE ~sigbus[f] /\ header[f] = "online" /\ GoTo("append") /\ UNCHANGED <<header, svars>>
    <2>1. call'.fn = "append" /\ call'.f = f /\ call'.wait = call.wait /\ todo' = todo
      BY <1>1, <1>2, <1>6, WentTo DEF Fn
    <2> QED
      BY <1>1, <1>2, <1>3, <1>6, <2>1, GoesOn DEF tvars, svars
  <1>7. CASE header[f] = "offline" /\ header' = [header EXCEPT ![f] = "online"] /\ GoTo("sync_online") /\ UNCHANGED svars
    <2>1. call'.fn = "sync_online" /\ call'.f = f /\ call'.wait = call.wait /\ todo' = todo
      BY <1>1, <1>2, <1>7, WentTo DEF Fn
    <2>2. header'[f] = "online" /\ \A g \in File \ {f} : header'[g] = header[g]
      BY <1>7 DEF IInv, TypeOK
    <2> QED
      BY <1>1, <1>2, <1>3, <1>7, <2>1, <2>2, GoesOn DEF tvars, svars
  <1> QED
    BY Zenon, <1>2, <1>4, <1>5, <1>6, <1>7 DEF MarkOnline

LEMMA SyncOnlineClosing ==
    ASSUME IInv, CInv, SyncOnline
    PROVE  CInv'
  <1>1. call.fn = "sync_online" /\ Fsync(call.f) /\ GoTo("append") /\ UNCHANGED <<tvars, svars>>
    BY DEF SyncOnline, In
  <1>2. PICK f \in File : f = call.f /\ InUse(f) /\ ClosingOK(f) /\ ~AtClosed(f) /\ ~call.wait /\ header[f] = "online"
    BY <1>1, InCallFacts DEF CallOK
  <1>3. call'.fn = "append" /\ call'.f = f /\ call'.wait = call.wait /\ todo' = todo
    BY <1>1, <1>2, WentTo DEF Fn
  <1>4. header' = header /\ \A g \in File \ {f} : disk'[g] = disk[g]
    BY <1>1, <1>2 DEF Fsync, IInv, TypeOK
  <1>5. /\ thread'[f] = "exited" => offline'[f] = "done"
        /\ offline'[f] # "joined" => thread'[f] # "none"
    BY <1>1, <1>2 DEF ClosingOK, tvars
  <1> QED
    BY <1>1, <1>2, <1>3, <1>4, <1>5, GoesOn DEF tvars, svars

LEMMA AppendObjectClosing ==
    ASSUME IInv, CInv, AppendObject
    PROVE  CInv'
  <1>1. call.fn = "append" /\ UNCHANGED <<tvars, header, disk>>
    BY DEF AppendObject, In
  <1>2. PICK f \in File : /\ f = call.f /\ InUse(f) /\ ClosingOK(f) /\ ~AtClosed(f) /\ ~call.wait
                          /\ todo[1].op # "stop" /\ header[f] = "online"
    BY <1>1, InCallFacts DEF CallOK
  <1>3. /\ thread'[f] = "exited" => offline'[f] = "done"
        /\ offline'[f] # "joined" => thread'[f] # "none"
    BY <1>1, <1>2 DEF ClosingOK, tvars
  <1>4. CASE Return /\ UNCHANGED svars
    BY <1>1, <1>2, <1>3, <1>4, ReturnClosing DEF tvars
  <1>5. CASE FailWith(TRUE)
    BY Zenon, <1>1, <1>2, <1>3, <1>5, FailClosing DEF tvars
  <1>6. CASE call' = [call EXCEPT !.fn = "online", !.left = @ - 1] /\ todo' = todo /\ UNCHANGED svars
    <2>1. call'.fn = "online" /\ call'.f = f /\ call'.wait = call.wait
      <3>1. call \in [fn : Fn, f : File \cup {None}, wait : BOOLEAN, left : 0 .. MaxObjects,
                      next : {"mark_online", "begin", "return"}]
        BY DEF IInv, TypeOK, Call
      <3> QED
        BY Zenon, <1>2, <1>6, <3>1
    <2> QED
      BY <1>1, <1>2, <1>3, <1>6, <2>1, GoesOn DEF tvars, svars
  <1> QED
    BY Zenon, <1>4, <1>5, <1>6 DEF AppendObject

LEMMA SetOfflineClosing ==
    ASSUME IInv, CInv, SetOffline
    PROVE  CInv'
  <1>1. call.fn = "offline" /\ UNCHANGED <<tvars, fvars, svars>>
    BY DEF SetOffline, In
  <1>2. PICK f \in File : f = call.f /\ InUse(f) /\ ClosingOK(f) /\ ~AtClosed(f)
    BY <1>1, InCallFacts
  <1>3. /\ thread'[f] = "exited" => offline'[f] = "done"
        /\ offline'[f] # "joined" => thread'[f] # "none"
        /\ header'[f] # "online" /\ disk'[f] = "online" => sigbus[f] \/ thread'[f] = "commit"
    BY <1>1, <1>2 DEF ClosingOK, tvars, fvars, Opened
  <1>4. CASE GoTo("restart")
    <2>1. call'.fn = "restart" /\ call'.f = f /\ call'.wait = call.wait /\ todo' = todo
      BY <1>1, <1>2, <1>4, WentTo DEF Fn
    <2> QED
      BY <1>1, <1>2, <1>3, <2>1, GoesOn DEF tvars, fvars, svars
  <1>5. CASE JoinThen("return") /\ header[f] # "online"
    <2>1. call'.fn = "join" /\ call'.f = f /\ call'.wait = call.wait /\ todo' = todo
      BY <1>1, <1>2, <1>5, Moved DEF Fn, JoinThen
    <2> QED
      BY <1>1, <1>2, <1>3, <1>5, <2>1, GoesOn DEF tvars, fvars, svars
  <1> QED
    BY <1>2, <1>4, <1>5 DEF SetOffline

LEMMA TryRestartClosing ==
    ASSUME IInv, CInv, TryRestart
    PROVE  CInv'
  <1>1. call.fn = "restart" /\ UNCHANGED <<thread, fvars, svars>>
    BY DEF TryRestart, In
  <1>2. PICK f \in File : /\ f = call.f /\ InUse(f) /\ ClosingOK(f) /\ ~AtClosed(f)
                          /\ (todo[1].op = "stop" => call.wait)
    BY <1>1, InCallFacts
  <1>3. /\ \A g \in File \ {f} : offline'[g] = offline[g]
        /\ \/ /\ offline[f] \notin {"joined", "done"}
              /\ offline'[f] \in {"again_from_syncing", "again_from_offlining"}
              /\ IF call.wait THEN JoinThen("return") ELSE Return
           \/ JoinThen("begin") /\ offline' = offline
    BY <1>2 DEF TryRestart, Offline, IInv, TypeOK
  <1>4. /\ thread'[f] = "exited" => offline'[f] = "done"
        /\ offline'[f] # "joined" => thread'[f] # "none"
        /\ header'[f] # "online" /\ disk'[f] = "online" => sigbus[f] \/ thread'[f] = "commit"
    BY <1>1, <1>2, <1>3 DEF ClosingOK, fvars, Opened
  <1>5. CASE JoinThen("begin")
    <2>1. call'.fn = "join" /\ call'.f = f /\ call'.wait = call.wait /\ todo' = todo /\ call'.next = "begin"
      BY <1>1, <1>2, <1>5, Joins
    <2> QED
      BY <1>1, <1>2, <1>3, <1>4, <2>1, GoesOn DEF fvars, svars
  <1>6. CASE JoinThen("return") /\ offline'[f] \in {"again_from_syncing", "again_from_offlining"}
    <2>1. call'.fn = "join" /\ call'.f = f /\ call'.wait = call.wait /\ todo' = todo
      BY <1>1, <1>2, <1>6, Moved DEF Fn, JoinThen
    <2>2. Offlining(call.f)'
      BY <1>6, <2>1 DEF Offlining
    <2> QED
      BY <1>1, <1>2, <1>3, <1>4, <2>1, <2>2, GoesOn DEF fvars, svars
  <1>7. CASE ~call.wait /\ Return
    BY <1>1, <1>2, <1>3, <1>4, <1>7, ReturnClosing DEF fvars
  <1> QED
    BY <1>3, <1>5, <1>6, <1>7

LEMMA BeginClosing ==
    ASSUME IInv, CInv, Begin
    PROVE  CInv'
  <1>1. call.fn = "begin" /\ UNCHANGED <<fvars, svars>>
    BY DEF Begin, In
  <1>2. PICK f \in File : /\ f = call.f /\ InUse(f) /\ ClosingOK(f) /\ ~AtClosed(f)
                          /\ (todo[1].op = "stop" => call.wait)
                          /\ offline[f] = "joined" /\ thread[f] = "none"
    BY <1>1, InCallFacts DEF CallOK, FileOK
  <1>3. header'[f] # "online" /\ disk'[f] = "online" => sigbus[f]
    BY <1>1, <1>2 DEF ClosingOK, fvars, Opened
  <1>4. CASE /\ offline' = [offline EXCEPT ![f] = "syncing"]
             /\ thread' = [thread EXCEPT ![f] = "loop"]
             /\ IF call.wait THEN GoTo("inline") ELSE Return
    <2>1. /\ offline'[f] = "syncing" /\ thread'[f] = "loop"
          /\ \A g \in File \ {f} : thread'[g] = thread[g] /\ offline'[g] = offline[g]
      BY <1>4 DEF IInv, TypeOK
    <2>2. CASE call.wait /\ GoTo("inline")
      <3>1. call'.fn = "inline" /\ call'.f = f /\ call'.wait = call.wait /\ todo' = todo
        BY Zenon, <1>1, <1>2, <2>2, WentTo DEF Fn
      <3>2. Offlining(call.f)'
        BY <2>1, <3>1 DEF Offlining
      <3> QED
        BY <1>1, <1>2, <1>3, <2>1, <2>2, <3>1, <3>2, GoesOn DEF fvars, svars
    <2>3. CASE ~call.wait /\ Return
      BY <1>1, <1>2, <1>3, <2>1, <2>3, ReturnClosing DEF fvars
    <2> QED
      BY <1>4, <2>2, <2>3
  <1>5. CASE /\ ~call.wait
             /\ offline' = [offline EXCEPT ![f] = "joined"]
             /\ Return
             /\ UNCHANGED thread
    <2>1. offline'[f] = "joined" /\ thread'[f] = "none" /\ \A g \in File \ {f} : offline'[g] = offline[g]
      BY <1>2, <1>5 DEF IInv, TypeOK
    <2> QED
      BY <1>1, <1>2, <1>3, <1>5, <2>1, ReturnClosing DEF fvars
  <1> QED
    BY <1>2, <1>4, <1>5 DEF Begin

\* The waiting call returned: the file is clean.
LEMMA WaitedFor ==
    ASSUME IInv, CInv, call.fn \in {"join", "inline"}, NEW f \in File, f = call.f, todo[1].op = "stop",
           call.fn = "join" => call.next = "return", offline[f] \in {"joined", "done"},
           thread[f] # "commit"
    PROVE  sigbus[f] \/ (header[f] # "online" /\ disk[f] # "online")
  <1>1. call.wait /\ ClosingOK(f) /\ InUse(f)
    BY InCallFacts
  <1>2. ~Offlining(f) /\ ~Opened(f)
    BY DEF Offlining, Opened
  <1>3. header[f] # "online"
    BY <1>1, <1>2 DEF CInv, WaitOK
  <1> QED
    BY <1>1, <1>2, <1>3 DEF ClosingOK

LEMMA InlineClosing ==
    ASSUME IInv, CInv, InlineReturns
    PROVE  CInv'
  <1>1. /\ call.fn = "inline" /\ UNCHANGED <<offline, fvars, svars>> /\ Return
        /\ thread[call.f] = "exited" /\ thread' = [thread EXCEPT ![call.f] = "none"]
    BY DEF InlineReturns, In, ThreadAt
  <1>2. PICK f \in File : f = call.f /\ InUse(f) /\ ClosingOK(f) /\ todo[1].op = "stop" /\ offline[f] = "done"
    BY <1>1, InCallFacts DEF CInv, StopsOK, ClosingOK
  <1>3. thread'[f] = "none" /\ \A g \in File \ {f} : thread'[g] = thread[g]
    BY <1>1, <1>2 DEF IInv, TypeOK
  <1>4. sigbus[f] \/ (header[f] # "online" /\ disk[f] # "online")
    BY <1>1, <1>2, WaitedFor
  <1> QED
    BY <1>1, <1>2, <1>3, <1>4, ReturnClosing DEF fvars

LEMMA JoinClosing ==
    ASSUME IInv, CInv, Join
    PROVE  CInv'
  <1>1. call.fn = "join" /\ UNCHANGED fvars
    BY DEF Join, In
  <1>2. PICK f \in File : f = call.f /\ InUse(f) /\ ClosingOK(f) /\ FileOK(f) /\ ~AtClosed(f)
    BY <1>1, InCallFacts
  <1>3. call.next \in {"mark_online", "begin", "return"} /\ call \in Call
    BY DEF IInv, TypeOK, Call
  <1>4. /\ thread'[f] = "none" /\ offline'[f] = "joined"
        /\ thread[f] \in {"none", "exited"} /\ offline[f] \in {"joined", "done"}
        /\ \A g \in File \ {f} : thread'[g] = thread[g] /\ offline'[g] = offline[g]
        /\ \/ call.next = "return" /\ Return /\ UNCHANGED svars
           \/ call.next # "return" /\ GoTo(call.next) /\ UNCHANGED svars
           \/ sigbus[f] /\ FailWith(TRUE)
    <2>1. CASE /\ offline[f] = "joined" /\ UNCHANGED <<tvars, svars>>
               /\ IF call.next = "return" THEN Return ELSE GoTo(call.next)
      BY Zenon, <1>2, <2>1 DEF FileOK, tvars
    <2>2. CASE /\ ThreadAt(f, "exited", "none")
               /\ Offline(f, OfflineState \ {"joined"}, "joined")
               /\ \/ ~sigbus[f] /\ call.next = "return" /\ Return /\ UNCHANGED svars
                  \/ ~sigbus[f] /\ call.next # "return" /\ GoTo(call.next) /\ UNCHANGED svars
                  \/ sigbus[f] /\ FailWith(TRUE)
      <3>1. /\ thread'[f] = "none" /\ offline'[f] = "joined"
            /\ thread[f] = "exited" /\ offline[f] = "done"
            /\ \A g \in File \ {f} : thread'[g] = thread[g] /\ offline'[g] = offline[g]
        BY <1>2, <2>2 DEF ThreadAt, Offline, IInv, TypeOK, ClosingOK
      <3> QED
        BY Zenon, <2>2, <3>1
    <2> QED
      BY Zenon, <1>2, <2>1, <2>2 DEF Join
  <1>5. header[f] # "online" /\ disk[f] = "online" => sigbus[f]
    BY <1>1, <1>2, <1>4 DEF ClosingOK, Opened
  <1>6. CASE call.next = "return" /\ Return /\ UNCHANGED svars
    <2>1. todo[1].op = "stop" => sigbus[f] \/ (header[f] # "online" /\ disk[f] # "online")
      BY <1>1, <1>2, <1>4, <1>6, WaitedFor
    <2> QED
      BY <1>1, <1>2, <1>4, <1>5, <1>6, <2>1, ReturnClosing DEF fvars
  <1>7. CASE call.next # "return" /\ GoTo(call.next) /\ UNCHANGED svars
    <2>1. /\ call'.fn = call.next /\ call'.f = f /\ call'.wait = call.wait /\ todo' = todo
      BY <1>1, <1>2, <1>3, <1>7, WentTo DEF Fn
    <2> QED
      BY <1>1, <1>2, <1>3, <1>4, <1>5, <1>7, <2>1, GoesOn DEF fvars, svars
  <1>8. CASE sigbus[f] /\ FailWith(TRUE)
    BY Zenon, <1>1, <1>2, <1>4, <1>5, <1>8, FailClosing DEF fvars
  <1> QED
    BY Zenon, <1>4, <1>6, <1>7, <1>8

-----------------------------------------------------------------------------
(* Closing: the events of the main loop, and the invariant.                *)

LEMMA EventClosing ==
    ASSUME IInv, CInv, NEW p \in Seq(Frame), Event(p),
           \A i \in 1 .. Len(p) : p[i].op \notin {"stop", "closed"}
    PROVE  CInv'
  <1>1. /\ call' = call /\ call.fn = "idle" /\ call.wait = FALSE /\ todo = <<>> /\ todo' = p
        /\ UNCHANGED <<tvars, fvars, sigbus, place>>
    BY DEF Event, Idle
  <1>2. WaitOK' /\ StopsOK'
    BY <1>1 DEF WaitOK, StopsOK
  <1>3. \A g : ~AtClosed(g) /\ ~AtClosed(g)'
    <2>1. p # <<>> => 1 \in 1 .. Len(p)
      OBVIOUS
    <2> QED
      BY <1>1, <2>1 DEF AtClosed
  <1>4. ASSUME NEW g \in File PROVE ClosingOK(g)'
    <2>1. ClosingOK(g) /\ ~Opened(g)
      BY <1>1 DEF CInv, Opened
    <2> QED
      BY <1>1, <1>3, <2>1, SteadyFile DEF tvars, fvars, InUse
  <1> QED
    BY <1>2, <1>4 DEF CInv

LEMMA EventsClosing ==
    ASSUME IInv, CInv, WriteEntry \/ server_rotate \/ server_sync \/ RelinquishVar
    PROVE  CInv'
  <1>0. journal \in File \cup {None}
    BY DEF IInv, TypeOK
  <1>1. ASSUME Event(<<Do("find"), Do("append_first")>>) PROVE CInv'
    <2>1. PICK p : p = <<Do("find"), Do("append_first")>>
      BY Zenon
    <2>2. p \in Seq(Frame) /\ \A i \in 1 .. Len(p) : p[i].op \notin {"stop", "closed"}
      BY <2>1 DEF Do, Frame, Op
    <2> QED
      BY Zenon, <1>1, <2>1, <2>2, EventClosing
  <1>2. ASSUME Event(RotateAndAppend) PROVE CInv'
    <2>1. RotateAndAppend \in Seq(Frame) /\ \A i \in 1 .. Len(RotateAndAppend) : RotateAndAppend[i].op \notin {"stop", "closed"}
      BY DEF RotateAndAppend, Do, Frame, Op
    <2> QED
      BY <1>2, <2>1, EventClosing
  <1>3. ASSUME Event(<<Do("rotate")>>) PROVE CInv'
    <2>1. PICK p : p = <<Do("rotate")>>
      BY Zenon
    <2>2. p \in Seq(Frame) /\ \A i \in 1 .. Len(p) : p[i].op \notin {"stop", "closed"}
      BY <2>1 DEF Do, Frame, Op
    <2> QED
      BY Zenon, <1>3, <2>1, <2>2, EventClosing
  <1>4. ASSUME Event(<<DoOn("sync", journal)>>) PROVE CInv'
    <2>1. PICK p : p = <<DoOn("sync", journal)>>
      BY Zenon
    <2>2. p \in Seq(Frame) /\ \A i \in 1 .. Len(p) : p[i].op \notin {"stop", "closed"}
      BY <1>0, <2>1 DEF DoOn, Frame, Op
    <2> QED
      BY <1>4, <2>1, <2>2, EventClosing
  <1>5. ASSUME Event(<<Do("open"), DoOn("close", journal), Process("process_all")>>) PROVE CInv'
    <2>1. PICK p : p = <<Do("open"), DoOn("close", journal), Process("process_all")>>
      BY Zenon
    <2>2. p \in Seq(Frame) /\ \A i \in 1 .. Len(p) : p[i].op \notin {"stop", "closed"}
      BY <1>0, <2>1 DEF Do, DoOn, Process, Frame, Op
    <2> QED
      BY Zenon, <1>5, <2>1, <2>2, EventClosing
  <1> QED
    BY Zenon, <1>1, <1>2, <1>3, <1>4, <1>5 DEF WriteEntry, server_rotate, server_sync, RelinquishVar

LEMMA StutterClosing ==
    ASSUME CInv, UNCHANGED vars
    PROVE  CInv'
  <1>1. UNCHANGED <<offline, thread, header, disk, sigbus, place, call, todo>>
    BY DEF vars, tvars, fvars, svars
  <1>2. StopsOK' /\ WaitOK'
    BY <1>1 DEF CInv, StopsOK, WaitOK, Offlining
  <1>3. ASSUME NEW g \in File PROVE ClosingOK(g)'
    BY <1>1, CallSame, UntouchedFile DEF CInv
  <1> QED
    BY <1>2, <1>3 DEF CInv

LEMMA NextClosing ==
    ASSUME IInv, CInv, [Next]_vars
    PROVE  CInv'
  <1>1. CASE InCall
    BY Zenon, <1>1, SetOnlineClosing, JoinClosing, MarkOnlineClosing, SyncOnlineClosing, AppendObjectClosing,
       SetOfflineClosing, TryRestartClosing, BeginClosing, InlineClosing
    DEF InCall
  <1>2. CASE Handle
    BY Zenon, <1>2, CreateClosing, ReopenClosing, DisposeClosing, QuietClosing, InitiateClosing, CloseClosing, CallStepClosing,
       ClosedClosing
    DEF Handle
  <1> QED
    BY Zenon, <1>1, <1>2, EventsClosing, ThreadClosing, WritebackClosing, SigBusClosing, CrashClosing, StutterClosing
    DEF Next, Main

LEMMA ClosingInductive == Spec => []CInv
  <1>1. Init => CInv
    BY InitClosing
  <1>2. IInv /\ CInv /\ [Next]_vars => CInv'
    BY NextClosing
  <1> QED
    BY <1>1, <1>2, Inductive, PTL DEF Spec

-----------------------------------------------------------------------------

\* However a file came to be closed, journal_file_close() leaves no thread that
\* would use it, and unless an access to it failed it is complete and not marked
\* online, in memory and on disk.
THEOREM ClosedCleanHolds == Spec => []ClosedClean
  <1>1. IInv /\ CInv => ClosedClean
    <2> SUFFICES ASSUME IInv, CInv, NEW f \in File, place[f] = "closed"
                 PROVE  /\ thread[f] = "none"
                        /\ ~sigbus[f] => header[f] # "online" /\ disk[f] # "online" /\ ~pending[f]
      BY DEF ClosedClean
    <2>1. thread[f] = "none" /\ (pending[f] => disk[f] = "online")
      BY DEF IInv, Protocol, FileOK, InUse
    <2>2. Clean(f)
      BY DEF CInv, ClosingOK
    <2> QED
      BY <2>1, <2>2 DEF Clean
  <1> QED
    BY <1>1, Inductive, ClosingInductive, PTL

\* journal_file_set_offline_thread_join() waits for a thread that exists: none
\* is joined twice, and none that never started.
THEOREM JoinsThreadHolds == Spec => []JoinsThread
  <1>1. IInv /\ CInv => JoinsThread
    BY DEF IInv, Protocol, CallOK, CInv, ClosingOK, AtClosed, JoinsThread
  <1> QED
    BY <1>1, Inductive, ClosingInductive, PTL
=============================================================================
