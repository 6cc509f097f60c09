--------------------------- MODULE JournalOffline ---------------------------
(***************************************************************************)
(* journald writing, syncing, rotating and closing its journal files, with *)
(* the threads that take a file offline (journal-file.c, the journal half  *)
(* of journald-server.c).                                                  *)
(*                                                                         *)
(* The main thread and the offline thread of a file share offline_state    *)
(* and the header.  Each reads offline_state and changes it with a         *)
(* compare-and-swap that is tried again when it fails, so that the read    *)
(* and the swap that succeeds are one step here.                           *)
(*                                                                         *)
(* The main thread is in one of the functions that touch a file (call);    *)
(* todo holds what the running handler does after it, the caller of that   *)
(* function first.                                                         *)
(***************************************************************************)
EXTENDS Naturals, Sequences

CONSTANTS
    File,           \* journal files; each is created once
    None,           \* no journal file (a NULL pointer)
    MaxObjects      \* bound: objects one entry appends

ASSUME FileAssumption == None \notin File
ASSUME MaxObjectsAssumption == MaxObjects \in Nat \ {0}

VARIABLES
    offline,        \* JournalFile.offline_state
    thread,         \* where the offline thread of a file is
    header,         \* header->state, as mapped into memory
    disk,           \* header->state, as a power failure would leave it
    pending,        \* the file has entries that are not on disk
    lost,           \* a power failure took entries of the file
    archive,        \* JournalFile.archive; the file has its archive name
    sigbus,         \* mmap_cache_got_sigbus(): an access to the file failed
    place,          \* what became of the file so far
    journal,        \* Server.system_journal, or the runtime journal; None also
                    \* while another file takes its place
    call,           \* the function on a file the main thread is in
    todo            \* what the handler does next

tvars == <<offline, thread>>
fvars == <<header, disk, pending, lost>>
svars == <<archive, sigbus, place, journal>>
vars == <<tvars, fvars, svars, call, todo>>

OfflineState == {"joined", "syncing", "offlining", "cancel",
                 "again_from_syncing", "again_from_offlining", "done"}
ThreadState == {"none", "loop", "fsync", "swap", "mark", "commit", "exited"}
HeaderState == {"offline", "online", "archived"}
\* Not created yet, open, in deferred_closes, closed, left behind by a crash,
\* renamed to *.journal~ by journal_file_dispose().
Place == {"free", "open", "deferred", "closed", "left", "disposed"}

\* Functions on a file, split where the other thread can be seen.  After a
\* join the function goes on with next; left counts the objects still to be
\* appended.
Fn == {"idle", "online", "mark_online", "sync_online", "append",
       "offline", "restart", "join", "begin", "inline"}
Call == [fn : Fn, f : File \cup {None}, wait : BOOLEAN, left : 0 .. MaxObjects,
         next : {"mark_online", "begin", "return"}]
Idle == [fn |-> "idle", f |-> None, wait |-> FALSE, left |-> 0, next |-> "return"]

\* What a handler does, on the file f if there is one; left are the files a
\* loop over deferred_closes has not visited yet.  append_first may still
\* rotate and append, process_all closes every deferred file, and a file that
\* is created is not replaced when that fails.
Op == {"find", "open", "create", "reopen", "dispose", "opened", "created",
       "append_first", "append", "rotate", "defer", "process", "process_all", "close", "tag", "stop", "closed", "sync"}
Frame == [op : Op, f : File \cup {None}, left : SUBSET File]
Do(op) == [op |-> op, f |-> None, left |-> {}]
DoOn(op, f) == [op |-> op, f |-> f, left |-> {}]
Process(op) == [op |-> op, f |-> None, left |-> File]

Deferred == {f \in File : place[f] = "deferred"}
journal_file_is_offlining(f) == offline[f] \notin {"done", "joined"}

Init ==
    /\ offline = [f \in File |-> "joined"]
    /\ thread = [f \in File |-> "none"]
    /\ header = [f \in File |-> "offline"]
    /\ disk = [f \in File |-> "offline"]
    /\ pending = [f \in File |-> FALSE]
    /\ lost = [f \in File |-> FALSE]
    /\ archive = [f \in File |-> FALSE]
    /\ sigbus = [f \in File |-> FALSE]
    /\ place = [f \in File |-> "free"]
    /\ journal = None
    /\ call = Idle
    /\ todo = <<>>

\* fsync(f->fd)
Fsync(f) ==
    /\ disk' = [disk EXCEPT ![f] = header[f]]
    /\ pending' = [pending EXCEPT ![f] = FALSE]
    /\ UNCHANGED <<header, lost>>

-----------------------------------------------------------------------------
(* The offline thread: journal_file_set_offline_internal().                *)

ThreadAt(f, p, q) == thread[f] = p /\ thread' = [thread EXCEPT ![f] = q]
Offline(f, p, q) == offline[f] \in p /\ offline' = [offline EXCEPT ![f] = q]

\* A changed form of ThreadReturns: a restart is taken for the end.
ReturnsOnRestart(f) ==
    /\ ThreadAt(f, "loop", "exited")
    /\ Offline(f, {"cancel", "offlining", "done", "again_from_syncing"}, "done")
    /\ UNCHANGED fvars

ThreadReturns(f) ==
    /\ ThreadAt(f, "loop", "exited")
    /\ Offline(f, {"cancel", "offlining", "done"}, "done")
    /\ UNCHANGED fvars

ThreadAgain(f) ==
    /\ ThreadAt(f, "loop", "loop")
    /\ Offline(f, {"again_from_syncing", "again_from_offlining"}, "syncing")
    /\ UNCHANGED fvars

ThreadSyncs(f) ==
    /\ ThreadAt(f, "loop", "fsync")
    /\ Offline(f, {"syncing"}, "syncing")
    /\ UNCHANGED fvars

ThreadFsync(f) ==
    /\ ThreadAt(f, "fsync", "swap")
    /\ Fsync(f)
    /\ UNCHANGED offline

\* A changed form of ThreadSwap: the swap is waited for.
SwapWaits(f) ==
    /\ UNCHANGED fvars
    /\ ThreadAt(f, "swap", "mark") /\ Offline(f, {"syncing"}, "offlining")

ThreadSwap(f) ==
    /\ UNCHANGED fvars
    /\ \/ ThreadAt(f, "swap", "mark") /\ Offline(f, {"syncing"}, "offlining")
       \/ ThreadAt(f, "swap", "loop") /\ offline[f] # "syncing" /\ UNCHANGED offline

ThreadMark(f) ==
    /\ ThreadAt(f, "mark", "commit")
    /\ header' = [header EXCEPT ![f] = IF archive[f] THEN "archived" ELSE "offline"]
    /\ UNCHANGED <<offline, disk, pending, lost>>

ThreadCommit(f) ==
    /\ ThreadAt(f, "commit", "loop")
    /\ Fsync(f)
    /\ UNCHANGED offline

Thread(f) ==
    /\ \/ ThreadReturns(f) \/ ThreadAgain(f) \/ ThreadSyncs(f) \/ ThreadFsync(f)
       \/ ThreadSwap(f) \/ ThreadMark(f) \/ ThreadCommit(f)
    /\ UNCHANGED <<svars, call, todo>>

-----------------------------------------------------------------------------
(* The main thread, inside a function on a file.                           *)

In(fn) == call.fn = fn
GoTo(fn) == call' = [call EXCEPT !.fn = fn] /\ UNCHANGED todo
JoinThen(next) == call' = [call EXCEPT !.fn = "join", !.next = next] /\ UNCHANGED todo
Return == call' = Idle /\ todo' = Tail(todo)

RotateAndAppend == <<Do("rotate"), Do("find"), Do("append")>>

\* The function fails; retry: with an error that makes write_to_journal()
\* rotate and try once more (shall_try_append_again()).  A file that can not be
\* put online is closed, and after an I/O error disposed of and replaced, once
\* (journal_file_open_reliably()).
FailWith(retry) ==
    /\ call' = Idle
    /\ todo' = (CASE Head(todo).op = "append_first" /\ retry ->
                         RotateAndAppend
                  [] Head(todo).op = "opened" /\ sigbus[call.f] ->
                         <<DoOn("close", call.f), DoOn("dispose", call.f)>>
                  [] Head(todo).op = "created" \/ (Head(todo).op = "opened" /\ ~sigbus[call.f]) ->
                         <<DoOn("close", call.f)>>
                  [] OTHER -> <<>>) \o Tail(todo)
    /\ journal' = IF Head(todo).op \in {"opened", "created"} THEN None ELSE journal
    /\ UNCHANGED <<archive, sigbus, place>>

\* A changed form of SetOnline: a restart is cancelled without waiting for the
\* offlining before it.
OnlineWithoutWait ==
    /\ In("online")
    /\ LET f == call.f IN
       \/ offline[f] = "joined" /\ GoTo("mark_online") /\ UNCHANGED offline
       \/ /\ Offline(f, {"syncing", "again_from_syncing", "again_from_offlining"}, "cancel")
          /\ GoTo("mark_online")
       \/ /\ offline[f] \in {"offlining", "cancel", "done"}
          /\ JoinThen("mark_online")
          /\ UNCHANGED offline
    /\ UNCHANGED <<thread, fvars, svars>>

\* journal_file_set_online(): take the file back from the offline thread.
SetOnline ==
    /\ In("online")
    /\ LET f == call.f IN
       \/ offline[f] = "joined" /\ GoTo("mark_online") /\ UNCHANGED offline
       \/ Offline(f, {"syncing", "again_from_syncing"}, "cancel") /\ GoTo("mark_online")
       \/ Offline(f, {"again_from_offlining"}, "cancel") /\ JoinThen("mark_online")
       \/ /\ offline[f] \in {"offlining", "cancel", "done"}
          /\ JoinThen("mark_online")
          /\ UNCHANGED offline
    /\ UNCHANGED <<thread, fvars, svars>>

\* A changed form of Join: the state is not reset after an I/O error.
JoinKeepsState ==
    LET f == call.f IN
    /\ In("join")
    /\ \/ /\ offline[f] = "joined"
          /\ IF call.next = "return" THEN Return ELSE GoTo(call.next)
          /\ UNCHANGED <<tvars, svars>>
       \/ /\ ThreadAt(f, "exited", "none")
          /\ \/ /\ ~sigbus[f]
                /\ Offline(f, OfflineState \ {"joined"}, "joined")
                /\ IF call.next = "return" THEN Return ELSE GoTo(call.next)
                /\ UNCHANGED svars
             \/ sigbus[f] /\ offline[f] # "joined" /\ FailWith(TRUE) /\ UNCHANGED offline
    /\ UNCHANGED fvars

\* journal_file_set_offline_thread_join() and what its caller does with the
\* result.
Join ==
    LET f == call.f IN
    /\ In("join")
    /\ \/ /\ offline[f] = "joined"
          /\ IF call.next = "return" THEN Return ELSE GoTo(call.next)
          /\ UNCHANGED <<tvars, svars>>
       \/ /\ ThreadAt(f, "exited", "none")
          /\ Offline(f, OfflineState \ {"joined"}, "joined")
          /\ \/ ~sigbus[f] /\ call.next = "return" /\ Return /\ UNCHANGED svars
             \/ ~sigbus[f] /\ call.next # "return" /\ GoTo(call.next) /\ UNCHANGED svars
             \/ sigbus[f] /\ FailWith(TRUE)
    /\ UNCHANGED fvars

MarkOnline ==
    LET f == call.f IN
    /\ In("mark_online")
    /\ \/ sigbus[f] /\ FailWith(TRUE) /\ UNCHANGED header
       \/ ~sigbus[f] /\ header[f] = "online" /\ GoTo("append") /\ UNCHANGED <<header, svars>>
       \/ /\ ~sigbus[f] /\ header[f] = "offline"
          /\ header' = [header EXCEPT ![f] = "online"]
          /\ GoTo("sync_online")
          /\ UNCHANGED svars
       \/ ~sigbus[f] /\ header[f] = "archived" /\ FailWith(FALSE) /\ UNCHANGED header
    /\ UNCHANGED <<tvars, disk, pending, lost>>

SyncOnline ==
    /\ In("sync_online")
    /\ Fsync(call.f)
    /\ GoTo("append")
    /\ UNCHANGED <<tvars, svars>>

\* journal_file_append_object(); the next object begins with set_online()
\* again.  A limit may be reached instead; a file that existed needs no hash
\* tables.
AppendObject ==
    /\ In("append")
    /\ \/ /\ pending' = [pending EXCEPT ![call.f] = TRUE]
          /\ \/ call.left = 0 /\ Return
             \/ call.left > 0 /\ call' = [call EXCEPT !.fn = "online", !.left = @ - 1] /\ UNCHANGED todo
          /\ UNCHANGED svars
       \/ FailWith(TRUE) /\ UNCHANGED pending
       \/ Head(todo).op \in {"opened", "created"} /\ Return /\ UNCHANGED <<pending, svars>>
    /\ UNCHANGED <<tvars, header, disk, lost>>

\* journal_file_set_offline(): nothing to do, or ...
SetOffline ==
    /\ In("offline")
    /\ IF journal_file_is_offlining(call.f) \/ header[call.f] = "online"
       THEN GoTo("restart")
       ELSE JoinThen("return")
    /\ UNCHANGED <<tvars, fvars, svars>>

\* ... journal_file_set_offline_try_restart(), or ...
TryRestart ==
    LET f == call.f
        restarted == IF call.wait THEN JoinThen("return") ELSE Return
    IN
    /\ In("restart")
    /\ \/ Offline(f, {"again_from_syncing", "cancel", "syncing"}, "again_from_syncing") /\ restarted
       \/ Offline(f, {"again_from_offlining", "offlining"}, "again_from_offlining") /\ restarted
       \/ offline[f] \in {"joined", "done"} /\ JoinThen("begin") /\ UNCHANGED offline
    /\ UNCHANGED <<thread, fvars, svars>>

\* ... a new thread, which may fail to start, or the loop of the thread in
\* place.
Begin ==
    LET f == call.f IN
    /\ In("begin")
    /\ \/ /\ offline' = [offline EXCEPT ![f] = "syncing"]
          /\ thread' = [thread EXCEPT ![f] = "loop"]
          /\ IF call.wait THEN GoTo("inline") ELSE Return
       \/ /\ ~call.wait
          /\ offline' = [offline EXCEPT ![f] = "joined"]
          /\ Return
          /\ UNCHANGED thread
    /\ UNCHANGED <<fvars, svars>>

\* The main thread itself was in journal_file_set_offline_internal().
InlineReturns ==
    /\ In("inline")
    /\ ThreadAt(call.f, "exited", "none")
    /\ Return
    /\ UNCHANGED <<offline, fvars, svars>>

InCall ==
    \/ SetOnline \/ Join \/ MarkOnline \/ SyncOnline \/ AppendObject
    \/ SetOffline \/ TryRestart \/ Begin \/ InlineReturns

-----------------------------------------------------------------------------
(* The handlers of the main thread.                                        *)

Doing(op) == call = Idle /\ todo # <<>> /\ Head(todo).op = op
CallOn(fn, f, wait, left) ==
    call' = [fn |-> fn, f |-> f, wait |-> wait, left |-> left, next |-> "return"]
Then(frames) == call' = call /\ todo' = frames \o Tail(todo)

Opening == Doing("create") \/ Doing("open") \/ (Doing("find") /\ journal = None)

\* journal_file_open(): the file is put online.
OpenFile(g) ==
    /\ offline' = [offline EXCEPT ![g] = "joined"]
    /\ sigbus' = [sigbus EXCEPT ![g] = FALSE]
    /\ place' = [place EXCEPT ![g] = "open"]
    /\ journal' = g
    /\ \E left \in 0 .. MaxObjects - 1 : CallOn("online", g, FALSE, left)
    /\ todo' = <<DoOn(IF Doing("create") THEN "created" ELSE "opened", g)>> \o Tail(todo)

\* A new file, which gets its hash tables; or no file.
CreateJournal ==
    /\ Opening
    /\ \/ \E g \in File : place[g] = "free" /\ OpenFile(g)
       \/ journal' = None /\ Then(<<>>) /\ UNCHANGED <<offline, sigbus, place>>
    /\ UNCHANGED <<thread, fvars, archive>>

\* A file that exists under its name: all deferred closes are done first.  (A
\* file that is being rotated has just been renamed: there is none.)
FindExisting ==
    /\ Opening /\ ~Doing("create")
    /\ \E g \in File :
         /\ place[g] \in {"closed", "left"} /\ ~archive[g]
         /\ Then(<<Process("process_all"), DoOn("reopen", g)>>)
    /\ UNCHANGED <<tvars, fvars, svars>>

\* A changed form of ReopenJournal: a file that was not closed is used again.
ReopenUnclean ==
    /\ Doing("reopen")
    /\ header[Head(todo).f] # "archived" /\ OpenFile(Head(todo).f)
    /\ UNCHANGED <<thread, fvars, archive>>

\* journal_file_verify_header() accepts only a file that is marked offline;
\* any other, and one refused for its contents, is disposed of and replaced.
ReopenJournal ==
    LET g == Head(todo).f IN
    /\ Doing("reopen")
    /\ \/ header[g] = "offline" /\ OpenFile(g)
       \/ Then(<<DoOn("dispose", g)>>) /\ UNCHANGED <<offline, sigbus, place, journal>>
    /\ UNCHANGED <<thread, fvars, archive>>

\* The rest of journal_file_open_reliably(): the file is closed by now.
DisposeJournal ==
    LET g == Head(todo).f IN
    /\ Doing("dispose") /\ place[g] \in {"closed", "left"}
    /\ \/ place' = [place EXCEPT ![g] = "disposed"] /\ Then(<<Do("create")>>)
       \/ Then(<<>>) /\ UNCHANGED place
    /\ UNCHANGED <<tvars, fvars, archive, sigbus, journal>>

FindJournal ==
    /\ Doing("find") /\ journal # None
    /\ Then(<<>>)
    /\ UNCHANGED <<tvars, fvars, svars>>

\* The rest of write_to_journal() once there is a file: rotate it first if that
\* is suggested, journal_file_append_entry().
AppendEntry ==
    /\ Doing("append_first") \/ Doing("append")
    /\ \/ journal = None /\ Then(<<>>)
       \/ journal # None /\ Doing("append_first") /\ Then(RotateAndAppend)
       \/ /\ journal # None
          /\ \E left \in 0 .. MaxObjects - 1 : CallOn("online", journal, FALSE, left)
          /\ UNCHANGED todo
    /\ UNCHANGED <<tvars, fvars, svars>>

\* server_rotate(): journal_file_rotate() unless journal_file_archive() fails,
\* then server_process_deferred_closes().
Rotate ==
    /\ Doing("rotate")
    /\ \/ /\ journal # None
          /\ archive' = [archive EXCEPT ![journal] = TRUE]
          /\ journal' = None
          /\ Then(<<Do("create"), DoOn("defer", journal), Process("process")>>)
       \/ Then(<<Process("process")>>) /\ UNCHANGED <<archive, journal>>
    /\ UNCHANGED <<tvars, fvars, sigbus, place>>

\* journal_initiate_close()
InitiateClose ==
    /\ Doing("defer")
    /\ place' = [place EXCEPT ![Head(todo).f] = "deferred"]
    /\ CallOn("offline", Head(todo).f, FALSE, 0)
    /\ UNCHANGED <<tvars, fvars, archive, sigbus, journal, todo>>

\* server_process_deferred_closes(), or the clearing of the whole set.
ProcessDeferred ==
    LET left == Head(todo).left \cap Deferred
        Rest(f) == [Head(todo) EXCEPT !.left = left \ {f}]
    IN
    /\ Doing("process") \/ Doing("process_all")
    /\ \/ left = {} /\ Then(<<>>)
       \/ \E f \in left :
            IF Doing("process") /\ journal_file_is_offlining(f)
            THEN Then(<<Rest(f)>>)
            ELSE Then(<<DoOn("close", f), Rest(f)>>)
    /\ UNCHANGED <<tvars, fvars, svars>>

\* journal_file_close(), with a final tag if the file is sealed and has
\* entries since the last one.
journal_file_close ==
    LET f == Head(todo).f IN
    /\ Doing("close")
    /\ \/ Then(<<DoOn("stop", f), DoOn("closed", f)>>)
       \/ Then(<<DoOn("tag", f), DoOn("stop", f), DoOn("closed", f)>>)
    /\ UNCHANGED <<tvars, fvars, svars>>

\* A changed form of CallStep: a file is closed without waiting.
StopWithoutWait ==
    /\ \/ Doing("tag") /\ CallOn("online", Head(todo).f, FALSE, 0)
       \/ Doing("stop") /\ CallOn("offline", Head(todo).f, FALSE, 0)
       \/ Doing("sync") /\ CallOn("offline", Head(todo).f, FALSE, 0)
    /\ UNCHANGED <<tvars, fvars, svars, todo>>

CallStep ==
    /\ \/ Doing("tag") /\ CallOn("online", Head(todo).f, FALSE, 0)
       \/ Doing("stop") /\ CallOn("offline", Head(todo).f, TRUE, 0)
       \/ Doing("sync") /\ CallOn("offline", Head(todo).f, FALSE, 0)
    /\ UNCHANGED <<tvars, fvars, svars, todo>>

Closed ==
    /\ Doing("closed")
    /\ place' = [place EXCEPT ![Head(todo).f] = "closed"]
    /\ Then(<<>>)
    /\ UNCHANGED <<tvars, fvars, archive, sigbus, journal>>

Handle ==
    \/ CreateJournal \/ FindExisting \/ ReopenJournal \/ DisposeJournal \/ FindJournal
    \/ AppendEntry \/ Rotate \/ InitiateClose
    \/ ProcessDeferred \/ journal_file_close \/ CallStep \/ Closed

-----------------------------------------------------------------------------
(* Events of the main loop.                                                *)

Event(frames) ==
    /\ call = Idle /\ todo = <<>>
    /\ todo' = frames
    /\ UNCHANGED <<tvars, fvars, archive, sigbus, place, call>>

\* write_to_journal(), which rotates if the clock was set back.
WriteEntry ==
    /\ Event(<<Do("find"), Do("append_first")>>) \/ Event(RotateAndAppend)
    /\ UNCHANGED journal

server_sync ==
    /\ journal # None /\ Event(<<DoOn("sync", journal)>>)
    /\ UNCHANGED journal

server_rotate == Event(<<Do("rotate")>>) /\ UNCHANGED journal

\* server_relinquish_var()
RelinquishVar ==
    /\ journal # None
    /\ Event(<<Do("open"), DoOn("close", journal), Process("process_all")>>)
    /\ journal' = None

Main == InCall \/ Handle

\* The kernel writes pages back when it likes.
Writeback(f) ==
    /\ \/ disk' = [disk EXCEPT ![f] = header[f]] /\ UNCHANGED pending
       \/ pending' = [pending EXCEPT ![f] = FALSE] /\ UNCHANGED disk
    /\ UNCHANGED <<tvars, header, lost, svars, call, todo>>

\* An access to the mapped file fails.
SigBus(f) ==
    /\ place[f] \in {"open", "deferred"}
    /\ sigbus' = [sigbus EXCEPT ![f] = TRUE]
    /\ UNCHANGED <<tvars, fvars, archive, place, journal, call, todo>>

\* journald dies, alone or with the machine; what is only in memory survives
\* the former.
Crash(power) ==
    /\ offline' = [f \in File |-> "joined"]
    /\ thread' = [f \in File |-> "none"]
    /\ header' = IF power THEN disk ELSE header
    /\ lost' = IF power THEN [f \in File |-> lost[f] \/ pending[f]] ELSE lost
    /\ pending' = IF power THEN [f \in File |-> FALSE] ELSE pending
    /\ place' = [f \in File |-> IF place[f] \in {"open", "deferred"} THEN "left" ELSE place[f]]
    /\ journal' = None
    /\ call' = Idle
    /\ todo' = <<>>
    /\ UNCHANGED <<disk, archive, sigbus>>

Next ==
    \/ Main
    \/ WriteEntry \/ server_sync \/ server_rotate \/ RelinquishVar
    \/ \E f \in File : Thread(f) \/ Writeback(f) \/ SigBus(f)
    \/ \E power \in BOOLEAN : Crash(power)

Spec == Init /\ [][Next]_vars

\* The main thread goes on unless it waits for a thread, and so do the threads.
\* Syncs come from a timer, and at once with a message of priority crit or
\* worse: the messages do not for ever arrive just between the thread's swap to
\* SYNCING and its next look at the state.
FairSpec ==
    /\ Spec
    /\ WF_vars(Main)
    /\ \A f \in File : WF_vars(Thread(f)) /\ SF_vars(Thread(f) /\ thread'[f] = "fsync")

-----------------------------------------------------------------------------
(* Properties.                                                             *)

TypeOK ==
    /\ offline \in [File -> OfflineState]
    /\ thread \in [File -> ThreadState]
    /\ header \in [File -> HeaderState]
    /\ disk \in [File -> HeaderState]
    /\ pending \in [File -> BOOLEAN]
    /\ lost \in [File -> BOOLEAN]
    /\ archive \in [File -> BOOLEAN]
    /\ sigbus \in [File -> BOOLEAN]
    /\ place \in [File -> Place]
    /\ journal \in File \cup {None}
    /\ call \in Call
    /\ todo \in Seq(Frame)

\* Wherever a crash or a power failure hits, and whatever the kernel had
\* written back: a file that is marked offline or archived on disk has all its
\* entries.  Entries are only written to a file that is marked online on disk,
\* the offline thread marks a file only if nothing was written since its
\* fsync(), and a file that was found online is never written again.
CleanMeansComplete == \A f \in File : disk[f] # "online" => ~pending[f] /\ ~lost[f]

\* However a file came to be closed (synced before, offlining while it was
\* rotated, cancelled by the final tag, relinquished), no thread is left that
\* would use it, and unless it could not be accessed it is complete and not
\* marked online.
ClosedClean ==
    \A f \in File : place[f] = "closed" =>
        /\ thread[f] = "none"
        /\ ~sigbus[f] => header[f] # "online" /\ disk[f] # "online" /\ ~pending[f]

\* journal_file_set_offline_thread_join() waits for a thread that exists: the
\* main thread never joins one twice.
JoinsThread ==
    call.fn = "join" /\ offline[call.f] # "joined" => thread[call.f] # "none"

Durable == INSTANCE DurableJournal WITH mark <- disk

\* The files behave as DurableJournal promises.
Implements == Durable!Spec

\* Every function on a file returns, the ones that wait for a thread included.
CallsReturn == (call # Idle) ~> (call = Idle)

\* What set_offline() dispatched happens: the entries of the file reach the
\* disk unless the file is taken back for writing, or the thread is gone with
\* its process.
SyncHappens ==
    \A f \in File :
        (pending[f] /\ offline[f] \in {"syncing", "again_from_syncing", "again_from_offlining"})
        ~> (~pending[f] \/ offline[f] \in {"cancel", "joined"})
=============================================================================
