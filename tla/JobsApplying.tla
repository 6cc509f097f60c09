---------------------------- MODULE JobsApplying ----------------------------
(***************************************************************************)
(* Proofs about the job engine while a transaction is applied and while a  *)
(* failure spreads: an invariant of the stack of handlers, and that every  *)
(* handler preserves it.                                                   *)
(***************************************************************************)
EXTENDS JobsLemmas

USE Untyped

-----------------------------------------------------------------------------
(* Transactions being applied, and jobs that must fall.                    *)

\* What is never above the jobs transaction_apply() still has to install.
Plain == {f \in Frame : f.op \notin {"install", "place"}}

InstallFrame == {f \in Frame : f.op = "install"}

\* What can be above the frame g of transaction_apply(): the cancellation of
\* other jobs, and the second half of the installation of a job it is done with.
Over(g) == {f \in Frame : \/ f.op \in {"flush", "trigger", "requeue"}
                          \/ f.op = "place" /\ f.unit \notin {p[1] : p \in g.left}}

PulledType == {"start", "stop", "verify-active"}
StartType == {"start", "verify-active"}

\* What transaction_is_destructive() has found out still holds of the jobs left:
\* none of them cancels an irreversible job.  There is one per unit, and while
\* jobs have yet to fall a handler is running, which only starts and stops.
StillFine(g) ==
    /\ \A p \in g.left, q \in g.left : p[1] = q[1] => p = q
    /\ \A p \in g.left : slot[p[1]] # None /\ jobs[slot[p[1]]].irreversible =>
          ~job_type_is_conflicting(jobs[slot[p[1]]].type, p[2])
    /\ doomed # {} => \A p \in g.left : p[2] \in PulledType

\* The stack s while a transaction is applied.
Applying(s, a, g, b) == s = a \o (<<g>> \o b) /\ StillFine(g)

Shape ==
    \/ stack \in Seq(Plain)
    \/ \E g \in InstallFrame, b \in Seq(Plain) : \E a \in Seq(Over(g)) :
          Applying(stack, a, g, b)

\* The job i falls when the stack s is worked off.
Covered(i, s) == \E f \in Frames(s) : f.op = "fail" /\ jobs[i].unit \in f.units

\* Every job that must fall is a start job that will.
Falling == \A i \in doomed : /\ i \in Installed /\ jobs[i].type \in StartType
                             /\ Covered(i, stack)

EInv == Shape /\ Falling

-----------------------------------------------------------------------------

LEMMA PlainFrames ==
    /\ \A S \in SUBSET Unit : FailDependencies(S) \in Plain
                              /\ [op |-> "coldplug", units |-> S] \in Plain
                              /\ CancelJobs(S) \in Plain
    /\ \A R \in SUBSET Req : AddJobs(R) \in Plain
    /\ \A u \in Unit : /\ Requeue(u) \in Plain /\ TriggerNotify(u) \in Plain
                       /\ PathRunning(u) \in Plain /\ CheckBindsTo(u) \in Plain
                       /\ OnFailure(u) \in Plain
    /\ \A j \in Job, e \in Errno : Ran(j, e) \in Plain
    /\ \A u \in Unit, os \in ActiveState, ns \in ActiveState, fl \in SUBSET NotifyFlag :
          Notify(u, os, ns, fl) \in Plain
    /\ [op |-> "dispatch"] \in Plain /\ [op |-> "clear"] \in Plain
  <1>1. \A f \in Quiet : f.op # "install" => f \in Plain
    BY Zenon DEF Quiet, Plain
  <1>2. \A u \in Unit : OnFailure(u) \in Quiet /\ OnFailure(u).op = "adds"
    BY RequestFrames DEF OnFailure, AddJobs
  <1> QED
    BY Zenon, <1>1, <1>2, SimpleFrames DEF FailDependencies, CancelJobs, AddJobs, Requeue,
       TriggerNotify, PathRunning, CheckBindsTo, Ran, Notify

LEMMA PlainStacks ==
    /\ Plain \subseteq Frame /\ InstallFrame \subseteq Frame /\ \A g : Over(g) \subseteq Frame
    /\ \A s \in Seq(Plain) : s \in Seq(Frame)
    /\ \A g : \A s \in Seq(Over(g)) : s \in Seq(Frame)
    /\ <<>> \in Seq(Plain) /\ \A g : <<>> \in Seq(Over(g))
  <1>1. /\ Plain \subseteq Frame /\ InstallFrame \subseteq Frame
        /\ \A g : Over(g) \subseteq Frame
    BY Zenon DEF Plain, InstallFrame, Over
  <1>2. \A s \in Seq(Plain) : s \in Seq(Frame)
    BY <1>1
  <1>3. ASSUME NEW g, NEW s \in Seq(Over(g)) PROVE s \in Seq(Frame)
    <2>1. \A i \in 1..Len(s) : s[i] \in Frame
      BY <1>1
    <2> QED
      BY <2>1, Retyped
  <1>4. <<>> \in Seq(Plain) /\ \A g : <<>> \in Seq(Over(g))
    OBVIOUS
  <1> QED
    BY Zenon, <1>1, <1>2, <1>3, <1>4

\* The top of two stacks.
LEMMA ConcatTop ==
    ASSUME NEW S, NEW a \in Seq(S), NEW c \in Seq(S)
    PROVE  /\ a = <<>> => a \o c = c
           /\ a # <<>> => /\ a \o c # <<>> /\ Head(a \o c) = Head(a)
                          /\ Tail(a \o c) = Tail(a) \o c
  <1>1. CASE a = <<>>
    BY <1>1
  <1>2. CASE a # <<>>
    <2>1. a \o c # <<>> /\ Head(a \o c) = Head(a) /\ Tail(a) \in Seq(S) /\ a \o c \in Seq(S)
      BY <1>2
    <2>2. /\ Tail(a \o c) \in Seq(S) /\ Tail(a) \o c \in Seq(S)
          /\ Len(Tail(a \o c)) = Len(Tail(a) \o c)
      BY <1>2, <2>1
    <2>3. \A i \in 1..Len(Tail(a \o c)) : Tail(a \o c)[i] = (Tail(a) \o c)[i]
      BY <1>2, <2>1
    <2> QED
      BY <1>2, <2>1, <2>2, <2>3, SeqEqual
  <1> QED
    BY <1>1, <1>2

\* The top of the stack while a transaction is applied.
LEMMA ApplyingTop ==
    ASSUME NEW g \in InstallFrame, NEW b \in Seq(Plain), NEW a \in Seq(Over(g)), NEW s,
           Applying(s, a, g, b)
    PROVE  /\ s # <<>> /\ s \in Seq(Frame)
           /\ a = <<>> => Head(s) = g /\ Tail(s) = b
           /\ a # <<>> => /\ Head(s) = Head(a) /\ Head(s) \in Over(g)
                          /\ Tail(a) \in Seq(Over(g)) /\ Applying(Tail(s), Tail(a), g, b)
  <1>1. a \in Seq(Frame) /\ b \in Seq(Frame) /\ g \in Frame
    BY Zenon, PlainStacks
  <1>2. PICK c \in Seq(Frame) : c = <<g>> \o b /\ c # <<>> /\ Head(c) = g /\ Tail(c) = b
    BY Zenon, <1>1, Pushed
  <1>3. s = a \o c /\ StillFine(g)
    BY Zenon, <1>2 DEF Applying
  <1>4. /\ a = <<>> => a \o c = c
        /\ a # <<>> => /\ a \o c # <<>> /\ Head(a \o c) = Head(a)
                       /\ Tail(a \o c) = Tail(a) \o c
    BY Zenon, <1>1, ConcatTop
  <1>5. a # <<>> => Head(a) \in Over(g) /\ Tail(a) \in Seq(Over(g))
    BY TailTyped
  <1>6. a \o c \in Seq(Frame)
    BY Zenon, <1>1, ConcatTyped
  <1> QED
    BY Zenon, <1>2, <1>3, <1>4, <1>5, <1>6 DEF Applying

\* Where a handler can go on as it likes.
LEMMA PlainHead ==
    ASSUME Inv, Shape,
           stack = <<>> \/ Head(stack).op \notin {"flush", "trigger", "requeue", "place", "install"}
    PROVE  stack \in Seq(Plain) /\ Below \in Seq(Plain)
  <1>1. ASSUME NEW g \in InstallFrame, NEW b \in Seq(Plain), NEW a \in Seq(Over(g)),
               Applying(stack, a, g, b)
        PROVE  FALSE
    <2>1. stack # <<>> /\ (Head(stack) = g \/ Head(stack) \in Over(g))
      BY Zenon, <1>1, ApplyingTop
    <2> QED
      BY Zenon, <2>1 DEF InstallFrame, Over
  <1>2. stack \in Seq(Plain)
    BY Zenon, <1>1 DEF Shape
  <1>3. stack # <<>> => Tail(stack) \in Seq(Plain)
    BY <1>2
  <1> QED
    BY Zenon, <1>2, <1>3, PlainStacks DEF Below

LEMMA ConcatFrames ==
    ASSUME NEW s \in Seq(Frame), NEW t \in Seq(Frame), NEW u \in Seq(Frame)
    PROVE  (s \o t) \o u = s \o (t \o u)
  BY ConcatAssociative

LEMMA PlainConcat ==
    ASSUME NEW x \in Seq(Plain), NEW y \in Seq(Plain)
    PROVE  x \o y \in Seq(Plain) /\ Frames(x \o y) = Frames(x) \cup Frames(y)
  <1>1. \A s, t \in Seq(Plain) : Frames(s \o t) = Frames(s) \cup Frames(t)
    BY FramesOf
  <1> QED
    BY Zenon, <1>1, ConcatTyped

\* What depends on a job that is gone is in the frames that make it fall.
LEMMA MustFailCovered ==
    ASSUME NEW u \in Unit, NEW t \in MergingType, NEW result \in Result
    PROVE  /\ DependentsToFail(u, t, result) \in Seq(Plain)
           /\ \A i \in MustFail(u, t, result) :
                \E w \in Unit : /\ i = slot[w] /\ slot[w] \notin {None, slot[u]}
                                /\ jobs[slot[w]].type \in StartType
                                /\ \E f \in Frames(DependentsToFail(u, t, result)) :
                                      f.op = "fail" /\ w \in f.units
  <1> DEFINE F(d) == FailDependencies(Dep[d][u])
             D == DependentsToFail(u, t, result)
  <1>1. \A d \in DepType : Dep[d][u] \in SUBSET Unit
    BY DepAssumption
  <1>2. \A d \in DepType : F(d) \in Plain /\ F(d).op = "fail" /\ F(d).units = Dep[d][u]
    BY Zenon, <1>1, PlainFrames DEF FailDependencies
  <1>3. /\ F("required_by") \in Plain /\ F("requisite_of") \in Plain /\ F("bound_by") \in Plain
        /\ F("conflicted_by") \in Plain
    BY Zenon, <1>2 DEF DepType
  <1>n. \A d \in DepType : \A w \in Dep[d][u] : \A s : F(d) \in Frames(s) =>
           w \in Unit /\ \E f \in Frames(s) : f.op = "fail" /\ w \in f.units
    BY <1>1, <1>2
  <1>m. \A i \in MustFail(u, t, result) : \E w :
           /\ i = slot[w] /\ slot[w] \notin {None, slot[u]} /\ jobs[slot[w]].type \in StartType
           /\ \/ /\ result # "done" /\ t \in {"start", "verify-active"}
                 /\ w \in Dep["required_by"][u] \cup Dep["requisite_of"][u] \cup Dep["bound_by"][u]
              \/ /\ result = "done" /\ t = "start" /\ ~ActiveOrReloading(ustate[u])
                 /\ w \in Dep["requisite_of"][u]
    BY DEF MustFail, StartType
  <1> HIDE DEF F
  <1>4. CASE result # "done" /\ t \in {"start", "verify-active"}
    <2>1. D = <<F("required_by"), F("requisite_of"), F("bound_by")>>
      BY <1>4 DEF DependentsToFail, F
    <2>2. /\ F("required_by") \in Frames(D) /\ F("requisite_of") \in Frames(D)
          /\ F("bound_by") \in Frames(D)
      <3>1. Len(D) = 3 /\ D[1] = F("required_by") /\ D[2] = F("requisite_of")
            /\ D[3] = F("bound_by")
        BY <2>1
      <3> HIDE DEF D
      <3> QED
        BY <3>1 DEF Frames
    <2>3. D \in Seq(Plain)
      BY <1>3, <2>1
    <2> HIDE DEF D
    <2>4. \A w \in Dep["required_by"][u] \cup Dep["requisite_of"][u] \cup Dep["bound_by"][u] :
             w \in Unit /\ \E f \in Frames(D) : f.op = "fail" /\ w \in f.units
      BY Zenon, <1>n, <2>2 DEF DepType
    <2> QED
      BY Zenon, <1>4, <1>m, <2>3, <2>4 DEF D
  <1>5. CASE result = "done" /\ t \in {"start", "reload"} /\ ~ActiveOrReloading(ustate[u])
    <2>1. D = <<F("requisite_of")>>
      BY <1>5 DEF DependentsToFail, F
    <2>2. F("requisite_of") \in Frames(D) /\ D \in Seq(Plain)
      <3>1. Len(D) = 1 /\ D[1] = F("requisite_of") /\ D \in Seq(Plain)
        BY <1>3, <2>1
      <3> HIDE DEF D
      <3> QED
        BY <3>1 DEF Frames
    <2> HIDE DEF D
    <2>4. \A w \in Dep["requisite_of"][u] :
             w \in Unit /\ \E f \in Frames(D) : f.op = "fail" /\ w \in f.units
      BY Zenon, <1>n, <2>2 DEF DepType
    <2> QED
      BY Zenon, <1>5, <1>m, <2>2, <2>4 DEF D
  <1>6. CASE /\ ~(result # "done" /\ t \in {"start", "verify-active"})
             /\ ~(result = "done" /\ t \in {"start", "reload"} /\ ~ActiveOrReloading(ustate[u]))
    <2>1. D = <<F("conflicted_by")>> \/ D = <<>>
      BY <1>6 DEF DependentsToFail, F
    <2>2. <<F("conflicted_by")>> \in Seq(Plain) /\ <<>> \in Seq(Plain)
      BY <1>3
    <2>3. D \in Seq(Plain)
      BY Zenon, <2>1, <2>2
    <2> QED
      BY Zenon, <1>6, <1>m, <2>3
  <1> QED
    BY <1>4, <1>5, <1>6

LEMMA AfterFinishPlain ==
    ASSUME NEW u \in Unit, NEW t \in MergingType, NEW result \in Result,
           NEW recursive \in BOOLEAN
    PROVE  /\ AfterFinish(u, t, result, recursive) \in Seq(Plain)
           /\ recursive => Frames(DependentsToFail(u, t, result))
                             \subseteq Frames(AfterFinish(u, t, result, recursive))
           /\ ~recursive /\ result = "canceled" =>
                AfterFinish(u, t, result, recursive) = <<TriggerNotify(u), Requeue(u)>>
  <1> DEFINE a == IF recursive THEN DependentsToFail(u, t, result) ELSE <<>>
             b == IF result \in {"timeout", "dependency"} THEN <<OnFailure(u)>> ELSE <<>>
             c == <<TriggerNotify(u), Requeue(u)>>
  <1>1. AfterFinish(u, t, result, recursive) = (a \o b) \o c
    BY DEF AfterFinish
  <1>2. /\ OnFailure(u) \in Plain /\ TriggerNotify(u) \in Plain /\ Requeue(u) \in Plain
    BY Zenon, PlainFrames
  <1>3. b \in Seq(Plain) /\ c \in Seq(Plain)
    BY <1>2
  <1>4. a \in Seq(Plain)
    BY Zenon, PlainStacks, MustFailCovered
  <1>5. ~recursive /\ result = "canceled" => AfterFinish(u, t, result, recursive) = c
    BY <1>1, <1>3
  <1>6. recursive => a = DependentsToFail(u, t, result)
    OBVIOUS
  <1> HIDE DEF a, b, c
  <1>7. a \o b \in Seq(Plain) /\ Frames(a) \subseteq Frames(a \o b)
    BY <1>3, <1>4, PlainConcat
  <1>8. (a \o b) \o c \in Seq(Plain) /\ Frames(a \o b) \subseteq Frames((a \o b) \o c)
    BY Zenon, <1>3, <1>7, PlainConcat
  <1> QED
    BY Zenon, <1>1, <1>5, <1>6, <1>7, <1>8 DEF c

\* A job that ends, where the stack has no transaction to apply.
LEMMA FinishFalling ==
    ASSUME Inv, Falling, NEW j \in Installed, NEW result \in Result, NEW recursive \in BOOLEAN,
           NEW rest \in Seq(Frame), job_finish_and_invalidate(j, result, recursive, rest),
           \A i \in doomed \ {j} : Covered(i, rest)
    PROVE  Falling'
  <1> DEFINE u == jobs[j].unit
             t == jobs[j].type
             a == AfterFinish(u, t, result, recursive)
  <1>0. JobInv /\ TypeOK
    BY DEF Inv, JobInv
  <1>j. /\ j \in Job /\ u \in Unit /\ t \in MergingType /\ slot[u] = j /\ j # None
        /\ jobs[j] \in JobRec
    BY <1>0, InstalledFacts
  <1>c. \A x \in Seq(Frame), y \in Seq(Frame) : Frames(x \o y) = Frames(x) \cup Frames(y)
    BY FramesOf
  <1>1. CASE UninstallJob(j, result, recursive, rest)
    <2>1. /\ jobs' = [jobs EXCEPT ![j] = None] /\ stack' = a \o rest
          /\ doomed' = (doomed \ {j}) \cup (IF recursive THEN MustFail(u, t, result) ELSE {})
      BY Zenon, <1>1 DEF UninstallJob
    <2>2. /\ a \in Seq(Plain)
          /\ recursive => Frames(DependentsToFail(u, t, result)) \subseteq Frames(a)
      BY <1>j, AfterFinishPlain
    <2>3. a \in Seq(Frame)
      BY Zenon, <2>2, PlainStacks
    <2> HIDE DEF a
    <2>4. Frames(stack') = Frames(a) \cup Frames(rest)
      BY Zenon, <1>c, <2>1, <2>3
    <2>5. \A i \in Installed \ {j} : i \in Job /\ jobs'[i] = jobs[i] /\ i \in Installed'
      BY <1>0, <2>1 DEF TypeOK, Installed
    <2>6. ASSUME NEW i \in doomed \ {j}
          PROVE  i \in Installed' /\ jobs'[i].type \in StartType /\ Covered(i, stack)'
      <3>1. i \in Installed \ {j} /\ jobs[i].type \in StartType /\ Covered(i, rest)
        BY <2>6 DEF Falling
      <3>2. jobs'[i] = jobs[i] /\ i \in Installed'
        BY <2>5, <3>1
      <3>3. Frames(rest) \subseteq Frames(stack')
        BY <2>4
      <3> QED
        BY Zenon, <3>1, <3>2, <3>3 DEF Covered
    <2>7. ASSUME recursive, NEW i \in MustFail(u, t, result)
          PROVE  i \in Installed' /\ jobs'[i].type \in StartType /\ Covered(i, stack)'
      <3>1. PICK w \in Unit : /\ i = slot[w] /\ slot[w] \notin {None, slot[u]}
                              /\ jobs[slot[w]].type \in StartType
                              /\ \E f \in Frames(DependentsToFail(u, t, result)) :
                                      f.op = "fail" /\ w \in f.units
        BY <1>j, <2>7, MustFailCovered
      <3>2. slot[w] \in Installed /\ jobs[slot[w]].unit = w /\ slot[w] # j
        BY <1>0, <1>j, <3>1, SlotInstalled
      <3>3. i \in Installed \ {j} /\ jobs[i].unit = w /\ jobs[i].type \in StartType
        BY <3>1, <3>2
      <3>4. jobs'[i] = jobs[i] /\ i \in Installed'
        BY <2>5, <3>3
      <3>5. Frames(DependentsToFail(u, t, result)) \subseteq Frames(stack')
        BY <2>2, <2>4, <2>7
      <3> QED
        BY Zenon, <3>1, <3>3, <3>4, <3>5 DEF Covered
    <2> QED
      BY Zenon, <2>1, <2>6, <2>7 DEF Falling
  <1>2. CASE PatchRestart(j, rest) /\ t = "restart"
    <2>1. /\ jobs' = [jobs EXCEPT ![j].type = "start", ![j].state = "waiting"]
          /\ stack' = <<Requeue(u)>> \o rest /\ doomed' = doomed
      BY Zenon, <1>2 DEF PatchRestart
    <2>2. Requeue(u) \in Frame
      BY Zenon, <1>j, PlainFrames, PlainStacks
    <2>3. Frames(rest) \subseteq Frames(stack')
      <3>1. <<Requeue(u)>> \in Seq(Frame)
        BY <2>2
      <3>2. Frames(stack') = Frames(<<Requeue(u)>>) \cup Frames(rest)
        BY Zenon, <1>c, <2>1, <3>1
      <3> QED
        BY <3>2
    <2>4. ASSUME NEW i \in doomed
          PROVE  i \in Installed' /\ jobs'[i].type \in StartType /\ Covered(i, stack)'
      <3>1. i \in Installed /\ jobs[i].type \in StartType /\ i # j
        BY <1>2, <2>4 DEF Falling, StartType
      <3>2. jobs'[i] = jobs[i] /\ i \in Installed'
        BY <1>0, <2>1, <3>1 DEF TypeOK, Installed
      <3>3. Covered(i, rest)
        BY <2>4, <3>1
      <3> QED
        BY Zenon, <2>3, <3>1, <3>2, <3>3 DEF Covered
    <2> QED
      BY Zenon, <2>1, <2>4 DEF Falling
  <1> QED
    BY Zenon, <1>1, <1>2 DEF job_finish_and_invalidate

LEMMA FinishE ==
    ASSUME Inv, EInv, NEW j \in Installed, NEW result \in Result, NEW recursive \in BOOLEAN,
           NEW rest \in Seq(Plain), job_finish_and_invalidate(j, result, recursive, rest),
           \A i \in doomed \ {j} : Covered(i, rest)
    PROVE  EInv'
  <1>1. Falling'
    <2>1. rest \in Seq(Frame)
      BY Zenon, PlainStacks
    <2> QED
      BY Zenon, <2>1, FinishFalling DEF EInv
  <1>j. jobs[j].unit \in Unit /\ jobs[j].type \in MergingType
    BY InstalledFacts DEF Inv
  <1>2. PICK a \in Seq(Plain) : stack' = a \o rest
    <2>1. AfterFinish(jobs[j].unit, jobs[j].type, result, recursive) \in Seq(Plain)
      BY <1>j, AfterFinishPlain
    <2>2. Requeue(jobs[j].unit) \in Plain
      BY Zenon, <1>j, PlainFrames
    <2>3. <<Requeue(jobs[j].unit)>> \in Seq(Plain)
      BY <2>2
    <2> QED
      BY Zenon, <2>1, <2>3 DEF job_finish_and_invalidate, PatchRestart, UninstallJob
  <1>3. stack' \in Seq(Plain)
    BY Zenon, <1>2, PlainConcat
  <1> QED
    BY Zenon, <1>1, <1>3 DEF EInv, Shape

-----------------------------------------------------------------------------
(* Frames on a plain stack.                                                *)

\* No job falls but by a frame further down, and no transaction is applied.
PlainTop ==
    stack = <<>> \/ Head(stack).op \notin {"fail", "flush", "trigger", "requeue", "place", "install"}

LEMMA PlainTops ==
    ASSUME Inv, EInv, PlainTop
    PROVE  /\ stack \in Seq(Plain) /\ Below \in Seq(Plain)
           /\ \A i \in doomed : Covered(i, Below)
           /\ stack = <<>> => doomed = {}
  <1>1. stack \in Seq(Plain) /\ Below \in Seq(Plain)
    BY Zenon, PlainHead DEF EInv, PlainTop
  <1>2. stack \in Seq(Frame)
    BY Zenon DEF Inv, JobInv, TypeOK
  <1>3. /\ stack # <<>> => Frames(stack) = {Head(stack)} \cup Frames(Below)
        /\ stack = <<>> => Frames(stack) = {}
    BY Zenon, <1>2, BelowOf
  <1>4. ASSUME NEW i \in doomed PROVE stack # <<>> /\ Covered(i, Below)
    <2>1. Covered(i, stack)
      BY <1>4 DEF EInv, Falling
    <2>2. stack # <<>>
      BY <1>3, <2>1 DEF Covered
    <2> QED
      BY Zenon, <1>3, <2>1, <2>2 DEF Covered, PlainTop
  <1> QED
    BY Zenon, <1>1, <1>4

\* The jobs that must fall are as they were, and still will.
LEMMA KeepFalling ==
    ASSUME Falling, doomed' = doomed,
           \A i \in doomed : /\ i \in Installed' /\ jobs'[i].type \in StartType
                             /\ jobs'[i].unit = jobs[i].unit,
           \A i \in doomed : Covered(i, stack')
    PROVE  Falling'
  BY Zenon DEF Falling, Covered

LEMMA MoreCovers ==
    ASSUME NEW i, NEW s, NEW t, Covered(i, s), Frames(s) \subseteq Frames(t)
    PROVE  Covered(i, t)
  BY Zenon DEF Covered

\* A handler goes on with other plain frames.
LEMMA PlainE ==
    ASSUME EInv, stack' \in Seq(Plain), doomed' = doomed, jobs' = jobs,
           \A i \in doomed : Covered(i, stack')
    PROVE  EInv'
  <1>1. \A i \in doomed : /\ i \in Installed' /\ jobs'[i].type \in StartType
                          /\ jobs'[i].unit = jobs[i].unit
    BY DEF EInv, Falling, Installed
  <1>2. Falling'
    BY Zenon, <1>1, KeepFalling DEF EInv
  <1> QED
    BY Zenon, <1>2 DEF EInv, Shape

LEMMA PushE ==
    ASSUME Inv, EInv, PlainTop, NEW x \in Seq(Plain), stack' = x \o Below,
           doomed' = doomed, jobs' = jobs
    PROVE  EInv'
  <1>1. Below \in Seq(Plain) /\ \A i \in doomed : Covered(i, Below)
    BY Zenon, PlainTops
  <1>2. stack' \in Seq(Plain) /\ Frames(stack') = Frames(x) \cup Frames(Below)
    BY Zenon, <1>1, PlainConcat
  <1>3. \A i \in doomed : Covered(i, stack')
    BY <1>1, <1>2, MoreCovers
  <1> QED
    BY Zenon, <1>2, <1>3, PlainE

LEMMA PopE ==
    ASSUME Inv, EInv, PlainTop, stack' = Below, doomed' = doomed, jobs' = jobs
    PROVE  EInv'
  BY Zenon, PlainTops, PlainE

\* A job that ends, under a handler.
LEMMA EndE ==
    ASSUME Inv, EInv, PlainTop, NEW j \in Installed, NEW result \in Result,
           NEW recursive \in BOOLEAN, NEW x \in Seq(Plain),
           job_finish_and_invalidate(j, result, recursive, x \o Below)
    PROVE  EInv'
  <1>1. Below \in Seq(Plain) /\ \A i \in doomed : Covered(i, Below)
    BY Zenon, PlainTops
  <1>2. x \o Below \in Seq(Plain) /\ Frames(Below) \subseteq Frames(x \o Below)
    BY <1>1, PlainConcat
  <1>3. \A i \in doomed \ {j} : Covered(i, x \o Below)
    BY <1>1, <1>2, MoreCovers
  <1> QED
    BY Zenon, <1>2, <1>3, FinishE

-----------------------------------------------------------------------------
(* A transaction starts to be applied.                                     *)

LEMMA ApplyIs ==
    ASSUME NEW J \in SUBSET (Unit \X MergingType), NEW mode, NEW b \in Seq(Plain)
    PROVE  \E g \in InstallFrame : \E a \in Seq(Over(g)) :
              g.left = J /\ ApplyFrames(J, mode) \o b = a \o (<<g>> \o b)
              /\ Frames(b) \subseteq Frames(ApplyFrames(J, mode) \o b)
  <1> DEFINE S == Unit \ (IgnoreOnIsolate \cup {p[1] : p \in J})
             ir == mode = "replace-irreversibly"
             io == mode = "ignore-dependencies"
             h == CancelJobs(S)
  <1>1. PICK g : g = [op |-> "install", left |-> J, irreversible |-> ir, ignore_order |-> io]
    BY Zenon
  <1>2. S \in SUBSET Unit
    OBVIOUS
  <1>3. ir \in BOOLEAN /\ io \in BOOLEAN
    OBVIOUS
  <1>4. g \in InstallFrame /\ g.left = J
    <2>1. g \in Quiet
      BY Zenon, <1>1, <1>3, InstallFrames
    <2>2. g.op = "install" /\ g.left = J
      BY <1>1
    <2> QED
      BY Zenon, <2>1, <2>2 DEF Quiet, InstallFrame
  <1>5. h \in Over(g)
    <2>1. h \in Plain /\ h.op = "flush"
      BY Zenon, <1>2, PlainFrames DEF CancelJobs
    <2> QED
      BY Zenon, <2>1 DEF Plain, Over
  <1>6. PICK a : a = IF mode = "flush" THEN <<h>> ELSE <<>>
    BY Zenon
  <1>7. a \in Seq(Over(g))
    BY <1>5, <1>6
  <1>8. ApplyFrames(J, mode) = a \o <<g>>
    BY Zenon, <1>1, <1>6 DEF ApplyFrames
  <1>9. a \in Seq(Frame) /\ <<g>> \in Seq(Frame) /\ b \in Seq(Frame)
    <2>1. a \in Seq(Frame) /\ g \in Frame /\ b \in Seq(Frame)
      BY Zenon, <1>4, <1>7, PlainStacks
    <2> QED
      BY <2>1
  <1>10. (a \o <<g>>) \o b = a \o (<<g>> \o b)
    BY <1>9, ConcatAssociative
  <1>11. Frames(b) \subseteq Frames((a \o <<g>>) \o b)
    <2>1. a \o <<g>> \in Seq(Frame)
      BY Zenon, <1>9, ConcatTyped
    <2>2. \A s, t \in Seq(Frame) : Frames(s \o t) = Frames(s) \cup Frames(t)
      BY FramesOf
    <2>3. Frames((a \o <<g>>) \o b) = Frames(a \o <<g>>) \cup Frames(b)
      BY Zenon, <1>9, <2>1, <2>2
    <2> QED
      BY <2>3
  <1> QED
    BY Zenon, <1>4, <1>7, <1>8, <1>10, <1>11

LEMMA ApplyE ==
    ASSUME Inv, EInv, PlainTop, NEW tr \in Transactions, NEW mode,
           ~Destructive(tr.jobs, mode), tr.type \in {"start", "stop"} \/ stack = <<>>,
           NEW x \in Seq(Plain), stack' = ApplyFrames(tr.jobs, mode) \o (x \o Below),
           UNCHANGED jvars
    PROVE  EInv'
  <1>1. /\ Below \in Seq(Plain) /\ \A i \in doomed : Covered(i, Below)
        /\ stack = <<>> => doomed = {}
    BY Zenon, PlainTops
  <1>2. PICK b \in Seq(Plain) : b = x \o Below /\ Frames(Below) \subseteq Frames(b)
    BY Zenon, <1>1, PlainConcat
  <1>3. tr.jobs \in SUBSET (Unit \X MergingType)
    BY TransactionAssumption
  <1>4. stack' = ApplyFrames(tr.jobs, mode) \o b
    BY Zenon, <1>2
  <1>p. PICK g \in InstallFrame : \E a \in Seq(Over(g)) :
           g.left = tr.jobs /\ ApplyFrames(tr.jobs, mode) \o b = a \o (<<g>> \o b)
           /\ Frames(b) \subseteq Frames(ApplyFrames(tr.jobs, mode) \o b)
    BY Zenon, <1>3, ApplyIs
  <1>5. PICK a \in Seq(Over(g)) :
           g.left = tr.jobs /\ stack' = a \o (<<g>> \o b) /\ Frames(b) \subseteq Frames(stack')
    BY Zenon, <1>p, <1>4
  <1>6. jobs' = jobs /\ slot' = slot /\ doomed' = doomed
    BY DEF jvars
  <1>7. \A p \in tr.jobs, q \in tr.jobs : p[1] = q[1] => p = q
    BY Zenon, SingleAssumption
  <1>8. \A p \in tr.jobs : slot[p[1]] # None /\ jobs[slot[p[1]]].irreversible =>
            ~job_type_is_conflicting(jobs[slot[p[1]]].type, p[2])
    BY Zenon DEF Destructive
  <1>9. doomed # {} => \A p \in tr.jobs : p[2] \in PulledType
    BY Zenon, <1>1, PulledAssumption DEF PulledType
  <1>10. StillFine(g)'
    BY Zenon, <1>5, <1>6, <1>7, <1>8, <1>9 DEF StillFine
  <1>11. Shape'
    BY Zenon, <1>5, <1>10 DEF Shape, Applying
  <1>12. Falling'
    <2>1. \A i \in doomed : /\ i \in Installed' /\ jobs'[i].type \in StartType
                            /\ jobs'[i].unit = jobs[i].unit
      BY <1>6 DEF EInv, Falling, Installed
    <2>2. Frames(Below) \subseteq Frames(stack')
      BY <1>2, <1>5
    <2>3. \A i \in doomed : Covered(i, stack')
      BY Zenon, <1>1, <2>2, MoreCovers
    <2> QED
      BY Zenon, <1>6, <2>1, <2>3, KeepFalling DEF EInv
  <1> QED
    BY Zenon, <1>11, <1>12 DEF EInv

LEMMA AddJobE ==
    ASSUME Inv, EInv, PlainTop, NEW type, NEW u, NEW mode, NEW x \in Seq(Plain),
           manager_add_job(type, u, mode, x \o Below),
           type \in {"start", "stop"} \/ stack = <<>>
    PROVE  EInv'
  <1>1. UNCHANGED jvars /\ jobs' = jobs /\ doomed' = doomed
    BY DEF manager_add_job, jvars
  <1>2. CASE stack' = x \o Below
    BY Zenon, <1>1, <1>2, PushE
  <1>3. ASSUME NEW tr \in Transactions, tr.type = type, ~Destructive(tr.jobs, mode),
               stack' = ApplyFrames(tr.jobs, mode) \o (x \o Below)
        PROVE  EInv'
    BY Zenon, <1>1, <1>3, ApplyE
  <1> QED
    BY Zenon, <1>2, <1>3 DEF manager_add_job

-----------------------------------------------------------------------------
(* The handlers that start on a plain stack.                               *)

LEMMA OnePlain ==
    ASSUME NEW f \in Plain
    PROVE  <<f>> \in Seq(Plain)
  BY Zenon, OneFrame

LEMMA NoFrames ==
    ASSUME Inv
    PROVE  <<>> \in Seq(Plain) /\ Below = <<>> \o Below
  BY Zenon, NothingPushed, PlainStacks

LEMMA TopsE ==
    ASSUME Inv, NEW op, Top(op)
    PROVE  /\ stack # <<>> /\ Head(stack).op = op /\ Head(stack) \in Frame
           /\ JobInv /\ TypeOK /\ stack \in Seq(Frame)
           /\ Below = Tail(stack) /\ Below \in Seq(Frame)
           /\ op \notin {"fail", "flush", "trigger", "requeue", "place", "install"} => PlainTop
  BY Zenon, Tops DEF PlainTop

\* job_fail_dependencies(): what falls with v is not left out.
LEMMA FailE ==
    ASSUME Inv, EInv, FailStep
    PROVE  EInv'
  <1>1. PICK f : f = Head(stack)
    BY Zenon
  <1>t. Top("fail")
    BY Zenon DEF FailStep
  <1>0. /\ stack # <<>> /\ f.op = "fail" /\ f \in Frame /\ JobInv /\ TypeOK
        /\ stack \in Seq(Frame) /\ Below = Tail(stack)
    BY Zenon, <1>1, <1>t, TopsE
  <1>2. f.units \in SUBSET Unit
    BY Zenon, <1>0 DEF Frame
  <1>3. Below \in Seq(Plain)
    BY <1>0, <1>1, PlainHead DEF EInv
  <1>4. Frames(stack) = {f} \cup Frames(Below)
    BY Zenon, <1>0, <1>1, BelowOf
  <1>5. ASSUME NEW i \in doomed
        PROVE  /\ i \in Installed /\ jobs[i].type \in StartType /\ slot[jobs[i].unit] = i
               /\ jobs[i].unit \in f.units \/ Covered(i, Below)
    <2>1. i \in Installed /\ jobs[i].type \in StartType /\ Covered(i, stack)
      BY <1>5 DEF EInv, Falling
    <2>2. slot[jobs[i].unit] = i
      BY Zenon, <1>0, <2>1, InstalledFacts
    <2>3. jobs[i].unit \in f.units \/ Covered(i, Below)
      BY Zenon, <1>4, <2>1 DEF Covered
    <2> QED
      BY Zenon, <2>1, <2>2, <2>3
  <1>6. CASE f.units = {} /\ stack' = Below /\ UNCHANGED <<uvars, jvars>>
    <2>1. \A i \in doomed : Covered(i, Below)
      BY <1>5, <1>6
    <2>2. doomed' = doomed /\ jobs' = jobs
      BY <1>6 DEF jvars
    <2> QED
      BY Zenon, <1>3, <1>6, <2>1, <2>2, PlainE
  <1>7. ASSUME NEW v \in f.units
        PROVE  LET rest == <<FailDependencies(f.units \ {v})>> \o Below IN
               /\ rest \in Seq(Plain)
               /\ \A i \in doomed : jobs[i].unit # v => Covered(i, rest)
    <2>1. PICK h : h = FailDependencies(f.units \ {v})
      BY Zenon
    <2>2. h \in Plain /\ h.op = "fail" /\ h.units = f.units \ {v}
      <3>1. f.units \ {v} \in SUBSET Unit
        BY <1>2
      <3> QED
        BY Zenon, <2>1, <3>1, PlainFrames DEF FailDependencies
    <2>3. PICK s : s = <<h>> \o Below
      BY Zenon
    <2>4. s \in Seq(Plain) /\ Frames(s) = {h} \cup Frames(Below)
      BY Zenon, <1>3, <2>2, <2>3, Pushed
    <2>5. ASSUME NEW i \in doomed, jobs[i].unit # v
          PROVE  Covered(i, s)
      <3>1. CASE jobs[i].unit \in f.units
        <4>1. h \in Frames(s) /\ jobs[i].unit \in h.units
          BY <2>2, <2>4, <2>5, <3>1
        <4> QED
          BY Zenon, <2>2, <4>1 DEF Covered
      <3>2. CASE Covered(i, Below)
        <4>1. Frames(Below) \subseteq Frames(s)
          BY <2>4
        <4> QED
          BY Zenon, <3>2, <4>1, MoreCovers
      <3> QED
        BY Zenon, <1>5, <3>1, <3>2
    <2> QED
      BY Zenon, <2>1, <2>3, <2>4, <2>5
  <1>8. ASSUME NEW v \in f.units, slot[v] # None, jobs[slot[v]].type \in StartType,
               job_finish_and_invalidate(slot[v], "dependency", TRUE,
                                         <<FailDependencies(f.units \ {v})>> \o Below)
        PROVE  EInv'
    <2>1. v \in Unit /\ slot[v] \in Installed /\ jobs[slot[v]].unit = v
      BY <1>0, <1>2, <1>8, SlotInstalled
    <2>2. PICK rest \in Seq(Plain) :
             /\ rest = <<FailDependencies(f.units \ {v})>> \o Below
             /\ \A i \in doomed : jobs[i].unit # v => Covered(i, rest)
      BY Zenon, <1>7
    <2>3. \A i \in doomed \ {slot[v]} : Covered(i, rest)
      BY Zenon, <1>5, <2>2
    <2>4. "dependency" \in Result /\ TRUE \in BOOLEAN
      BY DEF Result
    <2>5. job_finish_and_invalidate(slot[v], "dependency", TRUE, rest)
      BY Zenon, <1>8, <2>2
    <2> QED
      BY Zenon, <2>1, <2>3, <2>4, <2>5, FinishE
  <1>9. ASSUME NEW v \in f.units, ~(slot[v] # None /\ jobs[slot[v]].type \in StartType),
               stack' = <<FailDependencies(f.units \ {v})>> \o Below,
               UNCHANGED <<uvars, jvars>>
        PROVE  EInv'
    <2>1. PICK rest \in Seq(Plain) :
             /\ rest = <<FailDependencies(f.units \ {v})>> \o Below
             /\ \A i \in doomed : jobs[i].unit # v => Covered(i, rest)
      BY Zenon, <1>7
    <2>2. \A i \in doomed : jobs[i].unit # v
      <3>1. \A i \in doomed : i # None
        BY <1>0, <1>5, InstalledFacts
      <3> QED
        BY Zenon, <1>5, <1>9, <3>1
    <2>3. \A i \in doomed : Covered(i, rest)
      BY Zenon, <2>1, <2>2
    <2>4. doomed' = doomed /\ jobs' = jobs /\ stack' = rest
      BY <1>9, <2>1 DEF jvars
    <2> QED
      BY Zenon, <2>3, <2>4, PlainE
  <1> QED
    BY Zenon, <1>0, <1>1, <1>6, <1>8, <1>9 DEF FailStep, StartType

LEMMA AddsE ==
    ASSUME Inv, EInv, AddsStep
    PROVE  EInv'
  <1> DEFINE f == Head(stack)
             a(q) == <<AddJobs(f.reqs \ {q})>>
  <1>t. Top("adds")
    BY Zenon DEF AddsStep
  <1>0. f.op = "adds" /\ f \in Frame /\ Below = Tail(stack) /\ PlainTop
    BY <1>t, TopsE
  <1>1. f.reqs \in SUBSET Req
    BY Zenon, <1>0 DEF Frame
  <1>2. \A q \in f.reqs : a(q) \in Seq(Plain) /\ q.type \in {"start", "stop"}
    <2>1. \A q \in f.reqs : f.reqs \ {q} \in SUBSET Req
      BY <1>1
    <2>2. \A q \in f.reqs : q.type \in {"start", "stop"}
      BY <1>1 DEF Req
    <2> QED
      BY Zenon, <2>1, <2>2, PlainFrames, OnePlain
  <1>3. CASE stack' = Below /\ UNCHANGED <<uvars, jvars>>
    <2>1. doomed' = doomed /\ jobs' = jobs
      BY <1>3 DEF jvars
    <2> QED
      BY Zenon, <1>0, <1>3, <2>1, PopE
  <1>4. ASSUME NEW q \in f.reqs, manager_add_job(q.type, q.unit, q.mode, a(q) \o Below)
        PROVE  EInv'
    <2>1. a(q) \in Seq(Plain) /\ q.type \in {"start", "stop"}
      BY <1>2
    <2> HIDE DEF a, f
    <2> QED
      BY Zenon, <1>0, <1>4, <2>1, AddJobE
  <1> QED
    BY Zenon, <1>0, <1>3, <1>4 DEF AddsStep

LEMMA AfterNotifyPlain ==
    ASSUME NEW u \in Unit, NEW os, NEW ns, NEW flags, NEW unexpected
    PROVE  AfterNotify(u, os, ns, flags, unexpected) \in Seq(Plain)
  <1> DEFINE R == IF unexpected /\ InactiveOrFailed(os) /\ ActiveOrActivating(ns)
                  THEN RetroactivelyStart(u)
                  ELSE IF unexpected /\ ActiveOrActivating(os) /\ InactiveOrDeactivating(ns)
                  THEN RetroactivelyStop(u) ELSE {}
             failed == ns # os /\ ns = "failed" /\ "will-auto-restart" \notin flags
  <1>1. R \in SUBSET Req
    BY RetroactiveTyped
  <1>2. AfterNotify(u, os, ns, flags, unexpected)
          = <<AddJobs(R)>> \o (IF failed THEN <<OnFailure(u)>> ELSE <<>>)
            \o <<TriggerNotify(u), CheckBindsTo(u)>>
    BY DEF AfterNotify
  <1> HIDE DEF R, failed
  <1>3. /\ AddJobs(R) \in Plain /\ OnFailure(u) \in Plain /\ TriggerNotify(u) \in Plain
        /\ CheckBindsTo(u) \in Plain
    BY Zenon, <1>1, PlainFrames
  <1> QED
    BY <1>2, <1>3

LEMMA NotifyE ==
    ASSUME Inv, EInv, NotifyStep
    PROVE  EInv'
  <1> DEFINE f == Head(stack)
             a(y) == AfterNotify(f.unit, f.os, f.ns, f.flags, y)
  <1>k. PICK j : j = slot[f.unit]
    BY Zenon
  <1>t. Top("notify")
    BY Zenon DEF NotifyStep
  <1>0. f.op = "notify" /\ f \in Frame /\ JobInv /\ Below = Tail(stack) /\ PlainTop
    BY <1>t, TopsE
  <1>1. f.unit \in Unit
    BY <1>0 DEF Frame
  <1>2. ASSUME NEW y PROVE a(y) \in Seq(Plain)
    BY <1>1, AfterNotifyPlain
  <1>3. CASE \E y : stack' = a(y) \o Below /\ jobs' = jobs /\ doomed' = doomed
    BY Zenon, <1>0, <1>2, <1>3, PushE
  <1>4. CASE j # None /\ JobOutcome(j, f.ns, f.flags) # "none"
    <2>1. job_finish_and_invalidate(j, JobOutcome(j, f.ns, f.flags), TRUE,
                                    a(Unexpected(j, f.ns)) \o Below)
      BY Zenon, <1>k, <1>0, <1>4 DEF NotifyStep
    <2>2. j \in Installed /\ jobs[j].type \in MergingType
      BY <1>k, <1>0, <1>1, <1>4, SlotInstalled
    <2>3. JobOutcome(j, f.ns, f.flags) \in Result
      BY Zenon, <1>4, <2>2, OutcomeTyped
    <2>4. a(Unexpected(j, f.ns)) \in Seq(Plain) /\ TRUE \in BOOLEAN
      BY <1>2
    <2> HIDE DEF f, a
    <2> QED
      BY Zenon, <1>0, <2>1, <2>2, <2>3, <2>4, EndE
  <1> QED
    BY Zenon, <1>k, <1>0, <1>3, <1>4 DEF NotifyStep, jvars

LEMMA BindsE ==
    ASSUME Inv, EInv, BindsStep
    PROVE  EInv'
  <1>t. Top("binds")
    BY Zenon DEF BindsStep
  <1>0. Below = Tail(stack) /\ PlainTop
    BY <1>t, TopsE
  <1>1. CASE stack' = Below /\ UNCHANGED <<uvars, jvars>>
    <2>1. doomed' = doomed /\ jobs' = jobs
      BY <1>1 DEF jvars
    <2> QED
      BY Zenon, <1>0, <1>1, <2>1, PopE
  <1>2. CASE manager_add_job("stop", Head(stack).unit, "fail", Below)
    <2>1. manager_add_job("stop", Head(stack).unit, "fail", <<>> \o Below)
      BY Zenon, <1>2, NoFrames
    <2>2. "stop" \in {"start", "stop"}
      OBVIOUS
    <2> QED
      BY Zenon, <1>0, <2>1, <2>2, NoFrames, AddJobE
  <1> QED
    BY Zenon, <1>0, <1>1, <1>2 DEF BindsStep

LEMMA PathE ==
    ASSUME Inv, EInv, PathStep
    PROVE  EInv'
  <1>t. Top("path")
    BY Zenon DEF PathStep
  <1>0. Below = Tail(stack) /\ PlainTop
    BY <1>t, TopsE
  <1>1. stack' = Below /\ doomed' = doomed /\ jobs' = jobs
    BY <1>0 DEF PathStep, PathSet, jvars
  <1> QED
    BY Zenon, <1>0, <1>1, PopE

LEMMA RanE ==
    ASSUME Inv, EInv, RanStep
    PROVE  EInv'
  <1> DEFINE f == Head(stack)
  <1>k. PICK j : j = f.job
    BY Zenon
  <1>t. Top("ran")
    BY Zenon DEF RanStep
  <1>0. f.op = "ran" /\ f \in Frame /\ JobInv /\ TypeOK /\ Below = Tail(stack) /\ PlainTop
    BY <1>t, TopsE
  <1>1. j \in Job /\ f.r \in Errno
    BY Zenon, <1>0, <1>k DEF Frame
  <1>2. CASE stack' = Below /\ UNCHANGED <<uvars, jvars>>
    <2>1. doomed' = doomed /\ jobs' = jobs
      BY <1>2 DEF jvars
    <2> QED
      BY Zenon, <1>0, <1>2, <2>1, PopE
  <1>3. CASE /\ jobs[j] # None /\ jobs' = [jobs EXCEPT ![j].state = "waiting"]
             /\ stack' = Below /\ doomed' = doomed
    <2>1. Below \in Seq(Plain) /\ \A i \in doomed : Covered(i, Below)
      BY Zenon, <1>0, PlainTops
    <2>2. jobs[j] \in JobRec
      BY <1>0, <1>1, <1>3 DEF TypeOK
    <2>3. ASSUME NEW i \in doomed
          PROVE  /\ i \in Installed' /\ jobs'[i].type \in StartType
                 /\ jobs'[i].unit = jobs[i].unit
      <3>1. i \in Job /\ jobs[i] # None /\ jobs[i].type \in StartType
        BY <2>3 DEF EInv, Falling, Installed
      <3>2. i # j => jobs'[i] = jobs[i]
        BY <1>0, <1>3, <3>1 DEF TypeOK
      <3>3. jobs'[j].type = jobs[j].type /\ jobs'[j].unit = jobs[j].unit /\ jobs'[j] \in JobRec
        BY <1>0, <1>1, <1>3, <2>2 DEF TypeOK, JobRec
      <3> QED
        BY Zenon, <3>1, <3>2, <3>3, NoneNotJobRec DEF Installed
    <2>4. Falling'
      BY Zenon, <1>3, <2>1, <2>3, KeepFalling DEF EInv
    <2> QED
      BY Zenon, <1>3, <2>1, <2>4 DEF EInv, Shape
  <1>4. CASE jobs[j] # None /\ job_finish_and_invalidate(j, ResultOf(f.r), TRUE, Below)
    <2>1. ResultOf(f.r) \in Result /\ TRUE \in BOOLEAN
      BY DEF ResultOf, Result
    <2>2. j \in Installed
      BY <1>1, <1>4 DEF Installed
    <2>3. job_finish_and_invalidate(j, ResultOf(f.r), TRUE, <<>> \o Below)
      BY Zenon, <1>4, NoFrames
    <2> QED
      BY Zenon, <1>0, <2>1, <2>2, <2>3, NoFrames, EndE
  <1> QED
    BY Zenon, <1>k, <1>0, <1>2, <1>3, <1>4 DEF RanStep

LEMMA DispatchE ==
    ASSUME Inv, EInv, DispatchStep
    PROVE  EInv'
  <1>t. Top("dispatch")
    BY Zenon DEF DispatchStep
  <1>0. /\ JobInv /\ TypeOK /\ Below = Tail(stack) /\ PlainTop /\ runq \subseteq Installed
    BY <1>t, TopsE DEF JobInv, QueuesInstalled
  <1>p. stack \in Seq(Plain)
    BY Zenon, <1>0, PlainTops
  <1>d. \A i \in doomed : Covered(i, stack)
    BY Zenon DEF EInv, Falling
  <1>1. CASE stack' = Below /\ UNCHANGED <<uvars, jvars>>
    <2>1. doomed' = doomed /\ jobs' = jobs
      BY <1>1 DEF jvars
    <2> QED
      BY Zenon, <1>0, <1>1, <2>1, PopE
  <1>2. ASSUME NEW j \in runq, RunJob(j, stack)
        PROVE  EInv'
    <2>1. doomed' = doomed
      BY Zenon, <1>2 DEF RunJob
    <2>2. CASE stack' = stack /\ jobs' = jobs
      BY Zenon, <1>p, <1>d, <2>1, <2>2, PlainE
    <2>3. ASSUME NEW o \in Perform(jobs[j].type, jobs[j].unit), NEW flags \in {{}, NotifyFlag},
                 jobs' = [jobs EXCEPT ![j].state = "running", ![j].began = TRUE],
                 stack' = (IF o.ns = None THEN <<>>
                           ELSE <<Notify(jobs[j].unit, ustate[jobs[j].unit], o.ns, flags)>>)
                          \o (IF Waits(jobs[j].type, o.r) THEN <<>> ELSE <<Ran(j, o.r)>>)
                          \o stack
          PROVE  EInv'
      <3>0. /\ j \in Installed /\ j \in Job /\ jobs[j] \in JobRec /\ jobs[j].unit \in Unit
            /\ jobs[j].type \in MergingType
        BY <1>0, InstalledFacts
      <3>1. o \in Outcomes
        BY <1>0, <2>3, <3>0, PerformTyped
      <3>2. o.r \in Errno /\ (o.ns # None => o.ns \in ActiveState)
        BY <3>1 DEF Outcomes
      <3>3. flags \in SUBSET NotifyFlag /\ ustate[jobs[j].unit] \in ActiveState
        BY <1>0, <3>0 DEF TypeOK
      <3>4. PICK x : x = IF o.ns = None THEN <<>>
                         ELSE <<Notify(jobs[j].unit, ustate[jobs[j].unit], o.ns, flags)>>
        BY Zenon
      <3>5. PICK y : y = IF Waits(jobs[j].type, o.r) THEN <<>> ELSE <<Ran(j, o.r)>>
        BY Zenon
      <3>6. x \in Seq(Plain) /\ y \in Seq(Plain)
        BY Zenon, <3>0, <3>2, <3>3, <3>4, <3>5, PlainFrames, OnePlain, PlainStacks
      <3>7. x \o y \in Seq(Plain)
        BY Zenon, <3>6, PlainConcat
      <3>8. stack' = (x \o y) \o stack
        BY Zenon, <2>3, <3>4, <3>5
      <3>9. stack' \in Seq(Plain) /\ Frames(stack) \subseteq Frames(stack')
        BY Zenon, <1>p, <3>7, <3>8, PlainConcat
      <3>10. ASSUME NEW i \in doomed
             PROVE  /\ i \in Installed' /\ jobs'[i].type \in StartType
                    /\ jobs'[i].unit = jobs[i].unit
        <4>1. i \in Job /\ jobs[i] # None /\ jobs[i].type \in StartType
          BY <3>10 DEF EInv, Falling, Installed
        <4>2. i # j => jobs'[i] = jobs[i]
          BY <1>0, <2>3, <4>1 DEF TypeOK
        <4>3. jobs'[j].type = jobs[j].type /\ jobs'[j].unit = jobs[j].unit /\ jobs'[j] \in JobRec
          <5>1. jobs'[j] = [jobs[j] EXCEPT !.state = "running", !.began = TRUE]
            BY <1>0, <2>3, <3>0 DEF TypeOK
          <5>2. jobs'[j] \in JobRec
            BY Zenon, <3>0, <5>1 DEF JobRec
          <5>3. jobs'[j].type = jobs[j].type /\ jobs'[j].unit = jobs[j].unit
            BY Zenon, <3>0, <5>1 DEF JobRec
          <5> QED
            BY Zenon, <5>2, <5>3
        <4> QED
          BY Zenon, <4>1, <4>2, <4>3, NoneNotJobRec DEF Installed
      <3>11. \A i \in doomed : Covered(i, stack')
        BY Zenon, <1>d, <3>9, MoreCovers
      <3>12. Falling'
        BY Zenon, <2>1, <3>10, <3>11, KeepFalling DEF EInv
      <3> QED
        BY Zenon, <3>9, <3>12 DEF EInv, Shape
    <2> QED
      BY Zenon, <1>2, <2>2, <2>3 DEF RunJob
  <1> QED
    BY Zenon, <1>0, <1>1, <1>2 DEF DispatchStep

LEMMA ClearE ==
    ASSUME Inv, EInv, ClearStep
    PROVE  EInv'
  <1>t. Top("clear")
    BY Zenon DEF ClearStep
  <1>0. /\ JobInv /\ TypeOK /\ Below = Tail(stack) /\ PlainTop /\ stack # <<>>
        /\ stack \in Seq(Frame) /\ Head(stack).op = "clear" /\ Head(stack) \in Frame
    BY <1>t, TopsE
  <1>1. CASE stack' = Below /\ UNCHANGED <<uvars, jvars>>
    <2>1. doomed' = doomed /\ jobs' = jobs
      BY <1>1 DEF jvars
    <2> QED
      BY Zenon, <1>0, <1>1, <2>1, PopE
  <1>2. ASSUME NEW j \in Installed, job_finish_and_invalidate(j, "canceled", FALSE, stack)
        PROVE  EInv'
    <2>1. stack = <<Head(stack)>> \o Below
      BY <1>0
    <2>2. Head(stack) \in Plain
      BY Zenon, <1>0 DEF Plain
    <2>3. <<Head(stack)>> \in Seq(Plain)
      BY Zenon, <2>2, OnePlain
    <2>4. "canceled" \in Result /\ FALSE \in BOOLEAN
      BY DEF Result
    <2>5. job_finish_and_invalidate(j, "canceled", FALSE, <<Head(stack)>> \o Below)
      BY Zenon, <1>2, <2>1
    <2> QED
      BY Zenon, <1>0, <2>3, <2>4, <2>5, EndE
  <1> QED
    BY Zenon, <1>0, <1>1, <1>2 DEF ClearStep

LEMMA ColdplugE ==
    ASSUME Inv, EInv, ColdplugStep
    PROVE  EInv'
  <1> DEFINE f == Head(stack)
             a(u) == <<[op |-> "coldplug", units |-> f.units \ {u}]>>
  <1>t. Top("coldplug")
    BY Zenon DEF ColdplugStep
  <1>0. f.op = "coldplug" /\ f \in Frame /\ Below = Tail(stack) /\ PlainTop
    BY <1>t, TopsE
  <1>b. Below \in Seq(Plain)
    BY Zenon, <1>0, PlainTops
  <1>1. f.units \in SUBSET Unit
    BY Zenon, <1>0 DEF Frame
  <1>2. \A u \in f.units : a(u) \in Seq(Plain)
    <2>1. \A u \in f.units : f.units \ {u} \in SUBSET Unit
      BY <1>1
    <2> QED
      BY Zenon, <2>1, PlainFrames, OnePlain
  <1>3. CASE stack' = Below /\ UNCHANGED <<uvars, jvars>>
    <2>1. doomed' = doomed /\ jobs' = jobs
      BY <1>3 DEF jvars
    <2> QED
      BY Zenon, <1>0, <1>3, <2>1, PopE
  <1>4. ASSUME NEW u \in f.units, NEW down, PathCheck(u, down, a(u) \o Below)
        PROVE  EInv'
    <2>0. a(u) \in Seq(Plain) /\ u \in Unit
      BY <1>1, <1>2
    <2>1. CASE \E p : PathSet(u, p, a(u) \o Below)
      <3>1. stack' = a(u) \o Below /\ doomed' = doomed /\ jobs' = jobs
        BY Zenon, <2>1 DEF PathSet, jvars
      <3> QED
        BY Zenon, <1>0, <2>0, <3>1, PushE
    <2>2. ASSUME NEW tr \in Transactions, tr.type = "start", ~Destructive(tr.jobs, "replace"),
                 UNCHANGED <<uvars, jvars>>,
                 stack' = ApplyFrames(tr.jobs, "replace") \o <<PathRunning(u)>> \o (a(u) \o Below)
          PROVE  EInv'
      <3>1. PICK b, c, d :
              b = ApplyFrames(tr.jobs, "replace") /\ c = <<PathRunning(u)>> /\ d = a(u)
        BY Zenon
      <3>2. c \in Seq(Plain) /\ d \in Seq(Plain)
        BY Zenon, <2>0, <3>1, PlainFrames, OnePlain
      <3>3. b \in Seq(Frame) /\ c \in Seq(Frame) /\ d \in Seq(Frame) /\ Below \in Seq(Frame)
        BY Zenon, <1>b, <3>1, <3>2, ApplyTyped, QuietStacks, PlainStacks
      <3>4. (b \o c) \o (d \o Below) = b \o ((c \o d) \o Below)
        <4>1. d \o Below \in Seq(Frame)
          BY Zenon, <3>3, ConcatTyped
        <4>2. (b \o c) \o (d \o Below) = b \o (c \o (d \o Below))
          BY Zenon, <3>3, <4>1, ConcatFrames
        <4>3. c \o (d \o Below) = (c \o d) \o Below
          BY Zenon, <3>3, ConcatFrames
        <4> QED
          BY Zenon, <4>2, <4>3
      <3>5. c \o d \in Seq(Plain)
        BY Zenon, <3>2, PlainConcat
      <3>6. stack' = ApplyFrames(tr.jobs, "replace") \o ((c \o d) \o Below)
        BY Zenon, <2>2, <3>1, <3>4
      <3>7. UNCHANGED jvars /\ tr.type \in {"start", "stop"}
        BY <2>2
      <3> QED
        BY Zenon, <1>0, <2>2, <3>5, <3>6, <3>7, ApplyE
    <2> QED
      BY Zenon, <1>4, <2>1, <2>2 DEF PathCheck, PathRun
  <1> QED
    BY Zenon, <1>0, <1>3, <1>4 DEF ColdplugStep

-----------------------------------------------------------------------------
(* What happens while a transaction is applied.                            *)

\* The jobs left are fewer, and so are the jobs in their way.
LEMMA FineLess ==
    ASSUME NEW g, StillFine(g), NEW h, h.left \subseteq g.left, doomed' \subseteq doomed,
           \A p \in h.left : \/ slot'[p[1]] = None
                             \/ slot'[p[1]] = slot[p[1]] /\ jobs'[slot[p[1]]] = jobs[slot[p[1]]]
    PROVE  StillFine(h)'
  <1>1. \A p \in h.left, q \in h.left : p[1] = q[1] => p = q
    BY DEF StillFine
  <1>2. ASSUME NEW p \in h.left, slot'[p[1]] # None, jobs'[slot'[p[1]]].irreversible
        PROVE  ~job_type_is_conflicting(jobs'[slot'[p[1]]].type, p[2])
    <2>1. slot'[p[1]] = slot[p[1]] /\ jobs'[slot[p[1]]] = jobs[slot[p[1]]] /\ p \in g.left
      BY <1>2
    <2>2. slot[p[1]] # None /\ jobs[slot[p[1]]].irreversible
      BY Zenon, <1>2, <2>1
    <2>3. ~job_type_is_conflicting(jobs[slot[p[1]]].type, p[2])
      BY Zenon, <2>1, <2>2 DEF StillFine
    <2> QED
      BY Zenon, <2>1, <2>3
  <1>3. doomed' # {} => \A p \in h.left : p[2] \in PulledType
    BY DEF StillFine
  <1> QED
    BY Zenon, <1>1, <1>2, <1>3 DEF StillFine

\* The top frame of a transaction being applied is done with.
LEMMA PopOver ==
    ASSUME Inv, Shape, stack # <<>>, Head(stack).op # "install", stack' = Tail(stack),
           \A g \in InstallFrame : StillFine(g) /\ Head(stack) \in Over(g) => StillFine(g)'
    PROVE  Shape'
  <1>1. CASE stack \in Seq(Plain)
    <2>1. stack' \in Seq(Plain)
      BY <1>1
    <2> QED
      BY Zenon, <2>1 DEF Shape
  <1>2. ASSUME NEW g \in InstallFrame, NEW b \in Seq(Plain), NEW a \in Seq(Over(g)),
               Applying(stack, a, g, b)
        PROVE  Shape'
    <2>1. a # <<>>
      <3>1. a = <<>> => Head(stack) = g
        BY Zenon, <1>2, ApplyingTop
      <3> QED
        BY Zenon, <3>1 DEF InstallFrame
    <2>2. /\ Head(stack) \in Over(g) /\ Tail(a) \in Seq(Over(g))
          /\ Applying(Tail(stack), Tail(a), g, b)
      BY Zenon, <1>2, <2>1, ApplyingTop
    <2>3. StillFine(g)'
      BY Zenon, <1>2, <2>2 DEF Applying
    <2>4. stack' = Tail(a) \o (<<g>> \o b)
      BY Zenon, <2>2 DEF Applying
    <2> QED
      BY Zenon, <2>2, <2>3, <2>4 DEF Shape, Applying
  <1> QED
    BY Zenon, <1>1, <1>2 DEF Shape

LEMMA PopCovered ==
    ASSUME Inv, Falling, stack # <<>>, Head(stack).op # "fail", NEW i \in doomed
    PROVE  Covered(i, Below) /\ Below = Tail(stack)
  <1>1. stack \in Seq(Frame)
    BY Zenon DEF Inv, JobInv, TypeOK
  <1>2. Frames(stack) = {Head(stack)} \cup Frames(Below) /\ Below = Tail(stack)
    BY Zenon, <1>1, BelowOf
  <1>3. Covered(i, stack)
    BY DEF Falling
  <1> QED
    BY Zenon, <1>2, <1>3 DEF Covered

\* Nothing but the stack changes.
LEMMA PopOverE ==
    ASSUME Inv, EInv, stack # <<>>, Head(stack).op \notin {"install", "fail"},
           stack' = Tail(stack), jobs' = jobs, slot' = slot, doomed' = doomed
    PROVE  EInv'
  <1>1. ASSUME NEW g, StillFine(g) PROVE StillFine(g)'
    BY Zenon, <1>1 DEF StillFine
  <1>2. Shape'
    BY Zenon, <1>1, PopOver DEF EInv
  <1>3. \A i \in doomed : Covered(i, stack')
    BY Zenon, PopCovered DEF EInv
  <1>4. \A i \in doomed : /\ i \in Installed' /\ jobs'[i].type \in StartType
                          /\ jobs'[i].unit = jobs[i].unit
    BY DEF EInv, Falling, Installed
  <1>5. Falling'
    BY Zenon, <1>3, <1>4, KeepFalling DEF EInv
  <1> QED
    BY Zenon, <1>2, <1>5 DEF EInv

LEMMA RequeueE ==
    ASSUME Inv, EInv, RequeueStep
    PROVE  EInv'
  <1>t. Top("requeue")
    BY Zenon DEF RequeueStep
  <1>0. stack # <<>> /\ Head(stack).op \notin {"install", "fail"}
    BY <1>t, TopsE
  <1>1. stack' = Tail(stack) /\ jobs' = jobs /\ slot' = slot /\ doomed' = doomed
    BY Zenon DEF RequeueStep
  <1> QED
    BY Zenon, <1>0, <1>1, PopOverE

LEMMA TriggerE ==
    ASSUME Watched = {}, Inv, EInv, TriggerStep
    PROVE  EInv'
  <1>t. Top("trigger")
    BY Zenon DEF TriggerStep
  <1>0. stack # <<>> /\ Head(stack).op \notin {"install", "fail"}
    BY <1>t, TopsE
  <1>1. PathSet(Head(stack).unit, path[Head(stack).unit], Tail(stack))
    BY DEF TriggerStep
  <1>2. stack' = Tail(stack) /\ jobs' = jobs /\ slot' = slot /\ doomed' = doomed
    BY Zenon, <1>1 DEF PathSet, jvars
  <1> QED
    BY Zenon, <1>0, <1>2, PopOverE

\* What a job installed next to those that must fall changes for them.
LEMMA PlaceFalling ==
    ASSUME Inv, Falling, NEW u, NEW t, NEW f, NEW rest, PlaceJob(u, t, f, rest),
           \A i \in doomed : Covered(i, rest)
    PROVE  Falling'
  <1>1. PICK j \in Job : \E r :
          /\ jobs[j] = None /\ jobs' = [jobs EXCEPT ![j] = r] /\ stack' = rest
          /\ doomed' = doomed
    BY Zenon DEF PlaceJob, FreeId
  <1>2. ASSUME NEW i \in doomed
        PROVE  /\ i \in Installed' /\ jobs'[i].type \in StartType
               /\ jobs'[i].unit = jobs[i].unit
    <2>1. i \in Job /\ jobs[i] # None /\ jobs[i].type \in StartType
      BY <1>2 DEF Falling, Installed
    <2>2. jobs'[i] = jobs[i]
      BY <1>1, <2>1 DEF Inv, JobInv, TypeOK
    <2> QED
      BY Zenon, <2>1, <2>2 DEF Installed
  <1> QED
    BY Zenon, <1>1, <1>2, KeepFalling

LEMMA PlaceFine ==
    ASSUME Inv, NEW u \in Unit, NEW t, NEW f, NEW rest, PlaceJob(u, t, f, rest),
           NEW g \in InstallFrame, StillFine(g),
           NEW h, h.left \subseteq g.left, \A p \in h.left : p[1] # u
    PROVE  StillFine(h)'
  <1>0. JobInv /\ TypeOK
    BY DEF Inv, JobInv
  <1>1. PICK j \in Job : \E r :
          /\ jobs[j] = None /\ jobs' = [jobs EXCEPT ![j] = r] /\ slot' = [slot EXCEPT ![u] = j]
          /\ doomed' = doomed
    BY Zenon DEF PlaceJob, FreeId
  <1>2. g.left \subseteq Unit \X MergingType
    BY Zenon DEF InstallFrame, Frame
  <1>3. ASSUME NEW p \in h.left
        PROVE  \/ slot'[p[1]] = None
               \/ slot'[p[1]] = slot[p[1]] /\ jobs'[slot[p[1]]] = jobs[slot[p[1]]]
    <2>1. p[1] \in Unit /\ p[1] # u
      BY <1>2
    <2>2. slot'[p[1]] = slot[p[1]]
      BY <1>0, <1>1, <2>1 DEF TypeOK
    <2>3. slot[p[1]] # None => slot[p[1]] \in Installed
      BY Zenon, <1>0, <2>1, SlotInstalled
    <2>4. slot[p[1]] # None => slot[p[1]] \in Job /\ slot[p[1]] # j
      BY <1>1, <2>3 DEF Installed
    <2>5. slot[p[1]] # None => jobs'[slot[p[1]]] = jobs[slot[p[1]]]
      BY <1>0, <1>1, <2>4 DEF TypeOK
    <2> QED
      BY Zenon, <2>2, <2>5
  <1>4. doomed' \subseteq doomed
    BY <1>1
  <1> QED
    BY Zenon, <1>3, <1>4, FineLess

LEMMA PlaceStepE ==
    ASSUME Inv, EInv, PlaceStep
    PROVE  EInv'
  <1>1. PICK f : f = Head(stack)
    BY Zenon
  <1>t. Top("place")
    BY Zenon DEF PlaceStep
  <1>0. stack # <<>> /\ f.op = "place" /\ f \in Frame
    BY Zenon, <1>1, <1>t, TopsE
  <1>2. f.unit \in Unit
    BY Zenon, <1>0 DEF Frame
  <1>3. PlaceJob(f.unit, f.type, f, Tail(stack))
    BY Zenon, <1>1 DEF PlaceStep
  <1>4. stack' = Tail(stack)
    BY Zenon, <1>3, PlaceStack
  <1>5. Head(stack).op \notin {"install", "fail"}
    BY <1>0, <1>1
  <1>6. ASSUME NEW g \in InstallFrame, StillFine(g), f \in Over(g)
        PROVE  StillFine(g)'
    <2>1. f.unit \notin {p[1] : p \in g.left}
      BY Zenon, <1>0, <1>6 DEF Over
    <2>2. g.left \subseteq g.left /\ \A p \in g.left : p[1] # f.unit
      BY <2>1
    <2> QED
      BY Zenon, <1>2, <1>3, <1>6, <2>2, PlaceFine
  <1>7. Shape'
    BY Zenon, <1>0, <1>1, <1>4, <1>5, <1>6, PopOver DEF EInv
  <1>8. \A i \in doomed : Covered(i, Tail(stack))
    BY Zenon, <1>0, <1>5, PopCovered DEF EInv
  <1>9. Falling'
    BY Zenon, <1>3, <1>8, PlaceFalling DEF EInv
  <1> QED
    BY Zenon, <1>7, <1>9 DEF EInv

\* A job is cancelled for a transaction.
LEMMA CancelIs ==
    ASSUME Inv, NEW j \in Installed, NEW rest,
           job_finish_and_invalidate(j, "canceled", FALSE, rest)
    PROVE  /\ jobs' = [jobs EXCEPT ![j] = None] /\ slot' = [slot EXCEPT ![jobs[j].unit] = None]
           /\ doomed' = doomed \ {j}
           /\ \E c : /\ stack' = c \o rest
                     /\ c \in Seq(Plain) /\ \A g : c \in Seq(Over(g))
  <1> DEFINE u == jobs[j].unit
             t == jobs[j].type
  <1>1. u \in Unit /\ t \in MergingType
    BY InstalledFacts DEF Inv
  <1>2. UninstallJob(j, "canceled", FALSE, rest)
    BY Zenon DEF job_finish_and_invalidate
  <1>3. "canceled" \in Result /\ FALSE \in BOOLEAN
    BY DEF Result
  <1>4. PICK c : c = <<TriggerNotify(u), Requeue(u)>>
    BY Zenon
  <1>5. AfterFinish(u, t, "canceled", FALSE) = c /\ c \in Seq(Plain)
    BY Zenon, <1>1, <1>3, <1>4, AfterFinishPlain
  <1>6. ASSUME NEW g PROVE c \in Seq(Over(g))
    <2>1. TriggerNotify(u) \in Frame /\ Requeue(u) \in Frame
      BY Zenon, <1>1, PlainFrames, PlainStacks
    <2>2. TriggerNotify(u).op = "trigger" /\ Requeue(u).op = "requeue"
      BY Zenon DEF TriggerNotify, Requeue
    <2>3. TriggerNotify(u) \in Over(g) /\ Requeue(u) \in Over(g)
      BY Zenon, <2>1, <2>2 DEF Over
    <2> QED
      BY <1>4, <2>3
  <1>7. doomed' = doomed \ {j}
    BY <1>2 DEF UninstallJob
  <1> QED
    BY Zenon, <1>2, <1>5, <1>6, <1>7 DEF UninstallJob

\* It is not in the way of the jobs left any more.
LEMMA CancelFine ==
    ASSUME Inv, NEW j \in Installed, NEW rest,
           job_finish_and_invalidate(j, "canceled", FALSE, rest),
           NEW g \in InstallFrame, StillFine(g), NEW h, h.left \subseteq g.left
    PROVE  StillFine(h)'
  <1>0. JobInv /\ TypeOK
    BY DEF Inv, JobInv
  <1>1. /\ jobs' = [jobs EXCEPT ![j] = None] /\ slot' = [slot EXCEPT ![jobs[j].unit] = None]
        /\ doomed' \subseteq doomed
    BY Zenon, CancelIs
  <1>2. g.left \subseteq Unit \X MergingType
    BY Zenon DEF InstallFrame, Frame
  <1>3. ASSUME NEW p \in h.left
        PROVE  \/ slot'[p[1]] = None
               \/ slot'[p[1]] = slot[p[1]] /\ jobs'[slot[p[1]]] = jobs[slot[p[1]]]
    <2>1. p[1] \in Unit
      BY <1>2
    <2>2. CASE p[1] = jobs[j].unit
      BY <1>0, <1>1, <2>1, <2>2 DEF TypeOK
    <2>3. CASE p[1] # jobs[j].unit /\ slot[p[1]] # None
      <3>1. slot'[p[1]] = slot[p[1]]
        BY <1>0, <1>1, <2>1, <2>3 DEF TypeOK
      <3>2. slot[p[1]] \in Installed /\ jobs[slot[p[1]]].unit = p[1]
        BY Zenon, <1>0, <2>1, <2>3, SlotInstalled
      <3>3. slot[p[1]] \in Job /\ slot[p[1]] # j
        BY <2>3, <3>2 DEF Installed
      <3>4. jobs'[slot[p[1]]] = jobs[slot[p[1]]]
        BY <1>0, <1>1, <3>3 DEF TypeOK
      <3> QED
        BY Zenon, <3>1, <3>4
    <2>4. CASE p[1] # jobs[j].unit /\ slot[p[1]] = None
      BY <1>0, <1>1, <2>1, <2>4 DEF TypeOK
    <2> QED
      BY Zenon, <2>2, <2>3, <2>4
  <1> QED
    BY Zenon, <1>1, <1>3, FineLess

\* The cancellation goes on with other frames that may be over the transaction.
LEMMA FlushShape ==
    ASSUME Inv, Shape, Top("flush"), NEW c \in Seq(Plain), \A g : c \in Seq(Over(g)),
           stack' = c \o Below, \A g \in InstallFrame : StillFine(g) => StillFine(g)'
    PROVE  Shape'
  <1>0. stack # <<>> /\ Head(stack).op = "flush" /\ Below = Tail(stack)
    BY Zenon, TopsE
  <1>1. CASE stack \in Seq(Plain)
    <2>1. Below \in Seq(Plain)
      BY <1>0, <1>1
    <2>2. stack' \in Seq(Plain)
      BY Zenon, <2>1, PlainConcat
    <2> QED
      BY Zenon, <2>2 DEF Shape
  <1>2. ASSUME NEW g \in InstallFrame, NEW b \in Seq(Plain), NEW a \in Seq(Over(g)),
               Applying(stack, a, g, b)
        PROVE  Shape'
    <2>1. a # <<>>
      <3>1. a = <<>> => Head(stack) = g
        BY Zenon, <1>2, ApplyingTop
      <3> QED
        BY Zenon, <1>0, <3>1 DEF InstallFrame
    <2>2. PICK e \in Seq(Over(g)) : Applying(Below, e, g, b)
      <3>1. Tail(a) \in Seq(Over(g)) /\ Applying(Tail(stack), Tail(a), g, b)
        BY Zenon, <1>2, <2>1, ApplyingTop
      <3> QED
        BY Zenon, <1>0, <3>1
    <2>3. c \in Seq(Over(g)) /\ c \o e \in Seq(Over(g))
      BY Zenon, ConcatTyped
    <2>4. PICK d : d = <<g>> \o b
      BY Zenon
    <2>5. c \in Seq(Frame) /\ e \in Seq(Frame) /\ d \in Seq(Frame)
      BY Zenon, <2>4, PlainStacks, PushTyped
    <2>6. stack' = (c \o e) \o d
      <3>1. stack' = c \o (e \o d)
        BY Zenon, <2>2, <2>4 DEF Applying
      <3>2. (c \o e) \o d = c \o (e \o d)
        BY Zenon, <2>5, ConcatFrames
      <3> QED
        BY Zenon, <3>1, <3>2
    <2>7. StillFine(g)'
      BY Zenon, <2>2 DEF Applying
    <2> QED
      BY Zenon, <2>3, <2>4, <2>6, <2>7 DEF Shape, Applying
  <1> QED
    BY Zenon, <1>1, <1>2 DEF Shape

LEMMA FlushE ==
    ASSUME Inv, EInv, FlushStep
    PROVE  EInv'
  <1> DEFINE S == Head(stack).units
             a(L) == <<CancelJobs(L)>>
  <1>t. Top("flush")
    BY Zenon DEF FlushStep
  <1>0. /\ stack # <<>> /\ Head(stack).op \notin {"install", "fail"} /\ Head(stack).op = "flush"
        /\ Head(stack) \in Frame /\ JobInv /\ Below = Tail(stack) /\ Below \in Seq(Frame)
    BY <1>t, TopsE
  <1>1. S \in SUBSET Unit
    BY Zenon, <1>0 DEF Frame
  <1>2. ASSUME NEW L \in SUBSET Unit
        PROVE  /\ a(L) \in Seq(Plain) /\ \A g : a(L) \in Seq(Over(g))
               /\ a(L) \o Below \in Seq(Frame)
               /\ \A i \in doomed : Covered(i, a(L) \o Below)
    <2>1. CancelJobs(L) \in Plain /\ CancelJobs(L) \in Frame /\ CancelJobs(L).op = "flush"
      BY Zenon, PlainFrames, PlainStacks DEF CancelJobs
    <2>2. \A g : CancelJobs(L) \in Over(g)
      BY Zenon, <2>1 DEF Over
    <2>3. a(L) \in Seq(Plain) /\ \A g : a(L) \in Seq(Over(g))
      BY Zenon, <2>1, <2>2, OneFrame
    <2>4. a(L) \o Below \in Seq(Frame) /\ Frames(a(L) \o Below) = {CancelJobs(L)} \cup Frames(Below)
      <3>1. PICK f : f = CancelJobs(L)
        BY Zenon
      <3>2. PICK t : t = <<f>> \o Below
        BY Zenon
      <3>3. t \in Seq(Frame) /\ Frames(t) = {f} \cup Frames(Below)
        BY Zenon, <1>0, <2>1, <3>1, <3>2, PushedFrame
      <3> QED
        BY Zenon, <3>1, <3>2, <3>3
    <2>5. Frames(Below) \subseteq Frames(a(L) \o Below)
      BY <2>4
    <2>6. \A i \in doomed : Covered(i, a(L) \o Below)
      BY Zenon, <1>0, <2>5, PopCovered, MoreCovers DEF EInv
    <2> QED
      BY Zenon, <2>3, <2>4, <2>6
  <1> HIDE DEF a
  <1>3. CASE stack' = Below /\ UNCHANGED <<uvars, jvars>>
    <2>1. jobs' = jobs /\ slot' = slot /\ doomed' = doomed
      BY <1>3 DEF jvars
    <2> QED
      BY Zenon, <1>0, <1>3, <2>1, PopOverE
  <1>4. ASSUME NEW L \in SUBSET Unit, stack' = a(L) \o Below, UNCHANGED <<uvars, jvars>>
        PROVE  EInv'
    <2>1. jobs' = jobs /\ slot' = slot /\ doomed' = doomed
      BY <1>4 DEF jvars
    <2>2. ASSUME NEW g, StillFine(g) PROVE StillFine(g)'
      BY Zenon, <2>1, <2>2 DEF StillFine
    <2>3. Shape'
      BY Zenon, <1>t, <1>2, <1>4, <2>2, FlushShape DEF EInv
    <2>4. \A i \in doomed : Covered(i, stack')
      BY Zenon, <1>2, <1>4
    <2>5. \A i \in doomed : /\ i \in Installed' /\ jobs'[i].type \in StartType
                            /\ jobs'[i].unit = jobs[i].unit
      BY <2>1 DEF EInv, Falling, Installed
    <2>6. Falling'
      BY Zenon, <2>1, <2>4, <2>5, KeepFalling DEF EInv
    <2> QED
      BY Zenon, <2>3, <2>6 DEF EInv
  <1>5. ASSUME NEW u \in S, slot[u] # None, NEW L \in SUBSET Unit,
               job_finish_and_invalidate(slot[u], "canceled", FALSE, a(L) \o Below)
        PROVE  EInv'
    <2>1. PICK j \in Installed : j = slot[u]
      BY Zenon, <1>0, <1>1, <1>5, SlotInstalled
    <2>2. PICK rest \in Seq(Frame) : rest = a(L) \o Below
      BY Zenon, <1>2
    <2>3. job_finish_and_invalidate(j, "canceled", FALSE, rest)
      BY Zenon, <1>5, <2>1, <2>2
    <2>4. PICK c : stack' = c \o rest /\ c \in Seq(Plain) /\ \A g : c \in Seq(Over(g))
      BY Zenon, <2>3, CancelIs
    <2>5. PICK e : e = c \o a(L)
      BY Zenon
    <2>6. e \in Seq(Plain) /\ \A g : e \in Seq(Over(g))
      BY Zenon, <1>2, <2>4, <2>5, ConcatTyped
    <2>7. stack' = e \o Below
      <3>1. c \in Seq(Frame) /\ a(L) \in Seq(Frame)
        BY Zenon, <1>2, <2>4, PlainStacks
      <3>2. (c \o a(L)) \o Below = c \o (a(L) \o Below)
        BY Zenon, <1>0, <3>1, ConcatFrames
      <3> QED
        BY Zenon, <2>2, <2>4, <2>5, <3>2
    <2>8. ASSUME NEW g \in InstallFrame, StillFine(g) PROVE StillFine(g)'
      <3>1. g.left \subseteq g.left
        OBVIOUS
      <3> QED
        BY Zenon, <2>3, <2>8, <3>1, CancelFine
    <2>9. Shape'
      BY Zenon, <1>t, <2>6, <2>7, <2>8, FlushShape DEF EInv
    <2>10. "canceled" \in Result /\ FALSE \in BOOLEAN
      BY DEF Result
    <2>11. \A i \in doomed \ {j} : Covered(i, rest)
      BY Zenon, <1>2, <2>2
    <2>12. Falling'
      BY Zenon, <2>3, <2>10, <2>11, FinishFalling DEF EInv
    <2> QED
      BY Zenon, <2>9, <2>12 DEF EInv
  <1>6. \A u \in S : S \in SUBSET Unit /\ S \ {u} \in SUBSET Unit
    BY <1>1
  <1>7. \/ stack' = Below /\ UNCHANGED <<uvars, jvars>>
        \/ \E u \in S : \/ \E L \in {S, S \ {u}} :
                              /\ slot[u] # None
                              /\ job_finish_and_invalidate(slot[u], "canceled", FALSE,
                                                           a(L) \o Below)
                        \/ stack' = a(S \ {u}) \o Below /\ UNCHANGED <<uvars, jvars>>
    BY Zenon, <1>0 DEF FlushStep, a
  <1> QED
    BY Zenon, <1>3, <1>4, <1>5, <1>6, <1>7

-----------------------------------------------------------------------------
(* transaction_apply() installs the next job.                              *)

LEMMA InstallTop ==
    ASSUME Inv, Shape, Top("install")
    PROVE  \E g \in InstallFrame, b \in Seq(Plain) :
             Head(stack) = g /\ Tail(stack) = b /\ Below = b /\ StillFine(g)
  <1>0. stack # <<>> /\ Head(stack).op = "install" /\ Below = Tail(stack)
    BY TopsE
  <1>1. stack \notin Seq(Plain)
    <2>1. stack \in Seq(Plain) => Head(stack) \in Plain
      BY <1>0
    <2> QED
      BY Zenon, <1>0, <2>1 DEF Plain
  <1>2. PICK g \in InstallFrame, b \in Seq(Plain) : \E a \in Seq(Over(g)) : Applying(stack, a, g, b)
    BY Zenon, <1>1 DEF Shape
  <1>3. PICK a \in Seq(Over(g)) : Applying(stack, a, g, b)
    BY Zenon, <1>2
  <1>4. a = <<>>
    <2>1. a # <<>> => Head(stack) \in Over(g)
      BY Zenon, <1>3, ApplyingTop
    <2> QED
      BY Zenon, <1>0, <2>1 DEF Over
  <1>5. Head(stack) = g /\ Tail(stack) = b /\ StillFine(g)
    <2>1. Head(stack) = g /\ Tail(stack) = b
      BY Zenon, <1>3, <1>4, ApplyingTop
    <2>2. StillFine(g)
      BY Zenon, <1>3 DEF Applying
    <2> QED
      BY Zenon, <2>1, <2>2
  <1> QED
    BY Zenon, <1>0, <1>5

\* The frame without the job p.
LEMMA InstallLess ==
    ASSUME NEW g \in InstallFrame, StillFine(g), NEW p \in g.left, NEW h,
           h = [g EXCEPT !.left = @ \ {p}]
    PROVE  /\ h \in InstallFrame /\ h.left = g.left \ {p} /\ h.left \subseteq g.left
           /\ \A q \in h.left : q[1] # p[1]
           /\ p[1] \in Unit /\ p[2] \in MergingType
           /\ g.irreversible \in BOOLEAN /\ g.ignore_order \in BOOLEAN
  <1>1. g \in [op : {"install"}, left : SUBSET (Unit \X MergingType),
               irreversible : BOOLEAN, ignore_order : BOOLEAN]
    BY Zenon DEF InstallFrame, Frame
  <1>2. h.left = g.left \ {p}
    BY <1>1
  <1>3. h \in [op : {"install"}, left : SUBSET (Unit \X MergingType),
               irreversible : BOOLEAN, ignore_order : BOOLEAN]
    BY <1>1
  <1>4. h \in InstallFrame
    <2>1. h.op = "install"
      BY <1>3
    <2> QED
      BY Zenon, <1>3, <2>1 DEF InstallFrame, Frame
  <1>5. \A q \in h.left : q \in g.left /\ q # p
    BY <1>2
  <1>6. \A q \in h.left : q[1] # p[1]
    BY Zenon, <1>5 DEF StillFine
  <1>7. p \in Unit \X MergingType
    BY <1>1
  <1> QED
    BY <1>1, <1>2, <1>4, <1>5, <1>6, <1>7

LEMMA InstallE ==
    ASSUME Inv, EInv, InstallStep
    PROVE  EInv'
  <1>t. Top("install")
    BY Zenon DEF InstallStep
  <1>0. /\ stack # <<>> /\ Head(stack).op = "install" /\ JobInv /\ TypeOK
        /\ Below = Tail(stack)
    BY <1>t, TopsE
  <1>1. PICK g \in InstallFrame, b \in Seq(Plain) :
           Head(stack) = g /\ Tail(stack) = b /\ Below = b /\ StillFine(g)
    BY Zenon, <1>t, InstallTop DEF EInv
  <1>2. \A i \in doomed : Covered(i, b)
    <2>1. Head(stack).op # "fail"
      BY <1>0
    <2> QED
      BY Zenon, <1>0, <1>1, <2>1, PopCovered DEF EInv
  <1>3. CASE stack' = b /\ UNCHANGED <<uvars, jvars>>
    <2>1. jobs' = jobs /\ doomed' = doomed
      BY <1>3 DEF jvars
    <2> QED
      BY Zenon, <1>2, <1>3, <2>1, PlainE
  <1>4. ASSUME NEW p \in g.left,
               job_install(p[1], p[2], g, <<[g EXCEPT !.left = @ \ {p}]>> \o b)
        PROVE  EInv'
    <2>1. PICK h : h = [g EXCEPT !.left = @ \ {p}]
      BY Zenon
    <2>2. /\ h \in InstallFrame /\ h.left = g.left \ {p} /\ h.left \subseteq g.left
          /\ \A q \in h.left : q[1] # p[1]
          /\ p[1] \in Unit /\ p[2] \in MergingType
          /\ g.irreversible \in BOOLEAN /\ g.ignore_order \in BOOLEAN
      <3>1. StillFine(g)
        BY <1>1
      <3>2. p \in g.left
        BY <1>4
      <3> QED
        BY <2>1, <3>1, <3>2, InstallLess
    <2>3. PICK u, t : u = p[1] /\ t = p[2]
      BY Zenon
    <2>4. PICK rest : rest = <<h>> \o b
      BY Zenon
    <2>5. job_install(u, t, g, rest) /\ u \in Unit /\ t \in MergingType
      BY Zenon, <1>4, <2>1, <2>2, <2>3, <2>4
    <2>6. h \in Frame /\ b \in Seq(Frame) /\ <<>> \in Seq(Over(h)) /\ \A i : <<>> \in Seq(Over(i))
      BY Zenon, <2>2, PlainStacks
    <2>7. rest \in Seq(Frame) /\ Frames(rest) = {h} \cup Frames(b) /\ rest = <<>> \o rest
      <3>1. rest \in Seq(Frame) /\ Frames(rest) = {h} \cup Frames(b)
        <4>1. h \in Frame /\ b \in Seq(Frame)
          BY <2>6
        <4> QED
          BY Zenon, <2>4, <4>1, PushedFrame
      <3>2. rest = <<>> \o rest
        BY <3>1
      <3> QED
        BY Zenon, <3>1, <3>2
    <2>8. \A i \in doomed : Covered(i, rest)
      <3>1. Frames(b) \subseteq Frames(rest)
        BY <2>7
      <3> QED
        BY Zenon, <1>2, <3>1, MoreCovers
    <2>9. ASSUME stack' = rest, StillFine(h)'
          PROVE  Shape'
      <3>1. stack' = <<>> \o (<<h>> \o b)
        BY Zenon, <2>4, <2>7, <2>9
      <3> QED
        BY Zenon, <2>2, <2>6, <2>9, <3>1 DEF Shape, Applying
    <2>10. CASE slot[u] = None
      <3>1. PlaceJob(u, t, g, rest)
        BY Zenon, <2>5, <2>10 DEF job_install
      <3>2. stack' = rest
        BY Zenon, <3>1, PlaceStack
      <3>3. StillFine(h)'
        BY Zenon, <1>1, <2>2, <2>3, <2>5, <3>1, PlaceFine
      <3>4. Falling'
        BY Zenon, <2>8, <3>1, PlaceFalling DEF EInv
      <3> QED
        BY Zenon, <2>9, <3>2, <3>3, <3>4 DEF EInv
    <2>11. CASE slot[u] # None /\ job_type_is_conflicting(jobs[slot[u]].type, t)
      <3>1. PICK j \in Installed : j = slot[u] /\ jobs[j].unit = u
        BY Zenon, <1>0, <2>5, <2>11, SlotInstalled
      <3>2. PICK k : k = [op |-> "place", unit |-> u, type |-> t, irreversible |-> g.irreversible,
                          ignore_order |-> g.ignore_order]
        BY Zenon
      <3>3. job_finish_and_invalidate(j, "canceled", FALSE, <<k>> \o rest)
        BY Zenon, <2>5, <2>11, <3>1, <3>2 DEF job_install
      <3>4. k \in Frame /\ k.op = "place" /\ k.unit = u
        BY Zenon, <2>2, <2>5, <3>2, PlaceFrames
      <3>5. k \in Over(h)
        <4>1. u \notin {q[1] : q \in h.left}
          BY <2>2, <2>3
        <4> QED
          BY Zenon, <3>4, <4>1 DEF Over
      <3>6. PICK r : r = <<k>> \o rest
        BY Zenon
      <3>7. r \in Seq(Frame) /\ Frames(r) = {k} \cup Frames(rest)
        <4>1. k \in Frame /\ rest \in Seq(Frame)
          BY <2>7, <3>4
        <4> QED
          BY Zenon, <3>6, <4>1, PushedFrame
      <3>8. \A i \in doomed \ {j} : Covered(i, r)
        <4>1. Frames(rest) \subseteq Frames(r)
          BY <3>7
        <4> QED
          BY <2>8, <4>1, MoreCovers
      <3>9. job_finish_and_invalidate(j, "canceled", FALSE, r)
        BY Zenon, <3>3, <3>6
      <3>10. Falling'
        <4>1. "canceled" \in Result /\ FALSE \in BOOLEAN
          BY DEF Result
        <4> QED
          BY Zenon, <3>1, <3>7, <3>8, <3>9, <4>1, FinishFalling DEF EInv
      <3>11. StillFine(h)'
        BY Zenon, <1>1, <2>2, <3>1, <3>9, CancelFine
      <3>12. PICK c : stack' = c \o r /\ c \in Seq(Plain) /\ c \in Seq(Over(h))
        BY Zenon, <3>1, <3>9, CancelIs
      <3>13. PICK a : a = c \o <<k>>
        BY Zenon
      <3>14. a \in Seq(Over(h)) /\ stack' = a \o rest
        <4>1. <<k>> \in Seq(Over(h)) /\ <<k>> \in Seq(Frame)
          BY Zenon, <3>4, <3>5, OneFrame
        <4>2. c \in Seq(Frame)
          BY Zenon, <3>12, PlainStacks
        <4>3. c \o (<<k>> \o rest) = (c \o <<k>>) \o rest
          BY <2>7, <4>1, <4>2, ConcatAssociative
        <4> QED
          BY Zenon, <3>6, <3>12, <3>13, <4>1, <4>3, ConcatTyped
      <3>15. Shape'
        BY Zenon, <2>2, <2>4, <3>11, <3>14 DEF Shape, Applying
      <3> QED
        BY Zenon, <3>10, <3>15 DEF EInv
    <2>12. CASE slot[u] # None /\ ~job_type_is_conflicting(jobs[slot[u]].type, t)
      <3>1. PICK j \in Installed : j = slot[u] /\ jobs[j].unit = u /\ jobs[j].type \in MergingType
        BY Zenon, <1>0, <2>5, <2>12, SlotInstalled
      <3>2. MergeIntoInstalled(j, t, g, rest)
        BY Zenon, <2>5, <2>12, <3>1 DEF job_install
      <3>3. /\ jobs' = [jobs EXCEPT ![j] = MergedJob(j, t, g)] /\ stack' = rest
            /\ slot' = slot /\ doomed' = doomed
        BY Zenon, <3>2 DEF MergeIntoInstalled
      <3>4. j \in Job /\ jobs[j] \in JobRec
        BY Zenon, <1>0, InstalledFacts
      <3>5. PICK r : r = MergedJob(j, t, g)
        BY Zenon
      <3>6. /\ r.unit = u /\ r # None
            /\ r.type = job_type_merge_and_collapse(jobs[j].type, t, ustate[u])
        <4>1. r.unit = u /\ r.type = job_type_merge_and_collapse(jobs[j].type, t, ustate[u])
          BY <3>1, <3>4, <3>5 DEF MergedJob, JobRec
        <4>2. r \in JobRec
          <5>1. r.type \in MergingType
            <6>1. ustate[u] \in ActiveState
              BY <1>0, <2>5 DEF TypeOK
            <6>2. ~job_type_is_conflicting(jobs[j].type, t)
              BY <2>12, <3>1
            <6>3. job_type_merge_and_collapse(jobs[j].type, t, ustate[u]) \in MergingType
              BY Zenon, <2>5, <3>1, <6>1, <6>2, MergeTyped
            <6> QED
              BY Zenon, <4>1, <6>3
          <5>2. /\ r.irreversible \in BOOLEAN /\ r.ignore_order \in BOOLEAN
                /\ r.state \in {"waiting", "running"} /\ r.began \in BOOLEAN
            BY <2>2, <3>4, <3>5 DEF MergedJob, JobRec
          <5>3. DOMAIN r = DOMAIN jobs[j] /\ r = [jobs[j] EXCEPT !.type = r.type,
                   !.state = r.state, !.irreversible = r.irreversible,
                   !.ignore_order = r.ignore_order]
            BY <3>4, <3>5 DEF MergedJob, JobRec
          <5> QED
            BY Zenon, <3>4, <5>1, <5>2, <5>3 DEF JobRec
        <4> QED
          BY Zenon, <4>1, <4>2, NoneNotJobRec
      <3>7. jobs'[j] = r /\ \A i \in Job \ {j} : jobs'[i] = jobs[i]
        BY <1>0, <3>3, <3>4, <3>5 DEF TypeOK
      <3>8. ASSUME NEW i \in doomed
            PROVE  /\ i \in Installed' /\ jobs'[i].type \in StartType
                   /\ jobs'[i].unit = jobs[i].unit
        <4>1. i \in Job /\ jobs[i] # None /\ jobs[i].type \in StartType
          BY <3>8 DEF EInv, Falling, Installed
        <4>2. CASE i # j
          <5>1. jobs'[i] = jobs[i]
            BY <3>7, <4>1, <4>2
          <5> QED
            BY Zenon, <4>1, <5>1 DEF Installed
        <4>3. CASE i = j
          <5>1. t \in PulledType
            BY Zenon, <1>1, <2>3, <3>8 DEF StillFine
          <5>2. r.type \in StartType
            <6>1. ~job_type_is_conflicting(jobs[j].type, t) /\ t \in MergingType
              BY <2>5, <2>12, <3>1
            <6>2. jobs[j].type \in {"start", "verify-active"} /\ t \in {"start", "stop", "verify-active"}
              BY <4>1, <4>3, <5>1 DEF PulledType, StartType
            <6>3. job_type_merge_and_collapse(jobs[j].type, t, ustate[u]) \in {"start", "verify-active"}
              BY Zenon, <3>1, <6>1, <6>2, MergedTypes
            <6> QED
              BY Zenon, <3>6, <6>3 DEF StartType
          <5> QED
            BY Zenon, <3>1, <3>4, <3>6, <3>7, <4>3, <5>2 DEF Installed
        <4> QED
          BY Zenon, <4>2, <4>3
      <3>9. Falling'
        BY Zenon, <2>8, <3>3, <3>8, KeepFalling DEF EInv
      <3>10. ASSUME NEW q \in h.left
             PROVE  \/ slot'[q[1]] = None
                    \/ slot'[q[1]] = slot[q[1]] /\ jobs'[slot[q[1]]] = jobs[slot[q[1]]]
        <4>1. q[1] \in Unit /\ q[1] # u
          BY <2>2, <2>3 DEF InstallFrame, Frame
        <4>2. slot[q[1]] # None => slot[q[1]] \in Installed /\ jobs[slot[q[1]]].unit = q[1]
          BY Zenon, <1>0, <4>1, SlotInstalled
        <4>3. slot[q[1]] # None => slot[q[1]] \in Job \ {j}
          BY <3>1, <4>1, <4>2 DEF Installed
        <4> QED
          BY Zenon, <3>3, <3>7, <4>3
      <3>11. StillFine(h)'
        <4>1. doomed' \subseteq doomed
          BY <3>3
        <4> QED
          BY Zenon, <1>1, <2>2, <3>10, <4>1, FineLess
      <3> QED
        BY Zenon, <2>9, <3>3, <3>9, <3>11 DEF EInv
    <2> QED
      BY Zenon, <2>10, <2>11, <2>12
  <1> QED
    BY Zenon, <1>1, <1>3, <1>4 DEF InstallStep
=============================================================================
