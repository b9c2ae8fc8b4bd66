------------------------- MODULE TemplateTestProofs -------------------------
(***************************************************************************)
(* Proofs about TemplateTest, for any requests, payloads and number of     *)
(* threads: whom the lock and the device coroutines keep apart, what a     *)
(* test leaves behind, and what its success means.                         *)
(***************************************************************************)
EXTENDS TemplateTest, FiniteSetTheorems, TLAPS

(* The sets of the work, which TypeOK bounds, are sets of the right kind. *)
Shapes ==
  /\ pending \in [Request -> SUBSET Nat] /\ graded \in [Request -> SUBSET Nat]
  /\ queued \subseteq Work /\ running \subseteq Work
  /\ IsFiniteSet(running)

(* The test that grades owns the lock; who is in its queue waits or grades. *)
LockInv ==
  /\ \A r \in Request : phase[r] = "grading" => Owns(r)
  /\ \A i \in DOMAIN lock : phase[lock[i]] \in {"waiting", "grading"}

(* Work exists in the phase it belongs to; what still runs on a thread may
   outlive a test that timed out. *)
PhaseInv ==
  /\ \A r \in Request : /\ pending[r] # {} => phase[r] = "grading"
                        /\ graded[r] # {} => phase[r] \in {"grading", "answered"}
                        /\ connected[r] # {} => phase[r] = "grading" \/ TimedOut(r)
                        /\ phase[r] # "answered" => answer[r] = NoAnswer
  /\ \A w \in queued : phase[w[1]] = IF w[2] = 0 THEN "loading" ELSE "grading"
  /\ \A w \in running : IF w[2] = 0 THEN phase[w[1]] = "loading"
                        ELSE phase[w[1]] = "grading" \/ TimedOut(w[1])

(* A test works on a device through one task at a time, on a task once. *)
DeviceInv ==
  /\ \A r \in Request, t \in Nat :
       t \in pending[r] => t \notin graded[r] /\ <<r, t>> \notin queued \cup running
  /\ \A v, w \in queued \cup running :
       v[1] = w[1] /\ v[2] # 0 /\ w[2] # 0 /\ TaskOf(v).dev = TaskOf(w).dev => v = w

(* While a test grades, its payload is valid and every task to be graded is
   waiting, in work or graded. *)
GradingInv ==
  \A r \in Request : phase[r] = "grading" =>
    /\ Valid(payload[r], Known(r)) /\ ~payload[r].only
    /\ \A t \in ToGrade(payload[r].job) :
         t \in pending[r] \cup graded[r] \/ <<r, t>> \in queued \cup running

(* A test has a connection only once it has had a task. *)
Fresh ==
  \A r \in Request : phase[r] = "grading" /\ connected[r] # {} =>
    graded[r] # {} \/ \E w \in running : w[1] = r /\ w[2] # 0

IInv ==
  /\ TypeOK /\ Shapes /\ LockInv /\ PhaseInv /\ DeviceInv /\ GradingInv /\ SuccessIsComplete

-----------------------------------------------------------------------------
(* The job of a payload has typed tasks, numbered from 1. *)
LEMMA PayloadType ==
  ASSUME NEW r \in Request, payload[r] \in Payload[r]
  PROVE  /\ payload[r].devices \subseteq Device
         /\ TaskIds(payload[r].job) \subseteq Nat \ {0}
         /\ \A t \in TaskIds(payload[r].job) :
              payload[r].job.tasks[t].dev \in Device
              /\ payload[r].job.tasks[t].grp \in GroupId \cup {NoGroup}
<1> DEFINE j == payload[r].job
<1>1. j \in Jobs /\ payload[r].devices \subseteq Device
  BY TestAssumption DEF TestAssumption, IsPayload
<1>2. j.tasks \in Seq(Task)
  BY <1>1, JobsAssumption DEF JobsAssumption, IsGradingJob
<1>3. Len(j.tasks) \in Nat /\ \A t \in 1 .. Len(j.tasks) : j.tasks[t] \in Task
  BY <1>2
<1>4. QED
  BY <1>1, <1>3 DEF TaskIds, Task

(* Tasks that are graded are tasks of the job; all of them are when its groups
   are those its tasks name. *)
LEMMA ToGradeType ==
  ASSUME NEW j
  PROVE  ToGrade(j) \subseteq TaskIds(j)
BY DEF ToGrade, TasksIn

LEMMA AllToGrade ==
  ASSUME NEW r \in Request, payload[r] \in Payload[r],
         Valid(payload[r], Known(r)), DOMAIN payload[r].job.groups # {}
  PROVE  ToGrade(payload[r].job) = TaskIds(payload[r].job)
<1> DEFINE j == payload[r].job
<1>1. GroupsIn(j) = DOMAIN j.groups
  BY DEF Valid
<1>2. ASSUME NEW t \in TaskIds(j) PROVE t \in ToGrade(j)
  <2>1. j.tasks[t].grp \in GroupId \cup {NoGroup} /\ t \in TasksIn(j, j.tasks[t].grp)
    BY <1>2, PayloadType DEF TasksIn
  <2>2. j.tasks[t].grp \in {NoGroup} \cup DOMAIN j.groups
    BY <1>1, <2>1 DEF GroupsIn
  <2>3. QED
    BY <2>1, <2>2 DEF ToGrade
<1>3. QED
  BY <1>2, ToGradeType

LEMMA ThreadsType == Threads \in Nat \ {0}
BY TestAssumption DEF TestAssumption

(* One piece of work more or less on the threads. *)
LEMMA OneMoreRunning ==
  ASSUME NEW S, IsFiniteSet(S), Cardinality(S) < Threads, NEW w
  PROVE  IsFiniteSet(S \cup {w}) /\ Cardinality(S \cup {w}) <= Threads
<1>1. /\ IsFiniteSet(S \cup {w})
      /\ Cardinality(S \cup {w}) = Cardinality(S) \/ Cardinality(S \cup {w}) = Cardinality(S) + 1
  BY FS_AddElement
<1>2. Cardinality(S) \in Nat
  BY FS_CardinalityType
<1>3. QED
  BY <1>1, <1>2, ThreadsType

LEMMA OneLessRunning ==
  ASSUME NEW S, IsFiniteSet(S), Cardinality(S) <= Threads, NEW w
  PROVE  IsFiniteSet(S \ {w}) /\ Cardinality(S \ {w}) <= Threads
BY ThreadsType, FS_RemoveElement, FS_CardinalityType

(* The lock is a queue without repetitions: who asks comes last, who releases
   was first and is in it no longer. *)
Queue(q) == q \in Seq(Request) /\ \A i, k \in DOMAIN q : q[i] = q[k] => i = k

LEMMA AskLock ==
  ASSUME NEW q, Queue(q), NEW r \in Request, \A i \in DOMAIN q : q[i] # r
  PROVE  /\ Queue(Append(q, r))
         /\ q # <<>> => Append(q, r) # <<>> /\ Head(Append(q, r)) = Head(q)
         /\ \A i \in DOMAIN Append(q, r) : Append(q, r)[i] = r \/ \E k \in DOMAIN q : Append(q, r)[i] = q[k]
BY DEF Queue

LEMMA ReleaseLock ==
  ASSUME NEW q, Queue(q), q # <<>>
  PROVE  /\ Queue(Tail(q)) /\ Head(q) = q[1] /\ 1 \in DOMAIN q
         /\ \A i \in DOMAIN Tail(q) : Tail(q)[i] # Head(q) /\ \E k \in DOMAIN q : Tail(q)[i] = q[k]
<1>1. q \in Seq(Request) /\ Len(q) \in Nat \ {0} /\ DOMAIN q = 1 .. Len(q)
  BY DEF Queue
<1>2. /\ Tail(q) \in Seq(Request) /\ DOMAIN Tail(q) = 1 .. Len(q) - 1
      /\ \A i \in 1 .. Len(q) - 1 : Tail(q)[i] = q[i + 1]
  BY <1>1
<1>3. \A i \in 1 .. Len(q) - 1 : i + 1 \in DOMAIN q /\ i + 1 # 1
  BY <1>1
<1>4. Head(q) = q[1] /\ 1 \in DOMAIN q
  BY <1>1
<1>5. QED
  BY <1>1, <1>2, <1>3, <1>4 DEF Queue

LEMMA InitInv == Init => IInv
<1> SUFFICES ASSUME Init PROVE IInv
  OBVIOUS
<1>1. /\ IsFiniteSet({}) /\ Cardinality({}) = 0
  BY FS_EmptySet
<1>2. TypeOK
  <2>1. lock \in Seq(Request) /\ DOMAIN lock = {}
    BY DEF Init
  <2>2. answer \in [Request -> [code : {0, 200, 400, 413, 500, 504}, success : BOOLEAN]]
    BY DEF Init, NoAnswer
  <2>3. QED
    BY <1>1, <2>1, <2>2, ThreadsType DEF Init, TypeOK
<1>3. Shapes
  BY <1>1 DEF Init, Shapes
<1>4. LockInv /\ PhaseInv /\ DeviceInv /\ GradingInv
  BY DEF Init, LockInv, PhaseInv, DeviceInv, GradingInv
<1>5. SuccessIsComplete
  BY DEF Init, NoAnswer, SuccessIsComplete
<1>6. QED
  BY <1>2, <1>3, <1>4, <1>5 DEF IInv

-----------------------------------------------------------------------------
(* A request that has just come has no work anywhere. *)
LEMMA ArriveInv ==
  ASSUME IInv, NEW r \in Request, Arrive(r)
  PROVE  IInv'
<1>1. /\ phase[r] = "new"
      /\ UNCHANGED <<payload, lock, registry, pending, graded, running, connected>>
  BY DEF Arrive
<1>2. /\ pending[r] = {} /\ graded[r] = {} /\ connected[r] = {} /\ ~TimedOut(r)
      /\ \A w \in queued \cup running : w[1] # r
  BY <1>1 DEF IInv, PhaseInv, TimedOut, NoAnswer
<1>3. /\ phase' \in [Request -> {"new", "loading", "waiting", "grading", "answered"}]
      /\ answer' \in [Request -> [code : {0, 200, 400, 413, 500, 504}, success : BOOLEAN]]
      /\ \A q \in Request \ {r} : phase'[q] = phase[q] /\ answer'[q] = answer[q]
      /\ ~answer'[r].success /\ answer'[r].code # 504
      /\ \/ phase'[r] = "answered" /\ queued' = queued
         \/ /\ phase'[r] = "loading" /\ queued' = queued \cup {<<r, 0>>}
            /\ answer'[r] = NoAnswer
  <2>1. CASE payload[r].large
    <3> DEFINE a == [code |-> 413, success |-> FALSE]
    <3>1. /\ phase' = [phase EXCEPT ![r] = "answered"] /\ answer' = [answer EXCEPT ![r] = a]
          /\ queued' = queued
      BY <2>1 DEF Arrive, Respond
    <3>2. /\ a \in [code : {0, 200, 400, 413, 500, 504}, success : BOOLEAN]
          /\ ~a.success /\ a.code # 504
      OBVIOUS
    <3> HIDE DEF a
    <3>3. /\ phase' \in [Request -> {"new", "loading", "waiting", "grading", "answered"}]
          /\ answer' \in [Request -> [code : {0, 200, 400, 413, 500, 504}, success : BOOLEAN]]
          /\ phase'[r] = "answered" /\ answer'[r] = a
          /\ \A q \in Request \ {r} : phase'[q] = phase[q] /\ answer'[q] = answer[q]
      BY <3>1, <3>2 DEF IInv, TypeOK
    <3>4. QED
      BY <3>1, <3>2, <3>3
  <2>2. CASE ~payload[r].large
    <3>1. answer[r] = NoAnswer
      BY <1>1 DEF IInv, PhaseInv
    <3>2. /\ phase' = [phase EXCEPT ![r] = "loading"]
          /\ queued' = queued \cup {<<r, 0>>} /\ answer' = answer
      BY <2>2 DEF Arrive
    <3>3. ~answer[r].success /\ answer[r].code # 504
      BY <3>1 DEF NoAnswer
    <3>4. /\ phase' \in [Request -> {"new", "loading", "waiting", "grading", "answered"}]
          /\ phase'[r] = "loading" /\ \A q \in Request \ {r} : phase'[q] = phase[q]
      BY <3>2 DEF IInv, TypeOK
    <3>5. answer' \in [Request -> [code : {0, 200, 400, 413, 500, 504}, success : BOOLEAN]]
      BY <3>2 DEF IInv, TypeOK
    <3>6. QED
      BY <3>1, <3>2, <3>3, <3>4, <3>5
  <2>3. QED
    BY <2>1, <2>2
<1>4. TypeOK'
  <2>1. queued' \cap running = {}
    BY <1>2, <1>3 DEF IInv, TypeOK
  <2>2. \A w \in queued' \cup running :
          w[1] \in Request /\ w[2] \in {0} \cup TaskIds(payload[w[1]].job)
    BY <1>3 DEF IInv, TypeOK
  <2>3. QED
    BY <1>1, <1>3, <2>1, <2>2 DEF IInv, TypeOK
<1>5. Shapes'
  BY <1>1, <1>3 DEF IInv, Shapes, Work
<1>6. LockInv'
  <2>1. \A i \in DOMAIN lock : lock[i] \in Request \ {r}
    BY <1>1 DEF IInv, TypeOK, LockInv
  <2>2. QED
    BY <1>1, <1>3, <2>1 DEF IInv, LockInv, Owns
<1>7. PhaseInv'
  <2>1. \A q \in Request : /\ pending[q] # {} => phase'[q] = "grading"
                           /\ graded[q] # {} => phase'[q] \in {"grading", "answered"}
                           /\ connected[q] # {} => phase'[q] = "grading" \/ TimedOut(q)'
                           /\ phase'[q] # "answered" => answer'[q] = NoAnswer
    BY <1>1, <1>2, <1>3 DEF IInv, PhaseInv, TimedOut
  <2>2. \A w \in queued' : phase'[w[1]] = IF w[2] = 0 THEN "loading" ELSE "grading"
    BY <1>2, <1>3, <1>4 DEF IInv, PhaseInv, TypeOK
  <2>3. \A w \in running : IF w[2] = 0 THEN phase'[w[1]] = "loading"
                            ELSE phase'[w[1]] = "grading" \/ TimedOut(w[1])'
    BY <1>2, <1>3 DEF IInv, PhaseInv, TypeOK, TimedOut
  <2>4. QED
    BY <1>1, <2>1, <2>2, <2>3 DEF PhaseInv
<1>8. DeviceInv'
  <2>1. \A q \in Request, t \in Nat :
          t \in pending[q] => t \notin graded[q] /\ <<q, t>> \notin queued' \cup running
    BY <1>2, <1>3 DEF IInv, DeviceInv
  <2>2. \A v \in queued' \cup running : v[2] # 0 => v \in queued \cup running
    BY <1>3
  <2>3. QED
    BY <1>1, <2>1, <2>2 DEF IInv, DeviceInv, TaskOf
<1>9. GradingInv'
  BY <1>1, <1>3 DEF IInv, GradingInv, Known
<1>10. SuccessIsComplete'
  BY <1>1, <1>3 DEF IInv, SuccessIsComplete
<1>11. QED
  BY <1>4, <1>5, <1>6, <1>7, <1>8, <1>9, <1>10 DEF IInv

(* A thread takes up work; only the test that grades has commands to take. *)
LEMMA ThreadTakesInv ==
  ASSUME IInv, NEW w \in queued, ThreadTakes(w)
  PROVE  IInv'
<1>1. /\ Cardinality(running) < Threads
      /\ queued' = queued \ {w} /\ running' = running \cup {w}
      /\ IF w[2] = 0 THEN UNCHANGED connected
         ELSE connected' = [connected EXCEPT ![w[1]] = @ \cup {TaskOf(w).dev}]
      /\ UNCHANGED <<payload, phase, answer, lock, registry, pending, graded>>
  BY DEF ThreadTakes, ThreadFree
<1>2. queued' \cup running' = queued \cup running /\ queued' \cap running' = {}
  BY <1>1 DEF IInv, TypeOK
<1>3. w[1] \in Request /\ (w[2] # 0 => TaskOf(w).dev \in Device /\ phase[w[1]] = "grading")
  BY PayloadType DEF IInv, TypeOK, PhaseInv, TaskOf
<1>4. /\ connected' \in [Request -> SUBSET Device]
      /\ \A q \in Request : connected'[q] # {} => connected[q] # {} \/ phase[q] = "grading"
  <2>1. connected \in [Request -> SUBSET Device]
    BY DEF IInv, TypeOK
  <2>2. CASE w[2] = 0
    BY <1>1, <2>1, <2>2
  <2>3. CASE w[2] # 0
    BY <1>1, <1>3, <2>1, <2>3
  <2>4. QED
    BY <2>2, <2>3
<1>5. IsFiniteSet(running') /\ Cardinality(running') <= Threads
  BY <1>1, OneMoreRunning DEF IInv, Shapes
<1>6. TypeOK'
  BY <1>1, <1>2, <1>4, <1>5 DEF IInv, TypeOK
<1>7. Shapes'
  BY <1>1, <1>2, <1>5 DEF IInv, Shapes
<1>8. LockInv'
  BY <1>1 DEF IInv, LockInv, Owns
<1>9. PhaseInv'
  <2>1. \A q \in Request : /\ pending[q] # {} => phase[q] = "grading"
                           /\ graded[q] # {} => phase[q] \in {"grading", "answered"}
                           /\ connected'[q] # {} => phase[q] = "grading" \/ TimedOut(q)
                           /\ phase[q] # "answered" => answer[q] = NoAnswer
    BY <1>4 DEF IInv, PhaseInv
  <2>2. \A v \in running' : IF v[2] = 0 THEN phase[v[1]] = "loading"
                             ELSE phase[v[1]] = "grading" \/ TimedOut(v[1])
    BY <1>1 DEF IInv, PhaseInv
  <2>3. \A v \in queued' : phase[v[1]] = IF v[2] = 0 THEN "loading" ELSE "grading"
    BY <1>1 DEF IInv, PhaseInv
  <2>4. QED
    BY <1>1, <2>1, <2>2, <2>3 DEF PhaseInv, TimedOut
<1>10. DeviceInv'
  BY <1>1, <1>2 DEF IInv, DeviceInv, TaskOf
<1>11. GradingInv'
  BY <1>1, <1>2 DEF IInv, GradingInv, Known
<1>12. SuccessIsComplete'
  BY <1>1 DEF IInv, SuccessIsComplete
<1>13. QED
  BY <1>6, <1>7, <1>8, <1>9, <1>10, <1>11, <1>12 DEF IInv

(* The templates are loaded: the request asks for the lock, behind the test
   that owns it, or its handler ends. *)
LEMMA LoadedInv ==
  ASSUME IInv, NEW r \in Request, Loaded(r)
  PROVE  IInv'
<1>1. /\ <<r, 0>> \in running /\ running' = running \ {<<r, 0>>}
      /\ UNCHANGED <<payload, pending, graded, queued, connected>>
  BY DEF Loaded
<1>2. /\ phase[r] = "loading" /\ ~TimedOut(r)
      /\ pending[r] = {} /\ graded[r] = {} /\ connected[r] = {}
  BY <1>1 DEF IInv, PhaseInv, TimedOut, NoAnswer
<1>3. <<r, 0>> \notin queued /\ \A w \in running' : w[1] = r => w[2] # 0
  BY <1>1 DEF IInv, TypeOK, Shapes, Work
<1>4. \A w \in queued \cup running' : w[1] # r
  BY <1>1, <1>2, <1>3 DEF IInv, PhaseInv, Shapes, Work
<1>5. Queue(lock) /\ \A i \in DOMAIN lock : lock[i] \in Request \ {r}
  BY <1>2 DEF IInv, TypeOK, LockInv, Queue
<1>6. /\ phase' \in [Request -> {"new", "loading", "waiting", "grading", "answered"}]
      /\ answer' \in [Request -> [code : {0, 200, 400, 413, 500, 504}, success : BOOLEAN]]
      /\ registry' \in [Request -> SUBSET Stored]
      /\ \A q \in Request \ {r} : /\ phase'[q] = phase[q] /\ answer'[q] = answer[q]
                                 /\ registry'[q] = registry[q]
      /\ ~answer'[r].success /\ answer'[r].code # 504
      /\ \/ phase'[r] = "waiting" /\ answer'[r] = NoAnswer /\ lock' = Append(lock, r)
         \/ phase'[r] = "answered" /\ lock' = lock
  <2>1. CASE /\ \E names \in SUBSET Stored : registry' = [registry EXCEPT ![r] = names]
             /\ phase' = [phase EXCEPT ![r] = "waiting"]
             /\ lock' = Append(lock, r)
             /\ UNCHANGED answer
    <3>1. answer[r] = NoAnswer /\ ~answer[r].success /\ answer[r].code # 504
      BY <1>2 DEF IInv, PhaseInv, NoAnswer
    <3>2. QED
      BY <2>1, <3>1 DEF IInv, TypeOK
  <2>2. CASE Respond(r, 500, FALSE) /\ UNCHANGED <<registry, lock>>
    <3> DEFINE a == [code |-> 500, success |-> FALSE]
    <3>1. phase' = [phase EXCEPT ![r] = "answered"] /\ answer' = [answer EXCEPT ![r] = a]
      BY <2>2 DEF Respond
    <3>2. a \in [code : {0, 200, 400, 413, 500, 504}, success : BOOLEAN] /\ ~a.success /\ a.code # 504
      OBVIOUS
    <3> HIDE DEF a
    <3>3. QED
      BY <2>2, <3>1, <3>2 DEF IInv, TypeOK
  <2>3. QED
    BY <2>1, <2>2 DEF Loaded
<1>7. Queue(lock') /\ LockInv'
  <2>1. CASE lock' = lock /\ phase'[r] = "answered"
    BY <1>5, <1>6, <2>1 DEF IInv, LockInv, Owns, Queue
  <2>2. CASE lock' = Append(lock, r) /\ phase'[r] = "waiting"
    <3>1. /\ Queue(lock')
          /\ lock # <<>> => lock' # <<>> /\ Head(lock') = Head(lock)
          /\ \A i \in DOMAIN lock' : lock'[i] = r \/ \E k \in DOMAIN lock : lock'[i] = lock[k]
      BY <1>5, <2>2, AskLock
    <3>2. \A i \in DOMAIN lock' : phase'[lock'[i]] \in {"waiting", "grading"}
      BY <1>5, <1>6, <2>2, <3>1 DEF IInv, LockInv
    <3>3. \A q \in Request : phase'[q] = "grading" => Owns(q)'
      BY <1>6, <2>2, <3>1 DEF IInv, LockInv, Owns
    <3>4. QED
      BY <3>1, <3>2, <3>3 DEF LockInv
  <2>3. QED
    BY <1>6, <2>1, <2>2
<1>8. IsFiniteSet(running') /\ Cardinality(running') <= Threads
  BY <1>1, OneLessRunning DEF IInv, Shapes, TypeOK
<1>9. TypeOK'
  <2>1. queued \cap running' = {}
    BY <1>1 DEF IInv, TypeOK
  <2>2. \A w \in queued \cup running' :
          w[1] \in Request /\ w[2] \in {0} \cup TaskIds(payload[w[1]].job)
    BY <1>1 DEF IInv, TypeOK
  <2>3. QED
    BY <1>1, <1>6, <1>7, <1>8, <2>1, <2>2 DEF IInv, TypeOK, Queue
<1>10. Shapes'
  BY <1>1, <1>8 DEF IInv, Shapes
<1>11. PhaseInv'
  <2>1. \A q \in Request : /\ pending[q] # {} => phase'[q] = "grading"
                           /\ graded[q] # {} => phase'[q] \in {"grading", "answered"}
                           /\ connected[q] # {} => phase'[q] = "grading" \/ TimedOut(q)'
                           /\ phase'[q] # "answered" => answer'[q] = NoAnswer
    BY <1>2, <1>6 DEF IInv, PhaseInv, TimedOut
  <2>2. \A w \in queued : phase'[w[1]] = IF w[2] = 0 THEN "loading" ELSE "grading"
    BY <1>4, <1>6 DEF IInv, PhaseInv, TypeOK
  <2>3. \A w \in running' : IF w[2] = 0 THEN phase'[w[1]] = "loading"
                             ELSE phase'[w[1]] = "grading" \/ TimedOut(w[1])'
    BY <1>1, <1>4, <1>6 DEF IInv, PhaseInv, TypeOK, TimedOut
  <2>4. QED
    BY <1>1, <2>1, <2>2, <2>3 DEF PhaseInv
<1>12. DeviceInv'
  BY <1>1 DEF IInv, DeviceInv, TaskOf
<1>13. GradingInv'
  <2> SUFFICES ASSUME NEW q \in Request, phase'[q] = "grading"
               PROVE  /\ Valid(payload[q], Known(q)') /\ ~payload[q].only
                      /\ \A t \in ToGrade(payload[q].job) :
                           t \in pending[q] \cup graded[q] \/ <<q, t>> \in queued \cup running'
    BY <1>1 DEF GradingInv
  <2>1. q # r /\ phase[q] = "grading" /\ Known(q)' = Known(q)
    BY <1>1, <1>6 DEF Known
  <2>2. \A t : <<q, t>> \in running => <<q, t>> \in running'
    BY <1>1, <2>1
  <2>3. QED
    BY <2>1, <2>2 DEF IInv, GradingInv
<1>14. SuccessIsComplete'
  BY <1>1, <1>6 DEF IInv, SuccessIsComplete
<1>15. QED
  BY <1>7, <1>9, <1>10, <1>11, <1>12, <1>13, <1>14 DEF IInv

-----------------------------------------------------------------------------
(* The owner of the lock answers and leaves it to the next in the queue. *)
LEMMA ReleaseInv ==
  ASSUME TypeOK, LockInv, NEW r \in Request, Owns(r), lock' = Tail(lock),
         phase'[r] = "answered", \A q \in Request \ {r} : phase'[q] = phase[q]
  PROVE  Queue(lock') /\ LockInv'
<1>1. Queue(lock) /\ lock # <<>> /\ Head(lock) = r
  BY DEF TypeOK, Queue, Owns
<1>2. /\ Queue(lock')
      /\ \A i \in DOMAIN lock' : lock'[i] # r /\ \E k \in DOMAIN lock : lock'[i] = lock[k]
  BY <1>1, ReleaseLock
<1>3. \A k \in DOMAIN lock : lock[k] \in Request
  BY <1>1 DEF Queue
<1>4. \A i \in DOMAIN lock' : phase'[lock'[i]] \in {"waiting", "grading"}
  BY <1>2, <1>3 DEF LockInv
<1>5. \A q \in Request : phase'[q] # "grading"
  BY <1>1 DEF LockInv, Owns
<1>6. QED
  BY <1>2, <1>4, <1>5 DEF LockInv

(* A response changes the phase and the answer of its request only. *)
Responds(r, a) ==
  /\ phase' \in [Request -> {"new", "loading", "waiting", "grading", "answered"}]
  /\ answer' \in [Request -> [code : {0, 200, 400, 413, 500, 504}, success : BOOLEAN]]
  /\ phase'[r] = "answered" /\ answer'[r] = a
  /\ \A q \in Request \ {r} : phase'[q] = phase[q] /\ answer'[q] = answer[q]

(* The owner of the lock answers without grading: nothing else changes. *)
LEMMA RefuseInv ==
  ASSUME IInv, NEW r \in Request, phase[r] = "waiting", Owns(r), lock' = Tail(lock),
         NEW a \in [code : {0, 200, 400, 413, 500, 504}, success : BOOLEAN],
         a.code # 504, a.success => payload[r].only, Responds(r, a),
         UNCHANGED <<payload, pending, registry, graded, queued, running, connected>>
  PROVE  IInv'
<1>1. /\ phase' \in [Request -> {"new", "loading", "waiting", "grading", "answered"}]
      /\ answer' \in [Request -> [code : {0, 200, 400, 413, 500, 504}, success : BOOLEAN]]
      /\ phase'[r] = "answered" /\ answer'[r] = a
      /\ \A q \in Request \ {r} : phase'[q] = phase[q] /\ answer'[q] = answer[q]
  BY DEF Responds
<1>2. Queue(lock') /\ LockInv'
  BY <1>1, ReleaseInv DEF IInv
<1>3. TypeOK'
  BY <1>1, <1>2 DEF IInv, TypeOK, Queue
<1>4. Shapes'
  BY DEF IInv, Shapes
<1>5. /\ pending[r] = {} /\ connected[r] = {} /\ ~TimedOut(r)
      /\ \A w \in queued \cup running : w[1] # r
  BY DEF IInv, PhaseInv, TimedOut, NoAnswer
<1>6. PhaseInv'
  <2>1. \A q \in Request : /\ pending[q] # {} => phase'[q] = "grading"
                           /\ graded[q] # {} => phase'[q] \in {"grading", "answered"}
                           /\ connected[q] # {} => phase'[q] = "grading" \/ TimedOut(q)'
                           /\ phase'[q] # "answered" => answer'[q] = NoAnswer
    BY <1>1, <1>5 DEF IInv, PhaseInv, TimedOut
  <2>2. \A w \in queued : phase'[w[1]] = IF w[2] = 0 THEN "loading" ELSE "grading"
    BY <1>1, <1>5 DEF IInv, PhaseInv, TypeOK
  <2>3. \A w \in running : IF w[2] = 0 THEN phase'[w[1]] = "loading"
                            ELSE phase'[w[1]] = "grading" \/ TimedOut(w[1])'
    BY <1>1, <1>5 DEF IInv, PhaseInv, TypeOK, TimedOut
  <2>4. QED
    BY <2>1, <2>2, <2>3 DEF PhaseInv
<1>7. DeviceInv'
  BY DEF IInv, DeviceInv, TaskOf
<1>8. GradingInv'
  <2>1. \A q \in Request : /\ Known(q)' = Known(q)
                           /\ phase'[q] = "grading" => phase[q] = "grading"
    BY <1>1 DEF Known
  <2>2. QED
    BY <2>1 DEF IInv, GradingInv
<1>9. SuccessIsComplete'
  BY <1>1 DEF IInv, SuccessIsComplete
<1>10. QED
  BY <1>2, <1>3, <1>4, <1>6, <1>7, <1>8, <1>9 DEF IInv

LEMMA ValidateInv ==
  ASSUME IInv, NEW r \in Request, Validate(r)
  PROVE  IInv'
<1>1. /\ phase[r] = "waiting" /\ Owns(r)
      /\ UNCHANGED <<payload, registry, graded, queued, running, connected>>
  BY DEF Validate
<1>2. ASSUME NEW code \in {400, 500}, Respond(r, code, FALSE), Release, UNCHANGED pending
      PROVE  IInv'
  <2> DEFINE a == [code |-> code, success |-> FALSE]
  <2>1. phase' = [phase EXCEPT ![r] = "answered"] /\ answer' = [answer EXCEPT ![r] = a]
    BY <1>2 DEF Respond
  <2>2. a \in [code : {0, 200, 400, 413, 500, 504}, success : BOOLEAN] /\ a.code # 504 /\ ~a.success
    OBVIOUS
  <2> HIDE DEF a
  <2>3. Responds(r, a)
    BY <2>1, <2>2 DEF Responds, IInv, TypeOK
  <2>4. QED
    BY <1>1, <1>2, <2>2, <2>3, RefuseInv DEF Release
<1>3. ASSUME ~Valid(payload[r], Known(r)) \/ payload[r].only,
             Respond(r, 200, Valid(payload[r], Known(r))), Release, UNCHANGED pending
      PROVE  IInv'
  <2> DEFINE a == [code |-> 200, success |-> Valid(payload[r], Known(r))]
  <2>1. phase' = [phase EXCEPT ![r] = "answered"] /\ answer' = [answer EXCEPT ![r] = a]
    BY <1>3 DEF Respond
  <2>2. Valid(payload[r], Known(r)) \in BOOLEAN
    BY DEF Valid
  <2>3. a \in [code : {0, 200, 400, 413, 500, 504}, success : BOOLEAN] /\ a.code # 504 /\ (a.success => payload[r].only)
    BY <1>3, <2>2
  <2> HIDE DEF a
  <2>4. Responds(r, a)
    BY <2>1, <2>3 DEF Responds, IInv, TypeOK
  <2>5. QED
    BY <1>1, <1>3, <2>3, <2>4, RefuseInv DEF Release
<1>4. ASSUME Valid(payload[r], Known(r)) /\ ~payload[r].only,
             phase' = [phase EXCEPT ![r] = "grading"],
             pending' = [pending EXCEPT ![r] = ToGrade(payload[r].job)],
             UNCHANGED <<answer, lock>>
      PROVE  IInv'
  <2>1. /\ answer[r] = NoAnswer /\ connected[r] = {} /\ graded[r] = {}
        /\ \A w \in queued \cup running : w[1] # r
    BY <1>1 DEF IInv, PhaseInv, TimedOut, NoAnswer
  <2>2. ToGrade(payload[r].job) \subseteq TaskIds(payload[r].job) /\ TaskIds(payload[r].job) \subseteq Nat
    BY ToGradeType, PayloadType DEF IInv, TypeOK
  <2>3. /\ phase' \in [Request -> {"new", "loading", "waiting", "grading", "answered"}]
        /\ pending' \in [Request -> SUBSET Nat]
        /\ phase'[r] = "grading" /\ pending'[r] = ToGrade(payload[r].job)
        /\ \A q \in Request \ {r} : phase'[q] = phase[q] /\ pending'[q] = pending[q]
    BY <1>4, <2>2 DEF IInv, TypeOK, Shapes
  <2>4. TypeOK'
    <3>1. \A q \in Request : pending'[q] \cup graded[q] \subseteq TaskIds(payload[q].job)
      BY <2>2, <2>3 DEF IInv, TypeOK
    <3>2. QED
      BY <1>1, <1>4, <2>3, <3>1 DEF IInv, TypeOK
  <2>5. Shapes'
    BY <1>1, <2>3 DEF IInv, Shapes
  <2>6. LockInv'
    <3>1. \A i \in DOMAIN lock : lock[i] \in Request
      BY DEF IInv, TypeOK
    <3>2. QED
      BY <1>1, <1>4, <2>3, <3>1 DEF IInv, LockInv, Owns
  <2>7. PhaseInv'
    <3>1. \A q \in Request : /\ pending'[q] # {} => phase'[q] = "grading"
                             /\ graded[q] # {} => phase'[q] \in {"grading", "answered"}
                             /\ connected[q] # {} => phase'[q] = "grading" \/ TimedOut(q)
                             /\ phase'[q] # "answered" => answer[q] = NoAnswer
      BY <2>1, <2>3 DEF IInv, PhaseInv
    <3>2. \A w \in queued : phase'[w[1]] = IF w[2] = 0 THEN "loading" ELSE "grading"
      BY <2>1, <2>3 DEF IInv, PhaseInv, TypeOK
    <3>3. \A w \in running : IF w[2] = 0 THEN phase'[w[1]] = "loading"
                              ELSE phase'[w[1]] = "grading" \/ TimedOut(w[1])
      BY <2>1, <2>3 DEF IInv, PhaseInv, TypeOK
    <3>4. QED
      BY <1>1, <1>4, <3>1, <3>2, <3>3 DEF PhaseInv, TimedOut
  <2>8. DeviceInv'
    <3>1. \A q \in Request, t \in Nat :
            t \in pending'[q] => t \notin graded[q] /\ <<q, t>> \notin queued \cup running
      BY <2>1, <2>3 DEF IInv, DeviceInv
    <3>2. QED
      BY <1>1, <3>1 DEF IInv, DeviceInv, TaskOf
  <2>9. GradingInv'
    BY <1>1, <1>4, <2>3 DEF IInv, GradingInv, Known
  <2>10. SuccessIsComplete'
    BY <1>1, <1>4 DEF IInv, SuccessIsComplete
  <2>11. QED
    BY <2>4, <2>5, <2>6, <2>7, <2>8, <2>9, <2>10 DEF IInv
<1>5. QED
  BY <1>2, <1>3, <1>4 DEF Validate

-----------------------------------------------------------------------------
(* A task is begun when its device has no other one of the test. *)
LEMMA BeginTaskInv ==
  ASSUME IInv, NEW r \in Request, NEW t \in pending[r], BeginTask(r, t)
  PROVE  IInv'
<1>1. /\ phase[r] = "grading" /\ ~Busy(r, payload[r].job.tasks[t].dev)
      /\ pending' = [pending EXCEPT ![r] = @ \ {t}]
      /\ \/ queued' = queued \cup {<<r, t>>} /\ graded' = graded
         \/ graded' = [graded EXCEPT ![r] = @ \cup {t}] /\ queued' = queued
      /\ UNCHANGED <<payload, phase, answer, lock, registry, running, connected>>
  BY DEF BeginTask
<1>2. t \in TaskIds(payload[r].job) /\ t \in Nat \ {0}
  BY PayloadType DEF IInv, TypeOK
<1>3. t \notin graded[r] /\ <<r, t>> \notin queued \cup running
  BY <1>2 DEF IInv, DeviceInv
<1>4. /\ pending' \in [Request -> SUBSET Nat] /\ graded' \in [Request -> SUBSET Nat]
      /\ pending'[r] = pending[r] \ {t}
      /\ \A q \in Request \ {r} : pending'[q] = pending[q] /\ graded'[q] = graded[q]
      /\ \/ queued' = queued \cup {<<r, t>>} /\ graded'[r] = graded[r]
         \/ graded'[r] = graded[r] \cup {t} /\ queued' = queued
  BY <1>1, <1>2 DEF IInv, Shapes
<1>5. TypeOK'
  <2>1. \A q \in Request : pending'[q] \cup graded'[q] \subseteq TaskIds(payload[q].job)
    <3>1. \A q \in Request : pending[q] \cup graded[q] \subseteq TaskIds(payload[q].job)
      BY DEF IInv, TypeOK
    <3>2. pending'[r] \cup graded'[r] \subseteq TaskIds(payload[r].job)
      BY <1>2, <1>4, <3>1
    <3>3. QED
      BY <1>4, <3>1, <3>2
  <2>2. queued' \cap running = {}
    <3>1. queued \cap running = {}
      BY DEF IInv, TypeOK
    <3>2. QED
      BY <1>3, <1>4, <3>1
  <2>3. \A w \in queued' \cup running :
          w[1] \in Request /\ w[2] \in {0} \cup TaskIds(payload[w[1]].job)
    BY <1>2, <1>4 DEF IInv, TypeOK
  <2>4. QED
    BY <1>1, <2>1, <2>2, <2>3 DEF IInv, TypeOK
<1>6. Shapes'
  BY <1>1, <1>2, <1>4 DEF IInv, Shapes, Work
<1>7. LockInv'
  BY <1>1 DEF IInv, LockInv, Owns
<1>8. PhaseInv'
  <2>1. \A q \in Request : /\ pending'[q] # {} => phase[q] = "grading"
                           /\ graded'[q] # {} => phase[q] \in {"grading", "answered"}
                           /\ connected[q] # {} => phase[q] = "grading" \/ TimedOut(q)
                           /\ phase[q] # "answered" => answer[q] = NoAnswer
    BY <1>1, <1>4 DEF IInv, PhaseInv
  <2>2. \A w \in queued' : phase[w[1]] = IF w[2] = 0 THEN "loading" ELSE "grading"
    BY <1>1, <1>2, <1>4 DEF IInv, PhaseInv
  <2>3. \A w \in running : IF w[2] = 0 THEN phase[w[1]] = "loading"
                            ELSE phase[w[1]] = "grading" \/ TimedOut(w[1])
    BY DEF IInv, PhaseInv
  <2>4. QED
    BY <1>1, <2>1, <2>2, <2>3 DEF PhaseInv, TimedOut
<1>9. DeviceInv'
  <2>1. \A q \in Request, n \in Nat :
          n \in pending'[q] => n \notin graded'[q] /\ <<q, n>> \notin queued' \cup running
    BY <1>3, <1>4 DEF IInv, DeviceInv
  <2>2. ASSUME NEW v \in queued \cup running, v[1] = r PROVE TaskOf(v).dev # TaskOf(<<r, t>>).dev
    <3>1. v \in Engaged(r)
      BY <2>2 DEF Engaged
    <3>2. TaskOf(<<r, t>>) = payload[r].job.tasks[t]
      BY DEF TaskOf
    <3>3. QED
      BY <1>1, <3>1, <3>2 DEF Busy
  <2>3. \A v, w \in queued' \cup running :
          v[1] = w[1] /\ v[2] # 0 /\ w[2] # 0 /\ TaskOf(v).dev = TaskOf(w).dev => v = w
    <3> SUFFICES ASSUME NEW v \in queued' \cup running, NEW w \in queued' \cup running,
                        v[1] = w[1], v[2] # 0, w[2] # 0, TaskOf(v).dev = TaskOf(w).dev
                 PROVE  v = w
      OBVIOUS
    <3>1. v \in (queued \cup running) \cup {<<r, t>>} /\ w \in (queued \cup running) \cup {<<r, t>>}
      BY <1>4
    <3>2. CASE v = <<r, t>> \/ w = <<r, t>>
      BY <2>2, <3>1, <3>2
    <3>3. CASE v \in queued \cup running /\ w \in queued \cup running
      BY <3>3 DEF IInv, DeviceInv
    <3>4. QED
      BY <3>1, <3>2, <3>3
  <2>4. QED
    BY <1>1, <2>1, <2>3 DEF DeviceInv, TaskOf
<1>10. GradingInv'
  <2> SUFFICES ASSUME NEW q \in Request, phase[q] = "grading", NEW n \in ToGrade(payload[q].job)
               PROVE  /\ Valid(payload[q], Known(q)) /\ ~payload[q].only
                      /\ n \in pending'[q] \cup graded'[q] \/ <<q, n>> \in queued' \cup running
    <3>1. \A q \in Request : Known(q)' = Known(q)
      BY <1>1 DEF Known
    <3>2. ASSUME NEW q \in Request, phase[q] = "grading"
          PROVE  Valid(payload[q], Known(q)) /\ ~payload[q].only
      BY <3>2 DEF IInv, GradingInv
    <3>3. QED
      BY <1>1, <3>1, <3>2 DEF GradingInv
  <2>1. /\ Valid(payload[q], Known(q)) /\ ~payload[q].only
        /\ n \in pending[q] \cup graded[q] \/ <<q, n>> \in queued \cup running
    BY DEF IInv, GradingInv
  <2>2. QED
    BY <1>4, <2>1
<1>11. SuccessIsComplete'
  <2>1. ~answer[r].success
    BY <1>1 DEF IInv, PhaseInv, NoAnswer
  <2>2. QED
    BY <1>1, <1>4, <2>1 DEF IInv, SuccessIsComplete
<1>12. QED
  BY <1>5, <1>6, <1>7, <1>8, <1>9, <1>10, <1>11 DEF IInv

(* A command ends; its result counts if its test is still there. *)
LEMMA ThreadEndsInv ==
  ASSUME IInv, NEW w \in running, ThreadEnds(w)
  PROVE  IInv'
<1>1. /\ w[2] # 0 /\ running' = running \ {w}
      /\ graded' = IF phase[w[1]] = "grading"
                     THEN [graded EXCEPT ![w[1]] = @ \cup {w[2]}] ELSE graded
      /\ UNCHANGED <<payload, phase, answer, lock, registry, pending, queued, connected>>
  BY DEF ThreadEnds, Commands
<1>2. /\ w[1] \in Request /\ w[2] \in Nat /\ w = <<w[1], w[2]>>
      /\ w[2] \in TaskIds(payload[w[1]].job) /\ w \notin queued
  BY <1>1 DEF IInv, TypeOK, Shapes, Work
<1>3. w[2] \notin pending[w[1]]
  BY <1>2 DEF IInv, DeviceInv
<1>4. /\ graded' \in [Request -> SUBSET Nat]
      /\ \A q \in Request \ {w[1]} : graded'[q] = graded[q]
      /\ graded'[w[1]] = IF phase[w[1]] = "grading" THEN graded[w[1]] \cup {w[2]} ELSE graded[w[1]]
  BY <1>1, <1>2 DEF IInv, Shapes
<1>5. IsFiniteSet(running') /\ Cardinality(running') <= Threads
  BY <1>1, OneLessRunning DEF IInv, Shapes, TypeOK
<1>6. TypeOK'
  <2>1. \A q \in Request : pending[q] \cup graded'[q] \subseteq TaskIds(payload[q].job)
    BY <1>2, <1>4 DEF IInv, TypeOK
  <2>2. queued \cap running' = {}
    BY <1>1 DEF IInv, TypeOK
  <2>3. \A v \in queued \cup running' :
          v[1] \in Request /\ v[2] \in {0} \cup TaskIds(payload[v[1]].job)
    BY <1>1 DEF IInv, TypeOK
  <2>4. QED
    BY <1>1, <1>5, <2>1, <2>2, <2>3 DEF IInv, TypeOK
<1>7. Shapes'
  BY <1>1, <1>4, <1>5 DEF IInv, Shapes
<1>8. LockInv'
  BY <1>1 DEF IInv, LockInv, Owns
<1>9. PhaseInv'
  <2>1. \A q \in Request : /\ pending[q] # {} => phase[q] = "grading"
                           /\ graded'[q] # {} => phase[q] \in {"grading", "answered"}
                           /\ connected[q] # {} => phase[q] = "grading" \/ TimedOut(q)
                           /\ phase[q] # "answered" => answer[q] = NoAnswer
    BY <1>4 DEF IInv, PhaseInv
  <2>2. \A v \in running' : IF v[2] = 0 THEN phase[v[1]] = "loading"
                             ELSE phase[v[1]] = "grading" \/ TimedOut(v[1])
    BY <1>1 DEF IInv, PhaseInv
  <2>3. \A v \in queued : phase[v[1]] = IF v[2] = 0 THEN "loading" ELSE "grading"
    BY DEF IInv, PhaseInv
  <2>4. QED
    BY <1>1, <2>1, <2>2, <2>3 DEF PhaseInv, TimedOut
<1>10. DeviceInv'
  <2>1. \A q \in Request, n \in Nat :
          n \in pending[q] => n \notin graded'[q] /\ <<q, n>> \notin queued \cup running'
    BY <1>1, <1>2, <1>3, <1>4 DEF IInv, DeviceInv
  <2>2. QED
    BY <1>1, <2>1 DEF IInv, DeviceInv, TaskOf
<1>11. GradingInv'
  <2> SUFFICES ASSUME NEW q \in Request, phase[q] = "grading", NEW n \in ToGrade(payload[q].job)
               PROVE  n \in pending[q] \cup graded'[q] \/ <<q, n>> \in queued \cup running'
    <3>1. \A q \in Request : Known(q)' = Known(q)
      BY <1>1 DEF Known
    <3>2. ASSUME NEW q \in Request, phase[q] = "grading"
          PROVE  Valid(payload[q], Known(q)) /\ ~payload[q].only
      BY <3>2 DEF IInv, GradingInv
    <3>3. QED
      BY <1>1, <3>1, <3>2 DEF GradingInv
  <2>1. n \in pending[q] \cup graded[q] \/ <<q, n>> \in queued \cup running
    BY DEF IInv, GradingInv
  <2>2. <<q, n>> = w => q = w[1] /\ n = w[2]
    BY <1>2
  <2>3. QED
    BY <1>1, <1>2, <1>4, <2>1, <2>2
<1>12. SuccessIsComplete'
  <2>1. \A q \in Request : answer[q].success => graded'[q] = graded[q]
    BY <1>2, <1>4 DEF IInv, PhaseInv, NoAnswer
  <2>2. QED
    BY <1>1, <2>1 DEF IInv, SuccessIsComplete
<1>13. QED
  BY <1>6, <1>7, <1>8, <1>9, <1>10, <1>11, <1>12 DEF IInv

-----------------------------------------------------------------------------
(* A test with groups that has nothing left to do graded every task. *)
LEMMA CompleteGrading ==
  ASSUME IInv, NEW r \in Request, phase[r] = "grading",
         pending[r] = {}, Engaged(r) = {}, DOMAIN payload[r].job.groups # {}
  PROVE  graded[r] = TaskIds(payload[r].job)
<1>1. /\ Valid(payload[r], Known(r))
      /\ \A t \in ToGrade(payload[r].job) :
           t \in pending[r] \cup graded[r] \/ <<r, t>> \in queued \cup running
  BY DEF IInv, GradingInv
<1>2. ToGrade(payload[r].job) = TaskIds(payload[r].job)
  BY <1>1, AllToGrade DEF IInv, TypeOK
<1>3. \A t : <<r, t>> \notin queued \cup running
  BY DEF Engaged
<1>4. \A t \in TaskIds(payload[r].job) : t \in graded[r]
  BY <1>1, <1>2, <1>3
<1>5. graded[r] \subseteq TaskIds(payload[r].job)
  BY DEF IInv, TypeOK
<1>6. QED
  BY <1>4, <1>5

(* A test is over.  What it leaves behind is what a timeout leaves: commands
   on threads, and connections. *)
LEMMA TestEndsInv ==
  ASSUME IInv, NEW r \in Request, phase[r] = "grading", lock' = Tail(lock),
         NEW a \in [code : {0, 200, 400, 413, 500, 504}, success : BOOLEAN],
         Responds(r, a),
         pending' \in [Request -> SUBSET Nat], pending'[r] = {},
         \A q \in Request \ {r} : pending'[q] = pending[q],
         \A w : w \in queued' <=> w \in queued /\ w[1] # r,
         connected' \in [Request -> SUBSET Device],
         \A q \in Request \ {r} : connected'[q] = connected[q],
         a.code # 504 => connected'[r] = {} /\ Engaged(r) = {},
         a.success => pending[r] = {} /\ Engaged(r) = {},
         UNCHANGED <<payload, registry, graded, running>>
  PROVE  IInv'
<1>1. /\ phase' \in [Request -> {"new", "loading", "waiting", "grading", "answered"}]
      /\ answer' \in [Request -> [code : {0, 200, 400, 413, 500, 504}, success : BOOLEAN]]
      /\ pending' \in [Request -> SUBSET Nat]
      /\ phase'[r] = "answered" /\ answer'[r] = a /\ pending'[r] = {}
      /\ \A q \in Request \ {r} : /\ phase'[q] = phase[q] /\ answer'[q] = answer[q]
                                 /\ pending'[q] = pending[q]
  BY DEF Responds
<1>2. Queue(lock') /\ LockInv'
  BY <1>1, ReleaseInv DEF IInv, LockInv
<1>3. TypeOK'
  <2>1. \A q \in Request : pending'[q] \cup graded[q] \subseteq TaskIds(payload[q].job)
    BY <1>1 DEF IInv, TypeOK
  <2>2. queued' \cap running = {}
    BY DEF IInv, TypeOK
  <2>3. \A w \in queued' \cup running :
          w[1] \in Request /\ w[2] \in {0} \cup TaskIds(payload[w[1]].job)
    BY DEF IInv, TypeOK
  <2>4. QED
    BY <1>1, <1>2, <2>1, <2>2, <2>3 DEF IInv, TypeOK, Queue
<1>4. Shapes'
  BY <1>1 DEF IInv, Shapes
<1>5. PhaseInv'
  <2>1. \A q \in Request : /\ pending'[q] # {} => phase'[q] = "grading"
                           /\ graded[q] # {} => phase'[q] \in {"grading", "answered"}
                           /\ connected'[q] # {} => phase'[q] = "grading" \/ answer'[q].code = 504
                           /\ phase'[q] # "answered" => answer'[q] = NoAnswer
    BY <1>1 DEF IInv, PhaseInv, TimedOut
  <2>2. \A w \in queued' : phase'[w[1]] = IF w[2] = 0 THEN "loading" ELSE "grading"
    BY <1>1 DEF IInv, PhaseInv, TypeOK
  <2>3. ASSUME NEW w \in running
        PROVE  IF w[2] = 0 THEN phase'[w[1]] = "loading"
               ELSE phase'[w[1]] = "grading" \/ answer'[w[1]].code = 504
    <3>1. w[1] = r => w \in Engaged(r) /\ w[2] # 0
      BY DEF Engaged, IInv, PhaseInv
    <3>2. QED
      BY <1>1, <3>1 DEF IInv, PhaseInv, TypeOK, TimedOut
  <2>4. QED
    BY <2>1, <2>2, <2>3 DEF PhaseInv, TimedOut
<1>6. DeviceInv'
  <2>1. queued' \subseteq queued /\ \A q \in Request : pending'[q] \subseteq pending[q]
    BY <1>1
  <2>2. QED
    BY <2>1 DEF IInv, DeviceInv, TaskOf
<1>7. GradingInv'
  <2> SUFFICES ASSUME NEW q \in Request, phase'[q] = "grading"
               PROVE  /\ Valid(payload[q], Known(q)') /\ ~payload[q].only
                      /\ \A t \in ToGrade(payload[q].job) :
                           t \in pending'[q] \cup graded[q] \/ <<q, t>> \in queued' \cup running
    BY DEF GradingInv
  <2>1. q # r /\ phase[q] = "grading" /\ Known(q)' = Known(q)
    BY <1>1 DEF Known
  <2>2. \A t : <<q, t>> \in queued => <<q, t>> \in queued'
    BY <2>1
  <2>3. QED
    BY <1>1, <2>1, <2>2 DEF IInv, GradingInv
<1>8. SuccessIsComplete'
  <2>1. a.success /\ DOMAIN payload[r].job.groups # {} => graded[r] = TaskIds(payload[r].job)
    BY CompleteGrading
  <2>2. QED
    BY <1>1, <2>1 DEF IInv, SuccessIsComplete
<1>9. QED
  BY <1>2, <1>3, <1>4, <1>5, <1>6, <1>7, <1>8 DEF IInv

LEMMA GradedInv ==
  ASSUME IInv, NEW r \in Request, Graded(r)
  PROVE  IInv'
<1>1. /\ phase[r] = "grading" /\ Engaged(r) = {} /\ lock' = Tail(lock)
      /\ pending' = [pending EXCEPT ![r] = {}]
      /\ connected' = [connected EXCEPT ![r] = {}]
      /\ UNCHANGED <<payload, registry, graded, queued, running>>
  BY DEF Graded, Release, CleanupJobState
<1>2. PICK b \in BOOLEAN :
        /\ phase' = [phase EXCEPT ![r] = "answered"]
        /\ answer' = [answer EXCEPT ![r] = [code |-> 200, success |-> b]]
        /\ b => pending[r] = {}
  BY DEF Graded, Respond
<1> DEFINE a == [code |-> 200, success |-> b]
<1>3. a \in [code : {0, 200, 400, 413, 500, 504}, success : BOOLEAN] /\ a.code # 504 /\ (a.success => pending[r] = {})
  BY <1>2
<1>4. \A w : w \in queued' <=> w \in queued /\ w[1] # r
  BY <1>1 DEF Engaged
<1>5. /\ connected' \in [Request -> SUBSET Device] /\ connected'[r] = {}
      /\ \A q \in Request \ {r} : connected'[q] = connected[q]
      /\ pending' \in [Request -> SUBSET Nat] /\ pending'[r] = {}
      /\ \A q \in Request \ {r} : pending'[q] = pending[q]
  BY <1>1 DEF IInv, TypeOK, Shapes
<1>6. answer' = [answer EXCEPT ![r] = a]
  BY <1>2
<1> HIDE DEF a
<1>7. Responds(r, a)
  BY <1>2, <1>3, <1>6 DEF Responds, IInv, TypeOK
<1>8. QED
  BY <1>1, <1>3, <1>4, <1>5, <1>7, TestEndsInv

(* An exception before the first task finds nothing connected. *)
LEMMA GradingRaisesInv ==
  ASSUME IInv, Fresh, NEW r \in Request, GradingRaises(r)
  PROVE  IInv'
<1> DEFINE a == [code |-> 500, success |-> FALSE]
<1>1. /\ phase[r] = "grading" /\ graded[r] = {} /\ Engaged(r) = {} /\ lock' = Tail(lock)
      /\ phase' = [phase EXCEPT ![r] = "answered"] /\ answer' = [answer EXCEPT ![r] = a]
      /\ pending' = [pending EXCEPT ![r] = {}]
      /\ UNCHANGED <<payload, registry, graded, queued, running, connected>>
  BY DEF GradingRaises, Release, Respond
<1>2. a \in [code : {0, 200, 400, 413, 500, 504}, success : BOOLEAN] /\ a.code # 504 /\ ~a.success
  OBVIOUS
<1>3. connected'[r] = {}
  BY <1>1 DEF Fresh, Engaged
<1>4. /\ connected' \in [Request -> SUBSET Device]
      /\ \A q \in Request \ {r} : connected'[q] = connected[q]
      /\ pending' \in [Request -> SUBSET Nat] /\ pending'[r] = {}
      /\ \A q \in Request \ {r} : pending'[q] = pending[q]
      /\ \A w : w \in queued' <=> w \in queued /\ w[1] # r
  BY <1>1 DEF IInv, TypeOK, Shapes, Engaged
<1> HIDE DEF a
<1>5. Responds(r, a)
  BY <1>1, <1>2 DEF Responds, IInv, TypeOK
<1>6. QED
  BY <1>1, <1>2, <1>3, <1>4, <1>5, TestEndsInv

LEMMA TimesOutInv ==
  ASSUME IInv, NEW r \in Request, TimesOut(r)
  PROVE  IInv'
<1> DEFINE a == [code |-> 504, success |-> FALSE]
<1>1. /\ phase[r] = "grading" /\ lock' = Tail(lock)
      /\ phase' = [phase EXCEPT ![r] = "answered"] /\ answer' = [answer EXCEPT ![r] = a]
      /\ pending' = [pending EXCEPT ![r] = {}]
      /\ queued' = {w \in queued : w[1] # r}
      /\ UNCHANGED <<payload, registry, graded, running, connected>>
  BY DEF TimesOut, Release, Respond
<1>2. a \in [code : {0, 200, 400, 413, 500, 504}, success : BOOLEAN] /\ a.code = 504 /\ ~a.success
  OBVIOUS
<1>3. /\ connected' \in [Request -> SUBSET Device]
      /\ pending' \in [Request -> SUBSET Nat] /\ pending'[r] = {}
      /\ \A q \in Request \ {r} : pending'[q] = pending[q]
      /\ \A w : w \in queued' <=> w \in queued /\ w[1] # r
  BY <1>1 DEF IInv, TypeOK, Shapes
<1> HIDE DEF a
<1>4. Responds(r, a)
  BY <1>1, <1>2 DEF Responds, IInv, TypeOK
<1>5. QED
  BY <1>1, <1>2, <1>3, <1>4, TestEndsInv

-----------------------------------------------------------------------------
LEMMA NextInv == IInv /\ Fresh /\ [Next]_vars => IInv'
<1> SUFFICES ASSUME IInv, Fresh, [Next]_vars PROVE IInv'
  OBVIOUS
<1>1. CASE \E r \in Request : Arrive(r)
  BY <1>1, ArriveInv
<1>2. CASE \E r \in Request : Handle(r)
  BY <1>2, LoadedInv, ValidateInv, GradedInv, GradingRaisesInv, TimesOutInv, BeginTaskInv DEF Handle
<1>3. CASE \E w \in queued : ThreadTakes(w)
  BY <1>3, ThreadTakesInv
<1>4. CASE \E w \in running : ThreadEnds(w)
  BY <1>4, ThreadEndsInv
<1>5. CASE UNCHANGED vars
  <2>1. UNCHANGED <<payload, phase, answer, lock, registry, pending, graded, queued,
                    running, connected>>
    BY <1>5 DEF vars, workVars
  <2>2. TypeOK' /\ Shapes' /\ SuccessIsComplete'
    BY <2>1 DEF IInv, TypeOK, Shapes, SuccessIsComplete
  <2>3. LockInv' /\ PhaseInv'
    BY <2>1 DEF IInv, LockInv, PhaseInv, Owns, TimedOut
  <2>4. DeviceInv' /\ GradingInv'
    BY <2>1 DEF IInv, DeviceInv, GradingInv, TaskOf, Known
  <2>5. QED
    BY <2>2, <2>3, <2>4 DEF IInv
<1>6. QED
  BY <1>1, <1>2, <1>3, <1>4, <1>5 DEF Next, Over

(* A connection comes with a task on a thread, and the result of that task stays
   as long as the test grades. *)
LEMMA FreshKept ==
  ASSUME IInv, Fresh, [Next]_vars
  PROVE  Fresh'
<1> DEFINE Has(q) == graded[q] # {} \/ \E w \in running : w[1] = q /\ w[2] # 0
<1>0. SUFFICES ASSUME NEW q \in Request, phase'[q] = "grading", connected'[q] # {}
               PROVE  Has(q)'
  BY DEF Fresh
<1>1. phase[q] = "grading" /\ connected[q] # {} => Has(q)
  BY DEF Fresh
<1>2. CASE \E r \in Request : Arrive(r)
  <2>1. PICK r \in Request : Arrive(r)
    BY <1>2
  <2>2. UNCHANGED <<graded, running, connected>>
    BY <2>1 DEF Arrive
  <2>3. phase[q] = "grading"
    BY <1>0, <2>1 DEF Arrive, Respond, IInv, TypeOK
  <2>4. QED
    BY <1>0, <1>1, <2>2, <2>3
<1>3. CASE \E r \in Request : Handle(r)
  <2>1. PICK r \in Request : Handle(r)
    BY <1>3
  <2>2. CASE Loaded(r)
    <3>1. /\ running' = running \ {<<r, 0>>} /\ UNCHANGED <<graded, connected>>
          /\ phase[q] = "grading"
      BY <1>0, <2>2 DEF Loaded, Respond, IInv, TypeOK
    <3>2. QED
      BY <1>0, <1>1, <3>1
  <2>3. CASE Validate(r)
    <3>1. UNCHANGED <<graded, running, connected>> /\ phase[r] = "waiting"
      BY <2>3 DEF Validate
    <3>2. connected[r] = {}
      BY <3>1 DEF IInv, PhaseInv, TimedOut, NoAnswer
    <3>3. q # r /\ phase[q] = "grading"
      BY <1>0, <2>3, <3>1, <3>2 DEF Validate, Respond, IInv, TypeOK
    <3>4. QED
      BY <1>0, <1>1, <3>1, <3>3
  <2>4. CASE Graded(r) \/ GradingRaises(r) \/ TimesOut(r)
    <3>1. UNCHANGED <<graded, running>>
      BY <2>4 DEF Graded, GradingRaises, TimesOut
    <3>2. q # r /\ phase[q] = "grading"
      BY <1>0, <2>4 DEF Graded, GradingRaises, TimesOut, Respond, IInv, TypeOK
    <3>3. connected'[q] = connected[q]
      <4>1. connected' = connected \/ connected' = [connected EXCEPT ![r] = {}]
        BY <2>4 DEF Graded, GradingRaises, TimesOut, CleanupJobState
      <4>2. QED
        BY <3>2, <4>1 DEF IInv, TypeOK
    <3>4. QED
      BY <1>0, <1>1, <3>1, <3>2, <3>3
  <2>5. CASE \E t \in pending[r] : BeginTask(r, t)
    <3>1. PICK t \in pending[r] : BeginTask(r, t)
      BY <2>5
    <3>2. /\ UNCHANGED <<phase, running, connected>>
          /\ graded' = graded \/ graded' = [graded EXCEPT ![r] = @ \cup {t}]
      BY <3>1 DEF BeginTask
    <3>3. graded[q] # {} => graded'[q] # {}
      BY <3>2 DEF IInv, Shapes
    <3>4. QED
      BY <1>0, <1>1, <3>2, <3>3
  <2>6. QED
    BY <2>1, <2>2, <2>3, <2>4, <2>5 DEF Handle
<1>4. CASE \E w \in queued : ThreadTakes(w)
  <2>1. PICK w \in queued : ThreadTakes(w)
    BY <1>4
  <2>2. running' = running \cup {w} /\ UNCHANGED <<phase, graded>>
    BY <2>1 DEF ThreadTakes
  <2>3. connected'[q] = connected[q] \/ (w[1] = q /\ w[2] # 0)
    BY <2>1 DEF ThreadTakes, IInv, TypeOK
  <2>4. QED
    BY <1>0, <1>1, <2>2, <2>3
<1>5. CASE \E w \in running : ThreadEnds(w)
  <2>1. PICK w \in running : ThreadEnds(w)
    BY <1>5
  <2>2. /\ running' = running \ {w} /\ UNCHANGED <<phase, connected>>
        /\ graded' = IF phase[w[1]] = "grading"
                       THEN [graded EXCEPT ![w[1]] = @ \cup {w[2]}] ELSE graded
    BY <2>1 DEF ThreadEnds
  <2>3. graded[q] # {} \/ w[1] = q => graded'[q] # {}
    BY <1>0, <2>2 DEF IInv, Shapes
  <2>4. QED
    BY <1>0, <1>1, <2>2, <2>3
<1>6. CASE UNCHANGED vars
  BY <1>0, <1>1, <1>6 DEF vars, workVars
<1>7. QED
  BY <1>2, <1>3, <1>4, <1>5, <1>6 DEF Next, Over

LEMMA Inductive == Spec => []IInv
<1>1. Init => Fresh
  BY DEF Init, Fresh
<1>2. IInv /\ Fresh /\ [Next]_vars => IInv' /\ Fresh'
  BY NextInv, FreshKept
<1>3. QED
  BY InitInv, <1>1, <1>2, PTL DEF Spec

-----------------------------------------------------------------------------
(* Requests, the lock and the executor keep their types: nobody is in the
   queue of the lock twice, and no more work runs than there are threads. *)
THEOREM TypeCorrect == Spec => []TypeOK
<1>1. IInv => TypeOK
  BY DEF IInv
<1>2. QED
  BY <1>1, Inductive, PTL

(* Two commands meet on a device only after a timeout. *)
THEOREM DevicesKeptApart == Spec => []OnlyOrphansIntrude
<1>1. IInv => OnlyOrphansIntrude
  <2> SUFFICES ASSUME IInv, NEW v \in Commands, NEW w \in Commands,
                      v # w, TaskOf(v).dev = TaskOf(w).dev,
                      ~TimedOut(v[1]), ~TimedOut(w[1])
               PROVE  FALSE
    BY DEF OnlyOrphansIntrude
  <2>1. /\ v \in running /\ w \in running /\ v[2] # 0 /\ w[2] # 0
        /\ v[1] \in Request /\ w[1] \in Request
    BY DEF Commands, IInv, TypeOK
  <2>2. phase[v[1]] = "grading" /\ phase[w[1]] = "grading"
    BY <2>1 DEF IInv, PhaseInv
  <2>3. v[1] = w[1]
    BY <2>1, <2>2 DEF IInv, LockInv, Owns
  <2>4. QED
    BY <2>1, <2>3 DEF IInv, DeviceInv
<1>2. QED
  BY <1>1, Inductive, PTL

(* Only a test that timed out leaves connections, or commands on threads. *)
THEOREM NothingLeftBehind == Spec => []OnlyTimeoutsLeak
<1>1. IInv => OnlyTimeoutsLeak
  <2> SUFFICES ASSUME IInv, NEW r \in Request, phase[r] = "answered"
               PROVE  /\ \A w \in queued : w[1] # r
                      /\ ~TimedOut(r) => Engaged(r) = {} /\ connected[r] = {}
    BY DEF OnlyTimeoutsLeak, Answered
  <2>1. \A w \in queued : w[1] # r
    BY DEF IInv, PhaseInv
  <2>2. ~TimedOut(r) => connected[r] = {} /\ \A w \in running : w[1] # r
    BY DEF IInv, PhaseInv
  <2>3. QED
    BY <2>1, <2>2 DEF Engaged
<1>2. QED
  BY <1>1, Inductive, PTL

(* A test that reports success graded every task of a payload with groups. *)
THEOREM SuccessGradedAll == Spec => []SuccessIsComplete
<1>1. IInv => SuccessIsComplete
  BY DEF IInv
<1>2. QED
  BY <1>1, Inductive, PTL
=============================================================================
