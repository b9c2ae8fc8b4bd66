---------------------------- MODULE TemplateTest ----------------------------
(***************************************************************************)
(* POST /template-tests/run: a draft template is tried out with a job      *)
(* payload, outside the queue.  Every request has a SimpleGradingService   *)
(* of its own, thus its own registry and connections; what the requests    *)
(* share is template_test_lock, the executor's threads and the devices.    *)
(*                                                                         *)
(* The grading inside a test is JobExecution's, seen from outside: one     *)
(* task per device at a time, in any order that keeps the ungrouped batch  *)
(* before a verdict that cancels.  wait_for may time it out at any moment. *)
(* Cancelling drops what waits for a thread and leaves what runs on one.   *)
(* Rescue and cleanup tasks of groups, which JobExecution has, are left    *)
(* out: they run one at a time, between batches, and count nowhere.        *)
(***************************************************************************)
EXTENDS GradingJobs, Functions

CONSTANTS
  Request,    \* requests that may come
  Payload,    \* what each may carry
  Supported,  \* template names that need no registry
  Stored,     \* template names in the MinIO bucket
  Broken,     \* the name of a draft that does not make a template
  Threads     \* threads of the default executor

(* A request: the job, the template of each task, the devices declared; the
   draft by its name; validate_only; the YAML is above the size limit. *)
IsPayload(p) ==
  /\ p.job \in Jobs
  /\ p.template \in Seq(STRING) /\ Len(p.template) = Len(p.job.tasks)
  /\ p.devices \subseteq Device
  /\ p.draft \in STRING
  /\ {p.only, p.large} \subseteq BOOLEAN

ASSUME TestAssumption ==
  /\ \A r \in Request : \A p \in Payload[r] : IsPayload(p)
  /\ Threads \in Nat \ {0}

VARIABLES
  payload,    \* what each request carries
  phase,      \* how far its handler is
  answer,     \* status code and success of its response
  lock,       \* template_test_lock: its owner and those who wait, in order
  registry,   \* names loaded into the registry of each request
  pending,    \* tasks of a test not yet begun
  graded,     \* tasks of a test that have a result
  queued,     \* work waiting for a thread, as <<request, task>>
  running,    \* work on a thread; task 0 is the load of the templates
  connected   \* devices the connection manager of a request keeps open

workVars == <<pending, graded, queued, running, connected>>
vars == <<payload, phase, answer, lock, registry, workVars>>

NoAnswer == [code |-> 0, success |-> FALSE]
TaskOf(w) == payload[w[1]].job.tasks[w[2]]
Commands == {w \in running : w[2] # 0}
Engaged(r) == {w \in queued \cup running : w[1] = r}

Init ==
  /\ payload \in [Request -> UNION {Payload[r] : r \in Request}]
  /\ \A r \in Request : payload[r] \in Payload[r]
  /\ phase = [r \in Request |-> "new"]
  /\ answer = [r \in Request |-> NoAnswer]
  /\ lock = <<>>
  /\ registry = [r \in Request |-> {}]
  /\ pending = [r \in Request |-> {}]
  /\ graded = [r \in Request |-> {}]
  /\ queued = {} /\ running = {}
  /\ connected = [r \in Request |-> {}]

Respond(r, code, success) ==
  /\ phase' = [phase EXCEPT ![r] = "answered"]
  /\ answer' = [answer EXCEPT ![r] = [code |-> code, success |-> success]]

(* The request comes; initialize() asks an executor thread for the templates. *)
Arrive(r) ==
  /\ phase[r] = "new"
  /\ IF payload[r].large
       THEN Respond(r, 413, FALSE) /\ UNCHANGED queued
       ELSE /\ phase' = [phase EXCEPT ![r] = "loading"]
            /\ queued' = queued \cup {<<r, 0>>}
            /\ UNCHANGED answer
  /\ UNCHANGED <<payload, lock, registry, pending, graded, running, connected>>

(* Defect: a thread for everyone. *)
AnyThread == TRUE

(* The default ThreadPoolExecutor has so many threads. *)
ThreadFree == Cardinality(running) < Threads

(* A thread takes up waiting work; a task opens its device's connection. *)
ThreadTakes(w) ==
  /\ w \in queued
  /\ ThreadFree
  /\ queued' = queued \ {w}
  /\ running' = running \cup {w}
  /\ IF w[2] = 0
       THEN UNCHANGED connected
       ELSE connected' = [connected EXCEPT ![w[1]] = @ \cup {TaskOf(w).dev}]
  /\ UNCHANGED <<payload, phase, answer, lock, registry, pending, graded>>

(* The load is over: complete, short of what failed, or raised out of the
   handler in strict mode.  Then the request asks for the lock. *)
Loaded(r) ==
  /\ <<r, 0>> \in running
  /\ running' = running \ {<<r, 0>>}
  /\ \/ /\ \E names \in SUBSET Stored : registry' = [registry EXCEPT ![r] = names]
        /\ phase' = [phase EXCEPT ![r] = "waiting"]
        /\ lock' = Append(lock, r)
        /\ UNCHANGED answer
     \/ /\ Respond(r, 500, FALSE)
        /\ UNCHANGED <<registry, lock>>
  /\ UNCHANGED <<payload, pending, graded, queued, connected>>

Owns(r) == lock # <<>> /\ Head(lock) = r

(* Leaving the async with block. *)
Release == lock' = Tail(lock)

(* Defect: nobody compares the groups that tasks name with those declared. *)
ValidButGroups(p, names) ==
  /\ p.devices # {} /\ p.job.tasks # <<>>
  /\ Range(p.template) \subseteq Supported \cup names

(* validate_job_payload.  A payload without any group is not asked about the
   groups its tasks name, and no payload about the devices they name. *)
Valid(p, names) ==
  LET groups == p.job.groups
  IN  /\ p.devices # {} /\ p.job.tasks # <<>>
      /\ Range(p.template) \subseteq Supported \cup names
      /\ DOMAIN groups # {} =>
           /\ GroupsIn(p.job) = DOMAIN groups
           /\ \A g \in DOMAIN groups :
                groups[g].kind \in {"all_or_nothing", "proportional"} /\ groups[g].pts > 0

(* Tasks that process_grading_job runs: those of unknown groups are skipped. *)
ToGrade(j) == UNION {TasksIn(j, g) : g \in {NoGroup} \cup DOMAIN j.groups}

(* register_temporary_template_from_yaml refuses a broken draft, another one is
   known beside the templates loaded. *)
Accepted(r) == payload[r].draft # Broken
Known(r) == registry[r] \cup {payload[r].draft}

(* The lock is held: the draft is registered, the payload validated; all this
   without suspending.  The registry is the request's own, so that the draft
   is put back by the finally block shows to nobody; registry leaves it out. *)
Validate(r) ==
  LET p == payload[r]
  IN  /\ phase[r] = "waiting" /\ Owns(r)
      /\ \/ /\ ~Accepted(r)
            /\ \E code \in {400, 500} : Respond(r, code, FALSE)
            /\ Release
            /\ UNCHANGED pending
         \/ /\ Accepted(r)
            /\ ~Valid(p, Known(r)) \/ p.only
            /\ Respond(r, 200, Valid(p, Known(r)))
            /\ Release
            /\ UNCHANGED pending
         \/ /\ Accepted(r)
            /\ Valid(p, Known(r)) /\ ~p.only
            /\ phase' = [phase EXCEPT ![r] = "grading"]
            /\ pending' = [pending EXCEPT ![r] = ToGrade(p.job)]
            /\ UNCHANGED <<answer, lock>>
  /\ UNCHANGED <<payload, registry, graded, queued, running, connected>>

-----------------------------------------------------------------------------
(* Defect: a device is given its next task before the last one returned. *)
NeverBusy(r, d) == FALSE

(* A device coroutine runs its tasks one by one. *)
Busy(r, d) == \E w \in Engaged(r) : TaskOf(w).dev = d

(* A task begins: it waits for a thread, or errs for want of its device. *)
BeginTask(r, t) ==
  LET d == payload[r].job.tasks[t].dev
  IN  /\ phase[r] = "grading"
      /\ t \in pending[r]
      /\ ~Busy(r, d)
      /\ pending' = [pending EXCEPT ![r] = @ \ {t}]
      /\ IF d \in payload[r].devices
           THEN queued' = queued \cup {<<r, t>>} /\ UNCHANGED graded
           ELSE graded' = [graded EXCEPT ![r] = @ \cup {t}] /\ UNCHANGED queued
      /\ UNCHANGED <<payload, phase, answer, lock, registry, running, connected>>

(* The thread is done.  Nobody waits for it any more when the test is over. *)
ThreadEnds(w) ==
  /\ w \in Commands
  /\ running' = running \ {w}
  /\ graded' = IF phase[w[1]] = "grading"
                 THEN [graded EXCEPT ![w[1]] = @ \cup {w[2]}] ELSE graded
  /\ UNCHANGED <<payload, phase, answer, lock, registry, pending, queued, connected>>

(* A group that may not fail has failed: what is left is not run. *)
CancelledBy(r, g) ==
  /\ ~payload[r].job.groups[g].continue
  /\ TasksIn(payload[r].job, g) \cup TasksIn(payload[r].job, NoGroup) \subseteq graded[r]

(* Defect: the connections are left to the garbage collector. *)
KeepJobState(r) == UNCHANGED connected

(* _cleanup_job_state at the end of process_grading_job. *)
CleanupJobState(r) == connected' = [connected EXCEPT ![r] = {}]

(* process_grading_job returns: "completed", or "cancelled" by a group. *)
Graded(r) ==
  /\ phase[r] = "grading"
  /\ Engaged(r) = {}
  /\ \/ pending[r] = {} /\ Respond(r, 200, TRUE)
     \/ /\ \E g \in DOMAIN payload[r].job.groups : CancelledBy(r, g)
        /\ Respond(r, 200, FALSE)
  /\ pending' = [pending EXCEPT ![r] = {}]
  /\ CleanupJobState(r)
  /\ Release
  /\ UNCHANGED <<payload, registry, graded, queued, running>>

(* process_grading_job raises before its first task, out of the detection or the
   registration of the devices; a later exception is caught where it arises.
   Like a cancellation it does not get to the cleanup. *)
GradingRaises(r) ==
  /\ phase[r] = "grading"
  /\ graded[r] = {} /\ Engaged(r) = {}
  /\ Respond(r, 500, FALSE)
  /\ pending' = [pending EXCEPT ![r] = {}]
  /\ Release
  /\ UNCHANGED <<payload, registry, graded, queued, running, connected>>

(* Defect: a test that timed out is begun again. *)
TimesOutRetried(r) ==
  /\ phase[r] = "grading"
  /\ pending' = [pending EXCEPT ![r] = ToGrade(payload[r].job)]
  /\ queued' = {w \in queued : w[1] # r}
  /\ UNCHANGED <<payload, phase, answer, registry, lock, graded, running, connected>>

(* wait_for cancels process_grading_job, which does not get to its cleanup. *)
TimesOut(r) ==
  /\ phase[r] = "grading"
  /\ Respond(r, 504, FALSE)
  /\ pending' = [pending EXCEPT ![r] = {}]
  /\ queued' = {w \in queued : w[1] # r}
  /\ Release
  /\ UNCHANGED <<payload, registry, graded, running, connected>>

Answered(r) == phase[r] = "answered"
Over == (\A r \in Request : Answered(r)) /\ running = {} /\ UNCHANGED vars

Work == Request \X Nat
Handle(r) ==
  \/ Loaded(r) \/ Validate(r) \/ Graded(r) \/ GradingRaises(r) \/ TimesOut(r)
  \/ \E t \in pending[r] : BeginTask(r, t)

Next ==
  \/ \E r \in Request : Arrive(r) \/ Handle(r)
  \/ \E w \in queued : ThreadTakes(w)
  \/ \E w \in running : ThreadEnds(w)
  \/ Over

Spec == Init /\ [][Next]_vars

(* Threads take up work and, reading with timeouts, come to an end; the event
   loop runs every handler.  The timeout of a test is a clock, it does fire. *)
FairSpec ==
  /\ Spec
  /\ \A r \in Request : WF_vars(Handle(r))
  /\ WF_vars(\E w \in queued : ThreadTakes(w))
  /\ WF_vars(\E w \in running : ThreadEnds(w))

-----------------------------------------------------------------------------
TypeOK ==
  /\ \A r \in Request : payload[r] \in Payload[r]
  /\ phase \in [Request -> {"new", "loading", "waiting", "grading", "answered"}]
  /\ answer \in [Request -> [code : {0, 200, 400, 413, 500, 504}, success : BOOLEAN]]
  /\ lock \in Seq(Request) /\ \A i, k \in DOMAIN lock : lock[i] = lock[k] => i = k
  /\ registry \in [Request -> SUBSET Stored]
  /\ \A r \in Request : pending[r] \cup graded[r] \subseteq TaskIds(payload[r].job)
  /\ queued \cap running = {} /\ Cardinality(running) <= Threads
  /\ \A w \in queued \cup running :
       w[1] \in Request /\ w[2] \in {0} \cup TaskIds(payload[w[1]].job)
  /\ connected \in [Request -> SUBSET Device]

TimedOut(r) == answer[r].code = 504

(* Two commands meet on a device only when a test timed out: the lock keeps
   the tests apart, a test keeps its tasks on a device apart, and only threads
   that nobody waits for any more escape both. *)
OnlyOrphansIntrude ==
  \A v, w \in Commands :
    v # w /\ TaskOf(v).dev = TaskOf(w).dev => TimedOut(v[1]) \/ TimedOut(w[1])

(* What a request leaves behind when it is answered: no connection, no work
   in the executor; after a timeout no work waiting, but its connections and
   the commands that were running on threads. *)
OnlyTimeoutsLeak ==
  \A r \in Request : Answered(r) =>
    /\ \A w \in queued : w[1] # r
    /\ ~TimedOut(r) => Engaged(r) = {} /\ connected[r] = {}

(* A test that reports success graded every task of its payload, if the
   payload has groups at all; without any, tasks that name one are accepted
   and never run. *)
SuccessIsComplete ==
  \A r \in Request :
    answer[r].success /\ ~payload[r].only /\ DOMAIN payload[r].job.groups # {}
    => graded[r] = TaskIds(payload[r].job)

(* Every request is answered, also when earlier tests timed out and their
   commands hold the threads for a while. *)
EveryRequestAnswered == \A r \in Request : phase[r] = "loading" ~> Answered(r)
=============================================================================
