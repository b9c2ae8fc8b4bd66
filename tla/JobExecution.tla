---------------------------- MODULE JobExecution ----------------------------
(***************************************************************************)
(* One call of SimpleGradingService.process_grading_job: the tasks of a    *)
(* job are split into the ungrouped batch and one batch per task group;    *)
(* the tasks of a batch run in one coroutine per device, the coroutines    *)
(* share a semaphore; a group is scored once its batch is gathered; a      *)
(* failing group may cancel the rest of the job, after its rescue tasks;   *)
(* the cleanup tasks of a scored group always follow.                      *)
(*                                                                         *)
(* The event loop runs one coroutine at a time, so everything between two  *)
(* awaits is one action.  The commands of a task run in executor threads:  *)
(* they are in flight between a Start and an End action, and they outlive  *)
(* the coroutine when the job is cancelled from outside.                   *)
(***************************************************************************)
EXTENDS GradingJobs

CONSTANT MaxParallel   \* config.MAX_PARALLEL_TASKS

(* config.py takes max(1, ...) of the environment's value. *)
ASSUME MaxParallelAssumption == MaxParallel \in Nat \ {0}

VARIABLES
  job,                    \* the grading job, never changed
  pc,                     \* where process_grading_job is
  pending,                \* groups the loop over grouped_tasks has yet to visit
  batch,                  \* group_id of the batch being run (NoGroup: ungrouped)
  co,                     \* state of each device coroutine of the batch
  current,                \* the task a device coroutine is at
  remaining,              \* the tasks a device coroutine still has after it
  permits,                \* value of the batch's semaphore
  task_index,             \* the shared progress counter
  slot,                   \* the progress slot each task claimed
  busy,                   \* commands in flight per device, in executor threads
  batch_results,          \* device_results of all coroutines of the batch
  test_results,           \* results of the batches gathered so far
  group_results,          \* GroupResult per group
  total_points_possible,
  total_points_earned,
  execution_cancelled,
  aux,                    \* rescue or cleanup tasks left, the first one current
  aux_running,            \* the first of them is executing
  delivered               \* whether the backend got the final result

coVars == <<co, current, remaining, permits>>
slotVars == <<task_index, slot>>
scoreVars == <<test_results, group_results, total_points_possible,
               total_points_earned, execution_cancelled>>
auxVars == <<aux, aux_running>>
vars == <<job, pc, pending, batch, coVars, slotVars, busy, batch_results,
          scoreVars, auxVars, delivered>>

TaskId == TaskIds(job)
TasksOf(g) == TasksIn(job, g)
GroupsNamed == GroupsIn(job)
TasksOn(g, d) == {t \in TasksOf(g) : job.tasks[t].dev = d}
Outcome(t) == Outcomes(t, job.tasks[t].pts)
PointsOf(ts) == MapThenSumSet(LAMBDA t : job.tasks[t].pts, ts)

Unclaimed == -1
(* Defect: the tasks of a device are taken in no order. *)
AnyOf(t, S) == t \in S

(* A device's tasks are run in the order of the job. *)
Least(t, S) == t \in S /\ \A u \in S : t <= u

Init ==
  /\ job \in Jobs
  /\ pc = "accepted"
  /\ pending = GroupsNamed
  /\ batch = NoGroup
  /\ co = [d \in Device |-> "idle"]
  /\ current = [d \in Device |-> 0]
  /\ remaining = [d \in Device |-> {}]
  /\ permits = MaxParallel
  /\ task_index = 0
  /\ slot = [t \in TaskId |-> Unclaimed]
  /\ busy = [d \in Device |-> 0]
  /\ batch_results = {}
  /\ test_results = {}
  /\ group_results = [g \in GroupId |-> NoResult]
  /\ total_points_possible = 0
  /\ total_points_earned = 0
  /\ execution_cancelled = FALSE
  /\ aux = <<>>
  /\ aux_running = FALSE
  /\ delivered = FALSE

-----------------------------------------------------------------------------
(* Notify the backend, detect platforms, register the devices. *)
Prepare ==
  /\ pc = "accepted"
  /\ pc' = "ungrouped"
  /\ UNCHANGED <<job, pending, batch, coVars, slotVars, busy, batch_results,
                 scoreVars, auxVars, delivered>>

(* _run_tasks_parallel up to its gather: one coroutine per device that has a
   task in the batch, and a fresh semaphore. *)
OpenBatch(g) ==
  /\ pc' = "batch"
  /\ batch' = g
  /\ co' = [d \in Device |-> IF TasksOn(g, d) = {} THEN "idle" ELSE "waiting"]
  /\ current' = [d \in Device |-> 0]
  /\ remaining' = [d \in Device |-> TasksOn(g, d)]
  /\ permits' = MaxParallel
  /\ batch_results' = {}
  /\ UNCHANGED <<job, slotVars, busy, scoreVars, auxVars, delivered>>

RunUngrouped ==
  /\ pc = "ungrouped"
  /\ TasksOf(NoGroup) # {}
  /\ OpenBatch(NoGroup)
  /\ UNCHANGED pending

(* Defect: the ungrouped tasks are passed over. *)
SkipUngrouped ==
  /\ pc = "ungrouped"
  /\ pc' = "groups"
  /\ UNCHANGED <<job, pending, batch, coVars, slotVars, busy, batch_results,
                 scoreVars, auxVars, delivered>>

NoUngrouped ==
  /\ pc = "ungrouped"
  /\ TasksOf(NoGroup) = {}
  /\ pc' = "groups"
  /\ UNCHANGED <<job, pending, batch, coVars, slotVars, busy, batch_results,
                 scoreVars, auxVars, delivered>>

(* Defect: the loop goes on after a group cancelled the job. *)
NextGroupRegardless(g) ==
  /\ pc = "groups"
  /\ g \in pending
  /\ \A h \in pending : VisitedBefore(job, g, h)
  /\ pending' = pending \ {g}

(* The groups are visited in the order their first tasks have in the job. *)
NextGroup(g) ==
  /\ pc = "groups"
  /\ ~execution_cancelled
  /\ g \in pending
  /\ \A h \in pending : VisitedBefore(job, g, h)
  /\ pending' = pending \ {g}

RunGroup(g) ==
  /\ NextGroup(g)
  /\ g \in DOMAIN job.groups
  /\ OpenBatch(g)

(* Defect: an unknown group ends the loop. *)
StopAtUnknownGroup(g) ==
  /\ NextGroup(g)
  /\ g \notin DOMAIN job.groups
  /\ pc' = "report"
  /\ UNCHANGED <<job, batch, coVars, slotVars, busy, batch_results,
                 scoreVars, auxVars, delivered>>

(* "Group configuration not found": its tasks are neither run nor scored. *)
SkipUnknownGroup(g) ==
  /\ NextGroup(g)
  /\ g \notin DOMAIN job.groups
  /\ UNCHANGED <<job, pc, batch, coVars, slotVars, busy, batch_results,
                 scoreVars, auxVars, delivered>>

GroupsDone ==
  /\ pc = "groups"
  /\ execution_cancelled \/ pending = {}
  /\ pc' = "report"
  /\ UNCHANGED <<job, pending, batch, coVars, slotVars, busy, batch_results,
                 scoreVars, auxVars, delivered>>

-----------------------------------------------------------------------------
(* Defect: the counter is read and written without its lock. *)
ClaimUnlocked(d, t) ==
  /\ co' = [co EXCEPT ![d] = "claimed"]
  /\ current' = [current EXCEPT ![d] = t]
  /\ remaining' = [remaining EXCEPT ![d] = @ \ {t}]
  /\ slot' = [slot EXCEPT ![t] = task_index]
  /\ task_index' \in {task_index, task_index + 1}

(* The coroutine of device d moves on to task t: it claims a progress slot
   under counter_lock, which is never held across an await. *)
Claim(d, t) ==
  /\ co' = [co EXCEPT ![d] = "claimed"]
  /\ current' = [current EXCEPT ![d] = t]
  /\ remaining' = [remaining EXCEPT ![d] = @ \ {t}]
  /\ slot' = [slot EXCEPT ![t] = task_index]
  /\ task_index' = task_index + 1

(* Defect: coroutines do not wait for a permit. *)
AcquireAtOnce(d, t) ==
  /\ pc = "batch"
  /\ co[d] = "waiting"
  /\ Least(t, remaining[d])
  /\ permits' = permits - 1
  /\ Claim(d, t)
  /\ UNCHANGED <<job, pc, pending, batch, busy, batch_results, scoreVars,
                 auxVars, delivered>>

(* Coroutines start in the order of device_groups and the semaphore wakes its
   waiters first in, first out. *)
Acquire(d, t) ==
  /\ pc = "batch"
  /\ co[d] = "waiting"
  /\ permits > 0
  /\ Least(t, remaining[d])
  /\ \A e \in Device : co[e] = "waiting" => \E u \in remaining[e] : t <= u /\ Least(u, remaining[e])
  /\ permits' = permits - 1
  /\ Claim(d, t)
  /\ UNCHANGED <<job, pc, pending, batch, busy, batch_results, scoreVars,
                 auxVars, delivered>>

(* The progress update is posted, then execute_task hands the device
   commands to an executor thread. *)
StartTask(d) ==
  /\ pc = "batch"
  /\ co[d] = "claimed"
  /\ co' = [co EXCEPT ![d] = "executing"]
  /\ busy' = [busy EXCEPT ![d] = @ + 1]
  /\ UNCHANGED <<job, pc, pending, batch, current, remaining, permits, slotVars,
                 batch_results, scoreVars, auxVars, delivered>>

(* Defect: the permit is given back after every task, not after the last. *)
RecordReleasing(d, r) ==
  /\ batch_results' = batch_results \cup {r}
  /\ permits' = permits + 1
  /\ \/ /\ remaining[d] = {}
        /\ co' = [co EXCEPT ![d] = "finished"]
        /\ UNCHANGED <<current, remaining, slotVars>>
     \/ \E t \in remaining[d] : Least(t, remaining[d]) /\ Claim(d, t)

(* Defect: the permit is not given back. *)
RecordKeeping(d, r) ==
  /\ batch_results' = batch_results \cup {r}
  /\ UNCHANGED permits
  /\ \/ /\ remaining[d] = {}
        /\ co' = [co EXCEPT ![d] = "finished"]
        /\ UNCHANGED <<current, remaining, slotVars>>
     \/ \E t \in remaining[d] : Least(t, remaining[d]) /\ Claim(d, t)

(* A result is appended; the coroutine claims its next task without an await
   in between, or leaves the semaphore. *)
Record(d, r) ==
  /\ batch_results' = batch_results \cup {r}
  /\ \/ /\ remaining[d] = {}
        /\ co' = [co EXCEPT ![d] = "finished"]
        /\ permits' = permits + 1
        /\ UNCHANGED <<current, remaining, slotVars>>
     \/ /\ \E t \in remaining[d] : Least(t, remaining[d]) /\ Claim(d, t)
        /\ UNCHANGED permits

(* The commands are done and execute_task returns or raises. *)
EndTask(d) ==
  /\ pc = "batch"
  /\ co[d] = "executing"
  /\ busy' = [busy EXCEPT ![d] = @ - 1]
  /\ \E r \in Outcome(current[d]) : Record(d, r)
  /\ UNCHANGED <<job, pc, pending, batch, scoreVars, auxVars, delivered>>

(* The task raises before any command is issued (an invalid service name). *)
RaiseTask(d) ==
  /\ pc = "batch"
  /\ co[d] = "claimed"
  /\ Record(d, ErrorResult(current[d]))
  /\ UNCHANGED <<job, pc, pending, batch, busy, scoreVars, auxVars, delivered>>

-----------------------------------------------------------------------------
(* Defect: the first coroutine to finish ends the wait for the batch. *)
GatheredFirst == pc = "batch" /\ \E d \in Device : co[d] = "finished"

(* gather returns when every coroutine of the batch has. *)
Gathered == pc = "batch" /\ \A d \in Device : co[d] \in {"idle", "finished"}

(* Defect: only what was earned counts as possible. *)
GatherPassed ==
  /\ Gathered
  /\ batch = NoGroup
  /\ test_results' = test_results \cup batch_results
  /\ total_points_possible' = total_points_possible + EarnedIn(Passed(batch_results))
  /\ total_points_earned' = total_points_earned + EarnedIn(batch_results)
  /\ pc' = "groups"
  /\ UNCHANGED <<job, pending, batch, coVars, slotVars, busy, batch_results,
                 group_results, execution_cancelled, auxVars, delivered>>

GatherUngrouped ==
  /\ Gathered
  /\ batch = NoGroup
  /\ test_results' = test_results \cup batch_results
  /\ total_points_possible' = total_points_possible + PointsOf(TasksOf(NoGroup))
  /\ total_points_earned' = total_points_earned + EarnedIn(batch_results)
  /\ pc' = "groups"
  /\ UNCHANGED <<job, pending, batch, coVars, slotVars, busy, batch_results,
                 group_results, execution_cancelled, auxVars, delivered>>

(* The group is scored and, without an await in between, the fate of the job
   and of the group's rescue and cleanup tasks is decided. *)
GatherGroup ==
  /\ Gathered
  /\ batch \in GroupId
  /\ LET c == job.groups[batch]
         gr == Evaluate(c, batch_results)
         stop == gr.status = "failed" /\ ~c.continue
     IN  /\ group_results' = [group_results EXCEPT ![batch] = gr]
         /\ total_points_possible' = total_points_possible + c.pts
         /\ total_points_earned' = total_points_earned + gr.earned
         /\ execution_cancelled' = stop
         /\ \/ /\ stop /\ c.rescue # <<>>
               /\ pc' = "rescue" /\ aux' = c.rescue
            \/ /\ ~(stop /\ c.rescue # <<>>) /\ c.cleanup # <<>>
               /\ pc' = "cleanup" /\ aux' = c.cleanup
            \/ /\ ~(stop /\ c.rescue # <<>>) /\ c.cleanup = <<>>
               /\ pc' = "groups" /\ aux' = <<>>
  /\ test_results' = test_results \cup batch_results
  /\ UNCHANGED <<job, pending, batch, coVars, slotVars, busy, batch_results,
                 aux_running, delivered>>

(* _execute_rescue_tasks and _execute_cleanup_tasks: one task at a time, its
   exceptions swallowed, its result ignored. *)
StartAux ==
  /\ pc \in {"rescue", "cleanup"}
  /\ ~aux_running
  /\ aux_running' = TRUE
  /\ busy' = [busy EXCEPT ![Head(aux)] = @ + 1]
  /\ UNCHANGED <<job, pc, pending, batch, coVars, slotVars, batch_results,
                 scoreVars, aux, delivered>>

(* Defect: a rescued group is not cleaned up. *)
RescueIsAll(cleanup) == "groups"

AfterRescue(cleanup) == IF cleanup = <<>> THEN "groups" ELSE "cleanup"

EndAux ==
  /\ pc \in {"rescue", "cleanup"}
  /\ aux_running
  /\ aux_running' = FALSE
  /\ busy' = [busy EXCEPT ![Head(aux)] = @ - 1]
  /\ LET cleanup == job.groups[batch].cleanup
     IN  \/ /\ Len(aux) > 1
            /\ aux' = Tail(aux)
            /\ UNCHANGED <<pc, group_results>>
         \/ /\ Len(aux) = 1 /\ pc = "rescue"
            /\ group_results' = [group_results EXCEPT ![batch].rescued = TRUE]
            /\ aux' = cleanup
            /\ pc' = AfterRescue(cleanup)
         \/ /\ Len(aux) = 1 /\ pc = "cleanup"
            /\ group_results' = [group_results EXCEPT ![batch].cleaned = TRUE]
            /\ aux' = <<>>
            /\ pc' = "groups"
  /\ UNCHANGED <<job, pending, batch, coVars, slotVars, batch_results,
                 test_results, total_points_possible, total_points_earned,
                 execution_cancelled, delivered>>

(* The last progress update and the final result; send_final_result gives up
   after its retries and its answer is ignored. *)
Report ==
  /\ pc = "report"
  /\ delivered' \in BOOLEAN
  /\ pc' = "returned"
  /\ UNCHANGED <<job, pending, batch, coVars, slotVars, busy, batch_results,
                 scoreVars, auxVars>>

-----------------------------------------------------------------------------
(* The coroutine is cancelled at an await: a template test ran into its
   wait_for timeout, or the application shuts down.  gather cancels its
   children; nobody can cancel the executor threads. *)
Abort ==
  /\ pc \notin {"returned", "aborted"}
  /\ pc' = "aborted"
  /\ co' = [d \in Device |-> "idle"]
  /\ aux_running' = FALSE
  /\ UNCHANGED <<job, pending, batch, current, remaining, permits, slotVars,
                 busy, batch_results, scoreVars, aux, delivered>>

(* A thread that outlived its coroutine finishes; nobody reads its result. *)
OrphanEnds(d) ==
  /\ pc = "aborted"
  /\ busy[d] > 0
  /\ busy' = [busy EXCEPT ![d] = @ - 1]
  /\ UNCHANGED <<job, pc, pending, batch, coVars, slotVars, batch_results,
                 scoreVars, auxVars, delivered>>

Ended == pc \in {"returned", "aborted"} /\ \A d \in Device : busy[d] = 0

(* The job is over: the coroutine does nothing more. *)
Over == Ended /\ UNCHANGED vars

Main ==
  \/ Prepare \/ RunUngrouped \/ NoUngrouped \/ GroupsDone
  \/ (\E g \in GroupId : RunGroup(g) \/ SkipUnknownGroup(g))
  \/ GatherUngrouped \/ GatherGroup \/ StartAux \/ EndAux \/ Report

Worker(d) ==
  \/ (\E t \in TaskId : Acquire(d, t))
  \/ StartTask(d) \/ EndTask(d) \/ RaiseTask(d) \/ OrphanEnds(d)

Next == Main \/ (\E d \in Device : Worker(d)) \/ Abort \/ Over

Spec == Init /\ [][Next]_vars

(* The event loop runs every ready coroutine, and every device command ends:
   the commands carry read timeouts. *)
Fairness == WF_vars(Main) /\ \A d \in Device : WF_vars(Worker(d))

FairSpec == Spec /\ Fairness
-----------------------------------------------------------------------------
(* Type invariant.  The two totals are sums and have their type from the
   Accounting invariant. *)
CoState == {"idle", "waiting", "claimed", "executing", "finished"}

TypeOK ==
  /\ job \in Jobs
  /\ pc \in {"accepted", "ungrouped", "groups", "batch", "rescue", "cleanup",
             "report", "returned", "aborted"}
  /\ pending \subseteq GroupsNamed
  /\ batch \in GroupId \cup {NoGroup}
  /\ co \in [Device -> CoState]
  /\ current \in [Device -> TaskId \cup {0}]
  /\ remaining \in [Device -> SUBSET TaskId]
  /\ permits \in 0 .. MaxParallel
  /\ task_index \in Nat
  /\ slot \in [TaskId -> Nat \cup {Unclaimed}]
  /\ busy \in [Device -> Int]
  /\ batch_results \subseteq TestResult(job)
  /\ test_results \subseteq TestResult(job)
  /\ DOMAIN group_results = GroupId
  /\ execution_cancelled \in BOOLEAN
  /\ aux \in Seq(Device)
  /\ aux_running \in BOOLEAN
  /\ delivered \in BOOLEAN

(* "Tasks on the same device run sequentially - the Netmiko connection is not
   thread-safe": no device ever has two commands of the job in flight, over
   the batches, the rescue and the cleanup tasks, and after a cancellation. *)
DeviceExclusive == \A d \in Device : busy[d] \in 0 .. 1

(* Tasks on different devices run in parallel, bounded by MAX_PARALLEL_TASKS,
   also when some coroutines finish and others take their permits. *)
ParallelBound == Cardinality({d \in Device : busy[d] > 0}) <= MaxParallel

(* counter_lock: each task claims a progress slot of its own, over all batches
   of the job, and no update ever counts past the total. *)
SlotsUnique ==
  \A t \in TaskId : slot[t] # Unclaimed =>
    /\ slot[t] < Len(job.tasks)
    /\ \A u \in TaskId \ {t} : slot[u] # slot[t]

HasResult(t, rs) == \E r \in rs : r.task = t

(* "Sequential ordering ensures state built up by one task is visible to the
   next": when a task has begun, every earlier task of its batch on the same
   device has its result. *)
SameDeviceOrder ==
  \A t, u \in TaskId :
    (/\ t < u /\ slot[u] # Unclaimed
     /\ job.tasks[t].grp = job.tasks[u].grp
     /\ job.tasks[t].dev = job.tasks[u].dev)
    => HasResult(t, batch_results \cup test_results)

Known(t) == job.tasks[t].grp \in DOMAIN job.groups \cup {NoGroup}

(* Ungrouped tasks come first, then the groups by their first task. *)
EarlierBatch(g, h) ==
  \/ g = NoGroup /\ h # NoGroup
  \/ g # NoGroup /\ h # NoGroup /\ ~VisitedBefore(job, h, g)

(* A batch is a barrier: when a task has begun, every task of every earlier
   batch that is run at all has been gathered. *)
BatchBarrier ==
  \A t, u \in TaskId :
    (/\ slot[u] # Unclaimed /\ Known(t)
     /\ EarlierBatch(job.tasks[t].grp, job.tasks[u].grp))
    => HasResult(t, test_results)

Scored == {g \in GroupId : group_results[g].status # "none"}

ResultsIn(g) == {r \in test_results : job.tasks[r.task].grp = g}

(* The running totals are what the gathered results and the scored groups add
   up to, whatever order they came in, and never exceed what was possible. *)
Accounting ==
  /\ total_points_possible =
       PointsOf({t \in TasksOf(NoGroup) : HasResult(t, test_results)})
       + MapThenSumSet(LAMBDA g : job.groups[g].pts, Scored)
  /\ total_points_earned =
       EarnedIn(ResultsIn(NoGroup))
       + MapThenSumSet(LAMBDA g : group_results[g].earned, Scored)
  /\ total_points_earned \in 0 .. total_points_possible

(* A group passes, and earns all its points, exactly when every one of its
   tasks passed; it earns nothing when none did; an all-or-nothing group earns
   nothing unless it passes. *)
GroupVerdict ==
  \A g \in Scored :
    LET c == job.groups[g]
        gr == group_results[g]
        allPassed == \A t \in TasksOf(g) : HasResult(t, Passed(ResultsIn(g)))
    IN  c.kind \in {"all_or_nothing", "proportional"} =>
          /\ (gr.status = "passed") <=> allPassed
          /\ allPassed => gr.earned = c.pts
          /\ Passed(ResultsIn(g)) = {} => gr.earned = 0 /\ gr.status = "failed"
          /\ c.kind = "all_or_nothing" /\ ~allPassed => gr.earned = 0

(* The loop over the groups has done with every group that is scored. *)
Settled == pc \in {"groups", "batch", "report", "returned"}

Stops(g) == group_results[g].status = "failed" /\ ~job.groups[g].continue

(* Cleanup tasks of a scored group, whatever its verdict, are over before
   anything else of the job goes on.  Of a group that cancels the job, and of
   no other, the rescue tasks are over too, and before the cleanup. *)
CleanupBeforeNext ==
  \A g \in Scored :
    LET c == job.groups[g]
        gr == group_results[g]
    IN  /\ Settled /\ c.cleanup # <<>> => gr.cleaned
        /\ (Settled \/ gr.cleaned) /\ Stops(g) /\ c.rescue # <<>> => gr.rescued
        /\ gr.rescued => Stops(g) /\ execution_cancelled

(* models.py:68 "Tasks to run when group fails": the rescue tasks of a failed
   group, whether it cancels the job or not, run before the job goes on. *)
RescueWhenGroupFails ==
  \A g \in Scored :
    Settled /\ group_results[g].status = "failed" /\ job.groups[g].rescue # <<>>
    => group_results[g].rescued

(* Seen from its results, a job is graded batch by batch: the interleaving of
   the device coroutines, the rescue and the cleanup tasks do not show. *)
Contract == INSTANCE GradingContract WITH
  graded <- test_results,
  verdict <- [g \in GroupId |-> [status |-> group_results[g].status,
                                 earned |-> group_results[g].earned]],
  state <- IF pc \in {"returned", "aborted"} THEN pc ELSE "running"

RefinesContract == Contract!Spec

(* Every job comes to an end, with no command left in flight. *)
Terminates == <>Ended

=============================================================================
