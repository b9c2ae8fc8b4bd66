------------------------- MODULE JobExecutionProofs -------------------------
(***************************************************************************)
(* Theorems about JobExecution, for any devices, groups, jobs and          *)
(* parallelism.                                                            *)
(***************************************************************************)
EXTENDS JobExecution, FiniteSetTheorems, TLAPS

(* A job of the assumption has tasks of the declared type. *)
LEMMA TaskType ==
  ASSUME job \in Jobs, NEW t \in TaskId
  PROVE  job.tasks[t] \in Task
<1>1. job.tasks \in Seq(Task)
  BY JobsAssumption DEF JobsAssumption, IsGradingJob
<1>2. QED
  BY <1>1 DEF TaskId, TaskIds

(* What execute_task returns for a task of the job is a TestResult of it. *)
LEMMA OutcomeType ==
  ASSUME job \in Jobs, NEW t \in TaskId
  PROVE  Outcome(t) \subseteq TestResult(job) /\ ErrorResult(t) \in TestResult(job)
<1>1. job.tasks[t].pts \in Nat
  BY TaskType DEF Task
<1>2. QED
  BY <1>1 DEF Outcome, Outcomes, TestResult, ErrorResult, Status, TaskId

-----------------------------------------------------------------------------
(* The inductive invariant.                                                *)

(* Where the coroutine of the job stands and what it holds there. *)
Control ==
  /\ pc = "batch" => batch \in DOMAIN job.groups \cup {NoGroup}
  /\ pc \in {"rescue", "cleanup"} => batch \in DOMAIN job.groups /\ aux # <<>>
  /\ pc \notin {"rescue", "cleanup"} => ~aux_running

(* A coroutine at work is at a task, and keeps to the batch and its device. *)
Workers ==
  pc = "batch" =>
    \A d \in Device :
      /\ co[d] \in {"claimed", "executing"} => current[d] \in TaskId
      /\ remaining[d] \subseteq TasksOn(batch, d)

(* The commands in flight are those of the coroutines that wait for them. *)
Commands ==
  /\ pc = "batch" =>
       \A d \in Device : busy[d] = IF co[d] = "executing" THEN 1 ELSE 0
  /\ pc \in {"rescue", "cleanup"} =>
       \A d \in Device : busy[d] = IF aux_running /\ d = Head(aux) THEN 1 ELSE 0
  /\ pc = "aborted" => DeviceExclusive
  /\ pc \in {"accepted", "ungrouped", "groups", "report", "returned"} =>
       \A d \in Device : busy[d] = 0

(* Every coroutine that claimed a task holds one permit. *)
Holders == {d \in Device : co[d] \in {"claimed", "executing"}}
Permits == pc = "batch" => permits + Cardinality(Holders) = MaxParallel

(* Slots are handed out one after the other, to tasks that had none. *)
Claimed == {t \in TaskId : slot[t] # Unclaimed}
Slots ==
  /\ \A t \in Claimed : slot[t] < task_index
  /\ \A t, u \in Claimed : slot[t] = slot[u] => t = u
  /\ task_index = Cardinality(Claimed)
  /\ \A g \in pending : TasksOf(g) \cap Claimed = {}
  /\ pc \in {"accepted", "ungrouped"} => Claimed = {}
  /\ pc = "batch" => batch \notin pending
  /\ pc = "batch" => \A d \in Device : remaining[d] \cap Claimed = {}

IInv == TypeOK /\ Control /\ Workers /\ Commands /\ Permits /\ ParallelBound /\ Slots

-----------------------------------------------------------------------------
(* Finite sets. *)

LEMMA DevicesFinite ==
  ASSUME NEW S \in SUBSET Device
  PROVE  IsFiniteSet(S) /\ Cardinality(S) \in Nat
BY JobsAssumption, FS_Subset, FS_CardinalityType DEF JobsAssumption

LEMMA TasksFinite ==
  ASSUME job \in Jobs, NEW S \in SUBSET TaskId
  PROVE  IsFiniteSet(S) /\ Cardinality(S) \in 0 .. Len(job.tasks)
<1>1. Len(job.tasks) \in Nat
  BY JobsAssumption DEF JobsAssumption, IsGradingJob
<1>2. IsFiniteSet(TaskId) /\ Cardinality(TaskId) = Len(job.tasks)
  BY <1>1, FS_Interval DEF TaskId, TaskIds
<1>3. QED
  BY <1>1, <1>2, FS_Subset, FS_CardinalityType

(* Devices with a command in flight, as b counts them, are at most as many as
   any set S that has them all. *)
LEMMA BoundedBy ==
  ASSUME NEW b, NEW S \in SUBSET Device, {d \in Device : b[d] > 0} \subseteq S,
         Cardinality(S) <= MaxParallel
  PROVE  Cardinality({d \in Device : b[d] > 0}) <= MaxParallel
<1>1. IsFiniteSet(S) /\ Cardinality(S) \in Nat
  BY DevicesFinite
<1>2. Cardinality({d \in Device : b[d] > 0}) \in Nat
  BY DevicesFinite
<1>3. Cardinality({d \in Device : b[d] > 0}) <= Cardinality(S)
  BY <1>1, FS_Subset
<1>4. QED
  BY <1>1, <1>2, <1>3, MaxParallelAssumption DEF MaxParallelAssumption

(* Nothing in flight is within every bound. *)
LEMMA BoundedWhenIdle ==
  ASSUME NEW b, \A d \in Device : b[d] = 0
  PROVE  Cardinality({d \in Device : b[d] > 0}) <= MaxParallel
<1>1. {d \in Device : b[d] > 0} = {}
  OBVIOUS
<1>2. QED
  BY <1>1, FS_EmptySet, MaxParallelAssumption DEF MaxParallelAssumption

(* In a batch the devices in flight hold a permit each. *)
LEMMA BoundedInBatch ==
  ASSUME NEW b, NEW H \in SUBSET Device, NEW p \in Nat,
         \A d \in Device : b[d] > 0 => d \in H,
         p + Cardinality(H) = MaxParallel
  PROVE  Cardinality({d \in Device : b[d] > 0}) <= MaxParallel
<1>1. Cardinality(H) \in Nat
  BY DevicesFinite
<1>2. Cardinality(H) <= MaxParallel
  BY <1>1
<1>3. QED
  BY <1>2, BoundedBy

-----------------------------------------------------------------------------
LEMMA InitInv == Init => IInv
<1> SUFFICES ASSUME Init PROVE IInv
  OBVIOUS
<1>1. TypeOK
  <2>1. permits \in 0 .. MaxParallel
    BY MaxParallelAssumption DEF Init, MaxParallelAssumption
  <2>2. aux \in Seq(Device)
    BY DEF Init
  <2>3. DOMAIN group_results = GroupId
    BY DEF Init
  <2>4. slot \in [TaskId -> Nat \cup {Unclaimed}] /\ task_index \in Nat
    BY DEF Init
  <2>5. /\ co \in [Device -> CoState]
        /\ current \in [Device -> TaskId \cup {0}]
        /\ remaining \in [Device -> SUBSET TaskId]
        /\ busy \in [Device -> Int]
    BY DEF Init, CoState
  <2>6. /\ job \in Jobs
        /\ pc \in {"accepted", "ungrouped", "groups", "batch", "rescue",
                   "cleanup", "report", "returned", "aborted"}
        /\ pending \subseteq GroupsNamed
        /\ batch \in GroupId \cup {NoGroup}
    BY DEF Init
  <2>7. /\ batch_results \subseteq TestResult(job)
        /\ test_results \subseteq TestResult(job)
        /\ execution_cancelled \in BOOLEAN
        /\ aux_running \in BOOLEAN
        /\ delivered \in BOOLEAN
    BY DEF Init
  <2>8. QED
    BY <2>1, <2>2, <2>3, <2>4, <2>5, <2>6, <2>7 DEF TypeOK
<1>2. Claimed = {}
  BY DEF Init, Claimed
<1>3. Slots
  BY <1>2, FS_EmptySet DEF Init, Slots
<1>4. ParallelBound
  BY BoundedWhenIdle DEF Init, ParallelBound
<1>5. Control /\ Workers /\ Commands /\ Permits
  BY DEF Init, Control, Workers, Commands, Permits
<1>6. QED
  BY <1>1, <1>3, <1>4, <1>5 DEF IInv

-----------------------------------------------------------------------------
(* What the steps have in common.                                          *)

(* No step changes the job, nor what is read off it. *)
LEMMA SameJob ==
  ASSUME job' = job
  PROVE  /\ TaskId' = TaskId
         /\ GroupsNamed' = GroupsNamed
         /\ \A g : TasksOf(g)' = TasksOf(g)
         /\ \A g, d : TasksOn(g, d)' = TasksOn(g, d)
BY DEF TaskId, GroupsNamed, TasksOf, TasksOn

(* No device ever has two commands in flight. *)
LEMMA Exclusive ==
  ASSUME TypeOK, Commands
  PROVE  DeviceExclusive
<1>1. CASE pc = "batch"
  BY <1>1 DEF Commands, DeviceExclusive
<1>2. CASE pc \in {"rescue", "cleanup"}
  BY <1>2 DEF Commands, DeviceExclusive
<1>3. CASE pc \notin {"batch", "rescue", "cleanup"}
  BY <1>3 DEF TypeOK, Commands, DeviceExclusive
<1>4. QED
  BY <1>1, <1>2, <1>3

(* The slots are as they were, in a step that claims none. *)
LEMMA SlotsKept ==
  ASSUME Slots, UNCHANGED <<job, slotVars>>, pending' \subseteq pending,
         pc' \in {"accepted", "ungrouped"} => pc \in {"accepted", "ungrouped"},
         pc' = "batch" => pc = "batch" /\ UNCHANGED <<batch, remaining>>
  PROVE  Slots'
<1>1. Claimed' = Claimed
  BY DEF Claimed, slotVars, TaskId
<1>2. /\ \A t \in Claimed' : slot'[t] < task_index'
      /\ \A t, u \in Claimed' : slot'[t] = slot'[u] => t = u
      /\ task_index' = Cardinality(Claimed')
  BY <1>1 DEF Slots, slotVars
<1>3. \A g \in pending' : TasksOf(g)' \cap Claimed' = {}
  BY <1>1, SameJob DEF Slots
<1>4. /\ pc' \in {"accepted", "ungrouped"} => Claimed' = {}
      /\ pc' = "batch" => batch' \notin pending'
      /\ pc' = "batch" => \A d \in Device : remaining'[d] \cap Claimed' = {}
  BY <1>1 DEF Slots
<1>5. QED
  BY <1>2, <1>3, <1>4 DEF Slots

(* The first task t that device d has left takes the next slot: t had none,
   and it is neither of a pending batch nor of another device. *)
LEMMA SlotClaimed ==
  ASSUME TypeOK, Workers, Slots, pc = "batch", UNCHANGED <<job, pc, pending, batch>>,
         NEW d \in Device, NEW t \in remaining[d], Claim(d, t)
  PROVE  Slots' /\ task_index' \in Nat /\ slot' \in [TaskId -> Nat \cup {Unclaimed}]
<1>1. t \in TaskId /\ t \notin Claimed /\ t \in TasksOn(batch, d)
  BY DEF TypeOK, Slots, Workers
<1>2. task_index \in Nat /\ slot \in [TaskId -> Nat \cup {Unclaimed}]
  BY DEF TypeOK
<1>3. /\ slot' = [slot EXCEPT ![t] = task_index]
      /\ task_index' = task_index + 1
      /\ remaining' = [remaining EXCEPT ![d] = @ \ {t}]
  BY DEF Claim
<1>4. Claimed' = Claimed \cup {t}
  <2>1. TaskId' = TaskId
    BY SameJob
  <2>2. Unclaimed' = Unclaimed /\ task_index # Unclaimed
    BY <1>2 DEF Unclaimed
  <2>3. \A u \in TaskId : slot'[u] = IF u = t THEN task_index ELSE slot[u]
    BY <1>1, <1>2, <1>3
  <2>4. QED
    BY <1>1, <2>1, <2>2, <2>3 DEF Claimed
<1>5. \A u \in Claimed : u # t /\ slot'[u] = slot[u] /\ slot[u] \in Nat
  BY <1>1, <1>2, <1>3 DEF Claimed
<1>6. slot'[t] = task_index
  BY <1>1, <1>2, <1>3
<1>7. /\ \A u \in Claimed' : slot'[u] < task_index'
      /\ \A u, v \in Claimed' : slot'[u] = slot'[v] => u = v
  <2>1. \A u \in Claimed : slot'[u] < task_index
    BY <1>5 DEF Slots
  <2>2. \A u, v \in Claimed : slot'[u] = slot'[v] => u = v
    BY <1>5 DEF Slots
  <2>3. QED
    BY <1>2, <1>3, <1>4, <1>5, <1>6, <2>1, <2>2
<1>8. task_index' = Cardinality(Claimed')
  <2>1. IsFiniteSet(Claimed)
    BY TasksFinite DEF Claimed, TypeOK
  <2>2. QED
    BY <1>1, <1>3, <1>4, <2>1, FS_AddElement DEF Slots
<1>9. \A g \in pending' : TasksOf(g)' \cap Claimed' = {}
  <2>1. \A g \in pending : t \notin TasksOf(g)
    BY <1>1 DEF Slots, TasksOn, TasksOf, TasksIn
  <2>2. QED
    BY <1>4, <2>1, SameJob DEF Slots
<1>10. \A e \in Device : remaining'[e] \cap Claimed' = {}
  <2>1. \A e \in Device : remaining'[e] \subseteq remaining[e] \ {t}
    BY <1>1, <1>3 DEF TypeOK, Workers, TasksOn
  <2>2. QED
    BY <1>4, <2>1 DEF Slots
<1>11. QED
  BY <1>1, <1>2, <1>3, <1>7, <1>8, <1>9, <1>10 DEF Slots

-----------------------------------------------------------------------------
(* The steps of process_grading_job itself.                                *)

(* The steps that only move the control of the job, gather a batch without a
   group, or report. *)
LEMMA ControlInv ==
  ASSUME IInv,
         \/ Prepare \/ NoUngrouped \/ GroupsDone \/ GatherUngrouped \/ Report
         \/ \E g \in GroupId : SkipUnknownGroup(g)
  PROVE  IInv'
<1>1. /\ UNCHANGED <<job, batch, co, current, remaining, permits, task_index, slot,
                     busy, batch_results, group_results, execution_cancelled,
                     aux, aux_running>>
      /\ pending' \subseteq pending
      /\ test_results' \in {test_results, test_results \cup batch_results}
      /\ delivered' \in {delivered, TRUE, FALSE}
      /\ pc' \in {"ungrouped", "groups", "report", "returned"}
      /\ pc' = "ungrouped" => pc = "accepted"
  BY DEF Prepare, NoUngrouped, GroupsDone, GatherUngrouped, Report, SkipUnknownGroup,
         NextGroup, coVars, slotVars, scoreVars, auxVars
<1>2. \A d \in Device : busy[d] = 0
  <2>1. CASE pc = "batch"
    BY <2>1 DEF GatherUngrouped, Gathered, Prepare, NoUngrouped, GroupsDone, Report,
       SkipUnknownGroup, NextGroup, IInv, Commands
  <2>2. CASE pc \in {"accepted", "ungrouped", "groups", "report"}
    BY <2>2 DEF IInv, Commands
  <2>3. QED
    BY <2>1, <2>2 DEF Prepare, NoUngrouped, GroupsDone, GatherUngrouped, Gathered,
       Report, SkipUnknownGroup, NextGroup
<1>3. ~aux_running
  BY DEF Prepare, NoUngrouped, GroupsDone, GatherUngrouped, Gathered, Report,
         SkipUnknownGroup, NextGroup, IInv, Control
<1>4. TypeOK'
  BY <1>1, SameJob DEF IInv, TypeOK
<1>5. Slots'
  BY <1>1, SlotsKept DEF IInv, slotVars
<1>6. Control' /\ Workers' /\ Permits'
  BY <1>1, <1>3 DEF Control, Workers, Permits
<1>7. Commands' /\ ParallelBound'
  BY <1>1, <1>2, BoundedWhenIdle DEF Commands, ParallelBound
<1>8. QED
  BY <1>4, <1>5, <1>6, <1>7 DEF IInv

(* A batch is opened with all its tasks still unclaimed. *)
LEMMA OpenBatchInv ==
  ASSUME IInv, NEW g \in DOMAIN job.groups \cup {NoGroup}, OpenBatch(g),
         pending' \subseteq pending, g \notin pending',
         pc \in {"ungrouped", "groups"}, TasksOf(g) \cap Claimed = {}
  PROVE  IInv'
<1>1. g \in GroupId \cup {NoGroup}
  BY JobsAssumption DEF JobsAssumption, IsGradingJob, IInv, TypeOK
<1>2. /\ UNCHANGED <<job, task_index, slot, busy, test_results, group_results,
                     execution_cancelled, aux, aux_running, delivered>>
      /\ pc' = "batch" /\ batch' = g /\ permits' = MaxParallel /\ batch_results' = {}
      /\ co' = [d \in Device |-> IF TasksOn(g, d) = {} THEN "idle" ELSE "waiting"]
      /\ current' = [d \in Device |-> 0]
      /\ remaining' = [d \in Device |-> TasksOn(g, d)]
  BY DEF OpenBatch, slotVars, scoreVars, auxVars
<1>3. \A d \in Device : busy[d] = 0 /\ co'[d] \in {"idle", "waiting"}
  BY <1>2 DEF IInv, Commands
<1>4. \A d \in Device : TasksOn(g, d) \subseteq TaskId /\ TasksOn(g, d) \subseteq TasksOf(g)
  BY DEF TasksOn, TasksOf, TasksIn, TaskId
<1>5. TypeOK'
  <2>1. permits' \in 0 .. MaxParallel
    BY <1>2, MaxParallelAssumption DEF MaxParallelAssumption
  <2>2. /\ co' \in [Device -> CoState]
        /\ current' \in [Device -> TaskId \cup {0}]
        /\ remaining' \in [Device -> SUBSET TaskId]
    BY <1>2, <1>4 DEF CoState
  <2>3. QED
    BY <1>1, <1>2, <2>1, <2>2, SameJob DEF IInv, TypeOK
<1>6. Control'
  BY <1>2 DEF IInv, Control
<1>7. Workers'
  BY <1>2, <1>3, SameJob DEF Workers
<1>8. Commands' /\ ParallelBound'
  BY <1>2, <1>3, BoundedWhenIdle DEF Commands, ParallelBound
<1>9. Permits'
  <2>1. Holders' = {}
    BY <1>3 DEF Holders
  <2>2. QED
    BY <1>2, <2>1, FS_EmptySet, MaxParallelAssumption DEF Permits, MaxParallelAssumption
<1>10. Slots'
  <2>1. Claimed' = Claimed
    BY <1>2 DEF Claimed, TaskId
  <2>2. /\ \A t \in Claimed' : slot'[t] < task_index'
        /\ \A t, u \in Claimed' : slot'[t] = slot'[u] => t = u
        /\ task_index' = Cardinality(Claimed')
    BY <1>2, <2>1 DEF IInv, Slots
  <2>3. \A h \in pending' : TasksOf(h)' \cap Claimed' = {}
    BY <1>2, <2>1, SameJob DEF IInv, Slots
  <2>4. \A d \in Device : remaining'[d] \cap Claimed' = {}
    BY <1>2, <1>4, <2>1
  <2>5. QED
    BY <1>2, <2>2, <2>3, <2>4 DEF Slots
<1>11. QED
  BY <1>5, <1>6, <1>7, <1>8, <1>9, <1>10 DEF IInv

LEMMA RunUngroupedInv ==
  ASSUME IInv, RunUngrouped
  PROVE  IInv'
<1>1. NoGroup \notin pending
  BY JobsAssumption DEF JobsAssumption, IInv, TypeOK, GroupsNamed, GroupsIn
<1>2. TasksOf(NoGroup) \cap Claimed = {}
  BY DEF RunUngrouped, IInv, Slots
<1>3. QED
  BY <1>1, <1>2, OpenBatchInv DEF RunUngrouped

LEMMA RunGroupInv ==
  ASSUME IInv, NEW g \in GroupId, RunGroup(g)
  PROVE  IInv'
<1>1. /\ g \in DOMAIN job.groups /\ g \in pending /\ pc = "groups"
      /\ pending' = pending \ {g} /\ OpenBatch(g)
  BY DEF RunGroup, NextGroup
<1>2. TasksOf(g) \cap Claimed = {}
  BY <1>1 DEF IInv, Slots
<1>3. QED
  BY <1>1, <1>2, OpenBatchInv

-----------------------------------------------------------------------------
(* The steps of the device coroutines.                                     *)

(* A coroutine that is given a permit was not a holder. *)
LEMMA AcquireInv ==
  ASSUME IInv, NEW d \in Device, NEW t \in TaskId, Acquire(d, t)
  PROVE  IInv'
<1>1. /\ UNCHANGED <<job, pc, pending, batch, busy, batch_results, test_results,
                     group_results, execution_cancelled, aux, aux_running, delivered>>
      /\ pc = "batch" /\ co[d] = "waiting" /\ permits > 0 /\ t \in remaining[d]
      /\ permits' = permits - 1
      /\ co' = [co EXCEPT ![d] = "claimed"]
      /\ current' = [current EXCEPT ![d] = t]
      /\ remaining' = [remaining EXCEPT ![d] = @ \ {t}]
      /\ Claim(d, t)
  BY DEF Acquire, Claim, Least, scoreVars, auxVars
<1>2. /\ Slots' /\ task_index' \in Nat
      /\ slot' \in [TaskId -> Nat \cup {Unclaimed}]
  BY <1>1, SlotClaimed DEF IInv
<1>3. Holders' = Holders \cup {d} /\ d \notin Holders
  BY <1>1 DEF IInv, TypeOK, Holders
<1>4. Permits' /\ permits' \in 0 .. MaxParallel
  <2>1. IsFiniteSet(Holders) /\ Cardinality(Holders) \in Nat
    BY DevicesFinite DEF Holders
  <2>2. Cardinality(Holders') = Cardinality(Holders) + 1
    BY <1>3, <2>1, FS_AddElement
  <2>3. permits \in 0 .. MaxParallel /\ permits + Cardinality(Holders) = MaxParallel
    BY <1>1 DEF IInv, TypeOK, Permits
  <2>4. QED
    BY <1>1, <2>1, <2>2, <2>3, MaxParallelAssumption DEF Permits, MaxParallelAssumption
<1>5. TypeOK'
  <2>1. /\ co' \in [Device -> CoState]
        /\ current' \in [Device -> TaskId \cup {0}]
        /\ remaining' \in [Device -> SUBSET TaskId]
    BY <1>1 DEF IInv, TypeOK, CoState
  <2>2. QED
    BY <1>1, <1>2, <1>4, <2>1, SameJob DEF IInv, TypeOK
<1>6. Control' /\ Commands' /\ ParallelBound'
  BY <1>1 DEF IInv, TypeOK, Control, Commands, ParallelBound
<1>7. Workers'
  BY <1>1, SameJob DEF IInv, TypeOK, Workers
<1>8. QED
  BY <1>2, <1>4, <1>5, <1>6, <1>7 DEF IInv

(* A task that starts is of a holder; it is the only command of its device. *)
LEMMA StartTaskInv ==
  ASSUME IInv, NEW d \in Device, StartTask(d)
  PROVE  IInv'
<1>1. /\ UNCHANGED <<job, pc, pending, batch, current, remaining, permits,
                     task_index, slot, batch_results, test_results, group_results,
                     execution_cancelled, aux, aux_running, delivered>>
      /\ pc = "batch" /\ co[d] = "claimed"
      /\ co' = [co EXCEPT ![d] = "executing"]
      /\ busy' = [busy EXCEPT ![d] = @ + 1]
  BY DEF StartTask, slotVars, scoreVars, auxVars
<1>2. TypeOK'
  <2>1. co' \in [Device -> CoState] /\ busy' \in [Device -> Int]
    BY <1>1 DEF IInv, TypeOK, CoState
  <2>2. QED
    BY <1>1, <2>1, SameJob DEF IInv, TypeOK
<1>3. Holders' = Holders
  BY <1>1 DEF IInv, TypeOK, Holders
<1>4. Permits'
  BY <1>1, <1>3 DEF IInv, Permits
<1>5. Commands'
  BY <1>1 DEF IInv, TypeOK, Commands
<1>6. ParallelBound'
  <2>1. \A e \in Device : busy'[e] > 0 => e \in Holders'
    BY <1>1, <1>5 DEF Commands, Holders
  <2>2. Holders' \in SUBSET Device /\ permits' \in Nat
    BY <1>2, MaxParallelAssumption DEF Holders, TypeOK, MaxParallelAssumption
  <2>3. QED
    BY <1>1, <1>4, <2>1, <2>2, BoundedInBatch DEF ParallelBound, Permits
<1>7. Control'
  BY <1>1 DEF IInv, Control
<1>8. Workers'
  BY <1>1, SameJob DEF IInv, TypeOK, Workers
<1>9. Slots'
  BY <1>1, SlotsKept DEF IInv, slotVars
<1>10. QED
  BY <1>2, <1>4, <1>5, <1>6, <1>7, <1>8, <1>9 DEF IInv

(* A task is recorded: the coroutine keeps its permit for its next task, or
   gives it back. *)
LEMMA RecordInv ==
  ASSUME IInv, NEW d \in Device, NEW r \in TestResult(job), Record(d, r),
         pc = "batch", co[d] \in {"claimed", "executing"},
         busy' = [busy EXCEPT ![d] = 0],
         UNCHANGED <<job, pc, pending, batch, scoreVars, auxVars, delivered>>
  PROVE  IInv'
<1>1. /\ UNCHANGED <<test_results, group_results, execution_cancelled, aux, aux_running>>
      /\ batch_results' = batch_results \cup {r}
  BY DEF Record, scoreVars, auxVars
<1>2. TypeOK' /\ Permits' /\ Commands' /\ Workers' /\ Slots'
  <2>1. CASE /\ remaining[d] = {} /\ co' = [co EXCEPT ![d] = "finished"]
             /\ permits' = permits + 1 /\ UNCHANGED <<current, remaining, slotVars>>
    <3>1. Holders' = Holders \ {d} /\ d \in Holders
      BY <2>1 DEF IInv, TypeOK, Holders
    <3>2. Permits' /\ permits' \in 0 .. MaxParallel
      <4>1. IsFiniteSet(Holders)
        BY DevicesFinite DEF Holders
      <4>2. IsFiniteSet(Holders') /\ Cardinality(Holders') = Cardinality(Holders) - 1
        BY <3>1, <4>1, FS_RemoveElement
      <4>3. Cardinality(Holders) \in Nat /\ Cardinality(Holders') \in Nat
        BY <4>1, <4>2, FS_CardinalityType
      <4>4. permits \in 0 .. MaxParallel /\ permits + Cardinality(Holders) = MaxParallel
        BY DEF IInv, TypeOK, Permits
      <4>5. QED
        BY <2>1, <4>2, <4>3, <4>4, MaxParallelAssumption DEF Permits, MaxParallelAssumption
    <3>3. co' \in [Device -> CoState] /\ busy' \in [Device -> Int]
      BY <2>1 DEF IInv, TypeOK, CoState
    <3>4. TypeOK'
      BY <1>1, <2>1, <3>2, <3>3, SameJob DEF IInv, TypeOK, slotVars
    <3>5. Commands'
      BY <1>1, <2>1 DEF IInv, TypeOK, Commands
    <3>6. Workers'
      BY <2>1, SameJob DEF IInv, TypeOK, Workers
    <3>7. Slots'
      BY <2>1, SlotsKept DEF IInv
    <3>8. QED
      BY <3>2, <3>4, <3>5, <3>6, <3>7
  <2>2. CASE /\ \E t \in remaining[d] : Claim(d, t)
             /\ UNCHANGED permits
    <3>1. PICK t \in remaining[d] : Claim(d, t)
      BY <2>2
    <3>2. /\ co' = [co EXCEPT ![d] = "claimed"]
          /\ current' = [current EXCEPT ![d] = t]
          /\ remaining' = [remaining EXCEPT ![d] = @ \ {t}]
          /\ t \in TaskId
      BY <3>1 DEF Claim, IInv, TypeOK
    <3>3. /\ Slots' /\ task_index' \in Nat
          /\ slot' \in [TaskId -> Nat \cup {Unclaimed}]
      BY <3>1, SlotClaimed DEF IInv
    <3>4. /\ co' \in [Device -> CoState] /\ busy' \in [Device -> Int]
          /\ current' \in [Device -> TaskId \cup {0}]
          /\ remaining' \in [Device -> SUBSET TaskId]
      BY <3>2 DEF IInv, TypeOK, CoState
    <3>5. TypeOK'
      BY <1>1, <2>2, <3>3, <3>4, SameJob DEF IInv, TypeOK
    <3>6. Holders' = Holders
      BY <3>2 DEF IInv, TypeOK, Holders
    <3>7. Permits'
      BY <2>2, <3>6 DEF IInv, Permits
    <3>8. Commands'
      BY <3>2 DEF IInv, TypeOK, Commands
    <3>9. Workers'
      BY <3>2, SameJob DEF IInv, TypeOK, Workers
    <3>10. QED
      BY <3>3, <3>5, <3>7, <3>8, <3>9
  <2>3. QED
    BY <2>1, <2>2 DEF Record
<1>3. ParallelBound'
  <2>1. \A e \in Device : busy'[e] > 0 => e \in Holders'
    BY <1>2 DEF Commands, Holders
  <2>2. Holders' \in SUBSET Device /\ permits' \in Nat
    BY <1>2, MaxParallelAssumption DEF Holders, TypeOK, MaxParallelAssumption
  <2>3. QED
    BY <1>2, <2>1, <2>2, BoundedInBatch DEF ParallelBound, Permits
<1>4. Control'
  BY <1>1 DEF IInv, Control
<1>5. QED
  BY <1>2, <1>3, <1>4 DEF IInv

LEMMA EndTaskInv ==
  ASSUME IInv, NEW d \in Device, EndTask(d)
  PROVE  IInv'
<1>1. pc = "batch" /\ co[d] = "executing" /\ current[d] \in TaskId
  BY DEF EndTask, IInv, Workers
<1>2. PICK r \in Outcome(current[d]) : Record(d, r)
  BY DEF EndTask
<1>3. r \in TestResult(job)
  BY <1>1, OutcomeType DEF IInv, TypeOK
<1>4. busy' = [busy EXCEPT ![d] = 0]
  <2>1. busy[d] = 1
    BY <1>1 DEF IInv, Commands, EndTask
  <2>2. busy' = [busy EXCEPT ![d] = busy[d] - 1]
    BY DEF EndTask
  <2>3. QED
    BY <2>1, <2>2
<1>5. QED
  BY <1>1, <1>2, <1>3, <1>4, RecordInv DEF EndTask

LEMMA RaiseTaskInv ==
  ASSUME IInv, NEW d \in Device, RaiseTask(d)
  PROVE  IInv'
<1>1. pc = "batch" /\ co[d] = "claimed" /\ current[d] \in TaskId
  BY DEF RaiseTask, IInv, Workers
<1>2. ErrorResult(current[d]) \in TestResult(job)
  BY <1>1, OutcomeType DEF IInv, TypeOK
<1>3. busy' = [busy EXCEPT ![d] = 0]
  BY <1>1 DEF RaiseTask, IInv, TypeOK, Commands
<1>4. QED
  BY <1>1, <1>2, <1>3, RecordInv DEF RaiseTask

-----------------------------------------------------------------------------
(* Scoring a group, its rescue and cleanup tasks, and cancellation.        *)

(* The rescue and cleanup tasks of a configured group are on devices. *)
LEMMA AuxType ==
  ASSUME job \in Jobs, NEW g \in DOMAIN job.groups
  PROVE  /\ job.groups[g].rescue \in Seq(Device) /\ job.groups[g].cleanup \in Seq(Device)
         /\ job.groups[g].continue \in BOOLEAN /\ g \in GroupId
BY JobsAssumption DEF JobsAssumption, IsGradingJob, TaskGroup

LEMMA GatherGroupInv ==
  ASSUME IInv, GatherGroup
  PROVE  IInv'
<1> DEFINE c == job.groups[batch]
<1>1. /\ UNCHANGED <<job, pending, batch, co, current, remaining, permits, task_index,
                     slot, busy, batch_results, aux_running, delivered>>
      /\ test_results' = test_results \cup batch_results
      /\ DOMAIN group_results' = DOMAIN group_results
      /\ execution_cancelled' \in BOOLEAN
      /\ \/ pc' = "rescue" /\ aux' = c.rescue /\ c.rescue # <<>>
         \/ pc' = "cleanup" /\ aux' = c.cleanup /\ c.cleanup # <<>>
         \/ pc' = "groups" /\ aux' = <<>>
  BY DEF GatherGroup, coVars, slotVars
<1>2. pc = "batch" /\ batch \in DOMAIN job.groups /\ ~aux_running
  BY JobsAssumption DEF JobsAssumption, GatherGroup, Gathered, IInv, Control
<1>3. \A d \in Device : busy[d] = 0
  BY <1>2 DEF GatherGroup, Gathered, IInv, Commands
<1>4. aux' \in Seq(Device)
  <2>1. c.rescue \in Seq(Device) /\ c.cleanup \in Seq(Device)
    BY <1>2, AuxType DEF IInv, TypeOK
  <2>2. <<>> \in Seq(Device)
    OBVIOUS
  <2>3. QED
    BY <1>1, <2>1, <2>2
<1>5. TypeOK'
  BY <1>1, <1>4, SameJob DEF IInv, TypeOK
<1>6. Control' /\ Workers' /\ Permits'
  BY <1>1, <1>2 DEF Control, Workers, Permits
<1>7. Commands' /\ ParallelBound'
  BY <1>1, <1>2, <1>3, BoundedWhenIdle DEF Commands, ParallelBound
<1>8. Slots'
  BY <1>1, SlotsKept DEF IInv, slotVars
<1>9. QED
  BY <1>5, <1>6, <1>7, <1>8 DEF IInv

LEMMA StartAuxInv ==
  ASSUME IInv, StartAux
  PROVE  IInv'
<1>1. /\ UNCHANGED <<job, pc, pending, batch, co, current, remaining, permits,
                     task_index, slot, batch_results, test_results, group_results,
                     execution_cancelled, aux, delivered>>
      /\ pc \in {"rescue", "cleanup"} /\ ~aux_running /\ aux_running'
      /\ aux_running' \in BOOLEAN
      /\ busy' = [busy EXCEPT ![Head(aux)] = @ + 1]
  BY DEF StartAux, coVars, slotVars, scoreVars
<1>2. Head(aux) \in Device
  BY <1>1 DEF IInv, TypeOK, Control
<1>3. \A d \in Device : busy'[d] = IF d = Head(aux) THEN 1 ELSE 0
  BY <1>1, <1>2 DEF IInv, TypeOK, Commands
<1>4. TypeOK'
  BY <1>1, <1>2, SameJob DEF IInv, TypeOK
<1>5. Control' /\ Workers' /\ Permits'
  BY <1>1 DEF IInv, Control, Workers, Permits
<1>6. Commands'
  BY <1>1, <1>3 DEF Commands
<1>7. ParallelBound'
  <2>1. {Head(aux)} \in SUBSET Device /\ Cardinality({Head(aux)}) = 1
    BY <1>2, FS_Singleton
  <2>2. {d \in Device : busy'[d] > 0} \subseteq {Head(aux)}
    BY <1>3
  <2>3. QED
    BY <2>1, <2>2, BoundedBy, MaxParallelAssumption DEF ParallelBound, MaxParallelAssumption
<1>8. Slots'
  BY <1>1, SlotsKept DEF IInv, slotVars
<1>9. QED
  BY <1>4, <1>5, <1>6, <1>7, <1>8 DEF IInv

LEMMA EndAuxInv ==
  ASSUME IInv, EndAux
  PROVE  IInv'
<1> DEFINE c == job.groups[batch]
<1>1. /\ UNCHANGED <<job, pending, batch, co, current, remaining, permits, task_index,
                     slot, batch_results, test_results, execution_cancelled, delivered>>
      /\ pc \in {"rescue", "cleanup"} /\ aux_running /\ aux_running' = FALSE
      /\ busy' = [busy EXCEPT ![Head(aux)] = @ - 1]
      /\ DOMAIN group_results' = DOMAIN group_results
      /\ \/ Len(aux) > 1 /\ aux' = Tail(aux) /\ pc' = pc
         \/ c.cleanup # <<>> /\ aux' = c.cleanup /\ pc' = "cleanup"
         \/ aux' \in {<<>>, c.cleanup} /\ pc' = "groups"
  BY DEF EndAux, AfterRescue, coVars, slotVars
<1>2. Head(aux) \in Device /\ aux \in Seq(Device) /\ batch \in DOMAIN job.groups
  BY <1>1 DEF IInv, TypeOK, Control
<1>3. \A d \in Device : busy'[d] = 0
  BY <1>1, <1>2 DEF IInv, TypeOK, Commands
<1>4. /\ aux' \in Seq(Device) /\ pc' \in {"rescue", "cleanup", "groups"}
      /\ pc' # "groups" => aux' # <<>>
  <2>1. CASE Len(aux) > 1 /\ aux' = Tail(aux) /\ pc' = pc
    <3>1. aux # <<>>
      BY <1>1 DEF IInv, Control
    <3>2. Tail(aux) \in Seq(Device) /\ Len(Tail(aux)) = Len(aux) - 1
      BY <1>2, <3>1
    <3>3. Tail(aux) # <<>>
      BY <1>2, <2>1, <3>2
    <3>4. QED
      BY <1>1, <2>1, <3>2, <3>3
  <2>2. c.cleanup \in Seq(Device) /\ <<>> \in Seq(Device)
    BY <1>2, AuxType DEF IInv, TypeOK
  <2>3. QED
    BY <1>1, <2>1, <2>2
<1>5. TypeOK'
  <2>1. busy' \in [Device -> Int]
    BY <1>1, <1>2 DEF IInv, TypeOK
  <2>2. aux_running' \in BOOLEAN /\ DOMAIN group_results' = GroupId
    BY <1>1 DEF IInv, TypeOK
  <2>3. UNCHANGED <<job, pending, batch, co, current, remaining, permits, task_index,
                    slot, batch_results, test_results, execution_cancelled, delivered>>
    BY <1>1
  <2>4. QED
    BY <1>4, <2>1, <2>2, <2>3, SameJob DEF IInv, TypeOK
<1>6. Control' /\ Workers' /\ Permits'
  BY <1>1, <1>2, <1>4 DEF Control, Workers, Permits
<1>7. Commands' /\ ParallelBound'
  BY <1>1, <1>3, <1>4, BoundedWhenIdle DEF Commands, ParallelBound
<1>8. Slots'
  BY <1>1, <1>4, SlotsKept DEF IInv, slotVars
<1>9. QED
  BY <1>5, <1>6, <1>7, <1>8 DEF IInv

(* A cancelled job leaves its commands in flight. *)
LEMMA AbortInv ==
  ASSUME IInv, Abort
  PROVE  IInv'
<1>1. /\ UNCHANGED <<job, pending, batch, current, remaining, permits, task_index,
                     slot, busy, batch_results, test_results, group_results,
                     execution_cancelled, aux, delivered>>
      /\ pc' = "aborted" /\ aux_running' = FALSE
      /\ co' = [d \in Device |-> "idle"]
  BY DEF Abort, slotVars, scoreVars
<1>2. co' \in [Device -> CoState]
  BY <1>1 DEF CoState
<1>3. TypeOK'
  BY <1>1, <1>2, SameJob DEF IInv, TypeOK
<1>4. Control' /\ Workers' /\ Permits' /\ ParallelBound'
  BY <1>1 DEF IInv, Control, Workers, Permits, ParallelBound
<1>5. Commands'
  BY <1>1, Exclusive DEF IInv, Commands, DeviceExclusive
<1>6. Slots'
  BY <1>1, SlotsKept DEF IInv, slotVars
<1>7. QED
  BY <1>3, <1>4, <1>5, <1>6 DEF IInv

LEMMA OrphanEndsInv ==
  ASSUME IInv, NEW d \in Device, OrphanEnds(d)
  PROVE  IInv'
<1>1. /\ UNCHANGED <<job, pc, pending, batch, co, current, remaining, permits,
                     task_index, slot, batch_results, test_results, group_results,
                     execution_cancelled, aux, aux_running, delivered>>
      /\ pc = "aborted" /\ busy[d] > 0
      /\ busy' = [busy EXCEPT ![d] = @ - 1]
  BY DEF OrphanEnds, coVars, slotVars, scoreVars, auxVars
<1>2. TypeOK'
  BY <1>1, SameJob DEF IInv, TypeOK
<1>3. Control' /\ Workers' /\ Permits'
  BY <1>1 DEF IInv, Control, Workers, Permits
<1>4. Commands'
  BY <1>1 DEF IInv, TypeOK, Commands, DeviceExclusive
<1>5. ParallelBound'
  <2> DEFINE S == {e \in Device : busy[e] > 0}
  <2>1. S \in SUBSET Device /\ Cardinality(S) <= MaxParallel
    BY DEF IInv, ParallelBound
  <2>2. {e \in Device : busy'[e] > 0} \subseteq S
    BY <1>1 DEF IInv, TypeOK
  <2>3. QED
    BY <2>1, <2>2, BoundedBy DEF ParallelBound
<1>6. Slots'
  BY <1>1, SlotsKept DEF IInv, slotVars
<1>7. QED
  BY <1>2, <1>3, <1>4, <1>5, <1>6 DEF IInv

-----------------------------------------------------------------------------
LEMMA NextInv == IInv /\ [Next]_vars => IInv'
<1> SUFFICES ASSUME IInv, [Next]_vars PROVE IInv'
  OBVIOUS
<1>1. CASE Main
  <2>1. CASE \/ Prepare \/ NoUngrouped \/ GroupsDone \/ GatherUngrouped \/ Report
             \/ \E g \in GroupId : SkipUnknownGroup(g)
    BY <2>1, ControlInv
  <2>2. CASE RunUngrouped
    BY <2>2, RunUngroupedInv
  <2>3. CASE \E g \in GroupId : RunGroup(g)
    BY <2>3, RunGroupInv
  <2>4. CASE GatherGroup
    BY <2>4, GatherGroupInv
  <2>5. CASE StartAux
    BY <2>5, StartAuxInv
  <2>6. CASE EndAux
    BY <2>6, EndAuxInv
  <2>7. QED
    BY <1>1, <2>1, <2>2, <2>3, <2>4, <2>5, <2>6 DEF Main
<1>2. CASE \E d \in Device : Worker(d)
  <2>1. PICK d \in Device : Worker(d)
    BY <1>2
  <2>2. CASE \E t \in TaskId : Acquire(d, t)
    BY <2>2, AcquireInv
  <2>3. CASE StartTask(d)
    BY <2>3, StartTaskInv
  <2>4. CASE EndTask(d)
    BY <2>4, EndTaskInv
  <2>5. CASE RaiseTask(d)
    BY <2>5, RaiseTaskInv
  <2>6. CASE OrphanEnds(d)
    BY <2>6, OrphanEndsInv
  <2>7. QED
    BY <2>1, <2>2, <2>3, <2>4, <2>5, <2>6 DEF Worker
<1>3. CASE Abort
  BY <1>3, AbortInv
<1>4. CASE UNCHANGED vars
  <2>1. UNCHANGED <<job, pc, pending, batch, co, current, remaining, permits, task_index,
                    slot, busy, batch_results, test_results, group_results,
                    execution_cancelled, aux, aux_running, delivered>>
    BY <1>4 DEF vars, coVars, slotVars, scoreVars, auxVars
  <2>2. TypeOK'
    BY <2>1, SameJob DEF IInv, TypeOK
  <2>3. Control' /\ Commands' /\ ParallelBound'
    BY <2>1 DEF IInv, Control, Commands, DeviceExclusive, ParallelBound
  <2>4. Permits'
    BY <2>1 DEF IInv, Permits, Holders
  <2>5. Workers'
    BY <2>1, SameJob DEF IInv, Workers
  <2>6. Slots'
    BY <2>1, SlotsKept DEF IInv, slotVars
  <2>7. QED
    BY <2>2, <2>3, <2>4, <2>5, <2>6 DEF IInv
<1>5. QED
  BY <1>1, <1>2, <1>3, <1>4 DEF Next, Over

(* The inductive invariant holds in every execution. *)
LEMMA Inductive == Spec => []IInv
BY InitInv, NextInv, PTL DEF Spec

-----------------------------------------------------------------------------
(* Every variable of process_grading_job keeps its type, whatever the job. *)
THEOREM TypeCorrect == Spec => []TypeOK
<1>1. IInv => TypeOK
  BY DEF IInv
<1>2. QED
  BY <1>1, Inductive, PTL

(* No device ever has two commands of a job in flight, whatever the job, the
   number of devices and MAX_PARALLEL_TASKS, after a cancellation too. *)
THEOREM DeviceExclusion == Spec => []DeviceExclusive
<1>1. IInv => DeviceExclusive
  BY Exclusive DEF IInv
<1>2. QED
  BY <1>1, Inductive, PTL

(* The commands of a job never exceed MAX_PARALLEL_TASKS. *)
THEOREM ParallelBounded == Spec => []ParallelBound
<1>1. IInv => ParallelBound
  BY DEF IInv
<1>2. QED
  BY <1>1, Inductive, PTL

(* No two tasks of a job ever report progress under the same number, and no
   number reaches the number of tasks. *)
THEOREM UniqueSlots == Spec => []SlotsUnique
<1>1. IInv => SlotsUnique
  <2> SUFFICES ASSUME IInv, NEW t \in TaskId, slot[t] # Unclaimed
               PROVE  /\ slot[t] < Len(job.tasks)
                      /\ \A u \in TaskId \ {t} : slot[u] # slot[t]
    BY DEF SlotsUnique
  <2>1. t \in Claimed /\ slot[t] \in Nat /\ task_index \in Nat
    BY DEF Claimed, IInv, TypeOK
  <2>2. Cardinality(Claimed) \in 0 .. Len(job.tasks)
    BY TasksFinite DEF Claimed, IInv, TypeOK
  <2>3. Len(job.tasks) \in Nat
    BY JobsAssumption DEF JobsAssumption, IsGradingJob, IInv, TypeOK
  <2>4. slot[t] < Len(job.tasks)
    BY <2>1, <2>2, <2>3 DEF IInv, Slots
  <2>5. \A u \in TaskId \ {t} : slot[u] # slot[t]
    BY <2>1 DEF IInv, Slots, Claimed
  <2>6. QED
    BY <2>4, <2>5
<1>2. QED
  BY <1>1, Inductive, PTL

=============================================================================
