-------------------------- MODULE JobResultsProofs --------------------------
(***************************************************************************)
(* What a grading job makes of its results: the order in which tasks and   *)
(* batches may begin, the verdicts of groups, their cleanup, the accounts, *)
(* and that the whole implements GradingContract; for any devices, groups, *)
(* jobs and parallelism.  Rests on the inductive invariant of              *)
(* JobExecutionProofs.                                                     *)
(***************************************************************************)
EXTENDS JobExecutionProofs, WellFoundedInduction

GroupOf(t) == job.tasks[t].grp

(* Every task of the batch is yet to come, in work, or has its one result, and
   the results gathered before are those of other tasks. *)
BatchProgress ==
  pc = "batch" =>
    /\ \A d \in Device : \A t \in TasksOn(batch, d) :
         t \in remaining[d] \/ (d \in Holders /\ t = current[d]) \/ HasResult(t, batch_results)
    /\ \A d \in Holders : current[d] \in TasksOn(batch, d) \ remaining[d]
    /\ \A d \in Device : co[d] \in {"idle", "finished"} => remaining[d] = {}
    /\ \A r \in batch_results :
         /\ r.task \in TasksOf(batch) /\ r \in Outcome(r.task)
         /\ \A d \in Device : r.task \notin remaining[d]
         /\ \A d \in Holders : r.task # current[d]
    /\ \A r, q \in batch_results : r.task = q.task => r = q
    /\ \A r \in test_results : r.task \notin TasksOf(batch)

(* The ungrouped batch and the batches of the groups visited so far are
   gathered, save the one that is run, and no others. *)
Gathering ==
  /\ pc \notin {"batch", "aborted"} => batch_results \subseteq test_results
  /\ pc \in {"accepted", "ungrouped"} => test_results = {}
  /\ pc \in {"accepted", "ungrouped"} \/ (pc = "batch" /\ batch = NoGroup)
     => pending = GroupsNamed
  /\ \A r \in test_results : GroupOf(r.task) \notin pending
  /\ pc \notin {"accepted", "ungrouped", "aborted"} =>
       \A t \in TaskId :
         Known(t) /\ GroupOf(t) \notin pending /\ ~(pc = "batch" /\ batch = GroupOf(t))
         => HasResult(t, test_results)

(* Groups visited are scored, save the one that is run; the job is cancelled
   when one of them stops it; the group that is run comes before the pending. *)
Verdicts ==
  /\ \A g \in GroupId : DOMAIN group_results[g] = {"status", "earned", "rescued", "cleaned"}
  /\ \A g \in GroupId \ Scored : group_results[g] = NoResult
  /\ Scored \subseteq DOMAIN job.groups
  /\ execution_cancelled <=> \E g \in Scored : Stops(g)
  /\ pc # "aborted" =>
       \A g \in GroupsNamed \cap DOMAIN job.groups :
         g \in Scored <=> g \notin pending /\ ~(pc = "batch" /\ batch = g)
  /\ pc = "batch" /\ batch \in GroupId =>
       /\ ~execution_cancelled /\ batch \in GroupsNamed
       /\ \A h \in pending \cup {batch} : VisitedBefore(job, batch, h)
  /\ pc = "report" => execution_cancelled \/ pending = {}

(* Only the group just scored may be without its cleanup, and without the
   rescue that comes before. *)
Aftermath ==
  /\ pc = "rescue" => /\ batch \in Scored /\ Stops(batch)
                      /\ ~group_results[batch].rescued /\ ~group_results[batch].cleaned
  /\ pc = "cleanup" => /\ batch \in Scored /\ ~group_results[batch].cleaned
                       /\ Stops(batch) /\ job.groups[batch].rescue # <<>>
                          => group_results[batch].rescued
  /\ pc # "aborted" =>
       \A g \in Scored :
         /\ job.groups[g].cleanup # <<>> /\ ~(pc \in {"rescue", "cleanup"} /\ g = batch)
            => group_results[g].cleaned
         /\ Stops(g) /\ job.groups[g].rescue # <<>> /\ ~(pc = "rescue" /\ g = batch)
            => group_results[g].rescued

RInv ==
  /\ IInv /\ BatchProgress /\ Gathering /\ Verdicts /\ Aftermath
  /\ SameDeviceOrder /\ BatchBarrier /\ CleanupBeforeNext /\ GroupVerdict

-----------------------------------------------------------------------------
(* Where a task belongs. *)
LEMMA Places ==
  ASSUME job \in Jobs, NEW t \in TaskId
  PROVE  /\ job.tasks[t].dev \in Device
         /\ GroupOf(t) \in GroupId \cup {NoGroup}
         /\ \A g : t \in TasksOf(g) <=> g = GroupOf(t)
         /\ \A g, d : t \in TasksOn(g, d) <=> g = GroupOf(t) /\ d = job.tasks[t].dev
BY TaskType DEF Task, GroupOf, TasksOn, TasksOf, TasksIn, TaskId

(* The tasks of a batch are tasks of the job. *)
LEMMA BatchTasks ==
  ASSUME NEW g
  PROVE  /\ TasksOf(g) \subseteq TaskId
         /\ \A d : TasksOn(g, d) \subseteq TasksOf(g)
BY DEF TasksOf, TasksIn, TaskId, TasksOn

(* A result of a task names the task. *)
LEMMA OutcomeTask ==
  ASSUME NEW t \in TaskId
  PROVE  /\ \A r \in Outcome(t) : r.task = t
         /\ ErrorResult(t) \in Outcome(t)
BY DEF Outcome, Outcomes, ErrorResult

(* The configured groups are known ids, and the absent id is none of them. *)
LEMMA Configured ==
  ASSUME job \in Jobs
  PROVE  /\ DOMAIN job.groups \subseteq GroupId
         /\ NoGroup \notin GroupId
         /\ \A g \in DOMAIN job.groups : job.groups[g] \in TaskGroup
BY JobsAssumption DEF JobsAssumption, IsGradingJob

-----------------------------------------------------------------------------
LEMMA InitResults == Init => RInv
<1> SUFFICES ASSUME Init PROVE RInv
  OBVIOUS
<1>1. IInv
  BY InitInv
<1>2. Scored = {}
  BY DEF Init, Scored, NoResult
<1>3. BatchProgress
  BY DEF Init, BatchProgress
<1>4. Gathering
  BY DEF Init, Gathering
<1>5. Verdicts
  <2>1. \A g \in GroupId : DOMAIN group_results[g] = {"status", "earned", "rescued", "cleaned"}
    BY DEF Init, NoResult
  <2>2. \A g \in GroupId : group_results[g] = NoResult
    BY DEF Init
  <2>3. pc = "accepted" /\ execution_cancelled = FALSE /\ pending = GroupsNamed
    BY DEF Init
  <2>4. QED
    BY <1>2, <2>1, <2>2, <2>3 DEF Verdicts
<1>6. Aftermath /\ CleanupBeforeNext /\ GroupVerdict
  BY <1>2 DEF Init, Aftermath, CleanupBeforeNext, GroupVerdict
<1>7. SameDeviceOrder /\ BatchBarrier
  BY DEF Init, SameDeviceOrder, BatchBarrier
<1>8. QED
  BY <1>1, <1>3, <1>4, <1>5, <1>6, <1>7 DEF RInv

-----------------------------------------------------------------------------
(* What a step that gathers nothing and scores nothing leaves as it was.   *)

LEMMA BarrierKept ==
  ASSUME BatchBarrier, UNCHANGED <<job, slot>>, test_results \subseteq test_results'
  PROVE  BatchBarrier'
BY DEF BatchBarrier, EarlierBatch, HasResult, Known, TaskId

LEMMA OrderKept ==
  ASSUME SameDeviceOrder, UNCHANGED <<job, slot>>,
         batch_results \cup test_results \subseteq batch_results' \cup test_results'
  PROVE  SameDeviceOrder'
BY DEF SameDeviceOrder, HasResult, TaskId

LEMMA VerdictKept ==
  ASSUME GroupVerdict, UNCHANGED <<job, group_results, test_results>>
  PROVE  GroupVerdict'
BY DEF GroupVerdict, Scored, ResultsIn, HasResult, TasksOf

(* The steps that only move the control of the job, or a command in flight. *)
LEMMA ControlResults ==
  ASSUME RInv, IInv',
         \/ Prepare \/ NoUngrouped \/ GroupsDone \/ Report \/ StartAux \/ Abort
         \/ \E g \in GroupId : SkipUnknownGroup(g)
         \/ \E d \in Device : OrphanEnds(d)
  PROVE  RInv'
<1>1. /\ UNCHANGED <<job, batch, slot, batch_results, test_results, group_results,
                     execution_cancelled>>
      /\ pc' # "batch"
  BY DEF Prepare, NoUngrouped, GroupsDone, Report, StartAux, Abort, OrphanEnds,
         SkipUnknownGroup, NextGroup, slotVars, scoreVars
<1>2. Scored' = Scored /\ \A g : Stops(g)' = Stops(g)
  BY <1>1 DEF Scored, Stops
<1>3. \/ pc = "accepted" /\ pc' = "ungrouped" /\ pending' = pending
      \/ pc = "ungrouped" /\ pc' = "groups" /\ pending' = pending /\ TasksOf(NoGroup) = {}
      \/ pc = "groups" /\ pc' = "report" /\ pending' = pending
         /\ (execution_cancelled \/ pending = {})
      \/ pc = "report" /\ pc' = "returned" /\ pending' = pending
      \/ pc \in {"rescue", "cleanup", "aborted"} /\ pc' = pc /\ pending' = pending
      \/ pc' = "aborted" /\ pending' = pending
      \/ pc = "groups" /\ pc' = "groups"
         /\ \E g \in GroupId \ DOMAIN job.groups : pending' = pending \ {g}
  BY DEF Prepare, NoUngrouped, GroupsDone, Report, StartAux, Abort, OrphanEnds,
         SkipUnknownGroup, NextGroup
<1>4. BatchProgress'
  BY <1>1 DEF BatchProgress
<1>5. Gathering'
  <2>1. TaskId' = TaskId /\ GroupsNamed' = GroupsNamed /\ \A t : GroupOf(t)' = GroupOf(t)
    BY <1>1, SameJob DEF GroupOf
  <2>2. pc' # "aborted" => batch_results' \subseteq test_results'
    BY <1>1, <1>3 DEF RInv, Gathering
  <2>3. /\ pc' \in {"accepted", "ungrouped"} => test_results' = {}
        /\ pc' \in {"accepted", "ungrouped"} => pending' = GroupsNamed'
    BY <1>1, <1>3, <2>1 DEF RInv, Gathering
  <2>4. \A r \in test_results' : GroupOf(r.task)' \notin pending'
    BY <1>1, <1>3, <2>1 DEF RInv, Gathering
  <2>5. ASSUME pc' \notin {"accepted", "ungrouped", "aborted"}, NEW t \in TaskId,
               Known(t), GroupOf(t) \notin pending'
        PROVE  HasResult(t, test_results)
    <3>1. CASE pc = "ungrouped"
      <4>1. TasksOf(NoGroup) = {} /\ pending' = GroupsNamed
        BY <1>1, <1>3, <2>5, <3>1 DEF RInv, Gathering
      <4>2. GroupOf(t) \in GroupId
        BY <4>1, Places DEF RInv, IInv, TypeOK
      <4>3. GroupOf(t) \in GroupsNamed
        BY <4>2, Places DEF RInv, IInv, TypeOK, GroupsNamed, GroupsIn, TasksOf
      <4>4. QED
        BY <2>5, <4>1, <4>3
    <3>2. CASE pc \notin {"accepted", "ungrouped", "batch", "aborted"}
      <4>1. GroupOf(t) \notin pending
        BY <1>1, <1>3, <2>5, Configured DEF Known, GroupOf, RInv, IInv, TypeOK
      <4>2. QED
        BY <2>5, <3>2, <4>1 DEF RInv, Gathering
    <3>3. QED
      BY <1>1, <1>3, <2>5, <3>1, <3>2
  <2>6. QED
    BY <1>1, <2>1, <2>2, <2>3, <2>4, <2>5 DEF Gathering, Known, GroupOf
<1>6. Verdicts'
  <2>1. GroupsNamed' = GroupsNamed
    BY <1>1, SameJob
  <2>2. pc' # "aborted" => pc \notin {"batch", "aborted"}
    BY <1>1, <1>3
  <2>3. pc' # "aborted" =>
          \A g \in GroupsNamed \cap DOMAIN job.groups : g \in Scored <=> g \notin pending'
    BY <1>3, <2>2 DEF RInv, Verdicts
  <2>4. pc' = "report" => execution_cancelled \/ pending' = {}
    BY <1>3
  <2>5. QED
    BY <1>1, <1>2, <2>1, <2>3, <2>4 DEF RInv, Verdicts
<1>7. Aftermath'
  BY <1>1, <1>2, <1>3 DEF RInv, Aftermath
<1>8. CleanupBeforeNext'
  BY <1>1, <1>2, <1>3 DEF RInv, Aftermath, CleanupBeforeNext, Settled, Stops
<1>9. SameDeviceOrder' /\ BatchBarrier' /\ GroupVerdict'
  BY <1>1, BarrierKept, OrderKept, VerdictKept DEF RInv
<1>10. QED
  BY <1>4, <1>5, <1>6, <1>7, <1>8, <1>9 DEF RInv

(* A batch is opened: its tasks are all to come, and their group is no longer
   pending. *)
LEMMA OpenBatchResults ==
  ASSUME RInv, IInv', NEW g, OpenBatch(g),
         \/ pc = "ungrouped" /\ g = NoGroup /\ pending' = pending
         \/ NextGroup(g) /\ g \in DOMAIN job.groups
  PROVE  RInv'
<1>1. /\ UNCHANGED <<job, slot, test_results, group_results, execution_cancelled>>
      /\ pc' = "batch" /\ batch' = g /\ batch_results' = {}
      /\ \A d \in Device : co'[d] = IF TasksOn(g, d) = {} THEN "idle" ELSE "waiting"
      /\ \A d \in Device : remaining'[d] = TasksOn(g, d)
  BY DEF OpenBatch, slotVars, scoreVars
<1>2. /\ job \in Jobs /\ pending \subseteq GroupsNamed /\ test_results \subseteq TestResult(job)
      /\ pc \in {"ungrouped", "groups"}
  BY DEF RInv, IInv, TypeOK, NextGroup
<1>3. /\ TaskId' = TaskId /\ GroupsNamed' = GroupsNamed
      /\ \A t : GroupOf(t)' = GroupOf(t)
      /\ \A h : TasksOf(h)' = TasksOf(h)
      /\ \A h, d : TasksOn(h, d)' = TasksOn(h, d)
      /\ Scored' = Scored /\ \A h : Stops(h)' = Stops(h)
  BY <1>1, SameJob DEF GroupOf, Scored, Stops
<1>4. Holders' = {}
  BY <1>1 DEF Holders
<1>5. \A r \in test_results : r.task \in TaskId /\ GroupOf(r.task) # g
  BY <1>2, Configured DEF TestResult, TaskId, NextGroup, RInv, Gathering
<1>6. BatchProgress'
  <2>1. \A r \in test_results' : r.task \notin TasksOf(batch)'
    BY <1>1, <1>2, <1>3, <1>5, Places
  <2>2. QED
    BY <1>1, <1>3, <1>4, <2>1 DEF BatchProgress
<1>7. Gathering'
  <2>1. g = NoGroup => pending' = GroupsNamed
    BY <1>2, Configured DEF RInv, Gathering, NextGroup
  <2>2. pending' \subseteq pending
    BY DEF NextGroup
  <2>3. ASSUME NEW t \in TaskId, Known(t), GroupOf(t) \notin pending', GroupOf(t) # g
        PROVE  HasResult(t, test_results)
    <3>1. CASE pc = "ungrouped"
      <4>1. pending' = GroupsNamed /\ g = NoGroup
        BY <2>1, <3>1 DEF NextGroup
      <4>2. GroupOf(t) \in GroupId
        BY <1>2, <2>3, <4>1, Places
      <4>3. GroupOf(t) \in GroupsNamed
        BY <1>2, <4>2, Places DEF GroupsNamed, GroupsIn, TasksOf
      <4>4. QED
        BY <2>3, <4>1, <4>3
    <3>2. CASE pc = "groups"
      <4>1. GroupOf(t) \notin pending
        BY <2>3, <3>2 DEF NextGroup
      <4>2. QED
        BY <2>3, <3>2, <4>1 DEF RInv, Gathering
    <3>3. QED
      BY <1>2, <3>1, <3>2
  <2>4. \A r \in test_results' : GroupOf(r.task)' \notin pending'
    BY <1>1, <1>3, <2>2 DEF RInv, Gathering
  <2>5. QED
    BY <1>1, <1>3, <2>1, <2>3, <2>4 DEF Gathering, Known, GroupOf
<1>8. Verdicts'
  <2>1. \A h \in GroupsNamed \cap DOMAIN job.groups : h \in Scored <=> h \notin pending' /\ h # g
    BY <1>2, Configured DEF RInv, Verdicts, NextGroup, GroupsNamed, GroupsIn
  <2>2. g \in GroupId =>
          /\ ~execution_cancelled /\ g \in GroupsNamed
          /\ \A h \in pending' \cup {g} : VisitedBefore(job, g, h)
    BY <1>2, Configured DEF NextGroup
  <2>3. QED
    BY <1>1, <1>3, <2>1, <2>2 DEF RInv, Verdicts
<1>9. Aftermath' /\ CleanupBeforeNext'
  BY <1>1, <1>2, <1>3 DEF RInv, Aftermath, CleanupBeforeNext, Settled, Stops
<1>10. SameDeviceOrder'
  BY <1>1, <1>2, OrderKept DEF RInv, Gathering
<1>11. BatchBarrier' /\ GroupVerdict'
  BY <1>1, BarrierKept, VerdictKept DEF RInv
<1>12. QED
  BY <1>6, <1>7, <1>8, <1>9, <1>10, <1>11 DEF RInv

-----------------------------------------------------------------------------
(* The coroutines of a batch.                                              *)

(* A step inside a batch gathers nothing and scores nothing. *)
LEMMA InsideBatch ==
  ASSUME RInv, pc = "batch",
         UNCHANGED <<job, pc, pending, batch, test_results, group_results, execution_cancelled>>
  PROVE  /\ Gathering' /\ Verdicts' /\ Aftermath' /\ CleanupBeforeNext' /\ GroupVerdict'
         /\ TaskId' = TaskId
         /\ \A g : TasksOf(g)' = TasksOf(g)
         /\ \A g, d : TasksOn(g, d)' = TasksOn(g, d)
<1>1. /\ TaskId' = TaskId /\ GroupsNamed' = GroupsNamed
      /\ \A t : GroupOf(t)' = GroupOf(t)
      /\ \A g : TasksOf(g)' = TasksOf(g)
      /\ \A g, d : TasksOn(g, d)' = TasksOn(g, d)
      /\ Scored' = Scored /\ \A g : Stops(g)' = Stops(g)
  BY SameJob DEF GroupOf, Scored, Stops
<1>2. Gathering'
  BY <1>1 DEF RInv, Gathering, Known
<1>3. Verdicts'
  BY <1>1 DEF RInv, Verdicts
<1>4. Aftermath' /\ CleanupBeforeNext'
  BY <1>1 DEF RInv, Aftermath, CleanupBeforeNext, Settled, Stops
<1>5. GroupVerdict'
  BY VerdictKept DEF RInv
<1>6. QED
  BY <1>1, <1>2, <1>3, <1>4, <1>5

(* The least task u that device d has left begins once the earlier ones of the
   batch on d have their results: it comes after them, and after every batch
   that is gathered. *)
LEMMA BeginsInOrder ==
  ASSUME RInv, pc = "batch",
         UNCHANGED <<job, batch, test_results>>, batch_results \subseteq batch_results',
         NEW d \in Device, NEW u \in remaining[d], Least(u, remaining[d]),
         \A t \in TasksOn(batch, d) : t \in remaining[d] \/ HasResult(t, batch_results'),
         \A t \in TaskId : slot'[t] # Unclaimed => slot[t] # Unclaimed \/ t = u
  PROVE  SameDeviceOrder' /\ BatchBarrier'
<1>1. /\ job \in Jobs /\ pending \subseteq GroupsNamed
      /\ remaining[d] \subseteq TasksOn(batch, d) /\ TasksOn(batch, d) \subseteq TaskId
  BY BatchTasks DEF RInv, IInv, TypeOK, Workers
<1>2. u \in TaskId /\ GroupOf(u) = batch /\ job.tasks[u].dev = d
  BY <1>1, Places
<1>3. TaskId' = TaskId
  BY SameJob
<1>4. SameDeviceOrder'
  <2> SUFFICES ASSUME NEW t \in TaskId, NEW v \in TaskId,
                      t < v, slot'[v] # Unclaimed,
                      job.tasks[t].grp = job.tasks[v].grp,
                      job.tasks[t].dev = job.tasks[v].dev
               PROVE  HasResult(t, batch_results' \cup test_results)
    BY <1>3 DEF SameDeviceOrder, HasResult
  <2>1. CASE slot[v] # Unclaimed
    <3>1. HasResult(t, batch_results \cup test_results)
      BY <2>1 DEF RInv, SameDeviceOrder
    <3>2. QED
      BY <3>1 DEF HasResult
  <2>2. CASE v = u
    <3>1. t \in TasksOn(batch, d)
      BY <1>1, <1>2, <2>2, Places DEF GroupOf
    <3>2. t \in Int /\ u \in Int
      BY <1>2 DEF TaskId, TaskIds
    <3>3. t \notin remaining[d]
      BY <2>2, <3>2 DEF Least
    <3>4. QED
      BY <3>1, <3>3 DEF HasResult
  <2>3. QED
    BY <2>1, <2>2
<1>5. BatchBarrier'
  <2> SUFFICES ASSUME NEW t \in TaskId, NEW v \in TaskId, slot'[v] # Unclaimed, Known(t),
                      EarlierBatch(job.tasks[t].grp, job.tasks[v].grp)
               PROVE  HasResult(t, test_results)
    BY <1>3 DEF BatchBarrier, EarlierBatch, HasResult, Known
  <2>1. CASE slot[v] # Unclaimed
    BY <2>1 DEF RInv, BatchBarrier
  <2>2. CASE v = u
    <3>1. GroupOf(t) \in GroupId \cup {NoGroup} /\ EarlierBatch(GroupOf(t), batch)
      BY <1>1, <1>2, <2>2, Places DEF GroupOf
    <3>2. batch \in GroupId /\ GroupOf(t) \notin pending \cup {batch}
      <4>1. batch \in GroupId /\ NoGroup \notin GroupId
        BY <1>1, <3>1, Configured DEF RInv, IInv, TypeOK, EarlierBatch
      <4>2. NoGroup \notin pending \cup {batch}
        BY <1>1, <4>1 DEF GroupsNamed, GroupsIn
      <4>3. \A h \in pending \cup {batch} : VisitedBefore(job, batch, h)
        BY <4>1 DEF RInv, Verdicts
      <4>4. QED
        BY <3>1, <4>1, <4>2, <4>3 DEF EarlierBatch
    <3>3. QED
      BY <3>2 DEF RInv, Gathering
  <2>3. QED
    BY <2>1, <2>2
<1>6. QED
  BY <1>4, <1>5

(* Device d hands in the results in "new", none when it was not at a task, and
   goes on to a task it has left, or is done. *)
LEMMA ProgressKept ==
  ASSUME RInv, pc = "batch", UNCHANGED <<job, pc, batch, test_results>>,
         NEW d \in Device, NEW new, batch_results' = batch_results \cup new,
         \A e \in Device \ {d} :
           co'[e] = co[e] /\ current'[e] = current[e] /\ remaining'[e] = remaining[e],
         \/ d \notin Holders /\ new = {}
         \/ d \in Holders /\ \E r \in Outcome(current[d]) : new = {r},
         \/ remaining[d] = {} /\ co'[d] = "finished" /\ remaining'[d] = {}
         \/ \E t \in remaining[d] :
              co'[d] = "claimed" /\ current'[d] = t /\ remaining'[d] = remaining[d] \ {t}
  PROVE  /\ BatchProgress'
         /\ \A t \in TasksOn(batch, d) : t \in remaining[d] \/ HasResult(t, batch_results')
<1>1. /\ job \in Jobs /\ batch_results \subseteq TestResult(job)
      /\ \A e \in Device : remaining[e] \subseteq TasksOn(batch, e)
      /\ \A e \in Holders : current[e] \in TaskId
  BY DEF RInv, IInv, TypeOK, Workers, Holders
<1>2. /\ TaskId' = TaskId
      /\ \A g : TasksOf(g)' = TasksOf(g)
      /\ \A g, e : TasksOn(g, e)' = TasksOn(g, e)
      /\ \A t : Outcome(t)' = Outcome(t)
  BY SameJob DEF Outcome
<1>3. \A e \in Device : TasksOn(batch, e) \subseteq TasksOf(batch) /\ TasksOf(batch) \subseteq TaskId
  BY BatchTasks
<1>4. \A e \in Device \ {d} : e \in Holders' <=> e \in Holders
  BY DEF Holders
<1>5. \A e \in Device \ {d} : TasksOn(batch, e) \cap TasksOn(batch, d) = {}
  BY DEF TasksOn
<1>6. \A r \in new : /\ d \in Holders /\ r.task = current[d] /\ r \in Outcome(r.task)
                     /\ r.task \in TasksOn(batch, d) \ remaining[d]
                     /\ \A q \in new : q = r
  BY <1>1, OutcomeTask DEF RInv, BatchProgress
<1>7. \A t \in TasksOn(batch, d) : t \in remaining[d] \/ HasResult(t, batch_results')
  <2>1. d \in Holders => HasResult(current[d], batch_results')
    BY <1>1, OutcomeTask DEF HasResult
  <2>2. QED
    BY <2>1 DEF RInv, BatchProgress, HasResult
<1>8. \A e \in Device : \A t \in TasksOn(batch, e) :
        t \in remaining'[e] \/ (e \in Holders' /\ t = current'[e]) \/ HasResult(t, batch_results')
  <2>1. \A t \in TasksOn(batch, d) :
          t \in remaining'[d] \/ (d \in Holders' /\ t = current'[d]) \/ HasResult(t, batch_results')
    BY <1>7 DEF Holders
  <2>2. \A e \in Device \ {d} : \A t \in TasksOn(batch, e) :
          t \in remaining'[e] \/ (e \in Holders' /\ t = current'[e]) \/ HasResult(t, batch_results')
    BY <1>4 DEF RInv, BatchProgress, HasResult
  <2>3. QED
    BY <2>1, <2>2
<1>9. \A e \in Holders' : current'[e] \in TasksOn(batch, e) \ remaining'[e]
  <2>1. d \in Holders' => current'[d] \in TasksOn(batch, d) \ remaining'[d]
    BY <1>1 DEF Holders
  <2>2. QED
    BY <1>4, <2>1 DEF RInv, BatchProgress, Holders
<1>10. \A e \in Device : co'[e] \in {"idle", "finished"} => remaining'[e] = {}
  BY DEF RInv, BatchProgress
<1>11. \A r \in batch_results' :
         /\ r.task \in TasksOf(batch) /\ r \in Outcome(r.task)
         /\ \A e \in Device : r.task \notin remaining'[e]
         /\ \A e \in Holders' : r.task # current'[e]
  <2>1. \A e \in Device : remaining'[e] \subseteq remaining[e]
    OBVIOUS
  <2>2. ASSUME NEW r \in batch_results
        PROVE  /\ r.task \in TasksOf(batch) /\ r \in Outcome(r.task)
               /\ \A e \in Device : r.task \notin remaining'[e]
               /\ \A e \in Holders' : r.task # current'[e]
    <3>1. /\ r.task \in TasksOf(batch) /\ r \in Outcome(r.task)
          /\ \A e \in Device : r.task \notin remaining[e]
          /\ \A e \in Holders : r.task # current[e]
      BY DEF RInv, BatchProgress
    <3>2. d \in Holders' => r.task # current'[d]
      BY <3>1 DEF Holders
    <3>3. \A e \in Holders' : r.task # current'[e]
      BY <1>4, <3>1, <3>2 DEF Holders
    <3>4. QED
      BY <2>1, <3>1, <3>3
  <2>3. ASSUME NEW r \in new
        PROVE  /\ r.task \in TasksOf(batch) /\ r \in Outcome(r.task)
               /\ \A e \in Device : r.task \notin remaining'[e]
               /\ \A e \in Holders' : r.task # current'[e]
    <3>1. r.task \in TasksOf(batch) /\ r \in Outcome(r.task)
      BY <1>3, <1>6
    <3>2. \A e \in Device : r.task \notin remaining'[e]
      BY <1>1, <1>5, <1>6, <2>1
    <3>3. \A e \in Holders' : r.task # current'[e]
      <4>1. d \in Holders' => r.task # current'[d]
        BY <1>6 DEF Holders
      <4>2. \A e \in Holders' \ {d} : current'[e] \in TasksOn(batch, e)
        BY <1>9
      <4>3. QED
        BY <1>5, <1>6, <4>1, <4>2 DEF Holders
    <3>4. QED
      BY <3>1, <3>2, <3>3
  <2>4. QED
    BY <2>2, <2>3
<1>12. \A r, q \in batch_results' : r.task = q.task => r = q
  <2>1. \A r \in batch_results : d \in Holders => r.task # current[d]
    BY DEF RInv, BatchProgress
  <2>2. \A r, q \in batch_results : r.task = q.task => r = q
    BY DEF RInv, BatchProgress
  <2>3. QED
    BY <1>6, <2>1, <2>2
<1>13. \A r \in test_results' : r.task \notin TasksOf(batch)
  BY DEF RInv, BatchProgress
<1>14. QED
  BY <1>2, <1>7, <1>8, <1>9, <1>10, <1>11, <1>12, <1>13 DEF BatchProgress

LEMMA AcquireResults ==
  ASSUME RInv, IInv', NEW d \in Device, NEW t \in TaskId, Acquire(d, t)
  PROVE  RInv'
<1>1. /\ UNCHANGED <<job, pc, pending, batch, batch_results, test_results, group_results,
                     execution_cancelled>>
      /\ pc = "batch" /\ co[d] = "waiting"
      /\ t \in remaining[d] /\ Least(t, remaining[d]) /\ Claim(d, t)
  BY DEF Acquire, scoreVars, Least
<1>2. /\ co \in [Device -> CoState] /\ current \in [Device -> TaskId \cup {0}]
      /\ remaining \in [Device -> SUBSET TaskId]
      /\ slot \in [TaskId -> Nat \cup {Unclaimed}]
  BY DEF RInv, IInv, TypeOK
<1>3. /\ co'[d] = "claimed" /\ current'[d] = t /\ remaining'[d] = remaining[d] \ {t}
      /\ \A e \in Device \ {d} :
           co'[e] = co[e] /\ current'[e] = current[e] /\ remaining'[e] = remaining[e]
      /\ \A u \in TaskId : slot'[u] # Unclaimed => slot[u] # Unclaimed \/ u = t
  BY <1>1, <1>2 DEF Claim
<1>4. d \notin Holders /\ batch_results' = batch_results \cup {}
  BY <1>1 DEF Holders
<1>5. /\ BatchProgress'
      /\ \A u \in TasksOn(batch, d) : u \in remaining[d] \/ HasResult(u, batch_results')
  BY <1>1, <1>3, <1>4, ProgressKept
<1>6. SameDeviceOrder' /\ BatchBarrier'
  BY <1>1, <1>3, <1>5, BeginsInOrder
<1>7. QED
  BY <1>1, <1>5, <1>6, InsideBatch DEF RInv

LEMMA RecordResults ==
  ASSUME RInv, IInv', pc = "batch", NEW d \in Device, co[d] \in {"claimed", "executing"},
         NEW r \in Outcome(current[d]), Record(d, r),
         UNCHANGED <<job, pc, pending, batch, scoreVars>>
  PROVE  RInv'
<1>1. UNCHANGED <<test_results, group_results, execution_cancelled>>
  BY DEF scoreVars
<1>2. /\ co \in [Device -> CoState] /\ current \in [Device -> TaskId \cup {0}]
      /\ remaining \in [Device -> SUBSET TaskId]
      /\ slot \in [TaskId -> Nat \cup {Unclaimed}]
  BY DEF RInv, IInv, TypeOK
<1>3. d \in Holders /\ batch_results' = batch_results \cup {r}
  BY DEF Holders, Record
<1>4. CASE remaining[d] = {} /\ co' = [co EXCEPT ![d] = "finished"]
           /\ UNCHANGED <<current, remaining, slotVars>>
  <2>1. /\ co'[d] = "finished" /\ remaining'[d] = {} /\ slot' = slot
        /\ \A e \in Device \ {d} :
             co'[e] = co[e] /\ current'[e] = current[e] /\ remaining'[e] = remaining[e]
    BY <1>2, <1>4 DEF slotVars
  <2>2. BatchProgress'
    BY <1>1, <1>3, <1>4, <2>1, ProgressKept
  <2>3. SameDeviceOrder' /\ BatchBarrier'
    BY <1>1, <1>3, <2>1, OrderKept, BarrierKept DEF RInv
  <2>4. QED
    BY <1>1, <2>2, <2>3, InsideBatch DEF RInv
<1>5. ASSUME NEW t \in remaining[d], Least(t, remaining[d]), Claim(d, t)
      PROVE  RInv'
  <2>1. /\ co'[d] = "claimed" /\ current'[d] = t /\ remaining'[d] = remaining[d] \ {t}
        /\ \A e \in Device \ {d} :
             co'[e] = co[e] /\ current'[e] = current[e] /\ remaining'[e] = remaining[e]
        /\ \A u \in TaskId : slot'[u] # Unclaimed => slot[u] # Unclaimed \/ u = t
    BY <1>2, <1>5 DEF Claim
  <2>2. /\ BatchProgress'
        /\ \A u \in TasksOn(batch, d) : u \in remaining[d] \/ HasResult(u, batch_results')
    BY <1>1, <1>3, <2>1, ProgressKept
  <2>3. SameDeviceOrder' /\ BatchBarrier'
    BY <1>1, <1>3, <1>5, <2>1, <2>2, BeginsInOrder
  <2>4. QED
    BY <1>1, <2>2, <2>3, InsideBatch DEF RInv
<1>6. QED
  BY <1>4, <1>5 DEF Record, Least

(* A step of a coroutine: into a task, through it, or past it. *)
LEMMA WorkerResults ==
  ASSUME RInv, IInv', NEW d \in Device, StartTask(d) \/ EndTask(d) \/ RaiseTask(d)
  PROVE  RInv'
<1>1. CASE StartTask(d)
  <2>1. /\ UNCHANGED <<job, pc, pending, batch, current, remaining, slot, batch_results,
                       test_results, group_results, execution_cancelled>>
        /\ pc = "batch" /\ co[d] = "claimed" /\ co' = [co EXCEPT ![d] = "executing"]
    BY <1>1 DEF StartTask, slotVars, scoreVars
  <2>2. co \in [Device -> CoState]
    BY DEF RInv, IInv, TypeOK
  <2>3. /\ Holders' = Holders
        /\ \A e \in Device : co'[e] \in {"idle", "finished"} => co[e] \in {"idle", "finished"}
    BY <2>1, <2>2 DEF Holders
  <2>4. \A t : Outcome(t)' = Outcome(t)
    BY <2>1 DEF Outcome
  <2>5. BatchProgress'
    BY <2>1, <2>3, <2>4, InsideBatch DEF RInv, BatchProgress
  <2>6. SameDeviceOrder' /\ BatchBarrier'
    BY <2>1, OrderKept, BarrierKept DEF RInv
  <2>7. QED
    BY <2>1, <2>5, <2>6, InsideBatch DEF RInv
<1>2. CASE EndTask(d)
  BY <1>2, RecordResults DEF EndTask
<1>3. CASE RaiseTask(d)
  <2>1. current[d] \in TaskId
    BY <1>3 DEF RaiseTask, RInv, IInv, Workers
  <2>2. QED
    BY <1>3, <2>1, OutcomeTask, RecordResults DEF RaiseTask
<1>4. QED
  BY <1>1, <1>2, <1>3

-----------------------------------------------------------------------------
(* The scoring of a group.                                                 *)

(* The share of all is everything, the share of none is nothing. *)
LEMMA Shares ==
  ASSUME NEW p \in Nat, NEW n \in Nat \ {0}
  PROVE  (p * n) \div n = p /\ (p * 0) \div n = 0
<1>1. p * n = n * p + 0
  BY SMT
<1>2. (p * n) \div n = p
  BY <1>1, SMT
<1>3. p * 0 = 0
  BY SMT
<1>4. 0 \div n = 0
  BY SMT
<1>5. QED
  BY <1>2, <1>3, <1>4

(* The passed results are all of them when they are as many. *)
LEMMA AllPassed ==
  ASSUME NEW rs, IsFiniteSet(rs)
  PROVE  /\ Cardinality(rs) \in Nat /\ Cardinality(Passed(rs)) \in Nat
         /\ Passed(rs) = rs <=> Cardinality(Passed(rs)) = Cardinality(rs)
         /\ Passed(rs) = {} <=> Cardinality(Passed(rs)) = 0
         /\ rs = {} <=> Cardinality(rs) = 0
<1>1. Passed(rs) \subseteq rs
  BY DEF Passed
<1>2. IsFiniteSet(Passed(rs))
  BY <1>1, FS_Subset
<1>3. QED
  BY <1>1, <1>2, FS_Subset, FS_EmptySet, FS_CardinalityType

(* What evaluate_task_group makes of the results of a group that has some. *)
LEMMA Scoring ==
  ASSUME NEW c \in TaskGroup, NEW rs, IsFiniteSet(rs), rs # {}
  PROVE  /\ DOMAIN Evaluate(c, rs) = {"status", "earned", "rescued", "cleaned"}
         /\ Evaluate(c, rs).status # "none"
         /\ ~Evaluate(c, rs).rescued /\ ~Evaluate(c, rs).cleaned
         /\ c.kind \in {"all_or_nothing", "proportional"} =>
              /\ Evaluate(c, rs).status = "passed" <=> Passed(rs) = rs
              /\ Passed(rs) = rs => Evaluate(c, rs).earned = c.pts
              /\ Passed(rs) = {} =>
                   Evaluate(c, rs).earned = 0 /\ Evaluate(c, rs).status = "failed"
              /\ c.kind = "all_or_nothing" /\ Passed(rs) # rs => Evaluate(c, rs).earned = 0
<1>1. c.pts \in Nat
  BY DEF TaskGroup
<1>2. CASE c.kind = "all_or_nothing"
  <2>1. Evaluate(c, rs) = AllOrNothing(c, rs)
    BY <1>2 DEF Evaluate
  <2>2. Passed(rs) = {} => Passed(rs) # rs
    OBVIOUS
  <2>3. QED
    BY <1>2, <2>1, <2>2 DEF AllOrNothing, GroupResult
<1>3. CASE c.kind = "proportional"
  <2>1. Evaluate(c, rs) = Proportional(c, rs)
    BY <1>3 DEF Evaluate
  <2> DEFINE n == Cardinality(rs)
             k == Cardinality(Passed(rs))
  <2>2. /\ n \in Nat \ {0} /\ k \in Nat
        /\ Passed(rs) = rs <=> k = n
        /\ Passed(rs) = {} <=> k = 0
    BY AllPassed
  <2>3. (c.pts * n) \div n = c.pts /\ (c.pts * 0) \div n = 0
    BY <1>1, <2>2, Shares
  <2>4. Proportional(c, rs) =
          GroupResult(IF k = n THEN "passed" ELSE IF k > 0 THEN "partial" ELSE "failed",
                      (c.pts * k) \div n)
    BY DEF Proportional
  <2> HIDE DEF n, k
  <2>5. /\ Proportional(c, rs).status =
             IF k = n THEN "passed" ELSE IF k > 0 THEN "partial" ELSE "failed"
        /\ Proportional(c, rs).earned = (c.pts * k) \div n
        /\ ~Proportional(c, rs).rescued /\ ~Proportional(c, rs).cleaned
        /\ DOMAIN Proportional(c, rs) = {"status", "earned", "rescued", "cleaned"}
    BY <2>4 DEF GroupResult
  <2>6. k = n => (c.pts * k) \div n = c.pts
    BY <2>3
  <2>7. k = 0 => (c.pts * k) \div n = 0
    BY <2>3
  <2>8. QED
    BY <1>3, <2>1, <2>2, <2>5, <2>6, <2>7
<1>4. CASE c.kind \notin {"all_or_nothing", "proportional"}
  <2>1. Evaluate(c, rs) = GroupResult("error", 0)
    BY <1>4 DEF Evaluate
  <2>2. QED
    BY <1>4, <2>1 DEF GroupResult
<1>5. QED
  BY <1>2, <1>3, <1>4

-----------------------------------------------------------------------------
(* A batch is gathered.                                                    *)

(* Every task of the batch has its one result, and those of other batches
   keep theirs. *)
LEMMA GatheredResults ==
  ASSUME RInv, Gathered, test_results' = test_results \cup batch_results,
         UNCHANGED <<job, pending, batch, slot, batch_results>>,
         pc' \in {"groups", "rescue", "cleanup"}
  PROVE  /\ \A t \in TasksOf(batch) : HasResult(t, batch_results)
         /\ \A r \in batch_results : r.task \in TasksOf(batch)
         /\ batch_results \cap test_results = {}
         /\ \A g : ResultsIn(g)' = IF g = batch THEN batch_results ELSE ResultsIn(g)
         /\ BatchProgress' /\ Gathering' /\ SameDeviceOrder' /\ BatchBarrier'
<1>1. /\ job \in Jobs /\ batch_results \subseteq TestResult(job)
      /\ test_results \subseteq TestResult(job) /\ pending \subseteq GroupsNamed
      /\ batch \in GroupId \cup {NoGroup} /\ pc = "batch" /\ batch \notin pending
  BY DEF RInv, IInv, TypeOK, Slots, Gathered
<1>2. /\ TaskId' = TaskId
      /\ \A t : GroupOf(t)' = GroupOf(t)
  BY SameJob DEF GroupOf
<1>3. \A t \in TasksOf(batch) : HasResult(t, batch_results)
  <2> SUFFICES ASSUME NEW t \in TasksOf(batch) PROVE HasResult(t, batch_results)
    OBVIOUS
  <2>1. t \in TaskId
    BY BatchTasks
  <2>2. PICK d \in Device : t \in TasksOn(batch, d)
    BY <1>1, <2>1, Places
  <2>3. co[d] \in {"idle", "finished"} /\ d \notin Holders
    BY DEF Gathered, Holders
  <2>4. QED
    BY <1>1, <2>2, <2>3 DEF RInv, BatchProgress
<1>4. /\ \A r \in batch_results : r.task \in TasksOf(batch)
      /\ \A r \in test_results : r.task \notin TasksOf(batch)
  BY <1>1 DEF RInv, BatchProgress
<1>5. \A g : ResultsIn(g)' = IF g = batch THEN batch_results ELSE ResultsIn(g)
  <2>1. \A r \in batch_results : job.tasks[r.task].grp = batch
    BY <1>4 DEF TasksOf, TasksIn
  <2>2. \A r \in test_results : job.tasks[r.task].grp # batch
    BY <1>1, <1>4 DEF TasksOf, TasksIn, TestResult
  <2>3. QED
    BY <2>1, <2>2 DEF ResultsIn
<1>6. BatchProgress'
  BY DEF BatchProgress
<1>7. Gathering'
  <2>1. \A r \in batch_results : GroupOf(r.task) \notin pending
    BY <1>1, <1>4 DEF GroupOf, TasksOf, TasksIn
  <2>2. \A r \in test_results' : GroupOf(r.task) \notin pending
    BY <1>1, <2>1 DEF RInv, Gathering
  <2>3. ASSUME NEW t \in TaskId, Known(t), GroupOf(t) \notin pending
        PROVE  HasResult(t, test_results')
    <3>1. CASE GroupOf(t) = batch
      BY <1>1, <1>3, <3>1, Places DEF HasResult
    <3>2. CASE GroupOf(t) # batch
      BY <1>1, <2>3, <3>2 DEF RInv, Gathering, HasResult
    <3>3. QED
      BY <3>1, <3>2
  <2>4. QED
    BY <1>1, <1>2, <2>2, <2>3 DEF Gathering, Known, GroupOf, HasResult
<1>8. SameDeviceOrder' /\ BatchBarrier'
  BY OrderKept, BarrierKept DEF RInv
<1>9. QED
  BY <1>3, <1>4, <1>5, <1>6, <1>7, <1>8

LEMMA GatherUngroupedResults ==
  ASSUME RInv, IInv', GatherUngrouped
  PROVE  RInv'
<1>1. /\ UNCHANGED <<job, pending, batch, slot, batch_results, group_results,
                     execution_cancelled>>
      /\ Gathered /\ pc = "batch" /\ batch = NoGroup /\ pc' = "groups"
      /\ test_results' = test_results \cup batch_results
  BY DEF GatherUngrouped, Gathered, slotVars
<1>2. /\ BatchProgress' /\ Gathering' /\ SameDeviceOrder' /\ BatchBarrier'
      /\ \A g : g # NoGroup => ResultsIn(g)' = ResultsIn(g)
  BY <1>1, GatheredResults
<1>3. /\ Scored' = Scored /\ \A g : Stops(g)' = Stops(g)
      /\ GroupsNamed' = GroupsNamed /\ \A g : TasksOf(g)' = TasksOf(g)
  BY <1>1, SameJob DEF Scored, Stops
<1>4. NoGroup \notin GroupId
  BY JobsAssumption DEF JobsAssumption
<1>5. Verdicts'
  BY <1>1, <1>3, <1>4 DEF RInv, Verdicts, GroupsNamed, GroupsIn
<1>6. Aftermath' /\ CleanupBeforeNext'
  BY <1>1, <1>3 DEF RInv, Aftermath, CleanupBeforeNext, Settled, Stops
<1>7. GroupVerdict'
  BY <1>1, <1>2, <1>3, <1>4 DEF RInv, GroupVerdict, HasResult, Scored
<1>8. QED
  BY <1>2, <1>5, <1>6, <1>7 DEF RInv

(* One result for each of finitely many tasks. *)
LEMMA ResultsFinite ==
  ASSUME NEW ts, IsFiniteSet(ts), NEW rs, \A r \in rs : r.task \in ts,
         \A r, q \in rs : r.task = q.task => r = q
  PROVE  IsFiniteSet(rs)
<1> DEFINE f == [r \in rs |-> r.task]
<1>1. f \in Injection(rs, ts)
  BY DEF Injection, IsInjective
<1>2. QED
  BY <1>1, FS_Injection

(* The group of the batch is scored by its results, as they are gathered, and
   no other group is touched. *)
LEMMA GroupScored ==
  ASSUME RInv, GatherGroup
  PROVE  LET c  == job.groups[batch]
             gr == Evaluate(c, batch_results)
         IN  /\ batch \in DOMAIN job.groups \cap GroupsNamed /\ batch \in GroupId
             /\ batch \notin Scored /\ ~execution_cancelled /\ pc = "batch" /\ Gathered
             /\ c \in TaskGroup
             /\ IsFiniteSet(batch_results) /\ batch_results # {}
             /\ group_results'[batch] = gr
             /\ \A g \in GroupId \ {batch} : group_results'[g] = group_results[g]
             /\ Scored' = Scored \cup {batch}
             /\ execution_cancelled' <=> Stops(batch)'
             /\ \A g \in Scored : ~Stops(g) /\ ~Stops(g)'
<1> DEFINE c  == job.groups[batch]
           gr == Evaluate(c, batch_results)
<1>1. /\ pc = "batch" /\ batch \in GroupId /\ job \in Jobs /\ DOMAIN group_results = GroupId
      /\ Gathered
  BY DEF GatherGroup, Gathered, RInv, IInv, TypeOK
<1>2. batch \in DOMAIN job.groups /\ c \in TaskGroup
  BY <1>1, Configured DEF RInv, IInv, Control
<1>3. batch \in GroupsNamed /\ ~execution_cancelled
  BY <1>1 DEF RInv, Verdicts
<1>4. batch \notin Scored
  BY <1>1, <1>2, <1>3 DEF RInv, Verdicts
<1>5. batch_results # {}
  <2>1. PICK t \in TasksOf(batch) : TRUE
    BY <1>3 DEF GroupsNamed, GroupsIn, TasksOf
  <2>2. HasResult(t, batch_results)
    <3>1. t \in TaskId
      BY BatchTasks
    <3>2. PICK d \in Device : t \in TasksOn(batch, d)
      BY <1>1, <2>1, <3>1, Places
    <3>3. co[d] \in {"idle", "finished"} /\ d \notin Holders
      BY <1>1 DEF Gathered, Holders
    <3>4. QED
      BY <1>1, <3>2, <3>3 DEF RInv, BatchProgress
  <2>3. QED
    BY <2>2 DEF HasResult
<1>6. IsFiniteSet(batch_results)
  <2>1. IsFiniteSet(TasksOf(batch))
    BY <1>1, BatchTasks, TasksFinite
  <2>2. /\ \A r \in batch_results : r.task \in TasksOf(batch)
        /\ \A r, q \in batch_results : r.task = q.task => r = q
    BY <1>1 DEF RInv, BatchProgress
  <2>3. QED
    BY <2>1, <2>2, ResultsFinite
<1>7. /\ group_results'[batch] = gr
      /\ \A g \in GroupId \ {batch} : group_results'[g] = group_results[g]
  BY <1>1 DEF GatherGroup
<1>8. Scored' = Scored \cup {batch}
  <2>1. gr.status # "none"
    BY <1>2, <1>5, <1>6, Scoring
  <2>2. QED
    BY <1>1, <1>7, <2>1 DEF Scored
<1>9. execution_cancelled' <=> Stops(batch)'
  BY <1>7 DEF GatherGroup, Stops
<1>10. \A g \in Scored : ~Stops(g) /\ ~Stops(g)'
  <2>1. \A g \in Scored : ~Stops(g) /\ g \in GroupId \ {batch}
    BY <1>3, <1>4 DEF RInv, Verdicts, Scored
  <2>2. job' = job
    BY DEF GatherGroup
  <2>3. QED
    BY <1>7, <2>1, <2>2 DEF Stops
<1>11. QED
  BY <1>1, <1>2, <1>3, <1>4, <1>5, <1>6, <1>7, <1>8, <1>9, <1>10

LEMMA GatherGroupResults ==
  ASSUME RInv, IInv', GatherGroup
  PROVE  RInv'
<1> DEFINE c  == job.groups[batch]
           gr == Evaluate(c, batch_results)
           stop == gr.status = "failed" /\ ~c.continue
<1>1. /\ UNCHANGED <<job, pending, batch, slot, batch_results>>
      /\ test_results' = test_results \cup batch_results
      /\ \/ stop /\ c.rescue # <<>> /\ pc' = "rescue"
         \/ ~(stop /\ c.rescue # <<>>) /\ c.cleanup # <<>> /\ pc' = "cleanup"
         \/ ~(stop /\ c.rescue # <<>>) /\ c.cleanup = <<>> /\ pc' = "groups"
  BY DEF GatherGroup, slotVars
<1>2. /\ batch \in DOMAIN job.groups \cap GroupsNamed /\ batch \in GroupId
      /\ batch \notin Scored /\ ~execution_cancelled /\ pc = "batch" /\ Gathered
      /\ c \in TaskGroup
      /\ IsFiniteSet(batch_results) /\ batch_results # {}
      /\ group_results'[batch] = gr
      /\ \A g \in GroupId \ {batch} : group_results'[g] = group_results[g]
      /\ Scored' = Scored \cup {batch}
      /\ execution_cancelled' <=> Stops(batch)'
      /\ \A g \in Scored : ~Stops(g) /\ ~Stops(g)'
  BY GroupScored
<1>3. /\ DOMAIN gr = {"status", "earned", "rescued", "cleaned"}
      /\ ~gr.rescued /\ ~gr.cleaned
      /\ c.kind \in {"all_or_nothing", "proportional"} =>
           /\ gr.status = "passed" <=> Passed(batch_results) = batch_results
           /\ Passed(batch_results) = batch_results => gr.earned = c.pts
           /\ Passed(batch_results) = {} => gr.earned = 0 /\ gr.status = "failed"
           /\ c.kind = "all_or_nothing" /\ Passed(batch_results) # batch_results
              => gr.earned = 0
  BY <1>2, Scoring
<1>4. /\ \A t \in TasksOf(batch) : HasResult(t, batch_results)
      /\ \A r \in batch_results : r.task \in TasksOf(batch)
      /\ \A g : ResultsIn(g)' = IF g = batch THEN batch_results ELSE ResultsIn(g)
      /\ BatchProgress' /\ Gathering' /\ SameDeviceOrder' /\ BatchBarrier'
  BY <1>1, <1>2, GatheredResults
<1> HIDE DEF gr
<1>5. /\ GroupsNamed' = GroupsNamed /\ \A g : TasksOf(g)' = TasksOf(g)
      /\ Stops(batch)' <=> stop
      /\ Scored \subseteq GroupId \ {batch}
  BY <1>1, <1>2, SameJob DEF Stops, Scored
<1>6. Verdicts'
  <2>1. \A g \in GroupId : DOMAIN group_results'[g] = {"status", "earned", "rescued", "cleaned"}
    BY <1>2, <1>3 DEF RInv, Verdicts
  <2>2. \A g \in GroupId \ Scored' : group_results'[g] = NoResult
    BY <1>2 DEF RInv, Verdicts
  <2>3. Scored' \subseteq DOMAIN job.groups
    BY <1>2 DEF RInv, Verdicts
  <2>4. execution_cancelled' <=> \E g \in Scored' : Stops(g)'
    BY <1>1, <1>2
  <2>5. \A g \in GroupsNamed \cap DOMAIN job.groups : g \in Scored' <=> g \notin pending
    BY <1>2 DEF RInv, Verdicts, IInv, Slots
  <2>6. pc' \in {"rescue", "cleanup", "groups"}
    BY <1>1
  <2>7. QED
    BY <1>1, <1>5, <2>1, <2>2, <2>3, <2>4, <2>5, <2>6 DEF Verdicts
<1>7. Aftermath'
  <2>1. \A g \in Scored :
          /\ job.groups[g].cleanup # <<>> => group_results'[g].cleaned
          /\ Stops(g)' /\ job.groups[g].rescue # <<>> => group_results'[g].rescued
    BY <1>1, <1>2, <1>5 DEF RInv, Aftermath, Stops
  <2>2. pc' = "rescue" => Stops(batch)' /\ ~group_results'[batch].rescued
                          /\ ~group_results'[batch].cleaned
    BY <1>1, <1>2, <1>3, <1>5
  <2>3. pc' = "cleanup" => /\ ~group_results'[batch].cleaned
                           /\ ~(Stops(batch)' /\ job.groups[batch].rescue # <<>>)
    BY <1>1, <1>2, <1>3, <1>5
  <2>4. /\ pc' = "groups" => job.groups[batch].cleanup = <<>>
        /\ pc' # "rescue" => ~(Stops(batch)' /\ job.groups[batch].rescue # <<>>)
    BY <1>1, <1>2, <1>3, <1>5
  <2>5. pc' \in {"rescue", "cleanup", "groups"}
    BY <1>1
  <2>6. QED
    BY <1>1, <1>2, <2>1, <2>2, <2>3, <2>4, <2>5 DEF Aftermath
<1>8. CleanupBeforeNext'
  <2>1. ASSUME NEW g \in Scored
        PROVE  /\ job.groups[g].cleanup # <<>> => group_results'[g].cleaned
               /\ Stops(g)' /\ job.groups[g].rescue # <<>> => group_results'[g].rescued
               /\ ~group_results'[g].rescued
    BY <1>1, <1>2, <1>5 DEF RInv, Aftermath, CleanupBeforeNext, Stops
  <2>2. /\ pc' = "groups" => /\ job.groups[batch].cleanup = <<>>
                             /\ ~(Stops(batch)' /\ job.groups[batch].rescue # <<>>)
        /\ pc' \in {"rescue", "cleanup", "groups"}
        /\ ~group_results'[batch].cleaned /\ ~group_results'[batch].rescued
    BY <1>1, <1>2, <1>3, <1>5
  <2>3. QED
    BY <1>1, <1>2, <2>1, <2>2 DEF CleanupBeforeNext, Stops, Settled
<1>9. GroupVerdict'
  <2>1. (\A t \in TasksOf(batch) : HasResult(t, Passed(batch_results)))
        <=> Passed(batch_results) = batch_results
    <3>1. \A r, q \in batch_results : r.task = q.task => r = q
      BY <1>2 DEF RInv, BatchProgress
    <3>2. Passed(batch_results) \subseteq batch_results
      BY DEF Passed
    <3>3. QED
      BY <1>4, <3>1, <3>2 DEF HasResult
  <2>2. \A g \in Scored : ResultsIn(g)' = ResultsIn(g) /\ group_results'[g] = group_results[g]
    BY <1>2, <1>4, <1>5
  <2>3. ResultsIn(batch)' = batch_results
    BY <1>1, <1>4
  <2>4. QED
    BY <1>1, <1>2, <1>3, <1>5, <2>1, <2>2, <2>3 DEF RInv, GroupVerdict, HasResult
<1>10. QED
  BY <1>4, <1>6, <1>7, <1>8, <1>9 DEF RInv

(* A rescue or cleanup task ends; after the last one the group is marked. *)
LEMMA EndAuxResults ==
  ASSUME RInv, IInv', EndAux
  PROVE  RInv'
<1> DEFINE c == job.groups[batch]
<1>1. /\ UNCHANGED <<job, pending, batch, slot, batch_results, test_results,
                     execution_cancelled>>
      /\ pc \in {"rescue", "cleanup"}
      /\ \/ pc' = pc /\ group_results' = group_results
         \/ /\ pc = "rescue" /\ pc' = IF c.cleanup = <<>> THEN "groups" ELSE "cleanup"
            /\ group_results' = [group_results EXCEPT ![batch].rescued = TRUE]
         \/ /\ pc = "cleanup" /\ pc' = "groups"
            /\ group_results' = [group_results EXCEPT ![batch].cleaned = TRUE]
  BY DEF EndAux, AfterRescue, slotVars
<1>2. /\ batch \in Scored /\ DOMAIN group_results = GroupId /\ job \in Jobs
      /\ DOMAIN group_results[batch] = {"status", "earned", "rescued", "cleaned"}
  BY <1>1 DEF RInv, IInv, TypeOK, Aftermath, Verdicts, Scored
<1>3. /\ \A g \in GroupId \ {batch} : group_results'[g] = group_results[g]
      /\ \A g \in GroupId : /\ group_results'[g].status = group_results[g].status
                            /\ group_results'[g].earned = group_results[g].earned
                            /\ DOMAIN group_results'[g] = DOMAIN group_results[g]
      /\ \/ pc' = pc /\ group_results' = group_results
         \/ /\ pc = "rescue" /\ pc' = IF c.cleanup = <<>> THEN "groups" ELSE "cleanup"
            /\ group_results'[batch].rescued
            /\ group_results'[batch].cleaned = group_results[batch].cleaned
         \/ /\ pc = "cleanup" /\ pc' = "groups"
            /\ group_results'[batch].rescued = group_results[batch].rescued
            /\ group_results'[batch].cleaned
  BY <1>1, <1>2 DEF Scored
<1>4. /\ Scored' = Scored /\ Scored \subseteq GroupId
      /\ GroupsNamed' = GroupsNamed
      /\ \A g \in GroupId : Stops(g)' <=> Stops(g)
      /\ \A g : ResultsIn(g)' = ResultsIn(g) /\ TasksOf(g)' = TasksOf(g)
  BY <1>1, <1>3, SameJob DEF Scored, Stops, ResultsIn
<1>5. BatchProgress' /\ Gathering'
  <2>1. BatchProgress'
    BY <1>1 DEF BatchProgress
  <2>2. TaskId' = TaskId /\ \A t : GroupOf(t)' = GroupOf(t)
    BY <1>1, SameJob DEF GroupOf
  <2>3. QED
    BY <1>1, <1>4, <2>1, <2>2 DEF RInv, Gathering, Known
<1>6. Verdicts'
  <2>1. \A g \in GroupId \ Scored' : group_results'[g] = NoResult
    BY <1>2, <1>3, <1>4 DEF RInv, Verdicts
  <2>2. \A g \in GroupId : DOMAIN group_results'[g] = {"status", "earned", "rescued", "cleaned"}
    BY <1>3 DEF RInv, Verdicts
  <2>3. execution_cancelled' <=> \E g \in Scored' : Stops(g)'
    BY <1>1, <1>4 DEF RInv, Verdicts
  <2>4. pc' \in {"rescue", "cleanup", "groups"}
    BY <1>1
  <2>5. Scored' \subseteq DOMAIN job.groups
    BY <1>4 DEF RInv, Verdicts
  <2>6. QED
    BY <1>1, <1>4, <2>1, <2>2, <2>3, <2>4, <2>5 DEF RInv, Verdicts
<1>7. Aftermath' /\ CleanupBeforeNext'
  <2>1. \A g \in Scored \ {batch} :
          /\ job.groups[g].cleanup # <<>> => group_results'[g].cleaned
          /\ Stops(g) /\ job.groups[g].rescue # <<>> => group_results'[g].rescued
          /\ group_results'[g].rescued => Stops(g) /\ execution_cancelled
    BY <1>1, <1>3, <1>4 DEF RInv, Aftermath, CleanupBeforeNext, Stops
  <2>2. /\ pc' = "rescue" => /\ Stops(batch)
                             /\ ~group_results'[batch].rescued /\ ~group_results'[batch].cleaned
        /\ pc' = "cleanup" => /\ ~group_results'[batch].cleaned
                              /\ Stops(batch) /\ c.rescue # <<>> => group_results'[batch].rescued
        /\ pc' = "groups" /\ c.cleanup # <<>> => group_results'[batch].cleaned
        /\ pc' = "groups" /\ Stops(batch) /\ c.rescue # <<>> => group_results'[batch].rescued
    BY <1>1, <1>3 DEF RInv, Aftermath
  <2>3. /\ group_results'[batch].cleaned /\ Stops(batch) /\ c.rescue # <<>>
           => group_results'[batch].rescued
        /\ group_results'[batch].rescued => Stops(batch) /\ execution_cancelled
    <3>1. group_results[batch].rescued => Stops(batch) /\ execution_cancelled
      BY <1>2 DEF RInv, CleanupBeforeNext, Stops
    <3>2. /\ pc = "rescue" => Stops(batch) /\ execution_cancelled
                              /\ ~group_results[batch].cleaned
      BY <1>2 DEF RInv, Aftermath, Verdicts
    <3>3. pc = "cleanup" => /\ ~group_results[batch].cleaned
                            /\ Stops(batch) /\ c.rescue # <<>> => group_results[batch].rescued
      BY DEF RInv, Aftermath
    <3>4. QED
      BY <1>1, <1>3, <3>1, <3>2, <3>3
  <2>4. pc' \in {"rescue", "cleanup", "groups"}
    BY <1>1
  <2>5. batch \in Scored /\ Stops(batch)' <=> batch \in Scored /\ Stops(batch)
    BY <1>1, <1>2, <1>4
  <2>6. Aftermath'
    BY <1>1, <1>2, <1>4, <2>1, <2>2, <2>4 DEF Aftermath
  <2>7. CleanupBeforeNext'
    <3>1. \A g \in Scored :
            /\ pc' = "groups" /\ job.groups[g].cleanup # <<>> => group_results'[g].cleaned
            /\ (pc' = "groups" \/ group_results'[g].cleaned) /\ Stops(g) /\ job.groups[g].rescue # <<>>
               => group_results'[g].rescued
            /\ group_results'[g].rescued => Stops(g) /\ execution_cancelled
      BY <2>1, <2>2, <2>3
    <3>2. QED
      BY <1>1, <1>3, <1>4, <2>4, <3>1 DEF CleanupBeforeNext, Stops, Settled
  <2>8. QED
    BY <2>6, <2>7
<1>8. GroupVerdict'
  BY <1>1, <1>3, <1>4 DEF RInv, GroupVerdict, HasResult
<1>9. SameDeviceOrder' /\ BatchBarrier'
  BY <1>1, OrderKept, BarrierKept DEF RInv
<1>10. QED
  BY <1>5, <1>6, <1>7, <1>8, <1>9 DEF RInv

-----------------------------------------------------------------------------
(* The invariant is kept by every step.                                    *)
LEMMA NextResults == RInv /\ [Next]_vars => RInv'
<1> SUFFICES ASSUME RInv, [Next]_vars PROVE RInv'
  OBVIOUS
<1>1. IInv'
  BY NextInv DEF RInv
<1>2. CASE Main
  <2>1. CASE Prepare \/ NoUngrouped \/ GroupsDone \/ StartAux \/ Report
    BY <1>1, <2>1, ControlResults
  <2>2. CASE RunUngrouped
    BY <1>1, <2>2, OpenBatchResults DEF RunUngrouped
  <2>3. CASE \E g \in GroupId : SkipUnknownGroup(g)
    BY <1>1, <2>3, ControlResults
  <2>4. ASSUME NEW g \in GroupId, RunGroup(g) PROVE RInv'
    BY <1>1, <2>4, OpenBatchResults DEF RunGroup
  <2>5. CASE GatherUngrouped
    BY <1>1, <2>5, GatherUngroupedResults
  <2>6. CASE GatherGroup
    BY <1>1, <2>6, GatherGroupResults
  <2>7. CASE EndAux
    BY <1>1, <2>7, EndAuxResults
  <2>8. QED
    BY <1>2, <2>1, <2>2, <2>3, <2>4, <2>5, <2>6, <2>7 DEF Main
<1>3. ASSUME NEW d \in Device, Worker(d) PROVE RInv'
  <2>1. CASE \E t \in TaskId : Acquire(d, t)
    BY <1>1, <2>1, AcquireResults
  <2>2. CASE StartTask(d) \/ EndTask(d) \/ RaiseTask(d)
    BY <1>1, <2>2, WorkerResults
  <2>3. CASE OrphanEnds(d)
    BY <1>1, <2>3, ControlResults
  <2>4. QED
    BY <1>3, <2>1, <2>2, <2>3 DEF Worker
<1>4. CASE Abort
  BY <1>1, <1>4, ControlResults
<1>5. CASE UNCHANGED vars
  <2>1. UNCHANGED <<job, pc, pending, batch, co, current, remaining, slot, batch_results,
                    test_results, group_results, execution_cancelled>>
    BY <1>5 DEF vars, coVars, slotVars, scoreVars
  <2>2. /\ TaskId' = TaskId /\ GroupsNamed' = GroupsNamed
        /\ \A t : GroupOf(t)' = GroupOf(t) /\ Outcome(t)' = Outcome(t)
        /\ \A g : TasksOf(g)' = TasksOf(g)
        /\ \A g, d : TasksOn(g, d)' = TasksOn(g, d)
        /\ Scored' = Scored /\ Holders' = Holders /\ \A g : Stops(g)' = Stops(g)
    BY <2>1, SameJob DEF GroupOf, Outcome, Scored, Holders, Stops
  <2>3. BatchProgress'
    BY <2>1, <2>2 DEF RInv, BatchProgress
  <2>4. Gathering'
    BY <2>1, <2>2 DEF RInv, Gathering, Known
  <2>5. Verdicts'
    BY <2>1, <2>2 DEF RInv, Verdicts
  <2>6. Aftermath' /\ CleanupBeforeNext'
    BY <2>1, <2>2 DEF RInv, Aftermath, CleanupBeforeNext, Settled, Stops
  <2>7. SameDeviceOrder' /\ BatchBarrier' /\ GroupVerdict'
    BY <2>1, OrderKept, BarrierKept, VerdictKept DEF RInv
  <2>8. QED
    BY <1>1, <2>3, <2>4, <2>5, <2>6, <2>7 DEF RInv
<1>6. QED
  BY <1>2, <1>3, <1>4, <1>5 DEF Next, Over

LEMMA ResultsInductive == Spec => []RInv
BY InitResults, NextResults, PTL DEF Spec

-----------------------------------------------------------------------------
(* When a task has begun, every earlier task of its batch on the same device
   has its result, whatever the job and the interleaving of the devices. *)
THEOREM OrderOnDevice == Spec => []SameDeviceOrder
<1>1. RInv => SameDeviceOrder
  BY DEF RInv
<1>2. QED
  BY <1>1, ResultsInductive, PTL

(* When a task has begun, every task of the earlier batches that are run has
   been gathered. *)
THEOREM BatchesAreBarriers == Spec => []BatchBarrier
<1>1. RInv => BatchBarrier
  BY DEF RInv
<1>2. QED
  BY <1>1, ResultsInductive, PTL

(* The rescue and the cleanup tasks of a group are over, in this order, before
   anything else of the job goes on. *)
THEOREM CleanupFirst == Spec => []CleanupBeforeNext
<1>1. RInv => CleanupBeforeNext
  BY DEF RInv
<1>2. QED
  BY <1>1, ResultsInductive, PTL

(* A group's status and points are what its tasks' results make them, for any
   number of tasks and any points. *)
THEOREM VerdictsFollow == Spec => []GroupVerdict
<1>1. RInv => GroupVerdict
  BY DEF RInv
<1>2. QED
  BY <1>1, ResultsInductive, PTL

-----------------------------------------------------------------------------
(* The implementation of GradingContract, step by step.                    *)

(* What the contract sees of the groups and of the control of the job. *)
VerdictSeen == [g \in GroupId |-> [status |-> group_results[g].status,
                                   earned |-> group_results[g].earned]]
StateSeen == IF pc \in {"returned", "aborted"} THEN pc ELSE "running"

(* The contract reads the same things off a job. *)
LEMMA SameData ==
  /\ \A j, g : Contract!TasksIn(j, g) = TasksIn(j, g)
  /\ \A j : Contract!GroupsIn(j) = GroupsIn(j)
  /\ \A j, g, h : Contract!VisitedBefore(j, g, h) <=> VisitedBefore(j, g, h)
  /\ \A t, p : Contract!Outcomes(t, p) = Outcomes(t, p)
<1>1. \A j, g : Contract!TasksIn(j, g) = TasksIn(j, g)
  BY DEF Contract!TasksIn, Contract!TaskIds, TasksIn, TaskIds
<1>2. \A j : Contract!GroupsIn(j) = GroupsIn(j)
  BY <1>1 DEF Contract!GroupsIn, GroupsIn
<1>3. \A S : Contract!Min(S) = Min(S)
  BY DEF Contract!Min, Min
<1>4. \A j, g, h : Contract!VisitedBefore(j, g, h) <=> VisitedBefore(j, g, h)
  BY <1>1, <1>3 DEF Contract!VisitedBefore, VisitedBefore
<1>5. \A t, p : Contract!Outcomes(t, p) = Outcomes(t, p)
  BY DEF Contract!Outcomes, Outcomes
<1>6. QED
  BY <1>1, <1>2, <1>4, <1>5

(* The contract scores a group the same way. *)
LEMMA SameScoring ==
  ASSUME NEW c, NEW rs
  PROVE  Contract!Evaluate(c, rs) = Evaluate(c, rs)
<1>1. \A S : Contract!Passed(S) = Passed(S)
  BY DEF Contract!Passed, Passed
<1>2. \A S : Contract!Cardinality(S) = Cardinality(S)
  BY DEF Contract!Cardinality, Cardinality
<1>3. \A s, e : Contract!GroupResult(s, e) = GroupResult(s, e)
  BY DEF Contract!GroupResult, GroupResult
<1>4. Contract!AllOrNothing(c, rs) = AllOrNothing(c, rs)
  BY <1>1, <1>3 DEF Contract!AllOrNothing, AllOrNothing
<1>5. Contract!Proportional(c, rs) = Proportional(c, rs)
  BY <1>1, <1>2, <1>3 DEF Contract!Proportional, Proportional
<1>6. QED
  BY <1>3, <1>4, <1>5 DEF Contract!Evaluate, Evaluate

(* Initial states map to initial states. *)
LEMMA InitMaps == Init => Contract!Init
BY DEF Init, Contract!Init, Contract!Open, NoResult

(* In the terms of the contract: what is scored, and whether the job stops. *)
LEMMA Seen ==
  ASSUME RInv
  PROVE  /\ \A g \in GroupId : VerdictSeen[g] = Contract!Open <=> g \notin Scored
         /\ Contract!ToScore = (GroupsNamed \cap DOMAIN job.groups) \ Scored
         /\ Contract!Stopped <=> execution_cancelled
         /\ Contract!Ungrouped = TasksOf(NoGroup)
         /\ Contract!UngroupedDone <=> \A t \in TasksOf(NoGroup) : HasResult(t, test_results)
<1>1. \A g \in GroupId : VerdictSeen[g] = [status |-> group_results[g].status,
                                           earned |-> group_results[g].earned]
  BY DEF VerdictSeen
<1> \A g \in GroupId : VerdictSeen[g].status = group_results[g].status
  <2> SUFFICES ASSUME NEW g \in GroupId
               PROVE  VerdictSeen[g].status = group_results[g].status
    OBVIOUS
  <2> DEFINE seen == [status |-> group_results[g].status, earned |-> group_results[g].earned]
  <2>1. seen.status = group_results[g].status
    OBVIOUS
  <2>2. QED
    BY <1>1, <2>1
<1>2. \A g \in GroupId : VerdictSeen[g] = Contract!Open <=> g \notin Scored
  <2>1. \A g \in GroupId \ Scored : VerdictSeen[g] = Contract!Open
    BY <1>1 DEF RInv, Verdicts, NoResult, Contract!Open
  <2>2. Contract!Open.status = "none"
    BY DEF Contract!Open
  <2>3. \A g \in Scored : g \in GroupId /\ VerdictSeen[g].status # "none"
    BY DEF Scored
  <2>4. QED
    BY <2>1, <2>2, <2>3
<1>3. Contract!ToScore = (GroupsNamed \cap DOMAIN job.groups) \ Scored
  <2>1. Contract!ToScore = {g \in GroupsNamed \cap DOMAIN job.groups :
                              VerdictSeen[g] = Contract!Open}
    BY SameData DEF Contract!ToScore, VerdictSeen, GroupsNamed
  <2>2. GroupsNamed \subseteq GroupId
    BY DEF GroupsNamed, GroupsIn
  <2>3. QED
    BY <1>2, <2>1, <2>2
<1>4. Contract!Stopped <=> execution_cancelled
  <2>1. Contract!Stopped <=> \E g \in DOMAIN job.groups :
                               VerdictSeen[g].status = "failed" /\ ~job.groups[g].continue
    BY DEF Contract!Stopped, VerdictSeen
  <2>2. DOMAIN job.groups \subseteq GroupId
    BY Configured DEF RInv, IInv, TypeOK
  <2>3. Contract!Stopped <=> \E g \in DOMAIN job.groups : Stops(g)
    BY <2>1, <2>2 DEF Stops
  <2>4. \A g \in DOMAIN job.groups : Stops(g) => g \in Scored
    BY <2>2 DEF Stops, Scored
  <2>5. QED
    BY <2>3, <2>4 DEF RInv, Verdicts
<1>5. Contract!Ungrouped = TasksOf(NoGroup)
  BY SameData DEF Contract!Ungrouped, TasksOf
<1>6. Contract!UngroupedDone <=> \A t \in TasksOf(NoGroup) : HasResult(t, test_results)
  BY <1>5 DEF Contract!UngroupedDone, HasResult
<1>7. QED
  BY <1>2, <1>3, <1>4, <1>5, <1>6

(* The ungrouped batch is over by the time a group is run or the job reports. *)
LEMMA UngroupedFirst ==
  ASSUME RInv, pc = "report" \/ (pc = "batch" /\ batch \in GroupId)
  PROVE  \A t \in TasksOf(NoGroup) : HasResult(t, test_results)
<1>1. job \in Jobs /\ pending \subseteq GroupsNamed
  BY DEF RInv, IInv, TypeOK
<1>2. NoGroup \notin pending /\ NoGroup \notin GroupId
  BY <1>1, Configured DEF GroupsNamed, GroupsIn
<1>3. \A t \in TasksOf(NoGroup) : t \in TaskId /\ GroupOf(t) = NoGroup /\ Known(t)
  BY <1>1, BatchTasks, Places DEF Known, GroupOf
<1>4. QED
  BY <1>2, <1>3 DEF RInv, Gathering

(* The results of a gathered batch grade its tasks. *)
LEMMA BatchGrading ==
  ASSUME RInv, Gathered, test_results' = test_results \cup batch_results,
         UNCHANGED <<job, pending, batch, slot, batch_results>>,
         pc' \in {"groups", "rescue", "cleanup"}
  PROVE  /\ test_results \subseteq test_results'
         /\ test_results' \ test_results = batch_results
         /\ Contract!IsGrading(batch_results, TasksOf(batch))
<1>1. /\ \A t \in TasksOf(batch) : HasResult(t, batch_results)
      /\ \A r \in batch_results : r.task \in TasksOf(batch)
      /\ batch_results \cap test_results = {}
  BY GatheredResults
<1>2. /\ \A r \in batch_results : r \in Outcome(r.task)
      /\ \A r, q \in batch_results : r.task = q.task => r = q
  BY DEF RInv, BatchProgress, Gathered
<1>3. Contract!IsGrading(batch_results, TasksOf(batch))
  BY <1>1, <1>2, SameData DEF Contract!IsGrading, HasResult, Outcome
<1>4. QED
  BY <1>1, <1>3

LEMMA GatherUngroupedMaps ==
  ASSUME RInv, GatherUngrouped
  PROVE  Contract!GradeUngrouped \/ UNCHANGED Contract!vars
<1>1. /\ UNCHANGED <<job, pending, batch, slot, batch_results, group_results>>
      /\ Gathered /\ pc = "batch" /\ batch = NoGroup /\ pc' = "groups"
      /\ test_results' = test_results \cup batch_results
  BY DEF GatherUngrouped, Gathered, slotVars
<1>2. /\ test_results \subseteq test_results'
      /\ test_results' \ test_results = batch_results
      /\ Contract!IsGrading(batch_results, Contract!Ungrouped)
  BY <1>1, BatchGrading, Seen
<1>3. VerdictSeen' = VerdictSeen /\ StateSeen' = StateSeen /\ StateSeen = "running"
  BY <1>1 DEF VerdictSeen, StateSeen
<1>4. CASE TasksOf(NoGroup) = {}
  <2>1. \A r \in batch_results : r.task \in TasksOf(NoGroup)
    BY <1>1, GatheredResults
  <2>2. test_results' = test_results
    BY <1>1, <1>4, <2>1
  <2>3. QED
    BY <1>1, <1>3, <2>2 DEF Contract!vars, VerdictSeen, StateSeen
<1>5. CASE TasksOf(NoGroup) # {}
  <2>1. \A r \in test_results : r.task \notin TasksOf(NoGroup)
    BY <1>1 DEF RInv, BatchProgress
  <2>2. ~Contract!UngroupedDone
    BY <1>5, <2>1, Seen DEF HasResult
  <2>3. QED
    BY <1>1, <1>2, <1>3, <2>2 DEF Contract!GradeUngrouped, VerdictSeen, StateSeen
<1>6. QED
  BY <1>4, <1>5

LEMMA GatherGroupMaps ==
  ASSUME RInv, GatherGroup
  PROVE  \E g \in GroupId : Contract!GradeGroup(g)
<1> DEFINE c  == job.groups[batch]
           gr == Evaluate(c, batch_results)
<1>1. /\ UNCHANGED <<job, pending, batch, slot, batch_results>>
      /\ test_results' = test_results \cup batch_results
      /\ pc' \in {"rescue", "cleanup", "groups"}
  BY DEF GatherGroup, slotVars
<1>2. /\ batch \in DOMAIN job.groups \cap GroupsNamed /\ batch \in GroupId
      /\ batch \notin Scored /\ ~execution_cancelled /\ pc = "batch" /\ Gathered
      /\ group_results'[batch] = gr
      /\ \A g \in GroupId \ {batch} : group_results'[g] = group_results[g]
  BY GroupScored
<1>3. /\ test_results \subseteq test_results'
      /\ test_results' \ test_results = batch_results
      /\ Contract!IsGrading(batch_results, TasksOf(batch))
      /\ TasksOf(batch) = Contract!TasksIn(job, batch)
  BY <1>1, <1>2, BatchGrading, SameData DEF TasksOf
<1>4. Contract!UngroupedDone /\ ~Contract!Stopped
  BY <1>2, UngroupedFirst, Seen
<1>5. batch \in Contract!ToScore
  BY <1>2, Seen
<1>6. \A h \in Contract!ToScore : Contract!VisitedBefore(job, batch, h)
  <2>1. \A h \in Contract!ToScore : h \in pending \cup {batch}
    BY <1>2, Seen DEF RInv, Verdicts
  <2>2. \A h \in pending \cup {batch} : VisitedBefore(job, batch, h)
    BY <1>2 DEF RInv, Verdicts
  <2>3. QED
    BY <2>1, <2>2, SameData
<1>7. VerdictSeen' = [VerdictSeen EXCEPT ![batch] = [status |-> gr.status, earned |-> gr.earned]]
  BY <1>2 DEF VerdictSeen
<1>8. gr = Contract!Evaluate(job.groups[batch], test_results' \ test_results)
  BY <1>3, SameScoring
<1>9. StateSeen = "running" /\ StateSeen' = StateSeen
  BY <1>1, <1>2 DEF StateSeen
<1> HIDE DEF gr
<1>10. PICK g \in GroupId : g = batch
  BY <1>2
<1>11. Contract!GradeGroup(g)
  BY <1>1, <1>3, <1>4, <1>5, <1>6, <1>7, <1>8, <1>9, <1>10
     DEF Contract!GradeGroup, VerdictSeen, StateSeen
<1>12. QED
  BY <1>11

LEMMA ReportMaps ==
  ASSUME RInv, Report
  PROVE  Contract!Return
<1>1. pc = "report" /\ pc' = "returned" /\ UNCHANGED <<job, test_results, group_results>>
  BY DEF Report, scoreVars
<1>2. Contract!UngroupedDone
  BY <1>1, UngroupedFirst, Seen
<1>3. execution_cancelled \/ pending = {}
  BY <1>1 DEF RInv, Verdicts
<1>4. Contract!Stopped \/ Contract!ToScore = {}
  BY <1>1, <1>3, Seen DEF RInv, Verdicts
<1>5. QED
  BY <1>1, <1>2, <1>4 DEF Contract!Return

LEMMA AbortMaps ==
  ASSUME Abort
  PROVE  Contract!Abort
BY DEF Abort, Contract!Abort, scoreVars

(* No other step shows. *)
LEMMA OtherStepsStutter ==
  ASSUME RInv,
         \/ Prepare \/ RunUngrouped \/ NoUngrouped \/ GroupsDone \/ StartAux \/ EndAux
         \/ \E g \in GroupId : RunGroup(g) \/ SkipUnknownGroup(g)
         \/ \E d \in Device : Worker(d)
         \/ UNCHANGED vars
  PROVE  UNCHANGED Contract!vars
<1>1. UNCHANGED <<job, test_results>> /\ StateSeen' = StateSeen
  BY DEF Prepare, RunUngrouped, NoUngrouped, GroupsDone, StartAux, EndAux, AfterRescue,
         RunGroup, SkipUnknownGroup, NextGroup, OpenBatch, Worker, Acquire, StartTask,
         EndTask, RaiseTask, OrphanEnds, vars, scoreVars, StateSeen
<1>2. VerdictSeen' = VerdictSeen
  <2>1. CASE EndAux
    <3>1. /\ batch \in GroupId /\ DOMAIN group_results = GroupId
          /\ DOMAIN group_results[batch] = {"status", "earned", "rescued", "cleaned"}
      BY <2>1 DEF EndAux, RInv, IInv, TypeOK, Aftermath, Verdicts, Scored
    <3>2. \/ group_results' = group_results
          \/ group_results' = [group_results EXCEPT ![batch].rescued = TRUE]
          \/ group_results' = [group_results EXCEPT ![batch].cleaned = TRUE]
      BY <2>1 DEF EndAux
    <3>3. \A g \in GroupId : /\ group_results'[g].status = group_results[g].status
                             /\ group_results'[g].earned = group_results[g].earned
      BY <3>1, <3>2
    <3>4. QED
      BY <3>3 DEF VerdictSeen
  <2>2. CASE ~EndAux
    <3>1. group_results' = group_results
      BY <2>2 DEF Prepare, RunUngrouped, NoUngrouped, GroupsDone, StartAux, RunGroup,
         SkipUnknownGroup, NextGroup, OpenBatch, Worker, Acquire, StartTask, EndTask,
         RaiseTask, OrphanEnds, vars, scoreVars
    <3>2. QED
      BY <3>1 DEF VerdictSeen
  <2>3. QED
    BY <2>1, <2>2
<1>3. QED
  BY <1>1, <1>2 DEF Contract!vars, VerdictSeen, StateSeen

(* Every step maps to a step of the contract or to none. *)
LEMMA StepMaps == RInv /\ [Next]_vars => [Contract!Next]_(Contract!vars)
<1> SUFFICES ASSUME RInv, [Next]_vars PROVE Contract!Next \/ UNCHANGED Contract!vars
  OBVIOUS
<1>1. CASE GatherUngrouped
  BY <1>1, GatherUngroupedMaps DEF Contract!Next
<1>2. CASE GatherGroup
  BY <1>2, GatherGroupMaps DEF Contract!Next
<1>3. CASE Report
  BY <1>3, ReportMaps DEF Contract!Next
<1>4. CASE Abort
  BY <1>4, AbortMaps DEF Contract!Next
<1>5. CASE ~(GatherUngrouped \/ GatherGroup \/ Report \/ Abort)
  BY <1>5, OtherStepsStutter DEF Next, Main, Over
<1>6. QED
  BY <1>1, <1>2, <1>3, <1>4, <1>5

(* Grading a job with interleaved devices, rescue and cleanup tasks implements
   the contract: batch after batch, each graded as a whole, in order, with the
   verdicts that follow, until the job is fully graded or stopped. *)
THEOREM Implementation == Spec => RefinesContract
<1>1. Init => Contract!Init
  BY InitMaps
<1>2. RInv /\ [Next]_vars => [Contract!Next]_(Contract!vars)
  BY StepMaps
<1>3. QED
  BY <1>1, <1>2, ResultsInductive, PTL DEF Spec, RefinesContract, Contract!Spec

-----------------------------------------------------------------------------
(* Sums over finite sets: that the recursion by which the folds of the     *)
(* community modules compute a sum is well founded, and that the sum does  *)
(* not depend on the order in which the elements are taken.  The library's *)
(* induction theorems take an operator, which cannot be instantiated here: *)
(* each induction is an argument about a smallest counterexample instead.  *)

Pick(s) == CHOOSE x \in s : TRUE

(* The table of the sums of F over the subsets of S. *)
IsTable(g, S, F) ==
  g = [s \in SUBSET S |-> IF s = {} THEN 0 ELSE F[Pick(s)] + g[s \ {Pick(s)}]]

(* The sum of F over S. *)
Total(F, S) == (CHOOSE g : IsTable(g, S, F))[S]

(* Among sets of subsets of a finite set there is a smallest. *)
LEMMA SmallestSubset ==
  ASSUME NEW S, IsFiniteSet(S), NEW Bad, Bad \subseteq SUBSET S, Bad # {}
  PROVE  \E s \in Bad : \A r \in SUBSET s : r # s => r \notin Bad
<1> DEFINE R == StrictSubsetOrdering(S)
<1>1. IsWellFoundedOn(R, SUBSET S)
  BY FS_StrictSubsetOrderingWellFounded, FS_FiniteSubsetsOfFinite
<1>2. \A r, s \in SUBSET S : r \subseteq s /\ r # s => <<r, s>> \in R
  BY DEF StrictSubsetOrdering
<1> HIDE DEF R
<1>3. \E s \in Bad : \A r \in Bad : <<r, s>> \notin R
  BY <1>1, WFMin
<1>4. PICK s \in Bad : \A r \in Bad : <<r, s>> \notin R
  BY <1>3
<1>5. ASSUME NEW r \in SUBSET s, r # s PROVE r \notin Bad
  <2>1. r \in SUBSET S /\ s \in SUBSET S
    OBVIOUS
  <2>2. <<r, s>> \in R
    BY <1>2, <1>5, <2>1
  <2>3. QED
    BY <1>4, <2>2
<1>6. QED
  BY <1>5

LEMMA PickMember ==
  ASSUME NEW s, s # {}
  PROVE  Pick(s) \in s
BY DEF Pick

(* What a table holds. *)
LEMMA TableEntry ==
  ASSUME NEW g, NEW S, NEW F, IsTable(g, S, F), NEW s \in SUBSET S
  PROVE  g[s] = IF s = {} THEN 0 ELSE F[Pick(s)] + g[s \ {Pick(s)}]
BY DEF IsTable

(* Tables agree where both are defined. *)
LEMMA TablesAgree ==
  ASSUME NEW S, NEW U \in SUBSET S, IsFiniteSet(U), NEW F,
         NEW g, IsTable(g, S, F), NEW h, IsTable(h, U, F)
  PROVE  \A s \in SUBSET U : g[s] = h[s]
<1> DEFINE Bad == {s \in SUBSET U : g[s] # h[s]}
<1>1. SUFFICES ASSUME Bad # {} PROVE FALSE
  OBVIOUS
<1>0. Bad \subseteq SUBSET U
  OBVIOUS
<1> HIDE DEF Bad
<1>2. PICK s \in Bad : \A r \in SUBSET s : r # s => r \notin Bad
  BY <1>0, <1>1, SmallestSubset
<1> USE DEF Bad
<1>3. s \in SUBSET U /\ s \in SUBSET S /\ g[s] # h[s]
  OBVIOUS
<1>4. /\ g[s] = IF s = {} THEN 0 ELSE F[Pick(s)] + g[s \ {Pick(s)}]
      /\ h[s] = IF s = {} THEN 0 ELSE F[Pick(s)] + h[s \ {Pick(s)}]
  BY <1>3, TableEntry
<1>5. s # {}
  BY <1>3, <1>4
<1>6. s \ {Pick(s)} \in SUBSET s /\ s \ {Pick(s)} # s
  BY <1>5, PickMember
<1>7. g[s \ {Pick(s)}] = h[s \ {Pick(s)}]
  BY <1>2, <1>3, <1>6
<1>8. QED
  BY <1>3, <1>4, <1>5, <1>7

(* Every finite set has a table. *)
LEMMA TableExists ==
  ASSUME NEW S, IsFiniteSet(S), NEW F
  PROVE  \E g : IsTable(g, S, F)
<1> DEFINE Bad == {s \in SUBSET S : ~\E g : IsTable(g, s, F)}
<1>1. SUFFICES ASSUME Bad # {} PROVE FALSE
  OBVIOUS
<1>0. Bad \subseteq SUBSET S
  OBVIOUS
<1> HIDE DEF Bad
<1>2. PICK T \in Bad : \A r \in SUBSET T : r # T => r \notin Bad
  BY <1>0, <1>1, SmallestSubset
<1> USE DEF Bad
<1>3. \A r \in SUBSET T : r # T => /\ IsFiniteSet(r)
                                   /\ \E g : IsTable(g, r, F)
  BY <1>2, FS_Subset
<1> HIDE DEF Bad
<1> DEFINE table(r) == CHOOSE g : IsTable(g, r, F)
           g == [s \in SUBSET T |->
                   IF s = {} THEN 0 ELSE F[Pick(s)] + Total(F, s \ {Pick(s)})]
<1>4. ASSUME NEW r \in SUBSET T, r # T PROVE IsTable(table(r), r, F)
  BY <1>3, <1>4
<1>5. ASSUME NEW r \in SUBSET T, r # T PROVE g[r] = Total(F, r)
  <2>1. Total(F, r) = table(r)[r]
    BY DEF Total
  <2>2. table(r)[r] = IF r = {} THEN 0 ELSE F[Pick(r)] + table(r)[r \ {Pick(r)}]
    BY <1>4, <1>5, TableEntry
  <2>3. CASE r = {}
    BY <2>1, <2>2, <2>3
  <2>4. CASE r # {}
    <3> DEFINE q == r \ {Pick(r)}
    <3>1. q \in SUBSET r /\ q \in SUBSET T /\ q # T /\ IsFiniteSet(q)
      BY <1>3, <1>5, <2>4, PickMember
    <3>2. table(r)[q] = table(q)[q]
      BY <1>4, <1>5, <3>1, TablesAgree
    <3>3. Total(F, q) = table(q)[q]
      BY DEF Total
    <3>4. QED
      BY <2>1, <2>2, <2>4, <3>2, <3>3
  <2>5. QED
    BY <2>3, <2>4
<1>6. ASSUME NEW s \in SUBSET T
      PROVE  g[s] = IF s = {} THEN 0 ELSE F[Pick(s)] + g[s \ {Pick(s)}]
  <2>1. CASE s = {}
    BY <2>1
  <2>2. CASE s # {}
    <3>1. s \ {Pick(s)} \in SUBSET T /\ s \ {Pick(s)} # T
      BY <2>2, PickMember
    <3>2. g[s \ {Pick(s)}] = Total(F, s \ {Pick(s)})
      BY <1>5, <3>1
    <3>3. g[s] = F[Pick(s)] + Total(F, s \ {Pick(s)})
      BY <2>2
    <3>4. QED
      BY <2>2, <3>2, <3>3
  <2>3. QED
    BY <2>1, <2>2
<1>7. g = [s \in SUBSET T |-> g[s]]
  OBVIOUS
<1> HIDE DEF g
<1>8. IsTable(g, T, F)
  BY <1>6, <1>7 DEF IsTable
<1>9. QED
  BY <1>8 DEF Bad

(* The sum, one element after another, as the fold takes them. *)
LEMMA TotalRecursion ==
  ASSUME NEW S, IsFiniteSet(S), NEW F
  PROVE  Total(F, S) = IF S = {} THEN 0 ELSE F[Pick(S)] + Total(F, S \ {Pick(S)})
<1> DEFINE table(s) == CHOOSE g : IsTable(g, s, F)
           rest == S \ {Pick(S)}
<1>1. rest \in SUBSET S /\ IsFiniteSet(rest)
  BY FS_Subset
<1>2. IsTable(table(S), S, F) /\ IsTable(table(rest), rest, F)
  BY <1>1, TableExists
<1>3. Total(F, S) = table(S)[S] /\ Total(F, rest) = table(rest)[rest]
  BY DEF Total
<1> HIDE DEF table, rest
<1>4. table(S)[S] = IF S = {} THEN 0 ELSE F[Pick(S)] + table(S)[rest]
  BY <1>2, TableEntry DEF rest
<1>5. table(S)[rest] = table(rest)[rest]
  BY <1>1, <1>2, TablesAgree
<1>6. QED
  BY <1>3, <1>4, <1>5 DEF rest

(* A sum of integers is an integer. *)
LEMMA TotalType ==
  ASSUME NEW S, IsFiniteSet(S), NEW F, \A y \in S : F[y] \in Int
  PROVE  Total(F, S) \in Int
<1> DEFINE Bad == {s \in SUBSET S : Total(F, s) \notin Int}
<1>1. SUFFICES ASSUME Bad # {} PROVE FALSE
  OBVIOUS
<1>2. Bad \subseteq SUBSET S
  OBVIOUS
<1> HIDE DEF Bad
<1>3. PICK s \in Bad : \A r \in SUBSET s : r # s => r \notin Bad
  BY <1>1, <1>2, SmallestSubset
<1>4. s \in SUBSET S /\ IsFiniteSet(s) /\ Total(F, s) \notin Int
  BY FS_Subset DEF Bad
<1>5. Total(F, s) = IF s = {} THEN 0 ELSE F[Pick(s)] + Total(F, s \ {Pick(s)})
  BY <1>4, TotalRecursion
<1>6. CASE s = {}
  BY <1>4, <1>5, <1>6
<1>7. CASE s # {}
  <2>1. Pick(s) \in s /\ s \ {Pick(s)} \in SUBSET s /\ s \ {Pick(s)} # s
    BY <1>7, PickMember
  <2>2. Total(F, s \ {Pick(s)}) \in Int
    BY <1>3, <1>4, <2>1 DEF Bad
  <2>3. F[Pick(s)] \in Int
    BY <1>4, <2>1
  <2>4. QED
    BY <1>4, <1>5, <1>7, <2>2, <2>3
<1>8. QED
  BY <1>6, <1>7

(* Any element may be taken first. *)
LEMMA TotalStep ==
  ASSUME NEW S, IsFiniteSet(S), NEW F, \A y \in S : F[y] \in Int
  PROVE  \A x \in S : Total(F, S) = F[x] + Total(F, S \ {x})
<1> DEFINE Bad == {s \in SUBSET S : \E x \in s : Total(F, s) # F[x] + Total(F, s \ {x})}
<1>1. SUFFICES ASSUME Bad # {} PROVE FALSE
  OBVIOUS
<1>2. Bad \subseteq SUBSET S
  OBVIOUS
<1> HIDE DEF Bad
<1>3. PICK s \in Bad : \A r \in SUBSET s : r # s => r \notin Bad
  BY <1>1, <1>2, SmallestSubset
<1>4. s \in SUBSET S /\ \E x \in s : Total(F, s) # F[x] + Total(F, s \ {x})
  BY DEF Bad
<1>5. PICK x \in s : Total(F, s) # F[x] + Total(F, s \ {x})
  BY <1>4
<1>6. PICK p \in s : p = Pick(s)
  BY <1>4, PickMember
<1>7. \A r \in SUBSET s :
        /\ IsFiniteSet(r)
        /\ Total(F, r) \in Int
        /\ r # s => \A y \in r : Total(F, r) = F[y] + Total(F, r \ {y})
  <2>1. \A r \in SUBSET s : IsFiniteSet(r)
    BY <1>4, FS_Subset
  <2>2. \A r \in SUBSET s : Total(F, r) \in Int
    BY <1>4, <2>1, TotalType
  <2>3. QED
    BY <1>3, <1>4, <2>1, <2>2 DEF Bad
<1>8. Total(F, s) = F[p] + Total(F, s \ {p})
  BY <1>6, <1>7, TotalRecursion
<1>9. p # x
  BY <1>5, <1>8
<1>10. Total(F, s \ {p}) = F[x] + Total(F, (s \ {p}) \ {x})
  BY <1>7, <1>9
<1>11. Total(F, s \ {x}) = F[p] + Total(F, (s \ {x}) \ {p})
  BY <1>7, <1>9
<1>12. (s \ {p}) \ {x} = (s \ {x}) \ {p}
  OBVIOUS
<1>13. /\ F[p] \in Int /\ F[x] \in Int
       /\ Total(F, (s \ {x}) \ {p}) \in Int
  BY <1>4, <1>7
<1>14. PICK rest \in Int : rest = Total(F, (s \ {x}) \ {p})
  BY <1>13
<1>15. Total(F, s \ {p}) = F[x] + rest /\ Total(F, s \ {x}) = F[p] + rest
  BY <1>10, <1>11, <1>12, <1>14
<1>16. F[p] + (F[x] + rest) = F[x] + (F[p] + rest)
  BY <1>13
<1>17. QED
  BY <1>5, <1>8, <1>15, <1>16

(* Only the values of the elements count. *)
LEMMA TotalAgree ==
  ASSUME NEW S, IsFiniteSet(S), NEW F, NEW G, \A y \in S : F[y] = G[y]
  PROVE  Total(F, S) = Total(G, S)
<1> DEFINE Bad == {s \in SUBSET S : Total(F, s) # Total(G, s)}
<1>1. SUFFICES ASSUME Bad # {} PROVE FALSE
  OBVIOUS
<1>2. Bad \subseteq SUBSET S
  OBVIOUS
<1> HIDE DEF Bad
<1>3. PICK s \in Bad : \A r \in SUBSET s : r # s => r \notin Bad
  BY <1>1, <1>2, SmallestSubset
<1>4. s \in SUBSET S /\ IsFiniteSet(s) /\ Total(F, s) # Total(G, s)
  BY FS_Subset DEF Bad
<1>5. /\ Total(F, s) = IF s = {} THEN 0 ELSE F[Pick(s)] + Total(F, s \ {Pick(s)})
      /\ Total(G, s) = IF s = {} THEN 0 ELSE G[Pick(s)] + Total(G, s \ {Pick(s)})
  BY <1>4, TotalRecursion
<1>6. Pick(s) \in s /\ s \ {Pick(s)} \in SUBSET s /\ s \ {Pick(s)} # s
  BY <1>4, <1>5, PickMember
<1>7. Total(F, s \ {Pick(s)}) = Total(G, s \ {Pick(s)})
  BY <1>3, <1>4, <1>6 DEF Bad
<1>8. QED
  BY <1>4, <1>5, <1>6, <1>7

Image(m, R) == {m[r] : r \in R}

(* E over R is bounded, element by element, by P over the image of R. *)
Bounded(E, R, m, P) ==
  /\ IsFiniteSet(Image(m, R))
  /\ Total(E, R) \in Int /\ Total(P, Image(m, R)) \in Int
  /\ 0 <= Total(E, R) /\ Total(E, R) <= Total(P, Image(m, R))

(* A sum over R is at most a sum over the images of R, when no two elements
   have the same image and each is worth at most its image. *)
LEMMA TotalOrder ==
  ASSUME NEW R, IsFiniteSet(R), NEW E, NEW P, NEW m,
         \A r, q \in R : m[r] = m[q] => r = q,
         \A r \in R : /\ E[r] \in Int /\ P[m[r]] \in Int
                      /\ 0 <= E[r] /\ E[r] <= P[m[r]]
  PROVE  Bounded(E, R, m, P)
<1> DEFINE Bad == {s \in SUBSET R : ~Bounded(E, s, m, P)}
<1>1. SUFFICES ASSUME Bad # {} PROVE FALSE
  OBVIOUS
<1>2. Bad \subseteq SUBSET R
  OBVIOUS
<1> HIDE DEF Bad
<1>3. PICK s \in Bad : \A r \in SUBSET s : r # s => r \notin Bad
  BY <1>1, <1>2, SmallestSubset
<1>4. s \in SUBSET R /\ ~Bounded(E, s, m, P)
  BY DEF Bad
<1>5. IsFiniteSet(s)
  BY <1>4, FS_Subset
<1>6. CASE s = {}
  <2>1. Image(m, s) = {}
    BY <1>6 DEF Image
  <2>2. Total(E, {}) = 0 /\ Total(P, {}) = 0 /\ IsFiniteSet({})
    BY TotalRecursion, FS_EmptySet
  <2>3. QED
    BY <1>4, <1>6, <2>1, <2>2 DEF Bounded
<1>7. CASE s # {}
  <2>1. PICK x \in s : TRUE
    BY <1>7
  <2>2. PICK rest \in SUBSET R : rest = s \ {x}
    BY <1>4
  <2>3. PICK I : I = Image(m, s)
    OBVIOUS
  <2>4. PICK J : J = Image(m, rest)
    OBVIOUS
  <2>5. I = J \cup {m[x]} /\ m[x] \notin J
    BY <1>4, <2>2, <2>3, <2>4 DEF Image
  <2>6. /\ IsFiniteSet(J) /\ Total(E, rest) \in Int /\ Total(P, J) \in Int
        /\ 0 <= Total(E, rest) /\ Total(E, rest) <= Total(P, J)
    BY <1>3, <2>2, <2>4 DEF Bad, Bounded
  <2>7. /\ E[x] \in Int /\ P[m[x]] \in Int
        /\ 0 <= E[x] /\ E[x] <= P[m[x]]
    BY <1>4
  <2>8. IsFiniteSet(I) /\ \A y \in I : P[y] \in Int
    BY <1>4, <2>3, <2>5, <2>6, FS_AddElement DEF Image
  <2>9. Total(E, s) = E[x] + Total(E, rest)
    BY <1>4, <1>5, <2>2, TotalStep
  <2>10. Total(P, I) = P[m[x]] + Total(P, J)
    <3>1. I \ {m[x]} = J /\ m[x] \in I
      BY <2>5
    <3>2. QED
      BY <2>8, <3>1, TotalStep
  <2>11. QED
    BY <1>4, <2>3, <2>6, <2>7, <2>8, <2>9, <2>10 DEF Bounded
<1>8. QED
  BY <1>6, <1>7

-----------------------------------------------------------------------------
(* The accounts of the job.                                                *)

Pts(f, S) == MapThenSumSet(LAMBDA x : f[x].pts, S)
Earn(f, S) == MapThenSumSet(LAMBDA x : f[x].earned, S)

(* The community modules' fold is the sum: of the points of tasks or
   groups, of what groups earned, of what results earned. *)
LEMMA PtsTotal ==
  ASSUME NEW f, NEW S, IsFiniteSet(S)
  PROVE  Pts(f, S) = Total([x \in S |-> f[x].pts], S)
<1> DEFINE F == [x \in S |-> f[x].pts]
           Is(g) == g = [s \in SUBSET S |->
                           IF s = {} THEN 0 ELSE f[Pick(s)].pts + g[s \ {Pick(s)}]]
           table == CHOOSE g : Is(g)
<1>1. Pts(f, S) = table[S]
  BY DEF Pts, MapThenSumSet, MapThenFoldSet, Pick
<1>2. \A s \in SUBSET S : s # {} => F[Pick(s)] = f[Pick(s)].pts
  BY PickMember
<1> HIDE DEF F
<1>3. \A g : Is(g) <=> IsTable(g, S, F)
  BY <1>2 DEF IsTable
<1>4. \E g : IsTable(g, S, F)
  BY TableExists
<1> HIDE DEF Is
<1>5. \E g : Is(g)
  BY <1>3, <1>4
<1>6. Is(table)
  BY <1>5, Zenon
<1> HIDE DEF table
<1>7. table[S] = Total(F, S)
  BY <1>3, <1>4, <1>6, TablesAgree DEF Total
<1>8. QED
  BY <1>1, <1>7 DEF F

LEMMA EarnTotal ==
  ASSUME NEW f, NEW S, IsFiniteSet(S)
  PROVE  Earn(f, S) = Total([x \in S |-> f[x].earned], S)
<1> DEFINE F == [x \in S |-> f[x].earned]
           Is(g) == g = [s \in SUBSET S |->
                           IF s = {} THEN 0 ELSE f[Pick(s)].earned + g[s \ {Pick(s)}]]
           table == CHOOSE g : Is(g)
<1>1. Earn(f, S) = table[S]
  BY DEF Earn, MapThenSumSet, MapThenFoldSet, Pick
<1>2. \A s \in SUBSET S : s # {} => F[Pick(s)] = f[Pick(s)].earned
  BY PickMember
<1> HIDE DEF F
<1>3. \A g : Is(g) <=> IsTable(g, S, F)
  BY <1>2 DEF IsTable
<1>4. \E g : IsTable(g, S, F)
  BY TableExists
<1> HIDE DEF Is
<1>5. \E g : Is(g)
  BY <1>3, <1>4
<1>6. Is(table)
  BY <1>5, Zenon
<1> HIDE DEF table
<1>7. table[S] = Total(F, S)
  BY <1>3, <1>4, <1>6, TablesAgree DEF Total
<1>8. QED
  BY <1>1, <1>7 DEF F

LEMMA EarnedTotal ==
  ASSUME NEW rs, IsFiniteSet(rs)
  PROVE  EarnedIn(rs) = Total([r \in rs |-> r.earned], rs)
<1> DEFINE F == [r \in rs |-> r.earned]
           Is(g) == g = [s \in SUBSET rs |->
                           IF s = {} THEN 0 ELSE Pick(s).earned + g[s \ {Pick(s)}]]
           table == CHOOSE g : Is(g)
<1>1. EarnedIn(rs) = table[rs]
  BY DEF EarnedIn, MapThenSumSet, MapThenFoldSet, Pick
<1>2. \A s \in SUBSET rs : s # {} => F[Pick(s)] = Pick(s).earned
  BY PickMember
<1> HIDE DEF F
<1>3. \A g : Is(g) <=> IsTable(g, rs, F)
  BY <1>2 DEF IsTable
<1>4. \E g : IsTable(g, rs, F)
  BY TableExists
<1> HIDE DEF Is
<1>5. \E g : Is(g)
  BY <1>3, <1>4
<1>6. Is(table)
  BY <1>5, Zenon
<1> HIDE DEF table
<1>7. table[rs] = Total(F, rs)
  BY <1>3, <1>4, <1>6, TablesAgree DEF Total
<1>8. QED
  BY <1>1, <1>7 DEF F

(* One more group is one more term, of the points and of what is earned. *)
LEMMA PtsAdd ==
  ASSUME NEW f, NEW S, IsFiniteSet(S), NEW x, x \notin S,
         \A y \in S \cup {x} : f[y].pts \in Int
  PROVE  Pts(f, S) \in Int /\ Pts(f, S \cup {x}) = Pts(f, S) + f[x].pts
<1> DEFINE F == [y \in S |-> f[y].pts]
           G == [y \in S \cup {x} |-> f[y].pts]
<1>1. IsFiniteSet(S \cup {x})
  BY FS_AddElement
<1>2. Pts(f, S) = Total(F, S) /\ Pts(f, S \cup {x}) = Total(G, S \cup {x})
  BY <1>1, PtsTotal
<1>3. /\ \A y \in S : F[y] = G[y] /\ F[y] \in Int
      /\ \A y \in S \cup {x} : G[y] \in Int
      /\ G[x] = f[x].pts /\ f[x].pts \in Int
  OBVIOUS
<1> HIDE DEF F, G
<1>4. Total(F, S) \in Int /\ Total(F, S) = Total(G, S)
  BY <1>3, TotalType, TotalAgree
<1>5. PICK T : T = S \cup {x}
  OBVIOUS
<1>6. x \in T /\ T \ {x} = S /\ IsFiniteSet(T) /\ \A y \in T : G[y] \in Int
  BY <1>1, <1>3, <1>5
<1>7. Total(G, T) = G[x] + Total(G, S)
  BY <1>6, TotalStep
<1>8. QED
  BY <1>2, <1>3, <1>4, <1>5, <1>7

LEMMA EarnAdd ==
  ASSUME NEW f, NEW h, NEW S, IsFiniteSet(S), NEW x, x \notin S,
         \A y \in S : h[y].earned = f[y].earned,
         \A y \in S \cup {x} : h[y].earned \in Int
  PROVE  Earn(f, S) \in Int /\ Earn(h, S \cup {x}) = Earn(f, S) + h[x].earned
<1> DEFINE F == [y \in S |-> f[y].earned]
           G == [y \in S \cup {x} |-> h[y].earned]
<1>1. IsFiniteSet(S \cup {x})
  BY FS_AddElement
<1>2. Earn(f, S) = Total(F, S) /\ Earn(h, S \cup {x}) = Total(G, S \cup {x})
  BY <1>1, EarnTotal
<1>3. /\ \A y \in S : F[y] = G[y] /\ F[y] \in Int
      /\ \A y \in S \cup {x} : G[y] \in Int
      /\ G[x] = h[x].earned /\ h[x].earned \in Int
  OBVIOUS
<1> HIDE DEF F, G
<1>4. Total(F, S) \in Int /\ Total(F, S) = Total(G, S)
  BY <1>3, TotalType, TotalAgree
<1>5. PICK T : T = S \cup {x}
  OBVIOUS
<1>6. x \in T /\ T \ {x} = S /\ IsFiniteSet(T) /\ \A y \in T : G[y] \in Int
  BY <1>1, <1>3, <1>5
<1>7. Total(G, T) = G[x] + Total(G, S)
  BY <1>6, TotalStep
<1>8. QED
  BY <1>2, <1>3, <1>4, <1>5, <1>7

(* What groups earned depends on nothing else of them. *)
LEMMA EarnSame ==
  ASSUME NEW f, NEW h, NEW S, IsFiniteSet(S), \A y \in S : h[y].earned = f[y].earned
  PROVE  Earn(h, S) = Earn(f, S)
<1> DEFINE F == [y \in S |-> f[y].earned]
           G == [y \in S |-> h[y].earned]
<1>1. Earn(f, S) = Total(F, S) /\ Earn(h, S) = Total(G, S)
  BY EarnTotal
<1>2. \A y \in S : F[y] = G[y]
  OBVIOUS
<1> HIDE DEF F, G
<1>3. QED
  BY <1>1, <1>2, TotalAgree

(* Nothing adds up to nothing. *)
LEMMA NothingEarned ==
  ASSUME NEW f
  PROVE  Pts(f, {}) = 0 /\ Earn(f, {}) = 0 /\ EarnedIn({}) = 0
<1>1. IsFiniteSet({})
  BY FS_EmptySet
<1>2. \A F : Total(F, {}) = 0
  BY <1>1, TotalRecursion
<1>3. QED
  BY <1>1, <1>2, PtsTotal, EarnTotal, EarnedTotal

(* Results of distinct tasks, each worth at most its task, are worth at most
   the tasks together. *)
LEMMA EarnedAtMost ==
  ASSUME NEW f, NEW rs, IsFiniteSet(rs),
         \A r, q \in rs : r.task = q.task => r = q,
         \A r \in rs : f[r.task].pts \in Int /\ r.earned \in 0 .. f[r.task].pts
  PROVE  LET ts == {r.task : r \in rs}
         IN  EarnedIn(rs) \in Int /\ Pts(f, ts) \in Int
             /\ 0 <= EarnedIn(rs) /\ EarnedIn(rs) <= Pts(f, ts)
<1> DEFINE m == [r \in rs |-> r.task]
           ts == {r.task : r \in rs}
           E == [r \in rs |-> r.earned]
           P == [t \in ts |-> f[t].pts]
<1>1. Image(m, rs) = ts
  BY DEF Image
<1>2. /\ \A r, q \in rs : m[r] = m[q] => r = q
      /\ \A r \in rs : /\ E[r] \in Int /\ P[m[r]] \in Int
                       /\ 0 <= E[r] /\ E[r] <= P[m[r]]
  OBVIOUS
<1> HIDE DEF m, E, P
<1>3. Bounded(E, rs, m, P)
  BY <1>2, TotalOrder
<1> HIDE DEF ts
<1>4. /\ IsFiniteSet(ts) /\ Total(E, rs) \in Int /\ Total(P, ts) \in Int
      /\ 0 <= Total(E, rs) /\ Total(E, rs) <= Total(P, ts)
  BY <1>1, <1>3 DEF Bounded
<1>5. EarnedIn(rs) = Total(E, rs) /\ Pts(f, ts) = Total(P, ts)
  BY <1>4, EarnedTotal, PtsTotal DEF E, P
<1>6. QED
  BY <1>4, <1>5 DEF ts

(* A group earns at most its points: the share of a proportional group is
   rounded down. *)
LEMMA ShareBound ==
  ASSUME NEW p \in Nat, NEW n \in Nat \ {0}, NEW k \in 0 .. n
  PROVE  (p * k) \div n \in 0 .. p
<1>1. PICK z \in Int : z = (p * k) \div n
  OBVIOUS
<1>2. p * k \in Nat /\ p * k <= p * n
  OBVIOUS
<1>3. n * z <= p * k /\ p * k < n * (z + 1)
  BY <1>1, <1>2
<1>4. z <= p
  <2>1. SUFFICES ASSUME z >= p + 1 PROVE FALSE
    BY <1>1
  <2>2. n * z >= n * (p + 1)
    BY <1>1, <2>1
  <2>3. n * (p + 1) = p * n + n
    OBVIOUS
  <2>4. QED
    BY <1>2, <1>3, <2>2, <2>3
<1>5. z >= 0
  <2>1. SUFFICES ASSUME z + 1 <= 0 PROVE FALSE
    BY <1>1
  <2>2. n * (z + 1) <= 0
    BY <1>1, <2>1
  <2>3. QED
    BY <1>2, <1>3, <2>2
<1>6. QED
  BY <1>1, <1>4, <1>5

LEMMA ScoreBound ==
  ASSUME NEW c \in TaskGroup, NEW rs, IsFiniteSet(rs)
  PROVE  Evaluate(c, rs).earned \in 0 .. c.pts
<1>1. c.pts \in Nat
  BY DEF TaskGroup
<1>2. CASE rs # {} /\ c.kind = "all_or_nothing"
  BY <1>1, <1>2 DEF Evaluate, AllOrNothing, GroupResult
<1>3. CASE rs # {} /\ c.kind = "proportional"
  <2> DEFINE n == Cardinality(rs)
             k == Cardinality(Passed(rs))
  <2>1. n \in Nat \ {0} /\ k \in 0 .. n
    <3>1. n \in Nat \ {0} /\ k \in Nat
      BY <1>3, AllPassed
    <3>2. k <= n
      BY FS_Subset DEF Passed
    <3>3. QED
      BY <3>1, <3>2
  <2>2. Evaluate(c, rs).earned = (c.pts * k) \div n
    BY <1>3 DEF Evaluate, Proportional, GroupResult
  <2> HIDE DEF n, k
  <2>3. QED
    BY <1>1, <2>1, <2>2, ShareBound
<1>4. CASE rs = {} \/ c.kind \notin {"all_or_nothing", "proportional"}
  <2>1. Evaluate(c, rs) = GroupResult("error", 0)
    BY <1>4 DEF Evaluate
  <2>2. QED
    BY <1>1, <2>1 DEF GroupResult
<1>5. QED
  BY <1>2, <1>3, <1>4

(* The groups scored are among those the tasks name, so there are finitely
   many, and each has earned at most its points; the ungrouped results have
   earned a whole number. *)
Payable ==
  /\ Scored \subseteq GroupsNamed
  /\ \A g \in Scored : group_results[g].earned \in 0 .. job.groups[g].pts
  /\ EarnedIn(ResultsIn(NoGroup)) \in Int

Graded == {t \in TasksOf(NoGroup) : HasResult(t, test_results)}

AInv == RInv /\ Payable /\ Accounting

(* The accounts, in the terms of the lemmas above. *)
LEMMA Books ==
  Accounting <=>
    /\ total_points_possible = Pts(job.tasks, Graded) + Pts(job.groups, Scored)
    /\ total_points_earned = EarnedIn(ResultsIn(NoGroup)) + Earn(group_results, Scored)
    /\ total_points_earned \in 0 .. total_points_possible
BY DEF Accounting, PointsOf, Graded, Pts, Earn, MapThenSumSet, MapThenFoldSet

LEMMA BooksNext ==
  Accounting' <=>
    /\ total_points_possible' = Pts(job'.tasks, Graded') + Pts(job'.groups, Scored')
    /\ total_points_earned' = EarnedIn(ResultsIn(NoGroup)') + Earn(group_results', Scored')
    /\ total_points_earned' \in 0 .. total_points_possible'
BY DEF Accounting, PointsOf, Graded, Pts, Earn, MapThenSumSet, MapThenFoldSet, EarnedIn

(* The groups named by the tasks of a job are finitely many. *)
LEMMA GroupsFinite ==
  ASSUME job \in Jobs
  PROVE  IsFiniteSet(GroupsNamed)
<1> DEFINE first == [g \in GroupsNamed |-> CHOOSE t : t \in TasksOf(g)]
<1>1. \A g \in GroupsNamed : first[g] \in TasksOf(g) /\ first[g] \in TaskId
  BY DEF GroupsNamed, GroupsIn, TasksOf, TasksIn, TaskId
<1>2. \A g, h \in GroupsNamed : first[g] = first[h] => g = h
  <2> HIDE DEF first
  <2>1. QED
    BY <1>1, Places
<1>3. first \in Injection(GroupsNamed, TaskId)
  BY <1>1, <1>2 DEF Injection, IsInjective
<1>4. QED
  BY <1>3, TasksFinite, FS_Injection

LEMMA InitAccounts == Init => Payable /\ Accounting
<1> SUFFICES ASSUME Init PROVE Payable /\ Accounting
  OBVIOUS
<1>1. Scored = {} /\ Graded = {} /\ ResultsIn(NoGroup) = {}
  BY DEF Init, Scored, NoResult, Graded, HasResult, ResultsIn
<1>2. /\ total_points_possible = 0 /\ total_points_earned = 0
      /\ \A f : Pts(f, {}) = 0 /\ Earn(f, {}) = 0
      /\ EarnedIn({}) = 0
  BY NothingEarned DEF Init
<1>3. Accounting
  BY <1>1, <1>2, Books
<1>4. QED
  BY <1>1, <1>2, <1>3 DEF Payable

(* The accounts stand as long as nothing is gathered, whatever else is noted
   of the groups. *)
LEMMA AccountsKept ==
  ASSUME AInv, UNCHANGED <<job, test_results, total_points_possible, total_points_earned>>,
         \A g \in GroupId : /\ group_results'[g].status = group_results[g].status
                            /\ group_results'[g].earned = group_results[g].earned
  PROVE  Payable' /\ Accounting'
<1>1. /\ Scored' = Scored /\ GroupsNamed' = GroupsNamed /\ Scored \subseteq GroupId
      /\ Graded' = Graded /\ ResultsIn(NoGroup)' = ResultsIn(NoGroup)
  BY SameJob DEF Scored, Graded, ResultsIn, HasResult
<1>2. IsFiniteSet(Scored)
  BY GroupsFinite, FS_Subset DEF AInv, RInv, IInv, TypeOK, Payable
<1>3. Earn(group_results', Scored) = Earn(group_results, Scored)
  BY <1>1, <1>2, EarnSame
<1>4. Payable'
  BY <1>1 DEF AInv, Payable
<1>5. Accounting'
  BY <1>1, <1>3, Books, BooksNext DEF AInv
<1>6. QED
  BY <1>4, <1>5

(* What all groups scored so far were worth and earned are whole numbers. *)
LEMMA ScoredSums ==
  ASSUME AInv
  PROVE  /\ IsFiniteSet(Scored)
         /\ Pts(job.groups, Scored) \in Int /\ Earn(group_results, Scored) \in Int
         /\ \A g \in Scored : job.groups[g].pts \in Nat /\ group_results[g].earned \in Nat
<1>1. IsFiniteSet(Scored)
  BY GroupsFinite, FS_Subset DEF AInv, RInv, IInv, TypeOK, Payable
<1>2. \A g \in Scored : job.groups[g].pts \in Nat /\ group_results[g].earned \in Nat
  <2>1. \A g \in Scored : job.groups[g].pts \in Nat
    BY Configured DEF AInv, RInv, IInv, TypeOK, Verdicts, TaskGroup
  <2>2. QED
    BY <2>1 DEF AInv, Payable
<1> DEFINE F == [g \in Scored |-> job.groups[g].pts]
           G == [g \in Scored |-> group_results[g].earned]
<1>3. \A g \in Scored : F[g] \in Int /\ G[g] \in Int
  BY <1>2
<1>4. Pts(job.groups, Scored) = Total(F, Scored) /\ Earn(group_results, Scored) = Total(G, Scored)
  BY <1>1, PtsTotal, EarnTotal
<1> HIDE DEF F, G
<1>5. QED
  BY <1>1, <1>2, <1>3, <1>4, TotalType

(* The ungrouped batch: its results are worth at most its tasks. *)
LEMMA GatherUngroupedAccounts ==
  ASSUME AInv, GatherUngrouped
  PROVE  Payable' /\ Accounting'
<1>1. /\ Gathered /\ batch = NoGroup /\ pc = "batch" /\ job \in Jobs
      /\ test_results' = test_results \cup batch_results
      /\ UNCHANGED <<job, pending, batch, slot, batch_results, group_results>>
      /\ pc' \in {"groups", "rescue", "cleanup"}
      /\ total_points_possible' = total_points_possible + PointsOf(TasksOf(NoGroup))
      /\ total_points_earned' = total_points_earned + EarnedIn(batch_results)
  BY DEF GatherUngrouped, Gathered, slotVars, AInv, RInv, IInv, TypeOK
<1>2. /\ \A t \in TasksOf(NoGroup) : HasResult(t, batch_results)
      /\ \A r \in batch_results : r.task \in TasksOf(NoGroup)
      /\ \A g : ResultsIn(g)' = IF g = NoGroup THEN batch_results ELSE ResultsIn(g)
  BY <1>1, GatheredResults DEF AInv
<1>3. /\ \A r \in test_results : r.task \notin TasksOf(NoGroup)
      /\ \A r \in batch_results : r \in Outcome(r.task)
      /\ \A r, q \in batch_results : r.task = q.task => r = q
  BY <1>1 DEF AInv, RInv, BatchProgress
<1>4. Graded = {} /\ ResultsIn(NoGroup) = {}
  <2>1. Graded = {}
    BY <1>3 DEF Graded, HasResult
  <2>2. \A r \in test_results : r.task \in TaskId
    BY DEF AInv, RInv, IInv, TypeOK, TestResult, TaskId
  <2>3. QED
    BY <1>1, <1>3, <2>1, <2>2, Places DEF ResultsIn, GroupOf
<1>5. Graded' = TasksOf(NoGroup)
  BY <1>1, <1>2, SameJob DEF Graded, HasResult
<1>6. {r.task : r \in batch_results} = TasksOf(NoGroup)
  BY <1>2 DEF HasResult
<1>7. IsFiniteSet(batch_results)
  <2>1. IsFiniteSet(TasksOf(NoGroup))
    BY <1>1, BatchTasks, TasksFinite
  <2>2. QED
    BY <1>2, <1>3, <2>1, ResultsFinite
<1>8. \A r \in batch_results :
        job.tasks[r.task].pts \in Int /\ r.earned \in 0 .. job.tasks[r.task].pts
  <2>1. SUFFICES ASSUME NEW r \in batch_results
                 PROVE  job.tasks[r.task].pts \in Int /\ r.earned \in 0 .. job.tasks[r.task].pts
    OBVIOUS
  <2>2. r.task \in TaskId /\ r \in Outcome(r.task)
    BY <1>2, <1>3, BatchTasks
  <2>3. job.tasks[r.task].pts \in Nat
    BY <1>1, <2>2, TaskType DEF Task
  <2>4. QED
    BY <2>2, <2>3 DEF Outcome, Outcomes
<1>9. /\ EarnedIn(batch_results) \in Int /\ Pts(job.tasks, TasksOf(NoGroup)) \in Int
      /\ 0 <= EarnedIn(batch_results)
      /\ EarnedIn(batch_results) <= Pts(job.tasks, TasksOf(NoGroup))
  BY <1>3, <1>6, <1>7, <1>8, EarnedAtMost
<1>10. PointsOf(TasksOf(NoGroup)) = Pts(job.tasks, TasksOf(NoGroup))
  BY DEF PointsOf, Pts, MapThenSumSet, MapThenFoldSet
<1>11. /\ total_points_possible = Pts(job.groups, Scored)
       /\ total_points_earned = Earn(group_results, Scored)
       /\ total_points_earned \in 0 .. total_points_possible
       /\ Pts(job.groups, Scored) \in Int /\ Earn(group_results, Scored) \in Int
  <2>1. Pts(job.tasks, {}) = 0 /\ EarnedIn({}) = 0
    BY NothingEarned
  <2>2. Pts(job.groups, Scored) \in Int /\ Earn(group_results, Scored) \in Int
    BY ScoredSums
  <2>3. QED
    BY <1>4, <2>1, <2>2, Books DEF AInv
<1>12. Scored' = Scored /\ GroupsNamed' = GroupsNamed
  BY <1>1, SameJob DEF Scored
<1>13. Payable'
  BY <1>1, <1>2, <1>9, <1>12 DEF AInv, Payable
<1>14. Accounting'
  <2>1. /\ total_points_possible' = Pts(job'.tasks, Graded') + Pts(job'.groups, Scored')
        /\ total_points_earned' = EarnedIn(ResultsIn(NoGroup)') + Earn(group_results', Scored')
    BY <1>1, <1>2, <1>5, <1>9, <1>10, <1>11, <1>12
  <2>2. total_points_earned' \in 0 .. total_points_possible'
    BY <1>1, <1>9, <1>10, <1>11
  <2>3. QED
    BY <2>1, <2>2, BooksNext
<1>15. QED
  BY <1>13, <1>14

(* A group's batch: one group more, and it earns at most its points. *)
LEMMA GatherGroupAccounts ==
  ASSUME AInv, GatherGroup
  PROVE  Payable' /\ Accounting'
<1> DEFINE c  == job.groups[batch]
           gr == Evaluate(c, batch_results)
<1>1. /\ Gathered /\ batch \in GroupId /\ job \in Jobs /\ NoGroup \notin GroupId
      /\ test_results' = test_results \cup batch_results
      /\ UNCHANGED <<job, pending, batch, slot, batch_results>>
      /\ pc' \in {"groups", "rescue", "cleanup"}
      /\ total_points_possible' = total_points_possible + c.pts
      /\ total_points_earned' = total_points_earned + gr.earned
  BY Configured DEF GatherGroup, slotVars, AInv, RInv, IInv, TypeOK
<1>2. /\ batch \in GroupsNamed /\ batch \notin Scored /\ c \in TaskGroup
      /\ IsFiniteSet(batch_results)
      /\ group_results'[batch] = gr
      /\ \A g \in GroupId \ {batch} : group_results'[g] = group_results[g]
      /\ Scored' = Scored \cup {batch}
  BY <1>1, GroupScored DEF AInv
<1>3. gr.earned \in 0 .. c.pts /\ c.pts \in Nat
  BY <1>2, ScoreBound DEF TaskGroup
<1> HIDE DEF gr
<1>4. ResultsIn(NoGroup)' = ResultsIn(NoGroup)
  <2>1. \A g : ResultsIn(g)' = IF g = batch THEN batch_results ELSE ResultsIn(g)
    BY <1>1, GatheredResults DEF AInv
  <2>2. QED
    BY <1>1, <2>1
<1>5. Graded' = Graded
  <2>1. \A r \in batch_results : r.task \in TasksOf(batch)
    BY <1>1, GatheredResults DEF AInv
  <2>2. \A t \in TasksOf(NoGroup) : t \notin TasksOf(batch)
    BY <1>1 DEF TasksOf, TasksIn
  <2>3. QED
    BY <1>1, <2>1, <2>2, SameJob DEF Graded, HasResult
<1>6. /\ IsFiniteSet(Scored)
      /\ Pts(job.groups, Scored) \in Int /\ Earn(group_results, Scored) \in Int
      /\ \A g \in Scored : job.groups[g].pts \in Nat /\ group_results[g].earned \in Nat
  BY ScoredSums
<1>7. \A g \in Scored : g \in GroupId \ {batch} /\ group_results'[g] = group_results[g]
  BY <1>2 DEF Scored
<1>8. Pts(job.groups, Scored \cup {batch}) = Pts(job.groups, Scored) + c.pts
  <2>1. \A g \in Scored \cup {batch} : job.groups[g].pts \in Int
    BY <1>3, <1>6
  <2>2. QED
    BY <1>2, <1>6, <2>1, PtsAdd
<1>9. Earn(group_results', Scored \cup {batch}) = Earn(group_results, Scored) + gr.earned
  <2>1. \A g \in Scored \cup {batch} : group_results'[g].earned \in Int
    BY <1>2, <1>3, <1>6, <1>7
  <2>2. \A g \in Scored : group_results'[g].earned = group_results[g].earned
    BY <1>7
  <2>3. QED
    BY <1>2, <1>6, <2>1, <2>2, EarnAdd
<1>10. Payable'
  <2>1. GroupsNamed' = GroupsNamed
    BY <1>1, SameJob
  <2>2. QED
    BY <1>1, <1>2, <1>3, <1>4, <1>7, <2>1 DEF AInv, Payable
<1>11. Accounting'
  <2>1. /\ total_points_possible = Pts(job.tasks, Graded) + Pts(job.groups, Scored)
        /\ total_points_earned = EarnedIn(ResultsIn(NoGroup)) + Earn(group_results, Scored)
        /\ total_points_earned \in 0 .. total_points_possible
    BY Books DEF AInv
  <2>2. Pts(job.tasks, Graded) \in Int /\ EarnedIn(ResultsIn(NoGroup)) \in Int
    <3> DEFINE F == [t \in Graded |-> job.tasks[t].pts]
    <3>1. Graded \in SUBSET TaskId
      BY BatchTasks DEF Graded
    <3>2. IsFiniteSet(Graded)
      BY <1>1, <3>1, TasksFinite
    <3>3. \A t \in Graded : F[t] \in Int
      BY <1>1, <3>1, TaskType DEF Task
    <3>4. Pts(job.tasks, Graded) = Total(F, Graded)
      BY <3>2, PtsTotal
    <3> HIDE DEF F
    <3>5. QED
      BY <3>2, <3>3, <3>4, TotalType DEF AInv, Payable
  <2>3. /\ total_points_possible' = Pts(job'.tasks, Graded') + Pts(job'.groups, Scored')
        /\ total_points_earned' = EarnedIn(ResultsIn(NoGroup)') + Earn(group_results', Scored')
    BY <1>1, <1>2, <1>3, <1>4, <1>5, <1>6, <1>8, <1>9, <2>1, <2>2
  <2>4. total_points_earned' \in 0 .. total_points_possible'
    BY <1>1, <1>3, <2>1, <2>2, <1>6
  <2>5. QED
    BY <2>3, <2>4, BooksNext
<1>12. QED
  BY <1>10, <1>11

LEMMA NextAccounts == AInv /\ [Next]_vars => AInv'
<1> SUFFICES ASSUME AInv, [Next]_vars PROVE AInv'
  OBVIOUS
<1>1. RInv'
  BY NextResults DEF AInv
<1>2. CASE GatherUngrouped
  BY <1>1, <1>2, GatherUngroupedAccounts DEF AInv
<1>3. CASE GatherGroup
  BY <1>1, <1>3, GatherGroupAccounts DEF AInv
<1>4. CASE EndAux
  <2>1. /\ UNCHANGED <<job, test_results, total_points_possible, total_points_earned>>
        /\ pc \in {"rescue", "cleanup"}
        /\ \/ group_results' = group_results
           \/ group_results' = [group_results EXCEPT ![batch].rescued = TRUE]
           \/ group_results' = [group_results EXCEPT ![batch].cleaned = TRUE]
    BY <1>4 DEF EndAux
  <2>2. /\ DOMAIN group_results = GroupId /\ batch \in GroupId
        /\ DOMAIN group_results[batch] = {"status", "earned", "rescued", "cleaned"}
    BY <2>1 DEF AInv, RInv, IInv, TypeOK, Aftermath, Verdicts, Scored
  <2>3. \A g \in GroupId : /\ group_results'[g].status = group_results[g].status
                           /\ group_results'[g].earned = group_results[g].earned
    BY <2>1, <2>2
  <2>4. QED
    BY <1>1, <2>1, <2>3, AccountsKept DEF AInv
<1>5. ASSUME UNCHANGED <<job, test_results, total_points_possible, total_points_earned,
                         group_results>>
      PROVE  AInv'
  BY <1>1, <1>5, AccountsKept DEF AInv
<1>6. CASE Main
  <2>1. CASE \/ Prepare \/ NoUngrouped \/ GroupsDone \/ StartAux \/ Report \/ RunUngrouped
             \/ \E g \in GroupId : RunGroup(g) \/ SkipUnknownGroup(g)
    BY <1>5, <2>1 DEF Prepare, NoUngrouped, GroupsDone, StartAux, Report, RunUngrouped,
                      RunGroup, SkipUnknownGroup, NextGroup, OpenBatch, scoreVars
  <2>2. QED
    BY <1>2, <1>3, <1>4, <1>6, <2>1 DEF Main
<1>7. CASE (\E d \in Device : Worker(d)) \/ Abort \/ UNCHANGED vars
  BY <1>5, <1>7 DEF Worker, Acquire, StartTask, EndTask, RaiseTask, OrphanEnds, Abort, vars,
                    scoreVars
<1>8. QED
  BY <1>6, <1>7 DEF Next, Over

(* The totals are exactly what the gathered results and the scored groups add
   up to, in whatever order they came, and never more is earned than was
   possible; for any number of tasks and groups and any points. *)
THEOREM BooksBalance == Spec => []Accounting
<1>1. Init => AInv
  BY InitResults, InitAccounts DEF AInv
<1>2. AInv => Accounting
  BY DEF AInv
<1>3. QED
  BY <1>1, <1>2, NextAccounts, PTL DEF Spec

=============================================================================
