---------------------------- MODULE GradingJobs ----------------------------
(***************************************************************************)
(* The data of a grading job and the scoring of its groups: what           *)
(* app/schemas/models.py declares and ScoringService computes.  The        *)
(* operators take the job as a parameter, so that the contract of the      *)
(* grading service and its implementation share them.                      *)
(***************************************************************************)
EXTENDS Integers, Sequences, FiniteSets, FiniteSetsExt

CONSTANTS
  Device,   \* execution_device ids
  GroupId,  \* group_id values
  NoGroup,  \* the absent group_id
  Jobs      \* the jobs considered

(* A NetworkTask; its points are scaled to integers. *)
Task == [dev : Device, grp : GroupId \cup {NoGroup}, pts : Nat]

(* A TaskGroup; a rescue or cleanup task is only the device it runs on. *)
TaskGroup == [kind : STRING, pts : Nat, continue : BOOLEAN,
              rescue : Seq(Device), cleanup : Seq(Device)]

(* part.groups is a lookup table: a task may name a group it lacks. *)
IsGradingJob(j) ==
  /\ j.tasks \in Seq(Task)
  /\ DOMAIN j.groups \subseteq GroupId
  /\ \A g \in DOMAIN j.groups : j.groups[g] \in TaskGroup

ASSUME JobsAssumption ==
  /\ NoGroup \notin GroupId
  /\ IsFiniteSet(Device)
  /\ \A j \in Jobs : IsGradingJob(j)

TaskIds(j) == 1 .. Len(j.tasks)

(* get_ungrouped_tasks (g = NoGroup) and one entry of group_tasks_by_id. *)
TasksIn(j, g) == {t \in TaskIds(j) : j.tasks[t].grp = g}

(* The keys of group_tasks_by_id: the groups named by some task. *)
GroupsIn(j) == {g \in GroupId : TasksIn(j, g) # {}}

(* Dictionaries keep insertion order: groups are visited by first task. *)
VisitedBefore(j, g, h) == Min(TasksIn(j, g)) <= Min(TasksIn(j, h))

(* What execute_task may return for task t worth p points.  A custom task
   earns points in proportion to what succeeded: a failed one can earn some,
   and one without validations passes when more than half of its commands
   succeeded. *)
Outcomes(t, p) ==
  [task : {t}, status : {"passed"}, earned : {e \in 0 .. p : 2 * e > p \/ p = 0}]
  \cup [task : {t}, status : {"failed"}, earned : {e \in 0 .. p : e < p \/ p = 0}]
  \cup [task : {t}, status : {"error"}, earned : {0}]

Status == {"passed", "failed", "error"}
TestResult(j) == [task : TaskIds(j), status : Status, earned : Nat]

(* _make_error_result *)
ErrorResult(t) == [task |-> t, status |-> "error", earned |-> 0]

Passed(rs) == {r \in rs : r.status = "passed"}

GroupResult(status, earned) ==
  [status |-> status, earned |-> earned, rescued |-> FALSE, cleaned |-> FALSE]

(* Defect: one passed task is enough. *)
AnyPasses(c, rs) ==
  IF Passed(rs) # {} THEN GroupResult("passed", c.pts) ELSE GroupResult("failed", 0)

(* _evaluate_all_or_nothing_group *)
AllOrNothing(c, rs) ==
  IF Passed(rs) = rs THEN GroupResult("passed", c.pts) ELSE GroupResult("failed", 0)

(* _evaluate_proportional_group; the share is rounded down to whole points. *)
Proportional(c, rs) ==
  LET n == Cardinality(rs)
      k == Cardinality(Passed(rs))
  IN  GroupResult(IF k = n THEN "passed" ELSE IF k > 0 THEN "partial" ELSE "failed",
                  (c.pts * k) \div n)

(* evaluate_task_group: status and points of a group. *)
Evaluate(c, rs) ==
  CASE rs # {} /\ c.kind = "all_or_nothing" -> AllOrNothing(c, rs)
    [] rs # {} /\ c.kind = "proportional"   -> Proportional(c, rs)
    [] OTHER                                -> GroupResult("error", 0)

NoResult == [status |-> "none", earned |-> 0, rescued |-> FALSE, cleaned |-> FALSE]

EarnedIn(rs) == MapThenSumSet(LAMBDA r : r.earned, rs)

=============================================================================
