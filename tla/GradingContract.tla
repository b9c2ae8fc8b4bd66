-------------------------- MODULE GradingContract --------------------------
(***************************************************************************)
(* What the grading of a job promises, whatever runs underneath: batches   *)
(* are graded one after the other, the ungrouped tasks first and then the  *)
(* configured groups in the order of their first tasks; a batch is graded  *)
(* as a whole and its verdict follows from its results; a failed group     *)
(* that does not continue is the last one; a job returns when it is fully  *)
(* graded or stopped, unless it is cancelled from outside.                 *)
(***************************************************************************)
EXTENDS GradingJobs

VARIABLES
  job,      \* the job being graded
  graded,   \* the results so far
  verdict,  \* status and points of each group
  state     \* "running", "returned" or "aborted"

vars == <<job, graded, verdict, state>>

Open == [status |-> "none", earned |-> 0]

Ungrouped == TasksIn(job, NoGroup)
ToScore == {g \in GroupsIn(job) \cap DOMAIN job.groups : verdict[g] = Open}
UngroupedDone == \A t \in Ungrouped : \E r \in graded : r.task = t
Stopped == \E g \in DOMAIN job.groups :
             verdict[g].status = "failed" /\ ~job.groups[g].continue

(* rs holds one possible result for each task of ts and nothing else. *)
IsGrading(rs, ts) ==
  /\ \A r \in rs : r.task \in ts /\ r \in Outcomes(r.task, job.tasks[r.task].pts)
  /\ \A t \in ts : \E r \in rs : r.task = t
  /\ \A r, q \in rs : r.task = q.task => r = q

Init ==
  /\ job \in Jobs
  /\ graded = {}
  /\ verdict = [g \in GroupId |-> Open]
  /\ state = "running"

GradeUngrouped ==
  /\ state = "running"
  /\ ~UngroupedDone
  /\ graded \subseteq graded' /\ IsGrading(graded' \ graded, Ungrouped)
  /\ UNCHANGED <<job, verdict, state>>

GradeGroup(g) ==
  /\ state = "running"
  /\ UngroupedDone /\ ~Stopped
  /\ g \in ToScore
  /\ \A h \in ToScore : VisitedBefore(job, g, h)
  /\ graded \subseteq graded' /\ IsGrading(graded' \ graded, TasksIn(job, g))
  /\ LET gr == Evaluate(job.groups[g], graded' \ graded)
     IN  verdict' = [verdict EXCEPT ![g] = [status |-> gr.status, earned |-> gr.earned]]
  /\ UNCHANGED <<job, state>>

Return ==
  /\ state = "running"
  /\ UngroupedDone
  /\ Stopped \/ ToScore = {}
  /\ state' = "returned"
  /\ UNCHANGED <<job, graded, verdict>>

Abort ==
  /\ state = "running"
  /\ state' = "aborted"
  /\ UNCHANGED <<job, graded, verdict>>

Next == GradeUngrouped \/ (\E g \in GroupId : GradeGroup(g)) \/ Return \/ Abort

Spec == Init /\ [][Next]_vars
=============================================================================
