--------------------------- MODULE MCJobExecution ---------------------------
(* Small jobs for JobExecution: three devices, two configured groups and one
   group id that has no configuration. *)
EXTENDS JobExecution, TLC

CONSTANTS d1, d2, d3, g1, g2, lost

MCDevice == {d1, d2, d3}
MCGroupId == {g1, g2, lost}

T(d, g, p) == [dev |-> d, grp |-> g, pts |-> p]
G(k, p, c, r, e) == [kind |-> k, pts |-> p, continue |-> c, rescue |-> r, cleanup |-> e]

(* Ungrouped tasks only, three devices for two permits, two tasks on d1. *)
Parallel ==
  [tasks |-> <<T(d1, NoGroup, 2), T(d2, NoGroup, 1), T(d3, NoGroup, 1), T(d1, NoGroup, 1)>>,
   groups |-> <<>>]

(* A stopping group with rescue and cleanup, followed by another group. *)
Stopping ==
  [tasks |-> <<T(d2, NoGroup, 1), T(d1, g1, 1), T(d2, g1, 1), T(d1, g2, 1), T(d1, g2, 1)>>,
   groups |-> (g1 :> G("all_or_nothing", 5, FALSE, <<d1, d2>>, <<d2, d1>>))
              @@ (g2 :> G("proportional", 3, FALSE, <<d2>>, <<>>))]

(* A group that fails without stopping, a group nobody configured, the tasks
   of the groups interleaved. *)
Continuing ==
  [tasks |-> <<T(d2, g2, 1), T(d1, lost, 4), T(d1, g1, 2), T(d1, g2, 1)>>,
   groups |-> (g1 :> G("proportional", 2, TRUE, <<d1>>, <<d1>>))
              @@ (g2 :> G("all_or_nothing", 4, TRUE, <<d2>>, <<d1, d1>>))]

(* A group type the scoring does not know. *)
Odd ==
  [tasks |-> <<T(d1, g1, 1), T(d2, g2, 0)>>,
   groups |-> (g1 :> G("weighted", 2, FALSE, <<d1>>, <<>>))
              @@ (g2 :> G("all_or_nothing", 0, FALSE, <<>>, <<d2>>))]

Empty == [tasks |-> <<>>, groups |-> <<>>]

MCJobs == {Parallel, Stopping, Continuing, Odd, Empty}
=============================================================================
