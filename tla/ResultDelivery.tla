--------------------------- MODULE ResultDelivery ---------------------------
(***************************************************************************)
(* APIClient.send_final_result: the result of a grading job is posted to   *)
(* the backend until a post is answered, MaxRetries times at most.         *)
(*                                                                         *)
(* The backend is external.  An answer with an error status is an answer:  *)
(* the client does not look at it.  A post that raises may have reached    *)
(* the backend all the same (its answer timed out) or may still reach it.  *)
(* Its count is taken when the post is made, so it includes what is under  *)
(* way.                                                                    *)
(***************************************************************************)
EXTENDS Integers, FiniteSets

CONSTANTS
  Job,         \* the jobs whose results are posted
  Sender,      \* the calls of send_final_result
  JobOf(_),    \* the job of each
  MaxRetries,  \* config.MAX_RETRIES
  MaxFaults    \* bound: posts that raise or are refused

VARIABLES
  attempt,   \* posts of each call that have raised
  received,  \* posts with the result of each job that reach the backend
  refused,   \* jobs of which a post was answered with an error status
  faults     \* posts that raised or were refused

Init ==
  /\ attempt = [s \in Sender |-> 0]
  /\ received = [j \in Job |-> 0]
  /\ refused = {}
  /\ faults = 0

Arrives(s) == received' = [received EXCEPT ![JobOf(s)] = @ + 1]

Fault == faults < MaxFaults /\ faults' = faults + 1

(* The post is answered: send_final_result returns True. *)
Answered(s) ==
  /\ attempt' = [attempt EXCEPT ![s] = 0]
  /\ \/ Arrives(s) /\ UNCHANGED <<refused, faults>>
     \/ Fault /\ refused' = refused \cup {JobOf(s)} /\ UNCHANGED received

(* It raises. *)
Raises(s) ==
  /\ Fault
  /\ Arrives(s) \/ UNCHANGED received
  /\ UNCHANGED refused

(* Defect: the loop ends one attempt early. *)
LastButOne(s) == attempt[s] + 2 >= MaxRetries

(* This is the last attempt the loop makes. *)
LastAttempt(s) == attempt[s] + 1 = MaxRetries

(* The client sleeps and tries again. *)
TriesAgain(s) ==
  /\ Raises(s)
  /\ ~LastAttempt(s)
  /\ attempt' = [attempt EXCEPT ![s] = @ + 1]

(* No attempt is left: send_final_result returns False. *)
GivesUp(s) ==
  /\ Raises(s)
  /\ LastAttempt(s)
  /\ attempt' = [attempt EXCEPT ![s] = 0]

(* The calls ss are cancelled or die; what they were posting may arrive. *)
Interrupted(ss) ==
  \E reached \in SUBSET ss :
    /\ attempt' = [s \in Sender |-> IF s \in ss THEN 0 ELSE attempt[s]]
    /\ received' = [j \in Job |-> received[j] + Cardinality({s \in reached : JobOf(s) = j})]
    /\ UNCHANGED <<refused, faults>>
=============================================================================
