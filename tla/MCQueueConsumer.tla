-------------------------- MODULE MCQueueConsumer --------------------------
(* Two messages, each a grading job or malformed. *)
EXTENDS QueueConsumer

CONSTANTS m1, m2

MCMessage == {m1, m2}

(* For the single questions. *)
OneMessage == {m1}
=============================================================================
