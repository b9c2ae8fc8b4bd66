--------------------------- MODULE QueueConsumer ---------------------------
(***************************************************************************)
(* The worker's QueueConsumer and the RabbitMQ queue it listens to: how a  *)
(* grading job gets from the queue through _process_message to an          *)
(* acknowledgement, over lost connections, worker restarts and shutdown.   *)
(*                                                                         *)
(* The broker and aio_pika are external: one message at a time is out      *)
(* unacknowledged (prefetch_count=1); message.process() acknowledges when  *)
(* its block ends and rejects without requeueing when it raises; a lost    *)
(* connection puts what is unacknowledged back and the robust connection   *)
(* comes back by itself, subscription included.  Whether a handler that    *)
(* was running keeps running then is left open.                            *)
(***************************************************************************)
EXTENDS Integers, FiniteSets

CONSTANTS
  Message,        \* messages sent to the grading queue
  MaxLosses,      \* bound: connections lost
  MaxRestarts,    \* bound: worker processes crashed and started again
  AllowShutdown,  \* whether the application is shut down in an orderly way
  AllowConnectFailure,  \* whether the first connection may fail
  AllowInitFailure,     \* whether grading_service.initialize may raise
  MaxRetries,     \* config.MAX_RETRIES: attempts to post a result
  MaxFaults       \* bound: posts that raise or are refused

ASSUME ConsumerAssumption ==
  /\ MaxLosses \in Nat /\ MaxRestarts \in Nat
  /\ MaxRetries \in Nat \ {0} /\ MaxFaults \in Nat
  /\ {AllowShutdown, AllowConnectFailure, AllowInitFailure} \subseteq BOOLEAN

(* A delivery is a message on a channel; channels are numbered. *)
Channel == 0 .. (MaxLosses + MaxRestarts)
Delivery == Message \X Channel

VARIABLES
  body,        \* what each message carries: a "job", or something "malformed"
  sent,        \* messages ever sent
  ready,       \* messages in the queue
  unacked,     \* messages delivered on the current channel, not settled
  acked,       \* messages acknowledged
  discarded,   \* messages rejected without requeueing
  consumer,    \* start_consuming: "starting", "listening", "dead", "stopped"
  link,        \* the connection to the broker is up
  channel,     \* number of the current channel
  handler,     \* phase of _process_message for each delivery
  registered,  \* deliveries whose devices the grading service knows
  runs,        \* completed gradings per message
  losses,      \* connections lost so far
  restarts,    \* worker restarts so far
  attempt, received, refused, faults  \* see ResultDelivery

JobOf(h) == h[1]
Client == INSTANCE ResultDelivery WITH Job <- Message, Sender <- Delivery

brokerVars == <<body, sent, ready, unacked, acked, discarded>>
lifeVars == <<consumer, link, channel, losses, restarts>>
clientVars == <<attempt, received, refused, faults>>
vars == <<brokerVars, lifeVars, handler, registered, runs, clientVars>>

Phase == {"none", "initializing", "grading", "reporting", "acking", "rejecting"}

Init ==
  /\ body \in [Message -> {"job", "malformed"}]
  /\ sent = {} /\ ready = {} /\ unacked = {} /\ acked = {} /\ discarded = {}
  /\ consumer = "starting"
  /\ link = FALSE
  /\ channel = 0
  /\ handler = [h \in Delivery |-> "none"]
  /\ registered = {}
  /\ runs = [m \in Message |-> 0]
  /\ losses = 0 /\ restarts = 0
  /\ Client!Init

(* The backend, or publish_job of some worker, sends a message. *)
Send(m) ==
  /\ m \notin sent
  /\ sent' = sent \cup {m}
  /\ ready' = ready \cup {m}
  /\ UNCHANGED <<body, unacked, acked, discarded, lifeVars, handler, registered, runs, clientVars>>

-----------------------------------------------------------------------------
(* start_consuming: connect, declare the queue, consume. *)
StartConsuming ==
  /\ consumer = "starting"
  /\ consumer' = "listening"
  /\ link' = TRUE
  /\ UNCHANGED <<brokerVars, channel, losses, restarts, handler, registered, runs, clientVars>>

(* connect raises: the consumer task ends, nobody starts it again. *)
ConnectFails ==
  /\ AllowConnectFailure
  /\ consumer = "starting"
  /\ consumer' = "dead"
  /\ UNCHANGED <<brokerVars, link, channel, losses, restarts, handler, registered, runs, clientVars>>

(* Defect: the channel has no prefetch limit. *)
NoPrefetch == TRUE

(* set_qos(prefetch_count=1) *)
Prefetch == unacked = {}

(* The broker hands out a message; _process_message parses it without an
   await.  A malformed one that is no JSON is logged and swallowed, one that
   does not make a GradingJob raises. *)
Deliver(m) ==
  /\ consumer = "listening" /\ link
  /\ m \in ready
  /\ Prefetch
  /\ ready' = ready \ {m}
  /\ unacked' = unacked \cup {m}
  /\ \E phase \in IF body[m] = "job" THEN {"initializing"} ELSE {"acking", "rejecting"} :
       handler' = [handler EXCEPT ![<<m, channel>>] = phase]
  /\ UNCHANGED <<body, sent, acked, discarded, lifeVars, registered, runs, clientVars>>

(* initialize() succeeds and process_grading_job registers the devices. *)
Initialize(h) ==
  /\ handler[h] = "initializing"
  /\ handler' = [handler EXCEPT ![h] = "grading"]
  /\ registered' = registered \cup {h}
  /\ UNCHANGED <<brokerVars, lifeVars, runs, clientVars>>

(* Defect: the devices stay registered. *)
ClearNothing == registered' = registered

(* clear_job_state forgets the devices of every handler. *)
ClearJobState == registered' = {}

(* initialize() raises; the finally block clears the state. *)
InitializeRaises(h) ==
  /\ AllowInitFailure
  /\ handler[h] = "initializing"
  /\ handler' = [handler EXCEPT ![h] = "rejecting"]
  /\ ClearJobState
  /\ UNCHANGED <<brokerVars, lifeVars, runs, clientVars>>

(* Defect: a finished job is graded again. *)
GradeAgain(h) ==
  /\ handler[h] = "grading"
  /\ runs' = [runs EXCEPT ![h[1]] = @ + 1]
  /\ UNCHANGED <<brokerVars, lifeVars, handler, registered, clientVars>>

(* Every task is graded; what is left is to post the result. *)
Grade(h) ==
  /\ handler[h] = "grading"
  /\ handler' = [handler EXCEPT ![h] = "reporting"]
  /\ runs' = [runs EXCEPT ![h[1]] = @ + 1]
  /\ UNCHANGED <<brokerVars, lifeVars, registered, clientVars>>

(* A post raised and the client tries again. *)
PostAgain(h) ==
  /\ handler[h] = "reporting"
  /\ Client!TriesAgain(h)
  /\ UNCHANGED <<brokerVars, lifeVars, handler, registered, runs>>

(* send_final_result returns, whatever it returns; process_grading_job and the
   finally block clear the state. *)
Reported(h) ==
  /\ handler[h] = "reporting"
  /\ Client!Answered(h) \/ Client!GivesUp(h)
  /\ handler' = [handler EXCEPT ![h] = "acking"]
  /\ ClearJobState
  /\ UNCHANGED <<brokerVars, lifeVars, runs>>

(* A delivery can be settled on the channel it came on only. *)
Current(h) == link /\ h[2] = channel /\ h[1] \in unacked

(* The block of message.process() has ended. *)
Acknowledge(h) ==
  /\ handler[h] = "acking"
  /\ handler' = [handler EXCEPT ![h] = "none"]
  /\ IF Current(h)
       THEN unacked' = unacked \ {h[1]} /\ acked' = acked \cup {h[1]}
       ELSE UNCHANGED <<unacked, acked>>
  /\ UNCHANGED <<body, sent, ready, discarded, lifeVars, registered, runs, clientVars>>

(* Defect: a rejected message goes back to the queue. *)
RejectRequeues(h) ==
  /\ handler[h] = "rejecting"
  /\ handler' = [handler EXCEPT ![h] = "none"]
  /\ IF Current(h)
       THEN unacked' = unacked \ {h[1]} /\ ready' = ready \cup {h[1]}
       ELSE UNCHANGED <<unacked, ready>>
  /\ UNCHANGED <<body, sent, discarded, acked, lifeVars, registered, runs, clientVars>>

(* Defect: the handler is kept after its message is settled. *)
RejectKeeping(h) ==
  /\ handler[h] = "rejecting"
  /\ handler' = [handler EXCEPT ![h] = "done"]
  /\ IF Current(h)
       THEN unacked' = unacked \ {h[1]} /\ discarded' = discarded \cup {h[1]}
       ELSE UNCHANGED <<unacked, discarded>>
  /\ UNCHANGED <<body, sent, ready, acked, lifeVars, registered, runs, clientVars>>

(* It has raised: rejected, requeue=False. *)
Reject(h) ==
  /\ handler[h] = "rejecting"
  /\ handler' = [handler EXCEPT ![h] = "none"]
  /\ IF Current(h)
       THEN unacked' = unacked \ {h[1]} /\ discarded' = discarded \cup {h[1]}
       ELSE UNCHANGED <<unacked, discarded>>
  /\ UNCHANGED <<body, sent, ready, acked, lifeVars, registered, runs, clientVars>>

-----------------------------------------------------------------------------
(* Defect: what is out is gone with the connection. *)
DropUnacked ==
  /\ unacked' = {}
  /\ UNCHANGED <<body, sent, ready, acked, discarded>>

(* The broker puts what is out back into the queue. *)
Requeue ==
  /\ ready' = ready \cup unacked
  /\ unacked' = {}
  /\ UNCHANGED <<body, sent, acked, discarded>>

Reporting == {h \in Delivery : handler[h] = "reporting"}

(* The connection is lost.  The channel's handler either goes on, or it is
   cancelled and its finally block clears the job state of all. *)
LoseConnection ==
  /\ consumer = "listening" /\ link
  /\ losses < MaxLosses
  /\ losses' = losses + 1
  /\ link' = FALSE
  /\ channel' = channel + 1
  /\ Requeue
  /\ \/ UNCHANGED <<handler, registered, clientVars>>
     \/ /\ handler' = [h \in Delivery |-> IF h[2] = channel THEN "none" ELSE handler[h]]
        /\ IF \E h \in Delivery :
                h[2] = channel /\ handler[h] \in {"initializing", "grading", "reporting"}
             THEN ClearJobState ELSE UNCHANGED registered
        /\ Client!Interrupted({h \in Reporting : h[2] = channel})
  /\ UNCHANGED <<consumer, restarts, runs>>

Reconnect ==
  /\ consumer = "listening" /\ ~link
  /\ link' = TRUE
  /\ UNCHANGED <<brokerVars, consumer, channel, losses, restarts, handler, registered, runs, clientVars>>

(* The process ends: its handlers and the service's state are gone. *)
ProcessEnds ==
  /\ Requeue
  /\ link' = FALSE
  /\ handler' = [h \in Delivery |-> "none"]
  /\ registered' = {}
  /\ Client!Interrupted(Reporting)
  /\ UNCHANGED <<runs, losses>>

(* The worker crashes and its container is started again. *)
Restart ==
  /\ consumer # "stopped"
  /\ restarts < MaxRestarts
  /\ restarts' = restarts + 1
  /\ channel' = channel + 1
  /\ consumer' = "starting"
  /\ ProcessEnds

(* lifespan: the consumer task is cancelled and disconnect closes the
   connection. *)
Shutdown ==
  /\ AllowShutdown
  /\ consumer # "stopped"
  /\ consumer' = "stopped"
  /\ ProcessEnds
  /\ UNCHANGED <<channel, restarts>>

Settled(m) == m \in acked \cup discarded

Quiet ==
  /\ sent = Message
  /\ \/ consumer \in {"dead", "stopped"}
     \/ \A m \in Message : Settled(m)
  /\ \A h \in Delivery : handler[h] = "none"
  /\ UNCHANGED vars

Handle(h) ==
  \/ Initialize(h) \/ InitializeRaises(h)
  \/ Grade(h) \/ PostAgain(h) \/ Reported(h)
  \/ Acknowledge(h) \/ Reject(h)

Next ==
  \/ (\E m \in Message : Send(m) \/ Deliver(m))
  \/ StartConsuming \/ ConnectFails
  \/ (\E h \in Delivery : Handle(h))
  \/ LoseConnection \/ Reconnect \/ Restart \/ Shutdown \/ Quiet

Spec == Init /\ [][Next]_vars

(* The broker delivers what it can, the robust connection keeps trying, and
   the event loop runs every handler. *)
Fairness ==
  /\ WF_vars(StartConsuming \/ ConnectFails)
  /\ WF_vars(Reconnect)
  /\ \A m \in Message : WF_vars(Deliver(m))
  /\ \A h \in Delivery : WF_vars(Handle(h))

FairSpec == Spec /\ Fairness

-----------------------------------------------------------------------------
TypeOK ==
  /\ body \in [Message -> {"job", "malformed"}]
  /\ sent \subseteq Message /\ ready \subseteq Message /\ unacked \subseteq Message
  /\ acked \subseteq Message /\ discarded \subseteq Message
  /\ consumer \in {"starting", "listening", "dead", "stopped"}
  /\ link \in BOOLEAN
  /\ channel \in Channel
  /\ handler \in [Delivery -> Phase]
  /\ registered \subseteq Delivery
  /\ runs \in [Message -> Nat]
  /\ losses \in 0 .. MaxLosses /\ restarts \in 0 .. MaxRestarts
  /\ attempt \in [Delivery -> 0 .. MaxRetries]
  /\ received \in [Message -> Nat]
  /\ refused \subseteq Message
  /\ faults \in 0 .. MaxFaults

(* A message sent is in exactly one place: waiting, out, or settled. *)
NoMessageLost ==
  /\ sent = ready \cup unacked \cup acked \cup discarded
  /\ ready \cap (unacked \cup acked \cup discarded) = {}
  /\ unacked \cap (acked \cup discarded) = {}
  /\ acked \cap discarded = {}

(* An acknowledged job was graded to the end, whatever was lost or restarted
   in between, and its result reached the backend: it takes MaxRetries posts
   that raise, or an answer with an error status, to lose it. *)
AckedMeansReported ==
  \A m \in acked : body[m] = "job" =>
    /\ runs[m] > 0
    /\ faults < MaxRetries /\ m \notin refused => received[m] > 0

(* A job is graded once, and once more at most for each time the broker had
   to deliver it again.  The backend gets its result at most MaxRetries times
   from each grading, and not at all from one that was not completed. *)
BoundedRegrading ==
  \A m \in Message : /\ runs[m] <= 1 + losses + restarts
                     /\ received[m] <= MaxRetries * runs[m]

(* set_qos: "one message at a time per worker".  It holds while no connection
   is lost; then each loss can leave one more handler running. *)
ActiveHandlers == {h \in Delivery : handler[h] # "none"}
OneAtATime == Cardinality(ActiveHandlers) <= 1 + losses

(* The devices of a job being graded are registered, and no other handler's:
   clear_job_state has no owner, so a lost connection ends that. *)
OwnJobState ==
  losses = 0 => registered = {h \in Delivery : handler[h] \in {"grading", "reporting"}}

(* A message is settled, as long as the worker lives to do it. *)
EventuallySettled ==
  \A m \in Message :
    m \in sent ~> Settled(m) \/ consumer \in {"dead", "stopped"}

-----------------------------------------------------------------------------
(* queue_consumer.py:132 "The message will be requeued automatically due to
   exception": a job is discarded by nothing but its own settlement. *)
FailedJobsAreRequeued == \A m \in discarded : body[m] # "job"

(* queue_consumer.py:22 "continuously listens to the RabbitMQ queue and picks
   up grading jobs as they arrive". *)
PicksUpJobs == \A m \in Message : m \in ready ~> m \notin ready
=============================================================================
