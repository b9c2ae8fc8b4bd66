------------------------ MODULE QueueConsumerProofs ------------------------
(***************************************************************************)
(* Theorems about QueueConsumer and the delivery of results it contains,   *)
(* for any messages, any number of lost connections, crashes, retries and  *)
(* failing posts.                                                          *)
(***************************************************************************)
EXTENDS QueueConsumer, FiniteSetTheorems, TLAPS

-----------------------------------------------------------------------------
(* The inductive invariant.                                                *)

(* Every loss and every restart opens a new channel. *)
Numbering == channel = losses + restarts

(* One message is out at a time.  A handler works on a channel opened since the
   last restart, alone on it, and on the current one for the message out. *)
Handlers ==
  /\ \A m, n \in unacked : m = n
  /\ \A h \in ActiveHandlers :
       /\ h[2] \in restarts .. channel
       /\ h[2] = channel => h[1] \in unacked
  /\ \A h, k \in ActiveHandlers : h[2] = k[2] => h = k

(* The result of a job was posted, or the faults account for its loss. *)
IsReported(m) ==
  /\ runs[m] > 0
  /\ faults < MaxRetries /\ m \notin refused => received[m] > 0

(* How far a handler is says what has happened to its job. *)
Progress ==
  /\ \A h \in Delivery :
       /\ handler[h] \in {"initializing", "grading", "reporting"} => body[h[1]] = "job"
       /\ handler[h] = "reporting" => runs[h[1]] > 0
       /\ handler[h] = "acking" /\ body[h[1]] = "job" => IsReported(h[1])
       /\ attempt[h] < MaxRetries /\ attempt[h] <= faults
       /\ handler[h] # "reporting" => attempt[h] = 0
  /\ \A m \in acked : body[m] = "job" => IsReported(m)

(* What may still be graded: the handlers of a message that have yet to grade
   it, and one more when the broker has yet to hand it out. *)
ToGrade(m) == {c \in Channel : handler[<<m, c>>] \in {"initializing", "grading"}}
ToDeliver(m) == IF consumer # "stopped" /\ (m \in ready \/ m \notin sent) THEN 1 ELSE 0
Gradings == \A m \in Message : runs[m] + Cardinality(ToGrade(m)) + ToDeliver(m) <= 1 + channel

(* What may still be posted: the attempts left to the handlers of a message. *)
ToPost(m) == {p \in Channel \X (1 .. MaxRetries) :
                handler[<<m, p[1]>>] = "reporting" /\ attempt[<<m, p[1]>>] < p[2]}
Posts == \A m \in Message : received[m] + Cardinality(ToPost(m)) <= MaxRetries * runs[m]

IInv == /\ TypeOK /\ NoMessageLost /\ Numbering /\ Handlers /\ Progress
        /\ Gradings /\ Posts /\ OwnJobState

-----------------------------------------------------------------------------
(* Finite sets that grow and shrink.                                        *)

LEMMA GrownBy ==
  ASSUME NEW S, NEW N, NEW T, IsFiniteSet(S), IsFiniteSet(N), T \subseteq S \cup N
  PROVE  Cardinality(T) <= Cardinality(S) + Cardinality(N)
<1>1. IsFiniteSet(S \cap N) /\ IsFiniteSet(S \cup N)
  BY FS_Intersection, FS_Union
<1>2. Cardinality(S \cup N) = Cardinality(S) + Cardinality(N) - Cardinality(S \cap N)
  BY FS_Union
<1>3. IsFiniteSet(T) /\ Cardinality(T) <= Cardinality(S \cup N)
  BY <1>1, FS_Subset
<1>4. /\ Cardinality(S) \in Nat /\ Cardinality(N) \in Nat /\ Cardinality(T) \in Nat
      /\ Cardinality(S \cap N) \in Nat
  BY <1>1, <1>3, FS_CardinalityType
<1>5. QED
  BY <1>2, <1>3, <1>4

LEMMA ShrunkBy ==
  ASSUME NEW S, NEW N, NEW T, IsFiniteSet(S), N \subseteq S, T \subseteq S \ N
  PROVE  Cardinality(T) + Cardinality(N) <= Cardinality(S)
<1>1. IsFiniteSet(N) /\ IsFiniteSet(S \ N) /\ S \cap N = N
  BY FS_Subset, FS_Difference
<1>2. Cardinality(S \ N) = Cardinality(S) - Cardinality(N)
  BY <1>1, FS_Difference
<1>3. IsFiniteSet(T) /\ Cardinality(T) <= Cardinality(S \ N)
  BY <1>1, FS_Subset
<1>4. Cardinality(S) \in Nat /\ Cardinality(N) \in Nat /\ Cardinality(T) \in Nat
  BY <1>1, <1>3, FS_CardinalityType
<1>5. QED
  BY <1>2, <1>3, <1>4

LEMMA SingletonCount ==
  ASSUME NEW x
  PROVE  IsFiniteSet({x}) /\ Cardinality({x}) = 1
BY FS_Singleton

-----------------------------------------------------------------------------
(* Channels, and the sets counted per message.                              *)

LEMMA ChannelFinite ==
  /\ Channel \subseteq Nat
  /\ IsFiniteSet(Channel)
  /\ IsFiniteSet(Channel \X (1 .. MaxRetries))
<1>1. MaxLosses + MaxRestarts \in Int /\ MaxRetries \in Int
  BY ConsumerAssumption DEF ConsumerAssumption
<1>2. IsFiniteSet(Channel) /\ IsFiniteSet(1 .. MaxRetries)
  BY <1>1, FS_Interval DEF Channel
<1>3. Channel \subseteq Nat
  BY <1>1 DEF Channel
<1>4. QED
  BY <1>2, <1>3, FS_Product

LEMMA CountsFinite ==
  ASSUME NEW m
  PROVE  /\ IsFiniteSet(ToGrade(m)) /\ Cardinality(ToGrade(m)) \in Nat
         /\ IsFiniteSet(ToGrade(m)') /\ Cardinality(ToGrade(m)') \in Nat
         /\ IsFiniteSet(ToPost(m)) /\ Cardinality(ToPost(m)) \in Nat
         /\ IsFiniteSet(ToPost(m)') /\ Cardinality(ToPost(m)') \in Nat
<1>1. ToGrade(m) \subseteq Channel /\ ToGrade(m)' \subseteq Channel
  BY DEF ToGrade
<1>2. /\ ToPost(m) \subseteq Channel \X (1 .. MaxRetries)
      /\ ToPost(m)' \subseteq Channel \X (1 .. MaxRetries)
  BY DEF ToPost
<1>3. QED
  BY <1>1, <1>2, ChannelFinite, FS_Subset, FS_CardinalityType

(* What is still to grade can only shrink, but for a new channel. *)
LEMMA GradingsKept ==
  ASSUME TypeOK, Gradings, runs' = runs, channel' \in Nat,
         \A m \in Message : /\ ToGrade(m)' \subseteq ToGrade(m)
                            /\ ToDeliver(m)' - ToDeliver(m) <= channel' - channel
  PROVE  Gradings'
<1> SUFFICES ASSUME NEW m \in Message
             PROVE  runs[m] + Cardinality(ToGrade(m)') + ToDeliver(m)' <= 1 + channel'
  BY DEF Gradings
<1>1. Cardinality(ToGrade(m)') <= Cardinality(ToGrade(m))
  BY CountsFinite, FS_Subset
<1>2. ToDeliver(m) \in Int /\ ToDeliver(m)' \in Int
  BY DEF ToDeliver
<1>3. runs[m] \in Nat /\ channel \in Nat
  BY ChannelFinite DEF TypeOK
<1>4. runs[m] + Cardinality(ToGrade(m)) + ToDeliver(m) <= 1 + channel
  BY DEF Gradings
<1>5. ToDeliver(m)' - ToDeliver(m) <= channel' - channel
  OBVIOUS
<1>6. QED
  BY <1>1, <1>2, <1>3, <1>4, <1>5, CountsFinite

(* Nothing is posted, and what is still to post can only shrink. *)
LEMMA PostsKept ==
  ASSUME TypeOK, Posts, runs' = runs, received' = received,
         \A m \in Message : ToPost(m)' \subseteq ToPost(m)
  PROVE  Posts'
<1> SUFFICES ASSUME NEW m \in Message
             PROVE  received[m] + Cardinality(ToPost(m)') <= MaxRetries * runs[m]
  BY DEF Posts
<1>1. Cardinality(ToPost(m)') <= Cardinality(ToPost(m))
  BY CountsFinite, FS_Subset
<1>2. received[m] \in Nat /\ MaxRetries * runs[m] \in Int
  BY ConsumerAssumption DEF TypeOK, ConsumerAssumption
<1>3. received[m] + Cardinality(ToPost(m)) <= MaxRetries * runs[m]
  BY DEF Posts
<1>4. QED
  BY <1>1, <1>2, <1>3, CountsFinite

-----------------------------------------------------------------------------
LEMMA InitInv == Init => IInv
<1> SUFFICES ASSUME Init PROVE IInv
  OBVIOUS
<1> USE ConsumerAssumption DEF ConsumerAssumption
<1>1. /\ sent = {} /\ ready = {} /\ unacked = {} /\ acked = {} /\ discarded = {}
      /\ consumer = "starting" /\ channel = 0 /\ losses = 0 /\ restarts = 0
      /\ handler = [h \in Delivery |-> "none"] /\ registered = {}
      /\ runs = [m \in Message |-> 0]
      /\ attempt = [h \in Delivery |-> 0] /\ received = [m \in Message |-> 0]
      /\ refused = {} /\ faults = 0
  BY DEF Init, Client!Init
<1>2. TypeOK
  <2>1. channel \in Channel /\ losses \in 0 .. MaxLosses /\ restarts \in 0 .. MaxRestarts
    BY <1>1 DEF Channel
  <2>2. attempt \in [Delivery -> 0 .. MaxRetries] /\ faults \in 0 .. MaxFaults
    BY <1>1
  <2>3. handler \in [Delivery -> Phase]
    BY <1>1 DEF Phase
  <2>4. body \in [Message -> {"job", "malformed"}] /\ link \in BOOLEAN
    BY DEF Init
  <2>5. runs \in [Message -> Nat] /\ received \in [Message -> Nat]
    BY <1>1
  <2>6. QED
    BY <1>1, <2>1, <2>2, <2>3, <2>4, <2>5 DEF TypeOK
<1>3. NoMessageLost /\ Numbering /\ Handlers /\ OwnJobState
  BY <1>1 DEF NoMessageLost, Numbering, Handlers, ActiveHandlers, OwnJobState
<1>4. Progress
  BY <1>1 DEF Progress
<1>5. ASSUME NEW m \in Message PROVE ToGrade(m) = {} /\ ToPost(m) = {}
  BY <1>1 DEF ToGrade, ToPost, Delivery
<1>6. Gradings
  BY <1>1, <1>5, FS_EmptySet DEF Gradings, ToDeliver
<1>7. Posts
  BY <1>1, <1>5, FS_EmptySet DEF Posts
<1>8. QED
  BY <1>2, <1>3, <1>4, <1>6, <1>7 DEF IInv

-----------------------------------------------------------------------------
(* Steps that leave every handler and every call of the client alone.       *)
LEMMA BrokerInv ==
  ASSUME IInv,
         \/ \E m \in Message : Send(m)
         \/ StartConsuming \/ ConnectFails \/ Reconnect
         \/ UNCHANGED vars
  PROVE  IInv'
<1> USE DEF brokerVars, lifeVars, clientVars
<1>1. UNCHANGED <<body, unacked, acked, discarded, channel, losses, restarts, handler,
                  registered, runs, attempt, received, refused, faults>>
  BY DEF Send, StartConsuming, ConnectFails, Reconnect, vars
<1>2. /\ consumer' # "stopped" <=> consumer # "stopped"
      /\ \/ \E m \in Message : m \notin sent /\ sent' = sent \cup {m} /\ ready' = ready \cup {m}
         \/ sent' = sent /\ ready' = ready
  BY DEF Send, StartConsuming, ConnectFails, Reconnect, vars
<1>3. TypeOK'
  <2>1. consumer' \in {"starting", "listening", "dead", "stopped"} /\ link' \in BOOLEAN
    BY DEF Send, StartConsuming, ConnectFails, Reconnect, vars, IInv, TypeOK
  <2>2. QED
    BY <1>1, <1>2, <2>1 DEF IInv, TypeOK
<1>4. NoMessageLost'
  BY <1>1, <1>2 DEF IInv, NoMessageLost
<1>5. Numbering' /\ Handlers' /\ OwnJobState'
  BY <1>1 DEF IInv, Numbering, Handlers, ActiveHandlers, OwnJobState
<1>6. Progress'
  BY <1>1 DEF IInv, Progress, IsReported
<1>7. \A m \in Message : ToGrade(m)' = ToGrade(m) /\ ToPost(m)' = ToPost(m)
  BY <1>1 DEF ToGrade, ToPost
<1>8. \A m \in Message : ToDeliver(m)' = ToDeliver(m)
  BY <1>2 DEF ToDeliver, IInv, NoMessageLost
<1>9. Gradings'
  BY <1>1, <1>7, <1>8, ChannelFinite, GradingsKept DEF IInv, TypeOK, ToDeliver
<1>10. Posts'
  BY <1>1, <1>7, PostsKept DEF IInv
<1>11. QED
  BY <1>3, <1>4, <1>5, <1>6, <1>9, <1>10 DEF IInv

-----------------------------------------------------------------------------
(* Handlers that go on working leave the broker's side as it is.            *)

LEMMA HandlersKept ==
  ASSUME Handlers, ActiveHandlers' \subseteq ActiveHandlers,
         UNCHANGED <<channel, restarts>>, unacked' \subseteq unacked,
         \A h \in ActiveHandlers' : h[2] = channel => h[1] \in unacked'
  PROVE  Handlers'
BY DEF Handlers

(* While no connection was lost there is one handler at most. *)
LEMMA OnlyHandler ==
  ASSUME IInv, losses = 0, NEW h \in ActiveHandlers, NEW k \in ActiveHandlers
  PROVE  h = k
<1>1. channel = restarts /\ restarts \in Int
  BY DEF IInv, Numbering, TypeOK
<1>2. h[2] = channel /\ k[2] = channel
  BY <1>1 DEF IInv, Handlers
<1>3. QED
  BY <1>2 DEF IInv, Handlers

(* What was reported stays so. *)
LEMMA StaysReported ==
  ASSUME TypeOK, NEW m \in Message, IsReported(m),
         runs[m] <= runs'[m], received[m] <= received'[m], runs'[m] \in Nat,
         received'[m] \in Nat, faults' \in Nat, faults <= faults', refused \subseteq refused'
  PROVE  IsReported(m)'
<1>1. runs[m] \in Nat /\ received[m] \in Nat /\ faults \in Int /\ MaxRetries \in Nat
  BY ConsumerAssumption DEF TypeOK, ConsumerAssumption
<1>2. QED
  BY <1>1 DEF IsReported

(* The parts of a delivery. *)
LEMMA DeliveryType ==
  ASSUME NEW h \in Delivery
  PROVE  h[1] \in Message /\ h[2] \in Channel /\ h = <<h[1], h[2]>>
BY DEF Delivery

LEMMA DeliverInv ==
  ASSUME IInv, NEW m \in Message, Deliver(m)
  PROVE  IInv'
<1> DEFINE h == <<m, channel>>
<1> USE DEF lifeVars, clientVars
<1>1. PICK phase \in {"initializing", "acking", "rejecting"} :
        /\ handler' = [handler EXCEPT ![h] = phase]
        /\ phase = "initializing" => body[m] = "job"
        /\ phase # "initializing" => body[m] # "job"
  BY DEF Deliver
<1>2. /\ consumer = "listening" /\ m \in ready /\ unacked = {}
      /\ ready' = ready \ {m} /\ unacked' = {m}
      /\ UNCHANGED <<body, sent, acked, discarded, consumer, link, channel, losses, restarts,
                     registered, runs, attempt, received, refused, faults>>
  BY DEF Deliver, Prefetch
<1>3. h \in Delivery /\ handler \in [Delivery -> Phase]
  BY DEF Delivery, IInv, TypeOK
<1>4. \A k \in ActiveHandlers : k[2] # channel
  BY <1>2 DEF IInv, Handlers
<1>5. handler[h] = "none"
  BY <1>3, <1>4 DEF ActiveHandlers
<1>6. /\ handler'[h] = phase
      /\ \A k \in Delivery : k # h => handler'[k] = handler[k]
  BY <1>1, <1>3
<1>7. TypeOK'
  <2>1. handler' \in [Delivery -> Phase]
    BY <1>1, <1>3 DEF Phase
  <2>2. QED
    BY <1>2, <2>1 DEF IInv, TypeOK
<1>8. NoMessageLost'
  BY <1>2 DEF IInv, NoMessageLost
<1>9. Numbering'
  BY <1>2 DEF IInv, Numbering
<1>10. ActiveHandlers' = ActiveHandlers \cup {h}
  BY <1>3, <1>6 DEF ActiveHandlers
<1>11. Handlers'
  <2>1. channel \in restarts .. channel
    BY <1>3, ChannelFinite DEF IInv, Numbering, TypeOK
  <2>2. QED
    BY <1>2, <1>4, <1>10, <2>1 DEF IInv, Handlers
<1>12. Progress'
  BY <1>1, <1>2, <1>3, <1>5, <1>6 DEF IInv, Progress, IsReported
<1>13. ASSUME NEW n \in Message, n # m
       PROVE  ToGrade(n)' = ToGrade(n) /\ ToDeliver(n)' = ToDeliver(n)
  <2>1. \A c \in Channel : handler'[<<n, c>>] = handler[<<n, c>>]
    BY <1>6, <1>13 DEF Delivery
  <2>2. QED
    BY <1>2, <1>13, <2>1 DEF ToGrade, ToDeliver
<1>14. ToGrade(m)' \subseteq ToGrade(m) \cup {channel}
  <2>1. \A c \in Channel : c # channel => handler'[<<m, c>>] = handler[<<m, c>>]
    BY <1>6 DEF Delivery
  <2>2. QED
    BY <2>1 DEF ToGrade
<1>15. Gradings'
  <2> SUFFICES ASSUME NEW n \in Message
               PROVE  runs[n] + Cardinality(ToGrade(n)') + ToDeliver(n)' <= 1 + channel
    BY <1>2 DEF Gradings
  <2>1. CASE n # m
    BY <1>13, <2>1 DEF IInv, Gradings
  <2>2. CASE n = m
    <3>1. Cardinality(ToGrade(m)') <= Cardinality(ToGrade(m)) + 1
      <4>1. Cardinality(ToGrade(m)') <= Cardinality(ToGrade(m)) + Cardinality({channel})
        BY <1>14, CountsFinite, SingletonCount, GrownBy
      <4>2. QED
        BY <4>1, SingletonCount
    <3>2. ToDeliver(m) = 1 /\ ToDeliver(m)' = 0
      BY <1>2 DEF ToDeliver, IInv, NoMessageLost
    <3>3. runs[m] \in Nat /\ channel \in Nat
      BY ChannelFinite DEF IInv, TypeOK
    <3>4. runs[m] + Cardinality(ToGrade(m)) + 1 <= 1 + channel
      BY <3>2 DEF IInv, Gradings
    <3>5. runs[m] + Cardinality(ToGrade(m)') + 0 <= 1 + channel
      BY <3>1, <3>3, <3>4, CountsFinite
    <3>6. QED
      BY <2>2, <3>2, <3>5
  <2>3. QED
    BY <2>1, <2>2
<1>16. Posts'
  <2>1. \A n \in Message, c \in Channel :
          handler'[<<n, c>>] = "reporting" => handler[<<n, c>>] = "reporting"
    BY <1>1, <1>6 DEF Delivery
  <2>2. \A n \in Message : ToPost(n)' \subseteq ToPost(n)
    BY <1>2, <2>1 DEF ToPost
  <2>3. QED
    BY <1>2, <2>2, PostsKept DEF IInv
<1>17. OwnJobState'
  BY <1>1, <1>2, <1>5, <1>6 DEF IInv, OwnJobState
<1>18. QED
  BY <1>7, <1>8, <1>9, <1>11, <1>12, <1>15, <1>16, <1>17 DEF IInv

-----------------------------------------------------------------------------
LEMMA InitializeInv ==
  ASSUME IInv, NEW h \in Delivery, Initialize(h) \/ InitializeRaises(h)
  PROVE  IInv'
<1> USE DEF brokerVars, lifeVars, clientVars
<1>1. PICK phase \in {"grading", "rejecting"} :
        /\ handler[h] = "initializing"
        /\ handler' = [handler EXCEPT ![h] = phase]
        /\ phase = "grading" => registered' = registered \cup {h}
        /\ phase = "rejecting" => registered' = {}
  BY DEF Initialize, InitializeRaises, ClearJobState
<1>2. UNCHANGED <<body, sent, ready, unacked, acked, discarded, consumer, link, channel,
                  losses, restarts, runs, attempt, received, refused, faults>>
  BY DEF Initialize, InitializeRaises
<1>3. /\ handler'[h] = phase
      /\ \A k \in Delivery : k # h => handler'[k] = handler[k]
  BY <1>1 DEF IInv, TypeOK
<1>4. TypeOK'
  <2>1. handler' \in [Delivery -> Phase] /\ registered' \subseteq Delivery
    BY <1>1 DEF IInv, TypeOK, Phase
  <2>2. QED
    BY <1>2, <2>1 DEF IInv, TypeOK
<1>5. NoMessageLost' /\ Numbering'
  BY <1>2 DEF IInv, NoMessageLost, Numbering
<1>6. ActiveHandlers' = ActiveHandlers /\ h \in ActiveHandlers
  BY <1>1, <1>3 DEF ActiveHandlers
<1>7. Handlers'
  BY <1>2, <1>6, HandlersKept DEF IInv, Handlers
<1>8. Progress'
  BY <1>1, <1>2, <1>3 DEF IInv, Progress, IsReported
<1>9. \A n \in Message, c \in Channel :
        /\ handler'[<<n, c>>] \in {"initializing", "grading"}
           => handler[<<n, c>>] \in {"initializing", "grading"}
        /\ handler'[<<n, c>>] = "reporting" => handler[<<n, c>>] = "reporting"
  BY <1>1, <1>3 DEF Delivery
<1>10. Gradings'
  <2>1. \A n \in Message : ToGrade(n)' \subseteq ToGrade(n) /\ ToDeliver(n)' = ToDeliver(n)
    BY <1>2, <1>9 DEF ToGrade, ToDeliver
  <2>2. QED
    BY <1>2, <2>1, ChannelFinite, GradingsKept DEF IInv, TypeOK, ToDeliver
<1>11. Posts'
  <2>1. \A n \in Message : ToPost(n)' \subseteq ToPost(n)
    BY <1>2, <1>9 DEF ToPost
  <2>2. QED
    BY <1>2, <2>1, PostsKept DEF IInv
<1>12. OwnJobState'
  <2> SUFFICES ASSUME losses = 0
               PROVE  registered' = {k \in Delivery : handler'[k] \in {"grading", "reporting"}}
    BY <1>2 DEF OwnJobState
  <2>1. \A k \in Delivery : k # h => handler[k] = "none"
    BY <1>6, OnlyHandler DEF ActiveHandlers
  <2>2. registered = {}
    BY <1>1, <2>1 DEF IInv, OwnJobState
  <2>3. QED
    BY <1>1, <1>3, <2>1, <2>2
<1>13. QED
  BY <1>4, <1>5, <1>7, <1>8, <1>10, <1>11, <1>12 DEF IInv

(* One more grading is worth MaxRetries more posts. *)
LEMMA OneMoreGrading ==
  ASSUME NEW k \in Nat
  PROVE  MaxRetries * (k + 1) = MaxRetries * k + MaxRetries /\ MaxRetries * k \in Nat
BY ConsumerAssumption DEF ConsumerAssumption

LEMMA GradeInv ==
  ASSUME IInv, NEW h \in Delivery, Grade(h)
  PROVE  IInv'
<1> DEFINE m == h[1]
<1> USE DEF brokerVars, lifeVars, clientVars
<1>1. /\ handler[h] = "grading"
      /\ handler' = [handler EXCEPT ![h] = "reporting"]
      /\ runs' = [runs EXCEPT ![m] = @ + 1]
      /\ UNCHANGED <<body, sent, ready, unacked, acked, discarded, consumer, link, channel,
                     losses, restarts, registered, attempt, received, refused, faults>>
  BY DEF Grade
<1>2. /\ handler'[h] = "reporting"
      /\ \A k \in Delivery : k # h => handler'[k] = handler[k]
  BY <1>1 DEF IInv, TypeOK
<1>3. m \in Message /\ h[2] \in Channel /\ h = <<m, h[2]>>
  BY DeliveryType
<1>4. /\ runs[m] \in Nat /\ runs'[m] = runs[m] + 1
      /\ \A n \in Message : n # m => runs'[n] = runs[n]
  BY <1>1, <1>3 DEF IInv, TypeOK
<1>5. TypeOK'
  <2>1. handler' \in [Delivery -> Phase] /\ runs' \in [Message -> Nat]
    BY <1>1, <1>3 DEF IInv, TypeOK, Phase
  <2>2. QED
    BY <1>1, <2>1 DEF IInv, TypeOK
<1>6. NoMessageLost' /\ Numbering'
  BY <1>1 DEF IInv, NoMessageLost, Numbering
<1>7. ActiveHandlers' = ActiveHandlers
  BY <1>1, <1>2 DEF ActiveHandlers
<1>8. Handlers'
  BY <1>1, <1>7, HandlersKept DEF IInv, Handlers
<1>9. Progress'
  <2>1. ASSUME NEW n \in Message, IsReported(n) PROVE IsReported(n)'
    <3>1. runs'[n] \in Nat /\ runs[n] \in Nat /\ runs[n] <= runs'[n]
      BY <1>4, <1>5 DEF IInv, TypeOK
    <3>2. received[n] \in Nat /\ faults \in Nat
      BY DEF IInv, TypeOK
    <3>3. QED
      BY <1>1, <2>1, <3>1, <3>2, StaysReported DEF IInv
  <2>2. \A k \in Delivery : runs[k[1]] > 0 => runs'[k[1]] > 0
    BY <1>4, DeliveryType DEF IInv, TypeOK
  <2>3. \A k \in Delivery : handler'[k] = "acking" => handler[k] = "acking"
    BY <1>2
  <2>4. acked \subseteq Message
    BY DEF IInv, TypeOK
  <2>5. QED
    BY <1>1, <1>2, <1>4, <2>1, <2>2, <2>3, <2>4, DeliveryType DEF IInv, Progress
<1>10. ASSUME NEW n \in Message, n # m
       PROVE  ToGrade(n)' = ToGrade(n) /\ ToPost(n)' = ToPost(n)
  <2>1. \A c \in Channel : handler'[<<n, c>>] = handler[<<n, c>>]
    BY <1>2, <1>3, <1>10 DEF Delivery
  <2>2. QED
    BY <1>1, <2>1 DEF ToGrade, ToPost
<1>11. \A c \in Channel : c # h[2] => handler'[<<m, c>>] = handler[<<m, c>>]
  BY <1>2, <1>3 DEF Delivery
<1>12. Gradings'
  <2> SUFFICES ASSUME NEW n \in Message
               PROVE  runs'[n] + Cardinality(ToGrade(n)') + ToDeliver(n)' <= 1 + channel
    BY <1>1 DEF Gradings
  <2>1. ToDeliver(n)' = ToDeliver(n) /\ ToDeliver(n) \in Int
    BY <1>1 DEF ToDeliver
  <2>2. CASE n # m
    BY <1>4, <1>10, <2>1, <2>2 DEF IInv, Gradings
  <2>3. CASE n = m
    <3>1. ToGrade(m)' = ToGrade(m) \ {h[2]} /\ h[2] \in ToGrade(m)
      BY <1>1, <1>2, <1>3, <1>11 DEF ToGrade
    <3>2. Cardinality(ToGrade(m)') + 1 <= Cardinality(ToGrade(m))
      <4>1. Cardinality(ToGrade(m)') + Cardinality({h[2]}) <= Cardinality(ToGrade(m))
        <5>1. {h[2]} \subseteq ToGrade(m) /\ ToGrade(m)' \subseteq ToGrade(m) \ {h[2]}
          BY <3>1
        <5>2. QED
          BY <5>1, CountsFinite, ShrunkBy
      <4>2. QED
        BY <4>1, SingletonCount
    <3>3. runs[m] + Cardinality(ToGrade(m)) + ToDeliver(m) <= 1 + channel
      BY <1>3 DEF IInv, Gradings
    <3>4. channel \in Nat
      BY ChannelFinite DEF IInv, TypeOK
    <3>5. QED
      BY <1>4, <2>1, <2>3, <3>2, <3>3, <3>4, CountsFinite
  <2>4. QED
    BY <2>2, <2>3
<1>13. Posts'
  <2> SUFFICES ASSUME NEW n \in Message
               PROVE  received[n] + Cardinality(ToPost(n)') <= MaxRetries * runs'[n]
    BY <1>1 DEF Posts
  <2>1. CASE n # m
    BY <1>4, <1>10, <2>1 DEF IInv, Posts
  <2>2. CASE n = m
    <3> DEFINE new == {h[2]} \X (1 .. MaxRetries)
    <3>1. ToPost(m)' \subseteq ToPost(m) \cup new
      BY <1>1, <1>2, <1>3, <1>11 DEF ToPost
    <3>2. IsFiniteSet(new) /\ Cardinality(new) = MaxRetries
      <4>1. MaxRetries \in Nat /\ MaxRetries > 0
        BY ConsumerAssumption DEF ConsumerAssumption
      <4>2. IsFiniteSet(1 .. MaxRetries) /\ Cardinality(1 .. MaxRetries) = MaxRetries
        BY <4>1, FS_Interval
      <4>3. IsFiniteSet({h[2]}) /\ Cardinality({h[2]}) = 1
        BY SingletonCount
      <4>4. IsFiniteSet(new) /\ Cardinality(new) = Cardinality({h[2]}) * Cardinality(1 .. MaxRetries)
        BY <4>2, <4>3, FS_Product
      <4>5. QED
        BY <4>1, <4>2, <4>3, <4>4
    <3>3. Cardinality(ToPost(m)') <= Cardinality(ToPost(m)) + MaxRetries
      <4>1. Cardinality(ToPost(m)') <= Cardinality(ToPost(m)) + Cardinality(new)
        BY <3>1, <3>2, CountsFinite, GrownBy
      <4>2. QED
        BY <3>2, <4>1
    <3>4. received[m] + Cardinality(ToPost(m)) <= MaxRetries * runs[m]
      BY <1>3 DEF IInv, Posts
    <3>5. received[m] \in Nat /\ MaxRetries \in Nat
      BY <1>3, ConsumerAssumption DEF IInv, TypeOK, ConsumerAssumption
    <3>6. MaxRetries * runs'[m] = MaxRetries * runs[m] + MaxRetries /\ MaxRetries * runs[m] \in Nat
      BY <1>4, OneMoreGrading
    <3>7. QED
      BY <2>2, <3>3, <3>4, <3>5, <3>6, CountsFinite
  <2>3. QED
    BY <2>1, <2>2
<1>14. OwnJobState'
  BY <1>1, <1>2 DEF IInv, OwnJobState
<1>15. QED
  BY <1>5, <1>6, <1>8, <1>9, <1>12, <1>13, <1>14 DEF IInv

-----------------------------------------------------------------------------
(* The client posts.                                                        *)

LEMMA PostAgainInv ==
  ASSUME IInv, NEW h \in Delivery, PostAgain(h)
  PROVE  IInv'
<1> DEFINE m == h[1]
<1> USE DEF brokerVars, lifeVars
<1>1. /\ handler[h] = "reporting"
      /\ attempt[h] + 1 # MaxRetries
      /\ attempt' = [attempt EXCEPT ![h] = @ + 1]
      /\ faults < MaxFaults /\ faults' = faults + 1
      /\ received' = [received EXCEPT ![m] = @ + 1] \/ received' = received
      /\ UNCHANGED <<body, sent, ready, unacked, acked, discarded, consumer, link, channel,
                     losses, restarts, handler, registered, runs, refused>>
  BY DEF PostAgain, Client!TriesAgain, Client!Raises, Client!LastAttempt, Client!Fault,
         Client!Arrives, JobOf
<1>2. m \in Message /\ h[2] \in Channel /\ h = <<m, h[2]>>
  BY DeliveryType
<1>3. MaxRetries \in Nat /\ MaxFaults \in Nat /\ faults \in Nat /\ attempt[h] \in Nat
  BY ConsumerAssumption DEF IInv, TypeOK, ConsumerAssumption
<1>4. attempt[h] + 1 < MaxRetries
  BY <1>1, <1>3 DEF IInv, Progress
<1>5. /\ attempt'[h] = attempt[h] + 1
      /\ \A k \in Delivery : k # h => attempt'[k] = attempt[k]
  BY <1>1 DEF IInv, TypeOK
<1>6. /\ received' \in [Message -> Nat]
      /\ received[m] \in Nat /\ received'[m] \in received[m] .. received[m] + 1
      /\ \A n \in Message : n # m => received'[n] = received[n]
  BY <1>1, <1>2 DEF IInv, TypeOK
<1>7. TypeOK'
  <2>1. attempt' \in [Delivery -> 0 .. MaxRetries] /\ faults' \in 0 .. MaxFaults
    BY <1>1, <1>3, <1>4 DEF IInv, TypeOK
  <2>2. QED
    BY <1>1, <1>6, <2>1 DEF IInv, TypeOK
<1>8. NoMessageLost' /\ Numbering' /\ OwnJobState'
  BY <1>1 DEF IInv, NoMessageLost, Numbering, OwnJobState
<1>9. Handlers'
  BY <1>1 DEF IInv, Handlers, ActiveHandlers
<1>10. Progress'
  <2>1. ASSUME NEW n \in Message, IsReported(n) PROVE IsReported(n)'
    <3>1. runs[n] \in Nat /\ received[n] \in Nat /\ received'[n] \in Nat /\ received[n] <= received'[n]
      BY <1>6 DEF IInv, TypeOK
    <3>2. QED
      BY <1>1, <1>3, <2>1, <3>1, StaysReported DEF IInv
  <2>2. ASSUME NEW k \in Delivery
        PROVE  /\ attempt'[k] < MaxRetries /\ attempt'[k] <= faults'
               /\ handler'[k] # "reporting" => attempt'[k] = 0
    <3>1. attempt[k] \in Nat /\ attempt[k] < MaxRetries /\ attempt[k] <= faults
      BY <1>3 DEF IInv, TypeOK, Progress
    <3>2. QED
      BY <1>1, <1>3, <1>4, <1>5, <3>1 DEF IInv, Progress
  <2>3. acked \subseteq Message
    BY DEF IInv, TypeOK
  <2>4. QED
    BY <1>1, <2>1, <2>2, <2>3, DeliveryType DEF IInv, Progress
<1>11. Gradings'
  <2>1. \A n \in Message : ToGrade(n)' = ToGrade(n) /\ ToDeliver(n)' = ToDeliver(n)
    BY <1>1 DEF ToGrade, ToDeliver
  <2>2. QED
    BY <1>1, <2>1, ChannelFinite, GradingsKept DEF IInv, TypeOK, ToDeliver
<1>12. Posts'
  <2> SUFFICES ASSUME NEW n \in Message
               PROVE  received'[n] + Cardinality(ToPost(n)') <= MaxRetries * runs[n]
    BY <1>1 DEF Posts
  <2>1. CASE n # m
    <3>1. \A c \in Channel : attempt'[<<n, c>>] = attempt[<<n, c>>]
      BY <1>2, <1>5, <2>1 DEF Delivery
    <3>2. ToPost(n)' = ToPost(n)
      BY <1>1, <3>1 DEF ToPost
    <3>3. QED
      BY <1>6, <2>1, <3>2 DEF IInv, Posts
  <2>2. CASE n = m
    <3> DEFINE post == <<h[2], attempt[h] + 1>>
    <3>1. \A c \in Channel : c # h[2] => attempt'[<<m, c>>] = attempt[<<m, c>>]
      BY <1>2, <1>5 DEF Delivery
    <3>2. {post} \subseteq ToPost(m)
      BY <1>1, <1>2, <1>3, <1>4 DEF ToPost
    <3>3. ToPost(m)' \subseteq ToPost(m) \ {post}
      <4> SUFFICES ASSUME NEW p \in ToPost(m)'
                   PROVE  p \in ToPost(m) /\ p # post
        OBVIOUS
      <4>1. /\ p \in Channel \X (1 .. MaxRetries)
            /\ handler[<<m, p[1]>>] = "reporting" /\ attempt'[<<m, p[1]>>] < p[2]
        BY <1>1 DEF ToPost
      <4>2. CASE p[1] = h[2]
        BY <1>2, <1>3, <1>5, <4>1, <4>2 DEF ToPost
      <4>3. CASE p[1] # h[2]
        BY <3>1, <4>1, <4>3 DEF ToPost
      <4>4. QED
        BY <4>2, <4>3
    <3>4. Cardinality(ToPost(m)') + 1 <= Cardinality(ToPost(m))
      <4>1. Cardinality(ToPost(m)') + Cardinality({post}) <= Cardinality(ToPost(m))
        BY <3>2, <3>3, CountsFinite, ShrunkBy
      <4>2. QED
        BY <4>1, SingletonCount
    <3>5. received[m] + Cardinality(ToPost(m)) <= MaxRetries * runs[m]
      BY <1>2 DEF IInv, Posts
    <3>6. runs[m] \in Nat
      BY <1>2 DEF IInv, TypeOK
    <3>7. MaxRetries * runs[m] \in Nat
      BY <3>6, OneMoreGrading
    <3>8. QED
      BY <1>6, <2>2, <3>4, <3>5, <3>7, CountsFinite
  <2>3. QED
    BY <2>1, <2>2
<1>13. QED
  BY <1>7, <1>8, <1>9, <1>10, <1>11, <1>12 DEF IInv

LEMMA ReportedInv ==
  ASSUME IInv, NEW h \in Delivery, Reported(h)
  PROVE  IInv'
<1> DEFINE m == h[1]
<1> USE DEF brokerVars, lifeVars
<1>1. /\ handler[h] = "reporting"
      /\ handler' = [handler EXCEPT ![h] = "acking"]
      /\ registered' = {}
      /\ attempt' = [attempt EXCEPT ![h] = 0]
      /\ UNCHANGED <<body, sent, ready, unacked, acked, discarded, consumer, link, channel,
                     losses, restarts, runs>>
  BY DEF Reported, ClearJobState, Client!Answered, Client!GivesUp
<1>2. \/ /\ received' = [received EXCEPT ![m] = @ + 1]
         /\ UNCHANGED <<refused, faults>>
      \/ /\ faults < MaxFaults /\ faults' = faults + 1
         /\ refused' = refused \cup {m} /\ UNCHANGED received
      \/ /\ faults < MaxFaults /\ faults' = faults + 1
         /\ received' = [received EXCEPT ![m] = @ + 1] \/ received' = received
         /\ attempt[h] + 1 = MaxRetries
         /\ UNCHANGED refused
  BY DEF Reported, Client!Answered, Client!GivesUp, Client!Raises, Client!LastAttempt,
         Client!Fault, Client!Arrives, JobOf
<1>3. m \in Message /\ h[2] \in Channel /\ h = <<m, h[2]>>
  BY DeliveryType
<1>4. /\ MaxRetries \in Nat \ {0} /\ MaxFaults \in Nat /\ faults \in 0 .. MaxFaults
      /\ attempt[h] \in Nat /\ attempt[h] < MaxRetries /\ attempt[h] <= faults
      /\ refused \subseteq Message
  BY ConsumerAssumption DEF IInv, TypeOK, Progress, ConsumerAssumption
<1>5. /\ handler'[h] = "acking" /\ attempt'[h] = 0
      /\ \A k \in Delivery : k # h => handler'[k] = handler[k] /\ attempt'[k] = attempt[k]
  BY <1>1 DEF IInv, TypeOK
<1>6. /\ received' \in [Message -> Nat]
      /\ received[m] \in Nat /\ received'[m] \in received[m] .. received[m] + 1
      /\ \A n \in Message : n # m => received'[n] = received[n]
  BY <1>2, <1>3 DEF IInv, TypeOK
<1>7. /\ faults' \in 0 .. MaxFaults /\ faults <= faults'
      /\ refused \subseteq refused' /\ refused' \subseteq Message
  BY <1>2, <1>3, <1>4
<1>8. TypeOK'
  <2>1. handler' \in [Delivery -> Phase] /\ attempt' \in [Delivery -> 0 .. MaxRetries]
    BY <1>1, <1>4 DEF IInv, TypeOK, Phase
  <2>2. QED
    BY <1>1, <1>6, <1>7, <2>1 DEF IInv, TypeOK
<1>9. NoMessageLost' /\ Numbering'
  BY <1>1 DEF IInv, NoMessageLost, Numbering
<1>10. ActiveHandlers' = ActiveHandlers /\ h \in ActiveHandlers
  BY <1>1, <1>5 DEF ActiveHandlers
<1>11. Handlers'
  BY <1>1, <1>10, HandlersKept DEF IInv, Handlers
<1>12. Progress'
  <2>1. ASSUME NEW n \in Message, IsReported(n) PROVE IsReported(n)'
    <3>1. runs[n] \in Nat /\ received[n] \in Nat /\ received'[n] \in Nat /\ received[n] <= received'[n]
      BY <1>6 DEF IInv, TypeOK
    <3>2. faults' \in Nat
      BY <1>7
    <3>3. QED
      BY <1>1, <1>7, <2>1, <3>1, <3>2, StaysReported DEF IInv
  <2>2. IsReported(m)'
    <3>1. runs[m] > 0
      BY <1>1 DEF IInv, Progress
    <3>2. \/ received'[m] = received[m] + 1
          \/ m \in refused'
          \/ faults' >= MaxRetries
      BY <1>2, <1>3, <1>4 DEF IInv, TypeOK
    <3>3. QED
      BY <1>1, <1>4, <1>6, <1>7, <3>1, <3>2 DEF IsReported
  <2>3. ASSUME NEW k \in Delivery
        PROVE  /\ attempt'[k] < MaxRetries /\ attempt'[k] <= faults'
               /\ handler'[k] # "reporting" => attempt'[k] = 0
    <3>1. attempt[k] \in Nat /\ attempt[k] < MaxRetries /\ attempt[k] <= faults
      BY <1>4 DEF IInv, TypeOK, Progress
    <3>2. QED
      BY <1>4, <1>5, <1>7, <3>1 DEF IInv, Progress
  <2>4. acked \subseteq Message
    BY DEF IInv, TypeOK
  <2>5. QED
    BY <1>1, <1>5, <2>1, <2>2, <2>3, <2>4, DeliveryType DEF IInv, Progress
<1>13. \A n \in Message, c \in Channel :
         /\ handler'[<<n, c>>] \in {"initializing", "grading", "reporting"}
            => handler'[<<n, c>>] = handler[<<n, c>>] /\ attempt'[<<n, c>>] = attempt[<<n, c>>]
  BY <1>5 DEF Delivery
<1>14. Gradings'
  <2>1. \A n \in Message : ToGrade(n)' \subseteq ToGrade(n) /\ ToDeliver(n)' = ToDeliver(n)
    BY <1>1, <1>13 DEF ToGrade, ToDeliver
  <2>2. QED
    BY <1>1, <2>1, ChannelFinite, GradingsKept DEF IInv, TypeOK, ToDeliver
<1>15. Posts'
  <2> SUFFICES ASSUME NEW n \in Message
               PROVE  received'[n] + Cardinality(ToPost(n)') <= MaxRetries * runs[n]
    BY <1>1 DEF Posts
  <2>1. ToPost(n)' \subseteq ToPost(n)
    BY <1>13 DEF ToPost
  <2>2. runs[n] \in Nat
    BY DEF IInv, TypeOK
  <2>3. MaxRetries * runs[n] \in Nat
    BY <2>2, OneMoreGrading
  <2>4. received[n] + Cardinality(ToPost(n)) <= MaxRetries * runs[n]
    BY DEF IInv, Posts
  <2>5. CASE n # m
    <3>1. Cardinality(ToPost(n)') <= Cardinality(ToPost(n))
      BY <2>1, CountsFinite, FS_Subset
    <3>2. received'[n] = received[n] /\ received[n] \in Nat
      BY <1>6, <2>5 DEF IInv, TypeOK
    <3>3. QED
      BY <2>3, <2>4, <3>1, <3>2, CountsFinite
  <2>6. CASE n = m
    <3> DEFINE post == <<h[2], MaxRetries>>
    <3>1. {post} \subseteq ToPost(m)
      BY <1>1, <1>3, <1>4 DEF ToPost
    <3>2. post \notin ToPost(m)'
      BY <1>3, <1>5 DEF ToPost
    <3>3. Cardinality(ToPost(m)') + Cardinality({post}) <= Cardinality(ToPost(m))
      <4>1. ToPost(m)' \subseteq ToPost(m) \ {post}
        BY <2>1, <2>6, <3>2
      <4>2. QED
        BY <3>1, <4>1, CountsFinite, ShrunkBy
    <3>4. Cardinality({post}) = 1
      BY SingletonCount
    <3>5. QED
      BY <1>6, <2>3, <2>4, <2>6, <3>3, <3>4, CountsFinite
  <2>7. QED
    BY <2>5, <2>6
<1>16. OwnJobState'
  <2> SUFFICES ASSUME losses = 0
               PROVE  registered' = {k \in Delivery : handler'[k] \in {"grading", "reporting"}}
    BY <1>1 DEF OwnJobState
  <2>1. \A k \in Delivery : k # h => handler[k] = "none"
    BY <1>10, OnlyHandler DEF ActiveHandlers
  <2>2. QED
    BY <1>1, <1>5, <2>1
<1>17. QED
  BY <1>8, <1>9, <1>11, <1>12, <1>14, <1>15, <1>16 DEF IInv

-----------------------------------------------------------------------------
(* A handler's block has ended.                                             *)
LEMMA SettleInv ==
  ASSUME IInv, NEW h \in Delivery, Acknowledge(h) \/ Reject(h)
  PROVE  IInv'
<1> DEFINE m == h[1]
<1> USE DEF lifeVars, clientVars
<1>1. /\ handler[h] \in {"acking", "rejecting"}
      /\ handler' = [handler EXCEPT ![h] = "none"]
      /\ UNCHANGED <<body, sent, ready, consumer, link, channel, losses, restarts,
                     registered, runs, attempt, received, refused, faults>>
  BY DEF Acknowledge, Reject
<1>2. \/ UNCHANGED <<unacked, acked, discarded>>
      \/ /\ h[2] = channel /\ m \in unacked /\ unacked' = unacked \ {m}
         /\ \/ handler[h] = "acking" /\ acked' = acked \cup {m} /\ discarded' = discarded
            \/ acked' = acked /\ discarded' = discarded \cup {m}
  BY DEF Acknowledge, Reject, Current
<1>3. m \in Message /\ h[2] \in Channel /\ h = <<m, h[2]>>
  BY DeliveryType
<1>4. /\ handler'[h] = "none"
      /\ \A k \in Delivery : k # h => handler'[k] = handler[k]
  BY <1>1 DEF IInv, TypeOK
<1>5. TypeOK'
  <2>1. handler' \in [Delivery -> Phase]
    BY <1>1 DEF IInv, TypeOK, Phase
  <2>2. unacked' \subseteq Message /\ acked' \subseteq Message /\ discarded' \subseteq Message
    BY <1>2, <1>3 DEF IInv, TypeOK
  <2>3. QED
    BY <1>1, <2>1, <2>2 DEF IInv, TypeOK
<1>6. NoMessageLost'
  BY <1>1, <1>2 DEF IInv, NoMessageLost
<1>7. Numbering'
  BY <1>1 DEF IInv, Numbering
<1>8. ActiveHandlers' = ActiveHandlers \ {h} /\ h \in ActiveHandlers
  BY <1>1, <1>4 DEF ActiveHandlers
<1>9. Handlers'
  <2>1. ASSUME NEW k \in ActiveHandlers', k[2] = channel PROVE k[1] \in unacked'
    <3>1. k \in ActiveHandlers /\ k # h /\ k[1] \in unacked
      BY <1>8, <2>1 DEF IInv, Handlers
    <3>2. CASE h[2] = channel
      BY <1>8, <2>1, <3>1, <3>2 DEF IInv, Handlers
    <3>3. CASE h[2] # channel
      BY <1>2, <3>1, <3>3
    <3>4. QED
      BY <3>2, <3>3
  <2>2. unacked' \subseteq unacked
    BY <1>2
  <2>3. QED
    BY <1>1, <1>8, <2>1, <2>2, HandlersKept DEF IInv
<1>10. Progress'
  <2>1. \A n : IsReported(n)' <=> IsReported(n)
    BY <1>1 DEF IsReported
  <2>2. ASSUME NEW n \in acked', body[n] = "job" PROVE IsReported(n)
    BY <1>2, <2>2 DEF IInv, Progress
  <2>3. QED
    BY <1>1, <1>4, <2>1, <2>2 DEF IInv, Progress
<1>11. \A n \in Message, c \in Channel :
         handler'[<<n, c>>] # "none" => handler'[<<n, c>>] = handler[<<n, c>>]
  BY <1>4 DEF Delivery
<1>12. Gradings'
  <2>1. \A n \in Message : ToGrade(n)' \subseteq ToGrade(n) /\ ToDeliver(n)' = ToDeliver(n)
    BY <1>1, <1>11 DEF ToGrade, ToDeliver
  <2>2. QED
    BY <1>1, <2>1, ChannelFinite, GradingsKept DEF IInv, TypeOK, ToDeliver
<1>13. Posts'
  <2>1. \A n \in Message : ToPost(n)' \subseteq ToPost(n)
    BY <1>1, <1>11 DEF ToPost
  <2>2. QED
    BY <1>1, <2>1, PostsKept DEF IInv
<1>14. OwnJobState'
  BY <1>1, <1>4 DEF IInv, OwnJobState
<1>15. QED
  BY <1>5, <1>6, <1>7, <1>9, <1>10, <1>12, <1>13, <1>14 DEF IInv

-----------------------------------------------------------------------------
(* The cardinality the client's module counts with is the one used here. *)
LEMMA ClientCardinality == \A S : Client!Cardinality(S) = Cardinality(S)
BY DEF Client!Cardinality, Cardinality

(* Handlers are cut off.  What they were posting may arrive: as much as one
   post for each, which is one of those they had left.                      *)
LEMMA CutOff ==
  ASSUME IInv, NEW ss \in SUBSET Reporting, Client!Interrupted(ss),
         UNCHANGED <<body, acked, runs>>,
         \A k \in Delivery : /\ handler'[k] \in {handler[k], "none"}
                             /\ handler[k] = "reporting" => (k \in ss <=> handler'[k] = "none")
  PROVE  /\ attempt' \in [Delivery -> 0 .. MaxRetries] /\ received' \in [Message -> Nat]
         /\ UNCHANGED <<refused, faults>>
         /\ Progress' /\ Posts'
<1>1. PICK reached \in SUBSET ss :
        /\ attempt' = [s \in Delivery |-> IF s \in ss THEN 0 ELSE attempt[s]]
        /\ received' = [j \in Message |->
                          received[j] + Cardinality({s \in reached : JobOf(s) = j})]
        /\ UNCHANGED <<refused, faults>>
  BY ClientCardinality DEF Client!Interrupted
<1> DEFINE got(n) == {s \in reached : JobOf(s) = n}
           last(n) == {<<s[2], MaxRetries>> : s \in got(n)}
<1>2. MaxRetries \in Nat \ {0}
  BY ConsumerAssumption DEF ConsumerAssumption
<1>3. reached \subseteq Delivery /\ \A s \in reached : handler[s] = "reporting"
  BY <1>1 DEF Reporting
<1>4. ASSUME NEW n \in Message
      PROVE  /\ last(n) \subseteq ToPost(n) /\ IsFiniteSet(last(n))
             /\ IsFiniteSet(got(n)) /\ Cardinality(got(n)) <= Cardinality(last(n))
  <2>1. \A s \in got(n) : s = <<n, s[2]>> /\ s[2] \in Channel
    BY <1>3, DeliveryType DEF JobOf
  <2>2. \A s \in got(n) : attempt[<<n, s[2]>>] < MaxRetries /\ handler[<<n, s[2]>>] = "reporting"
    BY <1>3, <2>1 DEF IInv, Progress
  <2>3. last(n) \subseteq ToPost(n)
    BY <1>2, <2>1, <2>2 DEF ToPost
  <2>4. IsFiniteSet(last(n))
    BY <2>3, CountsFinite, FS_Subset
  <2>5. [s \in got(n) |-> <<s[2], MaxRetries>>] \in Injection(got(n), last(n))
    BY <2>1 DEF Injection, IsInjective
  <2>6. QED
    BY <2>3, <2>4, <2>5, FS_Injection
<1>5. ASSUME NEW n \in Message
      PROVE  Cardinality(got(n)) \in Nat /\ received'[n] = received[n] + Cardinality(got(n))
  BY <1>1, <1>4, FS_CardinalityType
<1>6. received' \in [Message -> Nat] /\ attempt' \in [Delivery -> 0 .. MaxRetries]
  BY <1>1, <1>2, <1>5 DEF IInv, TypeOK
<1>7. Progress'
  <2>1. ASSUME NEW n \in Message, IsReported(n) PROVE IsReported(n)'
    <3>1. received[n] <= received'[n] /\ received'[n] \in Nat /\ runs[n] \in Nat /\ faults \in Nat
      <4>1. received[n] \in Nat /\ runs[n] \in Nat /\ faults \in Nat
        BY DEF IInv, TypeOK
      <4>2. Cardinality(got(n)) \in Nat /\ received'[n] = received[n] + Cardinality(got(n))
        BY <1>5
      <4> HIDE DEF got
      <4>3. QED
        BY <4>1, <4>2
    <3>2. QED
      BY <1>1, <2>1, <3>1, StaysReported DEF IInv
  <2>2. ASSUME NEW k \in Delivery
        PROVE  /\ attempt'[k] < MaxRetries /\ attempt'[k] <= faults'
               /\ handler'[k] # "reporting" => attempt'[k] = 0
    <3>1. attempt[k] \in Nat /\ attempt[k] < MaxRetries /\ attempt[k] <= faults /\ faults \in Nat
      BY DEF IInv, TypeOK, Progress
    <3>2. handler[k] # "reporting" => attempt[k] = 0
      BY DEF IInv, Progress
    <3>3. QED
      BY <1>1, <1>2, <3>1, <3>2
  <2>3. acked \subseteq Message
    BY DEF IInv, TypeOK
  <2>4. QED
    BY <2>1, <2>2, <2>3, DeliveryType DEF IInv, Progress
<1>8. Posts'
  <2> SUFFICES ASSUME NEW n \in Message
               PROVE  received'[n] + Cardinality(ToPost(n)') <= MaxRetries * runs[n]
    BY DEF Posts
  <2>1. ASSUME NEW c \in Channel, handler'[<<n, c>>] = "reporting"
        PROVE  /\ handler[<<n, c>>] = "reporting" /\ <<n, c>> \notin ss
               /\ attempt'[<<n, c>>] = attempt[<<n, c>>]
    BY <1>1, <2>1 DEF Delivery
  <2>2. ToPost(n)' \subseteq ToPost(n)
    BY <2>1 DEF ToPost
  <2>3. \A p \in ToPost(n)' : p \notin last(n)
    <3> SUFFICES ASSUME NEW p \in ToPost(n)', NEW s \in got(n), p = <<s[2], MaxRetries>>
                 PROVE  FALSE
      OBVIOUS
    <3>1. s = <<n, s[2]>> /\ s[2] \in Channel /\ s \in ss
      BY <1>3, DeliveryType DEF JobOf
    <3>2. handler'[<<n, s[2]>>] = "reporting"
      BY DEF ToPost
    <3>3. QED
      BY <2>1, <3>1, <3>2
  <2>4. Cardinality(ToPost(n)') + Cardinality(last(n)) <= Cardinality(ToPost(n))
    BY <1>4, <2>2, <2>3, CountsFinite, ShrunkBy
  <2>5. Cardinality(last(n)) \in Nat
    BY <1>4, FS_CardinalityType
  <2>6. runs[n] \in Nat /\ received[n] \in Nat
    BY DEF IInv, TypeOK
  <2>7. MaxRetries * runs[n] \in Nat
    BY <2>6, OneMoreGrading
  <2>8. received[n] + Cardinality(ToPost(n)) <= MaxRetries * runs[n]
    BY DEF IInv, Posts
  <2>9. /\ Cardinality(got(n)) <= Cardinality(last(n)) /\ Cardinality(got(n)) \in Nat
        /\ received'[n] = received[n] + Cardinality(got(n))
    BY <1>4, <1>5
  <2>10. Cardinality(ToPost(n)') \in Nat /\ Cardinality(ToPost(n)) \in Nat
    <3>1. IsFiniteSet(ToPost(n)) /\ IsFiniteSet(ToPost(n)')
      BY <2>2, CountsFinite, FS_Subset
    <3>2. QED
      BY <3>1, FS_CardinalityType
  <2> HIDE DEF got, last
  <2>11. QED
    BY <2>4, <2>5, <2>6, <2>7, <2>8, <2>9, <2>10
<1>9. QED
  BY <1>1, <1>6, <1>7, <1>8

LEMMA LoseConnectionInv ==
  ASSUME IInv, LoseConnection
  PROVE  IInv'
<1>1. /\ losses < MaxLosses /\ losses' = losses + 1 /\ link' = FALSE /\ channel' = channel + 1
      /\ consumer = "listening"
      /\ ready' = ready \cup unacked /\ unacked' = {}
      /\ UNCHANGED <<body, sent, acked, discarded, consumer, restarts, runs>>
  BY DEF LoseConnection, Requeue
<1>2. /\ losses \in Nat /\ restarts \in Nat /\ losses' \in 0 .. MaxLosses
      /\ channel = losses + restarts /\ channel' \in Channel /\ restarts <= MaxRestarts
  BY <1>1, ConsumerAssumption DEF IInv, TypeOK, Numbering, Channel, ConsumerAssumption
<1>3. /\ \A k \in Delivery : handler'[k] \in {handler[k], "none"}
      /\ handler' \in [Delivery -> Phase] /\ registered' \subseteq Delivery
  BY DEF LoseConnection, ClearJobState, IInv, TypeOK, Phase
<1>4. /\ attempt' \in [Delivery -> 0 .. MaxRetries] /\ received' \in [Message -> Nat]
      /\ UNCHANGED <<refused, faults>>
      /\ Progress' /\ Posts'
  <2>1. CASE UNCHANGED <<handler, registered, clientVars>>
    <3>1. UNCHANGED <<handler, attempt, received, refused, faults>>
      BY <2>1 DEF clientVars
    <3>2. Progress'
      BY <1>1, <3>1 DEF IInv, Progress, IsReported
    <3>3. \A n \in Message : ToPost(n)' = ToPost(n)
      BY <3>1 DEF ToPost
    <3>4. Posts'
      BY <1>1, <3>1, <3>3, PostsKept DEF IInv
    <3>5. QED
      BY <3>1, <3>2, <3>4 DEF IInv, TypeOK
  <2>2. CASE /\ handler' = [h \in Delivery |-> IF h[2] = channel THEN "none" ELSE handler[h]]
             /\ Client!Interrupted({h \in Reporting : h[2] = channel})
    <3>1. \A k \in Delivery : handler[k] = "reporting" =>
            (k \in {h \in Reporting : h[2] = channel} <=> handler'[k] = "none")
      BY <2>2 DEF Reporting
    <3>2. QED
      BY <1>1, <1>3, <2>2, <3>1, CutOff
  <2>3. QED
    BY <2>1, <2>2 DEF LoseConnection
<1>5. TypeOK'
  <2>1. ready' \subseteq Message /\ unacked' \subseteq Message
    BY <1>1 DEF IInv, TypeOK
  <2>2. QED
    BY <1>1, <1>2, <1>3, <1>4, <2>1 DEF IInv, TypeOK
<1>6. NoMessageLost'
  BY <1>1 DEF IInv, NoMessageLost
<1>7. Numbering' /\ OwnJobState'
  BY <1>1, <1>2 DEF Numbering, OwnJobState
<1>8. Handlers'
  <2>1. ActiveHandlers' \subseteq ActiveHandlers
    BY <1>3 DEF ActiveHandlers
  <2>2. ASSUME NEW h \in ActiveHandlers PROVE h[2] \in restarts .. channel' /\ h[2] # channel'
    BY <1>1, <1>2 DEF IInv, Handlers
  <2>3. QED
    BY <1>1, <2>1, <2>2 DEF IInv, Handlers
<1>9. Gradings'
  <2>1. ASSUME NEW n \in Message PROVE ToGrade(n)' \subseteq ToGrade(n)
    BY <1>3 DEF ToGrade, Delivery
  <2>2. ASSUME NEW n \in Message PROVE ToDeliver(n)' - ToDeliver(n) <= channel' - channel
    BY <1>1, <1>2 DEF ToDeliver
  <2>3. channel' \in Nat
    BY <1>2, ChannelFinite
  <2>4. QED
    BY <1>1, <2>1, <2>2, <2>3, GradingsKept DEF IInv
<1>10. QED
  BY <1>4, <1>5, <1>6, <1>7, <1>8, <1>9 DEF IInv

LEMMA ProcessEndsInv ==
  ASSUME IInv, Restart \/ Shutdown
  PROVE  IInv'
<1>1. /\ ready' = ready \cup unacked /\ unacked' = {} /\ link' = FALSE
      /\ handler' = [h \in Delivery |-> "none"] /\ registered' = {}
      /\ Client!Interrupted(Reporting)
      /\ UNCHANGED <<body, sent, acked, discarded, runs, losses>>
  BY DEF Restart, Shutdown, ProcessEnds, Requeue
<1>2. /\ losses \in 0 .. MaxLosses /\ restarts \in 0 .. MaxRestarts
      /\ channel = losses + restarts
  BY DEF IInv, TypeOK, Numbering
<1>3. \/ /\ consumer # "stopped" /\ consumer' = "starting"
         /\ restarts' = restarts + 1 /\ restarts < MaxRestarts /\ channel' = channel + 1
      \/ consumer' = "stopped" /\ UNCHANGED <<restarts, channel>>
  BY DEF Restart, Shutdown
<1>4. /\ channel' = losses + restarts' /\ restarts' \in 0 .. MaxRestarts
      /\ channel' \in Channel /\ consumer' \in {"starting", "stopped"}
  BY <1>2, <1>3, ConsumerAssumption DEF Channel, ConsumerAssumption
<1>5. /\ attempt' \in [Delivery -> 0 .. MaxRetries] /\ received' \in [Message -> Nat]
      /\ UNCHANGED <<refused, faults>>
      /\ Progress' /\ Posts'
  <2>1. \A k \in Delivery : /\ handler'[k] = "none"
                            /\ handler[k] = "reporting" => k \in Reporting
    BY <1>1 DEF Reporting
  <2>2. QED
    BY <1>1, <2>1, CutOff
<1>6. TypeOK'
  <2>1. ready' \subseteq Message /\ handler' \in [Delivery -> Phase]
    BY <1>1 DEF IInv, TypeOK, Phase
  <2>2. QED
    BY <1>1, <1>4, <1>5, <2>1 DEF IInv, TypeOK
<1>7. NoMessageLost'
  BY <1>1 DEF IInv, NoMessageLost
<1>8. ActiveHandlers' = {}
  BY <1>1 DEF ActiveHandlers
<1>9. Numbering' /\ Handlers' /\ OwnJobState'
  BY <1>1, <1>4, <1>8 DEF Numbering, Handlers, OwnJobState
<1>10. Gradings'
  <2>1. ASSUME NEW n \in Message PROVE ToGrade(n)' \subseteq ToGrade(n)
    BY <1>1 DEF ToGrade, Delivery
  <2>2. ASSUME NEW n \in Message PROVE ToDeliver(n)' - ToDeliver(n) <= channel' - channel
    BY <1>1, <1>2, <1>3 DEF ToDeliver
  <2>3. channel' \in Nat
    BY <1>4, ChannelFinite
  <2>4. QED
    BY <1>1, <2>1, <2>2, <2>3, GradingsKept DEF IInv
<1>11. QED
  BY <1>5, <1>6, <1>7, <1>9, <1>10 DEF IInv

-----------------------------------------------------------------------------
LEMMA NextInv == IInv /\ [Next]_vars => IInv'
<1> SUFFICES ASSUME IInv, [Next]_vars PROVE IInv'
  OBVIOUS
<1>1. CASE \E m \in Message : Send(m) \/ Deliver(m)
  BY <1>1, BrokerInv, DeliverInv
<1>2. CASE StartConsuming \/ ConnectFails \/ Reconnect \/ UNCHANGED vars
  BY <1>2, BrokerInv
<1>3. CASE \E h \in Delivery : Handle(h)
  BY <1>3, InitializeInv, GradeInv, PostAgainInv, ReportedInv, SettleInv DEF Handle
<1>4. CASE LoseConnection
  BY <1>4, LoseConnectionInv
<1>5. CASE Restart \/ Shutdown
  BY <1>5, ProcessEndsInv
<1>6. QED
  BY <1>1, <1>2, <1>3, <1>4, <1>5 DEF Next, Quiet

LEMMA Inductive == Spec => []IInv
BY InitInv, NextInv, PTL DEF Spec

-----------------------------------------------------------------------------
(* Every variable of the consumer, its broker and its client keeps its type;
   the bounds on losses, restarts and faults included. *)
THEOREM TypeCorrect == Spec => []TypeOK
<1>1. IInv => TypeOK
  BY DEF IInv
<1>2. QED
  BY <1>1, Inductive, PTL

(* However often connections are lost and the worker restarts, a message sent
   is waiting, out, or settled once. *)
THEOREM NothingLost == Spec => []NoMessageLost
<1>1. IInv => NoMessageLost
  BY DEF IInv
<1>2. QED
  BY <1>1, Inductive, PTL

(* A job that is acknowledged was graded, and its result was posted unless the
   faults of the posts account for it. *)
THEOREM AcknowledgedAfterReport == Spec => []AckedMeansReported
<1>1. IInv => AckedMeansReported
  BY DEF IInv, Progress, IsReported, AckedMeansReported
<1>2. QED
  BY <1>1, Inductive, PTL

(* A job is graded at most once more than there were losses and restarts, and
   its result is posted at most MaxRetries times per grading. *)
THEOREM RepetitionBounded == Spec => []BoundedRegrading
<1>1. IInv => BoundedRegrading
  <2> SUFFICES ASSUME IInv, NEW m \in Message
               PROVE  runs[m] <= 1 + losses + restarts /\ received[m] <= MaxRetries * runs[m]
    BY DEF BoundedRegrading
  <2>1. /\ runs[m] \in Nat /\ received[m] \in Nat /\ losses \in Nat /\ restarts \in Nat
        /\ ToDeliver(m) \in Nat /\ channel = losses + restarts
    BY DEF IInv, TypeOK, ToDeliver, Numbering
  <2>2. MaxRetries * runs[m] \in Nat
    BY <2>1, OneMoreGrading
  <2>3. runs[m] + Cardinality(ToGrade(m)) + ToDeliver(m) <= 1 + channel
    BY DEF IInv, Gradings
  <2>4. received[m] + Cardinality(ToPost(m)) <= MaxRetries * runs[m]
    BY DEF IInv, Posts
  <2>5. QED
    BY <2>1, <2>2, <2>3, <2>4, CountsFinite
<1>2. QED
  BY <1>1, Inductive, PTL

(* One handler is at work at a time, and one more at most for each connection
   that was lost. *)
THEOREM HandlersBounded == Spec => []OneAtATime
<1>1. IInv => OneAtATime
  <2> SUFFICES ASSUME IInv PROVE Cardinality(ActiveHandlers) <= 1 + losses
    BY DEF OneAtATime
  <2>1. losses \in Nat /\ restarts \in Nat /\ channel = losses + restarts
    BY DEF IInv, TypeOK, Numbering
  <2>2. IsFiniteSet(restarts .. channel) /\ Cardinality(restarts .. channel) = losses + 1
    BY <2>1, FS_Interval
  <2>3. [h \in ActiveHandlers |-> h[2]] \in Injection(ActiveHandlers, restarts .. channel)
    BY DEF IInv, Handlers, Injection, IsInjective
  <2>4. Cardinality(ActiveHandlers) <= losses + 1
    BY <2>2, <2>3, FS_Injection
  <2>5. QED
    BY <2>1, <2>4
<1>2. QED
  BY <1>1, Inductive, PTL

(* Until a connection is lost, the devices registered are those of the job
   being graded. *)
THEOREM JobStateOwned == Spec => []OwnJobState
<1>1. IInv => OwnJobState
  BY DEF IInv
<1>2. QED
  BY <1>1, Inductive, PTL
=============================================================================
