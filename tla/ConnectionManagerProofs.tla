---------------------- MODULE ConnectionManagerProofs ----------------------
(***************************************************************************)
(* Proofs about ConnectionManager: what its runs check, for any devices,   *)
(* jobs, handlings that meet or are cancelled, and number of instances.    *)
(* The inductive invariant says whose devices are registered and who       *)
(* answers for each connection; a cleanup may break the second only for    *)
(* the tasks it strikes.                                                   *)
(***************************************************************************)
EXTENDS ConnectionManager, TLAPS

(* The devices are those of handlings alive, and of a handling that met no
   other exactly its own; nothing is kept when none is alive. *)
JobState ==
  /\ devices \subseteq DevicesIn(Alive)
  /\ \A h \in Alive \ met : Alive = {h} /\ devices = DevicesIn({h})
  /\ Alive = {} => contexts = {} /\ shared = 0

(* The shared instance has its directory and knows devices that are still
   registered, all of them while no two handlings met. *)
SharedInstance ==
  shared # 0 => /\ shared \in dirs
                /\ inventory[shared] \subseteq devices
                /\ Alive \ met # {} => inventory[shared] = devices

(* Every context refers to the one instance. *)
KeptContexts == \A c \in contexts : c.inst = shared

Serves(i, d) == \E c \in contexts : c.inst = i /\ c.dev = d

(* The context of a task is kept while it works, unless it is struck. *)
TasksHaveContext ==
  \A w \in Worker : use[w] # Idle /\ w \notin struck => Serves(use[w].inst, w[2])

(* Every open connection is that of a context, or was left by a struck task. *)
ConnectionsCovered == \A p \in opened : Serves(p[1], p[2]) \/ Struck(p[2])

IInv ==
  /\ TypeOK /\ JobState /\ SharedInstance /\ KeptContexts
  /\ TasksHaveContext /\ ConnectionsCovered /\ CommandKeepsConnection /\ DirectoriesTracked

-----------------------------------------------------------------------------
(* Instances are numbered from 1, so no instance is the absent one. *)
LEMMA InstanceType == Instance \subseteq Nat \ {0}
BY ManagerAssumption DEF Instance, ManagerAssumption

(* A worker is a handling and a device. *)
LEMMA WorkerType ==
  ASSUME NEW w \in Worker
  PROVE  w[1] \in Handling /\ w[2] \in Device /\ w = <<w[1], w[2]>>
BY DEF Worker

(* A task is idle or in one of the phases of its work. *)
LEMMA UseType ==
  ASSUME NEW u \in Use
  PROVE  \/ u = Idle
         \/ /\ u.phase \in {"dispatched", "command", "refused"} /\ u.inst \in Instance
            /\ u.kind \in {"nornir", "custom"}
            /\ u = [phase |-> u.phase, inst |-> u.inst, kind |-> u.kind]
            /\ u # Idle
BY DEF Use, Idle

LEMMA InitInv == Init => IInv
<1> SUFFICES ASSUME Init PROVE IInv
  OBVIOUS
<1>1. todo \in [Worker -> Nat]
  <2>1. \A w \in Worker : TasksOn[JobOf[w[1]]][w[2]] \in Nat
    BY WorkerType, ManagerAssumption DEF ManagerAssumption
  <2>2. QED
    BY <2>1 DEF Init
<1>2. use \in [Worker -> Use] /\ cleanups \in 0 .. MaxCleanups
  BY ManagerAssumption DEF Init, Use, ManagerAssumption
<1>3. TypeOK
  BY <1>1, <1>2 DEF Init, TypeOK
<1>4. JobState /\ SharedInstance /\ KeptContexts
  BY DEF Init, JobState, SharedInstance, KeptContexts, Alive
<1>5. TasksHaveContext /\ ConnectionsCovered
  BY DEF Init, TasksHaveContext, ConnectionsCovered
<1>6. CommandKeepsConnection /\ DirectoriesTracked
  BY DEF Init, CommandKeepsConnection, DirectoriesTracked, Idle
<1>7. QED
  BY <1>3, <1>4, <1>5, <1>6 DEF IInv

-----------------------------------------------------------------------------
(* What get_connection leaves of the manager when a handling is alive. *)
ManagerKept ==
  /\ contexts' \subseteq Context /\ shared' \in Instance \cup {0}
  /\ inventory' \in [Instance -> SUBSET Device] /\ dirs' \subseteq Instance
  /\ contexts \subseteq contexts' /\ SharedInstance' /\ KeptContexts'
  /\ dirs' \ lost \subseteq {shared'}

(* get_connection keeps what the manager promises, and a context answers for
   the instance it hands out. *)
LEMMA ObtainInv ==
  ASSUME IInv, UNCHANGED <<handler, devices, met>>,
         NEW s \in Session, NEW d \in Device, NEW i \in Instance, Obtain(s, d, i)
  PROVE  ManagerKept /\ Serves(i, d)'
<1> DEFINE new == [session |-> s, dev |-> d, inst |-> i]
<1>1. new \in Context /\ new.dev = d /\ new.inst = i
  BY DEF Context
<1>2. Alive' = Alive
  BY DEF Alive
<1>3. CASE (\E c \in Kept(s, d) : i = c.inst) /\ UNCHANGED managerVars
  <2>1. UNCHANGED <<contexts, shared, inventory, dirs>>
    BY <1>3 DEF managerVars
  <2>2. SharedInstance' /\ KeptContexts'
    BY <1>2, <2>1 DEF IInv, SharedInstance, KeptContexts
  <2>3. Serves(i, d)'
    BY <1>3, <2>1 DEF Kept, Serves
  <2>4. QED
    BY <2>1, <2>2, <2>3 DEF IInv, TypeOK, DirectoriesTracked, ManagerKept
<1>4. CASE /\ shared # 0 /\ i = shared
           /\ contexts' = contexts \cup {new}
           /\ UNCHANGED <<shared, inventory, dirs>>
  <2>1. SharedInstance'
    BY <1>2, <1>4 DEF IInv, SharedInstance
  <2>2. contexts' \subseteq Context /\ KeptContexts'
    BY <1>1, <1>4 DEF IInv, TypeOK, KeptContexts
  <2>3. Serves(i, d)'
    BY <1>1, <1>4 DEF Serves
  <2> HIDE DEF new
  <2>4. QED
    BY <1>4, <2>1, <2>2, <2>3 DEF IInv, TypeOK, DirectoriesTracked, ManagerKept
<1>5. CASE /\ MustCreate
           /\ contexts' = contexts \cup {new}
           /\ inventory' = [inventory EXCEPT ![i] = Hosts(d)]
           /\ shared' = i
           /\ dirs' = dirs \cup {i}
  <2>1. shared = 0 /\ \A c \in contexts : c.inst = 0 /\ c.inst \in Instance
    BY <1>5 DEF MustCreate, IInv, TypeOK, KeptContexts, Context
  <2>2. contexts = {}
    BY <2>1, InstanceType
  <2>3. inventory'[i] = devices /\ inventory' \in [Instance -> SUBSET Device]
    BY <1>5 DEF IInv, TypeOK, Hosts
  <2>4. SharedInstance'
    BY <1>5, <2>3 DEF SharedInstance
  <2>5. contexts' \subseteq Context /\ KeptContexts' /\ Serves(i, d)'
    BY <1>1, <1>5, <2>2 DEF KeptContexts, Serves
  <2>6. dirs' \ lost \subseteq {shared'} /\ dirs' \subseteq Instance
    <3>1. dirs \ lost \subseteq {0} /\ dirs \subseteq Instance
      BY <2>1 DEF IInv, TypeOK, DirectoriesTracked
    <3>2. QED
      BY <1>5, <3>1, InstanceType
  <2> HIDE DEF new
  <2>7. QED
    BY <1>5, <2>3, <2>4, <2>5, <2>6 DEF ManagerKept
<1>6. QED
  BY <1>3, <1>4, <1>5 DEF Obtain

(* A task takes the instance it obtained, or the attempt leaves the context. *)
LEMMA TakeInv ==
  ASSUME IInv, UNCHANGED <<handler, devices, failed, history>>, todo' \in [Worker -> Nat],
         NEW w \in Worker, NEW i \in Instance, ManagerKept, Serves(i, w[2])',
         w[1] \in Alive, use[w] = Idle,
         \/ UNCHANGED <<use, opened>>
         \/ \E u \in Use : /\ use' = [use EXCEPT ![w] = u] /\ u # Idle /\ u.inst = i
                           /\ u.phase = "command" => <<i, w[2]>> \in opened'
                           /\ opened' \in {opened, opened \cup {<<i, w[2]>>}}
  PROVE  IInv'
<1>1. /\ UNCHANGED <<cleanups, met, struck, lost>> /\ Alive' = Alive /\ Alive # {}
      /\ DevicesIn(Alive)' = DevicesIn(Alive) /\ w[2] \in Device
      /\ \A d : Struck(d)' <=> Struck(d)
      /\ \A k, d : Serves(k, d) => Serves(k, d)'
  BY WorkerType DEF history, Alive, DevicesIn, Struck, Serves, ManagerKept
<1>2. JobState'
  BY <1>1 DEF IInv, JobState, DevicesIn
<1>3. DirectoriesTracked' /\ SharedInstance' /\ KeptContexts'
  BY <1>1 DEF ManagerKept, DirectoriesTracked
<1>4. CASE UNCHANGED <<use, opened>>
  <2>1. TypeOK'
    BY <1>1, <1>4 DEF IInv, TypeOK, ManagerKept
  <2>2. TasksHaveContext' /\ ConnectionsCovered' /\ CommandKeepsConnection'
    BY <1>1, <1>4 DEF IInv, TasksHaveContext, ConnectionsCovered, CommandKeepsConnection
  <2>3. QED
    BY <1>2, <1>3, <2>1, <2>2 DEF IInv
<1>5. CASE \E u \in Use : /\ use' = [use EXCEPT ![w] = u] /\ u # Idle /\ u.inst = i
                          /\ u.phase = "command" => <<i, w[2]>> \in opened'
                          /\ opened' \in {opened, opened \cup {<<i, w[2]>>}}
  <2>1. PICK u \in Use : /\ use' = [use EXCEPT ![w] = u] /\ u # Idle /\ u.inst = i
                         /\ u.phase = "command" => <<i, w[2]>> \in opened'
                         /\ opened' \in {opened, opened \cup {<<i, w[2]>>}}
    BY <1>5
  <2>2. /\ use'[w] = u /\ \A v \in Worker \ {w} : use'[v] = use[v]
        /\ use' \in [Worker -> Use]
    BY <2>1 DEF IInv, TypeOK
  <2>3. TypeOK'
    BY <1>1, <2>1, <2>2 DEF IInv, TypeOK, ManagerKept
  <2>4. CommandKeepsConnection'
    BY <1>1, <2>1, <2>2 DEF IInv, CommandKeepsConnection
  <2>5. TasksHaveContext'
    BY <1>1, <2>1, <2>2 DEF IInv, TasksHaveContext
  <2>6. ConnectionsCovered'
    <3> SUFFICES ASSUME NEW p \in opened'
                 PROVE  Serves(p[1], p[2])' \/ Struck(p[2])'
      BY DEF ConnectionsCovered
    <3>1. CASE p = <<i, w[2]>>
      BY <3>1
    <3>2. CASE p \in opened
      BY <1>1, <3>2 DEF IInv, ConnectionsCovered
    <3>3. QED
      BY <2>1, <3>1, <3>2
  <2>7. QED
    BY <1>2, <1>3, <2>3, <2>4, <2>5, <2>6 DEF IInv
<1>6. QED
  BY <1>4, <1>5

(* A directory whose instance is not made is on record as lost. *)
LEMMA CreationFailsInv ==
  ASSUME IInv, UNCHANGED <<handler, devices, failed, cleanups, met, struck>>,
         todo' \in [Worker -> Nat],
         NEW s \in Session, NEW d \in Device, NEW i \in Instance, CreationFails(s, d, i)
  PROVE  IInv'
<1>1. /\ UNCHANGED <<contexts, shared, inventory, use, opened>>
      /\ dirs' = dirs \cup {i} /\ lost' = lost \cup {i}
  BY DEF CreationFails
<1>2. Alive' = Alive
  BY DEF Alive
<1>3. TypeOK'
  BY <1>1 DEF IInv, TypeOK
<1>4. JobState' /\ SharedInstance' /\ KeptContexts'
  BY <1>1, <1>2 DEF IInv, JobState, SharedInstance, KeptContexts, DevicesIn
<1>5. TasksHaveContext' /\ ConnectionsCovered' /\ CommandKeepsConnection'
  BY <1>1 DEF IInv, TasksHaveContext, ConnectionsCovered, CommandKeepsConnection, Serves, Struck
<1>6. DirectoriesTracked'
  BY <1>1 DEF IInv, DirectoriesTracked
<1>7. QED
  BY <1>3, <1>4, <1>5, <1>6 DEF IInv

LEMMA BeginTaskInv ==
  ASSUME IInv, NEW w \in Worker, BeginTask(w)
  PROVE  IInv'
<1>1. /\ w[1] \in Alive /\ use[w] = Idle /\ w[1] \in Handling /\ w[2] \in Device
      /\ UNCHANGED <<handler, devices, failed, cleanups, met, struck>>
  BY WorkerType DEF BeginTask
<1>2. todo' \in [Worker -> Nat]
  <2>1. todo[w] \in Nat /\ todo[w] > 0 /\ todo' = [todo EXCEPT ![w] = todo[w] - 1]
    BY DEF BeginTask, IInv, TypeOK
  <2>2. todo[w] - 1 \in Nat
    BY <2>1
  <2>3. QED
    BY <2>1, <2>2 DEF IInv, TypeOK
<1>3. PICK s \in Session, i \in Instance :
        \/ BeginNornir(w, s, i) \/ BeginCustom(w, s, i) \/ CustomUnreachable(w, s, i)
        \/ NotInInventory(w, s, i) \/ CreationFails(s, w[2], i)
  BY <1>1, ManagerAssumption DEF BeginTask, Session, ManagerAssumption
<1>4. CASE BeginNornir(w, s, i)
  <2> DEFINE u == [phase |-> "dispatched", inst |-> i, kind |-> "nornir"]
  <2>1. u \in Use /\ u # Idle /\ u.inst = i /\ u.phase # "command"
    BY DEF Use, Idle
  <2>2. Obtain(s, w[2], i) /\ use' = [use EXCEPT ![w] = u] /\ UNCHANGED <<opened, lost>>
    BY <1>4 DEF BeginNornir
  <2> HIDE DEF u
  <2>3. UNCHANGED history /\ ManagerKept /\ Serves(i, w[2])'
    BY <1>1, <2>2, ObtainInv DEF history
  <2>4. QED
    BY <1>1, <1>2, <2>1, <2>2, <2>3, TakeInv
<1>5. CASE BeginCustom(w, s, i)
  <2> DEFINE u == [phase |-> "command", inst |-> i, kind |-> "custom"]
  <2>1. u \in Use /\ u # Idle /\ u.inst = i
    BY DEF Use, Idle
  <2>2. /\ Obtain(s, w[2], i) /\ use' = [use EXCEPT ![w] = u] /\ UNCHANGED lost
        /\ opened' = opened \cup {<<i, w[2]>>}
    BY <1>5 DEF BeginCustom
  <2> HIDE DEF u
  <2>3. UNCHANGED history /\ ManagerKept /\ Serves(i, w[2])'
    BY <1>1, <2>2, ObtainInv DEF history
  <2>4. QED
    BY <1>1, <1>2, <2>1, <2>2, <2>3, TakeInv
<1>6. CASE CustomUnreachable(w, s, i) \/ NotInInventory(w, s, i)
  <2>1. Obtain(s, w[2], i) /\ UNCHANGED <<use, opened, lost>>
    BY <1>6 DEF CustomUnreachable, NotInInventory
  <2>2. UNCHANGED history /\ ManagerKept /\ Serves(i, w[2])'
    BY <1>1, <2>1, ObtainInv DEF history
  <2>3. QED
    BY <1>1, <1>2, <2>1, <2>2, TakeInv
<1>7. CASE CreationFails(s, w[2], i)
  BY <1>1, <1>2, <1>7, CreationFailsInv
<1>8. QED
  BY <1>3, <1>4, <1>5, <1>6, <1>7

-----------------------------------------------------------------------------
(* The thread of a task starts: its connection is open, or it is refused. *)
LEMMA ThreadStartsInv ==
  ASSUME IInv, NEW w \in Worker, ThreadStarts(w)
  PROVE  IInv'
<1>1. /\ use[w].phase = "dispatched" /\ w[2] \in Device
      /\ UNCHANGED <<handler, devices, contexts, shared, inventory, dirs, failed, todo,
                     cleanups, met, struck, lost>>
  BY WorkerType DEF ThreadStarts, managerVars, history
<1>2. PICK ph \in {"refused", "command"} :
        /\ use' = [use EXCEPT ![w].phase = ph]
        /\ opened' \in {opened, opened \cup {<<use[w].inst, w[2]>>}}
        /\ ph = "command" => <<use[w].inst, w[2]>> \in opened'
  BY DEF ThreadStarts
<1>3. /\ use[w] # Idle /\ use[w].inst \in Instance
      /\ use[w].kind \in {"nornir", "custom"}
      /\ use[w] = [phase |-> use[w].phase, inst |-> use[w].inst, kind |-> use[w].kind]
  <2>1. use[w] \in Use /\ use[w] # Idle
    BY <1>1 DEF IInv, TypeOK, Idle
  <2>2. QED
    BY <2>1, UseType
<1>4. /\ use'[w] = [phase |-> ph, inst |-> use[w].inst, kind |-> use[w].kind]
      /\ \A v \in Worker \ {w} : use'[v] = use[v]
      /\ use' = [use EXCEPT ![w] = use'[w]]
  BY <1>2, <1>3 DEF IInv, TypeOK
<1>5. use'[w] \in Use /\ use'[w] # Idle /\ use'[w].phase = ph /\ use'[w].inst = use[w].inst
  BY <1>3, <1>4 DEF Use, Idle
<1>6. TypeOK'
  <2>1. opened' \subseteq Instance \X Device
    BY <1>1, <1>2, <1>3 DEF IInv, TypeOK
  <2>2. use' \in [Worker -> Use]
    BY <1>4, <1>5 DEF IInv, TypeOK
  <2>3. QED
    BY <1>1, <2>1, <2>2 DEF IInv, TypeOK
<1>7. JobState' /\ SharedInstance' /\ KeptContexts' /\ DirectoriesTracked'
  BY <1>1 DEF IInv, JobState, SharedInstance, KeptContexts, DirectoriesTracked, Alive, DevicesIn
<1>8. \A v \in Worker : use'[v].inst = use[v].inst /\ (use'[v] # Idle <=> use[v] # Idle)
  BY <1>3, <1>4, <1>5
<1>9. TasksHaveContext'
  BY <1>1, <1>8 DEF IInv, TasksHaveContext, Serves
<1>10. ConnectionsCovered'
  <2> SUFFICES ASSUME NEW p \in opened' PROVE Serves(p[1], p[2]) \/ Struck(p[2])
    BY <1>1 DEF ConnectionsCovered, Serves, Struck
  <2>1. CASE p = <<use[w].inst, w[2]>>
    <3>1. w \notin struck => Serves(use[w].inst, w[2])
      BY <1>3 DEF IInv, TasksHaveContext
    <3>2. w \in struck => Struck(w[2])
      BY WorkerType DEF Struck
    <3>3. QED
      BY <2>1, <3>1, <3>2
  <2>2. CASE p \in opened
    BY <2>2 DEF IInv, ConnectionsCovered
  <2>3. QED
    BY <1>2, <2>1, <2>2
<1>11. CommandKeepsConnection'
  BY <1>1, <1>2, <1>4, <1>5 DEF IInv, CommandKeepsConnection
<1>12. QED
  BY <1>6, <1>7, <1>9, <1>10, <1>11 DEF IInv

(* A task leaves its context: nobody's connection is closed. *)
LEMMA LeaveInv ==
  ASSUME IInv, NEW w \in Worker, NEW bad \in SUBSET (Instance \X Device), Leave(w, bad)
  PROVE  IInv'
<1>1. /\ use' = [use EXCEPT ![w] = Idle]
      /\ UNCHANGED <<handler, devices, contexts, shared, dirs, opened, todo,
                     cleanups, met, struck, lost>>
  BY DEF Leave, history
<1> DEFINE live == Live(contexts, shared, [use EXCEPT ![w] = Idle])
<1>2. /\ shared # 0 => shared \in live
      /\ inventory' = [i \in Instance |-> IF i \in live THEN inventory[i] ELSE {}]
      /\ failed' = {p \in failed \cup bad : p[1] \in live}
  BY DEF Leave, Live
<1> HIDE DEF live
<1>3. /\ use'[w] = Idle /\ \A v \in Worker \ {w} : use'[v] = use[v]
      /\ use' \in [Worker -> Use] /\ Idle.phase = "idle"
  BY <1>1 DEF IInv, TypeOK, Use, Idle
<1>4. TypeOK'
  BY <1>1, <1>2, <1>3 DEF IInv, TypeOK
<1>5. JobState' /\ KeptContexts' /\ DirectoriesTracked'
  BY <1>1 DEF IInv, JobState, KeptContexts, DirectoriesTracked, Alive, DevicesIn
<1>6. SharedInstance'
  <2>1. Alive' = Alive /\ (shared # 0 => inventory'[shared] = inventory[shared])
    BY <1>1, <1>2 DEF IInv, TypeOK, Alive
  <2>2. QED
    BY <1>1, <2>1 DEF IInv, SharedInstance
<1>7. TasksHaveContext' /\ ConnectionsCovered'
  BY <1>1, <1>3 DEF IInv, TasksHaveContext, ConnectionsCovered, Serves, Struck
<1>8. CommandKeepsConnection'
  BY <1>1, <1>3 DEF IInv, CommandKeepsConnection
<1>9. QED
  BY <1>4, <1>5, <1>6, <1>7, <1>8 DEF IInv

LEMMA TaskEndsInv ==
  ASSUME IInv, NEW w \in Worker,
         CannotConnect(w) \/ CommandReturns(w) \/ CommandRaises(w) \/ Refused(w)
  PROVE  IInv'
<1>1. use[w].phase \in {"dispatched", "command", "refused"} /\ w[2] \in Device
  BY WorkerType DEF CannotConnect, CommandReturns, CommandRaises, Refused
<1>2. use[w].inst \in Instance
  <2>1. use[w] \in Use /\ use[w] # Idle
    BY <1>1 DEF IInv, TypeOK, Idle
  <2>2. QED
    BY <2>1, UseType
<1>3. Leave(w, {}) \/ Leave(w, {<<use[w].inst, w[2]>>})
  BY DEF CannotConnect, CommandReturns, CommandRaises, Refused
<1>4. QED
  BY <1>1, <1>2, <1>3, LeaveInv

-----------------------------------------------------------------------------
(* A handling begins: alone, on an empty manager, or it meets those alive. *)
LEMMA StartJobInv ==
  ASSUME IInv, NEW h \in Handling, StartJob(h)
  PROVE  IInv'
<1>1. /\ handler[h] = "ahead" /\ handler' = [handler EXCEPT ![h] = "running"]
      /\ devices' = devices \cup DevicesIn({h})
      /\ met' = met \cup (IF Alive = {} THEN {} ELSE Alive \cup {h})
      /\ UNCHANGED <<contexts, shared, inventory, dirs, opened, failed, todo, use,
                     cleanups, struck, lost>>
  BY DEF StartJob, managerVars
<1>2. Alive' = Alive \cup {h} /\ h \notin Alive /\ Alive \subseteq Handling
  BY <1>1 DEF IInv, TypeOK, Alive
<1>3. /\ DevicesIn({h}) \subseteq Device
      /\ DevicesIn(Alive)' = DevicesIn(Alive) \cup DevicesIn({h})
      /\ DevicesIn({h})' = DevicesIn({h})
  BY <1>2, ManagerAssumption DEF DevicesIn, ManagerAssumption
<1>4. TypeOK'
  BY <1>1, <1>2, <1>3 DEF IInv, TypeOK
<1>5. CASE Alive = {}
  <2>1. devices = {} /\ shared = 0 /\ met' = met /\ Alive' = {h}
    BY <1>1, <1>2, <1>5 DEF IInv, JobState, DevicesIn
  <2>2. QED
    <3>1. JobState'
      BY <1>1, <1>3, <2>1 DEF IInv, JobState
    <3>2. SharedInstance'
      BY <1>1, <2>1 DEF SharedInstance
    <3>3. QED
      BY <1>1, <1>4, <3>1, <3>2 DEF IInv, KeptContexts, TasksHaveContext, ConnectionsCovered,
         CommandKeepsConnection, DirectoriesTracked, Serves, Struck
<1>6. CASE Alive # {}
  <2>1. Alive' \ met' = {} /\ Alive' # {} /\ devices \subseteq devices'
    BY <1>1, <1>2, <1>6
  <2>2. JobState'
    BY <1>1, <1>3, <2>1 DEF IInv, JobState
  <2>3. SharedInstance'
    BY <1>1, <2>1 DEF IInv, SharedInstance
  <2>4. QED
    BY <1>1, <1>4, <2>2, <2>3 DEF IInv, KeptContexts, TasksHaveContext, ConnectionsCovered,
       CommandKeepsConnection, DirectoriesTracked, Serves, Struck
<1>7. QED
  BY <1>5, <1>6

LEMMA LoseConnectionInv ==
  ASSUME IInv, NEW h \in Handling, LoseConnection(h)
  PROVE  IInv'
<1>1. /\ handler[h] = "running" /\ handler' = [handler EXCEPT ![h] = "stale"]
      /\ UNCHANGED <<devices, contexts, shared, inventory, dirs, opened, failed, todo, use,
                     cleanups, met, struck, lost>>
  BY DEF LoseConnection, managerVars, history
<1>2. Alive' = Alive
  BY <1>1 DEF IInv, TypeOK, Alive
<1>3. TypeOK'
  BY <1>1 DEF IInv, TypeOK
<1>4. JobState' /\ SharedInstance' /\ KeptContexts'
  BY <1>1, <1>2 DEF IInv, JobState, SharedInstance, KeptContexts, DevicesIn
<1>5. QED
  BY <1>1, <1>3, <1>4 DEF IInv, TasksHaveContext, ConnectionsCovered,
     CommandKeepsConnection, DirectoriesTracked, Serves, Struck

-----------------------------------------------------------------------------
(* cleanup_all: what remains open belongs to tasks struck before. *)
LEMMA CleanupAllEffect ==
  ASSUME IInv, NEW us \in [Worker -> Use], CleanupAll(us)
  PROVE  /\ contexts' = {} /\ shared' = 0 /\ opened' \subseteq opened /\ use' = us
         /\ inventory' \in [Instance -> SUBSET Device] /\ failed' \subseteq failed
         /\ dirs' \subseteq Instance /\ dirs' \ lost = {}
         /\ \A p \in opened' : Struck(p[2])
<1>1. shared' = 0
  BY InstanceType DEF CleanupAll, IInv, TypeOK, SharedInstance
<1>2. /\ contexts' = {} /\ opened' = opened \ UNION {ClosedBy(c) : c \in contexts}
      /\ dirs' = dirs \ {shared} /\ use' = us
  BY DEF CleanupAll
<1>3. inventory' \in [Instance -> SUBSET Device] /\ failed' \subseteq failed
  BY DEF CleanupAll, IInv, TypeOK
<1>4. dirs' \subseteq Instance /\ dirs' \ lost = {}
  BY <1>2 DEF IInv, TypeOK, DirectoriesTracked
<1>5. ASSUME NEW p \in opened' PROVE Struck(p[2])
  <2>1. p \in opened /\ \A c \in contexts : p \notin ClosedBy(c)
    BY <1>2
  <2>2. ~Serves(p[1], p[2])
    BY <2>1 DEF Serves, ClosedBy
  <2>3. QED
    BY <2>1, <2>2 DEF IInv, ConnectionsCovered
<1>6. QED
  BY <1>1, <1>2, <1>3, <1>4, <1>5

(* A cleanup that records whose tasks it strikes keeps the part of the
   invariant that is about tasks. *)
LEMMA CleanupTasks ==
  ASSUME IInv, NEW us \in [Worker -> Use], CleanupAll(us), UNCHANGED lost,
         struck \subseteq struck',
         \A w \in Worker : us[w] # Idle => us[w] = use[w] /\ w \in struck'
  PROVE  /\ KeptContexts' /\ TasksHaveContext' /\ ConnectionsCovered'
         /\ CommandKeepsConnection' /\ DirectoriesTracked'
<1>1. /\ contexts' = {} /\ use' = us /\ dirs' \ lost = {}
      /\ \A p \in opened' : Struck(p[2])
  BY CleanupAllEffect
<1>2. KeptContexts' /\ DirectoriesTracked'
  BY <1>1 DEF KeptContexts, DirectoriesTracked
<1>3. ConnectionsCovered'
  BY <1>1 DEF ConnectionsCovered, Struck
<1>4. TasksHaveContext'
  BY <1>1 DEF TasksHaveContext
<1>5. CommandKeepsConnection'
  BY <1>1 DEF CommandKeepsConnection, Idle
<1>6. QED
  BY <1>2, <1>3, <1>4, <1>5

LEMMA PeriodicCleanupInv ==
  ASSUME IInv, PeriodicCleanup
  PROVE  IInv'
<1>1. /\ cleanups < MaxCleanups /\ cleanups' = cleanups + 1
      /\ CleanupAll(use) /\ struck' = struck \cup AtWork
      /\ UNCHANGED <<handler, devices, todo, met, lost>>
  BY DEF PeriodicCleanup
<1>2. use \in [Worker -> Use] /\ cleanups' \in 0 .. MaxCleanups /\ struck' \subseteq Worker
  BY <1>1, ManagerAssumption DEF IInv, TypeOK, AtWork, ManagerAssumption
<1>3. /\ contexts' = {} /\ shared' = 0 /\ opened' \subseteq opened /\ use' = use
      /\ inventory' \in [Instance -> SUBSET Device] /\ failed' \subseteq failed
      /\ dirs' \subseteq Instance
  BY <1>1, <1>2, CleanupAllEffect
<1>4. TypeOK'
  BY <1>1, <1>2, <1>3 DEF IInv, TypeOK
<1>5. JobState' /\ SharedInstance'
  BY <1>1, <1>3 DEF IInv, JobState, SharedInstance, Alive, DevicesIn
<1>6. \A w \in Worker : use[w] # Idle => w \in struck'
  BY <1>1 DEF AtWork
<1>7. QED
  BY <1>1, <1>2, <1>4, <1>5, <1>6, CleanupTasks DEF IInv

(* clear_job_state: nothing of the handling or of another stays registered. *)
LEMMA ClearJobStateInv ==
  ASSUME IInv, NEW h \in Handling, NEW us \in [Worker -> Use], ClearJobState(h, us),
         struck' \subseteq Worker, struck \subseteq struck',
         \A w \in Worker : us[w] # Idle => us[w] = use[w] /\ w \in struck'
  PROVE  IInv'
<1>1. /\ h \in Alive /\ CleanupAll(us) /\ devices' = {}
      /\ handler' = [handler EXCEPT ![h] = "over"]
      /\ UNCHANGED <<todo, cleanups, met, lost>>
  BY DEF ClearJobState
<1>2. Alive' = Alive \ {h}
  BY <1>1 DEF IInv, TypeOK, Alive
<1>3. /\ contexts' = {} /\ shared' = 0 /\ opened' \subseteq opened /\ use' = us
      /\ inventory' \in [Instance -> SUBSET Device] /\ failed' \subseteq failed
      /\ dirs' \subseteq Instance
  BY <1>1, CleanupAllEffect
<1>4. TypeOK'
  BY <1>1, <1>3 DEF IInv, TypeOK
<1>5. Alive' \ met' = {}
  BY <1>1, <1>2 DEF IInv, JobState
<1>6. JobState' /\ SharedInstance'
  BY <1>1, <1>3, <1>5 DEF JobState, SharedInstance
<1>7. QED
  BY <1>1, <1>4, <1>6, CleanupTasks DEF IInv

LEMMA EndJobInv ==
  ASSUME IInv, NEW h \in Handling, EndJob(h)
  PROVE  IInv'
<1>1. /\ \A d \in Device : use[<<h, d>>] = Idle
      /\ ClearJobState(h, use) /\ struck' = struck \cup {w \in AtWork : w[1] # h}
  BY DEF EndJob
<1>2. use \in [Worker -> Use] /\ struck' \subseteq Worker /\ struck \subseteq struck'
  BY <1>1 DEF IInv, TypeOK, AtWork
<1>3. ASSUME NEW w \in Worker, use[w] # Idle PROVE w \in struck'
  <2>1. w[1] # h
    BY <1>1, <1>3, WorkerType
  <2>2. QED
    BY <1>1, <1>3, <2>1 DEF AtWork
<1>4. QED
  BY <1>1, <1>2, <1>3, ClearJobStateInv

LEMMA CancelJobInv ==
  ASSUME IInv, NEW h \in Handling, CancelJob(h)
  PROVE  IInv'
<1>1. PICK dropped \in SUBSET {w \in Worker : w[1] = h /\ use[w].phase = "dispatched"} :
        /\ ClearJobState(h, [w \in Worker |->
             IF w \in dropped \/ (w[1] = h /\ use[w].phase = "refused") THEN Idle ELSE use[w]])
        /\ struck' = struck \cup AtWork
  BY DEF CancelJob
<1> DEFINE us == [w \in Worker |->
                    IF w \in dropped \/ (w[1] = h /\ use[w].phase = "refused") THEN Idle ELSE use[w]]
<1>2. us \in [Worker -> Use]
  BY DEF IInv, TypeOK, Use
<1>3. struck' \subseteq Worker /\ struck \subseteq struck'
  BY <1>1 DEF IInv, TypeOK, AtWork
<1>4. \A w \in Worker : us[w] # Idle => us[w] = use[w] /\ w \in struck'
  BY <1>1 DEF AtWork
<1> HIDE DEF us
<1>5. ClearJobState(h, us)
  BY <1>1 DEF us
<1>6. QED
  BY <1>2, <1>3, <1>4, <1>5, ClearJobStateInv

-----------------------------------------------------------------------------
LEMMA NextInv == IInv /\ [Next]_vars => IInv'
<1> SUFFICES ASSUME IInv, [Next]_vars PROVE IInv'
  OBVIOUS
<1>1. CASE \E h \in Handling : StartJob(h) \/ LoseConnection(h) \/ EndJob(h) \/ CancelJob(h)
  BY <1>1, StartJobInv, LoseConnectionInv, EndJobInv, CancelJobInv
<1>2. CASE \E w \in Worker : TaskStep(w)
  BY <1>2, BeginTaskInv, ThreadStartsInv, TaskEndsInv DEF TaskStep
<1>3. CASE PeriodicCleanup
  BY <1>3, PeriodicCleanupInv
<1>4. CASE UNCHANGED vars
  <2>1. UNCHANGED <<handler, devices, contexts, shared, inventory, dirs, opened, failed, todo,
                    use, cleanups, met, struck, lost>>
    BY <1>4 DEF vars, managerVars, history
  <2>2. TypeOK'
    BY <2>1 DEF IInv, TypeOK
  <2>3. JobState' /\ SharedInstance' /\ KeptContexts'
    BY <2>1 DEF IInv, JobState, SharedInstance, KeptContexts, Alive, DevicesIn
  <2>4. TasksHaveContext' /\ ConnectionsCovered' /\ CommandKeepsConnection' /\ DirectoriesTracked'
    BY <2>1 DEF IInv, TasksHaveContext, ConnectionsCovered, CommandKeepsConnection,
       DirectoriesTracked, Serves, Struck
  <2>5. QED
    BY <2>2, <2>3, <2>4 DEF IInv
<1>5. QED
  BY <1>1, <1>2, <1>3, <1>4 DEF Next, AllDone

LEMMA Inductive == Spec => []IInv
BY InitInv, NextInv, PTL DEF Spec

-----------------------------------------------------------------------------
(* Handlings, contexts, instances and tasks keep their types. *)
THEOREM TypeCorrect == Spec => []TypeOK
<1>1. IInv => TypeOK
  BY DEF IInv
<1>2. QED
  BY <1>1, Inductive, PTL

(* When no job is handled nothing is registered or kept, and a connection is
   open only to a device whose task a cleanup struck. *)
THEOREM NothingLeaksBetweenJobs == Spec => []NothingLeaks
<1>1. IInv => NothingLeaks
  <2> SUFFICES ASSUME IInv, Alive = {}
               PROVE  /\ devices = {} /\ contexts = {} /\ shared = 0
                      /\ \A p \in opened : Struck(p[2])
    BY DEF NothingLeaks
  <2>1. devices = {} /\ contexts = {} /\ shared = 0
    BY DEF IInv, JobState, DevicesIn
  <2>2. QED
    BY <2>1 DEF IInv, ConnectionsCovered, Serves
<1>2. QED
  BY <1>1, Inductive, PTL

(* A connection is closed under a command only by a cleanup that is not the
   end of the command's own job. *)
THEOREM CommandsKeepConnections == Spec => []CommandKeepsConnection
<1>1. IInv => CommandKeepsConnection
  BY DEF IInv
<1>2. QED
  BY <1>1, Inductive, PTL

(* The shared instance knows no device of a job that is over, and all devices
   of a job that met no other. *)
THEOREM SharedKnowsTheJob == Spec => []SharedCoversJob
<1>1. IInv => SharedCoversJob
  <2> SUFFICES ASSUME IInv, shared # 0
               PROVE  /\ inventory[shared] \subseteq DevicesIn(Alive)
                      /\ \A h \in Alive \ met : inventory[shared] = DevicesIn({h})
    BY DEF SharedCoversJob
  <2>1. inventory[shared] \subseteq DevicesIn(Alive)
    BY DEF IInv, JobState, SharedInstance
  <2>2. \A h \in Alive \ met : inventory[shared] = DevicesIn({h})
    BY DEF IInv, JobState, SharedInstance
  <2>3. QED
    BY <2>1, <2>2
<1>2. QED
  BY <1>1, Inductive, PTL

(* An open connection is the shared instance's and a context will close it,
   unless a cleanup struck a task of its device. *)
THEOREM EveryConnectionOwned == Spec => []ConnectionsOwned
<1>1. IInv => ConnectionsOwned
  BY DEF IInv, KeptContexts, ConnectionsCovered, ConnectionsOwned, Serves
<1>2. QED
  BY <1>1, Inductive, PTL

(* Only directories whose instance could not be made are ever forgotten. *)
THEOREM EveryDirectoryTracked == Spec => []DirectoriesTracked
<1>1. IInv => DirectoriesTracked
  BY DEF IInv
<1>2. QED
  BY <1>1, Inductive, PTL

=============================================================================
