------------------------- MODULE ConnectionManager -------------------------
(***************************************************************************)
(* ConnectionManager as NornirGradingService drives it: the contexts kept  *)
(* per session and device, the Nornir instance they share, the inventory   *)
(* directories, the device connection each instance opens per host, and    *)
(* the hosts that Nornir remembers as failed.                              *)
(*                                                                         *)
(* Jobs come one after the other, unless a lost broker connection starts   *)
(* the next while the handler of the last is still at work.  Whoever ends  *)
(* or is cancelled calls clear_job_state, the hourly cleanup calls         *)
(* cleanup_all, and neither asks who else is at work.                      *)
(*                                                                         *)
(* No function of the manager awaits anything that suspends, so each is    *)
(* one action; the device command in the executor thread is not.  Every    *)
(* caller asks get_connection for SHARED, the mode modelled here.          *)
(***************************************************************************)
EXTENDS Integers, FiniteSets

CONSTANTS
  Device,        \* device ids
  Job,           \* job ids
  NoJob,         \* the session of tasks that are not given the job's id
  Handling,      \* handlings of jobs: a job delivered again is handled again
  JobOf,         \* the job of each handling
  DevicesOf,     \* the devices each job registers
  TasksOn,       \* how many tasks of each job execute on each device
  MaxCleanups,   \* bound: runs of the periodic cleanup
  MaxFailures,   \* bound: inventories that cannot be created
  MaxInstances   \* bound: Nornir instances and directories at a time

ASSUME ManagerAssumption ==
  /\ NoJob \notin Job
  /\ JobOf \in [Handling -> Job]
  /\ DevicesOf \in [Job -> SUBSET Device]
  /\ TasksOn \in [Job -> [Device -> Nat]]
  /\ MaxCleanups \in Nat
  /\ MaxFailures \in Nat
  /\ MaxInstances \in Nat

Instance == 1 .. MaxInstances
Session == Job \cup {NoJob}
Worker == Handling \X Device

VARIABLES
  handler,    \* the phase of each handling
  devices,    \* self.devices: registered device ids
  contexts,   \* self._active_connections
  shared,     \* self._shared_nr_instance, 0 for None
  inventory,  \* the hosts of each instance
  dirs,       \* instances whose temporary directory exists
  opened,     \* <<instance, device>> pairs with an open device connection
  failed,     \* Nornir's failed_hosts of each instance, as such pairs
  todo,       \* how many tasks of a handling on a device are to come
  use,        \* what the task at work for a handling on a device is doing
  \* the others only record what happened
  cleanups,   \* runs of the periodic cleanup so far
  met,        \* handlings that were alive together with another
  struck,     \* workers whose task a cleanup that was not theirs struck
  lost        \* directories whose instance was never created

managerVars == <<contexts, shared, inventory, dirs>>
history == <<cleanups, met, struck, lost>>
vars == <<handler, devices, managerVars, opened, failed, todo, use, history>>

Idle == [phase |-> "idle", inst |-> 0, kind |-> "none"]

(* dispatched: Nornir's run is queued on an executor thread or about to open
   the connection; command: a command is on its way over the connection;
   refused: Nornir had no host to run on, the result lookup raises. *)
Use == [phase : {"dispatched", "command", "refused"}, inst : Instance,
        kind : {"nornir", "custom"}] \cup {Idle}

Context == [session : Session, dev : Device, inst : Instance]

Init ==
  /\ handler = [h \in Handling |-> "ahead"]
  /\ devices = {}
  /\ contexts = {}
  /\ shared = 0
  /\ inventory = [i \in Instance |-> {}]
  /\ dirs = {}
  /\ opened = {}
  /\ failed = {}
  /\ todo = [w \in Worker |-> TasksOn[JobOf[w[1]]][w[2]]]
  /\ use = [w \in Worker |-> Idle]
  /\ cleanups = 0 /\ met = {} /\ struck = {} /\ lost = {}

-----------------------------------------------------------------------------
Alive == {h \in Handling : handler[h] \in {"running", "stale"}}

AtWork == {w \in Worker : use[w] # Idle}

DevicesIn(hs) == UNION {DevicesOf[JobOf[h]] : h \in hs}

(* process_grading_job registers the devices of the job (add_device).  The
   broker hands out one message at a time per connection. *)
StartJob(h) ==
  /\ handler[h] = "ahead"
  /\ \A g \in Handling : handler[g] # "running"
  /\ handler' = [handler EXCEPT ![h] = "running"]
  /\ devices' = devices \cup DevicesIn({h})
  /\ met' = met \cup (IF Alive = {} THEN {} ELSE Alive \cup {h})
  /\ UNCHANGED <<managerVars, opened, failed, todo, use, cleanups, struck, lost>>

(* The broker connection is lost; the handler of its delivery goes on. *)
LoseConnection(h) ==
  /\ handler[h] = "running"
  /\ handler' = [handler EXCEPT ![h] = "stale"]
  /\ UNCHANGED <<devices, managerVars, opened, failed, todo, use, history>>

(* Instances somebody still refers to; Python reclaims the others, and an id
   of theirs without open connections may be used again. *)
Live(cs, sh, us) ==
  ({sh} \cup {c.inst : c \in cs} \cup {us[w].inst : w \in Worker}) \ {0}

Fresh(i) ==
  LET free == Instance \ (Live(contexts, shared, use) \cup dirs \cup {p[1] : p \in opened})
  IN  i \in free /\ \A k \in free : i <= k

(* The context that is kept for this session and device. *)
Kept(s, d) == {c \in contexts : c.session = s /\ c.dev = d}

(* Defect: an instance is made although there is one to share. *)
AlwaysCreate == TRUE

(* get_connection makes an instance when there is none to share. *)
MustCreate == shared = 0

(* Defect: the shared instance knows the first device only. *)
OnlyDevice(d) == devices \cap {d}

(* The hosts of the shared instance: whatever is registered now. *)
Hosts(d) == devices

(* get_connection: instance i serves device d for session s. *)
Obtain(s, d, i) ==
  \/ /\ \E c \in Kept(s, d) : i = c.inst
     /\ UNCHANGED managerVars
  \/ /\ Kept(s, d) = {}
     /\ contexts' = contexts \cup {[session |-> s, dev |-> d, inst |-> i]}
     /\ \/ /\ shared # 0 /\ i = shared
           /\ UNCHANGED <<shared, inventory, dirs>>
        \/ /\ MustCreate
           /\ Fresh(i)
           /\ inventory' = [inventory EXCEPT ![i] = Hosts(d)]
           /\ shared' = i
           /\ dirs' = dirs \cup {i}

(* get_connection makes the directory, but writing the inventory into it or
   InitNornir raises: no context and no shared instance refers to it, and the
   handlers of the exception only raise it again. *)
CreationFails(s, d, i) ==
  /\ Kept(s, d) = {} /\ MustCreate
  /\ Cardinality(lost) < MaxFailures
  /\ Fresh(i)
  /\ dirs' = dirs \cup {i}
  /\ lost' = lost \cup {i}
  /\ UNCHANGED <<contexts, shared, inventory, use, opened>>

(* A task runs Nornir (ping, command, ssh test): the context is obtained, the
   instance filtered, the run handed to an executor thread. *)
BeginNornir(w, s, i) ==
  /\ Obtain(s, w[2], i)
  /\ w[2] \in inventory'[i]
  /\ use' = [use EXCEPT ![w] = [phase |-> "dispatched", inst |-> i, kind |-> "nornir"]]
  /\ UNCHANGED <<opened, lost>>

(* custom_task_connection opens the connection itself and, on the event loop's
   own thread, waits for it; its commands run on executor threads. *)
BeginCustom(w, s, i) ==
  /\ Obtain(s, w[2], i)
  /\ w[2] \in inventory'[i]
  /\ use' = [use EXCEPT ![w] = [phase |-> "command", inst |-> i, kind |-> "custom"]]
  /\ opened' = opened \cup {<<i, w[2]>>}
  /\ UNCHANGED lost

(* The host of a custom task cannot be reached: get_connection raises. *)
CustomUnreachable(w, s, i) ==
  /\ Obtain(s, w[2], i)
  /\ w[2] \in inventory'[i] /\ <<i, w[2]>> \notin opened
  /\ UNCHANGED <<use, opened, lost>>

(* get_filtered_nornir: "Device not found in Nornir inventory".  The context
   is kept all the same. *)
NotInInventory(w, s, i) ==
  /\ Obtain(s, w[2], i)
  /\ w[2] \notin inventory'[i]
  /\ UNCHANGED <<use, opened, lost>>

(* Rescue and cleanup tasks, and pings of custom tasks, are not given the id
   of the job. *)
BeginTask(w) ==
  /\ w[1] \in Alive
  /\ use[w] = Idle
  /\ todo[w] > 0
  /\ todo' = [todo EXCEPT ![w] = @ - 1]
  /\ \E s \in {JobOf[w[1]], NoJob}, i \in Instance :
       \/ BeginNornir(w, s, i) \/ BeginCustom(w, s, i) \/ CustomUnreachable(w, s, i)
       \/ NotInInventory(w, s, i) \/ CreationFails(s, w[2], i)
  /\ UNCHANGED <<handler, devices, failed, cleanups, met, struck>>

-----------------------------------------------------------------------------
(* The executor thread starts: Nornir leaves out failed hosts, otherwise the
   host's connection is opened, or the one it has is used. *)
ThreadStarts(w) ==
  /\ use[w].phase = "dispatched"
  /\ IF <<use[w].inst, w[2]>> \in failed
       THEN /\ use' = [use EXCEPT ![w].phase = "refused"]
            /\ UNCHANGED opened
       ELSE /\ use' = [use EXCEPT ![w].phase = "command"]
            /\ opened' = opened \cup {<<use[w].inst, w[2]>>}
  /\ UNCHANGED <<handler, devices, managerVars, failed, todo, history>>

(* The context manager is left, which for SHARED closes nothing; of a handling
   that is over only the thread ends.  bad are the hosts Nornir recorded as
   failed. *)
Leave(w, bad) ==
  LET live == Live(contexts, shared, [use EXCEPT ![w] = Idle])
  IN  /\ use' = [use EXCEPT ![w] = Idle]
      /\ inventory' = [i \in Instance |-> IF i \in live THEN inventory[i] ELSE {}]
      /\ failed' = {p \in failed \cup bad : p[1] \in live}
      /\ UNCHANGED <<handler, devices, contexts, shared, dirs, opened, todo, history>>

(* The command returns; it cannot when its connection was closed. *)
CommandReturns(w) ==
  /\ use[w].phase = "command"
  /\ <<use[w].inst, w[2]>> \in opened
  /\ Leave(w, {})

(* The command raises, a timeout for instance: Nornir records the host. *)
CommandRaises(w) ==
  /\ use[w].phase = "command"
  /\ Leave(w, IF use[w].kind = "nornir" THEN {<<use[w].inst, w[2]>>} ELSE {})

(* The thread cannot open the connection, which is a failure of the host. *)
CannotConnect(w) ==
  /\ use[w].phase = "dispatched"
  /\ {<<use[w].inst, w[2]>>} \cap (failed \cup opened) = {}
  /\ Leave(w, {<<use[w].inst, w[2]>>})

(* Defect: the exception leaves the context without its exit. *)
RefusedStays(w) ==
  /\ use[w].phase = "refused"
  /\ use' = [use EXCEPT ![w].phase = "idle"]
  /\ UNCHANGED <<handler, devices, managerVars, opened, failed, todo, history>>

(* The result lookup raises; the context manager is left. *)
Refused(w) ==
  /\ use[w].phase = "refused"
  /\ Leave(w, {})

-----------------------------------------------------------------------------
(* Defect: the contexts of tasks without the job's id are not closed. *)
ClosedOfJob(c) == {p \in opened : p = <<c.inst, c.dev>> /\ c.session # NoJob}

(* _close_context_connections: the host's connections, or all those of the
   instance when the host is not in its inventory. *)
ClosedBy(c) ==
  {p \in opened : p[1] = c.inst /\ (c.dev \in inventory[c.inst] => p[2] = c.dev)}

(* cleanup_all, and the tasks us that it leaves *)
CleanupAll(us) ==
  /\ opened' = opened \ UNION {ClosedBy(c) : c \in contexts}
  /\ contexts' = {}
  /\ dirs' = dirs \ {shared}
  /\ shared' = IF shared \in dirs THEN 0 ELSE shared
  /\ use' = us
  /\ LET live == Live({}, shared', us)
     IN  /\ inventory' = [i \in Instance |-> IF i \in live THEN inventory[i] ELSE {}]
         /\ failed' = {p \in failed : p[1] \in live}

(* The hourly cleanup does not ask whether a job is running. *)
PeriodicCleanup ==
  /\ cleanups < MaxCleanups
  /\ cleanups' = cleanups + 1
  /\ CleanupAll(use)
  /\ struck' = struck \cup AtWork
  /\ UNCHANGED <<handler, devices, todo, met, lost>>

(* clear_job_state, as the last thing a handling does *)
ClearJobState(h, us) ==
  /\ h \in Alive
  /\ CleanupAll(us)
  /\ devices' = {}
  /\ handler' = [handler EXCEPT ![h] = "over"]
  /\ UNCHANGED <<todo, cleanups, met, lost>>

(* Defect: the end does not wait for the tasks of the job. *)
EndJobEarly(h) ==
  /\ ClearJobState(h, use)
  /\ struck' = struck \cup {w \in AtWork : w[1] # h}

(* process_grading_job has gathered every task of its own when it comes to its
   end; the consumer's finally clears what is clear then.  Tasks of another
   handling are struck. *)
EndJob(h) ==
  /\ \A d \in Device : use[<<h, d>>] = Idle
  /\ ClearJobState(h, use)
  /\ struck' = struck \cup {w \in AtWork : w[1] # h}

(* The handling is cancelled (shutdown, a closed channel) and the consumer's
   finally clears the state.  Threads at work go on without their coroutine;
   runs still queued may be dropped. *)
CancelJob(h) ==
  \E dropped \in SUBSET {w \in Worker : w[1] = h /\ use[w].phase = "dispatched"} :
    /\ ClearJobState(h, [w \in Worker |->
         IF w \in dropped \/ (w[1] = h /\ use[w].phase = "refused") THEN Idle ELSE use[w]])
    /\ struck' = struck \cup AtWork

AllDone ==
  /\ \A h \in Handling : handler[h] = "over"
  /\ AtWork = {}
  /\ UNCHANGED vars

TaskStep(w) ==
  \/ BeginTask(w) \/ ThreadStarts(w) \/ CannotConnect(w)
  \/ CommandReturns(w) \/ CommandRaises(w) \/ Refused(w)

Next ==
  \/ \E h \in Handling : StartJob(h) \/ LoseConnection(h) \/ EndJob(h) \/ CancelJob(h)
  \/ \E w \in Worker : TaskStep(w)
  \/ PeriodicCleanup \/ AllDone

Spec == Init /\ [][Next]_vars

-----------------------------------------------------------------------------
TypeOK ==
  /\ handler \in [Handling -> {"ahead", "running", "stale", "over"}]
  /\ devices \subseteq Device
  /\ contexts \subseteq Context
  /\ shared \in Instance \cup {0}
  /\ inventory \in [Instance -> SUBSET Device]
  /\ dirs \subseteq Instance
  /\ opened \subseteq Instance \X Device
  /\ failed \subseteq Instance \X Device
  /\ todo \in [Worker -> Nat]
  /\ use \in [Worker -> Use]
  /\ cleanups \in 0 .. MaxCleanups
  /\ met \subseteq Handling
  /\ struck \subseteq Worker
  /\ lost \subseteq Instance

(* A cleanup struck a task on device d. *)
Struck(d) == \E h \in Handling : <<h, d>> \in struck

(* "Call this after each job completes to prevent memory leaks"
   (connection_manager.py:438): when no job is being handled no device is
   registered, no context and no shared instance is left, whoever was cancelled
   or met; a connection is left only to a device whose task a cleanup struck,
   since its thread may open one after the context is gone. *)
NothingLeaks ==
  Alive = {} =>
    /\ devices = {} /\ contexts = {} /\ shared = 0
    /\ \A p \in opened : Struck(p[2])

(* A command in flight still has its connection, unless the hourly cleanup,
   its own cancellation or the end of another handling struck it.  The end of
   its own job never does. *)
CommandKeepsConnection ==
  \A w \in Worker : use[w].phase = "command" /\ w \notin struck => <<use[w].inst, w[2]>> \in opened

(* docs/NETGRADER_COMPREHENSIVE_IMPLEMENTATION.md, "SHARED Mode Device
   Inventory": the shared instance knows no device of a job that is over, and
   to a job that was alone all the time it knows exactly its devices. *)
SharedCoversJob ==
  shared # 0 =>
    /\ inventory[shared] \subseteq DevicesIn(Alive)
    /\ \A h \in Alive \ met : inventory[shared] = DevicesIn({h})

(* "shared per device so all tasks reuse one SSH session"
   (nornir_grading_service.py:356): a connection is that of the one shared
   instance, and a context is kept that will close it; two sessions to a device,
   or one that nobody will close, take a task that a cleanup struck. *)
ConnectionsOwned ==
  \A p \in opened :
    \/ p[1] = shared /\ \E c \in contexts : c.inst = shared /\ c.dev = p[2]
    \/ Struck(p[2])

(* No directory is forgotten but those whose instance could not be created: a
   cleanup in the middle of a job or of another job removes the directory that
   is in use together with the reference to it. *)
DirectoriesTracked == dirs \ lost \subseteq {shared}

-----------------------------------------------------------------------------
(* docs/NETGRADER_COMPREHENSIVE_IMPLEMENTATION.md:977 "Task failures don't
   cascade to other tasks": no task is refused for an earlier one's failure. *)
NoCascade == \A w \in Worker : use[w].phase # "refused"
=============================================================================
