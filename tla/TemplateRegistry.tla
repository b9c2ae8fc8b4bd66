-------------------------- MODULE TemplateRegistry --------------------------
(***************************************************************************)
(* The worker's CustomTaskRegistry and the jobs that rely on it.  The      *)
(* first job initializes it: the objects of the MinIO bucket are listed,   *)
(* then downloaded, validated and cached one by one.  A later job finds it *)
(* initialized, whatever the load came to.  A redelivered job can start    *)
(* while the first is still loading: nothing but the flag set at the end   *)
(* keeps the two loads apart.                                              *)
(*                                                                         *)
(* Listing and downloading run in threads and are awaited; what follows a  *)
(* download up to the next await is one action.                            *)
(***************************************************************************)
EXTENDS Integers, Sequences, FiniteSets

CONSTANTS
  Name,        \* task names of templates
  TaskOf,      \* the task_name inside each object, in the order of listing
  Job,         \* grading jobs; each has one task per template name
  MaxActive,   \* bound: jobs being processed at a time
  MaxVersions, \* bound: an object with as many versions is not published again
  MaxFaults    \* bound: failures of MinIO

ASSUME RegistryAssumption ==
  /\ TaskOf \in Seq(Name)
  /\ MaxActive \in Nat /\ MaxVersions \in Nat \ {0} /\ MaxFaults \in Nat

Object == DOMAIN TaskOf

VARIABLES
  strict,       \* config.STRICT_MODE, never changed
  store,        \* per object, whether each version published so far is valid
  cache,        \* _template_cache: the object version that serves a name
  initialized,  \* _initialized
  failed_templates,
  phase,        \* what the handler of each job is doing
  listed,       \* the objects a job's load has found
  todo,         \* those it has yet to download
  got,          \* the version it has downloaded
  bad,          \* failed_templates of the load in progress
  graded,       \* how each task of a job was run
  faults,       \* failures of MinIO so far
  listing       \* only records: how each job's own listing went

loadVars == <<listed, todo, got, bad>>
vars == <<strict, store, cache, initialized, failed_templates, phase, loadVars,
          graded, faults, listing>>

None == [obj |-> 0, ver |-> 0]
Template == [obj : Object, ver : 1 .. MaxVersions]
Nothing == -1

Init ==
  /\ strict \in BOOLEAN
  /\ store \in [Object -> {<<>>, <<TRUE>>, <<FALSE>>}]
  /\ cache = [n \in Name |-> None]
  /\ initialized = FALSE
  /\ failed_templates = {}
  /\ phase = [j \in Job |-> "queued"]
  /\ listed = [j \in Job |-> {}]
  /\ todo = [j \in Job |-> {}]
  /\ got = [j \in Job |-> Nothing]
  /\ bad = [j \in Job |-> {}]
  /\ graded = [j \in Job |-> [n \in Name |-> "pending"]]
  /\ faults = 0
  /\ listing = [j \in Job |-> "none"]

(* An instructor puts an object into the bucket, or a new version of one. *)
Publish(o) ==
  /\ Len(store[o]) < MaxVersions
  /\ \E valid \in BOOLEAN : store' = [store EXCEPT ![o] = Append(@, valid)]
  /\ UNCHANGED <<strict, cache, initialized, failed_templates, phase, loadVars,
                 graded, faults, listing>>

Fault == faults < MaxFaults /\ faults' = faults + 1

Loading(j) == phase[j] \in {"listing", "loading"}

(* Defect: a load begins with an empty cache, as reload_templates does. *)
StartFromScratch(j) ==
  /\ failed_templates' = {}
  /\ cache' = [n \in Name |-> None]

(* _load_templates_from_minio up to the listing. *)
StartLoad(j) ==
  /\ failed_templates' = {}
  /\ UNCHANGED cache

(* The handler of a job calls initialize. *)
StartJob(j) ==
  /\ phase[j] = "queued"
  /\ Cardinality({k \in Job : phase[k] \notin {"queued", "graded", "raised"}}) < MaxActive
  /\ IF initialized
       THEN /\ phase' = [phase EXCEPT ![j] = "grading"]
            /\ UNCHANGED <<failed_templates, cache>>
       ELSE /\ phase' = [phase EXCEPT ![j] = "listing"]
            /\ StartLoad(j)
  /\ UNCHANGED <<strict, store, initialized, loadVars, graded, faults, listing>>

(* Defect: the mode is not looked at. *)
EndLoadLenient(j, failures) ==
  /\ failed_templates' = IF failures = {} THEN failed_templates ELSE failures
  /\ initialized' = TRUE
  /\ phase' = [phase EXCEPT ![j] = "grading"]

(* Defect: the failures are not kept. *)
EndLoadForgetting(j, failures) ==
  /\ UNCHANGED failed_templates
  /\ IF failures # {} /\ strict
       THEN phase' = [phase EXCEPT ![j] = "raised"] /\ UNCHANGED initialized
       ELSE phase' = [phase EXCEPT ![j] = "grading"] /\ initialized' = TRUE

(* The loop over the objects has ended: in strict mode a failure raises out of
   initialize, and the job is rejected. *)
EndLoad(j, failures) ==
  /\ failed_templates' = IF failures = {} THEN failed_templates ELSE failures
  /\ IF failures # {} /\ strict
       THEN phase' = [phase EXCEPT ![j] = "raised"] /\ UNCHANGED initialized
       ELSE phase' = [phase EXCEPT ![j] = "grading"] /\ initialized' = TRUE

List(j) ==
  /\ phase[j] = "listing"
  /\ LET found == {o \in Object : store[o] # <<>>}
     IN  /\ listing' = [listing EXCEPT ![j] = "done"]
         /\ listed' = [listed EXCEPT ![j] = found]
         /\ todo' = [todo EXCEPT ![j] = found]
         /\ IF found = {}
              THEN EndLoad(j, {})
              ELSE /\ phase' = [phase EXCEPT ![j] = "loading"]
                   /\ UNCHANGED <<initialized, failed_templates>>
  /\ UNCHANGED <<strict, store, cache, got, bad, graded, faults>>

(* "Failed to list templates": logged, and the registry counts as
   initialized. *)
ListFails(j) ==
  /\ phase[j] = "listing"
  /\ Fault
  /\ listing' = [listing EXCEPT ![j] = "failed"]
  /\ initialized' = TRUE
  /\ phase' = [phase EXCEPT ![j] = "grading"]
  /\ UNCHANGED <<strict, store, cache, failed_templates, loadVars, graded>>

First(j) == CHOOSE o \in todo[j] : \A p \in todo[j] : o <= p

(* An object is downloaded; version 0 stands for a download that failed. *)
Download(j) ==
  /\ phase[j] = "loading"
  /\ got[j] = Nothing
  /\ \/ /\ got' = [got EXCEPT ![j] = Len(store[First(j)])]
        /\ UNCHANGED faults
     \/ /\ Fault
        /\ got' = [got EXCEPT ![j] = 0]
  /\ UNCHANGED <<strict, store, cache, initialized, failed_templates, phase,
                 listed, todo, bad, graded, listing>>

(* Defect: whatever was downloaded is taken. *)
AnyVersion(o, v) == v > 0

(* Defect: a failed download counts as a template. *)
Anything(o, v) == TRUE

(* Parsing and _validate_definition. *)
IsValid(o, v) == v > 0 /\ store[o][v]

(* Defect: an object that failed is tried again and again. *)
CacheOrRetry(j) ==
  /\ phase[j] = "loading"
  /\ got[j] # Nothing
  /\ LET o == First(j)
     IN  /\ got' = [got EXCEPT ![j] = Nothing]
         /\ UNCHANGED bad
         /\ IF IsValid(o, got[j])
              THEN /\ cache' = [cache EXCEPT ![TaskOf[o]] = [obj |-> o, ver |-> got[j]]]
                   /\ todo' = [todo EXCEPT ![j] = @ \ {o}]
              ELSE UNCHANGED <<cache, todo>>
         /\ IF todo'[j] = {}
              THEN EndLoad(j, {})
              ELSE UNCHANGED <<phase, initialized, failed_templates>>
  /\ UNCHANGED <<strict, store, listed, graded, faults, listing>>

(* The object becomes a template or a failure; the loop goes on or ends. *)
CacheTemplate(j) ==
  /\ phase[j] = "loading"
  /\ got[j] # Nothing
  /\ LET o == First(j)
         valid == IsValid(o, got[j])
         failures == IF valid THEN bad[j] ELSE bad[j] \cup {o}
     IN  /\ cache' = IF valid
                       THEN [cache EXCEPT ![TaskOf[o]] = [obj |-> o, ver |-> got[j]]]
                       ELSE cache
         /\ bad' = [bad EXCEPT ![j] = failures]
         /\ got' = [got EXCEPT ![j] = Nothing]
         /\ todo' = [todo EXCEPT ![j] = @ \ {o}]
         /\ IF todo[j] = {o}
              THEN EndLoad(j, failures)
              ELSE UNCHANGED <<phase, initialized, failed_templates>>
  /\ UNCHANGED <<strict, store, listed, graded, faults, listing>>

(* _map_template_to_nornir_task for a name that is neither built in nor
   prefixed "custom_": when the registry lacks it, the task is a ping. *)
KindOf(n) == IF cache[n] = None THEN "ping" ELSE "custom"

GradeTask(j, n) ==
  /\ phase[j] = "grading"
  /\ graded[j][n] = "pending"
  /\ graded' = [graded EXCEPT ![j][n] = KindOf(n)]
  /\ phase' = IF \A m \in Name \ {n} : graded[j][m] # "pending"
                THEN [phase EXCEPT ![j] = "graded"] ELSE phase
  /\ UNCHANGED <<strict, store, cache, initialized, failed_templates, loadVars, faults,
                 listing>>

(* get_health_status *)
Healthy == initialized /\ failed_templates = {}

Settled == \A j \in Job : phase[j] \in {"graded", "raised"}
Over == Settled /\ UNCHANGED vars

Handle(j) ==
  \/ StartJob(j) \/ List(j) \/ ListFails(j) \/ Download(j) \/ CacheTemplate(j)
  \/ \E n \in Name : GradeTask(j, n)

Next == (\E o \in Object : Publish(o)) \/ (\E j \in Job : Handle(j)) \/ Over

Spec == Init /\ [][Next]_vars

(* The event loop runs every handler, and a call of MinIO returns or raises. *)
FairSpec == Spec /\ \A j \in Job : WF_vars(Handle(j))

-----------------------------------------------------------------------------
TypeOK ==
  /\ strict \in BOOLEAN
  /\ store \in [Object -> Seq(BOOLEAN)]
  /\ cache \in [Name -> Template \cup {None}]
  /\ initialized \in BOOLEAN
  /\ failed_templates \subseteq Object
  /\ phase \in [Job -> {"queued", "listing", "loading", "grading", "graded", "raised"}]
  /\ listed \in [Job -> SUBSET Object]
  /\ todo \in [Job -> SUBSET Object]
  /\ got \in [Job -> {Nothing} \cup 0 .. MaxVersions]
  /\ bad \in [Job -> SUBSET Object]
  /\ graded \in [Job -> [Name -> {"pending", "ping", "custom"}]]
  /\ faults \in 0 .. MaxFaults
  /\ listing \in [Job -> {"none", "done", "failed"}]

(* Whatever loads overlapped and whatever was published in between, the cache
   serves a name from an object of that name in a version that was valid. *)
OnlyValidTemplates ==
  \A n \in Name : cache[n] # None =>
    TaskOf[cache[n].obj] = n /\ store[cache[n].obj][cache[n].ver]

Serves(o) == cache[TaskOf[o]] # None

(* A load that is over listed the objects, and those of name n among them, if
   any, are failures it put up with; in strict mode it puts up with none. *)
LacksTemplate(k, n) ==
  /\ listing[k] = "done" /\ phase[k] \in {"grading", "graded"}
  /\ \A o \in listed[k] : TaskOf[o] = n => ~strict /\ o \in bad[k]

(* A task whose template the registry lacks runs as a ping.  Then the listing
   of some load failed, or some load is over that did not find the template or,
   in the lenient mode only, could not load it.  (A failed listing is swallowed
   in strict mode too; custom_task_registry.py:120, "raise on any template load
   failure", does not say so.) *)
PingHasReason ==
  \A j \in Job, n \in Name : graded[j][n] = "ping" =>
    \E k \in Job : listing[k] = "failed" \/ LacksTemplate(k, n)

(* get_health_status: a registry that calls itself healthy lacks no template
   that was found by a load whose job is graded, in whatever order overlapping
   loads ended.  (A listing that
   failed has found nothing: ListFails leaves an empty registry that is healthy.) *)
HealthyIsComplete ==
  Healthy =>
    \A j \in Job : phase[j] \in {"grading", "graded"} => \A o \in listed[j] : Serves(o)

(* A template that has been served stays available: no task of a job in
   progress finds its template gone. *)
TemplatesStay == [][\A n \in Name : cache[n] # None => cache'[n] # None]_vars

(* Each job comes to an end, graded or rejected. *)
JobsEnd == <>Settled
=============================================================================
