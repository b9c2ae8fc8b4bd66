----------------------- MODULE TemplateRegistryProofs -----------------------
(***************************************************************************)
(* Theorems about TemplateRegistry, for any objects, names and jobs, and   *)
(* any overlap of their loads.                                             *)
(***************************************************************************)
EXTENDS TemplateRegistry, WellFoundedInduction, TLAPS

(* What a load has made of the objects it is done with. *)
Covered(j, o) == o \in bad[j] \/ Serves(o)

(* A load has listed nothing before it lists; then it is at the first object it
   has left, in a version the object has, and those before are covered. *)
LoadOf(j) ==
  /\ phase[j] \in {"queued", "listing"} => listed[j] = {} /\ bad[j] = {} /\ got[j] = Nothing
                                              /\ listing[j] = "none"
  /\ phase[j] = "loading" => listing[j] = "done"
  /\ phase[j] = "loading" =>
       /\ todo[j] # {} /\ todo[j] \subseteq listed[j]
       /\ \A o \in listed[j] \ todo[j] : Covered(j, o)
       /\ got[j] # Nothing => got[j] <= Len(store[First(j)])

(* A job that got past its load left the registry initialized, and the failures
   it met on record. *)
EndOf(j) ==
  phase[j] \in {"grading", "graded"} =>
    /\ initialized
    /\ \A o \in listed[j] : Covered(j, o)
    /\ bad[j] # {} => ~strict /\ failed_templates # {}

(* An initialized registry was initialized by a load. *)
LoadIsOver(k) == listing[k] = "done" /\ phase[k] \in {"grading", "graded"}

Initializer == initialized => \E k \in Job : listing[k] = "failed" \/ LoadIsOver(k)

Versions ==
  /\ \A o \in Object : Len(store[o]) <= MaxVersions
  /\ \A n \in Name : cache[n] # None => cache[n].ver <= Len(store[cache[n].obj])

IInv ==
  /\ TypeOK /\ OnlyValidTemplates /\ Versions
  /\ \A j \in Job : LoadOf(j) /\ EndOf(j)
  /\ Initializer /\ PingHasReason

-----------------------------------------------------------------------------
(* A nonempty set of naturals has a least element. *)
LEMMA LeastElement ==
  ASSUME NEW S, S \subseteq Nat, S # {}
  PROVE  \E x \in S : \A y \in S : x <= y
<1> DEFINE R == OpToRel(<, Nat)
<1>1. IsWellFoundedOn(R, Nat)
  BY NatLessThanWellFounded
<1>2. \A x, y \in Nat : x < y => <<x, y>> \in R
  BY DEF OpToRel
<1> HIDE DEF R
<1>3. \E x \in S : \A y \in S : <<y, x>> \notin R
  BY <1>1, WFMin
<1>4. PICK x \in S : \A y \in S : <<y, x>> \notin R
  BY <1>3
<1>5. ASSUME NEW y \in S PROVE x <= y
  <2>1. x \in Nat /\ y \in Nat /\ <<y, x>> \notin R
    BY <1>4
  <2>2. ~(y < x)
    BY <1>2, <2>1
  <2>3. QED
    BY <2>1, <2>2
<1>6. QED
  BY <1>5

(* Objects are numbers, none of them 0, and each holds a template of a name. *)
LEMMA ObjectType ==
  /\ Object = 1 .. Len(TaskOf) /\ Len(TaskOf) \in Nat
  /\ Object \subseteq Nat \ {0}
  /\ \A o \in Object : TaskOf[o] \in Name
  /\ MaxVersions \in Nat \ {0} /\ MaxFaults \in Nat
<1>1. TaskOf \in Seq(Name)
  BY RegistryAssumption DEF RegistryAssumption
<1>2. QED
  BY <1>1, RegistryAssumption DEF RegistryAssumption, Object

(* A load that has objects left is at one of them. *)
LEMMA FirstType ==
  ASSUME NEW j \in Job, todo[j] \subseteq Object, todo[j] # {}
  PROVE  First(j) \in todo[j]
<1>1. todo[j] \subseteq Nat
  BY ObjectType
<1>2. \E o \in todo[j] : \A p \in todo[j] : o <= p
  BY <1>1, LeastElement
<1>3. QED
  BY <1>2 DEF First

LEMMA InitInv == Init => IInv
<1> SUFFICES ASSUME Init PROVE IInv
  OBVIOUS
<1>1. TypeOK
  <2>1. store \in [Object -> Seq(BOOLEAN)]
    <3>1. <<>> \in Seq(BOOLEAN) /\ <<TRUE>> \in Seq(BOOLEAN) /\ <<FALSE>> \in Seq(BOOLEAN)
      OBVIOUS
    <3>2. {<<>>, <<TRUE>>, <<FALSE>>} \subseteq Seq(BOOLEAN)
      BY <3>1
    <3>3. QED
      BY <3>2 DEF Init
  <2>2. faults \in 0 .. MaxFaults /\ got \in [Job -> {Nothing} \cup 0 .. MaxVersions]
    BY ObjectType DEF Init
  <2>3. QED
    BY <2>1, <2>2 DEF Init, TypeOK
<1>2. Versions
  <2>1. \A o \in Object : store[o] \in {<<>>, <<TRUE>>, <<FALSE>>}
    BY DEF Init
  <2>2. Len(<<>>) = 0 /\ Len(<<TRUE>>) = 1 /\ Len(<<FALSE>>) = 1
    OBVIOUS
  <2>3. ASSUME NEW o \in Object PROVE Len(store[o]) <= 1
    <3>1. store[o] = <<>> \/ store[o] = <<TRUE>> \/ store[o] = <<FALSE>>
      BY <2>1
    <3>2. Len(store[o]) = 0 \/ Len(store[o]) = 1
      BY <2>2, <3>1, Zenon
    <3>3. 0 <= 1 /\ 1 <= 1
      OBVIOUS
    <3>4. QED
      BY <3>2, <3>3, Zenon
  <2>4. QED
    BY <2>3, ObjectType DEF Init, Versions
<1>3. OnlyValidTemplates
  BY DEF Init, OnlyValidTemplates
<1>4. \A j \in Job : LoadOf(j) /\ EndOf(j)
  BY DEF Init, LoadOf, EndOf
<1>5. Initializer /\ PingHasReason
  BY DEF Init, Initializer, PingHasReason
<1>6. QED
  BY <1>1, <1>2, <1>3, <1>4, <1>5 DEF IInv

-----------------------------------------------------------------------------
(* The loads of other jobs are as they were when the cache only grows, no
   object changes, and failures on record stay on record. *)
LEMMA OthersKept ==
  ASSUME IInv, NEW j \in Job, UNCHANGED <<strict, store>>,
         \A k \in Job \ {j} :
           /\ phase'[k] = phase[k] /\ listed'[k] = listed[k] /\ todo'[k] = todo[k]
           /\ got'[k] = got[k] /\ bad'[k] = bad[k] /\ listing'[k] = listing[k],
         \A n \in Name : cache[n] # None => cache'[n] # None,
         initialized => initialized' /\ (failed_templates # {} => failed_templates' # {})
  PROVE  \A k \in Job \ {j} : LoadOf(k)' /\ EndOf(k)'
<1> SUFFICES ASSUME NEW k \in Job \ {j} PROVE LoadOf(k)' /\ EndOf(k)'
  OBVIOUS
<1>1. LoadOf(k) /\ EndOf(k) /\ listed[k] \subseteq Object
  BY DEF IInv, TypeOK
<1>2. \A o \in Object : Covered(k, o) => Covered(k, o)'
  BY ObjectType DEF Covered, Serves
<1>3. First(k)' = First(k)
  BY DEF First
<1>4. QED
  BY <1>1, <1>2, <1>3 DEF LoadOf, EndOf

(* The reasons of the pings so far stay when no load that is over changes; a
   registry is initialized by the load that ends. *)
LEMMA ReasonsKept ==
  ASSUME IInv, NEW j \in Job, UNCHANGED <<strict, graded>>,
         \A k \in Job : listing[k] = "failed" => listing'[k] = "failed",
         \A k \in Job : LoadIsOver(k) =>
           LoadIsOver(k)' /\ listed'[k] = listed[k] /\ bad'[k] = bad[k],
         initialized' => initialized \/ listing'[j] = "failed" \/ LoadIsOver(j)'
  PROVE  Initializer' /\ PingHasReason'
<1>1. Initializer'
  BY DEF IInv, Initializer
<1>2. \A k \in Job, n \in Name : LacksTemplate(k, n) => LacksTemplate(k, n)'
  BY DEF LacksTemplate, LoadIsOver
<1>3. PingHasReason'
  BY <1>2 DEF IInv, PingHasReason
<1>4. QED
  BY <1>1, <1>3

(* What a step that leaves objects and cache alone keeps. *)
LEMMA CacheKept ==
  ASSUME IInv, UNCHANGED <<store, cache>>
  PROVE  OnlyValidTemplates' /\ Versions'
BY DEF IInv, OnlyValidTemplates, Versions

(* A new version of an object: the versions it had are as they were. *)
LEMMA PublishInv ==
  ASSUME IInv, NEW o \in Object, Publish(o)
  PROVE  IInv'
<1>1. /\ UNCHANGED <<strict, cache, initialized, failed_templates, phase, listed, todo,
                     got, bad, graded, faults, listing>>
      /\ Len(store[o]) < MaxVersions
  BY DEF Publish, loadVars
<1>2. PICK valid \in BOOLEAN : store' = [store EXCEPT ![o] = Append(@, valid)]
  BY DEF Publish
<1>3. store \in [Object -> Seq(BOOLEAN)]
  BY DEF IInv, TypeOK
<1>4. \A p \in Object : store[p] \in Seq(BOOLEAN) /\ Len(store[p]) \in Nat
  BY <1>3
<1>5. /\ store'[o] = Append(store[o], valid)
      /\ \A p \in Object \ {o} : store'[p] = store[p]
      /\ store' \in [Object -> Seq(BOOLEAN)]
  BY <1>2, <1>3
<1>6. /\ Len(store'[o]) = Len(store[o]) + 1
      /\ \A v \in 1 .. Len(store[o]) : store'[o][v] = store[o][v]
  BY <1>4, <1>5
<1>7. \A p \in Object :
        /\ Len(store[p]) <= Len(store'[p]) /\ Len(store'[p]) <= MaxVersions
        /\ \A v \in 1 .. Len(store[p]) : store'[p][v] = store[p][v]
        /\ Len(store'[p]) \in Nat
  <2>1. /\ Len(store[o]) <= Len(store'[o]) /\ Len(store'[o]) <= MaxVersions
        /\ Len(store'[o]) \in Nat
    BY <1>1, <1>4, <1>6, ObjectType
  <2>2. \A p \in Object \ {o} : Len(store'[p]) \in Nat /\ Len(store'[p]) <= MaxVersions
    BY <1>4, <1>5 DEF IInv, Versions
  <2>3. ASSUME NEW p \in Object \ {o}
        PROVE  /\ Len(store[p]) <= Len(store'[p]) /\ Len(store'[p]) <= MaxVersions
               /\ \A v \in 1 .. Len(store[p]) : store'[p][v] = store[p][v]
               /\ Len(store'[p]) \in Nat
    <3>1. store'[p] = store[p] /\ Len(store[p]) \in Nat
      BY <1>4, <1>5
    <3>2. QED
      BY <2>2, <3>1
  <2>4. QED
    BY <1>6, <2>1, <2>3
<1>8. TypeOK'
  BY <1>1, <1>5 DEF IInv, TypeOK
<1>9. \A n \in Name : cache[n] # None =>
        cache[n].obj \in Object /\ cache[n].ver \in 1 .. Len(store[cache[n].obj])
  BY <1>4, ObjectType DEF IInv, TypeOK, Versions, Template
<1>10. OnlyValidTemplates'
  BY <1>1, <1>7, <1>9 DEF IInv, OnlyValidTemplates
<1>11. Versions'
  <2>1. \A n \in Name : cache[n] # None => cache[n].ver <= Len(store'[cache[n].obj])
    BY <1>4, <1>7, <1>9
  <2>2. QED
    BY <1>1, <1>7, <2>1 DEF Versions
<1>12. ASSUME NEW j \in Job PROVE LoadOf(j)' /\ EndOf(j)'
  <2>1. First(j)' = First(j) /\ \A p : Covered(j, p)' = Covered(j, p)
    BY <1>1 DEF First, Covered, Serves
  <2>2. LoadOf(j) /\ EndOf(j) /\ todo[j] \subseteq Object /\ got[j] \in {Nothing} \cup 0 .. MaxVersions
    BY DEF IInv, TypeOK
  <2>3. phase[j] = "loading" /\ got[j] # Nothing => got[j] <= Len(store'[First(j)])
    <3>1. phase[j] = "loading" => First(j) \in Object
      BY <2>2, FirstType DEF LoadOf
    <3>2. QED
      BY <1>4, <1>7, <2>2, <3>1, ObjectType DEF LoadOf
  <2>4. QED
    BY <1>1, <2>1, <2>2, <2>3 DEF LoadOf, EndOf
<1>13. Initializer' /\ PingHasReason'
  BY <1>1 DEF IInv, Initializer, LoadIsOver, PingHasReason, LacksTemplate
<1>14. QED
  BY <1>8, <1>10, <1>11, <1>12, <1>13 DEF IInv

-----------------------------------------------------------------------------
(* The steps of a job's handler.                                           *)

(* One job moves on; the others, the cache and the objects are left alone. *)
LEMMA StartJobInv ==
  ASSUME IInv, NEW j \in Job, StartJob(j)
  PROVE  IInv'
<1>1. /\ UNCHANGED <<strict, store, cache, initialized, listed, todo, got, bad, graded, faults,
                     listing>>
      /\ phase[j] = "queued"
      /\ phase' = [phase EXCEPT ![j] = IF initialized THEN "grading" ELSE "listing"]
      /\ IF initialized THEN failed_templates' = failed_templates ELSE failed_templates' = {}
  BY DEF StartJob, StartLoad, loadVars
<1>2. phase \in [Job -> {"queued", "listing", "loading", "grading", "graded", "raised"}]
  BY DEF IInv, TypeOK
<1>3. /\ phase'[j] = IF initialized THEN "grading" ELSE "listing"
      /\ \A k \in Job \ {j} : phase'[k] = phase[k]
      /\ phase' \in [Job -> {"queued", "listing", "loading", "grading", "graded", "raised"}]
  BY <1>1, <1>2
<1>4. TypeOK'
  BY <1>1, <1>3 DEF IInv, TypeOK
<1>5. LoadOf(j)' /\ EndOf(j)'
  BY <1>1, <1>3 DEF IInv, LoadOf, EndOf
<1>6. Initializer' /\ PingHasReason'
  BY <1>1, <1>3, ReasonsKept DEF LoadIsOver
<1>7. QED
  BY <1>1, <1>3, <1>4, <1>5, <1>6, CacheKept, OthersKept DEF IInv

(* A load that ends leaves the registry initialized, unless the job is
   rejected, and its failures on record. *)
LEMMA EndLoadType ==
  ASSUME IInv, NEW j \in Job, NEW failures \in SUBSET Object, EndLoad(j, failures)
  PROVE  /\ failed_templates' \subseteq Object /\ initialized' \in BOOLEAN
         /\ initialized => initialized' /\ (failed_templates # {} => failed_templates' # {})
         /\ initialized' => initialized \/ phase'[j] = "grading"
         /\ phase'[j] \in {"grading", "raised"}
         /\ phase'[j] = "grading" =>
              initialized' /\ (failures # {} => ~strict /\ failed_templates' # {})
         /\ \A k \in Job \ {j} : phase'[k] = phase[k]
         /\ phase' \in [Job -> {"queued", "listing", "loading", "grading", "graded", "raised"}]
<1>1. /\ phase \in [Job -> {"queued", "listing", "loading", "grading", "graded", "raised"}]
      /\ failed_templates \subseteq Object /\ initialized \in BOOLEAN
  BY DEF IInv, TypeOK
<1>2. CASE failures # {} /\ strict
  BY <1>1, <1>2 DEF EndLoad
<1>3. CASE ~(failures # {} /\ strict)
  BY <1>1, <1>3 DEF EndLoad
<1>4. QED
  BY <1>2, <1>3

LEMMA ListInv ==
  ASSUME IInv, NEW j \in Job, List(j)
  PROVE  IInv'
<1> DEFINE found == {o \in Object : store[o] # <<>>}
<1>1. /\ UNCHANGED <<strict, store, cache, got, bad, graded, faults>>
      /\ phase[j] = "listing"
      /\ listed' = [listed EXCEPT ![j] = found] /\ todo' = [todo EXCEPT ![j] = found]
      /\ listing' = [listing EXCEPT ![j] = "done"]
      /\ \/ found = {} /\ EndLoad(j, {})
         \/ /\ found # {} /\ phase' = [phase EXCEPT ![j] = "loading"]
            /\ UNCHANGED <<initialized, failed_templates>>
  BY DEF List
<1>2. /\ phase \in [Job -> {"queued", "listing", "loading", "grading", "graded", "raised"}]
      /\ listed \in [Job -> SUBSET Object] /\ todo \in [Job -> SUBSET Object]
      /\ failed_templates \subseteq Object /\ initialized \in BOOLEAN
      /\ bad[j] = {} /\ got[j] = Nothing
      /\ listing \in [Job -> {"none", "done", "failed"}] /\ listing[j] = "none"
  BY <1>1 DEF IInv, TypeOK, LoadOf
<1>3. /\ listed'[j] = found /\ todo'[j] = found
      /\ listed' \in [Job -> SUBSET Object] /\ todo' \in [Job -> SUBSET Object]
      /\ listing'[j] = "done" /\ listing' \in [Job -> {"none", "done", "failed"}]
      /\ \A k \in Job \ {j} : listed'[k] = listed[k] /\ todo'[k] = todo[k]
                               /\ listing'[k] = listing[k]
  BY <1>1, <1>2
<1> HIDE DEF found
<1>4. /\ failed_templates' \subseteq Object /\ initialized' \in BOOLEAN
      /\ initialized => initialized' /\ (failed_templates # {} => failed_templates' # {})
      /\ initialized' => initialized \/ phase'[j] = "grading"
      /\ \A k \in Job \ {j} : phase'[k] = phase[k]
      /\ phase' \in [Job -> {"queued", "listing", "loading", "grading", "graded", "raised"}]
      /\ \/ phase'[j] = "loading" /\ found # {}
         \/ phase'[j] \in {"grading", "raised"} /\ found = {}
            /\ (phase'[j] = "grading" => initialized')
  <2>1. CASE EndLoad(j, {}) /\ found = {}
    BY <2>1, EndLoadType
  <2>2. CASE found # {} /\ phase' = [phase EXCEPT ![j] = "loading"]
             /\ UNCHANGED <<initialized, failed_templates>>
    BY <1>2, <2>2
  <2>3. QED
    BY <1>1, <2>1, <2>2
<1>5. TypeOK'
  BY <1>1, <1>3, <1>4 DEF IInv, TypeOK
<1>6. LoadOf(j)' /\ EndOf(j)'
  BY <1>1, <1>2, <1>3, <1>4 DEF LoadOf, EndOf
<1>7. Initializer' /\ PingHasReason'
  BY <1>1, <1>2, <1>3, <1>4, ReasonsKept DEF LoadIsOver
<1>8. QED
  BY <1>1, <1>3, <1>4, <1>5, <1>6, <1>7, CacheKept, OthersKept DEF IInv

LEMMA ListFailsInv ==
  ASSUME IInv, NEW j \in Job, ListFails(j)
  PROVE  IInv'
<1>1. /\ UNCHANGED <<strict, store, cache, failed_templates, listed, todo, got, bad, graded>>
      /\ initialized' = TRUE /\ phase' = [phase EXCEPT ![j] = "grading"]
      /\ phase[j] = "listing" /\ faults < MaxFaults /\ faults' = faults + 1
      /\ listing' = [listing EXCEPT ![j] = "failed"]
  BY DEF ListFails, Fault, loadVars
<1>2. /\ phase \in [Job -> {"queued", "listing", "loading", "grading", "graded", "raised"}]
      /\ faults \in 0 .. MaxFaults
      /\ listing \in [Job -> {"none", "done", "failed"}] /\ listing[j] = "none"
  BY <1>1 DEF IInv, TypeOK, LoadOf
<1>3. /\ listing'[j] = "failed" /\ listing' \in [Job -> {"none", "done", "failed"}]
      /\ \A k \in Job \ {j} : listing'[k] = listing[k]
      /\ phase'[j] = "grading" /\ \A k \in Job \ {j} : phase'[k] = phase[k]
      /\ phase' \in [Job -> {"queued", "listing", "loading", "grading", "graded", "raised"}]
      /\ faults' \in 0 .. MaxFaults
  BY <1>1, <1>2, ObjectType
<1>4. TypeOK'
  BY <1>1, <1>3 DEF IInv, TypeOK
<1>5. LoadOf(j)' /\ EndOf(j)'
  BY <1>1, <1>3 DEF IInv, LoadOf, EndOf
<1>6. Initializer' /\ PingHasReason'
  BY <1>1, <1>2, <1>3, ReasonsKept DEF LoadIsOver
<1>7. QED
  BY <1>1, <1>3, <1>4, <1>5, <1>6, CacheKept, OthersKept DEF IInv

LEMMA DownloadInv ==
  ASSUME IInv, NEW j \in Job, Download(j)
  PROVE  IInv'
<1>1. /\ UNCHANGED <<strict, store, cache, initialized, failed_templates, phase, listed,
                     todo, bad, graded, listing>>
      /\ phase[j] = "loading" /\ got[j] = Nothing
      /\ \/ got' = [got EXCEPT ![j] = Len(store[First(j)])] /\ faults' = faults
         \/ got' = [got EXCEPT ![j] = 0] /\ faults < MaxFaults /\ faults' = faults + 1
  BY DEF Download, Fault
<1>2. /\ got \in [Job -> {Nothing} \cup 0 .. MaxVersions] /\ faults \in 0 .. MaxFaults
      /\ store \in [Object -> Seq(BOOLEAN)] /\ todo[j] \subseteq Object /\ LoadOf(j)
  BY DEF IInv, TypeOK
<1>3. First(j) \in Object
  BY <1>1, <1>2, FirstType DEF LoadOf
<1>4. Len(store[First(j)]) \in 0 .. MaxVersions
  <2>1. Len(store[First(j)]) \in Nat
    BY <1>2, <1>3
  <2>2. Len(store[First(j)]) <= MaxVersions
    BY <1>3 DEF IInv, Versions
  <2>3. QED
    BY <2>1, <2>2, ObjectType
<1>5. /\ got'[j] \in 0 .. Len(store[First(j)])
      /\ got' \in [Job -> {Nothing} \cup 0 .. MaxVersions]
      /\ \A k \in Job \ {j} : got'[k] = got[k]
      /\ faults' \in 0 .. MaxFaults
  <2>1. PICK v \in 0 .. Len(store[First(j)]) : got' = [got EXCEPT ![j] = v]
    BY <1>1, <1>4
  <2>2. v \in 0 .. MaxVersions
    BY <1>4, ObjectType
  <2>3. faults' \in 0 .. MaxFaults
    BY <1>1, <1>2, ObjectType
  <2>4. QED
    BY <1>2, <2>1, <2>2, <2>3
<1>6. TypeOK'
  BY <1>1, <1>5 DEF IInv, TypeOK
<1>7. LoadOf(j)' /\ EndOf(j)'
  <2>1. First(j)' = First(j) /\ \A o : Covered(j, o)' = Covered(j, o)
    BY <1>1 DEF First, Covered, Serves
  <2>2. QED
    BY <1>1, <1>2, <1>4, <1>5, <2>1 DEF LoadOf, EndOf
<1>8. Initializer' /\ PingHasReason'
  BY <1>1, ReasonsKept DEF LoadIsOver
<1>9. QED
  BY <1>1, <1>5, <1>6, <1>7, <1>8, CacheKept, OthersKept DEF IInv

(* The object at hand becomes a template of its own name, in a version that is
   valid, or a failure. *)
LEMMA CacheTemplateInv ==
  ASSUME IInv, NEW j \in Job, CacheTemplate(j)
  PROVE  IInv' /\ \A n \in Name : cache[n] # None => cache'[n] # None
<1> DEFINE o == First(j)
           valid == IsValid(o, got[j])
           failures == IF valid THEN bad[j] ELSE bad[j] \cup {o}
           entry == [obj |-> o, ver |-> got[j]]
<1>1. /\ UNCHANGED <<strict, store, listed, graded, faults, listing>>
      /\ phase[j] = "loading" /\ got[j] # Nothing
      /\ cache' = IF valid THEN [cache EXCEPT ![TaskOf[o]] = entry] ELSE cache
      /\ bad' = [bad EXCEPT ![j] = failures]
      /\ got' = [got EXCEPT ![j] = Nothing]
      /\ todo' = [todo EXCEPT ![j] = @ \ {o}]
      /\ \/ todo[j] = {o} /\ EndLoad(j, failures)
         \/ todo[j] # {o} /\ UNCHANGED <<phase, initialized, failed_templates>>
  BY DEF CacheTemplate
<1>2. /\ phase \in [Job -> {"queued", "listing", "loading", "grading", "graded", "raised"}]
      /\ todo \in [Job -> SUBSET Object] /\ bad \in [Job -> SUBSET Object]
      /\ got \in [Job -> {Nothing} \cup 0 .. MaxVersions]
      /\ cache \in [Name -> Template \cup {None}]
      /\ store \in [Object -> Seq(BOOLEAN)]
      /\ listed[j] \subseteq Object
      /\ failed_templates \subseteq Object /\ initialized \in BOOLEAN
  BY DEF IInv, TypeOK
<1>3. /\ todo[j] # {} /\ todo[j] \subseteq listed[j] /\ listing[j] = "done"
      /\ \A p \in listed[j] \ todo[j] : Covered(j, p)
      /\ got[j] <= Len(store[o])
  BY <1>1 DEF IInv, LoadOf
<1>4. o \in todo[j] /\ o \in Object /\ TaskOf[o] \in Name /\ o # 0
  BY <1>2, <1>3, FirstType, ObjectType
<1>5. /\ bad'[j] = failures /\ got'[j] = Nothing /\ todo'[j] = todo[j] \ {o}
      /\ \A k \in Job \ {j} : bad'[k] = bad[k] /\ got'[k] = got[k] /\ todo'[k] = todo[k]
      /\ bad' \in [Job -> SUBSET Object] /\ todo' \in [Job -> SUBSET Object]
      /\ got' \in [Job -> {Nothing} \cup 0 .. MaxVersions]
      /\ failures \subseteq Object
  BY <1>1, <1>2, <1>4
<1>6. valid => /\ got[j] \in 1 .. MaxVersions /\ got[j] \in 1 .. Len(store[o])
               /\ store[o][got[j]]
  <2>1. Len(store[o]) \in Nat
    BY <1>2, <1>4
  <2>2. got[j] \in 0 .. MaxVersions
    BY <1>1, <1>2
  <2>3. QED
    BY <1>3, <2>1, <2>2, ObjectType DEF IsValid
<1>7. valid => entry \in Template /\ entry # None /\ entry.obj = o /\ entry.ver = got[j]
  BY <1>4, <1>6 DEF Template, None
<1> HIDE DEF entry, valid, o
<1>8. /\ cache' \in [Name -> Template \cup {None}]
      /\ \A n \in Name : cache'[n] = cache[n]
                         \/ (valid /\ n = TaskOf[o] /\ cache'[n] = entry)
      /\ valid => cache'[TaskOf[o]] = entry
  BY <1>1, <1>2, <1>4, <1>7
<1>9. \A n \in Name : cache[n] # None => cache'[n] # None
  BY <1>7, <1>8
<1>10. /\ failed_templates' \subseteq Object /\ initialized' \in BOOLEAN
       /\ initialized => initialized' /\ (failed_templates # {} => failed_templates' # {})
       /\ initialized' => initialized \/ phase'[j] = "grading"
       /\ \A k \in Job \ {j} : phase'[k] = phase[k]
       /\ phase' \in [Job -> {"queued", "listing", "loading", "grading", "graded", "raised"}]
       /\ \/ phase'[j] = "loading" /\ todo[j] # {o}
          \/ /\ phase'[j] \in {"grading", "raised"} /\ todo[j] = {o}
             /\ phase'[j] = "grading" =>
                  initialized' /\ (failures # {} => ~strict /\ failed_templates' # {})
  <2>1. CASE todo[j] = {o} /\ EndLoad(j, failures)
    BY <1>5, <2>1, EndLoadType
  <2>2. CASE todo[j] # {o} /\ UNCHANGED <<phase, initialized, failed_templates>>
    BY <1>1, <1>2, <2>2
  <2>3. QED
    BY <1>1, <2>1, <2>2
<1>11. TypeOK'
  BY <1>1, <1>5, <1>8, <1>10 DEF IInv, TypeOK
<1>12. OnlyValidTemplates'
  <2>1. ASSUME NEW n \in Name, cache'[n] # None
        PROVE  TaskOf[cache'[n].obj] = n /\ store[cache'[n].obj][cache'[n].ver]
    <3>1. CASE cache'[n] = cache[n]
      BY <2>1, <3>1 DEF IInv, OnlyValidTemplates
    <3>2. CASE valid /\ n = TaskOf[o] /\ cache'[n] = entry
      BY <1>6, <1>7, <3>2
    <3>3. QED
      BY <1>8, <3>1, <3>2
  <2>2. QED
    BY <1>1, <2>1 DEF OnlyValidTemplates
<1>13. Versions'
  <2>1. ASSUME NEW n \in Name, cache'[n] # None
        PROVE  cache'[n].ver <= Len(store[cache'[n].obj])
    <3>1. CASE cache'[n] = cache[n]
      BY <2>1, <3>1 DEF IInv, Versions
    <3>2. CASE valid /\ n = TaskOf[o] /\ cache'[n] = entry
      BY <1>3, <1>7, <3>2
    <3>3. QED
      BY <1>8, <3>1, <3>2
  <2>2. QED
    BY <1>1, <2>1 DEF IInv, Versions
<1>14. \A p \in listed[j] \ todo'[j] : Covered(j, p)'
  <2>1. \A p \in listed[j] \ todo[j] : Covered(j, p)'
    BY <1>2, <1>3, <1>5, <1>9, ObjectType DEF Covered, Serves
  <2>2. \A p : p = o => Covered(j, p)'
    <3>1. valid => cache'[TaskOf[o]] # None
      BY <1>7, <1>8
    <3>2. ~valid => o \in bad'[j]
      BY <1>5
    <3>3. QED
      BY <3>1, <3>2 DEF Covered, Serves
  <2>3. QED
    BY <1>5, <2>1, <2>2
<1>15. LoadOf(j)' /\ EndOf(j)'
  <2>1. todo[j] # {o} => todo'[j] # {}
    BY <1>3, <1>5
  <2>2. todo[j] = {o} => todo'[j] = {}
    BY <1>5
  <2>3. todo'[j] \subseteq listed[j] /\ listing'[j] = "done"
    BY <1>1, <1>3, <1>5
  <2>4. QED
    BY <1>1, <1>5, <1>10, <1>14, <2>1, <2>2, <2>3 DEF LoadOf, EndOf
<1>16. \A k \in Job \ {j} : LoadOf(k)' /\ EndOf(k)'
  BY <1>1, <1>5, <1>9, <1>10, OthersKept
<1>17. Initializer' /\ PingHasReason'
  BY <1>1, <1>3, <1>5, <1>10, ReasonsKept DEF LoadIsOver
<1>18. QED
  BY <1>9, <1>11, <1>12, <1>13, <1>15, <1>16, <1>17 DEF IInv

LEMMA GradeTaskInv ==
  ASSUME IInv, NEW j \in Job, NEW n \in Name, GradeTask(j, n)
  PROVE  IInv'
<1>1. /\ UNCHANGED <<strict, store, cache, initialized, failed_templates, listed, todo,
                     got, bad, faults, listing>>
      /\ phase[j] = "grading"
      /\ graded' = [graded EXCEPT ![j][n] = KindOf(n)]
      /\ phase' \in {phase, [phase EXCEPT ![j] = "graded"]}
  BY DEF GradeTask, loadVars
<1>2. /\ phase \in [Job -> {"queued", "listing", "loading", "grading", "graded", "raised"}]
      /\ graded \in [Job -> [Name -> {"pending", "ping", "custom"}]]
  BY DEF IInv, TypeOK
<1>3. /\ phase'[j] \in {"grading", "graded"} /\ \A k \in Job \ {j} : phase'[k] = phase[k]
      /\ phase' \in [Job -> {"queued", "listing", "loading", "grading", "graded", "raised"}]
  BY <1>1, <1>2
<1>4. graded' \in [Job -> [Name -> {"pending", "ping", "custom"}]]
  BY <1>1, <1>2 DEF KindOf
<1>5. TypeOK'
  BY <1>1, <1>3, <1>4 DEF IInv, TypeOK
<1>6. LoadOf(j)' /\ EndOf(j)'
  <2>1. \A o : Covered(j, o)' = Covered(j, o)
    BY <1>1 DEF Covered, Serves
  <2>2. QED
    BY <1>1, <1>3, <2>1 DEF IInv, LoadOf, EndOf
<1>7. \A k \in Job : LoadIsOver(k) <=> LoadIsOver(k)'
  BY <1>1, <1>3 DEF LoadIsOver
<1>8. PingHasReason'
  <2>1. \A k \in Job, m \in Name : LacksTemplate(k, m) => LacksTemplate(k, m)'
    BY <1>1, <1>7 DEF LacksTemplate, LoadIsOver
  <2>2. ASSUME cache[n] = None
        PROVE  \E k \in Job : listing[k] = "failed" \/ LacksTemplate(k, n)
    <3>1. \E k \in Job : listing[k] = "failed" \/ LoadIsOver(k)
      BY <1>1 DEF IInv, EndOf, Initializer
    <3>2. ASSUME NEW k \in Job, LoadIsOver(k) PROVE LacksTemplate(k, n)
      BY <2>2, <3>2 DEF IInv, EndOf, Covered, Serves, LoadIsOver, LacksTemplate
    <3>3. QED
      BY <3>1, <3>2
  <2>3. \A i \in Job, m \in Name :
          graded'[i][m] = "ping" => graded[i][m] = "ping" \/ (m = n /\ cache[n] = None)
    BY <1>1, <1>2 DEF KindOf
  <2>4. QED
    BY <1>1, <2>1, <2>2, <2>3 DEF IInv, PingHasReason
<1>9. Initializer'
  BY <1>1, <1>7 DEF IInv, Initializer
<1>10. QED
  BY <1>1, <1>3, <1>5, <1>6, <1>8, <1>9, CacheKept, OthersKept DEF IInv

-----------------------------------------------------------------------------
LEMMA NextInv == IInv /\ [Next]_vars => IInv'
<1> SUFFICES ASSUME IInv, [Next]_vars PROVE IInv'
  OBVIOUS
<1>1. CASE \E o \in Object : Publish(o)
  BY <1>1, PublishInv
<1>2. ASSUME NEW j \in Job, Handle(j) PROVE IInv'
  BY <1>2, StartJobInv, ListInv, ListFailsInv, DownloadInv, CacheTemplateInv, GradeTaskInv
     DEF Handle
<1>3. CASE UNCHANGED vars
  <2>1. UNCHANGED <<strict, store, cache, initialized, failed_templates, phase, listed,
                    todo, got, bad, graded, faults, listing>>
    BY <1>3 DEF vars, loadVars
  <2>2. TypeOK'
    BY <2>1 DEF IInv, TypeOK
  <2>3. ASSUME NEW j \in Job PROVE LoadOf(j)' /\ EndOf(j)'
    <3>1. First(j)' = First(j) /\ \A o : Covered(j, o)' = Covered(j, o)
      BY <2>1 DEF First, Covered, Serves
    <3>2. QED
      BY <2>1, <3>1 DEF IInv, LoadOf, EndOf
  <2>4. Initializer' /\ PingHasReason'
    BY <2>1 DEF IInv, Initializer, LoadIsOver, PingHasReason, LacksTemplate
  <2>5. QED
    BY <2>1, <2>2, <2>3, <2>4, CacheKept DEF IInv
<1>4. QED
  BY <1>1, <1>2, <1>3 DEF Next, Over

LEMMA Inductive == Spec => []IInv
BY InitInv, NextInv, PTL DEF Spec

-----------------------------------------------------------------------------
(* Every variable of the registry and of the jobs' loads keeps its type. *)
THEOREM TypeCorrect == Spec => []TypeOK
<1>1. IInv => TypeOK
  BY DEF IInv
<1>2. QED
  BY <1>1, Inductive, PTL

(* Whatever loads overlap and whatever is published meanwhile, the cache serves
   a name from an object of that name, in a version that was valid. *)
THEOREM OnlyValidServed == Spec => []OnlyValidTemplates
<1>1. IInv => OnlyValidTemplates
  BY DEF IInv
<1>2. QED
  BY <1>1, Inductive, PTL

(* A task runs as a ping for want of its template only if a listing failed, or
   some load is over that did not find the template or, in the lenient mode,
   could not load it. *)
THEOREM PingsHaveReasons == Spec => []PingHasReason
<1>1. IInv => PingHasReason
  BY DEF IInv
<1>2. QED
  BY <1>1, Inductive, PTL

(* A registry that calls itself healthy lacks no template found by a load that
   is over, in whatever order overlapping loads ended. *)
THEOREM HealthyComplete == Spec => []HealthyIsComplete
<1>1. IInv => HealthyIsComplete
  BY DEF IInv, EndOf, Covered, HealthyIsComplete, Healthy
<1>2. QED
  BY <1>1, Inductive, PTL

(* No step of any load takes a template away once it is served. *)
THEOREM ServedStays == Spec => TemplatesStay
<1>1. IInv /\ [Next]_vars => \A n \in Name : cache[n] # None => cache'[n] # None
  <2> SUFFICES ASSUME IInv, [Next]_vars
               PROVE  \A n \in Name : cache[n] # None => cache'[n] # None
    OBVIOUS
  <2>1. CASE \E j \in Job : CacheTemplate(j)
    BY <2>1, CacheTemplateInv
  <2>2. CASE ~\E j \in Job : CacheTemplate(j)
    <3>1. cache' = cache
      BY <2>2 DEF Next, Publish, Handle, StartJob, StartLoad, List, ListFails, Download,
         GradeTask, Over, vars
    <3>2. QED
      BY <3>1
  <2>3. QED
    BY <2>1, <2>2
<1>2. IInv /\ [Next]_vars => [\A n \in Name : cache[n] # None => cache'[n] # None]_vars
  BY <1>1
<1>3. QED
  BY <1>2, Inductive, PTL DEF Spec, TemplatesStay

=============================================================================
