-------------------------- MODULE DeviceDetection --------------------------
(***************************************************************************)
(* How process_grading_job decides what kind of device each of its devices *)
(* is: if one lacks a platform, all are asked over SNMP at once; those     *)
(* that stay silent are tried over SSH; the platforms found replace those  *)
(* of the job, and each device is registered under a type that decides how *)
(* Nornir and Netmiko talk to it.                                          *)
(*                                                                         *)
(* What a device answers, in which order, and whether the answers arrive   *)
(* is open.  Texts are names; what they contain is said by the sets below. *)
(***************************************************************************)
EXTENDS Integers, Sequences, SequencesExt

CONSTANTS
  Devices,     \* job.devices, a sequence of device ids
  Platforms,   \* platforms a job may give its devices
  NoPlatform   \* None

Device == Range(Devices)

(* Platform names by what they contain. *)
Ios == {"cisco_ios", "cisco_ios_router", "cisco_ios_switch", "cisco_ios_telnet"}
Cisco == Ios \cup {"cisco", "cisco_router", "cisco_switch"}
Linux == {"linux", "linux_server", "linux_telnet"}
Telnet == {"cisco_ios_telnet", "linux_telnet"}

(* What a detection may name. *)
Found == {"cisco_ios", "cisco_ios_router", "cisco_ios_switch", "linux", "windows",
          "generic", "unknown"}

(* None is none of the texts. *)
ASSUME DetectionAssumption ==
  /\ Devices \in Seq(Range(Devices)) /\ IsInjective(Devices)
  /\ NoPlatform \notin {""} \cup Cisco \cup Linux \cup Found

(* What the six SNMP queries of a device bring: a value, or nothing because
   the query failed or its value is empty.  named stands for the queries that
   say nothing about the platform. *)
Reply == [descr : {"", "cisco", "linux", "windows", "other"},
          forwarding : {"", "1", "2", "other"},
          named : BOOLEAN]
Silent == [descr |-> "", forwarding |-> "", named |-> FALSE]

(* What a login over SSH makes of a device, "" when it fails or says nothing. *)
Login == {"", "cisco", "linux"}

VARIABLES
  phase,
  enabled,    \* config.SNMP_ENABLED
  available,  \* SNMP_AVAILABLE: the library could be imported
  given,      \* the platforms the job came with
  platform,   \* device.platform of the job's devices
  answers,    \* the results of the detecting coroutines, as they end
  hosts       \* how each device is registered

vars == <<phase, enabled, available, given, platform, answers, hosts>>

Init ==
  /\ phase = "starting"
  /\ enabled \in BOOLEAN /\ available \in BOOLEAN
  /\ given \in [Device -> Platforms]
  /\ platform = given
  /\ answers = <<>>
  /\ hosts = <<>>

-----------------------------------------------------------------------------
(* Devices that lack a platform make process_grading_job detect all. *)
Lacking == {d \in Device : platform[d] \in {NoPlatform, "", "unknown"}}

Begin ==
  /\ phase = "starting"
  /\ phase' = IF Lacking = {} THEN "registering" ELSE "detecting"
  /\ UNCHANGED <<enabled, available, given, platform, answers, hosts>>

Described(descr) ==
  CASE descr = ""        -> "unknown"
    [] descr = "cisco"   -> "cisco_ios"
    [] descr = "linux"   -> "linux"
    [] descr = "windows" -> "windows"
    [] OTHER             -> "generic"

(* _parse_snmp_data: ipForwarding overrules the description. *)
Parsed(reply) ==
  CASE reply.forwarding = "1" -> "cisco_ios_router"
    [] reply.forwarding = "2" -> "cisco_ios_switch"
    [] OTHER                  -> Described(reply.descr)

Signs(reply) ==
  {reply.descr} \cup (IF reply.forwarding \in {"1", "2"} THEN {"cisco"} ELSE {})

Asking(d) ==
  /\ phase = "detecting" /\ enabled
  /\ \A i \in DOMAIN answers : answers[i].dev # d

Answer(d, p, signs) ==
  /\ answers' = Append(answers, [dev |-> d, platform |-> p, signs |-> signs \ {""}])
  /\ UNCHANGED <<phase, enabled, available, given, platform, hosts>>

(* detect_device: some SNMP query succeeded. *)
SnmpAnswers(d) ==
  /\ Asking(d) /\ available
  /\ \E reply \in Reply \ {Silent} : Answer(d, Parsed(reply), Signs(reply))

(* _static_detection; without a platform its startswith raises. *)
Static(d, login) ==
  CASE login = "cisco" -> "cisco_ios"
    [] login = "linux" -> "linux"
    [] OTHER           -> platform[d]

(* Defect: the platform of a failed detection is the exception's. *)
NoneWhenRaised(p) == p

(* detect_multiple_devices: the result made for a coroutine that raised. *)
Outcome(p) == IF p = NoPlatform THEN "unknown" ELSE p

(* detect_device without an SNMP answer: static detection, which blocks the
   event loop; when it raises it is tried again, unless there is no SNMP
   library: then it is called outside of the try block. *)
NoSnmpAnswer(d) ==
  /\ Asking(d)
  /\ \E first, second \in Login :
       IF Static(d, first) # NoPlatform \/ ~available
         THEN Answer(d, Outcome(Static(d, first)), {first})
         ELSE Answer(d, Outcome(Static(d, second)), {first, second})

-----------------------------------------------------------------------------
(* Defect: results are told apart by the order in which they arrive. *)
InOrderOfArrival(as) == [i \in DOMAIN as |-> [as[i] EXCEPT !.dev = Devices[i]]]

(* Defect: gather without return_exceptions, so one that raises fails all. *)
AllOrNone(as) == IF \E i \in DOMAIN as : as[i].platform = "unknown" THEN <<>> ELSE as

(* gather returns the results in the order of the coroutines it was given. *)
Gathered(as) == as

FromSnmp(d) == {Gathered(answers)[i].platform :
                  i \in {i \in DOMAIN Gathered(answers) : Gathered(answers)[i].dev = d}}

(* detect_devices: the platform and device_type of a device's result. *)
StaticFallback(p) ==
  CASE p \in Ios   -> [platform |-> "cisco_ios", type |-> "cisco_router"]
    [] p \in Linux -> [platform |-> "linux", type |-> "linux_server"]
    [] OTHER       -> [platform |-> "generic", type |-> "unknown"]
Detected(d) ==
  IF FromSnmp(d) = {} THEN StaticFallback(platform[d])
  ELSE [platform |-> CHOOSE p \in FromSnmp(d) : TRUE, type |-> "unknown"]

(* _convert_device with the result of a detection, and without. *)
TypeDetected(r) ==
  IF r.type # "unknown" THEN r.type
  ELSE CASE r.platform \in Ios   -> "cisco_router"
         [] r.platform \in Linux -> "linux_server"
         [] OTHER                 -> "unknown"
TypeGiven(p) ==
  CASE p \in Telnet \/ p \notin Ios \cup Linux -> p
    [] p \in Ios \ Telnet -> "cisco_router"
    [] OTHER               -> "linux_server"

(* add_device and _create_nornir_inventory: a device's group, its Netmiko
   type and whether NAPALM is configured. *)
Host(type) ==
  [group |-> CASE type = "cisco_router" -> "cisco_routers"
               [] type = "cisco_switch" -> "cisco_switches"
               [] type \in Cisco \ {"cisco_router", "cisco_switch"} -> "cisco_devices"
               [] type \in Linux        -> "linux_servers"
               [] OTHER                 -> "generic_devices",
   netmiko |-> CASE type \in Cisco \ Ios -> "cisco_ios"
                 [] type = "linux_server" -> "linux"
                 [] type = "linux_telnet" -> "generic_telnet"
                 [] OTHER                 -> type,
   napalm |-> type \notin Telnet]

(* The gathered results replace the job's platforms, and all devices are
   registered: nothing in between awaits anything that suspends. *)
RegisterDetected ==
  /\ phase = "detecting"
  /\ enabled => Len(answers) = Len(Devices)
  /\ phase' = "registered"
  /\ platform' = [d \in Device |->
       IF Detected(d).platform = "unknown" THEN platform[d] ELSE Detected(d).platform]
  /\ hosts' = [d \in Device |-> Host(TypeDetected(Detected(d)))]
  /\ UNCHANGED <<enabled, available, given, answers>>

RegisterGiven ==
  /\ phase = "registering"
  /\ phase' = "registered"
  /\ hosts' = [d \in Device |-> Host(TypeGiven(platform[d]))]
  /\ UNCHANGED <<enabled, available, given, platform, answers>>

Done == phase = "registered" /\ UNCHANGED vars

Next ==
  \/ Begin \/ RegisterDetected \/ RegisterGiven \/ Done
  \/ \E d \in Device : SnmpAnswers(d) \/ NoSnmpAnswer(d)

Spec == Init /\ [][Next]_vars

-----------------------------------------------------------------------------
(* The None of a device that lacks a platform never gets past the detection:
   whatever raises on it, every result and every registered device has a text
   for a platform. *)
TypeOK ==
  /\ phase \in {"starting", "detecting", "registering", "registered"}
  /\ enabled \in BOOLEAN /\ available \in BOOLEAN
  /\ given \in [Device -> Platforms]
  /\ platform \in [Device -> Platforms \cup Found]
  /\ Len(answers) <= Len(Devices)
  /\ \A i \in DOMAIN answers :
       answers[i] \in [dev : Device, platform : (Platforms \ {NoPlatform}) \cup Found,
                       signs : SUBSET {"cisco", "linux", "windows", "other"}]
  /\ phase = "registered" =>
       hosts \in [Device -> [group : {"cisco_routers", "cisco_switches", "cisco_devices",
                                      "linux_servers", "generic_devices"},
                             netmiko : (Platforms \ {NoPlatform}) \cup Found \cup {"generic_telnet"},
                             napalm : BOOLEAN]]

SignsOf(d) == UNION {answers[i].signs : i \in {i \in DOMAIN answers : answers[i].dev = d}}

(* How a device is driven rests on its own answer, in whatever order the
   answers came and whatever the other devices failed to do: one that showed
   one sign only is driven accordingly, and none is driven as a Cisco or as a
   Linux host without having shown such a sign or been given such a platform. *)
OwnAnswerDecides ==
  phase = "registered" =>
    \A d \in Device :
      /\ SignsOf(d) = {"cisco"} => hosts[d].netmiko = "cisco_ios"
      /\ SignsOf(d) = {"linux"} => hosts[d].netmiko = "linux"
      /\ hosts[d].netmiko = "cisco_ios" => "cisco" \in SignsOf(d) \/ given[d] \in Cisco
      /\ hosts[d].netmiko = "linux" => "linux" \in SignsOf(d) \/ given[d] \in Linux

-----------------------------------------------------------------------------
(* docs/NETGRADER_COMPREHENSIVE_IMPLEMENTATION.md:91 "Conditional Detection:
   Only runs when `device.platform` is undefined": a device whose platform is
   given is registered as if it were the only one. *)
GivenPlatformStays ==
  phase = "registered" =>
    \A d \in Device :
      given[d] \notin {NoPlatform, "", "unknown"} => hosts[d] = Host(TypeGiven(given[d]))
=============================================================================
