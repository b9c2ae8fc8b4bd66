----------------------- MODULE DeviceDetectionProofs -----------------------
(***************************************************************************)
(* Theorems about DeviceDetection, for any devices and any platforms a job *)
(* may give them.                                                          *)
(***************************************************************************)
EXTENDS DeviceDetection, FiniteSetTheorems, TLAPS

(* What Netmiko makes of a platform that was detected. *)
Driven(p) == IF p \in Ios THEN "cisco_ios" ELSE IF p \in Linux THEN "linux" ELSE "unknown"

(* The platform found for a device given g is one its signs speak for. *)
Evidence(p, signs, g) ==
  /\ signs = {"cisco"} => p \in Ios
  /\ signs = {"linux"} => p \in Linux
  /\ p \in Ios => "cisco" \in signs \/ g \in Cisco
  /\ p \in Linux => "linux" \in signs \/ g \in Linux

AnswerType == [dev : Device, platform : (Platforms \ {NoPlatform}) \cup Found,
               signs : SUBSET {"cisco", "linux", "windows", "other"}]

(* Each device has answered at most once, and its answer has its evidence;
   nothing is replaced before all are registered. *)
IInv ==
  /\ TypeOK
  /\ answers \in Seq(AnswerType)
  /\ \A i, k \in DOMAIN answers : answers[i].dev = answers[k].dev => i = k
  /\ \A i \in DOMAIN answers :
       Evidence(answers[i].platform, answers[i].signs, given[answers[i].dev])
  /\ phase # "registered" => platform = given
  /\ phase \in {"starting", "registering"} => answers = <<>>
  /\ phase = "registering" => Lacking = {}
  /\ OwnAnswerDecides

Group == {"cisco_routers", "cisco_switches", "cisco_devices", "linux_servers", "generic_devices"}
Registered == [group : Group,
               netmiko : (Platforms \ {NoPlatform}) \cup Found \cup {"generic_telnet"},
               napalm : BOOLEAN]

-----------------------------------------------------------------------------
(* The platforms and the ways to drive a device.                           *)

LEMMA PlatformKinds ==
  /\ Ios \subseteq Cisco /\ Ios \cap Linux = {} /\ Cisco \cap Linux = {}
  /\ "cisco_router" \notin Ios \cup Linux /\ "unknown" \notin Cisco \cup Linux
BY DEF Ios, Cisco, Linux

(* How a device is driven once detection has found its platform, or has found
   nothing and falls back on the platform given. *)
LEMMA DrivenWhenFound ==
  ASSUME NEW p
  PROVE  LET h == Host(TypeDetected([platform |-> p, type |-> "unknown"]))
         IN  h \in Registered /\ h.netmiko = Driven(p)
<1> DEFINE r == [platform |-> p, type |-> "unknown"]
<1>1. TypeDetected(r) = IF p \in Ios THEN "cisco_router"
                        ELSE IF p \in Linux THEN "linux_server" ELSE "unknown"
  BY PlatformKinds DEF TypeDetected
<1> HIDE DEF r
<1>2. CASE p \in Ios
  BY <1>1, <1>2 DEF Host, Driven, Registered, Group, Found, Ios, Cisco, Linux, Telnet, r
<1>3. CASE p \notin Ios /\ p \in Linux
  BY <1>1, <1>3 DEF Host, Driven, Registered, Group, Found, Ios, Cisco, Linux, Telnet, r
<1>4. CASE p \notin Ios \cup Linux
  BY <1>1, <1>4 DEF Host, Driven, Registered, Group, Found, Ios, Cisco, Linux, Telnet, r
<1>5. QED
  BY <1>2, <1>3, <1>4

LEMMA DrivenByFallback ==
  ASSUME NEW p
  PROVE  LET h == Host(TypeDetected(StaticFallback(p)))
         IN  /\ h \in Registered /\ h.netmiko = Driven(p)
             /\ StaticFallback(p).platform \in Found
<1>1. CASE p \in Ios
  <2>1. StaticFallback(p) = [platform |-> "cisco_ios", type |-> "cisco_router"]
    BY <1>1, PlatformKinds DEF StaticFallback
  <2>2. TypeDetected(StaticFallback(p)) = "cisco_router"
    BY <2>1 DEF TypeDetected
  <2>3. QED
    BY <1>1, <2>1, <2>2 DEF Host, Driven, Registered, Group, Found, Ios, Cisco, Linux, Telnet
<1>2. CASE p \notin Ios /\ p \in Linux
  <2>1. StaticFallback(p) = [platform |-> "linux", type |-> "linux_server"]
    BY <1>2 DEF StaticFallback
  <2>2. TypeDetected(StaticFallback(p)) = "linux_server"
    BY <2>1 DEF TypeDetected
  <2>3. QED
    BY <1>2, <2>1, <2>2 DEF Host, Driven, Registered, Group, Found, Ios, Cisco, Linux, Telnet
<1>3. CASE p \notin Ios \cup Linux
  <2>1. StaticFallback(p) = [platform |-> "generic", type |-> "unknown"]
    BY <1>3 DEF StaticFallback
  <2>2. TypeDetected(StaticFallback(p)) = "unknown"
    BY <2>1 DEF TypeDetected, Ios, Linux
  <2>3. QED
    BY <1>3, <2>1, <2>2 DEF Host, Driven, Registered, Group, Found, Ios, Cisco, Linux, Telnet
<1>4. QED
  BY <1>1, <1>2, <1>3

(* How a device is driven by the platform it was given. *)
LEMMA DrivenByGiven ==
  ASSUME NEW p \in Platforms, p # NoPlatform
  PROVE  LET h == Host(TypeGiven(p))
         IN  /\ h \in Registered
             /\ h.netmiko = "cisco_ios" => p \in Cisco
             /\ h.netmiko = "linux" => p \in Linux
<1>1. CASE p \in Telnet \/ p \notin Ios \cup Linux
  <2>1. TypeGiven(p) = p
    BY <1>1 DEF TypeGiven
  <2>2. QED
    BY <1>1, <2>1 DEF Host, Registered, Group, Found, Ios, Cisco, Linux, Telnet
<1>2. CASE p \in Ios \ Telnet
  <2>1. TypeGiven(p) = "cisco_router"
    BY <1>2 DEF TypeGiven
  <2>2. QED
    BY <1>2, <2>1 DEF Host, Registered, Group, Found, Ios, Cisco, Linux, Telnet
<1>3. CASE p \in Linux \ Telnet
  <2>1. TypeGiven(p) = "linux_server"
    BY <1>3, PlatformKinds DEF TypeGiven, Ios, Linux, Telnet
  <2>2. QED
    BY <1>3, <2>1 DEF Host, Registered, Group, Found, Ios, Cisco, Linux, Telnet
<1>4. QED
  BY <1>1, <1>2, <1>3

(* Signs speak for a platform of their kind, and no signs for no kind. *)
LEMMA SignsSpeak ==
  ASSUME NEW p, NEW signs, NEW g,
         \/ "cisco" \in signs /\ p \in Ios
         \/ "linux" \in signs /\ p \in Linux
         \/ "cisco" \notin signs /\ "linux" \notin signs /\ (p \notin Ios \cup Linux \/ p = g)
  PROVE  Evidence(p, signs, g)
<1>1. /\ signs = {"cisco"} => "cisco" \in signs /\ "linux" \notin signs
      /\ signs = {"linux"} => "linux" \in signs /\ "cisco" \notin signs
  OBVIOUS
<1>2. QED
  BY <1>1, PlatformKinds DEF Evidence

(* Whatever a device answers speaks for the platform made of it. *)
LEMMA RepliesSpeak ==
  ASSUME NEW reply \in Reply, NEW g
  PROVE  Parsed(reply) \in Found /\ Evidence(Parsed(reply), Signs(reply) \ {""}, g)
<1>1. /\ reply.descr \in {"", "cisco", "linux", "windows", "other"}
      /\ reply.forwarding \in {"", "1", "2", "other"}
  BY DEF Reply
<1>2. CASE reply.forwarding \in {"1", "2"}
  <2>1. /\ Parsed(reply) \in {"cisco_ios_router", "cisco_ios_switch"}
        /\ "cisco" \in Signs(reply) \ {""}
    BY <1>2 DEF Parsed, Signs
  <2>2. Parsed(reply) \in Found \cap Ios
    BY <2>1 DEF Found, Ios
  <2>3. QED
    BY <2>1, <2>2, SignsSpeak
<1>3. CASE reply.forwarding \notin {"1", "2"}
  <2>1. Parsed(reply) = Described(reply.descr) /\ Signs(reply) = {reply.descr}
    BY <1>3 DEF Parsed, Signs
  <2>2. \/ reply.descr = "cisco" /\ Described(reply.descr) = "cisco_ios"
        \/ reply.descr = "linux" /\ Described(reply.descr) = "linux"
        \/ /\ reply.descr \in {"", "windows", "other"}
           /\ Described(reply.descr) \in {"unknown", "windows", "generic"}
    BY <1>1 DEF Described
  <2>3. Described(reply.descr) \in Found
    BY <2>2 DEF Found
  <2>4. \/ "cisco" \in Signs(reply) \ {""} /\ Described(reply.descr) \in Ios
        \/ "linux" \in Signs(reply) \ {""} /\ Described(reply.descr) \in Linux
        \/ /\ "cisco" \notin Signs(reply) \ {""} /\ "linux" \notin Signs(reply) \ {""}
           /\ Described(reply.descr) \notin Ios \cup Linux
    BY <2>1, <2>2 DEF Ios, Linux
  <2>5. QED
    BY <2>1, <2>3, <2>4, SignsSpeak
<1>4. QED
  BY <1>2, <1>3

(* Static detection, and what becomes of it when it raises: the logins of
   other tries, which brought nothing, are no signs. *)
LEMMA LoginsSpeak ==
  ASSUME NEW d \in Device, NEW login \in Login, NEW tried \in {{login}, {"", login}}
  PROVE  Evidence(Outcome(Static(d, login)), tried \ {""}, platform[d])
<1>1. \/ login = "" /\ Static(d, login) = platform[d]
      \/ login = "cisco" /\ Static(d, login) = "cisco_ios"
      \/ login = "linux" /\ Static(d, login) = "linux"
  BY DEF Login, Static
<1>2. CASE login = ""
  <2>1. Outcome(platform[d]) \in {platform[d], "unknown"}
    BY DEF Outcome
  <2>2. Outcome(platform[d]) \notin Ios \cup Linux \/ Outcome(platform[d]) = platform[d]
    BY <2>1, PlatformKinds
  <2>3. QED
    BY <1>1, <1>2, <2>2, SignsSpeak
<1>3. CASE login # ""
  <2>1. NoPlatform \notin {"cisco_ios", "linux"}
    BY DetectionAssumption DEF DetectionAssumption, Found
  <2>2. Outcome(Static(d, login)) = Static(d, login)
    BY <1>1, <1>3, <2>1 DEF Outcome
  <2>3. \/ "cisco" \in tried \ {""} /\ Static(d, login) \in Ios
        \/ "linux" \in tried \ {""} /\ Static(d, login) \in Linux
    BY <1>1, <1>3 DEF Ios, Linux
  <2>4. QED
    BY <2>2, <2>3, SignsSpeak
<1>4. QED
  BY <1>2, <1>3

-----------------------------------------------------------------------------
(* Answers of different devices are no more than there are devices. *)
LEMMA AnswersFit ==
  ASSUME NEW S, NEW list \in Seq(S),
         \A i \in DOMAIN list : list[i].dev \in Device,
         \A i, k \in DOMAIN list : list[i].dev = list[k].dev => i = k
  PROVE  Len(list) <= Len(Devices)
<1>0. PICK n \in Nat : n = Len(list) /\ DOMAIN list = 1 .. n
  OBVIOUS
<1> DEFINE place == [i \in 1 .. n |-> CHOOSE k \in 1 .. Len(Devices) : Devices[k] = list[i].dev]
<1>1. Len(Devices) \in Nat /\ DOMAIN Devices = 1 .. Len(Devices)
  <2>1. PICK T : Devices \in Seq(T)
    BY DetectionAssumption DEF DetectionAssumption
  <2>2. QED
    BY <2>1
<1>2. \A i \in 1 .. n : \E k \in 1 .. Len(Devices) : Devices[k] = list[i].dev
  BY <1>0, <1>1 DEF Device, Range
<1>3. \A i \in 1 .. n : place[i] \in 1 .. Len(Devices) /\ Devices[place[i]] = list[i].dev
  BY <1>2
<1>4. place \in Injection(1 .. n, 1 .. Len(Devices))
  <2>1. place \in [1 .. n -> 1 .. Len(Devices)]
    BY <1>3
  <2>2. ASSUME NEW i \in 1 .. n, NEW k \in 1 .. n, place[i] = place[k] PROVE i = k
    <3>1. Devices[place[i]] = list[i].dev /\ Devices[place[k]] = list[k].dev
      BY <1>3
    <3> HIDE DEF place
    <3>2. list[i].dev = list[k].dev
      BY <2>2, <3>1
    <3>3. QED
      BY <1>0, <3>2
  <2>3. QED
    BY <2>1, <2>2 DEF Injection, IsInjective
<1>5. \A m \in Nat : IsFiniteSet(1 .. m) /\ Cardinality(1 .. m) = m
  BY FS_Interval
<1> HIDE DEF place
<1>6. Cardinality(1 .. n) <= Cardinality(1 .. Len(Devices))
  BY <1>1, <1>4, <1>5, FS_Injection
<1>7. QED
  BY <1>0, <1>1, <1>5, <1>6

-----------------------------------------------------------------------------
(* The inductive invariant.                                                *)

LEMMA InitInv == Init => IInv
<1> SUFFICES ASSUME Init PROVE IInv
  OBVIOUS
<1>1. answers = <<>> /\ phase = "starting" /\ platform = given
  BY DEF Init
<1>2. Len(Devices) \in Nat
  <2>1. PICK S : Devices \in Seq(S)
    BY DetectionAssumption DEF DetectionAssumption
  <2>2. QED
    BY <2>1
<1>3. TypeOK
  BY <1>1, <1>2 DEF Init, TypeOK
<1>4. QED
  BY <1>1, <1>3 DEF IInv, OwnAnswerDecides

(* A longer list: the one before, and one element at its end. *)
IsAppended(longer, list, a, S) ==
  \E n \in Nat :
    /\ longer \in Seq(S) /\ Len(longer) = n + 1
    /\ DOMAIN list = 1 .. n /\ DOMAIN longer = 1 .. n + 1
    /\ longer[n + 1] = a
    /\ \A i \in 1 .. n : longer[i] = list[i]
    /\ \A i \in 1 .. n + 1 : i \in 1 .. n \/ i = n + 1

LEMMA Appended ==
  ASSUME NEW S, NEW list \in Seq(S), NEW a \in S
  PROVE  IsAppended(Append(list, a), list, a, S)
<1>1. PICK n \in Nat : n = Len(list) /\ DOMAIN list = 1 .. n
  OBVIOUS
<1>2. PICK longer : longer = Append(list, a)
  OBVIOUS
<1>3. /\ longer \in Seq(S) /\ Len(longer) = n + 1 /\ DOMAIN longer = 1 .. n + 1
      /\ longer[n + 1] = a /\ \A i \in 1 .. n : longer[i] = list[i]
  BY <1>1, <1>2
<1>4. \A i \in 1 .. n + 1 : i \in 1 .. n \/ i = n + 1
  BY <1>1
<1>5. QED
  BY <1>1, <1>2, <1>3, <1>4 DEF IsAppended

(* A device answers: its own answer is added, the others stay. *)
LEMMA AnswerInv ==
  ASSUME IInv, NEW d \in Device, Asking(d), NEW p, NEW signs, Answer(d, p, signs),
         p \in (Platforms \ {NoPlatform}) \cup Found,
         signs \ {""} \in SUBSET {"cisco", "linux", "windows", "other"},
         Evidence(p, signs \ {""}, platform[d])
  PROVE  IInv'
<1> DEFINE a == [dev |-> d, platform |-> p, signs |-> signs \ {""}]
<1>1. /\ answers' = Append(answers, a) /\ phase = "detecting"
      /\ UNCHANGED <<phase, enabled, available, given, platform, hosts>>
      /\ \A i \in DOMAIN answers : answers[i].dev # d
  BY DEF Answer, Asking
<1>2. a \in AnswerType /\ answers \in Seq(AnswerType)
  BY DEF AnswerType, IInv
<1>3. a.dev = d /\ a.platform = p /\ a.signs = signs \ {""}
  OBVIOUS
<1> HIDE DEF a
<1>4. PICK n \in Nat :
        /\ answers' \in Seq(AnswerType) /\ Len(answers') = n + 1
        /\ DOMAIN answers = 1 .. n /\ DOMAIN answers' = 1 .. n + 1
        /\ answers'[n + 1] = a
        /\ \A i \in 1 .. n : answers'[i] = answers[i]
        /\ \A i \in 1 .. n + 1 : i \in 1 .. n \/ i = n + 1
  <2>1. IsAppended(answers', answers, a, AnswerType)
    BY <1>1, <1>2, Appended
  <2>2. QED
    BY <2>1 DEF IsAppended
<1>5. \A i \in DOMAIN answers' : \/ i \in DOMAIN answers /\ answers'[i] = answers[i]
                                 \/ i = n + 1 /\ answers'[i] = a
  BY <1>4
<1>6. \A i, k \in DOMAIN answers' : answers'[i].dev = answers'[k].dev => i = k
  BY <1>1, <1>3, <1>5 DEF IInv
<1>7. \A i \in DOMAIN answers' : answers'[i] \in AnswerType
  <2>1. \A i \in DOMAIN answers : answers[i] \in AnswerType
    BY DEF IInv, TypeOK, AnswerType
  <2>2. QED
    BY <1>2, <1>5, <2>1
<1>8. Len(answers') <= Len(Devices)
  <2>1. \A i \in DOMAIN answers' : answers'[i].dev \in Device
    BY <1>7 DEF AnswerType
  <2>2. QED
    BY <1>4, <1>6, <2>1, AnswersFit
<1>9. \A i \in DOMAIN answers' :
        Evidence(answers'[i].platform, answers'[i].signs, given[answers'[i].dev])
  <2>1. platform = given
    BY <1>1 DEF IInv
  <2>2. Evidence(a.platform, a.signs, given[a.dev])
    BY <1>3, <2>1
  <2>3. QED
    BY <1>5, <2>2 DEF IInv
<1>10. TypeOK'
  BY <1>1, <1>7, <1>8 DEF IInv, TypeOK, AnswerType
<1>11. QED
  BY <1>1, <1>4, <1>6, <1>9, <1>10 DEF IInv, OwnAnswerDecides

LEMMA SnmpAnswersInv ==
  ASSUME IInv, NEW d \in Device, SnmpAnswers(d)
  PROVE  IInv'
<1>1. PICK reply \in Reply \ {Silent} : Answer(d, Parsed(reply), Signs(reply))
  BY DEF SnmpAnswers
<1>2. Asking(d)
  BY DEF SnmpAnswers
<1>3. Signs(reply) \ {""} \in SUBSET {"cisco", "linux", "windows", "other"}
  BY DEF Signs, Reply
<1>4. Parsed(reply) \in Found /\ Evidence(Parsed(reply), Signs(reply) \ {""}, platform[d])
  BY RepliesSpeak
<1>5. QED
  BY <1>1, <1>2, <1>3, <1>4, AnswerInv

LEMMA NoSnmpAnswerInv ==
  ASSUME IInv, NEW d \in Device, NoSnmpAnswer(d)
  PROVE  IInv'
<1>1. PICK first \in Login, second \in Login :
        IF Static(d, first) # NoPlatform \/ ~available
          THEN Answer(d, Outcome(Static(d, first)), {first})
          ELSE Answer(d, Outcome(Static(d, second)), {first, second})
  BY DEF NoSnmpAnswer
<1>2. Asking(d) /\ phase # "registered" /\ given \in [Device -> Platforms] /\ platform = given
  BY DEF NoSnmpAnswer, Asking, IInv, TypeOK
<1>3. NoPlatform \notin {"cisco_ios", "linux"}
  BY DetectionAssumption DEF DetectionAssumption, Found
<1>4. \A l \in Login : Outcome(Static(d, l)) \in (Platforms \ {NoPlatform}) \cup Found
  <2>1. \A l \in Login : Static(d, l) \in {"cisco_ios", "linux", platform[d]}
    BY DEF Static
  <2>2. QED
    BY <1>2, <1>3, <2>1 DEF Outcome, Found
<1>5. CASE Static(d, first) # NoPlatform \/ ~available
  <2>1. Answer(d, Outcome(Static(d, first)), {first})
    BY <1>1, <1>5
  <2>2. {first} \ {""} \in SUBSET {"cisco", "linux", "windows", "other"}
    BY DEF Login
  <2>3. Evidence(Outcome(Static(d, first)), {first} \ {""}, platform[d])
    BY LoginsSpeak
  <2>4. QED
    BY <1>2, <1>4, <2>1, <2>2, <2>3, AnswerInv
<1>6. CASE Static(d, first) = NoPlatform /\ available
  <2>1. Answer(d, Outcome(Static(d, second)), {first, second})
    BY <1>1, <1>6
  <2>2. first = ""
    BY <1>3, <1>6 DEF Login, Static
  <2>3. {first, second} \ {""} \in SUBSET {"cisco", "linux", "windows", "other"}
    BY DEF Login
  <2>4. Evidence(Outcome(Static(d, second)), {first, second} \ {""}, platform[d])
    BY <2>2, LoginsSpeak
  <2>5. QED
    BY <1>2, <1>4, <2>1, <2>3, <2>4, AnswerInv
<1>7. QED
  BY <1>5, <1>6

(* What detection found of a device is its own answer, or nothing. *)
LEMMA DetectedOwn ==
  ASSUME IInv, NEW d \in Device
  PROVE  \/ FromSnmp(d) = {} /\ SignsOf(d) = {}
         \/ \E i \in DOMAIN answers :
              /\ answers[i].dev = d
              /\ FromSnmp(d) = {answers[i].platform} /\ SignsOf(d) = answers[i].signs
<1>1. CASE \A i \in DOMAIN answers : answers[i].dev # d
  BY <1>1 DEF FromSnmp, SignsOf, Gathered
<1>2. ASSUME NEW i \in DOMAIN answers, answers[i].dev = d
      PROVE  FromSnmp(d) = {answers[i].platform} /\ SignsOf(d) = answers[i].signs
  <2>1. {k \in DOMAIN answers : answers[k].dev = d} = {i}
    BY <1>2 DEF IInv
  <2>2. QED
    BY <2>1 DEF FromSnmp, SignsOf, Gathered
<1>3. QED
  BY <1>1, <1>2

LEMMA RegisterDetectedInv ==
  ASSUME IInv, RegisterDetected
  PROVE  IInv'
<1>1. /\ phase = "detecting" /\ phase' = "registered"
      /\ UNCHANGED <<enabled, available, given, answers>>
      /\ platform' = [d \in Device |->
           IF Detected(d).platform = "unknown" THEN platform[d] ELSE Detected(d).platform]
      /\ hosts' = [d \in Device |-> Host(TypeDetected(Detected(d)))]
  BY DEF RegisterDetected
<1>2. platform = given /\ given \in [Device -> Platforms]
  BY <1>1 DEF IInv, TypeOK
<1>3. ASSUME NEW d \in Device
      PROVE  /\ Detected(d).platform \in Platforms \cup Found
             /\ hosts'[d] \in Registered
             /\ \E p : /\ hosts'[d].netmiko = Driven(p)
                       /\ Evidence(p, SignsOf(d), given[d])
  <2>1. hosts'[d] = Host(TypeDetected(Detected(d)))
    BY <1>1
  <2>2. CASE FromSnmp(d) = {} /\ SignsOf(d) = {}
    <3>1. Detected(d) = StaticFallback(platform[d])
      BY <2>2 DEF Detected
    <3>2. /\ Detected(d).platform \in Found /\ hosts'[d] \in Registered
          /\ hosts'[d].netmiko = Driven(given[d])
      BY <1>2, <2>1, <3>1, DrivenByFallback
    <3>3. Evidence(given[d], SignsOf(d), given[d])
      BY <2>2, SignsSpeak
    <3>4. QED
      BY <3>2, <3>3
  <2>3. ASSUME NEW i \in DOMAIN answers, answers[i].dev = d,
               FromSnmp(d) = {answers[i].platform}, SignsOf(d) = answers[i].signs
        PROVE  /\ Detected(d).platform \in Platforms \cup Found
               /\ hosts'[d] \in Registered
               /\ \E p : /\ hosts'[d].netmiko = Driven(p)
                         /\ Evidence(p, SignsOf(d), given[d])
    <3>1. PICK p : p = answers[i].platform
      OBVIOUS
    <3>2. Detected(d) = [platform |-> p, type |-> "unknown"]
      BY <2>3, <3>1 DEF Detected
    <3>3. p \in Platforms \cup Found
      BY <2>3, <3>1 DEF IInv, TypeOK
    <3>4. hosts'[d] \in Registered /\ hosts'[d].netmiko = Driven(p)
      BY <2>1, <3>2, DrivenWhenFound
    <3>5. Evidence(p, SignsOf(d), given[d])
      BY <2>3, <3>1 DEF IInv
    <3>6. QED
      BY <3>2, <3>3, <3>4, <3>5
  <2>4. QED
    BY <2>2, <2>3, DetectedOwn
<1>4. platform' \in [Device -> Platforms \cup Found] /\ hosts' \in [Device -> Registered]
  <2>1. platform' \in [Device -> Platforms \cup Found]
    BY <1>1, <1>2, <1>3
  <2>2. hosts' \in [Device -> Registered]
    BY <1>1, <1>3
  <2>3. QED
    BY <2>1, <2>2
<1>5. TypeOK'
  BY <1>1, <1>4 DEF IInv, TypeOK, Registered, Group
<1>6. OwnAnswerDecides'
  <2>1. ASSUME NEW d \in Device
        PROVE  /\ SignsOf(d) = {"cisco"} => hosts'[d].netmiko = "cisco_ios"
               /\ SignsOf(d) = {"linux"} => hosts'[d].netmiko = "linux"
               /\ hosts'[d].netmiko = "cisco_ios" => "cisco" \in SignsOf(d) \/ given[d] \in Cisco
               /\ hosts'[d].netmiko = "linux" => "linux" \in SignsOf(d) \/ given[d] \in Linux
    <3>1. PICK p : hosts'[d].netmiko = Driven(p) /\ Evidence(p, SignsOf(d), given[d])
      BY <1>3
    <3>2. QED
      BY <3>1, PlatformKinds DEF Driven, Evidence
  <2>2. \A d \in Device : SignsOf(d)' = SignsOf(d)
    BY <1>1 DEF SignsOf
  <2>3. QED
    BY <1>1, <2>1, <2>2 DEF OwnAnswerDecides
<1>7. QED
  BY <1>1, <1>5, <1>6 DEF IInv

LEMMA RegisterGivenInv ==
  ASSUME IInv, RegisterGiven
  PROVE  IInv'
<1>1. /\ phase = "registering" /\ phase' = "registered"
      /\ UNCHANGED <<enabled, available, given, platform, answers>>
      /\ hosts' = [d \in Device |-> Host(TypeGiven(platform[d]))]
  BY DEF RegisterGiven
<1>2. /\ platform = given /\ given \in [Device -> Platforms] /\ answers = <<>>
      /\ \A d \in Device : given[d] # NoPlatform
  BY <1>1 DEF IInv, TypeOK, Lacking
<1>3. \A d \in Device :
        /\ hosts'[d] \in Registered
        /\ hosts'[d].netmiko = "cisco_ios" => given[d] \in Cisco
        /\ hosts'[d].netmiko = "linux" => given[d] \in Linux
  BY <1>1, <1>2, DrivenByGiven
<1>4. hosts' \in [Device -> Registered]
  BY <1>1, <1>3
<1>5. TypeOK'
  BY <1>1, <1>4 DEF IInv, TypeOK, Registered, Group
<1>6. OwnAnswerDecides'
  <2>1. \A d \in Device : SignsOf(d)' = {}
    BY <1>1, <1>2 DEF SignsOf
  <2>2. QED
    BY <1>1, <1>3, <2>1 DEF OwnAnswerDecides
<1>7. QED
  BY <1>1, <1>5, <1>6 DEF IInv

LEMMA NextInv == IInv /\ [Next]_vars => IInv'
<1> SUFFICES ASSUME IInv, [Next]_vars PROVE IInv'
  OBVIOUS
<1>1. CASE Begin
  <2>1. /\ phase = "starting" /\ phase' \in {"registering", "detecting"}
        /\ UNCHANGED <<enabled, available, given, platform, answers, hosts>>
        /\ phase' = "registering" => Lacking = {}
        /\ Lacking' = Lacking
    BY <1>1 DEF Begin, Lacking
  <2>2. TypeOK'
    BY <2>1 DEF IInv, TypeOK
  <2>3. QED
    BY <2>1, <2>2 DEF IInv, OwnAnswerDecides
<1>2. CASE RegisterDetected
  BY <1>2, RegisterDetectedInv
<1>3. CASE RegisterGiven
  BY <1>3, RegisterGivenInv
<1>4. ASSUME NEW d \in Device, SnmpAnswers(d) \/ NoSnmpAnswer(d) PROVE IInv'
  BY <1>4, SnmpAnswersInv, NoSnmpAnswerInv
<1>5. CASE UNCHANGED vars
  <2>1. UNCHANGED <<phase, enabled, available, given, platform, answers, hosts>>
    BY <1>5 DEF vars
  <2>2. TypeOK'
    BY <2>1 DEF IInv, TypeOK
  <2>5. \A d \in Device : SignsOf(d)' = SignsOf(d)
    BY <2>1 DEF SignsOf
  <2>6. OwnAnswerDecides'
    BY <2>1, <2>5 DEF IInv, OwnAnswerDecides
  <2>3. Lacking' = Lacking
    BY <2>1 DEF Lacking
  <2>4. QED
    BY <2>1, <2>2, <2>3, <2>6 DEF IInv
<1>6. QED
  BY <1>1, <1>2, <1>3, <1>4, <1>5 DEF Next, Done

LEMMA Inductive == Spec => []IInv
BY InitInv, NextInv, PTL DEF Spec

-----------------------------------------------------------------------------
(* Whatever raises on the None of a device without a platform, every result
   and every registered device has a text for a platform. *)
THEOREM TypeCorrect == Spec => []TypeOK
<1>1. IInv => TypeOK
  BY DEF IInv
<1>2. QED
  BY <1>1, Inductive, PTL

(* How a device is driven rests on its own answer, in whatever order the
   answers of any number of devices come. *)
THEOREM OwnAnswersDecide == Spec => []OwnAnswerDecides
<1>1. IInv => OwnAnswerDecides
  BY DEF IInv
<1>2. QED
  BY <1>1, Inductive, PTL

=============================================================================
