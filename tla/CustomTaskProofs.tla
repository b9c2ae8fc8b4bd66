-------------------------- MODULE CustomTaskProofs --------------------------
(***************************************************************************)
(* Theorems about CustomTask, for any templates, arguments and texts, and  *)
(* whatever the patterns find in them.                                     *)
(***************************************************************************)
EXTENDS CustomTask, FiniteSetTheorems, WellFoundedInduction, TLAPS

CommandResult == [success : BOOLEAN, value : Value]
Returnable == {r \in CommandResult : r.success \/ r.value \in ErrorTexts}

(* A register has what the latest command that bears its name returned; of a
   command that failed, that is an error text. *)
Latest ==
  /\ \A k \in DOMAIN results : results[k].success \/ results[k].value \in ErrorTexts
  /\ \A k \in DOMAIN results :
       LET x == template.commands[k].register
       IN  x # "" =>
             /\ x \in DOMAIN variables
             /\ (\A l \in DOMAIN results : l > k => template.commands[l].register # x)
                => variables[x] = results[k].value

(* A task that passed ran all of its commands, and all of its rules hold. *)
AllHold ==
  result.status = "passed" =>
    /\ phase = "done" /\ Len(results) = Len(template.commands)
    /\ \A i \in DOMAIN template.rules :
         Holds(template.rules[i].condition, FieldOf(template.rules[i].field),
               verdicts[i].expected)

(* The code's own answer for every share of commands, exactly half included. *)
Scored ==
  phase = "done" =>
    [task |-> 1, status |-> result.status, earned |-> result.earned]
      \in Grading!Outcomes(1, Points)

(* A task that runs has a valid template, and a result for each command it ran. *)
IInv ==
  /\ TypeOK
  /\ ValidDefinition(template)
  /\ results \in Seq(CommandResult)
  /\ Scored
  /\ Latest
  /\ AllHold

-----------------------------------------------------------------------------
(* Values.                                                                 *)

LEMMA ValueTypes ==
  /\ \A s \in STRING : Txt(s) \in Value
  /\ \A n \in Int : Num(n) \in Value
  /\ \A b \in BOOLEAN : Bool(b) \in Value
  /\ None \in Value /\ ScriptResult \in Value
  /\ \A ms \in Seq(STRING) : Found(ms) \in Value
BY DEF Value, Txt, Num, Bool, Found

LEMMA MatchesType ==
  ASSUME NEW p, NEW s
  PROVE  Matches(p, s) \in Seq(STRING)
<1>1. <<>> \in Seq(STRING)
  OBVIOUS
<1>2. CASE p \in DOMAIN Find /\ s \in DOMAIN Find[p]
  <2>1. Matches(p, s) = Find[p][s]
    BY <1>2 DEF Matches
  <2>2. Find[p][s] \in Seq(STRING)
    BY <1>2, CustomTaskAssumption, Zenon DEF CustomTaskAssumption
  <2>3. QED
    BY <2>1, <2>2
<1>3. CASE ~(p \in DOMAIN Find /\ s \in DOMAIN Find[p])
  <2>1. Matches(p, s) = <<>>
    BY <1>3 DEF Matches
  <2>2. QED
    BY <1>1, <2>1
<1>4. QED
  BY <1>2, <1>3

LEMMA ConvertedType ==
  ASSUME NEW s, NEW type
  PROVE  Converted(s, type) \subseteq Value
<1>1. Float(Txt(s)) \subseteq 0 .. 9
  BY DEF Float, Txt, Is
<1>2. {Num(n) : n \in Float(Txt(s))} \subseteq Value
  BY <1>1, ValueTypes
<1>3. \/ Converted(s, type) = {Bool(TRUE)}
      \/ Converted(s, type) = {Bool(FALSE)}
      \/ Converted(s, type) = {Num(n) : n \in Float(Txt(s))}
      \/ Converted(s, type) = {}
  BY DEF Converted
<1>4. QED
  BY <1>2, <1>3, ValueTypes

(* A nonempty set of naturals has a least element. *)
LEMMA LeastElement ==
  ASSUME NEW S, S \subseteq Nat, S # {}
  PROVE  \E x \in S : \A y \in S : x <= y
<1> DEFINE R == OpToRel(<, Nat)
<1>1. IsWellFoundedOn(R, Nat)
  BY NatLessThanWellFounded
<1>2. \A x, y \in Nat : x < y => <<x, y>> \in R
  BY DEF OpToRel
<1> HIDE DEF R
<1>3. \E x \in S : \A y \in S : <<y, x>> \notin R
  BY <1>1, WFMin
<1>4. PICK x \in S : \A y \in S : <<y, x>> \notin R
  BY <1>3
<1>5. ASSUME NEW y \in S PROVE x <= y
  <2>1. x \in Nat /\ y \in Nat /\ <<y, x>> \notin R
    BY <1>4
  <2>2. ~(y < x)
    BY <1>2, <2>1
  <2>3. QED
    BY <2>1, <2>2
<1>6. QED
  BY <1>5

LEMMA GreatestElement ==
  ASSUME NEW n \in Nat, NEW S, S \subseteq 1 .. n, S # {}
  PROVE  \E x \in S : \A y \in S : y <= x
<1>1. PICK T : T = {n - x : x \in S}
  OBVIOUS
<1>2. T \subseteq Nat /\ T # {}
  <2>1. \A x \in S : n - x \in Nat
    OBVIOUS
  <2>2. QED
    BY <1>1, <2>1
<1>3. PICK z \in T : \A y \in T : z <= y
  BY <1>2, LeastElement
<1>4. PICK x \in S : z = n - x
  BY <1>1, <1>3
<1>5. ASSUME NEW y \in S PROVE y <= x
  <2>1. n - x <= n - y
    BY <1>1, <1>3, <1>4
  <2>2. QED
    BY <2>1
<1>6. QED
  BY <1>5

(* Converting keeps values values. *)
LEMMA CoerceType ==
  ASSUME NEW v \in Value, NEW types \in Seq(STRING)
  PROVE  Coerce(v, types) \in Value
<1> DEFINE hits == {i \in DOMAIN types : Is("text", v) /\ Converted(v.text, types[i]) # {}}
           first == CHOOSE i \in hits : \A k \in hits : i <= k
           w == CHOOSE w \in Converted(v.text, types[first]) : TRUE
<1>1. Coerce(v, types) = IF hits = {} THEN v ELSE w
  BY DEF Coerce
<1>2. CASE hits # {}
  <2>1. hits \subseteq Nat
    OBVIOUS
  <2> HIDE DEF hits
  <2>2. \E i \in hits : \A k \in hits : i <= k
    BY <1>2, <2>1, LeastElement
  <2>3. first \in hits
    BY <2>2
  <2>4. Converted(v.text, types[first]) # {}
    BY <2>3 DEF hits
  <2> HIDE DEF first
  <2>5. w \in Converted(v.text, types[first])
    BY <2>4
  <2>6. QED
    BY <1>1, <1>2, <2>5, ConvertedType
<1>3. QED
  BY <1>1, <1>2

-----------------------------------------------------------------------------
(* Points.                                                                 *)

LEMMA ShareBound ==
  ASSUME NEW n \in Nat \ {0}, NEW k \in 0 .. n
  PROVE  /\ Share(n, k) \in 0 .. Points
         /\ n * Share(n, k) <= Points * k
         /\ Points * k < n * (Share(n, k) + 1)
<1>1. PICK z \in Int : z = Share(n, k)
  BY CustomTaskAssumption DEF CustomTaskAssumption, Share
<1>2. PICK p \in Nat : p = Points
  BY CustomTaskAssumption DEF CustomTaskAssumption
<1>3. p * k \in Nat /\ p * k <= p * n
  OBVIOUS
<1>4. n * z <= p * k /\ p * k < n * (z + 1)
  BY <1>1, <1>2, <1>3 DEF Share
<1>5. z <= p
  <2>1. SUFFICES ASSUME z >= p + 1 PROVE FALSE
    BY <1>1
  <2>2. n * z >= n * (p + 1)
    BY <1>1, <2>1
  <2>3. n * (p + 1) = p * n + n
    OBVIOUS
  <2>4. QED
    BY <1>3, <1>4, <2>2, <2>3
<1>6. z >= 0
  <2>1. SUFFICES ASSUME z + 1 <= 0 PROVE FALSE
    BY <1>1
  <2>2. n * (z + 1) <= 0
    BY <1>1, <2>1
  <2>3. QED
    BY <1>3, <1>4, <2>2
<1>7. QED
  BY <1>1, <1>2, <1>4, <1>5, <1>6

(* All of the parts earn all of the points, fewer earn less. *)
LEMMA ShareOfAll ==
  ASSUME NEW n \in Nat \ {0}, NEW k \in 0 .. n
  PROVE  /\ k = n => Share(n, k) = Points
         /\ k < n => Share(n, k) < Points \/ Points = 0
<1>1. PICK z \in Nat : z = Share(n, k) /\ z <= Points
  BY ShareBound, CustomTaskAssumption DEF CustomTaskAssumption
<1>2. PICK p \in Nat : p = Points
  BY CustomTaskAssumption DEF CustomTaskAssumption
<1>3. n * z <= p * k /\ p * k < n * (z + 1)
  BY <1>1, <1>2, ShareBound
<1>4. k = n => z = p
  <2>1. SUFFICES ASSUME k = n, z + 1 <= p PROVE FALSE
    BY <1>1, <1>2
  <2>2. n * (z + 1) <= n * p
    BY <2>1
  <2>3. QED
    BY <1>3, <2>1, <2>2
<1>5. k < n => z < p \/ p = 0
  <2>1. SUFFICES ASSUME k + 1 <= n, p > 0, z = p PROVE FALSE
    BY <1>1, <1>2
  <2>2. p * (k + 1) <= p * n
    BY <2>1
  <2>3. p * (k + 1) = p * k + p
    OBVIOUS
  <2>4. QED
    BY <1>3, <2>1, <2>2, <2>3
<1>6. QED
  BY <1>1, <1>2, <1>4, <1>5

(* More than half of the parts earn more than half of the points, once the
   points can be shared evenly. *)
LEMMA ShareOfMost ==
  ASSUME NEW n \in Nat \ {0}, NEW k \in 0 .. n, Points % n = 0, 2 * k > n
  PROVE  2 * Share(n, k) > Points \/ Points = 0
<1>1. PICK z \in Nat : z = Share(n, k)
  BY ShareBound
<1>2. PICK p \in Nat : p = Points
  BY CustomTaskAssumption DEF CustomTaskAssumption
<1>3. PICK q \in Nat : p = n * q
  <2>1. p = n * (p \div n) + (p % n) /\ p \div n \in Int /\ p % n = 0
    BY <1>2
  <2>2. PICK q \in Int : q = p \div n
    BY <2>1
  <2>3. p = n * q
    BY <2>1, <2>2
  <2>4. q >= 0
    <3>1. SUFFICES ASSUME q + 1 <= 0 PROVE FALSE
      BY <2>2
    <3>2. n * (q + 1) <= 0
      BY <3>1
    <3>3. n * (q + 1) = n * q + n
      OBVIOUS
    <3>4. QED
      BY <2>3, <3>2, <3>3
  <2>5. QED
    BY <2>3, <2>4
<1>4. p * k < n * (z + 1)
  BY <1>1, <1>2, ShareBound
<1>5. PICK m \in Nat : m = q * k
  OBVIOUS
<1>6. p * k = n * m
  BY <1>3, <1>5
<1>7. m <= z
  <2>1. SUFFICES ASSUME z + 1 <= m PROVE FALSE
    OBVIOUS
  <2>2. n * (z + 1) <= n * m
    BY <2>1
  <2>3. QED
    BY <1>4, <1>6, <2>2
<1>8. q > 0 => 2 * m > p
  <2>1. SUFFICES ASSUME q > 0 PROVE 2 * m > p
    OBVIOUS
  <2>2. q * (2 * k) >= q * (n + 1)
    OBVIOUS
  <2>3. q * (2 * k) = 2 * m /\ q * (n + 1) = p + q
    BY <1>3, <1>5
  <2>4. QED
    BY <2>1, <2>2, <2>3
<1>9. q = 0 => p = 0
  BY <1>3
<1>10. QED
  BY <1>1, <1>2, <1>7, <1>8, <1>9

(* Counting the elements of a list that have a property. *)
LEMMA CountBound ==
  ASSUME NEW n \in Nat, NEW S, S \subseteq 1 .. n
  PROVE  Cardinality(S) \in 0 .. n
<1>1. IsFiniteSet(1 .. n) /\ Cardinality(1 .. n) = n
  BY FS_Interval
<1>2. IsFiniteSet(S) /\ Cardinality(S) <= n
  BY <1>1, FS_Subset
<1>3. Cardinality(S) \in Nat
  BY <1>2, FS_CardinalityType
<1>4. QED
  BY <1>2, <1>3

-----------------------------------------------------------------------------
(* The actions.                                                            *)

LEMMA InitInv == Init => IInv
<1> SUFFICES ASSUME Init PROVE IInv
  OBVIOUS
<1>1. template \in Templates /\ ValidDefinition(template) /\ arguments \in Arguments
      /\ phase = "preparing" /\ parameters = <<>> /\ variables = <<>> /\ results = <<>>
      /\ result = [status |-> "none", earned |-> 0]
  BY DEF Init, NoResult
<1>2. template.commands \in Seq(Command)
  BY <1>1, CustomTaskAssumption DEF CustomTaskAssumption, IsTemplate
<1>3. Points \in Nat
  BY CustomTaskAssumption DEF CustomTaskAssumption
<1>4. results \in Seq(CommandResult) /\ DOMAIN results = {} /\ Len(results) = 0
  BY <1>1
<1>5. DOMAIN parameters = {} /\ DOMAIN variables = {}
  BY <1>1
<1>6. TypeOK
  <2>1. result \in [status : {"none", "passed", "failed", "error"}, earned : 0 .. Points]
    BY <1>1, <1>3
  <2>2. Len(results) <= Len(template.commands)
    BY <1>2, <1>4
  <2>3. QED
    BY <1>1, <1>4, <1>5, <2>1, <2>2 DEF TypeOK
<1>7. QED
  BY <1>1, <1>4, <1>6 DEF IInv, Scored, Latest, AllHold

(* A task that ends without being judged earns nothing. *)
LEMMA ErrorEnds ==
  ASSUME End("error", 0)
  PROVE  /\ Scored' /\ AllHold'
         /\ phase' = "done"
         /\ result' \in [status : {"none", "passed", "failed", "error"}, earned : 0 .. Points]
<1>1. phase' = "done" /\ result' = [status |-> "error", earned |-> 0]
  BY DEF End
<1>2. Points \in Nat
  BY CustomTaskAssumption DEF CustomTaskAssumption
<1>3. result'.status = "error" /\ result'.earned = 0
  BY <1>1
<1>4. [task |-> 1, status |-> "error", earned |-> 0] \in Grading!Outcomes(1, Points)
  BY DEF Grading!Outcomes
<1>5. QED
  BY <1>1, <1>2, <1>3, <1>4 DEF Scored, AllHold

(* What a step leaves alone stays the latest. *)
LEMMA LatestKept ==
  ASSUME Latest, UNCHANGED <<template, variables, results>>
  PROVE  Latest'
BY DEF Latest, ErrorTexts

LEMMA FieldKept ==
  ASSUME NEW f, UNCHANGED <<template, variables, results>>
  PROVE  FieldOf(f)' = FieldOf(f)
<1>1. template' = template /\ variables' = variables /\ results' = results
  OBVIOUS
<1>2. QED
  BY <1>1 DEF FieldOf, In, InCommands, CommandNames

LEMMA AllHoldKept ==
  ASSUME AllHold, UNCHANGED <<template, phase, variables, results, verdicts, result>>
  PROVE  AllHold'
<1>1. /\ template' = template /\ variables' = variables /\ results' = results
      /\ verdicts' = verdicts /\ phase' = phase /\ result' = result
  OBVIOUS
<1>2. SUFFICES ASSUME result.status = "passed", NEW i \in DOMAIN template.rules
      PROVE  Holds(template.rules[i].condition, FieldOf(template.rules[i].field)',
                   verdicts[i].expected)
  BY <1>1 DEF AllHold
<1>3. FieldOf(template.rules[i].field)' = FieldOf(template.rules[i].field)
  BY <1>1, FieldKept
<1>4. QED
  BY <1>2, <1>3 DEF AllHold

LEMMA NotPassed ==
  ASSUME IInv, phase # "done", UNCHANGED result
  PROVE  AllHold'
BY DEF IInv, AllHold

LEMMA PrepareInv == IInv /\ Prepare => IInv'
<1> SUFFICES ASSUME IInv, Prepare PROVE IInv'
  OBVIOUS
<1>1. UNCHANGED <<template, arguments, variables, results, verdicts>>
  BY DEF Prepare
<1>2. template \in Templates /\ arguments \in Arguments
  BY DEF IInv, TypeOK
<1>3. CASE End("error", 0) /\ UNCHANGED parameters
  BY <1>1, <1>3, ErrorEnds, LatestKept DEF IInv, TypeOK
<1>4. CASE /\ ParameterErrors(template.parameters, arguments) = {}
           /\ phase' \in {"connecting", "running"}
           /\ parameters' = Typed(template.parameters, arguments)
           /\ UNCHANGED result
  <2> DEFINE defs == template.parameters
             typed == Typed(defs, arguments)
  <2>1. DOMAIN typed = DOMAIN arguments
    BY DEF Typed
  <2>2. ASSUME NEW n \in DOMAIN arguments
        PROVE  /\ typed[n] \in Value
               /\ IF n \in DOMAIN defs THEN Fits(typed[n], defs[n]) ELSE typed[n] = arguments[n]
    <3>1. arguments[n] \in Value
      BY <1>2, CustomTaskAssumption DEF CustomTaskAssumption
    <3>2. \/ typed[n] = arguments[n]
          \/ n \in DOMAIN defs /\ typed[n] = Coerce(arguments[n], defs[n].types)
      BY DEF Typed
    <3>3. n \in DOMAIN defs => defs[n].types \in Seq(STRING)
      BY <1>2, CustomTaskAssumption DEF CustomTaskAssumption, IsTemplate
    <3>4. typed[n] \in Value
      BY <3>1, <3>2, <3>3, CoerceType
    <3>5. n \in DOMAIN defs => Fits(typed[n], defs[n])
      BY <1>4 DEF ParameterErrors
    <3>6. n \notin DOMAIN defs => typed[n] = arguments[n]
      BY DEF Typed
    <3>7. QED
      BY <3>4, <3>5, <3>6
  <2>3. \A n \in DOMAIN parameters' :
          /\ parameters'[n] \in Value
          /\ IF n \in DOMAIN template'.parameters
               THEN Fits(parameters'[n], template'.parameters[n])
               ELSE parameters'[n] = arguments'[n]
    BY <1>1, <1>4, <2>1, <2>2
  <2>4. TypeOK'
    BY <1>1, <1>4, <2>3 DEF IInv, TypeOK
  <2>5. QED
    BY <1>1, <1>4, <2>4, LatestKept, NotPassed DEF IInv, Scored, Prepare
<1>5. QED
  BY <1>3, <1>4 DEF Prepare

LEMMA ConnectInv == IInv /\ Connect => IInv'
<1> SUFFICES ASSUME IInv, Connect PROVE IInv'
  OBVIOUS
<1>1. UNCHANGED <<template, arguments, parameters, variables, results, verdicts>>
  BY DEF Connect
<1>2. CASE phase' = "running" /\ UNCHANGED result
  BY <1>1, <1>2, LatestKept, NotPassed DEF IInv, TypeOK, Scored, Connect
<1>3. CASE End("error", 0)
  BY <1>1, <1>3, ErrorEnds, LatestKept DEF IInv, TypeOK
<1>4. QED
  BY <1>2, <1>3 DEF Connect

(* Whatever a command returns, its value is one that rules can be applied to,
   and an error text when the command failed. *)
LEMMA ExecutedType ==
  ASSUME NEW c, c.action \in Actions
  PROVE  Executed(c) \subseteq Returnable
<1>1. \A v \in Value : Ok(v) \in Returnable
  BY DEF Ok, Returnable, CommandResult
<1>2. \A e \in Errors : Failed(e) \in Returnable
  BY ValueTypes, CustomTaskAssumption
  DEF CustomTaskAssumption, Failed, Returnable, CommandResult, ErrorTexts
<1>3. Answers \subseteq Returnable /\ Raised \subseteq Returnable
  <2>1. Raised \subseteq Returnable
    BY <1>2 DEF Raised
  <2>2. \A s \in Outputs : Ok(Txt(s)) \in Returnable
    BY <1>1, ValueTypes, CustomTaskAssumption DEF CustomTaskAssumption
  <2>3. QED
    BY <2>1, <2>2 DEF Answers
<1>4. Parse(c) \subseteq Returnable
  <2> DEFINE input == OrEmpty(Resolve(c.arg))
             found == Matches(c.pattern, input.text)
  <2>1. found \in Seq(STRING)
    BY MatchesType
  <2>2. Parse(c) = {Ok(Found(found))} \/ Parse(c) = Raised
    BY DEF Parse
  <2> HIDE DEF input, found
  <2>3. Ok(Found(found)) \in Returnable
    BY <1>1, <2>1, ValueTypes
  <2>4. QED
    BY <1>3, <2>2, <2>3
<1>5. CASE c.action = "netmiko_send_command"
  BY <1>3, <1>5 DEF Executed, SendCommand
<1>6. CASE c.action = "ping"
  BY <1>3, <1>6 DEF Executed, Ping
<1>7. CASE c.action = "parse_output"
  BY <1>4, <1>7 DEF Executed
<1>8. CASE c.action = "custom_script"
  BY <1>1, <1>8, ValueTypes DEF Executed
<1>9. QED
  BY <1>5, <1>6, <1>7, <1>8 DEF Actions

(* A longer list of results: those before, and one more. *)
IsAppended(longer, list, r) ==
  \E n \in Nat :
    /\ n = Len(list) /\ DOMAIN list = 1 .. n
    /\ longer \in Seq(CommandResult) /\ Len(longer) = n + 1 /\ DOMAIN longer = 1 .. n + 1
    /\ \A i \in 1 .. n : longer[i] = list[i]
    /\ longer[n + 1] = r
    /\ \A i \in 1 .. n + 1 : longer[i] \in CommandResult
    /\ \A i \in 1 .. n + 1 : i \in 1 .. n \/ i = n + 1

LEMMA ResultAppended ==
  ASSUME NEW list \in Seq(CommandResult), NEW r \in CommandResult
  PROVE  IsAppended(Append(list, r), list, r)
<1> DEFINE longer == Append(list, r)
<1>1. PICK n \in Nat : n = Len(list) /\ DOMAIN list = 1 .. n
  OBVIOUS
<1>2. longer \in Seq(CommandResult) /\ Len(longer) = n + 1 /\ DOMAIN longer = 1 .. n + 1
  BY <1>1
<1>3. (\A i \in 1 .. n : longer[i] = list[i]) /\ longer[n + 1] = r
  BY <1>1
<1>4. \A i \in 1 .. n + 1 : i \in 1 .. n \/ i = n + 1
  BY <1>1
<1>5. \A i \in 1 .. n + 1 : longer[i] \in CommandResult
  BY <1>2
<1> HIDE DEF longer
<1>6. IsAppended(longer, list, r)
  BY <1>1, <1>2, <1>3, <1>4, <1>5 DEF IsAppended
<1>7. QED
  BY <1>6 DEF longer

LEMMA RunCommandInv == IInv /\ RunCommand => IInv'
<1> SUFFICES ASSUME IInv, RunCommand PROVE IInv'
  OBVIOUS
<1> DEFINE c == template.commands[Len(results) + 1]
<1>1. /\ UNCHANGED <<template, arguments, phase, parameters, verdicts, result>>
      /\ Len(results) < Len(template.commands) /\ phase = "running"
  BY DEF RunCommand
<1>2. results \in Seq(CommandResult) /\ template \in Templates
  BY DEF IInv, TypeOK
<1>3. template.commands \in Seq(Command)
  BY <1>2, CustomTaskAssumption DEF CustomTaskAssumption, IsTemplate
<1>4. Len(results) + 1 \in DOMAIN template.commands
  BY <1>1, <1>2, <1>3
<1>5. c.action \in Actions
  BY <1>4 DEF IInv, ValidDefinition
<1>6. PICK r \in Executed(c) : results' = Append(results, r) /\ variables' = Register(c, r)
  BY DEF RunCommand
<1> HIDE DEF c
<1>7. r \in CommandResult
  BY <1>5, <1>6, ExecutedType DEF Returnable
<1>8. PICK n \in Nat :
        /\ n = Len(results) /\ DOMAIN results = 1 .. n
        /\ results' \in Seq(CommandResult) /\ Len(results') = n + 1 /\ DOMAIN results' = 1 .. n + 1
        /\ \A i \in 1 .. n : results'[i] = results[i]
        /\ results'[n + 1] = r
        /\ \A i \in 1 .. n + 1 : results'[i] \in CommandResult
        /\ \A i \in 1 .. n + 1 : i \in 1 .. n \/ i = n + 1
  <2>1. IsAppended(results', results, r)
    BY <1>2, <1>6, <1>7, ResultAppended
  <2>2. QED
    BY <2>1 DEF IsAppended
<1>9. Len(results') <= Len(template'.commands)
  BY <1>1, <1>2, <1>3, <1>8
<1>10. \/ c.register = "" /\ variables' = variables
       \/ c.register # "" /\ variables' = Registered(c.register, r.value)
  BY <1>6 DEF Register
<1>11. \A x \in DOMAIN variables' : variables'[x] \in Value
  <2>1. \A x \in DOMAIN variables : variables[x] \in Value
    BY DEF IInv, TypeOK
  <2>2. r.value \in Value
    BY <1>7 DEF CommandResult
  <2>3. QED
    BY <1>10, <2>1, <2>2 DEF Registered
<1>12. Latest'
  <2>1. \A k \in DOMAIN results' : results'[k].success \/ results'[k].value \in ErrorTexts
    BY <1>5, <1>6, <1>8, ExecutedType DEF IInv, Latest, Returnable
  <2>2. ASSUME NEW k \in DOMAIN results',
               template.commands[k].register # "",
               NEW x, x = template.commands[k].register
        PROVE  /\ x \in DOMAIN variables'
               /\ (\A l \in DOMAIN results' : l > k => template.commands[l].register # x)
                  => variables'[x] = results'[k].value
    <3>1. CASE k = n + 1
      <4>1. x = c.register
        BY <1>8, <2>2, <3>1 DEF c
      <4>2. QED
        BY <1>8, <1>10, <2>2, <3>1, <4>1 DEF Registered
    <3>2. CASE k \in 1 .. n
      <4>1. /\ x \in DOMAIN variables
            /\ (\A l \in DOMAIN results : l > k => template.commands[l].register # x)
               => variables[x] = results[k].value
        BY <1>8, <2>2, <3>2 DEF IInv, Latest
      <4>2. x \in DOMAIN variables'
        BY <1>10, <4>1 DEF Registered
      <4>3. ASSUME \A l \in DOMAIN results' : l > k => template.commands[l].register # x
            PROVE  variables'[x] = results'[k].value
        <5>1. \A l \in 1 .. n : l \in 1 .. n + 1
          BY <1>8
        <5>2. variables[x] = results[k].value
          BY <1>8, <4>1, <4>3, <5>1
        <5>3. n + 1 \in 1 .. n + 1 /\ n + 1 > k
          BY <1>8, <3>2
        <5>4. c.register # x
          BY <1>8, <4>3, <5>3 DEF c
        <5>5. variables'[x] = variables[x]
          BY <1>10, <4>1, <5>4 DEF Registered
        <5>6. QED
          BY <1>8, <3>2, <5>2, <5>5
      <4>4. QED
        BY <4>2, <4>3
    <3>3. QED
      BY <1>8, <3>1, <3>2
  <2>3. QED
    BY <1>1, <2>1, <2>2 DEF Latest, ErrorTexts
<1>13. TypeOK'
  <2>1. \A i \in DOMAIN results' : results'[i] \in [success : BOOLEAN, value : Value]
    BY <1>8 DEF CommandResult
  <2>2. QED
    BY <1>1, <1>9, <1>11, <2>1 DEF IInv, TypeOK
<1>14. QED
  BY <1>1, <1>8, <1>12, <1>13, NotPassed DEF IInv, Scored

(* The verdict: half of the commands are not enough, all of the rules are. *)
LEMMA JudgeInv == IInv /\ Judge => IInv'
<1> SUFFICES ASSUME IInv, Judge PROVE IInv'
  OBVIOUS
<1>1. /\ UNCHANGED <<template, arguments, parameters, variables, results>>
      /\ Len(results) = Len(template.commands)
      /\ verdicts' = [i \in DOMAIN template.rules |-> Verdict(template.rules[i])]
  BY DEF Judge
<1>2. results \in Seq(CommandResult) /\ template \in Templates /\ ValidDefinition(template)
  BY DEF IInv, TypeOK
<1>3. template.commands \in Seq(Command) /\ template.rules \in Seq(ValidationRule)
  BY <1>2, CustomTaskAssumption DEF CustomTaskAssumption, IsTemplate
<1>4. PICK n \in Nat : n = Len(template.rules) /\ DOMAIN template.rules = 1 .. n
  BY <1>3
<1>5. PICK m \in Nat \ {0} : m = Len(results) /\ DOMAIN results = 1 .. m
  <2>1. template.commands # <<>>
    BY <1>2 DEF ValidDefinition
  <2>2. Len(template.commands) \in Nat \ {0}
    BY <1>3, <2>1
  <2>3. QED
    BY <1>1, <1>2, <2>2
<1>6. PICK good : good = Cardinality({i \in DOMAIN results : results[i].success})
  OBVIOUS
<1>7. PICK held : held = Cardinality({i \in DOMAIN verdicts' : verdicts'[i].passed})
  OBVIOUS
<1>8. good \in 0 .. m
  BY <1>5, <1>6, CountBound
<1>9. held \in 0 .. n
  <2>1. DOMAIN verdicts' = 1 .. n
    BY <1>1, <1>4
  <2>2. QED
    BY <1>4, <1>7, <2>1, CountBound
<1>10. PICK status, earned :
         /\ phase' = "done" /\ result' = [status |-> status, earned |-> earned]
         /\ n = 0 => /\ status = IF MostSucceed(good, m) THEN "passed" ELSE "failed"
                     /\ earned = Share(m, good)
         /\ n # 0 => /\ status = IF held = n THEN "passed" ELSE "failed"
                     /\ earned = Share(n, held)
  BY <1>4, <1>5, <1>6, <1>7 DEF Judge, End
<1>11. Points \in Nat
  BY CustomTaskAssumption DEF CustomTaskAssumption
<1>12. /\ earned \in 0 .. Points
       /\ \/ status = "passed" /\ (2 * earned > Points \/ Points = 0)
          \/ status = "failed" /\ (earned < Points \/ Points = 0)
  <2>1. CASE n = 0
    <3>1. Points % m = 0
      <4>1. template.rules = <<>>
        <5>1. \A s \in Seq(ValidationRule) : Len(s) = 0 => s = <<>>
          OBVIOUS
        <5>2. QED
          BY <1>3, <1>4, <2>1, <5>1
      <4>2. template.commands # <<>>
        BY <1>2 DEF ValidDefinition
      <4>3. QED
        BY <1>1, <1>2, <1>5, <4>1, <4>2, CustomTaskAssumption DEF CustomTaskAssumption
    <3>2. earned \in 0 .. Points
      BY <1>5, <1>8, <1>10, <2>1, ShareBound
    <3>3. CASE 2 * good > m
      <4>1. 2 * earned > Points \/ Points = 0
        BY <1>5, <1>8, <1>10, <2>1, <3>1, <3>3, ShareOfMost
      <4>2. QED
        BY <1>10, <2>1, <3>2, <3>3, <4>1 DEF MostSucceed
    <3>4. CASE ~(2 * good > m)
      <4>1. good < m
        BY <1>5, <1>8, <3>4
      <4>2. earned < Points \/ Points = 0
        BY <1>5, <1>8, <1>10, <2>1, <4>1, ShareOfAll
      <4>3. QED
        BY <1>10, <2>1, <3>2, <3>4, <4>2 DEF MostSucceed
    <3>5. QED
      BY <3>3, <3>4
  <2>2. CASE n # 0
    <3>1. earned \in 0 .. Points
      BY <1>9, <1>10, <2>2, ShareBound
    <3>2. CASE held = n
      <4>1. earned = Points
        BY <1>9, <1>10, <2>2, <3>2, ShareOfAll
      <4>2. QED
        BY <1>10, <1>11, <2>2, <3>1, <3>2, <4>1
    <3>3. CASE held # n
      <4>1. held < n
        BY <1>9, <3>3
      <4>2. earned < Points \/ Points = 0
        BY <1>9, <1>10, <2>2, <4>1, ShareOfAll
      <4>3. QED
        BY <1>10, <2>2, <3>1, <3>3, <4>2
    <3>4. QED
      BY <3>2, <3>3
  <2>3. QED
    BY <2>1, <2>2
<1>13. [task |-> 1, status |-> status, earned |-> earned] \in Grading!Outcomes(1, Points)
  BY <1>12 DEF Grading!Outcomes
<1>14. result'.status = status /\ result'.earned = earned
  BY <1>10
<1>15. result' \in [status : {"none", "passed", "failed", "error"}, earned : 0 .. Points]
  BY <1>10, <1>12
<1>16. TypeOK'
  BY <1>1, <1>10, <1>15 DEF IInv, TypeOK
<1>17. AllHold'
  <2>1. SUFFICES ASSUME status = "passed", NEW i \in DOMAIN template.rules
        PROVE  Holds(template.rules[i].condition, FieldOf(template.rules[i].field)',
                     verdicts'[i].expected)
    BY <1>1, <1>10, <1>14 DEF AllHold
  <2>2. n # 0 /\ held = n
    BY <1>4, <1>10, <2>1
  <2>3. \A k \in 1 .. n : verdicts'[k].passed
    <3>1. PICK S : S = {k \in DOMAIN verdicts' : verdicts'[k].passed}
      OBVIOUS
    <3>2. S \subseteq 1 .. n /\ Cardinality(S) = n
      BY <1>1, <1>4, <1>7, <2>2, <3>1
    <3>3. IsFiniteSet(1 .. n) /\ Cardinality(1 .. n) = n
      BY FS_Interval
    <3>4. S = 1 .. n
      BY <3>2, <3>3, FS_Subset
    <3>5. QED
      BY <3>1, <3>4
  <2>4. /\ verdicts'[i].passed
        /\ verdicts'[i] = Verdict(template.rules[i])
    BY <1>1, <1>4, <2>3
  <2>5. FieldOf(template.rules[i].field)' = FieldOf(template.rules[i].field)
    BY <1>1, FieldKept
  <2>6. /\ Verdict(template.rules[i]).passed
           <=> Holds(template.rules[i].condition, FieldOf(template.rules[i].field),
                     Expected(template.rules[i]))
        /\ Verdict(template.rules[i]).expected = Expected(template.rules[i])
    BY DEF Verdict
  <2>7. QED
    BY <2>4, <2>5, <2>6
<1>18. QED
  BY <1>1, <1>13, <1>14, <1>16, <1>17, LatestKept DEF IInv, Scored

LEMMA NextInv == IInv /\ [Next]_vars => IInv'
<1> SUFFICES ASSUME IInv, [Next]_vars PROVE IInv'
  OBVIOUS
<1>1. CASE Prepare
  BY <1>1, PrepareInv
<1>2. CASE Connect
  BY <1>2, ConnectInv
<1>3. CASE RunCommand
  BY <1>3, RunCommandInv
<1>4. CASE Judge
  BY <1>4, JudgeInv
<1>5. CASE UNCHANGED vars
  <2>1. UNCHANGED <<template, arguments, phase, parameters, variables, results, result>>
    BY <1>5 DEF vars
  <2>2. TypeOK' /\ Scored'
    BY <2>1 DEF IInv, TypeOK, Scored
  <2>3. Latest'
    BY <2>1, LatestKept DEF IInv
  <2>4. AllHold'
    <3>1. UNCHANGED <<template, phase, variables, results, verdicts, result>>
      BY <1>5 DEF vars
    <3>2. QED
      BY <3>1, AllHoldKept DEF IInv
  <2>5. QED
    BY <2>1, <2>2, <2>3, <2>4 DEF IInv
<1>6. QED
  BY <1>1, <1>2, <1>3, <1>4, <1>5 DEF Next, Done

LEMMA Inductive == Spec => []IInv
BY InitInv, NextInv, PTL DEF Spec

-----------------------------------------------------------------------------
(* Whatever a job passes along and a device answers, the parameters that
   commands and rules see have their declared types, every registered value is
   one a rule can be applied to, and the points are within those of the task. *)
THEOREM TypeCorrect == Spec => []TypeOK
<1>1. IInv => TypeOK
  BY DEF IInv
<1>2. QED
  BY <1>1, Inductive, PTL

(* The result of a custom task is one the scoring of groups and jobs reckons
   with: a pass earns more than half of the points, a fail less than all of
   them, an error none; where exactly half of the commands succeeded, nothing is
   claimed. *)
THEOREM ResultsFitScoring == Spec => []ResultIsOutcome
<1>1. IInv => ResultIsOutcome
  BY DEF IInv, Scored, ResultIsOutcome
<1>2. QED
  BY <1>1, Inductive, PTL

(* What a rule finds in a register that holds the text of an error. *)
LEMMA FieldOfFailed ==
  ASSUME NEW path, path[1] \in DOMAIN variables, variables[path[1]] \in ErrorTexts
  PROVE  FieldOf(path) \in ErrorTexts \cup {None}
<1>1. PICK e : variables[path[1]] = Txt(e) /\ Txt(e) \in ErrorTexts
  BY DEF ErrorTexts
<1>2. Attribute(Txt(e), Tail(path)) = Txt(e) \/ Attribute(Txt(e), Tail(path)) = Missing
  BY DEF Attribute, Is, Txt
<1>3. FieldOf(path) = IF Attribute(Txt(e), Tail(path)) = Missing THEN None
                      ELSE Attribute(Txt(e), Tail(path))
  BY <1>1 DEF FieldOf
<1>4. QED
  BY <1>1, <1>2, <1>3

(* A task passes on what its device answered last: when a command failed, no
   rule about its register holds on the answer of an earlier one, unless the
   text of the error itself, or the lack of a value, is what the rule asks for. *)
THEOREM PassOnLatestAnswer == Spec => []PassRestsOnLatest
<1>1. IInv => PassRestsOnLatest
  <2> SUFFICES ASSUME IInv, result.status = "passed", NEW i \in DOMAIN template.rules,
                      NEW x, x = template.rules[i].field[1],
                      NEW S, S = Registering(x), S # {},
                      \A a \in ErrorTexts \cup {None} :
                        ~Holds(template.rules[i].condition, a, verdicts[i].expected),
                      NEW last, last = CHOOSE k \in S : \A l \in S : l <= k,
                      ~results[last].success
               PROVE  FALSE
    BY DEF PassRestsOnLatest
  <2>1. /\ results \in Seq(CommandResult) /\ template.commands \in Seq(Command)
        /\ Len(results) = Len(template.commands)
    BY CustomTaskAssumption DEF CustomTaskAssumption, IsTemplate, IInv, TypeOK, AllHold
  <2>2. PICK n \in Nat : /\ DOMAIN results = 1 .. n
                         /\ DOMAIN template.commands = 1 .. n
    BY <2>1
  <2>3. /\ S \subseteq 1 .. n
        /\ \A k \in 1 .. n : k \in S <=> template.commands[k].register = x /\ x # ""
    BY <2>2 DEF Registering
  <2>4. last \in S /\ \A l \in S : l <= last
    <3>1. \E k \in S : \A l \in S : l <= k
      BY <2>3, GreatestElement
    <3>2. QED
      BY <3>1
  <2>5. last \in DOMAIN results /\ template.commands[last].register = x /\ x # ""
    BY <2>2, <2>3, <2>4
  <2>6. ASSUME NEW l \in DOMAIN results, l > last
        PROVE  template.commands[l].register # x
    <3>1. l \in 1 .. n /\ last \in 1 .. n
      BY <2>2, <2>3, <2>4
    <3>2. l \notin S
      BY <2>4, <2>6, <3>1
    <3>3. QED
      BY <2>3, <2>5, <3>1, <3>2
  <2>7. x \in DOMAIN variables /\ variables[x] = results[last].value
    BY <2>5, <2>6 DEF IInv, Latest
  <2>8. variables[x] \in ErrorTexts
    BY <2>5, <2>7 DEF IInv, Latest
  <2>9. FieldOf(template.rules[i].field) \in ErrorTexts \cup {None}
    BY <2>7, <2>8, FieldOfFailed
  <2>10. Holds(template.rules[i].condition, FieldOf(template.rules[i].field),
               verdicts[i].expected)
    BY DEF IInv, AllHold
  <2>11. QED
    BY <2>9, <2>10
<1>2. QED
  BY <1>1, Inductive, PTL

=============================================================================
