----------------------------- MODULE CustomTask -----------------------------
(***************************************************************************)
(* CustomTaskExecutor: a template's parameters are prepared, its commands  *)
(* run one after the other on a device, what they return is registered     *)
(* under names that later commands and the validation rules refer to, and  *)
(* the rules decide on status and points.                                  *)
(*                                                                         *)
(* What a device answers is open.  Values keep the type they have in       *)
(* Python as far as a rule can tell; texts are names, and what a regular   *)
(* expression or a substring finds in a text is a parameter.               *)
(***************************************************************************)
EXTENDS Integers, Sequences, FiniteSets, TLC

CONSTANTS
  Templates,  \* the templates considered, valid or not
  Arguments,  \* parameters a job may pass along
  Outputs,    \* texts a device may answer with
  Errors,     \* texts of exceptions
  Find,       \* Find[p][s]: what pattern p finds in text s
  Formatted,  \* the texts of each textual datatype (ip_address, cidr, ...)
              \* and those validate_target_ip accepts
  Points      \* points of the task, scaled so that shares are integers

Grading == INSTANCE GradingJobs WITH Device <- {}, GroupId <- {}, NoGroup <- 0, Jobs <- {}

-----------------------------------------------------------------------------
(* Values: a text, a number, a boolean, None, the dictionary of the regex
   parser, a list of texts, or another dictionary, of which the keys count. *)
Txt(s) == [text |-> s]
Num(n) == [num |-> n]
Bool(b) == [bool |-> b]
None == [none |-> TRUE]
Found(ms) == [matches |-> ms]
ListOf(ms) == [list |-> ms]
Dict(keys) == [dict |-> keys]
Missing == [missing |-> TRUE]

(* What a custom script returns, a placeholder in the code. *)
ScriptResult == Dict({"message", "command", "parameters"})

Value == [text : STRING] \cup [num : Int] \cup [bool : BOOLEAN] \cup {None, ScriptResult}
         \cup [matches : Seq(STRING)] \cup [list : Seq(STRING)]

Is(kind, v) == kind \in DOMAIN v

(* Python's str() and lower(), as far as the texts of a model need it. *)
Str(v) ==
  CASE Is("text", v) -> v.text
    [] Is("num", v)  -> ToString(v.num)
    [] Is("bool", v) -> IF v.bool THEN "True" ELSE "False"
    [] Is("none", v) -> "None"
    [] OTHER         -> "{}"
Lower(s) == CASE s = "True" -> "true" [] s = "False" -> "false" [] s = "None" -> "none" [] OTHER -> s

Matches(p, s) == IF p \in DOMAIN Find /\ s \in DOMAIN Find[p] THEN Find[p][s] ELSE <<>>

(* The numbers float() makes of a value: one, or none.  Bound: texts of numbers
   have one digit. *)
Float(v) ==
  CASE Is("num", v)  -> {v.num}
    [] Is("bool", v) -> {IF v.bool THEN 1 ELSE 0}
    [] Is("text", v) -> {n \in 0 .. 9 : ToString(n) = v.text}
    [] OTHER         -> {}

-----------------------------------------------------------------------------
(* _validate_definition and _validate_commands; a register is "" for none. *)
Actions == {"netmiko_send_command", "ping", "parse_output", "custom_script"}
ValidDefinition(d) ==
  /\ d.commands # <<>>
  /\ \A i \in DOMAIN d.commands :
       /\ d.commands[i].action \in Actions
       /\ \A k \in 1 .. i - 1 : d.commands[k].name # d.commands[i].name

(* What the YAML of a template is read into; paths are dotted names. *)
Command == [name : STRING, action : STRING, register : STRING, arg : Seq(STRING), pattern : STRING]
ValidationRule ==
  [field : Seq(STRING), condition : STRING, value : Value, ref : Seq(STRING)]
IsTemplate(d) ==
  /\ d.commands \in Seq(Command) /\ d.rules \in Seq(ValidationRule)
  /\ \A n \in DOMAIN d.parameters :
       d.parameters[n] \in [types : Seq(STRING), required : BOOLEAN]

(* Points are floats in the code; here a command's share of them is whole. *)
ASSUME CustomTaskAssumption ==
  /\ \A d \in Templates : IsTemplate(d)
  /\ \A args \in Arguments : \A n \in DOMAIN args : args[n] \in Value
  /\ Outputs \subseteq STRING /\ Errors \subseteq STRING
  /\ \A p \in DOMAIN Find : \A s \in DOMAIN Find[p] : Find[p][s] \in Seq(STRING)
  /\ Points \in Nat
  /\ \A d \in Templates : d.rules = <<>> /\ d.commands # <<>> => Points % Len(d.commands) = 0

(* _coerce_value: of a union's types, the first that converts the text. *)
Converted(s, type) ==
  CASE type = "boolean" /\ Lower(s) \in {"true", "yes", "1"} -> {Bool(TRUE)}
    [] type = "boolean" /\ Lower(s) \in {"false", "no", "0"} -> {Bool(FALSE)}
    [] type \in {"integer", "float"} -> {Num(n) : n \in Float(Txt(s))}
    [] OTHER -> {}
Coerce(v, types) ==
  LET hits == {i \in DOMAIN types : Is("text", v) /\ Converted(v.text, types[i]) # {}}
  IN  IF hits = {} THEN v
      ELSE LET i == CHOOSE i \in hits : \A k \in hits : i <= k
           IN  CHOOSE w \in Converted(v.text, types[i]) : TRUE

(* _validate_type; a datatype nobody knows accepts everything. *)
OfType(v, type) ==
  CASE type = "string"                -> Is("text", v)
    [] type \in {"integer", "float"}  -> Is("num", v)
    [] type = "boolean"               -> Is("bool", v)
    [] type \in DOMAIN Formatted      -> Is("text", v) /\ v.text \in Formatted[type]
    [] OTHER                          -> TRUE
Fits(v, def) ==
  \/ ~def.required /\ v \in {None, Txt("")}
  \/ \E i \in DOMAIN def.types : OfType(v, def.types[i])

(* prepare_parameters: what is declared is converted, the rest passed on. *)
Typed(defs, args) ==
  [n \in DOMAIN args |->
     IF n \in DOMAIN defs /\ (defs[n].required \/ args[n] \notin {None, Txt("")})
       THEN Coerce(args[n], defs[n].types) ELSE args[n]]

(* Defect: only missing parameters are an error. *)
MissingOnly(defs, args) == {n \in DOMAIN defs : n \notin DOMAIN args /\ defs[n].required}

(* The errors prepare_parameters returns: missing or of a wrong type. *)
ParameterErrors(defs, args) ==
  {n \in DOMAIN defs : IF n \in DOMAIN args THEN ~Fits(Typed(defs, args)[n], defs[n])
                                            ELSE defs[n].required}

-----------------------------------------------------------------------------
VARIABLES
  template,   \* the CustomTaskDefinition
  arguments,  \* what the job passes along
  phase,
  parameters, \* context.parameters
  variables,  \* context.variables, by register
  results,    \* command_results
  verdicts,   \* validation_results
  result      \* status and points, as in a TestResult

vars == <<template, arguments, phase, parameters, variables, results, verdicts, result>>

NoResult == [status |-> "none", earned |-> 0]

Init ==
  /\ template \in {d \in Templates : ValidDefinition(d)}
  /\ arguments \in Arguments
  /\ phase = "preparing"
  /\ parameters = <<>>
  /\ variables = <<>>
  /\ results = <<>>
  /\ verdicts = <<>>
  /\ result = NoResult

End(status, earned) ==
  /\ phase' = "done"
  /\ result' = [status |-> status, earned |-> earned]

(* Parameters are converted and checked; an error ends the task. *)
Prepare ==
  /\ phase = "preparing"
  /\ IF ParameterErrors(template.parameters, arguments) # {}
       THEN End("error", 0) /\ UNCHANGED parameters
       ELSE /\ phase' = IF \E i \in DOMAIN template.commands :
                             template.commands[i].action = "netmiko_send_command"
                          THEN "connecting" ELSE "running"
            /\ parameters' = Typed(template.parameters, arguments)
            /\ UNCHANGED result
  /\ UNCHANGED <<template, arguments, variables, results, verdicts>>

(* custom_task_connection opens the connection, or raises. *)
Connect ==
  /\ phase = "connecting"
  /\ \/ phase' = "running" /\ UNCHANGED result
     \/ End("error", 0)
  /\ UNCHANGED <<template, arguments, parameters, variables, results, verdicts>>

(* What a dotted path leads to from a value, and from a table of values.
   Bound: of the values only the dictionary of the parser has parts. *)
Parts == {"matches", "match_count", "first_match"}
Part(v, name) ==
  CASE name = "matches"     -> ListOf(v.matches)
    [] name = "match_count" -> Num(Len(v.matches))
    [] name = "first_match" -> IF v.matches = <<>> THEN None ELSE Txt(v.matches[1])
Attribute(v, path) ==
  IF path = <<>> THEN v
  ELSE IF Is("matches", v) /\ Len(path) = 1 /\ path[1] \in Parts THEN Part(v, path[1])
  ELSE Missing
In(table, path) ==
  IF path = <<>> THEN Dict(DOMAIN table)
  ELSE IF path[1] \in DOMAIN table THEN Attribute(table[path[1]], Tail(path))
  ELSE Missing

(* The render context: variables hide parameters, and both have a name. *)
Lookup(path) ==
  IF path[1] = "variables" THEN In(variables, Tail(path))
  ELSE IF path[1] = "parameters" THEN In(parameters, Tail(path))
  ELSE In(IF path[1] \in DOMAIN variables THEN variables ELSE parameters, path)

(* _render_template_string: unresolved placeholders leave nothing. *)
Render(path) == IF Lookup(path) = Missing THEN Missing ELSE Txt(Str(Lookup(path)))

(* _resolve_parameters for a value that is one placeholder: the value itself,
   or its text when it is None. *)
Resolve(path) == IF Lookup(path) \in {None, Missing} THEN Render(path) ELSE Lookup(path)

OrEmpty(v) == IF v = Missing THEN Txt("") ELSE v

Ok(v) == [success |-> TRUE, value |-> v]
Failed(e) == [success |-> FALSE, value |-> Txt(e)]

(* The device answers, or an exception is raised. *)
Raised == {Failed(e) : e \in Errors}
Answers == {Ok(Txt(s)) : s \in Outputs} \cup Raised

(* _execute_parse_command with the regex parser, which parses nothing but texts
   and wants a pattern, one that is a regular expression. *)
IsPattern(p) == p # "" /\ p \in DOMAIN Find
Parse(c) ==
  LET input == OrEmpty(Resolve(c.arg))
  IN  IF Is("text", input) /\ IsPattern(c.pattern)
        THEN {Ok(Found(Matches(c.pattern, input.text)))} ELSE Raised

(* A command whose placeholder is unresolved is sent empty; one that is no
   text cannot be sent. *)
SendCommand(c) == IF Is("text", OrEmpty(Resolve(c.arg))) THEN Answers ELSE Raised

(* validate_target_ip refuses what is no address and no host name. *)
IsTarget(v) == Is("text", v) /\ v.text \in Formatted["target_ip"]
Ping(c) == IF IsTarget(OrEmpty(Resolve(c.arg))) THEN Answers ELSE Raised

(* What _execute_command may return. *)
Executed(c) ==
  CASE c.action = "netmiko_send_command" -> SendCommand(c)
    [] c.action = "ping"                 -> Ping(c)
    [] c.action = "parse_output"         -> Parse(c)
    [] c.action = "custom_script"        -> {Ok(ScriptResult)}

Registered(x, v) ==
  [y \in DOMAIN variables \cup {x} |-> IF y = x THEN v ELSE variables[y]]

(* Defect: a failed command leaves its register as it was. *)
RegisterSuccess(c, r) ==
  IF c.register = "" \/ ~r.success THEN variables ELSE Registered(c.register, r.value)

(* The result is registered; of a failed command, its stderr. *)
Register(c, r) == IF c.register = "" THEN variables ELSE Registered(c.register, r.value)

(* One round of the command loop.  A failed command does not end it. *)
RunCommand ==
  /\ phase = "running"
  /\ Len(results) < Len(template.commands)
  /\ LET c == template.commands[Len(results) + 1]
     IN  \E r \in Executed(c) :
           /\ results' = Append(results, r)
           /\ variables' = Register(c, r)
  /\ UNCHANGED <<template, arguments, phase, parameters, verdicts, result>>

-----------------------------------------------------------------------------
(* The record of a command that was executed; a failed one has no result. *)
CommandRecord(c, r) ==
  [command_name   |-> Txt(c.name),
   command_action |-> Txt(c.action),
   success        |-> Bool(r.success),
   result         |-> IF r.success THEN r.value ELSE None,
   stdout         |-> Txt(IF r.success /\ r.value # None THEN Str(r.value) ELSE ""),
   stderr         |-> IF r.success THEN Txt("") ELSE r.value,
   error          |-> IF r.success THEN None ELSE r.value]
CommandNames == {template.commands[i].name : i \in DOMAIN template.commands}
InCommands(path) ==
  IF path = <<>> THEN Dict(CommandNames)
  ELSE IF path[1] \notin CommandNames THEN Missing
  ELSE LET i == CHOOSE k \in DOMAIN template.commands : template.commands[k].name = path[1]
       IN  In(CommandRecord(template.commands[i], results[i]), Tail(path))

(* _prepare_validation_data and _extract_field_value: a register, or the record
   of the command that bears the name, or either of them by its full name. *)
FieldOf(path) ==
  LET v == IF path[1] \in DOMAIN variables THEN Attribute(variables[path[1]], Tail(path))
           ELSE IF path[1] \in CommandNames THEN InCommands(path)
           ELSE IF path[1] = "variables" THEN In(variables, Tail(path))
           ELSE IF path[1] = "commands" THEN InCommands(Tail(path))
           ELSE None
  IN  IF v = Missing THEN None ELSE v

(* _apply_condition *)
AsText(v) == IF Is("num", v) THEN Txt(Str(v)) ELSE v
SameText(a, e) == Lower(Str(a)) = Lower(Str(e))
SomeBool(a, e) == Is("bool", a) \/ Is("bool", e)
Equals(a, e) == IF SomeBool(a, e) THEN SameText(a, e) ELSE AsText(a) = e
NotEquals(a, e) == IF SomeBool(a, e) THEN ~SameText(a, e) ELSE a # e
Contains(a, e) ==
  \/ Is("text", a) /\ Matches(Str(e), a.text) # <<>>
  \/ Is("matches", a) /\ e \in {Txt(n) : n \in Parts}
  \/ Is("dict", a) /\ e \in {Txt(n) : n \in a.dict}
  \/ Is("list", a) /\ \E i \in DOMAIN a.list : e = Txt(a.list[i])
  \/ (Is("num", a) \/ Is("bool", a)) /\ Str(a) = Str(e)
Greater(a, e) == \E x \in Float(a), y \in Float(e) : x > y
Present(a) == a \notin {None, Txt("")}
Exists(a, e) ==
  CASE Is("bool", e) -> Present(a) = e.bool
    [] Is("text", e) -> \/ Lower(e.text) \in {"true", "yes", "1"} /\ Present(a)
                        \/ Lower(e.text) \in {"false", "no", "0"} /\ ~Present(a)
    [] OTHER         -> Present(a)
Holds(condition, a, e) ==
  CASE condition = "equals"       -> Equals(a, e)
    [] condition = "not_equals"   -> NotEquals(a, e)
    [] condition = "contains"     -> Contains(a, e)
    [] condition = "greater_than" -> Greater(a, e)
    [] condition = "less_than"    -> Greater(e, a)
    [] condition = "regex"        -> Matches(Str(e), Str(a)) # <<>>
    [] condition = "exists"       -> Exists(a, e)

(* _resolve_validation_rule: an expectation that is a placeholder is rendered;
   unresolved, it stays as it is written. *)
Expected(rule) ==
  IF rule.ref = <<>> THEN rule.value
  ELSE IF Render(rule.ref) = Missing THEN Txt("{{}}") ELSE Render(rule.ref)

Verdict(rule) ==
  LET a == FieldOf(rule.field)
      e == Expected(rule)
  IN  [actual |-> a, expected |-> e, passed |-> Holds(rule.condition, a, e)]

Share(n, k) == (Points * k) \div n

(* Defect: half of an odd number of commands is rounded down. *)
HalfRoundedDown(k, n) == k >= n \div 2

MostSucceed(k, n) == 2 * k > n

(* The rules are applied and the task is scored: without rules by the share of
   commands that succeeded, otherwise by the share of rules that hold. *)
Judge ==
  /\ phase = "running"
  /\ Len(results) = Len(template.commands)
  /\ verdicts' = [i \in DOMAIN template.rules |-> Verdict(template.rules[i])]
  /\ LET good == Cardinality({i \in DOMAIN results : results[i].success})
         held == Cardinality({i \in DOMAIN verdicts' : verdicts'[i].passed})
         n == Len(template.rules)
     IN  IF n = 0
           THEN End(IF MostSucceed(good, Len(results)) THEN "passed" ELSE "failed",
                    Share(Len(results), good))
           ELSE End(IF held = n THEN "passed" ELSE "failed", Share(n, held))
  /\ UNCHANGED <<template, arguments, parameters, variables, results>>

Done == phase = "done" /\ UNCHANGED vars

Next == Prepare \/ Connect \/ RunCommand \/ Judge \/ Done

Spec == Init /\ [][Next]_vars

-----------------------------------------------------------------------------
(* The parameters commands and rules see have their declared types, whatever
   texts the job passed: nothing undeclared is converted. *)
TypeOK ==
  /\ template \in Templates /\ arguments \in Arguments
  /\ phase \in {"preparing", "connecting", "running", "done"}
  /\ \A n \in DOMAIN parameters :
       /\ parameters[n] \in Value
       /\ IF n \in DOMAIN template.parameters THEN Fits(parameters[n], template.parameters[n])
                                               ELSE parameters[n] = arguments[n]
  /\ \A x \in DOMAIN variables : variables[x] \in Value
  /\ \A i \in DOMAIN results : results[i] \in [success : BOOLEAN, value : Value]
  /\ Len(results) <= Len(template.commands)
  /\ result \in [status : {"none", "passed", "failed", "error"}, earned : 0 .. Points]

(* A task without rules of whose commands exactly half succeeded. *)
AtHalf ==
  /\ template.rules = <<>> /\ results # <<>>
  /\ 2 * Cardinality({i \in DOMAIN results : results[i].success}) = Len(results)

(* Whatever the commands return and the rules say, the task's result is one
   that the scoring of groups and jobs reckons with (GradingJobs, Outcomes):
   a pass earns more than half of the points, a fail less than all of them, an
   error none.  Of a task of which exactly half succeeded nothing is said: the
   code fails it (custom_task_executor.py:412, > 0.5), the comment on that line,
   "At least half commands succeeded", would let it pass. *)
ResultIsOutcome ==
  phase = "done" /\ ~AtHalf =>
    [task |-> 1, status |-> result.status, earned |-> result.earned]
      \in Grading!Outcomes(1, Points)

Registering(x) == {i \in DOMAIN template.commands : template.commands[i].register = x /\ x # ""}
ErrorTexts == {Txt(e) : e \in Errors}

(* A pass rests on what the device answered last: a rule about a register that
   neither an error text nor the lack of a value would satisfy can hold only if
   the last command with that register succeeded, however often earlier ones
   did.  (A failed command leaves its error text in the register; exists and
   not_equals accept it, and so does a pattern that is found in it.) *)
PassRestsOnLatest ==
  result.status = "passed" =>
    \A i \in DOMAIN template.rules :
      LET rule == template.rules[i]
          last == CHOOSE k \in Registering(rule.field[1]) :
                    \A l \in Registering(rule.field[1]) : l <= k
      IN  /\ Registering(rule.field[1]) # {}
          /\ \A a \in ErrorTexts \cup {None} : ~Holds(rule.condition, a, verdicts[i].expected)
          => results[last].success

=============================================================================
