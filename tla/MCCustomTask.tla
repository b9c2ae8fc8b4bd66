---------------------------- MODULE MCCustomTask ----------------------------
(* Templates that send, ping, parse and refer to what was registered before;
   every condition and several types of expectation. *)
EXTENDS CustomTask

Cmd(name, action, register, arg) ==
  [name |-> name, action |-> action, register |-> register, arg |-> arg, pattern |-> "up"]
Rule(field, condition, value) ==
  [field |-> field, condition |-> condition, value |-> value, ref |-> <<>>]
RuleRef(field, condition, ref) ==
  [field |-> field, condition |-> condition, value |-> None, ref |-> ref]

Show == Cmd("show", "netmiko_send_command", "out", <<"cmd">>)
Odd == Cmd("odd", "netmiko_send_command", "out", <<"vlan">>)
Again == Cmd("again", "netmiko_send_command", "out", <<"out">>)
Scan == Cmd("scan", "parse_output", "seen", <<"out">>)
Broken == [Scan EXCEPT !.pattern = "("]
Target == Cmd("target", "ping", "reply", <<"seen", "first_match">>)
Script == Cmd("script", "custom_script", "", <<>>)
Config == Cmd("config", "netmiko_send_config", "", <<>>)

Must(types) == [types |-> types, required |-> TRUE]
Maybe(types) == [types |-> types, required |-> FALSE]
Declared == [vlan |-> Must(<<"boolean", "integer">>), host |-> Maybe(<<"ip_address">>)]

Conditions ==
  {"equals", "not_equals", "contains", "greater_than", "less_than", "regex", "exists"}
Values == {Txt("up"), Txt("1"), Num(1), Bool(TRUE), Txt("no")}
Fields == {<<"out">>, <<"seen", "match_count">>, <<"seen", "first_match">>, <<"scan", "success">>,
           <<"seen", "matches">>, <<"show">>, <<"again", "result">>, <<"again", "stdout">>,
           <<"commands", "show", "error">>, <<"variables", "out">>, <<"nowhere", "x">>}

Template(commands, rules) == [commands |-> commands, rules |-> rules, parameters |-> Declared]

MCTemplates ==
  {Template(cs, <<>>) : cs \in {<<>>, <<Show>>, <<Show, Again>>, <<Show, Scan, Target, Script>>,
                                <<Scan, Target>>, <<Odd, Scan>>, <<Show, Config>>, <<Show, Show>>,
                                <<Show, Again, Odd>>, <<Show, Broken>>}}
  \cup {Template(<<Show, Again, Scan>>, <<Rule(f, c, v)>>) :
           f \in Fields, c \in Conditions, v \in Values}
  \cup {Template(<<Show, Again, Scan>>, <<RuleRef(<<"out">>, c, r), Rule(<<"seen", "match_count">>, "exists", Num(0))>>) :
           c \in Conditions, r \in {<<"vlan">>, <<"out">>, <<"nobody">>}}

MCArguments == {[vlan |-> Txt("1")], [vlan |-> Txt("7"), host |-> Txt("")],
                [vlan |-> Txt("up")], [host |-> Txt("1")], [vlan |-> Num(1), host |-> Txt("10.0.0.1"), cmd |-> Txt("up")]}

Texts == {"up", "upup", "1", "2", "7", "no", "True", "False", "None", "timed out", "{}"}
MCFind == [p \in Texts |-> [s \in Texts |->
  CASE p = s                      -> <<p>>
    [] p = "up" /\ s = "upup"     -> <<"up", "up">>
    [] OTHER                      -> <<>>]]
MCFormatted == [ip_address |-> {"10.0.0.1"},
                target_ip |-> {"up", "upup", "1", "None", "10.0.0.1"}]
=============================================================================
