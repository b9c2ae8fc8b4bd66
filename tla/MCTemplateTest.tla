--------------------------- MODULE MCTemplateTest ---------------------------
(* Three requests on two devices, two threads: one test of two devices, one of
   a single device, and one of the payloads that go wrong. *)
EXTENDS TemplateTest

CONSTANTS d1, d2, g1, g2

MCDevice == {d1, d2}
MCGroupId == {g1, g2}

Grp(kind, pts, continue) ==
  [kind |-> kind, pts |-> pts, continue |-> continue, rescue |-> <<>>, cleanup |-> <<>>]
T(d, g) == [dev |-> d, grp |-> g, pts |-> 1]
Groups(gs, c) == [g \in gs |-> c]
Must == Grp("all_or_nothing", 2, FALSE)

Pair == [tasks |-> <<T(d1, NoGroup), T(d2, g1)>>, groups |-> Groups({g1}, Must)]
Single == [tasks |-> <<T(d1, g1), T(d1, g2)>>,
           groups |-> Groups({g1, g2}, Grp("proportional", 1, TRUE))]
Ungrouped == [Single EXCEPT !.groups = Groups({}, Must)]
HalfGrouped == [Single EXCEPT !.groups = Groups({g1}, Must)]
Worthless == [Single EXCEPT !.groups = Groups({g1, g2}, Grp("proportional", 0, TRUE))]
Unwritten == [Single EXCEPT !.tasks = <<>>]

MCJobs == {Pair, Single, Ungrouped, HalfGrouped, Worthless, Unwritten}

P(job, name, draft, only) ==
  [job |-> job, template |-> [t \in TaskIds(job) |-> name], devices |-> {d1, d2},
   draft |-> draft, only |-> only, large |-> FALSE]
Odd == {P(Ungrouped, "vlan", "vlan", FALSE), P(HalfGrouped, "vlan", "vlan", FALSE),
        P(Worthless, "ping", "vlan", FALSE), P(Single, "dhcp", "vlan", TRUE),
        P(Unwritten, "ping", "broken", FALSE),
        [P(Single, "vlan", "vlan", FALSE) EXCEPT !.devices = {d2}],
        [P(Unwritten, "ping", "vlan", FALSE) EXCEPT !.large = TRUE]}
MCPayload ==
  [r \in Request |-> CASE r = 1 -> {P(Pair, "vlan", "vlan", FALSE)}
                       [] r = 2 -> {P(Single, "ping", "vlan", FALSE)}
                       [] OTHER -> Odd]
=============================================================================
