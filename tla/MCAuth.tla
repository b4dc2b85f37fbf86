------------------------------- MODULE MCAuth -------------------------------
(* Two users, two sources, two group values; policies and configurations of  *)
(* each kind, some of which are refused.                                     *)
EXTENDS Auth, TLC

Line(s, source, v) == [subject |-> s, source |-> source, value |-> v]

MCConfigurations ==
    {<<Line("ada", "dms", "A1")>>,
     <<Line("ada", "dms", "A1"), Line("bob", "dms", "B1"), Line("ada", "tax", "A2")>>,
     <<Line("ada", "dms", "A1"), Line("ada", "dms", "B1")>>,
     <<Line("ada", "dms", "")>>}

Mapped == [v1 |-> "partners", v2 |-> "clerks"]

Asks == [shape |-> "provider-call", claimed |-> FALSE, mapping |-> Mapped, max |-> 2,
         administrative |-> {"partners"}]
Reads == [Asks EXCEPT !.shape = "names", !.claimed = TRUE]

MCAsks == {Asks}

MCPolicies ==
    {Asks, Reads, [Reads EXCEPT !.max = 1], [Reads EXCEPT !.shape = "guessed"],
     [Reads EXCEPT !.mapping = [v1 |-> "clerks", v2 |-> "clerks"], !.administrative = {}],
     [Asks EXCEPT !.claimed = TRUE], [Asks EXCEPT !.max = 0],
     [Reads EXCEPT !.mapping = [v1 |-> "clerks"]]}

Comes == [subject |-> "ada", groups |-> FALSE, claim |-> "present", values |-> <<"v1", "v2">>,
          asker |-> TRUE]

MCComes == {Comes}
MCOneLine == {<<Line("ada", "dms", "A1")>>}

MCRequests ==
    {Comes, [Comes EXCEPT !.subject = ""], [Comes EXCEPT !.groups = TRUE],
     [Comes EXCEPT !.claim = "absent"], [Comes EXCEPT !.claim = "unreadable"],
     [Comes EXCEPT !.subject = "bob", !.values = <<"v1", "v1">>],
     [Comes EXCEPT !.values = <<"v2", "v2", "v1">>],
     [Comes EXCEPT !.values = <<"v3">>], [Comes EXCEPT !.values = <<"v3", "v1">>],
     [Comes EXCEPT !.asker = FALSE]}

Entry(type, value, effect) == [type |-> type, value |-> value, effect |-> effect]

MCPermissionSets ==
    {<<Entry("user", v, "allow")>> : v \in {"A1", "A2", "B1", "ada", "bob", ""}}
    \cup {<<Entry("group", g, "allow")>> : g \in {"partners", "clerks"}}
    \cup {<<Entry("user", "A1", "allow"), Entry("group", "clerks", "deny")>>}

MCNobodyWrites == {}
Symmetry == Permutations(Holders) \cup Permutations(Arrays)

MCWrites == {{"partners"}, {}}

=============================================================================
