--------------------------- MODULE MCFlagsResolver ---------------------------
(***************************************************************************)
(* Families of inputs: single rules against every context, rollouts with   *)
(* every hash, lists of rules, and the states of the registry.             *)
(***************************************************************************)
EXTENDS FlagsResolver

Subjects == {Str(0), Str(1), Str(2), Num(1), Num(2)}
Salted == {"name", "own"}
Hashes == {[x \in Salted \X Subjects |-> IF x[1] = "name" THEN n ELSE o] :
               n \in 0..1, o \in 0..1}
OneHash == [x \in Salted \X Subjects |-> x[2].v % 2]

Clause(attr, op, value) ==
    [kind |-> "clause", attr |-> attr, op |-> op, value |-> value, list |-> "none", match |-> "exact"]
Bucket(attr, salt, op, value) ==
    [kind |-> "bucket", attr |-> attr, salt |-> salt, op |-> op, value |-> value]
Not(e) == [kind |-> "not", sub |-> e]
And(s) == [kind |-> "and", subs |-> s]
Or(s) == [kind |-> "or", subs |-> s]

Clauses ==
    {Clause(<<"plan">>, op, b) :
        op \in {"eq", "neq", "gt", "lt", "gte", "lte", "contains", "not_contains", "matches", "other"},
        b \in {Str(0), Str(1), Str(2), Num(1), Bool(1), Null}}
    \cup {[Clause(<<"plan">>, op, Null) EXCEPT !.list = list, !.match = match] :
        op \in {"in_list", "not_in_list"}, list \in {"none", "beta"}, match \in {"exact", "substring"}}
    \cup {Clause(<<"plan", "tier">>, "neq", Num(1)), Clause(<<"key">>, "eq", Str(1))}
BucketRules ==
    {Bucket(<<"key">>, "name", op, n) : op \in {"lt", "lte", "gt", "gte"}, n \in 0..2}
    \cup {Bucket(attr, "own", "lt", 1) : attr \in {<<"targetingKey">>, <<"plan">>}}
Malformed == [kind |-> "other"]
Few == {Clause(<<"plan">>, "neq", Str(1)), Bucket(<<"key">>, "name", "lt", 1), Malformed}
Nested ==
    {And(<<a, b>>) : a, b \in Few} \cup {Or(<<a, b>>) : a, b \in Few}
    \cup {And(<<>>), Or(<<>>), And(<<Or(<<>>), Malformed>>)}
Expressions == LET flat == Clauses \cup BucketRules \cup Nested \cup {Malformed}
               IN  flat \cup {Not(e) : e \in flat}

Keys == {Str(0), Str(1), Num(1)}
Plans == {Str(1), Str(2), Num(1), Num(2), Bool(1), ListOf(0), Null,
          Object("tier" :> Num(2)), Object(Empty)}
Attributes == {Object("key" :> Null), Object("key" :> Str(1)), Object("plan" :> Num(2)), Str(1)}
Member(name, values) == {Empty} \cup {name :> v : v \in values}
Contexts == {k @@ t @@ p @@ a : k \in Member("key", Keys), t \in Member("targetingKey", {Str(2)}),
                                p \in Member("plan", Plans), a \in Member("attributes", Attributes)}
FewContexts == {"plan" :> Str(1), "key" :> Str(1), "key" :> Str(2) @@ "plan" :> Str(2)}

Literal(v) == [type |-> "literal", value |-> v]
Rule(id, e, source) == [id |-> id, expression |-> e, source |-> source]
Flag(rules) == [type |-> "bool", default |-> Bool(0), rules |-> rules]

Rules(id) == {Rule(id, e, s) : e \in {Clause(<<"plan">>, "eq", Str(2)), Bucket(<<"key">>, "name", "lt", 1),
                                      Not(Malformed), Malformed},
                               s \in {Literal(Bool(1)), Literal(Bool(0)), Literal(Null), [type |-> "sandbox"]}}
RuleLists == {<<>>} \cup {<<a, b>> : a \in Rules(1), b \in Rules(2)}
             \cup {<<a, b, c>> : a \in Rules(1), b \in Rules(2), c \in Rules(3)}

Fresh == [stale |-> FALSE, has |-> TRUE]
Family(flags, contexts, hashes) ==
    [flags |-> flags, registries |-> {Fresh}, expected |-> {"bool"}, fallbacks |-> {Null},
     contexts |-> contexts, hashes |-> hashes]

SingleRules == Family({Flag(<<Rule(1, e, Literal(Bool(1)))>>) : e \in Expressions}, Contexts, {OneHash})
Rollouts == Family({Flag(<<Rule(1, e, Literal(Bool(1)))>>) : e \in BucketRules}, {"key" :> Str(1)}, Hashes)
ManyRules == Family({Flag(r) : r \in RuleLists}, FewContexts, {OneHash})
Registries == [Family({Flag(<<Rule(1, Not(Malformed), Literal(Bool(1)))>>)}, {Empty}, {OneHash})
                 EXCEPT !.registries = [stale: BOOLEAN, has: BOOLEAN],
                        !.expected = {"any", "bool", "string", "number", "json"},
                        !.fallbacks = {Null, Bool(1)}]

\* Every value an attribute has, and every member of an object.
MCFlagValues ==
    LET outer == Keys \cup Plans \cup Attributes \cup Subjects
    IN  outer \cup UNION {{o.members[n] : n \in DOMAIN o.members} :
                             o \in {v \in outer : v.type = "object"}}
MCFlagFamilies == {SingleRules, Rollouts, ManyRules, Registries}
=============================================================================
