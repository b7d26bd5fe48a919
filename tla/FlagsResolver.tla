---------------------------- MODULE FlagsResolver ----------------------------
(***************************************************************************)
(* How a flag is decided (flags/resolver.ts, clause.ts, expression.ts,     *)
(* expression-sync.ts, bucket.ts, context.ts) and read (the evaluate()     *)
(* methods of flags/client.ts).  The code has the algorithm twice: once    *)
(* with attributes and lists behind asynchronous resolvers and clauses     *)
(* that may be null, and once synchronously, which is what reads use.      *)
(*                                                                         *)
(* A value is a record with its type.  Strings are the prefixes of "a(":   *)
(* Str(0) is empty, Str(1) is "a", and Str(2), "a(", is not a regular      *)
(* expression.  So a string includes another when it is as long.  A path   *)
(* of nested attributes ("plan.tier") is a sequence of names.  The hash of *)
(* a bucket is any function from salt and subject to 0..Buckets - 1, the   *)
(* ratio in units of 1 / Buckets.  Values of rules are compared as JSON    *)
(* text: equal values here stand for equal text.                           *)
(*                                                                         *)
(* Operator_Fault is Operator with one plausible bug; no specification     *)
(* uses it.                                                                *)
(***************************************************************************)
EXTENDS Naturals, Sequences, SequencesExt

CONSTANTS
    FlagValues,       \* the values that attributes have, those nested in others included
    FlagExpressions,  \* the expressions of rules, those nested in others included
    FlagFamilies      \* what is evaluated: records of the sets that each input is taken from

ASSUME FlagValuesAssumption ==
    \A v \in FlagValues : v.type = "object" =>
        \A n \in DOMAIN v.members : v.members[n] \in FlagValues
ASSUME FlagExpressionsAssumption ==
    \A e \in FlagExpressions :
        /\ e.kind = "not" => e.sub \in FlagExpressions
        /\ e.kind \in {"and", "or"} => \A i \in DOMAIN e.subs : e.subs[i] \in FlagExpressions
ASSUME FlagFamiliesAssumption ==
    \A f \in FlagFamilies : \A flag \in f.flags :
        /\ flag = [s \in {"type", "default", "rules"} |-> flag[s]]
        /\ DOMAIN flag.rules = 1..Len(flag.rules) /\ Len(flag.rules) \in Nat
        /\ \A i \in DOMAIN flag.rules : flag.rules[i].expression \in FlagExpressions

VARIABLES
    input,    \* the flag, the registry's state, the read, its context, the hash
    read,     \* what the read returned, or Pending
    resolved  \* what evaluateFlagRuleset() resolved to, or Pending

flagVars == <<input, read, resolved>>

-----------------------------------------------------------------------------
(* Values and contexts.                                                    *)

Null == [type |-> "null", v |-> 0]    \* null or undefined
Str(n) == [type |-> "string", v |-> n]
Num(n) == [type |-> "number", v |-> n]
Bool(n) == [type |-> "boolean", v |-> n]
ListOf(n) == [type |-> "array", v |-> n]
Object(members) == [type |-> "object", members |-> members]

AreNumbers(a, b) == a.type = "number" /\ b.type = "number"
AreStrings(a, b) == a.type = "string" /\ b.type = "string"
Includes(a, b) == b.v <= a.v
IsPattern(a) == a.v < 2

Empty == <<>>
Get(f, x) == IF x \in DOMAIN f THEN f[x] ELSE Null

\* { ...f, ...g }
Spread(f, g) == [n \in DOMAIN f \cup DOMAIN g |-> IF n \in DOMAIN g THEN g[n] ELSE f[n]]

\* `key' wins over `targetingKey' when it is a string, even an empty one; the
\* members of `attributes' win over the other members of the context.
NormalizeEvaluationContext(raw) ==
    LET key == IF Get(raw, "key").type = "string" THEN Get(raw, "key") ELSE Get(raw, "targetingKey")
        rest == [n \in DOMAIN raw \ {"key", "targetingKey", "attributes"} |-> raw[n]]
        given == Get(raw, "attributes")
        attributes == Spread(rest, IF given.type = "object" THEN given.members ELSE Empty)
    IN  Spread(IF key.type = "string" THEN [targetingKey |-> key] ELSE Empty,
               IF DOMAIN attributes # {} THEN [attributes |-> Object(attributes)] ELSE Empty)

\* The leaves of an object, as <<path, leaf>>; an object without members has none.
FlattenAttributes(members) ==
    LET leaves[value \in FlagValues, path \in Seq(STRING)] ==
            IF value.type = "object"
            THEN UNION {leaves[value.members[n], Append(path, n)] : n \in DOMAIN value.members}
            ELSE {<<path, value>>}
    IN  UNION {leaves[members[n], <<n>>] : n \in DOMAIN members}

FlattenEvaluationContext(context) ==
    LET key == Get(context, "targetingKey")
        leaves == IF "attributes" \in DOMAIN context
                  THEN FlattenAttributes(context["attributes"].members) ELSE {}
    IN  Spread([p \in IF key = Null THEN {} ELSE {<<"targetingKey">>, <<"key">>} |-> key],
               [p \in {leaf[1] : leaf \in leaves} |-> (CHOOSE leaf \in leaves : leaf[1] = p)[2]])

\* Both evaluators are given no lists.
Items(list) == {}

InList(a, clause) ==
    IF clause.match = "substring"
    THEN \E item \in Items(clause.list) : Includes(a, item)
    ELSE a \in Items(clause.list)

SignalBucketRatio(salt, subject, hash) == hash[<<salt, subject>>]

\* The ratio against the threshold; the salt is the expression's own, or the
\* name of the flag.
InBucket(expr, subject, hash) ==
    LET ratio == SignalBucketRatio(expr.salt, subject, hash) IN
    CASE expr.op = "lt"  -> ratio < expr.value
      [] expr.op = "lte" -> ratio <= expr.value
      [] expr.op = "gt"  -> ratio > expr.value
      [] expr.op = "gte" -> ratio >= expr.value

-----------------------------------------------------------------------------
(* The asynchronous evaluator.  A clause's result is the set of its truth  *)
(* values: empty for null.                                                 *)

Unless(bad, holds) == IF bad THEN {} ELSE {holds}

EvaluateClauseNullable(clause, a) ==
    LET op == clause.op
        b == clause.value
        noNumbers == ~AreNumbers(a, b)
        noStrings == ~AreStrings(a, b)
        noList == a.type # "string" \/ clause.list = "none"
    IN  IF a = Null THEN {} ELSE
        CASE op = "eq"            -> {a = b}
          [] op = "neq"           -> {a # b}
          [] op = "gt"            -> Unless(noNumbers, a.v > b.v)
          [] op = "lt"            -> Unless(noNumbers, a.v < b.v)
          [] op = "gte"           -> Unless(noNumbers, a.v >= b.v)
          [] op = "lte"           -> Unless(noNumbers, a.v <= b.v)
          [] op = "contains"      -> Unless(noStrings, Includes(a, b))
          [] op = "not_contains"  -> Unless(noStrings, ~Includes(a, b))
          [] op = "matches"       -> Unless(noStrings, IsPattern(b) /\ Includes(a, b))
          [] op = "in_list"       -> Unless(noList, InList(a, clause))
          [] op = "not_in_list"   -> Unless(noList, ~InList(a, clause))
          [] OTHER                -> {FALSE}

EvaluateClause_Fault(clause, a) == EvaluateClauseNullable(clause, a) # {FALSE}

EvaluateClause(clause, a) == EvaluateClauseNullable(clause, a) = {TRUE}

EvaluateSignalExpression(expr, flat, hash) ==
    LET holds[e \in FlagExpressions] ==
            CASE e.kind = "clause" -> EvaluateClause(e, Get(flat, e.attr))
              [] e.kind = "bucket" ->
                    LET subject == Get(flat, e.attr) IN
                    subject.type \in {"string", "number"} /\ InBucket(e, subject, hash)
              [] e.kind = "and" -> \A i \in DOMAIN e.subs : holds[e.subs[i]]
              [] e.kind = "or"  -> \E i \in DOMAIN e.subs : holds[e.subs[i]]
              [] e.kind = "not" -> ~holds[e.sub]
              [] OTHER -> FALSE
    IN  holds[expr]

-----------------------------------------------------------------------------
(* The synchronous evaluator.                                              *)

EvaluateClauseSync(clause, a) ==
    LET op == clause.op
        b == clause.value
    IN  /\ a # Null
        /\ \/ op = "eq" /\ a = b
           \/ op = "neq" /\ a # b
           \/ AreNumbers(a, b) /\ \/ op = "gt" /\ a.v > b.v
                                  \/ op = "lt" /\ a.v < b.v
                                  \/ op = "gte" /\ a.v >= b.v
                                  \/ op = "lte" /\ a.v <= b.v
           \/ AreStrings(a, b) /\ \/ op = "contains" /\ Includes(a, b)
                                  \/ op = "not_contains" /\ ~Includes(a, b)
                                  \/ op = "matches" /\ IsPattern(b) /\ Includes(a, b)
           \/ a.type = "string" /\ clause.list # "none" /\
                \/ op = "in_list" /\ InList(a, clause)
                \/ op = "not_in_list" /\ ~InList(a, clause)

EvaluateSignalExpressionSync(expr, flat, hash) ==
    LET holds[e \in FlagExpressions] ==
            CASE e.kind = "clause" -> EvaluateClauseSync(e, Get(flat, e.attr))
              [] e.kind = "bucket" ->
                    LET subject == Get(flat, e.attr) IN
                    subject.type \in {"string", "number"} /\ InBucket(e, subject, hash)
              [] e.kind = "and" -> \A i \in DOMAIN e.subs : holds[e.subs[i]]
              [] e.kind = "or"  -> \E i \in DOMAIN e.subs : holds[e.subs[i]]
              [] e.kind = "not" -> ~holds[e.sub]
              [] OTHER -> FALSE
    IN  holds[expr]

-----------------------------------------------------------------------------
(* Rules: every rule is evaluated, and the values of those that match must *)
(* agree.                                                                  *)

\* A literal's value; sandbox sources have none.
SourceValue(source) == IF source.type = "literal" THEN source.value ELSE Null

ValuesAgree_Fault(entries, given) == entries[Max(given)].value = entries[Min(given)].value

\* Those that were given a value, against the first of them.
ValuesAgree(entries, given) == \A i \in given : entries[i].value = entries[Min(given)].value

\* A bucket nested in another expression does not count, here and for SPLIT.
RequiresBucketingKey(rules) ==
    \E i \in DOMAIN rules :
        /\ rules[i].expression.kind = "bucket"
        /\ rules[i].expression.attr \in {<<"key">>, <<"targetingKey">>}

HasBucketingKey(context) ==
    LET attributes == Get(context, "attributes")
        key == IF attributes = Null THEN Null ELSE Get(attributes.members, "key")
    IN  \/ Get(context, "targetingKey") \notin {Null, Str(0)}
        \/ key.type = "string" /\ key # Str(0)

EvaluationReasonFromTrace(trace, rules) ==
    LET matchedIds == {entry.ruleId : entry \in {e \in Range(trace.matchedRules) :
                                                    e.matched /\ e.value # Null}}
    IN  CASE trace.outcome = "no_match" -> "NO_MATCH"
          [] trace.outcome = "disagreement" -> "CONFLICT"
          [] OTHER -> IF \E i \in DOMAIN rules : /\ rules[i].id \in matchedIds
                                                 /\ rules[i].expression.kind = "bucket"
                      THEN "SPLIT" ELSE "TARGETING_MATCH"

\* The loop over the rules, given which of them match.
ResolveSignal(flag, matched) ==
    LET entries == [i \in DOMAIN flag.rules |->
            [ruleId |-> flag.rules[i].id, matched |-> matched[i],
             value |-> IF matched[i] THEN SourceValue(flag.rules[i].source) ELSE Null]]
        given == {i \in DOMAIN entries : entries[i].value # Null}
        outcome == CASE given = {} -> "no_match"
                     [] given # {} /\ ~ValuesAgree(entries, given) -> "disagreement"
                     [] OTHER -> "agreed"
    IN  [matchedRules |-> entries, outcome |-> outcome,
         value |-> IF outcome = "agreed" THEN entries[Min(given)].value ELSE flag.default]

Evaluation(value, reason, steps) == [value |-> value, reason |-> reason, trace |-> steps]

EvaluateFlagRuleset(flag, raw, hash) ==
    LET context == NormalizeEvaluationContext(raw)
        flat == FlattenEvaluationContext(context)
        trace == ResolveSignal(flag, [i \in DOMAIN flag.rules |->
                     EvaluateSignalExpression(flag.rules[i].expression, flat, hash)])
    IN  IF RequiresBucketingKey(flag.rules) /\ ~HasBucketingKey(context)
        THEN Evaluation(flag.default, "NO_KEY", <<>>)
        ELSE Evaluation(trace.value, EvaluationReasonFromTrace(trace, flag.rules), trace.matchedRules)

EvaluateFlagRulesetSync(flag, raw, hash) ==
    LET context == NormalizeEvaluationContext(raw)
        flat == FlattenEvaluationContext(context)
        trace == ResolveSignal(flag, [i \in DOMAIN flag.rules |->
                     EvaluateSignalExpressionSync(flag.rules[i].expression, flat, hash)])
    IN  IF RequiresBucketingKey(flag.rules) /\ ~HasBucketingKey(context)
        THEN Evaluation(flag.default, "NO_KEY", <<>>)
        ELSE Evaluation(trace.value, EvaluationReasonFromTrace(trace, flag.rules), trace.matchedRules)

-----------------------------------------------------------------------------
(* Reads.                                                                  *)

\* FlagsRegistry.evaluate(), which normalises the context once more than needed.
RegistryEvaluate(registry, expected, flag, raw, hash, fallback) ==
    CASE registry.stale -> Evaluation(fallback, "STALE", <<>>)
      [] ~registry.stale /\ ~registry.has -> Evaluation(fallback, "NOT_FOUND", <<>>)
      [] ~registry.stale /\ registry.has /\ expected \notin {"any", flag.type} ->
            Evaluation(fallback, "TYPE_MISMATCH", <<>>)
      [] OTHER -> EvaluateFlagRulesetSync(flag, NormalizeEvaluationContext(raw), hash)

\* The zero that stands in for a fallback that was not given.
Zero(expected) ==
    CASE expected = "bool" -> Bool(0)
      [] expected = "string" -> Str(0)
      [] expected = "number" -> Num(0)
      [] expected = "json" -> Object(Empty)
      [] OTHER -> Null

-----------------------------------------------------------------------------
(* The specification: one flag, read and resolved in either order.         *)

Pending == Evaluation(Null, "PENDING", <<>>)

FlagsInit ==
    /\ \E f \in FlagFamilies :
           input \in [flag: f.flags, registry: f.registries, expected: f.expected,
                     fallback: f.fallbacks, context: f.contexts, hash: f.hashes]
    /\ read = Pending
    /\ resolved = Pending

\* flags.get(), evaluateBoolean() and the other reads, once they may read.
Read ==
    /\ read = Pending
    /\ LET zero == Zero(input.expected)
           fallback == IF input.fallback = Null THEN zero ELSE input.fallback
       IN  read' = RegistryEvaluate(input.registry, input.expected, input.flag,
                                    input.context, input.hash, fallback)
    /\ UNCHANGED <<input, resolved>>

\* evaluateFlagRuleset() on the same flag and context.
Resolve ==
    /\ resolved = Pending
    /\ resolved' = EvaluateFlagRuleset(input.flag, input.context, input.hash)
    /\ UNCHANGED <<input, read>>

FlagsNext == Read \/ Resolve

FlagsSpec == FlagsInit /\ [][FlagsNext]_flagVars

-----------------------------------------------------------------------------
(* Properties.                                                             *)

\* The read reached the rules of the flag.
Decided == read.reason \notin {"PENDING", "STALE", "NOT_FOUND", "TYPE_MISMATCH"}

\* The two evaluators are one function: a read that reaches the rules returns
\* the value, the reason and the trace that evaluateFlagRuleset() resolves to,
\* though clauses are null in one and false in the other, and though the read
\* normalises its context twice.
EvaluatorsAgree == Decided /\ resolved # Pending => read = resolved

\* Every matching rule counts the same: in whatever order the server lists the
\* rules of a flag, its value and its reason are the same.
RuleOrderIrrelevant ==
    Decided =>
        \A order \in Bijection(DOMAIN input.flag.rules, DOMAIN input.flag.rules) :
            LET flag == [input.flag EXCEPT !.rules = [i \in DOMAIN @ |-> @[order[i]]]]
                again == EvaluateFlagRulesetSync(flag, input.context, input.hash)
            IN  again.value = read.value /\ again.reason = read.reason
=============================================================================
