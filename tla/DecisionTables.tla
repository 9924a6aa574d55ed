---------------------------- MODULE DecisionTables ----------------------------
(***************************************************************************)
(* dmn/dmn.go: the hit policy of a decision table combines the rules that  *)
(* match.  The loop over the rules is a state machine, one step per rule.  *)
(* The expressions are already evaluated: inputs has the values of the     *)
(* input columns; of a rule, ins counts its input cells, match is what     *)
(* ruleMatches says of them and out has the values of its output cells.    *)
(* values has the allowed values of every output column.                   *)
(***************************************************************************)
EXTENDS ExprValues, Integers, Sequences, FiniteSets, FiniteSetsExt

CONSTANTS
    Tables,         \* decisions: id, policy, agg, inputs, cols, values, rules
    Text(_)         \* expr.Stringify

IsSeq(s) == Len(s) \in Nat /\ DOMAIN s = 1..Len(s)

ASSUME TablesAssumption ==
    \A d \in Tables :
        /\ d.cols \in Nat /\ IsSeq(d.inputs) /\ IsSeq(d.rules)
        /\ DOMAIN d.values = 1..d.cols /\ \A c \in 1..d.cols : IsSeq(d.values[c])
        /\ \A i \in DOMAIN d.rules :
              /\ d.rules[i].match \in {Bool(TRUE), Bool(FALSE), Error}
              /\ IsSeq(d.rules[i].out)
              /\ \A c \in DOMAIN d.rules[i].out : d.rules[i].out[c].n \in Int

VARIABLES
    table,      \* the decision that is evaluated
    phase,      \* "new", "registered", "refused", "looping" or "done"
    rule,       \* the rule that comes next
    matches,    \* the outputs of the rules that matched
    result      \* what Evaluate returned

vars == <<table, phase, rule, matches, result>>

------------------------------------------------------------------------------
\* Decision.Validate
Validate(d) ==
    /\ d.id # ""
    /\ d.policy \in {"UNIQUE", "FIRST", "ANY", "PRIORITY", "COLLECT", ""}
    /\ d.inputs # <<>> /\ d.cols > 0
    /\ \A i \in DOMAIN d.rules :
          d.rules[i].ins = Len(d.inputs) /\ Len(d.rules[i].out) = d.cols
    /\ d.policy = "PRIORITY" => \A c \in 1..d.cols : d.values[c] # <<>>

\* The methods of a decision d.
Policy(d) == IF d.policy = "" THEN "UNIQUE" ELSE d.policy

\* scalarize: the value of a single column, otherwise all of them.
Scalarize(d, m) == IF d.cols = 1 THEN m[1] ELSE List(m)

\* priorityRank of the first column's value
Rank(d, m) ==
    LET allowed == d.values[1]
        at == {i \in DOMAIN allowed : Text(allowed[i]) = Text(m[1])}
    IN  IF at = {} THEN Len(allowed) + 1 ELSE Min(at)

\* Mutant of Best: of two with the same rank the later one.
BestLast(d, ms) ==
    LET best[i \in 0..Len(ms)] ==
            IF i = 0 THEN ms[1]
            ELSE IF Rank(d, ms[i]) <= Rank(d, best[i - 1]) THEN ms[i] ELSE best[i - 1]
    IN  best[Len(ms)]

\* The best of the matches ms, one after the other.
Best(d, ms) ==
    LET best[i \in 0..Len(ms)] ==
            IF i = 0 THEN ms[1]
            ELSE IF Rank(d, ms[i]) < Rank(d, best[i - 1]) THEN ms[i] ELSE best[i - 1]
    IN  best[Len(ms)]

Agree(d, ms) ==
    \A i \in DOMAIN ms : \A c \in 1..d.cols : Text(ms[i][c]) = Text(ms[1][c])

\* collect: the count, a fold over one numeric column, or the list.
Aggregate(agg, acc, f, first) ==
    CASE agg = "SUM" -> acc + f
      [] agg = "MIN" -> IF first \/ f < acc THEN f ELSE acc
      [] OTHER -> IF first \/ f > acc THEN f ELSE acc

Folded(d, ms) ==
    LET acc[i \in 0..Len(ms)] ==
            IF i = 0 THEN 0 ELSE Aggregate(d.agg, acc[i - 1], ms[i][1].n, i = 1)
    IN  acc[Len(ms)]

Collect(d, ms) ==
    CASE d.agg = "COUNT" -> Num(Len(ms))
      [] d.agg = "" -> List([i \in DOMAIN ms |-> Scalarize(d, ms[i])])
      [] OTHER -> IF /\ d.cols = 1
                     /\ \A i \in DOMAIN ms : ms[i][1].t = "num"
                     /\ d.agg \in {"SUM", "MIN", "MAX"}
                    THEN Num(Folded(d, ms)) ELSE Error

\* Evaluate after its loop.
Hit(d, ms) ==
    IF ms = <<>> THEN Nil ELSE
    CASE Policy(d) = "UNIQUE" -> IF Len(ms) > 1 THEN Error ELSE Scalarize(d, ms[1])
      [] Policy(d) = "FIRST" -> Scalarize(d, ms[1])
      [] Policy(d) = "ANY" -> IF Agree(d, ms) THEN Scalarize(d, ms[1]) ELSE Error
      [] Policy(d) = "PRIORITY" -> Scalarize(d, Best(d, ms))
      [] OTHER -> Collect(d, ms)

------------------------------------------------------------------------------
Init ==
    /\ table \in Tables
    /\ phase = "new"
    /\ rule = 1 /\ matches = <<>> /\ result = Nil

Register ==
    /\ phase = "new"
    /\ phase' = IF Validate(table) THEN "registered" ELSE "refused"
    /\ UNCHANGED <<table, rule, matches, result>>

Returns(v) == phase' = "done" /\ result' = v /\ UNCHANGED <<table, rule, matches>>

\* Evaluate computes the input columns before it looks at a rule.
InputFailing(d) == \E i \in DOMAIN d.inputs : d.inputs[i] = Error

InputFails == phase = "registered" /\ InputFailing(table) /\ Returns(Error)

InputsEvaluated ==
    /\ phase = "registered" /\ ~InputFailing(table)
    /\ phase' = "looping"
    /\ UNCHANGED <<table, rule, matches, result>>

\* One round of Evaluate's loop; FIRST leaves it after a match.
Looping ==
    /\ phase = "looping"
    /\ rule <= Len(table.rules)
    /\ ~(Policy(table) = "FIRST" /\ matches # <<>>)

NextRule(m) ==
    rule' = rule + 1 /\ matches' = m /\ UNCHANGED <<table, phase, result>>

\* ruleMatches or, for a rule that matches, ruleOutputs returns an error.
Failing(r) == r.match = Error \/ (r.match = Bool(TRUE) /\ \E c \in DOMAIN r.out : r.out[c] = Error)

RuleFails == Looping /\ Failing(table.rules[rule]) /\ Returns(Error)

RuleSkipped ==
    /\ Looping
    /\ table.rules[rule].match = Bool(FALSE)
    /\ NextRule(matches)

RuleMatches ==
    /\ Looping
    /\ table.rules[rule].match = Bool(TRUE) /\ ~Failing(table.rules[rule])
    /\ NextRule(Append(matches, table.rules[rule].out))

Evaluated == phase = "looping" /\ ~Looping /\ Returns(Hit(table, matches))

Next ==
    \/ Register \/ InputFails \/ InputsEvaluated
    \/ RuleFails \/ RuleSkipped \/ RuleMatches \/ Evaluated

Spec == Init /\ [][Next]_vars

------------------------------------------------------------------------------
\* What a table means, without the loop.

Failed(d) == {i \in DOMAIN d.rules : Failing(d.rules[i])}

Matched(d) == {i \in DOMAIN d.rules : d.rules[i].match = Bool(TRUE)} \ Failed(d)

Out(d, i) == Scalarize(d, d.rules[i].out)

First(d) == Min(Matched(d))

\* The matching rule with k - 1 matching rules before it.
Nth(d, k) == CHOOSE i \in Matched(d) : Cardinality({j \in Matched(d) : j < i}) = k - 1

\* Rule i is ranked before rule j, or like it and comes first.
Precedes(d, i, j) ==
    \/ Rank(d, d.rules[i].out) < Rank(d, d.rules[j].out)
    \/ Rank(d, d.rules[i].out) = Rank(d, d.rules[j].out) /\ i <= j

Preferred(d) == CHOOSE i \in Matched(d) : \A j \in Matched(d) : Precedes(d, i, j)

\* The rules that match have numbers to aggregate.
Numeric(d) == d.cols = 1 /\ \A i \in Matched(d) : d.rules[i].out[1].t = "num"

Numbers(d) == {d.rules[i].out[1].n : i \in Matched(d)}

\* The sum over all rules, those that do not match counting nothing.
Total(d) ==
    LET sum[i \in 0..Len(d.rules)] ==
            IF i = 0 THEN 0
            ELSE sum[i - 1] + (IF i \in Matched(d) THEN d.rules[i].out[1].n ELSE 0)
    IN  sum[Len(d.rules)]

Collected(d) ==
    CASE d.agg = "COUNT" -> Num(Cardinality(Matched(d)))
      [] d.agg = "" -> List([k \in 1..Cardinality(Matched(d)) |-> Out(d, Nth(d, k))])
      [] d.agg = "SUM" /\ Numeric(d) -> Num(Total(d))
      [] d.agg = "MIN" /\ Numeric(d) -> Num(Min(Numbers(d)))
      [] d.agg = "MAX" /\ Numeric(d) -> Num(Max(Numbers(d)))
      [] OTHER -> Error

\* FIRST looks at the rules up to the first match, the other policies at all.
MeaningOfFirst(d) ==
    IF \E i \in Failed(d) : \A j \in Matched(d) : i < j THEN Error
    ELSE IF Matched(d) = {} THEN Nil ELSE Out(d, First(d))

MeaningOfAll(d) ==
    IF Failed(d) # {} THEN Error
    ELSE IF Matched(d) = {} THEN Nil ELSE
    CASE Policy(d) = "UNIQUE" -> IF Cardinality(Matched(d)) = 1 THEN Out(d, First(d)) ELSE Error
      [] Policy(d) = "ANY" ->
            IF \A i, j \in Matched(d) : \A c \in 1..d.cols :
                  Text(d.rules[i].out[c]) = Text(d.rules[j].out[c])
              THEN Out(d, First(d)) ELSE Error
      [] Policy(d) = "PRIORITY" -> Out(d, Preferred(d))
      [] OTHER -> Collected(d)

Meaning(d) ==
    IF InputFailing(d) THEN Error
    ELSE IF Policy(d) = "FIRST" THEN MeaningOfFirst(d) ELSE MeaningOfAll(d)

\* Evaluate returns what the hit policy means, for a table that Register
\* accepted: the one, the first, the agreed, the best ranked or the collected
\* outputs of the matching rules, with an error exactly where an input column
\* or a rule that has to be looked at fails, or the policy is violated.
HitPolicyMeaning == phase = "done" => result = Meaning(table)
=============================================================================
