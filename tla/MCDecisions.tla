----------------------------- MODULE MCDecisions ------------------------------
\* All tables of up to three rules with one column, or two rules with two, over
\* a few values; cells over the numbers 0..3, nested twice, and over texts;
\* expressions over all types of values and an error.
EXTENDS Decisions

MCTexts == <<"", "1", "?", "__input", "a", "true">>

Values == {Nil, Bool(TRUE), Bool(FALSE), Num(0), Num(1), Num(2), Str(1), Str(2), Str(6),
           List(<<>>), List(<<Num(1)>>), List(<<Str(2)>>)}

------------------------------------------------------------------------------
SeqsUpTo(S, n) == UNION {[1..k -> S] : k \in 0..n}

RulesOver(outs) ==
    {[ins |-> 1, match |-> m, out |-> o] : m \in {Bool(TRUE), Bool(FALSE)}, o \in outs}
        \cup {[ins |-> 1, match |-> Error, out |-> o] : o \in {CHOOSE x \in outs : TRUE}}

OneColumn == {<<v>> : v \in {Num(1), Num(2), Str(2), Error}}

TwoColumns == {<<v, w>> : v, w \in {Num(1), Str(2), Nil}} \cup {<<Num(1), Error>>}

Table(policy, agg, values, rules) ==
    [id |-> "d", policy |-> policy, agg |-> agg, inputs |-> <<Num(1)>>,
     cols |-> Len(values), values |-> values, rules |-> rules]

TablesOver(cols, rules, priorities) ==
    {Table(p, "", [c \in 1..cols |-> <<>>], r) : p \in {"", "UNIQUE", "FIRST", "ANY"}, r \in rules}
    \cup {Table("PRIORITY", "", v, r) : v \in priorities, r \in rules}
    \cup {Table("COLLECT", a, [c \in 1..cols |-> <<>>], r) :
            a \in {"", "SUM", "MIN", "MAX", "COUNT", "AVG"}, r \in rules}

\* Tables that are refused or whose input column fails.
Odd ==
    LET t == Table("FIRST", "", <<<<>>>>, <<[ins |-> 1, match |-> Bool(TRUE), out |-> <<Num(1)>>]>>)
    IN  {[t EXCEPT !.id = ""], [t EXCEPT !.inputs = <<>>], [t EXCEPT !.rules[1].ins = 2],
         [t EXCEPT !.rules[1].out = <<Num(1), Num(1)>>], [t EXCEPT !.inputs = <<Error>>],
         [t EXCEPT !.inputs = <<Num(1), Error>>, !.rules[1].ins = 2],
         [t EXCEPT !.policy = "RULE ORDER"],
         [t EXCEPT !.cols = 0, !.values = <<>>, !.rules[1].out = <<>>]}

MCTables ==
    TablesOver(1, SeqsUpTo(RulesOver(OneColumn), 3), {<<<<>>>>, <<<<Num(2)>>>>, <<<<Num(2), Str(2)>>>>})
    \cup TablesOver(2, SeqsUpTo(RulesOver(TwoColumns), 2), {<<<<Num(1)>>, <<Nil>>>>, <<<<Num(1)>>, <<>>>>})
    \cup Odd

------------------------------------------------------------------------------
Above == Bin(">", Input, Lit(Num(1)))
Below == Bin("<", Input, Lit(Num(3)))

Plain ==
    {AnyCell, ExprCell(Lit(Num(1))), ExprCell(Group(Lit(Num(3)))), ExprCell(Above),
     ExprCell(Bin("in", Input, ListOf(<<Lit(Num(1)), Lit(Num(3))>>))),
     ExprCell(Bin("&&", Group(Above), Group(Below))), ExprCell(Bin("&&", Not(Above), Not(Below)))}
    \cup {CompareCell(op, Num(1)) : op \in {"<", "<=", ">", ">=", "!="}}
    \cup {RangeCell(b, Num(lo), Num(2)) : b \in {"[]", "[)", "(]", "()"}, lo \in 1..2}

Tests == Plain \cup {NotCell(c) : c \in Plain}
               \cup {SpacedNot(c) : c \in {ExprCell(Lit(Num(1))), ExprCell(Above), CompareCell("<", Num(1))}}

Lists == {ListCell(<<c, d>>) : c, d \in Tests}

\* Lists with a list in a negation.
Nested ==
    {ListCell(<<NotCell(ListCell(<<ExprCell(Lit(Num(i))), ExprCell(Lit(Num(j)))>>)), c>>) :
        i, j \in 1..3, c \in Tests}

Cells == Tests \cup Lists \cup {NotCell(c) : c \in Lists} \cup Nested

Words == {ExprCell(Lit(Str(k))) : k \in DOMAIN Texts}

TextCells ==
    Words \cup {NotCell(w) : w \in Words} \cup {SpacedNot(w) : w \in Words}
          \cup {ListCell(<<v, w>>) : v, w \in Words}

Exprs == {Lit(v) : v \in Values} \cup {Bin("<", Lit(Num(1)), Lit(Nil))}

CellProbes(cells, inputs) ==
    {[kind |-> "cell", cell |-> c, in |-> in, a |-> Input, b |-> Input, others |-> {}] :
        c \in cells, in \in inputs}

MCProbes ==
    CellProbes(Cells, {Num(n) : n \in 0..3})
    \cup CellProbes(TextCells, {Str(k) : k \in DOMAIN Texts})
    \cup {[kind |-> "expr", cell |-> AnyCell, in |-> Nil, a |-> a, b |-> b, others |-> Values] :
        a, b \in Exprs}
=============================================================================
