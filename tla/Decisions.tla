------------------------------ MODULE Decisions -------------------------------
(***************************************************************************)
(* dmn/unary.go: the cells of a decision table are tests on an input       *)
(* value.  A cell is the tree its author had in mind.  matchUnaryTest has  *)
(* only its text, and looks at what that begins with, what it ends with,   *)
(* whether it has a .. and where its commas are: the operators on the text *)
(* give these for a tree, and MatchUnaryTest decides by them.              *)
(*                                                                         *)
(* A behaviour evaluates a table (module DecisionTables) or is a single    *)
(* state with a probe, a cell or a pair of expressions to look at.         *)
(***************************************************************************)
EXTENDS DecisionTables, Expressions

CONSTANTS
    Probes          \* what CellMeaning and OperatorLaws are about: [kind, cell, in, a, b, others]

VARIABLES
    probe       \* none or one of Probes

NoTable ==
    [id |-> "", policy |-> "", agg |-> "", inputs |-> <<>>, cols |-> 0, values |-> <<>>, rules |-> <<>>]

------------------------------------------------------------------------------
\* unary.go.  A cell: its form, an operator or the brackets of a range, the
\* expressions in it and its parts.
Cell(op, how, exprs, parts) == [op |-> op, how |-> how, exprs |-> exprs, parts |-> parts]

AnyCell == Cell("any", "", <<>>, <<>>)
NotCell(c) == Cell("not", "not(", <<>>, <<c>>)
SpacedNot(c) == Cell("not", "not (", <<>>, <<c>>)
RangeCell(brackets, lo, hi) == Cell("range", brackets, <<Lit(lo), Lit(hi)>>, <<>>)
ListCell(parts) == Cell("list", "", <<>>, parts)
CompareCell(op, v) == Cell("compare", op, <<Lit(v)>>, <<>>)
ExprCell(e) == Cell("expr", "", <<e>>, <<>>)

\* What the text of an expression begins and ends with; a negation is written
\* not(a).  Expressions have no .. in them.
RECURSIVE ExprBegins(_), ExprEnds(_)
ExprBegins(e) ==
    CASE e.op = "!" -> "not("
      [] e.op = "()" -> "("
      [] e.op = "list" -> "["
      [] OTHER -> IF e.args = <<>> THEN "" ELSE ExprBegins(Head(e.args))

ExprEnds(e) ==
    CASE e.op \in {"!", "()"} -> ")"
      [] e.op = "list" -> "]"
      [] OTHER -> IF e.args = <<>> THEN "" ELSE ExprEnds(Last(e.args))

\* The same of a cell's text.
RECURSIVE Begins(_), Ends(_), Dots(_)
Begins(c) ==
    CASE c.op = "not" -> c.how
      [] c.op = "range" -> IF c.how \in {"[]", "[)"} THEN "[" ELSE "("
      [] c.op = "list" -> Begins(Head(c.parts))
      [] c.op = "expr" -> ExprBegins(c.exprs[1])
      [] OTHER -> ""

Ends(c) ==
    CASE c.op = "not" -> ")"
      [] c.op = "range" -> IF c.how \in {"[]", "(]"} THEN "]" ELSE ")"
      [] c.op = "list" -> Ends(Last(c.parts))
      [] c.op = "expr" -> ExprEnds(c.exprs[1])
      [] OTHER -> ""

Dots(c) == c.op = "range" \/ \E i \in DOMAIN c.parts : Dots(c.parts[i])

\* The two tests on the whole text.
ReadAsNot(c) == Begins(c) = "not(" /\ Ends(c) = ")"
ReadAsRange(c) == Begins(c) \in {"(", "["} /\ Ends(c) \in {")", "]"} /\ Dots(c)

\* What is left of a text that is read as one negation, when it begins with a
\* negation and ends with something else.  The parts of the first negation, if
\* it has several, are split off by splitTop; the last of them runs on into the
\* rest of the cell, with a parenthesis too many, and is no expression.  (The
\* parts of a negated list in a list are taken to be plain: one that begins with
\* not( or a bracket may make what is left look like a negation or range again.)
RECURSIVE SplitOff(_)
SplitOff(c) ==
    CASE c.op = "list" -> SplitOff(Head(c.parts))
      [] c.op = "not" /\ c.parts[1].op = "list" -> Front(c.parts[1].parts)
      [] OTHER -> <<>>

\* The operators that a range's brackets stand for.
LowOp(b) == IF b \in {"[]", "[)"} THEN ">=" ELSE ">"
HighOp(b) == IF b \in {"[]", "(]"} THEN "<=" ELSE "<"

\* evalWithInput: an error, or a boolean.
Decided(v) == IF v.t = "bool" THEN v ELSE Error

\* Mutant of MatchRange: the upper bracket is not looked at.
MatchRangeClosed(c, in) ==
    Decided(Eval(Bin("&&", Bin(LowOp(c.how), Input, c.exprs[1]),
                           Bin("<=", Input, c.exprs[2])), in))

MatchRange(c, in) ==
    Decided(Eval(Bin("&&", Bin(LowOp(c.how), Input, c.exprs[1]),
                           Bin(HighOp(c.how), Input, c.exprs[2])), in))

\* ReplaceAll of ? by __input, which does not spare the texts in the cell.
RECURSIVE Replaced(_)
Replaced(e) ==
    IF e.op = "lit" /\ e.v.t = "str" /\ Texts[e.v.n] = "?"
      THEN Lit(Str(CHOOSE k \in DOMAIN Texts : Texts[k] = "__input"))
      ELSE [e EXCEPT !.args = [i \in DOMAIN e.args |-> Replaced(e.args[i])]]

\* The expression's text has __input in it.
RECURSIVE UsesInput(_)
UsesInput(e) ==
    \/ e.op = "input"
    \/ e.op = "lit" /\ e.v.t = "str" /\ Texts[e.v.n] = "__input"
    \/ \E i \in DOMAIN e.args : UsesInput(e.args[i])

\* A cell that is an expression decides itself if it names the input, and is
\* compared with it by text otherwise (equalLoose).
MatchExpr(e, in) ==
    LET src == Replaced(e)
        v == Eval(src, in)
    IN
    CASE v = Error -> Error
      [] v.t = "bool" /\ UsesInput(src) -> v
      [] OTHER -> Bool(Stringify(in) = Stringify(v))

Negated(v) == IF v = Error THEN Error ELSE Bool(v.n = 0)

\* The parts in order, up to the first that matches or fails.
RECURSIVE MatchUnaryTest(_, _), MatchParts(_, _)
MatchParts(parts, in) ==
    FoldLeft(LAMBDA ok, p : IF ok = Bool(FALSE) THEN MatchUnaryTest(p, in) ELSE ok,
             Bool(FALSE), parts)

\* matchUnaryTest.  A text that is taken for a range and is not one has bounds
\* that are no expressions, with a comma or a bracket too many; not ( begins an
\* expression, if what follows is one.
MatchUnaryTest(c, in) ==
    CASE c.op = "any" -> Bool(TRUE)
      [] ReadAsNot(c) /\ c.op = "not" -> Negated(MatchUnaryTest(c.parts[1], in))
      [] ReadAsNot(c) -> IF MatchParts(SplitOff(c), in) = Bool(TRUE) THEN Bool(FALSE) ELSE Error
      [] ReadAsRange(c) -> IF c.op = "range" THEN MatchRange(c, in) ELSE Error
      [] c.op = "list" -> MatchParts(c.parts, in)
      [] c.op = "compare" -> Decided(Eval(Bin(c.how, Input, c.exprs[1]), in))
      [] c.op = "not" -> IF c.parts[1].op = "expr" THEN MatchExpr(Not(c.parts[1].exprs[1]), in) ELSE Error
      [] OTHER -> MatchExpr(c.exprs[1], in)

------------------------------------------------------------------------------
ProbeInit ==
    /\ table = NoTable /\ phase = "probe" /\ rule = 1 /\ matches = <<>> /\ result = Nil
    /\ \E p \in Probes : probe = {p}

DecisionsInit == (Init /\ probe = {}) \/ ProbeInit

DecisionsNext == Next /\ UNCHANGED probe

DecisionsSpec == DecisionsInit /\ [][DecisionsNext]_<<vars, probe>>

------------------------------------------------------------------------------
\* What a cell means for an input, a number or a text.
RECURSIVE NamesInput(_), ExprMeans(_, _), CellMeans(_, _)
NamesInput(e) == e.op = "input" \/ \E i \in DOMAIN e.args : NamesInput(e.args[i])

ExprMeans(e, in) ==
    CASE ~NamesInput(e) -> IF e.op = "()" THEN ExprMeans(e.args[1], in) ELSE in = e.v
      [] e.op = "()" -> ExprMeans(e.args[1], in)
      [] e.op = "!" -> ~ExprMeans(e.args[1], in)
      [] e.op = "&&" -> ExprMeans(e.args[1], in) /\ ExprMeans(e.args[2], in)
      [] e.op = "in" -> \E i \in DOMAIN e.args[2].args : ExprMeans(e.args[2].args[i], in)
      [] OTHER -> Holds(e.op, in.n, e.args[2].v.n)

CellMeans(c, in) ==
    CASE c.op = "any" -> TRUE
      [] c.op = "not" -> ~CellMeans(c.parts[1], in)
      [] c.op = "list" -> \E i \in DOMAIN c.parts : CellMeans(c.parts[i], in)
      [] c.op = "range" ->
            LET lo == c.exprs[1].v.n
                hi == c.exprs[2].v.n
            IN  /\ lo < in.n \/ (in.n = lo /\ c.how \in {"[]", "[)"})
                /\ in.n < hi \/ (in.n = hi /\ c.how \in {"[]", "(]"})
      [] c.op = "compare" /\ c.how = "!=" -> in # c.exprs[1].v
      [] c.op = "compare" -> Holds(c.how, in.n, c.exprs[1].v.n)
      [] OTHER -> ExprMeans(c.exprs[1], in)

\* The cells whose text is open to another reading: a list, or an expression of
\* several operands, that begins with not( and ends with a parenthesis, or that
\* has a range in it and begins and ends with brackets; not ( before anything
\* but an expression in ?; and a text with a ? in it.
RECURSIVE HasMark(_), Ambiguous(_)
HasMark(e) ==
    \/ e.op = "lit" /\ e.v.t = "str" /\ Texts[e.v.n] = "?"
    \/ \E i \in DOMAIN e.args : HasMark(e.args[i])

Ambiguous(c) ==
    \/ c.op \in {"list", "expr"} /\ (ReadAsNot(c) \/ ReadAsRange(c))
    \/ c.op = "not" /\ c.how = "not (" /\ ~(c.parts[1].op = "expr" /\ NamesInput(c.parts[1].exprs[1]))
    \/ c.op = "expr" /\ HasMark(c.exprs[1])
    \/ \E i \in DOMAIN c.parts : Ambiguous(c.parts[i])

\* matchUnaryTest, which sees only what a cell's text begins and ends with,
\* decides every cell as its author means it that is not Ambiguous: bounds, open
\* and closed, negations, lists and expressions, nested in each other.
CellMeaning ==
    \A p \in probe : p.kind = "cell" /\ ~Ambiguous(p.cell) =>
        MatchUnaryTest(p.cell, p.in) = Bool(CellMeans(p.cell, p.in))

\* The operators obey the laws that conditions are rewritten by, errors
\* included: two comparable values are either less, equal or greater, and
\* others fail both ways; equality is an equivalence, of nil, booleans and
\* lists too; x in [y, z] is x == y
\* or x == z; De Morgan and absorption hold with the short-circuit of && and
\* ||, so that a condition guarded by another fails only if that one does.
OperatorLaws ==
    \A p \in probe : p.kind = "expr" =>
        LET a == p.a  b == p.b
            E(e) == Eval(e, Nil)
            va == E(a)  vb == E(b)
        IN
        /\ E(Not(Bin("&&", a, b))) = E(Bin("||", Not(a), Not(b)))
        /\ E(Bin("||", a, Bin("&&", a, b))) = E(Not(Not(a)))
        /\ va # Error => Equal(va, va)
        /\ va # Error /\ vb # Error =>
              LET l == Compare("<", va, vb)
                  g == Compare(">", va, vb)
              IN  /\ l = Error <=> g = Error
                  /\ l # Error =>
                        Cardinality({k \in 1..3 : <<l.n = 1, Equal(va, vb), g.n = 1>>[k]}) = 1
                  /\ Equal(va, vb) <=> Equal(vb, va)
                  /\ \A m \in p.others :
                        /\ Equal(va, vb) /\ Equal(vb, m) => Equal(va, m)
                        /\ E(Bin("in", a, Expr("list", Nil, <<b, Lit(m)>>)))
                              = E(Bin("||", Bin("==", a, b), Bin("==", a, Lit(m))))
=============================================================================
