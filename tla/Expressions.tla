----------------------------- MODULE Expressions ------------------------------
(***************************************************************************)
(* expr/eval.go: values, their conversions and the operators of the        *)
(* expression language, on parsed expressions.  Lexing and parsing are     *)
(* left out.                                                               *)
(***************************************************************************)
EXTENDS ExprValues, Integers, Sequences, SequencesExt, TLC

CONSTANT Texts      \* the strings that occur, in ascending order

Truthy(v) ==
    CASE v.t = "nil" -> FALSE
      [] v.t \in {"bool", "num"} -> v.n # 0
      [] v.t = "str" -> Texts[v.n] # ""
      [] OTHER -> v.items # <<>>

RECURSIVE Equal(_, _), Stringify(_), Eval(_, _)

\* equal: values of different types differ.
Equal(l, r) ==
    /\ l.t = r.t
    /\ l.n = r.n
    /\ Len(l.items) = Len(r.items)
    /\ \A i \in DOMAIN l.items : Equal(l.items[i], r.items[i])

\* Stringify, as the sequence of its pieces that are not empty.
Stringify(v) ==
    CASE v.t = "nil" -> <<>>
      [] v.t = "str" -> IF Texts[v.n] = "" THEN <<>> ELSE <<Texts[v.n]>>
      [] v.t = "bool" -> <<IF v.n = 1 THEN "true" ELSE "false">>
      [] v.t = "num" -> <<ToString(v.n)>>
      [] OTHER -> FoldLeft(LAMBDA text, i :
                              text \o (IF i > 1 THEN <<", ">> ELSE <<>>) \o Stringify(v.items[i]),
                           <<"[">>, [i \in DOMAIN v.items |-> i]) \o <<"]">>

Holds(op, a, b) ==
    CASE op = "<" -> a < b
      [] op = "<=" -> a <= b
      [] op = ">" -> a > b
      [] OTHER -> a >= b

\* compare: two numbers or two strings.
Compare(op, l, r) ==
    IF l.t = r.t /\ l.t \in {"num", "str"} THEN Bool(Holds(op, l.n, r.n)) ELSE Error

\* contains: a member of a list, or a part of a text.  No text of Texts but ""
\* is a part of another one.
InList(c, item) ==
    CASE c.t = "nil" -> Bool(FALSE)
      [] c.t = "list" -> Bool(\E i \in DOMAIN c.items : Equal(c.items[i], item))
      [] c.t = "str" -> Bool(item.t = "str" /\ Texts[item.n] \in {"", Texts[c.n]})
      [] OTHER -> Error

\* Mutant of Lazy: both sides are evaluated first.
Eager(op, l, right) ==
    CASE l = Error \/ right = Error -> Error
      [] op = "&&" -> Bool(Truthy(l) /\ Truthy(right))
      [] OTHER -> Bool(Truthy(l) \/ Truthy(right))

\* binaryNode.eval: && and || look at the right side only when they need it.
Lazy(op, l, right) ==
    CASE l = Error -> Error
      [] op = "&&" /\ ~Truthy(l) -> Bool(FALSE)
      [] op = "||" /\ Truthy(l) -> Bool(TRUE)
      [] OTHER -> IF right = Error THEN Error ELSE Bool(Truthy(right))

\* The other operators evaluate both sides.
Strict(op, l, r) ==
    CASE l = Error \/ r = Error -> Error
      [] op = "==" -> Bool(Equal(l, r))
      [] op = "!=" -> Bool(~Equal(l, r))
      [] op = "in" -> InList(r, l)
      [] OTHER -> Compare(op, l, r)

\* Parsed expressions.
Expr(op, v, args) == [op |-> op, v |-> v, args |-> args]

Lit(v) == Expr("lit", v, <<>>)
Input == Expr("input", Nil, <<>>)       \* the variable __input
Not(a) == Expr("!", Nil, <<a>>)
Bin(op, a, b) == Expr(op, Nil, <<a, b>>)
Group(a) == Expr("()", Nil, <<a>>)      \* an expression in parentheses
ListOf(es) == Expr("list", Nil, es)

\* litNode, varNode, listNode, unaryNode and binaryNode.eval
Eval(e, in) ==
    LET val == [i \in DOMAIN e.args |-> Eval(e.args[i], in)] IN
    CASE e.op = "lit" -> e.v
      [] e.op = "input" -> in
      [] e.op = "list" -> IF \E i \in DOMAIN val : val[i] = Error THEN Error ELSE List(val)
      [] e.op = "()" -> val[1]
      [] e.op = "!" -> IF val[1] = Error THEN Error ELSE Bool(~Truthy(val[1]))
      [] e.op \in {"&&", "||"} -> Lazy(e.op, val[1], val[2])
      [] OTHER -> Strict(e.op, val[1], val[2])
=============================================================================
