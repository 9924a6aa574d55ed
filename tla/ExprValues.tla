------------------------------ MODULE ExprValues ------------------------------
(***************************************************************************)
(* expr/eval.go: the values of the expression language.  A value is a      *)
(* record: its type, a number (of a boolean 0 or 1, of a string its place  *)
(* in the sorted list of texts) and a list's items.  Numbers are integers. *)
(***************************************************************************)

Value(t, n, items) == [t |-> t, n |-> n, items |-> items]

Nil == Value("nil", 0, <<>>)
Bool(b) == Value("bool", IF b THEN 1 ELSE 0, <<>>)
Num(n) == Value("num", n, <<>>)
Str(k) == Value("str", k, <<>>)
List(s) == Value("list", 0, s)

\* An evaluation that returned an error.
Error == Value("error", 0, <<>>)
=============================================================================
