--------------------------- MODULE MCCompiledFunction ---------------------------
(* Instances of CompiledFunction for TLC: a function with a local x, whose  *)
(* a is a parameter or captured; its functions capture a and x.            *)
EXTENDS CompiledFunction

ArgumentNames == <<"a">>
OuterNames == "a" :> 1
NoArguments == <<>>
NoNames == Empty
A == Var("a")
X == Var("x")

(* 2 and x + 1; the condition a && !(3 <= x); return of a function that     *)
(* uses a and x.                                                            *)
SomeValues == {Num(2), Op("ADD", X, Num(1))}
SomeConds == {And(<<A, Not(Op("SLE", Num(3), X))>>)}
SomeResults == {Function(<<"a", "x">>)}

(* 2, the condition a, and nothing to return.                               *)
Constants == {Num(2)}
Parameter == {A}
NoExpression == {}
===============================================================================
