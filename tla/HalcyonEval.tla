------------------------------ MODULE HalcyonEval ------------------------------
(* The values of halcyon.js and its tree-walking interpreter.  Floats,      *)
(* characters, records, classes and effects are left out; numbers are       *)
(* integers, strings are numbered.                                          *)
EXTENDS Integers, Sequences, FiniteSets, SequencesExt

CONSTANT Arity   \* constructor -> number of its fields (the data environment)

VInt(n) == [t |-> "int", n |-> n]
VBool(b) == [t |-> "bool", n |-> IF b THEN 1 ELSE 0]
VStr(n) == [t |-> "str", n |-> n]
VList(xs) == [t |-> "list", xs |-> xs]
VData(c, xs) == [t |-> "data", c |-> c, xs |-> xs]
VConstr(c, xs) == [t |-> "constr", c |-> c, xs |-> xs]
VBuiltin(b, xs) == [t |-> "builtin", c |-> b, xs |-> xs]
(* A closure of `let rec` knows its own name instead of an infinite         *)
(* environment.                                                             *)
VClosure(ps, body, env, self) ==
  [t |-> "closure", ps |-> ps, body |-> body, env |-> env, self |-> self]
(* An error ends the program; the error of a binary operator is handed on   *)
(* as if it were a value.                                                   *)
HErr == [t |-> "abort"]
OpErr == [t |-> "error"]
Aborted(v) == v.t = "abort"

Bind(env, x, v) == [y \in DOMAIN env \cup {x} |-> IF y = x THEN v ELSE env[y]]
BindAll(env, bs) == FoldLeft(LAMBDA acc, b : Bind(acc, b[1], b[2]), env, bs)

IsNum(v) == v.t = "int"
Trunc(a, b) ==   \* division rounds toward zero
  LET q == (IF a < 0 THEN -a ELSE a) \div (IF b < 0 THEN -b ELSE b)
  IN  IF (a < 0) = (b < 0) THEN q ELSE -q
(* Functions are equal to nothing.                                          *)
RECURSIVE EqualValues(_, _)
EqualValues(a, b) ==
  /\ a.t = b.t
  /\ CASE a.t \in {"int", "bool", "str"} -> a.n = b.n
       [] a.t \in {"list", "data"} ->
            /\ Len(a.xs) = Len(b.xs)
            /\ a.t = "data" => a.c = b.c
            /\ \A i \in DOMAIN a.xs : EqualValues(a.xs[i], b.xs[i])
       [] OTHER -> FALSE
Compare(op, a, b) ==
  CASE op = "lt" -> a < b [] op = "le" -> a <= b
    [] op = "gt" -> a > b [] op = "ge" -> a >= b
Arith(op, a, b) ==
  CASE op = "add" -> a + b [] op = "sub" -> a - b [] op = "mul" -> a * b
Binop(op, a, b) ==
  CASE op \in {"add", "sub", "mul"} ->
         IF IsNum(a) /\ IsNum(b) THEN VInt(Arith(op, a.n, b.n)) ELSE OpErr
    [] op = "div" ->
         IF IsNum(a) /\ IsNum(b) /\ b.n # 0 THEN VInt(Trunc(a.n, b.n)) ELSE OpErr
    [] op \in {"lt", "le", "gt", "ge"} ->
         IF IsNum(a) /\ IsNum(b) THEN VBool(Compare(op, a.n, b.n)) ELSE OpErr
    [] op = "eq" -> VBool(EqualValues(a, b))
    [] op = "ne" -> VBool(~EqualValues(a, b))
    [] op \in {"and", "or"} ->
         IF a.t # "bool" \/ b.t # "bool" THEN OpErr
         ELSE VBool(IF op = "and" THEN a.n * b.n = 1 ELSE a.n + b.n > 0)

BuiltinArity(b) == IF b \in {"cons", "append", "take", "drop"} THEN 2 ELSE 1
CompleteBuiltin(b, as) ==
  LET x == as[1]
      y == as[Len(as)]
      isl(v) == v.t = "list"
  IN  CASE b = "cons" /\ isl(y) -> VList(<<x>> \o y.xs)
        [] b = "append" /\ isl(x) /\ isl(y) -> VList(x.xs \o y.xs)
        [] b = "head" /\ isl(x) /\ x # VList(<<>>) -> Head(x.xs)
        [] b = "tail" /\ isl(x) /\ x # VList(<<>>) -> VList(Tail(x.xs))
        [] b = "isNil" /\ isl(x) -> VBool(x.xs = <<>>)
        [] b = "length" /\ isl(x) -> VInt(Len(x.xs))
        [] b = "reverse" /\ isl(x) -> VList(Reverse(x.xs))
        [] b = "take" /\ IsNum(x) /\ isl(y) ->
             VList([i \in {j \in DOMAIN y.xs : j <= x.n} |-> y.xs[i]])
        [] b = "drop" /\ IsNum(x) /\ isl(y) ->
             VList(IF x.n <= 0 THEN y.xs
                   ELSE SubSeq(y.xs, x.n + 1, Len(y.xs)))
        [] OTHER -> HErr

(* The bindings a pattern makes, or the mark Mismatch.                      *)
Mismatch == <<<<"no match", HErr>>>>
RECURSIVE MatchValue(_, _), MatchAll(_, _)
MatchAll(vs, ps) ==
  IF ps = <<>> THEN <<>>
  ELSE LET one == MatchValue(Head(vs), Head(ps))
           rest == MatchAll(Tail(vs), Tail(ps))
       IN  IF one = Mismatch \/ rest = Mismatch THEN Mismatch ELSE one \o rest
MatchValue(v, p) ==
  CASE p.k = "pwild" -> <<>>
    [] p.k = "pvar" -> <<<<p.x, v>>>>
    [] p.k = "plit" -> IF v.t = p.v.t /\ EqualValues(v, p.v) THEN <<>> ELSE Mismatch
    [] p.k = "pnil" -> IF v.t = "list" /\ v.xs = <<>> THEN <<>> ELSE Mismatch
    [] p.k = "pcons" -> IF v.t # "list" \/ v.xs = <<>> THEN Mismatch
                        ELSE MatchAll(<<Head(v.xs), VList(Tail(v.xs))>>,
                                      <<p.h, p.r>>)
    [] p.k = "plist" -> IF v.t # "list" \/ Len(v.xs) # Len(p.ps) THEN Mismatch
                        ELSE MatchAll(v.xs, p.ps)
    [] p.k = "pconstr" ->
         IF v.t # "data" \/ v.c # p.c \/ Len(v.xs) # Len(p.ps) THEN Mismatch
         ELSE MatchAll(v.xs, p.ps)

RECURSIVE Eval(_, _), EvalAll(_, _), Apply(_, _), MatchBranches(_, _, _)
EvalAll(env, es) ==
  IF es = <<>> THEN <<>>
  ELSE LET v == Eval(env, Head(es))
       IN  IF Aborted(v) THEN <<v>> ELSE <<v>> \o EvalAll(env, Tail(es))
(* The values of some expressions in order, unless one ends the program.    *)
Eval(env, e) ==
  CASE e.k = "lit" -> e.v
    [] e.k = "list" ->
         LET vs == EvalAll(env, e.es)
         IN  IF vs # <<>> /\ Aborted(Last(vs)) THEN HErr ELSE VList(vs)
    [] e.k = "var" -> IF e.x \in DOMAIN env THEN env[e.x] ELSE HErr
    [] e.k = "constr" ->
         IF Arity[e.c] = 0 THEN VData(e.c, <<>>) ELSE VConstr(e.c, <<>>)
    [] e.k = "builtin" -> VBuiltin(e.c, <<>>)
    [] e.k = "lambda" -> VClosure(e.ps, e.body, env, "")
    [] e.k = "apply" ->
         LET vs == EvalAll(env, <<e.f, e.a>>)
         IN  IF Aborted(Last(vs)) THEN HErr ELSE Apply(vs[1], vs[2])
    [] e.k = "let" ->
         LET v == IF e.bound.k = "lambda"
                  THEN VClosure(e.bound.ps, e.bound.body, env,
                                IF e.rec THEN e.x ELSE "")
                  ELSE IF e.rec THEN HErr ELSE Eval(env, e.bound)
         IN  IF Aborted(v) THEN HErr ELSE Eval(Bind(env, e.x, v), e.body)
    [] e.k = "if" ->
         LET v == Eval(env, e.c)
         IN  IF v.t # "bool" THEN HErr
             ELSE Eval(env, IF v.n = 1 THEN e.a ELSE e.b)
    [] e.k = "match" ->
         LET v == Eval(env, e.a)
         IN  IF Aborted(v) THEN HErr ELSE MatchBranches(env, v, e.bs)
    [] e.k = "bin" ->
         LET vs == EvalAll(env, <<e.a, e.b>>)
         IN  IF Aborted(Last(vs)) THEN HErr ELSE Binop(e.op, vs[1], vs[2])
    [] e.k = "neg" ->
         LET v == Eval(env, e.a) IN IF IsNum(v) THEN VInt(-v.n) ELSE HErr
    [] e.k = "not" ->
         LET v == Eval(env, e.a)
         IN  IF v.t = "bool" THEN VBool(v.n = 0) ELSE HErr
MatchBranches(env, v, bs) ==
  IF bs = <<>> THEN HErr
  ELSE LET m == MatchValue(v, Head(bs)[1])
       IN  IF m = Mismatch THEN MatchBranches(env, v, Tail(bs))
           ELSE Eval(BindAll(env, m), Head(bs)[2])
(* Every application is to one argument.                                    *)
Apply(f, a) ==
  CASE f.t = "closure" ->
         LET home == IF f.self = "" THEN f.env ELSE Bind(f.env, f.self, f)
             env == Bind(home, Head(f.ps), a)
         IN  IF Len(f.ps) = 1 THEN Eval(env, f.body)
             ELSE VClosure(Tail(f.ps), f.body, env, "")
    [] f.t = "constr" ->
         LET xs == Append(f.xs, a)
         IN  IF Len(xs) = Arity[f.c] THEN VData(f.c, xs) ELSE VConstr(f.c, xs)
    [] f.t = "builtin" ->
         LET xs == Append(f.xs, a)
         IN  IF Len(xs) = BuiltinArity(f.c) THEN CompleteBuiltin(f.c, xs)
             ELSE VBuiltin(f.c, xs)
    [] OTHER -> HErr

NoNames == [x \in {} |-> HErr]
EvalProgram(e) == Eval(NoNames, e)
================================================================================
