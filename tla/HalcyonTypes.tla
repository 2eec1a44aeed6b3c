------------------------------ MODULE HalcyonTypes ------------------------------
(* Type inference of halcyon.js.  The state it threads: the substitution,   *)
(* the next fresh variable, and whether a type error was met; after one,    *)
(* what else happens to the state is not looked at.  Classes and their      *)
(* constraints, records, floats, characters and effects are left out.       *)
EXTENDS HalcyonEval, FiniteSetsExt

CONSTANT Schemes   \* constructor -> its type scheme (the data environment)

TInt == [k |-> "int"]
TBool == [k |-> "bool"]
TStr == [k |-> "str"]
TVar(n) == [k |-> "var", n |-> n]
TList(t) == [k |-> "list", a |-> t]
TFun(a, b) == [k |-> "fun", a |-> a, b |-> b]
TData(d, ts) == [k |-> "data", d |-> d, ts |-> ts]
Scheme(q, t) == [q |-> q, t |-> t]
Mono(t) == Scheme({}, t)

NoTypes == [x \in {} |-> Mono(TInt)]
InferState == [sub |-> [n \in {} |-> TInt], next |-> 0, bad |-> FALSE]
Misfit(st) == [st EXCEPT !.bad = TRUE]
Fresh(st) == [st EXCEPT !.next = @ + 1]

RECURSIVE FreeVars(_), ApplyMeta(_, _), Resolve(_, _)
FreeVars(t) ==
  CASE t.k = "var" -> {t.n}
    [] t.k = "list" -> FreeVars(t.a)
    [] t.k = "fun" -> FreeVars(t.a) \cup FreeVars(t.b)
    [] t.k = "data" -> UNION {FreeVars(u) : u \in ToSet(t.ts)}
    [] OTHER -> {}
(* One substitution of variables; Resolve follows them to the end.          *)
ApplyMeta(m, t) ==
  CASE t.k = "var" -> IF t.n \in DOMAIN m THEN m[t.n] ELSE t
    [] t.k = "list" -> TList(ApplyMeta(m, t.a))
    [] t.k = "fun" -> TFun(ApplyMeta(m, t.a), ApplyMeta(m, t.b))
    [] t.k = "data" -> TData(t.d, [i \in DOMAIN t.ts |-> ApplyMeta(m, t.ts[i])])
    [] OTHER -> t
Resolve(sub, t) ==
  CASE t.k = "var" -> IF t.n \in DOMAIN sub THEN Resolve(sub, sub[t.n]) ELSE t
    [] t.k = "list" -> TList(Resolve(sub, t.a))
    [] t.k = "fun" -> TFun(Resolve(sub, t.a), Resolve(sub, t.b))
    [] t.k = "data" -> TData(t.d, [i \in DOMAIN t.ts |-> Resolve(sub, t.ts[i])])
    [] OTHER -> t

(* A variable is bound to a type it does not occur in.                      *)
BindVar(st, n, t) ==
  IF n \in FreeVars(t) THEN Misfit(st) ELSE [st EXCEPT !.sub = Bind(@, n, t)]

RECURSIVE Unify(_, _, _), UnifyAll(_, _, _)
UnifyAll(st, ts, us) ==
  IF ts = <<>> THEN st
  ELSE UnifyAll(Unify(st, Head(ts), Head(us)), Tail(ts), Tail(us))
UnifyResolved(st, r1, r2) ==
  IF st.bad \/ r1 = r2 THEN st
  ELSE CASE r1.k = "var" -> BindVar(st, r1.n, r2)
         [] r1.k # "var" /\ r2.k = "var" -> BindVar(st, r2.n, r1)
         [] r1.k = "list" /\ r2.k = "list" -> UnifyAll(st, <<r1.a>>, <<r2.a>>)
         [] r1.k = "fun" /\ r2.k = "fun" -> UnifyAll(st, <<r1.a, r1.b>>, <<r2.a, r2.b>>)
         [] r1.k = "data" /\ r2.k = "data" ->
              IF r1.d = r2.d /\ Len(r1.ts) = Len(r2.ts)
              THEN UnifyAll(st, r1.ts, r2.ts) ELSE Misfit(st)
         [] OTHER -> Misfit(st)
Unify(st, t1, t2) == UnifyResolved(st, Resolve(st.sub, t1), Resolve(st.sub, t2))

R(st, t) == [st |-> st, t |-> t]
(* Every quantified variable gets a fresh one.                              *)
Instantiate(st, s) ==
  LET m == [v \in s.q |-> TVar(st.next + Cardinality({w \in s.q : w < v}))]
  IN  R([st EXCEPT !.next = @ + Cardinality(s.q)], ApplyMeta(m, s.t))

(* The free variables of an environment, as its schemes were written down:  *)
(* the substitution since then is not applied.                              *)
SchemeFtv(env) == UNION {FreeVars(env[x].t) \ env[x].q : x \in DOMAIN env}
Generalize(env, t) == Scheme(FreeVars(t) \ SchemeFtv(env), t)

BuiltinScheme(b) ==
  LET a == TVar(0)
      s(t) == Scheme({0}, t)
  IN  CASE b = "cons" -> s(TFun(a, TFun(TList(a), TList(a))))
        [] b = "append" -> s(TFun(TList(a), TFun(TList(a), TList(a))))
        [] b = "head" -> s(TFun(TList(a), a))
        [] b \in {"tail", "reverse"} -> s(TFun(TList(a), TList(a)))
        [] b = "isNil" -> s(TFun(TList(a), TBool))
        [] b = "length" -> s(TFun(TList(a), TInt))
        [] b \in {"take", "drop"} -> s(TFun(TInt, TFun(TList(a), TList(a))))
LitType(v) == CASE v.t = "int" -> TInt [] v.t = "bool" -> TBool [] v.t = "str" -> TStr

Promoted(st, ra, rb) ==
  CASE ra.k = "int" /\ rb.k = "int" -> R(st, TInt)
    [] ra.k = "var" /\ rb.k = "int" -> R(BindVar(st, ra.n, TInt), TInt)
    [] ra.k = "int" /\ rb.k = "var" -> R(BindVar(st, rb.n, TInt), TInt)
    [] ra.k = "var" /\ rb.k = "var" -> R(IF ra = rb THEN st ELSE BindVar(st, rb.n, ra), ra)
    [] OTHER -> R(Misfit(st), TInt)
NumericPromote(st, ta, tb) == Promoted(st, Resolve(st.sub, ta), Resolve(st.sub, tb))

RECURSIVE SplitFun(_)
SplitFun(t) ==
  IF t.k # "fun" THEN [fields |-> <<>>, result |-> t]
  ELSE LET s == SplitFun(t.b)
       IN  [fields |-> <<t.a>> \o s.fields, result |-> s.result]

(* The environment and state after a pattern is checked against a type; its *)
(* variables are monomorphic.                                               *)
RECURSIVE CheckPattern(_, _, _, _), CheckParts(_, _, _, _)
CheckParts(st, env, ps, ts) ==
  IF ps = <<>> \/ st.bad THEN [st |-> st, env |-> env]
  ELSE LET r == CheckPattern(st, env, Head(ps), Head(ts))
       IN  CheckParts(r.st, r.env, Tail(ps), Tail(ts))
CheckPattern(st, env, p, t) ==
  LET same(s) == [st |-> s, env |-> env]
      item == TVar(st.next)
      list == Unify(Fresh(st), t, TList(item))
  IN  CASE p.k = "pwild" -> same(st)
        [] p.k = "pvar" -> [st |-> st, env |-> Bind(env, p.x, Mono(t))]
        [] p.k = "plit" -> same(Unify(st, t, LitType(p.v)))
        [] p.k = "pnil" -> same(list)
        [] p.k = "pcons" -> CheckParts(list, env, <<p.h, p.r>>, <<item, TList(item)>>)
        [] p.k = "plist" ->
             CheckParts(list, env, p.ps, [i \in DOMAIN p.ps |-> item])
        [] p.k = "pconstr" ->
             LET r == Instantiate(st, Schemes[p.c])
                 s == SplitFun(r.t)
                 u == Unify(r.st, s.result, t)
             IN  IF Len(s.fields) # Len(p.ps) THEN same(Misfit(u))
                 ELSE CheckParts(u, env, p.ps, s.fields)

RECURSIVE Infer(_, _, _), InferAs(_, _, _, _), InferBranches(_, _, _, _, _)
(* The state after each expression is inferred and given the type.          *)
InferAs(st, env, es, t) ==
  IF es = <<>> \/ st.bad THEN st
  ELSE LET r == Infer(st, env, Head(es))
       IN  InferAs(Unify(r.st, r.t, t), env, Tail(es), t)
InferBranches(st, env, bs, ts, rt) ==
  IF bs = <<>> \/ st.bad THEN st
  ELSE LET p == CheckPattern(st, env, Head(bs)[1], ts)
           r == Infer(p.st, p.env, Head(bs)[2])
       IN  InferBranches(Unify(r.st, r.t, rt), env, Tail(bs), ts, rt)
Infer(st, env, e) ==
  IF st.bad THEN R(st, TInt) ELSE
  CASE e.k = "lit" -> R(st, LitType(e.v))
    [] e.k = "list" ->
         R(InferAs(Fresh(st), env, e.es, TVar(st.next)), TList(TVar(st.next)))
    [] e.k = "var" ->
         IF e.x \in DOMAIN env THEN Instantiate(st, env[e.x]) ELSE R(Misfit(st), TInt)
    [] e.k = "constr" -> Instantiate(st, Schemes[e.c])
    [] e.k = "builtin" -> Instantiate(st, BuiltinScheme(e.c))
    [] e.k = "lambda" ->
         LET n == Len(e.ps)
             env2 == BindAll(env, [i \in 1 .. n |->
                                     <<e.ps[i], Mono(TVar(st.next + i - 1))>>])
             r == Infer([st EXCEPT !.next = @ + n], env2, e.body)
         IN  R(r.st, FoldRight(TFun, [i \in 1 .. n |-> TVar(st.next + i - 1)], r.t))
    [] e.k = "apply" ->
         LET rf == Infer(st, env, e.f)
             ra == Infer(rf.st, env, e.a)
             tr == TVar(ra.st.next)
         IN  R(Unify(Fresh(ra.st), rf.t, TFun(ra.t, tr)), tr)
    [] e.k = "let" ->
         LET t0 == TVar(st.next)
             rb == Infer(Fresh(st), IF e.rec THEN Bind(env, e.x, Mono(t0)) ELSE env,
                         e.bound)
             st2 == Unify(rb.st, t0, rb.t)
         IN  Infer(st2, Bind(env, e.x, Generalize(env, Resolve(st2.sub, rb.t))),
                   e.body)
    [] e.k = "if" ->
         LET rt == Infer(InferAs(st, env, <<e.c>>, TBool), env, e.a)
             re == Infer(rt.st, env, e.b)
         IN  R(Unify(re.st, rt.t, re.t), rt.t)
    [] e.k = "match" ->
         LET rs == Infer(st, env, e.a)
             rt == TVar(rs.st.next)
         IN  R(InferBranches(Fresh(rs.st), env, e.bs, rs.t, rt), rt)
    [] e.k = "bin" ->
         LET ra == Infer(st, env, e.a)
             rb == Infer(ra.st, env, e.b)
             num == NumericPromote(rb.st, ra.t, rb.t)
         IN  CASE e.op \in {"add", "sub", "mul", "div"} -> num
               [] e.op \in {"lt", "le", "gt", "ge"} -> R(num.st, TBool)
               [] e.op \in {"eq", "ne"} -> R(Unify(rb.st, ra.t, rb.t), TBool)
               [] OTHER -> R(Unify(Unify(rb.st, ra.t, TBool), rb.t, TBool), TBool)
    [] e.k = "neg" ->
         LET r == Infer(st, env, e.a)
             t == Resolve(r.st.sub, r.t)
         IN  R(IF t.k \in {"int", "var"} THEN r.st ELSE Misfit(r.st), t)
    [] e.k = "not" -> R(InferAs(st, env, <<e.a>>, TBool), TBool)

(* The type of a program, or the mark Untyped.                              *)
Untyped == [k |-> "untyped"]
InferProgram(e) ==
  LET r == Infer(InferState, NoTypes, e)
  IN  IF r.st.bad THEN Untyped ELSE Resolve(r.st.sub, r.t)

(* A value has a type; no value has a type that is only a variable.         *)
RECURSIVE HasType(_, _)
HasType(v, t) ==
  CASE v.t = "int" -> t = TInt
    [] v.t = "bool" -> t = TBool
    [] v.t = "str" -> t = TStr
    [] v.t = "list" -> t.k = "list" /\ \A i \in DOMAIN v.xs : HasType(v.xs[i], t.a)
    [] v.t = "data" ->
         LET s == SplitFun(Schemes[v.c].t)
             m == [n \in {s.result.ts[i].n : i \in DOMAIN s.result.ts} |->
                     t.ts[Min({i \in DOMAIN t.ts : s.result.ts[i].n = n})]]
         IN  /\ t.k = "data" /\ s.result.d = t.d
             /\ \A i \in DOMAIN v.xs : HasType(v.xs[i], ApplyMeta(m, s.fields[i]))
    [] OTHER -> t.k = "fun"
================================================================================
