---------------------------- MODULE HalcyonCompile ----------------------------
(* The bytecode compiler of halcyon.js and its optimizer.  An instruction   *)
(* holds its constant itself: the constant pool and its indices are left    *)
(* out.  Offsets count from 0, as in the code.                              *)
EXTENDS HalcyonEval, FiniteSetsExt

(* The compiler's state: one scope per function being compiled (locals      *)
(* newest first), and the code, next slot and labels of the innermost one.  *)
Scope(names) ==
  [locals |-> [i \in DOMAIN names |-> [x |-> names[i], s |-> i - 1]],
   upvals |-> <<>>]
CompileState ==
  [scopes |-> <<Scope(<<>>)>>, code |-> <<>>, cell |-> 0,
   labels |-> [l \in {} |-> 0], label |-> 0]

(* The same sequence, as a tuple: its elements are computed once.           *)
Settled(seq) == <<>> \o seq

Emit(st, i) == [st EXCEPT !.code = Append(@, i)]
EmitOp(st, op) == Emit(st, [op |-> op])
EmitSlot(st, op, s) == Emit(st, [op |-> op, s |-> s])
EmitJumpTo(st, lab) == Emit(st, [op |-> "jump", to |-> lab])
EmitTestTo(st, lab, op, c) == Emit(st, [op |-> op, c |-> c, to |-> lab])
NewLabel(st) == [st EXCEPT !.label = @ + 1]
DefineLabel(st, lab) == [st EXCEPT !.labels = Bind(@, lab, Len(st.code))]
ResolvePatches(st) ==
  Settled([i \in DOMAIN st.code |->
     LET at == st.code[i]
     IN  IF "to" \notin DOMAIN at THEN at
         ELSE [at EXCEPT !.to = IF @ \in DOMAIN st.labels THEN st.labels[@] ELSE 0]])
RegisterTempSlot(st) == [st EXCEPT !.cell = @ + 1]
(* A local stays registered until its function ends: leaving the body of a  *)
(* let or of a match branch does not unregister it.                         *)
RegisterLocal(x, st) ==
  [st EXCEPT !.scopes[1].locals = <<[x |-> x, s |-> st.cell]>> \o @,
             !.cell = @ + 1]

Knows(seq, x) == \E i \in DOMAIN seq : seq[i].x = x
Find(seq, x) == seq[Min({i \in DOMAIN seq : seq[i].x = x})]
(* A name is looked up in this function, then outward: how many functions   *)
(* up, and which slot there.  Nothing found is a compile error.             *)
ResolveRef(x, st) ==
  LET here == st.scopes[1]
      outer == {k \in 2 .. Len(st.scopes) :
                  Knows(st.scopes[k].locals, x) \/ Knows(st.scopes[k].upvals, x)}
      k == Min(outer)
      there == st.scopes[k]
      up == IF Knows(there.locals, x)
            THEN [x |-> x, h |-> k - 2, s |-> Find(there.locals, x).s]
            ELSE [x |-> x, h |-> k - 1 + Find(there.upvals, x).h,
                  s |-> Find(there.upvals, x).s]
  IN  IF Knows(here.locals, x)
      THEN EmitSlot(st, "push_local", Find(here.locals, x).s)
      ELSE IF Knows(here.upvals, x)
      THEN Emit(st, [op |-> "push_upvalue", h |-> Find(here.upvals, x).h,
                     s |-> Find(here.upvals, x).s])
      ELSE IF outer = {} THEN EmitOp(st, "unbound")
      ELSE Emit([st EXCEPT !.scopes[1].upvals = Append(@, up)],
                [op |-> "push_upvalue", h |-> up.h, s |-> up.s])

RECURSIVE PatternVars(_)
PatternVars(p) ==
  CASE p.k = "pvar" -> {p.x}
    [] p.k = "pcons" -> PatternVars(p.h) \cup PatternVars(p.r)
    [] p.k \in {"plist", "pconstr"} -> UNION {PatternVars(q) : q \in ToSet(p.ps)}
    [] OTHER -> {}

(* The test chain of a pattern against the top of the stack: the parts of   *)
(* a compound are parked in temporary slots and pushed again one by one.    *)
RECURSIVE CompilePattern(_, _, _), CompileParts(_, _, _, _)
CompileParts(fail, ps, temps, st) ==
  IF ps = <<>> THEN st
  ELSE CompileParts(fail, Tail(ps), Tail(temps),
         CompilePattern(fail, Head(ps), EmitSlot(st, "push_local", Head(temps))))
(* n temporaries, bound from the top of the stack down.                     *)
Park(n, st) ==
  FoldLeft(LAMBDA s, i : EmitSlot(RegisterTempSlot(s), "bind_local", s.cell),
           st, [i \in 1 .. n |-> i])
CompilePattern(fail, p, st) ==
  LET temps(n) == [i \in 1 .. n |-> st.cell + i - 1]
      cons(h, r) == CompileParts(fail, <<h, r>>, temps(2),
                      Park(2, EmitTestTo(st, fail, "test_cons", HErr)))
  IN  CASE p.k = "pwild" -> EmitOp(st, "pop")
        [] p.k = "pvar" ->
             EmitSlot(st, "bind_local", Find(st.scopes[1].locals, p.x).s)
        [] p.k = "plit" -> EmitTestTo(st, fail, "test_lit", p.v)
        [] p.k = "pnil" -> EmitTestTo(st, fail, "test_nil", HErr)
        [] p.k = "pcons" -> cons(p.h, p.r)
        [] p.k = "plist" ->
             IF p.ps = <<>> THEN EmitTestTo(st, fail, "test_nil", HErr)
             ELSE cons(Head(p.ps), [k |-> "plist", ps |-> Tail(p.ps)])
        [] p.k = "pconstr" ->
             CompileParts(fail, p.ps, temps(Len(p.ps)),
               Park(Len(p.ps),
                    EmitTestTo(st, fail, "test_constr", VConstr(p.c, p.ps))))

RECURSIVE Spine(_, _)
Spine(f, as) == IF f.k = "apply" THEN Spine(f.f, <<f.a>> \o as) ELSE <<f, as>>
(* A constructor with all its arguments is built in place.                  *)
SaturatedConstr(e) ==
  LET sp == Spine(e.f, <<e.a>>)
  IN  sp[1].k = "constr" /\ Arity[sp[1].c] = Len(sp[2])

RECURSIVE CompileExpr(_, _, _)
CompileAll(es, st) ==
  FoldLeft(LAMBDA s, e : CompileExpr(FALSE, e, s), st, es)

(* A function is compiled in a scope of its own; the enclosing state comes  *)
(* back afterwards.                                                         *)
BuildFunc(ps, body, st) ==
  LET inner == [CompileState EXCEPT !.scopes = <<Scope(ps)>> \o st.scopes,
                                    !.cell = Len(ps)]
      done == EmitOp(CompileExpr(TRUE, body, inner), "return")
  IN  [np |-> Len(ps), code |-> ResolvePatches(done),
       upvals |-> done.scopes[1].upvals]
CompileLambda(ps, body, st) ==
  Emit(st, [op |-> "make_closure", f |-> BuildFunc(ps, body, st)])

(* The slot of a lambda's name is registered before the lambda is compiled, *)
(* rec or not; that of any other name after.                                *)
CompileLet(inTail, e, st) ==
  IF e.bound.k = "lambda"
  THEN LET s0 == RegisterLocal(e.x, st)
           s1 == IF e.rec THEN EmitSlot(s0, "new_cell", st.cell) ELSE s0
           s2 == CompileLambda(e.bound.ps, e.bound.body, s1)
       IN  CompileExpr(inTail, e.body, EmitSlot(s2, "store_local", st.cell))
  ELSE LET s1 == CompileExpr(FALSE, e.bound, st)
           s2 == EmitSlot(RegisterLocal(e.x, s1), "store_local", s1.cell)
       IN  CompileExpr(inTail, e.body, s2)

(* All branches' tests come first, then their bodies; every pattern         *)
(* variable of every branch is a local from the start.                      *)
CompileMatch(inTail, e, st) ==
  LET n == Len(e.bs)
      s0 == CompileExpr(FALSE, e.a, st)
      s1 == EmitSlot(RegisterLocal("$scr", s0), "store_local", s0.cell)
      names == UNION {PatternVars(e.bs[i][1]) : i \in 1 .. n}
      s2 == FoldLeft(LAMBDA s, x : RegisterLocal(x, s), s1, SetToSeq(names))
      l == s2.label   \* start labels l.., body labels l + n.., end, fail
      s3 == [s2 EXCEPT !.label = @ + 2 * n + 2]
      test(s, i) ==
        EmitJumpTo(
          CompilePattern(IF i < n THEN l + i ELSE l + 2 * n + 1, e.bs[i][1],
            EmitSlot(DefineLabel(s, l + i - 1), "push_local", s0.cell)),
          l + n + i - 1)
      body(s, i) ==
        EmitJumpTo(CompileExpr(inTail, e.bs[i][2],
                               DefineLabel(s, l + n + i - 1)), l + 2 * n)
      order == [i \in 1 .. n |-> i]
      s4 == FoldLeft(test, s3, order)
      s5 == EmitOp(DefineLabel(s4, l + 2 * n + 1), "fail")
  IN  DefineLabel(FoldLeft(body, s5, order), l + 2 * n)

CompileExpr(inTail, e, st) ==
  CASE e.k = "lit" -> Emit(st, [op |-> "push_const", c |-> e.v])
    [] e.k = "builtin" ->
         Emit(st, [op |-> "push_const", c |-> VBuiltin(e.c, <<>>)])
    [] e.k = "list" -> Emit(CompileAll(e.es, st),
                            [op |-> "make_list", n |-> Len(e.es)])
    [] e.k = "var" -> ResolveRef(e.x, st)
    [] e.k = "constr" ->
         IF Arity[e.c] = 0 THEN Emit(st, [op |-> "make_data", c |-> e.c])
         ELSE Emit(st, [op |-> "push_const", c |-> VConstr(e.c, <<>>)])
    [] e.k = "lambda" -> CompileLambda(e.ps, e.body, st)
    [] e.k = "apply" ->
         IF SaturatedConstr(e)
         THEN LET sp == Spine(e.f, <<e.a>>)
              IN  Emit(CompileAll(sp[2], st), [op |-> "make_data", c |-> sp[1].c])
         ELSE EmitOp(CompileAll(<<e.f, e.a>>, st),
                     IF inTail THEN "tail_call" ELSE "call")
    [] e.k = "let" -> CompileLet(inTail, e, st)
    [] e.k = "if" ->
         LET s0 == CompileExpr(FALSE, e.c, st)
             s1 == Emit(NewLabel(s0), [op |-> "jump_if_false", to |-> s0.label])
             s2 == CompileExpr(inTail, e.a, s1)
             s3 == DefineLabel(EmitJumpTo(NewLabel(s2), s2.label), s0.label)
         IN  DefineLabel(CompileExpr(inTail, e.b, s3), s2.label)
    [] e.k = "match" -> CompileMatch(inTail, e, st)
    [] e.k = "bin" -> EmitOp(CompileAll(<<e.a, e.b>>, st), e.op)
    [] e.k \in {"neg", "not"} -> EmitOp(CompileExpr(FALSE, e.a, st), e.k)

CompileProgram(e) ==
  [np |-> 0, upvals |-> <<>>,
   code |-> ResolvePatches(EmitOp(CompileExpr(TRUE, e, CompileState), "halt"))]

----------------------------------------------------------------------------
(* The optimizer.                                                           *)

At(code, i) == code[i + 1]
Offsets(code) == 0 .. Len(code) - 1
Successors(code, i) ==
  LET at == At(code, i)
  IN  IF at.op = "jump" THEN {at.to}
      ELSE IF "to" \in DOMAIN at THEN {at.to, i + 1}
      ELSE IF at.op \in {"tail_call", "return", "fail", "halt"} THEN {}
      ELSE {i + 1}
(* The offsets control reaches from 0 without passing one.                  *)
RECURSIVE Reached(_, _, _)
Reached(code, without, s) ==
  LET s2 == s \cup {k \in Offsets(code) \ {without} :
                    \E i \in s : k \in Successors(code, i)}
  IN  IF s2 = s THEN s ELSE Reached(code, without, s2)
ReachableOffsets(code) == Reached(code, -1, {0})

(* Code with the offset each instruction had before a pass; a target that   *)
(* is gone becomes the first survivor after it.                             *)
Tagged(code) == [i \in DOMAIN code |-> [at |-> i - 1, i |-> code[i]]]
Plain(tagged) == Settled([j \in DOMAIN tagged |-> tagged[j].i])
CloseTargets(tagged, t) == Min({j \in DOMAIN tagged : tagged[j].at >= t}) - 1
PatchTargets(tagged) ==
  Settled([j \in DOMAIN tagged |->
     IF "to" \notin DOMAIN tagged[j].i THEN tagged[j].i
     ELSE [tagged[j].i EXCEPT !.to = CloseTargets(tagged, @)]])

Dce(code) ==
  LET live == ReachableOffsets(code)
  IN  PatchTargets(SelectSeq(Tagged(code), LAMBDA x : x.at \in live))

(* A slip to notice: only the closures made here are asked.                 *)
CapturedByDirect(d, code) ==
  UNION {LET f == code[i].f
         IN  {f.upvals[u].s : u \in {v \in DOMAIN f.upvals : f.upvals[v].h = d}}
         : i \in {j \in DOMAIN code : code[j].op = "make_closure"}}

(* Slots of this frame that a nested closure reads, at any depth.           *)
RECURSIVE CapturedByNested(_, _)
CapturedByNested(d, code) ==
  UNION {LET f == code[i].f
         IN  {f.upvals[u].s : u \in {v \in DOMAIN f.upvals : f.upvals[v].h = d}}
             \cup CapturedByNested(d + 1, f.code)
         : i \in {j \in DOMAIN code : code[j].op = "make_closure"}}

(* Every way to offset r passes c.                                          *)
Dominates(code, c, r) == c = 0 \/ r \notin Reached(code, c, {0})

Reads(code, s) == {i \in Offsets(code) : At(code, i) = [op |-> "push_local", s |-> s]}
Stores(code, s) ==
  {i \in Offsets(code) : At(code, i).op \in {"store_local", "bind_local"}
                         /\ At(code, i).s = s}
(* A slot written once, from a constant or another slot, and read once      *)
(* where that write has happened is read from its source instead, and the   *)
(* write dropped (also where the source itself is not eligible).            *)
PropagatePass(captured, code) ==
  LET fed(s) == \E i \in Stores(code, s) :
                  i > 0 /\ At(code, i - 1).op \in {"push_const", "push_local"}
      feed(s) == Min(Stores(code, s)) - 1
      qset == {s \in Offsets(code) :
                 /\ Cardinality(Reads(code, s)) = 1
                 /\ Cardinality(Stores(code, s)) = 1
                 /\ s \notin captured /\ fed(s)
                 /\ Dominates(code, feed(s), Min(Reads(code, s)))}
      source[s \in qset] ==
        LET from == At(code, feed(s))
        IN  IF from.op = "push_const" THEN from
            ELSE IF from.s \in qset THEN source[from.s]
            ELSE IF Cardinality(Stores(code, from.s)) <= 1 /\ from.s \notin captured
            THEN from ELSE [op |-> "none"]
  IN  Settled([i \in DOMAIN code |->
         LET at == code[i]
         IN  IF "s" \notin DOMAIN at \/ "h" \in DOMAIN at THEN at
             ELSE IF at.s \notin qset THEN at
             ELSE IF at.op = "push_local"
             THEN IF source[at.s].op = "none" THEN at ELSE source[at.s]
             ELSE IF at.op \in {"store_local", "bind_local"} THEN [op |-> "pop"]
             ELSE at])
RECURSIVE PropagateCopies(_, _)
PropagateCopies(captured, code) ==
  LET code2 == PropagatePass(captured, code)
  IN  IF code2 = code THEN code ELSE PropagateCopies(captured, code2)

BinOps == {"add", "sub", "mul", "div", "lt", "le", "gt", "ge", "eq", "ne", "and", "or"}
(* Folding refuses what would fail at run time, and comparing functions.    *)
FoldBin(a, b, op) ==
  IF op \in {"eq", "ne"} /\ (a.t # b.t \/ a.t \notin {"int", "bool", "str", "list"})
  THEN OpErr ELSE Binop(op, a, b)
FoldUnary(v, op) ==
  IF op = "neg" /\ v.t = "int" THEN VInt(-v.n)
  ELSE IF op = "not" /\ v.t = "bool" THEN VBool(v.n = 0) ELSE OpErr
Const(v) == [op |-> "push_const", c |-> v]

(* One pass of the peephole rules, first match first.  A folded run keeps   *)
(* the offset of its first instruction; the offsets of the others are gone, *)
(* jumped to or not.                                                        *)
RECURSIVE RewriteCode(_, _)
RewriteCode(dead, code) ==
  LET op(j) == IF j <= Len(code) THEN code[j].i.op ELSE ""
      x == code[1].i
      bin == FoldBin(x.c, code[2].i.c, op(3))
      un == FoldUnary(x.c, op(2))
      to(i, n) == <<[code[1] EXCEPT !.i = i]>>
                  \o RewriteCode(dead, SubSeq(code, n + 1, Len(code)))
      drop(n) == RewriteCode(dead, SubSeq(code, n + 1, Len(code)))
      isConst(j) == op(j) = "push_const"
  IN  IF code = <<>> THEN <<>>
      ELSE IF isConst(1) /\ isConst(2) /\ op(3) \in BinOps /\ bin # OpErr
      THEN to(Const(bin), 3)
      ELSE IF isConst(1) /\ op(2) \in {"neg", "not"} /\ un # OpErr
      THEN to(Const(un), 2)
      ELSE IF op(1) \in {"push_const", "push_local", "push_upvalue"} /\ op(2) = "pop"
      THEN drop(2)
      ELSE IF op(1) = "store_local" /\ x.s \in dead THEN to([op |-> "pop"], 1)
      ELSE IF op(1) = "new_cell" /\ x.s \in dead THEN drop(1)
      ELSE IF op(1) = "jump" /\ op(2) # "" /\ x.to = code[2].at THEN drop(1)
      ELSE to(x, 1)
RECURSIVE Fixpoint(_, _)
Fixpoint(dead, code) ==
  LET code2 == RewriteCode(dead, code)
  IN  IF Plain(code2) = Plain(code) THEN code2 ELSE Fixpoint(dead, code2)

(* Nested functions first; targets are closed once, at the end.             *)
RECURSIVE OptimizeFunc(_)
Rewritten(f) ==
  LET code0 == Settled([i \in DOMAIN f.code |->
                  IF f.code[i].op # "make_closure" THEN f.code[i]
                  ELSE [f.code[i] EXCEPT !.f = OptimizeFunc(@)]])
      captured == CapturedByNested(0, code0)
      code1 == PropagateCopies(captured, Dce(code0))
      slots == {code1[i].s : i \in {j \in DOMAIN code1 : "s" \in DOMAIN code1[j]}}
      dead == {s \in slots \ captured : Reads(code1, s) = {}}
  IN  [from |-> code1, code |-> Fixpoint(dead, Tagged(code1))]
OptimizeFunc(f) == [f EXCEPT !.code = PatchTargets(Rewritten(f).code)]

(* For the properties: a rule made one instruction, or none, of a run with  *)
(* a jump target inside, in f or in a function made there.                  *)
RECURSIVE JumpsIntoFold(_)
JumpsIntoFold(f) ==
  LET r == Rewritten(f)
      kept == {x.at : x \in ToSet(r.code)}
      lost == {r.from[i].to : i \in {j \in DOMAIN r.from : "to" \in DOMAIN r.from[j]}} \ kept
  IN  \/ \E t \in lost : At(r.from, t).op \notin {"jump", "new_cell"}
      \/ \E i \in DOMAIN f.code :
           f.code[i].op = "make_closure" /\ JumpsIntoFold(f.code[i].f)
================================================================================
