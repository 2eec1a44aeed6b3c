------------------------------- MODULE HalcyonVm -------------------------------
(* The stack machine of halcyon.js (makeVm), one action per instruction, on *)
(* the compiled code of some programs, optimized or not.                    *)
EXTENDS HalcyonCompile, HalcyonTypes

CONSTANTS Programs,  \* name -> expression
          Joined     \* those of them whose rules fold across a jump target

VARIABLES job,     \* [prog, opt]: what runs
          stack,   \* operand stack, top first
          frames,  \* call frames, innermost first: [f, ctx, ip, base], where
                   \* base is, for the properties, the stack height it found
          ctxs,    \* the contexts: [cells, outer], shared by closures
          result   \* [t |-> "none"] until the machine halts

vars == <<job, stack, frames, ctxs, result>>

None == [t |-> "none"]
Uninit == [t |-> "uninit"]
Compiled(j) ==
  LET f == CompileProgram(Programs[j.prog]) IN IF j.opt THEN OptimizeFunc(f) ELSE f

Top == frames[1]
Instr == At(Top.f.code, Top.ip)
Running(ops) == result = None /\ Top.ip < Len(Top.f.code) /\ Instr.op \in ops
Popped(n) == SubSeq(stack, n + 1, Len(stack))
Args(n) == Reverse(SubSeq(stack, 1, n))   \* in the order they were pushed

Bump == [frames EXCEPT ![1].ip = @ + 1]
FailVm == result' = HErr /\ UNCHANGED <<job, stack, frames, ctxs>>
Push(pop, v) ==
  IF Len(stack) < pop \/ v = HErr THEN FailVm
  ELSE /\ stack' = <<v>> \o Popped(pop)
       /\ frames' = Bump
       /\ UNCHANGED <<job, ctxs, result>>
Goto(vs, to) ==
  /\ stack' = vs \o Popped(1)
  /\ frames' = [frames EXCEPT ![1].ip = to]
  /\ UNCHANGED <<job, ctxs, result>>

RECURSIVE WalkCtx(_, _)
WalkCtx(h, c) == IF h = 0 \/ c = 0 THEN c ELSE WalkCtx(h - 1, ctxs[c].outer)
ReadCell(c, s) ==
  IF c = 0 THEN HErr
  ELSE IF s \notin DOMAIN ctxs[c].cells THEN HErr
  ELSE IF ctxs[c].cells[s] = Uninit THEN HErr ELSE ctxs[c].cells[s]

PushConst == Running({"push_const"}) /\ Push(0, Instr.c)
PushLocal == Running({"push_local"}) /\ Push(0, ReadCell(Top.ctx, Instr.s))
(* Hops count from the context the function was made in.                    *)
PushUpvalue ==
  /\ Running({"push_upvalue"})
  /\ Push(0, ReadCell(WalkCtx(Instr.h, ctxs[Top.ctx].outer), Instr.s))
StoreLocal ==
  /\ Running({"store_local", "bind_local"})
  /\ IF stack = <<>> THEN FailVm
     ELSE /\ ctxs' = [ctxs EXCEPT ![Top.ctx].cells = Bind(@, Instr.s, Head(stack))]
          /\ stack' = Tail(stack) /\ frames' = Bump
          /\ UNCHANGED <<job, result>>
NewCell ==
  /\ Running({"new_cell"})
  /\ ctxs' = [ctxs EXCEPT ![Top.ctx].cells = Bind(@, Instr.s, Uninit)]
  /\ frames' = Bump
  /\ UNCHANGED <<job, stack, result>>
Pop ==
  /\ Running({"pop"})
  /\ IF stack = <<>> THEN FailVm ELSE Goto(<<>>, Top.ip + 1)

(* Unlike the interpreter's, this equality fails on what is not comparable. *)
RECURSIVE Eq2(_, _), EqSeq(_, _)
EqSeq(xs, ys) ==
  IF xs = <<>> THEN VBool(TRUE)
  ELSE LET r == Eq2(Head(xs), Head(ys))
       IN  IF r # VBool(TRUE) THEN r ELSE EqSeq(Tail(xs), Tail(ys))
Eq2(a, b) ==
  CASE a.t = b.t /\ a.t \in {"int", "bool", "str"} -> VBool(a.n = b.n)
    [] a.t = "list" /\ b.t = "list" ->
         IF Len(a.xs) # Len(b.xs) THEN VBool(FALSE) ELSE EqSeq(a.xs, b.xs)
    [] a.t = "data" /\ b.t = "data" ->
         IF a.c # b.c \/ Len(a.xs) # Len(b.xs) THEN VBool(FALSE)
         ELSE EqSeq(a.xs, b.xs)
    [] OTHER -> HErr
Binary ==
  /\ Running(BinOps)
  /\ LET a == stack[2]
         b == stack[1]
         eq == Eq2(a, b)
         v == IF Instr.op \notin {"eq", "ne"} THEN Binop(Instr.op, a, b)
              ELSE IF eq = HErr \/ Instr.op = "eq" THEN eq ELSE VBool(eq.n = 0)
     IN  IF Len(stack) < 2 THEN FailVm ELSE Push(2, IF v = OpErr THEN HErr ELSE v)
Unary ==
  /\ Running({"neg", "not"})
  /\ LET v == FoldUnary(Head(stack), Instr.op)
     IN  IF stack = <<>> THEN FailVm ELSE Push(1, IF v = OpErr THEN HErr ELSE v)

Jump ==
  /\ Running({"jump"})
  /\ frames' = [frames EXCEPT ![1].ip = Instr.to]
  /\ UNCHANGED <<job, stack, ctxs, result>>
JumpIfFalse ==
  /\ Running({"jump_if_false"})
  /\ IF stack = <<>> THEN FailVm
     ELSE IF Head(stack).t # "bool" THEN FailVm
     ELSE Goto(<<>>, IF Head(stack).n = 1 THEN Top.ip + 1 ELSE Instr.to)

MakeClosure ==
  /\ Running({"make_closure"})
  /\ Push(0, [t |-> "closure", f |-> Instr.f, ctx |-> Top.ctx, xs |-> <<>>])
MakeList ==
  /\ Running({"make_list"})
  /\ IF Len(stack) < Instr.n THEN FailVm ELSE Push(Instr.n, VList(Args(Instr.n)))
MakeData ==
  /\ Running({"make_data"})
  /\ LET n == Arity[Instr.c]
     IN  IF Len(stack) < n THEN FailVm ELSE Push(n, VData(Instr.c, Args(n)))

(* A call applies one argument.  With its last one a function gets a frame, *)
(* in tail position the caller's; anything else becomes a value at once,    *)
(* and in tail position the caller's frame is gone.                         *)
Applied(fn, arg) ==
  LET xs == Append(fn.xs, arg)
  IN  CASE fn.t = "closure" -> [fn EXCEPT !.xs = xs]
        [] fn.t = "constr" ->
             IF Len(xs) = Arity[fn.c] THEN VData(fn.c, xs) ELSE VConstr(fn.c, xs)
        [] fn.t = "builtin" ->
             IF Len(xs) = BuiltinArity(fn.c) THEN CompleteBuiltin(fn.c, xs)
             ELSE VBuiltin(fn.c, xs)
        [] OTHER -> HErr
Enters(fn) == fn.t = "closure" /\ Len(fn.xs) + 1 = fn.f.np
Frame(fn, base) == [f |-> fn.f, ctx |-> Len(ctxs) + 1, ip |-> 0, base |-> base]
Context(fn, arg) ==
  [cells |-> [s \in 0 .. fn.f.np - 1 |-> Append(fn.xs, arg)[s + 1]],
   outer |-> fn.ctx]
Call ==
  /\ Running({"call"})
  /\ IF Len(stack) < 2 THEN FailVm
     ELSE LET fn == stack[2]
              arg == stack[1]
          IN  IF ~Enters(fn) THEN Push(2, Applied(fn, arg))
              ELSE /\ stack' = Popped(2)
                   /\ ctxs' = Append(ctxs, Context(fn, arg))
                   /\ frames' = <<Frame(fn, Len(stack) - 2)>> \o Bump
                   /\ UNCHANGED <<job, result>>
(* The last frame gone, the machine halts with the top of the stack.        *)
Leave(st) ==
  /\ stack' = st /\ frames' = Tail(frames)
  /\ result' = IF Len(frames) > 1 THEN None
               ELSE IF st = <<>> THEN HErr ELSE Head(st)
  /\ UNCHANGED <<job, ctxs>>
TailCall ==
  /\ Running({"tail_call"})
  /\ IF Len(stack) < 2 THEN FailVm
     ELSE LET fn == stack[2]
              arg == stack[1]
              v == Applied(fn, arg)
          IN  IF Enters(fn)
              THEN /\ stack' = Popped(2)
                   /\ ctxs' = Append(ctxs, Context(fn, arg))
                   /\ frames' = <<Frame(fn, Top.base)>> \o Tail(frames)
                   /\ UNCHANGED <<job, result>>
              ELSE IF v = HErr THEN FailVm ELSE Leave(<<v>> \o Popped(2))
Return == Running({"return"}) /\ Leave(stack)

(* A test takes the value; it leaves the parts, the first on top, or jumps. *)
Test ==
  /\ Running({"test_nil", "test_cons", "test_lit", "test_constr"})
  /\ LET v == Head(stack)
         on == Top.ip + 1
     IN  IF stack = <<>> THEN FailVm
         ELSE CASE Instr.op = "test_lit" ->
                     Goto(<<>>, IF v = Instr.c THEN on ELSE Instr.to)
                [] Instr.op = "test_constr" ->
                     IF v.t # "data" THEN FailVm
                     ELSE IF v.c # Instr.c.c \/ Len(v.xs) # Len(Instr.c.xs)
                     THEN Goto(<<>>, Instr.to)
                     ELSE Goto(v.xs, on)
                [] OTHER ->
                     IF v.t # "list" THEN FailVm
                     ELSE IF (v.xs = <<>>) # (Instr.op = "test_nil")
                     THEN Goto(<<>>, Instr.to)
                     ELSE IF v.xs = <<>> THEN Goto(<<>>, on)
                     ELSE Goto(<<Head(v.xs), VList(Tail(v.xs))>>, on)
Fail == Running({"fail"}) /\ FailVm
Halt ==
  /\ Running({"halt"})
  /\ result' = IF stack = <<>> THEN HErr ELSE Head(stack)
  /\ UNCHANGED <<job, stack, frames, ctxs>>

Init ==
  /\ job \in [prog : DOMAIN Programs, opt : BOOLEAN]
  /\ stack = <<>>
  /\ ctxs = <<[cells |-> NoNames, outer |-> 0]>>
  /\ frames = <<[f |-> Compiled(job), ctx |-> 1, ip |-> 0, base |-> 0]>>
  /\ result = None
Next ==
  \/ PushConst \/ PushLocal \/ PushUpvalue \/ StoreLocal \/ NewCell \/ Pop
  \/ Binary \/ Unary \/ Jump \/ JumpIfFalse \/ MakeClosure \/ MakeList
  \/ MakeData \/ Call \/ TailCall \/ Return \/ Test \/ Fail \/ Halt
Spec == Init /\ [][Next]_vars /\ WF_vars(Next)

----------------------------------------------------------------------------
(* Every context and every instruction a frame is at exists.                *)
TypeOK ==
  /\ \A i \in DOMAIN frames :
       frames[i].ctx \in DOMAIN ctxs /\ frames[i].ip \in 0 .. Len(frames[i].f.code)
  /\ \A c \in DOMAIN ctxs : ctxs[c].outer < c

(* A value without the inside of its functions.                             *)
RECURSIVE Shown(_)
Shown(v) ==
  IF v.t \in {"list", "data"} THEN [v EXCEPT !.xs = [i \in DOMAIN @ |-> Shown(@[i])]]
  ELSE IF v.t \in {"int", "bool", "str"} THEN v
  ELSE IF v.t \in {"abort", "error"} THEN HErr ELSE [t |-> "function"]

(* The machine, on optimized code or plain, halts with what the interpreter *)
(* makes of the program, or fails where that does: the rewrites preserve    *)
(* the meaning (halcyon.js:4493).                                           *)
AgreesWithInterpreter ==
  result # None => Shown(result) = Shown(EvalProgram(Programs[job.prog]))
(* The same, save of a program optimized across a jump target: what is      *)
(* jumped to there is folded away (AgreesWithInterpreter then fails).       *)
JoinedAssumption ==
  Joined = {p \in DOMAIN Programs : JumpsIntoFold(CompileProgram(Programs[p]))}
AgreesUnlessJumpedInto == (job.opt /\ job.prog \in Joined) \/ AgreesWithInterpreter

(* A function returns with exactly its value above what it found.           *)
FramesBalance ==
  Running({"return"}) => Len(stack) = Top.base + 1

(* What a well-typed program ends with has the type it was given; where it  *)
(* fails, it is for a division, a match or a list builtin, never because a  *)
(* value is not what the instruction expects.                               *)
TypeIsKept ==
  LET t == InferProgram(Programs[job.prog])
  IN  result # None /\ t # Untyped =>
        IF Aborted(result) THEN Instr.op \in {"div", "fail", "call", "tail_call"}
        ELSE HasType(result, t)

(* Every program of the set ends (none of them loops).                      *)
Ended == result # None
Ends == <>Ended
================================================================================
