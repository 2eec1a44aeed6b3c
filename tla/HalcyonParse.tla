------------------------------ MODULE HalcyonParse ------------------------------
(* The expression parser of halcyon.js, run on programs printed with as few *)
(* parentheses as their meaning needs: operator declarations, one top-level *)
(* definition and the final expression on a line of its own.  A token is    *)
(* [k: kind, v: text, ln: line]; declarations of types, classes and         *)
(* records, do blocks and projections are left out.                         *)
EXTENDS Integers, Sequences, FiniteSets, SequencesExt

CONSTANTS Sources,   \* the programs: [def, expr], two expressions each
          UserOps,   \* declared operators: name -> [level, assoc]
          Null

VARIABLES source, tokens, program

vars == <<source, tokens, program>>

OpLevel(op) ==
  CASE op = "||" -> 1 [] op = "&&" -> 2 [] op \in {"==", "!="} -> 3
    [] op \in {"<", "<=", ">", ">="} -> 4 [] op \in {"+", "-"} -> 5
    [] op \in {"*", "/"} -> 6 [] OTHER -> 10
OpKinds == {"||", "&&", "==", "!=", "<", "<=", ">", ">=", "+", "-", "*", "/"}

Var(x) == [k |-> "var", v |-> x]
Apply(f, a) == [k |-> "apply", a |-> f, b |-> a]
Bin(op, a, b) == [k |-> "bin", op |-> op, a |-> a, b |-> b]

(* What a parse gives back: an expression and where it stopped.             *)
At(e, i) == [ok |-> TRUE, e |-> e, i |-> i]
Failed == [ok |-> FALSE, e |-> Null, i |-> 0]
Then(r, F(_)) == IF r.ok THEN F(r) ELSE Failed

(* cx holds the tokens, the operators known and whether the body of a       *)
(* top-level let is being parsed.                                           *)
Tok(cx, i) == IF i <= Len(cx.ts) THEN cx.ts[i] ELSE [k |-> "eof", v |-> "", ln |-> 0]
Peek(cx, i) == Tok(cx, i).k
Consume(cx, r, kind) ==
  IF r.ok /\ Peek(cx, r.i) = kind THEN [r EXCEPT !.i = @ + 1] ELSE Failed
AtomStart == {"int", "ident", "(", "["}

RECURSIVE ParseExpr(_, _), ParseBinary(_, _, _), ParseBinRest(_, _, _),
          ParseUnary(_, _), ParseAppRest(_, _), ParseAtom(_, _),
          ParseItems(_, _), ParseBranches(_, _), ParseParams(_, _)

(* Items up to and including the closing bracket.                           *)
ParseItems(cx, r) ==
  Then(ParseExpr(cx, r.i), LAMBDA e :
    LET more == [r EXCEPT !.e = Append(@, e.e), !.i = e.i + 1]
    IN  CASE Peek(cx, e.i) = "," -> ParseItems(cx, more)
          [] Peek(cx, e.i) = "]" -> more
          [] OTHER -> Failed)
ParseList(cx, i) ==
  IF Peek(cx, i) = "]" THEN At([k |-> "list", es |-> <<>>], i + 1)
  ELSE Then(ParseItems(cx, At(<<>>, i)), LAMBDA r :
         At([k |-> "list", es |-> r.e], r.i))
ParseAtom(cx, i) ==
  CASE Peek(cx, i) \in {"int", "ident"} -> At(Var(Tok(cx, i).v), i + 1)
    [] Peek(cx, i) = "(" ->
         IF Peek(cx, i + 1) = "opname" /\ Peek(cx, i + 2) = ")"
         THEN At(Var(Tok(cx, i + 1).v), i + 3)
         ELSE Consume(cx, ParseExpr(cx, i + 1), ")")
    [] Peek(cx, i) = "[" -> ParseList(cx, i + 1)
    [] OTHER -> Failed
(* In the body of a top-level let an argument has to be on the line of what *)
(* was last consumed.                                                       *)
ParseAppRest(cx, r) ==
  IF \/ cx.bound /\ Tok(cx, r.i).ln > Tok(cx, r.i - 1).ln
     \/ Peek(cx, r.i) \notin AtomStart
  THEN r
  ELSE Then(ParseAtom(cx, r.i), LAMBDA a :
         ParseAppRest(cx, At(Apply(r.e, a.e), a.i)))
ParseUnary(cx, i) ==
  IF Peek(cx, i) \in {"!", "-"}
  THEN Then(ParseUnary(cx, i + 1), LAMBDA r :
         At([k |-> "unary", op |-> Peek(cx, i), a |-> r.e], r.i))
  ELSE Then(ParseAtom(cx, i), LAMBDA r : ParseAppRest(cx, r))

ParseBinary(cx, level, i) ==
  IF level > 9 THEN ParseUnary(cx, i)
  ELSE Then(ParseBinary(cx, level + 1, i), LAMBDA r : ParseBinRest(cx, level, r))
(* Operators of this level, the left operand known.                         *)
ParseBinRest(cx, level, r) ==
  LET op == Tok(cx, r.i)
      user == op.k = "opname"
      known == user /\ op.v \in DOMAIN cx.ops
      ent == cx.ops[op.v]
  IN  CASE op.k \in OpKinds /\ OpLevel(op.k) = level ->
             Then(ParseBinary(cx, level + 1, r.i + 1), LAMBDA b :
               ParseBinRest(cx, level, At(Bin(op.k, r.e, b.e), b.i)))
        [] user /\ ~known -> Failed
        [] known /\ ent.level = level ->
             Then(ParseBinary(cx, IF ent.assoc = "right" THEN level ELSE level + 1,
                              r.i + 1), LAMBDA b :
               LET t2 == Tok(cx, b.i)
               IN  IF /\ ent.assoc = "non" /\ t2.k = "opname"
                      /\ t2.v \in DOMAIN cx.ops /\ cx.ops[t2.v].level = level
                   THEN Failed
                   ELSE ParseBinRest(cx, level,
                          At(Apply(Apply(Var(op.v), r.e), b.e), b.i)))
        [] OTHER -> r

ParseParams(cx, r) ==
  IF Peek(cx, r.i) = "ident"
  THEN ParseParams(cx, At(Append(r.e, Tok(cx, r.i).v), r.i + 1)) ELSE r
ParseLambda(cx, i) ==
  LET ps == ParseParams(cx, At(<<>>, i))
  IN  IF ps.e = <<>> THEN Failed
      ELSE Then(Consume(cx, ps, "=>"), LAMBDA r :
           Then(ParseExpr(cx, r.i), LAMBDA b :
             At([k |-> "lambda", ps |-> ps.e, a |-> b.e], b.i)))
ParseIf(cx, i) ==
  Then(Consume(cx, ParseExpr(cx, i), "then"), LAMBDA c :
  Then(Consume(cx, ParseExpr(cx, c.i), "else"), LAMBDA a :
  Then(ParseExpr(cx, a.i), LAMBDA b :
    At([k |-> "if", c |-> c.e, a |-> a.e, b |-> b.e], b.i))))
(* A name, "=" and the expression bound to it.                              *)
ParseBinding(cx, i) ==
  IF Peek(cx, i) # "ident" \/ Peek(cx, i + 1) # "=" THEN Failed
  ELSE Then(ParseExpr(cx, i + 2), LAMBDA r :
         At([x |-> Tok(cx, i).v, a |-> r.e], r.i))
LetIn(b, body) == [k |-> "let", x |-> b.x, a |-> b.a, b |-> body]
ParseLet(cx, i) ==
  Then(Consume(cx, ParseBinding(cx, i), "in"), LAMBDA b :
  Then(ParseExpr(cx, b.i), LAMBDA r : At(LetIn(b.e, r.e), r.i)))
(* Branches for as long as a bar follows: the innermost match takes it.     *)
ParseBranches(cx, r) ==
  LET i == r.i
  IN  IF Peek(cx, i) # "ident" \/ Peek(cx, i + 1) # "=>" THEN Failed
      ELSE Then(ParseExpr(cx, i + 2), LAMBDA b :
             LET more == [r EXCEPT !.e = Append(@, <<Tok(cx, i).v, b.e>>), !.i = b.i]
             IN  IF Peek(cx, b.i) = "|"
                 THEN ParseBranches(cx, [more EXCEPT !.i = @ + 1]) ELSE more)
ParseMatch(cx, i) ==
  Then(Consume(cx, Consume(cx, ParseExpr(cx, i), "with"), "|"), LAMBDA s :
  Then(ParseBranches(cx, At(<<>>, s.i)), LAMBDA r :
    At([k |-> "match", a |-> s.e, bs |-> r.e], r.i)))
ParseExpr(cx, i) ==
  CASE Peek(cx, i) = "let" -> ParseLet(cx, i + 1)
    [] Peek(cx, i) = "if" -> ParseIf(cx, i + 1)
    [] Peek(cx, i) = "fn" -> ParseLambda(cx, i + 1)
    [] Peek(cx, i) = "match" -> ParseMatch(cx, i + 1)
    [] OTHER -> ParseBinary(cx, 1, i)

(* Declarations: an operator is declared once, at a level from 0 to 9, and  *)
(* is not one of the built-in ones.                                         *)
RECURSIVE ParseDefs(_, _, _)
ParseInfix(cx, i) ==
  LET name == Tok(cx, i + 2)
      level == Tok(cx, i + 1).v
  IN  IF \/ Peek(cx, i + 1) # "int" \/ level \notin 0 .. 9
         \/ name.k # "opname" \/ name.v \in DOMAIN cx.ops
      THEN Failed
      ELSE At(cx.ops @@ (name.v :> [level |-> level, assoc |-> Tok(cx, i).v]), i + 3)
ParseDefs(cx, defs, i) ==
  CASE Peek(cx, i) = "infix" ->
         Then(ParseInfix(cx, i), LAMBDA r :
           ParseDefs([cx EXCEPT !.ops = r.e], defs, r.i))
    [] Peek(cx, i) = "let" ->
         Then(ParseBinding([cx EXCEPT !.bound = TRUE], i + 1), LAMBDA b :
           IF Peek(cx, b.i) # "in" THEN ParseDefs(cx, Append(defs, b.e), b.i)
           ELSE Then(ParseExpr(cx, b.i + 1), LAMBDA r :
                  At([defs |-> defs, e |-> LetIn(b.e, r.e)], r.i)))
    [] Peek(cx, i) = "eof" -> At([defs |-> defs, e |-> Null], i)
    [] OTHER ->
         Then(ParseExpr(cx, i), LAMBDA r : At([defs |-> defs, e |-> r.e], r.i))
Rejected == [defs |-> <<>>, e |-> Null]
ParseProgram(ts) ==
  LET cx == [ts |-> ts, ops |-> [x \in {} |-> Null], bound |-> FALSE]
      r == ParseDefs(cx, <<>>, 1)
  IN  IF r.ok /\ Peek(cx, r.i) = "eof" THEN r.e ELSE Rejected

----------------------------------------------------------------------------
(* The printer: what the grammar at the head of the parser asks for.        *)
T(kind) == <<[k |-> kind, v |-> "", ln |-> 0]>>
Word(kind, v) == <<[k |-> kind, v |-> v, ln |-> 0]>>
Paren(s) == T("(") \o s \o T(")")
IsUser(e) == e.k = "apply" /\ e.a.k = "apply" /\ e.a.a.k = "var"
             /\ e.a.a.v \in DOMAIN UserOps
Level(e) ==
  CASE IsUser(e) -> UserOps[e.a.a.v].level
    [] e.k = "bin" -> OpLevel(e.op)
    [] e.k = "unary" -> 10
    [] e.k = "apply" /\ ~IsUser(e) -> 11
    [] e.k \in {"var", "list"} -> 12
    [] OTHER -> 0

RECURSIVE Show(_), EndsInMatch(_)
EndsInMatch(e) ==
  \/ e.k = "match"
  \/ e.k \in {"let", "if"} /\ EndsInMatch(e.b)
  \/ e.k = "lambda" /\ EndsInMatch(e.a)
(* An expression in a place that takes the given level and above.           *)
ShowAt(level, e) == IF Level(e) >= level THEN Show(e) ELSE Paren(Show(e))
Names(ps) == FlattenSeq([i \in DOMAIN ps |-> Word("ident", ps[i])])
Show(e) ==
  CASE e.k = "var" ->
         IF e.v \in DOMAIN UserOps THEN Paren(Word("opname", e.v))
         ELSE Word("ident", e.v)
    [] e.k = "list" ->
         T("[") \o FlattenSeq([i \in DOMAIN e.es |->
                     (IF i = 1 THEN <<>> ELSE T(",")) \o Show(e.es[i])]) \o T("]")
    [] e.k = "unary" -> T(e.op) \o ShowAt(10, e.a)
    [] IsUser(e) ->
         LET o == UserOps[e.a.a.v]
         IN  ShowAt(IF o.assoc = "left" THEN o.level ELSE o.level + 1, e.a.b)
             \o Word("opname", e.a.a.v)
             \o ShowAt(IF o.assoc = "right" THEN o.level ELSE o.level + 1, e.b)
    [] e.k = "apply" /\ ~IsUser(e) -> ShowAt(11, e.a) \o ShowAt(12, e.b)
    [] e.k = "bin" ->
         ShowAt(Level(e), e.a) \o T(e.op) \o ShowAt(Level(e) + 1, e.b)
    [] e.k = "lambda" -> T("fn") \o Names(e.ps) \o T("=>") \o Show(e.a)
    [] e.k = "if" -> T("if") \o Show(e.c) \o T("then") \o Show(e.a)
                     \o T("else") \o Show(e.b)
    [] e.k = "let" -> T("let") \o Word("ident", e.x) \o T("=") \o Show(e.a)
                      \o T("in") \o Show(e.b)
    [] e.k = "match" ->
         T("match") \o Show(e.a) \o T("with")
         \o FlattenSeq([i \in DOMAIN e.bs |->
              LET b == e.bs[i][2]
              IN  T("|") \o Word("ident", e.bs[i][1]) \o T("=>")
                  \o (IF i < Len(e.bs) /\ EndsInMatch(b) THEN Paren(Show(b))
                      ELSE Show(b))])

OnLine(ts, n) == [i \in DOMAIN ts |-> [ts[i] EXCEPT !.ln = n]]
Declared ==
  FlattenSeq([i \in 1 .. Cardinality(DOMAIN UserOps) |->
    LET x == SetToSeq(DOMAIN UserOps)[i]
    IN  Word("infix", UserOps[x].assoc) \o Word("int", UserOps[x].level)
        \o Word("opname", x)])
(* A final expression that starts with a minus is put in parentheses: the   *)
(* parser would go on with the definition above it.                         *)
Printed(s) ==
  LET last == Show(s.expr)
  IN  OnLine(Declared, 1)
      \o OnLine(T("let") \o Word("ident", "d") \o T("=") \o Show(s.def), 2)
      \o OnLine(IF last[1].k = "-" THEN Paren(last) ELSE last, 3)

Init == source \in Sources /\ tokens = <<>> /\ program = Null
Write ==
  /\ tokens = <<>>
  /\ tokens' = Printed(source)
  /\ UNCHANGED <<source, program>>
Parse ==
  /\ tokens # <<>> /\ program = Null
  /\ program' = ParseProgram(tokens)
  /\ UNCHANGED <<source, tokens>>
Next == Write \/ Parse
Spec == Init /\ [][Next]_vars

----------------------------------------------------------------------------
(* A program is read only once it is printed.                               *)
TypeOK == source \in Sources /\ (tokens = <<>> => program = Null)

(* What was printed is what is read: operators take their operands by level *)
(* and side, a definition ends with its line, a bar belongs to the innermost *)
(* match.                                                                   *)
ParsesBack ==
  program # Null =>
    program = [defs |-> <<[x |-> "d", a |-> source.def]>>, e |-> source.expr]
================================================================================
