----------------------------- MODULE HalcyonModules -----------------------------
(* Import resolution of halcyon.js: the prelude's modules, then the         *)
(* program's, depth first.  A module defines one name; its other            *)
(* definitions move with it.                                                *)
EXTENDS Integers, Sequences, FiniteSets, SequencesExt

CONSTANTS Files,     \* modules the provider knows
          Prelude,   \* the prelude module, in Files or not
          Main,      \* the program, not a file
          Graphs,    \* the import lists that are tried: module -> paths
          Defines    \* module -> the name it defines

VARIABLES imports,   \* module -> paths it imports, one of Graphs
          work,      \* modules being resolved, innermost first: [m, todo]
          completed, \* modules resolved so far
          pre,       \* the prelude's modules in the order of their definitions
          merged,    \* modules merged so far in this part
          verdict    \* "none", or how resolution ended

vars == <<imports, work, completed, pre, merged, verdict>>

Root(todo) == <<[m |-> Main, todo |-> todo]>>
InProgress(m) == \E i \in DOMAIN work : work[i].m = m /\ m # Main
InPrelude == pre = <<Main>>   \* the mark of a prelude still being loaded

Init ==
  /\ imports \in Graphs
  /\ completed = {} /\ merged = <<>> /\ verdict = "none"
  /\ IF Prelude \in Files THEN work = Root(<<Prelude>>) /\ pre = <<Main>>
     ELSE work = Root(imports[Main]) /\ pre = <<>>

Stop(v) == verdict' = v /\ UNCHANGED <<imports, work, completed, pre, merged>>
Path == Head(work[1].todo)
Drop == [work EXCEPT ![1].todo = Tail(@)]
Busy == verdict = "none" /\ work[1].todo # <<>>
Missing == Busy /\ Path \notin Files /\ Stop("module not found")
(* A slip to notice: a module in progress is waited for.                    *)
CircularWaits == Busy /\ Path \in Files /\ InProgress(Path) /\ UNCHANGED vars
Circular == Busy /\ Path \in Files /\ InProgress(Path) /\ Stop("circular import")
Again ==
  /\ Busy /\ Path \in completed /\ ~InProgress(Path)
  /\ work' = Drop
  /\ UNCHANGED <<imports, completed, pre, merged, verdict>>
Enter ==
  /\ Busy /\ Path \in Files \ completed /\ ~InProgress(Path)
  /\ work' = <<[m |-> Path, todo |-> imports[Path]]>> \o Drop
  /\ UNCHANGED <<imports, completed, pre, merged, verdict>>
Idle == verdict = "none" /\ work[1].todo = <<>>
Leave ==
  /\ Idle /\ Len(work) > 1
  /\ completed' = completed \cup {work[1].m}
  /\ merged' = Append(merged, work[1].m)
  /\ work' = Tail(work)
  /\ UNCHANGED <<imports, pre, verdict>>
PreludeLoaded ==
  /\ Idle /\ Len(work) = 1 /\ InPrelude
  /\ pre' = merged /\ merged' = <<>>
  /\ work' = Root(imports[Main])
  /\ UNCHANGED <<imports, completed, verdict>>

(* The program's names win over the prelude's; a name defined twice apart   *)
(* from that is an error.                                                   *)
ApplyShadowing(prelude, user) ==
  SelectSeq(prelude, LAMBDA m : \A i \in DOMAIN user : Defines[user[i]] # Defines[m])
  \o user
DupLetName(defs) ==
  \E i, j \in DOMAIN defs : i # j /\ Defines[defs[i]] = Defines[defs[j]]
Resolved ==
  /\ Idle /\ Len(work) = 1 /\ ~InPrelude
  /\ merged' = ApplyShadowing(pre, Append(merged, Main))
  /\ verdict' = IF DupLetName(merged') THEN "duplicate definition" ELSE "resolved"
  /\ UNCHANGED <<imports, work, completed, pre>>
Next ==
  \/ Missing \/ Circular \/ Again \/ Enter \/ Leave \/ PreludeLoaded \/ Resolved
Spec == Init /\ [][Next]_vars /\ WF_vars(Next)

----------------------------------------------------------------------------
RECURSIVE Closure(_)
Closure(s) ==
  LET more == s \cup {p \in Files : \E m \in s : p \in ToSet(imports[m])}
  IN  IF more = s THEN s ELSE Closure(more)
Reachable == Closure({Main} \cup ({Prelude} \cap Files))
Behind(m) == Closure(ToSet(imports[m]) \cap Files)

TypeOK ==
  /\ completed \subseteq Files /\ work # <<>>
  /\ \A i \in DOMAIN work : work[i].m \in Files \cup {Main}

(* What is resolved has every module the program or the prelude reaches,    *)
(* once, unless the program took its name, and after everything it imports. *)
ImportsFirst ==
  verdict = "resolved" =>
    /\ IsInjective(merged)
    /\ \A m \in Reachable \ ToSet(merged) :
         m \in ToSet(pre) /\ \E u \in ToSet(merged) : Defines[u] = Defines[m]
    /\ \A i, j \in DOMAIN merged :
         merged[i] \in ToSet(imports[merged[j]]) => i < j
(* Resolution reports a cycle only where there is one, and never passes     *)
(* over one.                                                                *)
CyclesAreFound ==
  LET cyclic == \E m \in Reachable : m \in Behind(m)
  IN  /\ verdict = "circular import" => cyclic
      /\ verdict \in {"resolved", "duplicate definition"} => ~cyclic
(* Resolution ends, whatever imports what.                                  *)
Ended == verdict # "none"
Resolves == <>Ended
================================================================================
