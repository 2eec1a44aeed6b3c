------------------------------ MODULE UmbraDrill ------------------------------
(***************************************************************************)
(* What umbra's lessons and trials read off a bout (tutorial.js, dojo.js,   *)
(* and tickTutorial, claimTrials in app.js).                                *)
(*                                                                         *)
(* The bout itself is left to chance: a tick adds at most one event to the  *)
(* log, moves the student and may end the bout (UmbraBout has the rules).   *)
(***************************************************************************)
EXTENDS Integers, Sequences, FiniteSetsExt, SequencesExt

CONSTANTS
  Modes,        (* "tutorial", "dojo".                                      *)
  MaxLog        (* Bound: events in the log, by mode.                       *)

VARIABLES
  mode,
  log,          (* f.events: records [t, side, move].                       *)
  away,         (* The student is more than 0.2 from where it began.        *)
  winner,       (* 0, 1 (also for a draw) or Running.                       *)
  stepIndex,    (* The lesson, counted from 0; Lessons when all are done.   *)
  signature,    (* The summary that cleared the last lesson, or Nothing.    *)
  claimed,      (* Trials that were paid.                                   *)
  seen          (* Not in the code: goals some tick of the bout has shown.  *)

vars == <<mode, log, away, winner, stepIndex, signature, claimed, seen>>

Running == -2

---------------------------------------------------------------------------
(* Lessons.                                                                 *)

Steps == <<"move", "punch", "block", "special", "dash", "win">>
Lessons == Len(Steps)

(* What the shell hands the lessons each tick: position and state as far as *)
(* a lesson looks at them, and `spot` for the rest of them.                 *)
Summary(x, dash, evs, who, spot) ==
  [away |-> x, dash |-> dash, eventsSeen |-> evs, winner |-> who, spot |-> spot]
Nothing == Summary(FALSE, FALSE, <<>>, 1, 0)

Some(evs, t, side, moves) ==
  \E i \in DOMAIN evs : evs[i].t = t /\ evs[i].side = side /\ evs[i].move \in moves

(* Mutant: whose guard it was does not matter.                              *)
BlockedByAnyone(evs) == \E i \in DOMAIN evs : evs[i].t = "blocked"
(* blockedByTrainee: the events of the engine carry the attacker's side.    *)
BlockedByTrainee(evs) == \E i \in DOMAIN evs : evs[i].t = "blocked" /\ evs[i].side = 1

(* tutorialGoalMet *)
GoalMet(goal, s) ==
  CASE goal = "move"    -> s.away
    [] goal = "punch"   -> Some(s.eventsSeen, "hit", 0, {"jab"})
    [] goal = "block"   -> BlockedByTrainee(s.eventsSeen)
    [] goal = "special" -> Some(s.eventsSeen, "hit", 0, {"special", "uppercut"})
    [] goal = "dash"    -> s.dash
    [] goal = "win"     -> s.winner = 0

(* tutorialUpdate: at most one lesson a call, none on the same evidence.    *)
Advances(s) ==
  stepIndex < Lessons /\ GoalMet(Steps[stepIndex + 1], s) /\ signature # s
TutorialUpdate(s) ==
  IF mode = "tutorial" /\ Advances(s)
  THEN stepIndex' = stepIndex + 1 /\ signature' = s
  ELSE UNCHANGED <<stepIndex, signature>>

---------------------------------------------------------------------------
(* Trials.                                                                  *)

Trials ==
  [firstBlood |-> <<"jab">>, oneTwo |-> <<"jab", "cross">>,
   lowLine |-> <<"kick", "sweep">>, risingFang |-> <<"jab", "cross", "uppercut">>,
   sweepRiser |-> <<"sweep", "uppercut">>, stormMix |-> <<"kick", "jab", "cross">>]

MoveOrder == {"jab", "cross", "kick", "sweep", "uppercut"}

(* validateDojo, what concerns the sequences.                               *)
ValidDojo ==
  \A t \in DOMAIN Trials :
    Trials[t] # <<>> /\ \A i \in DOMAIN Trials[t] : Trials[t][i] \in MoveOrder

(* checkTrial: how much of the sequence the student's clean hits, read in   *)
(* order, have matched.                                                     *)
OwnHit(e, m) == e.t = "hit" /\ e.side = 0 /\ e.move = m
(* Mutant: the blows must follow one another.                               *)
MatchedInARow(want, evs) ==
  LET m[n \in Nat] ==
        IF n = 0 THEN 0 ELSE IF m[n - 1] >= Len(want) THEN m[n - 1]
        ELSE IF OwnHit(evs[n], want[m[n - 1] + 1]) THEN m[n - 1] + 1 ELSE 0
  IN m[Len(evs)]
Matching(want, evs) ==
  LET m[n \in Nat] ==
        IF n = 0 THEN 0
        ELSE IF m[n - 1] < Len(want) /\ OwnHit(evs[n], want[m[n - 1] + 1])
        THEN m[n - 1] + 1 ELSE m[n - 1]
  IN m
Matched(want, evs) == Matching(want, evs)[Len(evs)]
Passed(t, evs) == Matched(Trials[t], evs) >= Len(Trials[t])

(* claimTrials *)
ClaimTrials(evs) ==
  claimed' = IF mode = "dojo" THEN claimed \cup {t \in DOMAIN Trials : Passed(t, evs)}
             ELSE claimed

---------------------------------------------------------------------------
(* What a tick of either kind of bout may add.  The dummy of the dojo never *)
(* acts, and the gatekeeper does not block what the lessons count.          *)
Event(t, side, move) == [t |-> t, side |-> side, move |-> move]
Events ==
  IF mode = "dojo"
  THEN {Event("hit", 0, m) : m \in MoveOrder} \cup {Event("whiff", 0, "jab")}
  ELSE {Event("hit", 0, "jab"), Event("hit", 0, "uppercut"), Event("hit", 1, "jab"),
        Event("blocked", 1, "jab"), Event("blocked", 0, "jab")}

Init ==
  /\ mode \in Modes
  /\ log = <<>> /\ away = FALSE /\ winner = Running
  /\ stepIndex = 0 /\ signature = Nothing /\ claimed = {} /\ seen = {}

(* One tick of the bout, as handleFightEvents and tickTutorial see it.      *)
Tick(evs, x, dash, who, spot) ==
  /\ winner = Running
  /\ x # away => mode = "tutorial"
  /\ dash \/ spot = 1 => mode = "tutorial"
  /\ log' = evs /\ away' = x /\ winner' = who
  /\ ClaimTrials(evs)
  /\ LET s == Summary(x, dash, evs, who, spot)
     IN /\ TutorialUpdate(s)
        /\ seen' = seen \cup {g \in Range(Steps) : GoalMet(g, s)}
  /\ UNCHANGED mode

(* After the result nothing is read off the bout any more.                  *)
Over == winner # Running /\ UNCHANGED vars

Next ==
  \/ Over
  \/ \E evs \in {log} \cup (IF Len(log) < MaxLog[mode] THEN {Append(log, e) : e \in Events} ELSE {}),
        x \in BOOLEAN, dash \in BOOLEAN, who \in {Running, 0, 1}, spot \in {0, 1} :
       Tick(evs, x, dash, who, spot)

Spec == Init /\ [][Next]_vars

---------------------------------------------------------------------------
(* Properties.                                                              *)

TypeOK ==
  /\ mode \in Modes /\ Len(log) <= MaxLog[mode] /\ stepIndex \in 0..Lessons
  /\ claimed \subseteq DOMAIN Trials /\ seen \subseteq Range(Steps)

(* A lesson is cleared by its own evidence: every lesson behind the student *)
(* was shown at some tick, by the student and not by the gatekeeper, though *)
(* the whole log is read again each tick and one tick may show several.     *)
ShownByTrainee(g) ==
  CASE g = "punch"   -> \E i \in DOMAIN log : log[i] = Event("hit", 0, "jab")
    [] g = "special" -> \E i \in DOMAIN log : log[i] = Event("hit", 0, "uppercut")
    [] g = "block"   -> \E i \in DOMAIN log : log[i] = Event("blocked", 1, "jab")
    [] g = "win"     -> winner = 0
    [] OTHER         -> g \in seen
LessonsWereShown == \A i \in 1..stepIndex : ShownByTrainee(Steps[i])

(* A trial is claimed exactly when its moves can be found among the         *)
(* student's clean hits in their order, whatever lies between: reading      *)
(* greedily misses no way of finding them.                                  *)
Found(want, evs) ==
  \E at \in [1..Len(want) -> DOMAIN evs] :
    /\ \A i \in 1..Len(want) : evs[at[i]] = Event("hit", 0, want[i])
    /\ \A i, j \in 1..Len(want) : i < j => at[i] < at[j]
TrialsAreFound ==
  mode = "dojo" => claimed = {t \in DOMAIN Trials : Found(Trials[t], log)}
=============================================================================
