------------------------------- MODULE UmbraAI -------------------------------
(***************************************************************************)
(* The opponent of umbra (src/combat/ai.js): a state machine that decides   *)
(* every so often and acts on its decision every tick.                      *)
(*                                                                         *)
(* Distances are hundredths of the stage.  A roll of the dice is a choice;  *)
(* the thresholds of the rolls are left out, what a roll can lead to stays. *)
(***************************************************************************)
EXTENDS Integers

CONSTANTS
  Reach,         (* The bout's own table: move -> range.                    *)
  Fists,         (* The static table that stands in for it.                 *)
  Distances,     (* The distances the fighters may have.                    *)
  Reaction       (* REACTION_TICKS of the difficulty.                       *)

VARIABLES
  archetype, fsm,
  wait,          (* Ticks until nextThink.                                  *)
  dist, foe,     (* What the next tick will see.                            *)
  out            (* The input of the last tick, and what it saw.            *)

vars == <<archetype, fsm, wait, dist, foe, out>>

Archetypes == {"brawler", "turtle", "zoner"}
States == {"neutral", "approach", "punish", "retreat"}
FoeStates == {"idle", "attack", "stun"}
Still == [move |-> 0, strike |-> "none", block |-> FALSE, dash |-> FALSE,
          jump |-> FALSE, at |-> 0, fsm |-> "neutral"]
Vulnerable(f) == f \in {"attack", "stun"}

(* think, with the rolls left open: the nodes each temperament may choose.  *)
Choices(a, d) ==
  CASE a = "brawler" -> {"retreat"} \cup (IF d > 34 THEN {"approach"} ELSE {"punish", "approach"})
    [] a = "turtle" -> (IF d < 30 THEN {"neutral"} ELSE {}) \cup
                       (IF d > 34 THEN {"approach", "neutral"} ELSE {"punish", "neutral"})
    [] OTHER -> (IF d < 22 THEN {"retreat"} ELSE {}) \cup
                (IF d > 42 THEN {"approach"} ELSE {"punish", "neutral"})

(* Mutant: the bands are those of the fists.                                *)
ReachOfFists(move) == Fists[move] - 1
ReachOf(move) == Reach[move] - 1

(* tryStrike: nothing, or a strike whose band the foe is in.                *)
Strikes(d) ==
  {"none"} \cup
  IF d <= ReachOf("jab")
  THEN {"jab"} \cup {m \in {"sweep", "uppercut"} : d <= ReachOf(m)}
  ELSE {m \in {"kick"} : d <= ReachOf(m)}

Act(move, strikes, blocks, dashes, jumps) ==
  [move : move, strike : strikes, block : blocks, dash : dashes, jump : jumps,
   at : {dist}, fsm : {fsm'}]
No == {FALSE}
Maybe(c) == IF c THEN BOOLEAN ELSE No

(* The four branches of aiInput.                                            *)
Approach ==
  LET guarded == foe = "attack" /\ dist < 35
  IN Act({1}, Strikes(dist), No, Maybe(dist > 40), No)
     \cup IF guarded THEN Act({0}, Strikes(dist), {TRUE}, No, No) ELSE {}

Punish ==
  IF Vulnerable(foe)
  THEN IF dist <= ReachOf("kick") THEN Act({0}, Strikes(dist), No, No, No)
       ELSE Act({1}, {"none"}, No, No, No)
  ELSE IF dist > ReachOf("kick")
  THEN Act({1}, {"none"}, No, Maybe(dist > 45), No)
  ELSE Act({0, 1}, Strikes(dist), No, No, No)

Retreat ==
  Act({-1}, {"none"}, No, No, Maybe(dist < 15))
  \cup IF foe = "attack" /\ dist < 40 THEN Act({0}, {"none"}, {TRUE}, No, Maybe(dist < 15)) ELSE {}

Neutral ==
  IF foe = "attack" /\ dist < 40 THEN Act({0}, {"none"}, BOOLEAN, No, No)
  ELSE (IF archetype = "turtle" /\ dist < 30 THEN Act({0}, {"none"}, {TRUE}, No, No) ELSE {})
       \cup IF Vulnerable(foe) /\ dist <= ReachOf("kick")
            THEN Act({0}, Strikes(dist), No, No, No)
            ELSE Act({0, IF dist > 36 THEN 1 ELSE -1}, {"none"}, No, No, No)

(* aiInput: decide when it is time, then act.  The archetype may have been  *)
(* changed by the stance of a duelist boss since the decision.              *)
AiInput ==
  /\ IF wait > 0 THEN fsm' = fsm /\ wait' = wait - 1
     ELSE /\ fsm' \in Choices(archetype, dist)
          /\ wait' \in Reaction - 1..2 * Reaction - 2
  /\ out' \in CASE fsm' = "approach" -> Approach [] fsm' = "punish" -> Punish
                [] fsm' = "retreat" -> Retreat [] OTHER -> Neutral
  /\ dist' \in Distances /\ foe' \in FoeStates
  /\ UNCHANGED archetype

Stance ==
  /\ archetype' \in Archetypes \ {archetype}
  /\ UNCHANGED <<fsm, wait, dist, foe, out>>

Init ==
  /\ archetype \in Archetypes /\ fsm = "neutral" /\ wait = 0
  /\ dist \in Distances /\ foe = "idle" /\ out = Still

Next == AiInput \/ Stance

Spec == Init /\ [][Next]_vars

---------------------------------------------------------------------------
(* Properties.                                                              *)

TypeOK ==
  /\ archetype \in Archetypes /\ fsm \in States
  /\ wait \in 0..2 * Reaction /\ dist \in Distances

(* "the AI never plans strikes outside real reach of the bout it fights in" *)
(* (ai.js): whatever it decided and however long ago, with every table.     *)
PlansInReach == out.strike # "none" => out.at < Reach[out.strike]
=============================================================================
