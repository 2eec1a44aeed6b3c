------------------------------ MODULE UmbraChain ------------------------------
(***************************************************************************)
(* The strings of blows umbra's weapons allow (combos.js, the ticks of      *)
(* fighter.js and the merge of engine.js): one side strikes as it likes,    *)
(* the other is struck.                                                     *)
(*                                                                         *)
(* One action per simulated tick outside hitstop, in which nobody moves.    *)
(* Frames, damages and cancels are those of the tables.  The striker is     *)
(* always in reach and the victim never guards: the worst case for it.      *)
(***************************************************************************)
EXTENDS Integers, UmbraMoves

CONSTANTS
  Power,      (* Damage of the striker, percent (upgradeEffect).            *)
  Rolls,      (* What the hash of the bout may add to a blow.               *)
  LeastHp     (* Health of the frailest foe.                                *)

VARIABLES
  weapon,
  move, swing,   (* The striker's move, or None, and its ticks (moveTick).  *)
  struck,        (* didHit of the move.                                     *)
  condition, daze,  (* The victim's state and stunTick.                     *)
  combo,         (* Blows the striker's counter holds.                      *)
  hurt           (* Damage taken since the victim could last act.           *)

vars == <<weapon, move, swing, struck, condition, daze, combo, hurt>>

None == "none"

---------------------------------------------------------------------------
(* combos.js.  The counter drops when ninety ticks pass without a blow,     *)
(* which never happens to a victim that cannot act.                         *)
ComboScale(hits) == IF 112 - 12 * hits < 35 THEN 35 ELSE 112 - 12 * hits
Counted == 7
AdvanceCombo(hits, free) ==
  {IF hits < Counted THEN hits + 1 ELSE Counted} \cup (IF free THEN {1} ELSE {})

(* Mutant: the power, a percentage, is taken for a factor.                  *)
DamageByFactor(mv, hits, roll) ==
  ((mv.damage * ComboScale(hits) * Power + 50) \div 100) + roll
(* The damage line of resolveHit.                                           *)
Damage(mv, hits, roll) ==
  LET dmg == ((mv.damage * ComboScale(hits) * Power + 5000) \div 10000) + roll
  IN IF dmg < 1 THEN 1 ELSE dmg

(* Bound: what exceeds the least health is not told apart.                  *)
Least(n) == IF n > LeastHp THEN LeastHp ELSE n

(* The state a clean blow leaves; one that launches is over with landing.   *)
Launches(mv) == mv.knockback >= 14
Blow(mv) ==
  IF Launches(mv) THEN [state |-> "down", stun |-> 1]
  ELSE [state |-> IF mv.stun >= 20 THEN "stun" ELSE "hit", stun |-> mv.stun]

(* stepFighter of the struck side.                                          *)
Recovered(state, stun) ==
  IF state # "idle" /\ stun > 0 THEN [state |-> state, stun |-> stun - 1]
  ELSE [state |-> "idle", stun |-> 0]

(* Mutant: the condition of the copy always wins.                           *)
MergeAlways(live, copy, before) == copy
(* mergeDefender: the condition counts when it is another than before.      *)
MergeDefender(live, copy, before) == IF copy.state # before THEN copy ELSE live

---------------------------------------------------------------------------
Init ==
  /\ weapon \in WeaponIds
  /\ move = None /\ swing = 0 /\ struck = FALSE
  /\ condition = "idle" /\ daze = 0 /\ combo = 0 /\ hurt = 0

Unstruck ==
  /\ condition' = Recovered(condition, daze).state
  /\ daze' = Recovered(condition, daze).stun
  /\ hurt' = IF condition = "idle" THEN 0 ELSE hurt
  /\ UNCHANGED combo

Start(m) == move' = m /\ swing' = 0 /\ struck' = FALSE

(* selectMove: from a stand only a cross cannot be asked for.               *)
Strike(m) ==
  /\ move = None /\ m # "cross"
  /\ Start(m) /\ Unstruck /\ UNCHANGED weapon

Rest == move = None /\ condition # "idle" /\ Unstruck /\ UNCHANGED <<weapon, move, swing, struck>>

(* attackTick: after the startup a press may start a move of the list.      *)
Cancel(m) ==
  /\ move # None
  /\ LET mv == MovesForWeapon(weapon)[move]
     IN swing + 1 >= mv.startup /\ m \in mv.cancelInto
  /\ Start(m) /\ Unstruck /\ UNCHANGED weapon

(* Otherwise the move goes on, strikes once in its active ticks, and ends.  *)
Lands(mv) ==
  /\ ~struck /\ condition # "down"
  /\ swing + 1 >= mv.startup /\ swing + 1 < mv.startup + mv.active

ResolveHit(mv, roll) ==
  LET after == MergeDefender(Recovered(condition, daze), Blow(mv), condition)
  IN /\ condition' = after.state /\ daze' = after.stun
     /\ combo' \in AdvanceCombo(combo, condition = "idle")
     /\ hurt' = Least((IF condition = "idle" THEN 0 ELSE hurt) + Damage(mv, combo', roll))

Swing(roll) ==
  /\ move # None
  /\ LET mv == MovesForWeapon(weapon)[move]
         ends == swing + 1 >= Total(mv)
     IN /\ IF Lands(mv) THEN ResolveHit(mv, roll) ELSE Unstruck
        /\ struck' = (~ends /\ (struck \/ Lands(mv)))
        /\ move' = IF ends THEN None ELSE move
        /\ swing' = IF ends THEN 0 ELSE swing + 1
  /\ UNCHANGED weapon

Next ==
  \/ \E m \in MoveIds : Strike(m) \/ Cancel(m)
  \/ \E roll \in Rolls : Swing(roll)
  \/ Rest

Spec == Init /\ [][Next]_vars

---------------------------------------------------------------------------
(* Properties.                                                              *)

TypeOK ==
  /\ weapon \in WeaponIds /\ move \in MoveIds \cup {None}
  /\ swing \in 0..40 /\ struck \in BOOLEAN /\ combo \in 0..Counted
  /\ condition \in {"idle", "hit", "stun", "down"} /\ daze \in 0..28 /\ hurt \in 0..LeastHp

(* No string of blows, whatever is cancelled and linked, takes a foe from   *)
(* full health to none before it can act again, with any weapon but one:    *)
(* the kicks and sweeps of the nunchaku renew each other's stun (a stun of  *)
(* another kind is merged, one of the same kind is not) and leave the sweep *)
(* just time enough for the next kick.                                      *)
EscapeBeforeKo == weapon # "nunchaku" => hurt < LeastHp
=============================================================================
