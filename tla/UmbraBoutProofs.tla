--------------------------- MODULE UmbraBoutProofs ---------------------------
(***************************************************************************)
(* Theorems of UmbraBout: the score, the length of a bout, the symmetry of  *)
(* a tick, knockouts and blows, for every table of moves and every number   *)
(* of rounds and ticks.                                                     *)
(***************************************************************************)
EXTENDS UmbraBout, FiniteSetTheorems, TLAPS

(* What a bout is created with (createFight, tuning.js).                    *)
Clocks == {Rounds, RoundTicks, IntroTicks, RoundEndTicks} \subseteq Nat \ {0}

---------------------------------------------------------------------------
(* The score.  The rounds won are never more than the rounds played, and a  *)
(* majority ends the bout, so nobody can pass it.                           *)
Played == IF phase \in {"intro", "fight"} THEN round - 1 ELSE round
ScoreInv ==
  /\ phase \in {"intro", "fight", "roundEnd", "over"}
  /\ round \in 1..Rounds /\ (phase = "roundEnd" => round < Rounds)
  /\ wins \in [Sides -> Nat] /\ wins[0] + wins[1] <= Played
  /\ winner \in {0, 1, Drawn, Running}
  /\ ScoreSettled

(* What a majority is (endRound): more than half of the rounds.             *)
LEMMA Majority ==
  ASSUME NEW n \in Nat
  PROVE  /\ n \div 2 \in Nat /\ 2 * ((n \div 2) + 1) > n
         /\ \A w \in Nat : w < (n \div 2) + 1 => 2 * w <= n
OBVIOUS

LEMMA RoundWinnerKnown ==
  ASSUME NEW fs, NEW t
  PROVE  RoundWinner(fs, t) \in {0, 1, Drawn, Running}
<1> DEFINE dead == {s \in Sides : fs[s].hp = 0}
<1>1. CASE dead # {}
  <2>a. (CHOOSE s \in dead : TRUE) \in Sides
    BY <1>1
  <2> QED
    BY <1>1, <2>a DEF RoundWinner, Foe, Sides
<1>2. CASE dead = {}
  BY <1>2 DEF RoundWinner
<1> QED
  BY <1>1, <1>2

LEMMA ScoreInit ==
  ASSUME Clocks
  PROVE  Init => ScoreInv
BY DEF Clocks, Init, ScoreInv, Played, ScoreSettled, Sides, Running, Drawn

(* A round that ends adds at most one win and stops at a majority.          *)
LEMMA ScoreCounts ==
  ASSUME Clocks, ScoreInv, phase = "fight", round' = round,
         NEW fs, NEW t, CheckRoundEnd(fs, t)
  PROVE  ScoreInv'
<1> DEFINE who == RoundWinner(fs, t)
           won == IF who \in Sides THEN [wins EXCEPT ![who] = @ + 1] ELSE wins
           need == (Rounds \div 2) + 1
           over == round >= Rounds \/ \E s \in Sides : won[s] >= need
<1>1. who \in {0, 1, Drawn, Running}
  BY RoundWinnerKnown
<1>2. CASE who = Running
  BY <1>2 DEF CheckRoundEnd, ScoreInv, Played, ScoreSettled, Sides
<1>3. CASE who # Running
  <2> HIDE DEF who
  <2>z. /\ Rounds \in Nat /\ round \in 1..Rounds /\ wins \in [Sides -> Nat]
        /\ wins[0] + wins[1] <= round - 1 /\ winner = Running
        /\ \A s \in Sides : 2 * wins[s] <= Rounds
    BY DEF Clocks, ScoreInv, Played, ScoreSettled
  <2>a. won \in [Sides -> Nat] /\ won[0] + won[1] <= round
    BY <1>1, <2>z DEF Sides
  <2>b. need \in Nat /\ 2 * need > Rounds /\ \A w \in Nat : w < need => 2 * w <= Rounds
    BY <2>z, Majority
  <2>c. /\ wins' = won /\ phase' = (IF over THEN "over" ELSE "roundEnd")
        /\ winner' = IF ~over THEN Running ELSE IF won[0] > won[1] THEN 0
                     ELSE IF won[1] > won[0] THEN 1 ELSE Drawn
    BY <1>3 DEF CheckRoundEnd, who
  <2> HIDE DEF won, need
  <2>d. CASE over
    <3>1. won[0] = won[1] => round = Rounds
      BY <2>z, <2>a, <2>b, <2>d DEF Sides
    <3>2. /\ winner' \in {0, 1, Drawn} /\ phase' = "over"
          /\ winner' = 0 => wins'[0] > wins'[1]
          /\ winner' = 1 => wins'[1] > wins'[0]
          /\ winner' = Drawn => wins'[0] = wins'[1]
      BY <2>a, <2>c, <2>d DEF Sides, Drawn
    <3>3. ScoreSettled'
      BY <2>c, <3>1, <3>2 DEF ScoreSettled, Sides, Foe, Running, Drawn
    <3> QED
      BY <2>z, <2>a, <2>c, <3>2, <3>3 DEF ScoreInv, Played
  <2>e. CASE ~over
    BY <2>z, <2>a, <2>b, <2>c, <2>e
    DEF ScoreInv, Played, ScoreSettled, Sides, Foe, Running, Drawn
  <2> QED
    BY <2>d, <2>e
<1> QED
  BY <1>2, <1>3

LEMMA ScoreStep ==
  ASSUME Clocks
  PROVE  ScoreInv /\ [Next]_vars => ScoreInv'
<1> SUFFICES ASSUME ScoreInv, [Next]_vars PROVE ScoreInv'
  OBVIOUS
<1>1. CASE UNCHANGED <<phase, round, wins, winner>>
  BY <1>1 DEF ScoreInv, Played, ScoreSettled
<1>2. CASE FrozenTick
  BY <1>1, <1>2, ScoreCounts DEF FrozenTick
<1>3. CASE IntroTick
  BY <1>3 DEF IntroTick, ScoreInv, Played, ScoreSettled
<1>4. CASE RoundEndTick
  BY <1>4 DEF RoundEndTick, Clocks, ScoreInv, Played, ScoreSettled
<1>5. ASSUME NEW inps, NEW luck, NEW w, FightTick(inps, luck, w) PROVE ScoreInv'
  BY <1>5, ScoreCounts DEF FightTick
<1> QED
  BY <1>1, <1>2, <1>3, <1>4, <1>5 DEF Next, Live, Over, vars

(* The score is never carried past its end (endRound).                      *)
THEOREM ScoreIsSettled ==
  ASSUME Clocks
  PROVE  Spec => []ScoreSettled
<1>1. ScoreInv => ScoreSettled
  BY DEF ScoreInv
<1> QED
  BY ScoreInit, ScoreStep, <1>1, PTL DEF Spec

---------------------------------------------------------------------------
(* The length of a bout.  While a round runs its clock has not reached      *)
(* zero, for the tick that brings it there ends the round.                  *)
ClockInv ==
  /\ phase \in {"intro", "fight", "roundEnd", "over"}
  /\ hitstop \in 0..2 /\ timer \in 0..RoundTicks
  /\ phase = "intro" => phaseTick \in 0..IntroTicks - 1 /\ timer = RoundTicks
  /\ phase = "fight" => timer > 0
  /\ phase = "roundEnd" => phaseTick \in 0..RoundEndTicks - 1

LEMMA ClockInit ==
  ASSUME Clocks
  PROVE  Init => ClockInv
BY DEF Clocks, Init, ClockInv

(* The clock that has run out ends the round.                               *)
LEMMA OutOfTime ==
  ASSUME NEW fs, NEW t \in Nat, CheckRoundEnd(fs, t), phase = "fight"
  PROVE  \/ phase' = "fight" /\ t > 0
         \/ phase' \in {"roundEnd", "over"} /\ phaseTick' = 0
<1> DEFINE dead == {s \in Sides : fs[s].hp = 0}
<1>1. RoundWinner(fs, t) = Running => t > 0
  <2>a. Foe(CHOOSE s \in dead : TRUE) # Running \/ dead = {}
    <3>1. CASE dead # {}
      <4>1. (CHOOSE s \in dead : TRUE) \in Sides
        BY <3>1
      <4> QED
        BY <4>1 DEF Sides, Foe, Running
    <3> QED
      BY <3>1
  <2> QED
    BY <2>a DEF RoundWinner, Running, Drawn
<1> QED
  BY <1>1 DEF CheckRoundEnd

(* Every tick keeps the clocks, and uses up some of what is left.           *)
LEMMA ClockStep ==
  ASSUME Clocks, ClockInv, round \in 1..Rounds, [Next]_vars
  PROVE  ClockInv' /\ [Shorter]_vars
<1> DEFINE len == RoundLength
           rest == Rounds - round
<1>0. /\ {Rounds, RoundTicks, IntroTicks, RoundEndTicks} \subseteq Nat \ {0}
      /\ len = IntroTicks + RoundTicks + RoundEndTicks + 1
      /\ rest \in Nat /\ rest * len \in Nat
      /\ (rest - 1) * len = rest * len - len
  BY DEF Clocks, RoundLength
<1>1. /\ TicksLeft = 3 * (rest * len + (IF phase = "intro" THEN len - phaseTick
                        ELSE IF phase = "fight" THEN RoundEndTicks + 1 + timer
                        ELSE IF phase = "roundEnd" THEN RoundEndTicks + 1 - phaseTick
                        ELSE 0)) + hitstop
      /\ round' = round => TicksLeft' =
           3 * (rest * len + (IF phase' = "intro" THEN len - phaseTick'
                        ELSE IF phase' = "fight" THEN RoundEndTicks + 1 + timer'
                        ELSE IF phase' = "roundEnd" THEN RoundEndTicks + 1 - phaseTick'
                        ELSE 0)) + hitstop'
      /\ round' = round + 1 /\ phase' = "intro" =>
           TicksLeft' = 3 * ((rest - 1) * len + (len - phaseTick')) + hitstop'
  <2>a. round' = round + 1 => Rounds - round' = rest - 1
    BY <1>0
  <2> HIDE DEF len
  <2> QED
    BY <2>a DEF TicksLeft, len, RoundLength
<1> DEFINE area == rest * len
<1> HIDE DEF len, rest, area
<1>2. area \in Nat /\ (rest - 1) * len = area - len
  BY <1>0 DEF area
<1>3. CASE FrozenTick
  <2>a. hitstop' = hitstop - 1 /\ hitstop > 0 /\ round' = round
    BY <1>3 DEF FrozenTick
  <2>b. CASE phase = "fight"
    <3>1. /\ timer' \in 0..RoundTicks /\ timer' <= timer
          /\ CheckRoundEnd(fighters, timer')
      BY <1>3, <2>b, <1>0 DEF FrozenTick, Less, Larger, ClockInv
    <3>2. \/ phase' = "fight" /\ timer' > 0
          \/ phase' \in {"roundEnd", "over"} /\ phaseTick' = 0
      BY <3>1, <2>b, OutOfTime, <1>0
    <3> QED
      BY <1>0, <1>1, <1>2, <2>a, <2>b, <3>1, <3>2 DEF ClockInv, Shorter, area
  <2>c. CASE phase # "fight"
    <3>1. UNCHANGED <<phase, phaseTick, timer>>
      BY <1>3, <2>c DEF FrozenTick
    <3> QED
      BY <1>0, <1>1, <1>2, <2>a, <2>c, <3>1 DEF ClockInv, Shorter, area
  <2> QED
    BY <2>b, <2>c
<1>4. CASE IntroTick
  BY <1>0, <1>1, <1>2, <1>4 DEF IntroTick, ClockInv, Shorter, area
<1>5. CASE RoundEndTick
  BY <1>0, <1>1, <1>2, <1>5 DEF RoundEndTick, ClockInv, Shorter, area
<1>6. ASSUME NEW inps, NEW luck, NEW w, FightTick(inps, luck, w)
      PROVE  ClockInv' /\ [Shorter]_vars
  <2>a. /\ phase = "fight" /\ hitstop = 0 /\ round' = round
        /\ timer' = Less(timer, 1) /\ hitstop' \in 0..2
        /\ \E fs : CheckRoundEnd(fs, timer')
    <3>1. \A kinds : Freeze(kinds) \in 0..2
      BY DEF Freeze
    <3> QED
      BY <1>6, <3>1 DEF FightTick
  <2>b. timer' = timer - 1 /\ timer' \in 0..RoundTicks
    BY <2>a, <1>0 DEF Less, Larger, ClockInv
  <2>c. \/ phase' = "fight" /\ timer' > 0
        \/ phase' \in {"roundEnd", "over"} /\ phaseTick' = 0
    BY <2>a, <2>b, OutOfTime, <1>0
  <2> QED
    BY <1>0, <1>1, <1>2, <2>a, <2>b, <2>c DEF ClockInv, Shorter, area
<1>7. CASE UNCHANGED vars
  BY <1>7 DEF ClockInv, vars
<1> QED
  BY <1>3, <1>4, <1>5, <1>6, <1>7 DEF Next, Live, Over

(* Whatever is pressed, a bout is a bounded number of ticks (stepFight).    *)
THEOREM BoutsEnd ==
  ASSUME Clocks
  PROVE  Spec => BoutShortens
<1>1. ScoreInv => round \in 1..Rounds
  BY DEF ScoreInv
<1>2. ScoreInv /\ ClockInv /\ [Next]_vars => ClockInv' /\ [Shorter]_vars
  BY <1>1, ClockStep
<1> QED
  BY ScoreInit, ScoreStep, ClockInit, <1>2, PTL DEF Spec, BoutShortens

---------------------------------------------------------------------------
(* Neither side steps first: a tick of the exchanged fighters is the        *)
(* exchanged tick, whatever the fighters are (stepFight).                   *)
LEMMA TradeIsFair ==
  ASSUME NEW fs, NEW still, NEW sure, NEW calm,
         still[0] = still[1], sure[0] = sure[1], calm[0] = calm[1]
  PROVE  Trade(Swap(fs), still, sure, calm).fs = Swap(Trade(fs, still, sure, calm).fs)
BY DEF Trade, Swap, Pair, Sides

LEMMA SidesEqual == SidesAreEqual
<1> DEFINE sure == [s \in Sides |-> [meets |-> TRUE, roll |-> 0]]
           calm == [s \in Sides |-> FALSE]
<1>1. Neither[0] = Neither[1] /\ sure[0] = sure[1] /\ calm[0] = calm[1]
  BY DEF Neither, Sides
<1> HIDE DEF sure, calm
<1>2. Trade(Swap(fighters), Neither, sure, calm).fs
        = Swap(Trade(fighters, Neither, sure, calm).fs)
  BY <1>1, TradeIsFair
<1> QED
  BY <1>2 DEF SidesAreEqual, sure, calm

(* Neither side has the advantage of stepping first.                        *)
THEOREM NoSideIsFirst == Spec => []SidesAreEqual
BY SidesEqual, PTL

---------------------------------------------------------------------------
(* The fighters.  What the tables hold (validateMoves, tuning.js).          *)
Tables ==
  /\ {MaxHp, MaxStamina, ParryTicks, Daze} \subseteq Nat /\ MaxHp > 0
  /\ None \notin DOMAIN Moves
  /\ \A m \in DOMAIN Moves :
       /\ Moves[m].damage \in Nat /\ Moves[m].chip \in Nat /\ Moves[m].stun \in Nat
       /\ Moves[m].cancelInto \subseteq DOMAIN Moves

(* A fighter as the code keeps it: who attacks has a move.                  *)
Fit == {f \in FighterType : f.state = "attack" => f.move # None}

LEMMA FitFresh ==
  ASSUME Tables
  PROVE  CreateFighter \in Fit /\ CreateFighter.hp = MaxHp /\ MaxHp > 0
BY DEF Tables, CreateFighter, Fit, FighterType, States

LEMMA KoFits ==
  ASSUME Tables, NEW f \in FighterType
  PROVE  EnterKo(f) \in Fit /\ EnterKo(f).hp = 0 /\ EnterKo(f).state = "ko"
<1>1. 0 \in 0..MaxHp /\ 0 \in Nat /\ "ko" \in States
  BY DEF Fit, States, Tables
<1>2. EnterKo(f) \in FighterType
  BY <1>1 DEF EnterKo, FighterType
<1>3. EnterKo(f).hp = 0 /\ EnterKo(f).state = "ko" /\ EnterKo(f).move = None
  BY <1>1 DEF EnterKo, FighterType
<1> QED
  BY <1>2, <1>3 DEF Fit

LEMMA AttackFits ==
  ASSUME Tables, NEW f \in Fit, NEW m \in DOMAIN Moves
  PROVE  StartAttack(f, m) \in Fit /\ StartAttack(f, m).hp = f.hp
BY DEF StartAttack, Fit, FighterType, States, Tables

LEMMA IdleFits ==
  ASSUME NEW f \in Fit
  PROVE  Idle(f) \in Fit /\ Idle(f).hp = f.hp /\ Idle(f).didHit = f.didHit
BY DEF Idle, Fit, FighterType, States

LEMMA RegenFits ==
  ASSUME Tables, NEW f \in Fit
  PROVE  Regen(f) \in Fit /\ Regen(f).hp = f.hp
BY DEF Regen, Fit, FighterType, Tables, Smaller

LEMMA RaiseFits ==
  ASSUME Tables, NEW f \in Fit, NEW want \in BOOLEAN
  PROVE  Raise(f, want) \in Fit /\ Raise(f, want).hp = f.hp
<1> DEFINE held == want /\ f.stamina > 0
           parry == IF ~f.held /\ held THEN ParryTicks ELSE Less(f.parry, 1)
<1>1. held \in BOOLEAN
  OBVIOUS
<1>2. parry \in 0..ParryTicks
  BY DEF Fit, FighterType, Tables, Less, Larger
<1>3. Raise(f, want) = [f EXCEPT !.held = held, !.parry = parry]
  BY DEF Raise
<1> HIDE DEF held, parry
<1> QED
  BY <1>1, <1>2, <1>3 DEF Fit, FighterType

LEMMA LandFits ==
  ASSUME NEW f \in Fit, NEW luck
  PROVE  Land(f, luck) \in Fit /\ Land(f, luck).hp = f.hp
BY DEF Land, Fit, FighterType, States

LEMMA RecoverFits ==
  ASSUME Tables, NEW f \in Fit, NEW stun \in Nat, NEW after \in {"idle", "down"}
  PROVE  Recover(f, after, stun) \in Fit /\ Recover(f, after, stun).hp = f.hp
<1>1. CASE f.stun > 0
  BY <1>1 DEF Recover, Fit, FighterType, States
<1>2. CASE ~(f.stun > 0)
  BY <1>2 DEF Recover, Fit, FighterType, States
<1> QED
  BY <1>1, <1>2

(* Lessening stays in range, and lessens what there is.                     *)
LEMMA LessIsLess ==
  ASSUME NEW top \in Nat, NEW n \in 0..top, NEW k \in Nat
  PROVE  Less(n, k) \in 0..top /\ (k > 0 /\ n > 0 => Less(n, k) < n)
BY DEF Less, Larger

(* A blow costs its victim health if it lands clean, and nobody gains any.  *)
HasHit(evs) == \E e \in evs : e.t = "hit"
Landed(r, hp) == hp > 0 /\ HasHit(r.evs) => r.foe.hp < hp

LEMMA ResolveFits ==
  ASSUME Tables, NEW att \in Fit, NEW foe \in Fit, NEW m \in DOMAIN Moves,
         NEW luck, luck.roll \in Nat, NEW rage
  PROVE  /\ ResolveHit(att, foe, Moves[m], luck, rage).me \in Fit
         /\ ResolveHit(att, foe, Moves[m], luck, rage).me.hp = att.hp
         /\ ResolveHit(att, foe, Moves[m], luck, rage).foe \in Fit
         /\ Landed(ResolveHit(att, foe, Moves[m], luck, rage), foe.hp)
<1> DEFINE mv == Moves[m]
           r == ResolveHit(att, foe, mv, luck, rage)
           damage == Damage(mv, luck, rage)
<1>0. /\ att \in FighterType /\ foe \in FighterType /\ {0, Daze} \subseteq Nat
      /\ {"stun", "parry", "hit", "knockdown"} \subseteq States /\ 0 \in 0..ParryTicks
      /\ mv.chip \in Nat /\ mv.stun \in Nat /\ MaxHp \in Nat /\ MaxStamina \in Nat
      /\ foe.hp \in 0..MaxHp /\ foe.stamina \in 0..MaxStamina
  BY DEF Fit, FighterType, States, Tables
<1>1. damage \in Nat /\ damage > 0
  BY DEF Damage, Larger, Tables
<1>2. CASE foe.parry > 0 /\ foe.held /\ ~foe.air
  <2> DEFINE A == [att EXCEPT !.state = "stun", !.stun = Daze, !.move = None,
                              !.moveTick = 0, !.didHit = TRUE]
             F == [foe EXCEPT !.state = "parry", !.stun = Daze, !.move = None,
                              !.moveTick = 0, !.parry = 0]
  <2>a. r = Result(A, F, {Event("parried", mv.id)})
    BY <1>2 DEF ResolveHit
  <2>b. A \in FighterType /\ A.state = "stun" /\ A.hp = att.hp
    BY <1>0 DEF FighterType
  <2>c. F \in FighterType /\ F.state = "parry"
    BY <1>0 DEF FighterType
  <2> HIDE DEF A, F
  <2>d. r.me = A /\ r.foe = F /\ r.evs = {Event("parried", mv.id)}
    BY <2>a DEF Result
  <2> QED
    BY <2>b, <2>c, <2>d DEF Fit, Landed, HasHit, Event
<1> DEFINE A == [att EXCEPT !.didHit = TRUE]
<1>3. A \in Fit /\ A.hp = att.hp
  BY <1>0 DEF Fit, FighterType
<1>4. CASE ~(foe.parry > 0 /\ foe.held /\ ~foe.air) /\ IsBlocking(foe)
  <2> DEFINE hurt == [foe EXCEPT !.hp = Less(@, mv.chip),
                                 !.stamina = Less(@, 1 + mv.chip)]
             broken == IF hurt.stamina = 0 /\ hurt.hp > 0
                       THEN [hurt EXCEPT !.state = "stun", !.stun = Daze,
                                         !.move = None, !.moveTick = 0]
                       ELSE hurt
             evs == {Event("blocked", mv.id)}
                    \cup (IF hurt.hp = 0 THEN {Event("ko", mv.id)} ELSE {})
  <2>a. r = Result(A, IF hurt.hp = 0 THEN EnterKo(hurt) ELSE broken, evs)
    BY <1>4 DEF ResolveHit
  <2>b. hurt \in Fit
    <3>0. 1 + mv.chip \in Nat
      BY <1>0
    <3>1. Less(foe.hp, mv.chip) \in 0..MaxHp /\ Less(foe.stamina, 1 + mv.chip) \in 0..MaxStamina
      <4> HIDE DEF mv
      <4> QED
        BY <1>0, <3>0, LessIsLess
    <3> QED
      BY <1>0, <3>1 DEF Fit, FighterType
  <2>c. ~HasHit(evs)
    BY DEF HasHit, Event
  <2> HIDE DEF hurt, evs
  <2>d. broken \in Fit
    <3> DEFINE B == [hurt EXCEPT !.state = "stun", !.stun = Daze, !.move = None, !.moveTick = 0]
    <3>1. B \in FighterType /\ B.state = "stun"
      BY <1>0, <2>b DEF Fit, FighterType
    <3> QED
      BY <2>b, <3>1 DEF Fit
  <2>e. EnterKo(hurt) \in Fit
    BY <2>b, KoFits DEF Fit
  <2> HIDE DEF broken, A
  <2> QED
    BY <1>3, <2>a, <2>c, <2>d, <2>e DEF Result, Landed
<1>5. CASE ~(foe.parry > 0 /\ foe.held /\ ~foe.air) /\ ~IsBlocking(foe)
  <2> DEFINE hp == Less(foe.hp, damage)
             hurt == [foe EXCEPT !.hp = Less(@, Damage(mv, luck, rage)),
                                 !.stamina = Less(@, 1), !.move = None,
                                 !.moveTick = 0, !.parry = 0]
             state == IF mv.launches THEN "knockdown" ELSE IF mv.heavy THEN "stun" ELSE "hit"
             stun == IF mv.launches THEN Daze ELSE Larger(1, mv.stun)
             fell == [hurt EXCEPT !.state = state, !.stun = stun]
             evs == {Event("hit", mv.id)}
                    \cup (IF hurt.hp = 0 THEN {Event("ko", mv.id)} ELSE {})
  <2>a. r = Result(A, IF hurt.hp = 0 THEN EnterKo(hurt) ELSE fell, evs)
    BY <1>5 DEF ResolveHit
  <2>b. /\ hp \in 0..MaxHp /\ (foe.hp > 0 => hp < foe.hp)
        /\ Less(foe.stamina, 1) \in 0..MaxStamina
    BY <1>0, <1>1, LessIsLess
  <2>c. hurt \in FighterType /\ hurt.hp = hp /\ hurt.move = None
    <3> HIDE DEF hp, damage
    <3>1. hurt = [foe EXCEPT !.hp = hp, !.stamina = Less(@, 1), !.move = None,
                             !.moveTick = 0, !.parry = 0]
      BY DEF hp, damage
    <3> QED
      BY <1>0, <2>b, <3>1 DEF FighterType
  <2>d. state \in States \ {"attack"} /\ stun \in Nat
    BY <1>0 DEF Larger
  <2> HIDE DEF hurt, hp, state, stun
  <2>e. fell \in FighterType /\ fell.hp = hp /\ fell.state = state
    BY <2>c, <2>d DEF FighterType
  <2>f. fell \in Fit
    BY <2>d, <2>e DEF Fit
  <2>g. EnterKo(hurt) \in Fit /\ EnterKo(hurt).hp = 0
    BY <2>c, KoFits
  <2> HIDE DEF fell, evs, A
  <2> QED
    BY <1>3, <2>a, <2>b, <2>c, <2>e, <2>f, <2>g DEF Result, Landed
<1> QED
  BY <1>2, <1>4, <1>5

(* What a fighter's step returns: both are fit, and a blow that landed cost *)
(* the foe health, which was not out yet.                                   *)
Sound(r, foe) ==
  /\ r.me \in Fit /\ r.foe \in Fit
  /\ Landed(r, foe.hp) /\ (HasHit(r.evs) => foe.state # "ko")

(* A step that leaves the foe alone.                                        *)
LEMMA AloneIsSound ==
  ASSUME NEW g \in Fit, NEW foe \in Fit, NEW evs, ~HasHit(evs)
  PROVE  Sound(Result(g, foe, evs), foe)
BY DEF Sound, Result, Landed

LEMMA NoEvents == ~HasHit({}) /\ \A t, m : t # "hit" => ~HasHit({Event(t, m)})
BY DEF HasHit, Event

LEMMA AttackSound ==
  ASSUME Tables, NEW f \in Fit, f.state = "attack", NEW inp, NEW foe \in Fit,
         NEW luck, luck.roll \in Nat, NEW rage
  PROVE  Sound(AttackTick(f, inp, foe, luck, rage), foe)
<1> DEFINE mv == Moves[f.move]
           n == f.moveTick + 1
           g == [f EXCEPT !.moveTick = n]
           next == {m \in mv.cancelInto : MatchesTrigger(m, inp)}
           hits == /\ ~f.didHit /\ n >= mv.startup /\ n < mv.startup + mv.active
                   /\ foe.state \notin {"ko", "knockdown", "down"} /\ luck.meets
           r == IF hits THEN ResolveHit(g, foe, mv, luck, rage) ELSE Result(g, foe, {})
           done == r.me.moveTick >= mv.startup + mv.active + mv.recovery
           whiff == IF r.me.didHit THEN {} ELSE {Event("whiff", f.move)}
<1>1. f.move \in DOMAIN Moves /\ mv.cancelInto \subseteq DOMAIN Moves
  BY DEF Fit, FighterType, Tables
<1>2. g \in Fit
  <2>a. n \in Nat
    BY DEF Fit, FighterType
  <2> HIDE DEF n
  <2> QED
    BY <2>a DEF Fit, FighterType
<1>3. Sound(r, foe)
  <2>a. CASE hits
    <3> HIDE DEF g, hits
    <3>1. r = ResolveHit(g, foe, Moves[f.move], luck, rage)
      BY <2>a
    <3>2. foe.state # "ko"
      BY <2>a DEF hits
    <3> HIDE DEF r
    <3> QED
      BY <1>1, <1>2, <3>1, <3>2, ResolveFits DEF Sound
  <2>b. CASE ~hits
    <3> HIDE DEF g, hits
    <3>1. r = Result(g, foe, {})
      BY <2>b
    <3> HIDE DEF r
    <3> QED
      BY <1>2, <3>1, AloneIsSound, NoEvents
  <2> QED
    BY <2>a, <2>b
<1>4. AttackTick(f, inp, foe, luck, rage) =
        IF n >= mv.startup /\ next # {}
        THEN Result(StartAttack(g, CHOOSE m \in next : TRUE), foe, {})
        ELSE IF done THEN Result(Idle(r.me), r.foe, r.evs \cup whiff) ELSE r
  BY Zenon DEF AttackTick
<1>5. next # {} => (CHOOSE m \in next : TRUE) \in DOMAIN Moves
  <2>a. next # {} => (CHOOSE m \in next : TRUE) \in next
    OBVIOUS
  <2> QED
    BY <1>1, <2>a
<1>6. ~HasHit(whiff)
  BY NoEvents
<1> HIDE DEF g, r, next, done, whiff, n, mv
<1>7. CASE n >= mv.startup /\ next # {}
  BY <1>2, <1>4, <1>5, <1>7, AttackFits, AloneIsSound, NoEvents
<1>8. CASE ~(n >= mv.startup /\ next # {}) /\ done
  <2>a. AttackTick(f, inp, foe, luck, rage) = Result(Idle(r.me), r.foe, r.evs \cup whiff)
    BY <1>4, <1>8
  <2>b. Idle(r.me) \in Fit
    BY <1>3, IdleFits DEF Sound
  <2>c. HasHit(r.evs \cup whiff) => HasHit(r.evs)
    BY <1>6 DEF HasHit
  <2> QED
    BY <1>3, <2>a, <2>b, <2>c DEF Sound, Landed, Result
<1>9. CASE ~(n >= mv.startup /\ next # {}) /\ ~done
  BY <1>3, <1>4, <1>9
<1> QED
  BY <1>7, <1>8, <1>9

LEMMA NeutralFits ==
  ASSUME Tables, NEW f \in Fit, NEW inp
  PROVE  Neutral(f, inp) \in Fit /\ Crouched(f, inp) \in Fit
<1> DEFINE id == SelectMove(inp, f.state)
<1>1. id \in DOMAIN Moves => StartAttack(f, id) \in Fit
  BY AttackFits
<1>2. /\ [f EXCEPT !.state = "crouch"] \in Fit /\ [f EXCEPT !.state = "block"] \in Fit
      /\ [f EXCEPT !.state = "jump", !.air = TRUE] \in Fit
  BY DEF Fit, FighterType, States
<1>3. [f EXCEPT !.stamina = Less(@, 2)] \in Fit
  <2>a. Less(f.stamina, 2) \in 0..MaxStamina
    BY LessIsLess DEF Fit, FighterType, Tables
  <2> QED
    BY <2>a DEF Fit, FighterType
<1>4. Regen([f EXCEPT !.stamina = Less(@, 2)]) \in Fit /\ Regen(f) \in Fit
  BY <1>3, RegenFits
<1> HIDE DEF id
<1>5. Neutral(f, inp) \in Fit
  BY <1>1, <1>2, <1>4 DEF Neutral, id
<1>6. Crouched(f, inp) \in Fit
  <2>a. Crouched(f, inp) \in {Regen(Idle(f)), Regen([f EXCEPT !.state = "block"])}
        \cup (IF id \in DOMAIN Moves THEN {Regen(StartAttack(f, id))} ELSE {Regen(f)})
    BY DEF Crouched, id
  <2>b. Regen(Idle(f)) \in Fit /\ Regen([f EXCEPT !.state = "block"]) \in Fit
    BY <1>2, IdleFits, RegenFits
  <2>c. id \in DOMAIN Moves => Regen(StartAttack(f, id)) \in Fit
    BY <1>1, RegenFits
  <2> QED
    BY <1>4, <2>a, <2>b, <2>c
<1> QED
  BY <1>5, <1>6

LEMMA GuardingSound ==
  ASSUME Tables, NEW f \in Fit, NEW want \in BOOLEAN, NEW foe \in Fit
  PROVE  Sound(Guarding(f, want, foe), foe)
<1>1. CASE ~want
  BY <1>1, IdleFits, AloneIsSound, NoEvents DEF Guarding
<1>2. CASE want /\ f.stamina = 0
  <2>a. [f EXCEPT !.state = "stun", !.stun = Daze] \in Fit
    BY DEF Fit, FighterType, States, Tables
  <2> QED
    BY <1>2, <2>a, AloneIsSound, NoEvents DEF Guarding
<1>3. CASE want /\ f.stamina # 0
  <2>a. [f EXCEPT !.stamina = @ - 1] \in Fit
    <3>1. f.stamina - 1 \in 0..MaxStamina
      BY <1>3 DEF Fit, FighterType, Tables
    <3> QED
      BY <3>1 DEF Fit, FighterType
  <2> QED
    BY <1>3, <2>a, AloneIsSound, NoEvents DEF Guarding
<1> QED
  BY <1>1, <1>2, <1>3

LEMMA GroundedSound ==
  ASSUME Tables, NEW f \in Fit, NEW inp, NEW want \in BOOLEAN, NEW foe \in Fit,
         NEW luck, luck.roll \in Nat, NEW rage
  PROVE  Sound(Grounded(f, inp, want, foe, luck, rage), foe)
<1> DEFINE G == Grounded(f, inp, want, foe, luck, rage)
<1>1. CASE f.state = "idle"
  <2>a. G = Result(Neutral(f, inp), foe, {})
    BY <1>1, Zenon DEF Grounded
  <2> QED
    BY <2>a, NeutralFits, AloneIsSound, NoEvents
<1>2. CASE f.state = "crouch"
  <2>a. G = Result(Crouched(f, inp), foe, {})
    BY <1>2, Zenon DEF Grounded
  <2> QED
    BY <2>a, NeutralFits, AloneIsSound, NoEvents
<1>3. CASE f.state = "block"
  <2>a. G = Guarding(f, want, foe)
    BY <1>3, Zenon DEF Grounded
  <2> QED
    BY <2>a, GuardingSound
<1>4. CASE f.state = "attack"
  <2>a. G = AttackTick(f, inp, foe, luck, rage)
    BY <1>4, Zenon DEF Grounded
  <2> QED
    BY <1>4, <2>a, AttackSound
<1>5. CASE f.state = "knockdown"
  <2>a. G = Result(Recover(f, "down", Daze), foe, {})
    BY <1>5, Zenon DEF Grounded
  <2>b. Recover(f, "down", Daze) \in Fit
    BY RecoverFits DEF Tables
  <2> QED
    BY <2>a, <2>b, AloneIsSound, NoEvents
<1>6. CASE f.state = "jump"
  <2>a. G = Result([f EXCEPT !.air = TRUE], foe, {})
    BY <1>6, Zenon DEF Grounded
  <2>b. [f EXCEPT !.air = TRUE] \in Fit
    BY DEF Fit, FighterType
  <2> QED
    BY <2>a, <2>b, AloneIsSound, NoEvents
<1>7. CASE f.state \notin {"idle", "crouch", "block", "attack", "knockdown", "jump"}
  <2>a. G = Result(Recover(f, "idle", 0), foe, {})
    BY <1>7, Zenon DEF Grounded
  <2>b. Recover(f, "idle", 0) \in Fit
    BY RecoverFits
  <2> QED
    BY <2>a, <2>b, AloneIsSound, NoEvents
<1> QED
  BY <1>1, <1>2, <1>3, <1>4, <1>5, <1>6, <1>7

(* stepFighter keeps both fighters fit.                                     *)
LEMMA StepSound ==
  ASSUME Tables, NEW f \in Fit, NEW inp, NEW foe \in Fit,
         NEW luck, luck.roll \in Nat, NEW rage
  PROVE  Sound(StepFighter(f, inp, foe, luck, rage), foe)
<1> DEFINE want == "block" \in inp /\ ~f.air
           g == Raise(f, want)
<1>1. want \in BOOLEAN
  OBVIOUS
<1> HIDE DEF want
<1>2. g \in Fit
  BY <1>1, RaiseFits
<1>3. StepFighter(f, inp, foe, luck, rage) =
        IF f.state = "ko" THEN Result(f, foe, {})
        ELSE IF g.hp = 0 THEN Result(EnterKo(g), foe, {Event("ko", g.move)})
        ELSE IF g.air THEN Result(Land(g, luck), foe, {})
        ELSE Grounded(g, inp, want, foe, luck, rage)
  BY Zenon DEF StepFighter, want
<1> HIDE DEF g
<1>4. Sound(Result(f, foe, {}), foe)
  BY AloneIsSound, NoEvents
<1>5. Sound(Result(EnterKo(g), foe, {Event("ko", g.move)}), foe)
  <2>a. EnterKo(g) \in Fit
    BY <1>2, KoFits DEF Fit
  <2> QED
    BY <2>a, AloneIsSound, NoEvents
<1>6. Sound(Result(Land(g, luck), foe, {}), foe)
  BY <1>2, LandFits, AloneIsSound, NoEvents
<1>7. Sound(Grounded(g, inp, want, foe, luck, rage), foe)
  BY <1>1, <1>2, GroundedSound
<1> QED
  BY <1>3, <1>4, <1>5, <1>6, <1>7

(* mergeDefender: what the foe did to the copy reaches the live fighter.    *)
LEMMA MergeFits ==
  ASSUME Tables, NEW live \in Fit, NEW copy \in Fit, NEW pre \in Fit
  PROVE  /\ MergeDefender(live, copy, pre) \in Fit
         /\ copy.hp # pre.hp => MergeDefender(live, copy, pre).hp = copy.hp
<1> DEFINE hp == IF copy.hp # pre.hp THEN copy.hp ELSE live.hp
           stamina == Smaller(MaxStamina,
                              Larger(0, live.stamina + copy.stamina - pre.stamina))
           hurt == [live EXCEPT
                 !.hp = IF copy.hp # pre.hp THEN copy.hp ELSE @,
                 !.stamina = Smaller(MaxStamina,
                                     Larger(0, @ + copy.stamina - pre.stamina))]
           over == [hurt EXCEPT !.state = copy.state, !.stun = copy.stun,
                       !.move = copy.move, !.moveTick = copy.moveTick,
                       !.parry = copy.parry]
<1>1. hp \in 0..MaxHp /\ stamina \in 0..MaxStamina
  BY DEF Fit, FighterType, Tables, Smaller, Larger
<1>2. hurt \in Fit /\ hurt.hp = hp
  <2>a. hurt = [live EXCEPT !.hp = hp, !.stamina = stamina]
    OBVIOUS
  <2> HIDE DEF hurt, hp, stamina
  <2> QED
    BY <1>1, <2>a DEF Fit, FighterType
<1>3. MergeDefender(live, copy, pre) = IF copy.state = pre.state THEN hurt ELSE over
  BY DEF MergeDefender
<1> HIDE DEF hurt
<1>4. over \in FighterType /\ over.hp = hurt.hp /\ over.state = copy.state /\ over.move = copy.move
  <2>z. /\ copy.state \in States /\ copy.stun \in Nat /\ copy.move \in DOMAIN Moves \cup {None}
        /\ copy.moveTick \in Nat /\ copy.parry \in 0..ParryTicks /\ hurt \in FighterType
    BY <1>2 DEF Fit, FighterType
  <2> QED
    BY <2>z DEF FighterType
<1> HIDE DEF over
<1>5. over \in Fit
  BY <1>4 DEF Fit
<1> QED
  BY <1>2, <1>3, <1>4, <1>5

(* A wisp may put side 0 out, but leaves nobody standing without health.    *)
LEMMA WispFits ==
  ASSUME Tables, NEW f \in Fit, f.hp > 0, NEW reach
  PROVE  /\ StrikeWisp(f, reach) \in Fit /\ StrikeWisp(f, reach).hp <= f.hp
         /\ StrikeWisp(f, reach).hp = 0 => StrikeWisp(f, reach).state = "ko"
<1>0. /\ f \in FighterType /\ MaxHp \in Nat /\ MaxStamina \in Nat /\ Daze \in Nat
      /\ f.hp \in 1..MaxHp /\ f.stamina \in 0..MaxStamina
      /\ {"parry", "hit", "ko"} \subseteq States /\ 0 \in 0..ParryTicks /\ 0 \in Nat
  BY DEF Fit, FighterType, States, Tables
<1>1. CASE StrikeWisp(f, reach) = f
  BY <1>0, <1>1
<1> DEFINE P == [f EXCEPT !.state = "parry", !.stun = Daze, !.move = None,
                          !.moveTick = 0, !.parry = 0]
           B == [f EXCEPT !.hp = Less(@, 1), !.stamina = Less(@, 2)]
           H == [f EXCEPT !.hp = Less(@, 1), !.stamina = Less(@, 1),
                          !.move = None, !.moveTick = 0, !.parry = 0]
           bKo == [B EXCEPT !.state = "ko"]
           hKo == [H EXCEPT !.state = "ko"]
           hHit == [H EXCEPT !.state = "hit", !.stun = Daze]
<1>2. StrikeWisp(f, reach) \in {f, P, IF B.hp = 0 THEN bKo ELSE B, IF H.hp = 0 THEN hKo ELSE hHit}
  BY Zenon DEF StrikeWisp
<1>3. P \in FighterType /\ P.hp = f.hp /\ P.state = "parry"
  BY <1>0 DEF FighterType
<1>4. /\ Less(f.hp, 1) \in 0..MaxHp /\ Less(f.hp, 1) < f.hp
      /\ Less(f.stamina, 1) \in 0..MaxStamina /\ Less(f.stamina, 2) \in 0..MaxStamina
  BY <1>0 DEF Less, Larger
<1>5. B \in FighterType /\ B.hp < f.hp /\ B.state = f.state /\ B.move = f.move
  BY <1>0, <1>4 DEF FighterType
<1>6. H \in FighterType /\ H.hp < f.hp /\ H.state = f.state
  BY <1>0, <1>4 DEF FighterType
<1> HIDE DEF P, B, H
<1>7. /\ bKo \in FighterType /\ bKo.hp = B.hp /\ bKo.state = "ko"
      /\ hKo \in FighterType /\ hKo.hp = H.hp /\ hKo.state = "ko"
      /\ hHit \in FighterType /\ hHit.hp = H.hp /\ hHit.state = "hit"
  BY <1>0, <1>5, <1>6 DEF FighterType
<1> HIDE DEF bKo, hKo, hHit
<1>8. /\ P \in Fit /\ B \in Fit /\ bKo \in Fit /\ hKo \in Fit /\ hHit \in Fit
  BY <1>3, <1>5, <1>7 DEF Fit
<1> QED
  BY <1>0, <1>2, <1>3, <1>5, <1>6, <1>7, <1>8 DEF FighterType

(* The boss changes at most side 0, by its wisps.                           *)
LEMMA BossStrikes ==
  ASSUME NEW b, NEW f, NEW hp, NEW reach
  PROVE  UpdateBoss(b, f, hp, reach).f0 \in {f, StrikeWisp(f, reach)}
<1> DEFINE U == UpdateBoss(b, f, hp, reach)
<1>1. CASE b.mechanic = "summoner"
  <2>a. U = LET c == Summon(b)
            IN [boss |-> Burn(c),
                f0 |-> IF Burnt(c) > 0 THEN StrikeWisp(f, reach) ELSE f,
                met |-> IF Burnt(c) > 0 THEN WispMeets(f, reach) ELSE {}]
    BY <1>1, Zenon DEF UpdateBoss
  <2> QED
    BY <2>a
<1>2. CASE b.mechanic = "duelist"
  <2>a. U = [boss |-> IF b.stanceTick + 1 >= StanceEvery
                      THEN [b EXCEPT !.stanceTick = 0, !.stance = 1 - @]
                      ELSE [b EXCEPT !.stanceTick = @ + 1],
             f0 |-> f, met |-> {}]
    BY <1>2, Zenon DEF UpdateBoss
  <2>b. \E c : U = [boss |-> c, f0 |-> f, met |-> {}]
    BY <2>a, Zenon
  <2> QED
    BY <2>b
<1>3. CASE b.mechanic = "eclipse"
  <2>a. U = [boss |-> [b EXCEPT !.enraged = @ \/ 2 * hp <= MaxHp], f0 |-> f, met |-> {}]
    BY <1>3, Zenon DEF UpdateBoss
  <2>b. \E c : U = [boss |-> c, f0 |-> f, met |-> {}]
    BY <2>a, Zenon
  <2> QED
    BY <2>b
<1>4. CASE b.mechanic \notin {"summoner", "duelist", "eclipse"}
  <2>a. U = [boss |-> b, f0 |-> f, met |-> {}]
    BY <1>4, Zenon DEF UpdateBoss
  <2> QED
    BY <2>a
<1> QED
  BY <1>1, <1>2, <1>3, <1>4

(* Both sides in one tick: both stay fit, and every clean blow costs.       *)
LEMMA TradeFits ==
  ASSUME Tables, NEW fs \in [Sides -> Fit], NEW inps, NEW luck,
         luck[0].roll \in Nat, luck[1].roll \in Nat, NEW rage
  PROVE  /\ Trade(fs, inps, luck, rage).fs \in [Sides -> Fit]
         /\ DOMAIN Trade(fs, inps, luck, rage).evs = Sides
         /\ \A s \in Sides :
              HasHit(Trade(fs, inps, luck, rage).evs[s])
                => /\ fs[Foe(s)].state # "ko"
                   /\ fs[Foe(s)].hp > 0 =>
                        Trade(fs, inps, luck, rage).fs[Foe(s)].hp < fs[Foe(s)].hp
<1> DEFINE a == StepFighter(fs[0], inps[0], fs[1], luck[0], rage[0])
           b == StepFighter(fs[1], inps[1], fs[0], luck[1], rage[1])
           m0 == MergeDefender(a.me, b.foe, fs[0])
           m1 == MergeDefender(b.me, a.foe, fs[1])
<1>1. fs[0] \in Fit /\ fs[1] \in Fit
  BY DEF Sides
<1>2. Sound(a, fs[1]) /\ Sound(b, fs[0])
  BY <1>1, StepSound
<1>3. Trade(fs, inps, luck, rage) = [fs |-> Pair(m0, m1), evs |-> Pair(a.evs, b.evs)]
  BY DEF Trade
<1> HIDE DEF a, b
<1>4. /\ m0 \in Fit /\ (b.foe.hp # fs[0].hp => m0.hp = b.foe.hp)
      /\ m1 \in Fit /\ (a.foe.hp # fs[1].hp => m1.hp = a.foe.hp)
  BY <1>1, <1>2, MergeFits DEF Sound
<1> HIDE DEF m0, m1
<1>5. /\ Trade(fs, inps, luck, rage).fs = Pair(m0, m1)
      /\ Trade(fs, inps, luck, rage).evs = Pair(a.evs, b.evs)
  BY <1>3
<1>6. /\ Pair(m0, m1)[0] = m0 /\ Pair(m0, m1)[1] = m1 /\ Pair(m0, m1) \in [Sides -> Fit]
      /\ Pair(a.evs, b.evs)[0] = a.evs /\ Pair(a.evs, b.evs)[1] = b.evs
      /\ DOMAIN Pair(a.evs, b.evs) = Sides
  BY <1>4 DEF Pair, Sides
<1>7. /\ fs[0].hp \in Nat /\ fs[1].hp \in Nat /\ a.foe.hp \in Nat /\ b.foe.hp \in Nat
  BY <1>1, <1>2 DEF Sound, Fit, FighterType, Tables
<1>8. HasHit(a.evs) => fs[1].state # "ko" /\ (fs[1].hp > 0 => m1.hp < fs[1].hp)
  BY <1>2, <1>4, <1>7 DEF Sound, Landed
<1>9. HasHit(b.evs) => fs[0].state # "ko" /\ (fs[0].hp > 0 => m0.hp < fs[0].hp)
  BY <1>2, <1>4, <1>7 DEF Sound, Landed
<1> QED
  BY <1>5, <1>6, <1>8, <1>9 DEF Sides, Foe

---------------------------------------------------------------------------
(* Knockouts and blows.  While a round runs or is about to, both sides have *)
(* health.                                                                  *)
Luckless == Rolls \subseteq Nat
KoInv ==
  /\ phase \in {"intro", "fight", "roundEnd", "over"}
  /\ fighters \in [Sides -> Fit]
  /\ phase \in {"intro", "fight"} => \A s \in Sides : fighters[s].hp > 0

LEMMA KoInit ==
  ASSUME Tables
  PROVE  Init => KoInv
BY FitFresh DEF Init, KoInv

(* The round goes on only if nobody is out.                                 *)
LEMMA OutOfHealth ==
  ASSUME NEW fs \in [Sides -> Fit], NEW t, CheckRoundEnd(fs, t), phase = "fight", Tables
  PROVE  /\ phase' \in {"fight", "roundEnd", "over"}
         /\ phase' = "fight" => \A s \in Sides : fs[s].hp > 0
<1> DEFINE dead == {s \in Sides : fs[s].hp = 0}
<1>1. CASE dead = {}
  <2>a. \A s \in Sides : fs[s].hp \in Nat
    BY DEF Fit, FighterType, Tables
  <2> QED
    BY <1>1, <2>a DEF CheckRoundEnd
<1>2. CASE dead # {}
  <2>a. (CHOOSE s \in dead : TRUE) \in Sides
    BY <1>2
  <2>b. RoundWinner(fs, t) # Running
    BY <1>2, <2>a DEF RoundWinner, Foe, Sides, Running, Drawn
  <2> QED
    BY <2>b DEF CheckRoundEnd
<1> QED
  BY <1>1, <1>2

(* A live tick leaves both fit, and every clean blow costs health.          *)
LEMMA LiveTick ==
  ASSUME Tables, Luckless, KoInv,
         NEW inps, NEW l0 \in Luck(fighters[0]), NEW l1 \in Luck(fighters[1]), NEW w,
         FightTick(inps, Pair(l0, l1), w)
  PROVE  /\ fighters' \in [Sides -> Fit] /\ phase = "fight"
         /\ CheckRoundEnd(fighters', timer')
         /\ EveryHitCountsStep
<1> DEFINE b == UpdateBoss(boss, fighters[0], fighters[1].hp, w)
           fs == [fighters EXCEPT ![0] = b.f0]
           edges == Pair(EdgeGate(inps[0], prev[0]), EdgeGate(inps[1], prev[1]))
           luck == Pair(l0, l1)
           rage == Pair(FALSE, b.boss.enraged)
           r == Trade(fs, edges, luck, rage)
<1>1. /\ phase = "fight" /\ fighters' = r.fs /\ events' = r.evs
      /\ CheckRoundEnd(r.fs, timer')
  BY DEF FightTick
<1>2. /\ luck[0] = l0 /\ luck[1] = l1
      /\ l0.roll \in Nat /\ l1.roll \in Nat
  <2>a. luck[0] = l0 /\ luck[1] = l1
    BY DEF Pair, Sides
  <2>b. \A f : \A l \in Luck(f) : l.roll \in Rolls \cup {0}
    BY DEF Luck
  <2>c. l0.roll \in Rolls \cup {0} /\ l1.roll \in Rolls \cup {0}
    BY <2>b
  <2>d. Rolls \cup {0} \subseteq Nat
    BY DEF Luckless
  <2>e. l0.roll \in Nat /\ l1.roll \in Nat
    BY <2>c, <2>d
  <2> QED
    BY <2>a, <2>e
<1>3. /\ fighters[0] \in Fit /\ fighters[1] \in Fit
      /\ fighters[0].hp > 0 /\ fighters[1].hp > 0
  BY <1>1 DEF KoInv, Sides
<1>4. /\ b.f0 \in Fit /\ b.f0.hp <= fighters[0].hp
      /\ b.f0.hp = 0 => b.f0.state = "ko"
  <2>a. b.f0 \in {fighters[0], StrikeWisp(fighters[0], w)}
    BY BossStrikes
  <2>b. fighters[0].hp \in Nat
    BY <1>3 DEF Fit, FighterType, Tables
  <2> QED
    BY <1>3, <2>a, <2>b, WispFits
<1> HIDE DEF b, luck, edges, rage
<1>5. fs \in [Sides -> Fit] /\ fs[0] = b.f0 /\ fs[1] = fighters[1]
  BY <1>4 DEF KoInv, Sides
<1> HIDE DEF fs
<1>6. /\ r.fs \in [Sides -> Fit]
      /\ \A s \in Sides : HasHit(r.evs[s])
           => /\ fs[Foe(s)].state # "ko"
              /\ fs[Foe(s)].hp > 0 => r.fs[Foe(s)].hp < fs[Foe(s)].hp
  BY <1>2, <1>5, TradeFits
<1> HIDE DEF r
<1>7. ASSUME NEW s \in Sides, HasHit(r.evs[s])
      PROVE  r.fs[Foe(s)].hp < fighters[Foe(s)].hp
  <2>a. CASE s = 0
    BY <1>3, <1>5, <1>6, <1>7, <2>a DEF Foe, Sides
  <2>b. CASE s = 1
    <3>1. /\ b.f0.hp \in Nat /\ fighters[0].hp \in Nat /\ r.fs[0].hp \in Nat
      BY <1>3, <1>4, <1>6 DEF Fit, FighterType, Tables, Sides
    <3> QED
      BY <1>4, <1>5, <1>6, <1>7, <2>b, <3>1 DEF Foe, Sides
  <2> QED
    BY <2>a, <2>b DEF Sides
<1>8. EveryHitCountsStep
  BY <1>1, <1>7 DEF EveryHitCountsStep, HasHit
<1> QED
  BY <1>1, <1>6, <1>8

(* Every step keeps who has health, and every clean blow costs health.      *)
LEMMA KoStep ==
  ASSUME Tables, Luckless, KoInv, [Next]_vars
  PROVE  KoInv' /\ [EveryHitCountsStep]_vars
<1>1. CASE UNCHANGED vars
  BY <1>1 DEF KoInv, vars
<1>2. ASSUME events' = Neither PROVE EveryHitCountsStep
  BY <1>2 DEF EveryHitCountsStep, Neither, Sides
<1>3. CASE FrozenTick
  <2>a. events' = Neither /\ UNCHANGED fighters
    BY <1>3 DEF FrozenTick
  <2>b. CASE phase = "fight"
    <3>1. CheckRoundEnd(fighters, timer')
      BY <1>3, <2>b DEF FrozenTick
    <3> QED
      BY <1>2, <2>a, <2>b, <3>1, OutOfHealth DEF KoInv
  <2>c. CASE phase # "fight"
    BY <1>2, <1>3, <2>a, <2>c DEF FrozenTick, KoInv
  <2> QED
    BY <2>b, <2>c
<1>4. CASE IntroTick
  BY <1>2, <1>4 DEF IntroTick, KoInv
<1>5. CASE RoundEndTick
  <2>a. CASE fighters' = fighters /\ phase' = phase
    BY <1>2, <1>5, <2>a DEF RoundEndTick, KoInv
  <2>b. CASE fighters' = [s \in Sides |-> CreateFighter] /\ phase' = "intro"
    BY <1>2, <1>5, <2>b, FitFresh DEF RoundEndTick, KoInv
  <2> QED
    BY <1>5, <2>a, <2>b DEF RoundEndTick
<1>6. ASSUME NEW inps, NEW l0 \in Luck(fighters[0]), NEW l1 \in Luck(fighters[1]), NEW w,
             FightTick(inps, Pair(l0, l1), w)
      PROVE  KoInv' /\ [EveryHitCountsStep]_vars
  <2>a. /\ fighters' \in [Sides -> Fit] /\ phase = "fight"
        /\ CheckRoundEnd(fighters', timer') /\ EveryHitCountsStep
    BY <1>6, LiveTick
  <2>b. /\ phase' \in {"fight", "roundEnd", "over"}
        /\ phase' = "fight" => \A s \in Sides : fighters'[s].hp > 0
    BY <2>a, OutOfHealth
  <2> QED
    BY <2>a, <2>b DEF KoInv
<1> QED
  BY <1>1, <1>3, <1>4, <1>5, <1>6 DEF Next, Live, Over

(* No tick of a running round leaves a fighter without health on its feet   *)
(* (checkRoundEnd runs after the boss and both fighters).                   *)
THEOREM KoEnds ==
  ASSUME Tables, Luckless
  PROVE  Spec => []KoEndsRound
<1>1. KoInv => KoEndsRound
  BY DEF KoInv, KoEndsRound
<1> QED
  BY KoInit, KoStep, <1>1, PTL DEF Spec

(* A blow that lands clean costs its victim health in the same tick         *)
(* (resolveHit, mergeDefender).                                             *)
THEOREM HitsCount ==
  ASSUME Tables, Luckless
  PROVE  Spec => EveryHitCounts
BY KoInit, KoStep, PTL DEF Spec, EveryHitCounts

---------------------------------------------------------------------------
(* What the variables hold.  The boss summons up to a number of wisps, and  *)
(* the sides press buttons there are (tuning.js, inputs.js).                *)
Armed ==
  /\ MaxAdds \in Nat
  /\ Inputs \subseteq SUBSET {"punch", "kick", "special", "block", "crouch", "jump", "dash"}
BossFields == {"mechanic", "adds", "addTick", "stance", "stanceTick", "enraged"}
FewAdds(adds) == (\E S : adds \in Seq(S)) /\ Len(adds) <= MaxAdds
BossFits(b) ==
  /\ DOMAIN b = BossFields
  /\ b.mechanic \in Bosses /\ FewAdds(b.adds)

(* A function on the first numbers is a sequence.                           *)
LEMMA FunctionIsSequence ==
  ASSUME NEW n \in Nat, NEW f, f = [i \in 1..n |-> f[i]]
  PROVE  (\E S : f \in Seq(S)) /\ Len(f) = n
<1> DEFINE S == {f[i] : i \in 1..n}
<1>1. \A i \in 1..n : f[i] \in S
  OBVIOUS
<1> HIDE DEF S
<1>2. f \in [1..n -> S]
  BY <1>1
<1>3. f \in Seq(S) /\ Len(f) = n
  BY <1>2
<1> QED
  BY <1>3

(* A wisp is summoned only where there is room.                             *)
LEMMA SummonFits ==
  ASSUME MaxAdds \in Nat, NEW b, BossFits(b)
  PROVE  BossFits(Summon(b))
<1> DEFINE due == b.addTick + 1 >= SummonEvery
           c == Summon(b)
<1>1. /\ DOMAIN c = BossFields /\ c.mechanic = b.mechanic
      /\ c.adds = IF due /\ Len(b.adds) < MaxAdds THEN Append(b.adds, Fuse) ELSE b.adds
  BY Zenon DEF Summon, BossFits, BossFields
<1>2. PICK S : b.adds \in Seq(S)
  BY DEF BossFits, FewAdds
<1>3. b.adds \in Seq(S \cup {Fuse}) /\ Len(b.adds) \in Nat
  BY <1>2
<1>4. /\ Append(b.adds, Fuse) \in Seq(S \cup {Fuse})
      /\ Len(Append(b.adds, Fuse)) = Len(b.adds) + 1
  BY <1>3
<1> HIDE DEF c
<1>5. FewAdds(c.adds)
  <2>a. CASE due /\ Len(b.adds) < MaxAdds
    BY <1>1, <1>3, <1>4, <2>a DEF FewAdds
  <2>b. CASE ~(due /\ Len(b.adds) < MaxAdds)
    BY <1>1, <2>b DEF BossFits
  <2> QED
    BY <2>a, <2>b
<1> QED
  BY <1>1, <1>5 DEF BossFits, c

(* What burns away leaves no more wisps than there were.                    *)
LEMMA BurnFits ==
  ASSUME MaxAdds \in Nat, NEW b, BossFits(b)
  PROVE  BossFits(Burn(b))
<1> DEFINE left == {i \in DOMAIN b.adds : b.adds[i] > 1}
           Nth(n) == CHOOSE i \in left : Cardinality({j \in left : j <= i}) = n
           Elem(n) == b.adds[Nth(n)] - 1
           c == Burn(b)
<1>1. /\ DOMAIN c = BossFields /\ c.mechanic = b.mechanic
      /\ c.adds = [n \in 1..Cardinality(left) |-> Elem(n)]
  BY Zenon DEF Burn, BossFits, BossFields
<1>2. PICK S : b.adds \in Seq(S)
  BY DEF BossFits, FewAdds
<1>3. /\ Len(b.adds) \in Nat /\ DOMAIN b.adds = 1..Len(b.adds)
      /\ Len(b.adds) <= MaxAdds
  BY <1>2 DEF BossFits, FewAdds
<1>4. IsFiniteSet(1..Len(b.adds)) /\ Cardinality(1..Len(b.adds)) = Len(b.adds)
  BY <1>3, FS_Interval
<1>5. left \subseteq 1..Len(b.adds)
  BY <1>3
<1> HIDE DEF left, Elem, c
<1>6. /\ IsFiniteSet(left) /\ Cardinality(left) <= Len(b.adds)
      /\ Cardinality(left) \in Nat
  BY <1>4, <1>5, FS_Subset, FS_CardinalityType
<1>7. c.adds = [n \in 1..Cardinality(left) |-> c.adds[n]]
  BY <1>1
<1>8. FewAdds(c.adds)
  BY <1>3, <1>6, <1>7, FunctionIsSequence DEF FewAdds
<1> QED
  BY <1>1, <1>8 DEF BossFits, c

LEMMA BossStaysFit ==
  ASSUME MaxAdds \in Nat, NEW b, BossFits(b), NEW f, NEW hp, NEW reach
  PROVE  BossFits(UpdateBoss(b, f, hp, reach).boss)
<1> DEFINE U == UpdateBoss(b, f, hp, reach)
<1>1. CASE b.mechanic = "summoner"
  <2>a. U.boss = Burn(Summon(b))
    BY <1>1, Zenon DEF UpdateBoss
  <2> QED
    BY <2>a, SummonFits, BurnFits
<1>2. CASE b.mechanic = "duelist"
  <2>a. U.boss = IF b.stanceTick + 1 >= StanceEvery
                 THEN [b EXCEPT !.stanceTick = 0, !.stance = 1 - @]
                 ELSE [b EXCEPT !.stanceTick = @ + 1]
    BY <1>2, Zenon DEF UpdateBoss
  <2>b. /\ DOMAIN U.boss = BossFields /\ U.boss.mechanic = b.mechanic
        /\ U.boss.adds = b.adds
    <3> HIDE DEF U
    <3> QED
      BY <2>a, Zenon DEF BossFits, BossFields
  <2> QED
    BY <2>b DEF BossFits
<1>3. CASE b.mechanic = "eclipse"
  <2>a. U.boss = [b EXCEPT !.enraged = @ \/ 2 * hp <= MaxHp]
    BY <1>3, Zenon DEF UpdateBoss
  <2>b. /\ DOMAIN U.boss = BossFields /\ U.boss.mechanic = b.mechanic
        /\ U.boss.adds = b.adds
    <3> HIDE DEF U
    <3> QED
      BY <2>a, Zenon DEF BossFits, BossFields
  <2> QED
    BY <2>b DEF BossFits
<1>4. CASE b.mechanic \notin {"summoner", "duelist", "eclipse"}
  <2>a. U.boss = b
    BY <1>4, Zenon DEF UpdateBoss
  <2> QED
    BY <2>a
<1> QED
  BY <1>1, <1>2, <1>3, <1>4

(* What the other invariants leave open: the pauses, the buttons held       *)
(* before, the boss.                                                        *)
Pauses == phaseTick \in 0..Larger(IntroTicks, RoundEndTicks)
Buttons == prev \in [Sides -> SUBSET {"punch", "kick", "special", "block",
                                      "crouch", "jump", "dash"}]
RestInv == Pauses /\ Buttons /\ BossFits(boss)

LEMMA RestInit ==
  ASSUME Clocks, Armed
  PROVE  Init => RestInv
<1> SUFFICES ASSUME Init PROVE RestInv
  OBVIOUS
<1>1. Pauses /\ Buttons
  BY DEF Init, Pauses, Buttons, Clocks, Larger, Neither
<1>2. PICK m \in Bosses : boss = FreshBoss(m)
  BY DEF Init
<1>3. BossFits(FreshBoss(m))
  BY DEF BossFits, BossFields, FewAdds, FreshBoss, Armed
<1> QED
  BY <1>1, <1>2, <1>3 DEF RestInv

LEMMA RestStep ==
  ASSUME Clocks, Armed, ClockInv, RestInv, [Next]_vars
  PROVE  RestInv'
<1>0. /\ {RoundTicks, IntroTicks, RoundEndTicks} \subseteq Nat \ {0}
      /\ Larger(IntroTicks, RoundEndTicks) \in Nat
      /\ IntroTicks <= Larger(IntroTicks, RoundEndTicks)
      /\ RoundEndTicks <= Larger(IntroTicks, RoundEndTicks)
  BY DEF Clocks, Larger
<1>1. ASSUME NEW fs, NEW t, CheckRoundEnd(fs, t) PROVE Pauses'
  BY <1>0, <1>1 DEF CheckRoundEnd, RestInv, Pauses
<1>2. CASE FrozenTick
  BY <1>1, <1>2 DEF FrozenTick, RestInv, Pauses, Buttons
<1>3. CASE IntroTick
  BY <1>0, <1>3 DEF IntroTick, ClockInv, RestInv, Pauses, Buttons
<1>4. CASE RoundEndTick
  <2>a. Pauses' /\ Buttons'
    BY <1>0, <1>4 DEF RoundEndTick, ClockInv, RestInv, Pauses, Buttons
  <2>b. BossFits(FreshBoss(boss.mechanic))
    BY DEF RestInv, BossFits, BossFields, FewAdds, FreshBoss, Armed
  <2>c. boss' \in {boss, FreshBoss(boss.mechanic)}
    BY <1>4 DEF RoundEndTick
  <2> QED
    BY <2>a, <2>b, <2>c DEF RestInv
<1>5. ASSUME NEW i0 \in Inputs, NEW i1 \in Inputs, NEW luck, NEW w,
             FightTick(Pair(i0, i1), luck, w)
      PROVE  RestInv'
  <2>a. /\ boss' = UpdateBoss(boss, fighters[0], fighters[1].hp, w).boss
        /\ prev' = Pair(i0, i1) /\ \E fs : CheckRoundEnd(fs, timer')
    BY <1>5, Zenon DEF FightTick
  <2>b. BossFits(boss')
    BY <2>a, BossStaysFit DEF RestInv, Armed
  <2>c. Buttons'
    BY <2>a DEF Buttons, Pair, Armed
  <2> QED
    BY <1>1, <2>a, <2>b, <2>c DEF RestInv
<1>6. CASE UNCHANGED vars
  BY <1>6 DEF vars, RestInv, Pauses, Buttons
<1> QED
  BY <1>2, <1>3, <1>4, <1>5, <1>6 DEF Next, Live, Over

(* Together: fighters keep within their health and stamina, nobody wins     *)
(* more rounds than there are, and no more wisps fly than may.              *)
LEMMA BoutTyped ==
  ASSUME Clocks, Tables, ScoreInv, ClockInv, KoInv, RestInv
  PROVE  TypeOK
<1>1. fighters \in [Sides -> FighterType]
  BY DEF KoInv, Fit
<1>2. wins \in [Sides -> 0..Rounds]
  <2>a. /\ Rounds \in Nat /\ wins \in [Sides -> Nat] /\ round \in 1..Rounds
        /\ wins[0] + wins[1] <= Played /\ wins[0] \in Nat /\ wins[1] \in Nat
    BY DEF ScoreInv, Clocks, Sides
  <2>b. Played <= Rounds /\ Played \in Int
    BY <2>a DEF Played
  <2> QED
    BY <2>a, <2>b DEF Sides
<1>3. boss.mechanic \in Bosses /\ Len(boss.adds) <= MaxAdds
  BY DEF RestInv, BossFits, FewAdds
<1> QED
  BY <1>1, <1>2, <1>3 DEF TypeOK, ScoreInv, ClockInv, RestInv, Pauses, Buttons

(* Every variable keeps its type, for every table of moves and boss         *)
(* (createFight, stepFight).                                                *)
THEOREM TypeCorrect ==
  ASSUME Clocks, Tables, Luckless, Armed
  PROVE  Spec => []TypeOK
<1>1. ScoreInv => round \in 1..Rounds
  BY DEF ScoreInv
<1>2. ScoreInv /\ ClockInv /\ KoInv /\ RestInv /\ [Next]_vars
        => ScoreInv' /\ ClockInv' /\ KoInv' /\ RestInv'
  BY <1>1, ScoreStep, ClockStep, KoStep, RestStep
<1> QED
  BY ScoreInit, ClockInit, KoInit, RestInit, <1>2, BoutTyped, PTL DEF Spec
=============================================================================
