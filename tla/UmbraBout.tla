----------------------------- MODULE UmbraBout -----------------------------
(***************************************************************************)
(* The bout engine of umbra: two fighters, rounds, hitstop and the boss     *)
(* mechanics, one action per simulated tick (engine.js, fighter.js).        *)
(*                                                                         *)
(* A tick is one synchronous call, so it is one step.  Positions are left   *)
(* to chance: whether a strike reaches, and when a jump lands, is chosen    *)
(* anew each tick (`luck`).  Damage, stamina and frame counts are scaled    *)
(* down; their order and the tests made on them are those of the code.      *)
(***************************************************************************)
EXTENDS Integers, Sequences, FiniteSets

CONSTANTS
  Moves,         (* Move id -> frame data.                                  *)
  Inputs,        (* The sets of buttons a side may hold in a tick.          *)
  Bosses,        (* Boss mechanics a bout may be created with.              *)
  Rounds,        (* Best of.                                                *)
  RoundTicks, IntroTicks, RoundEndTicks,
  MaxHp, MaxStamina,
  Rolls,         (* What the bout's hash may take off a blow.               *)
  ParryTicks,    (* Length of the parry window.                             *)
  Daze,          (* Ticks of a parry, a guard break, a knockdown, a fall.   *)
  SummonEvery, Fuse, MaxAdds, StanceEvery

VARIABLES
  phase,         (* "intro", "fight", "roundEnd", "over".                   *)
  phaseTick, timer, hitstop, round, wins,
  winner,        (* 0, 1, Drawn, or Running.                                *)
  fighters, prev,
  boss,          (* The boss dynamics of side 1.                            *)
  events         (* What the last tick pushed.                              *)

vars == <<phase, phaseTick, timer, hitstop, round, wins, winner, fighters,
          prev, boss, events>>

Sides == {0, 1}
Foe(s) == 1 - s
Pair(a, b) == [s \in Sides |-> IF s = 0 THEN a ELSE b]
None == "none"
Drawn == -1
Running == -2
States == {"idle", "crouch", "jump", "attack", "block", "parry", "hit",
           "stun", "knockdown", "down", "ko"}
Larger(a, b) == IF a > b THEN a ELSE b
Smaller(a, b) == IF a < b THEN a ELSE b
Less(n, k) == Larger(0, n - k)

(* What the code requires of a move table (moves.js validateMoves).         *)
ValidMoves ==
  \A m \in DOMAIN Moves :
    /\ Moves[m].startup > 0 /\ Moves[m].active > 0 /\ Moves[m].recovery > 0
    /\ Moves[m].damage >= 0 /\ Moves[m].chip >= 0 /\ Moves[m].stun >= 0
    /\ Moves[m].cancelInto \subseteq DOMAIN Moves \ {m}

---------------------------------------------------------------------------
(* One fighter.                                                             *)

CreateFighter ==
  [state |-> "idle", move |-> None, moveTick |-> 0, didHit |-> FALSE,
   held |-> FALSE, parry |-> 0, stun |-> 0, hp |-> MaxHp,
   stamina |-> MaxStamina, air |-> FALSE]

FighterType ==
  [state : States, move : DOMAIN Moves \cup {None}, moveTick : Nat,
   didHit : BOOLEAN, held : BOOLEAN, parry : 0..ParryTicks, stun : Nat,
   hp : 0..MaxHp, stamina : 0..MaxStamina, air : BOOLEAN]

(* What one fighter's step returns: itself, its view of the foe, events.    *)
Result(f, foe, evs) == [me |-> f, foe |-> foe, evs |-> evs]
Event(t, m) == [t |-> t, move |-> m]

EnterKo(f) == [f EXCEPT !.hp = 0, !.state = "ko", !.move = None,
                        !.moveTick = 0, !.stun = 0]

IsBlocking(f) ==
  f.held /\ ~f.air /\ f.state \in {"block", "idle", "crouch"}

(* combos.js and the damage line of resolveHit: a roll of the bout's hash,  *)
(* never below one; `rage` is the boss's damage multiplier.                 *)
Damage(mv, luck, rage) ==
  Larger(1, mv.damage + (IF rage THEN 1 ELSE 0) - luck.roll)

ResolveHit(att, foe, mv, luck, rage) ==
  IF foe.parry > 0 /\ foe.held /\ ~foe.air
  THEN Result([att EXCEPT !.state = "stun", !.stun = Daze, !.move = None,
                          !.moveTick = 0, !.didHit = TRUE],
              [foe EXCEPT !.state = "parry", !.stun = Daze, !.move = None,
                          !.moveTick = 0, !.parry = 0],
              {Event("parried", mv.id)})
  ELSE IF IsBlocking(foe)
  THEN LET hurt == [foe EXCEPT !.hp = Less(@, mv.chip),
                               !.stamina = Less(@, 1 + mv.chip)]
           broken == IF hurt.stamina = 0 /\ hurt.hp > 0
                     THEN [hurt EXCEPT !.state = "stun", !.stun = Daze,
                                       !.move = None, !.moveTick = 0]
                     ELSE hurt
       IN Result([att EXCEPT !.didHit = TRUE],
                 IF hurt.hp = 0 THEN EnterKo(hurt) ELSE broken,
                 {Event("blocked", mv.id)}
                 \cup (IF hurt.hp = 0 THEN {Event("ko", mv.id)} ELSE {}))
  ELSE LET hurt == [foe EXCEPT !.hp = Less(@, Damage(mv, luck, rage)),
                               !.stamina = Less(@, 1), !.move = None,
                               !.moveTick = 0, !.parry = 0]
           fell == [hurt EXCEPT
                      !.state = IF mv.launches THEN "knockdown"
                                ELSE IF mv.heavy THEN "stun" ELSE "hit",
                      !.stun = IF mv.launches THEN Daze ELSE Larger(1, mv.stun)]
       IN Result([att EXCEPT !.didHit = TRUE],
                 IF hurt.hp = 0 THEN EnterKo(hurt) ELSE fell,
                 {Event("hit", mv.id)}
                 \cup (IF hurt.hp = 0 THEN {Event("ko", mv.id)} ELSE {}))

MatchesTrigger(m, inp) ==
  CASE m = "uppercut" -> "special" \in inp
    [] m = "sweep"    -> {"kick", "crouch"} \subseteq inp
    [] m = "kick"     -> "kick" \in inp /\ "crouch" \notin inp
    [] OTHER          -> "punch" \in inp

SelectMove(inp, state) ==
  IF "special" \in inp THEN "uppercut"
  ELSE IF "kick" \in inp
       THEN IF "crouch" \in inp \/ state = "crouch" THEN "sweep" ELSE "kick"
  ELSE IF "punch" \in inp THEN "jab" ELSE None

StartAttack(f, m) == [f EXCEPT !.state = "attack", !.move = m, !.moveTick = 0,
                               !.didHit = FALSE]
Idle(f) == [f EXCEPT !.state = "idle", !.move = None, !.moveTick = 0]

AttackTick(f, inp, foe, luck, rage) ==
  LET mv   == Moves[f.move]
      n    == f.moveTick + 1
      g    == [f EXCEPT !.moveTick = n]
      next == {m \in mv.cancelInto : MatchesTrigger(m, inp)}
      hits == /\ ~f.didHit /\ n >= mv.startup /\ n < mv.startup + mv.active
              /\ foe.state \notin {"ko", "knockdown", "down"} /\ luck.meets
      r    == IF hits THEN ResolveHit(g, foe, mv, luck, rage)
              ELSE Result(g, foe, {})
      done == r.me.moveTick >= mv.startup + mv.active + mv.recovery
  IN IF n >= mv.startup /\ next # {}
     THEN Result(StartAttack(g, CHOOSE m \in next : TRUE), foe, {})
     ELSE IF done
     THEN Result(Idle(r.me), r.foe,
                 r.evs \cup (IF r.me.didHit THEN {} ELSE {Event("whiff", f.move)}))
     ELSE r

(* A state that only counts its stun down, and what follows it.             *)
Recover(f, after, stun) ==
  IF f.stun > 0 THEN [f EXCEPT !.stun = @ - 1]
  ELSE [f EXCEPT !.state = after, !.stun = stun]

Regen(f) == [f EXCEPT !.stamina = Smaller(MaxStamina, @ + 1)]

Neutral(f, inp) ==
  LET id == SelectMove(inp, f.state)
      known == id \in DOMAIN Moves
  IN IF "crouch" \in inp /\ inp \cap {"kick", "special"} # {} /\ known
     THEN StartAttack(f, id)
     ELSE IF "crouch" \in inp THEN [f EXCEPT !.state = "crouch"]
     ELSE IF "jump" \in inp   THEN [f EXCEPT !.state = "jump", !.air = TRUE]
     ELSE IF f.held           THEN [f EXCEPT !.state = "block"]
     ELSE IF known            THEN StartAttack(f, id)
     ELSE IF "dash" \in inp   THEN Regen([f EXCEPT !.stamina = Less(@, 2)])
     ELSE Regen(f)

Crouched(f, inp) ==
  LET id == SelectMove(inp, f.state)
  IN Regen(IF "crouch" \notin inp THEN Idle(f)
           ELSE IF f.held THEN [f EXCEPT !.state = "block"]
           ELSE IF id \in DOMAIN Moves THEN StartAttack(f, id) ELSE f)

Guarding(f, want, foe) ==
  IF ~want THEN Result(Idle(f), foe, {})
  ELSE IF f.stamina = 0
       THEN Result([f EXCEPT !.state = "stun", !.stun = Daze], foe,
                   {Event("guardbreak", None)})
  ELSE Result([f EXCEPT !.stamina = @ - 1], foe, {})

(* The guard as it is held this tick; raising it opens the parry window.    *)
Raise(f, want) ==
  LET hold == want /\ f.stamina > 0
  IN [f EXCEPT !.held = hold,
               !.parry = IF ~f.held /\ hold THEN ParryTicks ELSE Less(@, 1)]

(* The state machine, for a fighter that is up and on the ground.           *)
Grounded(f, inp, want, foe, luck, rage) ==
  CASE f.state = "idle"      -> Result(Neutral(f, inp), foe, {})
    [] f.state = "crouch"    -> Result(Crouched(f, inp), foe, {})
    [] f.state = "block"     -> Guarding(f, want, foe)
    [] f.state = "attack"    -> AttackTick(f, inp, foe, luck, rage)
    [] f.state = "knockdown" -> Result(Recover(f, "down", Daze), foe, {})
    [] f.state = "jump"      -> Result([f EXCEPT !.air = TRUE], foe, {})
    [] OTHER                 -> Result(Recover(f, "idle", 0), foe, {})

Land(f, luck) ==
  IF luck.meets THEN [f EXCEPT !.air = FALSE, !.state = IF @ = "jump" THEN "idle" ELSE @]
  ELSE f

(* fighter.js stepFighter: one tick of a fighter against its foe.           *)
StepFighter(f, inp, foe, luck, rage) ==
  LET want == "block" \in inp /\ ~f.air
      g == Raise(f, want)
  IN IF f.state = "ko" THEN Result(f, foe, {})
     ELSE IF g.hp = 0 THEN Result(EnterKo(g), foe, {Event("ko", g.move)})
     ELSE IF g.air THEN Result(Land(g, luck), foe, {})
     ELSE Grounded(g, inp, want, foe, luck, rage)

---------------------------------------------------------------------------
(* Both fighters in one tick.                                               *)

(* Only the rising edges of the attack buttons count.                       *)
EdgeGate(cur, before) == {b \in cur : b \in {"crouch", "block"} \/ b \notin before}

(* Mutant: the merge forgets the foe's blow if the fighter acted as well.   *)
MergeDefenderLive(live, copy, pre) ==
  IF live.state # pre.state THEN live ELSE [live EXCEPT !.hp = copy.hp]

(* What the foe did to a copy of this fighter is merged into the live one:  *)
(* its condition only when the copy's state changed.                        *)
MergeDefender(live, copy, pre) ==
  LET hurt == [live EXCEPT
                 !.hp = IF copy.hp # pre.hp THEN copy.hp ELSE @,
                 !.stamina = Smaller(MaxStamina,
                                     Larger(0, @ + copy.stamina - pre.stamina))]
  IN IF copy.state = pre.state THEN hurt
     ELSE [hurt EXCEPT !.state = copy.state, !.stun = copy.stun,
                       !.move = copy.move, !.moveTick = copy.moveTick,
                       !.parry = copy.parry]

(* Mutant: the second side steps against what the first one left.           *)
TradeInTurn(fs, inps, luck, rage) ==
  LET a == StepFighter(fs[0], inps[0], fs[1], luck[0], rage[0])
      b == StepFighter(a.foe, inps[1], a.me, luck[1], rage[1])
  IN [fs |-> Pair(b.foe, b.me), evs |-> Pair(a.evs, b.evs)]

(* Both sides step against the foe as it was before the tick.               *)
Trade(fs, inps, luck, rage) ==
  LET a == StepFighter(fs[0], inps[0], fs[1], luck[0], rage[0])
      b == StepFighter(fs[1], inps[1], fs[0], luck[1], rage[1])
  IN [fs  |-> Pair(MergeDefender(a.me, b.foe, fs[0]), MergeDefender(b.me, a.foe, fs[1])),
      evs |-> Pair(a.evs, b.evs)]

(* The hitstop of a tick by what happened in it, a wisp's strike included.  *)
Happened(evs) == {e.t : e \in evs[0] \cup evs[1]}
Freeze(kinds) ==
  IF "parried" \in kinds THEN 2
  ELSE IF kinds \cap {"hit", "blocked", "guardbreak"} # {} THEN 1 ELSE 0

---------------------------------------------------------------------------
(* The boss of side 1.                                                      *)

FreshBoss(mechanic) ==
  [mechanic |-> mechanic, adds |-> <<>>, addTick |-> 0, stance |-> 0,
   stanceTick |-> 0, enraged |-> FALSE]

WispBlocked(f) == IsBlocking(f)

(* What comes of an expired wisp that side 0 is within `reach` of.          *)
WispMeets(f, reach) ==
  IF f.state \in {"ko", "knockdown", "down"} \/ f.air \/ ~reach THEN {}
  ELSE IF f.parry > 0 /\ f.held THEN {"parried"}
  ELSE IF WispBlocked(f) THEN {"blocked"} ELSE {"hit"}

(* An expired wisp against side 0.                                          *)
StrikeWisp(f, reach) ==
  IF f.state \in {"ko", "knockdown", "down"} \/ f.air \/ ~reach THEN f
  ELSE IF f.parry > 0 /\ f.held
       THEN [f EXCEPT !.state = "parry", !.stun = Daze, !.move = None,
                      !.moveTick = 0, !.parry = 0]
  ELSE IF WispBlocked(f)
       THEN LET g == [f EXCEPT !.hp = Less(@, 1), !.stamina = Less(@, 2)]
            IN IF g.hp = 0 THEN [g EXCEPT !.state = "ko"] ELSE g
  ELSE LET g == [f EXCEPT !.hp = Less(@, 1), !.stamina = Less(@, 1),
                          !.move = None, !.moveTick = 0, !.parry = 0]
       IN IF g.hp = 0 THEN [g EXCEPT !.state = "ko"]
          ELSE [g EXCEPT !.state = "hit", !.stun = Daze]

(* Mutant: without the cap.                                                 *)
SummonUncapped(b) ==
  LET due == b.addTick + 1 >= SummonEvery
  IN [b EXCEPT !.addTick = IF due THEN 0 ELSE @ + 1,
               !.adds = IF due THEN Append(@, Fuse) ELSE @]

Summon(b) ==
  LET due == b.addTick + 1 >= SummonEvery
  IN [b EXCEPT !.addTick = IF due THEN 0 ELSE @ + 1,
               !.adds = IF due /\ Len(@) < MaxAdds THEN Append(@, Fuse) ELSE @]

Burnt(b) == Cardinality({i \in DOMAIN b.adds : b.adds[i] <= 1})
(* The wisps that are left keep their order.                                *)
Burn(b) ==
  LET left == {i \in DOMAIN b.adds : b.adds[i] > 1}
      Nth(n) == CHOOSE i \in left : Cardinality({j \in left : j <= i}) = n
  IN [b EXCEPT !.adds = [n \in 1..Cardinality(left) |-> b.adds[Nth(n)] - 1]]

(* engine.js updateBoss: the boss and side 0 after the boss's part, and     *)
(* what its wisps met.                                                      *)
UpdateBoss(b, f0, foeHp, reach) ==
  CASE b.mechanic = "summoner" ->
         LET c == Summon(b)
         IN [boss |-> Burn(c),
             f0 |-> IF Burnt(c) > 0 THEN StrikeWisp(f0, reach) ELSE f0,
             met |-> IF Burnt(c) > 0 THEN WispMeets(f0, reach) ELSE {}]
    [] b.mechanic = "duelist" ->
         [boss |-> IF b.stanceTick + 1 >= StanceEvery
                   THEN [b EXCEPT !.stanceTick = 0, !.stance = 1 - @]
                   ELSE [b EXCEPT !.stanceTick = @ + 1],
          f0 |-> f0, met |-> {}]
    [] b.mechanic = "eclipse" ->
         [boss |-> [b EXCEPT !.enraged = @ \/ 2 * foeHp <= MaxHp],
          f0 |-> f0, met |-> {}]
    [] OTHER -> [boss |-> b, f0 |-> f0, met |-> {}]

---------------------------------------------------------------------------
(* Where a side stands: `meets` is its strike reaching the foe, or, in the  *)
(* air, its feet reaching the ground.  Nothing else depends on it.          *)
Luck(f) == IF f.state = "attack" \/ f.air THEN [meets : BOOLEAN, roll : Rolls]
           ELSE [meets : {FALSE}, roll : {0}]
WispReach == IF boss.adds = <<>> THEN {FALSE} ELSE BOOLEAN
Neither == [s \in Sides |-> {}]

(* createFight *)
Init ==
  /\ phase = "intro" /\ phaseTick = 0 /\ timer = RoundTicks /\ hitstop = 0
  /\ round = 1 /\ wins = [s \in Sides |-> 0] /\ winner = Running
  /\ fighters = [s \in Sides |-> CreateFighter]
  /\ prev = Neither /\ events = Neither
  /\ boss \in {FreshBoss(m) : m \in Bosses}

(* Mutants: the round ends only on the clock; only by a knockout.           *)
RoundWinnerOnTime(fs, t) ==
  IF t > 0 THEN Running
  ELSE IF fs[0].hp > fs[1].hp THEN 0
  ELSE IF fs[1].hp > fs[0].hp THEN 1 ELSE Drawn
RoundWinnerByKo(fs, t) ==
  LET dead == {s \in Sides : fs[s].hp = 0}
  IN IF dead = Sides THEN Drawn
     ELSE IF dead # {} THEN Foe(CHOOSE s \in dead : TRUE) ELSE Running

(* Who a round goes to, if it ends.                                         *)
RoundWinner(fs, t) ==
  LET dead == {s \in Sides : fs[s].hp = 0}
  IN IF dead = Sides THEN Drawn
     ELSE IF dead # {} THEN Foe(CHOOSE s \in dead : TRUE)
     ELSE IF t > 0 THEN Running
     ELSE IF fs[0].hp > fs[1].hp THEN 0
     ELSE IF fs[1].hp > fs[0].hp THEN 1 ELSE Drawn

(* Mutant: the majority is one win too many.                                *)
CheckRoundEndLate(fs, t) ==
  LET who  == RoundWinner(fs, t)
      won  == IF who \in Sides THEN [wins EXCEPT ![who] = @ + 1] ELSE wins
      over == round >= Rounds
  IN IF who = Running
     THEN UNCHANGED <<phase, phaseTick, wins, winner>>
     ELSE /\ wins' = won /\ phaseTick' = 0
          /\ phase' = IF over THEN "over" ELSE "roundEnd"
          /\ winner' = IF ~over THEN Running
                       ELSE IF won[0] > won[1] THEN 0
                       ELSE IF won[1] > won[0] THEN 1 ELSE Drawn

(* checkRoundEnd and endRound, on the state the tick leaves behind.         *)
CheckRoundEnd(fs, t) ==
  LET who  == RoundWinner(fs, t)
      won  == IF who \in Sides THEN [wins EXCEPT ![who] = @ + 1] ELSE wins
      need == (Rounds \div 2) + 1
      over == round >= Rounds \/ \E s \in Sides : won[s] >= need
  IN IF who = Running
     THEN UNCHANGED <<phase, phaseTick, wins, winner>>
     ELSE /\ wins' = won
          /\ phase' = IF over THEN "over" ELSE "roundEnd"
          /\ phaseTick' = 0
          /\ winner' = IF ~over THEN Running
                       ELSE IF won[0] > won[1] THEN 0
                       ELSE IF won[1] > won[0] THEN 1 ELSE Drawn

(* Hitstop: the fighters stand still, the clock runs on.                    *)
FrozenTick ==
  /\ phase # "over" /\ hitstop > 0
  /\ hitstop' = hitstop - 1 /\ events' = Neither
  /\ timer' = IF phase = "fight" THEN Less(timer, 1) ELSE timer
  /\ IF phase = "fight" THEN CheckRoundEnd(fighters, timer')
     ELSE UNCHANGED <<phase, phaseTick, wins, winner>>
  /\ UNCHANGED <<round, fighters, prev, boss>>

IntroTick ==
  /\ phase = "intro" /\ hitstop = 0
  /\ phase' = IF phaseTick + 1 >= IntroTicks THEN "fight" ELSE "intro"
  /\ phaseTick' = IF phaseTick + 1 >= IntroTicks THEN 0 ELSE phaseTick + 1
  /\ events' = Neither
  /\ UNCHANGED <<timer, hitstop, round, wins, winner, fighters, prev, boss>>

(* The pause after a round; its last tick resets fighters, clock and boss.  *)
RoundEndTick ==
  /\ phase = "roundEnd" /\ hitstop = 0
  /\ events' = Neither
  /\ IF phaseTick + 1 < RoundEndTicks
     THEN /\ phaseTick' = phaseTick + 1
          /\ UNCHANGED <<phase, timer, round, fighters, boss>>
     ELSE /\ phase' = "intro" /\ phaseTick' = 0 /\ timer' = RoundTicks
          /\ round' = round + 1
          /\ fighters' = [s \in Sides |-> CreateFighter]
          /\ boss' = FreshBoss(boss.mechanic)
  /\ UNCHANGED <<hitstop, wins, winner, prev>>

(* A live tick: the boss first, then both fighters, then clock and score.   *)
FightTick(inps, luck, wispReach) ==
  /\ phase = "fight" /\ hitstop = 0
  /\ LET b == UpdateBoss(boss, fighters[0], fighters[1].hp, wispReach)
         r == Trade([fighters EXCEPT ![0] = b.f0],
                    Pair(EdgeGate(inps[0], prev[0]), EdgeGate(inps[1], prev[1])), luck,
                    Pair(FALSE, b.boss.enraged))
     IN /\ boss' = b.boss
        /\ fighters' = r.fs
        /\ events' = r.evs
        /\ hitstop' = Freeze(b.met \cup Happened(r.evs))
        /\ timer' = Less(timer, 1)
        /\ prev' = inps
        /\ CheckRoundEnd(r.fs, timer')
  /\ UNCHANGED round

Live ==
  \E i0, i1 \in Inputs, l0 \in Luck(fighters[0]), l1 \in Luck(fighters[1]),
     w \in WispReach :
    FightTick(Pair(i0, i1), Pair(l0, l1), w)

(* stepFight returns at once when the bout is over.                         *)
Over == phase = "over" /\ UNCHANGED vars

Next == FrozenTick \/ IntroTick \/ RoundEndTick \/ Live \/ Over

Spec == Init /\ [][Next]_vars

---------------------------------------------------------------------------
(* Properties.                                                              *)

TypeOK ==
  /\ phase \in {"intro", "fight", "roundEnd", "over"}
  /\ phaseTick \in 0..Larger(IntroTicks, RoundEndTicks)
  /\ timer \in 0..RoundTicks /\ hitstop \in 0..2 /\ round \in 1..Rounds
  /\ wins \in [Sides -> 0..Rounds] /\ winner \in {0, 1, Drawn, Running}
  /\ fighters \in [Sides -> FighterType]
  /\ prev \in [Sides -> SUBSET {"punch", "kick", "special", "block",
                                "crouch", "jump", "dash"}]
  /\ boss.mechanic \in Bosses /\ Len(boss.adds) <= MaxAdds

(* No tick of a running round leaves a fighter without health on its feet:  *)
(* a blow, chip damage or a boss's wisp that empties it ends the round in   *)
(* that very tick (checkRoundEnd runs after the boss and both fighters).    *)
KoEndsRound == phase = "fight" => \A s \in Sides : fighters[s].hp > 0

(* Neither side has the advantage of stepping first: with the sides         *)
(* exchanged, the same tick gives the same outcome exchanged (the fighters  *)
(* step against snapshots and the results are merged).                      *)
Swap(f) == Pair(f[1], f[0])
SidesAreEqual ==
  phase = "fight" =>
    LET still == Neither
        sure  == [s \in Sides |-> [meets |-> TRUE, roll |-> 0]]
        calm  == [s \in Sides |-> FALSE]
    IN Trade(Swap(fighters), still, sure, calm).fs
         = Swap(Trade(fighters, still, sure, calm).fs)

(* The score is never carried past its end: the bout runs while nobody has  *)
(* the majority, and it is over with the side that leads, or with nobody    *)
(* when the last round left the score level (endRound).                     *)
ScoreSettled ==
  /\ (phase = "over") = (winner # Running)
  /\ winner \in Sides => wins[winner] > wins[Foe(winner)]
  /\ winner = Drawn => wins[0] = wins[1] /\ round = Rounds
  /\ phase # "over" => \A s \in Sides : 2 * wins[s] <= Rounds

(* A blow that lands clean costs its victim health in the same tick, the    *)
(* victim's own attack in that tick notwithstanding.                        *)
EveryHitCountsStep ==
  \A s \in Sides :
    (\E e \in events'[s] : e.t = "hit")
      => fighters'[Foe(s)].hp < fighters[Foe(s)].hp
EveryHitCounts == [][EveryHitCountsStep]_vars

(* Whatever is pressed, a bout is a bounded number of ticks: every tick     *)
(* uses up some of what is left, also those of hitstop (in which the round  *)
(* clock runs on) and those after the clock has reached zero.               *)
RoundLength == IntroTicks + RoundTicks + RoundEndTicks + 1
TicksLeft ==
  LET here == IF phase = "intro" THEN RoundLength - phaseTick
              ELSE IF phase = "fight" THEN RoundEndTicks + 1 + timer
              ELSE IF phase = "roundEnd" THEN RoundEndTicks + 1 - phaseTick ELSE 0
  IN 3 * ((Rounds - round) * RoundLength + here) + hitstop
Shorter == TicksLeft' < TicksLeft
BoutShortens == [][Shorter]_vars

(* types.js:  "stun: stun ticks applied to the defender on clean hit".      *)
StunAppliedStep ==
  \A s \in Sides : \A e \in events'[s] :
    e.t = "hit" /\ e \notin events[s] /\ ~Moves[e.move].launches
      => \/ fighters'[Foe(s)].state = "ko"
         \/ fighters'[Foe(s)].stun >= Moves[e.move].stun
StunApplied == [][StunAppliedStep]_vars
=============================================================================
