-------------------------------- MODULE RushGame --------------------------------
(***************************************************************************)
(* Redline Rush (archive/rush): the run (speed, fuel, traffic, near misses,  *)
(* crashes), the four screens, the engine's sound, the best score and the    *)
(* mute flag in localStorage, and what steers: keys, pads, a drag.           *)
(*                                                                         *)
(* A tick is one frame of the loop; lengths, speeds and times are the        *)
(* code's, scaled down to small integers.  Random numbers are choices.       *)
(***************************************************************************)
EXTENDS Integers, Sequences, FiniteSets, FiniteSetsExt, TLC

CONSTANTS Worlds,   \* window sizes: roadWidth, height, player's row, car's w and h, near
          Drivers,  \* a car's speedFactor in halves and how far behind it starts
          Uses      \* what a behaviour may do: offers, most inputs, ticks, storage, audio, disks
VARIABLES game, desk, hand, made

vars == <<game, desk, hand, made>>

CONFIG == [lanes |-> 3, minScrollSpeed |-> 2, maxScrollSpeed |-> 4, rampDistance |-> 9,
           spawnIntervalMin |-> 2, spawnIntervalMax |-> 4, maxGroupSize |-> 2,
           nearMissScore |-> 5, fuelPickupScore |-> 3, fuelMax |-> 8, fuelPickupAmount |-> 3,
           fuelPickupEvery |-> 5, fuelLowThreshold |-> 3, lives |-> 2, invincibleTime |-> 2]
Lanes == 0..(CONFIG.lanes - 1)
ScoreUnit == 2  \* a score is a fraction: this many units to the point
Brake == 1      \* throttle
Full == 2

Clamp(v, lo, hi) == IF v < lo THEN lo ELSE IF v > hi THEN hi ELSE v
(* The code eases by a share of the difference; here by one unit.            *)
Toward(v, target) == v + Clamp(target - v, -1, 1)

----------------------------------------------------------------------------
(* Difficulty and fuel.                                                      *)

(* range * smoothstep(d / rampDistance), rounded down.                       *)
Ramp(d, range) ==
  LET r == CONFIG.rampDistance
      x == Clamp(d, 0, r)
  IN  (range * x * x * (3 * r - 2 * x)) \div (r * r * r)
scrollSpeedAt(d) ==
  CONFIG.minScrollSpeed + Ramp(d, CONFIG.maxScrollSpeed - CONFIG.minScrollSpeed)
spawnIntervalAt(d) ==
  CONFIG.spawnIntervalMax - Ramp(d, CONFIG.spawnIntervalMax - CONFIG.spawnIntervalMin)
groupSizesAt(d) == 1..(1 + Ramp(d, CONFIG.maxGroupSize - 1))
fuelAfter(fuel, speed) == Clamp(fuel - (1 + speed \div 3), 0, CONFIG.fuelMax)
fuelWithPickup(fuel) == Clamp(fuel + CONFIG.fuelPickupAmount, 0, CONFIG.fuelMax)

(* The lanes a batch may take: the corridor's bias is a matter of chance.    *)
plan(groupSize) ==
  LET size == Clamp(groupSize, 1, CONFIG.lanes - 1)
  IN  {Lanes \ free : free \in kSubset(CONFIG.lanes - size, Lanes)}

(* Two boxes overlap in the share of themselves that counts, in percent.     *)
Within(a, alen, b, blen, share) ==
  LET pad == (100 - share) \div 2
  IN  100 * a + alen * pad < 100 * b + blen * (pad + share)
collides(a, b, share) ==
  /\ Within(a.x, a.w, b.x, b.w, share) /\ Within(b.x, b.w, a.x, a.w, share)
  /\ Within(a.y, a.h, b.y, b.h, share) /\ Within(b.y, b.h, a.y, a.h, share)
Below(car, player) == car.y > player.y + player.h
Abs(n) == IF n < 0 THEN -n ELSE n
nearMissed(player, car, dist) ==
  /\ ~car.passedNearMiss /\ Below(car, player)
  /\ Abs((2 * player.x + player.w) - (2 * car.x + car.w)) <= 2 * dist

----------------------------------------------------------------------------
(* What is stored, and what is read of it.                                   *)
(* What is missing, junk, infinite or negative is negative here.             *)
sanitizeScore(value) == IF value < 0 THEN 0 ELSE value
loadScore(disk, storage) == IF storage = "ok" THEN sanitizeScore(disk.best) ELSE 0
loadFlag(disk, storage) == storage = "ok" /\ disk.muted \in {"1", "true"}
saveScore(disk, storage, value) ==
  IF storage = "ok" THEN [disk EXCEPT !.best = value \div ScoreUnit] ELSE disk
saveFlag(disk, storage, flag) ==
  IF storage = "ok" THEN [disk EXCEPT !.muted = IF flag THEN "1" ELSE "0"] ELSE disk

----------------------------------------------------------------------------
(* The road.                                                                 *)
laneCenterX(lane, world) == ((2 * lane + 1) * world.roadWidth) \div (2 * CONFIG.lanes)
clampPlayer(x, world) == Clamp(x, 1, world.roadWidth - world.w - 1)
Player(g) == [x |-> g.x, y |-> g.world.row, w |-> g.world.w, h |-> g.world.h]

resetRun(world) ==
  [distance |-> 0, score |-> 0, fuel |-> CONFIG.fuelMax, lives |-> CONFIG.lives, invincible |-> 0,
   throttle |-> Full, speed |-> CONFIG.minScrollSpeed, cars |-> <<>>, pickups |-> <<>>,
   spawnTimer |-> 1, fuelTimer |-> 2, world |-> world,
   x |-> clampPlayer(laneCenterX(CONFIG.lanes \div 2, world) - world.w \div 2, world)]

handleSteer(g) ==
  [g EXCEPT !.x = clampPlayer(@ + (IF hand.right THEN g.world.w ELSE 0)
                                - (IF hand.left THEN g.world.w ELSE 0), g.world)]

(* Throttle, speed, distance, score and fuel: the first half of update.      *)
Drive(g) ==
  LET throttle == Toward(g.throttle, IF hand.brake THEN Brake ELSE Full)
      speed == Toward(g.speed, (scrollSpeedAt(g.distance) * throttle) \div Full)
      fuel == fuelAfter(g.fuel, speed)
  IN  [g EXCEPT !.throttle = throttle, !.speed = speed, !.distance = @ + speed,
                !.score = @ + speed, !.fuel = fuel]

SeqsOf(lanes, world) ==
  {[i \in 1..Cardinality(lanes) |->
      LET lane == CHOOSE l \in lanes : Cardinality({m \in lanes : m <= l}) = i
      IN  [x |-> laneCenterX(lane, world) - world.w \div 2, y |-> -(world.h + d[lane].behind),
           w |-> world.w, h |-> world.h, factor |-> d[lane].factor, passedNearMiss |-> FALSE]] :
   d \in [lanes -> Drivers]}
spawnBatch(g) ==
  {[g EXCEPT !.cars = @ \o batch, !.spawnTimer = spawnIntervalAt(g.distance)] :
     batch \in UNION {UNION {SeqsOf(lanes, g.world) : lanes \in plan(size)} :
                        size \in groupSizesAt(g.distance)}}
spawnFuelCan(g) ==
  {[g EXCEPT !.fuelTimer = CONFIG.fuelPickupEvery,
             !.pickups = Append(@, [x |-> laneCenterX(lane, g.world) - 1, y |-> -2,
                                    w |-> 2, h |-> 2])] : lane \in Lanes}
(* A batch or a can when its timer runs out; a low tank brings the can near. *)
updateSpawns(g) ==
  LET low == IF g.fuel < CONFIG.fuelLowThreshold /\ g.fuelTimer > 1 THEN 1 ELSE g.fuelTimer
      timed == [g EXCEPT !.spawnTimer = @ - 1, !.fuelTimer = low - 1]
      Cans(t) == IF t.fuelTimer <= 0 THEN spawnFuelCan(t) ELSE {t}
  IN  UNION {Cans(t) : t \in IF timed.spawnTimer <= 0 THEN spawnBatch(timed) ELSE {timed}}

(* Cars from the last to the first; the one that is hit ends the round, and  *)
(* those before it stay where they are.                                      *)
MoveCar(g, car) ==
  LET moved == [car EXCEPT !.y = @ + (g.speed * car.factor + 1) \div 2]
      near == nearMissed(Player(g), moved, g.world.near)
      hit == collides(Player(g), moved, 78)
      kept == [moved EXCEPT !.passedNearMiss = @ \/ Below(moved, Player(g)) \/ hit]
      paid == IF near THEN [g EXCEPT !.score = @ + CONFIG.nearMissScore * ScoreUnit] ELSE g
  IN  IF moved.y > g.world.height + 2 * car.h THEN g
      ELSE IF hit /\ g.invincible <= 0 THEN [paid EXCEPT !.hit = TRUE]
      ELSE [paid EXCEPT !.cars = <<kept>> \o @]
updateCars(g) ==
  LET from[i \in Nat] ==
        IF i > Len(g.cars) THEN [cars |-> <<>>, hit |-> FALSE] @@ g
        ELSE LET s == from[i + 1]
             IN  IF s.hit THEN [s EXCEPT !.cars = <<g.cars[i]>> \o @] ELSE MoveCar(s, g.cars[i])
  IN  from[1]

updatePickups(g) ==
  LET moved == [i \in 1..Len(g.pickups) |-> [g.pickups[i] EXCEPT !.y = @ + (17 * g.speed + 10) \div 20]]
      Taken(p) == p.y <= g.world.height + p.h /\ collides(Player(g), p, 70)
      got == Cardinality({i \in 1..Len(moved) : Taken(moved[i])})
      Stays(p) == p.y <= g.world.height + p.h /\ ~Taken(p)
      fuelled[n \in 0..got] == IF n = 0 THEN g.fuel ELSE fuelWithPickup(fuelled[n - 1])
  IN  [g EXCEPT !.pickups = SelectSeq(moved, Stays), !.fuel = fuelled[got],
                !.score = @ + got * CONFIG.fuelPickupScore * ScoreUnit]

onHit(g) ==
  IF g.hit THEN [g EXCEPT !.lives = @ - 1, !.invincible = CONFIG.invincibleTime] ELSE g

----------------------------------------------------------------------------
(* Sound and screens.                                                        *)

(* The context is made at the first call that may make one, with its gain.   *)
InitSound(d) ==
  IF d.ctx \/ ~made.use.audio THEN d
  ELSE [d EXCEPT !.ctx = TRUE, !.gain = IF d.muted THEN 0 ELSE 1]
startEngine(d) ==
  LET s == InitSound(d)
  IN  IF s.ctx THEN [s EXCEPT !.engine = TRUE, !.gain = IF s.muted THEN 0 ELSE 1] ELSE s
stopEngine(d) == [d EXCEPT !.engine = FALSE]
setMuted(d, m) ==
  [d EXCEPT !.muted = m, !.disk = saveFlag(@, made.use.storage, m),
            !.gain = IF d.ctx THEN (IF m THEN 0 ELSE 1) ELSE @]

Points(score) == score \div ScoreUnit
setState(d, state, score) ==
  [d EXCEPT !.state = state,
            !.menuBest = IF state = "menu" THEN Points(d.best) ELSE @,
            !.card = IF state = "over"
                     THEN [score |-> Points(score), best |-> Points(d.best), new |-> score > d.best]
                     ELSE @]
(* The card is filled before the score is kept.                              *)
CardFirst(d, score) ==
  LET shown == setState(stopEngine(d), "over", score)
  IN  IF score > d.best
      THEN [shown EXCEPT !.best = score, !.disk = saveScore(@, made.use.storage, score)]
      ELSE shown
gameOver(d, score) ==
  LET kept == IF score > d.best
              THEN [d EXCEPT !.best = score, !.disk = saveScore(@, made.use.storage, score)]
              ELSE d
  IN  setState(stopEngine(kept), "over", score)

togglePause(d) ==
  CASE d.state = "playing" -> setState(stopEngine(d), "paused", game.score)
    [] d.state = "paused" -> setState(startEngine(d), "playing", game.score)
    [] OTHER -> d

updateHud(d, g) ==
  [d EXCEPT !.hud = [score |-> Points(g.score), best |-> Points(d.best), lives |-> g.lives,
                     low |-> g.fuel < CONFIG.fuelLowThreshold]]

----------------------------------------------------------------------------
(* The page as it boots: a window, what the disk holds, no sound yet.        *)
Booted(disk, storage, g) ==
  LET best == ScoreUnit * loadScore(disk, storage)
      page == [state |-> "menu", best |-> best, disk |-> disk, ctx |-> FALSE, gain |-> 0,
               muted |-> loadFlag(disk, storage), engine |-> FALSE, menuBest |-> Points(best),
               card |-> [score |-> 0, best |-> 0, new |-> FALSE],
               hud |-> [score |-> 0, best |-> 0, lives |-> 0, low |-> FALSE]]
  IN  updateHud(page, g)
AtRest == [left |-> FALSE, right |-> FALSE, brake |-> FALSE, dragging |-> FALSE, pads |-> {}]

Init ==
  /\ \E use \in Uses : made = [use |-> use, inputs |-> 0, ticks |-> 0]
  /\ \E world \in Worlds : game = resetRun(world)
  /\ \E disk \in made.use.disks : desk = Booted(disk, made.use.storage, game)
  /\ hand = AtRest

Input(offer) ==
  /\ offer \in made.use.offers /\ made.inputs < made.use.most
  /\ made' = [made EXCEPT !.inputs = @ + 1]

(* One frame: a step of a run that plays, and the HUD whatever the state.    *)
Frame ==
  /\ made.ticks < made.use.ticks
  /\ made' = [made EXCEPT !.ticks = @ + 1]
  /\ \/ /\ desk.state # "playing"
        /\ desk' = updateHud(desk, game)
        /\ UNCHANGED game
     \/ /\ desk.state = "playing"
        /\ LET g == Drive(handleSteer(game))
           IN  \/ /\ g.fuel <= 0
                  /\ game' = g
                  /\ desk' = updateHud(gameOver(desk, g.score), g)
               \/ /\ g.fuel > 0
                  /\ \E spawned \in updateSpawns([g EXCEPT !.invincible = Clamp(@ - 1, 0, @)]) :
                       LET struck == onHit(updateCars(spawned))
                           next == updatePickups(struck)
                           ended == struck.hit /\ struck.lives <= 0
                       IN  /\ game' = [f \in DOMAIN game |-> next[f]]
                           /\ desk' = updateHud(IF ended THEN gameOver(desk, struck.score)
                                                ELSE desk, next)
  /\ UNCHANGED hand

(* Steering by key; keys are down or up whatever the screen.                 *)
KeyDown(k) == Input("keys") /\ ~hand[k] /\ hand' = [hand EXCEPT ![k] = TRUE] /\ UNCHANGED <<game, desk>>
KeyUp(k) == Input("keys") /\ hand[k] /\ hand' = [hand EXCEPT ![k] = FALSE] /\ UNCHANGED <<game, desk>>

(* The pads hold a flag; lifting any finger reaches the window as well,      *)
(* which lets go of the wheel; a cancelled touch lets go of its pad alone.   *)
PadDown(k) ==
  /\ Input("pads") /\ k \notin hand.pads
  /\ hand' = [hand EXCEPT ![k] = TRUE, !.pads = @ \cup {k}]
  /\ UNCHANGED <<game, desk>>
PadUp(k) ==
  /\ Input("pads") /\ k \in hand.pads
  /\ hand' = [[hand EXCEPT ![k] = FALSE, !.pads = @ \ {k}]
              EXCEPT !.left = FALSE, !.right = FALSE, !.dragging = FALSE]
  /\ UNCHANGED <<game, desk>>
PadCancel(k) ==
  /\ Input("pads") /\ k \in hand.pads
  /\ hand' = [hand EXCEPT ![k] = FALSE, !.pads = @ \ {k}, !.dragging = FALSE]
  /\ UNCHANGED <<game, desk>>

(* A drag steers towards the finger: left of the car, right of it, on it.    *)
steerByPointer(side) == [hand EXCEPT !.left = side = "left", !.right = side = "right"]
Drag(side) ==
  /\ Input("drag") /\ hand' = [steerByPointer(side) EXCEPT !.dragging = TRUE]
  /\ UNCHANGED <<game, desk>>
DragUp ==
  /\ Input("drag")
  /\ hand' = [hand EXCEPT !.dragging = FALSE, !.left = FALSE, !.right = FALSE]
  /\ UNCHANGED <<game, desk>>
DragCancel ==
  /\ Input("drag") /\ hand.dragging /\ hand' = [hand EXCEPT !.dragging = FALSE]
  /\ UNCHANGED <<game, desk>>

(* Start and restart, by button or by Enter and Space.                       *)
startGame ==
  /\ Input("run") /\ desk.state \in {"menu", "over"}
  /\ game' = resetRun(game.world)
  /\ desk' = setState(startEngine(InitSound(desk)), "playing", 0)
  /\ UNCHANGED hand
(* P and Escape, Resume, Enter on the pause card; a window that loses focus  *)
(* or is hidden pauses only.                                                 *)
Pause ==
  /\ Input("pause") /\ desk' = togglePause(desk) /\ UNCHANGED <<game, hand>>
Blur ==
  /\ Input("blur") /\ desk.state = "playing"
  /\ desk' = togglePause(desk) /\ UNCHANGED <<game, hand>>
Quit ==
  /\ Input("pause") /\ desk.state \in {"paused", "over"}
  /\ desk' = setState(stopEngine(desk), "menu", game.score)
  /\ UNCHANGED <<game, hand>>
Mute ==
  /\ Input("mute")
  /\ LET d == InitSound(desk) IN desk' = setMuted(d, ~d.muted)
  /\ UNCHANGED <<game, hand>>

(* A window of another size: cars on the road keep their place and size.     *)
Resize ==
  /\ Input("resize")
  /\ \E world \in Worlds \ {game.world} :
       game' = [game EXCEPT !.world = world, !.x = clampPlayer(@, world)]
  /\ UNCHANGED <<desk, hand>>
Reload ==
  /\ Input("reload")
  /\ game' = resetRun(game.world)
  /\ desk' = Booted(desk.disk, made.use.storage, game')
  /\ hand' = AtRest

Next ==
  \/ Frame \/ startGame \/ Pause \/ Blur \/ Quit \/ Mute \/ Resize \/ Reload
  \/ \E k \in {"left", "right", "brake"} :
       KeyDown(k) \/ KeyUp(k) \/ PadDown(k) \/ PadUp(k) \/ PadCancel(k)
  \/ \E side \in {"left", "on", "right"} : Drag(side)
  \/ DragUp \/ DragCancel

----------------------------------------------------------------------------
TypeOK ==
  /\ game.fuel \in 0..CONFIG.fuelMax /\ game.lives \in 0..CONFIG.lives
  /\ game.speed \in 1..CONFIG.maxScrollSpeed /\ game.score \in Nat
  /\ game.x \in 1..(game.world.roadWidth - game.world.w - 1)
  /\ desk.state \in {"menu", "playing", "paused", "over"} /\ desk.gain \in {0, 1}
  /\ \A k \in {"left", "right", "brake", "dragging"} : hand[k] \in BOOLEAN

(* A run that plays or is paused has fuel and a life left, and a run that    *)
(* ended for want of either has its card filled once: what the card calls    *)
(* the best is never below the score beside it (game.js setState, gameOver). *)
RunsAreAlive ==
  /\ desk.state \in {"playing", "paused"} => game.fuel > 0 /\ game.lives > 0
  /\ desk.state = "over" => desk.card.best >= desk.card.score /\ desk.card.best = Points(desk.best)
(* The engine is heard while a run plays, and then only: every way out of a  *)
(* run stops it, every way back starts it (startEngine, stopEngine).         *)
EngineFollowsRun ==
  /\ desk.engine <=> desk.state = "playing" /\ desk.ctx
  /\ desk.ctx => (desk.gain = 0 <=> desk.muted)
(* The best score and the mute flag of the page are those a reload would     *)
(* find, whatever the disk held at first.                                    *)
StoredIsPage ==
  made.use.storage = "ok" =>
    /\ loadScore(desk.disk, "ok") = Points(desk.best)
    /\ loadFlag(desk.disk, "ok") = desk.muted
(* The best score on the disk never falls.                                   *)
BestOnlyRises == loadScore(desk.disk, "ok")' >= loadScore(desk.disk, "ok")
================================================================================
