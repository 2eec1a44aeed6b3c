----------------------------- MODULE UmbraStory -----------------------------
(***************************************************************************)
(* The content the story of umbra is made of: the scenes and fights         *)
(* (story.js), the fighters (roster.js), the grounds (arenas.js).           *)
(***************************************************************************)
EXTENDS Integers, FiniteSets, SequencesExt

None == "none"

Arenas == 0..4      (* Temple, forge, bridge, sanctum, rooftop.             *)

(* PLAYABLES: where each fighter says it is unlocked.                       *)
Playables == [kaito |-> None, mira |-> "a1-outro", goran |-> "a3-outro"]
(* ENEMIES: health, temper, difficulty.                                     *)
Enemy(hp, ai, difficulty) == [hp |-> hp, ai |-> ai, difficulty |-> difficulty]
Enemies ==
  [echo |-> Enemy(90, "brawler", 0), ash |-> Enemy(110, "brawler", 1),
   ruin |-> Enemy(115, "zoner", 1), vex |-> Enemy(120, "turtle", 2),
   dusk |-> Enemy(140, "brawler", 2)]

Talk(id, lines, next, arenas, joining) ==
  [id |-> id, kind |-> "talk", lines |-> lines, next |-> next,
   enemy |-> None, arena |-> 0, unlocks |-> [arenas |-> arenas, fighters |-> joining]]
Duel(id, enemy, arena, next) ==
  [id |-> id, kind |-> "fight", lines |-> 0, next |-> next,
   enemy |-> enemy, arena |-> arena, unlocks |-> [arenas |-> {}, fighters |-> {}]]

(* STORY_NODES, up to the second guardian and from there.                   *)
FirstActs ==
  <<Talk("prologue", 3, "a0-intro", {}, {}),
    Talk("a0-intro", 3, "a0-fight", {}, {}),
    Duel("a0-fight", "echo", 0, "a0-outro"),
    Talk("a0-outro", 2, "a1-intro", {1}, {}),
    Talk("a1-intro", 3, "a1-fight", {}, {}),
    Duel("a1-fight", "ash", 1, "a1-outro"),
    Talk("a1-outro", 2, "a2-intro", {2}, {"mira"})>>
LastActs ==
  <<Talk("a2-intro", 3, "a2-fight", {}, {}),
    Duel("a2-fight", "ruin", 2, "a2-outro"),
    Talk("a2-outro", 2, "a3-intro", {3}, {}),
    Talk("a3-intro", 3, "a3-fight", {}, {}),
    Duel("a3-fight", "vex", 3, "a3-outro"),
    Talk("a3-outro", 2, "a4-intro", {4}, {"goran"}),
    Talk("a4-intro", 4, "a4-fight", {}, {}),
    Duel("a4-fight", "dusk", 4, "a4-outro"),
    Talk("a4-outro", 2, "epilogue", {}, {}),
    Talk("epilogue", 4, None, {}, {})>>
StoryNodes == FirstActs \o LastActs

Ids == {StoryNodes[i].id : i \in DOMAIN StoryNodes}

(* nodeById, for the content; and the links as they are written.            *)
NodeById == [id \in Ids |-> CHOOSE n \in ToSet(StoryNodes) : n.id = id]
AsWritten == [id \in Ids |-> NodeById[id].next]

(* The ground on which an opponent is met.                                  *)
GroundOf == [e \in DOMAIN Enemies |-> (CHOOSE n \in ToSet(StoryNodes) : n.enemy = e).arena]

(* The profile of a player who has come to the end of `done`.               *)
OpenedBy(done) ==
  [arenas |-> {0} \cup UNION {NodeById[id].unlocks.arenas : id \in done},
   fighters |-> {"kaito"} \cup UNION {NodeById[id].unlocks.fighters : id \in done}]

(* The references to fighters and grounds, and those of the roster back.    *)
ValidReferences ==
  /\ \A n \in ToSet(StoryNodes) :
       /\ n.kind = "fight" => n.enemy \in DOMAIN Enemies /\ n.arena \in Arenas
       /\ n.kind = "talk" => n.lines > 0
       /\ n.unlocks.arenas \subseteq Arenas
       /\ n.unlocks.fighters \subseteq DOMAIN Playables
  /\ \A f \in DOMAIN Playables : Playables[f] \in Ids \cup {None}

(* validateRoster, what concerns the numbers.                               *)
ValidRoster ==
  \A e \in DOMAIN Enemies :
    /\ Enemies[e].hp \in 1..300 /\ Enemies[e].difficulty \in 0..2
    /\ Enemies[e].ai \in {"brawler", "zoner", "turtle"}
=============================================================================
