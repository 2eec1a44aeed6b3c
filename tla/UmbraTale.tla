------------------------------ MODULE UmbraTale ------------------------------
(***************************************************************************)
(* The story of umbra as it is told and what it opens: the chain's cursor   *)
(* and check (story.js), the dialogue box (dialogue.js), and the select,    *)
(* story and versus screens of app.js.                                      *)
(*                                                                         *)
(* One behaviour plays the tale that is in the repository; others only tell *)
(* a tale with one link changed, to compare what validateStory says of it   *)
(* with what can be played.                                                 *)
(***************************************************************************)
EXTENDS Integers, UmbraStory

CONSTANTS
  Imports,      (* Bound: profiles imported.                                *)
  Chapters,     (* Bound: how many nodes an imported profile has completed. *)
  Foes,         (* Bound: the opponents picked in versus.                   *)
  LineTicks     (* Ticks a line of dialogue takes to appear.                *)

VARIABLES
  links,        (* The `next` of every node of the tale that is told.       *)
  told,         (* progress.story.completed                                 *)
  open,         (* progress.unlockedArenas and .unlockedFighters            *)
  screen, selectMode,
  storyP0, versusP0, versusFoe, versusArena,
  talk,         (* The dialogue: node, lineIndex, shown; or Silent.         *)
  match,        (* boot.bout and how it stands, or NoMatch.                 *)
  imports, late (* Imports so far; one landed outside the shop.             *)

vars == <<links, told, open, screen, selectMode, storyP0, versusP0, versusFoe,
          versusArena, talk, match, imports, late>>
picks == <<selectMode, storyP0, versusP0, versusFoe, versusArena>>
arrivals == <<imports, late>>

---------------------------------------------------------------------------
(* The tale as written, or with one link pointed elsewhere, to nothing, or  *)
(* to a node that is not there.                                             *)
Tales ==
  {AsWritten} \cup {[AsWritten EXCEPT ![id] = to] : id \in Ids, to \in Ids \cup {None, "lost"}}
Playing == links = AsWritten

---------------------------------------------------------------------------
(* validateStory.                                                           *)

(* The nodes on the way from the prologue, up to a link to nowhere or to a  *)
(* node already met.                                                        *)
Onward(way) ==
  IF links[Last(way)] \in Ids \ ToSet(way) THEN Append(way, links[Last(way)]) ELSE way
Ways[n \in Nat] == IF n = 0 THEN <<"prologue">> ELSE Onward(Ways[n - 1])
Way == Ways[Len(StoryNodes)]

(* Mutant: that every node is reached is not looked at.                     *)
ValidChainLoose == \A id \in Ids : links[id] \in Ids \/ (links[id] = None /\ id = "epilogue")
ValidChain ==
  /\ ToSet(Way) = Ids
  /\ links[Last(Way)] \notin Ids
  /\ \A id \in Ids : links[id] \in Ids \/ (links[id] = None /\ id = "epilogue")

---------------------------------------------------------------------------
(* storyCursor: the first node that is not completed; or Complete; or None  *)
(* past a link to a node that is not there; or Endless, when the completed  *)
(* nodes come round and the code does not return.                           *)
Complete == "complete"
Endless == "endless"
Past(at) == IF at \in told /\ links[at] # None THEN links[at] ELSE at
Walk[n \in Nat] == IF n = 0 THEN "prologue" ELSE Past(Walk[n - 1])
Stop == Walk[Len(StoryNodes)]
CursorAt(stop) ==
  IF stop \notin Ids THEN None ELSE IF stop \notin told THEN stop
  ELSE IF links[stop] = None THEN Complete ELSE Endless
Cursor == CursorAt(Stop)

(* completeNode and applyStoryUnlocks, of the current node.                 *)
CompleteNode(id) ==
  /\ told' = told \cup {id}
  /\ open' = [arenas |-> open.arenas \cup NodeById[id].unlocks.arenas,
              fighters |-> open.fighters \cup NodeById[id].unlocks.fighters]

Silent == [node |-> None, line |-> 0, shown |-> 0]
NoMatch == [node |-> None, p0 |-> None, p1 |-> None, arena |-> 0, stands |-> None]

Init ==
  /\ links \in Tales
  /\ told = {} /\ open = OpenedBy({})
  /\ screen = "title" /\ selectMode = "versus"
  /\ storyP0 = "kaito" /\ versusP0 = "kaito" /\ versusFoe = "echo" /\ versusArena = 0
  /\ talk = Silent /\ match = NoMatch
  /\ imports = 0 /\ late = FALSE

(* An edited tale is told without ado, as far as it goes.                   *)
TellOn ==
  /\ ~Playing /\ Cursor \in Ids /\ CompleteNode(Cursor)
  /\ UNCHANGED <<links, screen, picks, talk, match, arrivals>>
ToldOut == ~Playing /\ Cursor \notin Ids /\ UNCHANGED vars

---------------------------------------------------------------------------
(* Screens and picks.  showScreen of a menu drops fight and dialogue; the   *)
(* bout record it leaves is not looked at again.                            *)
ShowMenu(s) == screen' = s /\ talk' = Silent /\ match' = NoMatch

OpenSelect(mode) ==
  /\ Playing /\ screen = "title"
  /\ selectMode' = mode /\ ShowMenu("select")
  /\ UNCHANGED <<links, told, open, storyP0, versusP0, versusFoe, versusArena, arrivals>>

(* renderVersus: a guardian may be met once its ground is reached; a pick   *)
(* that is not open any more falls back.                                    *)
FoeOpen(foe) == GroundOf[foe] \in open.arenas \cup {0}
(* Mutant: the picks of before are kept.                                    *)
RenderVersusKeeping(foe, arena) == versusFoe' = foe /\ versusArena' = arena
RenderVersus(foe, arena) ==
  /\ versusFoe' = IF FoeOpen(foe) THEN foe ELSE "echo"
  /\ versusArena' = IF arena \in open.arenas \cup {0} THEN arena ELSE 0

(* renderSelect: the card of an open fighter.                               *)
Choose(f) ==
  /\ Playing /\ screen = "select" /\ f \in open.fighters \cup {"kaito"}
  /\ IF selectMode = "story"
     THEN storyP0' = f /\ ShowMenu("story") /\ UNCHANGED <<versusP0, versusFoe, versusArena>>
     ELSE /\ versusP0' = f /\ RenderVersus(versusFoe, versusArena) /\ ShowMenu("versus")
          /\ UNCHANGED storyP0
  /\ UNCHANGED <<links, told, open, selectMode, arrivals>>

PickFoe(e) ==
  /\ screen = "versus" /\ FoeOpen(e) /\ RenderVersus(e, versusArena)
  /\ UNCHANGED <<links, told, open, screen, selectMode, storyP0, versusP0, talk, match, arrivals>>
PickArena(a) ==
  /\ screen = "versus" /\ a \in open.arenas \cup {0} /\ RenderVersus(versusFoe, a)
  /\ UNCHANGED <<links, told, open, screen, selectMode, storyP0, versusP0, talk, match, arrivals>>

Back ==
  /\ screen # "title"
  /\ ShowMenu(IF screen = "versus" THEN "select" ELSE "title")
  /\ UNCHANGED <<links, told, open, picks, arrivals>>

(* The shop; its file may be read long after, on any screen.                *)
Shop ==
  /\ Playing /\ screen = "title" /\ ShowMenu("shop")
  /\ UNCHANGED <<links, told, open, picks, arrivals>>
Import(n) ==
  /\ Playing /\ imports < Imports
  /\ told' = {StoryNodes[i].id : i \in 1..n} /\ open' = OpenedBy(told')
  /\ imports' = imports + 1 /\ late' = (late \/ screen # "shop")
  /\ UNCHANGED <<links, screen, picks, talk, match>>

---------------------------------------------------------------------------
(* Fights.                                                                  *)

StartFight(node, p0, p1, arena) ==
  /\ screen' = "fight"
  /\ match' = [node |-> node, p0 |-> p0, p1 |-> p1, arena |-> arena, stands |-> "live"]
StartStoryFight(id) ==
  StartFight(id, storyP0, NodeById[id].enemy, NodeById[id].arena)

VersusFight ==
  /\ screen = "versus" /\ StartFight(None, versusP0, versusFoe, versusArena)
  /\ UNCHANGED <<links, told, open, picks, talk, arrivals>>

BoutEnds(out) ==
  /\ match.stands = "live" /\ match' = [match EXCEPT !.stands = out]
  /\ UNCHANGED <<links, told, open, screen, picks, talk, arrivals>>

Rematch ==
  /\ match.stands \in {"win", "loss"} /\ match' = [match EXCEPT !.stands = "live"]
  /\ UNCHANGED <<links, told, open, screen, picks, talk, arrivals>>

---------------------------------------------------------------------------
(* The tale.                                                                *)

OpenDialogue(id) == talk' = [node |-> id, line |-> 0, shown |-> 0]

(* What follows node `id`.                                                  *)
Follow(id) ==
  IF id = None THEN talk' = Silent /\ UNCHANGED <<screen, match>>
  ELSE IF NodeById[id].kind = "fight" THEN StartStoryFight(id) /\ talk' = Silent
  ELSE OpenDialogue(id) /\ UNCHANGED <<screen, match>>

(* playCurrentScene.  A fight leaves the dialogue as it is: none is open,   *)
(* unless a profile landed since.                                           *)
PlayScene ==
  /\ Playing /\ screen = "story" /\ Cursor \in Ids
  /\ IF NodeById[Cursor].kind = "fight" THEN StartStoryFight(Cursor) /\ UNCHANGED talk
     ELSE OpenDialogue(Cursor) /\ UNCHANGED <<screen, match>>
  /\ UNCHANGED <<links, told, open, picks, arrivals>>

(* tickDialogue: the line goes on appearing.                                *)
TickDialogue ==
  /\ talk # Silent /\ talk.shown < LineTicks
  /\ talk' = [talk EXCEPT !.shown = @ + 1]
  /\ UNCHANGED <<links, told, open, screen, picks, match, arrivals>>

(* stepDialogue: a line that is still appearing is shown whole, then comes  *)
(* the next; after the last one finishStoryNode, if the node is the current *)
(* one.                                                                     *)
LineComplete == talk.shown >= LineTicks
LastLine == talk.line = NodeById[talk.node].lines - 1
StepDialogue ==
  /\ talk # Silent
  /\ IF ~LineComplete
     THEN talk' = [talk EXCEPT !.shown = LineTicks] /\ UNCHANGED <<told, open, screen, match>>
     ELSE IF ~LastLine
     THEN /\ talk' = [talk EXCEPT !.line = @ + 1, !.shown = 0]
          /\ UNCHANGED <<told, open, screen, match>>
     ELSE IF Cursor = talk.node
     THEN CompleteNode(talk.node) /\ Follow(links[talk.node])
     ELSE talk' = Silent /\ UNCHANGED <<told, open, screen, match>>
  /\ UNCHANGED <<links, picks, arrivals>>

(* continueStory, from the result of a won story bout.                      *)
ContinueStory ==
  /\ match.stands = "win" /\ match.node # None
  /\ screen' = "story" /\ match' = NoMatch
  /\ IF Cursor = match.node
     THEN CompleteNode(match.node) /\ OpenDialogue(links[match.node])
     ELSE talk' = Silent /\ UNCHANGED <<told, open>>
  /\ UNCHANGED <<links, picks, arrivals>>

Next ==
  \/ TellOn \/ ToldOut
  \/ \E mode \in {"story", "versus"} : OpenSelect(mode)
  \/ \E f \in DOMAIN Playables : Choose(f)
  \/ \E e \in Foes : PickFoe(e)
  \/ \E a \in Arenas : PickArena(a)
  \/ Back \/ Shop \/ (\E n \in Chapters : Import(n))
  \/ VersusFight \/ Rematch \/ (\E out \in {"win", "loss"} : BoutEnds(out))
  \/ PlayScene \/ TickDialogue \/ StepDialogue \/ ContinueStory

Spec == Init /\ [][Next]_vars

---------------------------------------------------------------------------
(* Properties.                                                              *)

TypeOK ==
  /\ told \subseteq Ids /\ open.arenas \subseteq Arenas
  /\ open.fighters \subseteq DOMAIN Playables
  /\ screen \in {"title", "select", "story", "versus", "shop", "fight"}
  /\ storyP0 \in DOMAIN Playables /\ versusP0 \in DOMAIN Playables
  /\ versusFoe \in DOMAIN Enemies /\ versusArena \in Arenas
  /\ talk.node \in Ids \cup {None} /\ match.node \in Ids \cup {None}
  /\ imports \in 0..Imports

(* validateStory accepts a chain exactly when it can be told to its end     *)
(* with no node left out: where nothing is left to play, every node is      *)
(* completed and the cursor knows it, or the chain was refused.             *)
ValidTalesAreTold ==
  Cursor \notin Ids => (told = Ids /\ Cursor = Complete) = ValidChain

(* What the roster says of a locked fighter is what the story does: its     *)
(* card is open exactly when the node it names is completed.                *)
CardsKeepTheirWord ==
  Playing => \A f \in DOMAIN Playables \ {"kaito"} :
               (f \in open.fighters) = (Playables[f] \in told)

(* Nobody fights with, against or on what is not open: the picks outlive    *)
(* their screens and an import may close what they name, and the fights of  *)
(* the tale come by their grounds through another table.  A profile that    *)
(* lands outside the shop is not seen before the screen is drawn again.     *)
FightsAreOpen ==
  match # NoMatch /\ ~late =>
    /\ match.p0 \in open.fighters /\ match.arena \in open.arenas
    /\ FoeOpen(match.p1)

(* A scene counts when its last line has appeared in full, a fight when it  *)
(* is won, and only in its turn.                                            *)
SceneStep ==
  Playing /\ imports' = imports /\ told' # told =>
    \A id \in told' \ told :
      /\ id = Cursor
      /\ \/ talk.node = id /\ LineComplete /\ LastLine
         \/ match.node = id /\ match.stands = "win"
=============================================================================
