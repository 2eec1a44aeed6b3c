--------------------------- MODULE UmbraProgress ---------------------------
(***************************************************************************)
(* What a player of umbra owns and how it is earned: story, shop, dojo,     *)
(* tutorial, the screens that lead there, and the profile in local storage  *)
(* (app.js, story.js, economy.js, storage/).                                *)
(*                                                                         *)
(* Every handler is one synchronous step.  What may come between two of     *)
(* them: the answer of a file being read for import, a write that the       *)
(* storage refuses, a reload of the page.  How a bout goes is left to       *)
(* chance (UmbraBout has the rules).                                        *)
(***************************************************************************)
EXTENDS Integers, Sequences, FiniteSetsExt

CONSTANTS
  Nodes,        (* The story chain: records [kind, boss, arenas, fighters]. *)
  Weapons,      (* Weapon for sale -> price.                                *)
  Trials,       (* Dojo trial -> reward.                                    *)
  WinPay, OtherPay, BossPay, JackpotEvery, JackpotPay, Stipend,
  Tracks,       (* What can be trained.                                     *)
  TrainingCost, (* Price of the first level; each level costs one more.     *)
  MaxLevel, MaxEmber,
  Opponents,    (* In versus: subset of {FALSE, TRUE}, TRUE for a boss.     *)
  Refusals,     (* Whether the storage may refuse a write.                  *)
  MaxBouts,     (* Bound: bouts finished in one behaviour.                  *)
  MaxBackups    (* Bound: profiles exported.                                *)

VARIABLES
  profile,      (* boot.profile.                                            *)
  stored,       (* profile.json.                                            *)
  synced,       (* The last write of the profile went through.              *)
  screen, returnTo,
  bout,         (* boot.bout: mode, story node, boss met; or NoBout.        *)
  fight,        (* "none", "live" or the outcome "win", "loss", "draw".     *)
  paused,
  dialogue,     (* Lines left and node of the open dialogue, or Closed.     *)
  claimed,      (* boot.claimedTrials.                                      *)
  lesson,       (* Lessons of the tutorial that are done.                   *)
  capture,      (* A key is awaited for a rebinding.                        *)
  reading,      (* Backups whose file.text() has not answered.              *)
  backups,      (* Profiles the player has exported.                        *)
  bouts,        (* Bouts finished, for the bound.                           *)
  swapped       (* An import was applied while a bout was on.               *)

vars == <<profile, stored, synced, screen, returnTo, bout, fight, paused,
          dialogue, claimed, lesson, capture, reading, backups, bouts, swapped>>
ui == <<screen, returnTo, bout, fight, paused, dialogue, claimed, lesson>>
files == <<reading, backups, swapped>>

Chain == 1..Len(Nodes)
Lessons == 2    (* Two stand for the six: one during the bout, one by winning. *)
Outcomes == {"win", "loss", "draw"}
NoBout == [mode |-> "none", node |-> 0, boss |-> FALSE]
Closed == [node |-> 0, lines |-> 0]
Menus == {"title", "select", "story", "versus", "settings", "shop", "dojo", "tutorial"}

(* defaultProfile.  `paid` is not in the code: how often a one-time reward  *)
(* was credited to this profile.                                            *)
DefaultProfile ==
  [completed |-> {}, arenas |-> {0}, fighters |-> {"kaito"}, ember |-> 0,
   owned |-> {"fists"}, equipped |-> "fists", levels |-> [t \in Tracks |-> 0],
   wins |-> 0, trials |-> {}, graduated |-> FALSE,
   paid |-> [r \in DOMAIN Trials \cup {"stipend"} |-> 0]]

(* migrateProfile, on the profiles this code writes.                        *)
Smaller(a, b) == IF a < b THEN a ELSE b
Capped(levels) == [t \in Tracks |-> Smaller(levels[t], MaxLevel)]
Migrate(p) ==
  [p EXCEPT !.ember = Smaller(@, MaxEmber),
            !.arenas = @ \cup {0}, !.fighters = @ \cup {"kaito"},
            !.owned = @ \cup {"fists"},
            !.equipped = IF @ \in p.owned THEN @ ELSE "fists",
            !.levels = Capped(@)]

(* persistProfile: a save that fails is announced and play goes on.         *)
Persist(p) ==
  \/ stored' = Migrate(p) /\ synced' = TRUE
  \/ Refusals /\ stored' = stored /\ synced' = FALSE
Become(p) == profile' = p /\ Persist(p)
Unpersisted == UNCHANGED <<profile, stored, synced>>

---------------------------------------------------------------------------
(* Screens.                                                                 *)

(* showScreen of a menu drops the bout, the tutorial and the dialogue.      *)
Show(s) ==
  /\ screen' = s
  /\ fight' = "none" /\ paused' = FALSE /\ lesson' = 0 /\ dialogue' = Closed
  /\ UNCHANGED <<bout, claimed>>

Links ==
  [title |-> {"select", "shop", "dojo", "tutorial", "settings"},
   select |-> {"title", "story", "versus"}, story |-> {"title"},
   versus |-> {"select", "title"}, shop |-> {"title"}, dojo |-> {"title"},
   tutorial |-> {"title"}, settings |-> {}, fight |-> {"title"}]

(* The buttons and keys that lead from one screen to another.               *)
Navigate(s) ==
  /\ s \in Links[screen]
  /\ capture = FALSE
  /\ Show(s)
  /\ returnTo' = IF s = "settings" THEN screen ELSE returnTo
  /\ UNCHANGED capture
  /\ Unpersisted /\ UNCHANGED <<files, bouts>>

(* Leaving the settings; the Back button also gives up a pending capture.   *)
LeaveSettings ==
  /\ screen = "settings"
  /\ capture' = FALSE
  /\ Show(returnTo)
  /\ UNCHANGED returnTo /\ Unpersisted /\ UNCHANGED <<files, bouts>>

Rebind ==
  /\ screen = "settings"
  /\ capture' = ~capture
  /\ UNCHANGED <<ui, files, bouts>> /\ Unpersisted

TogglePause ==
  /\ screen = "fight" /\ fight = "live"
  /\ paused' = ~paused
  /\ UNCHANGED <<screen, returnTo, bout, fight, dialogue, claimed, lesson,
                 capture, files, bouts>> /\ Unpersisted

---------------------------------------------------------------------------
(* Bouts.                                                                   *)

(* startFight, ending with showScreen("fight"), which keeps the dialogue.   *)
StartFight(mode, node, boss) ==
  /\ bout' = [mode |-> mode, node |-> node, boss |-> boss]
  /\ fight' = "live" /\ screen' = "fight" /\ paused' = FALSE /\ lesson' = 0
  /\ claimed' = profile.trials
  /\ UNCHANGED returnTo

(* In versus the opponent may be a boss as well.                            *)
Fight(mode, boss) ==
  /\ screen = mode /\ mode \in {"versus", "dojo", "tutorial"}
  /\ boss \in (IF mode = "versus" THEN Opponents ELSE {FALSE})
  /\ bouts < MaxBouts
  /\ StartFight(mode, 0, boss)
  /\ UNCHANGED <<dialogue, capture, files, bouts>> /\ Unpersisted

Rematch ==
  /\ screen = "fight" /\ fight \in Outcomes /\ bouts < MaxBouts
  /\ StartFight(bout.mode, bout.node, bout.boss)
  /\ UNCHANGED <<dialogue, capture, files, bouts>> /\ Unpersisted

Credited(paid, new) == [r \in DOMAIN paid |-> IF r \in new THEN paid[r] + 1 ELSE paid[r]]
RewardOf(new) == MapThenSumSet(LAMBDA t : Trials[t], new)

(* claimTrials: the trials the bout's hits fulfil that are not yet claimed. *)
ClaimTrials(p, done) ==
  LET new == done \ claimed
  IN [p EXCEPT !.trials = @ \cup new,
               !.ember = @ + RewardOf(new), !.paid = Credited(@, new)]

(* awardFor *)
Award(p, out) ==
  IF out # "win" THEN OtherPay
  ELSE WinPay + (IF bout.boss THEN BossPay ELSE 0)
       + (IF (p.wins + 1) % JackpotEvery = 0 THEN JackpotPay ELSE 0)

(* Mutant: every graduation pays.                                           *)
GraduateAgain(p, out) ==
  IF bout.mode = "tutorial" /\ out = "win"
  THEN [p EXCEPT !.graduated = TRUE, !.ember = @ + Stipend, !.paid["stipend"] = @ + 1]
  ELSE p

Graduate(p, out) ==
  IF bout.mode = "tutorial" /\ out = "win" /\ ~p.graduated
  THEN [p EXCEPT !.graduated = TRUE, !.ember = @ + Stipend, !.paid["stipend"] = @ + 1]
  ELSE p

(* showResult: the award, except in the dojo, then the graduation; each is  *)
(* written to the store by itself.                                          *)
Awarded(p, out) ==
  IF out = "live" \/ bout.mode = "dojo" THEN p
  ELSE [p EXCEPT !.ember = @ + Award(p, out), !.wins = IF out = "win" THEN @ + 1 ELSE @]
Rewarded(p, out) ==
  IF out = "live" \/ bout.mode = "dojo" THEN p ELSE Graduate(Awarded(p, out), out)

(* tickFight: one tick of the bout, with all that hangs on its events.      *)
Tick(out, done) ==
  /\ screen = "fight" /\ fight = "live" /\ ~paused
  /\ done # {} => bout.mode = "dojo"
  /\ LET award == Awarded(profile, out)
         paid == Rewarded(profile, out)
         all == IF done = {} THEN paid ELSE ClaimTrials(paid, done)
     IN IF all = profile THEN Unpersisted
        ELSE \/ Become(all)
             \/ (* The award was stored, the graduation was not.           *)
                /\ Refusals /\ award \notin {profile, all} /\ profile' = all
                /\ stored' = Migrate(award) /\ synced' = FALSE
  /\ fight' = out
  /\ claimed' = claimed \cup done
  /\ bouts' = IF out = "live" THEN bouts ELSE bouts + 1
  /\ lesson' \in IF bout.mode # "tutorial" THEN {lesson}
                 ELSE {lesson} \cup
                      {l \in {lesson + 1} : l < Lessons \/ (l = Lessons /\ out = "win")}
  /\ UNCHANGED <<screen, returnTo, bout, paused, dialogue, capture, files>>

---------------------------------------------------------------------------
(* Story.                                                                   *)

(* storyCursor: the first node of the chain that is not completed; one past *)
(* the end when the story is done.                                          *)
Cursor(p) == CHOOSE n \in 1..Len(Nodes) + 1 :
               n \notin p.completed /\ \A m \in 1..n - 1 : m \in p.completed
Complete(n) == n \in Chain /\ Cursor(profile) = n

(* applyStoryUnlocks *)
WithNode(p, n) ==
  [p EXCEPT !.completed = @ \cup {n}, !.arenas = @ \cup Nodes[n].arenas,
            !.fighters = @ \cup Nodes[n].fighters]

OpenDialogue(n) == dialogue' = [node |-> n, lines |-> 2]

(* What follows a node: the next scene's dialogue, its bout, or the map.    *)
Follow(n) ==
  IF n > Len(Nodes)
  THEN dialogue' = Closed /\ UNCHANGED <<screen, returnTo, bout, fight, paused, claimed, lesson>>
  ELSE IF Nodes[n].kind = "fight"
  THEN StartFight("story", n, Nodes[n].boss) /\ dialogue' = Closed
  ELSE OpenDialogue(n) /\ UNCHANGED <<screen, returnTo, bout, fight, paused, claimed, lesson>>

(* playCurrentScene, from the story map.                                    *)
PlayScene ==
  /\ screen = "story" /\ Cursor(profile) \in Chain /\ bouts < MaxBouts
  /\ Follow(Cursor(profile))
  /\ UNCHANGED <<capture, files, bouts>> /\ Unpersisted

(* stepDialogue: reveal or turn a line; after the last, finishStoryNode,    *)
(* which does nothing but say so if the node is not the current one.        *)
NextLine ==
  /\ dialogue.lines > 1
  /\ dialogue' = [dialogue EXCEPT !.lines = @ - 1]
  /\ UNCHANGED <<screen, returnTo, bout, fight, paused, claimed, lesson,
                 capture, files, bouts>> /\ Unpersisted

FinishScene ==
  /\ dialogue.lines = 1 /\ bouts < MaxBouts
  /\ IF Complete(dialogue.node)
     THEN /\ Become(WithNode(profile, dialogue.node))
          /\ Follow(dialogue.node + 1)
     ELSE /\ dialogue' = Closed /\ Unpersisted
          /\ UNCHANGED <<screen, returnTo, bout, fight, paused, claimed, lesson>>
  /\ UNCHANGED <<capture, files, bouts>>

(* Mutant: the Continue button is there after every story bout.             *)
MayContinueAlways == bout.mode = "story" /\ fight \in Outcomes
MayContinue == bout.mode = "story" /\ fight = "win"

(* continueStory, behind the button of a won story bout.                    *)
ContinueStory ==
  /\ screen = "fight" /\ MayContinue
  /\ screen' = "story" /\ fight' = "none" /\ paused' = FALSE /\ lesson' = 0
  /\ IF Complete(bout.node)
     THEN /\ Become(WithNode(profile, bout.node))
          /\ IF bout.node = Len(Nodes) THEN dialogue' = Closed
             ELSE OpenDialogue(bout.node + 1)
     ELSE dialogue' = Closed /\ Unpersisted
  /\ UNCHANGED <<returnTo, bout, claimed, capture, files, bouts>>

---------------------------------------------------------------------------
(* Shop.                                                                    *)

Funds == Smaller(profile.ember, MaxEmber)

BuyWeapon(w) ==
  /\ screen = "shop" /\ w \notin profile.owned
  /\ IF Funds >= Weapons[w]
     THEN Become([profile EXCEPT !.ember = Funds - Weapons[w],
                                 !.owned = @ \cup {w}, !.equipped = w])
     ELSE profile' = [profile EXCEPT !.ember = Funds] /\ UNCHANGED <<stored, synced>>
  /\ UNCHANGED <<ui, capture, files, bouts>>

(* Mutant: what is equipped is not saved.                                   *)
EquipForgets(w) ==
  /\ screen = "shop" /\ w \in profile.owned \ {profile.equipped}
  /\ profile' = [profile EXCEPT !.equipped = w]
  /\ UNCHANGED <<stored, synced, ui, capture, files, bouts>>

Equip(w) ==
  /\ screen = "shop" /\ w \in profile.owned \ {profile.equipped}
  /\ Become([profile EXCEPT !.equipped = w])
  /\ UNCHANGED <<ui, capture, files, bouts>>

BuyUpgrade(t) ==
  LET level == profile.levels[t]
      cost == TrainingCost * (level + 1)
  IN /\ screen = "shop" /\ level < MaxLevel
     /\ IF Funds >= cost
        THEN Become([profile EXCEPT !.ember = Funds - cost, !.levels[t] = @ + 1])
        ELSE profile' = [profile EXCEPT !.ember = Funds] /\ UNCHANGED <<stored, synced>>
     /\ UNCHANGED <<ui, capture, files, bouts>>

Export ==
  /\ screen = "shop" /\ Cardinality(backups) < MaxBackups
  /\ backups' = backups \cup {Migrate(profile)}
  /\ UNCHANGED <<ui, capture, reading, swapped, bouts>> /\ Unpersisted

(* importProfileFile: the file is read while the player goes on.            *)
ChooseFile(b) ==
  /\ screen = "shop" /\ b \in backups
  /\ reading' = reading \cup {b}
  /\ UNCHANGED <<ui, capture, backups, swapped, bouts>> /\ Unpersisted

(* Mutant: an imported profile keeps what was unlocked before.              *)
ImportedMerged(b) == [Migrate(b) EXCEPT !.arenas = @ \cup profile.arenas]
Imported(b) == Migrate(b)

FileRead(b) ==
  /\ b \in reading
  /\ reading' = reading \ {b}
  /\ Become(Imported(b))
  /\ swapped' = (swapped \/ fight # "none")
  /\ UNCHANGED <<ui, capture, backups, bouts>>

---------------------------------------------------------------------------
Init ==
  /\ profile = DefaultProfile /\ stored = DefaultProfile /\ synced = TRUE
  /\ screen = "title" /\ returnTo = "title" /\ bout = NoBout
  /\ fight = "none" /\ paused = FALSE /\ dialogue = Closed
  /\ claimed = {} /\ lesson = 0 /\ capture = FALSE
  /\ reading = {} /\ backups = {} /\ bouts = 0 /\ swapped = FALSE

(* The page is closed and opened again: bootApp reads what was stored.      *)
Reload ==
  /\ profile' = Migrate(stored) /\ synced' = TRUE /\ UNCHANGED stored
  /\ screen' = "title" /\ returnTo' = "title" /\ bout' = NoBout
  /\ fight' = "none" /\ paused' = FALSE /\ dialogue' = Closed
  /\ claimed' = {} /\ lesson' = 0 /\ capture' = FALSE
  /\ reading' = {} /\ UNCHANGED <<backups, bouts, swapped>>

Next ==
  \/ \E s \in Menus : Navigate(s)
  \/ LeaveSettings \/ Rebind \/ TogglePause \/ Rematch
  \/ \E m \in {"versus", "dojo", "tutorial"}, boss \in BOOLEAN : Fight(m, boss)
  \/ \E out \in {"live"} \cup Outcomes, done \in SUBSET DOMAIN Trials : Tick(out, done)
  \/ PlayScene \/ NextLine \/ FinishScene \/ ContinueStory
  \/ \E w \in DOMAIN Weapons : BuyWeapon(w)
  \/ \E w \in DOMAIN Weapons \cup {"fists"} : Equip(w)
  \/ \E t \in Tracks : BuyUpgrade(t)
  \/ Export \/ (\E b \in backups : ChooseFile(b)) \/ (\E b \in reading : FileRead(b))
  \/ Reload

Spec == Init /\ [][Next]_vars

---------------------------------------------------------------------------
(* Properties.                                                              *)

TypeOK ==
  /\ screen \in Menus \cup {"fight"} /\ returnTo \in Menus
  /\ fight \in {"none", "live"} \cup Outcomes
  /\ bout.node \in 0..Len(Nodes) /\ dialogue.node \in 0..Len(Nodes)
  /\ lesson \in 0..Lessons /\ bouts \in 0..MaxBouts
  /\ \A p \in {profile, stored} \cup backups \cup reading :
       /\ p.completed \subseteq Chain /\ p.ember \in Nat /\ p.wins \in Nat
       /\ p.levels \in [Tracks -> 0..MaxLevel]
       /\ p.trials \subseteq DOMAIN Trials

(* The tale is told in order: whatever is banked, imported or reloaded, the *)
(* completed nodes are the first ones of the chain, and the grounds and     *)
(* fighters that are open are those their nodes unlock.                     *)
ToldInOrder(p) ==
  /\ \E n \in 0..Len(Nodes) : p.completed = 1..n
  /\ p.arenas = {0} \cup UNION {Nodes[n].arenas : n \in p.completed}
  /\ p.fighters = {"kaito"} \cup UNION {Nodes[n].fighters : n \in p.completed}
StoryInOrder == \A p \in {profile, stored} : ToldInOrder(p)

(* Nothing earned is only in memory: after every handler the profile in     *)
(* storage is the one being played, unless the last write was refused, in   *)
(* which case it is an earlier one.                                         *)
EarnedIsStored == synced => stored = Migrate(profile)

(* A one-time reward is paid once per profile, however often the lesson or  *)
(* the trial is repeated, backed up and restored.  For trials, unless a     *)
(* profile arrived in the middle of a bout: claimTrials compares with the   *)
(* trials that were claimed when the bout began.                            *)
RewardsPaidOnce ==
  \A p \in {profile, stored} :
    /\ p.paid["stipend"] <= 1
    /\ ~swapped => \A t \in DOMAIN Trials : p.paid[t] <= 1

(* A story bout counts only when it is won: a fight node becomes completed  *)
(* by the Continue button of a victory in that very bout, or comes with a   *)
(* profile from elsewhere.                                                  *)
VictoryStep ==
  \A n \in profile'.completed \ profile.completed :
    Nodes[n].kind = "fight"
      => \/ fight = "win" /\ bout.mode = "story" /\ bout.node = n
         \/ \E p \in reading \cup {stored} : n \in p.completed
OnlyVictoryCounts == [][VictoryStep]_vars
=============================================================================
