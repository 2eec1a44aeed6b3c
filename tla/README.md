# Verification of RandomLabs

RandomLabs is a repository of independent programs that a lab of agents builds.
This project models the ones with logic of their own: **torshim** (`src/tor-cli`),
which routes a whole Linux host through a private tor; **umbra** (`src/umbra`), a
fighting game with a story, a profile and a service worker; and ten other programs
that run in a browser. TLC checks small instances of all of them, TLAPS proves
most of what is said about torshim and umbra for every instance.

## 1. Inventory

`PROJECT.json` lists every part with its files, its modules and what is left out.

### torshim

| part | source | state | operations | what makes it hard | what makes it correct |
|---|---|---|---|---|---|
| session lock | `internal/syswide/lock.go` | `session.lock` | acquire, reap, release | every step is one system call; process ids are reused; locks age | one owner at a time; a waiter always returns; nobody drops a lock in use |
| connect, disconnect, repair | `internal/syswide/connect.go` | none of their own: record, rules, tor, data directory | the three commands, `rollback` | kill at any point, failing steps, a record read before the lock is taken | the record covers the rules; tor dies before rules go; nothing is left behind |
| session record | `syswide.go` | `active.json` | load, save, clear | truncate-then-write; readers without the lock | names what has to be undone |
| snapshot and restore | `backup.go` | backup directories | dump, replay | what the dump holds of earlier sessions; empty dumps | restores what was there and no capture |
| firewall backends | `nft.go`, `iptables.go` | kernel rules | ensure, present, remove, dump, restore | iptables installs piece by piece; errors of a check read as "absent" | whole or nothing, detectable |
| tor instance | `internal/lifecycle` | process, ports, data directory, control connection | launch, wait, stop, detect | ownership by a connection, grace periods | an owned tor never outlives its owner; a launch that fails leaves nothing |

The three commands take the lock, call the backends through a command runner,
start tor through `lifecycle.Launch` and keep the record. Commands of different
processes share only the state directory, the kernel and the tor process.

### umbra

| part | source | what makes it hard | what makes it correct |
|---|---|---|---|
| bout engine | `combat/engine.js`, `fighter.js` | two sides in one tick against snapshots that are merged; hitstop; bosses | no blow lost, no side first, rounds and bouts end with who won |
| profile, purse, storage | `storage/`, `economy.js`, `app.js` | every handler changes and saves; storage refuses; imports land in the middle of a bout | what is played is stored; rewards are paid once; the tale is in order |
| input | `input/` | levels and edges across pauses, focus loss, rebinding | nothing sticks, nothing fires late |
| renderers, audio | `app.js`, `render/`, `audio/` | settings submitted while a fallback chain awaits | frames come from a living renderer of the tier shown |
| offline pages | `sw.js` | releases that install, activate and delete while pages fetch | the active shell is whole and current |
| opponent, weapons, lessons, tale | `combat/ai.js`, `weapons.js`, `dojo.js`, `story.js` | tables whose consequences no test walks through | reach, no endless string of blows, lessons shown, tale playable |

All of umbra runs on one thread: an action is a handler, a tick, or the part of an
async function between two awaits.

### The other browser programs

| program | what is modelled | the hard part |
|---|---|---|
| tabula | sheet, evaluation, edits, undo, clipboard, autosave | dirty closure with cycles; shared cells in undo copies; debounced saves |
| halcyon | parser and printer, inference, interpreter, compiler and optimizer, machine, imports | a program must mean the same on every path |
| meridian | index and plans, text and snippets, the page | two tokenizers, two units of offset, answers out of order |
| maze-chase | the page around the game | page, audio and session keep three ideas of the game |
| netpulse | tests, store, log, live table | answers in any order over shared panels |
| folio | tools over a document and the shell | awaits between reading and painting a document |
| doom | staging of files, loop, saves, play | handlers that overlap; a slot is two writes; three providers |
| film, mythduel, thunderline | the players | sound on one clock, picture on another |
| rush | the whole game | pads, keys, screens and sound of one run |

Not modelled: orrery and kinetica (numeric integration), drawing and synthesis
everywhere, maze-chase's Rust core (it has replay tests), the other games, the
terminal browser, the desktop pet, archived projects, the lab's workflows (mostly the
hosting service's behaviour), and of torshim the status probe, the control
protocol's framing, per-app launch, doctor and the Windows and macOS shims.

## 2. Modules

| modules | what they are |
|---|---|
| `SessionLock` | `lock.go` at the grain of one system call |
| `RuleJournal` | abstract: what the record promises of the rules |
| `SystemSession` | connect, disconnect and repair over record, rules, tor and data directory |
| `UmbraBout` | a bout, one action per tick |
| `UmbraProgress` | profile, purse, story cursor, screens, storage, backups |
| `UmbraInput`, `UmbraShell`, `UmbraOffline`, `UmbraAI` | input; renderers and audio; service worker; opponent |
| `UmbraMoves`, `UmbraChain` | the real weapon tables; strings of blows with them |
| `UmbraStory`, `UmbraTale`, `UmbraDrill` | the real tale; how it is told; lessons and trials |
| `TabulaSheet` | the spreadsheet |
| `HalcyonSamples`, `HalcyonParse`, `HalcyonTypes`, `HalcyonEval`, `HalcyonCompile`, `HalcyonVm`, `HalcyonModules` | the language, stage by stage |
| `Meridian`, `MeridianText`, `MeridianPage` | search engine, text, page |
| `MazePage`, `NetpulsePage`, `RushGame` | one program each |
| `FolioDoc`, `FolioShell` | tools on a document; the shell around them |
| `DoomWad`, `DoomShell`, `DoomSaves`, `DoomPlay` | files, loop, saves, play |
| `FilmPlayer`, `DuelPlayer`, `StemPlayer` | the three players |
| `MCSessionLock`, `MCSystemSession`, `MCUmbra`, `MCApps` | the instances TLC checks |
| `SessionLockProofs`, `SystemSessionProofs`, `UmbraBoutProofs`, `UmbraProgressProofs`, `MCUmbraProofs` | theorems; those of `UmbraInput`, `UmbraShell` and `UmbraOffline` are at the end of the module |

`MCUmbra` and `MCApps` hold one instance per part. A behaviour picks a *setting* and
keeps it; the variables of the other parts stay put. The parts of one program share
names where the code does (`screen`, `phase`, `winner`).

**SessionLock.** One step is one system call on the lock file. `CreateFresh` and
`CreateExists` are the `O_EXCL` open, `WriteBody` and `WriteFails` the write of pid,
time and token, `ReadLock` is `readLock`, `WaitForHolder`, `GiveUp` and `JudgeStale`
the test at lock.go:85, `Reap` the removals of the loop and `ReapFails` a removal whose
error the code drops (lock.go:82, 95), after which the loop goes on without a look at
the deadline; `ReleaseRead` and `ReleaseRemove` the
two halves of `Release`. A process id is used again by later commands (`run` counts
them); the token is the pair. Clocks are abstracted to what is asked of them: `aged`
holds the locks past `staleAfter`, `expired` the waiters past their deadline.
`stolen`, a history variable, holds locks removed by another while their creator
relied on them. Errors of `OpenFile` other than EEXIST and partial writes are left out.

**SystemSession.** `rec` is `active.json` (none, torn, or a session), `fw` maps each
torshim rule to the tor it was written for, `spawned`, `alive`, `owner` and `dirs`
describe tor instances, `pc` and `op` where each command is and its locals, `faults`
counts failed firewall commands and writes, `told` is what the last command said.
Each call that changes something is a step: `TruncateRecord` and `WriteRecord` are
the halves of `os.WriteFile`, `ApplyRule` and `RemoveRule` one piece each, teardown
is shared by disconnect, `rollback`, `--force` and repair. `Crash` kills a command
between any two steps. The lock is a variable here. An nft table is one rule in one
transaction; iptables has three jumps and three chains, and a kill *inside* a chain is
not told from one beside it. Foreign rules matter only as to whether a dump is blank.
Replaying a dump is one step. `StopTor` idealises `terminate` and `kill`, whose errors
the code ignores: a tor that was told to go is gone when the step is done. With
`--trans-port` a connect may run beside an old tor, so that `CheckPort` goes either way.
A launch that fails is one step. A tor's pid is not reused. The gates before any
change, forensic dumps and the resolv.conf warning are left out.

**RuleJournal.** The journal is closed, torn or names a backend; rules are armed only
under a journal that names their backend, and it closes only when none are armed.

**umbra.** `UmbraBout`: `Live` is a live tick of `stepFight` (boss, both
`stepFighter`s against snapshots, `mergeDefender`, hitstop, clock, score),
`FrozenTick`, `IntroTick` and `RoundEndTick` its early returns. Positions are chance:
whether a strike meets and when a jump lands is chosen each tick. Frame counts and
health are scaled down. `UmbraProgress`: an action per handler, each followed
by what `persistProfile` leaves stored; the award of a bout and the stipend of a
graduation are two writes, either of which may be refused, while the trials claimed in one
tick are stored together; `paid` counts one-time rewards and is not in the code.
`UmbraShell`: a `job` is a submit of the settings sheet or the boot, between two awaits of the save and of the fallback chain; the tier is read again
after the save. `UmbraOffline`: fetches, puts and `addAll` requests are separate steps
between which a deployment may fall; one release may install while another waits and a
third activates, and `swept` remembers whose cache an activation has deleted.

**The other programs.** Their headers say what an action is and what is left out.
Where handlers are async, a job goes from one await to the next; what arrives
late arrives in any order. `Uses` in an instance lists sessions: which kinds of input
are offered and how many are made at most.

## 3. Runs

| run | instance | distinct states | what it shows |
|---|---|---|---|
| `lock` | 2 processes of 2 commands each, kills, deadlines, ancient locks, removals that fail, fair | 43,369 | two unrobbed commands never hold the lock; a judged reap is right; every attempt ends, unless its removals fail for ever |
| `lock_race` | 2 processes of 1 command each, no clocks | violation | finding 1 |
| `session_mixed` | 2 processes, 2 tors, both backends, a blank dump, all of the environment | 729,135 | record covers rules and is older than they are; tor dies first; `RuleJournal` refined |
| `session_nft` | 3 processes, 3 tors, nft, all of the environment, 1 failure | 35,275 | a verified session captures DNS for its own tor; while nothing has failed, repair ends clean |
| `session_cycle` | 2 processes, 3 tors, both backends, a blank dump, no kills, fair | 3,889 | commands end; disconnect is clean; a refused restore leaves the record and nothing else; no data directory without a record |
| `session_owner` | 2 processes, 1 tor | violation | finding 2 |
| `umbra_rehit` | the string of punches | violation | finding 3 |
| `umbra_app` | a round with a summoner, a string of punches, a match of three rounds, and the other nine parts of umbra | 697,613 | blows, sides, score, length of a bout; profile, tale, input, frames, caches, opponent, strings of blows, lessons |
| `umbra_tier` | the renderers | violation | finding 4 |
| `apps` | eighteen settings of the other programs | 301,161 | meaning kept, derived state fresh, saves current, one at a time, work ends |
| `apps_fold` | halcyon's machine on seventeen programs | violation | finding 5 |
| `apps_reload` | the sheet of tabula | violation | finding 6 |

**Bounds.** Two commands per process let a process id come back to life while
another command still acts on what it read of the first; two processes are enough for
a reap to race a release and a re-creation. The number of commands also bounds how many
fresh locks of others a contender can meet; its own failing removals are not bounded.
`MaxTor` bounds launches: 2 let a
session be torn down and followed by another, 3 let leftovers of two earlier
sessions meet. `MaxFaults` is 0 where a property presumes working firewall commands, 1
where one failure is the question. In `umbra_app` a round has at most eight ticks and a
fighter at most three points of health: a trade, a chip, a guard break, a wisp, a
knockout and a forfeit on time all happen, a match is won early, late and drawn; there are
three scenes with a fight between two dialogues, two bouts, one backup,
ember up to 3; the *real* weapon, story, lesson and roster tables in `combos`, `tale`
and `drill`; three releases and one late put for the worker; one settings submit
overtaking the boot. `apps`: the sessions of each setting are short (two to six inputs) but
every kind of input is in one, in the combinations that share state. All
states within the bounds are explored. Deadlock is not checked where a session is over when
its inputs are used up (`lock`, `lock_race`, `apps`).

**Fairness.** `lock`: a running process executes its next statement, and time
passes until a deadline does. `session_cycle`: a command that runs executes its next
step, and a tor without owner notices. Both are what the scheduler gives; no
step of the environment is assumed to happen. `apps`: halcyon's machine and import
resolver are loops and run on; nothing is assumed of users, timers or answers.

**What the properties leave out.** `OneUnrobbedHolder` excuses a holder whose file was
removed by another, which covers ancient locks (lock.go:31-34) and the race of `lock_race`.
`AcquireReturns` excuses a contender whose removals fail again and again; it does spin past
its deadline. `OfflineIsWhole` excuses a release whose cache an older one deleted while
activating. `MeaningKept` excuses optimized programs with a jump into a folded run
(`JumpsIntoFold`; one of the seventeen), which finding 5 is about. `SavedIsCurrent` excuses
a workbook whose older write landed after a newer one (`late`), and compares the texts of
cells, not the values a reload gives them (finding 6). `RewardsEarned` excuses trials judged
after an import during a dojo bout, `EscapeBeforeKo` the nunchaku, `OneAtATime` panels
with several buttons. `session_cycle` has no kills, `session_mixed` no failing commands.

**Mutants.** Next to some definitions stands a variant marked "mutant" or "a slip to
notice": a plausible mistake in that place. None is part of `Next`; with each
property one of them was put in the place of its original, and TLC found
the property violated. A few variants no property needed are kept as further examples.

## 4. Findings

The six violation runs are disagreements between what the code does and what its
comments or documents say; `PROJECT.json` quotes the lines.

1. `lock_race`: the lock file exists without a body for a moment; a contender takes
   it for garbage, and two commands own the firewall.
2. `session_owner`: `connect` makes itself the owner of tor and exits: tor exits as
   well, and the rules blackhole the host.
3. `umbra_rehit`: a second blow on a fighter still in hit stun loses its stun, since
   the merge copies the stun only with a change of state.
4. `umbra_tier`: a canvas keeps the kind of its first context, so that a fallback after
   WebGPU took the canvas, or a change of tier, leaves nothing that draws.
5. `apps_fold`: the optimizer folds a constant with an operator that is a jump target;
   `neg (if c then 1 else 2)` is 1 when optimized and -1 when interpreted.
6. `apps_reload`: a saved workbook holds formulas as they were typed, which inserted and
   deleted rows do not rewrite: reloaded, it has other values.

Seen while modelling, each outside the properties above (excluded by an instance or by
an action's guard, as the module says):

- *torshim.* `Release` checks its token and removes the path in two steps and may
  delete its successor's lock (`ReleaseKeepsSuccessor` in `SessionLock`). Jumps of an
  iptables connect killed half way are invisible to `repair`, get into the next
  snapshot and stay before the next session's redirect. On a host with an empty firewall
  the dump is empty and `disconnect` refuses to restore it each time, although
  connect.go:520 promises "the exact pre-connect state" (`RefusalIsTidy` says what it
  leaves instead). A stale lock that cannot be removed (an immutable file) makes a command
  spin without a look at its deadline. A presence check that
  fails once makes `repair` remove the rules of a live session; a rollback whose
  `Remove` fails drops the record of rules in force. With two failures an older tor's nft
  table can stay in force under a new session (`CaptureReachesOwnTor` needs at
  most one).
- *umbra.* With the nunchaku kick, sweep and kick renew the stun without end, because
  hit and stun alternate; `EscapeBeforeKo` excludes them. Two fights next to each other
  in the tale would let the second be completed as a dialogue, and `validateStory` does
  not look at it (`ScenesBetween`). An import that lands in a dojo bout can have a trial
  paid again, and leaves picks of the old profile in place. A settings submit that overtakes
  another leaks a renderer. A new release
  that installs while an older one activates loses its cache, and takes over without one
  (`OfflineFirst`). Mute is read only when the audio engine is made. A
  key pressed during a pause fires on the resume in its frame.
- *tabula.* Clear and Cut leave cells painted; SUM drops an error beside a number; undo
  after a load restores the old file; a formula that stayed in place is rewritten in the
  object its undo snapshot shares, so that the undo does not bring its value back
  (`UndoRestores`, with three edits); saves to OPFS may land out of order.
- *halcyon.* Instance methods are
  dynamically scoped; user operators of level 0 never parse; a line that begins with
  `-` is swallowed by the one before.
- *meridian.* A word with two apostrophes is one term in a query and two in the index; a
  word longer than the window gives an empty snippet; an older fetch may overwrite a
  newer snippet.
- *maze-chase.* Pause bound to Space is stored and then rejected by the loader; pausing
  and hiding in one frame resumes the hidden game.
- *netpulse.* Two buttons share a panel; the timeout is cleared when headers arrive, so
  that a stalled body never ends; two tabs overwrite each other's store.
- *folio.* Two operations at once lose one; a split pushes an operation without a
  snapshot; opening a file keeps the undo stacks of the last.
- *doom.* Resume while running starts a second loop; a pending write may overwrite an
  import; removing the last file brings back the cached copy.
- *players, rush.* Film keeps the score playing after a frame that fails; mythduel shows
  and hides its end card when played at the end; thunderline's fallback disables mute;
  rush never shows "new best", and its keys stick over a pause.

## 5. Proofs

TLAPS checks every proof. All constants keep their values open, within the
assumptions named. Steps are numbered, and those of the second level lettered.

**SessionLockProofs.** `TypeCorrect`. `OneUnrobbedHolderAlways` rests on `Owned`: a
command that relies on its lock and was not robbed is the one the file names; only
`Unlink` can break that, and it records whom it robs. `JudgedReapSound` rests on
`PastLocks` (every lock anyone has seen was made by a command that has begun) and
`Judged` (one judged stale is ancient or its command has stopped relying on it for
good: a process id may come back to life, a command may not).

**SystemSessionProofs.** For every set of processes, any number of tors and, unless
said otherwise, either or both backends.

| theorem | conditions | rests on |
|---|---|---|
| `TypeCorrect` | none | `Fits`: what a command's stage says of its locals; lemma `CommandsExclude`: who is past the lock holds it, the lock being one variable here |
| `RecordCoversRules`, `RecordArmsNothing` | until the first failure of a firewall command or a write | `Journaled`: for each stage, what the command may rely on of the record (`Recorded`) and of the rules (`Undone`) |
| `SessionIsJournal` | `MaxFaults = 0` | `RecordSteps`: every step leaves the record alone, tears it, names it while no rule changes, or drops it when nothing is armed |
| `RulesFollowTor`, `RepairDisarms` | `MaxFaults = 0` | `Silenced`: of a session being torn down, tor is dead before any rule goes |
| `RepairCleans` | and nft alone | presence of the one table is presence of all rules |
| `CyclesLeaveNoTrace`, `DisconnectCleans`, `RefusalsAreTidy` | `MaxFaults = 0`, no kill, no flush | `Tidy`: each command has taken its directory and rules away by the stage at which it forgets them |
| `CaptureIsOwn` | at most one failure, nft alone | `AllAimed`: a table that stands was written for the tor the session has, or the one failure is used up |

The record's properties are not inductive: a command works on its copy of the
session and on what it believes of the rules, and the invariants say what those are
worth at each stage. As at most one command is past the lock, a step is checked
against its own stage (`AloneStep`, `QuietStep`, `WorldStep`). The conditions are needed: with
failures `Remove` and `ClearState` ignore errors, a kill between two iptables jumps
leaves what no repair detects, and a killed connect leaves its directory.

**umbra.** The general theorems are stated in the modules of the parts; `MCUmbraProofs`
applies them to the instances that TLC checks, since a step of a setting is a step
of its part (`InputSteps` and its like).

| theorem | conditions | rests on |
|---|---|---|
| `UmbraInput.NothingSticks` | none | `HandInv`: what is held has a finger, a guard a thumb, on every screen |
| `UmbraInput.NothingStale` | "block" is a level | `PressInv`: every queued edge and tap was made since the last tick |
| `UmbraInput.TypeCorrect` | `Defaults`: the keys the page begins with are valid, and "punch" is an edge | `Wired`; `RebindValid`: a swap leaves every action a key and no key to two actions |
| `UmbraShell.TypeCorrect` | the stored settings are settings (`Configs`) | `RestInv`, beside `StageInv` |
| `UmbraOffline.TypeCorrect` | at least one release | `NamesStayApart`: no cache is opened twice |
| `UmbraProgressProofs.TypeCorrect` | `Tariff`: prices and rewards are whole numbers | `CountInv`: all profiles there are have whole purses and levels on their ladders; `PlaceInv`: a screen has what it shows |
| `UmbraBoutProofs.TypeCorrect` | `Armed`, and what `BoutsEnd` and `KoEnds` ask | `RestInv`: pauses, buttons, and never more wisps than allowed |
| `UmbraShell.FramesHaveARenderer` | tiers and failures as the code has them | `StageInv`: the jobs between two awaits own what they will install |
| `UmbraOffline.ShellStaysWhole` | at least one release | `ShellInv`: a cache is complete before its worker waits, or was `swept`, and only an activation deletes it |
| `UmbraProgressProofs.TaleIsInOrder`, `NothingOnlyInMemory`, `NothingPaidTwice` | the tables have sizes; no trial is called "stipend" | `BankInv` and `PayInv`: all profiles there are (played, stored, read, backed up) are sound ones; a reward is marked in the profile that is paid |
| `UmbraProgressProofs.VictoriesOnly` | and no two fights follow each other | `SceneInv`: a dialogue that is open is of a scene that is one |
| `UmbraBoutProofs.ScoreIsSettled`, `BoutsEnd` | rounds and pauses are not empty | `ScoreInv`: wins do not pass the rounds played; `ClockInv`: the clock of a running round is above zero |
| `UmbraBoutProofs.NoSideIsFirst` | none | a tick is symmetric in its two sides |
| `UmbraBoutProofs.KoEnds`, `HitsCount` | damage and chip not negative, cancels into known moves, as `validateMoves` and the tuning have them | `KoInv` and `Fit`; lemmas for each operator of a tick, from `ResolveHit` to `MergeDefender`: both fighters stay fit, and a blow that lands costs a foe that is not out |

`BoutsEnd` is the safety half of termination: each tick lowers `TicksLeft`, a natural
number. `HitsCount` needs more than the merge: a wisp may have put the victim out
in the same tick before the blow, and the guard of `attackTick` on a fighter
that is "ko" is what saves it.

The opponent, the lessons and the tale have their constants left open by `MCUmbra`
itself (or are a table of their own), so their theorems stand in `MCUmbraProofs`:

| theorem | conditions | rests on |
|---|---|---|
| `StrikesAreInReach` | `ValidReach`: reaches and distances are whole numbers | `StrikesReach`: every act of every state of the machine, also one decided ticks ago, picks from what the table reaches at the distance of its own tick |
| `RewardsAreEarned` | `LogsEnd`: the log has a length | `DrillInv`: a lesson is behind the student for what the log shows, a trial for its moves in it. `GreedyIsBest`: the one pass of `checkTrial` finds as many moves in order as any way to read the log |
| `TaleIsTold` | `TalesEnd`: any number of imports, chapters and foes that are in the tale, one link changed | `TaleTold`: what has been told is, in order, the first part of the way the links lead; `TalePlace`: a picked or open node is one the way has reached. `CursorIsNext`: `storyCursor` walks to the first node not told |
| `KindsAreKept` | the above, and what the parts ask, proved for the instance | `KeptInv`, `FoughtInit` and `FoughtStep`: the invariants of all parts, each in its own setting |

`TaleIsTold` is about functions that recur over the tale and over the log. Induction is
made available for them by `NatSetInduction` (a set of numbers with 0 and all successors
is all of them) and `NatRecursion` (for every step there is a function that recurs
by it), which speak of sets and functions and so need no operator as a parameter.
`KindsAreKept` is the type invariant of the instance: purses that are not negative,
levels within their ladder, keys that no two actions share, caches with names of their
own, fighters within the bounds of the tuning, over every sequence of handlers.

The rest of `MCUmbraProofs` applies the general theorems to the instances: `KeysAreReal`,
`PressesAreFresh`, `ShellIsWhole`, `StageDraws`, `NothingUnsaved`, `VictoriesCount` (with
the whole tale: `TaleScenes`), `KnockoutsEnd`, `CleanBlowsCost`, `SidesTradeEvenly`,
`ScoresAreSettled`, `TicksRunOut`.

Assumptions on constants are evaluated by TLC where a run's module declares them; those
of a theorem about an instantiated module are proved for the instance (`BoutsAreMade`,
`BoutsAreArmed`, `KeysAreWired`, `StageIsSet`, `PricesAreSet`, `TablesFit`, `ChainBetween`).
One clause of `Tariff` stands for an induction over data: that what a set of trials pays
(`RewardOf`, a sum over the set) is a number. `PricesAreSet` proves it of the
instances, which have one trial (`JabIsWorthOne`) or none.

Proofs that could not be finished changed four definitions. The arms of the CASE of
`CursorAt` overlapped, at a stop that is no node and so was never told. `Valid` did not
say that a row holds a code once, as the `seen` map of `validateBindings` does, and
without that a swap may leave a code behind. `Burn` and `Without` give the place of
what stays instead of filtering, which the provers cannot follow.

**Model-checked only**, and why:

- Liveness: `AcquireReturns`, `CommandsFinish`, `WorkEnds`.
- `EscapeBeforeKo`: a fact about one table of weapons, where exhaustive search is the proof.
- Everything of `MCApps`: its types, `MeaningKept`, `DerivedIsFresh`, `SavedIsCurrent`,
  `OneAtATime`, `EditsMoveValues`. Some of its modules use recursive operators, which
  keeps theorems out of every module that reaches them, and most of halcyon
  and meridian is induction over programs and documents.
- `RewardOf` as a sum for every table of trials (see `Tariff`).

## 6. Plan

1. Recursive functions for recursive operators in `DoomWad`, `FolioShell`, `Halcyon*` and
   `Meridian*`, so that theorems may speak of `MCApps`.
2. `DoomShell.OneLoop`, `NetpulsePage.OneAtATime`, `MazePage.QuietWhenMuted`,
   `RushGame.BestOnlyRises` and the players' `MusicFollowsPlay`: invariants of a few
   variables, next to prove.
3. The strings of blows: `EscapeBeforeKo` for every table whose stuns fall as combos grow.
4. torshim: `SystemSession` over the real `SessionLock`; tor's life cycle in detail; the status
   command as a reader without the lock.
