------------------------------- MODULE DoomShell -------------------------------
(***************************************************************************)
(* The shell of archive/doom (app.js): WADs staged in a load order, merged, *)
(* kept in the cache and booted; the loop that ticks the engine; pause, the *)
(* map list, the renderer switch, music; and what a reload starts from.     *)
(* Handlers are coroutines: the step of a job goes from one await to the    *)
(* next.  initEngine never waits, so a boot is one step.                    *)
(***************************************************************************)
EXTENDS DoomWad, TLC

CONSTANTS
  Files,   \* the files a user has, [name, wad]
  Demo,    \* the WAD buildDemoWad makes
  Uses     \* the sessions looked at: [names, offers, most, jobs] gives the files there are,
           \* the kinds of input, how many inputs are made and how many jobs overlap at most

VARIABLES
  page,    \* the page: load order, engine, loops, music
  kept,    \* the cache with its copy in memory, progression, a save, the chosen tier
  jobs,    \* handlers that wait
  inputs   \* what the user did, and may do

doomVars == <<page, kept, jobs, inputs>>

Fresh ==
  [set |-> <<>>, merged |-> Null, engine |-> Null, list |-> <<>>, resume |-> Null,
   canvas |-> "none", tier |-> "2d", run |-> FALSE, looped |-> FALSE, strays |-> 0,
   paused |-> FALSE, key |-> FALSE, unlocked |-> FALSE, song |-> Null, saves |-> FALSE, ready |-> FALSE,
   failed |-> FALSE, halted |-> FALSE, doubled |-> FALSE, picked |-> FALSE]
Job(id, kind, at) ==
  [id |-> id, kind |-> kind, at |-> at, name |-> Null, wad |-> Null, rest |-> <<>>, map |-> Null]

Init ==
  /\ \E use \in Uses, gl \in BOOLEAN :
       /\ inputs = [made |-> 0, use |-> use, apart |-> TRUE]
       /\ kept = [mem |-> Null, disk |-> Null, behind |-> FALSE, soon |-> Null,
                  prog |-> Null, slot |-> Null, tier |-> "auto", gl |-> gl]
  /\ page = Fresh
  /\ jobs = {Job(0, "start", "config")}

----------------------------------------------------------------------------
(* A new loop; the one that ran, if it still does, is out of reach.          *)
SetPaused(p, v) ==
  IF v THEN [p EXCEPT !.paused = TRUE, !.run = FALSE]
  ELSE IF p.engine = Null THEN [p EXCEPT !.paused = FALSE]
  ELSE [p EXCEPT !.paused = FALSE, !.run = TRUE, !.looped = TRUE, !.halted = FALSE,
                 !.strays = IF p.run THEN @ + 1 ELSE @]
StartMapMusic(p) ==
  LET lump == [map \in Doom1 \cup Doom2 |-> CASE map = "E1M1" -> "D_E1M1"
                 [] map = "E1M2" -> "D_E1M2" [] map = "E2M1" -> "D_E2M1" [] OTHER -> "D_MAP01"]
  IN  IF /\ p.engine # Null /\ p.unlocked
         /\ \E l \in Range(p.merged.dir) : l.name = lump[p.engine.map]
      THEN [p EXCEPT !.song = p.engine.map] ELSE [p EXCEPT !.song = Null]
(* GL tiers fall to the 2D ones; a canvas keeps the kind of its first        *)
(* context, and Null is what asking a GL canvas for a 2D one throws.         *)
MakePresenter(canvas, tier, gl) ==
  IF tier = "gl" /\ gl /\ canvas \in {"none", "gl"} THEN "gl"
  ELSE IF canvas = "gl" THEN Null ELSE "2d"
ResolveTier(k) == IF k.tier # "auto" THEN k.tier ELSE IF k.gl THEN "gl" ELSE "2d"

(* Page and storage after a boot.  A refused WAD lets the level before it    *)
(* go on, without its music; a renderer that throws leaves the loop stopped. *)
Refused(p, k) ==
  [page |-> [IF p.engine # Null THEN SetPaused(p, FALSE) ELSE p EXCEPT !.failed = TRUE],
   kept |-> k]
MapList(ls, viable) == IF viable # <<>> THEN viable ELSE Names(discoverMaps(ls))
Drawn(p, k, canvas) ==
  IF canvas = Null
  THEN [page |-> [p EXCEPT !.halted = TRUE, !.failed = TRUE], kept |-> k]
  ELSE [page |-> StartMapMusic(SetPaused(
                   [p EXCEPT !.canvas = canvas, !.tier = canvas,
                             !.list = MapList(p.merged.dir, probeMaps(p.merged.dir))], FALSE)),
        kept |-> IF p.saves THEN [k EXCEPT !.soon = p.engine.map] ELSE k]
Loaded(p, k, e) ==
  IF e = Null THEN Refused([p EXCEPT !.run = FALSE, !.song = Null], k)
  ELSE Drawn([p EXCEPT !.run = FALSE, !.song = Null, !.engine = e, !.resume = Null,
                       !.merged = e.wad, !.failed = FALSE, !.tier = ResolveTier(k),
                       !.picked = FALSE],
             k, MakePresenter(p.canvas, ResolveTier(k), k.gl))
Booted(p, k, wad) == Loaded(p, k, initEngine(wad, IF p.resume = Null THEN "E1M1" ELSE p.resume))
Becomes(b) == page' = b.page /\ kept' = b.kept
Boot(p, k, wad) == Becomes(Booted(p, k, wad))

(* Bytes from loadCachedWad, which answers at once from the copy in memory   *)
(* and after a while from the cache.  The last file gone, the cached WAD     *)
(* comes back under its own name.                                           *)
FromCache(p, cached) ==
  IF cached = Null THEN [p EXCEPT !.set = <<>>]
  ELSE [p EXCEPT !.set = <<[name |-> "cached.wad", wad |-> cached]>>]
Resumed(job, p, cached) ==
  CASE job.kind = "slot" -> [p EXCEPT !.resume = job.map]
    [] job.kind = "remove" -> FromCache(p, cached)
    [] OTHER -> p
BootCached(job, p, k, cached) ==
  Boot(Resumed(job, p, cached), [k EXCEPT !.mem = cached], IF cached = Null THEN Demo ELSE cached)

----------------------------------------------------------------------------
(* Handlers.                                                                *)
Input(kind) ==
  /\ kind \in inputs.use.offers
  /\ inputs.made < inputs.use.most
  /\ inputs' = [inputs EXCEPT !.made = @ + 1,
                               !.apart = @ /\ (jobs = {} \/ kind \notin {"tier", "map"})]
(* A handler that waits: it may find another one waiting already.            *)
Begin(kind, job) ==
  /\ kind \in inputs.use.offers
  /\ inputs.made < inputs.use.most
  /\ Cardinality(jobs) < inputs.use.jobs
  /\ jobs' = jobs \cup {job}
  /\ inputs' = [inputs EXCEPT !.made = @ + 1, !.apart = @ /\ jobs = {}]
Id == inputs.made + 1
Without(files, name) == SelectSeq(files, LAMBDA f : f.name # name)

Ingest(file) ==
  /\ page.ready
  /\ Begin("ingest", [Job(Id, "ingest", "read") EXCEPT !.name = file.name, !.wad = file.wad])
  /\ UNCHANGED <<page, kept>>
(* What is left is worked out now and used after the next frame.             *)
RemoveWad(name) ==
  /\ name \in {f.name : f \in Range(page.set)}
  /\ Begin("remove", [Job(Id, "remove", "paint") EXCEPT !.rest = Without(page.set, name)])
  /\ UNCHANGED <<page, kept>>
SampleLoad ==
  /\ page.ready
  /\ Begin("sample", [Job(Id, "sample", "put") EXCEPT !.wad = Demo])
  /\ page' = [page EXCEPT !.set = <<>>]
  /\ kept' = [kept EXCEPT !.mem = Demo]
SelectTier(tier) ==
  /\ tier # kept.tier
  /\ LET k == [kept EXCEPT !.tier = tier]
         job == Job(Id, "tier", "match")
     IN  IF k.mem # Null
         THEN Input("tier") /\ BootCached(job, page, k, k.mem) /\ UNCHANGED jobs
         ELSE Begin("tier", job) /\ kept' = k /\ UNCHANGED page
LoadSlot ==
  /\ page.saves /\ kept.slot # Null
  /\ Begin("slot", [Job(Id, "slot", "slot") EXCEPT !.map = kept.slot])
  /\ UNCHANGED <<page, kept>>
SaveSlot ==
  /\ page.saves /\ page.engine # Null
  /\ Input("slot")
  /\ kept' = [kept EXCEPT !.slot = page.engine.map]
  /\ UNCHANGED <<page, jobs>>

(* The list's map out of the merged bytes: an error leaves the loop stopped. *)
Picked(p, e, canvas) ==
  CASE e = Null -> [p EXCEPT !.run = FALSE, !.halted = TRUE]
    [] canvas = Null -> [p EXCEPT !.run = FALSE, !.engine = e, !.halted = TRUE, !.picked = TRUE]
    [] OTHER -> SetPaused([p EXCEPT !.run = FALSE, !.engine = e, !.canvas = canvas,
                                    !.picked = TRUE], FALSE)
SelectMap(map) ==
  /\ page.ready /\ page.merged # Null /\ map \in Range(page.list)
  /\ Input("map")
  /\ page' = Picked(page, initEngine(page.merged, map),
                    MakePresenter(page.canvas, page.tier, kept.gl))
  /\ UNCHANGED <<kept, jobs>>

Pause == page.ready /\ Input("pause") /\ page' = SetPaused(page, TRUE) /\ UNCHANGED <<kept, jobs>>
(* The button is there whether the game is paused or not.                    *)
Resume ==
  /\ page.ready
  /\ Input("resume")
  /\ page' = [SetPaused(page, FALSE) EXCEPT !.doubled = @ \/ page.run]
  /\ UNCHANGED <<kept, jobs>>
(* The pause key acts when it goes down and again when it comes up.          *)
PauseKey ==
  /\ page.saves
  /\ IF page.key THEN UNCHANGED inputs /\ "key" \in inputs.use.offers ELSE Input("key")
  /\ page' = [SetPaused(page, ~page.paused) EXCEPT !.key = ~@]
  /\ UNCHANGED <<kept, jobs>>
TabHidden ==
  /\ page.ready /\ page.looped
  /\ Input("hide")
  /\ page' = SetPaused(page, TRUE)
  /\ kept' = [kept EXCEPT !.prog = IF kept.soon # Null THEN kept.soon ELSE @, !.soon = Null]
  /\ UNCHANGED jobs
EnableAudio ==
  /\ Input("audio")
  /\ page' = StartMapMusic([page EXCEPT !.unlocked = TRUE])
  /\ UNCHANGED <<kept, jobs>>
(* The save manager's timer writes the progression.                          *)
FlushProgression ==
  /\ kept.soon # Null
  /\ kept' = [kept EXCEPT !.prog = kept.soon, !.soon = Null]
  /\ UNCHANGED <<page, jobs, inputs>>
(* Only storage survives; what is pending may still be written on the way.   *)
Reload ==
  /\ page.ready
  /\ Input("reload")
  /\ page' = Fresh
  /\ \E flushed \in BOOLEAN :
       kept' = [kept EXCEPT !.mem = Null, !.soon = Null,
                            !.prog = IF flushed /\ kept.soon # Null THEN kept.soon ELSE @]
  /\ jobs' = {Job(Id, "start", "config")}

----------------------------------------------------------------------------
(* Steps of the jobs.                                                       *)
Ends(job) == jobs' = jobs \ {job}
Moves(job, to) == jobs' = (jobs \ {job}) \cup {to}
Merged(files, magic) == assembleWad(buildLoadout(files).merged, magic)

(* The file is read: staged behind the others, refused, or merged and kept.  *)
Stage(job, staged, merged) ==
  IF job.name \in buildLoadout(staged).rejected \/ probeMaps(merged.dir) = <<>>
  THEN Ends(job) /\ UNCHANGED <<page, kept>>
  ELSE /\ page' = [page EXCEPT !.set = staged]
       /\ kept' = [kept EXCEPT !.mem = merged]
       /\ Moves(job, [job EXCEPT !.at = "put", !.wad = merged])
StageAll(job, staged) ==
  Stage(job, staged, Merged(staged, IF Len(staged) = 1 /\ parseWadDirectory(job.wad)
                                    THEN job.wad.magic ELSE "PWAD"))
Read(job) ==
  /\ job.kind = "ingest" /\ job.at = "read"
  /\ StageAll(job, Append(Without(page.set, job.name), [name |-> job.name, wad |-> job.wad]))
  /\ UNCHANGED inputs
ReadFails(job) ==
  /\ job.kind = "ingest" /\ job.at = "read"
  /\ Ends(job)
  /\ UNCHANGED <<page, kept, inputs>>

StageRest(job, merged) ==
  IF probeMaps(merged.dir) = <<>>
  THEN Ends(job) /\ UNCHANGED <<page, kept>>
  ELSE /\ page' = [page EXCEPT !.set = job.rest]
       /\ kept' = [kept EXCEPT !.mem = merged]
       /\ Moves(job, [job EXCEPT !.at = "put", !.wad = merged])
Painted(job) ==
  /\ job.kind = "remove" /\ job.at = "paint"
  /\ IF job.rest = <<>>
     THEN IF kept.mem # Null THEN Ends(job) /\ BootCached(job, page, kept, kept.mem)
          ELSE /\ page' = [page EXCEPT !.set = <<>>]
               /\ Moves(job, [job EXCEPT !.at = "match"])
               /\ UNCHANGED kept
     ELSE StageRest(job, Merged(job.rest, "PWAD"))
  /\ UNCHANGED inputs
(* The cache took the WAD or did not in time; the boot goes on either way.   *)
Put(job) ==
  /\ job.at = "put"
  /\ \E stored \in BOOLEAN :
       Boot(page, [kept EXCEPT !.disk = IF stored THEN job.wad ELSE @, !.behind = ~stored], job.wad)
  /\ Ends(job)
  /\ UNCHANGED inputs
Match(job) ==
  /\ job.at = "match" /\ job.kind # "start"
  /\ BootCached(job, page, kept, IF kept.mem # Null THEN kept.mem ELSE kept.disk)
  /\ Ends(job)
  /\ UNCHANGED inputs
SlotRead(job) ==
  /\ job.kind = "slot" /\ job.at = "slot"
  /\ IF page.engine # Null /\ page.engine.map = job.map
     THEN Ends(job) /\ UNCHANGED <<page, kept>>
     ELSE IF kept.mem # Null THEN Ends(job) /\ BootCached(job, page, kept, kept.mem)
     ELSE Moves(job, [job EXCEPT !.at = "match"]) /\ UNCHANGED <<page, kept>>
  /\ UNCHANGED inputs

(* The page starts: saves, the cached WAD, the map to resume.                *)
Start(job) ==
  /\ job.kind = "start"
  /\ CASE job.at = "config" ->
            /\ page' = [page EXCEPT !.saves = TRUE]
            /\ Moves(job, IF kept.mem # Null THEN [job EXCEPT !.at = "prog", !.wad = kept.mem]
                          ELSE [job EXCEPT !.at = "match"])
            /\ UNCHANGED kept
       [] job.at = "match" ->
            LET cached == IF kept.mem # Null THEN kept.mem ELSE kept.disk
            IN  /\ Moves(job, [job EXCEPT !.at = "prog", !.wad = cached])
                /\ kept' = [kept EXCEPT !.mem = cached]
                /\ UNCHANGED page
       [] job.at = "prog" ->
            /\ LET p == IF job.wad = Null THEN page ELSE FromCache(page, job.wad)
               IN  Boot([p EXCEPT !.resume = kept.prog, !.ready = TRUE], kept,
                        IF job.wad = Null THEN Demo ELSE job.wad)
            /\ Ends(job)
  /\ UNCHANGED inputs

Next ==
  \/ \E file \in Files : file.name \in inputs.use.names /\ Ingest(file)
  \/ \E file \in Files \cup {[name |-> "cached.wad"]} : RemoveWad(file.name)
  \/ SampleLoad
  \/ \E tier \in {"auto", "gl", "2d"} : SelectTier(tier)
  \/ LoadSlot
  \/ SaveSlot
  \/ \E map \in Doom1 \cup Doom2 : SelectMap(map)
  \/ Pause
  \/ Resume
  \/ PauseKey
  \/ TabHidden
  \/ EnableAudio
  \/ FlushProgression
  \/ Reload
  \/ \E job \in jobs : Read(job)
  \/ \E job \in jobs : ReadFails(job)
  \/ \E job \in jobs : Painted(job)
  \/ \E job \in jobs : Put(job)
  \/ \E job \in jobs : Match(job)
  \/ \E job \in jobs : SlotRead(job)
  \/ \E job \in jobs : Start(job)

----------------------------------------------------------------------------
TypeOK ==
  /\ page.canvas \in {"none", "gl", "2d"} /\ page.strays \in Nat
  /\ IsInjective([i \in DOMAIN page.set |-> page.set[i].name])
  /\ page.run => page.engine # Null
  /\ page.engine # Null => page.engine.map \in Doom1 \cup Doom2
  /\ kept.behind \in BOOLEAN /\ kept.tier \in {"auto", "gl", "2d"}
  /\ Cardinality(jobs) <= inputs.use.jobs
  /\ inputs.made <= inputs.use.most

(* At rest, if no handler met another one waiting and the last boot went     *)
(* through, what runs is what is staged: the engine's bytes are the merged   *)
(* ones, the cache holds them, the list has their maps, the music is the     *)
(* level's (startMapMusic) unless the level was picked from the list.        *)
PlaysWhatIsStaged ==
  jobs = {} /\ inputs.apart /\ page.engine # Null /\ ~page.failed /\ ~page.halted =>
    /\ page.engine.wad = page.merged
    /\ kept.mem \in {Null, page.merged}
    /\ kept.behind \/ kept.disk \in {Null, page.merged}
    /\ page.set # <<>> => page.merged.dir = Merged(page.set, "PWAD").dir
    /\ Range(probeMaps(page.merged.dir)) \subseteq Range(page.list)
    /\ page.picked \/ page.song \in {Null, page.engine.map}

(* One loop ticks the engine, and none while the page says it is paused,     *)
(* until Resume is pressed in a game that runs.  A level that is there runs  *)
(* or is paused, except after a map or a renderer that failed to load.       *)
OneLoop ==
  ~page.doubled =>
    /\ page.strays = 0
    /\ page.paused => ~page.run
    /\ page.engine # Null => page.run \/ page.paused \/ page.halted

(* The load order means what its comment says (loadout.js:5-14): a later     *)
(* file's map replaces the earlier one as a whole, other lumps go by name,   *)
(* nothing is lost, the merged file reads back; and of whole maps the engine *)
(* plays exactly those the probe called viable.                              *)
OrderMeans(files, wad) ==
  /\ parseWadDirectory(wad)
  /\ LastWins(files, wad)
  /\ \A m \in MapsOf(wad.dir) :
       (m.map \in Range(probeMaps(wad.dir))) <=> (initEngine(wad, m.map) # Null)
LoadOrderMeans ==
  page.set # <<>> /\ (\A f \in Range(page.set) : Whole(f.wad.dir)) =>
    OrderMeans(page.set, Merged(page.set, "PWAD"))
================================================================================
