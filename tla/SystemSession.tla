----------------------------- MODULE SystemSession -----------------------------
(******************************************************************************)
(* The system-wide session of torshim: connect, disconnect and repair of      *)
(* src/tor-cli/internal/syswide (connect.go, backup.go, syswide.go, nft.go,   *)
(* iptables.go), and the tor instance of internal/lifecycle they start.       *)
(*                                                                            *)
(* Four things must stay in step: the session record on disk, the capture     *)
(* rules in the kernel, the tor they point at, and its data directory with    *)
(* the control cookie.  Each command changes them one at a time, may be       *)
(* killed between any two changes, and may see a firewall command fail.       *)
(*                                                                            *)
(* Commands exclude each other by the lock of module SessionLock, here taken  *)
(* as a variable; what that lock really guarantees is that module's subject.  *)
(******************************************************************************)
EXTENDS Naturals, FiniteSets

CONSTANTS
  Procs,       (* Process ids that run commands.                              *)
  Backends,    (* The firewall tools on the host: "nft", "iptables".          *)
  EmptyDumps,  (* Backends whose dump is blank before the first connect.      *)
  Env,         (* What the environment may do: see the actions that name it.  *)
  MaxTor,      (* Bound: tor instances started.                               *)
  MaxFaults,   (* Bound: firewall commands or writes that fail.               *)
  NoProc,      (* Nobody.                                                     *)
  NoRec,       (* LoadState finds no record.                                  *)
  Corrupt      (* LoadState finds bytes that do not parse.                    *)

ASSUME SessionAssumption ==
  /\ Backends \subseteq {"nft", "iptables"}
  /\ EmptyDumps \subseteq Backends
  /\ MaxTor \in Nat
  /\ MaxFaults \in Nat
  /\ NoProc \notin Procs
  /\ NoRec # Corrupt

VARIABLES
  lock,      (* The process that holds the session lock.                      *)
  pc,        (* Where each process is.                                        *)
  op,        (* The locals of each process's command.                         *)
  rec,       (* active.json: NoRec, Corrupt or a session.                     *)
  fw,        (* Each torshim rule in the kernel: 0, or the tor it was         *)
             (* written for.                                                  *)
  spawned,   (* How many tor instances were started.                          *)
  alive,     (* The tor instances that run.                                   *)
  owner,     (* Whose control connection owns each tor.                       *)
  dirs,      (* The tor instances whose data directory exists.                *)
  faults,    (* Failures so far.                                              *)
  told       (* What the last command that held the lock told its user.       *)

torVars == <<spawned, alive, owner, dirs>>
vars == <<lock, pc, op, rec, fw, torVars, faults, told>>

--------------------------------------------------------------------------------
(* The rules of a backend.                                                    *)

(* nft loads one table in one transaction; iptables installs a jump and then
   a chain's rules, three times over. *)
NftRules == {"table"}
IptJumps == {"natJump", "filterJump", "v6Jump"}
IptRules == IptJumps \cup {"natChain", "filterChain", "v6Chain"}

Rules(b) == IF b = "nft" THEN NftRules ELSE IptRules
AllRules == UNION {Rules(b) : b \in Backends}

(* What Present looks for: the table, or all three jumps. *)
Probed(b) == IF b = "nft" THEN NftRules ELSE IptJumps

(* The order in which Ensure installs and Remove deletes. *)
Rank(x) ==
  CASE x = "table" -> 0
    [] x = "natJump" -> 1    [] x = "natChain" -> 2
    [] x = "filterJump" -> 3 [] x = "filterChain" -> 4
    [] x = "v6Jump" -> 5     [] OTHER -> 6

First(x, todo) == x \in todo /\ \A y \in todo : Rank(x) <= Rank(y)

(* The rule that redirects DNS.  Its port is drawn anew for every tor. *)
DnsRule(b) == IF b = "nft" THEN "table" ELSE "natChain"

Tors == 1..MaxTor
Firewall == [AllRules -> 0..MaxTor]

Present(b) == \A x \in Probed(b) : fw[x] # 0

(* What a firewall dump of backend b holds of torshim's rules. *)
DumpOf(b) == [x \in AllRules |-> IF x \in Rules(b) THEN fw[x] ELSE 0]

(* ActiveState; tor is 0 until one is launched. *)
Session == [be : Backends, tor : 0..MaxTor, dump : Firewall]

ASSUME RecordAssumption == NoRec \notin Session /\ Corrupt \notin Session

(* An empty dump, which Restore refuses. *)
Blank(s) == s.be \in EmptyDumps /\ \A x \in AllRules : s.dump[x] = 0

--------------------------------------------------------------------------------
(* Commands and their steps.                                                  *)

Goals == {"none", "connect", "force", "rollback", "disconnect",
          "corrupt", "stray", "bare", "unhealthy", "stale", "gone"}

(* What a command is after, the backend and --force of a connect, the session
   at hand, the rules still to install or remove, the backends still to sweep. *)
Locals == [goal : Goals, be : Backends \cup {"none"}, force : BOOLEAN,
           sess : Session \cup {NoRec}, todo : SUBSET AllRules,
           sweep : SUBSET Backends]

NoOp == [goal |-> "none", be |-> "none", force |-> FALSE, sess |-> NoRec,
         todo |-> {}, sweep |-> {}]

Steps == {"idle", "load", "port", "snapshot", "spawn", "await", "truncate",
          "save", "apply", "verify", "queued", "reload", "inspect", "assess",
          "sweep", "reconcile", "stop", "wipe", "remove", "restore", "clear",
          "check", "exit"}

Outcomes == {"nothing", "connected", "disconnected", "repaired", "failed"}

At(p, step) == pc[p] = step
Goto(p, step) == pc' = [pc EXCEPT ![p] = step]

(* The command ends and reports; Exit releases the lock. *)
Report(p, outcome) == Goto(p, "exit") /\ told' = outcome

(* One more firewall command or write fails. *)
Fault == faults < MaxFaults /\ faults' = faults + 1

(* Present as the code sees it: a check that fails reads as absent. *)
Observe(b, answer) ==
  \/ answer = Present(b) /\ UNCHANGED faults
  \/ Present(b) /\ answer = FALSE /\ Fault

IsSession(r) == r # NoRec /\ r # Corrupt

(* The lock is free, or its holder died and is reaped. *)
Acquire(p) == lock = NoProc /\ lock' = p

(* The rules p still has to install or remove. *)
SetTodo(p, todo) == op' = [op EXCEPT ![p].todo = todo]

Init ==
  /\ lock = NoProc
  /\ pc = [p \in Procs |-> "idle"]
  /\ op = [p \in Procs |-> NoOp]
  /\ rec = NoRec
  /\ fw = [x \in AllRules |-> 0]
  /\ spawned = 0
  /\ alive = {}
  /\ owner = [g \in Tors |-> NoProc]
  /\ dirs = {}
  /\ faults = 0
  /\ told = "nothing"

--------------------------------------------------------------------------------
(* Connect.                                                                   *)

BeginConnect(p, b, force) ==
  /\ At(p, "idle")
  /\ Acquire(p)
  /\ op' = [op EXCEPT ![p] = [NoOp EXCEPT !.goal = "connect", !.be = b, !.force = force]]
  /\ Goto(p, "load")
  /\ told' = "nothing"
  /\ UNCHANGED <<rec, fw, torVars, faults>>

(* No record: go on with a fresh session. *)
ConnectFresh(p) ==
  /\ At(p, "load")
  /\ rec = NoRec
  /\ Goto(p, "port")
  /\ UNCHANGED <<lock, op, rec, fw, torVars, faults, told>>

(* Rules present and tor running: already connected. *)
ConnectAlready(p) ==
  /\ At(p, "load")
  /\ IsSession(rec)
  /\ Observe(rec.be, TRUE)
  /\ rec.tor \in alive
  /\ Report(p, "connected")
  /\ UNCHANGED <<lock, op, rec, fw, torVars>>

(* A corrupt record, or a stale one without --force. *)
ConnectRefuses(p) ==
  /\ At(p, "load")
  /\ \/ rec = Corrupt /\ UNCHANGED faults
     \/ /\ IsSession(rec)
        /\ ~op[p].force
        /\ \E seen \in BOOLEAN :
             Observe(rec.be, seen) /\ ~(seen /\ rec.tor \in alive)
  /\ Report(p, "failed")
  /\ UNCHANGED <<lock, op, rec, fw, torVars>>

(* A slip to notice: --force connects over the stale session. *)
ConnectOver(p) ==
  /\ At(p, "load")
  /\ IsSession(rec)
  /\ op[p].force
  /\ \E seen \in BOOLEAN :
       Observe(rec.be, seen) /\ ~(seen /\ rec.tor \in alive)
  /\ Goto(p, "port")
  /\ UNCHANGED <<lock, op, rec, fw, torVars, told>>

(* --force: tear the stale session down, then connect. *)
ConnectForces(p) ==
  /\ At(p, "load")
  /\ IsSession(rec)
  /\ op[p].force
  /\ \E seen \in BOOLEAN :
       Observe(rec.be, seen) /\ ~(seen /\ rec.tor \in alive)
  /\ op' = [op EXCEPT ![p].goal = "force", ![p].sess = rec]
  /\ Goto(p, "stop")
  /\ UNCHANGED <<lock, rec, fw, torVars, told>>

(* resolveTorUser and PortFree.  An older tor that still runs, or a program
   that is not torshim's, may hold the TransPort asked for; with --trans-port
   the connect goes on beside an older tor. *)
CheckPort(p) ==
  /\ At(p, "port")
  /\ \/ Goto(p, "snapshot") /\ UNCHANGED told
     \/ Report(p, "failed")
  /\ UNCHANGED <<lock, op, rec, fw, torVars, faults>>

(* Snapshot: the dump, before anything is changed. *)
Snapshot(p) ==
  /\ At(p, "snapshot")
  /\ op' = [op EXCEPT ![p].sess =
               [be |-> op[p].be, tor |-> 0, dump |-> DumpOf(op[p].be)]]
  /\ Goto(p, "spawn")
  /\ UNCHANGED <<lock, rec, fw, torVars, faults, told>>

SnapshotFails(p) ==
  /\ At(p, "snapshot")
  /\ Fault
  /\ Report(p, "failed")
  /\ UNCHANGED <<lock, op, rec, fw, torVars>>

(* Launch makes the data directory and starts a tor that this process owns. *)
SpawnTor(p) ==
  /\ At(p, "spawn")
  /\ spawned < MaxTor
  /\ LET g == spawned + 1 IN
       /\ spawned' = g
       /\ alive' = alive \cup {g}
       /\ dirs' = dirs \cup {g}
       /\ owner' = [owner EXCEPT ![g] = p]
       /\ op' = [op EXCEPT ![p].sess.tor = g]
  /\ Goto(p, "await")
  /\ UNCHANGED <<lock, rec, fw, faults, told>>

(* WaitReady and ProbeSocks pass. *)
TorReady(p) ==
  /\ At(p, "await")
  /\ op[p].sess.tor \in alive
  /\ Goto(p, "truncate")
  /\ UNCHANGED <<lock, op, rec, fw, torVars, faults, told>>

(* A slip to notice: a failed launch keeps its data directory. *)
LaunchLeaves(p) ==
  /\ pc[p] \in {"spawn", "await"}
  /\ alive' = alive \ {op[p].sess.tor}
  /\ Report(p, "failed")
  /\ UNCHANGED <<lock, op, rec, fw, spawned, owner, dirs, faults>>

(* Launch fails and cleans up after itself: nothing else has changed. *)
LaunchFails(p) ==
  /\ pc[p] \in {"spawn", "await"}
  /\ alive' = alive \ {op[p].sess.tor}
  /\ dirs' = dirs \ {op[p].sess.tor}
  /\ Report(p, "failed")
  /\ UNCHANGED <<lock, op, rec, fw, spawned, owner, faults>>

(* SaveState is an os.WriteFile: the record is truncated, then written. *)
TruncateRecord(p) ==
  /\ At(p, "truncate")
  /\ rec' = Corrupt
  /\ Goto(p, "save")
  /\ UNCHANGED <<lock, op, fw, torVars, faults, told>>

(* A slip to notice: the record names the other backend, as a default would. *)
WriteDefault(p) ==
  /\ At(p, "save")
  /\ rec' = [op[p].sess EXCEPT !.be = "iptables"]
  /\ SetTodo(p, Rules(op[p].be))
  /\ Goto(p, "apply")
  /\ UNCHANGED <<lock, fw, torVars, faults, told>>

WriteRecord(p) ==
  /\ At(p, "save")
  /\ rec' = op[p].sess
  /\ SetTodo(p, Rules(op[p].be))
  /\ Goto(p, "apply")
  /\ UNCHANGED <<lock, fw, torVars, faults, told>>

(* A slip to notice: nft, too, keeps the table that is already there. *)
ApplyMissing(p) ==
  /\ At(p, "apply")
  /\ \E x \in AllRules :
       /\ First(x, op[p].todo)
       /\ fw' = [fw EXCEPT ![x] = IF @ = 0 THEN op[p].sess.tor ELSE @]
       /\ SetTodo(p, op[p].todo \ {x})
  /\ UNCHANGED <<lock, pc, rec, torVars, faults, told>>

(* Ensure: nft deletes a leftover table and loads a new one, which is added to
   the leftover when the delete fails; iptables keeps whatever jump or chain is
   already there, and appends behind old rules. *)
ApplyRule(p) ==
  /\ At(p, "apply")
  /\ \E x \in AllRules :
       /\ First(x, op[p].todo)
       /\ \/ /\ op[p].be = "nft" \/ fw[x] = 0
             /\ fw' = [fw EXCEPT ![x] = op[p].sess.tor]
             /\ UNCHANGED faults
          \/ /\ fw[x] # 0
             /\ IF op[p].be = "nft" THEN Fault ELSE UNCHANGED faults
             /\ UNCHANGED fw
       /\ SetTodo(p, op[p].todo \ {x})
  /\ UNCHANGED <<lock, pc, rec, torVars, told>>

Applied(p) ==
  /\ At(p, "apply")
  /\ op[p].todo = {}
  /\ Goto(p, "verify")
  /\ UNCHANGED <<lock, op, rec, fw, torVars, faults, told>>

(* runVerify passes: tor is ready, the rules are seen, the TransPort and the
   DNSPort of this tor answer. *)
VerifyPasses(p) ==
  /\ At(p, "verify")
  /\ op[p].sess.tor \in alive
  /\ Observe(op[p].be, TRUE)
  /\ Report(p, "connected")
  /\ UNCHANGED <<lock, op, rec, fw, torVars>>

(* The record is not written, a rule is not installed, or the verify suite
   fails for a reason of its own (a lost circuit, a slow DNS answer). *)
BeginRollback(p) ==
  /\ \/ pc[p] \in {"truncate", "save", "apply"} /\ Fault
     \/ At(p, "verify") /\ UNCHANGED faults
  /\ op' = [op EXCEPT ![p].goal = "rollback"]
  /\ Goto(p, "stop")
  /\ UNCHANGED <<lock, rec, fw, torVars, told>>

--------------------------------------------------------------------------------
(* Teardown of op[p].sess, shared by --force, rollback and disconnect.        *)

(* A slip to notice: SIGTERM is sent and nobody waits for tor to go. *)
SignalTor(p) ==
  /\ At(p, "stop")
  /\ Goto(p, "wipe")
  /\ UNCHANGED <<lock, op, rec, fw, torVars, faults, told>>

(* stopPidGraceful or Instance.Stop: SIGTERM, and SIGKILL after the grace.  The
   code ignores a signal that fails and does not wait after SIGKILL; here a tor
   that was told to go is gone when the step is done. *)
StopTor(p) ==
  /\ At(p, "stop")
  /\ alive' = alive \ {op[p].sess.tor}
  /\ Goto(p, "wipe")
  /\ UNCHANGED <<lock, op, rec, fw, spawned, owner, dirs, faults, told>>

(* cleanupDataDir; a repair that drops a dead session ends with it. *)
WipeDataDir(p) ==
  /\ At(p, "wipe")
  /\ dirs' = dirs \ {op[p].sess.tor}
  /\ IF op[p].goal \in {"stale", "gone"}
       THEN Goto(p, "clear") /\ UNCHANGED op
       ELSE Goto(p, "remove") /\ SetTodo(p, Rules(op[p].sess.be))
  /\ UNCHANGED <<lock, rec, fw, spawned, alive, owner, faults, told>>

AfterRemove(goal) ==
  CASE goal = "disconnect" -> "restore"
    [] goal \in {"force", "rollback"} -> "clear"
    [] OTHER -> "sweep"

(* Remove takes one rule out, or fails to and goes on. *)
RemoveRule(p) ==
  /\ At(p, "remove")
  /\ \E x \in AllRules :
       /\ First(x, op[p].todo)
       /\ \/ fw' = [fw EXCEPT ![x] = 0] /\ UNCHANGED faults
          \/ fw[x] # 0 /\ Fault /\ UNCHANGED fw
       /\ SetTodo(p, op[p].todo \ {x})
  /\ UNCHANGED <<lock, pc, rec, torVars, told>>

(* A slip to notice: Remove returns at the first piece. *)
RemovedEarly(p) ==
  /\ At(p, "remove")
  /\ Goto(p, AfterRemove(op[p].goal))
  /\ UNCHANGED <<lock, op, rec, fw, torVars, faults, told>>

Removed(p) ==
  /\ At(p, "remove")
  /\ op[p].todo = {}
  /\ Goto(p, AfterRemove(op[p].goal))
  /\ UNCHANGED <<lock, op, rec, fw, torVars, faults, told>>

(* RestoreBackup replays the dump over everything the backend has. *)
Restore(p) ==
  /\ At(p, "restore")
  /\ ~Blank(op[p].sess)
  /\ fw' = [x \in AllRules |->
              IF x \in Rules(op[p].sess.be) THEN op[p].sess.dump[x] ELSE fw[x]]
  /\ Goto(p, "clear")
  /\ UNCHANGED <<lock, op, rec, torVars, faults, told>>

(* An empty dump is refused, or the replay fails: the record stays. *)
RestoreFails(p) ==
  /\ At(p, "restore")
  /\ \/ Blank(op[p].sess) /\ UNCHANGED faults
     \/ Fault
  /\ Report(p, "failed")
  /\ UNCHANGED <<lock, op, rec, fw, torVars>>

(* ClearState. *)
ClearRecord(p) ==
  /\ At(p, "clear")
  /\ rec' = NoRec
  /\ CASE op[p].goal = "force" ->
            /\ op' = [op EXCEPT ![p].goal = "connect", ![p].sess = NoRec]
            /\ Goto(p, "port")
            /\ UNCHANGED told
       [] op[p].goal = "disconnect" -> Goto(p, "check") /\ UNCHANGED <<op, told>>
       [] op[p].goal = "rollback" -> Report(p, "failed") /\ UNCHANGED op
       [] OTHER -> Report(p, "repaired") /\ UNCHANGED op
  /\ UNCHANGED <<lock, fw, torVars, faults>>

(* The post-verify of Disconnect. *)
CheckClean(p) ==
  /\ At(p, "check")
  /\ \E seen \in BOOLEAN :
       /\ Observe(op[p].sess.be, seen)
       /\ Report(p, IF seen THEN "failed" ELSE "disconnected")
  /\ UNCHANGED <<lock, op, rec, fw, torVars>>

--------------------------------------------------------------------------------
(* Disconnect.                                                                *)

(* Disconnect looks for a record before it takes the lock. *)
BeginDisconnect(p) ==
  /\ At(p, "idle")
  /\ IsSession(rec)
  /\ Goto(p, "queued")
  /\ UNCHANGED <<lock, op, rec, fw, torVars, faults, told>>

LockDisconnect(p) ==
  /\ At(p, "queued")
  /\ Acquire(p)
  /\ Goto(p, "reload")
  /\ told' = "nothing"
  /\ UNCHANGED <<op, rec, fw, torVars, faults>>

(* A slip to notice: a waiter without a deadline. *)
LockPatience(p) ==
  /\ At(p, "queued")
  /\ lock = p
  /\ Goto(p, "idle")
  /\ UNCHANGED <<lock, op, rec, fw, torVars, faults, told>>

(* LockWait runs out on a live holder. *)
LockTimeout(p) ==
  /\ At(p, "queued")
  /\ lock # NoProc
  /\ Goto(p, "idle")
  /\ UNCHANGED <<lock, op, rec, fw, torVars, faults, told>>

(* The record is read again under the lock: somebody else may have finished. *)
ReloadGone(p) ==
  /\ At(p, "reload")
  /\ ~IsSession(rec)
  /\ Report(p, IF rec = Corrupt THEN "failed" ELSE "nothing")
  /\ UNCHANGED <<lock, op, rec, fw, torVars, faults>>

(* A slip to notice: the error of the second LoadState is dropped. *)
ReloadAnything(p) ==
  /\ At(p, "reload")
  /\ rec # NoRec
  /\ op' = [op EXCEPT ![p] = [NoOp EXCEPT !.goal = "disconnect", !.sess = rec]]
  /\ Goto(p, "stop")
  /\ UNCHANGED <<lock, rec, fw, torVars, faults, told>>

ReloadSession(p) ==
  /\ At(p, "reload")
  /\ IsSession(rec)
  /\ op' = [op EXCEPT ![p] = [NoOp EXCEPT !.goal = "disconnect", !.sess = rec]]
  /\ Goto(p, "stop")
  /\ UNCHANGED <<lock, rec, fw, torVars, faults, told>>

--------------------------------------------------------------------------------
(* Repair.                                                                    *)

BeginRepair(p) ==
  /\ At(p, "idle")
  /\ Acquire(p)
  /\ Goto(p, "inspect")
  /\ told' = "nothing"
  /\ UNCHANGED <<op, rec, fw, torVars, faults>>

SweepFor(p, goal, swept) ==
  /\ op' = [op EXCEPT ![p] = [NoOp EXCEPT !.goal = goal, !.sweep = swept]]
  /\ Goto(p, "sweep")

(* No record, or one that does not parse: sweep both backends. *)
InspectNoSession(p) ==
  /\ At(p, "inspect")
  /\ ~IsSession(rec)
  /\ SweepFor(p, IF rec = Corrupt THEN "corrupt" ELSE "bare", Backends)
  /\ UNCHANGED <<lock, rec, fw, torVars, faults, told>>

(* A healthy session: only strays of the other backend go. *)
InspectHealthy(p) ==
  /\ At(p, "inspect")
  /\ IsSession(rec)
  /\ rec.tor \in alive
  /\ Observe(rec.be, TRUE)
  /\ SweepFor(p, "stray", Backends \ {rec.be})
  /\ UNCHANGED <<lock, rec, fw, torVars, told>>

InspectUnhealthy(p) ==
  /\ At(p, "inspect")
  /\ IsSession(rec)
  /\ \/ rec.tor \notin alive /\ UNCHANGED faults
     \/ rec.tor \in alive /\ Observe(rec.be, FALSE)
  /\ op' = [op EXCEPT ![p] = [NoOp EXCEPT !.goal = "unhealthy", !.sess = rec]]
  /\ Goto(p, "assess")
  /\ UNCHANGED <<lock, rec, fw, torVars, told>>

(* sessionPresent: the rules are asked for once more before the sweep. *)
Assess(p) ==
  /\ At(p, "assess")
  /\ \E seen \in BOOLEAN :
       /\ Observe(op[p].sess.be, seen)
       /\ op' = [op EXCEPT ![p].goal = IF seen THEN "stale" ELSE "gone",
                           ![p].sweep = Backends]
  /\ Goto(p, "sweep")
  /\ UNCHANGED <<lock, rec, fw, torVars, told>>

(* One round of the sweep: rules are removed only when all are seen. *)
SweepBackend(p) ==
  /\ At(p, "sweep")
  /\ \E b \in op[p].sweep, seen \in BOOLEAN :
       /\ b = "iptables" \/ "iptables" \notin op[p].sweep
       /\ Observe(b, seen)
       /\ op' = [op EXCEPT ![p].sweep = @ \ {b},
                           ![p].todo = IF seen THEN Rules(b) ELSE {}]
       /\ IF seen THEN Goto(p, "remove") ELSE UNCHANGED pc
  /\ UNCHANGED <<lock, rec, fw, torVars, told>>

Swept(p) ==
  /\ At(p, "sweep")
  /\ op[p].sweep = {}
  /\ Goto(p, "reconcile")
  /\ UNCHANGED <<lock, op, rec, fw, torVars, faults, told>>

(* A slip to notice: a dead tor whose rules are gone keeps its record. *)
ReconcileRules(p) ==
  /\ At(p, "reconcile")
  /\ LET goal == op[p].goal
         dead == op[p].sess.tor \notin alive
     IN CASE goal = "corrupt" -> rec' = NoRec /\ Report(p, "repaired")
          [] goal = "stale" /\ dead -> Goto(p, "wipe") /\ UNCHANGED <<rec, told>>
          [] goal = "gone" /\ ~dead -> Goto(p, "clear") /\ UNCHANGED <<rec, told>>
          [] OTHER -> UNCHANGED rec /\ Report(p, "repaired")
  /\ UNCHANGED <<lock, op, fw, torVars, faults>>

(* What becomes of the record: quarantined when corrupt, dropped when tor is
   dead or the rules were missing, kept otherwise. *)
Reconcile(p) ==
  /\ At(p, "reconcile")
  /\ LET goal == op[p].goal
         dead == op[p].sess.tor \notin alive
     IN CASE goal = "corrupt" -> rec' = NoRec /\ Report(p, "repaired")
          [] goal \in {"stray", "bare"} -> UNCHANGED rec /\ Report(p, "repaired")
          [] goal \in {"stale", "gone"} /\ dead ->
               Goto(p, "wipe") /\ UNCHANGED <<rec, told>>
          [] goal = "gone" /\ ~dead -> Goto(p, "clear") /\ UNCHANGED <<rec, told>>
          [] OTHER -> UNCHANGED rec /\ Report(p, "repaired")
  /\ UNCHANGED <<lock, op, fw, torVars, faults>>

--------------------------------------------------------------------------------
(* The end of a process, and the world around it.                             *)

(* Its control connections close with the process. *)
Disown(p) == owner' = [g \in Tors |-> IF owner[g] = p THEN NoProc ELSE owner[g]]

(* The deferred Release, and the process exits. *)
Exit(p) ==
  /\ At(p, "exit")
  /\ lock' = NoProc
  /\ Goto(p, "idle")
  /\ op' = [op EXCEPT ![p] = NoOp]
  /\ Disown(p)
  /\ UNCHANGED <<rec, fw, spawned, alive, dirs, faults, told>>

(* The process is killed; a lock it held is reaped as stale. *)
Crash(p) ==
  /\ "crash" \in Env
  /\ ~At(p, "idle")
  /\ lock' = IF lock = p THEN NoProc ELSE lock
  /\ Goto(p, "idle")
  /\ op' = [op EXCEPT ![p] = NoOp]
  /\ Disown(p)
  /\ UNCHANGED <<rec, fw, spawned, alive, dirs, faults, told>>

(* A tor under TAKEOWNERSHIP exits once its owning connection is closed. *)
OwnedTorExits(g) ==
  /\ g \in alive
  /\ owner[g] = NoProc
  /\ alive' = alive \ {g}
  /\ UNCHANGED <<lock, pc, op, rec, fw, spawned, owner, dirs, faults, told>>

(* A tor crashes of itself. *)
TorCrashes(g) ==
  /\ "torcrash" \in Env
  /\ g \in alive
  /\ alive' = alive \ {g}
  /\ UNCHANGED <<lock, pc, op, rec, fw, spawned, owner, dirs, faults, told>>

(* A firewall manager flushes what hooks our rules into its tables. *)
ManagerFlushes(b) ==
  /\ "flush" \in Env
  /\ \E X \in SUBSET Probed(b) :
       /\ \E x \in X : fw[x] # 0
       /\ fw' = [x \in AllRules |-> IF x \in X THEN 0 ELSE fw[x]]
  /\ UNCHANGED <<lock, pc, op, rec, torVars, faults, told>>

(* Rules are in memory and the state directory is under /run. *)
Reboot ==
  /\ "reboot" \in Env
  /\ lock' = NoProc
  /\ pc' = [p \in Procs |-> "idle"]
  /\ op' = [p \in Procs |-> NoOp]
  /\ rec' = NoRec
  /\ fw' = [x \in AllRules |-> 0]
  /\ alive' = {}
  /\ owner' = [g \in Tors |-> NoProc]
  /\ dirs' = {}
  /\ told' = "nothing"
  /\ UNCHANGED <<spawned, faults>>

Start(p) ==
  \/ \E b \in Backends, force \in BOOLEAN : BeginConnect(p, b, force)
  \/ BeginDisconnect(p)
  \/ BeginRepair(p)

ConnectStep(p) ==
  \/ ConnectFresh(p) \/ ConnectAlready(p) \/ ConnectRefuses(p) \/ ConnectForces(p)
  \/ CheckPort(p) \/ Snapshot(p) \/ SnapshotFails(p)
  \/ SpawnTor(p) \/ TorReady(p) \/ LaunchFails(p)
  \/ TruncateRecord(p) \/ WriteRecord(p) \/ ApplyRule(p) \/ Applied(p)
  \/ VerifyPasses(p) \/ BeginRollback(p)

TeardownStep(p) ==
  \/ StopTor(p) \/ WipeDataDir(p) \/ RemoveRule(p) \/ Removed(p)
  \/ Restore(p) \/ RestoreFails(p) \/ ClearRecord(p) \/ CheckClean(p)

DisconnectStep(p) ==
  \/ LockDisconnect(p) \/ LockTimeout(p) \/ ReloadGone(p) \/ ReloadSession(p)

RepairStep(p) ==
  \/ InspectNoSession(p) \/ InspectHealthy(p) \/ InspectUnhealthy(p)
  \/ Assess(p) \/ SweepBackend(p) \/ Swept(p) \/ Reconcile(p)

(* What a running command does of itself. *)
Progress(p) ==
  \/ ConnectStep(p) \/ TeardownStep(p) \/ DisconnectStep(p) \/ RepairStep(p)
  \/ Exit(p)

Environment ==
  \/ \E g \in Tors : OwnedTorExits(g) \/ TorCrashes(g)
  \/ \E b \in Backends : ManagerFlushes(b)
  \/ Reboot

Next ==
  \/ \E p \in Procs : Start(p) \/ Progress(p) \/ Crash(p)
  \/ Environment

Spec == Init /\ [][Next]_vars

(* A running command is scheduled; a disowned tor notices. *)
Fairness ==
  /\ \A p \in Procs : WF_vars(Progress(p))
  /\ \A g \in Tors : WF_vars(OwnedTorExits(g))

FairSpec == Spec /\ Fairness

--------------------------------------------------------------------------------
(* Properties.                                                                *)

(* Every variable stays within its type. *)
TypeOK ==
  /\ lock \in Procs \cup {NoProc}
  /\ pc \in [Procs -> Steps]
  /\ op \in [Procs -> Locals]
  /\ rec \in Session \cup {NoRec, Corrupt}
  /\ fw \in Firewall
  /\ spawned \in 0..MaxTor
  /\ alive \subseteq Tors
  /\ owner \in [Tors -> Procs \cup {NoProc}]
  /\ dirs \subseteq Tors
  /\ faults \in 0..MaxFaults
  /\ told \in Outcomes

(* Rules that torshim can detect always have a readable record naming their
   backend, at every instant a command may be killed: the record is written
   before the first rule (connect.go:472-476) and cleared after the last. *)
PresentHasRecord ==
  \A b \in Backends : Present(b) => IsSession(rec) /\ rec.be = b

(* The dump a session would restore was taken before its rules were in force
   (threat-model.md:104): replaying it never arms a capture again. *)
SnapshotPredatesRules ==
  IsSession(rec) => \A b \in Backends : \E x \in Probed(b) : rec.dump[x] = 0

(* Tor dies first (connect.go:520-523): no command takes a rule of the recorded
   session out while the session's tor still runs. *)
RulesOutliveTor ==
  [][\A p \in Procs :
       RemoveRule(p) /\ IsSession(rec) =>
         \/ rec.tor \notin alive
         \/ \A x \in Rules(rec.be) : fw'[x] = fw[x]]_vars

(* Repair removes torshim rules whenever present and drops the record of a
   dead tor or of missing rules (connect.go:596-599): it ends on a clean system
   unless it found the session healthy, or a firewall command had failed. *)
RepairIsClean ==
  [][\A p \in Procs :
       Progress(p) /\ faults' = 0 /\ told # "repaired" /\ told' = "repaired" =>
         \/ op[p].goal = "stray"
         \/ rec' = NoRec /\ \A x \in AllRules : fw'[x] = 0]_vars

(* Disconnect post-verifies that no torshim rules remain (threat-model.md:113). *)
DisconnectIsClean ==
  [][\A p \in Procs :
       CheckClean(p) /\ told' = "disconnected" => \A x \in AllRules : fw[x] = 0]_vars

(* A verified connect sends DNS to its own tor (threat-model.md:63): the rule
   that captures it was written for the tor the record names. *)
CaptureReachesOwnTor ==
  [][\A p \in Procs :
       VerifyPasses(p) => fw[DnsRule(op[p].be)] = op[p].sess.tor]_vars

(* The session outlives the connect command that made it: while connected,
   traffic goes through Tor (main.go:133). *)
ConnectedRoutes ==
  told = "connected" /\ lock = NoProc /\ IsSession(rec) => rec.tor \in alive

(* Every connect/disconnect cycle leaves no data directory and no cookie behind
   (connect.go:323): between commands, only a recorded tor has one. *)
NoTraceWithoutRecord ==
  lock = NoProc => \A g \in dirs : IsSession(rec) /\ rec.tor = g

(* A disconnect whose blank dump is refused says "rules removed, backup at"
   (connect.go:576): its tor no longer runs and has no data directory, none of
   its rules is in force, and the record stays for a repair to find. *)
RefusalIsTidy ==
  [][\A p \in Procs :
       RestoreFails(p) /\ faults' = 0 =>
         /\ op[p].sess.tor \notin alive
         /\ op[p].sess.tor \notin dirs
         /\ \A x \in Rules(op[p].sess.be) : fw[x] = 0
         /\ rec = op[p].sess]_vars

(* Every command ends. *)
CommandsFinish == \A p \in Procs : pc[p] # "idle" ~> pc[p] = "idle"

(* The session implements the journal its record is meant to be. *)
Journal == INSTANCE RuleJournal WITH
  journal <- IF rec = NoRec THEN "none" ELSE IF rec = Corrupt THEN "torn" ELSE rec.be,
  armed <- {b \in Backends : Present(b)}

RecordIsJournal == Journal!Spec

================================================================================
