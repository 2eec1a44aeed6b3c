-------------------------- MODULE SystemSessionProofs --------------------------
(* Proofs about the system-wide session, for every set of processes, either   *)
(* or both backends, any number of tor instances and whatever the environment *)
(* does: crashes, reboots, firewall managers and dying tors.  What speaks of  *)
(* the record and the rules holds until a firewall command or a write fails,  *)
(* or of runs in which none does, and says so.                                *)
EXTENDS SystemSession, TLAPS

----------------------------------------------------------------------------
(* The stages of a command.                                                   *)

ConnectStages == {"load", "port", "snapshot", "spawn", "await", "truncate",
                  "save", "apply", "verify"}
Launched == {"spawn", "await", "truncate", "save", "apply", "verify"}

(* Goals that tear a session down at once, and those of a repair. *)
Teardowns == {"force", "rollback", "disconnect"}
Sweeps == {"corrupt", "stray", "bare", "stale", "gone"}
Drops == {"stale", "gone"}

(* What a command's stage says of its goal and its other locals. *)
Fits(at, l) ==
  /\ at \in ConnectStages => l.goal = "connect"
  /\ at = "assess" => l.goal = "unhealthy"
  /\ at \in {"sweep", "reconcile"} => l.goal \in Sweeps
  /\ at = "stop" => l.goal \in Teardowns
  /\ at \in {"wipe", "clear"} => l.goal \in Teardowns \cup Drops
  /\ at = "remove" => l.goal \in Teardowns \cup Sweeps
  /\ at \in {"restore", "check"} => l.goal = "disconnect"
  /\ l.goal \in {"connect", "force"} => l.be \in Backends
  /\ at \in Launched => l.sess \in Session /\ l.sess.be = l.be
  /\ l.goal \in Teardowns \cup Drops \cup {"unhealthy"} => l.sess \in Session

Shaped == \A p \in Procs : Fits(pc[p], op[p])

Typed == TypeOK /\ Shaped

LEMMA RulesTyped ==
  ASSUME NEW b \in Backends
  PROVE  Rules(b) \subseteq AllRules /\ Probed(b) \subseteq Rules(b)
BY SessionAssumption DEF AllRules, Rules, Probed, IptRules

(* Every way in which the actions build a command's locals. *)
LEMMA LocalsTyped ==
  /\ NoOp \in Locals
  /\ \A b \in Backends, force \in BOOLEAN :
       [NoOp EXCEPT !.goal = "connect", !.be = b, !.force = force] \in Locals
  /\ \A l \in Locals, goal \in Goals : [l EXCEPT !.goal = goal] \in Locals
  /\ \A l \in Locals, todo \in SUBSET AllRules : [l EXCEPT !.todo = todo] \in Locals
  /\ \A l \in Locals, sess \in Session : [l EXCEPT !.sess = sess] \in Locals
  /\ \A l \in Locals, goal \in Goals, sess \in Session \cup {NoRec} :
       [l EXCEPT !.goal = goal, !.sess = sess] \in Locals
  /\ \A l \in Locals, goal \in Goals, sweep \in SUBSET Backends :
       [l EXCEPT !.goal = goal, !.sweep = sweep] \in Locals
  /\ \A l \in Locals, sweep \in SUBSET Backends, todo \in SUBSET AllRules :
       [l EXCEPT !.sweep = sweep, !.todo = todo] \in Locals
<1>1. NoOp \in Locals
  BY DEF NoOp, Locals, Goals
<1> QED
  BY <1>1 DEF Locals, Goals

LEMMA DumpTyped ==
  ASSUME TypeOK, NEW b \in Backends
  PROVE  [be |-> b, tor |-> 0, dump |-> DumpOf(b)] \in Session
<1>1. DumpOf(b) \in Firewall
  BY SessionAssumption DEF TypeOK, DumpOf, Firewall
<1> QED
  BY <1>1, SessionAssumption DEF Session

LEMMA LaunchTyped ==
  ASSUME NEW s \in Session, NEW g \in Tors
  PROVE  [s EXCEPT !.tor = g] \in Session
BY SessionAssumption DEF Session, Tors

LEMMA FaultTyped ==
  ASSUME TypeOK
  PROVE  /\ Fault => faults' \in 0..MaxFaults
         /\ \A b \in Backends, answer \in BOOLEAN :
              Observe(b, answer) => faults' \in 0..MaxFaults
BY SessionAssumption DEF TypeOK, Fault, Observe

(* The stages and locals that a step of one command leaves typed. *)
Stepped(p) ==
  /\ \A q \in Procs \ {p} : pc'[q] = pc[q] /\ op'[q] = op[q]
  /\ Fits(pc'[p], op'[p])

LEMMA SteppedShaped ==
  ASSUME Shaped, NEW p \in Procs, Stepped(p)
  PROVE  Shaped'
BY DEF Shaped, Stepped

LEMMA InitTyped == Init => Typed
BY SessionAssumption
DEF Init, Typed, TypeOK, Shaped, Fits, NoOp, Locals, Goals, Steps,
    Outcomes, Firewall, Tors, ConnectStages, Launched, Teardowns, Sweeps, Drops

LEMMA NextTyped == Typed /\ [Next]_vars => Typed'
<1> SUFFICES ASSUME Typed, [Next]_vars PROVE Typed'
  OBVIOUS
<1>0. ASSUME NEW p \in Procs, TypeOK', Stepped(p) PROVE Typed'
  BY <1>0, SteppedShaped DEF Typed
<1> USE DEF Typed, TypeOK, At, Goto, Report, SetTodo, Acquire, IsSession, torVars
<1>1. ASSUME NEW p \in Procs, NEW b \in Backends, NEW force \in BOOLEAN, BeginConnect(p, b, force) PROVE Typed'
  <2>a. op' \in [Procs -> Locals]
    BY <1>1, LocalsTyped DEF BeginConnect
  <2>b. TypeOK'
    BY <1>1, <2>a DEF BeginConnect, Steps, Outcomes
  <2>c. Stepped(p)
    BY <1>1, <2>a
    DEF BeginConnect, Stepped, Shaped, Fits, ConnectStages, Launched, Teardowns,
        Sweeps, Drops
  <2> QED
    BY <1>0, <2>b, <2>c
<1>2. ASSUME NEW p \in Procs, ConnectFresh(p) PROVE Typed'
  <2>a. TypeOK'
    BY <1>2 DEF ConnectFresh, Steps, Outcomes
  <2>b. Stepped(p)
    BY <1>2
    DEF ConnectFresh, Stepped, Shaped, Fits, ConnectStages, Launched, Teardowns,
        Sweeps, Drops
  <2> QED
    BY <1>0, <2>a, <2>b
<1>3. ASSUME NEW p \in Procs, ConnectAlready(p) PROVE Typed'
  <2>a. TypeOK'
    BY <1>3, FaultTyped DEF ConnectAlready, Steps, Outcomes, Session
  <2>b. Stepped(p)
    BY <1>3
    DEF ConnectAlready, Stepped, Shaped, Fits, ConnectStages, Launched, Teardowns,
        Sweeps, Drops
  <2> QED
    BY <1>0, <2>a, <2>b
<1>4. ASSUME NEW p \in Procs, ConnectRefuses(p) PROVE Typed'
  <2>a. TypeOK'
    BY <1>4, FaultTyped DEF ConnectRefuses, Steps, Outcomes, Session
  <2>b. Stepped(p)
    BY <1>4
    DEF ConnectRefuses, Stepped, Shaped, Fits, ConnectStages, Launched, Teardowns,
        Sweeps, Drops
  <2> QED
    BY <1>0, <2>a, <2>b
<1>5. ASSUME NEW p \in Procs, ConnectForces(p) PROVE Typed'
  <2>a. op' \in [Procs -> Locals]
    BY <1>5, LocalsTyped DEF ConnectForces, Goals
  <2>b. TypeOK'
    BY <1>5, <2>a, FaultTyped DEF ConnectForces, Steps, Outcomes, Session
  <2>c. Stepped(p)
    BY <1>5, <2>a
    DEF ConnectForces, Stepped, Shaped, Fits, ConnectStages, Launched, Teardowns,
        Sweeps, Drops
  <2> QED
    BY <1>0, <2>b, <2>c
<1>6. ASSUME NEW p \in Procs, CheckPort(p) PROVE Typed'
  <2>a. TypeOK'
    BY <1>6 DEF CheckPort, Steps, Outcomes
  <2>b. Stepped(p)
    BY <1>6
    DEF CheckPort, Stepped, Shaped, Fits, ConnectStages, Launched, Teardowns,
        Sweeps, Drops
  <2> QED
    BY <1>0, <2>a, <2>b
<1>7. ASSUME NEW p \in Procs, Snapshot(p) PROVE Typed'
  <2>a. op' \in [Procs -> Locals]
    BY <1>7, LocalsTyped, DumpTyped DEF Snapshot, Shaped, Fits, ConnectStages
  <2>b. TypeOK'
    BY <1>7, <2>a DEF Snapshot, Steps, Outcomes
  <2>c. Stepped(p)
    BY <1>7, <2>a, DumpTyped
    DEF Snapshot, Stepped, Shaped, Fits, ConnectStages, Launched, Teardowns, Sweeps,
        Drops, Locals
  <2> QED
    BY <1>0, <2>b, <2>c
<1>8. ASSUME NEW p \in Procs, SnapshotFails(p) PROVE Typed'
  <2>a. TypeOK'
    BY <1>8, FaultTyped DEF SnapshotFails, Steps, Outcomes
  <2>b. Stepped(p)
    BY <1>8
    DEF SnapshotFails, Stepped, Shaped, Fits, ConnectStages, Launched, Teardowns,
        Sweeps, Drops
  <2> QED
    BY <1>0, <2>a, <2>b
<1>9. ASSUME NEW p \in Procs, SpawnTor(p) PROVE Typed'
  <2>a. op' \in [Procs -> Locals]
    <3>1. op[p].sess \in Session
      BY <1>9 DEF SpawnTor, Shaped, Fits, Launched
    <3>2. spawned + 1 \in Tors
      BY <1>9, SessionAssumption DEF SpawnTor, Tors
    <3>3. [op[p].sess EXCEPT !.tor = spawned + 1] \in Session
      BY <3>1, <3>2, LaunchTyped
    <3> QED
      BY <1>9, <3>3, LocalsTyped DEF SpawnTor
  <2>b. TypeOK'
    BY <1>9, <2>a, SessionAssumption DEF SpawnTor, Steps, Outcomes, Tors
  <2>c. Stepped(p)
    BY <1>9, <2>a, LaunchTyped, SessionAssumption
    DEF SpawnTor, Stepped, Shaped, Fits, ConnectStages, Launched, Teardowns, Sweeps,
        Drops, Session, Locals, Tors
  <2> QED
    BY <1>0, <2>b, <2>c
<1>10. ASSUME NEW p \in Procs, TorReady(p) PROVE Typed'
  <2>a. TypeOK'
    BY <1>10 DEF TorReady, Steps, Outcomes
  <2>b. Stepped(p)
    BY <1>10
    DEF TorReady, Stepped, Shaped, Fits, ConnectStages, Launched, Teardowns, Sweeps,
        Drops
  <2> QED
    BY <1>0, <2>a, <2>b
<1>11. ASSUME NEW p \in Procs, LaunchFails(p) PROVE Typed'
  <2>a. TypeOK'
    BY <1>11 DEF LaunchFails, Steps, Outcomes
  <2>b. Stepped(p)
    BY <1>11
    DEF LaunchFails, Stepped, Shaped, Fits, ConnectStages, Launched, Teardowns,
        Sweeps, Drops
  <2> QED
    BY <1>0, <2>a, <2>b
<1>12. ASSUME NEW p \in Procs, TruncateRecord(p) PROVE Typed'
  <2>a. TypeOK'
    BY <1>12 DEF TruncateRecord, Steps, Outcomes
  <2>b. Stepped(p)
    BY <1>12
    DEF TruncateRecord, Stepped, Shaped, Fits, ConnectStages, Launched, Teardowns,
        Sweeps, Drops
  <2> QED
    BY <1>0, <2>a, <2>b
<1>13. ASSUME NEW p \in Procs, WriteRecord(p) PROVE Typed'
  <2>a. op' \in [Procs -> Locals]
    BY <1>13, LocalsTyped, RulesTyped DEF WriteRecord, Shaped, Fits, ConnectStages
  <2>b. TypeOK'
    BY <1>13, <2>a DEF WriteRecord, Steps, Outcomes, Shaped, Fits, Launched
  <2>c. Stepped(p)
    BY <1>13, <2>a
    DEF WriteRecord, Stepped, Shaped, Fits, ConnectStages, Launched, Teardowns,
        Sweeps, Drops
  <2> QED
    BY <1>0, <2>b, <2>c
<1>14. ASSUME NEW p \in Procs, ApplyRule(p) PROVE Typed'
  <2>a. op' \in [Procs -> Locals]
    <3>1. PICK x \in AllRules : op' = [op EXCEPT ![p].todo = op[p].todo \ {x}]
      BY <1>14 DEF ApplyRule
    <3>2. op[p].todo \ {x} \in SUBSET AllRules
      BY DEF Locals
    <3> QED
      BY <3>1, <3>2, LocalsTyped
  <2>b. TypeOK'
    BY <1>14, <2>a, FaultTyped
    DEF ApplyRule, Steps, Outcomes, Shaped, Fits, Launched, Session, Firewall, First
  <2>c. Stepped(p)
    BY <1>14, <2>a
    DEF ApplyRule, Stepped, Shaped, Fits, ConnectStages, Launched, Teardowns,
        Sweeps, Drops
  <2> QED
    BY <1>0, <2>b, <2>c
<1>15. ASSUME NEW p \in Procs, Applied(p) PROVE Typed'
  <2>a. TypeOK'
    BY <1>15 DEF Applied, Steps, Outcomes
  <2>b. Stepped(p)
    BY <1>15
    DEF Applied, Stepped, Shaped, Fits, ConnectStages, Launched, Teardowns, Sweeps,
        Drops
  <2> QED
    BY <1>0, <2>a, <2>b
<1>16. ASSUME NEW p \in Procs, VerifyPasses(p) PROVE Typed'
  <2>a. TypeOK'
    BY <1>16, FaultTyped
    DEF VerifyPasses, Steps, Outcomes, Shaped, Fits, ConnectStages
  <2>b. Stepped(p)
    BY <1>16
    DEF VerifyPasses, Stepped, Shaped, Fits, ConnectStages, Launched, Teardowns,
        Sweeps, Drops
  <2> QED
    BY <1>0, <2>a, <2>b
<1>17. ASSUME NEW p \in Procs, BeginRollback(p) PROVE Typed'
  <2>a. op' \in [Procs -> Locals]
    BY <1>17, LocalsTyped DEF BeginRollback, Goals
  <2>b. TypeOK'
    BY <1>17, <2>a, FaultTyped DEF BeginRollback, Steps, Outcomes
  <2>c. Stepped(p)
    BY <1>17, <2>a
    DEF BeginRollback, Stepped, Shaped, Fits, ConnectStages, Launched, Teardowns,
        Sweeps, Drops, Locals
  <2> QED
    BY <1>0, <2>b, <2>c
<1>18. ASSUME NEW p \in Procs, StopTor(p) PROVE Typed'
  <2>a. TypeOK'
    BY <1>18 DEF StopTor, Steps, Outcomes
  <2>b. Stepped(p)
    BY <1>18
    DEF StopTor, Stepped, Shaped, Fits, ConnectStages, Launched, Teardowns, Sweeps,
        Drops
  <2> QED
    BY <1>0, <2>a, <2>b
<1>19. ASSUME NEW p \in Procs, WipeDataDir(p) PROVE Typed'
  <2>a. op' \in [Procs -> Locals]
    <3>1. op[p].sess \in Session /\ op[p].sess.be \in Backends
      BY <1>19 DEF WipeDataDir, Shaped, Fits, Session
    <3>2. Rules(op[p].sess.be) \in SUBSET AllRules
      BY <3>1, RulesTyped
    <3>3. op' = op \/ op' = [op EXCEPT ![p].todo = Rules(op[p].sess.be)]
      BY <1>19 DEF WipeDataDir
    <3>4. CASE op' = op
      BY <3>4
    <3>5. CASE op' = [op EXCEPT ![p].todo = Rules(op[p].sess.be)]
      BY <3>2, <3>5, LocalsTyped
    <3> QED
      BY <3>3, <3>4, <3>5
  <2>b. TypeOK'
    BY <1>19, <2>a DEF WipeDataDir, Steps, Outcomes
  <2>c. Stepped(p)
    BY <1>19, <2>a
    DEF WipeDataDir, Stepped, Shaped, Fits, ConnectStages, Launched, Teardowns,
        Sweeps, Drops, Locals
  <2> QED
    BY <1>0, <2>b, <2>c
<1>20. ASSUME NEW p \in Procs, RemoveRule(p) PROVE Typed'
  <2>a. op' \in [Procs -> Locals]
    <3>1. PICK x \in AllRules : op' = [op EXCEPT ![p].todo = op[p].todo \ {x}]
      BY <1>20 DEF RemoveRule
    <3>2. op[p].todo \ {x} \in SUBSET AllRules
      BY DEF Locals
    <3> QED
      BY <3>1, <3>2, LocalsTyped
  <2>b. TypeOK'
    BY <1>20, <2>a, FaultTyped, SessionAssumption
    DEF RemoveRule, Steps, Outcomes, First, Firewall
  <2>c. Stepped(p)
    BY <1>20, <2>a
    DEF RemoveRule, Stepped, Shaped, Fits, ConnectStages, Launched, Teardowns,
        Sweeps, Drops, Locals
  <2> QED
    BY <1>0, <2>b, <2>c
<1>21. ASSUME NEW p \in Procs, Removed(p) PROVE Typed'
  <2>a. TypeOK'
    BY <1>21 DEF Removed, Steps, Outcomes, AfterRemove
  <2>b. Stepped(p)
    BY <1>21
    DEF Removed, Stepped, Shaped, Fits, ConnectStages, Launched, Teardowns, Sweeps,
        Drops, AfterRemove
  <2> QED
    BY <1>0, <2>a, <2>b
<1>22. ASSUME NEW p \in Procs, Restore(p) PROVE Typed'
  <2>a. TypeOK'
    BY <1>22
    DEF Restore, Steps, Outcomes, Shaped, Fits, Session, Firewall, Teardowns
  <2>b. Stepped(p)
    BY <1>22
    DEF Restore, Stepped, Shaped, Fits, ConnectStages, Launched, Teardowns, Sweeps,
        Drops
  <2> QED
    BY <1>0, <2>a, <2>b
<1>23. ASSUME NEW p \in Procs, RestoreFails(p) PROVE Typed'
  <2>a. TypeOK'
    BY <1>23, FaultTyped DEF RestoreFails, Steps, Outcomes
  <2>b. Stepped(p)
    BY <1>23
    DEF RestoreFails, Stepped, Shaped, Fits, ConnectStages, Launched, Teardowns,
        Sweeps, Drops
  <2> QED
    BY <1>0, <2>a, <2>b
<1>24. ASSUME NEW p \in Procs, ClearRecord(p) PROVE Typed'
  <2>a. op' \in [Procs -> Locals]
    <3>1. op' = op \/ op' = [op EXCEPT ![p].goal = "connect", ![p].sess = NoRec]
      BY <1>24 DEF ClearRecord
    <3>2. "connect" \in Goals
      BY DEF Goals
    <3>3. CASE op' = op
      BY <3>3
    <3>4. CASE op' = [op EXCEPT ![p].goal = "connect", ![p].sess = NoRec]
      BY <3>2, <3>4, LocalsTyped
    <3> QED
      BY <3>1, <3>3, <3>4
  <2>b. TypeOK'
    BY <1>24, <2>a DEF ClearRecord, Steps, Outcomes
  <2>c. Stepped(p)
    BY <1>24, <2>a
    DEF ClearRecord, Stepped, Shaped, Fits, ConnectStages, Launched, Teardowns,
        Sweeps, Drops, Locals
  <2> QED
    BY <1>0, <2>b, <2>c
<1>25. ASSUME NEW p \in Procs, CheckClean(p) PROVE Typed'
  <2>a. TypeOK'
    BY <1>25, FaultTyped
    DEF CheckClean, Steps, Outcomes, Shaped, Fits, Session, Teardowns
  <2>b. Stepped(p)
    BY <1>25
    DEF CheckClean, Stepped, Shaped, Fits, ConnectStages, Launched, Teardowns,
        Sweeps, Drops
  <2> QED
    BY <1>0, <2>a, <2>b
<1>26. ASSUME NEW p \in Procs, BeginDisconnect(p) PROVE Typed'
  <2>a. TypeOK'
    BY <1>26 DEF BeginDisconnect, Steps, Outcomes
  <2>b. Stepped(p)
    BY <1>26
    DEF BeginDisconnect, Stepped, Shaped, Fits, ConnectStages, Launched, Teardowns,
        Sweeps, Drops
  <2> QED
    BY <1>0, <2>a, <2>b
<1>27. ASSUME NEW p \in Procs, LockDisconnect(p) PROVE Typed'
  <2>a. TypeOK'
    BY <1>27 DEF LockDisconnect, Steps, Outcomes
  <2>b. Stepped(p)
    BY <1>27
    DEF LockDisconnect, Stepped, Shaped, Fits, ConnectStages, Launched, Teardowns,
        Sweeps, Drops
  <2> QED
    BY <1>0, <2>a, <2>b
<1>28. ASSUME NEW p \in Procs, LockTimeout(p) PROVE Typed'
  <2>a. TypeOK'
    BY <1>28 DEF LockTimeout, Steps, Outcomes
  <2>b. Stepped(p)
    BY <1>28
    DEF LockTimeout, Stepped, Shaped, Fits, ConnectStages, Launched, Teardowns,
        Sweeps, Drops
  <2> QED
    BY <1>0, <2>a, <2>b
<1>29. ASSUME NEW p \in Procs, ReloadGone(p) PROVE Typed'
  <2>a. TypeOK'
    BY <1>29 DEF ReloadGone, Steps, Outcomes
  <2>b. Stepped(p)
    BY <1>29
    DEF ReloadGone, Stepped, Shaped, Fits, ConnectStages, Launched, Teardowns,
        Sweeps, Drops
  <2> QED
    BY <1>0, <2>a, <2>b
<1>30. ASSUME NEW p \in Procs, ReloadSession(p) PROVE Typed'
  <2>a. op' \in [Procs -> Locals]
    BY <1>30, LocalsTyped DEF ReloadSession, Goals
  <2>b. TypeOK'
    BY <1>30, <2>a DEF ReloadSession, Steps, Outcomes
  <2>c. Stepped(p)
    BY <1>30, <2>a
    DEF ReloadSession, Stepped, Shaped, Fits, ConnectStages, Launched, Teardowns,
        Sweeps, Drops, NoOp
  <2> QED
    BY <1>0, <2>b, <2>c
<1>31. ASSUME NEW p \in Procs, BeginRepair(p) PROVE Typed'
  <2>a. TypeOK'
    BY <1>31 DEF BeginRepair, Steps, Outcomes
  <2>b. Stepped(p)
    BY <1>31
    DEF BeginRepair, Stepped, Shaped, Fits, ConnectStages, Launched, Teardowns,
        Sweeps, Drops
  <2> QED
    BY <1>0, <2>a, <2>b
<1>32. ASSUME NEW p \in Procs, InspectNoSession(p) PROVE Typed'
  <2>a. op' \in [Procs -> Locals]
    BY <1>32, LocalsTyped DEF InspectNoSession, SweepFor, Goals
  <2>b. TypeOK'
    BY <1>32, <2>a, FaultTyped
    DEF InspectNoSession, Steps, Outcomes, SweepFor, Session
  <2>c. Stepped(p)
    BY <1>32, <2>a
    DEF InspectNoSession, Stepped, Shaped, Fits, ConnectStages, Launched, Teardowns,
        Sweeps, Drops, SweepFor, NoOp
  <2> QED
    BY <1>0, <2>b, <2>c
<1>33. ASSUME NEW p \in Procs, InspectHealthy(p) PROVE Typed'
  <2>a. op' \in [Procs -> Locals]
    BY <1>33, LocalsTyped DEF InspectHealthy, SweepFor, Goals
  <2>b. TypeOK'
    BY <1>33, <2>a, FaultTyped
    DEF InspectHealthy, Steps, Outcomes, SweepFor, Session
  <2>c. Stepped(p)
    BY <1>33, <2>a
    DEF InspectHealthy, Stepped, Shaped, Fits, ConnectStages, Launched, Teardowns,
        Sweeps, Drops, SweepFor, NoOp
  <2> QED
    BY <1>0, <2>b, <2>c
<1>34. ASSUME NEW p \in Procs, InspectUnhealthy(p) PROVE Typed'
  <2>a. op' \in [Procs -> Locals]
    BY <1>34, LocalsTyped DEF InspectUnhealthy, Goals
  <2>b. TypeOK'
    BY <1>34, <2>a, FaultTyped DEF InspectUnhealthy, Steps, Outcomes, Session
  <2>c. Stepped(p)
    BY <1>34, <2>a
    DEF InspectUnhealthy, Stepped, Shaped, Fits, ConnectStages, Launched, Teardowns,
        Sweeps, Drops, NoOp
  <2> QED
    BY <1>0, <2>b, <2>c
<1>35. ASSUME NEW p \in Procs, Assess(p) PROVE Typed'
  <2>a. op' \in [Procs -> Locals]
    <3>1. PICK seen \in BOOLEAN :
            op' = [op EXCEPT ![p].goal = IF seen THEN "stale" ELSE "gone",
                             ![p].sweep = Backends]
      BY <1>35 DEF Assess
    <3>2. (IF seen THEN "stale" ELSE "gone") \in Goals
      BY DEF Goals
    <3> QED
      BY <3>1, <3>2, LocalsTyped
  <2>b. TypeOK'
    BY <1>35, <2>a, FaultTyped DEF Assess, Steps, Outcomes, Shaped, Fits, Session
  <2>c. Stepped(p)
    BY <1>35, <2>a
    DEF Assess, Stepped, Shaped, Fits, ConnectStages, Launched, Teardowns, Sweeps,
        Drops, Locals
  <2> QED
    BY <1>0, <2>b, <2>c
<1>36. ASSUME NEW p \in Procs, SweepBackend(p) PROVE Typed'
  <2>a. op' \in [Procs -> Locals]
    <3>1. PICK b \in op[p].sweep, seen \in BOOLEAN :
            op' = [op EXCEPT ![p].sweep = @ \ {b},
                             ![p].todo = IF seen THEN Rules(b) ELSE {}]
      BY <1>36 DEF SweepBackend
    <3>2. op[p].sweep \ {b} \in SUBSET Backends /\ b \in Backends
      BY DEF Locals
    <3>3. (IF seen THEN Rules(b) ELSE {}) \in SUBSET AllRules
      BY <3>2, RulesTyped
    <3> QED
      BY <3>1, <3>2, <3>3, LocalsTyped
  <2>b. TypeOK'
    BY <1>36, <2>a, FaultTyped DEF SweepBackend, Steps, Outcomes, Locals
  <2>c. Stepped(p)
    BY <1>36, <2>a
    DEF SweepBackend, Stepped, Shaped, Fits, ConnectStages, Launched, Teardowns,
        Sweeps, Drops, Locals
  <2> QED
    BY <1>0, <2>b, <2>c
<1>37. ASSUME NEW p \in Procs, Swept(p) PROVE Typed'
  <2>a. TypeOK'
    BY <1>37 DEF Swept, Steps, Outcomes
  <2>b. Stepped(p)
    BY <1>37
    DEF Swept, Stepped, Shaped, Fits, ConnectStages, Launched, Teardowns, Sweeps,
        Drops
  <2> QED
    BY <1>0, <2>a, <2>b
<1>38. ASSUME NEW p \in Procs, Reconcile(p) PROVE Typed'
  <2>a. TypeOK'
    BY <1>38 DEF Reconcile, Steps, Outcomes
  <2>b. Stepped(p)
    BY <1>38
    DEF Reconcile, Stepped, Shaped, Fits, ConnectStages, Launched, Teardowns,
        Sweeps, Drops
  <2> QED
    BY <1>0, <2>a, <2>b
<1>39. ASSUME NEW p \in Procs, Exit(p) PROVE Typed'
  <2>a. op' \in [Procs -> Locals]
    BY <1>39, LocalsTyped DEF Exit
  <2>b. TypeOK'
    BY <1>39, <2>a DEF Exit, Steps, Outcomes, Disown
  <2>c. Stepped(p)
    BY <1>39, <2>a
    DEF Exit, Stepped, Shaped, Fits, ConnectStages, Launched, Teardowns, Sweeps,
        Drops, NoOp
  <2> QED
    BY <1>0, <2>b, <2>c
<1>40. ASSUME NEW p \in Procs, Crash(p) PROVE Typed'
  <2>a. op' \in [Procs -> Locals]
    BY <1>40, LocalsTyped DEF Crash
  <2>b. TypeOK'
    BY <1>40, <2>a DEF Crash, Steps, Outcomes, Disown
  <2>c. Stepped(p)
    BY <1>40, <2>a
    DEF Crash, Stepped, Shaped, Fits, ConnectStages, Launched, Teardowns, Sweeps,
        Drops, NoOp
  <2> QED
    BY <1>0, <2>b, <2>c
<1>41. ASSUME NEW g \in Tors, OwnedTorExits(g) \/ TorCrashes(g) PROVE Typed'
  BY <1>41 DEF OwnedTorExits, TorCrashes, Shaped
<1>42. ASSUME NEW b \in Backends, ManagerFlushes(b) PROVE Typed'
  <2>a. fw' \in Firewall
    BY <1>42, SessionAssumption DEF ManagerFlushes, Firewall
  <2> QED
    BY <1>42, <2>a DEF ManagerFlushes, Shaped
<1>43. ASSUME Reboot PROVE Typed'
  <2>a. fw' \in Firewall
    BY <1>43, SessionAssumption DEF Reboot, Firewall
  <2>d. op' \in [Procs -> Locals]
    BY <1>43, LocalsTyped DEF Reboot
  <2>b. TypeOK'
    BY <1>43, <2>a, <2>d DEF Reboot, Steps, Outcomes
  <2>c. Shaped'
    BY <1>43, <2>a, <2>d
    DEF Reboot, Shaped, Fits, NoOp, ConnectStages, Launched, Teardowns, Sweeps,
        Drops
  <2> QED
    BY <2>b, <2>c
<1>44. ASSUME UNCHANGED vars PROVE Typed'
  BY <1>44 DEF Shaped, vars
<1> QED
  BY <1>1, <1>2, <1>3, <1>4, <1>5, <1>6, <1>7, <1>8, <1>9, <1>10, <1>11, <1>12,
     <1>13, <1>14, <1>15, <1>16, <1>17, <1>18, <1>19, <1>20, <1>21, <1>22, <1>23,
     <1>24, <1>25, <1>26, <1>27, <1>28, <1>29, <1>30, <1>31, <1>32, <1>33, <1>34,
     <1>35, <1>36, <1>37, <1>38, <1>39, <1>40, <1>41, <1>42, <1>43, <1>44
  DEF Next, Start, Progress, ConnectStep, TeardownStep, DisconnectStep, RepairStep,
      Environment

----------------------------------------------------------------------------
(* The record and the rules.  That armed rules have a record, and that its    *)
(* dump has none, are not inductive alone: a command works on its own copy of *)
(* the session and on what it believes of the rules.  The invariant says how  *)
(* far each stage may rely on them.                                           *)

Active(p) == pc[p] \notin {"idle", "queued"}

(* Whoever is past the lock holds it. *)
Exclusive == \A p \in Procs : lock = p <=> Active(p)

(* A dump that cannot arm a backend. *)
Partial(dump) == \A b \in Backends : \E x \in Probed(b) : dump[x] = 0

(* The rules of b are not all there, or all that are probed will yet go. *)
Doomed(b, todo) == ~Present(b) \/ Probed(b) \subseteq todo

Undoing == {"stop", "wipe", "remove", "restore", "clear", "assess", "sweep",
            "reconcile"}

(* What a command may rely on of the record. *)
Recorded(at, l) ==
  /\ at \in {"port", "snapshot", "spawn", "await", "truncate"} => rec = NoRec
  /\ at = "save" => rec = Corrupt
  /\ at \in {"apply", "verify"} => rec = l.sess
  /\ at \in Launched => Partial(l.sess.dump)
  /\ at = "apply" => l.todo \subseteq Rules(l.be)
  /\ at \in Undoing /\ l.goal \in Teardowns \cup Drops \cup {"unhealthy"} =>
       rec = l.sess
  /\ at \in Undoing /\ l.goal = "corrupt" => rec = Corrupt

(* What a command may rely on of the rules it undoes. *)
Undone(at, l) ==
  /\ at = "remove" /\ l.goal \in Teardowns => Doomed(l.sess.be, l.todo)
  /\ at \in {"restore", "clear"} => ~Present(l.sess.be)
  /\ at = "sweep" /\ l.goal = "stale" =>
       l.sess.be \in l.sweep \/ ~Present(l.sess.be)
  /\ at = "remove" /\ l.goal = "stale" =>
       l.sess.be \in l.sweep \/ Doomed(l.sess.be, l.todo)
  /\ at \in {"reconcile", "wipe"} /\ l.goal = "stale" => ~Present(l.sess.be)
  /\ at \in Undoing /\ l.goal = "gone" => ~Present(l.sess.be)

Sure(at, l) == Recorded(at, l) /\ Undone(at, l)

Journaled ==
  /\ faults = 0
  /\ Exclusive
  /\ PresentHasRecord
  /\ SnapshotPredatesRules
  /\ \A p \in Procs : Sure(pc[p], op[p])

LEMMA InitJournaled == Init => Journaled
<1> SUFFICES ASSUME Init PROVE Journaled
  OBVIOUS
<1>1. \A b \in Backends : ~Present(b)
  BY RulesTyped, SessionAssumption DEF Init, Present, Probed, NftRules, IptJumps
<1> QED
  BY <1>1, SessionAssumption, RecordAssumption
  DEF Init, Journaled, Exclusive, Active, PresentHasRecord, SnapshotPredatesRules,
      IsSession, Sure, Recorded, Undone, Undoing, Launched

(* In a step without a failure a check of the rules tells the truth. *)
LEMMA NoFaults ==
  ASSUME Journaled, faults' = 0
  PROVE  /\ ~Fault
         /\ \A b, answer : Observe(b, answer) => answer = Present(b) /\ faults' = faults
BY DEF Journaled, Fault, Observe

Alone(p) == \A q \in Procs \ {p} : ~Active(q)

LEMMA HolderAlone ==
  ASSUME Journaled, NEW p \in Procs, Active(p) \/ lock = NoProc
  PROVE  Alone(p) /\ (Active(p) <=> lock = p)
BY SessionAssumption DEF Journaled, Exclusive, Alone

(* A command that waits for the lock or does nothing relies on nothing. *)
LEMMA IdleSure ==
  ASSUME NEW at \in {"idle", "queued", "exit", "load", "reload", "inspect"}, NEW l
  PROVE  Sure(at, l) /\ Sure(at, l)'
BY DEF Sure, Recorded, Undone, Undoing, Launched

(* A step of a command that is alone past the lock: only its own view and the
   two properties are at stake. *)
LEMMA AloneStep ==
  ASSUME Journaled, NEW p \in Procs, Alone(p),
         \A q \in Procs \ {p} : pc'[q] = pc[q] /\ op'[q] = op[q],
         lock' \in {p, NoProc}, lock' = p <=> Active(p)',
         faults' = faults,
         PresentHasRecord', SnapshotPredatesRules', Sure(pc[p], op[p])'
  PROVE  Journaled'
<1>1. ASSUME NEW q \in Procs \ {p}
      PROVE  Sure(pc[q], op[q])' /\ ~Active(q)' /\ lock' # q
  BY SessionAssumption
  DEF Alone, Active, Sure, Recorded, Undone, Undoing, Launched
<1> QED
  BY <1>1 DEF Journaled, Exclusive

(* A step that touches neither the record nor the rules. *)
LEMMA QuietStep ==
  ASSUME Journaled, UNCHANGED <<rec, fw>>
  PROVE  /\ PresentHasRecord' /\ SnapshotPredatesRules'
         /\ \A p \in Procs : Sure(pc'[p], op'[p]) => Sure(pc[p], op[p])'
<1>1. PresentHasRecord' /\ SnapshotPredatesRules'
  BY DEF Journaled, PresentHasRecord, SnapshotPredatesRules, Present, IsSession
<1>2. ASSUME NEW p \in Procs, Sure(pc'[p], op'[p]) PROVE Sure(pc[p], op[p])'
  BY <1>2 DEF Sure, Recorded, Undone, Partial, Doomed, Present
<1> QED
  BY <1>1, <1>2

LEMMA ProbedTyped ==
  ASSUME NEW b \in Backends
  PROVE  /\ Probed(b) # {}
         /\ \A c \in Backends \ {b} : Rules(b) \cap Rules(c) = {}
BY SessionAssumption DEF Rules, Probed, NftRules, IptRules, IptJumps

(* Where no record is readable, no backend is armed and a dump arms none. *)
LEMMA NothingArmed ==
  ASSUME Journaled, ~IsSession(rec)
  PROVE  \A b \in Backends : ~Present(b) /\ Partial(DumpOf(b))
<1>1. \A b \in Backends : ~Present(b)
  BY DEF Journaled, PresentHasRecord
<1> QED
  BY <1>1, RulesTyped DEF Present, Partial, DumpOf

(* Rules only go. *)
LEMMA Shrinks ==
  ASSUME \A x \in AllRules : fw'[x] \in {fw[x], 0}
  PROVE  \A b \in Backends : Present(b)' => Present(b)
BY RulesTyped DEF Present

LEMMA DoomedStep ==
  ASSUME TypeOK, NEW b \in Backends, NEW x \in AllRules, NEW todo,
         fw' = [fw EXCEPT ![x] = 0], Doomed(b, todo)
  PROVE  Doomed(b, todo \ {x})'
<1>1. fw'[x] = 0 /\ \A y \in AllRules : fw'[y] \in {fw[y], 0}
  BY DEF TypeOK, Firewall
<1> QED
  BY <1>1, Shrinks DEF Doomed, Present

(* A step of a process that is not past the lock, before or after. *)
LEMMA IdleStep ==
  ASSUME Journaled, NEW p \in Procs, ~Active(p), ~Active(p)',
         UNCHANGED <<lock, rec, fw, faults>>,
         \A q \in Procs \ {p} : pc'[q] = pc[q] /\ op'[q] = op[q]
  PROVE  Journaled'
<1>1. Sure(pc'[p], op'[p])
  BY DEF Active, Sure, Recorded, Undone, Undoing, Launched
<1>2. \A q \in Procs : Sure(pc'[q], op'[q])
  BY <1>1 DEF Journaled
<1>3. Exclusive'
  BY DEF Journaled, Exclusive, Active
<1> QED
  BY <1>2, <1>3, QuietStep DEF Journaled

(* A step of the world around the commands that arms nothing. *)
LEMMA WorldStep ==
  ASSUME Typed, Journaled, UNCHANGED <<lock, pc, op, rec, faults>>,
         \A x \in AllRules : fw'[x] \in {fw[x], 0}
  PROVE  Journaled'
<1>1. \A b \in Backends : Present(b)' => Present(b)
  BY Shrinks
<1>2. Exclusive' /\ PresentHasRecord' /\ SnapshotPredatesRules'
  BY <1>1 DEF Journaled, Exclusive, Active, PresentHasRecord, SnapshotPredatesRules,
              IsSession
<1>3. ASSUME NEW p \in Procs PROVE Sure(pc[p], op[p])'
  <2>a. Sure(pc[p], op[p]) /\ Fits(pc[p], op[p])
    BY DEF Journaled, Typed, Shaped
  <2>b. Recorded(pc[p], op[p])'
    BY <2>a DEF Sure, Recorded, Partial
  <2>c. op[p].sess \in Session => op[p].sess.be \in Backends
    BY DEF Session
  <2>d. ~Present(op[p].sess.be) /\ op[p].sess \in Session => ~Present(op[p].sess.be)'
    BY <1>1, <2>c
  <2>e. Undone(pc[p], op[p])'
    BY <2>a, <2>d DEF Sure, Undone, Doomed, Fits, Undoing, Teardowns, Drops, Sweeps
  <2> QED
    BY <2>b, <2>e DEF Sure
<1> QED
  BY <1>2, <1>3 DEF Journaled

LEMMA NextJournaled ==
  ASSUME Typed, Typed', Journaled, [Next]_vars, faults' = 0
  PROVE  Journaled'
<1> USE DEF At, Goto, Report, SetTodo, Acquire, IsSession, torVars
<1>0. ASSUME NEW p \in Procs, Sure(pc'[p], op'[p]), Alone(p),
             UNCHANGED <<rec, fw, faults>>,
             \A q \in Procs \ {p} : pc'[q] = pc[q] /\ op'[q] = op[q],
             lock' \in {p, NoProc}, lock' = p <=> Active(p)'
      PROVE  Journaled'
  BY <1>0, AloneStep, QuietStep
<1>a. \A p \in Procs : Sure(pc[p], op[p])
  BY DEF Journaled
<1>b. /\ pc \in [Procs -> Steps] /\ op \in [Procs -> Locals]
      /\ \A p \in Procs : Fits(pc[p], op[p])
  BY DEF Typed, TypeOK, Shaped
<1>1. ASSUME NEW p \in Procs, NEW b \in Backends, NEW force \in BOOLEAN, BeginConnect(p, b, force) PROVE Journaled'
  <2>a. Sure(pc'[p], op'[p])
    BY <1>1, <1>b, IdleSure DEF BeginConnect
  <2>b. Alone(p) /\ UNCHANGED <<rec, fw, faults>>
    BY <1>1, HolderAlone, NoFaults DEF BeginConnect, Active
  <2> QED
    BY <1>1, <1>0, <1>b, <2>a, <2>b, HolderAlone DEF BeginConnect, Active
<1>2. ASSUME NEW p \in Procs, ConnectFresh(p) PROVE Journaled'
  <2>a. Sure(pc'[p], op'[p])
    BY <1>2, <1>a, <1>b
    DEF ConnectFresh, Sure, Recorded, Undone, Undoing, Launched, Doomed
  <2>b. Alone(p) /\ UNCHANGED <<rec, fw, faults>>
    BY <1>2, HolderAlone, NoFaults DEF ConnectFresh, Active
  <2> QED
    BY <1>2, <1>0, <1>b, <2>a, <2>b, HolderAlone DEF ConnectFresh, Active
<1>3. ASSUME NEW p \in Procs, ConnectAlready(p) PROVE Journaled'
  <2>a. Sure(pc'[p], op'[p])
    BY <1>3, <1>b, IdleSure DEF ConnectAlready
  <2>b. Alone(p) /\ UNCHANGED <<rec, fw, faults>>
    BY <1>3, HolderAlone, NoFaults DEF ConnectAlready, Active
  <2> QED
    BY <1>3, <1>0, <1>b, <2>a, <2>b, HolderAlone DEF ConnectAlready, Active
<1>4. ASSUME NEW p \in Procs, ConnectRefuses(p) PROVE Journaled'
  <2>a. Sure(pc'[p], op'[p])
    BY <1>4, <1>b, IdleSure DEF ConnectRefuses
  <2>b. Alone(p) /\ UNCHANGED <<rec, fw, faults>>
    BY <1>4, HolderAlone, NoFaults DEF ConnectRefuses, Active
  <2> QED
    BY <1>4, <1>0, <1>b, <2>a, <2>b, HolderAlone DEF ConnectRefuses, Active
<1>5. ASSUME NEW p \in Procs, ConnectForces(p) PROVE Journaled'
  <2>a. Sure(pc'[p], op'[p])
    BY <1>5, <1>a, <1>b
    DEF ConnectForces, Sure, Recorded, Undone, Undoing, Launched, Doomed
  <2>b. Alone(p) /\ UNCHANGED <<rec, fw, faults>>
    BY <1>5, HolderAlone, NoFaults DEF ConnectForces, Active
  <2> QED
    BY <1>5, <1>0, <1>b, <2>a, <2>b, HolderAlone DEF ConnectForces, Active
<1>6. ASSUME NEW p \in Procs, CheckPort(p) PROVE Journaled'
  <2>a. Sure(pc'[p], op'[p])
    BY <1>6, <1>a, <1>b
    DEF CheckPort, Sure, Recorded, Undone, Undoing, Launched, Doomed
  <2>b. Alone(p) /\ UNCHANGED <<rec, fw, faults>>
    BY <1>6, HolderAlone, NoFaults DEF CheckPort, Active
  <2> QED
    BY <1>6, <1>0, <1>b, <2>a, <2>b, HolderAlone DEF CheckPort, Active
<1>7. ASSUME NEW p \in Procs, Snapshot(p) PROVE Journaled'
  <2>a. Sure(pc'[p], op'[p])
    BY <1>7, <1>a, <1>b, NothingArmed
    DEF Snapshot, Sure, Recorded, Undone, Undoing, Launched, Doomed, Fits,
        ConnectStages
  <2>b. Alone(p) /\ UNCHANGED <<rec, fw, faults>>
    BY <1>7, HolderAlone, NoFaults DEF Snapshot, Active
  <2> QED
    BY <1>7, <1>0, <1>b, <2>a, <2>b, HolderAlone DEF Snapshot, Active
<1>8. ASSUME NEW p \in Procs, SnapshotFails(p) PROVE Journaled'
  <2>a. Sure(pc'[p], op'[p])
    BY <1>8, <1>b, IdleSure DEF SnapshotFails
  <2>b. Alone(p) /\ UNCHANGED <<rec, fw, faults>>
    BY <1>8, HolderAlone, NoFaults DEF SnapshotFails, Active
  <2> QED
    BY <1>8, <1>0, <1>b, <2>a, <2>b, HolderAlone DEF SnapshotFails, Active
<1>9. ASSUME NEW p \in Procs, SpawnTor(p) PROVE Journaled'
  <2>a. Sure(pc'[p], op'[p])
    BY <1>9, <1>a, <1>b
    DEF SpawnTor, Sure, Recorded, Undone, Undoing, Launched, Doomed
  <2>b. Alone(p) /\ UNCHANGED <<rec, fw, faults>>
    BY <1>9, HolderAlone, NoFaults DEF SpawnTor, Active
  <2> QED
    BY <1>9, <1>0, <1>b, <2>a, <2>b, HolderAlone DEF SpawnTor, Active
<1>10. ASSUME NEW p \in Procs, TorReady(p) PROVE Journaled'
  <2>a. Sure(pc'[p], op'[p])
    BY <1>10, <1>a, <1>b
    DEF TorReady, Sure, Recorded, Undone, Undoing, Launched, Doomed
  <2>b. Alone(p) /\ UNCHANGED <<rec, fw, faults>>
    BY <1>10, HolderAlone, NoFaults DEF TorReady, Active
  <2> QED
    BY <1>10, <1>0, <1>b, <2>a, <2>b, HolderAlone DEF TorReady, Active
<1>11. ASSUME NEW p \in Procs, LaunchFails(p) PROVE Journaled'
  <2>a. Sure(pc'[p], op'[p])
    BY <1>11, <1>b, IdleSure DEF LaunchFails
  <2>b. Alone(p) /\ UNCHANGED <<rec, fw, faults>>
    BY <1>11, HolderAlone, NoFaults DEF LaunchFails, Active
  <2> QED
    BY <1>11, <1>0, <1>b, <2>a, <2>b, HolderAlone DEF LaunchFails, Active
<1>12. ASSUME NEW p \in Procs, TruncateRecord(p) PROVE Journaled'
  <2>a. Alone(p) /\ rec = NoRec /\ Partial(op[p].sess.dump)
    BY <1>12, <1>a, HolderAlone DEF TruncateRecord, Active, Sure, Recorded, Launched
  <2>b. PresentHasRecord'
    BY <1>12, <2>a, NothingArmed DEF TruncateRecord, PresentHasRecord, Present
  <2>c. SnapshotPredatesRules'
    BY <1>12 DEF TruncateRecord, SnapshotPredatesRules
  <2>d. Sure(pc[p], op[p])'
    BY <1>12, <1>b, <2>a
    DEF TruncateRecord, Sure, Recorded, Undone, Undoing, Launched, Partial
  <2> QED
    BY <1>12, <1>b, <2>a, <2>b, <2>c, <2>d, AloneStep, HolderAlone
    DEF TruncateRecord, Active
<1>13. ASSUME NEW p \in Procs, WriteRecord(p) PROVE Journaled'
  <2>a. Alone(p) /\ rec = Corrupt /\ Partial(op[p].sess.dump)
    BY <1>13, <1>a, HolderAlone DEF WriteRecord, Active, Sure, Recorded, Launched
  <2>b. PresentHasRecord'
    BY <1>13, <2>a, NothingArmed DEF WriteRecord, PresentHasRecord, Present
  <2>c. SnapshotPredatesRules'
    BY <1>13, <2>a DEF WriteRecord, SnapshotPredatesRules, Partial
  <2>d. Sure(pc[p], op[p])'
    <3>1. pc'[p] = "apply" /\ op'[p] = [op[p] EXCEPT !.todo = Rules(op[p].be)]
      BY <1>13, <1>b DEF WriteRecord
    <3>2. /\ op'[p].sess = op[p].sess /\ op'[p].be = op[p].be
          /\ op'[p].todo = Rules(op[p].be)
      BY <1>b, <3>1 DEF Locals
    <3> QED
      BY <1>13, <2>a, <3>1, <3>2
      DEF WriteRecord, Sure, Recorded, Undone, Undoing, Launched, Partial
  <2> QED
    BY <1>13, <1>b, <2>a, <2>b, <2>c, <2>d, AloneStep, HolderAlone
    DEF WriteRecord, Active
<1>14. ASSUME NEW p \in Procs, ApplyRule(p) PROVE Journaled'
  <2>a. Alone(p) /\ rec = op[p].sess /\ op[p].todo \subseteq Rules(op[p].be)
    BY <1>14, <1>a, HolderAlone DEF ApplyRule, Active, Sure, Recorded
  <2>e. PICK x \in op[p].todo :
          /\ \A y \in AllRules \ {x} : fw'[y] = fw[y]
          /\ op' = [op EXCEPT ![p].todo = op[p].todo \ {x}]
          /\ faults' = faults
    BY <1>14, NoFaults DEF ApplyRule, First, Typed, TypeOK, Firewall
  <2>f. op[p].sess \in Session /\ op[p].sess.be = op[p].be /\ op[p].be \in Backends
    BY <1>14, <1>b DEF ApplyRule, Fits, Launched, ConnectStages
  <2>b. PresentHasRecord'
    <3>1. \A b \in Backends \ {op[p].be} : Present(b)' => Present(b)
      BY <2>a, <2>e, <2>f, RulesTyped, ProbedTyped DEF Present
    <3>2. \A b \in Backends : Present(b)' => b = op[p].be
      BY <2>a, <2>f, <3>1 DEF Journaled, PresentHasRecord
    <3> QED
      BY <1>14, <2>a, <2>f, <3>2, RecordAssumption DEF ApplyRule, PresentHasRecord
  <2>c. SnapshotPredatesRules'
    BY <1>14 DEF ApplyRule, SnapshotPredatesRules, Journaled
  <2>d. Sure(pc[p], op[p])'
    <3>1. /\ pc'[p] = "apply" /\ op'[p].sess = op[p].sess /\ op'[p].be = op[p].be
          /\ op'[p].todo = op[p].todo \ {x}
      BY <1>14, <1>b, <2>e DEF ApplyRule, Locals
    <3> QED
      BY <1>14, <1>a, <2>a, <3>1
      DEF ApplyRule, Sure, Recorded, Undone, Undoing, Launched, Partial
  <2> QED
    BY <1>14, <1>b, <2>a, <2>b, <2>c, <2>d, <2>e, AloneStep, HolderAlone
    DEF ApplyRule, Active
<1>15. ASSUME NEW p \in Procs, Applied(p) PROVE Journaled'
  <2>a. Sure(pc'[p], op'[p])
    BY <1>15, <1>a, <1>b
    DEF Applied, Sure, Recorded, Undone, Undoing, Launched, Doomed
  <2>b. Alone(p) /\ UNCHANGED <<rec, fw, faults>>
    BY <1>15, HolderAlone, NoFaults DEF Applied, Active
  <2> QED
    BY <1>15, <1>0, <1>b, <2>a, <2>b, HolderAlone DEF Applied, Active
<1>16. ASSUME NEW p \in Procs, VerifyPasses(p) PROVE Journaled'
  <2>a. Sure(pc'[p], op'[p])
    BY <1>16, <1>b, IdleSure DEF VerifyPasses
  <2>b. Alone(p) /\ UNCHANGED <<rec, fw, faults>>
    BY <1>16, HolderAlone, NoFaults DEF VerifyPasses, Active
  <2> QED
    BY <1>16, <1>0, <1>b, <2>a, <2>b, HolderAlone DEF VerifyPasses, Active
<1>17. ASSUME NEW p \in Procs, BeginRollback(p) PROVE Journaled'
  <2>a. Sure(pc'[p], op'[p])
    BY <1>17, <1>a, <1>b, NoFaults
    DEF BeginRollback, Sure, Recorded, Undone, Undoing, Launched, Doomed, Fits,
        Teardowns, Sweeps, Drops, ConnectStages
  <2>b. Alone(p) /\ UNCHANGED <<rec, fw, faults>>
    BY <1>17, HolderAlone, NoFaults DEF BeginRollback, Active
  <2> QED
    BY <1>17, <1>0, <1>b, <2>a, <2>b, HolderAlone DEF BeginRollback, Active
<1>18. ASSUME NEW p \in Procs, StopTor(p) PROVE Journaled'
  <2>a. Sure(pc'[p], op'[p])
    BY <1>18, <1>a, <1>b
    DEF StopTor, Sure, Recorded, Undone, Undoing, Launched, Doomed, Fits, Teardowns,
        Sweeps, Drops, ConnectStages
  <2>b. Alone(p) /\ UNCHANGED <<rec, fw, faults>>
    BY <1>18, HolderAlone, NoFaults DEF StopTor, Active
  <2> QED
    BY <1>18, <1>0, <1>b, <2>a, <2>b, HolderAlone DEF StopTor, Active
<1>19. ASSUME NEW p \in Procs, WipeDataDir(p) PROVE Journaled'
  <2>a. Sure(pc'[p], op'[p])
    <3>1. Sure("wipe", op[p]) /\ op[p].sess \in Session
          /\ op[p].goal \in Teardowns \cup Drops
      BY <1>19, <1>a, <1>b DEF WipeDataDir, Fits
    <3>2. CASE op[p].goal \in Drops
      <4>1. pc'[p] = "clear" /\ op' = op
        BY <1>19, <1>b, <3>2 DEF WipeDataDir, Drops
      <4> QED
        BY <3>1, <3>2, <4>1
        DEF Sure, Recorded, Undone, Undoing, Launched, Drops, Teardowns
    <3>3. CASE op[p].goal \notin Drops
      <4>1. /\ pc'[p] = "remove" /\ op'[p].todo = Rules(op[p].sess.be)
            /\ op'[p].sess = op[p].sess /\ op'[p].goal = op[p].goal
        BY <1>19, <1>b, <3>3 DEF WipeDataDir, Drops, Locals
      <4>2. Probed(op[p].sess.be) \subseteq Rules(op[p].sess.be)
        BY <3>1, RulesTyped DEF Session
      <4> QED
        BY <3>1, <3>3, <4>1, <4>2
        DEF Sure, Recorded, Undone, Undoing, Launched, Drops, Teardowns, Doomed
    <3> QED
      BY <3>2, <3>3
  <2>b. Alone(p) /\ UNCHANGED <<rec, fw, faults>>
    BY <1>19, HolderAlone, NoFaults DEF WipeDataDir, Active
  <2> QED
    BY <1>19, <1>0, <1>b, <2>a, <2>b, HolderAlone DEF WipeDataDir, Active
<1>20. ASSUME NEW p \in Procs, RemoveRule(p) PROVE Journaled'
  <2>a. Alone(p)
    BY <1>20, HolderAlone DEF RemoveRule, Active
  <2>e. PICK x \in AllRules :
          /\ fw' = [fw EXCEPT ![x] = 0]
          /\ op' = [op EXCEPT ![p].todo = op[p].todo \ {x}]
          /\ faults' = faults
    BY <1>20, NoFaults DEF RemoveRule
  <2>f. \A b \in Backends : Present(b)' => Present(b)
    BY <2>e, Shrinks DEF Typed, TypeOK, Firewall
  <2>b. PresentHasRecord'
    BY <1>20, <2>f DEF RemoveRule, PresentHasRecord, Journaled
  <2>c. SnapshotPredatesRules'
    BY <1>20 DEF RemoveRule, SnapshotPredatesRules, Journaled
  <2>d. Sure(pc[p], op[p])'
    <3>1. /\ pc'[p] = "remove" /\ op'[p].sess = op[p].sess /\ op'[p].goal = op[p].goal
          /\ op'[p].sweep = op[p].sweep /\ op'[p].todo = op[p].todo \ {x}
      BY <1>20, <1>b, <2>e DEF RemoveRule, Locals
    <3>2. pc[p] = "remove" /\ rec' = rec
      BY <1>20 DEF RemoveRule
    <3>3. Recorded(pc[p], op[p])'
      BY <1>a, <3>1, <3>2 DEF Sure, Recorded, Undoing, Launched
    <3>4. op[p].goal \in Teardowns \cup Drops => op[p].sess.be \in Backends
      BY <1>b DEF Fits, Session
    <3>5. \A b \in Backends : \A todo :
            Doomed(b, todo) => Doomed(b, todo \ {x})'
      BY <2>e, DoomedStep DEF Typed
    <3>6. Undone("remove", op[p])
      BY <1>a, <3>2 DEF Sure
    <3>7. Undone(pc[p], op[p])'
      BY <2>f, <3>1, <3>4, <3>5, <3>6 DEF Undone, Undoing, Drops
    <3> QED
      BY <3>3, <3>7 DEF Sure
  <2> QED
    BY <1>20, <1>b, <2>a, <2>b, <2>c, <2>d, <2>e, AloneStep, HolderAlone
    DEF RemoveRule, Active
<1>21. ASSUME NEW p \in Procs, Removed(p) PROVE Journaled'
  <2>a. Sure(pc'[p], op'[p])
    <3>1. /\ Sure("remove", op[p]) /\ op' = op /\ op[p].todo = {}
          /\ pc'[p] = AfterRemove(op[p].goal) /\ op[p].goal \in Teardowns \cup Sweeps
          /\ op[p].goal \in Teardowns \cup Drops => op[p].sess \in Session
      BY <1>21, <1>a, <1>b DEF Removed, Fits
    <3>2. ASSUME op[p].goal \in Teardowns \cup Drops, Doomed(op[p].sess.be, {})
          PROVE  ~Present(op[p].sess.be)
      BY <3>1, <3>2, ProbedTyped DEF Doomed, Session
    <3> QED
      BY <3>1, <3>2
      DEF Sure, Recorded, Undone, Undoing, Launched, Drops, Teardowns, Sweeps, AfterRemove
  <2>b. Alone(p) /\ UNCHANGED <<rec, fw, faults>>
    BY <1>21, HolderAlone, NoFaults DEF Removed, Active
  <2> QED
    BY <1>21, <1>0, <1>b, <2>a, <2>b, HolderAlone DEF Removed, Active, AfterRemove
<1>22. ASSUME NEW p \in Procs, Restore(p) PROVE Journaled'
  <2> DEFINE s == op[p].sess
  <2>a. Alone(p) /\ rec = s /\ ~Present(s.be)
    BY <1>22, <1>a, <1>b, HolderAlone
    DEF Restore, Active, Sure, Recorded, Undone, Undoing, Fits, Teardowns
  <2>e. s \in Session /\ s.be \in Backends /\ IsSession(rec)
    BY <1>22, <1>b, <2>a, RecordAssumption DEF Restore, Fits, Teardowns, Session
  <2>f. \A b \in Backends : ~Present(b)'
    <3>1. \E x \in Probed(s.be) : fw'[x] = 0
      BY <1>22, <2>a, <2>e, RulesTyped DEF Restore, Journaled, SnapshotPredatesRules
    <3>2. ASSUME NEW b \in Backends \ {s.be} PROVE \E x \in Probed(b) : fw'[x] = 0
      <4>1. ~Present(b)
        BY <2>a, <2>e DEF Journaled, PresentHasRecord
      <4>2. \A x \in Probed(b) : x \in AllRules /\ x \notin Rules(s.be)
        BY <2>e, RulesTyped, ProbedTyped
      <4> QED
        BY <1>22, <4>1, <4>2 DEF Restore, Present
    <3> QED
      BY <3>1, <3>2 DEF Present
  <2>b. PresentHasRecord'
    BY <2>f DEF PresentHasRecord
  <2>c. SnapshotPredatesRules'
    BY <1>22 DEF Restore, SnapshotPredatesRules, Journaled
  <2>d. Sure(pc[p], op[p])'
    <3>1. pc'[p] = "clear" /\ op'[p] = op[p] /\ op[p].goal = "disconnect" /\ rec' = rec
      BY <1>22, <1>b DEF Restore, Fits
    <3> QED
      BY <2>a, <2>e, <2>f, <3>1 DEF Sure, Recorded, Undone, Undoing, Launched
  <2> QED
    BY <1>22, <1>b, <2>a, <2>b, <2>c, <2>d, AloneStep, HolderAlone
    DEF Restore, Active
<1>23. ASSUME NEW p \in Procs, RestoreFails(p) PROVE Journaled'
  <2>a. Sure(pc'[p], op'[p])
    BY <1>23, <1>b, IdleSure DEF RestoreFails
  <2>b. Alone(p) /\ UNCHANGED <<rec, fw, faults>>
    BY <1>23, HolderAlone, NoFaults DEF RestoreFails, Active
  <2> QED
    BY <1>23, <1>0, <1>b, <2>a, <2>b, HolderAlone DEF RestoreFails, Active
<1>24. ASSUME NEW p \in Procs, ClearRecord(p) PROVE Journaled'
  <2>a. Alone(p) /\ rec = op[p].sess /\ ~Present(op[p].sess.be)
    BY <1>24, <1>a, <1>b, HolderAlone
    DEF ClearRecord, Active, Sure, Recorded, Undone, Undoing, Fits
  <2>e. rec' = NoRec /\ fw' = fw /\ pc'[p] \in {"port", "check", "exit"} /\ faults' = faults
    BY <1>24, <1>b DEF ClearRecord
  <2>b. PresentHasRecord'
    <3>1. \A b \in Backends : ~Present(b)
      BY <2>a DEF Journaled, PresentHasRecord
    <3> QED
      BY <2>e, <3>1 DEF PresentHasRecord, Present
  <2>c. SnapshotPredatesRules'
    BY <2>e DEF SnapshotPredatesRules
  <2>d. Sure(pc[p], op[p])'
    BY <2>e DEF Sure, Recorded, Undone, Undoing, Launched
  <2>g. lock' = lock /\ \A q \in Procs \ {p} : pc'[q] = pc[q] /\ op'[q] = op[q]
    BY <1>24, <1>b DEF ClearRecord
  <2> QED
    BY <1>24, <2>a, <2>b, <2>c, <2>d, <2>e, <2>g, AloneStep, HolderAlone
    DEF ClearRecord, Active
<1>25. ASSUME NEW p \in Procs, CheckClean(p) PROVE Journaled'
  <2>a. Sure(pc'[p], op'[p])
    BY <1>25, <1>b, IdleSure DEF CheckClean
  <2>b. Alone(p) /\ UNCHANGED <<rec, fw, faults>>
    BY <1>25, HolderAlone, NoFaults DEF CheckClean, Active
  <2> QED
    BY <1>25, <1>0, <1>b, <2>a, <2>b, HolderAlone DEF CheckClean, Active
<1>26. ASSUME NEW p \in Procs, BeginDisconnect(p) PROVE Journaled'
  BY <1>26, <1>b, IdleStep DEF BeginDisconnect, Active
<1>27. ASSUME NEW p \in Procs, LockDisconnect(p) PROVE Journaled'
  <2>a. Sure(pc'[p], op'[p])
    BY <1>27, <1>b, IdleSure DEF LockDisconnect
  <2>b. Alone(p) /\ UNCHANGED <<rec, fw, faults>>
    BY <1>27, HolderAlone, NoFaults DEF LockDisconnect, Active
  <2> QED
    BY <1>27, <1>0, <1>b, <2>a, <2>b, HolderAlone DEF LockDisconnect, Active
<1>28. ASSUME NEW p \in Procs, LockTimeout(p) PROVE Journaled'
  BY <1>28, <1>b, IdleStep DEF LockTimeout, Active
<1>29. ASSUME NEW p \in Procs, ReloadGone(p) PROVE Journaled'
  <2>a. Sure(pc'[p], op'[p])
    BY <1>29, <1>b, IdleSure DEF ReloadGone
  <2>b. Alone(p) /\ UNCHANGED <<rec, fw, faults>>
    BY <1>29, HolderAlone, NoFaults DEF ReloadGone, Active
  <2> QED
    BY <1>29, <1>0, <1>b, <2>a, <2>b, HolderAlone DEF ReloadGone, Active
<1>30. ASSUME NEW p \in Procs, ReloadSession(p) PROVE Journaled'
  <2>a. Sure(pc'[p], op'[p])
    BY <1>30, <1>a, <1>b
    DEF ReloadSession, Sure, Recorded, Undone, Undoing, Launched, Doomed
  <2>b. Alone(p) /\ UNCHANGED <<rec, fw, faults>>
    BY <1>30, HolderAlone, NoFaults DEF ReloadSession, Active
  <2> QED
    BY <1>30, <1>0, <1>b, <2>a, <2>b, HolderAlone DEF ReloadSession, Active
<1>31. ASSUME NEW p \in Procs, BeginRepair(p) PROVE Journaled'
  <2>a. Sure(pc'[p], op'[p])
    BY <1>31, <1>b, IdleSure DEF BeginRepair
  <2>b. Alone(p) /\ UNCHANGED <<rec, fw, faults>>
    BY <1>31, HolderAlone, NoFaults DEF BeginRepair, Active
  <2> QED
    BY <1>31, <1>0, <1>b, <2>a, <2>b, HolderAlone DEF BeginRepair, Active
<1>32. ASSUME NEW p \in Procs, InspectNoSession(p) PROVE Journaled'
  <2>a. Sure(pc'[p], op'[p])
    BY <1>32, <1>b
    DEF InspectNoSession, Sure, Recorded, Undone, Undoing, Launched, Doomed, SweepFor, NoOp, Drops, Teardowns
  <2>b. Alone(p) /\ UNCHANGED <<rec, fw, faults>>
    BY <1>32, HolderAlone, NoFaults DEF InspectNoSession, Active
  <2> QED
    BY <1>32, <1>0, <1>b, <2>a, <2>b, HolderAlone
    DEF InspectNoSession, Active, SweepFor
<1>33. ASSUME NEW p \in Procs, InspectHealthy(p) PROVE Journaled'
  <2>a. Sure(pc'[p], op'[p])
    BY <1>33, <1>b
    DEF InspectHealthy, Sure, Recorded, Undone, Undoing, Launched, Doomed, SweepFor, NoOp, Drops, Teardowns
  <2>b. Alone(p) /\ UNCHANGED <<rec, fw, faults>>
    BY <1>33, HolderAlone, NoFaults DEF InspectHealthy, Active
  <2> QED
    BY <1>33, <1>0, <1>b, <2>a, <2>b, HolderAlone
    DEF InspectHealthy, Active, SweepFor
<1>34. ASSUME NEW p \in Procs, InspectUnhealthy(p) PROVE Journaled'
  <2>a. Sure(pc'[p], op'[p])
    BY <1>34, <1>a, <1>b
    DEF InspectUnhealthy, Sure, Recorded, Undone, Undoing, Launched, Doomed
  <2>b. Alone(p) /\ UNCHANGED <<rec, fw, faults>>
    BY <1>34, HolderAlone, NoFaults DEF InspectUnhealthy, Active
  <2> QED
    BY <1>34, <1>0, <1>b, <2>a, <2>b, HolderAlone DEF InspectUnhealthy, Active
<1>35. ASSUME NEW p \in Procs, Assess(p) PROVE Journaled'
  <2>a. Sure(pc'[p], op'[p])
    BY <1>35, <1>a, <1>b, NoFaults
    DEF Assess, Sure, Recorded, Undone, Undoing, Launched, Doomed, Fits, Teardowns,
        Sweeps, Drops, ConnectStages, Session, Locals
  <2>b. Alone(p) /\ UNCHANGED <<rec, fw, faults>>
    BY <1>35, HolderAlone, NoFaults DEF Assess, Active
  <2> QED
    BY <1>35, <1>0, <1>b, <2>a, <2>b, HolderAlone DEF Assess, Active
<1>36. ASSUME NEW p \in Procs, SweepBackend(p) PROVE Journaled'
  <2>a. Sure(pc'[p], op'[p])
    BY <1>36, <1>a, <1>b, NoFaults, RulesTyped
    DEF SweepBackend, Sure, Recorded, Undone, Undoing, Launched, Doomed, Fits,
        Teardowns, Sweeps, Drops, ConnectStages, Session, Locals
  <2>b. Alone(p) /\ UNCHANGED <<rec, fw, faults>>
    BY <1>36, HolderAlone, NoFaults DEF SweepBackend, Active
  <2> QED
    BY <1>36, <1>0, <1>b, <2>a, <2>b, HolderAlone DEF SweepBackend, Active
<1>37. ASSUME NEW p \in Procs, Swept(p) PROVE Journaled'
  <2>a. Sure(pc'[p], op'[p])
    BY <1>37, <1>a, <1>b
    DEF Swept, Sure, Recorded, Undone, Undoing, Launched, Doomed
  <2>b. Alone(p) /\ UNCHANGED <<rec, fw, faults>>
    BY <1>37, HolderAlone, NoFaults DEF Swept, Active
  <2> QED
    BY <1>37, <1>0, <1>b, <2>a, <2>b, HolderAlone DEF Swept, Active
<1>38. ASSUME NEW p \in Procs, Reconcile(p) PROVE Journaled'
  <2>a. Alone(p) /\ lock = p
    BY <1>38, HolderAlone DEF Reconcile, Active
  <2>b. /\ op' = op /\ fw' = fw /\ faults' = faults /\ lock' = lock
        /\ pc'[p] \in {"wipe", "clear", "exit"}
        /\ \A q \in Procs \ {p} : pc'[q] = pc[q]
    BY <1>38, <1>b DEF Reconcile
  <2>c. CASE op[p].goal = "corrupt"
    <3>1. rec = Corrupt /\ rec' = NoRec /\ pc'[p] = "exit"
      BY <1>38, <1>a, <1>b, <2>c DEF Reconcile, Sure, Recorded, Undoing
    <3>2. PresentHasRecord'
      BY <2>b, <3>1, NothingArmed DEF PresentHasRecord, Present
    <3>3. SnapshotPredatesRules'
      BY <3>1 DEF SnapshotPredatesRules
    <3> QED
      BY <2>a, <2>b, <3>1, <3>2, <3>3, AloneStep, IdleSure DEF Active
  <2>d. CASE op[p].goal # "corrupt"
    <3>1. rec' = rec
      BY <1>38, <2>d DEF Reconcile
    <3>2. pc'[p] \in {"wipe", "clear"} => op[p].goal \in Drops
      BY <1>38, <1>b, <2>d DEF Reconcile, Drops
    <3>3. Sure(pc'[p], op'[p])
      BY <1>38, <1>a, <2>b, <2>d, <3>2
      DEF Reconcile, Sure, Recorded, Undone, Undoing, Launched, Drops, Teardowns
    <3> QED
      BY <1>0, <2>a, <2>b, <3>1, <3>3 DEF Active
  <2> QED
    BY <2>c, <2>d
<1>39. ASSUME NEW p \in Procs, Exit(p) PROVE Journaled'
  <2>a. Sure(pc'[p], op'[p]) /\ Alone(p)
    BY <1>39, <1>b, IdleSure, HolderAlone DEF Exit, Active
  <2> QED
    BY <1>39, <1>0, <1>b, <2>a, SessionAssumption DEF Exit, Active
<1>40. ASSUME NEW p \in Procs, Crash(p) PROVE Journaled'
  <2>a. /\ pc'[p] = "idle" /\ UNCHANGED <<rec, fw, faults>>
        /\ \A q \in Procs \ {p} : pc'[q] = pc[q] /\ op'[q] = op[q]
        /\ lock' = IF lock = p THEN NoProc ELSE lock
    BY <1>40, <1>b DEF Crash
  <2>b. CASE Active(p)
    <3>1. Alone(p) /\ lock = p
      BY <2>b, HolderAlone
    <3> QED
      BY <1>0, <2>a, <3>1, IdleSure, SessionAssumption DEF Active
  <2>c. CASE ~Active(p)
    <3>1. lock # p
      BY <2>c DEF Journaled, Exclusive
    <3> QED
      BY <2>a, <2>c, <3>1, IdleStep DEF Active
  <2> QED
    BY <2>b, <2>c
<1>41. ASSUME NEW g \in Tors, OwnedTorExits(g) \/ TorCrashes(g) PROVE Journaled'
  BY <1>41, WorldStep DEF OwnedTorExits, TorCrashes
<1>42. ASSUME NEW b \in Backends, ManagerFlushes(b) PROVE Journaled'
  BY <1>42, WorldStep DEF ManagerFlushes
<1>43. ASSUME Reboot PROVE Journaled'
  <2>a. \A b \in Backends : ~Present(b)'
    BY <1>43, RulesTyped, ProbedTyped DEF Reboot, Present
  <2>b. \A p \in Procs : ~Active(p)' /\ Sure(pc[p], op[p])'
    BY <1>43, IdleSure DEF Reboot, Active
  <2> QED
    BY <1>43, <2>a, <2>b, SessionAssumption
    DEF Reboot, Journaled, Exclusive, PresentHasRecord, SnapshotPredatesRules
<1>44. ASSUME UNCHANGED vars PROVE Journaled'
  BY <1>44, WorldStep DEF vars
<1> QED
  BY <1>1, <1>2, <1>3, <1>4, <1>5, <1>6, <1>7, <1>8, <1>9, <1>10, <1>11, <1>12,
     <1>13, <1>14, <1>15, <1>16, <1>17, <1>18, <1>19, <1>20, <1>21, <1>22, <1>23,
     <1>24, <1>25, <1>26, <1>27, <1>28, <1>29, <1>30, <1>31, <1>32, <1>33, <1>34,
     <1>35, <1>36, <1>37, <1>38, <1>39, <1>40, <1>41, <1>42, <1>43, <1>44
  DEF Next, Start, Progress, ConnectStep, TeardownStep, DisconnectStep, RepairStep,
      Environment

----------------------------------------------------------------------------
(* The theorems.                                                              *)

LEMMA TypedAlways == Spec => []Typed
BY InitTyped, NextTyped, PTL DEF Spec

(* Every variable keeps its type, and no command ever works with a local it
   has not set: in particular the session at hand during a teardown is a whole
   record (connect.go:366, 557), whatever crashes and reboots came before. *)
THEOREM TypeCorrect == Spec => []TypeOK
BY TypedAlways, PTL DEF Typed

(* Failures are never forgotten. *)
LEMMA FaultsStay ==
  ASSUME Typed, [Next]_vars, faults' = 0
  PROVE  faults = 0
<1> USE DEF Fault, Observe, Typed, TypeOK
<1>1. ASSUME NEW p \in Procs, Start(p) \/ DisconnectStep(p) PROVE faults' = faults
  BY <1>1
  DEF Start, BeginConnect, BeginDisconnect, BeginRepair, DisconnectStep,
      LockDisconnect, LockTimeout, ReloadGone, ReloadSession
<1>2. ASSUME NEW p \in Procs, ConnectStep(p) PROVE faults' \in {faults, faults + 1}
  BY <1>2
  DEF ConnectStep, ConnectFresh, ConnectAlready, ConnectRefuses, ConnectForces,
      CheckPort, Snapshot, SnapshotFails, SpawnTor, TorReady, LaunchFails,
      TruncateRecord, WriteRecord, ApplyRule, Applied, VerifyPasses, BeginRollback
<1>3. ASSUME NEW p \in Procs, TeardownStep(p) PROVE faults' \in {faults, faults + 1}
  BY <1>3
  DEF TeardownStep, StopTor, WipeDataDir, RemoveRule, Removed, Restore, RestoreFails,
      ClearRecord, CheckClean
<1>4. ASSUME NEW p \in Procs, RepairStep(p) PROVE faults' \in {faults, faults + 1}
  BY <1>4
  DEF RepairStep, InspectNoSession, InspectHealthy, InspectUnhealthy, Assess,
      SweepBackend, Swept, Reconcile
<1>5. ASSUME NEW p \in Procs, Exit(p) \/ Crash(p) PROVE faults' = faults
  BY <1>5 DEF Exit, Crash
<1>6. ASSUME Environment PROVE faults' = faults
  BY <1>6 DEF Environment, OwnedTorExits, TorCrashes, ManagerFlushes, Reboot
<1>7. ASSUME UNCHANGED vars PROVE faults' = faults
  BY <1>7 DEF vars
<1> QED
  BY <1>1, <1>2, <1>3, <1>4, <1>5, <1>6, <1>7, SessionAssumption DEF Next, Progress

(* The journal is kept up to the first failure. *)
LEMMA JournaledUntilFault == Spec => [](faults = 0 => Journaled)
<1>1. Init => Journaled
  BY InitJournaled
<1>2. Typed /\ Typed' /\ (faults = 0 => Journaled) /\ [Next]_vars
        => (faults = 0 => Journaled)'
  BY FaultsStay, NextJournaled
<1> QED
  BY <1>1, <1>2, TypedAlways, PTL DEF Spec

LEMMA JournaledAlways ==
  ASSUME MaxFaults = 0
  PROVE  Spec => []Journaled
<1>1. Typed => faults = 0
  BY DEF Typed, TypeOK
<1> QED
  BY <1>1, TypedAlways, JournaledUntilFault, PTL

(* Until a firewall command or a write fails, rules that torshim can detect have
   a readable record naming their backend at every instant, wherever commands
   are killed: the record is saved before Ensure and cleared after Remove
   (connect.go:472-476, 572-580). *)
THEOREM RecordCoversRules == Spec => [](faults = 0 => PresentHasRecord)
BY JournaledUntilFault, PTL DEF Journaled

(* Until a firewall command or a write fails, the dump in the record never holds
   all that Present looks for, so that RestoreBackup (connect.go:575) arms no
   capture, even when leftovers of a killed command are in the dump. *)
THEOREM RecordArmsNothing == Spec => [](faults = 0 => SnapshotPredatesRules)
BY JournaledUntilFault, PTL DEF Journaled

(* The ways in which a step may touch the record. *)
LEMMA RecordSteps ==
  ASSUME Journaled, [Next]_vars
  PROVE  \/ rec' = rec
         \/ rec' = NoRec
         \/ rec = NoRec /\ rec' = Corrupt
         \/ \E p \in Procs : rec = Corrupt /\ rec' = op[p].sess /\ fw' = fw
<1>1. ASSUME NEW p \in Procs, TruncateRecord(p) \/ WriteRecord(p)
      PROVE  \/ rec = NoRec /\ rec' = Corrupt
             \/ rec = Corrupt /\ rec' = op[p].sess /\ fw' = fw
  BY <1>1 DEF TruncateRecord, WriteRecord, Journaled, Sure, Recorded, At
<1>2. ASSUME NEW p \in Procs, Start(p) PROVE rec' = rec
  BY <1>2 DEF Start, BeginConnect, BeginDisconnect, BeginRepair
<1>3. ASSUME NEW p \in Procs, ConnectStep(p), ~TruncateRecord(p), ~WriteRecord(p)
      PROVE  rec' = rec
  BY <1>3
  DEF ConnectStep, ConnectFresh, ConnectAlready, ConnectRefuses, ConnectForces,
      CheckPort, Snapshot, SnapshotFails, SpawnTor, TorReady, LaunchFails, ApplyRule,
      Applied, VerifyPasses, BeginRollback
<1>4. ASSUME NEW p \in Procs, TeardownStep(p) PROVE rec' \in {rec, NoRec}
  BY <1>4
  DEF TeardownStep, StopTor, WipeDataDir, RemoveRule, Removed, Restore, RestoreFails,
      ClearRecord, CheckClean
<1>5. ASSUME NEW p \in Procs, DisconnectStep(p) PROVE rec' = rec
  BY <1>5 DEF DisconnectStep, LockDisconnect, LockTimeout, ReloadGone, ReloadSession
<1>6. ASSUME NEW p \in Procs, RepairStep(p) PROVE rec' \in {rec, NoRec}
  BY <1>6
  DEF RepairStep, InspectNoSession, InspectHealthy, InspectUnhealthy, Assess,
      SweepBackend, Swept, Reconcile
<1>7. ASSUME NEW p \in Procs, Exit(p) \/ Crash(p) PROVE rec' = rec
  BY <1>7 DEF Exit, Crash
<1>8. ASSUME Environment PROVE rec' \in {rec, NoRec}
  BY <1>8 DEF Environment, OwnedTorExits, TorCrashes, ManagerFlushes, Reboot
<1>9. ASSUME UNCHANGED vars PROVE rec' = rec
  BY <1>9 DEF vars
<1> QED
  BY <1>1, <1>2, <1>3, <1>4, <1>5, <1>6, <1>7, <1>8, <1>9 DEF Next, Progress

(* As long as firewall commands do not fail, the session implements RuleJournal:
   the record on disk and the rules in the kernel, changed by separate system
   calls of commands that may die between any two, move as a journal and what
   it covers. *)
THEOREM SessionIsJournal ==
  ASSUME MaxFaults = 0
  PROVE  Spec => RecordIsJournal
<1> DEFINE journal == IF rec = NoRec THEN "none"
                      ELSE IF rec = Corrupt THEN "torn" ELSE rec.be
           armed == {b \in Backends : Present(b)}
<1>1. Init => Journal!Init
  BY InitJournaled, SessionAssumption
  DEF Init, Journaled, PresentHasRecord, IsSession, Journal!Init
<1>2. ASSUME Typed, Typed', Journaled, Journaled', [Next]_vars
      PROVE  [Journal!Next]_(Journal!jvars)
  <2>a. /\ ~IsSession(rec) => armed = {}
        /\ IsSession(rec) => armed \in {{}, {rec.be}} /\ rec.be \in Backends
    BY <1>2 DEF Journaled, PresentHasRecord, Typed, TypeOK, IsSession, Session
  <2>b. /\ ~IsSession(rec)' => armed' = {}
        /\ IsSession(rec)' => armed' \in {{}, {rec'.be}}
    BY <1>2 DEF Journaled, PresentHasRecord
  <2>c. CASE rec' = rec
    <3>1. CASE IsSession(rec)
      <4>1. journal = rec.be /\ journal' = journal /\ armed' \in {{}, {rec.be}}
        BY <2>b, <2>c, <3>1 DEF IsSession
      <4> QED
        BY <2>a, <3>1, <4>1 DEF Journal!Next, Journal!Disarm, Journal!Arm
    <3>2. CASE ~IsSession(rec)
      <4>1. journal' = journal /\ armed' = armed
        BY <2>a, <2>b, <2>c, <3>2 DEF IsSession
      <4> QED
        BY <4>1 DEF Journal!jvars
    <3> QED
      BY <3>1, <3>2
  <2>d. CASE rec' = NoRec
    BY <2>b, <2>d DEF IsSession, Journal!Next, Journal!Reboot
  <2>e. CASE rec = NoRec /\ rec' = Corrupt
    BY <2>a, <2>b, <2>e, SessionAssumption DEF IsSession, Journal!Next, Journal!Tear
  <2>f. ASSUME NEW p \in Procs, rec = Corrupt, rec' = op[p].sess, fw' = fw,
               rec' # NoRec, rec' # rec
        PROVE  Journal!Next
    <3>1. journal = "torn" /\ journal' = rec'.be /\ rec'.be \in Backends
      BY <1>2, <2>f, SessionAssumption DEF Typed, TypeOK, Session
    <3>2. armed' = armed
      BY <2>f DEF Present
    <3> QED
      BY <3>1, <3>2 DEF Journal!Next, Journal!Name
  <2> QED
    BY <1>2, <2>c, <2>d, <2>e, <2>f, RecordSteps
<1> QED
  BY <1>1, <1>2, TypedAlways, JournaledAlways, PTL
  DEF Spec, RecordIsJournal, Journal!Spec

----------------------------------------------------------------------------
(* What the commands can be trusted with: that tor is stopped before the      *)
(* firewall is opened, that a repair disarms whatever it drops the record of, *)
(* that a cycle of commands nobody kills leaves neither rules nor data        *)
(* directories behind, and that a verified connect captures for its own tor.  *)

----------------------------------------------------------------------------
(* The steps of one process.                                                  *)

(* Past its guard, a command changes only its own stage and locals; what it
   shares with others it changes only as the holder of the lock. *)
LEMMA OwnStep ==
  ASSUME Typed, NEW p \in Procs, Start(p) \/ Progress(p) \/ Crash(p)
  PROVE  /\ \A q \in Procs \ {p} : pc'[q] = pc[q] /\ op'[q] = op[q]
         /\ Active(p) \/ lock = NoProc \/ UNCHANGED <<rec, fw, alive, dirs>>
<1> USE DEF Typed, TypeOK, At, Goto, Report, SetTodo, Acquire, Active, torVars
<1>1. CASE Start(p) \/ DisconnectStep(p)
  BY <1>1
  DEF Start, BeginConnect, BeginDisconnect, BeginRepair, DisconnectStep,
      LockDisconnect, LockTimeout, ReloadGone, ReloadSession
<1>2. CASE ConnectStep(p)
  BY <1>2
  DEF ConnectStep, ConnectFresh, ConnectAlready, ConnectRefuses, ConnectForces,
      CheckPort, Snapshot, SnapshotFails, SpawnTor, TorReady, LaunchFails,
      TruncateRecord, WriteRecord, ApplyRule, Applied, VerifyPasses, BeginRollback
<1>3. CASE TeardownStep(p)
  BY <1>3
  DEF TeardownStep, StopTor, WipeDataDir, RemoveRule, Removed, Restore, RestoreFails,
      ClearRecord, CheckClean
<1>4. CASE RepairStep(p)
  BY <1>4
  DEF RepairStep, InspectNoSession, InspectHealthy, InspectUnhealthy, Assess,
      SweepBackend, Swept, Reconcile, SweepFor
<1>5. CASE Exit(p) \/ Crash(p)
  BY <1>5 DEF Exit, Crash
<1> QED
  BY <1>1, <1>2, <1>3, <1>4, <1>5 DEF Progress

----------------------------------------------------------------------------
(* Tor dies first.  That no rule goes while the recorded tor runs rests on    *)
(* what each kind of command knows of the tor at hand, and on the fact that   *)
(* the sweeps of the other backend, or of no session, find nothing to remove. *)

(* The stages of a command that undoes something, once tor was told to stop. *)
Past == Undoing \ {"stop"}

Spared(at, l) ==
  /\ at \in Past /\ l.goal \in Teardowns => l.sess.tor \notin alive
  /\ at = "assess" => l.sess.tor \notin alive \/ ~Present(l.sess.be)
  /\ at \in Past /\ l.goal = "stale" => l.sess.tor \notin alive
  /\ at = "remove" => l.goal \in Teardowns \cup {"stale"}
  /\ at \in Past /\ l.goal = "bare" => rec = NoRec
  /\ at \in Past /\ l.goal = "stray" => IsSession(rec) /\ rec.be \notin l.sweep

Silenced == \A p \in Procs : Spared(pc[p], op[p])

LEMMA InitSilenced == Init => Silenced
BY DEF Init, Silenced, Spared, Past, Undoing

(* Where nothing is being undone, nothing is claimed. *)
LEMMA SparedElsewhere ==
  ASSUME NEW at, at \notin Past, NEW l
  PROVE  Spared(at, l) /\ Spared(at, l)'
BY DEF Spared, Past, Undoing

(* A step of the holder of the lock has only its own claims to keep. *)
LEMMA SparedAlone ==
  ASSUME Journaled, NEW p \in Procs, Active(p) \/ lock = NoProc,
         \A q \in Procs \ {p} : pc'[q] = pc[q] /\ op'[q] = op[q],
         Spared(pc[p], op[p])'
  PROVE  Silenced'
<1>1. ASSUME NEW q \in Procs \ {p} PROVE Spared(pc[q], op[q])'
  <2>a. ~Active(q) /\ pc'[q] = pc[q]
    BY HolderAlone DEF Alone
  <2>b. pc'[q] \notin Past
    BY <2>a DEF Active, Past, Undoing
  <2> QED
    BY <2>b DEF Spared, Past, Undoing
<1> QED
  BY <1>1 DEF Silenced

(* Tors that die and rules that go leave every claim true. *)
LEMMA SparedWorld ==
  ASSUME Typed, Silenced, UNCHANGED <<pc, op, rec>>, alive' \subseteq alive,
         \A x \in AllRules : fw'[x] \in {fw[x], 0}
  PROVE  Silenced'
<1> SUFFICES ASSUME NEW p \in Procs PROVE Spared(pc[p], op[p])'
  BY DEF Silenced
<1>1. \A b \in Backends : Present(b)' => Present(b)
  BY Shrinks
<1>2. Spared(pc[p], op[p]) /\ Fits(pc[p], op[p])
  BY DEF Silenced, Typed, Shaped
<1>3. pc[p] = "assess" => op[p].sess.be \in Backends
  BY <1>2 DEF Fits, Session
<1> QED
  BY <1>1, <1>2, <1>3 DEF Spared, IsSession

LEMMA NextSilenced ==
  ASSUME Typed, Typed', Journaled, Silenced, [Next]_vars, faults' = 0
  PROVE  Silenced'
<1> USE DEF At, Goto, Report, SetTodo, Acquire, torVars
<1>a. \A p \in Procs : Spared(pc[p], op[p]) /\ Sure(pc[p], op[p])
  BY DEF Silenced, Journaled
<1>b. /\ pc \in [Procs -> Steps] /\ op \in [Procs -> Locals]
      /\ \A p \in Procs : Fits(pc[p], op[p])
  BY DEF Typed, TypeOK, Shaped
<1>0. ASSUME NEW p \in Procs, Start(p) \/ Progress(p) \/ Crash(p), pc'[p] \notin Past
      PROVE  Silenced'
  <2>a. CASE Active(p) \/ lock = NoProc
    BY <1>0, <2>a, OwnStep, SparedAlone, SparedElsewhere
  <2>b. CASE UNCHANGED <<rec, fw, alive, dirs>>
    <3>1. ASSUME NEW q \in Procs \ {p} PROVE Spared(pc[q], op[q])'
      BY <1>0, <1>a, <2>b, OwnStep DEF Spared, Present
    <3> QED
      BY <1>0, <3>1, SparedElsewhere DEF Silenced
  <2> QED
    BY <1>0, <2>a, <2>b, OwnStep
<1>1. ASSUME NEW p \in Procs, Progress(p), Active(p), Spared(pc[p], op[p])' PROVE Silenced'
  BY <1>1, OwnStep, SparedAlone
<1>2. ASSUME NEW p \in Procs, Start(p) \/ DisconnectStep(p) \/ Exit(p) \/ Crash(p)
      PROVE  pc'[p] \notin Past
  BY <1>2, <1>b
  DEF Start, BeginConnect, BeginDisconnect, BeginRepair, DisconnectStep,
      LockDisconnect, LockTimeout, ReloadGone, ReloadSession, Exit, Crash, Past, Undoing
<1>3. ASSUME NEW p \in Procs, ConnectStep(p) PROVE pc'[p] \notin Past
  BY <1>3, <1>b
  DEF ConnectStep, ConnectFresh, ConnectAlready, ConnectRefuses, ConnectForces,
      CheckPort, Snapshot, SnapshotFails, SpawnTor, TorReady, LaunchFails,
      TruncateRecord, WriteRecord, ApplyRule, Applied, VerifyPasses, BeginRollback,
      Past, Undoing
<1>4. ASSUME NEW p \in Procs, TeardownStep(p) PROVE Silenced'
  <2>a. ASSUME StopTor(p) PROVE Spared(pc[p], op[p])'
    BY <2>a, <1>b DEF StopTor, Spared, Fits, Teardowns
  <2>b. ASSUME WipeDataDir(p) PROVE Spared(pc[p], op[p])'
    <3>1. /\ pc[p] = "wipe" /\ pc'[p] \in {"clear", "remove"} /\ alive' = alive
          /\ pc'[p] = "remove" => op[p].goal \notin Drops
          /\ op'[p].goal = op[p].goal /\ op'[p].sess = op[p].sess
      BY <2>b, <1>b DEF WipeDataDir, Locals, Drops
    <3> QED
      BY <3>1, <1>a, <1>b DEF Spared, Fits, Past, Undoing, Teardowns, Drops
  <2>c. ASSUME RemoveRule(p) PROVE Spared(pc[p], op[p])'
    <3>1. /\ pc[p] = "remove" /\ pc'[p] = "remove" /\ alive' = alive /\ rec' = rec
          /\ op'[p].goal = op[p].goal /\ op'[p].sess = op[p].sess
          /\ op'[p].sweep = op[p].sweep
      BY <2>c, <1>b DEF RemoveRule, Locals
    <3> QED
      BY <3>1, <1>a DEF Spared, Past, Undoing, IsSession
  <2>d. ASSUME Removed(p) \/ Restore(p) PROVE Spared(pc[p], op[p])'
    BY <2>d, <1>a, <1>b
    DEF Removed, Restore, Spared, Fits, Past, Undoing, AfterRemove, Teardowns
  <2>e. ASSUME RestoreFails(p) \/ ClearRecord(p) \/ CheckClean(p)
        PROVE  pc'[p] \notin Past
    BY <2>e, <1>b DEF RestoreFails, ClearRecord, CheckClean, Past, Undoing
  <2>f. Progress(p) /\ Active(p)
    BY <1>4
    DEF Progress, Active, TeardownStep, StopTor, WipeDataDir, RemoveRule, Removed,
        Restore, RestoreFails, ClearRecord, CheckClean
  <2> QED
    BY <1>4, <1>0, <1>1, <2>a, <2>b, <2>c, <2>d, <2>e, <2>f DEF TeardownStep
<1>5. ASSUME NEW p \in Procs, RepairStep(p) PROVE Silenced'
  <2>a. ASSUME InspectNoSession(p) PROVE Spared(pc[p], op[p])'
    BY <2>a, <1>b
    DEF InspectNoSession, SweepFor, NoOp, Spared, IsSession, Teardowns
  <2>b. ASSUME InspectHealthy(p) PROVE Spared(pc[p], op[p])'
    BY <2>b, <1>b
    DEF InspectHealthy, SweepFor, NoOp, Spared, IsSession, Teardowns
  <2>c. ASSUME InspectUnhealthy(p) PROVE Spared(pc[p], op[p])'
    BY <2>c, <1>b, NoFaults
    DEF InspectUnhealthy, NoOp, Spared, IsSession, Teardowns, Present
  <2>d. ASSUME Assess(p) PROVE Spared(pc[p], op[p])'
    <3>1. /\ pc[p] = "assess" /\ pc'[p] = "sweep" /\ alive' = alive
          /\ op'[p].goal = IF Present(op[p].sess.be) THEN "stale" ELSE "gone"
          /\ op'[p].sess = op[p].sess
      BY <2>d, <1>b, NoFaults DEF Assess, Locals
    <3> QED
      BY <3>1, <1>a DEF Spared, Teardowns
  <2>e. ASSUME SweepBackend(p) PROVE Spared(pc[p], op[p])'
    <3>1. PICK b \in op[p].sweep :
            /\ pc'[p] = IF Present(b) THEN "remove" ELSE "sweep"
            /\ op'[p].goal = op[p].goal /\ op'[p].sess = op[p].sess
            /\ op'[p].sweep = op[p].sweep \ {b}
      BY <2>e, <1>b, NoFaults DEF SweepBackend, Locals
    <3>2. pc[p] = "sweep" /\ alive' = alive /\ rec' = rec /\ b \in Backends
      BY <2>e, <1>b DEF SweepBackend, Locals
    <3>3. Present(b) => op[p].goal = "stale"
      <4>1. Present(b) => IsSession(rec) /\ rec.be = b
        BY <3>2 DEF Journaled, PresentHasRecord
      <4>2. op[p].goal \in Sweeps
        BY <3>2, <1>b DEF Fits
      <4>3. op[p].goal = "corrupt" => rec = Corrupt
        BY <3>2, <1>a DEF Sure, Recorded, Undoing
      <4>4. op[p].goal = "gone" => rec = op[p].sess /\ ~Present(op[p].sess.be)
        BY <3>2, <1>a DEF Sure, Recorded, Undone, Undoing, Drops
      <4>5. op[p].goal = "bare" => rec = NoRec
        BY <3>2, <1>a DEF Spared, Past, Undoing
      <4>6. op[p].goal = "stray" => rec.be # b
        BY <3>1, <3>2, <1>a DEF Spared, Past, Undoing
      <4> QED
        BY <4>1, <4>2, <4>3, <4>4, <4>5, <4>6 DEF Sweeps, IsSession
    <3> QED
      BY <3>1, <3>2, <3>3, <1>a DEF Spared, Past, Undoing, Teardowns, IsSession
  <2>f. ASSUME Swept(p) PROVE Spared(pc[p], op[p])'
    BY <2>f, <1>a, <1>b DEF Swept, Spared, Past, Undoing, IsSession
  <2>g. ASSUME Reconcile(p) PROVE Spared(pc[p], op[p])'
    <3>1. /\ pc[p] = "reconcile" /\ op' = op /\ alive' = alive
          /\ \/ pc'[p] = "exit"
             \/ pc'[p] \in {"wipe", "clear"} /\ op[p].goal \in Drops /\ rec' = rec
      BY <2>g, <1>b DEF Reconcile, Drops
    <3> QED
      BY <3>1, <1>a DEF Spared, Past, Undoing, Teardowns, Drops
  <2>h. Progress(p) /\ Active(p)
    BY <1>5
    DEF Progress, Active, RepairStep, InspectNoSession, InspectHealthy,
        InspectUnhealthy, Assess, SweepBackend, Swept, Reconcile
  <2> QED
    BY <1>5, <1>1, <2>a, <2>b, <2>c, <2>d, <2>e, <2>f, <2>g, <2>h DEF RepairStep
<1>6. ASSUME Environment PROVE Silenced'
  <2>a. CASE Reboot
    BY <2>a DEF Reboot, Silenced, Spared, Past, Undoing
  <2>b. CASE ~Reboot
    BY <1>6, <2>b, SparedWorld
    DEF Environment, OwnedTorExits, TorCrashes, ManagerFlushes
  <2> QED
    BY <2>a, <2>b
<1>7. ASSUME UNCHANGED vars PROVE Silenced'
  BY <1>7, SparedWorld DEF vars
<1> QED
  BY <1>0, <1>2, <1>3, <1>4, <1>5, <1>6, <1>7 DEF Next, Progress

LEMMA SilencedAlways ==
  ASSUME MaxFaults = 0
  PROVE  Spec => [](Typed /\ Journaled /\ Silenced)
<1>1. Typed /\ Typed' /\ Journaled /\ Silenced /\ [Next]_vars => Silenced'
  BY NextSilenced DEF Typed, TypeOK
<1> QED
  BY <1>1, InitSilenced, TypedAlways, JournaledAlways, PTL DEF Spec

(* Without failures, no command takes a rule of the recorded session out while
   its tor still runs: not a disconnect, a forced connect or a rollback, which
   stop tor first (connect.go:520-523), and not a repair, which removes rules
   only where it sees all of them and the tor they belong to is dead. *)
THEOREM RulesFollowTor ==
  ASSUME MaxFaults = 0
  PROVE  Spec => RulesOutliveTor
<1>1. ASSUME Typed, Journaled, Silenced, NEW p \in Procs, RemoveRule(p), IsSession(rec)
      PROVE  rec.tor \notin alive
  <2>a. Spared("remove", op[p]) /\ Sure("remove", op[p])
    BY <1>1 DEF RemoveRule, At, Silenced, Journaled
  <2>b. op[p].goal \in Teardowns \cup {"stale"} /\ op[p].sess.tor \notin alive
    BY <2>a DEF Spared, Past, Undoing
  <2>c. rec = op[p].sess
    BY <2>a, <2>b DEF Sure, Recorded, Undoing, Drops
  <2> QED
    BY <2>b, <2>c
<1>2. Typed /\ Journaled /\ Silenced /\ [Next]_vars
        => [\A p \in Procs :
              RemoveRule(p) /\ IsSession(rec) =>
                \/ rec.tor \notin alive
                \/ \A x \in Rules(rec.be) : fw'[x] = fw[x]]_vars
  BY <1>1
<1> QED
  BY <1>2, SilencedAlways, PTL DEF Spec, RulesOutliveTor

(* How a repair comes to report that it repaired. *)
LEMMA RepairedBy ==
  ASSUME Typed, NEW p \in Procs, Progress(p), told # "repaired", told' = "repaired"
  PROVE  ClearRecord(p) \/ Reconcile(p)
<1> USE DEF Report, At, Goto
<1>1. ASSUME ConnectStep(p) PROVE told' # "repaired"
  BY <1>1
  DEF ConnectStep, ConnectFresh, ConnectAlready, ConnectRefuses, ConnectForces,
      CheckPort, Snapshot, SnapshotFails, SpawnTor, TorReady, LaunchFails,
      TruncateRecord, WriteRecord, ApplyRule, Applied, VerifyPasses, BeginRollback
<1>2. ASSUME TeardownStep(p), ~ClearRecord(p) PROVE told' # "repaired"
  BY <1>2
  DEF TeardownStep, StopTor, WipeDataDir, RemoveRule, Removed, Restore, RestoreFails,
      CheckClean
<1>3. ASSUME DisconnectStep(p) \/ Exit(p) PROVE told' # "repaired"
  BY <1>3
  DEF DisconnectStep, LockDisconnect, LockTimeout, ReloadGone, ReloadSession, Exit
<1>4. ASSUME RepairStep(p), ~Reconcile(p) PROVE told' # "repaired"
  BY <1>4
  DEF RepairStep, InspectNoSession, InspectHealthy, InspectUnhealthy, Assess,
      SweepBackend, Swept
<1> QED
  BY <1>1, <1>2, <1>3, <1>4 DEF Progress

(* A repair that says so and did not find the session healthy has dropped the
   record, and nothing that torshim can detect is left of any backend. *)
Disarmed ==
  [][\A p \in Procs :
       Progress(p) /\ told # "repaired" /\ told' = "repaired" =>
         \/ op[p].goal = "stray"
         \/ rec' = NoRec /\ \A b \in Backends : ~Present(b)']_vars

LEMMA RepairedStep ==
  ASSUME Typed, Journaled, Silenced, NEW p \in Procs, Progress(p),
         told # "repaired", told' = "repaired", op[p].goal # "stray"
  PROVE  rec' = NoRec /\ fw' = fw /\ \A b \in Backends : ~Present(b)
<1>a. Spared(pc[p], op[p]) /\ Sure(pc[p], op[p]) /\ Fits(pc[p], op[p])
  BY DEF Silenced, Journaled, Typed, Shaped
<1>1. CASE ClearRecord(p)
  <2>a. pc[p] = "clear" /\ rec' = NoRec /\ fw' = fw
    BY <1>1 DEF ClearRecord, At
  <2>b. rec = op[p].sess /\ ~Present(op[p].sess.be)
    BY <1>a, <2>a DEF Sure, Recorded, Undone, Undoing, Fits
  <2> QED
    BY <2>a, <2>b DEF Journaled, PresentHasRecord
<1>2. CASE Reconcile(p)
  <2>a. pc[p] = "reconcile" /\ fw' = fw /\ op[p].goal \in Sweeps
    BY <1>2, <1>a DEF Reconcile, At, Fits
  <2>b. CASE op[p].goal \in {"corrupt", "bare"}
    <3>1. rec' = NoRec /\ ~IsSession(rec)
      BY <1>2, <1>a, <2>a, <2>b
      DEF Reconcile, Spared, Past, Undoing, Sure, Recorded, IsSession
    <3> QED
      BY <2>a, <3>1, NothingArmed
  <2>c. CASE op[p].goal \in Drops
    <3>1. op[p].goal = "stale" => op[p].sess.tor \notin alive
      BY <1>a, <2>a DEF Spared, Past, Undoing
    <3>2. told' = told
      BY <1>2, <2>c, <3>1 DEF Reconcile, Drops
    <3> QED
      BY <3>2
  <2> QED
    BY <2>a, <2>b, <2>c DEF Sweeps, Drops
<1> QED
  BY <1>1, <1>2, RepairedBy

(* Without failures, a repair that reports "repaired" has either found a healthy
   session or left no record and no backend armed, whatever commands were killed
   and rules flushed before it (connect.go:596-599). *)
THEOREM RepairDisarms ==
  ASSUME MaxFaults = 0
  PROVE  Spec => Disarmed
<1>1. Typed /\ Journaled /\ Silenced /\ [Next]_vars
        => [\A p \in Procs :
              Progress(p) /\ told # "repaired" /\ told' = "repaired" =>
                \/ op[p].goal = "stray"
                \/ rec' = NoRec /\ \A b \in Backends : ~Present(b)']_vars
  BY RepairedStep DEF Present
<1> QED
  BY <1>1, SilencedAlways, PTL DEF Spec, Disarmed

(* On a host with nft alone, whose table comes and goes in one transaction, it
   leaves no rule at all.  Of iptables it does not hold: a connect killed between
   two of the jumps leaves rules that no repair detects. *)
THEOREM RepairCleans ==
  ASSUME MaxFaults = 0, Backends = {"nft"}
  PROVE  Spec => RepairIsClean
<1>1. AllRules = {"table"} /\ ((\A b \in Backends : ~Present(b)) => fw["table"] = 0)
  BY DEF AllRules, Rules, Present, Probed, NftRules
<1>2. Typed /\ Journaled /\ Silenced /\ [Next]_vars
        => [\A p \in Procs :
              Progress(p) /\ faults' = 0 /\ told # "repaired" /\ told' = "repaired" =>
                \/ op[p].goal = "stray"
                \/ rec' = NoRec /\ \A x \in AllRules : fw'[x] = 0]_vars
  BY <1>1, RepairedStep
<1> QED
  BY <1>2, SilencedAlways, PTL DEF Spec, RepairIsClean

----------------------------------------------------------------------------
(* A cycle of commands leaves nothing behind.  Where no command is killed and *)
(* no manager flushes rules, the system is calm whenever nobody holds the     *)
(* lock: without a record there are no rules and no data directory, and a     *)
(* record covers all there is.  In between, each stage knows what is left.    *)

Bare == \A x \in AllRules : fw[x] = 0

(* Every rule in force is one of backend b. *)
Only(b) == \A x \in AllRules : fw[x] # 0 => x \in Rules(b)

(* A session whose dump holds none of torshim's rules. *)
Clean(s) == \A x \in AllRules : s.dump[x] = 0

Calm ==
  /\ rec # Corrupt
  /\ rec = NoRec => Bare /\ dirs = {}
  /\ IsSession(rec) =>
       /\ Clean(rec)
       /\ dirs \subseteq {rec.tor}
       /\ \/ Bare /\ rec.tor \notin alive
          \/ Present(rec.be) /\ Only(rec.be)

(* What a stage knows of the rules and directories that are left: before and
   after a session, while one is made or at hand, and while one is undone. *)
Outside(at, l) ==
  /\ at \in {"load", "reload", "inspect", "assess", "exit"} => Calm
  /\ at \in {"sweep", "reconcile"} /\ l.goal \notin Drops => Calm
  /\ at \in {"port", "snapshot", "spawn", "restore", "clear", "check"} =>
       Bare /\ dirs = {}
  /\ at = "check" => rec = NoRec

Inside(at, l) ==
  /\ at \in Launched \cup {"stop", "restore"} => Clean(l.sess)
  /\ at \in {"await", "truncate", "save"} => Bare
  /\ at \in {"apply", "verify", "stop", "wipe"} => Only(l.sess.be)
  /\ at \in {"await", "truncate", "save", "apply", "verify", "stop", "wipe"} =>
       dirs \subseteq {l.sess.tor}

Dropping(at, l) ==
  /\ at = "remove" => \A x \in AllRules : fw[x] # 0 => x \in l.todo
  /\ at = "remove" /\ l.goal \in Teardowns => dirs = {}
  /\ at \in {"wipe", "remove"} /\ l.goal \in Teardowns => Clean(l.sess)
  /\ at \in {"sweep", "remove", "reconcile"} /\ l.goal \in Drops =>
       dirs \subseteq {l.sess.tor}
  /\ at \in {"wipe", "reconcile"} /\ l.goal \in Drops => Bare
  /\ at \in {"sweep", "reconcile"} /\ l.goal = "gone" =>
       Bare /\ l.sess.tor \notin alive
  /\ at = "sweep" /\ l.goal = "stale" =>
       \/ Bare
       \/ Present(l.sess.be) /\ Only(l.sess.be) /\ l.sess.be \in l.sweep

Neat(at, l) == Outside(at, l) /\ Inside(at, l) /\ Dropping(at, l)

Tidy ==
  /\ lock = NoProc => Calm
  /\ \A p \in Procs : Neat(pc[p], op[p])

LEMMA InitTidy == Init => Tidy
BY SessionAssumption
DEF Init, Tidy, Calm, Bare, IsSession, Neat, Outside, Inside, Dropping, Launched

LEMMA IdleNeat ==
  ASSUME NEW at \in {"idle", "queued"}, NEW l
  PROVE  Neat(at, l) /\ Neat(at, l)'
BY DEF Neat, Outside, Inside, Dropping, Launched

(* What is calm stays so when nothing but a dying tor changes, and so does all
   that a stage knows. *)
LEMMA CalmStays ==
  ASSUME UNCHANGED <<rec, fw, dirs>>, alive' \subseteq alive
  PROVE  /\ Calm => Calm'
         /\ \A p \in Procs : Neat(pc'[p], op'[p]) => Neat(pc[p], op[p])'
<1>1. Calm => Calm'
  BY DEF Calm, Bare, Only, Present, Clean, IsSession
<1>2. ASSUME NEW p \in Procs, Neat(pc'[p], op'[p]) PROVE Neat(pc[p], op[p])'
  <2>a. Outside(pc[p], op[p])'
    BY <1>1, <1>2 DEF Neat, Outside, Bare
  <2>b. Inside(pc[p], op[p])'
    BY <1>2 DEF Neat, Inside, Bare, Only, Clean
  <2>c. Dropping(pc[p], op[p])'
    BY <1>2 DEF Neat, Dropping, Bare, Only, Clean, Present
  <2> QED
    BY <2>a, <2>b, <2>c DEF Neat
<1> QED
  BY <1>1, <1>2

(* A step of the holder of the lock has only its own stage to account for. *)
LEMMA NeatAlone ==
  ASSUME Journaled, NEW p \in Procs, Active(p) \/ lock = NoProc,
         \A q \in Procs \ {p} : pc'[q] = pc[q] /\ op'[q] = op[q],
         Neat(pc[p], op[p])', lock' = NoProc => Calm'
  PROVE  Tidy'
<1>1. ASSUME NEW q \in Procs \ {p} PROVE Neat(pc[q], op[q])'
  <2>a. pc'[q] \in {"idle", "queued"}
    BY HolderAlone DEF Alone, Active
  <2> QED
    BY <2>a DEF Neat, Outside, Inside, Dropping, Launched
<1> QED
  BY <1>1 DEF Tidy

LEMMA NextTidy ==
  ASSUME "crash" \notin Env, "flush" \notin Env,
         Typed, Typed', Journaled, Silenced, Tidy, [Next]_vars, faults' = 0
  PROVE  Tidy'
<1> USE DEF At, Goto, Report, SetTodo, Acquire, torVars
<1>a. \A p \in Procs :
        /\ Neat(pc[p], op[p])
        /\ Recorded(pc[p], op[p]) /\ Undone(pc[p], op[p]) /\ Spared(pc[p], op[p])
  BY DEF Tidy, Silenced, Journaled, Sure
<1>b. /\ pc \in [Procs -> Steps] /\ op \in [Procs -> Locals]
      /\ \A p \in Procs : Fits(pc[p], op[p])
  BY DEF Typed, TypeOK, Shaped
<1>c. lock = NoProc => Calm
  BY DEF Tidy
<1>d. \A p \in Procs : Active(p) => lock = p /\ lock # NoProc
  BY SessionAssumption DEF Journaled, Exclusive
<1>e. rec \in Session \cup {NoRec, Corrupt} /\ \A r \in Session : IsSession(r)
  BY RecordAssumption DEF Typed, TypeOK, IsSession
(* Steps of the holder of the lock, and those that leave everything as it is. *)
<1>k. ASSUME NEW p \in Procs, Progress(p), Active(p), lock' = lock, Neat(pc[p], op[p])'
      PROVE  Tidy'
  BY <1>k, <1>d, OwnStep, NeatAlone
<1>q. ASSUME NEW p \in Procs, Progress(p), Active(p), lock' = lock,
             UNCHANGED <<rec, fw, dirs>>, alive' \subseteq alive, Neat(pc'[p], op'[p])
      PROVE  Tidy'
  BY <1>q, <1>k, CalmStays
<1>0. ASSUME NEW p \in Procs, BeginDisconnect(p) \/ LockTimeout(p) PROVE Tidy'
  <2>a. /\ UNCHANGED <<lock, rec, fw, dirs, alive>> /\ pc'[p] \in {"idle", "queued"}
        /\ \A q \in Procs \ {p} : pc'[q] = pc[q] /\ op'[q] = op[q]
    BY <1>0, <1>b DEF BeginDisconnect, LockTimeout
  <2>b. \A q \in Procs : Neat(pc'[q], op'[q])
    BY <1>a, <2>a, IdleNeat
  <2> QED
    BY <1>c, <2>a, <2>b, CalmStays DEF Tidy
<1>1. ASSUME NEW p \in Procs,
             \/ \E b \in Backends, force \in BOOLEAN : BeginConnect(p, b, force)
             \/ BeginRepair(p) \/ LockDisconnect(p)
      PROVE  Tidy'
  <2>a. /\ pc'[p] \in {"load", "inspect", "reload"} /\ UNCHANGED <<rec, fw, dirs, alive>>
        /\ lock = NoProc /\ lock' # NoProc
    BY <1>1, <1>b, SessionAssumption DEF BeginConnect, BeginRepair, LockDisconnect
  <2>b. Neat(pc'[p], op'[p])
    BY <1>c, <2>a DEF Neat, Outside, Inside, Dropping, Launched
  <2>c. Start(p) \/ Progress(p)
    BY <1>1 DEF Start, Progress, DisconnectStep
  <2> QED
    BY <2>a, <2>b, <2>c, OwnStep, CalmStays, NeatAlone
<1>2. ASSUME NEW p \in Procs, ConnectStep(p) PROVE Tidy'
  <2> USE DEF Neat, Outside, Inside, Dropping, Launched
  <2>z. Progress(p) /\ Active(p) /\ lock' = lock
    BY <1>2
    DEF Progress, Active, ConnectStep, ConnectFresh, ConnectAlready, ConnectRefuses,
        ConnectForces, CheckPort, Snapshot, SnapshotFails, SpawnTor, TorReady,
        LaunchFails, TruncateRecord, WriteRecord, ApplyRule, Applied, VerifyPasses,
        BeginRollback
  <2>a. ASSUME ConnectFresh(p) PROVE Tidy'
    <3>1. Neat(pc'[p], op'[p])
      BY <2>a, <1>a, <1>b DEF ConnectFresh, Calm
    <3> QED
      BY <2>z, <2>a, <1>q, <3>1 DEF ConnectFresh
  <2>b. ASSUME ConnectAlready(p) \/ ConnectRefuses(p) PROVE Tidy'
    <3>1. Neat(pc'[p], op'[p])
      BY <2>b, <1>a, <1>b DEF ConnectAlready, ConnectRefuses
    <3> QED
      BY <2>z, <2>b, <1>q, <3>1 DEF ConnectAlready, ConnectRefuses
  <2>c. ASSUME ConnectForces(p) PROVE Tidy'
    <3>1. pc'[p] = "stop" /\ op'[p].sess = rec /\ IsSession(rec) /\ Calm
      BY <2>c, <1>a, <1>b DEF ConnectForces, Locals
    <3>2. Neat(pc'[p], op'[p])
      BY <3>1 DEF Calm, Bare, Only
    <3> QED
      BY <2>z, <2>c, <1>q, <3>2 DEF ConnectForces
  <2>d. ASSUME CheckPort(p) PROVE Tidy'
    <3>1. rec = NoRec /\ Bare /\ dirs = {} /\ pc'[p] \in {"snapshot", "exit"}
      BY <2>d, <1>a, <1>b DEF CheckPort, Recorded
    <3>2. Neat(pc'[p], op'[p])
      BY <3>1, RecordAssumption, SessionAssumption DEF Calm, IsSession
    <3> QED
      BY <2>z, <2>d, <1>q, <3>2 DEF CheckPort
  <2>e. ASSUME Snapshot(p) PROVE Tidy'
    <3>1. Bare /\ dirs = {} /\ pc'[p] = "spawn" /\ op'[p].sess.dump = DumpOf(op[p].be)
      BY <2>e, <1>a, <1>b DEF Snapshot, Locals
    <3>2. Neat(pc'[p], op'[p])
      BY <3>1 DEF Clean, DumpOf, Bare
    <3> QED
      BY <2>z, <2>e, <1>q, <3>2 DEF Snapshot
  <2>f. ~SnapshotFails(p)
    BY NoFaults DEF SnapshotFails
  <2>g. ASSUME SpawnTor(p) PROVE Tidy'
    <3>1. /\ pc[p] = "spawn" /\ op[p].sess \in Session
          /\ Clean(op[p].sess) /\ Bare /\ dirs = {}
      BY <2>g, <1>a, <1>b DEF SpawnTor, Fits
    <3>2. /\ pc'[p] = "await" /\ dirs' = {spawned + 1}
          /\ op'[p].sess = [op[p].sess EXCEPT !.tor = spawned + 1]
          /\ fw' = fw
      BY <2>g, <1>b, <3>1 DEF SpawnTor, Locals
    <3>3. op'[p].sess.tor = spawned + 1 /\ op'[p].sess.dump = op[p].sess.dump
      BY <3>1, <3>2 DEF Session
    <3>4. Neat(pc[p], op[p])'
      BY <3>1, <3>2, <3>3 DEF Clean, Bare
    <3> QED
      BY <2>z, <1>k, <3>4
  <2>h. ASSUME TorReady(p) PROVE Tidy'
    <3>1. Neat(pc'[p], op'[p])
      BY <2>h, <1>a, <1>b DEF TorReady
    <3> QED
      BY <2>z, <2>h, <1>q, <3>1 DEF TorReady
  <2>i. ASSUME LaunchFails(p) PROVE Tidy'
    <3>1. /\ rec = NoRec /\ Bare /\ dirs' = {} /\ pc'[p] = "exit"
          /\ rec' = rec /\ fw' = fw
      BY <2>i, <1>a, <1>b DEF LaunchFails, Recorded
    <3>2. Neat(pc[p], op[p])'
      BY <3>1, RecordAssumption, SessionAssumption DEF Calm, IsSession, Bare
    <3> QED
      BY <2>z, <1>k, <3>2
  <2>j.  ASSUME TruncateRecord(p) \/ WriteRecord(p) PROVE Tidy'
    <3>1. /\ pc[p] \in {"truncate", "save"} /\ pc'[p] \in {"save", "apply"}
          /\ op'[p].sess = op[p].sess /\ fw' = fw /\ dirs' = dirs
      BY <2>j, <1>b DEF TruncateRecord, WriteRecord, Locals
    <3>2. Neat(pc[p], op[p])'
      BY <1>a, <3>1 DEF Bare, Only, Clean
    <3> QED
      BY <2>z, <1>k, <3>2
  <2>k.  ASSUME ApplyRule(p) PROVE Tidy'
    <3>1. PICK x \in op[p].todo :
            /\ \A y \in AllRules \ {x} : fw'[y] = fw[y]
            /\ op' = [op EXCEPT ![p].todo = op[p].todo \ {x}]
      BY <2>k, NoFaults DEF ApplyRule, First, Typed, TypeOK, Firewall
    <3>2. /\ pc[p] = "apply" /\ pc' = pc /\ dirs' = dirs /\ op'[p].sess = op[p].sess
          /\ op[p].sess.be = op[p].be
      BY <2>k, <1>b, <3>1 DEF ApplyRule, Locals, Fits
    <3>3. x \in Rules(op[p].sess.be)
      BY <1>a, <3>2 DEF Recorded
    <3>4. Neat(pc[p], op[p])'
      BY <1>a, <3>1, <3>2, <3>3 DEF Only, Clean
    <3> QED
      BY <2>z, <1>k, <3>4
  <2>l.  ASSUME Applied(p) \/ BeginRollback(p) PROVE Tidy'
    <3>1. /\ pc[p] \in {"apply", "verify"} /\ pc'[p] \in {"verify", "stop"}
          /\ op'[p].sess = op[p].sess
      BY <2>l, <1>b, NoFaults DEF Applied, BeginRollback, Locals
    <3>2. Neat(pc'[p], op'[p])
      BY <1>a, <3>1
    <3> QED
      BY <2>z, <2>l, <1>q, <3>2 DEF Applied, BeginRollback
  <2>m.  ASSUME VerifyPasses(p) PROVE Tidy'
    <3>1. /\ rec = op[p].sess /\ op[p].sess \in Session /\ Present(rec.be)
          /\ Clean(rec) /\ Only(rec.be) /\ dirs \subseteq {rec.tor} /\ pc'[p] = "exit"
      BY <2>m, <1>a, <1>b, NoFaults DEF VerifyPasses, Recorded, Fits
    <3>2. Neat(pc'[p], op'[p])
      BY <1>e, <3>1, RecordAssumption DEF Calm
    <3> QED
      BY <2>z, <2>m, <1>q, <3>2 DEF VerifyPasses
  <2> QED
    BY <1>2, <2>a, <2>b, <2>c, <2>d, <2>e, <2>f, <2>g, <2>h, <2>i, <2>j, <2>k,
       <2>l, <2>m DEF ConnectStep
<1>3. ASSUME NEW p \in Procs, TeardownStep(p) PROVE Tidy'
  <2> USE DEF Neat, Outside, Inside, Dropping, Launched
  <2>z. Progress(p) /\ Active(p) /\ lock' = lock
    BY <1>3
    DEF Progress, Active, TeardownStep, StopTor, WipeDataDir, RemoveRule, Removed,
        Restore, RestoreFails, ClearRecord, CheckClean
  <2>a. ASSUME StopTor(p) PROVE Tidy'
    <3>1. Neat(pc'[p], op'[p])
      BY <2>a, <1>a, <1>b DEF StopTor, Fits, Teardowns, Drops
    <3> QED
      BY <2>z, <2>a, <1>q, <3>1 DEF StopTor
  <2>b. ASSUME WipeDataDir(p) PROVE Tidy'
    <3>1. /\ pc[p] = "wipe" /\ fw' = fw /\ dirs' = {}
          /\ op'[p].sess = op[p].sess /\ op'[p].goal = op[p].goal
          /\ IF op[p].goal \in Drops THEN pc'[p] = "clear"
             ELSE pc'[p] = "remove" /\ op'[p].todo = Rules(op[p].sess.be)
      BY <2>b, <1>a, <1>b DEF WipeDataDir, Locals, Drops
    <3>2. Neat(pc[p], op[p])'
      BY <1>a, <1>b, <3>1 DEF Bare, Only, Clean, Fits
    <3> QED
      BY <2>z, <1>k, <3>2
  <2>c. ASSUME RemoveRule(p) PROVE Tidy'
    <3>1. PICK x \in AllRules :
            /\ fw' = [fw EXCEPT ![x] = 0]
            /\ op' = [op EXCEPT ![p].todo = op[p].todo \ {x}]
      BY <2>c, NoFaults DEF RemoveRule
    <3>2. /\ pc[p] = "remove" /\ pc' = pc /\ dirs' = dirs
          /\ op'[p].sess = op[p].sess /\ op'[p].goal = op[p].goal
          /\ op'[p].todo = op[p].todo \ {x}
      BY <2>c, <1>b, <3>1 DEF RemoveRule, Locals
    <3>3. fw'[x] = 0 /\ \A y \in AllRules \ {x} : fw'[y] = fw[y]
      BY <3>1 DEF Typed, TypeOK, Firewall
    <3>4. Neat(pc[p], op[p])'
      BY <1>a, <3>2, <3>3 DEF Clean
    <3> QED
      BY <2>z, <1>k, <3>4
  <2>d. ASSUME Removed(p) PROVE Tidy'
    <3>1. /\ pc[p] = "remove" /\ op' = op /\ Bare
          /\ op[p].goal \in Teardowns \cup {"stale"}
          /\ pc'[p] = AfterRemove(op[p].goal)
      BY <2>d, <1>a, <1>b DEF Removed, Spared, Bare
    <3>2. Neat(pc'[p], op'[p])
      BY <1>a, <3>1 DEF AfterRemove, Teardowns, Drops
    <3> QED
      BY <2>z, <2>d, <1>q, <3>2 DEF Removed
  <2>e. ASSUME Restore(p) PROVE Tidy'
    <3>1. /\ pc[p] = "restore" /\ Bare /\ dirs = {} /\ Clean(op[p].sess)
          /\ pc'[p] = "clear" /\ dirs' = dirs
      BY <2>e, <1>a, <1>b DEF Restore
    <3>2. Bare'
      BY <2>e, <3>1 DEF Restore, Bare, Clean
    <3>3. Neat(pc[p], op[p])'
      BY <3>1, <3>2
    <3> QED
      BY <2>z, <1>k, <3>3
  <2>f. ASSUME RestoreFails(p) PROVE Tidy'
    <3>1. /\ pc[p] = "restore" /\ pc'[p] = "exit" /\ op[p].goal = "disconnect"
          /\ op[p].sess \in Session
      BY <2>f, <1>b DEF RestoreFails, Fits, Teardowns
    <3>2. /\ rec = op[p].sess /\ op[p].sess.tor \notin alive /\ Bare
          /\ Clean(op[p].sess) /\ dirs = {}
      BY <1>a, <3>1 DEF Recorded, Spared, Undoing, Past, Teardowns
    <3>3. Neat(pc'[p], op'[p])
      BY <1>e, <3>1, <3>2, RecordAssumption DEF Calm
    <3> QED
      BY <2>z, <2>f, <1>q, <3>3, NoFaults DEF RestoreFails
  <2>g. ASSUME ClearRecord(p) PROVE Tidy'
    <3>1. /\ pc[p] = "clear" /\ Bare /\ dirs = {} /\ rec' = NoRec /\ fw' = fw
          /\ dirs' = dirs /\ pc'[p] \in {"port", "check", "exit"}
      BY <2>g, <1>a, <1>b DEF ClearRecord
    <3>2. Neat(pc[p], op[p])'
      BY <3>1, SessionAssumption DEF Calm, Bare, IsSession
    <3> QED
      BY <2>z, <1>k, <3>2
  <2>h. ASSUME CheckClean(p) PROVE Tidy'
    <3>1. /\ pc[p] = "check" /\ Bare /\ dirs = {} /\ rec = NoRec /\ pc'[p] = "exit"
      BY <2>h, <1>a, <1>b DEF CheckClean
    <3>2. Neat(pc'[p], op'[p])
      BY <3>1, SessionAssumption DEF Calm, IsSession
    <3> QED
      BY <2>z, <2>h, <1>q, <3>2 DEF CheckClean
  <2> QED
    BY <1>3, <2>a, <2>b, <2>c, <2>d, <2>e, <2>f, <2>g, <2>h DEF TeardownStep
<1>4. ASSUME NEW p \in Procs, ReloadGone(p) \/ ReloadSession(p) PROVE Tidy'
  <2>z. /\ Progress(p) /\ Active(p) /\ lock' = lock
        /\ UNCHANGED <<rec, fw, dirs, alive>> /\ Calm
    BY <1>4, <1>a
    DEF Progress, Active, DisconnectStep, ReloadGone, ReloadSession, Neat, Outside
  <2>a. \/ pc'[p] = "exit"
        \/ pc'[p] = "stop" /\ IsSession(rec) /\ op'[p].sess = rec
    BY <1>4, <1>b DEF ReloadGone, ReloadSession, NoOp
  <2>b. Neat(pc'[p], op'[p])
    BY <2>z, <2>a
    DEF Neat, Outside, Inside, Dropping, Launched, Calm, Bare, Only
  <2> QED
    BY <1>q, <2>z, <2>b
<1>5. ASSUME NEW p \in Procs, RepairStep(p) PROVE Tidy'
  <2> USE DEF Neat, Outside, Inside, Dropping, Launched
  <2>z. /\ Progress(p) /\ Active(p) /\ lock' = lock /\ UNCHANGED <<fw, dirs, alive>>
    BY <1>5
    DEF Progress, Active, RepairStep, InspectNoSession, InspectHealthy,
        InspectUnhealthy, Assess, SweepBackend, Swept, Reconcile
  <2>a. ASSUME InspectNoSession(p) \/ InspectHealthy(p) PROVE Tidy'
    <3>0. \E goal \in {"corrupt", "bare", "stray"} : \E swept : SweepFor(p, goal, swept)
      BY <2>a DEF InspectNoSession, InspectHealthy
    <3>1. pc'[p] = "sweep" /\ op'[p].goal \in {"corrupt", "bare", "stray"}
      BY <3>0, <1>b DEF SweepFor, NoOp
    <3>3. Calm
      BY <2>a, <1>a DEF InspectNoSession, InspectHealthy
    <3>2. Neat(pc'[p], op'[p])
      BY <3>1, <3>3 DEF Drops
    <3> QED
      BY <2>z, <2>a, <1>q, <3>2 DEF InspectNoSession, InspectHealthy
  <2>b. ASSUME InspectUnhealthy(p) PROVE Tidy'
    <3>1. Calm /\ pc'[p] = "assess"
      BY <2>b, <1>a, <1>b DEF InspectUnhealthy
    <3>2. Neat(pc'[p], op'[p])
      BY <3>1
    <3> QED
      BY <2>z, <2>b, <1>q, <3>2 DEF InspectUnhealthy
  <2>c. ASSUME Assess(p) PROVE Tidy'
    <3>1. /\ pc[p] = "assess" /\ pc'[p] = "sweep" /\ rec' = rec
          /\ op'[p].goal = IF Present(op[p].sess.be) THEN "stale" ELSE "gone"
          /\ op'[p].sess = op[p].sess /\ op'[p].sweep = Backends
      BY <2>c, <1>b, NoFaults DEF Assess, Locals
    <3>2. /\ op[p].goal = "unhealthy" /\ op[p].sess \in Session
          /\ op[p].sess.be \in Backends
      BY <1>b, <3>1 DEF Fits, Session
    <3>3. rec = op[p].sess /\ IsSession(rec) /\ Calm
      BY <1>a, <1>e, <3>1, <3>2 DEF Recorded, Undoing
    <3>4. Neat(pc'[p], op'[p])
      BY <3>1, <3>2, <3>3 DEF Calm, Drops
    <3> QED
      BY <2>z, <1>q, <3>1, <3>4
  <2>d. ASSUME SweepBackend(p) PROVE Tidy'
    <3>1. PICK b \in op[p].sweep :
            /\ pc'[p] = IF Present(b) THEN "remove" ELSE "sweep"
            /\ op'[p].goal = op[p].goal /\ op'[p].sess = op[p].sess
            /\ op'[p].sweep = op[p].sweep \ {b}
            /\ op'[p].todo = IF Present(b) THEN Rules(b) ELSE {}
      BY <2>d, <1>b, NoFaults DEF SweepBackend, Locals
    <3>2. /\ pc[p] = "sweep" /\ rec' = rec /\ b \in Backends
          /\ op[p].goal \in Sweeps
      BY <2>d, <1>b DEF SweepBackend, Locals, Fits
    <3>3. CASE Present(b)
      <4>1. Spared("remove", op'[p])
        <5>1. Silenced'
          BY NextSilenced
        <5> QED
          BY <5>1, <3>1, <3>2, <3>3, <2>z DEF Silenced, Spared, Past, Undoing
      <4>2. op[p].goal = "stale" /\ b = op[p].sess.be
        <5>1. op[p].goal = "stale"
          BY <3>1, <3>2, <4>1 DEF Spared, Sweeps, Teardowns
        <5>2. rec = op[p].sess
          BY <1>a, <3>2, <5>1 DEF Recorded, Undoing, Drops
        <5> QED
          BY <3>2, <3>3, <5>1, <5>2 DEF Journaled, PresentHasRecord
      <4>3. ~Bare
        BY <3>2, <3>3, RulesTyped, ProbedTyped DEF Bare, Present
      <4>4. Only(b) /\ dirs \subseteq {op[p].sess.tor}
        BY <1>a, <3>2, <4>2, <4>3 DEF Drops
      <4>5. Neat(pc'[p], op'[p])
        BY <3>1, <3>3, <4>2, <4>4 DEF Only, Teardowns
      <4> QED
        BY <2>z, <1>q, <3>2, <4>5
    <3>4. CASE ~Present(b)
      <4>1. Neat(pc'[p], op'[p])
        BY <1>a, <3>1, <3>2, <3>4
      <4> QED
        BY <2>z, <1>q, <3>2, <4>1
    <3> QED
      BY <3>3, <3>4
  <2>e. ASSUME Swept(p) PROVE Tidy'
    <3>1. /\ pc[p] = "sweep" /\ pc'[p] = "reconcile" /\ op' = op /\ rec' = rec
          /\ op[p].sweep = {}
      BY <2>e, <1>b DEF Swept
    <3>2. Neat(pc'[p], op'[p])
      BY <1>a, <3>1 DEF Drops
    <3> QED
      BY <2>z, <1>q, <3>1, <3>2
  <2>f. ASSUME Reconcile(p) PROVE Tidy'
    <3>1. pc[p] = "reconcile" /\ op' = op /\ op[p].goal \in Sweeps
      BY <2>f, <1>b DEF Reconcile, Fits
    <3>2. CASE op[p].goal \in Drops
      <4>1. op[p].sess.tor \notin alive
        BY <1>a, <3>1, <3>2 DEF Spared, Past, Undoing, Drops
      <4>2. pc'[p] = "wipe" /\ rec' = rec
        BY <2>f, <1>b, <3>1, <3>2, <4>1 DEF Reconcile, Drops
      <4>3. Neat(pc'[p], op'[p])
        BY <1>a, <3>1, <3>2, <4>2 DEF Bare, Only, Drops, Teardowns
      <4> QED
        BY <2>z, <1>q, <4>2, <4>3
    <3>3. CASE op[p].goal \notin Drops
      <4>1. Calm /\ op[p].goal # "corrupt"
        BY <1>a, <3>1, <3>3 DEF Recorded, Undoing, Calm
      <4>2. pc'[p] = "exit" /\ rec' = rec
        BY <2>f, <1>b, <3>1, <3>3, <4>1 DEF Reconcile, Drops, Sweeps
      <4>3. Neat(pc'[p], op'[p])
        BY <4>1, <4>2
      <4> QED
        BY <2>z, <1>q, <4>2, <4>3
    <3> QED
      BY <3>2, <3>3
  <2> QED
    BY <1>5, <2>a, <2>b, <2>c, <2>d, <2>e, <2>f DEF RepairStep
<1>6. ASSUME NEW p \in Procs, Exit(p) PROVE Tidy'
  <2>a. /\ Progress(p) /\ Active(p) /\ pc'[p] = "idle" /\ Calm
        /\ UNCHANGED <<rec, fw, dirs, alive>>
    BY <1>6, <1>a, <1>b DEF Exit, Progress, Active, Neat, Outside
  <2> QED
    BY <2>a, IdleNeat, OwnStep, CalmStays, NeatAlone
<1>7. ASSUME Environment PROVE Tidy'
  <2>a. CASE Reboot
    BY <2>a, SessionAssumption
    DEF Reboot, Tidy, Calm, Bare, IsSession, Neat, Outside, Inside, Dropping, Launched
  <2>b. CASE ~Reboot
    <3>1. UNCHANGED <<lock, pc, op, rec, fw, dirs>> /\ alive' \subseteq alive
      BY <1>7, <2>b DEF Environment, OwnedTorExits, TorCrashes, ManagerFlushes
    <3> QED
      BY <1>a, <1>c, <3>1, CalmStays DEF Tidy
  <2> QED
    BY <2>a, <2>b
<1>8. ASSUME UNCHANGED vars PROVE Tidy'
  BY <1>8, <1>a, <1>c, CalmStays DEF vars, Tidy
<1> QED
  BY <1>0, <1>1, <1>2, <1>3, <1>4, <1>5, <1>6, <1>7, <1>8
  DEF Next, Start, Progress, DisconnectStep, Crash

LEMMA TidyAlways ==
  ASSUME MaxFaults = 0, "crash" \notin Env, "flush" \notin Env
  PROVE  Spec => [](Typed /\ Journaled /\ Silenced /\ Tidy)
<1>1. Typed /\ Typed' /\ Journaled /\ Silenced /\ Tidy /\ [Next]_vars => Tidy'
  BY NextTidy DEF Typed, TypeOK
<1> QED
  BY <1>1, InitTidy, TypedAlways, SilencedAlways, PTL DEF Spec

(* Where no command is killed, no manager flushes rules and no firewall command
   fails, every data directory between two commands is the recorded session's:
   connect, rollback, disconnect, --force and repair remove theirs or keep it
   with the record (connect.go:323), also when tors die and hosts reboot. *)
THEOREM CyclesLeaveNoTrace ==
  ASSUME MaxFaults = 0, "crash" \notin Env, "flush" \notin Env
  PROVE  Spec => []NoTraceWithoutRecord
<1>1. Tidy => NoTraceWithoutRecord
  BY DEF Tidy, Calm, NoTraceWithoutRecord, IsSession
<1> QED
  BY <1>1, TidyAlways, PTL

(* Under the same conditions a disconnect that says so has left no rule of any
   backend, and not only none that its post-verify looks for: all that Ensure
   installed is removed, and the dump that is replayed holds nothing of it. *)
THEOREM DisconnectCleans ==
  ASSUME MaxFaults = 0, "crash" \notin Env, "flush" \notin Env
  PROVE  Spec => DisconnectIsClean
<1>1. Tidy /\ [Next]_vars
        => [\A p \in Procs :
              CheckClean(p) /\ told' = "disconnected" => \A x \in AllRules : fw[x] = 0]_vars
  BY DEF Tidy, CheckClean, At, Neat, Outside, Bare
<1> QED
  BY <1>1, TidyAlways, PTL DEF Spec, DisconnectIsClean

(* Under the same conditions a disconnect whose blank dump is refused has stopped
   its tor, taken the data directory and every rule away and kept the record:
   "rules removed, backup at" (connect.go:576) is true of both backends. *)
THEOREM RefusalsAreTidy ==
  ASSUME MaxFaults = 0, "crash" \notin Env, "flush" \notin Env
  PROVE  Spec => RefusalIsTidy
<1>1. ASSUME Typed, Journaled, Silenced, Tidy, NEW p \in Procs, RestoreFails(p)
      PROVE  /\ op[p].sess.tor \notin alive
             /\ op[p].sess.tor \notin dirs
             /\ \A x \in Rules(op[p].sess.be) : fw[x] = 0
             /\ rec = op[p].sess
  <2>a. pc[p] = "restore" /\ op[p].goal = "disconnect" /\ op[p].sess \in Session
    BY <1>1 DEF RestoreFails, At, Typed, Shaped, Fits, Teardowns
  <2>b. rec = op[p].sess /\ op[p].sess.tor \notin alive /\ Bare /\ dirs = {}
    BY <1>1, <2>a
    DEF Journaled, Sure, Recorded, Silenced, Spared, Tidy, Neat, Outside, Undoing, Past,
        Teardowns
  <2>c. Rules(op[p].sess.be) \subseteq AllRules
    BY <2>a DEF Session, AllRules
  <2> QED
    BY <2>b, <2>c DEF Bare
<1>2. Typed /\ Journaled /\ Silenced /\ Tidy /\ [Next]_vars
        => [\A p \in Procs :
              RestoreFails(p) /\ faults' = 0 =>
                /\ op[p].sess.tor \notin alive
                /\ op[p].sess.tor \notin dirs
                /\ \A x \in Rules(op[p].sess.be) : fw[x] = 0
                /\ rec = op[p].sess]_vars
  BY <1>1
<1> QED
  BY <1>2, TidyAlways, PTL DEF Spec, RefusalIsTidy

----------------------------------------------------------------------------
(* The lock.  Unlike the rest this holds whatever fails.                      *)

LEMMA LockStep ==
  ASSUME Typed, Exclusive, NEW p \in Procs, Start(p) \/ Progress(p) \/ Crash(p)
  PROVE  \/ lock' = lock /\ (Active(p)' <=> Active(p))
         \/ lock = NoProc /\ lock' = p /\ Active(p)'
         \/ lock = p /\ lock' = NoProc /\ ~Active(p)'
<1> USE DEF Typed, TypeOK, At, Goto, Report, SetTodo, Acquire, Active, Exclusive
<1>1. CASE Start(p) \/ DisconnectStep(p)
  BY <1>1
  DEF Start, BeginConnect, BeginDisconnect, BeginRepair, DisconnectStep,
      LockDisconnect, LockTimeout, ReloadGone, ReloadSession
<1>2. CASE ConnectStep(p)
  BY <1>2
  DEF ConnectStep, ConnectFresh, ConnectAlready, ConnectRefuses, ConnectForces,
      CheckPort, Snapshot, SnapshotFails, SpawnTor, TorReady, LaunchFails,
      TruncateRecord, WriteRecord, ApplyRule, Applied, VerifyPasses, BeginRollback
<1>3. CASE TeardownStep(p)
  BY <1>3
  DEF TeardownStep, StopTor, WipeDataDir, RemoveRule, Removed, Restore, RestoreFails,
      ClearRecord, CheckClean, AfterRemove
<1>4. CASE RepairStep(p)
  BY <1>4
  DEF RepairStep, InspectNoSession, InspectHealthy, InspectUnhealthy, Assess,
      SweepBackend, Swept, Reconcile, SweepFor
<1>5. CASE Exit(p) \/ Crash(p)
  BY <1>5 DEF Exit, Crash
<1> QED
  BY <1>1, <1>2, <1>3, <1>4, <1>5 DEF Progress

LEMMA NextExclusive == Typed /\ Exclusive /\ [Next]_vars => Exclusive'
<1> SUFFICES ASSUME Typed, Exclusive, [Next]_vars PROVE Exclusive'
  OBVIOUS
<1>1. ASSUME NEW p \in Procs, Start(p) \/ Progress(p) \/ Crash(p) PROVE Exclusive'
  <2>a. \A q \in Procs \ {p} : Active(q)' <=> Active(q)
    BY <1>1, OwnStep DEF Active
  <2> QED
    BY <1>1, <2>a, LockStep, SessionAssumption DEF Exclusive
<1>2. ASSUME Environment PROVE Exclusive'
  BY <1>2, SessionAssumption
  DEF Environment, OwnedTorExits, TorCrashes, ManagerFlushes, Reboot, Exclusive, Active
<1>3. ASSUME UNCHANGED vars PROVE Exclusive'
  BY <1>3 DEF vars, Exclusive, Active
<1> QED
  BY <1>1, <1>2, <1>3 DEF Next

(* A command that is past the lock holds it, whatever is killed, rebooted or
   fails: no two commands ever work on the session together.  The lock itself,
   which processes may rob each other of, is the subject of SessionLock. *)
LEMMA CommandsExclude == Spec => []Exclusive
<1>1. Init => Exclusive
  BY InitJournaled DEF Journaled
<1> QED
  BY <1>1, NextExclusive, TypedAlways, PTL DEF Spec

----------------------------------------------------------------------------
(* The capture belongs to the tor of its session.  With nft a leftover table  *)
(* is replaced in the transaction that loads the new one; only a failed delete *)
(* adds to it, and a leftover without a record takes another failure before.  *)

Aimed(at, l) ==
  /\ at = "verify" \/ (at = "apply" /\ l.todo = {}) => fw["table"] \in {0, l.sess.tor}
  /\ faults = 0 /\ at = "apply" /\ l.todo # {} => fw["table"] = 0

AllAimed == \A p \in Procs : Aimed(pc[p], op[p])

LEMMA NextAimed ==
  ASSUME MaxFaults \in {0, 1}, Backends = {"nft"},
         Typed, Exclusive, faults = 0 => Journaled, AllAimed, [Next]_vars
  PROVE  AllAimed'
<1> USE DEF At, Goto, Report, SetTodo, torVars
<1>a. /\ pc \in [Procs -> Steps] /\ op \in [Procs -> Locals]
      /\ \A p \in Procs : Fits(pc[p], op[p])
  BY DEF Typed, TypeOK, Shaped
<1>b. AllRules = {"table"} /\ fw \in Firewall /\ fw["table"] \in Nat
  BY SessionAssumption DEF AllRules, Rules, NftRules, Typed, TypeOK, Firewall
<1>c. faults' = 0 => faults = 0
  BY FaultsStay
<1>0. ASSUME NEW p \in Procs, Start(p) \/ Progress(p) \/ Crash(p), Aimed(pc[p], op[p])'
      PROVE  AllAimed'
  <2> SUFFICES ASSUME NEW q \in Procs \ {p} PROVE Aimed(pc[q], op[q])'
    BY <1>0 DEF AllAimed
  <2>a. CASE pc[q] \in {"apply", "verify"}
    <3>1. lock = q
      BY <2>a DEF Exclusive, Active
    <3>2. fw' = fw
      BY <1>0, <3>1, OwnStep, SessionAssumption DEF Exclusive
    <3> QED
      BY <1>0, <1>c, <3>2, OwnStep DEF AllAimed, Aimed
  <2>b. CASE pc[q] \notin {"apply", "verify"}
    BY <1>0, <2>b, OwnStep DEF Aimed
  <2> QED
    BY <2>a, <2>b
<1>1. ASSUME NEW p \in Procs, Start(p) \/ DisconnectStep(p) \/ Exit(p) \/ Crash(p)
      PROVE  pc'[p] \notin {"apply", "verify"}
  BY <1>1, <1>a
  DEF Start, BeginConnect, BeginDisconnect, BeginRepair, DisconnectStep,
      LockDisconnect, LockTimeout, ReloadGone, ReloadSession, Exit, Crash
<1>2. ASSUME NEW p \in Procs, TeardownStep(p) \/ RepairStep(p)
      PROVE  pc'[p] \notin {"apply", "verify"}
  BY <1>2, <1>a
  DEF TeardownStep, StopTor, WipeDataDir, RemoveRule, Removed, Restore, RestoreFails,
      ClearRecord, CheckClean, AfterRemove, RepairStep, InspectNoSession,
      InspectHealthy, InspectUnhealthy, Assess, SweepBackend, Swept, Reconcile, SweepFor
<1>3. ASSUME NEW p \in Procs, ConnectStep(p), ~WriteRecord(p), ~ApplyRule(p), ~Applied(p)
      PROVE  pc'[p] \notin {"apply", "verify"}
  BY <1>3, <1>a
  DEF ConnectStep, ConnectFresh, ConnectAlready, ConnectRefuses, ConnectForces,
      CheckPort, Snapshot, SnapshotFails, SpawnTor, TorReady, LaunchFails,
      TruncateRecord, VerifyPasses, BeginRollback
<1>4. ASSUME NEW p \in Procs, WriteRecord(p) PROVE Aimed(pc[p], op[p])'
  <2>a. /\ pc'[p] = "apply" /\ op'[p].todo = Rules(op[p].be) /\ fw' = fw
        /\ op[p].be \in Backends
    BY <1>4, <1>a DEF WriteRecord, Locals, Fits, ConnectStages
  <2>b. op'[p].todo = {"table"}
    BY <2>a DEF Rules, NftRules
  <2>c. faults' = 0 => rec = Corrupt /\ Journaled
    BY <1>4, <1>c DEF WriteRecord, Journaled, Sure, Recorded
  <2>d. faults' = 0 => ~Present("nft")
    BY <2>c, SessionAssumption DEF Journaled, PresentHasRecord, IsSession
  <2> QED
    BY <2>a, <2>b, <2>d DEF Aimed, Present, Probed, NftRules
<1>5. ASSUME NEW p \in Procs, ApplyRule(p) PROVE Aimed(pc[p], op[p])'
  <2>z. /\ pc[p] = "apply" /\ pc' = pc /\ "table" \in op[p].todo
        /\ op' = [op EXCEPT ![p].todo = op[p].todo \ {"table"}]
    BY <1>5, <1>b DEF ApplyRule, First
  <2>a. op[p].be = "nft" /\ op[p].todo = {"table"} /\ op' = [op EXCEPT ![p].todo = {}]
    <3>1. op[p].be = "nft"
      BY <1>a, <2>z DEF Fits, ConnectStages
    <3>2. op[p].todo \subseteq {"table"}
      BY <1>a, <1>b DEF Locals
    <3>3. op[p].todo = {"table"} /\ op[p].todo \ {"table"} = {}
      BY <2>z, <3>2
    <3> QED
      BY <2>z, <3>1, <3>3
  <2>b. op'[p].todo = {} /\ op'[p].sess = op[p].sess
    BY <1>a, <2>a DEF Locals
  <2>c. fw'["table"] = op[p].sess.tor
    <3>1. faults = 0 => fw["table"] = 0
      BY <2>z, <2>a DEF AllAimed, Aimed
    <3>2. Fault => faults = 0
      BY DEF Fault, Typed, TypeOK
    <3> QED
      BY <1>5, <1>b, <2>z, <2>a, <3>1, <3>2 DEF ApplyRule, First, Firewall
  <2> QED
    BY <2>z, <2>b, <2>c DEF Aimed
<1>6. ASSUME NEW p \in Procs, Applied(p) PROVE Aimed(pc[p], op[p])'
  <2>a. /\ pc[p] = "apply" /\ pc'[p] = "verify" /\ op' = op /\ fw' = fw
        /\ op[p].todo = {}
    BY <1>6, <1>a DEF Applied
  <2> QED
    BY <2>a DEF AllAimed, Aimed
<1>7. ASSUME Environment PROVE AllAimed'
  <2>a. CASE Reboot
    BY <2>a DEF Reboot, AllAimed, Aimed
  <2>b. CASE ~Reboot
    <3>1. UNCHANGED <<pc, op, faults>> /\ fw'["table"] \in {fw["table"], 0}
      BY <1>7, <1>b, <2>b DEF Environment, OwnedTorExits, TorCrashes, ManagerFlushes
    <3> QED
      BY <3>1 DEF AllAimed, Aimed
  <2> QED
    BY <2>a, <2>b
<1>8. ASSUME UNCHANGED vars PROVE AllAimed'
  BY <1>8 DEF vars, AllAimed, Aimed
<1>9. ASSUME NEW p \in Procs, pc'[p] \notin {"apply", "verify"}
      PROVE  Aimed(pc[p], op[p])'
  BY <1>9 DEF Aimed
<1> QED
  BY <1>0, <1>1, <1>2, <1>3, <1>4, <1>5, <1>6, <1>7, <1>8, <1>9 DEF Next, Progress

(* On a host with nft alone, a verified connect has its own tor behind the rule
   that captures DNS, through kills, flushes, dying tors, reboots and one failure
   of a firewall command or a write (connect.go:487; threat-model.md:63).  A
   second failure can leave an older tor's table in force. *)
THEOREM CaptureIsOwn ==
  ASSUME MaxFaults \in {0, 1}, Backends = {"nft"}
  PROVE  Spec => CaptureReachesOwnTor
<1>1. Init => AllAimed
  BY DEF Init, AllAimed, Aimed
<1>2. Typed /\ Exclusive /\ (faults = 0 => Journaled) /\ AllAimed /\ [Next]_vars
        => AllAimed'
  BY NextAimed
<1>3. ASSUME Typed, AllAimed, NEW p \in Procs, VerifyPasses(p)
      PROVE  fw[DnsRule(op[p].be)] = op[p].sess.tor
  <2>a. pc[p] = "verify" /\ Present(op[p].be) /\ Fits(pc[p], op[p])
    BY <1>3 DEF VerifyPasses, At, Observe, Typed, Shaped
  <2>b. op[p].be = "nft"
    BY <2>a DEF Fits, ConnectStages
  <2>c. fw["table"] # 0
    BY <2>a, <2>b DEF Present, Probed, NftRules
  <2> QED
    BY <1>3, <2>a, <2>b, <2>c DEF AllAimed, Aimed, DnsRule
<1>4. Typed /\ AllAimed /\ [Next]_vars
        => [\A p \in Procs :
              VerifyPasses(p) => fw[DnsRule(op[p].be)] = op[p].sess.tor]_vars
  BY <1>3
<1> QED
  BY <1>1, <1>2, <1>4, TypedAlways, CommandsExclude, JournaledUntilFault, PTL
  DEF Spec, CaptureReachesOwnTor

============================================================================
