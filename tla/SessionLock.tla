------------------------------ MODULE SessionLock ------------------------------
(******************************************************************************)
(* The session lock of torshim (src/tor-cli/internal/syswide/lock.go): an     *)
(* O_CREATE|O_EXCL file that the mutating commands connect, disconnect and    *)
(* repair take before they touch the firewall.                                *)
(*                                                                            *)
(* One step is one system call on the lock file: the creation and the write   *)
(* of the body are separate steps, and so are reading a lock and removing it, *)
(* because the code does nothing to join them.                                *)
(*                                                                            *)
(* Clocks are abstracted to what the code asks of them.  `aged` holds the     *)
(* locks whose timestamp is older than staleAfter, `expired` the waiters      *)
(* whose deadline has passed; both may become true at any moment.             *)
(******************************************************************************)
EXTENDS Naturals, FiniteSets

CONSTANTS
  Procs,     (* Process ids; a process id is used again by a later command.   *)
  MaxRuns,   (* Bound: commands started under each process id.                *)
  Clocks,    (* Which clocks may run out: "deadline", "stale".                *)
  NoFile     (* The lock file does not exist.                                 *)

ASSUME LockAssumption == MaxRuns \in Nat \ {0}

VARIABLES
  file,      (* The lock path: NoFile, or which command created it and        *)
             (* whether its body is written.                                  *)
  pc,        (* Where each process is in AcquireSessionLock or Release.       *)
  run,       (* How many commands each process id has started.                *)
  seen,      (* What readLock returned to each process.                       *)
  aged,      (* The locks whose timestamp is past staleAfter.                 *)
  expired,   (* The waiters whose deadline is past.                           *)
  stolen     (* History: locks that somebody else removed while their         *)
             (* creator still relied on them.                                 *)

vars == <<file, pc, run, seen, aged, expired, stolen>>

(* newLockToken: unique to one command, unlike the process id. *)
Token == [proc : Procs, run : 1..MaxRuns]

LockFile == [by : Token, full : BOOLEAN]

ASSUME NoFileAssumption == NoFile \notin LockFile

(* A slip to notice: a token that is the process id alone. *)
PidToken(p) == [proc |-> p, run |-> 0]

TokenOf(p) == [proc |-> p, run |-> run[p]]

Steps == {"idle", "create", "write", "held", "read", "judge", "reap", "unlink"}

Waiting == {"create", "read", "judge", "reap"}

(* isAlive(pid): answers for the process id, not for the command. *)
PidAlive(p) == pc[p] # "idle"

(* The command t created its lock and has not begun to drop it. *)
Relies(t) == TokenOf(t.proc) = t /\ pc[t.proc] \in {"write", "held"}

Goto(p, step) == pc' = [pc EXCEPT ![p] = step]

(* The lock read in one turn of the loop is not kept for the next. *)
Forget(p) == seen' = [seen EXCEPT ![p] = NoFile]

(* os.Remove(path): whatever is there goes, whoever wrote it. *)
Unlink(p) ==
  /\ file' = NoFile
  /\ stolen' = stolen \cup
       {t \in Token : file # NoFile /\ file.by = t /\ t # TokenOf(p) /\ Relies(t)}

(* All four removals drop the error of os.Remove (lock.go:70, 82, 95, 119): a
   lock that is immutable, or whose directory is, stays. *)
TryUnlink(p) == Unlink(p) \/ UNCHANGED <<file, stolen>>

--------------------------------------------------------------------------------

Init ==
  /\ file = NoFile
  /\ pc = [p \in Procs |-> "idle"]
  /\ run = [p \in Procs |-> 0]
  /\ seen = [p \in Procs |-> NoFile]
  /\ aged = {}
  /\ expired = {}
  /\ stolen = {}

(* A new command, perhaps under the process id of one that crashed. *)
Begin(p) ==
  /\ pc[p] = "idle"
  /\ run[p] < MaxRuns
  /\ run' = [run EXCEPT ![p] = @ + 1]
  /\ expired' = expired \ {p}
  /\ Goto(p, "create")
  /\ UNCHANGED <<file, seen, aged, stolen>>

(* A slip to notice: the create without O_EXCL takes over what is there. *)
CreateOver(p) ==
  /\ pc[p] = "create"
  /\ file' = [by |-> TokenOf(p), full |-> FALSE]
  /\ Goto(p, "write")
  /\ UNCHANGED <<run, seen, aged, expired, stolen>>

(* OpenFile with O_EXCL succeeds: the file exists, still without a body. *)
CreateFresh(p) ==
  /\ pc[p] = "create"
  /\ file = NoFile
  /\ file' = [by |-> TokenOf(p), full |-> FALSE]
  /\ Goto(p, "write")
  /\ UNCHANGED <<run, seen, aged, expired, stolen>>

(* OpenFile answers EEXIST. *)
CreateExists(p) ==
  /\ pc[p] = "create"
  /\ file # NoFile
  /\ Goto(p, "read")
  /\ UNCHANGED <<file, run, seen, aged, expired, stolen>>

(* The body goes to the file this process opened, which the path may no
   longer name. *)
WriteBody(p) ==
  /\ pc[p] = "write"
  /\ file' = IF file # NoFile /\ file.by = TokenOf(p)
               THEN [file EXCEPT !.full = TRUE] ELSE file
  /\ Goto(p, "held")
  /\ UNCHANGED <<run, seen, aged, expired, stolen>>

(* The write or the close fails: remove the path and return the error. *)
WriteFails(p) ==
  /\ pc[p] = "write"
  /\ TryUnlink(p)
  /\ Goto(p, "idle")
  /\ UNCHANGED <<run, seen, aged, expired>>

(* A slip to notice: an unreadable lock is waited for, as a busy one is. *)
ReadLockAgain(p) ==
  /\ pc[p] = "read"
  /\ seen' = [seen EXCEPT ![p] = file]
  /\ Goto(p, IF file # NoFile /\ file.full THEN "judge" ELSE "create")
  /\ UNCHANGED <<file, run, aged, expired, stolen>>

(* readLock: a missing or bodiless file is an error, and an error is reaped. *)
ReadLock(p) ==
  /\ pc[p] = "read"
  /\ seen' = [seen EXCEPT ![p] = file]
  /\ Goto(p, IF file # NoFile /\ file.full THEN "judge" ELSE "reap")
  /\ UNCHANGED <<file, run, aged, expired, stolen>>

(* A slip to notice: the comparison with staleAfter turned round. *)
HolderOld(lock) == PidAlive(lock.by.proc) /\ lock.by \in aged

HolderLive(lock) == PidAlive(lock.by.proc) /\ lock.by \notin aged

(* A live holder: sleep and try again. *)
WaitForHolder(p) ==
  /\ pc[p] = "judge"
  /\ HolderLive(seen[p])
  /\ p \notin expired
  /\ Goto(p, "create")
  /\ Forget(p)
  /\ UNCHANGED <<file, run, aged, expired, stolen>>

(* A live holder and no time left: fail closed. *)
GiveUp(p) ==
  /\ pc[p] = "judge"
  /\ HolderLive(seen[p])
  /\ p \in expired
  /\ Goto(p, "idle")
  /\ Forget(p)
  /\ UNCHANGED <<file, run, aged, expired, stolen>>

(* A dead holder or an ancient timestamp. *)
JudgeStale(p) ==
  /\ pc[p] = "judge"
  /\ ~HolderLive(seen[p])
  /\ Goto(p, "reap")
  /\ UNCHANGED <<file, run, seen, aged, expired, stolen>>

Reap(p) ==
  /\ pc[p] = "reap"
  /\ Unlink(p)
  /\ Goto(p, "create")
  /\ Forget(p)
  /\ UNCHANGED <<run, aged, expired>>

(* The removal fails and the loop goes on at once: no sleep, and no look at the
   deadline, which only a live holder leads to (lock.go:79-95). *)
ReapFails(p) ==
  /\ pc[p] = "reap"
  /\ file # NoFile
  /\ Goto(p, "create")
  /\ Forget(p)
  /\ UNCHANGED <<file, run, aged, expired, stolen>>

(* Release reads the lock first and leaves one without its token alone. *)
ReleaseRead(p) ==
  /\ pc[p] = "held"
  /\ Goto(p, IF file # NoFile /\ file.by = TokenOf(p) /\ file.full
               THEN "unlink" ELSE "idle")
  /\ UNCHANGED <<file, run, seen, aged, expired, stolen>>

ReleaseRemove(p) ==
  /\ pc[p] = "unlink"
  /\ TryUnlink(p)
  /\ Goto(p, "idle")
  /\ UNCHANGED <<run, seen, aged, expired>>

(* The process is killed; its lock file stays. *)
Crash(p) ==
  /\ pc[p] # "idle"
  /\ Goto(p, "idle")
  /\ Forget(p)
  /\ UNCHANGED <<file, run, aged, expired, stolen>>

(* time.Now().After(deadline) turns true. *)
DeadlinePasses(p) ==
  /\ "deadline" \in Clocks
  /\ pc[p] \in Waiting
  /\ p \notin expired
  /\ expired' = expired \cup {p}
  /\ UNCHANGED <<file, pc, run, seen, aged, stolen>>

(* A written timestamp grows older than staleAfter. *)
Age ==
  /\ "stale" \in Clocks
  /\ file # NoFile
  /\ file.full
  /\ file.by \notin aged
  /\ aged' = aged \cup {file.by}
  /\ UNCHANGED <<file, pc, run, seen, expired, stolen>>

(* The statements a running process executes of itself. *)
Progress(p) ==
  \/ CreateFresh(p) \/ CreateExists(p)
  \/ WriteBody(p) \/ WriteFails(p)
  \/ ReadLock(p) \/ WaitForHolder(p) \/ GiveUp(p) \/ JudgeStale(p)
  \/ Reap(p) \/ ReapFails(p)
  \/ ReleaseRead(p) \/ ReleaseRemove(p)

Next ==
  \/ \E p \in Procs : Begin(p) \/ Progress(p) \/ Crash(p) \/ DeadlinePasses(p)
  \/ Age

(* A running process is scheduled, and a deadline is reached. *)
Fairness ==
  \A p \in Procs : WF_vars(Progress(p)) /\ WF_vars(DeadlinePasses(p))

Spec == Init /\ [][Next]_vars

FairSpec == Spec /\ Fairness

--------------------------------------------------------------------------------

(* Every variable stays within its type. *)
TypeOK ==
  /\ file \in LockFile \cup {NoFile}
  /\ pc \in [Procs -> Steps]
  /\ run \in [Procs -> 0..MaxRuns]
  /\ seen \in [Procs -> LockFile \cup {NoFile}]
  /\ aged \subseteq Token
  /\ expired \subseteq Procs
  /\ stolen \subseteq Token

Holders == {p \in Procs : pc[p] = "held"}

(* What lock.go:7-8 promises of the lock: at most one connect, disconnect or
   repair owns the firewall at a time. *)
MutualExclusion == \A p, q \in Holders : p = q

(* What the O_EXCL create and the token do guarantee: of all the commands that
   believe they hold the lock, at most one has not had its file taken away, so
   two owners only ever arise from a removal of a lock in use (lock.go:70, 82,
   95 and 119 are the four removals). *)
OneUnrobbedHolder ==
  \A p, q \in Procs :
    /\ Relies(TokenOf(p)) /\ TokenOf(p) \notin stolen
    /\ Relies(TokenOf(q)) /\ TokenOf(q) \notin stolen
    => p = q

(* A removal that follows a judgement is right about the lock it judged: when
   the lock removed at lock.go:95 is the written one that was read at lock.go:79,
   its creator is gone or has outlived staleAfter, however long the reaper was
   suspended in between. *)
JudgedReapIsSound ==
  [][\A p \in Procs :
       /\ Reap(p)
       /\ file # NoFile
       /\ seen[p] = file
       /\ file.full
       => ~Relies(file.by) \/ file.by \in aged]_vars

(* Release drops only our own lock (lock.go:99-101): a command that finishes
   never deletes the lock of a command that has claimed it since. *)
ReleaseKeepsSuccessor ==
  [][\A p \in Procs : ReleaseRemove(p) => file = NoFile \/ file.by = TokenOf(p)]_vars

(* AcquireSessionLock returns: a contender gets the lock, fails closed on a
   live holder or dies, whatever crashed holders and other reapers leave behind,
   unless its own removals fail again and again.  Then it does spin past its
   deadline, although the timeout is to bound the wait (lock.go:50-52). *)
AcquireReturns ==
  \A p \in Procs :
    \/ pc[p] = "create" ~> pc[p] \in {"held", "idle"}
    \/ []<><<ReapFails(p)>>_vars

================================================================================
