--------------------------- MODULE SessionLockProofs ---------------------------
(******************************************************************************)
(* Proofs about the session lock, for every set of processes, every number of *)
(* commands and every interleaving: what the O_EXCL create, the token and the *)
(* staleness judgement do guarantee.                                          *)
(******************************************************************************)
EXTENDS SessionLock, TLAPS

LEMMA TokenType ==
  ASSUME NEW p \in Procs, TypeOK, run[p] > 0
  PROVE  TokenOf(p) \in Token
BY DEF TypeOK, TokenOf, Token

--------------------------------------------------------------------------------
(* Type correctness needs one fact beside the types: a process that is doing  *)
(* anything has started a command, so its token is one.                       *)

Started == \A p \in Procs : pc[p] # "idle" => run[p] > 0

Typed == TypeOK /\ Started

LEMMA InitTyped == Init => Typed
<1>1. 0 \in 0..MaxRuns
  BY LockAssumption
<1> QED
  BY <1>1 DEF Init, Typed, TypeOK, Started, Steps

LEMMA NextTyped == Typed /\ [Next]_vars => Typed'
<1> SUFFICES ASSUME Typed, [Next]_vars PROVE Typed'
  OBVIOUS
<1> USE LockAssumption, NoFileAssumption
<1> USE DEF Typed, TypeOK, Started, Steps
<1>1. ASSUME NEW p \in Procs, Begin(p) PROVE Typed'
  BY <1>1 DEF Begin, Goto
<1>2. ASSUME NEW p \in Procs, CreateFresh(p) PROVE Typed'
  BY <1>2, TokenType DEF CreateFresh, Goto, LockFile
<1>3. ASSUME NEW p \in Procs, CreateExists(p) PROVE Typed'
  BY <1>3 DEF CreateExists, Goto
<1>4. ASSUME NEW p \in Procs, WriteBody(p) PROVE Typed'
  BY <1>4 DEF WriteBody, Goto, LockFile
<1>5. ASSUME NEW p \in Procs, WriteFails(p) PROVE Typed'
  BY <1>5 DEF WriteFails, Goto, TryUnlink, Unlink
<1>6. ASSUME NEW p \in Procs, ReadLock(p) PROVE Typed'
  BY <1>6 DEF ReadLock, Goto
<1>7. ASSUME NEW p \in Procs, WaitForHolder(p) PROVE Typed'
  BY <1>7 DEF WaitForHolder, Goto, Forget
<1>8. ASSUME NEW p \in Procs, GiveUp(p) PROVE Typed'
  BY <1>8 DEF GiveUp, Goto, Forget
<1>9. ASSUME NEW p \in Procs, JudgeStale(p) PROVE Typed'
  BY <1>9 DEF JudgeStale, Goto
<1>10. ASSUME NEW p \in Procs, Reap(p) PROVE Typed'
  BY <1>10 DEF Reap, Goto, Forget, Unlink
<1>11. ASSUME NEW p \in Procs, ReleaseRead(p) PROVE Typed'
  BY <1>11 DEF ReleaseRead, Goto
<1>12. ASSUME NEW p \in Procs, ReleaseRemove(p) PROVE Typed'
  BY <1>12 DEF ReleaseRemove, Goto, TryUnlink, Unlink
<1>13. ASSUME NEW p \in Procs, Crash(p) PROVE Typed'
  BY <1>13 DEF Crash, Goto, Forget
<1>14. ASSUME NEW p \in Procs, DeadlinePasses(p) PROVE Typed'
  BY <1>14 DEF DeadlinePasses
<1>15. ASSUME Age PROVE Typed'
  BY <1>15 DEF Age, LockFile
<1>16. ASSUME UNCHANGED vars PROVE Typed'
  BY <1>16 DEF vars
<1>17. ASSUME NEW p \in Procs, ReapFails(p) PROVE Typed'
  BY <1>17 DEF ReapFails, Goto, Forget
<1> QED
  BY <1>1, <1>2, <1>3, <1>4, <1>5, <1>6, <1>7, <1>8, <1>9, <1>10, <1>11,
     <1>12, <1>13, <1>14, <1>15, <1>16, <1>17
  DEF Next, Progress

LEMMA TypedAlways == Spec => []Typed
BY InitTyped, NextTyped, PTL DEF Spec

(* Every variable stays within its type. *)
THEOREM TypeCorrect == Spec => []TypeOK
BY TypedAlways, PTL DEF Typed

--------------------------------------------------------------------------------
(* One unrobbed holder.  The property alone is not inductive: that a second   *)
(* create fails follows only from the first holder's file being there.  So    *)
(* the invariant says where the lock of an unrobbed holder is.                *)

FileIsMine(p) == file # NoFile /\ file.by = TokenOf(p)

Owned ==
  \A p \in Procs :
    Relies(TokenOf(p)) /\ TokenOf(p) \notin stolen => FileIsMine(p)

LEMMA OwnedIsExclusive == Owned => OneUnrobbedHolder
BY DEF Owned, OneUnrobbedHolder, FileIsMine, TokenOf

LEMMA InitOwned == Init => Owned
BY DEF Init, Owned, Relies, TokenOf

(* A step of p that leaves the file and the thefts alone keeps the invariant,
   unless it makes p a holder. *)
LEMMA QuietStep ==
  ASSUME NEW p \in Procs, Typed, Owned,
         UNCHANGED <<file, stolen>>,
         \A q \in Procs \ {p} : pc'[q] = pc[q] /\ run'[q] = run[q],
         pc'[p] \notin {"write", "held"}
  PROVE  Owned'
BY DEF Owned, FileIsMine, Relies, TokenOf, Typed, TypeOK

(* Removing the file robs whoever relies on it, and that is recorded. *)
LEMMA UnlinkStep ==
  ASSUME NEW p \in Procs, Typed, Owned,
         Unlink(p), UNCHANGED run,
         \A q \in Procs \ {p} : pc'[q] = pc[q],
         pc'[p] \notin {"write", "held"}
  PROVE  Owned'
<1> SUFFICES ASSUME NEW q \in Procs,
                    Relies(TokenOf(q))', TokenOf(q)' \notin stolen'
             PROVE  FALSE
  BY DEF Owned
<1>1. q # p /\ pc'[q] = pc[q] /\ TokenOf(q)' = TokenOf(q)
  BY DEF Relies, TokenOf
<1>2. Relies(TokenOf(q)) /\ run[q] > 0
  BY <1>1 DEF Relies, TokenOf, Typed, Started
<1>3. TokenOf(q) \notin stolen
  BY <1>1 DEF Unlink
<1>4. FileIsMine(q)
  BY <1>2, <1>3 DEF Owned
<1>5. TokenOf(q) \in Token /\ TokenOf(q) # TokenOf(p)
  BY <1>1, <1>2, TokenType DEF TokenOf, Typed
<1>6. TokenOf(q) \in stolen'
  BY <1>2, <1>4, <1>5 DEF Unlink, FileIsMine
<1> QED
  BY <1>1, <1>6

LEMMA NextOwned == Typed /\ Owned /\ [Next]_vars => Owned'
<1> SUFFICES ASSUME Typed, Owned, [Next]_vars PROVE Owned'
  OBVIOUS
<1> USE DEF Typed, TypeOK
<1>1. ASSUME NEW p \in Procs, Begin(p) PROVE Owned'
  BY <1>1, QuietStep DEF Begin, Goto
<1>2. ASSUME NEW p \in Procs, CreateFresh(p) PROVE Owned'
  <2>a. \A q \in Procs \ {p} : ~(Relies(TokenOf(q)) /\ TokenOf(q) \notin stolen)
    BY <1>2 DEF CreateFresh, Owned, FileIsMine
  <2>b. \A q \in Procs \ {p} : ~(Relies(TokenOf(q)) /\ TokenOf(q) \notin stolen)'
    BY <1>2, <2>a DEF CreateFresh, Goto, Relies, TokenOf
  <2>c. file' # NoFile /\ file'.by = TokenOf(p)'
    <3>1. TokenOf(p) \in Token
      BY <1>2, TokenType DEF CreateFresh, Started
    <3>2. file' = [by |-> TokenOf(p), full |-> FALSE] /\ TokenOf(p)' = TokenOf(p)
      BY <1>2 DEF CreateFresh, TokenOf
    <3>3. file' \in LockFile
      BY <3>1, <3>2 DEF LockFile
    <3> QED
      BY <3>2, <3>3, NoFileAssumption
  <2> QED
    BY <2>b, <2>c DEF Owned, FileIsMine
<1>3. ASSUME NEW p \in Procs, CreateExists(p) PROVE Owned'
  BY <1>3, QuietStep DEF CreateExists, Goto
<1>4. ASSUME NEW p \in Procs, WriteBody(p) PROVE Owned'
  <2>a. \A q \in Procs : Relies(TokenOf(q))' => Relies(TokenOf(q))
    BY <1>4 DEF WriteBody, Goto, Relies, TokenOf
  <2>b. \A q \in Procs : FileIsMine(q) => FileIsMine(q)'
    <3>1. file # NoFile => file' # NoFile /\ file'.by = file.by
      BY <1>4, NoFileAssumption DEF WriteBody, LockFile
    <3> QED
      BY <1>4, <3>1 DEF FileIsMine, TokenOf, WriteBody
  <2> QED
    BY <1>4, <2>a, <2>b DEF Owned, WriteBody, TokenOf
<1>5. ASSUME NEW p \in Procs, WriteFails(p) PROVE Owned'
  BY <1>5, UnlinkStep, QuietStep DEF WriteFails, TryUnlink, Goto
<1>6. ASSUME NEW p \in Procs, ReadLock(p) PROVE Owned'
  BY <1>6, QuietStep DEF ReadLock, Goto
<1>7. ASSUME NEW p \in Procs, WaitForHolder(p) PROVE Owned'
  BY <1>7, QuietStep DEF WaitForHolder, Goto
<1>8. ASSUME NEW p \in Procs, GiveUp(p) PROVE Owned'
  BY <1>8, QuietStep DEF GiveUp, Goto
<1>9. ASSUME NEW p \in Procs, JudgeStale(p) PROVE Owned'
  BY <1>9, QuietStep DEF JudgeStale, Goto
<1>10. ASSUME NEW p \in Procs, Reap(p) PROVE Owned'
  BY <1>10, UnlinkStep DEF Reap, Goto
<1>11. ASSUME NEW p \in Procs, ReleaseRead(p) PROVE Owned'
  BY <1>11, QuietStep DEF ReleaseRead, Goto
<1>12. ASSUME NEW p \in Procs, ReleaseRemove(p) PROVE Owned'
  BY <1>12, UnlinkStep, QuietStep DEF ReleaseRemove, TryUnlink, Goto
<1>13. ASSUME NEW p \in Procs, Crash(p) PROVE Owned'
  BY <1>13, QuietStep DEF Crash, Goto
<1>14. ASSUME NEW p \in Procs, DeadlinePasses(p) PROVE Owned'
  BY <1>14 DEF DeadlinePasses, Owned, FileIsMine, Relies, TokenOf
<1>15. ASSUME Age PROVE Owned'
  BY <1>15 DEF Age, Owned, FileIsMine, Relies, TokenOf
<1>16. ASSUME UNCHANGED vars PROVE Owned'
  BY <1>16 DEF vars, Owned, FileIsMine, Relies, TokenOf
<1>17. ASSUME NEW p \in Procs, ReapFails(p) PROVE Owned'
  BY <1>17, QuietStep DEF ReapFails, Goto
<1> QED
  BY <1>1, <1>2, <1>3, <1>4, <1>5, <1>6, <1>7, <1>8, <1>9, <1>10, <1>11,
     <1>12, <1>13, <1>14, <1>15, <1>16, <1>17
  DEF Next, Progress

(* Of the commands that believe they hold the lock, at most one has not been
   robbed of its file: two owners of the firewall need a removal in between. *)
THEOREM OneUnrobbedHolderAlways == Spec => []OneUnrobbedHolder
<1>1. Spec => []Owned
  BY InitOwned, NextOwned, TypedAlways, PTL DEF Spec
<1> QED
  BY <1>1, OwnedIsExclusive, PTL

--------------------------------------------------------------------------------
(* A judged reap is sound.  The judgement is made from what was read; between *)
(* it and the removal the judged process id may have come back to life as a   *)
(* new command.  What makes the removal right is that a command once gone     *)
(* never relies on its lock again: its id only returns with a later run.      *)

Spent(t) ==
  \/ run[t.proc] > t.run
  \/ run[t.proc] = t.run /\ pc[t.proc] = "idle"

(* Locks are made by commands that were started. *)
PastLocks ==
  /\ file # NoFile => file.by.run <= run[file.by.proc]
  /\ \A p \in Procs : seen[p] # NoFile => seen[p].by.run <= run[seen[p].by.proc]

(* What a process is about to reap after a judgement was judged rightly. *)
Judged ==
  \A p \in Procs :
    pc[p] = "reap" /\ seen[p] # NoFile /\ seen[p].full =>
      seen[p].by \in aged \/ Spent(seen[p].by)

LEMMA SpentIsFinal ==
  ASSUME Typed, [Next]_vars, NEW t \in Token, Spent(t)
  PROVE  Spent(t)'
<1> USE DEF Typed, TypeOK, Token, Spent, Goto
<1>1. ASSUME NEW p \in Procs, Begin(p) PROVE Spent(t)'
  BY <1>1 DEF Begin
<1>2. ASSUME NEW p \in Procs, Progress(p) \/ Crash(p)
      PROVE  /\ run' = run
             /\ \E step \in Steps : pc' = [pc EXCEPT ![p] = step]
             /\ pc[p] # "idle"
  BY <1>2 DEF Progress, CreateFresh, CreateExists, WriteBody, WriteFails, ReadLock,
              WaitForHolder, GiveUp, JudgeStale, Reap, ReapFails, ReleaseRead, ReleaseRemove,
              Crash, Steps
<1>3. ASSUME NEW p \in Procs, Progress(p) \/ Crash(p) PROVE Spent(t)'
  BY <1>2, <1>3
<1>4. ASSUME NEW p \in Procs, DeadlinePasses(p) PROVE Spent(t)'
  BY <1>4 DEF DeadlinePasses
<1>5. ASSUME Age PROVE Spent(t)'
  BY <1>5 DEF Age
<1>6. ASSUME UNCHANGED vars PROVE Spent(t)'
  BY <1>6 DEF vars
<1> QED
  BY <1>1, <1>3, <1>4, <1>5, <1>6 DEF Next

LEMMA SpentIsNotRelied ==
  ASSUME Typed, NEW t \in Token, Spent(t)
  PROVE  ~Relies(t)
BY DEF Spent, Relies, TokenOf, Typed, TypeOK, Token

LEMMA RunGrows ==
  ASSUME Typed, [Next]_vars, NEW q \in Procs
  PROVE  run'[q] \in Nat /\ run[q] <= run'[q]
<1> USE DEF Typed, TypeOK
<1>1. run[q] \in Nat
  BY LockAssumption
<1>2. ASSUME NEW p \in Procs, Begin(p) PROVE run' = [run EXCEPT ![p] = @ + 1]
  BY <1>2 DEF Begin
<1>3. ASSUME NEW p \in Procs, Progress(p) PROVE run' = run
  BY <1>3 DEF Progress, CreateFresh, CreateExists, WriteBody, WriteFails, ReadLock,
              WaitForHolder, GiveUp, JudgeStale, Reap, ReapFails, ReleaseRead, ReleaseRemove
<1>4. ASSUME NEW p \in Procs, Crash(p) \/ DeadlinePasses(p) PROVE run' = run
  BY <1>4 DEF Crash, DeadlinePasses
<1>5. ASSUME Age \/ UNCHANGED vars PROVE run' = run
  BY <1>5 DEF Age, vars
<1> QED
  BY <1>1, <1>2, <1>3, <1>4, <1>5 DEF Next

(* What may become of the lock file in a step. *)
LEMMA FileSteps ==
  ASSUME Typed, [Next]_vars, file' # NoFile
  PROVE  \/ file # NoFile /\ file'.by = file.by
         \/ \E p \in Procs : file'.by = TokenOf(p) /\ run' = run
<1> USE DEF Typed, TypeOK
<1>1. ASSUME NEW p \in Procs, CreateFresh(p)
      PROVE  file'.by = TokenOf(p) /\ run' = run
  BY <1>1 DEF CreateFresh
<1>2. ASSUME NEW p \in Procs, WriteBody(p)
      PROVE  file # NoFile /\ file'.by = file.by
  BY <1>2 DEF WriteBody, LockFile
<1>3. ASSUME NEW p \in Procs, WriteFails(p) \/ Reap(p) \/ ReleaseRemove(p)
      PROVE  file' = file
  BY <1>3 DEF WriteFails, Reap, ReleaseRemove, TryUnlink, Unlink
<1>4. ASSUME NEW p \in Procs,
             \/ CreateExists(p) \/ ReadLock(p) \/ WaitForHolder(p) \/ GiveUp(p)
             \/ JudgeStale(p) \/ ReapFails(p) \/ ReleaseRead(p)
      PROVE  file' = file
  BY <1>4 DEF CreateExists, ReadLock, WaitForHolder, GiveUp, JudgeStale, ReapFails,
              ReleaseRead
<1>5. ASSUME NEW p \in Procs, Begin(p) \/ Crash(p) \/ DeadlinePasses(p)
      PROVE  file' = file
  BY <1>5 DEF Begin, Crash, DeadlinePasses
<1>6. ASSUME Age \/ UNCHANGED vars PROVE file' = file
  BY <1>6 DEF Age, vars
<1> QED
  BY <1>1, <1>2, <1>3, <1>4, <1>5, <1>6 DEF Next, Progress

(* What a process may have seen of the lock after a step. *)
LEMMA SeenSteps ==
  ASSUME Typed, [Next]_vars, NEW q \in Procs, seen'[q] # NoFile
  PROVE  \/ seen'[q] = seen[q]
         \/ seen'[q] = file /\ run' = run
<1> USE DEF Typed, TypeOK, Forget
<1>1. ASSUME NEW p \in Procs, ReadLock(p)
      PROVE  seen'[q] \in {seen[q], file} /\ run' = run
  BY <1>1 DEF ReadLock
<1>2. ASSUME NEW p \in Procs,
             WaitForHolder(p) \/ GiveUp(p) \/ Reap(p) \/ ReapFails(p) \/ Crash(p)
      PROVE  seen'[q] = seen[q]
  BY <1>2 DEF WaitForHolder, GiveUp, Reap, ReapFails, Crash
<1>3. ASSUME NEW p \in Procs,
             \/ Begin(p) \/ CreateFresh(p) \/ CreateExists(p) \/ WriteBody(p)
             \/ WriteFails(p) \/ JudgeStale(p) \/ ReleaseRead(p)
             \/ ReleaseRemove(p) \/ DeadlinePasses(p)
      PROVE  seen' = seen
  BY <1>3 DEF Begin, CreateFresh, CreateExists, WriteBody, WriteFails, JudgeStale,
              ReleaseRead, ReleaseRemove, DeadlinePasses
<1>4. ASSUME Age \/ UNCHANGED vars PROVE seen' = seen
  BY <1>4 DEF Age, vars
<1> QED
  BY <1>1, <1>2, <1>3, <1>4 DEF Next, Progress

LEMMA NextPastLocks == Typed /\ Typed' /\ PastLocks /\ [Next]_vars => PastLocks'
<1> SUFFICES ASSUME Typed, Typed', PastLocks, [Next]_vars PROVE PastLocks'
  OBVIOUS
<1>1. \A t \in Token : run[t.proc] \in Nat /\ t.run \in Nat
  BY LockAssumption DEF Typed, TypeOK, Token
<1>2. ASSUME NEW t \in Token, t.run <= run[t.proc] PROVE t.run <= run'[t.proc]
  BY <1>1, <1>2, RunGrows DEF Token
<1>3. \A lock \in LockFile : lock.by \in Token
  BY DEF LockFile
<1>4. file' # NoFile => file'.by.run <= run'[file'.by.proc]
  <2> SUFFICES ASSUME file' # NoFile PROVE file'.by.run <= run'[file'.by.proc]
    OBVIOUS
  <2>a. CASE file # NoFile /\ file'.by = file.by
    BY <1>2, <1>3, <2>a DEF PastLocks, Typed, TypeOK
  <2>b. ASSUME NEW p \in Procs, file'.by = TokenOf(p), run' = run
        PROVE  file'.by.run <= run'[file'.by.proc]
    BY <2>b, LockAssumption DEF TokenOf, Typed, TypeOK
  <2> QED
    BY <2>a, <2>b, FileSteps
<1>5. ASSUME NEW q \in Procs, seen'[q] # NoFile
      PROVE  seen'[q].by.run <= run'[seen'[q].by.proc]
  <2>a. CASE seen'[q] = seen[q]
    BY <1>2, <1>3, <1>5, <2>a DEF PastLocks, Typed, TypeOK
  <2>b. CASE seen'[q] = file /\ run' = run
    BY <1>5, <2>b DEF PastLocks
  <2> QED
    BY <1>5, <2>a, <2>b, SeenSteps
<1> QED
  BY <1>4, <1>5 DEF PastLocks

(* A process comes to reap a lock it has read only by judging it. *)
LEMMA ReapSteps ==
  ASSUME Typed, [Next]_vars, NEW q \in Procs,
         pc'[q] = "reap", seen'[q] # NoFile, seen'[q].full
  PROVE  \/ pc[q] = "reap" /\ seen'[q] = seen[q]
         \/ JudgeStale(q)
<1> USE DEF Typed, TypeOK, Goto, Forget
<1>1. ASSUME NEW p \in Procs, ReadLock(p), p = q PROVE FALSE
  BY <1>1 DEF ReadLock
<1>2. ASSUME NEW p \in Procs, p # q, Progress(p) \/ Crash(p) \/ Begin(p)
      PROVE  pc'[q] = pc[q] /\ seen'[q] = seen[q]
  BY <1>2 DEF Progress, Begin, CreateFresh, CreateExists, WriteBody, WriteFails,
              ReadLock, WaitForHolder, GiveUp, JudgeStale, Reap, ReapFails, ReleaseRead,
              ReleaseRemove, Crash
<1>3. ASSUME \/ Begin(q) \/ CreateFresh(q) \/ CreateExists(q) \/ WriteBody(q)
             \/ WriteFails(q) \/ WaitForHolder(q) \/ GiveUp(q) \/ Reap(q)
             \/ ReapFails(q) \/ ReleaseRead(q) \/ ReleaseRemove(q) \/ Crash(q)
      PROVE  FALSE
  BY <1>3 DEF Begin, CreateFresh, CreateExists, WriteBody, WriteFails,
              WaitForHolder, GiveUp, Reap, ReapFails, ReleaseRead, ReleaseRemove,
              Crash
<1>4. ASSUME NEW p \in Procs, DeadlinePasses(p) PROVE pc' = pc /\ seen' = seen
  BY <1>4 DEF DeadlinePasses
<1>5. ASSUME Age \/ UNCHANGED vars PROVE pc' = pc /\ seen' = seen
  BY <1>5 DEF Age, vars
<1> QED
  BY <1>1, <1>2, <1>3, <1>4, <1>5 DEF Next, Progress

LEMMA AgedGrows == ASSUME [Next]_vars PROVE aged \subseteq aged'
BY DEF Next, Progress, Begin, CreateFresh, CreateExists, WriteBody, WriteFails,
       ReadLock, WaitForHolder, GiveUp, JudgeStale, Reap, ReapFails, ReleaseRead, ReleaseRemove,
       Crash, DeadlinePasses, Age, vars

LEMMA NextJudged == Typed /\ PastLocks /\ Judged /\ [Next]_vars => Judged'
<1> SUFFICES ASSUME Typed, PastLocks, Judged, [Next]_vars,
                    NEW q \in Procs,
                    pc'[q] = "reap", seen'[q] # NoFile, seen'[q].full
             PROVE  (seen[q].by \in aged \/ Spent(seen[q].by))'
  BY DEF Judged
<1>1. seen'[q] = seen[q] /\ seen[q] \in LockFile /\ seen[q].by \in Token
  BY ReapSteps DEF JudgeStale, Typed, TypeOK, LockFile
<1>2. seen[q].by \in aged \/ Spent(seen[q].by)
  <2>a. CASE pc[q] = "reap"
    BY <1>1, <2>a DEF Judged
  <2>b. CASE JudgeStale(q)
    <3> DEFINE t == seen[q].by
    <3>1. t \in aged \/ pc[t.proc] = "idle"
      BY <2>b DEF JudgeStale, HolderLive, PidAlive
    <3>2. t.run <= run[t.proc] /\ t.run \in Nat /\ run[t.proc] \in Nat
      BY <1>1, LockAssumption DEF PastLocks, Token, Typed, TypeOK
    <3> QED
      BY <3>1, <3>2 DEF Spent
  <2> QED
    BY <2>a, <2>b, ReapSteps
<1>3. PICK t \in Token : t = seen[q].by /\ t = seen'[q].by
  BY <1>1
<1>4. t \in aged' \/ Spent(t)'
  BY <1>2, <1>3, AgedGrows, SpentIsFinal
<1> QED
  BY <1>3, <1>4 DEF Spent

(* A lock removed after a judgement is not in use, or has outlived staleAfter,
   whatever happened between the judgement and the removal (lock.go:79-95). *)
THEOREM JudgedReapSound == Spec => JudgedReapIsSound
<1> DEFINE Sound ==
      \A p \in Procs :
        /\ Reap(p)
        /\ file # NoFile
        /\ seen[p] = file
        /\ file.full
        => ~Relies(file.by) \/ file.by \in aged
<1>1. Init => PastLocks /\ Judged
  BY DEF Init, PastLocks, Judged
<1>2. Typed /\ Judged => Sound
  BY SpentIsNotRelied DEF Typed, TypeOK, LockFile, Judged, Reap
<1> QED
  BY <1>1, <1>2, TypedAlways, NextPastLocks, NextJudged, PTL
  DEF Spec, JudgedReapIsSound

================================================================================
