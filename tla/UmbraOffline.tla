---------------------------- MODULE UmbraOffline ----------------------------
(***************************************************************************)
(* The service worker of umbra (sw.js) over a new release: install, take    *)
(* over, delete the old cache, answer from the caches first.                *)
(*                                                                         *)
(* A release is a number; the server replaces all its files at once.  The   *)
(* browser's cache storage keeps its caches in the order of their creation, *)
(* and caches.match answers from the first that has the file.               *)
(***************************************************************************)
EXTENDS Integers, Sequences, SequencesExt, FiniteSets, WellFoundedInduction, TLAPS

CONSTANTS
  Shell,         (* The files of SHELL.                                     *)
  Others,        (* Files under /umbra/ that are not listed there.          *)
  MaxRelease,    (* Bound: releases.                                        *)
  MaxPending     (* Bound: fetches whose answer is still to be stored.      *)

VARIABLES
  server,        (* The release the server has.                             *)
  online,
  caches,        (* The cache names in the order of creation: releases.     *)
  content,       (* <<name, file>> -> the release its content is from; 0.   *)
  installing,    (* The release being installed, and the files fetched.     *)
  active,        (* The release whose worker answers; 0 before the first.   *)
  waiting,       (* An installed release that has not begun to activate; 0. *)
  activating,    (* The release whose activate handler runs; 0.             *)
  puts,          (* Answers on their way to a cache: [name, file, from].    *)
  swept          (* History: releases whose cache was deleted by another's  *)
                 (* activate handler.                                       *)

workers == <<installing, active, waiting, activating>>
vars == <<server, online, caches, content, workers, puts, swept>>

Releases == 1..MaxRelease
Files == Shell \cup Others
NoInstall == [release |-> 0, got |-> <<>>]

Opened(s, name) == IF name \in Range(s) THEN s ELSE Append(s, name)

(* A deployment; one that comes while addAll fetches makes its files mix.   *)
Deploy ==
  /\ server < MaxRelease
  /\ server' = server + 1
  /\ UNCHANGED <<online, caches, content, workers, puts, swept>>

Network ==
  /\ online' = ~online
  /\ UNCHANGED <<server, caches, content, workers, puts, swept>>

(* The browser finds a release that none of its workers is of.  The install *)
(* handler opens the cache and asks for the whole shell, whatever the other *)
(* workers are doing.                                                       *)
Install ==
  /\ online /\ installing = NoInstall
  /\ server > active /\ server > waiting /\ server > activating
  /\ installing' = [release |-> server, got |-> <<>>]
  /\ caches' = Opened(caches, server)
  /\ swept' = swept \ {server}
  /\ UNCHANGED <<server, online, content, active, waiting, activating, puts>>

FetchShell(f) ==
  /\ online /\ installing # NoInstall /\ f \in Shell \ DOMAIN installing.got
  /\ installing' = [installing EXCEPT !.got =
                      [g \in DOMAIN @ \cup {f} |-> IF g = f THEN server ELSE @[g]]]
  /\ UNCHANGED <<server, online, caches, content, active, waiting, activating, puts, swept>>

InstallFails ==
  /\ ~online /\ installing # NoInstall
  /\ installing' = NoInstall
  /\ UNCHANGED <<server, online, caches, content, active, waiting, activating, puts, swept>>

(* What the cache that the install handler opened gets.  It was opened once, *)
(* at the start: when it has been deleted since, nobody finds the files.     *)
Stored(files) ==
  [k \in DOMAIN content |->
     IF k[1] = installing.release /\ k[2] \in files /\ k[1] \in Range(caches)
     THEN installing.got[k[2]] ELSE content[k]]

(* Mutant: files are stored as they arrive.                                 *)
AddAllPartly ==
  /\ installing # NoInstall /\ DOMAIN installing.got # {}
  /\ content' = Stored(DOMAIN installing.got)
  /\ waiting' = installing.release /\ installing' = NoInstall
  /\ UNCHANGED <<server, online, caches, active, activating, puts, swept>>

(* cache.addAll stores all or nothing; then skipWaiting.  An older release  *)
(* that still waits is dropped.                                             *)
AddAll ==
  /\ installing # NoInstall /\ DOMAIN installing.got = Shell
  /\ content' = Stored(Shell)
  /\ waiting' = installing.release /\ installing' = NoInstall
  /\ UNCHANGED <<server, online, caches, active, activating, puts, swept>>

(* One worker activates at a time; another may install meanwhile.           *)
TakeOver ==
  /\ waiting # 0 /\ activating = 0
  /\ activating' = waiting /\ waiting' = 0
  /\ UNCHANGED <<server, online, caches, content, installing, active, puts, swept>>

(* Mutant: the older caches stay.                                           *)
ActivateKeeping ==
  /\ activating # 0
  /\ active' = activating /\ activating' = 0
  /\ UNCHANGED <<server, online, caches, content, installing, waiting, puts, swept>>

(* The activate handler deletes every other cache of umbra, a newer one that *)
(* is being filled or waits included, then claims; a name is in the list     *)
(* once.                                                                     *)
Activate ==
  /\ activating # 0
  /\ active' = activating /\ activating' = 0
  /\ caches' = IF activating \in Range(caches) THEN <<activating>> ELSE <<>>
  /\ content' = [k \in DOMAIN content |-> IF k[1] = activating THEN content[k] ELSE 0]
  /\ swept' = swept \cup (Range(caches) \ {activating})
  /\ UNCHANGED <<server, online, installing, waiting, puts>>

(* caches.match: the release of the answer, or 0.                           *)
Match(f) ==
  LET having == {i \in DOMAIN caches : content[<<caches[i], f>>] # 0}
  IN IF having = {} THEN 0
     ELSE content[<<caches[CHOOSE i \in having : \A j \in having : i <= j], f>>]

(* The fetch handler on a miss: the answer goes to the page at once and to  *)
(* the worker's own cache later.  While a worker activates, fetches wait.   *)
FetchMiss(f) ==
  /\ active # 0 /\ activating = 0
  /\ online /\ Match(f) = 0 /\ Cardinality(puts) < MaxPending
  /\ puts' = puts \cup {[name |-> active, file |-> f, from |-> server]}
  /\ UNCHANGED <<server, online, caches, content, workers, swept>>

(* The put opens the cache, and so creates it again if it was deleted.      *)
Put(p) ==
  /\ puts' = puts \ {p}
  /\ caches' = Opened(caches, p.name)
  /\ content' = [content EXCEPT ![<<p.name, p.file>>] = p.from]
  /\ UNCHANGED <<server, online, workers, swept>>

Init ==
  /\ server = 1 /\ online = TRUE /\ caches = <<>>
  /\ content = [k \in Releases \X Files |-> 0]
  /\ installing = NoInstall /\ active = 0 /\ waiting = 0 /\ activating = 0
  /\ puts = {} /\ swept = {}

Next ==
  \/ Deploy \/ Network \/ Install \/ InstallFails \/ AddAll \/ TakeOver \/ Activate
  \/ \E f \in Shell : FetchShell(f)
  \/ \E f \in Files : FetchMiss(f)
  \/ \E p \in puts : Put(p)

Spec == Init /\ [][Next]_vars

---------------------------------------------------------------------------
(* Properties.                                                              *)

TypeOK ==
  /\ server \in Releases /\ active \in 0..MaxRelease /\ waiting \in 0..MaxRelease
  /\ activating \in 0..MaxRelease /\ swept \subseteq Releases
  /\ Range(caches) \subseteq Releases /\ IsInjective(caches)
  /\ \A k \in DOMAIN content : content[k] \in 0..MaxRelease
  /\ \A k \in DOMAIN content : content[k] # 0 => k[1] \in Range(caches)

(* Off the network the game is whole and of the release that took over or a *)
(* later one, whatever the old worker still had under way and however late   *)
(* its answers are stored: unless the activate handler of an older release   *)
(* deleted the new cache while its own release was installed (sw.js:72).     *)
OfflineIsWhole ==
  active # 0 /\ active \notin swept => \A f \in Shell : Match(f) >= active

(* The first words of sw.js, without that exception.  They do not hold.     *)
OfflineFirst ==
  active # 0 => \A f \in Shell : Match(f) >= active

---------------------------------------------------------------------------
(* Why it holds, for every shell and every number of releases.              *)

(* What the variables hold.  A release is downloaded only when it is newer  *)
(* than all that have a worker.                                             *)
Typed ==
  /\ server \in Releases /\ active \in 0..server /\ waiting \in 0..server
  /\ activating \in 0..server /\ swept \subseteq Releases
  /\ caches \in Seq(Releases)
  /\ content \in [Releases \X Files -> 0..MaxRelease]
  /\ installing = [release |-> installing.release, got |-> installing.got]
  /\ installing.release \in 0..server
Newer ==
  /\ activating # 0 => activating > active
  /\ waiting # 0 => waiting > active /\ waiting > activating
  /\ installing # NoInstall =>
       /\ installing.release > active /\ installing.release > waiting
       /\ installing.release > activating
       /\ installing.release \notin swept => installing.release \in Range(caches)
       /\ \A f \in DOMAIN installing.got : installing.got[f] \in installing.release..server

(* What a cache holds is of its release or a later one.                     *)
Aged ==
  \A n \in Releases, f \in Files :
    content[<<n, f>>] # 0 => n \in Range(caches) /\ content[<<n, f>>] >= n

(* A cache that was not deleted has the whole shell before its release      *)
(* waits, and is the first of the list once it has activated: what comes    *)
(* back with a late put, a file of an old shell included, stands behind it. *)
Whole(n) ==
  n # 0 /\ n \notin swept =>
    /\ n \in Range(caches)
    /\ \A f \in Shell : content[<<n, f>>] # 0
AskedFirst ==
  active # 0 /\ active \notin swept => 1 \in DOMAIN caches /\ caches[1] = active

(* What is under way is of the release that asked for it or a later one.    *)
PutsAged ==
  \A p \in puts : /\ p.name \in Releases /\ p.file \in Files
                  /\ p.from \in Releases /\ p.from >= p.name

ShellInv == Typed /\ Newer /\ Aged /\ AskedFirst /\ PutsAged
            /\ Whole(active) /\ Whole(waiting) /\ Whole(activating)

LEMMA OpenedAdds ==
  ASSUME NEW s \in Seq(Releases), NEW n \in Releases
  PROVE  Opened(s, n) \in Seq(Releases) /\ Range(Opened(s, n)) = Range(s) \cup {n}
<1>1. CASE n \in Range(s)
  BY <1>1 DEF Opened
<1>2. CASE n \notin Range(s)
  <2>a. Opened(s, n) = Append(s, n)
    BY <1>2 DEF Opened
  <2>b. Append(s, n) \in Seq(Releases)
    OBVIOUS
  <2>c. Range(Append(s, n)) = Range(s) \cup {n}
    <3>1. /\ DOMAIN Append(s, n) = 1..Len(s) + 1 /\ DOMAIN s = 1..Len(s) /\ Len(s) \in Nat
          /\ \A i \in 1..Len(s) : Append(s, n)[i] = s[i]
          /\ Append(s, n)[Len(s) + 1] = n
      OBVIOUS
    <3>2. 1..Len(s) + 1 = (1..Len(s)) \cup {Len(s) + 1}
      BY <3>1
    <3> QED
      BY <3>1, <3>2 DEF Range
  <2> QED
    BY <2>a, <2>b, <2>c
<1> QED
  BY <1>1, <1>2

(* Of the places in a list that qualify there is a first one.               *)
LEMMA FirstPlace ==
  ASSUME NEW S \in SUBSET Nat, S # {}
  PROVE  \E i \in S : \A j \in S : i <= j
<1> DEFINE Less == {p \in Nat \X Nat : p[1] < p[2]}
<1>1. IsWellFoundedOn(Less, Nat)
  BY NatLessThanWellFounded DEF OpToRel
<1>2. \E i \in S : \A j \in S : <<j, i>> \notin Less
  BY <1>1, WFMin, Zenon
<1>3. \A i, j \in Nat : j < i => <<j, i>> \in Less
  OBVIOUS
<1>4. PICK i \in S : \A j \in S : <<j, i>> \notin Less
  BY <1>2
<1> HIDE DEF Less
<1>5. \A j \in S : ~(j < i)
  BY <1>3, <1>4
<1> QED
  BY <1>5

(* The caches are asked in turn, and the active one is the first.           *)
LEMMA MatchIsCurrent ==
  ASSUME MaxRelease \in Nat, ShellInv, active # 0, active \notin swept, NEW f \in Shell
  PROVE  Match(f) >= active
<1> DEFINE having == {i \in DOMAIN caches : content[<<caches[i], f>>] # 0}
<1> DEFINE first == CHOOSE i \in having : \A j \in having : i <= j
<1> USE DEF ShellInv
<1>1. active \in Releases /\ f \in Files
  BY DEF Typed, Releases, Files
<1>2. 1 \in having /\ caches[1] = active
  BY <1>1 DEF AskedFirst, Whole
<1>3. DOMAIN caches \subseteq Nat \ {0} /\ having \subseteq DOMAIN caches
  BY DEF Typed
<1>4. first \in having /\ \A j \in having : first <= j
  BY <1>2, <1>3, FirstPlace
<1>5. first = 1
  BY <1>2, <1>3, <1>4
<1>6. content[<<active, f>>] \in Int /\ content[<<active, f>>] >= active
  <2>a. content[<<active, f>>] \in Int
    BY <1>1 DEF Typed
  <2>b. content[<<active, f>>] # 0
    BY <1>2
  <2> QED
    BY <1>1, <2>a, <2>b DEF Aged
<1>7. having # {}
  BY <1>2
<1>8. Match(f) = content[<<caches[first], f>>]
  BY <1>7 DEF Match
<1> QED
  BY <1>2, <1>5, <1>6, <1>8

LEMMA ShellInit ==
  ASSUME MaxRelease \in Nat \ {0}
  PROVE  Init => ShellInv
BY DEF Init, ShellInv, Typed, Newer, Aged, AskedFirst, Whole, PutsAged, Releases, NoInstall

(* Opening a cache puts none before the first.                              *)
LEMMA OpenedBehind ==
  ASSUME NEW s \in Seq(Releases), NEW n \in Releases, 1 \in DOMAIN s
  PROVE  1 \in DOMAIN Opened(s, n) /\ Opened(s, n)[1] = s[1]
BY DEF Opened

(* An install gathers the shell of a newer release.                         *)
LEMMA InstallKeepsShell ==
  ASSUME MaxRelease \in Nat \ {0}, ShellInv,
         Install \/ InstallFails \/ \E f \in Shell : FetchShell(f)
  PROVE  ShellInv'
<1> USE DEF ShellInv
<1>1. CASE Install
  <2>a. server \in Releases /\ caches \in Seq(Releases) /\ swept' = swept \ {server}
    BY <1>1 DEF Typed, Install
  <2>b. caches' \in Seq(Releases) /\ Range(caches') = Range(caches) \cup {server}
    BY <1>1, <2>a, OpenedAdds DEF Install
  <2>c. /\ active # server /\ waiting # server /\ activating # server
        /\ UNCHANGED <<server, content, active, waiting, activating, puts>>
    BY <1>1 DEF Install, Typed, Releases
  <2>d. Typed' /\ Newer'
    BY <1>1, <2>b DEF Install, Typed, Newer, NoInstall, Releases
  <2>e. AskedFirst'
    BY <1>1, <2>a, <2>c, OpenedBehind DEF Install, AskedFirst
  <2>f. Aged' /\ Whole(active)' /\ Whole(waiting)' /\ Whole(activating)' /\ PutsAged'
    BY <2>a, <2>b, <2>c DEF Aged, Whole, PutsAged
  <2> QED
    BY <2>d, <2>e, <2>f
<1>2. CASE InstallFails
  BY <1>2 DEF InstallFails, Typed, Newer, Aged, AskedFirst, Whole, PutsAged, NoInstall, Releases
<1>3. ASSUME NEW f \in Shell, FetchShell(f) PROVE ShellInv'
  <2>a. installing' = [installing EXCEPT !.got =
                         [g \in DOMAIN @ \cup {f} |-> IF g = f THEN server ELSE @[g]]]
    BY <1>3 DEF FetchShell
  <2>b. /\ installing'.release = installing.release
        /\ installing' = [release |-> installing'.release, got |-> installing'.got]
        /\ installing'.got = [g \in DOMAIN installing.got \cup {f} |->
                                IF g = f THEN server ELSE installing.got[g]]
    BY <2>a DEF Typed
  <2>c. UNCHANGED <<server, active, waiting, activating, caches, content, puts, swept>>
    BY <1>3 DEF FetchShell
  <2>d. Typed'
    BY <2>b, <2>c DEF Typed
  <2>e. Newer'
    BY <1>3, <2>b, <2>c DEF FetchShell, Newer, Typed, Releases
  <2>f. Aged' /\ AskedFirst' /\ PutsAged'
    BY <2>c DEF Aged, AskedFirst, PutsAged
  <2>g. Whole(active)' /\ Whole(waiting)' /\ Whole(activating)'
    BY <2>c DEF Whole
  <2> QED
    BY <2>d, <2>e, <2>f, <2>g
<1> QED
  BY <1>1, <1>2, <1>3

(* A deployment or a cut of the network touches no cache.                   *)
LEMMA WorldKeepsShell ==
  ASSUME MaxRelease \in Nat \ {0}, ShellInv, Deploy \/ Network
  PROVE  ShellInv'
<1>1. /\ UNCHANGED <<caches, content, installing, active, waiting, activating, puts, swept>>
      /\ server' \in Releases /\ server' >= server
  BY DEF Deploy, Network, ShellInv, Typed, Releases, workers
<1>2. Typed' /\ Newer'
  BY <1>1 DEF ShellInv, Typed, Newer, NoInstall, Releases
<1>3. Aged' /\ AskedFirst' /\ PutsAged'
  BY <1>1 DEF ShellInv, Aged, AskedFirst, PutsAged
<1>4. Whole(active)' /\ Whole(waiting)' /\ Whole(activating)'
  BY <1>1 DEF ShellInv, Whole
<1> QED
  BY <1>2, <1>3, <1>4 DEF ShellInv

(* All of a newer shell is stored at once, unless its cache is gone; then   *)
(* that release waits.                                                      *)
LEMMA AddAllKeepsShell ==
  ASSUME MaxRelease \in Nat \ {0}, ShellInv, AddAll
  PROVE  ShellInv'
<1> DEFINE r == installing.release
<1> USE DEF ShellInv
<1>1. /\ r \in Releases /\ r <= server /\ r > active /\ r > waiting /\ r > activating
      /\ DOMAIN installing.got = Shell
      /\ waiting' = r /\ installing' = NoInstall
      /\ r \notin swept => r \in Range(caches)
      /\ \A f \in Shell : installing.got[f] \in r..server
      /\ UNCHANGED <<server, caches, active, activating, puts, swept>>
  BY DEF AddAll, Typed, Newer, Releases
<1> HIDE DEF r
<1>2. \A n \in Releases, f \in Files :
        content'[<<n, f>>] = IF n = r /\ f \in Shell /\ n \in Range(caches)
                             THEN installing.got[f] ELSE content[<<n, f>>]
  BY DEF AddAll, Stored, Typed, r
<1>3. content' \in [Releases \X Files -> 0..MaxRelease]
  <2>a. content' = [k \in Releases \X Files |->
                      IF k[1] = r /\ k[2] \in Shell /\ k[1] \in Range(caches)
                      THEN installing.got[k[2]] ELSE content[k]]
    BY DEF AddAll, Stored, Typed, r
  <2>b. \A f \in Shell : installing.got[f] \in 0..MaxRelease
    BY <1>1 DEF Typed, Releases
  <2> QED
    BY <2>a, <2>b DEF Typed
<1>4. Typed' /\ Newer'
  BY <1>1, <1>3 DEF Typed, Newer, NoInstall, Releases
<1>5. \A f \in Shell : /\ f \in Files
                      /\ installing.got[f] >= r /\ installing.got[f] # 0
  BY <1>1 DEF Typed, Releases, Files
<1>6. Aged'
  BY <1>1, <1>2, <1>5 DEF Aged
<1>7. AskedFirst' /\ PutsAged'
  BY <1>1 DEF AskedFirst, PutsAged
<1>8. Whole(active)' /\ Whole(activating)'
  <2>a. \A n \in Releases \cup {0} : Whole(n) => Whole(n)'
    BY <1>1, <1>2, <1>5 DEF Whole, Releases
  <2>b. {active, activating} \subseteq Releases \cup {0}
    BY DEF Typed, Releases
  <2> QED
    BY <1>1, <2>a, <2>b DEF Whole
<1>9. Whole(waiting)'
  BY <1>1, <1>2, <1>5 DEF Whole
<1> QED
  BY <1>4, <1>6, <1>7, <1>8, <1>9

LEMMA TakeOverKeepsShell ==
  ASSUME MaxRelease \in Nat \ {0}, ShellInv, TakeOver
  PROVE  ShellInv'
<1>1. /\ waiting # 0 /\ activating = 0 /\ activating' = waiting /\ waiting' = 0
      /\ UNCHANGED <<server, caches, content, installing, active, puts, swept>>
  BY DEF TakeOver
<1>2. Typed' /\ Newer'
  BY <1>1 DEF ShellInv, Typed, Newer, NoInstall, Releases
<1>3. Aged' /\ AskedFirst' /\ PutsAged'
  BY <1>1 DEF ShellInv, Aged, AskedFirst, PutsAged
<1>4. Whole(active)' /\ Whole(waiting)' /\ Whole(activating)'
  BY <1>1 DEF ShellInv, Whole
<1> QED
  BY <1>2, <1>3, <1>4 DEF ShellInv

(* The release takes over and its cache alone is left; whatever newer one   *)
(* was there has been swept.                                                *)
LEMMA ActivateKeepsShell ==
  ASSUME MaxRelease \in Nat \ {0}, ShellInv, Activate
  PROVE  ShellInv'
<1> USE DEF ShellInv
<1>1. /\ activating \in Releases /\ active' = activating /\ activating' = 0
      /\ UNCHANGED <<server, installing, waiting, puts>>
      /\ swept' = swept \cup (Range(caches) \ {activating})
  BY DEF Activate, Typed, Releases
<1>2. /\ caches' \in Seq(Releases)
      /\ activating \in Range(caches) =>
           /\ activating \in Range(caches')
           /\ 1 \in DOMAIN caches' /\ caches'[1] = activating
  BY <1>1 DEF Activate, Range
<1>3. /\ content' \in [Releases \X Files -> 0..MaxRelease]
      /\ \A n \in Releases, f \in Files :
           content'[<<n, f>>] = IF n = activating THEN content[<<n, f>>] ELSE 0
  BY DEF Activate, Typed
<1>4. Typed'
  BY <1>1, <1>2, <1>3 DEF Typed, Releases, Range
<1>5. Newer'
  BY <1>1 DEF Typed, Newer, Releases
<1>6. Aged' /\ PutsAged'
  BY <1>1, <1>2, <1>3 DEF Aged, PutsAged
<1>7. Whole(active)' /\ AskedFirst'
  BY <1>1, <1>2, <1>3 DEF Whole, AskedFirst, Files
<1>8. Whole(waiting)' /\ Whole(activating)'
  BY <1>1 DEF Whole, Newer, Typed, Releases
<1> QED
  BY <1>4, <1>5, <1>6, <1>7, <1>8

(* An answer, however late it is stored, overwrites nothing with nothing and *)
(* comes behind the first cache.                                            *)
LEMMA MissKeepsShell ==
  ASSUME MaxRelease \in Nat \ {0}, ShellInv,
         (\E f \in Files : FetchMiss(f)) \/ \E p \in puts : Put(p)
  PROVE  ShellInv'
<1> USE DEF ShellInv
<1>1. ASSUME NEW f \in Files, FetchMiss(f) PROVE ShellInv'
  <2>a. UNCHANGED <<server, caches, content, installing, active, waiting, activating, swept>>
    BY <1>1 DEF FetchMiss, workers
  <2>b. PutsAged'
    BY <1>1, <2>a DEF FetchMiss, PutsAged, Typed, Releases
  <2> QED
    BY <2>a, <2>b DEF Typed, Newer, Aged, AskedFirst, Whole
<1>2. ASSUME NEW p \in puts, Put(p) PROVE ShellInv'
  <2>a. /\ p.name \in Releases /\ p.file \in Files /\ p.from \in Releases
        /\ p.from >= p.name /\ puts' = puts \ {p} /\ caches' = Opened(caches, p.name)
        /\ UNCHANGED <<server, installing, active, waiting, activating, swept>>
    BY <1>2 DEF Put, PutsAged, workers
  <2>b. caches' \in Seq(Releases) /\ Range(caches') = Range(caches) \cup {p.name}
    BY <2>a, OpenedAdds DEF Typed
  <2>c. /\ content' \in [Releases \X Files -> 0..MaxRelease]
        /\ \A n \in Releases, f \in Files :
             content'[<<n, f>>] = IF n = p.name /\ f = p.file THEN p.from
                                  ELSE content[<<n, f>>]
    BY <1>2, <2>a DEF Put, Typed, Releases
  <2>d. Typed' /\ Newer' /\ PutsAged'
    BY <2>a, <2>b, <2>c DEF Typed, Newer, PutsAged
  <2>e. Aged'
    BY <2>a, <2>b, <2>c DEF Aged
  <2>f. AskedFirst'
    BY <2>a, OpenedBehind DEF AskedFirst, Typed
  <2>g. \A n \in Releases \cup {0} : Whole(n) => Whole(n)'
    BY <2>a, <2>b, <2>c DEF Whole, Releases, Files
  <2>h. {active, waiting, activating} \subseteq Releases \cup {0}
    BY DEF Typed, Releases
  <2>i. Whole(active)' /\ Whole(waiting)' /\ Whole(activating)'
    BY <2>a, <2>g, <2>h DEF Whole
  <2> QED
    BY <2>d, <2>e, <2>f, <2>i
<1> QED
  BY <1>1, <1>2

LEMMA ShellStep ==
  ASSUME MaxRelease \in Nat \ {0}
  PROVE  ShellInv /\ [Next]_vars => ShellInv'
<1> SUFFICES ASSUME ShellInv, [Next]_vars PROVE ShellInv'
  OBVIOUS
<1>1. CASE Deploy \/ Network
  BY <1>1, WorldKeepsShell
<1>2. CASE Install \/ InstallFails \/ \E f \in Shell : FetchShell(f)
  BY <1>2, InstallKeepsShell
<1>3. CASE AddAll
  BY <1>3, AddAllKeepsShell
<1>4. CASE TakeOver \/ Activate
  BY <1>4, TakeOverKeepsShell, ActivateKeepsShell
<1>5. CASE (\E f \in Files : FetchMiss(f)) \/ \E p \in puts : Put(p)
  BY <1>5, MissKeepsShell
<1>6. CASE UNCHANGED vars
  BY <1>6 DEF vars, workers, ShellInv, Typed, Newer, Aged, AskedFirst, Whole, PutsAged
<1> QED
  BY <1>1, <1>2, <1>3, <1>4, <1>5, <1>6 DEF Next

LEMMA WholeOffline ==
  ASSUME MaxRelease \in Nat \ {0}
  PROVE  ShellInv => OfflineIsWhole
BY MatchIsCurrent DEF OfflineIsWhole

(* Off the network the game is whole and not older than its worker (the     *)
(* install, activate and fetch handlers of sw.js), for every shell, unless   *)
(* an older release, activating meanwhile, deleted the cache.                *)
THEOREM ShellStaysWhole ==
  ASSUME MaxRelease \in Nat \ {0}
  PROVE  Spec => []OfflineIsWhole
BY ShellInit, ShellStep, WholeOffline, PTL DEF Spec

---------------------------------------------------------------------------
(* The caches have different names, however often one is opened.            *)

LEMMA OpenedOnce ==
  ASSUME NEW s \in Seq(Releases), IsInjective(s), NEW n \in Releases
  PROVE  IsInjective(Opened(s, n))
<1>1. CASE n \in Range(s)
  BY <1>1 DEF Opened
<1>2. CASE n \notin Range(s)
  <2> DEFINE t == Append(s, n)
  <2>a. /\ DOMAIN t = 1..Len(s) + 1 /\ DOMAIN s = 1..Len(s) /\ Len(s) \in Nat
        /\ \A i \in 1..Len(s) : t[i] = s[i]
        /\ t[Len(s) + 1] = n
    OBVIOUS
  <2> HIDE DEF t
  <2>b. \A i \in DOMAIN s : s[i] # n
    BY <1>2 DEF Range
  <2>c. IsInjective(t)
    <3> SUFFICES ASSUME NEW i \in DOMAIN t, NEW j \in DOMAIN t, t[i] = t[j] PROVE i = j
      BY DEF IsInjective
    <3>1. CASE i \in DOMAIN s /\ j \in DOMAIN s
      BY <2>a, <3>1 DEF IsInjective
    <3>2. CASE i \notin DOMAIN s \/ j \notin DOMAIN s
      BY <2>a, <2>b, <3>2
    <3> QED
      BY <3>1, <3>2
  <2> QED
    BY <1>2, <2>c DEF Opened, t
<1> QED
  BY <1>1, <1>2

LEMMA NamesStayApart ==
  ASSUME MaxRelease \in Nat \ {0}, ShellInv, IsInjective(caches), [Next]_vars
  PROVE  IsInjective(caches)'
<1>0. server \in Releases /\ caches \in Seq(Releases)
  BY DEF ShellInv, Typed
<1>1. CASE Install
  BY <1>0, <1>1, OpenedOnce DEF Install
<1>2. CASE Activate
  <2>a. caches' = <<activating>> \/ caches' = <<>>
    BY <1>2 DEF Activate
  <2> QED
    BY <2>a DEF IsInjective
<1>3. ASSUME NEW p \in puts, Put(p) PROVE IsInjective(caches)'
  <2>a. p.name \in Releases
    BY DEF ShellInv, PutsAged
  <2> QED
    BY <1>0, <1>3, <2>a, OpenedOnce DEF Put
<1>4. ASSUME caches' = caches PROVE IsInjective(caches)'
  BY <1>4 DEF IsInjective
<1> QED
  BY <1>1, <1>2, <1>3, <1>4
  DEF Next, Deploy, Network, InstallFails, AddAll, TakeOver, FetchShell, FetchMiss, vars

LEMMA ShellTyped ==
  ASSUME MaxRelease \in Nat \ {0}, ShellInv, IsInjective(caches)
  PROVE  TypeOK
<1>1. Range(caches) \subseteq Releases
  <2>a. caches \in Seq(Releases)
    BY DEF ShellInv, Typed
  <2> QED
    BY <2>a DEF Range
<1>2. /\ content \in [Releases \X Files -> 0..MaxRelease] /\ server \in Releases
      /\ active \in 0..server /\ waiting \in 0..server /\ activating \in 0..server
      /\ swept \subseteq Releases
  BY DEF ShellInv, Typed
<1>3. ASSUME NEW k \in Releases \X Files, content[k] # 0 PROVE k[1] \in Range(caches)
  <2>a. k = <<k[1], k[2]>> /\ k[1] \in Releases /\ k[2] \in Files
    OBVIOUS
  <2> QED
    BY <1>3, <2>a DEF ShellInv, Aged
<1>4. /\ \A k \in DOMAIN content : content[k] \in 0..MaxRelease
      /\ active \in 0..MaxRelease /\ waiting \in 0..MaxRelease
      /\ activating \in 0..MaxRelease
  BY <1>2 DEF Releases
<1> QED
  BY <1>1, <1>2, <1>3, <1>4 DEF TypeOK

(* What is stored is in a cache there is, and no cache is there twice       *)
(* (install, activate, the put of a late answer).                           *)
THEOREM TypeCorrect ==
  ASSUME MaxRelease \in Nat \ {0}
  PROVE  Spec => []TypeOK
<1>1. Init => IsInjective(caches)
  BY DEF Init, IsInjective
<1> QED
  BY <1>1, ShellInit, ShellStep, NamesStayApart, ShellTyped, PTL DEF Spec
=============================================================================
