------------------------- MODULE UmbraProgressProofs -------------------------
(***************************************************************************)
(* Proofs about what a player of umbra owns and how it is earned, for every *)
(* tale, price list and storage, and whatever profile is imported: the tale *)
(* is told in order, nothing earned is only in memory, nothing is paid      *)
(* twice, and fights are completed by winning them.                         *)
(***************************************************************************)
EXTENDS UmbraProgress, TLAPS

---------------------------------------------------------------------------
(* Profiles and what the handlers make of them.                             *)

(* A profile is sound when it tells the tale in order and its stipend was   *)
(* paid at most once, and not before the graduation.                        *)
Fields == {"completed", "arenas", "fighters", "ember", "owned", "equipped", "levels",
           "wins", "trials", "graduated", "paid"}
Shaped(p) ==
  /\ p = [f \in Fields |-> p[f]]
  /\ p.paid \in [DOMAIN Trials \cup {"stipend"} -> Nat]
OneStipend(p) == p.paid["stipend"] <= 1 /\ (~p.graduated => p.paid["stipend"] = 0)
Sound(p) == Shaped(p) /\ ToldInOrder(p) /\ OneStipend(p)

(* A trial that is not claimed was not paid, one that is was paid once.     *)
OneOfEach(p) ==
  \A t \in DOMAIN Trials : p.paid[t] <= 1 /\ (t \notin p.trials => p.paid[t] = 0)

(* Two profiles of the same deeds: they differ in what was spent on what.   *)
SameDeeds(p, q) ==
  /\ Shaped(q)
  /\ q.completed = p.completed /\ q.arenas = p.arenas /\ q.fighters = p.fighters
  /\ q.trials = p.trials /\ q.graduated = p.graduated /\ q.paid = p.paid

LEMMA SameDeedsSound ==
  ASSUME NEW p, NEW q, SameDeeds(p, q)
  PROVE  (Sound(p) => Sound(q)) /\ (OneOfEach(p) => OneOfEach(q))
BY DEF SameDeeds, Sound, ToldInOrder, OneStipend, OneOfEach

(* migrateProfile changes no deed, and nothing at all the second time.      *)
LEMMA MigrateFields ==
  ASSUME NEW p, p = [f \in Fields |-> p[f]]
  PROVE  /\ Migrate(p) = [f \in Fields |-> Migrate(p)[f]]
         /\ Migrate(p).completed = p.completed /\ Migrate(p).arenas = p.arenas \cup {0}
         /\ Migrate(p).fighters = p.fighters \cup {"kaito"}
         /\ Migrate(p).ember = Smaller(p.ember, MaxEmber)
         /\ Migrate(p).owned = p.owned \cup {"fists"}
         /\ Migrate(p).equipped = (IF p.equipped \in p.owned THEN p.equipped ELSE "fists")
         /\ Migrate(p).levels = Capped(p.levels)
         /\ Migrate(p).wins = p.wins /\ Migrate(p).trials = p.trials
         /\ Migrate(p).graduated = p.graduated /\ Migrate(p).paid = p.paid
<1>1. Migrate(p) = [f \in Fields |-> Migrate(p)[f]]
  BY Zenon DEF Migrate
<1>2. DOMAIN p = Fields
  BY Zenon
<1>3. Migrate(p).completed = p.completed
  BY <1>2 DEF Migrate, Fields
<1>4. Migrate(p).arenas = p.arenas \cup {0}
  BY <1>2 DEF Migrate, Fields
<1>5. Migrate(p).fighters = p.fighters \cup {"kaito"}
  BY <1>2 DEF Migrate, Fields
<1>6. Migrate(p).ember = Smaller(p.ember, MaxEmber)
  BY <1>2 DEF Migrate, Fields
<1>7. Migrate(p).owned = p.owned \cup {"fists"}
  BY <1>2 DEF Migrate, Fields
<1>8. Migrate(p).equipped = (IF p.equipped \in p.owned THEN p.equipped ELSE "fists")
  BY <1>2 DEF Migrate, Fields
<1>9. Migrate(p).levels = Capped(p.levels)
  BY <1>2 DEF Migrate, Fields
<1>10. /\ Migrate(p).wins = p.wins /\ Migrate(p).trials = p.trials
       /\ Migrate(p).graduated = p.graduated /\ Migrate(p).paid = p.paid
  BY <1>2 DEF Migrate, Fields
<1> QED
  BY <1>1, <1>3, <1>4, <1>5, <1>6, <1>7, <1>8, <1>9, <1>10

(* migrateProfile changes no deed, and nothing at all the second time.      *)
LEMMA MigrateOnce ==
  ASSUME NEW p, Sound(p)
  PROVE  SameDeeds(p, Migrate(p)) /\ Migrate(Migrate(p)) = Migrate(p)
<1> DEFINE q == Migrate(p)
           r == Migrate(q)
<1>1. 0 \in p.arenas /\ "kaito" \in p.fighters
  BY DEF Sound, ToldInOrder
<1>2. SameDeeds(p, q)
  <2>a. p = [f \in Fields |-> p[f]] /\ p.paid \in [DOMAIN Trials \cup {"stipend"} -> Nat]
    BY DEF Sound, Shaped
  <2>b. p.arenas \cup {0} = p.arenas /\ p.fighters \cup {"kaito"} = p.fighters
    BY <1>1
  <2> QED
    BY <2>a, <2>b, MigrateFields, Zenon DEF Shaped, SameDeeds
<1>3. Capped(Capped(p.levels)) = Capped(p.levels)
  BY DEF Capped, Smaller
<1>4. \A f \in Fields : r[f] = q[f]
  <2> HIDE DEF q, r
  <2>a. /\ q.completed = p.completed /\ q.arenas = p.arenas \cup {0}
        /\ q.fighters = p.fighters \cup {"kaito"} /\ q.ember = Smaller(p.ember, MaxEmber)
        /\ q.owned = p.owned \cup {"fists"}
        /\ q.equipped = (IF p.equipped \in p.owned THEN p.equipped ELSE "fists")
        /\ q.levels = Capped(p.levels)
    BY MigrateFields DEF q, Sound, Shaped
  <2>b. /\ r.completed = q.completed /\ r.arenas = q.arenas \cup {0}
        /\ r.fighters = q.fighters \cup {"kaito"} /\ r.ember = Smaller(q.ember, MaxEmber)
        /\ r.owned = q.owned \cup {"fists"}
        /\ r.equipped = (IF q.equipped \in q.owned THEN q.equipped ELSE "fists")
        /\ r.levels = Capped(q.levels) /\ r.wins = q.wins /\ r.trials = q.trials
        /\ r.graduated = q.graduated /\ r.paid = q.paid
    BY <1>2, MigrateFields DEF q, r, SameDeeds, Shaped
  <2>c. r.ember = q.ember
    BY <2>a, <2>b DEF Smaller
  <2>d. r.equipped = q.equipped /\ r.owned = q.owned
    BY <2>a, <2>b
  <2>e. r.levels = q.levels /\ r.arenas = q.arenas /\ r.fighters = q.fighters
    BY <1>3, <2>a, <2>b
  <2> QED
    BY <2>b, <2>c, <2>d, <2>e DEF Fields
<1>5. q = [f \in Fields |-> q[f]] /\ r = [f \in Fields |-> r[f]]
  BY <1>2, MigrateFields DEF SameDeeds, Shaped
<1>6. r = q
  <2> HIDE DEF q, r
  <2> QED
    BY <1>4, <1>5
<1> QED
  BY <1>2, <1>6

(* What is earned, bought, equipped or trained is no deed.                  *)
LEMMA SpendingIsNoDeed ==
  ASSUME NEW p, Shaped(p), NEW e
  PROVE  /\ SameDeeds(p, [p EXCEPT !.ember = e])
         /\ \A w : SameDeeds(p, [p EXCEPT !.ember = e, !.wins = w])
         /\ \A o, w : SameDeeds(p, [p EXCEPT !.ember = e, !.owned = o, !.equipped = w])
         /\ \A w : SameDeeds(p, [p EXCEPT !.equipped = w])
         /\ \A t, l : SameDeeds(p, [p EXCEPT !.ember = e, !.levels[t] = l])
<1>1. p = [f \in Fields |-> p[f]] /\ DOMAIN p = Fields
  BY Zenon DEF Shaped
<1>2. SameDeeds(p, [p EXCEPT !.ember = e])
  BY <1>1 DEF Shaped, SameDeeds, Fields
<1>3. ASSUME NEW w PROVE SameDeeds(p, [p EXCEPT !.ember = e, !.wins = w])
  BY <1>1 DEF Shaped, SameDeeds, Fields
<1>4. ASSUME NEW o, NEW w
      PROVE SameDeeds(p, [p EXCEPT !.ember = e, !.owned = o, !.equipped = w])
  BY <1>1 DEF Shaped, SameDeeds, Fields
<1>5. ASSUME NEW w PROVE SameDeeds(p, [p EXCEPT !.equipped = w])
  BY <1>1 DEF Shaped, SameDeeds, Fields
<1>6. ASSUME NEW t, NEW l PROVE SameDeeds(p, [p EXCEPT !.ember = e, !.levels[t] = l])
  BY <1>1 DEF Shaped, SameDeeds, Fields
<1> QED
  BY <1>2, <1>3, <1>4, <1>5, <1>6

(* A purse cut to what can be held is the same once it is stored.           *)
LEMMA ShortIsTheSame ==
  ASSUME NEW p, Shaped(p)
  PROVE  Migrate([p EXCEPT !.ember = Smaller(p.ember, MaxEmber)]) = Migrate(p)
<1> DEFINE s == [p EXCEPT !.ember = Smaller(p.ember, MaxEmber)]
           q == Migrate(p)
           r == Migrate(s)
<1>1. p = [f \in Fields |-> p[f]] /\ DOMAIN p = Fields
  BY Zenon DEF Shaped
<1>2. /\ s = [f \in Fields |-> s[f]]
      /\ s.completed = p.completed /\ s.arenas = p.arenas /\ s.fighters = p.fighters
      /\ s.ember = Smaller(p.ember, MaxEmber) /\ s.owned = p.owned
      /\ s.equipped = p.equipped /\ s.levels = p.levels /\ s.wins = p.wins
      /\ s.trials = p.trials /\ s.graduated = p.graduated /\ s.paid = p.paid
  BY <1>1 DEF Fields
<1> HIDE DEF s
<1>3. /\ q = [f \in Fields |-> q[f]]
      /\ q.completed = p.completed /\ q.arenas = p.arenas \cup {0}
      /\ q.fighters = p.fighters \cup {"kaito"} /\ q.ember = Smaller(p.ember, MaxEmber)
      /\ q.owned = p.owned \cup {"fists"}
      /\ q.equipped = (IF p.equipped \in p.owned THEN p.equipped ELSE "fists")
      /\ q.levels = Capped(p.levels) /\ q.wins = p.wins /\ q.trials = p.trials
      /\ q.graduated = p.graduated /\ q.paid = p.paid
  BY <1>1, MigrateFields
<1>4. /\ r = [f \in Fields |-> r[f]]
      /\ r.completed = s.completed /\ r.arenas = s.arenas \cup {0}
      /\ r.fighters = s.fighters \cup {"kaito"} /\ r.ember = Smaller(s.ember, MaxEmber)
      /\ r.owned = s.owned \cup {"fists"}
      /\ r.equipped = (IF s.equipped \in s.owned THEN s.equipped ELSE "fists")
      /\ r.levels = Capped(s.levels) /\ r.wins = s.wins /\ r.trials = s.trials
      /\ r.graduated = s.graduated /\ r.paid = s.paid
  BY <1>2, MigrateFields
<1> HIDE DEF q, r
<1>5. r.ember = q.ember
  BY <1>2, <1>3, <1>4 DEF Smaller
<1>6. \A f \in Fields : r[f] = q[f]
  BY <1>2, <1>3, <1>4, <1>5 DEF Fields
<1>7. r = q
  BY <1>3, <1>4, <1>6
<1> QED
  BY <1>7 DEF q, r, s

(* The graduation pays a profile that was not graduated, and marks it.      *)
LEMMA GraduateSound ==
  ASSUME "stipend" \notin DOMAIN Trials, NEW p, Sound(p), NEW out
  PROVE  /\ Sound(Graduate(p, out)) /\ Graduate(p, out).trials = p.trials
         /\ Graduate(p, out).completed = p.completed
         /\ OneOfEach(p) => OneOfEach(Graduate(p, out))
<1>1. CASE ~(bout.mode = "tutorial" /\ out = "win" /\ ~p.graduated)
  BY <1>1 DEF Graduate
<1>2. CASE bout.mode = "tutorial" /\ out = "win" /\ ~p.graduated
  <2> DEFINE q == [p EXCEPT !.graduated = TRUE, !.ember = @ + Stipend,
                            !.paid["stipend"] = @ + 1]
  <2>a. Graduate(p, out) = q
    BY <1>2 DEF Graduate
  <2>b. p = [f \in Fields |-> p[f]] /\ DOMAIN p = Fields
    BY Zenon DEF Sound, Shaped
  <2>c. /\ q = [f \in Fields |-> q[f]]
        /\ q.graduated = TRUE /\ q.paid = [p.paid EXCEPT !["stipend"] = p.paid["stipend"] + 1]
        /\ q.completed = p.completed /\ q.arenas = p.arenas /\ q.fighters = p.fighters
        /\ q.trials = p.trials
    BY <2>b DEF Fields
  <2> HIDE DEF q
  <2>d. p.paid \in [DOMAIN Trials \cup {"stipend"} -> Nat] /\ p.paid["stipend"] = 0
    BY <1>2 DEF Sound, Shaped, OneStipend
  <2>e. /\ q.paid \in [DOMAIN Trials \cup {"stipend"} -> Nat] /\ q.paid["stipend"] = 1
        /\ \A t \in DOMAIN Trials : q.paid[t] = p.paid[t]
    BY <2>c, <2>d
  <2>f. ToldInOrder(q)
    BY <2>c DEF Sound, ToldInOrder
  <2>g. Sound(q)
    BY <2>c, <2>e, <2>f DEF Sound, Shaped, OneStipend
  <2>h. OneOfEach(p) => OneOfEach(q)
    BY <2>c, <2>e DEF OneOfEach
  <2> QED
    BY <2>a, <2>c, <2>g, <2>h
<1> QED
  BY <1>1, <1>2

LEMMA RewardedSound ==
  ASSUME "stipend" \notin DOMAIN Trials, NEW p, Sound(p), NEW out
  PROVE  /\ Sound(Rewarded(p, out)) /\ Rewarded(p, out).trials = p.trials
         /\ Rewarded(p, out).completed = p.completed
         /\ OneOfEach(p) => OneOfEach(Rewarded(p, out))
         /\ Sound(Awarded(p, out)) /\ (OneOfEach(p) => OneOfEach(Awarded(p, out)))
<1> DEFINE q == [p EXCEPT !.ember = @ + Award(p, out),
                          !.wins = IF out = "win" THEN @ + 1 ELSE @]
<1>1. SameDeeds(p, q)
  BY SpendingIsNoDeed, Zenon DEF Sound
<1>2. Sound(q) /\ (OneOfEach(p) => OneOfEach(q)) /\ q.trials = p.trials
      /\ q.completed = p.completed
  BY <1>1, SameDeedsSound, Zenon DEF SameDeeds
<1>3. Rewarded(p, out) \in {p, Graduate(q, out)} /\ Awarded(p, out) \in {p, q}
  BY DEF Rewarded, Awarded
<1> HIDE DEF q
<1> QED
  BY <1>2, <1>3, GraduateSound

(* claimTrials pays what the bout did not begin with.                       *)
LEMMA ClaimSound ==
  ASSUME "stipend" \notin DOMAIN Trials, NEW p, Sound(p), NEW done \in SUBSET DOMAIN Trials
  PROVE  /\ Sound(ClaimTrials(p, done))
         /\ ClaimTrials(p, done).completed = p.completed
         /\ ClaimTrials(p, done).trials = p.trials \cup (done \ claimed)
         /\ OneOfEach(p) /\ p.trials \subseteq claimed => OneOfEach(ClaimTrials(p, done))
<1> DEFINE new == done \ claimed
           q == [p EXCEPT !.trials = @ \cup new, !.ember = @ + RewardOf(new),
                          !.paid = Credited(@, new)]
<1>1. ClaimTrials(p, done) = q
  BY DEF ClaimTrials
<1>2. p = [f \in Fields |-> p[f]] /\ DOMAIN p = Fields
  BY Zenon DEF Sound, Shaped
<1>3. /\ q = [f \in Fields |-> q[f]]
      /\ q.graduated = p.graduated /\ q.paid = Credited(p.paid, new)
      /\ q.completed = p.completed /\ q.arenas = p.arenas /\ q.fighters = p.fighters
      /\ q.trials = p.trials \cup new
  BY <1>2 DEF Fields
<1> HIDE DEF q
<1>4. p.paid \in [DOMAIN Trials \cup {"stipend"} -> Nat]
  BY DEF Sound, Shaped
<1>5. /\ q.paid \in [DOMAIN Trials \cup {"stipend"} -> Nat]
      /\ q.paid["stipend"] = p.paid["stipend"]
      /\ \A t \in DOMAIN Trials : q.paid[t] = IF t \in new THEN p.paid[t] + 1 ELSE p.paid[t]
  BY <1>3, <1>4 DEF Credited
<1>6. ToldInOrder(q)
  BY <1>3 DEF Sound, ToldInOrder
<1>7. Sound(q)
  BY <1>3, <1>5, <1>6 DEF Sound, Shaped, OneStipend
<1>8. OneOfEach(p) /\ p.trials \subseteq claimed => OneOfEach(q)
  BY <1>3, <1>4, <1>5 DEF OneOfEach
<1> QED
  BY <1>1, <1>3, <1>7, <1>8

(* storyCursor of a tale told in order is the node after the last one.      *)
LEMMA CursorIsNext ==
  ASSUME Len(Nodes) \in Nat, NEW p, NEW k \in 0..Len(Nodes), p.completed = 1..k
  PROVE  Cursor(p) = k + 1
<1>1. /\ k + 1 \in 1..Len(Nodes) + 1
      /\ k + 1 \notin p.completed /\ \A m \in 1..k + 1 - 1 : m \in p.completed
  OBVIOUS
<1>2. ASSUME NEW n \in 1..Len(Nodes) + 1, n \notin p.completed,
             \A m \in 1..n - 1 : m \in p.completed
      PROVE  n = k + 1
  <2>a. ~(n <= k)
    BY <1>2
  <2>b. ~(n > k + 1)
    <3> SUFFICES ASSUME n > k + 1 PROVE FALSE
      OBVIOUS
    <3>1. k + 1 \in 1..n - 1
      OBVIOUS
    <3> QED
      BY <1>2, <3>1
  <2> QED
    BY <2>a, <2>b
<1> QED
  BY <1>1, <1>2 DEF Cursor

(* Only the node at the cursor is completed, with what it unlocks.          *)
LEMMA WithNodeSound ==
  ASSUME Len(Nodes) \in Nat, Sound(profile), NEW n, Complete(n)
  PROVE  /\ Sound(WithNode(profile, n)) /\ WithNode(profile, n).trials = profile.trials
         /\ WithNode(profile, n).completed = profile.completed \cup {n}
         /\ OneOfEach(profile) => OneOfEach(WithNode(profile, n))
<1> DEFINE q == WithNode(profile, n)
<1>1. profile = [f \in Fields |-> profile[f]] /\ DOMAIN profile = Fields
  BY Zenon DEF Sound, Shaped
<1>2. /\ q = [f \in Fields |-> q[f]]
      /\ q.graduated = profile.graduated /\ q.paid = profile.paid /\ q.trials = profile.trials
      /\ q.completed = profile.completed \cup {n}
      /\ q.arenas = profile.arenas \cup Nodes[n].arenas
      /\ q.fighters = profile.fighters \cup Nodes[n].fighters
  BY <1>1 DEF WithNode, Fields
<1> HIDE DEF q
<1>3. PICK k \in 0..Len(Nodes) : profile.completed = 1..k
  BY DEF Sound, ToldInOrder
<1>4. n = k + 1 /\ n \in 0..Len(Nodes)
  BY <1>3, CursorIsNext DEF Complete, Chain
<1>5. q.completed = 1..n
  <2>a. 1..k + 1 = (1..k) \cup {k + 1}
    OBVIOUS
  <2> QED
    BY <1>2, <1>3, <1>4, <2>a
<1>6. ToldInOrder(q)
  <2> DEFINE c == profile.completed
  <2> HIDE DEF c
  <2>a. q.arenas = {0} \cup UNION {Nodes[m].arenas : m \in q.completed}
    <3>1. profile.arenas = {0} \cup UNION {Nodes[m].arenas : m \in c} /\ q.completed = c \cup {n}
      BY <1>2 DEF Sound, ToldInOrder, c
    <3>2. UNION {Nodes[m].arenas : m \in c \cup {n}}
            = (UNION {Nodes[m].arenas : m \in c}) \cup Nodes[n].arenas
      OBVIOUS
    <3> QED
      BY <1>2, <3>1, <3>2
  <2>b. q.fighters = {"kaito"} \cup UNION {Nodes[m].fighters : m \in q.completed}
    <3>1. profile.fighters = {"kaito"} \cup UNION {Nodes[m].fighters : m \in c}
          /\ q.completed = c \cup {n}
      BY <1>2 DEF Sound, ToldInOrder, c
    <3>2. UNION {Nodes[m].fighters : m \in c \cup {n}}
            = (UNION {Nodes[m].fighters : m \in c}) \cup Nodes[n].fighters
      OBVIOUS
    <3> QED
      BY <1>2, <3>1, <3>2
  <2> QED
    BY <1>4, <1>5, <2>a, <2>b DEF ToldInOrder
<1>7. Sound(q)
  BY <1>2, <1>6 DEF Sound, Shaped, OneStipend
<1>8. OneOfEach(profile) => OneOfEach(q)
  BY <1>2 DEF OneOfEach
<1> QED
  BY <1>2, <1>7, <1>8 DEF q

(* All profiles there are; what is stored is as migrateProfile leaves it.   *)
Profiles == {profile, stored} \cup backups \cup reading
BankInv == (\A p \in Profiles : Sound(p)) /\ stored = Migrate(stored) /\ EarnedIsStored

(* While a bout is fought the trials already claimed are remembered: what   *)
(* an import in the middle of it breaks.                                    *)
PayInv ==
  ~swapped => /\ \A p \in Profiles : OneOfEach(p)
              /\ fight = "live" => profile.trials \subseteq claimed

LEMMA BankInit ==
  ASSUME Len(Nodes) \in Nat, MaxEmber \in Nat, MaxLevel \in Nat, "stipend" \notin DOMAIN Trials
  PROVE  Init => BankInv /\ PayInv
<1> SUFFICES ASSUME Init PROVE BankInv /\ PayInv
  OBVIOUS
<1> DEFINE d == DefaultProfile
<1>1. /\ d = [f \in Fields |-> d[f]] /\ DOMAIN d = Fields
  BY Zenon DEF DefaultProfile, Fields
<1>2. /\ d.completed = {} /\ d.arenas = {0} /\ d.fighters = {"kaito"} /\ d.ember = 0
      /\ d.owned = {"fists"} /\ d.equipped = "fists" /\ d.levels = [t \in Tracks |-> 0]
      /\ d.graduated = FALSE /\ d.trials = {}
      /\ d.paid = [r \in DOMAIN Trials \cup {"stipend"} |-> 0]
  BY DEF DefaultProfile
<1> HIDE DEF d
<1>3. Sound(d) /\ OneOfEach(d)
  <2>a. ToldInOrder(d)
    <3>1. 0 \in 0..Len(Nodes) /\ 1..0 = {}
      OBVIOUS
    <3> QED
      BY <1>2, <3>1 DEF ToldInOrder
  <2>b. Shaped(d)
    <3>1. d.paid \in [DOMAIN Trials \cup {"stipend"} -> Nat]
      BY <1>2
    <3> QED
      BY <1>1, <3>1, Zenon DEF Shaped
  <2>c. OneStipend(d) /\ OneOfEach(d)
    BY <1>2 DEF OneStipend, OneOfEach
  <2> QED
    BY <2>a, <2>b, <2>c DEF Sound
<1>4. Migrate(d) = d
  <2>a. Smaller(0, MaxEmber) = 0 /\ Smaller(0, MaxLevel) = 0
    BY DEF Smaller
  <2> DEFINE q == Migrate(d)
  <2>b. /\ q = [f \in Fields |-> q[f]]
        /\ q.completed = d.completed /\ q.arenas = d.arenas \cup {0}
        /\ q.fighters = d.fighters \cup {"kaito"} /\ q.ember = Smaller(d.ember, MaxEmber)
        /\ q.owned = d.owned \cup {"fists"}
        /\ q.equipped = (IF d.equipped \in d.owned THEN d.equipped ELSE "fists")
        /\ q.levels = Capped(d.levels) /\ q.wins = d.wins /\ q.trials = d.trials
        /\ q.graduated = d.graduated /\ q.paid = d.paid
    BY <1>1, MigrateFields
  <2> HIDE DEF q
  <2>c. Capped(d.levels) = d.levels
    BY <1>2, <2>a DEF Capped
  <2>d. \A f \in Fields : q[f] = d[f]
    BY <1>2, <2>a, <2>b, <2>c DEF Fields
  <2>e. q = d
    BY <1>1, <2>b, <2>d
  <2> QED
    BY <2>e DEF q
<1> QED
  BY <1>3, <1>4 DEF Init, BankInv, PayInv, Profiles, EarnedIsStored, d

(* A handler that leaves the played profile sound, and the stored one as it *)
(* was or as the played one, breaks nothing; what is claimed is remembered  *)
(* anew when a bout starts, and kept while it is fought.                    *)
Remembered ==
  fight' = "live" => claimed' = profile.trials \/ (fight = "live" /\ claimed' = claimed)

LEMMA BankingStep ==
  ASSUME BankInv, PayInv, NEW q, Sound(q), OneOfEach(profile) => OneOfEach(q),
         q.trials = profile.trials, profile' = q,
         stored' \in {stored, Migrate(q)}, synced' => stored' = Migrate(q),
         backups' \cup reading' \subseteq backups \cup reading, swapped' = swapped, Remembered
  PROVE  BankInv' /\ PayInv'
<1>1. /\ Sound(Migrate(q)) /\ Migrate(Migrate(q)) = Migrate(q)
      /\ OneOfEach(q) => OneOfEach(Migrate(q))
  BY MigrateOnce, SameDeedsSound
<1>2. Profiles' \subseteq Profiles \cup {q, Migrate(q)}
  BY DEF Profiles
<1>3. BankInv'
  <2>a. \A p \in Profiles' : Sound(p)
    BY <1>1, <1>2 DEF BankInv
  <2>b. stored' = Migrate(stored')
    BY <1>1 DEF BankInv
  <2> QED
    BY <2>a, <2>b DEF BankInv, EarnedIsStored
<1>4. PayInv'
  <2> SUFFICES ASSUME ~swapped
               PROVE  /\ \A p \in Profiles' : OneOfEach(p)
                      /\ fight' = "live" => profile'.trials \subseteq claimed'
    BY DEF PayInv
  <2>a. \A p \in Profiles : OneOfEach(p)
    BY DEF PayInv
  <2>b. OneOfEach(q) /\ OneOfEach(Migrate(q))
    BY <1>1, <2>a DEF Profiles
  <2>c. fight' = "live" => profile'.trials \subseteq claimed'
    BY DEF PayInv, Remembered
  <2> QED
    BY <1>2, <2>a, <2>b, <2>c
<1> QED
  BY <1>3, <1>4

LEMMA QuietStep ==
  ASSUME BankInv, PayInv, Unpersisted,
         backups' \cup reading' \subseteq backups \cup reading, swapped' = swapped, Remembered
  PROVE  BankInv' /\ PayInv'
<1>1. Sound(profile)
  BY DEF BankInv, Profiles
<1> QED
  BY <1>1, BankingStep DEF Unpersisted, BankInv, EarnedIsStored

LEMMA BecomeStep ==
  ASSUME BankInv, PayInv, NEW q, Sound(q), OneOfEach(profile) => OneOfEach(q),
         q.trials = profile.trials, Become(q), UNCHANGED files, Remembered
  PROVE  BankInv' /\ PayInv'
<1>1. profile' = q /\ stored' \in {stored, Migrate(q)} /\ (synced' => stored' = Migrate(q))
  BY DEF Become, Persist
<1>2. backups' \cup reading' \subseteq backups \cup reading /\ swapped' = swapped
  BY DEF files
<1> QED
  BY <1>1, <1>2, BankingStep

(* The screens, and the bouts as they begin.                                *)
LEMMA ScreensBank ==
  ASSUME BankInv, PayInv,
         \/ \E s \in Menus : Navigate(s)
         \/ LeaveSettings \/ Rebind \/ TogglePause \/ Rematch
         \/ \E m \in {"versus", "dojo", "tutorial"}, boss \in BOOLEAN : Fight(m, boss)
         \/ PlayScene \/ NextLine
  PROVE  BankInv' /\ PayInv'
<1>1. Unpersisted /\ UNCHANGED files
  BY DEF Navigate, LeaveSettings, Rebind, TogglePause, Rematch, Fight, PlayScene, NextLine,
     Unpersisted, files
<1>2. Remembered
  <2>a. CASE \/ \E s \in Menus : Navigate(s)
             \/ LeaveSettings \/ Rebind \/ TogglePause \/ NextLine
    BY <2>a DEF Navigate, LeaveSettings, Rebind, TogglePause, NextLine, Show, ui, Remembered
  <2>b. CASE Rematch \/ \E m \in {"versus", "dojo", "tutorial"}, boss \in BOOLEAN : Fight(m, boss)
    BY <2>b DEF Rematch, Fight, StartFight, Remembered
  <2>c. CASE PlayScene
    BY <2>c DEF PlayScene, Follow, StartFight, Remembered
  <2> QED
    BY <2>a, <2>b, <2>c
<1> QED
  BY <1>1, <1>2, QuietStep DEF files

(* The scenes and victories that are banked.                                *)
LEMMA StoryBank ==
  ASSUME Len(Nodes) \in Nat, BankInv, PayInv, FinishScene \/ ContinueStory
  PROVE  BankInv' /\ PayInv'
<1>1. Sound(profile) /\ UNCHANGED files
  BY DEF BankInv, Profiles, FinishScene, ContinueStory, files
<1>2. Remembered
  BY DEF FinishScene, ContinueStory, Follow, StartFight, Remembered
<1>3. \/ Unpersisted
      \/ \E n : Complete(n) /\ Become(WithNode(profile, n))
  BY DEF FinishScene, ContinueStory
<1>4. CASE Unpersisted
  BY <1>1, <1>2, <1>4, QuietStep DEF files
<1>5. ASSUME NEW n, Complete(n), Become(WithNode(profile, n))
      PROVE BankInv' /\ PayInv'
  BY <1>1, <1>2, <1>5, WithNodeSound, BecomeStep
<1> QED
  BY <1>3, <1>4, <1>5

(* A purchase banks a profile of the same deeds; one that cannot be paid    *)
(* for leaves at most a purse cut to what can be held.                      *)
LEMMA PurchasesAreNoDeed ==
  ASSUME Shaped(profile),
         \/ \E w \in DOMAIN Weapons : BuyWeapon(w)
         \/ \E w \in DOMAIN Weapons \cup {"fists"} : Equip(w)
         \/ \E t \in Tracks : BuyUpgrade(t)
  PROVE  \/ \E q : SameDeeds(profile, q) /\ Become(q)
         \/ profile' = [profile EXCEPT !.ember = Funds] /\ UNCHANGED <<stored, synced>>
<1>1. ASSUME NEW w, BuyWeapon(w)
      PROVE \/ \E q : SameDeeds(profile, q) /\ Become(q)
            \/ profile' = [profile EXCEPT !.ember = Funds] /\ UNCHANGED <<stored, synced>>
  BY <1>1, SpendingIsNoDeed, Zenon DEF BuyWeapon
<1>2. ASSUME NEW w, Equip(w) PROVE \E q : SameDeeds(profile, q) /\ Become(q)
  BY <1>2, SpendingIsNoDeed, Zenon DEF Equip
<1>3. ASSUME NEW t, BuyUpgrade(t)
      PROVE \/ \E q : SameDeeds(profile, q) /\ Become(q)
            \/ profile' = [profile EXCEPT !.ember = Funds] /\ UNCHANGED <<stored, synced>>
  BY <1>3, SpendingIsNoDeed, Zenon DEF BuyUpgrade
<1> QED
  BY <1>1, <1>2, <1>3

(* The shop.                                                                *)
LEMMA ShopBank ==
  ASSUME BankInv, PayInv,
         \/ \E w \in DOMAIN Weapons : BuyWeapon(w)
         \/ \E w \in DOMAIN Weapons \cup {"fists"} : Equip(w)
         \/ \E t \in Tracks : BuyUpgrade(t)
  PROVE  BankInv' /\ PayInv'
<1>1. Sound(profile) /\ Shaped(profile) /\ UNCHANGED files
  BY DEF BankInv, Profiles, Sound, BuyWeapon, Equip, BuyUpgrade, files
<1>2. Remembered
  BY DEF BuyWeapon, Equip, BuyUpgrade, ui, Remembered
<1> DEFINE short == [profile EXCEPT !.ember = Funds]
<1>3. \/ \E q : SameDeeds(profile, q) /\ Become(q)
      \/ profile' = short /\ UNCHANGED <<stored, synced>>
  BY <1>1, PurchasesAreNoDeed
<1>4. ASSUME NEW q, SameDeeds(profile, q), Become(q) PROVE BankInv' /\ PayInv'
  <2>a. Sound(q) /\ (OneOfEach(profile) => OneOfEach(q)) /\ q.trials = profile.trials
    BY <1>1, <1>4, SameDeedsSound DEF SameDeeds
  <2> QED
    BY <1>1, <1>2, <1>4, <2>a, BecomeStep
<1>5. CASE profile' = short /\ UNCHANGED <<stored, synced>>
  <2>a. SameDeeds(profile, short)
    BY <1>1, SpendingIsNoDeed, Zenon
  <2>b. Sound(short) /\ (OneOfEach(profile) => OneOfEach(short)) /\ short.trials = profile.trials
    BY <1>1, <2>a, SameDeedsSound DEF SameDeeds
  <2>c. Migrate(short) = Migrate(profile)
    BY <1>1, ShortIsTheSame DEF Funds
  <2> QED
    BY <1>1, <1>2, <1>5, <2>b, <2>c, BankingStep DEF BankInv, EarnedIsStored, files
<1> QED
  BY <1>3, <1>4, <1>5

(* Backups, imports and reloads bring back what was sound when it was made. *)
LEMMA FilesBank ==
  ASSUME BankInv, PayInv,
         Export \/ (\E b \in backups : ChooseFile(b)) \/ \E b \in reading : FileRead(b)
  PROVE  BankInv' /\ PayInv'
<1>1. CASE Export
  <2>a. /\ profile' = profile /\ stored' = stored /\ synced' = synced
        /\ Profiles' = Profiles \cup {Migrate(profile)}
        /\ UNCHANGED <<fight, claimed, swapped>>
    BY <1>1 DEF Export, Unpersisted, ui, Profiles
  <2>b. Sound(Migrate(profile)) /\ (OneOfEach(profile) => OneOfEach(Migrate(profile)))
    BY MigrateOnce, SameDeedsSound DEF BankInv, Profiles
  <2>c. profile \in Profiles
    BY DEF Profiles
  <2> QED
    BY <2>a, <2>b, <2>c DEF BankInv, PayInv, EarnedIsStored
<1>2. ASSUME NEW b \in backups, ChooseFile(b) PROVE BankInv' /\ PayInv'
  <2>a. Unpersisted /\ swapped' = swapped
        /\ backups' \cup reading' \subseteq backups \cup reading
    BY <1>2 DEF ChooseFile
  <2>b. Remembered
    BY <1>2 DEF ChooseFile, ui, Remembered
  <2> QED
    BY <2>a, <2>b, QuietStep
<1>3. ASSUME NEW b \in reading, FileRead(b) PROVE BankInv' /\ PayInv'
  <2> DEFINE q == Migrate(b)
  <2>a. Sound(b) /\ (~swapped => OneOfEach(b))
    BY DEF BankInv, PayInv, Profiles
  <2>b. /\ Sound(q) /\ (OneOfEach(b) => OneOfEach(q)) /\ Migrate(q) = q
    BY <2>a, MigrateOnce, SameDeedsSound
  <2>c. /\ profile' = q /\ stored' \in {stored, q} /\ (synced' => stored' = q)
        /\ swapped' = (swapped \/ fight # "none") /\ fight' = fight
        /\ reading' \subseteq reading /\ backups' = backups
    BY <1>3, <2>b DEF FileRead, Imported, Become, Persist, ui
  <2> HIDE DEF q
  <2>d. Profiles' \subseteq Profiles \cup {q}
    BY <2>c DEF Profiles
  <2>e. BankInv'
    BY <2>b, <2>c, <2>d DEF BankInv, EarnedIsStored
  <2>f. PayInv'
    BY <2>a, <2>b, <2>c, <2>d DEF PayInv
  <2> QED
    BY <2>e, <2>f
<1> QED
  BY <1>1, <1>2, <1>3

LEMMA ReloadBank ==
  ASSUME BankInv, PayInv, Reload
  PROVE  BankInv' /\ PayInv'
<1>1. /\ profile' = stored /\ stored' = stored /\ fight' = "none" /\ swapped' = swapped
      /\ Profiles' \subseteq Profiles
  BY DEF Reload, BankInv, Profiles
<1> QED
  BY <1>1 DEF BankInv, PayInv, EarnedIsStored

(* A tick: the award, the graduation, the trials; all stored, or the award  *)
(* alone, or nothing.                                                       *)
LEMMA TickBank ==
  ASSUME "stipend" \notin DOMAIN Trials, BankInv, PayInv,
         NEW out, NEW done \in SUBSET DOMAIN Trials, Tick(out, done)
  PROVE  BankInv' /\ PayInv'
<1> DEFINE earned == Rewarded(profile, out)
           all == IF done = {} THEN earned ELSE ClaimTrials(earned, done)
           first == Awarded(profile, out)
<1>1. Sound(profile) /\ profile \in Profiles
  BY DEF BankInv, Profiles
<1>2. /\ Sound(earned) /\ earned.trials = profile.trials
      /\ OneOfEach(profile) => OneOfEach(earned)
      /\ Sound(first) /\ (OneOfEach(profile) => OneOfEach(first))
  BY <1>1, RewardedSound
<1>3. /\ Sound(all) /\ all.trials \subseteq profile.trials \cup done
      /\ OneOfEach(profile) /\ profile.trials \subseteq claimed => OneOfEach(all)
  <2> HIDE DEF earned
  <2> QED
    BY <1>2, ClaimSound
<1>4. /\ Sound(Migrate(all)) /\ Migrate(Migrate(all)) = Migrate(all)
      /\ OneOfEach(all) => OneOfEach(Migrate(all))
  <2> HIDE DEF all
  <2> QED
    BY <1>3, MigrateOnce, SameDeedsSound
<1>5. /\ Sound(Migrate(first)) /\ Migrate(Migrate(first)) = Migrate(first)
      /\ OneOfEach(first) => OneOfEach(Migrate(first))
  <2> HIDE DEF first
  <2> QED
    BY <1>2, MigrateOnce, SameDeedsSound
<1>6. /\ profile' = all
      /\ stored' \in {stored, Migrate(all), Migrate(first)}
      /\ synced' => stored' = Migrate(all)
  BY DEF Tick, Become, Persist, Unpersisted, BankInv, EarnedIsStored
<1>7. fight = "live" /\ claimed' = claimed \cup done /\ UNCHANGED <<reading, backups, swapped>>
  BY DEF Tick, files
<1> HIDE DEF all, earned, first
<1>8. Profiles' \subseteq Profiles \cup {all, Migrate(all), Migrate(first)}
  BY <1>6, <1>7 DEF Profiles
<1>9. BankInv'
  BY <1>3, <1>4, <1>5, <1>6, <1>8 DEF BankInv, EarnedIsStored
<1>10. PayInv'
  BY <1>1, <1>2, <1>3, <1>4, <1>5, <1>6, <1>7, <1>8 DEF PayInv
<1> QED
  BY <1>9, <1>10

LEMMA BankStep ==
  ASSUME Len(Nodes) \in Nat, "stipend" \notin DOMAIN Trials
  PROVE  BankInv /\ PayInv /\ [Next]_vars => BankInv' /\ PayInv'
<1> SUFFICES ASSUME BankInv, PayInv, [Next]_vars PROVE BankInv' /\ PayInv'
  OBVIOUS
<1>1. CASE UNCHANGED vars
  BY <1>1 DEF vars, BankInv, PayInv, Profiles, EarnedIsStored
<1> QED
  BY <1>1, ScreensBank, StoryBank, ShopBank, FilesBank, ReloadBank, TickBank DEF Next

(* What the two invariants say of the profile and of what is stored.        *)
LEMMA BankedInOrder == BankInv => StoryInOrder
BY DEF BankInv, Profiles, Sound, StoryInOrder

LEMMA BankedOnce == BankInv /\ PayInv => RewardsPaidOnce
BY DEF BankInv, PayInv, Profiles, Sound, OneStipend, OneOfEach, RewardsPaidOnce

(* The tale is told in order (completeNode, applyStoryUnlocks), whatever is *)
(* imported, refused or reloaded.                                           *)
THEOREM TaleIsInOrder ==
  ASSUME Len(Nodes) \in Nat, MaxEmber \in Nat, MaxLevel \in Nat, "stipend" \notin DOMAIN Trials
  PROVE  Spec => []StoryInOrder
BY BankInit, BankStep, BankedInOrder, PTL DEF Spec

(* Nothing earned is only in memory (persistProfile after every handler).   *)
THEOREM NothingOnlyInMemory ==
  ASSUME Len(Nodes) \in Nat, MaxEmber \in Nat, MaxLevel \in Nat, "stipend" \notin DOMAIN Trials
  PROVE  Spec => []EarnedIsStored
<1>1. BankInv => EarnedIsStored
  BY DEF BankInv
<1> QED
  BY BankInit, BankStep, <1>1, PTL DEF Spec

(* The stipend and the trials are paid once (graduate, claimTrials), the    *)
(* trials unless a profile arrives during a bout.                           *)
THEOREM NothingPaidTwice ==
  ASSUME Len(Nodes) \in Nat, MaxEmber \in Nat, MaxLevel \in Nat, "stipend" \notin DOMAIN Trials
  PROVE  Spec => []RewardsPaidOnce
BY BankInit, BankStep, BankedOnce, PTL DEF Spec

(* After a fight of the tale comes a scene: the Continue button opens what  *)
(* follows as a dialogue, whatever it is.                                   *)
ScenesBetween ==
  \A n \in Chain : n + 1 \in Chain /\ Nodes[n].kind = "fight" => Nodes[n + 1].kind # "fight"

(* The open dialogue is that of a scene, a story bout that of a fight.      *)
IsScene(n) == n \in Chain /\ Nodes[n].kind # "fight"
IsFight(n) == n \in Chain /\ Nodes[n].kind = "fight"
SceneInv ==
  /\ dialogue \in [node : 0..Len(Nodes), lines : Nat]
  /\ dialogue.lines > 0 => IsScene(dialogue.node)
  /\ bout.mode = "story" => IsFight(bout.node)

LEMMA SceneInit ==
  ASSUME Len(Nodes) \in Nat
  PROVE  Init => SceneInv
BY DEF Init, SceneInv, Closed, NoBout

LEMMA FollowScene ==
  ASSUME Len(Nodes) \in Nat, SceneInv, NEW n \in 1..Len(Nodes) + 1, Follow(n)
  PROVE  SceneInv'
BY DEF Follow, StartFight, OpenDialogue, Closed, SceneInv, IsScene, IsFight, Chain

LEMMA SceneStep ==
  ASSUME Len(Nodes) \in Nat, ScenesBetween
  PROVE  BankInv /\ SceneInv /\ [Next]_vars => SceneInv'
<1> SUFFICES ASSUME BankInv, SceneInv, [Next]_vars PROVE SceneInv'
  OBVIOUS
<1>1. CASE UNCHANGED <<bout, dialogue>>
  BY <1>1 DEF SceneInv
<1>2. CASE dialogue' = Closed /\ bout' \in {bout, NoBout}
  BY <1>2 DEF SceneInv, Closed, NoBout
<1>3. CASE (\E s \in Menus : Navigate(s)) \/ LeaveSettings
  BY <1>2, <1>3 DEF Navigate, LeaveSettings, Show
<1>4. CASE Rebind \/ TogglePause \/ Export \/ (\E b \in backups : ChooseFile(b))
           \/ (\E b \in reading : FileRead(b)) \/ (\E w \in DOMAIN Weapons : BuyWeapon(w))
           \/ (\E w \in DOMAIN Weapons \cup {"fists"} : Equip(w))
           \/ (\E t \in Tracks : BuyUpgrade(t)) \/ UNCHANGED vars
           \/ (\E out \in {"live"} \cup Outcomes, done \in SUBSET DOMAIN Trials : Tick(out, done))
  BY <1>1, <1>4 DEF Rebind, TogglePause, Export, ChooseFile, FileRead, BuyWeapon, Equip,
     BuyUpgrade, Tick, ui, vars
<1>5. CASE Rematch
  BY <1>5 DEF Rematch, StartFight, SceneInv
<1>6. ASSUME NEW m \in {"versus", "dojo", "tutorial"}, NEW boss, Fight(m, boss) PROVE SceneInv'
  BY <1>6 DEF Fight, StartFight, SceneInv
<1>7. CASE PlayScene
  BY <1>7, FollowScene DEF PlayScene, Chain
<1>8. CASE NextLine
  <2>a. /\ dialogue' \in [node : 0..Len(Nodes), lines : Nat] /\ dialogue'.node = dialogue.node
        /\ dialogue.lines > 0 /\ bout' = bout
    BY <1>8 DEF NextLine, SceneInv
  <2> QED
    BY <2>a DEF SceneInv
<1>9. CASE FinishScene
  <2>a. CASE Complete(dialogue.node)
    BY <1>9, <2>a, FollowScene DEF FinishScene, Complete, Chain
  <2>b. CASE ~Complete(dialogue.node)
    BY <1>2, <1>9, <2>b DEF FinishScene
  <2> QED
    BY <2>a, <2>b
<1>10. CASE ContinueStory
  <2>a. CASE dialogue' = Closed
    BY <1>2, <1>10, <2>a DEF ContinueStory
  <2>b. CASE OpenDialogue(bout.node + 1) /\ bout.node # Len(Nodes)
    <3>1. bout' = bout /\ IsFight(bout.node)
      BY <1>10 DEF ContinueStory, MayContinue, SceneInv
    <3>2. IsScene(bout.node + 1) /\ bout.node + 1 \in 0..Len(Nodes)
      BY <2>b, <3>1 DEF IsFight, IsScene, ScenesBetween, Chain
    <3> QED
      BY <2>b, <3>1, <3>2 DEF OpenDialogue, SceneInv
  <2> QED
    BY <1>10, <2>a, <2>b DEF ContinueStory
<1>11. CASE Reload
  BY <1>2, <1>11 DEF Reload
<1> QED
  BY <1>3, <1>4, <1>5, <1>6, <1>7, <1>8, <1>9, <1>10, <1>11 DEF Next

(* Only a scene's end, a victory, an import and a reload complete nodes.    *)
LEMMA VictoryNeeded ==
  ASSUME Len(Nodes) \in Nat, "stipend" \notin DOMAIN Trials, BankInv, SceneInv, [Next]_vars
  PROVE  VictoryStep
<1>1. Sound(profile) /\ Shaped(profile)
  BY DEF BankInv, Profiles, Sound
<1>2. CASE profile'.completed = profile.completed
  BY <1>2 DEF VictoryStep
<1>3. CASE Unpersisted
  BY <1>2, <1>3 DEF Unpersisted
<1>4. CASE \/ \E s \in Menus : Navigate(s)
           \/ LeaveSettings \/ Rebind \/ TogglePause \/ Rematch
           \/ \E m \in {"versus", "dojo", "tutorial"}, boss \in BOOLEAN : Fight(m, boss)
           \/ PlayScene \/ NextLine \/ Export \/ (\E b \in backups : ChooseFile(b))
           \/ UNCHANGED vars
  BY <1>3, <1>4 DEF Navigate, LeaveSettings, Rebind, TogglePause, Rematch, Fight, PlayScene,
     NextLine, Export, ChooseFile, Unpersisted, vars
<1>5. ASSUME NEW out, NEW done \in SUBSET DOMAIN Trials, Tick(out, done) PROVE VictoryStep
  <2> DEFINE earned == Rewarded(profile, out)
             all == IF done = {} THEN earned ELSE ClaimTrials(earned, done)
  <2>a. Sound(earned) /\ earned.completed = profile.completed
    BY <1>1, RewardedSound
  <2>b. all.completed = profile.completed
    <3> HIDE DEF earned
    <3> QED
      BY <2>a, ClaimSound
  <2>c. profile' \in {profile, all}
    BY <1>5 DEF Tick, Become, Unpersisted
  <2> HIDE DEF all
  <2> QED
    BY <1>2, <2>b, <2>c
<1>6. CASE \/ \E w \in DOMAIN Weapons : BuyWeapon(w)
           \/ \E w \in DOMAIN Weapons \cup {"fists"} : Equip(w)
           \/ \E t \in Tracks : BuyUpgrade(t)
  <2>a. \/ \E q : SameDeeds(profile, q) /\ profile' = q
        \/ profile' = [profile EXCEPT !.ember = Funds]
    BY <1>1, <1>6, PurchasesAreNoDeed, Zenon DEF Become
  <2>b. SameDeeds(profile, [profile EXCEPT !.ember = Funds])
    BY <1>1, SpendingIsNoDeed, Zenon
  <2> QED
    BY <1>2, <2>a, <2>b, Zenon DEF SameDeeds
<1>7. CASE FinishScene
  <2>a. CASE Complete(dialogue.node)
    <3>1. profile'.completed = profile.completed \cup {dialogue.node}
      BY <1>1, <1>7, <2>a, WithNodeSound DEF FinishScene, Become
    <3>2. Nodes[dialogue.node].kind # "fight"
      BY <1>7 DEF FinishScene, SceneInv, IsScene
    <3> QED
      BY <3>1, <3>2 DEF VictoryStep
  <2>b. CASE ~Complete(dialogue.node)
    BY <1>3, <1>7, <2>b DEF FinishScene
  <2> QED
    BY <2>a, <2>b
<1>8. CASE ContinueStory
  <2>a. CASE Complete(bout.node)
    <3>1. profile'.completed = profile.completed \cup {bout.node}
      BY <1>1, <1>8, <2>a, WithNodeSound DEF ContinueStory, Become
    <3> QED
      BY <1>8, <3>1 DEF ContinueStory, MayContinue, VictoryStep
  <2>b. CASE ~Complete(bout.node)
    BY <1>3, <1>8, <2>b DEF ContinueStory
  <2> QED
    BY <2>a, <2>b
<1>9. ASSUME NEW b \in reading, FileRead(b) PROVE VictoryStep
  <2>a. profile' = Migrate(b) /\ Sound(b)
    BY <1>9 DEF FileRead, Imported, Become, BankInv, Profiles
  <2>b. profile'.completed = b.completed
    BY <2>a, MigrateOnce DEF SameDeeds
  <2> QED
    BY <2>b DEF VictoryStep
<1>10. CASE Reload
  BY <1>10 DEF Reload, BankInv, VictoryStep
<1> QED
  BY <1>4, <1>5, <1>6, <1>7, <1>8, <1>9, <1>10 DEF Next

(* A fight of the tale is completed by winning it (continueStory), as long  *)
(* as no two fights of the tale follow each other: validateStory does not   *)
(* look at that.                                                            *)
THEOREM VictoriesOnly ==
  ASSUME Len(Nodes) \in Nat, MaxEmber \in Nat, MaxLevel \in Nat, "stipend" \notin DOMAIN Trials,
         ScenesBetween
  PROVE  Spec => OnlyVictoryCounts
<1>1. BankInv /\ SceneInv /\ [Next]_vars => [VictoryStep]_vars
  BY VictoryNeeded
<1> QED
  BY BankInit, BankStep, SceneInit, SceneStep, <1>1, PTL DEF Spec, OnlyVictoryCounts

---------------------------------------------------------------------------
(* What kind of thing a profile and a screen is.                            *)

(* What is earned and paid is counted in whole numbers.                     *)
Tariff ==
  /\ WinPay \in Nat /\ OtherPay \in Nat /\ BossPay \in Nat /\ JackpotPay \in Nat
  /\ Stipend \in Nat /\ TrainingCost \in Nat /\ MaxEmber \in Nat /\ MaxLevel \in Nat
  /\ JackpotEvery \in Nat \ {0}
  /\ \A w \in DOMAIN Weapons : Weapons[w] \in Nat
  /\ \A new \in SUBSET DOMAIN Trials : RewardOf(new) \in Nat

Counted(p) ==
  /\ p.ember \in Nat /\ p.wins \in Nat /\ p.levels \in [Tracks -> 0..MaxLevel]
  /\ p.trials \subseteq DOMAIN Trials
CountInv == \A p \in Profiles : Counted(p)

LEMMA MigrateCounted ==
  ASSUME Tariff, NEW p, Shaped(p), Counted(p)
  PROVE  Counted(Migrate(p))
<1> DEFINE q == Migrate(p)
<1>1. /\ q.ember = Smaller(p.ember, MaxEmber) /\ q.levels = Capped(p.levels)
      /\ q.wins = p.wins /\ q.trials = p.trials
  BY MigrateFields DEF Shaped
<1>2. q.ember \in Nat
  BY <1>1 DEF Counted, Tariff, Smaller
<1>3. q.levels \in [Tracks -> 0..MaxLevel]
  <2>a. \A t \in Tracks : Smaller(p.levels[t], MaxLevel) \in 0..MaxLevel
    BY DEF Counted, Tariff, Smaller
  <2> QED
    BY <1>1, <2>a DEF Capped
<1> HIDE DEF q
<1>4. Counted(q)
  BY <1>1, <1>2, <1>3 DEF Counted
<1> QED
  BY <1>4 DEF q

(* What a handler may set, set to something of its kind.                    *)
LEMMA SpendingCounted ==
  ASSUME NEW p, Shaped(p), Counted(p), NEW e \in Nat
  PROVE  /\ Counted([p EXCEPT !.ember = e])
         /\ \A w \in Nat : Counted([p EXCEPT !.ember = e, !.wins = w])
         /\ \A o, w : Counted([p EXCEPT !.ember = e, !.owned = o, !.equipped = w])
         /\ \A w : Counted([p EXCEPT !.equipped = w])
         /\ \A t \in Tracks, l \in 0..MaxLevel :
              Counted([p EXCEPT !.ember = e, !.levels[t] = l])
<1>1. p = [f \in Fields |-> p[f]] /\ DOMAIN p = Fields
  BY Zenon DEF Shaped
<1>2. Counted([p EXCEPT !.ember = e])
  BY <1>1 DEF Counted, Fields
<1>3. ASSUME NEW w \in Nat PROVE Counted([p EXCEPT !.ember = e, !.wins = w])
  BY <1>1 DEF Counted, Fields
<1>4. ASSUME NEW o, NEW w PROVE Counted([p EXCEPT !.ember = e, !.owned = o, !.equipped = w])
  BY <1>1 DEF Counted, Fields
<1>5. ASSUME NEW w PROVE Counted([p EXCEPT !.equipped = w])
  BY <1>1 DEF Counted, Fields
<1>6. ASSUME NEW t \in Tracks, NEW l \in 0..MaxLevel
      PROVE  Counted([p EXCEPT !.ember = e, !.levels[t] = l])
  BY <1>1 DEF Counted, Fields
<1> QED
  BY <1>2, <1>3, <1>4, <1>5, <1>6

LEMMA RewardedCounted ==
  ASSUME Tariff, NEW p, Sound(p), Counted(p), NEW out
  PROVE  Counted(Rewarded(p, out)) /\ Counted(Awarded(p, out))
<1> DEFINE e == p.ember + Award(p, out)
           w == IF out = "win" THEN p.wins + 1 ELSE p.wins
           q == [p EXCEPT !.ember = @ + Award(p, out),
                          !.wins = IF out = "win" THEN @ + 1 ELSE @]
           g == [q EXCEPT !.graduated = TRUE, !.ember = @ + Stipend,
                          !.paid["stipend"] = @ + 1]
<1>1. Award(p, out) \in Nat
  BY DEF Award, Tariff, Counted
<1>2. e \in Nat /\ w \in Nat
  BY <1>1 DEF Counted
<1>3. Counted(q)
  BY <1>2, SpendingCounted, Zenon DEF Sound
<1>4. Shaped(q)
  BY SpendingIsNoDeed, Zenon DEF Sound, SameDeeds
<1> HIDE DEF q
<1>5. Counted(g)
  <2>a. q = [f \in Fields |-> q[f]] /\ DOMAIN q = Fields
    BY <1>4, Zenon DEF Shaped
  <2>b. /\ g.ember = q.ember + Stipend /\ g.wins = q.wins /\ g.levels = q.levels
        /\ g.trials = q.trials
    BY <2>a DEF Fields
  <2> HIDE DEF g
  <2> QED
    BY <1>3, <2>b DEF Counted, Tariff
<1>6. Rewarded(p, out) \in {p, q, g} /\ Awarded(p, out) \in {p, q}
  BY DEF Rewarded, Awarded, Graduate, q
<1> HIDE DEF g
<1> QED
  BY <1>3, <1>5, <1>6

LEMMA ClaimCounted ==
  ASSUME Tariff, NEW p, Sound(p), Counted(p), NEW done \in SUBSET DOMAIN Trials
  PROVE  Counted(ClaimTrials(p, done))
<1> DEFINE new == done \ claimed
           q == [p EXCEPT !.trials = @ \cup new, !.ember = @ + RewardOf(new),
                          !.paid = Credited(@, new)]
<1>1. p = [f \in Fields |-> p[f]] /\ DOMAIN p = Fields
  BY Zenon DEF Sound, Shaped
<1>2. /\ q.ember = p.ember + RewardOf(new) /\ q.wins = p.wins /\ q.levels = p.levels
      /\ q.trials = p.trials \cup new
  BY <1>1 DEF Fields
<1>3. RewardOf(new) \in Nat
  BY DEF Tariff
<1> HIDE DEF q
<1>4. Counted(q)
  BY <1>2, <1>3 DEF Counted
<1> QED
  BY <1>4 DEF ClaimTrials, q

LEMMA WithNodeCounted ==
  ASSUME Sound(profile), Counted(profile), NEW n
  PROVE  Counted(WithNode(profile, n))
<1> DEFINE q == WithNode(profile, n)
<1>1. profile = [f \in Fields |-> profile[f]] /\ DOMAIN profile = Fields
  BY Zenon DEF Sound, Shaped
<1>2. /\ q.ember = profile.ember /\ q.wins = profile.wins /\ q.levels = profile.levels
      /\ q.trials = profile.trials
  BY <1>1 DEF WithNode, Fields
<1> HIDE DEF q
<1> QED
  BY <1>2 DEF Counted, q

LEMMA CountInit ==
  ASSUME Tariff
  PROVE  Init => CountInv
<1> DEFINE d == DefaultProfile
<1>1. d.ember = 0 /\ d.wins = 0 /\ d.levels = [t \in Tracks |-> 0] /\ d.trials = {}
  BY DEF DefaultProfile
<1> HIDE DEF d
<1>2. Counted(d)
  BY <1>1 DEF Counted, Tariff
<1> QED
  BY <1>2 DEF Init, CountInv, Profiles, d

(* A handler that plays a counted profile and stores a counted one.         *)
LEMMA BecomeCounted ==
  ASSUME Tariff, BankInv, CountInv, NEW q, Sound(q), Counted(q), Become(q),
         backups' \cup reading' \subseteq backups \cup reading
  PROVE  CountInv'
<1>1. profile' = q /\ stored' \in {stored, Migrate(q)}
  BY DEF Become, Persist
<1>2. Counted(Migrate(q))
  BY MigrateCounted DEF Sound
<1>3. Profiles' \subseteq Profiles \cup {q, Migrate(q)}
  BY <1>1 DEF Profiles
<1> QED
  BY <1>2, <1>3 DEF CountInv

LEMMA ShopCounted ==
  ASSUME Tariff, BankInv, CountInv,
         \/ \E w \in DOMAIN Weapons : BuyWeapon(w)
         \/ \E w \in DOMAIN Weapons \cup {"fists"} : Equip(w)
         \/ \E t \in Tracks : BuyUpgrade(t)
  PROVE  CountInv'
<1>1. Sound(profile) /\ Shaped(profile) /\ Counted(profile)
      /\ backups' \cup reading' \subseteq backups \cup reading
  BY DEF BankInv, CountInv, Profiles, Sound, BuyWeapon, Equip, BuyUpgrade, files
<1>2. Funds \in Nat /\ Funds <= profile.ember
  BY <1>1 DEF Funds, Tariff, Counted, Smaller
<1>3. ASSUME NEW q, SameDeeds(profile, q), Counted(q), Become(q) PROVE CountInv'
  <2>a. Sound(q)
    BY <1>1, <1>3, SameDeedsSound
  <2> QED
    BY <1>1, <1>3, <2>a, BecomeCounted
<1>4. CASE profile' = [profile EXCEPT !.ember = Funds] /\ UNCHANGED <<stored, synced>>
  <2>a. Counted(profile')
    BY <1>1, <1>2, <1>4, SpendingCounted, Zenon
  <2>b. Profiles' \subseteq Profiles \cup {profile'}
    BY <1>1, <1>4 DEF Profiles
  <2> QED
    BY <2>a, <2>b DEF CountInv
<1>5. ASSUME NEW w \in DOMAIN Weapons, BuyWeapon(w) PROVE CountInv'
  <2> DEFINE q == [profile EXCEPT !.ember = Funds - Weapons[w],
                                  !.owned = @ \cup {w}, !.equipped = w]
  <2>a. CASE Funds >= Weapons[w]
    <3>1. Funds - Weapons[w] \in Nat
      BY <1>2, <2>a DEF Tariff
    <3>2. SameDeeds(profile, q) /\ Counted(q)
      BY <1>1, <3>1, SpendingIsNoDeed, SpendingCounted, Zenon
    <3>3. Become(q)
      BY <1>5, <2>a DEF BuyWeapon
    <3> HIDE DEF q
    <3> QED
      BY <1>3, <3>2, <3>3
  <2>b. CASE ~(Funds >= Weapons[w])
    BY <1>4, <1>5, <2>b DEF BuyWeapon
  <2> QED
    BY <2>a, <2>b
<1>6. ASSUME NEW w, Equip(w) PROVE CountInv'
  <2> DEFINE q == [profile EXCEPT !.equipped = w]
  <2>a. SameDeeds(profile, q) /\ Counted(q)
    BY <1>1, <1>2, SpendingIsNoDeed, SpendingCounted, Zenon
  <2>b. Become(q)
    BY <1>6 DEF Equip
  <2> HIDE DEF q
  <2> QED
    BY <1>3, <2>a, <2>b
<1>7. ASSUME NEW t \in Tracks, BuyUpgrade(t) PROVE CountInv'
  <2> DEFINE level == profile.levels[t]
             cost == TrainingCost * (level + 1)
             q == [profile EXCEPT !.ember = Funds - cost, !.levels[t] = @ + 1]
  <2>a. level \in 0..MaxLevel /\ level < MaxLevel /\ MaxLevel \in Nat
    BY <1>1, <1>7 DEF BuyUpgrade, Counted, Tariff
  <2>b. level + 1 \in 0..MaxLevel
    BY <2>a
  <2>c. cost \in Nat
    BY <2>a DEF Tariff
  <2>d. CASE Funds >= cost
    <3>1. Funds - cost \in Nat
      <4> HIDE DEF cost
      <4> QED
        BY <1>2, <2>c, <2>d
    <3>2. SameDeeds(profile, q) /\ Counted(q)
      BY <1>1, <2>b, <3>1, SpendingIsNoDeed, SpendingCounted, Zenon
    <3>3. Become(q)
      BY <1>7, <2>d DEF BuyUpgrade
    <3> HIDE DEF q
    <3> QED
      BY <1>3, <3>2, <3>3
  <2>e. CASE ~(Funds >= cost)
    BY <1>4, <1>7, <2>e DEF BuyUpgrade
  <2> QED
    BY <2>d, <2>e
<1> QED
  BY <1>5, <1>6, <1>7

LEMMA TickCounted ==
  ASSUME "stipend" \notin DOMAIN Trials, Tariff, BankInv, CountInv,
         NEW out, NEW done \in SUBSET DOMAIN Trials, Tick(out, done)
  PROVE  CountInv'
<1> DEFINE earned == Rewarded(profile, out)
           all == IF done = {} THEN earned ELSE ClaimTrials(earned, done)
           first == Awarded(profile, out)
<1>1. Sound(profile) /\ Counted(profile)
  BY DEF BankInv, CountInv, Profiles
<1>2. Sound(earned) /\ Counted(earned) /\ Sound(first) /\ Counted(first)
  BY <1>1, RewardedSound, RewardedCounted
<1>3. Sound(all) /\ Counted(all)
  <2> HIDE DEF earned, first
  <2> QED
    BY <1>2, ClaimSound, ClaimCounted
<1>4. Counted(Migrate(all)) /\ Counted(Migrate(first))
  <2> HIDE DEF all, earned, first
  <2> QED
    BY <1>2, <1>3, MigrateCounted DEF Sound
<1>5. profile' \in {profile, all} /\ stored' \in {stored, Migrate(all), Migrate(first)}
  BY DEF Tick, Become, Persist, Unpersisted
<1>6. UNCHANGED <<reading, backups>>
  BY DEF Tick, files
<1> HIDE DEF all, earned, first
<1>7. Profiles' \subseteq Profiles \cup {all, Migrate(all), Migrate(first)}
  BY <1>5, <1>6 DEF Profiles
<1> QED
  BY <1>3, <1>4, <1>7 DEF CountInv

LEMMA CountStep ==
  ASSUME Len(Nodes) \in Nat, "stipend" \notin DOMAIN Trials, Tariff
  PROVE  BankInv /\ CountInv /\ [Next]_vars => CountInv'
<1> SUFFICES ASSUME BankInv, CountInv, [Next]_vars PROVE CountInv'
  OBVIOUS
<1>1. CASE Unpersisted /\ UNCHANGED files
  BY <1>1 DEF Unpersisted, files, CountInv, Profiles
<1>2. CASE \/ \E s \in Menus : Navigate(s)
           \/ LeaveSettings \/ Rebind \/ TogglePause \/ Rematch
           \/ \E m \in {"versus", "dojo", "tutorial"}, boss \in BOOLEAN : Fight(m, boss)
           \/ PlayScene \/ NextLine \/ UNCHANGED vars
  BY <1>1, <1>2 DEF Navigate, LeaveSettings, Rebind, TogglePause, Rematch, Fight, PlayScene,
     NextLine, Unpersisted, files, vars
<1>3. CASE FinishScene \/ ContinueStory
  <2>a. Sound(profile) /\ Counted(profile) /\ UNCHANGED files
    BY <1>3 DEF BankInv, CountInv, Profiles, FinishScene, ContinueStory, files
  <2>b. Unpersisted \/ \E n : Complete(n) /\ Become(WithNode(profile, n))
    BY <1>3 DEF FinishScene, ContinueStory
  <2>c. ASSUME NEW n, Complete(n), Become(WithNode(profile, n)) PROVE CountInv'
    BY <2>a, <2>c, WithNodeSound, WithNodeCounted, BecomeCounted DEF files
  <2> QED
    BY <1>1, <2>a, <2>b, <2>c
<1>4. CASE Export
  <2>a. Counted(Migrate(profile))
    BY MigrateCounted DEF BankInv, CountInv, Profiles, Sound
  <2>b. Profiles' = Profiles \cup {Migrate(profile)}
    BY <1>4 DEF Export, Unpersisted, Profiles
  <2> QED
    BY <2>a, <2>b DEF CountInv
<1>5. ASSUME NEW b \in backups, ChooseFile(b) PROVE CountInv'
  <2>a. Profiles' \subseteq Profiles
    BY <1>5 DEF ChooseFile, Unpersisted, Profiles
  <2> QED
    BY <2>a DEF CountInv
<1>6. ASSUME NEW b \in reading, FileRead(b) PROVE CountInv'
  <2> DEFINE q == Migrate(b)
  <2>a. Sound(b) /\ Counted(b)
    BY DEF BankInv, CountInv, Profiles
  <2>b. Counted(q) /\ Sound(q)
    BY <2>a, MigrateCounted, MigrateOnce, SameDeedsSound DEF Sound
  <2>c. Become(q) /\ backups' \cup reading' \subseteq backups \cup reading
    BY <1>6 DEF FileRead, Imported
  <2> HIDE DEF q
  <2> QED
    BY <2>b, <2>c, BecomeCounted
<1>7. CASE Reload
  <2>a. Profiles' \subseteq Profiles
    BY <1>7 DEF Reload, BankInv, Profiles
  <2> QED
    BY <2>a DEF CountInv
<1> QED
  BY <1>2, <1>3, <1>4, <1>5, <1>6, <1>7, ShopCounted, TickCounted DEF Next

(* Where the player is; a bout is begun only before the last one.           *)
PlaceInv ==
  /\ screen \in Menus \cup {"fight"} /\ returnTo \in Menus
  /\ fight \in {"none", "live"} \cup Outcomes
  /\ bout.node \in 0..Len(Nodes) /\ dialogue \in [node : 0..Len(Nodes), lines : 0..2]
  /\ lesson \in 0..Lessons /\ bouts \in 0..MaxBouts
  /\ fight = "live" => bouts < MaxBouts

LEMMA PlaceInit ==
  ASSUME Len(Nodes) \in Nat, MaxBouts \in Nat
  PROVE  Init => PlaceInv
BY DEF Init, PlaceInv, Menus, Closed, NoBout, Lessons

(* A bout that begins, and what follows a node of the tale.                 *)
LEMMA StartPlace ==
  ASSUME Len(Nodes) \in Nat, MaxBouts \in Nat, PlaceInv, bouts < MaxBouts, NEW mode,
         NEW n \in 0..Len(Nodes), NEW b, StartFight(mode, n, b), UNCHANGED bouts,
         dialogue' \in {dialogue, Closed}
  PROVE  PlaceInv'
BY DEF StartFight, PlaceInv, Lessons, Closed

LEMMA FollowPlace ==
  ASSUME Len(Nodes) \in Nat, MaxBouts \in Nat, PlaceInv, bouts < MaxBouts,
         NEW n \in 1..Len(Nodes) + 1, Follow(n), UNCHANGED bouts
  PROVE  PlaceInv'
<1>1. CASE n > Len(Nodes)
  BY <1>1 DEF Follow, Closed, PlaceInv
<1>2. CASE n \in 0..Len(Nodes) /\ Nodes[n].kind = "fight"
  BY <1>2, StartPlace DEF Follow
<1>3. CASE n \in 0..Len(Nodes) /\ Nodes[n].kind # "fight"
  BY <1>3 DEF Follow, OpenDialogue, PlaceInv
<1> QED
  BY <1>1, <1>2, <1>3

LEMMA PlaceStep ==
  ASSUME Len(Nodes) \in Nat, MaxBouts \in Nat
  PROVE  PlaceInv /\ [Next]_vars => PlaceInv'
<1> SUFFICES ASSUME PlaceInv, [Next]_vars PROVE PlaceInv'
  OBVIOUS
<1>1. ASSUME NEW s \in Menus, Navigate(s) PROVE PlaceInv'
  <2>a. screen' \in Menus /\ returnTo' \in Menus
    BY <1>1 DEF Navigate, Show, Links, PlaceInv, Menus
  <2> QED
    BY <1>1, <2>a DEF Navigate, Show, Closed, PlaceInv, Lessons
<1>2. CASE LeaveSettings
  BY <1>2 DEF LeaveSettings, Show, Closed, PlaceInv, Lessons
<1>3. CASE Rebind \/ Export \/ (\E b \in backups : ChooseFile(b))
           \/ (\E b \in reading : FileRead(b)) \/ (\E w \in DOMAIN Weapons : BuyWeapon(w))
           \/ (\E w \in DOMAIN Weapons \cup {"fists"} : Equip(w))
           \/ (\E t \in Tracks : BuyUpgrade(t)) \/ UNCHANGED vars
  <2>a. UNCHANGED <<screen, returnTo, bout, fight, dialogue, lesson, bouts>>
    BY <1>3 DEF Rebind, Export, ChooseFile, FileRead, BuyWeapon, Equip, BuyUpgrade, ui, vars
  <2> QED
    BY <2>a DEF PlaceInv
<1>4. CASE TogglePause
  BY <1>4 DEF TogglePause, PlaceInv
<1>5. CASE Rematch
  BY <1>5, StartPlace DEF Rematch, PlaceInv
<1>6. ASSUME NEW m \in {"versus", "dojo", "tutorial"}, NEW b, Fight(m, b) PROVE PlaceInv'
  BY <1>6, StartPlace DEF Fight
<1>7. ASSUME NEW out \in {"live"} \cup Outcomes, NEW done, Tick(out, done) PROVE PlaceInv'
  <2>a. /\ fight = "live" /\ fight' = out /\ bouts' = (IF out = "live" THEN bouts ELSE bouts + 1)
        /\ UNCHANGED <<screen, returnTo, bout, dialogue>>
    BY <1>7 DEF Tick
  <2>b. lesson' \in {lesson} \cup
                      {l \in {lesson + 1} : l < Lessons \/ (l = Lessons /\ out = "win")}
    BY <1>7 DEF Tick
  <2>c. lesson' \in 0..Lessons
    BY <2>b DEF PlaceInv, Lessons
  <2> QED
    BY <2>a, <2>c DEF PlaceInv, Outcomes
<1>8. CASE PlayScene
  BY <1>8, FollowPlace DEF PlayScene, Chain
<1>9. CASE NextLine
  <2>a. /\ dialogue' \in [node : 0..Len(Nodes), lines : 0..2]
        /\ UNCHANGED <<screen, returnTo, bout, fight, lesson, bouts>>
    BY <1>9 DEF NextLine, PlaceInv
  <2> QED
    BY <2>a DEF PlaceInv
<1>10. CASE FinishScene
  <2>a. CASE Complete(dialogue.node)
    BY <1>10, <2>a, FollowPlace DEF FinishScene, Complete, Chain
  <2>b. CASE ~Complete(dialogue.node)
    BY <1>10, <2>b DEF FinishScene, Closed, PlaceInv
  <2> QED
    BY <2>a, <2>b
<1>11. CASE ContinueStory
  <2>a. dialogue' \in [node : 0..Len(Nodes), lines : 0..2]
    BY <1>11 DEF ContinueStory, Complete, Chain, OpenDialogue, Closed
  <2>b. /\ screen' = "story" /\ fight' = "none" /\ lesson' = 0
        /\ UNCHANGED <<returnTo, bout, bouts>>
    BY <1>11 DEF ContinueStory
  <2> QED
    BY <2>a, <2>b DEF PlaceInv, Menus, Lessons
<1>12. CASE Reload
  BY <1>12 DEF Reload, Closed, NoBout, PlaceInv, Menus, Lessons
<1> QED
  BY <1>1, <1>2, <1>3, <1>4, <1>5, <1>6, <1>7, <1>8, <1>9, <1>10, <1>11, <1>12 DEF Next

LEMMA ProgressTyped ==
  ASSUME Len(Nodes) \in Nat, BankInv, CountInv, PlaceInv
  PROVE  TypeOK
<1>1. ASSUME NEW p \in Profiles PROVE p.completed \subseteq Chain /\ Counted(p)
  <2>a. PICK n \in 0..Len(Nodes) : p.completed = 1..n
    BY DEF BankInv, Sound, ToldInOrder
  <2> QED
    BY <2>a DEF Chain, CountInv
<1>2. dialogue.node \in 0..Len(Nodes)
  BY DEF PlaceInv
<1> QED
  BY <1>1, <1>2 DEF TypeOK, PlaceInv, Counted, Profiles

(* Purses, levels and screens stay what they are, whatever is earned,       *)
(* bought, imported or reloaded: no purchase leaves less than nothing.      *)
THEOREM TypeCorrect ==
  ASSUME Len(Nodes) \in Nat, MaxBouts \in Nat, "stipend" \notin DOMAIN Trials, Tariff
  PROVE  Spec => []TypeOK
<1>1. MaxEmber \in Nat /\ MaxLevel \in Nat
  BY DEF Tariff
<1> QED
  BY <1>1, BankInit, BankStep, CountInit, CountStep, PlaceInit, PlaceStep, ProgressTyped,
     PTL DEF Spec
=============================================================================
