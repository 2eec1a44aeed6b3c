----------------------------- MODULE UmbraInput -----------------------------
(***************************************************************************)
(* How a press becomes an input of the bout in umbra: the keyboard driver,  *)
(* the touch overlay, and the places of app.js that drain or reset them     *)
(* (src/input/, app.js).  The gamepad is polled, so it keeps no queue.      *)
(*                                                                         *)
(* Attack buttons count as edges, queued until a tick takes them; the guard *)
(* and the directions count as levels.  The page gets no key events while   *)
(* it is in the background, so what the hand does and what the driver       *)
(* believes may part.                                                       *)
(***************************************************************************)
EXTENDS Integers, Sequences, SequencesExt, FiniteSets, TLAPS

CONSTANTS
  Actions,       (* Bindable actions.                                       *)
  Codes,         (* Key codes of the keyboard.                              *)
  DefaultCodes,  (* Action -> sequence of codes.                            *)
  Levels,        (* The actions that count while held.                      *)
  MaxQueue       (* Bound: edges queued at once.                            *)

VARIABLES
  bindings,      (* boot.bindings: action -> sequence of codes.             *)
  finger,        (* Codes that are physically down.                         *)
  held, edges,   (* keyboard.state                                          *)
  tap, guard,    (* touch: a latched punch edge, the held guard.            *)
  thumb,         (* A finger rests on the overlay's guard button.           *)
  focused, screen, paused,
  fresh          (* Attacks pressed since the last tick or bout start.      *)

vars == <<bindings, finger, held, edges, tap, guard, thumb, focused, screen,
          paused, fresh>>
keyboard == <<held, edges>>
touch == <<tap, guard, thumb>>
page == <<focused, screen, paused>>

Bound == {c \in Codes : \E a \in Actions : c \in Range(bindings[a])}
ActionOf(c) == CHOOSE a \in Actions : c \in Range(bindings[a])

---------------------------------------------------------------------------
(* The bindings table.                                                      *)

(* validateBindings: every action has codes, and no code is there twice.    *)
Valid(b) ==
  /\ \A a \in Actions :
       b[a] # <<>> /\ Range(b[a]) \subseteq Codes /\ IsInjective(b[a])
  /\ \A a1, a2 \in Actions : a1 # a2 => Range(b[a1]) \cap Range(b[a2]) = {}

(* A row, which holds a code at most once, without that code.               *)
Without(s, c) ==
  LET at == CHOOSE i \in DOMAIN s : s[i] = c
  IN IF c \in Range(s) THEN [i \in 1..Len(s) - 1 |-> s[IF i < at THEN i ELSE i + 1]] ELSE s

(* Mutant: the action that loses the code gets nothing in return.           *)
RebindNoSwap(b, action, code) ==
  [a \in Actions |-> (IF a = action THEN <<code>> ELSE <<>>) \o Without(b[a], code)]

(* rebind: the new code comes first; the action that loses it takes the     *)
(* old first code in its place.                                             *)
Rebind(b, action, code) ==
  LET displaced == Head(b[action])
      donors == {a \in Actions \ {action} : code \in Range(b[a])}
  IN IF code \in Range(b[action]) THEN b
     ELSE [a \in Actions |->
             IF a = action
             THEN <<code>> \o (IF donors = {} THEN b[a] ELSE Without(b[a], displaced))
             ELSE IF a \in donors THEN <<displaced>> \o Without(b[a], code)
             ELSE b[a]]

(* The capture handler of the settings: a new driver replaces the old one,  *)
(* with nothing held; keys still down are known to neither.                 *)
Remap(action, code) ==
  /\ screen = "menu" /\ focused
  /\ code \notin finger
  /\ finger' = finger \cup {code}
  /\ bindings' = Rebind(bindings, action, code)
  /\ held' = {} /\ edges' = <<>>
  /\ UNCHANGED <<touch, page, fresh>>

---------------------------------------------------------------------------
(* The hand.                                                                *)

(* onKeyDown: every bound code is queued, whatever the screen.              *)
KeyDown(c) ==
  /\ c \notin finger
  /\ finger' = finger \cup {c}
  /\ IF focused /\ c \in Bound /\ Len(edges) < MaxQueue
     THEN /\ held' = held \cup {c} /\ edges' = Append(edges, c)
          /\ fresh' = fresh \cup ({ActionOf(c)} \ Levels)
     ELSE UNCHANGED <<keyboard, fresh>>
  /\ UNCHANGED <<bindings, touch, page>>

KeyUp(c) ==
  /\ c \in finger
  /\ finger' = finger \ {c}
  /\ held' = IF focused THEN held \ {c} ELSE held
  /\ UNCHANGED <<bindings, edges, touch, page, fresh>>

TouchTap ==
  /\ screen = "fight" /\ focused /\ ~tap
  /\ tap' = TRUE /\ fresh' = fresh \cup {"punch"}
  /\ UNCHANGED <<bindings, finger, keyboard, guard, thumb, page>>

(* pointerdown, and pointerup or pointercancel, on the guard button; a      *)
(* hidden overlay gets neither.                                             *)
TouchGuard ==
  /\ focused
  /\ thumb \/ screen = "fight"
  /\ thumb' = ~thumb
  /\ guard' = IF screen = "fight" THEN thumb' ELSE guard
  /\ UNCHANGED <<bindings, finger, keyboard, tap, page, fresh>>

---------------------------------------------------------------------------
(* The page.                                                                *)

(* Mutant: only what is queued is dropped.                                  *)
ClearStuckEdges ==
  /\ edges' = <<>> /\ fresh' = {} /\ tap' = FALSE
  /\ UNCHANGED <<held, guard>>

(* clearStuckInputs *)
ClearStuck ==
  /\ held' = {} /\ edges' = <<>> /\ fresh' = {}
  /\ tap' = FALSE /\ guard' = FALSE

(* blur or hidden: a bout pauses and every driver forgets; the system lifts *)
(* the fingers off the overlay.                                             *)
Blur ==
  /\ focused /\ focused' = FALSE
  /\ paused' = (screen = "fight")
  /\ ClearStuck
  /\ thumb' = FALSE
  /\ UNCHANGED <<bindings, finger, screen>>

Focus ==
  /\ ~focused /\ focused' = TRUE
  /\ UNCHANGED <<bindings, finger, keyboard, touch, screen, paused, fresh>>

TogglePause ==
  /\ screen = "fight" /\ focused
  /\ paused' = ~paused
  /\ UNCHANGED <<bindings, finger, keyboard, touch, focused, screen, fresh>>

(* startFight: drainInputs, then every driver is reset.                     *)
StartFight ==
  /\ focused
  /\ screen' = "fight" /\ paused' = FALSE
  /\ ClearStuck
  /\ UNCHANGED <<bindings, finger, thumb, focused>>

(* showScreen of a menu: drainInputs takes the edges of the overlay and     *)
(* leaves its levels.                                                       *)
Leave ==
  /\ screen = "fight" /\ focused
  /\ screen' = "menu" /\ paused' = FALSE
  /\ held' = {} /\ edges' = <<>> /\ fresh' = {} /\ tap' = FALSE
  /\ UNCHANGED <<bindings, finger, guard, thumb, focused>>

(* codesToInput: edges by the bindings in force, levels from what is held.  *)
FromKeys ==
  ({ActionOf(c) : c \in Range(edges)} \ Levels)
  \cup {a \in Levels : Range(bindings[a]) \cap held # {}}
FromTouch == (IF tap THEN {"punch"} ELSE {}) \cup (IF guard THEN {"block"} ELSE {})


(* What a tick hands to the bout: mergeInputs is the union.                 *)
Given == IF screen = "fight" /\ ~paused THEN FromKeys \cup FromTouch ELSE {}

(* Mutant: a pause takes nothing from the drivers.                          *)
TickDrainsLive ==
  /\ screen = "fight"
  /\ IF paused THEN UNCHANGED <<edges, tap>> ELSE edges' = <<>> /\ tap' = FALSE
  /\ fresh' = {}
  /\ UNCHANGED <<bindings, finger, held, guard, thumb, page>>

(* tickFight: every source is drained, whether or not the bout takes it.    *)
Tick ==
  /\ screen = "fight"
  /\ edges' = <<>> /\ tap' = FALSE /\ fresh' = {}
  /\ UNCHANGED <<bindings, finger, held, guard, thumb, page>>

Init ==
  /\ bindings = DefaultCodes
  /\ finger = {} /\ held = {} /\ edges = <<>>
  /\ tap = FALSE /\ guard = FALSE /\ thumb = FALSE
  /\ focused = TRUE /\ screen = "menu" /\ paused = FALSE
  /\ fresh = {}

Next ==
  \/ \E a \in Actions, c \in Codes : Remap(a, c)
  \/ \E c \in Codes : KeyDown(c) \/ KeyUp(c)
  \/ TouchTap \/ TouchGuard
  \/ Blur \/ Focus \/ TogglePause \/ StartFight \/ Leave \/ Tick

Spec == Init /\ [][Next]_vars

---------------------------------------------------------------------------
(* Properties.                                                              *)

TypeOK ==
  /\ Valid(bindings)
  /\ finger \subseteq Codes /\ held \subseteq Codes
  /\ fresh \subseteq Actions \ Levels

(* No key and no button sticks: while the page has the focus, every key the *)
(* driver holds down is down, and a bout guards by touch only under a thumb,*)
(* wherever the fingers were lifted.                                        *)
HeldIsReal ==
  /\ focused => held \subseteq finger
  /\ focused /\ screen = "fight" => (guard => thumb)

(* No stale press fires: an attack reaches the bout in the first tick after *)
(* it was pressed or never, across pauses, screens and rebindings.          *)
PressIsFresh == Given \ Levels \subseteq fresh

---------------------------------------------------------------------------
(* Why they hold, whatever the bindings, the codes and the bounds.          *)

(* A page without the focus believes in nothing: that is what makes the     *)
(* fingers it did not see lifted harmless when the focus comes back.        *)
Forgotten == ~focused => held = {} /\ ~guard
HandInv == HeldIsReal /\ Forgotten

LEMMA HandInit == Init => HandInv
BY DEF Init, HandInv, HeldIsReal, Forgotten

(* Every handler keeps what the driver believes within what the hand does.  *)
LEMMA HandStep == HandInv /\ [Next]_vars => HandInv'
<1> SUFFICES ASSUME HandInv, [Next]_vars PROVE HandInv'
  OBVIOUS
<1> USE DEF HandInv, HeldIsReal, Forgotten
<1>1. ASSUME NEW a \in Actions, NEW c \in Codes, Remap(a, c) PROVE HandInv'
  BY <1>1 DEF Remap, touch, page
<1>2. ASSUME NEW c \in Codes, KeyDown(c) PROVE HandInv'
  BY <1>2 DEF KeyDown, keyboard, touch, page
<1>3. ASSUME NEW c \in Codes, KeyUp(c) PROVE HandInv'
  BY <1>3 DEF KeyUp, touch, page
<1>4. CASE TouchTap
  BY <1>4 DEF TouchTap, keyboard, page
<1>5. CASE TouchGuard
  BY <1>5 DEF TouchGuard, keyboard, page
<1>6. CASE Blur
  BY <1>6 DEF Blur, ClearStuck
<1>7. CASE Focus
  BY <1>7 DEF Focus, keyboard, touch
<1>8. CASE TogglePause
  BY <1>8 DEF TogglePause, keyboard, touch
<1>9. CASE StartFight
  BY <1>9 DEF StartFight, ClearStuck
<1>10. CASE Leave
  BY <1>10 DEF Leave
<1>11. CASE Tick
  BY <1>11 DEF Tick, page
<1>12. CASE UNCHANGED vars
  BY <1>12 DEF vars
<1> QED
  BY <1>1, <1>2, <1>3, <1>4, <1>5, <1>6, <1>7, <1>8, <1>9, <1>10, <1>11, <1>12
  DEF Next

(* No key and no button sticks (blur, clearStuckInputs, drainInputs).       *)
THEOREM NothingSticks == Spec => []HeldIsReal
<1>1. HandInv => HeldIsReal
  BY DEF HandInv
<1> QED
  BY HandInit, HandStep, <1>1, PTL DEF Spec

(* What is queued is fresh: the edges by the bindings of the moment, and    *)
(* the latched tap.                                                         *)
EdgesTyped == edges \in Seq(Codes)
EdgesFresh == {ActionOf(c) : c \in Range(edges)} \ Levels \subseteq fresh
TapFresh == tap => "punch" \in fresh
PressInv == EdgesTyped /\ EdgesFresh /\ TapFresh

LEMMA PressInit == Init => PressInv
BY DEF Init, PressInv, EdgesTyped, EdgesFresh, TapFresh, Range

(* An empty queue holds no stale edge.                                      *)
LEMMA NoEdges ==
  ASSUME edges' = <<>>
  PROVE  EdgesTyped' /\ EdgesFresh'
BY DEF EdgesTyped, EdgesFresh, Range

(* The queue stays fresh while the bindings stay and nothing is forgotten.  *)
LEMMA SameEdges ==
  ASSUME EdgesTyped, EdgesFresh, edges' = edges, bindings' = bindings, fresh \subseteq fresh'
  PROVE  EdgesTyped' /\ EdgesFresh'
<1>1. \A c : ActionOf(c)' = ActionOf(c)
  BY DEF ActionOf
<1> QED
  BY <1>1 DEF EdgesTyped, EdgesFresh

LEMMA PressStep == PressInv /\ [Next]_vars => PressInv'
<1> SUFFICES ASSUME PressInv, [Next]_vars PROVE PressInv'
  OBVIOUS
<1> USE DEF PressInv
<1>1. ASSUME NEW a \in Actions, NEW c \in Codes, Remap(a, c) PROVE PressInv'
  BY <1>1, NoEdges DEF Remap, touch, TapFresh
<1>2. ASSUME NEW c \in Codes, KeyDown(c) PROVE PressInv'
  <2>a. CASE edges' = Append(edges, c) /\ fresh' = fresh \cup ({ActionOf(c)} \ Levels)
    <3>1. EdgesTyped'
      BY <2>a DEF EdgesTyped
    <3>2. Range(edges') = Range(edges) \cup {c}
      BY <2>a DEF EdgesTyped, Range
    <3>3. \A d : ActionOf(d)' = ActionOf(d)
      BY <1>2 DEF KeyDown, ActionOf
    <3>4. EdgesFresh'
      BY <2>a, <3>2, <3>3 DEF EdgesFresh
    <3>5. TapFresh'
      BY <1>2, <2>a DEF KeyDown, touch, TapFresh
    <3> QED
      BY <3>1, <3>4, <3>5
  <2>b. CASE UNCHANGED <<keyboard, fresh>>
    BY <1>2, <2>b, SameEdges DEF KeyDown, keyboard, touch, TapFresh
  <2> QED
    BY <1>2, <2>a, <2>b DEF KeyDown
<1>3. ASSUME NEW c \in Codes, KeyUp(c) PROVE PressInv'
  BY <1>3, SameEdges DEF KeyUp, touch, TapFresh
<1>4. CASE TouchTap
  BY <1>4, SameEdges DEF TouchTap, keyboard, TapFresh
<1>5. CASE TouchGuard
  BY <1>5, SameEdges DEF TouchGuard, keyboard, TapFresh
<1>6. CASE Blur
  BY <1>6, NoEdges DEF Blur, ClearStuck, TapFresh
<1>7. CASE Focus
  BY <1>7, SameEdges DEF Focus, keyboard, touch, TapFresh
<1>8. CASE TogglePause
  BY <1>8, SameEdges DEF TogglePause, keyboard, touch, TapFresh
<1>9. CASE StartFight
  BY <1>9, NoEdges DEF StartFight, ClearStuck, TapFresh
<1>10. CASE Leave
  BY <1>10, NoEdges DEF Leave, TapFresh
<1>11. CASE Tick
  BY <1>11, NoEdges DEF Tick, TapFresh
<1>12. CASE UNCHANGED vars
  BY <1>12, SameEdges DEF vars, TapFresh
<1> QED
  BY <1>1, <1>2, <1>3, <1>4, <1>5, <1>6, <1>7, <1>8, <1>9, <1>10, <1>11, <1>12
  DEF Next

(* The guard of the overlay is a level, as codesToInput takes it.           *)
LEMMA FreshIsGiven ==
  ASSUME "block" \in Levels, PressInv
  PROVE  PressIsFresh
BY DEF PressInv, EdgesFresh, TapFresh, PressIsFresh, Given, FromKeys, FromTouch

(* No stale press fires (drainInputs, tickFight, the capture handler).      *)
THEOREM NothingStale ==
  ASSUME "block" \in Levels
  PROVE  Spec => []PressIsFresh
<1>1. PressInv => PressIsFresh
  BY FreshIsGiven
<1> QED
  BY PressInit, PressStep, <1>1, PTL DEF Spec

---------------------------------------------------------------------------
(* What the variables hold, whatever is rebound.                            *)

(* A row of the table: codes, each once.                                    *)
Row(s) == s \in Seq(Codes) /\ IsInjective(s)

LEMMA RowWithFirst ==
  ASSUME NEW s, Row(s), NEW c \in Codes, c \notin Range(s)
  PROVE  /\ Row(<<c>> \o s) /\ <<c>> \o s # <<>>
         /\ Range(<<c>> \o s) = {c} \cup Range(s)
<1> DEFINE t == <<c>> \o s
<1>1. /\ s \in Seq(Codes) /\ t \in Seq(Codes) /\ Len(t) = Len(s) + 1 /\ Len(s) \in Nat
      /\ t[1] = c /\ \A i \in 2..Len(s) + 1 : t[i] = s[i - 1]
      /\ DOMAIN t = 1..Len(s) + 1 /\ DOMAIN s = 1..Len(s)
  BY DEF Row
<1> HIDE DEF t
<1>2. \A i \in DOMAIN s : i + 1 \in 2..Len(s) + 1 /\ t[i + 1] = s[i]
  BY <1>1
<1>3. Range(t) = {c} \cup Range(s)
  <2>a. Range(t) \subseteq {c} \cup Range(s)
    BY <1>1 DEF Range
  <2>b. c \in Range(t) /\ Range(s) \subseteq Range(t)
    BY <1>1, <1>2 DEF Range
  <2> QED
    BY <2>a, <2>b
<1>4. IsInjective(t)
  <2> SUFFICES ASSUME NEW i \in DOMAIN t, NEW j \in DOMAIN t, t[i] = t[j] PROVE i = j
    BY DEF IsInjective
  <2>a. \A k \in 2..Len(s) + 1 : k - 1 \in DOMAIN s /\ t[k] = s[k - 1] /\ t[k] # c
    BY <1>1 DEF Range
  <2>b. CASE i = 1 \/ j = 1
    BY <1>1, <2>a, <2>b
  <2>c. CASE i # 1 /\ j # 1
    <3>1. s[i - 1] = s[j - 1] /\ i - 1 \in DOMAIN s /\ j - 1 \in DOMAIN s
      BY <1>1, <2>a, <2>c
    <3> QED
      BY <1>1, <3>1 DEF Row, IsInjective
  <2> QED
    BY <2>b, <2>c
<1> QED
  BY <1>1, <1>3, <1>4 DEF Row, t

LEMMA RowWithout ==
  ASSUME NEW s, Row(s), NEW c
  PROVE  Row(Without(s, c)) /\ Range(Without(s, c)) = Range(s) \ {c}
<1>1. CASE c \notin Range(s)
  BY <1>1 DEF Without
<1>2. CASE c \in Range(s)
  <2> DEFINE at == CHOOSE i \in DOMAIN s : s[i] = c
             t == Without(s, c)
  <2>a. at \in DOMAIN s /\ s[at] = c
    BY <1>2 DEF Range
  <2>b. t = [i \in 1..Len(s) - 1 |-> s[IF i < at THEN i ELSE i + 1]]
    BY <1>2 DEF Without
  <2> HIDE DEF at, t
  <2>c. s \in Seq(Codes) /\ Len(s) \in Nat /\ DOMAIN s = 1..Len(s) /\ at \in 1..Len(s)
    BY <2>a DEF Row
  <2>d. \A i \in 1..Len(s) - 1 :
          (IF i < at THEN i ELSE i + 1) \in DOMAIN s /\ s[IF i < at THEN i ELSE i + 1] \in Codes
    BY <2>c
  <2>e. Len(s) - 1 \in Nat
    BY <2>c
  <2>f. t \in [1..Len(s) - 1 -> Codes]
    BY <2>b, <2>d
  <2>g. /\ t \in Seq(Codes)
        /\ \A i \in 1..Len(s) - 1 : t[i] = s[IF i < at THEN i ELSE i + 1]
    BY <2>b, <2>e, <2>f
  <2>h. DOMAIN t = 1..Len(s) - 1
    BY <2>b
  <2>i. IsInjective(t)
    <3> SUFFICES ASSUME NEW i \in DOMAIN t, NEW j \in DOMAIN t, t[i] = t[j] PROVE i = j
      BY DEF IsInjective
    <3> DEFINE was(k) == IF k < at THEN k ELSE k + 1
    <3>1. s[was(i)] = s[was(j)] /\ was(i) \in DOMAIN s /\ was(j) \in DOMAIN s
      BY <2>c, <2>g, <2>h
    <3>2. was(i) = was(j)
      BY <3>1 DEF Row, IsInjective
    <3> QED
      BY <2>c, <2>h, <3>2
  <2>j.  Range(t) = Range(s) \ {c}
    <3>1. ASSUME NEW i \in DOMAIN t PROVE t[i] \in Range(s) \ {c}
      <4> DEFINE k == IF i < at THEN i ELSE i + 1
      <4>1. k \in DOMAIN s /\ k # at /\ t[i] = s[k]
        BY <2>c, <2>g, <2>h
      <4>2. s[k] # s[at]
        BY <2>a, <4>1 DEF Row, IsInjective
      <4> QED
        BY <2>a, <4>1, <4>2 DEF Range
    <3>2. ASSUME NEW k \in DOMAIN s, s[k] # c PROVE \E i \in DOMAIN t : t[i] = s[k]
      <4>1. CASE k < at
        BY <2>c, <2>g, <2>h, <4>1
      <4>2. CASE k > at
        <5>1. k - 1 \in 1..Len(s) - 1 /\ t[k - 1] = s[k]
          BY <2>c, <2>g, <4>2
        <5> QED
          BY <2>h, <5>1
      <4> QED
        BY <2>a, <2>c, <3>2, <4>1, <4>2
    <3> QED
      BY <3>1, <3>2 DEF Range
  <2> QED
    BY <2>g, <2>i, <2>j DEF Row, t
<1> QED
  BY <1>1, <1>2

(* A swap leaves every action a code and no code to two actions.            *)
LEMMA RebindValid ==
  ASSUME NEW b \in [Actions -> Seq(Codes)], Valid(b),
         NEW action \in Actions, NEW code \in Codes
  PROVE  Rebind(b, action, code) \in [Actions -> Seq(Codes)] /\ Valid(Rebind(b, action, code))
<1> DEFINE first == Head(b[action])
           donors == {a \in Actions \ {action} : code \in Range(b[a])}
           r == Rebind(b, action, code)
<1>1. \A a \in Actions : Row(b[a]) /\ b[a] # <<>> /\ Range(b[a]) \subseteq Codes
  BY DEF Valid, Row
<1>2. first \in Range(b[action]) /\ first \in Codes
  <2>a. b[action] \in Seq(Codes) /\ b[action] # <<>>
    BY <1>1
  <2>b. first = b[action][1] /\ 1 \in DOMAIN b[action]
    BY <2>a
  <2> QED
    BY <1>1, <2>b DEF Range
<1>3. CASE code \in Range(b[action])
  BY <1>3 DEF Rebind
<1>4. CASE code \notin Range(b[action])
  <2>a. r = [a \in Actions |->
               IF a = action
               THEN <<code>> \o (IF donors = {} THEN b[a] ELSE Without(b[a], first))
               ELSE IF a \in donors THEN <<first>> \o Without(b[a], code)
               ELSE b[a]]
    BY <1>4 DEF Rebind
  <2> HIDE DEF first, r
  <2>b. /\ Row(r[action]) /\ r[action] # <<>>
        /\ Range(r[action]) = {code} \cup (IF donors = {} THEN Range(b[action])
                                           ELSE Range(b[action]) \ {first})
    <3>1. CASE donors = {}
      <4>1. r[action] = <<code>> \o b[action]
        BY <2>a, <3>1
      <4> QED
        BY <1>1, <1>4, <3>1, <4>1, RowWithFirst
    <3>2. CASE donors # {}
      <4>1. r[action] = <<code>> \o Without(b[action], first)
        BY <2>a, <3>2
      <4> HIDE DEF donors
      <4>2. Row(Without(b[action], first))
            /\ Range(Without(b[action], first)) = Range(b[action]) \ {first}
        BY <1>1, RowWithout
      <4> QED
        BY <1>4, <3>2, <4>1, <4>2, RowWithFirst
    <3> QED
      BY <3>1, <3>2
  <2>c. ASSUME NEW a \in donors
        PROVE  /\ Row(r[a]) /\ r[a] # <<>>
               /\ Range(r[a]) = {first} \cup (Range(b[a]) \ {code})
    <3>1. r[a] = <<first>> \o Without(b[a], code)
      BY <2>a
    <3>2. Row(Without(b[a], code)) /\ Range(Without(b[a], code)) = Range(b[a]) \ {code}
      BY <1>1, RowWithout
    <3>3. first \notin Range(b[a])
      BY <1>2 DEF Valid
    <3> QED
      BY <1>2, <3>1, <3>2, <3>3, RowWithFirst
  <2>d. ASSUME NEW a \in Actions, a # action, a \notin donors
        PROVE  r[a] = b[a] /\ code \notin Range(r[a])
    BY <2>a, <2>d
  <2>e. \A a \in Actions : Row(r[a]) /\ r[a] # <<>> /\ Range(r[a]) \subseteq Codes
    BY <1>1, <1>2, <2>b, <2>c, <2>d
  <2>f. ASSUME NEW a1 \in Actions, NEW a2 \in Actions, a1 # a2
        PROVE  Range(r[a1]) \cap Range(r[a2]) = {}
    <3>1. /\ Range(b[a1]) \cap Range(b[a2]) = {}
          /\ \A a \in Actions \ {action} : first \notin Range(b[a])
      BY <1>2, <2>f DEF Valid
    <3>2. ASSUME NEW a \in Actions, a # action
          PROVE  Range(r[action]) \cap Range(r[a]) = {}
      <4>1. Range(b[action]) \cap Range(b[a]) = {}
        BY <3>2 DEF Valid
      <4>2. CASE a \in donors
        <5>1. donors # {}
          BY <4>2
        <5>2. first # code
          BY <1>2, <1>4
        <5> HIDE DEF donors
        <5> QED
          BY <2>b, <2>c, <4>1, <4>2, <5>1, <5>2
      <4>3. CASE a \notin donors
        <5> HIDE DEF donors
        <5> QED
          BY <2>b, <2>d, <3>2, <4>1, <4>3
      <4> QED
        BY <4>2, <4>3
    <3>3. CASE a1 # action /\ a2 # action
      <4>1. ~(a1 \in donors /\ a2 \in donors)
        BY <3>1
      <4> HIDE DEF donors
      <4> QED
        BY <2>c, <2>d, <3>1, <3>3, <4>1
    <3> QED
      BY <2>f, <3>2, <3>3
  <2>g. Valid(r)
    BY <2>e, <2>f DEF Valid, Row
  <2>h. r \in [Actions -> Seq(Codes)]
    <3>1. DOMAIN r = Actions /\ r = [a \in Actions |-> r[a]]
      BY <2>a
    <3> QED
      BY <2>e, <3>1 DEF Row
  <2> QED
    BY <2>g, <2>h DEF r
<1> QED
  BY <1>3, <1>4

(* The page begins with the defaults, and punching is an edge.              *)
Defaults ==
  /\ DefaultCodes \in [Actions -> Seq(Codes)] /\ Valid(DefaultCodes)
  /\ "punch" \in Actions \ Levels
Wired == bindings \in [Actions -> Seq(Codes)] /\ TypeOK

LEMMA WiredInit ==
  ASSUME Defaults
  PROVE  Init => Wired
BY DEF Init, Defaults, Wired, TypeOK

LEMMA WiredStep ==
  ASSUME Defaults, Wired, [Next]_vars
  PROVE  Wired'
<1> USE DEF Wired, TypeOK
<1>1. ASSUME NEW a \in Actions, NEW c \in Codes, Remap(a, c) PROVE Wired'
  BY <1>1, RebindValid DEF Remap
<1>2. CASE UNCHANGED bindings
  <2>a. Valid(bindings)' /\ bindings' \in [Actions -> Seq(Codes)]
    BY <1>2 DEF Valid
  <2>b. ASSUME NEW c \in Codes, KeyDown(c) PROVE Wired'
    <3>1. c \in Bound => ActionOf(c) \in Actions
      BY DEF Bound, ActionOf
    <3> QED
      BY <2>a, <2>b, <3>1 DEF KeyDown, keyboard
  <2>c. ASSUME NEW c \in Codes, KeyUp(c) PROVE Wired'
    BY <2>a, <2>c DEF KeyUp
  <2>d. CASE TouchTap
    BY <2>a, <2>d DEF TouchTap, keyboard, Defaults
  <2>e. CASE TouchGuard \/ Focus \/ TogglePause
    BY <2>a, <2>e DEF TouchGuard, Focus, TogglePause, keyboard
  <2>f. CASE Blur \/ StartFight \/ Leave
    BY <2>a, <2>f DEF Blur, StartFight, Leave, ClearStuck
  <2>g. CASE Tick
    BY <2>a, <2>g DEF Tick
  <2>h. CASE UNCHANGED vars
    BY <2>a, <2>h DEF vars
  <2>i. ASSUME NEW a \in Actions, NEW c \in Codes, Remap(a, c) PROVE Wired'
    BY <1>1, <2>i
  <2> QED
    BY <2>b, <2>c, <2>d, <2>e, <2>f, <2>g, <2>h, <2>i DEF Next
<1>3. CASE ~UNCHANGED bindings
  BY <1>1, <1>3
  DEF Next, KeyDown, KeyUp, TouchTap, TouchGuard, Blur, Focus, TogglePause, StartFight, Leave,
      Tick, vars
<1> QED
  BY <1>2, <1>3

(* However the keys are rebound, every action has a key and no key has two  *)
(* (rebind, validateBindings).                                              *)
THEOREM TypeCorrect ==
  ASSUME Defaults
  PROVE  Spec => []TypeOK
<1>1. Wired => TypeOK
  BY DEF Wired
<1> QED
  BY WiredInit, WiredStep, <1>1, PTL DEF Spec
=============================================================================
