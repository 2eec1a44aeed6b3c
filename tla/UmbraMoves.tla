----------------------------- MODULE UmbraMoves -----------------------------
(***************************************************************************)
(* The frame tables of umbra's weapons (moves.js, weapons.js).              *)
(***************************************************************************)
EXTENDS Integers

(* A row of a table; distances in hundredths.                               *)
Frames(startup, active, recovery, range, damage, chip, knockback, stun, into) ==
  [startup |-> startup, active |-> active, recovery |-> recovery,
   range |-> range, damage |-> damage, chip |-> chip, knockback |-> knockback,
   stun |-> stun, cancelInto |-> into]

Fists ==
  [jab      |-> Frames(4, 3, 7, 22, 6, 1, 5, 12, {"cross"}),
   cross    |-> Frames(6, 3, 10, 24, 9, 2, 8, 16, {"uppercut"}),
   kick     |-> Frames(8, 4, 12, 30, 11, 2, 10, 18, {"sweep"}),
   sweep    |-> Frames(10, 4, 16, 30, 12, 2, 14, 26, {}),
   uppercut |-> Frames(9, 4, 18, 22, 16, 3, 18, 24, {})]

Sword ==
  [jab      |-> Frames(5, 3, 9, 26, 8, 2, 7, 14, {"cross"}),
   cross    |-> Frames(7, 3, 12, 28, 12, 2, 10, 18, {"uppercut"}),
   kick     |-> Frames(9, 4, 14, 32, 13, 3, 12, 20, {"sweep"}),
   sweep    |-> Frames(11, 4, 18, 34, 14, 3, 16, 28, {}),
   uppercut |-> Frames(10, 4, 20, 26, 22, 4, 20, 26, {})]

Nunchaku ==
  [jab      |-> Frames(3, 2, 5, 20, 5, 1, 4, 10, {"cross", "kick"}),
   cross    |-> Frames(5, 2, 7, 22, 8, 1, 6, 14, {"uppercut", "kick"}),
   kick     |-> Frames(6, 3, 9, 28, 10, 2, 8, 16, {"sweep", "cross"}),
   sweep    |-> Frames(9, 3, 13, 28, 11, 2, 12, 22, {}),
   uppercut |-> Frames(8, 3, 15, 20, 14, 2, 15, 22, {"sweep"})]

Spear ==
  [jab      |-> Frames(6, 3, 10, 30, 7, 1, 7, 14, {"cross"}),
   cross    |-> Frames(8, 3, 13, 32, 10, 2, 11, 18, {"uppercut"}),
   kick     |-> Frames(10, 4, 15, 44, 12, 2, 14, 20, {"sweep"}),
   sweep    |-> Frames(13, 4, 19, 46, 13, 2, 18, 28, {}),
   uppercut |-> Frames(11, 4, 21, 30, 18, 3, 22, 26, {})]

Staff ==
  [jab      |-> Frames(4, 3, 8, 28, 6, 1, 6, 13, {"cross"}),
   cross    |-> Frames(6, 3, 11, 30, 9, 2, 9, 17, {"uppercut"}),
   kick     |-> Frames(8, 4, 13, 38, 11, 2, 11, 19, {"sweep"}),
   sweep    |-> Frames(10, 4, 17, 40, 15, 3, 16, 28, {}),
   uppercut |-> Frames(9, 4, 19, 28, 17, 3, 19, 25, {})]

(* Mutant: the sweep may be cancelled into the kick it came from.           *)
DaggersLooping ==
  [jab      |-> Frames(3, 2, 5, 16, 4, 1, 3, 10, {"cross"}),
   cross    |-> Frames(5, 2, 7, 18, 6, 1, 5, 12, {"uppercut"}),
   kick     |-> Frames(6, 3, 9, 22, 8, 1, 7, 14, {"sweep"}),
   sweep    |-> Frames(8, 3, 12, 22, 9, 1, 10, 20, {"kick"}),
   uppercut |-> Frames(7, 3, 14, 16, 11, 2, 12, 20, {})]
Daggers ==
  [jab      |-> Frames(3, 2, 5, 16, 4, 1, 3, 10, {"cross"}),
   cross    |-> Frames(5, 2, 7, 18, 6, 1, 5, 12, {"uppercut"}),
   kick     |-> Frames(6, 3, 9, 22, 8, 1, 7, 14, {"sweep"}),
   sweep    |-> Frames(8, 3, 12, 22, 9, 1, 10, 20, {}),
   uppercut |-> Frames(7, 3, 14, 16, 11, 2, 12, 20, {})]

MoveIds == {"jab", "cross", "kick", "sweep", "uppercut"}
WeaponIds == {"fists", "sword", "nunchaku", "spear", "staff", "daggers"}

(* movesForWeapon: the table of an unknown id is that of the fists.         *)
MovesForWeapon(id) ==
  CASE id = "sword" -> Sword [] id = "nunchaku" -> Nunchaku
    [] id = "spear" -> Spear [] id = "staff" -> Staff
    [] id = "daggers" -> Daggers [] OTHER -> Fists

(* validateMoves *)
ValidMoves(table) ==
  \A m \in DOMAIN table :
    /\ table[m].startup > 0 /\ table[m].active > 0 /\ table[m].recovery > 0
    /\ table[m].cancelInto \subseteq DOMAIN table \ {m}

(* validateWeapons, what concerns the tables.                               *)
ValidWeapons ==
  \A w \in WeaponIds :
    DOMAIN MovesForWeapon(w) = MoveIds /\ ValidMoves(MovesForWeapon(w))

(* frameRows, the column `total`.                                           *)
Total(mv) == mv.startup + mv.active + mv.recovery
=============================================================================
