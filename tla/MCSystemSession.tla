---------------------------- MODULE MCSystemSession ----------------------------
(* Properties of the system-wide session, checked by TLC on small instances. *)
EXTENDS SystemSession, TLC

Symmetry == Permutations(Procs)

================================================================================
