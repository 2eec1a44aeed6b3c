----------------------------- MODULE MCSessionLock -----------------------------
(* Properties of the session lock, checked by TLC on small instances. *)
EXTENDS SessionLock, TLC

================================================================================
