--------------------------- MODULE MCLoginLockout ---------------------------
(* The finite instance of LoginLockout that TLC checks.  It declares no *)
(* symmetry, which is unsound for liveness.                             *)
EXTENDS LoginLockout
=============================================================================
