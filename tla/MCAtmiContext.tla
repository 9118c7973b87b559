--------------------------- MODULE MCAtmiContext ---------------------------
(* Small instances of AtmiContext: who uses which client. *)
EXTENDS AtmiContext, TLC

CONSTANTS t1, t2, c1, c2

Shared == c1 :> {t1, t2} @@ c2 :> {t2}        \* t2 has two clients, c1 two threads
=============================================================================
