--------------------------- MODULE MCTransaction ---------------------------
(***************************************************************************)
(* Small instances of class transaction.  call keeps nothing in the        *)
(* object, and acall, reply and cancel share nothing with it but Tuxedo:   *)
(* a behaviour is a synchronous call, or a program of asynchronous ones    *)
(* in which two objects share two descriptors.                             *)
(***************************************************************************)
EXTENDS ServiceCall, AsyncCall

CONSTANTS o1, o2

VARIABLE kind   \* which half of the class the behaviour is about

MCInit ==
  /\ kind \in {"call", "acall"} /\ Init /\ ACInit
  /\ kind = "acall" => retries = 0 /\ ~aliased

MCNext ==
  \/ kind = "call" /\ Next /\ UNCHANGED <<kind, acVars>>
  \/ kind = "acall" /\ ACNext /\ UNCHANGED <<kind, vars>>

MCSpec == MCInit /\ [][MCNext]_<<kind, vars, acVars>>
          /\ WF_vars(kind = "call" /\ Call)

\* A synchronous call ends (transaction.cpp:32-54).
CallEndsOnceMade == kind = "call" => CallEnds
=============================================================================
