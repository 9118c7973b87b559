--------------------------- MODULE MCQueueImport ----------------------------
(***************************************************************************)
(* Small instances of QueueImport: three files of three, none and two      *)
(* lines, the last one with a first line tpimport rejects.                 *)
(***************************************************************************)
EXTENDS QueueImport

MCFileLines == [f \in 1..NumFiles |-> CASE f = 1 -> 3 [] f = 2 -> 0 [] f = 3 -> 2]
MCMalformed == {<<3, 1>>}
=============================================================================
