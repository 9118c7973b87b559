--------------------------- MODULE MCQueueExport ----------------------------
(***************************************************************************)
(* Small instances of QueueExport: one message that fits the export        *)
(* buffer, one that needs the larger buffer of the second tpexport, a      *)
(* blank one, and for some runs one that no buffer of the code may hold.   *)
(***************************************************************************)
EXTENDS QueueExport, TLC

CONSTANTS small, large, blank, huge

\* sizes in units of the default buffer
MCExportSize ==
  [m \in Msgs |-> CASE m = large -> 3 [] m = huge -> 5 [] OTHER -> 1]

Symmetry == Permutations(Exporters)
=============================================================================
