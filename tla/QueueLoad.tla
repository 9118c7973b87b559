------------------------------ MODULE QueueLoad -----------------------------
(***************************************************************************)
(* What loading files into a queue promises, whatever fails: the files are *)
(* taken once and in order, the lines of the file at hand are stored one   *)
(* by one from its first, each once, and none after the file was given up. *)
(***************************************************************************)
EXTENDS Naturals

CONSTANTS NumFiles, FileLines,
          Positions    \* <<file, line>> for every line

VARIABLES copies,      \* how often each line is stored
          file,        \* the file at hand
          state        \* "loading" while more of its lines may be stored

vars == <<copies, file, state>>

Init == copies = [p \in Positions |-> 0] /\ file = 0 /\ state = "idle"

\* the next file is taken, perhaps only to find that it cannot be read
Take ==
  /\ state = "idle" /\ file < NumFiles
  /\ file' = file + 1
  /\ state' \in {"loading", "idle"}
  /\ UNCHANGED copies

\* its next line is stored; that may turn out to be the last one, as a loader that
\* is told of a failure gives up, whether the line was stored or not
Store ==
  /\ state = "loading"
  /\ \E l \in 1..FileLines[file] :
       /\ copies[<<file, l>>] = 0
       /\ \A k \in 1..(l - 1) : copies[<<file, k>>] = 1
       /\ copies' = [copies EXCEPT ![<<file, l>>] = 1]
  /\ state' \in {"loading", "idle"}
  /\ UNCHANGED file

Stop ==
  /\ state = "loading" /\ state' = "idle"
  /\ UNCHANGED <<copies, file>>

Next == Take \/ Store \/ Stop

Spec == Init /\ [][Next]_vars
=============================================================================
