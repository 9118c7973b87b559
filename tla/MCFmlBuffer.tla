---------------------------- MODULE MCFmlBuffer -----------------------------
(* A short and a long value, in buffers that hold one long or two short ones. *)
EXTENDS FmlBuffer, TLC

CONSTANTS short1, long1

MCNeeded == [v \in Fields \cup {Null} |-> IF v = long1 THEN 2 ELSE 1]

\* less than nothing: extend makes the buffer smaller
MCGarbage == {-1}

\* bound: up to two values where two objects share a block or one object and a
\* lost block exist, one if ownership is disturbed there, and one object at a time
\* with an extent it grew to; two objects on two blocks until a field is written, a
\* buffer grows or an extent is changed
AtOnce == Cardinality(alive) + Cardinality({k \in Blocks : Lives(k)})
Untouched ==
  /\ \A k \in Blocks : heap[k].data \in Answers /\ heap[k].size <= Default
  /\ \A f \in Fields : occurrence[f] = 0 /\ home[f] = None
  /\ \A b \in alive : extent[b] \in {Default} \cup Garbage
Disturbed == \E b \in alive : ptr[b] \in orphaned \cup doubled
AtMost(n) == \A k \in Blocks : Len(heap[k].data) <= n
OneExtended == Cardinality({b \in alive : extent[b] \notin {Default} \cup Garbage}) <= 1
FewAtOnce ==
  \/ AtOnce <= 2
  \/ AtOnce = 3 /\ OneExtended /\ AtMost(IF Disturbed THEN 1 ELSE 2)
  \/ Untouched

Symmetry == Permutations(Buffers)
=============================================================================
