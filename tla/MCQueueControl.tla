--------------------------- MODULE MCQueueControl ---------------------------
(* Clients are alike, and so are reply queues. *)
EXTENDS QueueControl, TLC

Symmetry == Permutations(Clients) \cup Permutations(ReplyQueues)
=============================================================================
