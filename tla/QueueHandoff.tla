---------------------------- MODULE QueueHandoff ----------------------------
(***************************************************************************)
(* What draining a queue into a stream promises, whatever fails: a message *)
(* is delivered at least once before it is gone from the queue.  Messages  *)
(* of length zero (Blank) carry nothing and may go undelivered.            *)
(***************************************************************************)
CONSTANTS Msgs, Blank

VARIABLES queued,      \* messages the queue space stores
          delivered,   \* messages written at least once
          removed      \* messages that left the queue for good

vars == <<queued, delivered, removed>>

Init == queued = {} /\ delivered = {} /\ removed = {}

\* a message without data is like any other without data, and may come again
Produce(m) ==
  /\ m \notin queued /\ (m \in removed => m \in Blank)
  /\ queued' = queued \cup {m}
  /\ removed' = removed \ {m}
  /\ UNCHANGED delivered

\* written while still stored: a failure from here on only costs a duplicate
Deliver(m) ==
  /\ m \in queued \ Blank
  /\ delivered' = delivered \cup {m}
  /\ UNCHANGED <<queued, removed>>

Remove(m) ==
  /\ m \in queued
  /\ m \in delivered \cup Blank
  /\ queued' = queued \ {m}
  /\ removed' = removed \cup {m}
  /\ UNCHANGED delivered

Next == \E m \in Msgs : Produce(m) \/ Deliver(m) \/ Remove(m)

Spec == Init /\ [][Next]_vars
=============================================================================
