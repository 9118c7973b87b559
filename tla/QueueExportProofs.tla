-------------------------- MODULE QueueExportProofs -------------------------
(***************************************************************************)
(* Proofs about QueueExport, for any set of exporters, any messages, any   *)
(* buffer size and any number of failures.                                 *)
(***************************************************************************)
EXTENDS QueueExport, TLAPS

\* Every exception a queue operation throws is a tuxedo_exception or one of its
\* subclasses.
LEMMA QueueExceptionsAreTuxedo == QueueExceptions \subseteq TuxedoExceptions
  BY DEF QueueExceptions, TuxedoExceptions, DiagnosticExceptions,
         HandleTperrno, HandleDiagnostics

\* The initial state is well typed and satisfies the rest of the invariant.
LEMMA InitInv == Init => IInv
  BY MessagesAssumption, FaultsAssumption
     DEF Init, IInv, TypeOK, WellPlaced, LocksExclusive, Accounted, WrittenFirst,
         NoLoss, RoomKept, WriteInBounds, Counted, None, Locations

\* Where the processes are and what they hold stay well typed and well placed.
LEMMA TypeStep == TypeOK /\ WellPlaced /\ [Next]_vars => TypeOK' /\ WellPlaced'
<1> SUFFICES ASSUME TypeOK, WellPlaced, [Next]_vars
             PROVE  TypeOK' /\ WellPlaced'
  OBVIOUS
<1> USE MessagesAssumption, SizesAssumption, FaultsAssumption
    DEF TypeOK, WellPlaced, Locations, Goto, Throw, NoFault, Fault, EndTran
<1>1. ASSUME NEW m \in Msgs, Produce(m) PROVE TypeOK' /\ WellPlaced'
  BY <1>1 DEF Produce, processVars, bufferVars
<1>2. ASSUME NEW e \in Exporters, Start(e) PROVE TypeOK' /\ WellPlaced'
  BY <1>2 DEF Start, queueVars, bufferVars
<1>3. ASSUME NEW e \in Exporters, Interrupt(e) PROVE TypeOK' /\ WellPlaced'
  BY <1>3 DEF Interrupt, queueVars, bufferVars
<1>4. ASSUME NEW e \in Exporters, Crash(e) PROVE TypeOK' /\ WellPlaced'
  BY <1>4 DEF Crash, Vanish, queueVars
<1>5. ASSUME NEW e \in Exporters, StreamFails(e) PROVE TypeOK' /\ WellPlaced'
  BY <1>5 DEF StreamFails, queueVars, bufferVars
<1>6. ASSUME NEW e \in Exporters, Open(e) PROVE TypeOK' /\ WellPlaced'
  <2>0. message' \in [Exporters -> BOOLEAN]
    BY <1>6 DEF Open
  <2>1. exc' \in [Exporters -> TuxedoExceptions \cup {None}]
    BY <1>6 DEF Open, TuxedoExceptions
  <2>2. TypeOK'
    BY <1>6, <2>0, <2>1 DEF Open, ResetCount, queueVars, processVars
  <2>3. WellPlaced'
    BY <1>6 DEF Open, ResetCount, queueVars, processVars, TuxedoExceptions
  <2> QED  BY <2>2, <2>3
<1>7. ASSUME NEW e \in Exporters, Begin(e) PROVE TypeOK' /\ WellPlaced'
  <2>0. inTran' \in [Exporters -> BOOLEAN]
    BY <1>7 DEF Begin
  <2>1. TypeOK'
    BY <1>7, <2>0 DEF Begin, queueVars, processVars, bufferVars, TuxedoExceptions
  <2>2. WellPlaced'
    BY <1>7 DEF Begin, queueVars, processVars, bufferVars, TuxedoExceptions
  <2> QED  BY <2>1, <2>2
<1>8. ASSUME NEW e \in Exporters, NEW m \in Msgs, DequeueMessage(e, m)
      PROVE TypeOK' /\ WellPlaced'
  BY <1>8 DEF DequeueMessage, AfterDequeue, queueVars, processVars, bufferVars
<1>9. ASSUME NEW e \in Exporters, DequeueNothing(e) PROVE TypeOK' /\ WellPlaced'
  BY <1>9 DEF DequeueNothing, queueVars, processVars, bufferVars
<1>10. ASSUME NEW e \in Exporters, DequeueFails(e) PROVE TypeOK' /\ WellPlaced'
  BY <1>10, QueueExceptionsAreTuxedo
     DEF DequeueFails, Handler, queueVars, processVars, bufferVars
<1>11. ASSUME NEW e \in Exporters, Export(e) PROVE TypeOK' /\ WellPlaced'
  BY <1>11 DEF Export, Grow, queueVars, processVars, TuxedoExceptions
<1>12. ASSUME NEW e \in Exporters, Write(e) PROVE TypeOK' /\ WellPlaced'
  BY <1>12 DEF Write, processVars, bufferVars
<1>13. ASSUME NEW e \in Exporters, Commit(e) PROVE TypeOK' /\ WellPlaced'
  BY <1>13 DEF Commit, RemoveHeld, KeepHeld, processVars, bufferVars,
               TuxedoExceptions
<1>14. ASSUME NEW e \in Exporters, TimeoutAbort(e) PROVE TypeOK' /\ WellPlaced'
  BY <1>14 DEF TimeoutAbort, queueVars, processVars, bufferVars, TuxedoExceptions
<1>15. ASSUME NEW e \in Exporters, Rescue(e) PROVE TypeOK' /\ WellPlaced'
  <2>0. message' \in [Exporters -> BOOLEAN]
    BY <1>15 DEF Rescue
  <2>1. exc' \in [Exporters -> TuxedoExceptions \cup {None}]
    BY <1>15 DEF Rescue, TuxedoExceptions
  <2>2. TypeOK'
    BY <1>15, <2>0, <2>1 DEF Rescue, queueVars, processVars
  <2>3. WellPlaced'
    BY <1>15 DEF Rescue, queueVars, processVars, TuxedoExceptions
  <2> QED  BY <2>2, <2>3
<1>16. ASSUME NEW e \in Exporters, Return(e) PROVE TypeOK' /\ WellPlaced'
  BY <1>16 DEF Return, Vanish, Again, queueVars
<1>17. ASSUME NEW e \in Exporters, Fail(e) PROVE TypeOK' /\ WellPlaced'
  BY <1>17 DEF Fail, Vanish, queueVars
<1>18. CASE UNCHANGED vars
  BY <1>18 DEF vars, queueVars, processVars, bufferVars
<1> QED
  BY <1>1, <1>2, <1>3, <1>4, <1>5, <1>6, <1>7, <1>8, <1>9, <1>10, <1>11, <1>12,
     <1>13, <1>14, <1>15, <1>16, <1>17, <1>18 DEF Next, Step, Dequeue

\* Locks, the account of duplicates and "written first" are kept by every step.
LEMMA SafetyStep ==
  IInv /\ [Next]_vars => LocksExclusive' /\ Accounted' /\ WrittenFirst'
<1> DEFINE Safe == LocksExclusive /\ Accounted /\ WrittenFirst
<1> SUFFICES ASSUME IInv, [Next]_vars PROVE Safe'
  OBVIOUS
<1> USE MessagesAssumption, SizesAssumption, FaultsAssumption
    DEF IInv, TypeOK, WellPlaced, LocksExclusive, Accounted, WrittenFirst, NoLoss,
        Locations, Goto, Throw, NoFault, Fault, EndTran
<1>1. ASSUME NEW m \in Msgs, Produce(m) PROVE Safe'
  <2>1. /\ m \notin queued /\ (m \in removed => m \in Blank)
        /\ queued' = queued \cup {m} /\ removed' = removed \ {m}
        /\ lines' = lines /\ faults' = faults /\ pc' = pc /\ bad' = bad
        /\ held' = held
    BY <1>1 DEF Produce, processVars
  <2>2. LocksExclusive'
    BY <2>1
  <2>3. \A n \in Msgs \ removed' : n \notin removed \/ n \in Blank
    BY <2>1
  <2>4. faults \in Nat /\ \A n \in Blank : lines[n] <= faults
    OBVIOUS
  <2>5. Accounted'
    BY <2>1, <2>3, <2>4
  <2>6. WrittenFirst'
    BY <2>1
  <2> QED  BY <2>2, <2>5, <2>6
<1>2. ASSUME NEW e \in Exporters, Start(e) PROVE Safe'
  BY <1>2 DEF Start, queueVars, bufferVars
<1>3. ASSUME NEW e \in Exporters, Interrupt(e) PROVE Safe'
  BY <1>3 DEF Interrupt, queueVars, bufferVars
<1>4. ASSUME NEW e \in Exporters, Crash(e) PROVE Safe'
  BY <1>4 DEF Crash, Vanish, queueVars
<1>5. ASSUME NEW e \in Exporters, StreamFails(e) PROVE Safe'
  BY <1>5 DEF StreamFails, queueVars, bufferVars
<1>6. ASSUME NEW e \in Exporters, Open(e) PROVE Safe'
  BY <1>6 DEF Open, queueVars, processVars
<1>7. ASSUME NEW e \in Exporters, Begin(e) PROVE Safe'
  BY <1>7 DEF Begin, queueVars, processVars, bufferVars
<1>8. ASSUME NEW e \in Exporters, NEW m \in Msgs, DequeueMessage(e, m) PROVE Safe'
  BY <1>8 DEF DequeueMessage, AfterDequeue, Available, queueVars, processVars,
              bufferVars
<1>9. ASSUME NEW e \in Exporters, DequeueNothing(e) PROVE Safe'
  BY <1>9 DEF DequeueNothing, queueVars, processVars, bufferVars
<1>10. ASSUME NEW e \in Exporters, DequeueFails(e) PROVE Safe'
  <2>1. /\ queued' = queued /\ removed' = removed /\ lines' = lines
        /\ bad' = bad /\ held' = held
        /\ faults' = faults \/ faults' = faults + 1
        /\ pc[e] = "dequeue"
        /\ \E l \in {"timeout", "rescue"} : pc' = [pc EXCEPT ![e] = l]
    BY <1>10 DEF DequeueFails, Handler, queueVars, processVars
  <2> QED  BY <2>1
<1>11. ASSUME NEW e \in Exporters, Export(e) PROVE Safe'
  BY <1>11 DEF Export, queueVars, processVars
<1>12. ASSUME NEW e \in Exporters, Write(e) PROVE Safe'
  BY <1>12 DEF Write, processVars, bufferVars
<1>13. ASSUME NEW e \in Exporters, Commit(e) PROVE Safe'
  BY <1>13 DEF Commit, RemoveHeld, KeepHeld, processVars, bufferVars
<1>14. ASSUME NEW e \in Exporters, TimeoutAbort(e) PROVE Safe'
  BY <1>14 DEF TimeoutAbort, queueVars, processVars, bufferVars
<1>15. ASSUME NEW e \in Exporters, Rescue(e) PROVE Safe'
  BY <1>15 DEF Rescue, queueVars, processVars
<1>16. ASSUME NEW e \in Exporters, Return(e) PROVE Safe'
  BY <1>16 DEF Return, Vanish, Again, queueVars
<1>17. ASSUME NEW e \in Exporters, Fail(e) PROVE Safe'
  BY <1>17 DEF Fail, Vanish, queueVars
<1>18. CASE UNCHANGED vars
  BY <1>18 DEF vars, queueVars, processVars, bufferVars
<1> QED
  BY <1>1, <1>2, <1>3, <1>4, <1>5, <1>6, <1>7, <1>8, <1>9, <1>10, <1>11, <1>12,
     <1>13, <1>14, <1>15, <1>16, <1>17, <1>18 DEF Next, Step, Dequeue

\* The export buffer stays large enough.
LEMMA RoomStep == IInv /\ [Next]_vars => RoomKept'
<1> SUFFICES ASSUME IInv, [Next]_vars PROVE RoomKept'
  OBVIOUS
<1> USE MessagesAssumption, SizesAssumption, FaultsAssumption
    DEF IInv, TypeOK, WellPlaced, RoomKept, WriteInBounds,
        Locations, Goto, Throw, NoFault, Fault, EndTran
<1>1. ASSUME NEW m \in Msgs, Produce(m) PROVE RoomKept'
  BY <1>1 DEF Produce, processVars, bufferVars
<1>2. ASSUME NEW e \in Exporters, Start(e) PROVE RoomKept'
  BY <1>2 DEF Start, queueVars, bufferVars
<1>3. ASSUME NEW e \in Exporters, Interrupt(e) PROVE RoomKept'
  BY <1>3 DEF Interrupt, queueVars, bufferVars
<1>4. ASSUME NEW e \in Exporters, Crash(e) PROVE RoomKept'
  BY <1>4 DEF Crash, Vanish, queueVars
<1>5. ASSUME NEW e \in Exporters, StreamFails(e) PROVE RoomKept'
  BY <1>5 DEF StreamFails, queueVars, bufferVars
<1>6. ASSUME NEW e \in Exporters, Open(e) PROVE RoomKept'
  BY <1>6 DEF Open, queueVars, processVars
<1>7. ASSUME NEW e \in Exporters, Begin(e) PROVE RoomKept'
  BY <1>7 DEF Begin, queueVars, processVars, bufferVars
<1>8. ASSUME NEW e \in Exporters, NEW m \in Msgs, DequeueMessage(e, m) PROVE RoomKept'
  BY <1>8 DEF DequeueMessage, AfterDequeue, Available, queueVars, processVars,
              bufferVars
<1>9. ASSUME NEW e \in Exporters, DequeueNothing(e) PROVE RoomKept'
  BY <1>9 DEF DequeueNothing, queueVars, processVars, bufferVars
<1>10. ASSUME NEW e \in Exporters, DequeueFails(e) PROVE RoomKept'
  BY <1>10 DEF DequeueFails, Handler, queueVars, processVars, bufferVars
<1>11. ASSUME NEW e \in Exporters, Export(e) PROVE RoomKept'
  BY <1>11 DEF Export, Grow, queueVars, processVars
<1>12. ASSUME NEW e \in Exporters, Write(e) PROVE RoomKept'
  BY <1>12 DEF Write, processVars, bufferVars
<1>13. ASSUME NEW e \in Exporters, Commit(e) PROVE RoomKept'
  BY <1>13 DEF Commit, RemoveHeld, KeepHeld, processVars, bufferVars
<1>14. ASSUME NEW e \in Exporters, TimeoutAbort(e) PROVE RoomKept'
  BY <1>14 DEF TimeoutAbort, queueVars, processVars, bufferVars
<1>15. ASSUME NEW e \in Exporters, Rescue(e) PROVE RoomKept'
  BY <1>15 DEF Rescue, queueVars, processVars
<1>16. ASSUME NEW e \in Exporters, Return(e) PROVE RoomKept'
  BY <1>16 DEF Return, Vanish, Again, queueVars
<1>17. ASSUME NEW e \in Exporters, Fail(e) PROVE RoomKept'
  BY <1>17 DEF Fail, Vanish, queueVars
<1>18. CASE UNCHANGED vars
  BY <1>18 DEF vars, queueVars, processVars, bufferVars
<1> QED
  BY <1>1, <1>2, <1>3, <1>4, <1>5, <1>6, <1>7, <1>8, <1>9, <1>10, <1>11, <1>12,
     <1>13, <1>14, <1>15, <1>16, <1>17, <1>18 DEF Next, Step, Dequeue

\* The count stays in step with what left the queue.
LEMMA CountStep == IInv /\ [Next]_vars => Counted'
<1> SUFFICES ASSUME IInv, [Next]_vars PROVE Counted'
  OBVIOUS
<1> USE MessagesAssumption, SizesAssumption, FaultsAssumption
    DEF IInv, TypeOK, WellPlaced, Counted,
        Locations, Goto, Throw, NoFault, Fault, EndTran
<1>1. ASSUME NEW m \in Msgs, Produce(m) PROVE Counted'
  BY <1>1 DEF Produce, processVars, bufferVars
<1>2. ASSUME NEW e \in Exporters, Start(e) PROVE Counted'
  BY <1>2 DEF Start, queueVars, bufferVars
<1>3. ASSUME NEW e \in Exporters, Interrupt(e) PROVE Counted'
  BY <1>3 DEF Interrupt, queueVars, bufferVars
<1>4. ASSUME NEW e \in Exporters, Crash(e) PROVE Counted'
  BY <1>4 DEF Crash, Vanish, queueVars
<1>5. ASSUME NEW e \in Exporters, StreamFails(e) PROVE Counted'
  BY <1>5 DEF StreamFails, queueVars, bufferVars
<1>6. ASSUME NEW e \in Exporters, Open(e) PROVE Counted'
  BY <1>6 DEF Open, ResetCount, queueVars, processVars
<1>7. ASSUME NEW e \in Exporters, Begin(e) PROVE Counted'
  BY <1>7 DEF Begin, queueVars, processVars, bufferVars
<1>8. ASSUME NEW e \in Exporters, NEW m \in Msgs, DequeueMessage(e, m) PROVE Counted'
  BY <1>8 DEF DequeueMessage, AfterDequeue, Available, queueVars, processVars,
              bufferVars
<1>9. ASSUME NEW e \in Exporters, DequeueNothing(e) PROVE Counted'
  BY <1>9 DEF DequeueNothing, queueVars, processVars, bufferVars
<1>10. ASSUME NEW e \in Exporters, DequeueFails(e) PROVE Counted'
  BY <1>10 DEF DequeueFails, Handler, queueVars, processVars, bufferVars
<1>11. ASSUME NEW e \in Exporters, Export(e) PROVE Counted'
  BY <1>11 DEF Export, queueVars, processVars
<1>12. ASSUME NEW e \in Exporters, Write(e) PROVE Counted'
  BY <1>12 DEF Write, processVars, bufferVars
<1>13. ASSUME NEW e \in Exporters, Commit(e) PROVE Counted'
  BY <1>13 DEF Commit, RemoveHeld, KeepHeld, processVars, bufferVars
<1>14. ASSUME NEW e \in Exporters, TimeoutAbort(e) PROVE Counted'
  BY <1>14 DEF TimeoutAbort, queueVars, processVars, bufferVars
<1>15. ASSUME NEW e \in Exporters, Rescue(e) PROVE Counted'
  BY <1>15 DEF Rescue, queueVars, processVars
<1>16. ASSUME NEW e \in Exporters, Return(e) PROVE Counted'
  BY <1>16 DEF Return, Vanish, Again, queueVars
<1>17. ASSUME NEW e \in Exporters, Fail(e) PROVE Counted'
  BY <1>17 DEF Fail, Vanish, queueVars
<1>18. CASE UNCHANGED vars
  BY <1>18 DEF vars, queueVars, processVars, bufferVars
<1> QED
  BY <1>1, <1>2, <1>3, <1>4, <1>5, <1>6, <1>7, <1>8, <1>9, <1>10, <1>11, <1>12,
     <1>13, <1>14, <1>15, <1>16, <1>17, <1>18 DEF Next, Step, Dequeue

\* The invariant is one: it holds initially and every step keeps it.
THEOREM Invariance == Spec => []IInv
<1>1. Init => IInv
  BY InitInv
<1>2. IInv /\ [Next]_vars => IInv'
  BY TypeStep, SafetyStep, RoomStep, CountStep DEF IInv
<1> QED
  BY <1>1, <1>2, PTL DEF Spec

\* Every variable keeps its type.
THEOREM TypeCorrect == Spec => []TypeOK
<1>1. IInv => TypeOK
  BY DEF IInv
<1> QED
  BY <1>1, Invariance, PTL

\* operator<< is never left, by return or by throw, with its transaction open,
\* and never begins a second one (queue_stream.cpp:100, 103, 111).
THEOREM TransactionsClosed == Spec => []TranClosed
<1>1. IInv => TranClosed
  BY DEF IInv, TypeOK, WellPlaced, TranClosed, Locations
<1> QED
  BY <1>1, Invariance, PTL

\* What out.write reads lies within the export buffer (queue_stream.cpp:76-96).
THEOREM WritesInBounds == Spec => []WriteInBounds
<1>1. IInv => WriteInBounds
  BY DEF IInv, RoomKept
<1> QED
  BY <1>1, Invariance, PTL

\* A line is written twice only at the price of a failure.
THEOREM DuplicatesPaidFor == Spec => []DuplicatesCostAFailure
<1>1. IInv => DuplicatesCostAFailure
  BY DEF IInv, Accounted, DuplicatesCostAFailure
<1> QED
  BY <1>1, Invariance, PTL

\* What qexport reports is what it removed from the queue.
THEOREM CountsExact == Spec => []CountExact
<1>1. IInv => CountExact
  BY DEF IInv, TypeOK, Counted, CountExact, Locations
<1> QED
  BY <1>1, Invariance, PTL

\* As long as the output stream does not fail, no message is lost.
THEOREM NothingLost == ASSUME ~StreamCanFail PROVE Spec => []NoLoss
<1>1. IInv => NoLoss
  BY DEF IInv, WrittenFirst
<1> QED
  BY <1>1, Invariance, PTL

\* Every step of the exporters is a hand-off step or changes nothing of it: only
\* Produce stores, only Write delivers, and only a commit of something written
\* (or blank) removes.
LEMMA HandoffStep ==
  ASSUME ~StreamCanFail
  PROVE  IInv /\ [Next]_vars => [Handoff!Next]_(Handoff!vars)
<1> SUFFICES ASSUME IInv, [Next]_vars PROVE [Handoff!Next]_(Handoff!vars)
  OBVIOUS
<1> DEFINE written == {m \in Msgs : lines[m] > 0}
<1>1. ASSUME NEW m \in Msgs, Produce(m) PROVE Handoff!Next
  BY <1>1 DEF Produce, Handoff!Next, Handoff!Produce
<1>2. ASSUME UNCHANGED queueVars PROVE UNCHANGED Handoff!vars
  BY <1>2 DEF queueVars, Handoff!vars
<1>3. ASSUME NEW e \in Exporters, Write(e) PROVE [Handoff!Next]_(Handoff!vars)
  <2>1. PICK m \in Msgs : m = held[e]
    BY <1>3 DEF Write, IInv, WellPlaced
  <2>2. /\ m \in queued \ Blank
        /\ lines' = [lines EXCEPT ![m] = @ + 1]
        /\ UNCHANGED <<queued, removed>>
    BY <1>3, <2>1, MessagesAssumption
       DEF Write, IInv, WellPlaced, LocksExclusive, WrittenFirst
  <2>3. written' = written \cup {m}
    BY <2>2 DEF IInv, TypeOK
  <2>4. Handoff!Deliver(m)
    BY <2>2, <2>3 DEF Handoff!Deliver
  <2> QED  BY <2>4 DEF Handoff!Next
<1>4. ASSUME NEW e \in Exporters, Commit(e) PROVE [Handoff!Next]_(Handoff!vars)
  <2>1. CASE KeepHeld \/ held[e] = NoMsg
    <3>1. NoMsg \notin queued
      BY MessagesAssumption DEF IInv, TypeOK
    <3> QED
      BY <1>4, <2>1, <3>1 DEF Commit, KeepHeld, RemoveHeld, Handoff!vars
  <2>2. CASE RemoveHeld(e) /\ held[e] # NoMsg
    <3>1. held[e] \in queued /\ held[e] \in written \cup Blank /\ held[e] \in Msgs
      BY <1>4, <2>2 DEF Commit, IInv, TypeOK, LocksExclusive, WrittenFirst
    <3>2. Handoff!Remove(held[e])
      BY <1>4, <2>2, <3>1 DEF Commit, RemoveHeld, Handoff!Remove
    <3> QED  BY <3>1, <3>2 DEF Handoff!Next
  <2> QED  BY <1>4, <2>1, <2>2 DEF Commit
<1>5. ASSUME NEW e \in Exporters,
             Start(e) \/ Interrupt(e) \/ Crash(e) \/ StreamFails(e) \/ Open(e)
               \/ Begin(e) \/ Dequeue(e) \/ Export(e) \/ TimeoutAbort(e)
               \/ Rescue(e) \/ Return(e) \/ Fail(e)
      PROVE  UNCHANGED queueVars
  BY <1>5 DEF Start, Interrupt, Crash, StreamFails, Open, Begin, Dequeue,
              DequeueMessage, DequeueNothing, DequeueFails, Export, TimeoutAbort,
              Rescue, Return, Fail, queueVars
<1>6. CASE UNCHANGED vars
  BY <1>6, <1>2 DEF vars
<1> QED
  BY <1>1, <1>2, <1>3, <1>4, <1>5, <1>6 DEF Next, Step

\* Where the output stream does not fail, the exporters implement the hand-off.
THEOREM ImplementsHandoff == ASSUME ~StreamCanFail PROVE Spec => HandoffSpec
<1>1. Init => Handoff!Init
  BY DEF Init, Handoff!Init
<1>2. IInv /\ [Next]_vars => [Handoff!Next]_(Handoff!vars)
  BY HandoffStep
<1> QED
  BY <1>1, <1>2, Invariance, PTL DEF Spec, HandoffSpec, Handoff!Spec
=============================================================================
