-------------------------- MODULE QueueImportProofs -------------------------
(***************************************************************************)
(* Proofs about QueueImport, for any files and any number of failures.     *)
(***************************************************************************)
EXTENDS QueueImport, TLAPS

\* Every exception a queue operation throws is a tuxedo_exception or one of its
\* subclasses, which the handlers of operator>> catch.
LEMMA QueueExceptionsAreTuxedo == QueueExceptions \subseteq TuxedoExceptions
  BY DEF QueueExceptions, TuxedoExceptions, DiagnosticExceptions,
         HandleTperrno, HandleDiagnostics

\* A position is a line of one of the files.
LEMMA PositionsAreLines ==
  /\ \A f \in 1..NumFiles : \A l \in 1..FileLines[f] : <<f, l>> \in Positions
  /\ \A p \in Positions :
       \E f \in 1..NumFiles : \E l \in 1..FileLines[f] : p = <<f, l>>
  BY DEF Positions

\* The base class, which begin, commit and abort throw.
LEMMA BaseClass == "tuxedo_exception" \in TuxedoExceptions
  BY DEF TuxedoExceptions

\* The initial state satisfies the invariant.
LEMMA InitInv == Init => IInv
<1> SUFFICES ASSUME Init PROVE IInv
  OBVIOUS
<1>0. FlagsOK
  BY DEF Init, FlagsOK
<1>1. TypeOK
  BY <1>0, FilesAssumption, FaultsAssumption DEF Init, TypeOK, Locations
<1>2. WellPlaced /\ Progress
  BY FilesAssumption DEF Init, WellPlaced, LeftClean, Progress
<1>3. Stored /\ AtMostOnce /\ Prefix
  BY PositionsAreLines DEF Init, Stored, AtMostOnce, Prefix
<1> QED  BY <1>1, <1>2, <1>3 DEF IInv

\* Flags stay Boolean.
LEMMA FlagsStep == IInv /\ [Next]_vars => FlagsOK'
<1> SUFFICES ASSUME IInv, [Next]_vars PROVE FlagsOK'
  OBVIOUS
<1> USE DEF IInv, TypeOK, FlagsOK
<1>1. CASE OpenFile
  BY <1>1 DEF OpenFile
<1>2. CASE Exit
  BY <1>2 DEF Exit
<1>3. CASE Succeed
  BY <1>3 DEF Succeed, FreeMessage
<1>4. CASE Fail
  BY <1>4 DEF Fail
<1>5. CASE Crash
  BY <1>5 DEF Crash, EndTran
<1>6. CASE Enter
  BY <1>6 DEF Enter
<1>7. CASE GetLine
  BY <1>7 DEF GetLine
<1>8. CASE Import
  BY <1>8 DEF Import
<1>9. CASE Begin
  BY <1>9 DEF Begin
<1>10. CASE Enqueue
  BY <1>10 DEF Enqueue
<1>11. CASE Commit
  BY <1>11 DEF Commit, EndTran
<1>12. CASE Abort
  BY <1>12 DEF Abort, EndTran
<1>13. CASE Outer
  BY <1>13 DEF Outer, FreeMessage
<1>14. CASE UNCHANGED vars
  BY <1>14 DEF vars
<1> QED
  BY <1>1, <1>2, <1>3, <1>4, <1>5, <1>6, <1>7, <1>8, <1>9, <1>10, <1>11, <1>12,
     <1>13, <1>14 DEF Next, Step

\* Types are kept by every step.
LEMMA TypeStep == IInv /\ [Next]_vars => TypeOK'
<1> SUFFICES ASSUME IInv, [Next]_vars PROVE TypeOK'
  OBVIOUS
<1> USE FilesAssumption, FaultsAssumption, BaseClass DEF IInv, TypeOK, Locations, Goto, Throw, Fault, NoFault
<1>0. FlagsOK'
  BY FlagsStep
<1>1. CASE OpenFile
  BY <1>0, <1>1 DEF OpenFile
<1>2. CASE Exit
  BY <1>0, <1>2 DEF Exit
<1>3. CASE Succeed
  BY <1>0, <1>3 DEF Succeed, FreeMessage
<1>4. CASE Fail
  BY <1>0, <1>4 DEF Fail
<1>5. CASE Crash
  BY <1>0, <1>5 DEF Crash, EndTran
<1>6. CASE Enter
  BY <1>0, <1>6 DEF Enter, ResetCount
<1>7. CASE GetLine
  BY <1>0, <1>7 DEF GetLine
<1>8. CASE Import
  BY <1>0, <1>8 DEF Import, OnMalformed
<1>9. CASE Begin
  BY <1>0, <1>9 DEF Begin, Handler
<1>10. CASE Enqueue
  BY <1>0, <1>10, QueueExceptionsAreTuxedo DEF Enqueue, Handler
<1>11. CASE Commit
  <2>1. ASSUME StorePending PROVE copies' \in [Positions -> Nat]
    <3>1. \/ copies' = copies
          \/ \E p : copies' = [copies EXCEPT ![p] = @ + 1]
      BY <2>1, Zenon DEF StorePending
    <3> QED  BY <3>1
  <2>2. copies' \in [Positions -> Nat]
    BY <1>11, <2>1 DEF Commit
  <2> QED
    BY <1>0, <1>11, <2>2 DEF Commit, Handler
<1>12. CASE Abort
  BY <1>0, <1>12 DEF Abort, EndTran
<1>13. CASE Outer
  BY <1>0, <1>13 DEF Outer, FreeMessage
<1>14. CASE UNCHANGED vars
  BY <1>0, <1>14 DEF vars
<1> QED
  BY <1>1, <1>2, <1>3, <1>4, <1>5, <1>6, <1>7, <1>8, <1>9, <1>10, <1>11, <1>12,
     <1>13, <1>14 DEF Next, Step

\* What the transaction holds fits where the process is.
LEMMA PlaceStep == IInv /\ [Next]_vars => WellPlaced'
<1> SUFFICES ASSUME IInv, [Next]_vars PROVE WellPlaced'
  OBVIOUS
<1> USE BaseClass DEF IInv, TypeOK, WellPlaced, LeftClean, Locations, Goto
<1>1. CASE OpenFile
  BY <1>1 DEF OpenFile
<1>2. CASE Exit
  BY <1>2 DEF Exit
<1>3. CASE Succeed
  BY <1>3 DEF Succeed, FreeMessage
<1>4. CASE Fail
  BY <1>4 DEF Fail
<1>5. CASE Crash
  BY <1>5 DEF Crash, EndTran
<1>6. CASE Enter
  BY <1>6 DEF Enter, ResetCount
<1>7. CASE GetLine
  BY <1>7 DEF GetLine
<1>8. CASE Import
  BY <1>8 DEF Import, OnMalformed
<1>9. CASE Begin
  BY <1>9 DEF Begin, Handler
<1>10. CASE Enqueue
  BY <1>10, QueueExceptionsAreTuxedo DEF Enqueue, Handler
<1>11. CASE Commit
  BY <1>11 DEF Commit, EndTran, StorePending, Handler
<1>12. CASE Abort
  BY <1>12 DEF Abort, EndTran
<1>13. CASE Outer
  BY <1>13 DEF Outer, FreeMessage
<1>14. CASE UNCHANGED vars
  BY <1>14 DEF vars
<1> QED
  BY <1>1, <1>2, <1>3, <1>4, <1>5, <1>6, <1>7, <1>8, <1>9, <1>10, <1>11, <1>12,
     <1>13, <1>14 DEF Next, Step

\* So does how far it is in the file.
LEMMA ProgressStep == IInv /\ [Next]_vars => Progress'
<1> SUFFICES ASSUME IInv, [Next]_vars PROVE Progress'
  OBVIOUS
<1> USE FilesAssumption, BaseClass DEF IInv, TypeOK, Progress, Locations, Goto
<1>1. CASE OpenFile
  BY <1>1 DEF OpenFile
<1>2. CASE Exit
  BY <1>2 DEF Exit
<1>3. CASE Succeed
  BY <1>3 DEF Succeed, FreeMessage
<1>4. CASE Fail
  BY <1>4 DEF Fail
<1>5. CASE Crash
  BY <1>5 DEF Crash, EndTran
<1>6. CASE Enter
  BY <1>6 DEF Enter, ResetCount
<1>7. CASE GetLine
  BY <1>7 DEF GetLine
<1>8. CASE Import
  BY <1>8 DEF Import, OnMalformed
<1>9. CASE Begin
  BY <1>9 DEF Begin, Handler
<1>10. CASE Enqueue
  BY <1>10, QueueExceptionsAreTuxedo DEF Enqueue, Handler
<1>11. CASE Commit
  BY <1>11 DEF Commit, EndTran, StorePending, Handler
<1>12. CASE Abort
  BY <1>12 DEF Abort, EndTran
<1>13. CASE Outer
  BY <1>13 DEF Outer, FreeMessage
<1>14. CASE UNCHANGED vars
  BY <1>14 DEF vars
<1> QED
  BY <1>1, <1>2, <1>3, <1>4, <1>5, <1>6, <1>7, <1>8, <1>9, <1>10, <1>11, <1>12,
     <1>13, <1>14 DEF Next, Step

\* A step that stores no line keeps what is known of the stored ones.
LEMMA NothingStored ==
  ASSUME IInv, UNCHANGED copies, Stored'
  PROVE  (Stored /\ AtMostOnce /\ Prefix)'
  BY DEF IInv, AtMostOnce, Prefix

\* What is stored is kept in line with the progress by every step; only a commit,
\* reported as successful or not, stores a line: the next one of the file.
LEMMA StoredStep ==
  IInv /\ [Next]_vars => (Stored /\ AtMostOnce /\ Prefix)'
<1> SUFFICES ASSUME IInv, [Next]_vars PROVE (Stored /\ AtMostOnce /\ Prefix)'
  OBVIOUS
<1> USE FilesAssumption DEF IInv, TypeOK, Progress, Goto
<1>1. CASE OpenFile
  BY <1>1, NothingStored DEF OpenFile, Stored
<1>2. CASE Exit
  BY <1>2, NothingStored DEF Exit, Stored
<1>3. CASE Succeed
  BY <1>3, NothingStored DEF Succeed, Stored
<1>4. CASE Fail
  BY <1>4, NothingStored DEF Fail, Stored
<1>5. CASE Crash
  BY <1>5, NothingStored DEF Crash, Stored
<1>6. CASE Enter
  BY <1>6, NothingStored DEF Enter, ResetCount, Stored
<1>7. CASE GetLine
  BY <1>7, NothingStored DEF GetLine, Stored
<1>8. CASE Import
  BY <1>8, NothingStored DEF Import, OnMalformed, Stored
<1>9. CASE Begin
  BY <1>9, NothingStored, BaseClass DEF Begin, Handler, Stored
<1>10. CASE Enqueue
  BY <1>10, NothingStored, QueueExceptionsAreTuxedo DEF Enqueue, Handler, Stored
<1>11. CASE Commit
  <2>1. ASSUME UNCHANGED copies, pc' = "abort" PROVE (Stored /\ AtMostOnce /\ Prefix)'
    <3>1. line = count + 1 /\ UNCHANGED <<file, line, count>>
      BY <1>11, <2>1 DEF Commit
    <3>2. Stored'
      BY <1>11, <2>1, <3>1 DEF Commit, Stored
    <3> QED  BY <2>1, <3>2, NothingStored
  <2>2. CASE copies' = [copies EXCEPT ![<<file, line>>] = @ + 1]
    <3>1. file \in 1..NumFiles /\ line \in 1..FileLines[file] /\ line = count + 1
      BY <1>11 DEF Commit
    <3>2. copies[<<file, line>>] = 0
      BY <1>11, <3>1 DEF Commit, Stored
    <3>3. /\ <<file, line>> \in Positions
          /\ \A p \in Positions :
               copies'[p] = IF p = <<file, line>> THEN 1 ELSE copies[p]
      BY <2>2, <3>1, <3>2, PositionsAreLines
    <3>4. AtMostOnce'
      BY <3>3 DEF AtMostOnce
    <3>5. \A f \in 1..NumFiles : \A l \in 1..FileLines[f] :
            copies'[<<f, l>>] = IF f = file /\ l = line THEN 1 ELSE copies[<<f, l>>]
      BY <3>3, PositionsAreLines
    <3>6. Prefix'
      <4> SUFFICES ASSUME NEW f \in 1..NumFiles, NEW l \in 1..FileLines[f],
                          copies'[<<f, l>>] > 0, NEW k \in 1..l
                   PROVE  copies'[<<f, k>>] > 0
        BY DEF Prefix
      <4>1. FileLines[f] \in Nat /\ k \in 1..FileLines[f]
        OBVIOUS
      <4>2. CASE f = file
        BY <1>11, <3>1, <3>5, <4>1, <4>2 DEF Commit, Stored
      <4>3. CASE f # file
        BY <3>5, <4>1, <4>3 DEF Prefix
      <4> QED  BY <4>2, <4>3
    <3>7. /\ file' = file /\ line' = line
          /\ \/ pc' = "getline" /\ count' = count + 1
             \/ pc' = "abort" /\ count' = count
      BY <1>11, BaseClass DEF Commit, Handler
    <3>8. \A f \in 1..NumFiles : \A l \in 1..FileLines[f] :
            f > file => copies'[<<f, l>>] = 0
      BY <3>1, <3>5 DEF Stored
    <3>9. \A l \in 1..FileLines[file] :
            /\ l <= count => copies'[<<file, l>>] = 1
            /\ l = line => copies'[<<file, l>>] = 1
            /\ l > line => copies'[<<file, l>>] = 0
      BY <1>11, <3>1, <3>5 DEF Commit, Stored
    <3>10. Stored'
      <4>1. count \in Nat /\ FileLines[file] \in Nat
        BY <3>1
      <4>2. \A l \in 1..FileLines[file] :
              /\ l <= count' => copies'[<<file, l>>] = 1
              /\ l > line => copies'[<<file, l>>] = 0
        BY <3>1, <3>7, <3>9, <4>1
      <4> HIDE DEF IInv
      <4> QED  BY <3>1, <3>7, <3>8, <4>2 DEF Stored
    <3> QED  BY <3>4, <3>6, <3>10
  <2>3. StorePending \/ (UNCHANGED copies /\ pc' = "abort")
    BY <1>11, BaseClass DEF Commit, Handler
  <2>4. pending
    BY <1>11 DEF Commit, WellPlaced
  <2> QED  BY <2>1, <2>2, <2>3, <2>4, Zenon DEF StorePending
<1>12. CASE Abort
  BY <1>12, NothingStored DEF Abort, Stored
<1>13. CASE Outer
  BY <1>13, NothingStored DEF Outer, Stored
<1>14. CASE UNCHANGED vars
  BY <1>14, NothingStored DEF vars, Stored
<1> QED
  BY <1>1, <1>2, <1>3, <1>4, <1>5, <1>6, <1>7, <1>8, <1>9, <1>10, <1>11, <1>12,
     <1>13, <1>14 DEF Next, Step

\* The invariant is one.
THEOREM Invariance == Spec => []IInv
<1>1. IInv /\ [Next]_vars => IInv'
  BY TypeStep, PlaceStep, ProgressStep, StoredStep DEF IInv
<1> QED
  BY InitInv, <1>1, PTL DEF Spec

\* Every variable keeps its type.
THEOREM TypeCorrect == Spec => []TypeOK
<1>1. IInv => TypeOK
  BY DEF IInv
<1> QED
  BY <1>1, Invariance, PTL

\* No line is enqueued twice (queue_stream.cpp:140-154 tries every line once).
THEOREM NoDoubleEnqueue == Spec => []AtMostOnce
<1>1. IInv => AtMostOnce
  BY DEF IInv
<1> QED
  BY <1>1, Invariance, PTL

\* What is on the queue is the beginning of each file.
THEOREM PrefixStored == Spec => []Prefix
<1>1. IInv => Prefix
  BY DEF IInv
<1> QED
  BY <1>1, Invariance, PTL

\* The count of queue_stream tells which lines are stored, whether operator>>
\* returned or threw.
THEOREM CountIsResumePoint == Spec => []CountTellsPrefix
<1>1. IInv => CountTellsPrefix
  <2> SUFFICES ASSUME IInv, pc \in {"return", "threw"}, NEW l \in 1..FileLines[file]
               PROVE  /\ l <= count => copies[<<file, l>>] = 1
                      /\ l > count + 1 => copies[<<file, l>>] = 0
                      /\ pc = "return" /\ l > count => copies[<<file, l>>] = 0
    BY DEF CountTellsPrefix
  <2>1. file \in 1..NumFiles /\ FileLines[file] \in Nat /\ line \in {count, count + 1}
    BY FilesAssumption DEF IInv, Progress, TypeOK
  <2> QED
    BY <2>1 DEF IInv, TypeOK, Progress, Stored
<1> QED
  BY <1>1, Invariance, PTL

\* A normal return from a readable file means that all of it is on the queue.
THEOREM ReturnsLoaded == Spec => []ReturnMeansLoaded
<1>1. IInv => ReturnMeansLoaded
  BY FilesAssumption DEF IInv, TypeOK, Progress, Stored, ReturnMeansLoaded
<1> QED
  BY <1>1, Invariance, PTL

\* operator>> is left without an open transaction and without its buffer.
THEOREM AlwaysLeftClean == Spec => []LeftClean
<1>1. IInv => LeftClean
  BY DEF IInv, WellPlaced
<1> QED
  BY <1>1, Invariance, PTL

\* Every step of the process is a step of the loading or changes nothing of it: only
\* OpenFile takes a file and only a commit stores a line, the next one.
LEMMA LoadStep == IInv /\ [Next]_vars => [Load!Next]_(Load!vars)
<1> DEFINE reading == {"run", "getline", "import", "begin", "enqueue", "commit"}
           at == IF pc \in reading THEN "loading" ELSE "idle"
<1> SUFFICES ASSUME IInv, [Next]_vars PROVE [Load!Next]_(Load!vars)
  OBVIOUS
<1>1. CASE OpenFile
  <2>1. /\ at = "idle" /\ at' \in {"loading", "idle"}
        /\ file < NumFiles /\ file' = file + 1 /\ copies' = copies
    BY <1>1 DEF OpenFile, Goto
  <2>2. Load!Take
    BY <2>1 DEF Load!Take
  <2> QED  BY <2>2 DEF Load!Next
<1>2. ASSUME copies' = copies, file' = file, at' = at \/ at' = "idle"
      PROVE  [Load!Next]_(Load!vars)
  <2>1. CASE at' = at
    BY <1>2, <2>1 DEF Load!vars
  <2>2. CASE at' # at
    <3>1. Load!Stop
      BY <1>2, <2>2 DEF Load!Stop
    <3> QED  BY <3>1 DEF Load!Next
  <2> QED  BY <2>1, <2>2
<1>3. CASE Commit
  <2>1. /\ at = "loading" /\ at' \in {"loading", "idle"} /\ file' = file
        /\ copies' = copies \/ StorePending
        /\ copies' # copies \/ at' = "idle" \/ at' = at
    BY <1>3 DEF Commit, Goto, Handler
  <2>2. CASE copies' = copies
    BY <1>2, <2>1, <2>2
  <2>3. CASE StorePending /\ copies' # copies
    <3>1. copies' = [copies EXCEPT ![<<file, line>>] = @ + 1]
      BY <2>3, Zenon DEF StorePending
    <3>2. /\ file \in 1..NumFiles /\ line \in Nat /\ count \in Nat
          /\ FileLines[file] \in Nat /\ line <= FileLines[file] /\ line = count + 1
      BY <1>3, FilesAssumption DEF Commit, IInv, TypeOK, Progress
    <3>3. /\ line \in 1..FileLines[file]
          /\ copies[<<file, line>>] = 0
          /\ \A k \in 1..(line - 1) : copies[<<file, k>>] = 1
      BY <1>3, <3>2 DEF Commit, IInv, Stored
    <3>4. <<file, line>> \in Positions /\ copies \in [Positions -> Nat]
      BY <3>2, <3>3, PositionsAreLines DEF IInv, TypeOK
    <3>5. copies' = [copies EXCEPT ![<<file, line>>] = 1]
      BY <3>1, <3>3, <3>4
    <3>6. Load!Store
      BY <2>1, <3>3, <3>5 DEF Load!Store
    <3> QED  BY <3>6 DEF Load!Next
  <2> QED  BY <2>1, <2>2, <2>3
<1>4. ASSUME \/ Exit \/ Succeed \/ Fail \/ Enter \/ GetLine \/ Import \/ Begin
             \/ Enqueue \/ Abort \/ Outer \/ Crash
      PROVE  copies' = copies /\ file' = file /\ (at' = at \/ at' = "idle")
  BY <1>4 DEF Exit, Succeed, Fail, Enter, GetLine, Import, Begin, Enqueue, Abort, Outer,
              Crash, Goto, Handler, OnMalformed
<1>5. CASE UNCHANGED vars
  BY <1>2, <1>5 DEF vars
<1> QED
  BY <1>1, <1>2, <1>3, <1>4, <1>5 DEF Next, Step

\* qimport (main, run and operator>>) implements the loading of files: whatever fails,
\* what it does to the queue is to store the next line of the file at hand, once.
THEOREM ImplementsLoad == Spec => LoadSpec
<1>1. Init => Load!Init
  BY DEF Init, Load!Init
<1>2. IInv /\ [Next]_vars => [Load!Next]_(Load!vars)
  BY LoadStep
<1> QED
  BY <1>1, <1>2, Invariance, PTL DEF Spec, LoadSpec, Load!Spec
\* The stages are ordered numbers.
LEMMA Stages ==
  /\ Stage["run"] = 1 /\ Stage["import"] = 2 /\ Stage["begin"] = 3
  /\ Stage["enqueue"] = 4 /\ Stage["commit"] = 5 /\ Stage["getline"] = 6
  /\ Stage["return"] = 7 /\ Stage["abort"] = 7 /\ Stage["outer"] = 8
  /\ Stage["threw"] = 9 /\ Stage["open"] = 10 /\ Stage["exit"] = 11
  BY DEF Stage, Locations

\* Every step goes to a later stage, line or file.
LEMMA ForwardStep == IInv /\ [Next]_vars => [Advance]_vars
<1> SUFFICES ASSUME IInv, Next PROVE Advance
  OBVIOUS
<1>1. /\ pc \in Locations /\ file \in Nat /\ line \in Nat
  BY FilesAssumption DEF IInv, TypeOK
<1>2. CASE OpenFile
  <2>1. file' = file + 1
    BY <1>2 DEF OpenFile
  <2> QED  BY <1>1, <2>1 DEF Advance
<1>3. CASE GetLine
  <2>1. file' = file /\ pc = "getline"
        /\ (line' = line + 1 \/ (line' = line /\ pc' = "return"))
    BY <1>3 DEF GetLine, Goto
  <2> QED  BY <1>1, <2>1, Stages DEF Advance
<1>4. CASE Begin \/ Enqueue \/ Commit \/ Abort
  <2>1. /\ file' = file /\ line' = line
        /\ \/ pc = "begin" /\ pc' \in {"enqueue", "abort"}
           \/ pc = "enqueue" /\ pc' \in {"commit", "abort"}
           \/ pc = "commit" /\ pc' \in {"getline", "abort"}
           \/ pc = "abort" /\ pc' = "outer"
    BY <1>4, BaseClass, QueueExceptionsAreTuxedo
    DEF Begin, Enqueue, Commit, Abort, Goto, Handler
  <2> QED  BY <2>1, Stages DEF Advance
<1>5. CASE Exit \/ Succeed \/ Fail \/ Enter \/ Import \/ Outer
  <2>1. /\ file' = file /\ line' = line
        /\ \/ pc = "open" /\ pc' = "exit"
           \/ pc \in {"return", "threw"} /\ pc' = "open"
           \/ pc = "run" /\ pc' \in {"getline", "outer"}
           \/ pc = "import" /\ pc' \in {"begin", "outer"}
           \/ pc = "outer" /\ pc' = "threw"
    BY <1>5 DEF Exit, Succeed, Fail, Enter, Import, Outer, OnMalformed, Goto
  <2> QED  BY <2>1, Stages DEF Advance
<1>6. CASE Crash
  <2>1. file' = file /\ line' = line /\ pc # "exit" /\ pc' = "exit"
    BY <1>6 DEF Crash, Goto
  <2>2. Stage[pc] < 11
    BY <1>1, <2>1, Stages DEF Locations
  <2> QED  BY <2>1, <2>2, Stages DEF Advance
<1> QED
  BY <1>2, <1>3, <1>4, <1>5, <1>6 DEF Next, Step

\* No loop of qimport (run for each file, operator>> for each line) goes back: a file is
\* not opened, a line not read and no step of a line taken twice, whatever throws.
THEOREM NeverBack == Spec => Forward
<1>1. IInv /\ [Next]_vars => [Advance]_vars
  BY ForwardStep
<1> QED
  BY <1>1, Invariance, PTL DEF Spec, Forward
=============================================================================
