------------------------- MODULE ServerRebootProofs -------------------------
(***************************************************************************)
(* Proofs about ServerReboot, for any finite domain, page size and bounds. *)
(*                                                                         *)
(* What is down besides the server between its stop and its start, or will *)
(* be when a late stop is carried out (Gone), grows only by requests that  *)
(* fail.  Without failures the entries that were seen, and no others, were *)
(* restarted.                                                              *)
(***************************************************************************)
EXTENDS ServerReboot, TLAPS, FiniteSetTheorems

\* The types of all variables but the Boolean one, and of the sets of entries.
Types ==
  /\ pc \in {"get", "entries", "stop", "start", "done", "failed"}
  /\ up \subseteq Servers /\ listed \subseteq Servers
  /\ page \subseteq listed /\ unread \subseteq listed \ page /\ todo \subseteq page
  /\ current \subseteq todo \ Protected
  /\ pc \notin {"stop", "start"} => current = {}
  /\ pc \in {"stop", "start"} => \E s \in todo : current = {s}
  /\ counter \in Nat /\ restarted \in Nat
  /\ late \subseteq Restartable \X States
  /\ faults \in 0..MaxFaults /\ byHand \in 0..MaxOperator
  /\ down \subseteq Restartable \ up
  /\ touched \subseteq Servers /\ brought \subseteq Restartable

Between == IF pc = "start" THEN current ELSE {}
Gone == (down \ Between) \cup {s \in Servers : <<s, "INACTIVE">> \in late}
Paid == Cardinality(Gone) <= faults /\ (late # {} => faults > 0)

\* The entries the loop is through with.
Seen == listed \ (unread \cup todo)

\* Without failures: pages are worked off, and what was stopped is started.
Unfailed ==
  faults = 0 =>
    /\ pc \in {"get", "done"} => todo = {}
    /\ pc = "done" => unread = {}
    /\ listed \ touched \subseteq up \cup Between

\* A dry run counts what it sees and restarts nothing.
Dry ==
  /\ pc \notin {"stop", "start"} /\ brought = {}
  /\ faults = 0 => counter = Cardinality(Seen \ Protected)

\* Otherwise it misses no restart that worked, and without failures counts those.
Wet ==
  /\ restarted <= counter
  /\ faults = 0 => /\ brought = Seen \ Protected
                   /\ counter = Cardinality(Seen \ Protected)

Mode == (dryRun /\ Dry) \/ (~dryRun /\ Wet)

IInv == Types /\ Paid /\ Unfailed /\ dryRun \in BOOLEAN /\ Mode

\* Sets of servers and their sizes.
LEMMA Finite ==
  ASSUME NEW S, S \subseteq Servers
  PROVE  /\ IsFiniteSet(S) /\ Cardinality(S) \in Nat
         /\ \A s : Cardinality(S \cup {s}) <= Cardinality(S) + 1
         /\ \A s : s \notin S => Cardinality(S \cup {s}) = Cardinality(S) + 1
         /\ \A T : T \subseteq S => Cardinality(T) <= Cardinality(S)
         /\ \A s, T : T \subseteq S \cup {s} => Cardinality(T) <= Cardinality(S) + 1
<1>1. IsFiniteSet(S) /\ Cardinality(S) \in Nat
  BY ServersAssumption, FS_Subset, FS_CardinalityType
<1>2. ASSUME NEW s
      PROVE  /\ IsFiniteSet(S \cup {s})
             /\ Cardinality(S \cup {s}) \in Nat
             /\ Cardinality(S \cup {s}) <= Cardinality(S) + 1
             /\ s \notin S => Cardinality(S \cup {s}) = Cardinality(S) + 1
  BY <1>1, FS_AddElement, FS_CardinalityType
<1>3. ASSUME NEW T, T \subseteq S
      PROVE  Cardinality(T) <= Cardinality(S)
  BY <1>1, <1>3, FS_Subset
<1>4. ASSUME NEW s, NEW T, T \subseteq S \cup {s}
      PROVE  Cardinality(T) <= Cardinality(S) + 1
  <2>1. Cardinality(T) <= Cardinality(S \cup {s}) /\ Cardinality(T) \in Nat
    BY <1>2, <1>4, FS_Subset, FS_CardinalityType
  <2>2. Cardinality(S \cup {s}) \in Nat /\ Cardinality(S \cup {s}) <= Cardinality(S) + 1
    BY <1>2
  <2> QED  BY <1>1, <2>1, <2>2
<1> QED  BY <1>1, <1>2, <1>3, <1>4

\* The invariant gives the properties.
LEMMA Gives == IInv => TypeOK /\ LeftDownPaid /\ AllRestarted /\ ReportHonest
<1> SUFFICES ASSUME IInv PROVE TypeOK /\ LeftDownPaid /\ AllRestarted /\ ReportHonest
  OBVIOUS
<1>1. Types /\ Paid /\ Unfailed
  BY DEF IInv
<1>2. TypeOK
  <2>1. current # {} => \E s : current = {s}
    BY <1>1 DEF Types
  <2>2. Cardinality(current) <= 1
    BY <2>1, FS_EmptySet, FS_Singleton
  <2>3. pc \in {"stop", "start"} <=> current # {}
    BY <1>1 DEF Types
  <2>4. dryRun \in BOOLEAN
    BY Zenon DEF IInv
  <2> QED  BY Zenon, <1>1, <2>2, <2>3, <2>4 DEF Types, TypeOK, Locations
<1>3. LeftDownPaid
  <2>1. Gone \subseteq Servers
    BY <1>1 DEF Types, Gone, Restartable
  <2>2. Cardinality(down \ Between) <= Cardinality(Gone) /\ Cardinality(Gone) \in Nat
        /\ Cardinality(down \ Between) \in Nat
    <3>1. down \ Between \subseteq Gone /\ down \ Between \subseteq Servers
      BY <2>1 DEF Gone
    <3> QED  BY <2>1, <3>1, Finite
  <2> QED  BY <1>1, <2>2 DEF Paid, Types, LeftDownPaid, Between
<1>4. CASE dryRun /\ Dry
  <2>1. pc = "done" /\ faults = 0 =>
          /\ listed \ touched \subseteq up /\ brought = {}
          /\ counter = Cardinality(listed \ Protected)
    <3> SUFFICES ASSUME pc = "done", faults = 0
                 PROVE  /\ listed \ touched \subseteq up /\ brought = {}
                        /\ counter = Cardinality(listed \ Protected)
      OBVIOUS
    <3>1. Seen = listed
      BY <1>1 DEF Unfailed, Seen
    <3>2. listed \ touched \subseteq up
      BY <1>1 DEF Unfailed, Between
    <3> QED  BY <1>4, <3>1, <3>2 DEF Dry
  <2> QED  BY Zenon, <1>2, <1>3, <1>4, <2>1 DEF AllRestarted, ReportHonest
<1>5. CASE ~dryRun /\ Wet
  <2>1. pc = "done" /\ faults = 0 =>
          brought = listed \ Protected /\ brought \ touched \subseteq up
    <3> SUFFICES ASSUME pc = "done", faults = 0
                 PROVE  brought = listed \ Protected /\ brought \ touched \subseteq up
      OBVIOUS
    <3>1. Seen = listed
      BY <1>1 DEF Unfailed, Seen
    <3>2. listed \ touched \subseteq up
      BY <1>1 DEF Unfailed, Between
    <3> QED  BY <1>5, <3>1, <3>2 DEF Wet
  <2>2. /\ restarted <= counter
        /\ faults = 0 => counter = Cardinality(brought)
    BY <1>5 DEF Wet
  <2> QED  BY Zenon, <1>2, <1>3, <1>5, <2>1, <2>2 DEF AllRestarted, ReportHonest
<1> QED  BY <1>4, <1>5 DEF IInv, Mode

\* The initial states satisfy the invariant.
LEMMA InitInv == Init => IInv
<1> SUFFICES ASSUME Init PROVE IInv
  OBVIOUS
<1>1. /\ pc = "get"
      /\ up \in {Servers} \cup {Servers \ {s} : s \in Servers}
      /\ listed = {} /\ unread = {} /\ page = {} /\ todo = {} /\ current = {}
      /\ counter = 0 /\ restarted = 0
      /\ late = {} /\ faults = 0 /\ byHand = 0
      /\ down = {} /\ touched = {} /\ brought = {}
  BY Zenon DEF Init
<1>2. Types
  BY <1>1, BoundsAssumption DEF Types
<1>3. Gone = {} /\ Seen = {}
  BY <1>1 DEF Gone, Seen, Between
<1>4. Paid /\ Unfailed
  BY <1>1, <1>3, FS_EmptySet DEF Paid, Unfailed
<1>5. Seen \ Protected = {}
  BY <1>3
<1>6. Dry /\ Wet
  BY <1>1, <1>5, FS_EmptySet DEF Dry, Wet
<1>7. dryRun \in BOOLEAN
  BY Zenon DEF Init
<1> QED  BY Zenon, <1>2, <1>4, <1>6, <1>7 DEF IInv, Mode

-----------------------------------------------------------------------------
\* Gone does not grow, or by one server for a fault.
LEMMA PaidStep ==
  ASSUME Types, Paid, Types',
         \/ Gone' \subseteq Gone /\ (faults' = faults \/ faults' = faults + 1)
         \/ \E s : Gone' \subseteq Gone \cup {s} /\ faults' = faults + 1,
         late' # {} => late # {} \/ faults' = faults + 1
  PROVE  Paid'
<1>1. Gone \subseteq Servers /\ faults \in Nat /\ (Gone' \subseteq Servers)
  BY DEF Types, Gone, Restartable
<1>2. PICK g, h : g = Gone /\ h = Gone'
  OBVIOUS
<1>3. Cardinality(g) \in Nat /\ Cardinality(h) \in Nat /\ Cardinality(g) <= faults
  BY <1>1, <1>2, Finite DEF Paid
<1>4. CASE Gone' \subseteq Gone /\ (faults' = faults \/ faults' = faults + 1)
  <2>1. Cardinality(h) <= Cardinality(g)
    BY <1>1, <1>2, <1>4, Finite
  <2>2. Cardinality(h) <= faults'
    BY <1>1, <1>3, <1>4, <2>1
  <2>3. late' # {} => faults' > 0
    BY <1>1, <1>4 DEF Paid
  <2> QED  BY <1>2, <2>2, <2>3 DEF Paid
<1>5. CASE \E s : Gone' \subseteq Gone \cup {s} /\ faults' = faults + 1
  <2>1. Cardinality(h) <= Cardinality(g) + 1
    BY <1>1, <1>2, <1>5, Finite
  <2>2. Cardinality(h) <= faults' /\ faults' > 0
    BY <1>1, <1>3, <1>5, <2>1
  <2> QED  BY <1>2, <2>2 DEF Paid
<1> QED  BY <1>4, <1>5

\* The parts make the invariant.
LEMMA Closes ==
  ASSUME IInv, dryRun' = dryRun, Types', Paid', Unfailed',
         dryRun /\ Dry => Dry', ~dryRun /\ Wet => Wet'
  PROVE  IInv'
  BY Zenon DEF IInv, Mode

\* Without a restart the count is still that of the servers seen.
LEMMA WetStep ==
  ASSUME Types, Types', Wet,
         counter' = counter, restarted' = restarted, brought' = brought,
         faults' = faults \/ faults' = faults + 1,
         faults' = 0 => faults = 0 /\ Seen' \ Protected = Seen \ Protected
  PROVE  Wet'
  BY DEF Wet

\* Reading pages: nothing is stopped or started.
LEMMA ReadStep ==
  ASSUME IInv, Get \/ GetNext \/ GetRefused \/ GetThrows \/ PageDone
  PROVE  IInv'
<1>1. Types /\ Paid /\ Unfailed
  BY DEF IInv
<1>2. dryRun' = dryRun
  BY Zenon DEF Get, GetNext, GetRefused, GetThrows, PageDone
<1>3. /\ current' = current /\ counter' = counter /\ up' = up /\ late' = late
      /\ byHand' = byHand /\ down' = down /\ touched' = touched /\ brought' = brought
      /\ restarted' = restarted
      /\ pc \in {"get", "entries"} /\ pc' \in {"get", "entries", "done", "failed"}
      /\ current = {}
  BY <1>1 DEF Get, GetNext, GetRefused, GetThrows, PageDone, historyVars, Types
<1>4. /\ faults' \in 0..MaxFaults
      /\ \/ faults' = faults
         \/ faults' = faults + 1
  BY <1>1, BoundsAssumption
  DEF Get, GetNext, GetRefused, GetThrows, PageDone, Fault, NoFault, Types
<1>5. \A S : \A p \in Pages(S) : p \subseteq S
  BY DEF Pages
<1>6. /\ listed' \subseteq Servers /\ page' \subseteq listed'
      /\ unread' \subseteq listed' \ page' /\ todo' \subseteq page'
  <2>1. CASE Get
    BY <1>1, <1>5, <2>1 DEF Get, Types
  <2>2. CASE GetNext
    BY <1>1, <1>5, <2>2 DEF GetNext, Types
  <2>3. CASE GetRefused \/ GetThrows \/ PageDone
    BY <1>1, <2>3 DEF GetRefused, GetThrows, PageDone, Types
  <2> QED  BY <2>1, <2>2, <2>3
<1>7. Types'
  BY <1>1, <1>3, <1>4, <1>6 DEF Types
<1>8. Gone' = Gone
  BY <1>3 DEF Gone, Between
<1>9. Paid'
  BY <1>1, <1>3, <1>4, <1>7, <1>8, PaidStep
<1>10. faults' = 0 => /\ faults = 0 /\ Seen' \ Protected = Seen \ Protected
                      /\ pc' \in {"get", "done"} => todo' = {}
                      /\ pc' = "done" => unread' = {}
                      /\ listed' \ touched' \subseteq up'
  <2> SUFFICES ASSUME faults' = 0
               PROVE  /\ faults = 0 /\ Seen' \ Protected = Seen \ Protected
                      /\ pc' \in {"get", "done"} => todo' = {}
                      /\ pc' = "done" => unread' = {}
                      /\ listed' \ touched' \subseteq up'
    OBVIOUS
  <2>1. faults = 0 /\ faults' = faults
    BY <1>1, <1>4, BoundsAssumption DEF Types
  <2>2. /\ pc = "get" => todo = {}
        /\ listed \ touched \subseteq up
    BY <1>1, <1>3, <2>1 DEF Unfailed, Between
  <2>3. CASE Get
    BY <1>1, <1>3, <1>5, <2>1, <2>3 DEF Get, Seen, Types
  <2>4. CASE GetNext
    BY <1>1, <1>3, <1>5, <2>1, <2>2, <2>4 DEF GetNext, Seen, Types
  <2>5. CASE PageDone
    BY <1>3, <2>1, <2>2, <2>5 DEF PageDone, Seen, More
  <2>6. ~Fault
    BY <2>1 DEF Fault
  <2>7. CASE GetRefused
    <3>1. /\ page \subseteq Protected /\ todo' = page /\ pc' = "entries"
          /\ listed' = listed /\ unread' = unread
      BY <2>6, <2>7 DEF GetRefused
    <3>2. Seen' \ Protected = Seen \ Protected
      BY <1>1, <3>1 DEF Seen, Types
    <3> QED  BY <1>3, <2>1, <2>2, <3>1, <3>2
  <2> QED  BY <2>3, <2>4, <2>5, <2>6, <2>7 DEF GetThrows
<1>11. Unfailed'
  BY <1>10 DEF Unfailed
<1>12. Dry => Dry'
  BY <1>3, <1>10 DEF Dry
<1>13. Wet => Wet'
  BY <1>1, <1>3, <1>4, <1>7, <1>10, WetStep
<1> QED  BY Zenon, <1>2, <1>7, <1>9, <1>11, <1>12, <1>13, Closes

\* The loop over a page: what reboot leaves alone, would restart, or begins to restart.
LEMMA EntryStep ==
  ASSUME IInv, NEW s \in Servers, Skip(s) \/ DryRestart(s) \/ Restart(s)
  PROVE  IInv'
<1>1. Types /\ Paid /\ Unfailed
  BY DEF IInv
<1>2. dryRun' = dryRun
  BY Zenon DEF Skip, DryRestart, Restart
<1>3. /\ up' = up /\ late' = late /\ byHand' = byHand /\ down' = down
      /\ touched' = touched /\ brought' = brought /\ restarted' = restarted
      /\ faults' = faults /\ listed' = listed /\ unread' = unread /\ page' = page
      /\ pc = "entries" /\ s \in todo
  BY DEF Skip, DryRestart, Restart, historyVars
<1>4. Types'
  <2>1. CASE Skip(s) \/ DryRestart(s)
    BY <1>1, <1>3, <2>1 DEF Skip, DryRestart, Types, Counted
  <2>2. CASE Restart(s)
    BY <1>1, <1>3, <2>2 DEF Restart, Types, MayRestart
  <2> QED  BY <2>1, <2>2
<1>5. Between = {} /\ Between' = {}
  BY <1>3 DEF Skip, DryRestart, Restart, Between
<1>6. Gone' = Gone
  BY <1>3, <1>5 DEF Gone
<1>7. Paid'
  BY <1>1, <1>3, <1>4, <1>6, PaidStep
<1>8. Unfailed'
  <2>1. pc' \in {"entries", "stop"}
    BY <1>3 DEF Skip, DryRestart, Restart
  <2> QED  BY <1>1, <1>3, <1>5, <2>1 DEF Unfailed
<1>9. CASE Skip(s)
  <2>1. pc' = pc /\ counter' = counter /\ Seen' \ Protected = Seen \ Protected
    BY <1>3, <1>9 DEF Skip, MayRestart, Seen
  <2>2. (Dry => Dry') /\ (Wet => Wet')
    BY <1>3, <2>1 DEF Dry, Wet
  <2> QED  BY Zenon, <1>2, <1>4, <1>7, <1>8, <2>2, Closes
<1>10. CASE DryRestart(s)
  <2>1. ~Wet \/ dryRun
    BY Zenon, <1>10 DEF DryRestart
  <2>2. pc' = pc /\ counter' = counter + 1
    BY <1>10 DEF DryRestart, Counted
  <2>3. /\ Seen' \ Protected = (Seen \ Protected) \cup {s}
        /\ s \notin Seen \ Protected /\ Seen \ Protected \subseteq Servers
    BY <1>1, <1>3, <1>10 DEF DryRestart, MayRestart, Seen, Types
  <2>4. PICK g : g = Seen \ Protected
    OBVIOUS
  <2>5. Cardinality(g \cup {s}) = Cardinality(g) + 1
    BY <2>3, <2>4, Finite
  <2>6. Dry => Dry'
    BY <1>3, <2>2, <2>3, <2>4, <2>5 DEF Dry
  <2> QED  BY Zenon, <1>2, <1>4, <1>7, <1>8, <1>10, <2>6, Closes DEF DryRestart
<1>11. CASE Restart(s)
  <2>1. counter' = counter /\ Seen' = Seen
    BY <1>3, <1>11 DEF Restart, Seen
  <2>2. Wet => Wet'
    BY <1>3, <2>1 DEF Wet
  <2> QED  BY Zenon, <1>2, <1>4, <1>7, <1>8, <1>11, <2>2, Closes DEF Restart
<1> QED  BY <1>9, <1>10, <1>11

\* A server is stopped or started, or the request is refused, or given up.
LEMMA ChangeStep ==
  ASSUME IInv, NEW s \in Servers, ChangeState(s)
  PROVE  IInv'
<1>1. Types /\ Paid /\ Unfailed
  BY DEF IInv
<1>2. dryRun' = dryRun
  BY Zenon DEF ChangeState
<1>3. /\ pc \in {"stop", "start"} /\ current = {s}
      /\ s \in todo /\ s \in Restartable /\ s \in listed /\ s \notin unread
  BY <1>1 DEF ChangeState, Types, Restartable
<1>4. /\ listed' = listed /\ unread' = unread /\ page' = page /\ late' = late
      /\ byHand' = byHand /\ touched' = touched
  BY DEF ChangeState
<1>5. faults' \in 0..MaxFaults /\ (faults' = faults \/ faults' = faults + 1)
  BY <1>1, BoundsAssumption DEF ChangeState, NoFault, Fault, Types
<1>6. ~Dry
  BY <1>3 DEF Dry
<1>7. CASE pc = "stop"
  <2>1. /\ pc' = "start" /\ todo' = todo /\ current' = current
        /\ counter' = counter /\ brought' = brought /\ restarted' = restarted
    BY <1>7 DEF ChangeState, Proceed
  <2>2. \/ up' = up /\ down' = down
        \/ up' = up \ {s} /\ down' = down \cup {s}
    BY <1>7 DEF ChangeState, Requested, CarryOut
  <2>3. Types'
    BY <1>1, <1>3, <1>4, <1>5, <2>1, <2>2 DEF Types, Restartable
  <2>4. Between = {} /\ Between' = {s}
    BY <1>3, <1>7, <2>1 DEF Between
  <2>5. Gone' \subseteq Gone
    BY <1>4, <2>2, <2>4 DEF Gone
  <2>6. Paid'
    BY <1>1, <1>4, <1>5, <2>3, <2>5, PaidStep
  <2>7. faults' = 0 => faults = 0
    BY <1>1, <1>5 DEF Types
  <2>8. Unfailed'
    BY <1>1, <1>4, <2>1, <2>2, <2>4, <2>7 DEF Unfailed
  <2>9. Seen' = Seen
    BY <1>4, <2>1 DEF Seen
  <2>10. Wet => Wet'
    BY <1>1, <1>5, <2>1, <2>3, <2>7, <2>9, WetStep
  <2> QED  BY Zenon, <1>2, <1>6, <2>3, <2>6, <2>8, <2>10, Closes
<1>8. CASE pc = "start"
  <2>1. /\ pc' = "entries" /\ todo' = todo \ {s} /\ current' = {}
        /\ counter' = counter + 1
        /\ s \in up' => brought' = brought \cup {s} /\ restarted' = restarted + 1
        /\ s \notin up' => brought' = brought /\ restarted' = restarted
    BY <1>8 DEF ChangeState, Proceed, Counted
  <2>2. \/ up' = up \cup {s} /\ down' = down \ {s} /\ faults' = faults
        \/ s \in up /\ up' = up /\ down' = down /\ faults' = faults
        \/ up' = up /\ down' = down /\ faults' = faults + 1
    BY <1>8 DEF ChangeState, Requested, CarryOut, Applies, NoFault, Fault
  <2>3. Types'
    BY <1>1, <1>3, <1>4, <1>5, <2>1, <2>2 DEF Types, Restartable
  <2>4. Between = {s} /\ Between' = {}
    BY <1>3, <1>8, <2>1 DEF Between
  <2>5. \/ Gone' \subseteq Gone /\ faults' = faults
        \/ Gone' \subseteq Gone \cup {s} /\ faults' = faults + 1
    BY <1>1, <1>4, <2>2, <2>4 DEF Gone, Types
  <2>6. Paid'
    BY <1>1, <1>4, <2>3, <2>5, PaidStep
  <2>7. faults' = 0 => faults = 0 /\ faults' = faults
    BY <1>1, <1>5 DEF Types
  <2>8. faults' = faults => s \in up' /\ up \subseteq up'
    BY <1>1, <2>2 DEF Types
  <2>9. Unfailed'
    BY <1>1, <1>4, <2>1, <2>4, <2>7, <2>8 DEF Unfailed
  <2>10. /\ Seen' \ Protected = (Seen \ Protected) \cup {s}
         /\ s \notin Seen \ Protected /\ Seen \ Protected \subseteq Servers
    BY <1>1, <1>3, <1>4, <2>1 DEF Seen, Types, Restartable
  <2>11. PICK g : g = Seen \ Protected
    OBVIOUS
  <2>12. Cardinality(g \cup {s}) = Cardinality(g) + 1
    BY <2>10, <2>11, Finite
  <2>13. Wet => restarted' <= counter'
    BY <1>1, <2>1 DEF Wet, Types
  <2>14. Wet /\ faults' = 0 => /\ brought' = Seen' \ Protected
                              /\ counter' = Cardinality(Seen' \ Protected)
    BY <2>1, <2>7, <2>8, <2>10, <2>11, <2>12 DEF Wet
  <2>15. Wet => Wet'
    BY <2>13, <2>14 DEF Wet
  <2> QED  BY Zenon, <1>2, <1>6, <2>3, <2>6, <2>9, <2>15, Closes
<1> QED  BY <1>3, <1>7, <1>8

\* The request is given up, and perhaps carried out later: reboot ends.
LEMMA ThrowStep ==
  ASSUME IInv, NEW s \in Servers, ChangeThrows(s)
  PROVE  IInv'
<1>1. Types /\ Paid /\ Unfailed
  BY DEF IInv
<1>2. dryRun' = dryRun
  BY Zenon DEF ChangeThrows
<1>3. /\ pc \in {"stop", "start"} /\ current = {s} /\ s \in Restartable
  BY <1>1 DEF ChangeThrows, Types, Restartable
<1>4. /\ listed' = listed /\ unread' = unread /\ page' = page /\ todo' = todo
      /\ counter' = counter /\ up' = up /\ byHand' = byHand /\ down' = down
      /\ touched' = touched /\ brought' = brought /\ restarted' = restarted
      /\ pc' = "failed" /\ current' = {}
  BY DEF ChangeThrows, historyVars
<1>5. faults' \in 0..MaxFaults /\ faults' = faults + 1
  BY <1>1, BoundsAssumption DEF ChangeThrows, Fault, Types
<1>6. /\ late' \subseteq Restartable \X States
      /\ late' \subseteq late \cup {<<s, "INACTIVE">>, <<s, "ACTIVE">>}
  BY <1>1, <1>3 DEF ChangeThrows, Requested, States, Types
<1>7. Types'
  BY <1>1, <1>4, <1>5, <1>6 DEF Types
<1>8. Between \subseteq {s} /\ Between' = {}
  BY <1>3, <1>4 DEF Between
<1>9. Gone' \subseteq Gone \cup {s}
  BY <1>4, <1>6, <1>8 DEF Gone
<1>10. Paid'
  BY <1>1, <1>5, <1>7, <1>9, PaidStep
<1>11. faults' # 0
  BY <1>1, <1>5 DEF Types
<1>12. Unfailed'
  BY <1>11 DEF Unfailed
<1>13. ~Dry
  BY <1>3 DEF Dry
<1>14. Wet => Wet'
  BY <1>1, <1>4, <1>5, <1>7, <1>11, WetStep
<1> QED  BY Zenon, <1>2, <1>7, <1>10, <1>12, <1>13, <1>14, Closes

\* A late request is carried out: that the tool gave it up is a fault already.
LEMMA LateStep ==
  ASSUME IInv, NEW s \in Servers, NEW state \in States, CarriedOutLate(s, state)
  PROVE  IInv'
<1>1. Types /\ Paid /\ Unfailed
  BY DEF IInv
<1>2. dryRun' = dryRun
  BY Zenon DEF CarriedOutLate, toolVars
<1>3. /\ listed' = listed /\ unread' = unread /\ page' = page /\ todo' = todo
      /\ counter' = counter /\ pc' = pc /\ current' = current
      /\ faults' = faults /\ byHand' = byHand
      /\ touched' = touched /\ brought' = brought /\ restarted' = restarted
  BY DEF CarriedOutLate, toolVars, historyVars
<1>4. <<s, state>> \in late /\ late' = late \ {<<s, state>>} /\ s \in Restartable
  BY <1>1 DEF CarriedOutLate, Types
<1>5. \/ up' = up /\ down' = down
      \/ up' = up \cup {s} /\ down' = down \ {s}
      \/ up' = up \ {s} /\ down' = down \cup {s} /\ state = "INACTIVE"
  BY DEF CarriedOutLate, CarryOut, States
<1>6. Types'
  BY <1>1, <1>3, <1>4, <1>5 DEF Types, Restartable
<1>7. Gone' \subseteq Gone
  <2>1. Between' = Between
    BY <1>3 DEF Between
  <2> QED  BY <1>4, <1>5, <2>1 DEF Gone
<1>8. Paid'
  BY <1>1, <1>3, <1>4, <1>6, <1>7, PaidStep
<1>9. faults' # 0 /\ faults # 0
  BY <1>1, <1>3, <1>4 DEF Paid, Types
<1>10. Unfailed'
  BY <1>9 DEF Unfailed
<1>11. (Dry => Dry') /\ (Wet => Wet')
  BY <1>3, <1>9 DEF Dry, Wet
<1> QED  BY Zenon, <1>2, <1>6, <1>8, <1>10, <1>11, Closes

\* An operator stops or starts a server.
LEMMA HandStep ==
  ASSUME IInv, NEW s \in Servers, Operator(s)
  PROVE  IInv'
<1>1. Types /\ Paid /\ Unfailed
  BY DEF IInv
<1>2. dryRun' = dryRun
  BY Zenon DEF Operator, toolVars
<1>3. /\ listed' = listed /\ unread' = unread /\ page' = page /\ todo' = todo
      /\ counter' = counter /\ pc' = pc /\ current' = current
      /\ faults' = faults /\ late' = late
      /\ brought' = brought /\ restarted' = restarted
      /\ touched' = touched \cup {s} /\ down' = down \ {s}
      /\ up' = up \ {s} \/ up' = up \cup {s}
  BY DEF Operator, toolVars
<1>4. byHand' \in 0..MaxOperator
  BY <1>1, BoundsAssumption DEF Operator, Types
<1>5. Types'
  BY <1>1, <1>3, <1>4 DEF Types
<1>6. Between' = Between /\ Seen' = Seen
  BY <1>3 DEF Between, Seen
<1>7. Gone' \subseteq Gone
  BY <1>3, <1>6 DEF Gone
<1>8. Paid'
  BY <1>1, <1>3, <1>5, <1>7, PaidStep
<1>9. Unfailed'
  BY <1>1, <1>3, <1>6 DEF Unfailed
<1>10. (Dry => Dry') /\ (Wet => Wet')
  BY <1>3, <1>6 DEF Dry, Wet
<1> QED  BY Zenon, <1>2, <1>5, <1>8, <1>9, <1>10, Closes

\* Every step preserves the invariant.
LEMMA StepInv == IInv /\ [Next]_vars => IInv'
<1> SUFFICES ASSUME IInv, [Next]_vars PROVE IInv'
  OBVIOUS
<1>1. CASE UNCHANGED vars
  <2>1. dryRun' = dryRun
    BY Zenon, <1>1 DEF vars, toolVars
  <2>2. /\ pc' = pc /\ up' = up /\ listed' = listed /\ unread' = unread /\ page' = page
        /\ todo' = todo /\ current' = current /\ counter' = counter /\ late' = late
        /\ faults' = faults /\ byHand' = byHand /\ down' = down
        /\ touched' = touched /\ brought' = brought /\ restarted' = restarted
    BY <1>1 DEF vars, toolVars, historyVars
  <2>3. Between' = Between /\ Seen' = Seen /\ Gone' = Gone
    BY <2>2 DEF Between, Seen, Gone
  <2>4. Types'
    BY <2>2 DEF IInv, Types
  <2>5. Paid' /\ Unfailed'
    BY <2>2, <2>3 DEF IInv, Paid, Unfailed
  <2>6. (Dry => Dry') /\ (Wet => Wet')
    BY <2>2, <2>3 DEF Dry, Wet
  <2> QED  BY Zenon, <2>1, <2>4, <2>5, <2>6, Closes
<1>2. CASE Next
  <2>1. CASE Get \/ GetNext \/ GetRefused \/ GetThrows \/ PageDone
    BY <2>1, ReadStep
  <2>2. ASSUME NEW s \in Servers, Skip(s) \/ DryRestart(s) \/ Restart(s)
        PROVE  IInv'
    BY <2>2, EntryStep
  <2>3. ASSUME NEW s \in Servers, ChangeState(s)
        PROVE  IInv'
    BY <2>3, ChangeStep
  <2>4. ASSUME NEW s \in Servers, ChangeThrows(s)
        PROVE  IInv'
    BY <2>4, ThrowStep
  <2>5. ASSUME NEW s \in Servers, Operator(s)
        PROVE  IInv'
    BY <2>5, HandStep
  <2>6. ASSUME NEW s \in Servers, NEW state \in States, CarriedOutLate(s, state)
        PROVE  IInv'
    BY <2>6, LateStep
  <2> QED  BY Zenon, <1>2, <2>1, <2>2, <2>3, <2>4, <2>5, <2>6 DEF Next, Step
<1> QED  BY <1>1, <1>2

-----------------------------------------------------------------------------
\* The invariant holds always, for any domain and any bounds.
THEOREM Invariance == Spec => []IInv
<1> QED  BY InitInv, StepInv, PTL DEF Spec

\* Type correctness: pages and the loop over them, one server at a time.
THEOREM TypeCorrect == Spec => []TypeOK
<1> QED  BY Invariance, Gives, PTL

\* What the tool leaves down, besides the server between its stop and its start, is
\* paid for with requests that failed: stop, start and change_server_state.
THEOREM LeftDown == Spec => []LeftDownPaid
<1> QED  BY Invariance, Gives, PTL

\* Without failures every page is read and every server of it restarted once; a dry
\* run changes nothing: domain::reboot.
THEOREM Restarted == Spec => []AllRestarted
<1> QED  BY Invariance, Gives, PTL

\* The number that tmreboot prints, domain::_counter.
THEOREM CountHonest == Spec => []ReportHonest
<1> QED  BY Invariance, Gives, PTL
-----------------------------------------------------------------------------
(* Neither loop of reboot goes back. *)

\* A page is asked for only before the first or while entries are left.
LeftToRead == pc = "get" => listed = {} \/ unread # {}

\* PageDone, which goes back to the condition of the loop over the pages, sees to it.
LEMMA LeftToReadStep == LeftToRead /\ [Next]_vars => LeftToRead'
<1> SUFFICES ASSUME LeftToRead, [Next]_vars PROVE LeftToRead'
  OBVIOUS
<1>1. CASE PageDone
  BY <1>1 DEF PageDone, More, LeftToRead
<1>2. CASE Get \/ GetNext \/ GetRefused \/ GetThrows
  <2>1. pc' # "get"
    BY <1>2 DEF Get, GetNext, GetRefused, GetThrows
  <2> QED  BY <2>1 DEF LeftToRead
<1>3. ASSUME NEW s \in Servers, Skip(s) \/ DryRestart(s) \/ Restart(s)
      PROVE  LeftToRead'
  <2>1. pc' # "get"
    BY <1>3 DEF Skip, DryRestart, Restart
  <2> QED  BY <2>1 DEF LeftToRead
<1>4. ASSUME NEW s \in Servers, ChangeState(s) \/ ChangeThrows(s)
      PROVE  LeftToRead'
  <2>1. pc' # "get"
    BY <1>4 DEF ChangeState, ChangeThrows, Proceed
  <2> QED  BY <2>1 DEF LeftToRead
<1>5. ASSUME NEW s \in Servers,
             Operator(s) \/ \E state \in States : CarriedOutLate(s, state)
      PROVE  LeftToRead'
  <2>1. pc' = pc /\ listed' = listed /\ unread' = unread
    BY <1>5 DEF Operator, CarriedOutLate, toolVars
  <2> QED  BY <2>1 DEF LeftToRead
<1>6. CASE UNCHANGED vars
  <2>1. pc' = pc /\ listed' = listed /\ unread' = unread
    BY <1>6 DEF vars, toolVars
  <2> QED  BY <2>1 DEF LeftToRead
<1> QED
  BY Zenon, <1>1, <1>2, <1>3, <1>4, <1>5, <1>6 DEF Next, Step

\* A page of entries is not empty.
LEMMA PageTakes ==
  ASSUME NEW S, S \subseteq Servers, S # {}, NEW p \in Pages(S)
  PROVE  p \subseteq S /\ p # {}
<1>1. CASE Cardinality(S) <= PageSize
  BY <1>1 DEF Pages
<1>2. CASE ~(Cardinality(S) <= PageSize)
  <2>1. p \subseteq S /\ Cardinality(p) = PageSize
    BY <1>2 DEF Pages
  <2>2. Cardinality({}) = 0
    BY FS_EmptySet
  <2> QED  BY <2>1, <2>2, BoundsAssumption
<1> QED  BY <1>1, <1>2

\* The stages are ordered numbers.
LEMMA Stages ==
  /\ Stage["entries"] = 1 /\ Stage["stop"] = 2 /\ Stage["start"] = 3
  /\ Stage["get"] = 4 /\ Stage["done"] = 5 /\ Stage["failed"] = 5
  BY DEF Stage, Locations

\* Every step of the tool goes forward, and the others leave it where it is.
LEMMA ForwardStep ==
  ASSUME IInv, LeftToRead, [Next]_vars
  PROVE  [Advance]_<<toolVars, faults>>
<1>1. Types /\ faults \in Nat
  BY DEF IInv, Types
<1>2. CASE Get
  <2>1. faults' = faults /\ Listing /\ ~Listing'
    BY <1>2 DEF Get, Listing
  <2> QED  BY <2>1 DEF Advance
<1>3. CASE GetNext
  <2>1. /\ faults' = faults /\ ~Listing /\ ~Listing'
        /\ unread \subseteq Servers /\ unread # {}
    BY <1>1, <1>3 DEF GetNext, Listing, LeftToRead, Types
  <2>2. PICK p \in Pages(unread) : unread' = unread \ p
    BY <1>3 DEF GetNext
  <2>3. p \subseteq unread /\ p # {}
    BY <2>1, PageTakes
  <2> QED  BY <2>1, <2>2, <2>3 DEF Advance
<1>4. CASE GetRefused \/ GetThrows
  <2>1. GetRefused \/ faults' = faults + 1
    BY <1>4 DEF GetThrows, Fault
  <2> QED  BY <1>1, <2>1 DEF Advance
<1>5. CASE PageDone
  <2>1. /\ faults' = faults /\ unread' = unread /\ todo' = todo /\ listed' = listed
        /\ pc = "entries" /\ pc' = IF unread # {} THEN "get" ELSE "done"
    BY <1>5 DEF PageDone, More
  <2>2. ~Listing /\ ~Listing'
    BY <1>1, <2>1 DEF Listing, Types
  <2> QED  BY <2>1, <2>2, Stages DEF Advance
<1>6. ASSUME NEW s \in Servers, Skip(s) \/ DryRestart(s)
      PROVE  Advance
  <2>1. /\ faults' = faults /\ unread' = unread /\ pc = "entries" /\ pc' = pc
        /\ s \in todo /\ todo' = todo \ {s}
    BY <1>6 DEF Skip, DryRestart
  <2> QED  BY <2>1 DEF Advance, Listing
<1>7. ASSUME NEW s \in Servers, Restart(s)
      PROVE  Advance
  <2>1. /\ faults' = faults /\ unread' = unread /\ todo' = todo
        /\ pc = "entries" /\ pc' = "stop"
    BY <1>7 DEF Restart
  <2> QED  BY <2>1, Stages DEF Advance, Listing
<1>8. ASSUME NEW s \in Servers, ChangeState(s)
      PROVE  Advance
  <2>1. /\ faults' = faults \/ faults' = faults + 1
        /\ unread' = unread /\ s \in current /\ s \in todo
        /\ pc \in {"stop", "start"}
    BY <1>1, <1>8 DEF ChangeState, NoFault, Fault, Types
  <2>2. \/ pc = "stop" /\ pc' = "start" /\ todo' = todo
        \/ pc = "start" /\ pc' = "entries" /\ todo' = todo \ {s}
    BY <1>8, <2>1 DEF ChangeState, Proceed
  <2>3. CASE faults' = faults + 1
    BY <1>1, <2>3 DEF Advance
  <2>4. CASE faults' = faults
    BY <2>1, <2>2, <2>4, Stages DEF Advance, Listing
  <2> QED  BY <2>1, <2>3, <2>4
<1>9. ASSUME NEW s \in Servers, ChangeThrows(s)
      PROVE  Advance
  <2>1. faults' = faults + 1
    BY <1>9 DEF ChangeThrows, Fault
  <2> QED  BY <1>1, <2>1 DEF Advance
<1>10. ASSUME NEW s \in Servers,
              Operator(s) \/ \E state \in States : CarriedOutLate(s, state)
       PROVE  UNCHANGED <<toolVars, faults>>
  BY Zenon, <1>10 DEF Operator, CarriedOutLate
<1>11. CASE UNCHANGED vars
  BY Zenon, <1>11 DEF vars
<1> QED
  BY Zenon, <1>2, <1>3, <1>4, <1>5, <1>6, <1>7, <1>8, <1>9, <1>10, <1>11 DEF Next, Step

\* Neither the loop over the pages nor the one over the entries of a page goes back
\* without a request that failed or a refused GETNEXT: domain::reboot.
THEOREM NeverBack == Spec => Forward
<1>1. Init => LeftToRead
  BY DEF Init, LeftToRead
<1>2. LeftToRead /\ [Next]_vars => LeftToRead'
  BY LeftToReadStep
<1>3. IInv /\ LeftToRead /\ [Next]_vars => [Advance]_<<toolVars, faults>>
  BY ForwardStep
<1> QED
  BY <1>1, <1>2, <1>3, Invariance, PTL DEF Spec, Forward
=============================================================================
