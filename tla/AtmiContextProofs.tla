-------------------------- MODULE AtmiContextProofs -------------------------
(***************************************************************************)
(* Proofs about AtmiContext, for any threads, clients and failures.        *)
(*                                                                         *)
(* The argument is about the time between switch_context and the call it   *)
(* is made for, when other threads may end the context: then the thread is *)
(* in TPINVALIDCONTEXT and in nobody's context, unless a client without a  *)
(* context of its own has mixed things up before.                          *)
(***************************************************************************)
EXTENDS AtmiContext, TLAPS

\* The types of all variables but the Boolean one.
Types ==
  /\ client \in [Clients -> {"none", "live", "closing", "gone"}]
  /\ context \in [Clients -> Clients \cup {Unset}]
  /\ alive \subseteq Clients /\ tran \subseteq alive /\ stray \subseteq Clients
  /\ served \in [Threads -> Clients \cup {None}]
  /\ cur \in [Threads -> Clients \cup {Null, Invalid}]
  /\ \A t \in Threads : cur[t] \in Clients => cur[t] \in alive
  /\ pc \in [Threads -> {Idle} \cup [op : Switched, of : Clients]]
  /\ last \in [Threads -> {Idle} \cup
        [op : Switched \cup Unswitched, of : Clients, in : Clients, after : Clients \cup {None}]]
  /\ faults \in 0..MaxFaults

\* A client's _context is its own, or unset because tpgetctxt failed.
OwnOrUnset ==
  \A c \in Clients : /\ context[c] \in {c, Unset}
                     /\ client[c] # "none" /\ context[c] = Unset => faults > 0

\* Threads act for clients that exist.
Known ==
  \A t \in Threads :
    /\ pc[t] # Idle => client[pc[t].of] # "none"
    /\ last[t] # Idle => client[last[t].of] # "none"

\* After switch_context a thread is in the context of its object, or in none.
Ready ==
  \A t \in Threads : pc[t].op = "call" =>
    context[pc[t].of] \in {Unset, cur[t]} \/ cur[t] = Invalid

\* One thread destroys a client; it finds its context unless a client without a
\* context ended it.
Closing ==
  \A t \in Threads : pc[t].op = "tpterm" =>
    LET c == pc[t].of IN
    /\ client[c] = "closing"
    /\ \A u \in Threads : pc[u].op = "tpterm" /\ pc[u].of = c => u = t
    /\ context[c] \in {Unset, cur[t]} \/ (cur[t] = Invalid /\ c \in stray)

\* A client in use has its context unless Tuxedo failed.
HasContext ==
  \A c \in Clients : client[c] \in {"live", "closing"} => c \in alive \/ faults > 0

\* A thread stays in the context it entered last, or falls out of every one.
Faithful ==
  \A t \in Threads : served[t] \in Clients =>
    /\ client[served[t]] # "none"
    /\ context[served[t]] \in {Unset, cur[t]} \/ cur[t] \notin Clients

IInv ==
  /\ Types /\ crashed \in BOOLEAN
  /\ OwnOrUnset /\ Known /\ Ready /\ Closing /\ HasContext /\ Faithful
  /\ CallsInOwnContext /\ LifetimesMatch /\ FollowOwnSwitch /\ DestructorsQuiet

\* All but the crash, which only the destructor causes.
Quiet ==
  /\ Types /\ OwnOrUnset /\ Known /\ Ready /\ Closing /\ HasContext
  /\ Faithful
  /\ CallsInOwnContext /\ LifetimesMatch /\ FollowOwnSwitch

\* The three contexts that are no client's.
LEMMA Contexts ==
  /\ Null \notin Clients /\ Invalid \notin Clients /\ Unset \notin Clients
  /\ Null # Invalid
  /\ \A r \in [op : Switched, of : Clients] : r # Idle
  /\ \A r \in [op : Switched \cup Unswitched, of : Clients, in : Clients, after : Clients \cup {None}] :
       r # Idle
  /\ Idle.op \notin Switched \cup Unswitched
<1>1. /\ Null \notin Clients /\ Invalid \notin Clients /\ Unset \notin Clients
      /\ Null # Invalid
  BY ContextAssumption
<1>2. Idle.op = "idle" /\ "idle" \notin Switched \cup Unswitched
  BY DEF Idle, Switched, Unswitched
<1>3. /\ \A r \in [op : Switched, of : Clients] : r.op # "idle"
      /\ \A r \in [op : Switched \cup Unswitched, of : Clients, in : Clients,
                  after : Clients \cup {None}] : r.op # "idle"
  BY <1>2
<1> QED  BY <1>1, <1>2, <1>3

\* The initial state satisfies the invariant.
LEMMA InitInv == Init => IInv
<1> SUFFICES ASSUME Init PROVE IInv
  OBVIOUS
<1>1. /\ client = [c \in Clients |-> "none"] /\ context = [c \in Clients |-> Unset]
      /\ alive = {} /\ tran = {} /\ stray = {}
      /\ served = [t \in Threads |-> None]
      /\ cur = [t \in Threads |-> Null]
      /\ pc = [t \in Threads |-> Idle] /\ last = [t \in Threads |-> Idle] /\ faults = 0
  BY Zenon DEF Init
<1>2. Types
  BY <1>1, Contexts, FaultsAssumption DEF Types
<1>3. OwnOrUnset /\ Known /\ HasContext /\ LifetimesMatch /\ Faithful
  BY <1>1, ContextAssumption DEF OwnOrUnset, Known, HasContext, LifetimesMatch, Faithful
<1>4. Ready /\ Closing /\ CallsInOwnContext /\ FollowOwnSwitch
  BY <1>1, Contexts DEF Ready, Closing, CallsInOwnContext, FollowOwnSwitch, Switched
<1>5. crashed = FALSE
  BY Zenon DEF Init
<1>6. crashed \in BOOLEAN /\ DestructorsQuiet
  BY Zenon, <1>5 DEF DestructorsQuiet
<1> QED  BY Zenon, <1>2, <1>3, <1>4, <1>6 DEF IInv

-----------------------------------------------------------------------------
\* abstract_client's constructor.
LEMMA ConstructStep ==
  ASSUME Quiet, NEW t \in Threads, NEW c \in Clients, Construct(t, c)
  PROVE  Quiet' /\ faults <= faults'
<1>1. /\ pc[t] = Idle /\ client[c] = "none"
      /\ client' = [client EXCEPT ![c] = "live"]
      /\ alive' = alive \cup {c}
      /\ cur' = [cur EXCEPT ![t] = c]
      /\ \/ faults' = faults /\ context' = [context EXCEPT ![c] = c]
         \/ Fault /\ context' = context
      /\ tran' = tran /\ pc' = pc /\ stray' = stray /\ last' = last
      /\ served' = [served EXCEPT ![t] = c]
  BY DEF Construct, NoFault
<1>2. Types /\ OwnOrUnset /\ Known /\ Ready /\ Closing /\ HasContext /\ Faithful
  BY DEF Quiet
<1>3. faults' \in 0..MaxFaults /\ faults <= faults' /\ (Fault => faults' > 0)
  BY <1>1, <1>2, FaultsAssumption DEF Types, Fault
<1>4. Types'
  BY <1>1, <1>2, <1>3 DEF Types
<1>5. \A d \in Clients \ {c} : client'[d] = client[d] /\ context'[d] = context[d]
  BY <1>1, <1>2 DEF Types
<1>6. client'[c] = "live" /\ context'[c] \in {c, Unset} /\ (context'[c] = Unset => faults' > 0)
  BY <1>1, <1>2, <1>3, Contexts DEF Types, OwnOrUnset
<1>7. \A u \in Threads : pc[u] # Idle => /\ u # t /\ pc[u].of \in Clients \ {c}
                                         /\ cur'[u] = cur[u]
  BY <1>1, <1>2 DEF Types, Known
<1>8. OwnOrUnset'
  BY <1>2, <1>3, <1>5, <1>6, FaultsAssumption DEF Types, OwnOrUnset
<1>9. Known'
  BY <1>1, <1>2, <1>5, <1>6 DEF Types, Known
<1>10. Ready' /\ Closing'
  <2>1. \A u \in Threads : pc[u].op \in Switched => pc[u] # Idle
    BY Contexts
  <2> QED  BY <1>1, <1>2, <1>5, <1>7, <2>1 DEF Ready, Closing, Switched
<1>11. HasContext'
  BY <1>1, <1>2, <1>3, <1>5, FaultsAssumption DEF Types, HasContext
<1>12. CallsInOwnContext'
  <2>1. \A u \in Threads : last[u].op \in Switched => last[u] # Idle /\ last[u].of \in Clients \ {c}
    BY <1>1, <1>2, Contexts DEF Types, Known
  <2> QED  BY <1>1, <1>5, <2>1 DEF Quiet, CallsInOwnContext
<1>13. LifetimesMatch'
  BY <1>1, <1>5, <1>6 DEF Quiet, LifetimesMatch
<1>14. FollowOwnSwitch'
  <2>1. \A u \in Threads : last[u].op \in Unswitched => last[u] # Idle /\ last[u].of \in Clients \ {c}
    BY <1>1, <1>2, Contexts DEF Types, Known
  <2> QED  BY <1>1, <1>5, <2>1 DEF Quiet, FollowOwnSwitch
<1>15. Faithful'
  <2>1. \A u \in Threads \ {t} : /\ served'[u] = served[u] /\ cur'[u] = cur[u]
                                 /\ served[u] \in Clients => served[u] # c
    BY <1>1, <1>2 DEF Types, Faithful
  <2>2. served'[t] = c /\ cur'[t] = c
    BY <1>1, <1>2 DEF Types
  <2> QED  BY <1>2, <1>5, <1>6, <2>1, <2>2 DEF Faithful
<1> QED
  BY <1>3, <1>4, <1>8, <1>9, <1>10, <1>11, <1>12, <1>13, <1>14, <1>15 DEF Quiet

\* switch_context, before a call or the tpterm of the destructor.
LEMMA SwitchStep ==
  ASSUME Quiet, NEW t \in Threads, NEW c \in Clients, pc[t] = Idle, client[c] # "none",
         Switch(t, c), faults' = faults,
         \/ /\ pc' = [pc EXCEPT ![t] = [op |-> "call", of |-> c]]
            /\ client' = client
         \/ /\ pc' = [pc EXCEPT ![t] = [op |-> "tpterm", of |-> c]]
            /\ client[c] = "live" /\ client' = [client EXCEPT ![c] = "closing"],
         UNCHANGED <<context, alive, tran, stray, last>>
  PROVE  Quiet'
<1>1. Types /\ OwnOrUnset /\ Known /\ Ready /\ Closing /\ HasContext /\ Faithful
  BY DEF Quiet
<1>2. /\ cur' \in [Threads -> Clients \cup {Null, Invalid}]
      /\ \A u \in Threads : cur'[u] \in Clients => cur'[u] \in alive
      /\ \A u \in Threads \ {t} : cur'[u] = cur[u]
      /\ context[c] \in {Unset, cur'[t]}
      /\ served' = [served EXCEPT ![t] = c]
  BY <1>1, Contexts DEF Types, Switch, Set, NoNeed, InPlace
<1>3. PICK op \in Switched : pc' = [pc EXCEPT ![t] = [op |-> op, of |-> c]]
  BY DEF Switched
<1>4. /\ pc'[t] = [op |-> op, of |-> c] /\ \A u \in Threads \ {t} : pc'[u] = pc[u]
      /\ pc' \in [Threads -> {Idle} \cup [op : Switched, of : Clients]]
  BY <1>1, <1>3 DEF Types
<1>5. /\ client' \in [Clients -> {"none", "live", "closing", "gone"}]
      /\ \A d \in Clients : \/ client'[d] = client[d]
                            \/ client[d] = "live" /\ client'[d] = "closing"
  BY <1>1 DEF Types
<1>6. Types'
  BY <1>1, <1>2, <1>4, <1>5 DEF Types
<1>7. OwnOrUnset' /\ HasContext' /\ LifetimesMatch' /\ FollowOwnSwitch'
  BY <1>1, <1>5 DEF Quiet, OwnOrUnset, HasContext, LifetimesMatch, FollowOwnSwitch
<1>8. Known'
  BY <1>1, <1>4, <1>5, Contexts DEF Types, Known
<1>9. Ready'
  BY <1>1, <1>2, <1>4 DEF Ready
<1>10. CallsInOwnContext'
  BY DEF Quiet, CallsInOwnContext
<1>11. Closing'
  <2>1. \A u \in Threads \ {t} : pc[u].op = "tpterm" =>
          pc[u].of \in Clients /\ client[pc[u].of] = "closing" /\ client'[pc[u].of] = "closing"
    BY <1>1, <1>5, Contexts DEF Types, Closing, Switched
  <2>2. op = "tpterm" => client[c] = "live" /\ client'[c] = "closing"
    <3>1. pc'[t].op = op
      BY <1>4
    <3> QED  BY <1>1, <3>1 DEF Types
  <2> QED  BY <1>1, <1>2, <1>4, <2>1, <2>2 DEF Closing
<1>12. Faithful'
  <2>1. /\ served'[t] = c /\ \A u \in Threads \ {t} : served'[u] = served[u]
        /\ \A d \in Clients : client[d] # "none" => client'[d] # "none"
    BY <1>1, <1>2, <1>5 DEF Types
  <2> QED  BY <1>1, <1>2, <2>1 DEF Faithful
<1> QED  BY <1>6, <1>7, <1>8, <1>9, <1>10, <1>11, <1>12 DEF Quiet

\* tpterm ends the context the thread is in, for every thread.
LEMMA TerminateStep ==
  ASSUME Quiet, NEW t \in Threads, Terminate(t)
  PROVE  Quiet' /\ faults' = faults
<1>1. PICK c, x : c = pc[t].of /\ x = cur[t]
  OBVIOUS
<1>2. Types /\ OwnOrUnset /\ Known /\ Ready /\ Closing /\ HasContext /\ Faithful
  BY DEF Quiet
<1>3. /\ pc[t].op = "tpterm" /\ c \in Clients /\ client[c] = "closing"
      /\ x \in Clients \cup {Null, Invalid}
      /\ context[c] \in {Unset, x} \/ (x = Invalid /\ c \in stray)
      /\ \A u \in Threads : pc[u].op = "tpterm" /\ pc[u].of = c => u = t
  BY <1>1, <1>2, Contexts DEF Terminate, Types, Closing, Switched
<1>4. /\ client' = [client EXCEPT ![c] = "gone"]
      /\ served' = served
      /\ IF context[c] = Unset THEN stray' = stray \cup (IF x = c THEN {} ELSE {c, x} \cap Clients)
         ELSE stray' = stray
      /\ alive' = alive \ {x} /\ tran' = tran \ {x}
      /\ IF x \in Clients
           THEN /\ cur' = [u \in Threads |-> IF u = t THEN Null
                             ELSE IF cur[u] = x THEN Invalid ELSE cur[u]]
                /\ last' = [last EXCEPT ![t] = [op |-> "tpterm", of |-> c, in |-> x, after |-> served[t]]]
           ELSE cur' = cur /\ last' = last
      /\ pc' = [pc EXCEPT ![t] = Idle]
      /\ context' = context /\ faults' = faults
  BY <1>1 DEF Terminate, MixUp, Record
<1>5. /\ \A d \in Clients \ {c} : client'[d] = client[d]
      /\ client'[c] = "gone" /\ pc'[t] = Idle
      /\ \A u \in Threads \ {t} : pc'[u] = pc[u]
  BY <1>2, <1>3, <1>4 DEF Types
<1>6. /\ cur' \in [Threads -> Clients \cup {Null, Invalid}]
      /\ \A u \in Threads : cur'[u] \in Clients => cur'[u] \in alive'
      /\ \A u \in Threads \ {t} : cur'[u] = IF x \in Clients /\ cur[u] = x THEN Invalid ELSE cur[u]
  BY <1>1, <1>2, <1>4, Contexts DEF Types
<1>7. /\ last' \in [Threads -> {Idle} \cup
             [op : Switched \cup Unswitched, of : Clients, in : Clients, after : Clients \cup {None}]]
      /\ \A u \in Threads : last'[u] = last[u] \/
            (last'[u] = [op |-> "tpterm", of |-> c, in |-> x, after |-> served[t]] /\ x \in Clients)
  BY <1>2, <1>3, <1>4 DEF Types, Switched
<1>8. Types'
  <2>1. pc' \in [Threads -> {Idle} \cup [op : Switched, of : Clients]]
    BY <1>2, <1>4 DEF Types
  <2>2. /\ client' \in [Clients -> {"none", "live", "closing", "gone"}]
        /\ context' \in [Clients -> Clients \cup {Unset}] /\ faults' \in 0..MaxFaults
    BY <1>2, <1>4 DEF Types
  <2>3. /\ alive' \subseteq Clients /\ tran' \subseteq alive' /\ stray' \subseteq Clients
        /\ served' \in [Threads -> Clients \cup {None}]
    BY <1>2, <1>3, <1>4 DEF Types
  <2> QED  BY <1>6, <1>7, <2>1, <2>2, <2>3 DEF Types
<1>9. x \in Clients /\ x # c => context[c] = Unset /\ faults > 0 /\ c \in stray' /\ x \in stray'
  BY <1>2, <1>3, <1>4, Contexts DEF OwnOrUnset
<1>10. x \notin Clients => c \in stray'
  BY <1>2, <1>3, <1>4 DEF OwnOrUnset
<1>11. OwnOrUnset'
  BY <1>2, <1>4, <1>5, <1>3 DEF OwnOrUnset
<1>12. Known'
  BY <1>2, <1>3, <1>4, <1>5, <1>7 DEF Types, Known
<1>13. Ready'
  BY <1>2, <1>4, <1>5, <1>6, Contexts DEF Ready, Switched
<1>14. HasContext'
  BY <1>2, <1>4, <1>5, <1>9 DEF HasContext
<1>15. LifetimesMatch'
  BY <1>2, <1>3, <1>4, <1>5, <1>9, <1>10 DEF Quiet, Types, LifetimesMatch
<1>16. FollowOwnSwitch'
  BY <1>4, <1>7, Contexts DEF Quiet, FollowOwnSwitch, Switched, Unswitched
<1>17. CallsInOwnContext'
  <2>1. x \in Clients => context[c] \in {Unset, x}
    BY <1>3, Contexts
  <2> QED  BY <1>4, <1>7, <2>1 DEF Quiet, CallsInOwnContext
<1>18. Closing'
  <2> SUFFICES ASSUME NEW u \in Threads, pc'[u].op = "tpterm"
               PROVE  LET d == pc'[u].of IN
                      /\ client'[d] = "closing"
                      /\ \A v \in Threads : pc'[v].op = "tpterm" /\ pc'[v].of = d => v = u
                      /\ context'[d] \in {Unset, cur'[u]} \/ (cur'[u] = Invalid /\ d \in stray')
    BY DEF Closing
  <2>1. u # t /\ pc'[u] = pc[u]
    BY <1>5, Contexts DEF Switched
  <2>2. PICK d : d = pc[u].of
    OBVIOUS
  <2>3. d \in Clients /\ d # c
    BY <1>2, <1>3, <2>1, <2>2, Contexts DEF Types, Switched
  <2>4. /\ client[d] = "closing"
        /\ \A v \in Threads : pc[v].op = "tpterm" /\ pc[v].of = d => v = u
        /\ context[d] \in {Unset, cur[u]} \/ (cur[u] = Invalid /\ d \in stray)
    BY <1>2, <2>1, <2>2 DEF Closing
  <2>5. client'[d] = "closing"
    BY <1>5, <2>3, <2>4
  <2>6. \A v \in Threads : pc'[v].op = "tpterm" /\ pc'[v].of = d => v = u
    BY <1>5, <2>4, Contexts DEF Switched
  <2>7. stray \subseteq stray'
    BY <1>4
  <2>8. CASE x \in Clients /\ cur[u] = x
    <3>1. cur'[u] = Invalid
      BY <1>6, <2>1, <2>8
    <3>2. context[d] \in {Unset, x}
      BY <2>4, <2>8, Contexts
    <3>3. context[d] = x => x = d
      BY <1>2, <2>3, <2>8, Contexts DEF OwnOrUnset
    <3> QED
      BY <1>4, <1>9, <2>1, <2>2, <2>3, <2>5, <2>6, <2>8, <3>1, <3>2, <3>3
  <2>9. CASE ~(x \in Clients /\ cur[u] = x)
    <3>1. cur'[u] = cur[u]
      BY <1>6, <2>1, <2>9
    <3> QED  BY <1>4, <2>1, <2>2, <2>4, <2>5, <2>6, <2>7, <3>1
  <2> QED  BY <2>8, <2>9
<1>19. Faithful'
  <2>1. \A d \in Clients : client[d] # "none" => client'[d] # "none"
    BY <1>2, <1>5 DEF Types
  <2>2. \A u \in Threads : cur'[u] = cur[u] \/ cur'[u] \notin Clients
    BY <1>2, <1>4, Contexts DEF Types
  <2> QED  BY <1>2, <1>4, <2>1, <2>2 DEF Faithful
<1> QED
  BY <1>4, <1>8, <1>11, <1>12, <1>13, <1>14, <1>15, <1>16, <1>17, <1>18, <1>19 DEF Quiet

\* The call that switch_context was made for.
LEMMA CarryStep ==
  ASSUME Quiet, NEW t \in Threads, Carry(t)
  PROVE  Quiet' /\ faults' = faults
<1>1. PICK c, x : c = pc[t].of /\ x = cur[t]
  OBVIOUS
<1>2. Types /\ OwnOrUnset /\ Known /\ Ready /\ Closing /\ HasContext
  BY DEF Quiet
<1>3. /\ pc[t].op = "call" /\ c \in Clients /\ client[c] # "none"
      /\ context[c] \in {Unset, x} \/ x = Invalid
  BY <1>1, <1>2, Contexts DEF Carry, Types, Ready, Known, Switched
<1>4. /\ IF x \in Clients THEN last' = [last EXCEPT ![t] =
                 [op |-> "call", of |-> c, in |-> x, after |-> served[t]]]
         ELSE last' = last
      /\ pc' = [pc EXCEPT ![t] = Idle]
      /\ client' = client /\ context' = context /\ alive' = alive /\ tran' = tran
      /\ cur' = cur /\ served' = served /\ stray' = stray /\ faults' = faults
  BY <1>1 DEF Carry, Record
<1>5. /\ last' \in [Threads -> {Idle} \cup
             [op : Switched \cup Unswitched, of : Clients, in : Clients, after : Clients \cup {None}]]
      /\ \A u \in Threads : last'[u] = last[u] \/
            (last'[u] = [op |-> "call", of |-> c, in |-> x, after |-> served[t]] /\ x \in Clients)
  BY <1>2, <1>3, <1>4 DEF Types, Switched
<1>6. /\ pc' \in [Threads -> {Idle} \cup [op : Switched, of : Clients]]
      /\ \A u \in Threads : pc'[u] = Idle \/ pc'[u] = pc[u]
  BY <1>2, <1>4 DEF Types
<1>7. Types'
  BY <1>2, <1>4, <1>5, <1>6 DEF Types
<1>8. Known' /\ Ready' /\ Closing'
  BY <1>2, <1>3, <1>4, <1>5, <1>6, Contexts DEF Known, Ready, Closing, Switched
<1>9. OwnOrUnset' /\ HasContext' /\ LifetimesMatch' /\ Faithful'
  BY <1>2, <1>4 DEF Quiet, OwnOrUnset, HasContext, LifetimesMatch, Faithful
<1>10. CallsInOwnContext' /\ FollowOwnSwitch'
  BY <1>3, <1>4, <1>5, Contexts
  DEF Quiet, CallsInOwnContext, FollowOwnSwitch, Switched, Unswitched
<1> QED  BY <1>4, <1>7, <1>8, <1>9, <1>10 DEF Quiet

\* begin, commit, abort, reply and cancel, in the context the thread is in.
LEMMA UnswitchedStep ==
  ASSUME Quiet, NEW t \in Threads, NEW c \in Clients,
         Begin(t, c) \/ End(t, c) \/ ReplyOrCancel(t, c)
  PROVE  Quiet' /\ faults' = faults
<1>1. PICK x : x = cur[t]
  OBVIOUS
<1>2. Types /\ OwnOrUnset /\ Known /\ Ready /\ Closing /\ HasContext /\ Faithful
  BY DEF Quiet
<1>3. /\ x \in Clients /\ x \in alive /\ client[c] # "none"
      /\ \E op \in Unswitched : last' = [last EXCEPT ![t] =
            [op |-> op, of |-> c, in |-> x, after |-> served[t]]]
      /\ client' = client /\ context' = context /\ alive' = alive /\ served' = served
      /\ cur' = cur /\ pc' = pc /\ faults' = faults /\ stray' = stray
  BY <1>1, <1>2 DEF Begin, End, ReplyOrCancel, Uses, Record, Unswitched, Types
<1>4. tran' \subseteq alive
  BY <1>1, <1>2, <1>3 DEF Types, Begin, End, ReplyOrCancel
<1>5. /\ last' \in [Threads -> {Idle} \cup
             [op : Switched \cup Unswitched, of : Clients, in : Clients, after : Clients \cup {None}]]
      /\ \A u \in Threads : last'[u] = last[u] \/
            /\ last'[u].op \in Unswitched /\ last'[u].of = c
            /\ last'[u].in = x /\ last'[u].after = served[u] /\ cur[u] = x
  BY <1>1, <1>2, <1>3 DEF Types
<1>7. Types'
  BY <1>2, <1>3, <1>4, <1>5 DEF Types
<1>8. Known' /\ Ready' /\ Closing'
  BY <1>2, <1>3, <1>5 DEF Known, Ready, Closing
<1>9. OwnOrUnset' /\ HasContext' /\ LifetimesMatch' /\ Faithful'
  BY <1>2, <1>3 DEF Quiet, OwnOrUnset, HasContext, LifetimesMatch, Faithful
<1>10. FollowOwnSwitch'
  BY <1>2, <1>3, <1>5 DEF Quiet, FollowOwnSwitch, Faithful
<1>11. CallsInOwnContext'
  BY <1>3, <1>5 DEF Quiet, CallsInOwnContext, Switched, Unswitched
<1> QED  BY <1>3, <1>7, <1>8, <1>9, <1>10, <1>11 DEF Quiet

\* Nothing changes but the count of faults, and in the destructor the state.
LEMMA ThrowsStep ==
  ASSUME Quiet, NEW c \in Clients, faults' \in 0..MaxFaults, faults <= faults',
         client' = client \/ (client[c] = "live" /\ client' = [client EXCEPT ![c] = "closing"]),
         UNCHANGED <<context, alive, tran, cur, pc, served, stray, last>>
  PROVE  Quiet'
<1>1. Types /\ OwnOrUnset /\ Known /\ Ready /\ Closing /\ HasContext /\ Faithful
  BY DEF Quiet
<1>2. /\ client' \in [Clients -> {"none", "live", "closing", "gone"}]
      /\ \A d \in Clients : \/ client'[d] = client[d]
                            \/ client[d] = "live" /\ client'[d] = "closing"
  BY <1>1 DEF Types
<1>3. Types'
  BY <1>1, <1>2 DEF Types
<1>4. OwnOrUnset' /\ HasContext'
  BY <1>1, <1>2, FaultsAssumption DEF Types, OwnOrUnset, HasContext
<1>5. LifetimesMatch' /\ FollowOwnSwitch' /\ Faithful'
  BY <1>1, <1>2 DEF Quiet, LifetimesMatch, FollowOwnSwitch, Faithful
<1>6. CallsInOwnContext' /\ Ready'
  BY <1>1 DEF Quiet, CallsInOwnContext, Ready
<1>7. Known' /\ Closing'
  BY <1>1, <1>2, Contexts DEF Types, Known, Closing, Switched
<1> QED  BY <1>3, <1>4, <1>5, <1>6, <1>7 DEF Quiet

\* A switch_context that throws: Tuxedo failed, or the context is gone, which a
\* failure of Tuxedo explains as long as the client is in use.
LEMMA ThrowsPaid ==
  ASSUME Quiet, NEW t \in Threads, NEW c \in Clients, Throws(t, c)
  PROVE  /\ faults' \in 0..MaxFaults /\ faults <= faults'
         /\ client[c] = "live" => faults' > 0
<1>1. Types /\ OwnOrUnset /\ HasContext
  BY DEF Quiet
<1>2. /\ context[c] # Unset
      /\ \/ faults' = faults + 1 /\ faults < MaxFaults
         \/ context[c] \notin alive /\ faults' = faults
  BY DEF Throws, Fault, NoFault
<1>3. client[c] = "live" => context[c] = c /\ (c \in alive \/ faults > 0)
  BY <1>1, <1>2 DEF OwnOrUnset, HasContext
<1> QED  BY <1>1, <1>2, <1>3, FaultsAssumption DEF Types

\* Every step keeps the invariant.
LEMMA StepInv == IInv /\ [Next]_vars => IInv'
<1> SUFFICES ASSUME IInv, [Next]_vars PROVE IInv'
  OBVIOUS
<1>1. Quiet
  BY Zenon DEF IInv, Quiet
<1>2. crashed \in BOOLEAN /\ DestructorsQuiet
  BY Zenon DEF IInv
<1>3. faults \in 0..MaxFaults
  BY <1>1 DEF Quiet, Types
<1>4. ASSUME Quiet', crashed' = crashed, faults <= faults', faults' \in 0..MaxFaults
      PROVE  IInv'
  <2>1. faults > 0 => faults' > 0
    BY <1>3, <1>4, FaultsAssumption
  <2>2. DestructorsQuiet'
    BY Zenon, <1>2, <1>4, <2>1 DEF DestructorsQuiet
  <2>3. crashed' \in BOOLEAN
    BY Zenon, <1>2, <1>4
  <2> QED  BY Zenon, <1>4, <2>2, <2>3 DEF IInv, Quiet
<1>5. ASSUME Quiet', faults' = faults, crashed' = crashed
      PROVE  IInv'
  BY <1>3, <1>4, <1>5, FaultsAssumption
<1>6. ASSUME NEW t \in Threads, NEW c \in Clients, Construct(t, c)
      PROVE  IInv'
  <2>1. Quiet' /\ faults <= faults'
    BY <1>1, <1>6, ConstructStep
  <2>2. crashed' = crashed
    BY Zenon, <1>6 DEF Construct
  <2>3. faults' \in 0..MaxFaults
    BY <2>1 DEF Quiet, Types
  <2> QED  BY <1>4, <2>1, <2>2, <2>3
<1>7. ASSUME NEW t \in Threads, NEW c \in Clients, Destroy(t, c)
      PROVE  IInv'
  <2>1. /\ pc[t] = Idle /\ client[c] = "live"
        /\ client' = [client EXCEPT ![c] = "closing"]
        /\ UNCHANGED <<context, alive, tran, stray, last>>
    BY <1>7 DEF Destroy, Uses
  <2>2. CASE /\ Switch(t, c) /\ NoFault /\ UNCHANGED crashed
             /\ pc' = [pc EXCEPT ![t] = [op |-> "tpterm", of |-> c]]
    <3>1. faults' = faults /\ client[c] # "none"
      BY <2>1, <2>2 DEF NoFault
    <3>2. Quiet'
      BY <1>1, <2>1, <2>2, <3>1, SwitchStep
    <3>3. crashed' = crashed
      BY Zenon, <2>2
    <3> QED  BY <1>5, <3>1, <3>2, <3>3
  <2>3. CASE Throws(t, c) /\ crashed' = TRUE /\ UNCHANGED <<cur, pc, served>>
    <3>1. faults' \in 0..MaxFaults /\ faults <= faults' /\ faults' > 0
      BY <1>1, <2>1, <2>3, ThrowsPaid
    <3>2. Quiet'
      BY <1>1, <2>1, <2>3, <3>1, ThrowsStep
    <3>3. DestructorsQuiet'
      BY Zenon, <3>1 DEF DestructorsQuiet
    <3>4. crashed' \in BOOLEAN
      BY Zenon, <2>3
    <3> QED  BY Zenon, <3>2, <3>3, <3>4 DEF IInv, Quiet
  <2> QED  BY Zenon, <1>7, <2>2, <2>3 DEF Destroy
<1>8. ASSUME NEW t \in Threads, NEW c \in Clients, Call(t, c)
      PROVE  IInv'
  <2>1. /\ pc[t] = Idle /\ client[c] # "none" /\ client' = client
        /\ UNCHANGED <<context, alive, tran, stray, last>>
    BY <1>8 DEF Call, Uses
  <2>2. crashed' = crashed
    BY Zenon, <1>8 DEF Call
  <2>3. CASE Switch(t, c) /\ NoFault /\ pc' = [pc EXCEPT ![t] = [op |-> "call", of |-> c]]
    <3>1. faults' = faults
      BY <2>3 DEF NoFault
    <3>2. Quiet'
      BY <1>1, <2>1, <2>3, <3>1, SwitchStep
    <3> QED  BY <1>5, <2>2, <3>1, <3>2
  <2>4. CASE Throws(t, c) /\ UNCHANGED <<cur, pc, served>>
    <3>1. faults' \in 0..MaxFaults /\ faults <= faults'
      BY <1>1, <2>4, ThrowsPaid
    <3>2. Quiet'
      BY <1>1, <2>1, <2>4, <3>1, ThrowsStep
    <3> QED  BY <1>4, <2>2, <3>1, <3>2
  <2> QED  BY Zenon, <1>8, <2>3, <2>4 DEF Call
<1>9. ASSUME NEW t \in Threads, Terminate(t) \/ Carry(t)
      PROVE  IInv'
  <2>1. Quiet' /\ faults' = faults
    BY <1>1, <1>9, TerminateStep, CarryStep
  <2>2. crashed' = crashed
    BY Zenon, <1>9 DEF Terminate, Carry
  <2> QED  BY <1>5, <2>1, <2>2
<1>10. ASSUME NEW t \in Threads, NEW c \in Clients,
              Begin(t, c) \/ End(t, c) \/ ReplyOrCancel(t, c)
       PROVE  IInv'
  <2>1. Quiet' /\ faults' = faults
    BY <1>1, <1>10, UnswitchedStep
  <2>2. crashed' = crashed
    BY Zenon, <1>10 DEF Begin, End, ReplyOrCancel
  <2> QED  BY <1>5, <2>1, <2>2
<1>11. CASE UNCHANGED vars
  <2>1. UNCHANGED <<client, context, alive, tran, cur, pc, served, stray, last, faults>>
    BY <1>11 DEF vars
  <2>2. Quiet'
    BY <1>1, <2>1
    DEF Quiet, Types, OwnOrUnset, Known, Ready, Closing, HasContext, Faithful,
        CallsInOwnContext, LifetimesMatch, FollowOwnSwitch
  <2>3. crashed' = crashed /\ faults' = faults
    BY Zenon, <1>11 DEF vars
  <2> QED  BY <1>5, <2>2, <2>3
<1> QED
  BY Zenon, <1>6, <1>7, <1>8, <1>9, <1>10, <1>11 DEF Next

-----------------------------------------------------------------------------
\* Who is in which context, and why, is known in every state.
THEOREM Invariance == Spec => []IInv
<1> QED  BY InitInv, StepInv, PTL DEF Spec

\* The variables keep their types: a thread is in a context that exists.
THEOREM TypeCorrect == Spec => []TypeOK
<1>1. IInv => TypeOK
  BY Zenon DEF IInv, Types, TypeOK
<1> QED  BY <1>1, Invariance, PTL

\* What follows switch_context happens in the object's context
\* (tuxedo.cpp:114), for any number of threads and clients.
THEOREM OwnContext == Spec => []CallsInOwnContext
<1>1. IInv => CallsInOwnContext
  BY DEF IInv
<1> QED  BY <1>1, Invariance, PTL

\* A destructor ends its own context and no other (abstract_client.cpp:33).
THEOREM ContextsLive == Spec => []LifetimesMatch
<1>1. IInv => LifetimesMatch
  BY DEF IInv
<1> QED  BY <1>1, Invariance, PTL

\* begin, commit, abort, reply and cancel do not switch (tuxedo.cpp:69), yet stay
\* with their client in a thread that entered a context for it last.
THEOREM OwnSwitchFollowed == Spec => []FollowOwnSwitch
<1>1. IInv => FollowOwnSwitch
  BY DEF IInv
<1> QED  BY <1>1, Invariance, PTL

\* The destructor of a client never terminates the program unless Tuxedo failed
\* (abstract_client.cpp:34).
THEOREM NoCrash == Spec => []DestructorsQuiet
<1>1. IInv => DestructorsQuiet
  BY DEF IInv
<1> QED  BY <1>1, Invariance, PTL
=============================================================================
