----------------------------- MODULE AsyncCall -----------------------------
(***************************************************************************)
(* transaction::acall, reply and cancel: asynchronous service calls, the   *)
(* descriptors Tuxedo hands out for them, and the one descriptor that each *)
(* transaction object remembers in _call_descriptor.                       *)
(*                                                                         *)
(* Tuxedo uses the descriptor of a call again once the call is over.       *)
(* Services answer in any order, and maybe only after a reply timed out;   *)
(* outside a transaction such a call stays open and can be asked again.    *)
(***************************************************************************)
EXTENDS Integers, TuxedoErrors

CONSTANTS
  Objects,       \* transaction objects of one context
  Descriptors,   \* Tuxedo's descriptors: all in use is TPELIMIT
  MaxCalls       \* bound: calls in a behaviour

ASSUME DescriptorsAssumption == Descriptors \subseteq Nat \ {0}
ASSUME MaxCallsAssumption == MaxCalls \in Nat
ASSUME ObjectsAssumption == None \notin Objects

Calls == 1..MaxCalls

VARIABLES
  descriptor,   \* _call_descriptor of each object
  last,         \* history: each object's last acall, 0 if there is none or it failed
  cut,          \* history: objects whose reply(&cd) for their last call timed out
  made,         \* calls made
  call          \* the calls

acVars == <<descriptor, last, cut, made, call>>

Open == {"pending", "ready"}
Over == {"replied", "failed", "cancelled"}

\* "to" and "meant": history, the object that ended the call and the open call it
\* was asked for, 0 if the call asked for was over
NoCall == [fate |-> "none", by |-> None, cd |-> 0, to |-> None, meant |-> 0]

ACTypeOK ==
  /\ descriptor \in [Objects -> Descriptors \cup {0, -1}]
  /\ last \in [Objects -> 0..made]
  /\ cut \subseteq Objects
  /\ made \in 0..MaxCalls
  /\ call \in [Calls -> {NoCall} \cup
       [fate : Open \cup Over, by : Objects, cd : Descriptors,
        to : Objects \cup {None}, meant : 0..MaxCalls]]
  /\ \A n, m \in Calls :
       n # m /\ {call[n].fate, call[m].fate} \subseteq Open => call[n].cd # call[m].cd

ACInit ==
  /\ descriptor = [o \in Objects |-> 0]
  /\ last = [o \in Objects |-> 0]
  /\ cut = {} /\ made = 0
  /\ call = [n \in Calls |-> NoCall]

-----------------------------------------------------------------------------
(* Tuxedo *)

IsOpen(n) == n \in Calls /\ call[n].fate \in Open

\* the open calls with descriptor d: one or none, and then TPEBADDESC
CallsOf(d) == {n \in Calls : IsOpen(n) /\ call[n].cd = d}

FreeDescriptors == {d \in Descriptors : CallsOf(d) = {}}

\* call n is over, by the doing of o, which was asked for call m
Settle(n, fate, o, m) ==
  call' = [call EXCEPT ![n] = [fate |-> fate, by |-> @.by, cd |-> @.cd, to |-> o,
                               meant |-> IF IsOpen(m) THEN m ELSE 0]]

\* tpgetrply(&d, ...): an answer ends the call, whether of success or failure ...
Getrply(d, o, m) ==
  \E n \in CallsOf(d) :
    /\ call[n].fate = "ready"
    /\ \E fate \in {"replied", "failed"} : Settle(n, fate, o, m)

\* ... and TPETIME, TPGOTSIG, TPEBLOCK or TPEBADDESC leave Tuxedo as it was
GetrplyFails == UNCHANGED call

\* tpcancel(d): a later answer is dropped
Tpcancel(d, o, m) ==
  \/ \E n \in CallsOf(d) : Settle(n, "cancelled", o, m)
  \/ CallsOf(d) = {} /\ UNCHANGED call

\* a service answers
Answer(n) ==
  /\ IsOpen(n) /\ call[n].fate = "pending"
  /\ call' = [call EXCEPT ![n].fate = "ready"]
  /\ UNCHANGED <<descriptor, last, cut, made>>

-----------------------------------------------------------------------------
(* The transaction object *)

\* _call_descriptor after tpacall returned d
KeepsFirst(o, d) == IF descriptor[o] > 0 THEN descriptor[o] ELSE d \* mutant: not overwritten
Remember(o, d) == d

\* _call_descriptor after reply(&cd) with *cd = d
ForgetAny(o, d) == 0                       \* mutant: whichever call it was
Forget(o, d) == IF d = descriptor[o] THEN 0 ELSE descriptor[o]

Acall(o) ==
  /\ made < MaxCalls
  /\ \E d \in FreeDescriptors :
       /\ descriptor' = [descriptor EXCEPT ![o] = Remember(o, d)]
       /\ call' = [call EXCEPT ![made + 1] =
                     [fate |-> "pending", by |-> o, cd |-> d, to |-> None, meant |-> 0]]
  /\ made' = made + 1
  /\ last' = [last EXCEPT ![o] = made + 1]
  /\ cut' = cut \ {o}

\* TPELIMIT, TPENOENT ...: it throws
AcallFails(o) ==
  /\ descriptor' = [descriptor EXCEPT ![o] = -1]
  /\ last' = [last EXCEPT ![o] = 0]
  /\ UNCHANGED <<cut, made, call>>

\* reply(..., NULL), open call or not: _call_descriptor stays what it is
ReplyLast(o) ==
  /\ Getrply(descriptor[o], o, last[o]) \/ GetrplyFails
  /\ UNCHANGED <<descriptor, last, cut, made>>

\* The program names, by the descriptor acall returned, an open call of the object
Names(o, n) == IsOpen(n) /\ call[n].by = o

\* reply(..., &cd)
ReplyNamed(o, n) ==
  /\ Names(o, n)
  /\ \/ Getrply(call[n].cd, o, n) /\ UNCHANGED cut
     \/ GetrplyFails /\ cut' = IF n = last[o] THEN cut \cup {o} ELSE cut
  /\ descriptor' = [descriptor EXCEPT ![o] = Forget(o, call[n].cd)]
  /\ UNCHANGED <<last, made>>

\* cancel()
CancelLast(o) ==
  /\ Tpcancel(descriptor[o], o, last[o])
  /\ UNCHANGED <<descriptor, last, cut, made>>

\* cancel(cd)
CancelNamed(o, n) ==
  /\ Names(o, n)
  /\ Tpcancel(call[n].cd, o, n)
  /\ UNCHANGED <<descriptor, last, cut, made>>

-----------------------------------------------------------------------------
ACNext ==
  \/ \E n \in Calls : Answer(n)
  \/ \E o \in Objects :
       \/ Acall(o) \/ AcallFails(o) \/ ReplyLast(o) \/ CancelLast(o)
       \/ \E n \in Calls : ReplyNamed(o, n) \/ CancelNamed(o, n)

ACSpec == ACInit /\ [][ACNext]_acVars

-----------------------------------------------------------------------------
(* Properties *)

\* A program that asks for a call that is open, by its descriptor or as the last
\* one of an object ("get reply from previous acall()", transaction.hpp:152), ends
\* that call and no other, whatever answers came before it or after a timeout.
AnsweredAsMeant ==
  \A n \in Calls : call[n].meant # 0 =>
    call[n].meant = n /\ call[n].to = call[n].by

\* As long as the last call is open, reply() and cancel() reach it, unless a
\* reply(&cd) for it timed out.
LastCallReachable ==
  \A o \in Objects \ cut : IsOpen(last[o]) => descriptor[o] = call[last[o]].cd
=============================================================================
