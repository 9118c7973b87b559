---------------------------- MODULE AtmiContext ----------------------------
(***************************************************************************)
(* Clients in multi-context mode: abstract_client joins the application    *)
(* and owns a Tuxedo context, the objects its factories make carry that    *)
(* context, and tuxedo::switch_context puts the calling thread into it.    *)
(*                                                                         *)
(* Tuxedo keeps one current context per thread.  A context is named after  *)
(* the client that joined it; "c does X" stands for the client c or any    *)
(* object new_transaction_instance or new_queue_instance made for it: they *)
(* all have the same _context.                                             *)
(*                                                                         *)
(* tpinit failing is left out: the constructor throws and nothing changed. *)
(***************************************************************************)
EXTENDS Naturals, TuxedoErrors

CONSTANTS
  Threads,
  Clients,
  Users,       \* the threads of the program that use a client and its objects
  Null,        \* TPNULLCONTEXT
  Invalid,     \* TPINVALIDCONTEXT: another thread terminated the context
  Unset,       \* _context == 0
  MaxFaults    \* bound: how often tpgetctxt fails

ASSUME UsersAssumption == Users \in [Clients -> SUBSET Threads]
ASSUME ContextAssumption ==
  /\ {Null, Invalid, Unset} \cap Clients = {}
  /\ Null # Invalid /\ None \notin Clients
ASSUME FaultsAssumption == MaxFaults \in Nat

VARIABLES
  client,     \* the C++ object
  context,    \* its _context, which its objects copy
  alive,      \* the contexts that exist in Tuxedo
  tran,       \* the contexts with an open transaction
  cur,        \* each thread's current context
  pc,         \* what a thread does after switch_context, and for which client
  served,     \* history: the client each thread last entered a context for
  stray,      \* history: clients and contexts that the tpterm of a client
              \* without a context has mixed up
  last,       \* history: each thread's last Tuxedo call that was carried out
  faults,
  crashed     \* an exception left a destructor: std::terminate

vars == <<client, context, alive, tran, cur, pc, served, stray, last, faults,
          crashed>>

Idle == [op |-> "idle", of |-> None]
Switched == {"call", "tpterm"}                     \* made after switch_context
Unswitched == {"begin", "commit", "abort", "reply", "cancel"}

TypeOK ==
  /\ client \in [Clients -> {"none", "live", "closing", "gone"}]
  /\ context \in [Clients -> Clients \cup {Unset}]
  /\ alive \subseteq Clients /\ tran \subseteq alive /\ stray \subseteq Clients
  /\ served \in [Threads -> Clients \cup {None}]
  /\ cur \in [Threads -> Clients \cup {Null, Invalid}]
  /\ \A t \in Threads : cur[t] \in Clients => cur[t] \in alive
  /\ pc \in [Threads -> {Idle} \cup [op : Switched, of : Clients]]
  /\ last \in [Threads -> {Idle} \cup
        [op : Switched \cup Unswitched, of : Clients, in : Clients, after : Clients \cup {None}]]
  /\ faults \in 0..MaxFaults
  /\ crashed \in BOOLEAN

Init ==
  /\ client = [c \in Clients |-> "none"]
  /\ context = [c \in Clients |-> Unset]
  /\ alive = {} /\ tran = {} /\ stray = {}
  /\ served = [t \in Threads |-> None]
  /\ cur = [t \in Threads |-> Null]
  /\ pc = [t \in Threads |-> Idle]
  /\ last = [t \in Threads |-> Idle]
  /\ faults = 0 /\ crashed = FALSE

-----------------------------------------------------------------------------
(* Helpers *)

Fault == faults < MaxFaults /\ faults' = faults + 1
NoFault == UNCHANGED faults

\* thread t of the program is free to do something with an object of c
Uses(t, c) == ~crashed /\ t \in Users[c] /\ pc[t] = Idle /\ client[c] # "none"

\* a Tuxedo call of an object of c is carried out in t's current context
Record(t, op, c) ==
  last' = [last EXCEPT ![t] =
             [op |-> op, of |-> c, in |-> cur[t], after |-> served[t]]]

\* history: c ended t's context, which was meant to be its own
MixUp(t, c) ==
  stray' = stray \cup (IF cur[t] = c THEN {} ELSE {c, cur[t]} \cap Clients)

\* switch_context of an object of c in thread t: tpgetctxt, compare, tpsetctxt
InPlace(t, c) == context[c] = Unset \/ cur[t] = context[c]
StaysPut(t, c) == cur[t] \in Clients \/ InPlace(t, c)   \* mutant: any context will do
NoNeed(t, c) == InPlace(t, c)
SetUnchecked(t, c) ==                                  \* mutant: tpsetctxt may fail
  cur' = IF context[c] \in alive THEN [cur EXCEPT ![t] = context[c]] ELSE cur
Set(t, c) == context[c] \in alive /\ cur' = [cur EXCEPT ![t] = context[c]]
Switch(t, c) ==
  /\ IF NoNeed(t, c) THEN UNCHANGED cur ELSE Set(t, c)
  /\ served' = [served EXCEPT ![t] = c]

\* it throws: tpgetctxt fails, or tpsetctxt does as the context is gone
Throws(t, c) ==
  /\ context[c] # Unset
  /\ \/ Fault
     \/ ~NoNeed(t, c) /\ context[c] \notin alive /\ NoFault

-----------------------------------------------------------------------------
(* Construction and destruction *)

\* tpinit with TPMULTICONTEXTS, then set_context of what tpgetctxt returns.
\* A failing tpgetctxt is passed over: _context stays 0.
Construct(t, c) ==
  /\ ~crashed /\ t \in Users[c] /\ pc[t] = Idle /\ client[c] = "none"
  /\ client' = [client EXCEPT ![c] = "live"]
  /\ alive' = alive \cup {c}
  /\ cur' = [cur EXCEPT ![t] = c]
  /\ \/ NoFault /\ context' = [context EXCEPT ![c] = c]
     \/ Fault /\ UNCHANGED context
  /\ served' = [served EXCEPT ![t] = c]
  /\ UNCHANGED <<tran, pc, stray, last, crashed>>

\* ~abstract_client: switch_context ...
Destroy(t, c) ==
  /\ Uses(t, c) /\ client[c] = "live"
  /\ client' = [client EXCEPT ![c] = "closing"]
  /\ \/ /\ Switch(t, c)
        /\ pc' = [pc EXCEPT ![t] = [op |-> "tpterm", of |-> c]]
        /\ NoFault /\ UNCHANGED crashed
     \/ /\ Throws(t, c)
        /\ crashed' = TRUE
        /\ UNCHANGED <<cur, pc, served>>
  /\ UNCHANGED <<context, alive, tran, stray, last>>

\* ... then tpterm: it ends the current context, rolls its transaction back and
\* leaves the other threads that were in it in TPINVALIDCONTEXT
Terminate(t) ==
  /\ ~crashed /\ pc[t].op = "tpterm"
  /\ LET c == pc[t].of  x == cur[t] IN
     /\ client' = [client EXCEPT ![c] = "gone"]
     /\ IF context[c] = Unset THEN MixUp(t, c) ELSE UNCHANGED stray
     /\ alive' = alive \ {x}
     /\ tran' = tran \ {x}
     /\ IF x \in Clients
          THEN /\ cur' = [u \in Threads |-> IF u = t THEN Null
                            ELSE IF cur[u] = x THEN Invalid ELSE cur[u]]
               /\ Record(t, "tpterm", c)
          ELSE UNCHANGED <<cur, last>>
  /\ pc' = [pc EXCEPT ![t] = Idle]
  /\ UNCHANGED <<context, served, faults, crashed>>

-----------------------------------------------------------------------------
(* call, acall, enqueue, dequeue: switch_context, then the Tuxedo call *)

Call(t, c) ==
  /\ Uses(t, c)
  /\ \/ /\ Switch(t, c) /\ NoFault
        /\ pc' = [pc EXCEPT ![t] = [op |-> "call", of |-> c]]
     \/ Throws(t, c) /\ UNCHANGED <<cur, pc, served>>
  /\ UNCHANGED <<client, context, alive, tran, stray, last, crashed>>

\* outside a valid context the call fails with TPEPROTO and throws
Carry(t) ==
  /\ ~crashed /\ pc[t].op = "call"
  /\ IF cur[t] \in Clients THEN Record(t, "call", pc[t].of) ELSE UNCHANGED last
  /\ pc' = [pc EXCEPT ![t] = Idle]
  /\ UNCHANGED <<client, context, alive, tran, cur, served, stray, faults,
                 crashed>>

-----------------------------------------------------------------------------
(* These five do not call switch_context: they run wherever the thread is.   *)
(* Outside a valid context they throw and nothing changes.                   *)

Begin(t, c) ==
  /\ Uses(t, c) /\ cur[t] \in Clients \ tran
  /\ tran' = tran \cup {cur[t]}
  /\ Record(t, "begin", c)
  /\ UNCHANGED <<client, context, alive, cur, pc, served, stray, faults, crashed>>

\* tpcommit may answer TPEABORT: commit throws, the transaction is over all the same
End(t, c) ==
  /\ Uses(t, c) /\ cur[t] \in tran
  /\ tran' = tran \ {cur[t]}
  /\ \E op \in {"commit", "abort"} : Record(t, op, c)
  /\ UNCHANGED <<client, context, alive, cur, pc, served, stray, faults, crashed>>

ReplyOrCancel(t, c) ==
  /\ Uses(t, c) /\ cur[t] \in Clients
  /\ \E op \in {"reply", "cancel"} : Record(t, op, c)
  /\ UNCHANGED <<client, context, alive, tran, cur, pc, served, stray, faults,
                 crashed>>

-----------------------------------------------------------------------------
Next ==
  \E t \in Threads :
    \/ Terminate(t)
    \/ Carry(t)
    \/ \E c \in Clients :
         \/ Construct(t, c) \/ Destroy(t, c) \/ Call(t, c)
         \/ Begin(t, c) \/ End(t, c) \/ ReplyOrCancel(t, c)

Spec == Init /\ [][Next]_vars

-----------------------------------------------------------------------------
(* Properties *)

\* call, acall, enqueue, dequeue and the destructor's tpterm are carried out in
\* the context of the object they were called on, never in the one the thread
\* happens to be in, nor in one that was terminated meanwhile.
CallsInOwnContext ==
  \A t \in Threads : last[t].op \in Switched =>
    context[last[t].of] \in {Unset, last[t].in}

\* A context lives as long as its client: a destructor ends its own context, not
\* another client's, and leaves none behind.
LifetimesMatch ==
  \A c \in Clients \ stray : c \in alive <=> client[c] \in {"live", "closing"}

\* A destructor finds its context and lets no exception out, unless Tuxedo fails.
DestructorsQuiet == crashed => faults > 0

\* begin, commit, abort, reply and cancel do not switch.  They still go to their
\* client's context, or fail, in a thread that entered a context for that client
\* last, whatever other threads terminated since: it takes a call, destructor or
\* constructor of another client in the same thread to lead them astray.
FollowOwnSwitch ==
  \A t \in Threads :
    last[t].op \in Unswitched /\ last[t].after = last[t].of =>
      context[last[t].of] \in {Unset, last[t].in}
=============================================================================
