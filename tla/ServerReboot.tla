---------------------------- MODULE ServerReboot ---------------------------
(***************************************************************************)
(* tmreboot: domain::reboot reads the active servers from the MIB page by  *)
(* page (GET, then GETNEXT) and stops and starts every server of a page.   *)
(*                                                                         *)
(* The MIB lists what it saw at the GET; meanwhile an operator may stop or *)
(* start servers.  A request the tool gave up (TPETIME) may be carried out *)
(* later, when the tool has ended.  A refused request answers TPFAIL with  *)
(* TA_ERROR < 0 in the buffer it was sent: MIB->call does not throw.       *)
(***************************************************************************)
EXTENDS Naturals, FiniteSets

CONSTANTS
  Servers,
  Protected,     \* those reboot leaves alone: TA_SRVID 0 (BBL) or above 30000
  PageSize,      \* entries in a page of the MIB
  MaxFaults,     \* bound: requests that fail for no fault of the tool
  MaxOperator    \* bound: servers stopped or started by hand

ASSUME ServersAssumption == IsFiniteSet(Servers) /\ Protected \subseteq Servers
ASSUME BoundsAssumption ==
  PageSize \in Nat \ {0} /\ MaxFaults \in Nat /\ MaxOperator \in Nat

VARIABLES
  dryRun,      \* option -n
  pc,
  up,          \* the servers that run
  listed,      \* what the GET saw, {} before
  unread,      \* the entries of it that no page has delivered yet
  page,        \* the entries in the buffer
  todo,        \* those the loop over the occurrences has still to see
  current,     \* the server being restarted, in a set
  counter,     \* domain::_counter
  late,        \* requests given up that the MIB may still carry out
  faults, byHand,
  down,        \* history: servers the tool stopped that nobody started since
  touched,     \* history: servers an operator stopped or started
  brought,     \* history: servers that ran after a stop and a start
  restarted    \* history: how many restarts ended with the server running

toolVars == <<dryRun, pc, listed, unread, page, todo, current, counter>>
historyVars == <<touched, brought, restarted>>
vars == <<toolVars, up, late, faults, byHand, down, historyVars>>

Restartable == Servers \ Protected
States == {"ACTIVE", "INACTIVE"}
Locations == {"get", "entries", "stop", "start", "done", "failed"}

TypeOK ==
  /\ dryRun \in BOOLEAN
  /\ pc \in Locations
  /\ up \subseteq Servers /\ listed \subseteq Servers
  /\ page \subseteq listed /\ unread \subseteq listed \ page /\ todo \subseteq page
  /\ current \subseteq todo \ Protected /\ Cardinality(current) <= 1
  /\ pc \in {"stop", "start"} <=> current # {}
  /\ counter \in Nat /\ restarted \in Nat
  /\ late \subseteq Restartable \X States
  /\ faults \in 0..MaxFaults /\ byHand \in 0..MaxOperator
  /\ down \subseteq Restartable \ up
  /\ touched \subseteq Servers /\ brought \subseteq Restartable

Init ==
  /\ dryRun \in BOOLEAN
  /\ pc = "get"
  /\ up \in {Servers} \cup {Servers \ {s} : s \in Servers}
  /\ listed = {} /\ unread = {} /\ page = {} /\ todo = {} /\ current = {}
  /\ counter = 0 /\ restarted = 0
  /\ late = {} /\ faults = 0 /\ byHand = 0
  /\ down = {} /\ touched = {} /\ brought = {}

-----------------------------------------------------------------------------
(* Helpers *)

Fault == faults < MaxFaults /\ faults' = faults + 1
NoFault == UNCHANGED faults

\* the pages the MIB may make of a set of entries
Pages(S) ==
  IF Cardinality(S) <= PageSize THEN {S} ELSE {p \in SUBSET S : Cardinality(p) = PageSize}

\* while( ta_more > 0 ), of the entries no page has delivered
NeverMore(rest) == FALSE                   \* mutant: only the first page is read
AlwaysMore(rest) == TRUE                   \* mutant: the end is never seen
More(rest) == rest # {}

\* (ta_srvid > 0) && (ta_srvid <= 30000)
MayRestart(s) == s \notin Protected

\* _counter after a restart
CountedTwice(n) == n + 2                   \* mutant: by stop and by start
Counted(n) == n + 1

\* the server runs or not, as asked; down follows
CarryOut(s, state) ==
  IF state = "ACTIVE"
    THEN up' = up \cup {s} /\ down' = down \ {s}
    ELSE up' = up \ {s} /\ down' = down \cup {s}

\* TA_STATE of the SET request that stop and start send
AlwaysInactive(step) == "INACTIVE"         \* mutant: start sends what stop sends
Requested(step) == IF step = "stop" THEN "INACTIVE" ELSE "ACTIVE"

\* the MIB refuses to stop a stopped server and to start a running one
Applies(s, state) == (s \in up) = (state = "INACTIVE")

-----------------------------------------------------------------------------
(* reboot: the pages *)

\* GET: the MIB lists the active servers and delivers the first page
Get ==
  /\ pc = "get" /\ listed = {}
  /\ listed' = up
  /\ \E p \in Pages(up) : page' = p /\ todo' = p /\ unread' = up \ p
  /\ pc' = "entries"
  /\ UNCHANGED <<dryRun, current, counter, up, late, faults, byHand, down, historyVars>>

\* GETNEXT, with the last page in the buffer
GetNext ==
  /\ pc = "get" /\ listed # {}
  /\ \E p \in Pages(unread) : page' = p /\ todo' = p /\ unread' = unread \ p
  /\ pc' = "entries"
  /\ UNCHANGED <<dryRun, listed, current, counter, up, late, faults, byHand, down,
                 historyVars>>

\* A refused GETNEXT prints TA_STATUS and goes on with what the buffer holds: the
\* last page and its TA_MORE.  A refused GET has no TA_MORE, and get throws.  A page
\* without a server to restart may be refused for ever: that changes no count, and
\* MaxFaults does not bound it.
GetRefused ==
  /\ pc = "get"
  /\ IF listed # {} /\ page \subseteq Protected THEN NoFault ELSE Fault
  /\ IF listed = {}
       THEN pc' = "failed" /\ UNCHANGED todo
       ELSE pc' = "entries" /\ todo' = page
  /\ UNCHANGED <<dryRun, listed, unread, page, current, counter, up, late, byHand,
                 down, historyVars>>

\* MIB->call throws: reboot catches it, reports it and returns
GetThrows ==
  /\ pc = "get" /\ Fault
  /\ pc' = "failed"
  /\ UNCHANGED <<dryRun, listed, unread, page, todo, current, counter, up, late,
                 byHand, down, historyVars>>

-----------------------------------------------------------------------------
(* reboot: the entries of a page *)

\* mutant of Skip: the loop stays at the entry it leaves alone
SkipInPlace(s) ==
  /\ pc = "entries" /\ s \in todo /\ ~MayRestart(s)
  /\ UNCHANGED vars

Skip(s) ==
  /\ pc = "entries" /\ s \in todo /\ ~MayRestart(s)
  /\ todo' = todo \ {s}
  /\ UNCHANGED <<dryRun, pc, listed, unread, page, current, counter, up, late,
                 faults, byHand, down, historyVars>>

DryRestart(s) ==
  /\ pc = "entries" /\ s \in todo /\ MayRestart(s) /\ dryRun
  /\ todo' = todo \ {s}
  /\ counter' = Counted(counter)
  /\ UNCHANGED <<dryRun, pc, listed, unread, page, current, up, late, faults,
                 byHand, down, historyVars>>

Restart(s) ==
  /\ pc = "entries" /\ s \in todo /\ MayRestart(s) /\ ~dryRun
  /\ current' = {s}
  /\ pc' = "stop"
  /\ UNCHANGED <<dryRun, listed, unread, page, todo, counter, up, late, faults,
                 byHand, down, historyVars>>

\* change_server_state returned, whether TA_ERROR told success or a refusal:
\* after stop comes start, after start the server counts as restarted
Proceed(s) ==
  IF pc = "stop"
    THEN pc' = "start" /\ UNCHANGED <<todo, current, counter, brought, restarted>>
    ELSE /\ pc' = "entries"
         /\ todo' = todo \ {s} /\ current' = {}
         /\ counter' = Counted(counter)
         /\ brought' = IF s \in up' THEN brought \cup {s} ELSE brought
         /\ restarted' = IF s \in up' THEN restarted + 1 ELSE restarted

\* stop, start
ChangeState(s) ==
  /\ s \in current
  /\ LET state == Requested(pc) IN
       \/ Applies(s, state) /\ CarryOut(s, state) /\ NoFault
       \/ ~Applies(s, state) /\ UNCHANGED <<up, down>> /\ NoFault
       \/ UNCHANGED <<up, down>> /\ Fault
  /\ Proceed(s)
  /\ UNCHANGED <<dryRun, listed, unread, page, late, byHand, touched>>

\* the call of .TMIB throws, and so does change_server_state: reboot ends
ChangeThrows(s) ==
  /\ s \in current /\ Fault
  /\ late' \in {late, late \cup {<<s, Requested(pc)>>}}
  /\ pc' = "failed" /\ current' = {}
  /\ UNCHANGED <<dryRun, listed, unread, page, todo, counter, up, byHand, down,
                 historyVars>>

PageDone ==
  /\ pc = "entries" /\ todo = {}
  /\ pc' = IF More(unread) THEN "get" ELSE "done"
  /\ UNCHANGED <<dryRun, listed, unread, page, todo, current, counter, up, late,
                 faults, byHand, down, historyVars>>

-----------------------------------------------------------------------------
(* The environment *)

\* a request that was given up is carried out
CarriedOutLate(s, state) ==
  /\ <<s, state>> \in late
  /\ late' = late \ {<<s, state>>}
  /\ IF Applies(s, state) THEN CarryOut(s, state) ELSE UNCHANGED <<up, down>>
  /\ UNCHANGED <<toolVars, faults, byHand, historyVars>>

Operator(s) ==
  /\ byHand < MaxOperator /\ byHand' = byHand + 1
  /\ up' = IF s \in up THEN up \ {s} ELSE up \cup {s}
  /\ down' = down \ {s}
  /\ touched' = touched \cup {s}
  /\ UNCHANGED <<toolVars, late, faults, brought, restarted>>

-----------------------------------------------------------------------------
Step ==
  \/ Get \/ GetNext \/ GetRefused \/ GetThrows \/ PageDone
  \/ \E s \in Servers :
       Skip(s) \/ DryRestart(s) \/ Restart(s) \/ ChangeState(s) \/ ChangeThrows(s)

Next ==
  \/ Step
  \/ \E s \in Servers :
       Operator(s) \/ \E state \in States : CarriedOutLate(s, state)

Spec == Init /\ [][Next]_vars

\* the process is scheduled, and .TMIB answers or times out
FairSpec == Spec /\ WF_vars(Step)

-----------------------------------------------------------------------------
(* Properties *)

\* Between two servers everything the tool stopped runs again: it has at most one
\* server down at a time, and each other one it leaves down is paid for with a
\* request that failed, late requests included.
LeftDownPaid ==
  Cardinality(down \ (IF pc = "start" THEN current ELSE {})) <= faults

\* When nothing failed, every server the MIB listed was restarted, over all pages,
\* and runs unless an operator saw to it; a dry run leaves all as they were.
AllRestarted ==
  pc = "done" /\ faults = 0 =>
    IF dryRun THEN listed \ touched \subseteq up /\ brought = {}
    ELSE brought = listed \ Protected /\ brought \ touched \subseteq up

\* "processes restarted": when nothing failed, the tool prints for how many servers
\* it restarted, or would have, over all pages and each one once.  Whatever failed, no
\* restart that worked is missing from the number.
ReportHonest ==
  IF dryRun THEN pc = "done" /\ faults = 0 => counter = Cardinality(listed \ Protected)
  ELSE /\ faults = 0 => counter = Cardinality(brought)
       /\ restarted <= counter

\* how far reboot is with one entry, and with a page whose entries are all done
Stage == [l \in Locations |->
  CASE l = "entries" -> 1 [] l = "stop" -> 2 [] l = "start" -> 3 [] l = "get" -> 4
    [] l \in {"done", "failed"} -> 5]

Listing == pc = "get" /\ listed = {}

\* The tool never goes back, whatever the MIB answers and others do to its servers,
\* unless a request fails: a step costs a failure, or is a refused GETNEXT, or makes
\* the first list, or else takes entries from those no page has delivered, or from
\* those of the page the loop has to see, or is a later stage of an entry.  With
\* finitely many of each neither loop of reboot is endless.
Advance ==
  \/ faults' > faults
  \/ GetRefused
  \/ /\ faults' = faults
     /\ \/ Listing /\ ~Listing'
        \/ /\ Listing <=> Listing'
           /\ \/ unread' \subseteq unread /\ unread' # unread
              \/ /\ unread' = unread
                 /\ \/ todo' \subseteq todo /\ todo' # todo
                    \/ todo' = todo /\ Stage[pc'] > Stage[pc]
Forward == [][Advance]_<<toolVars, faults>>

\* tmreboot ends, whoever else changes servers, if from some time on its requests are
\* not refused any more (MaxFaults bounds the other failures).  It needs that: a
\* GETNEXT that is refused every time keeps it in the loop over the pages.
Ends == <>[][~GetRefused]_vars => <>(pc \in {"done", "failed"})
=============================================================================
