---------------------------- MODULE QueueExport -----------------------------
(***************************************************************************)
(* qexport: processes that drain one /Q queue into a stream each, through  *)
(* operator<<(std::ostream&, queue_stream&).                               *)
(*                                                                         *)
(* Every message is taken in a transaction of its own: begin, dequeue,     *)
(* tpexport, write, commit.  The queue space and the transaction manager   *)
(* are Tuxedo's; they are modelled from the answers the code handles.  A   *)
(* dequeued message stays in the queue space, locked by the transaction of *)
(* the exporter that holds it, until that transaction ends.                *)
(*                                                                         *)
(* The order in which /Q hands out messages is configured outside the      *)
(* code, so a dequeue takes any message nobody holds.                      *)
(***************************************************************************)
EXTENDS Naturals, TuxedoErrors

CONSTANTS
  Exporters,      \* qexport processes on one queue
  Msgs,           \* messages that are ever put on the queue
  Blank,          \* the messages of length zero
  NoMsg,          \* "holds no message"
  ExportSize,     \* bytes tpexport needs for each message
  BufferSize,     \* queue_stream::_buffer_size
  MaxFaults,      \* bound: failures of Tuxedo or of a process in a behaviour
  StreamCanFail   \* may the output stream go bad (disk full, ...)?

ASSUME MessagesAssumption == Blank \subseteq Msgs /\ NoMsg \notin Msgs
ASSUME SizesAssumption ==
  BufferSize \in Nat \ {0} /\ ExportSize \in [Msgs -> Nat \ {0}]
ASSUME FaultsAssumption == MaxFaults \in Nat /\ StreamCanFail \in BOOLEAN

VARIABLES
  queued,     \* messages in the queue space, locked ones included
  removed,    \* history: messages whose dequeue was committed
  lines,      \* how often each message was written to a stream
  faults,     \* failures so far
  pc,         \* where each process is in run() and operator<<
  daemon,     \* option -d
  running,    \* the global the signal handler clears
  bad,        \* the output stream has failed: writes are silently dropped
  status,     \* how the process ended
  counter,    \* run(): messages exported by finished operators
  count,      \* queue_stream::_count
  rc,         \* what the last dequeue or tpexport returned
  inTran,     \* the process is in transaction mode
  held,       \* the message dequeued in that transaction
  room,       \* bytes allocated to the export buffer, 0 when freed
  size,       \* bytes tpexport put in the buffer (the code's s)
  message,    \* the CARRAY buffer is allocated
  exc,        \* exception on its way, "none" if there is none
  taken       \* history: non-blank messages this process removed

queueVars   == <<queued, removed, lines>>
processVars == <<daemon, running, bad, status, counter>>
bufferVars  == <<room, size, message>>
vars == <<queueVars, faults, pc, processVars, count, rc, inTran, held,
          bufferVars, exc, taken>>

Locations == {"down", "run", "begin", "dequeue", "export", "write", "commit",
              "timeout", "rescue", "return", "threw"}

TypeOK ==
  /\ queued \subseteq Msgs /\ removed \subseteq Msgs
  /\ lines \in [Msgs -> Nat]
  /\ faults \in 0..MaxFaults
  /\ pc \in [Exporters -> Locations]
  /\ daemon \in [Exporters -> BOOLEAN] /\ running \in [Exporters -> BOOLEAN]
  /\ bad \in [Exporters -> BOOLEAN]
  /\ status \in [Exporters -> {"none", "success", "failure", "killed"}]
  /\ counter \in [Exporters -> Nat] /\ count \in [Exporters -> Nat]
  /\ rc \in [Exporters -> {"FAILED", "OK", "QMENOMSG"}]
  /\ inTran \in [Exporters -> BOOLEAN]
  /\ held \in [Exporters -> Msgs \cup {NoMsg}]
  /\ room \in [Exporters -> Nat] /\ size \in [Exporters -> Nat]
  /\ message \in [Exporters -> BOOLEAN]
  /\ exc \in [Exporters -> TuxedoExceptions \cup {None}]
  /\ taken \in [Exporters -> Nat]

Init ==
  /\ queued = {} /\ removed = {}
  /\ lines = [m \in Msgs |-> 0]
  /\ faults = 0
  /\ pc = [e \in Exporters |-> "down"]
  /\ daemon = [e \in Exporters |-> FALSE]
  /\ running = [e \in Exporters |-> TRUE]
  /\ bad = [e \in Exporters |-> FALSE]
  /\ status = [e \in Exporters |-> "none"]
  /\ counter = [e \in Exporters |-> 0]
  /\ count = [e \in Exporters |-> 0]
  /\ rc = [e \in Exporters |-> "FAILED"]
  /\ inTran = [e \in Exporters |-> FALSE]
  /\ held = [e \in Exporters |-> NoMsg]
  /\ room = [e \in Exporters |-> 0]
  /\ size = [e \in Exporters |-> 0]
  /\ message = [e \in Exporters |-> FALSE]
  /\ exc = [e \in Exporters |-> None]
  /\ taken = [e \in Exporters |-> 0]

-----------------------------------------------------------------------------
(* Helpers *)

Goto(e, l) == pc' = [pc EXCEPT ![e] = l]

\* something in the environment fails; a behaviour has at most MaxFaults of these
Fault == faults < MaxFaults /\ faults' = faults + 1
NoFault == UNCHANGED faults

Throw(e, class) == exc' = [exc EXCEPT ![e] = class]

\* messages a dequeue can take: stored and not locked by another transaction
Available == queued \ {held[e] : e \in Exporters}

\* the transaction of e is over; whatever it had dequeued is no longer locked
EndTran(e) ==
  /\ inTran' = [inTran EXCEPT ![e] = FALSE]
  /\ held' = [held EXCEPT ![e] = NoMsg]

\* the dequeue of e, if it took something, is made permanent
RemoveHeld(e) ==
  /\ queued' = queued \ {held[e]}
  /\ removed' = removed \cup ({held[e]} \ {NoMsg})
  /\ taken' = [taken EXCEPT ![e] =
                 IF held[e] \in Msgs \ Blank THEN @ + 1 ELSE @]

\* the memory of the process goes with it
Vanish(e) ==
  /\ room' = [room EXCEPT ![e] = 0]
  /\ size' = [size EXCEPT ![e] = 0]
  /\ message' = [message EXCEPT ![e] = FALSE]
  /\ rc' = [rc EXCEPT ![e] = "FAILED"]
  /\ Throw(e, None)

KeepHeld == UNCHANGED <<queued, removed, taken>>

\* operator<<: qs._count = 0
KeepCount(e) == UNCHANGED count         \* mutant: the reset is missing
ResetCount(e) == count' = [count EXCEPT ![e] = 0]

\* operator<<: a message without data is neither exported nor written
SkipLarge(m) ==                         \* mutant: oversized messages are skipped too
  IF m \in Blank \/ ExportSize[m] > BufferSize THEN "commit" ELSE "export"
AfterDequeue(m) == IF m \in Blank THEN "commit" ELSE "export"

\* operator<<: who catches what dequeue throws
CatchDiagnostics(class) ==              \* mutant: other errors leave without abort
  CASE class = "timeout_exception"     -> "timeout"
    [] class \in DiagnosticExceptions -> "rescue"
    [] OTHER                           -> "threw"
Handler(class) == IF class = "timeout_exception" THEN "timeout" ELSE "rescue"

\* operator<<: the room given to the second tpexport
GrowNothing(s) == s                     \* mutant: allocated before s is doubled
Grow(s) == s + s

\* run(): the condition of its loop
IgnoreSignal(e) == daemon[e]            \* mutant: the signal is not looked at
Again(e) == running[e] /\ daemon[e]

-----------------------------------------------------------------------------
(* The environment *)

\* another program enqueues a message; one without data is like any other without
\* data, and may come as often as its producer likes
Produce(m) ==
  /\ m \notin queued /\ (m \in removed => m \in Blank)
  /\ queued' = queued \cup {m}
  /\ removed' = removed \ {m}
  /\ UNCHANGED <<lines, faults, pc, processVars, count, rc, inTran,
                 held, bufferVars, exc, taken>>

\* qexport is launched, as a daemon or not
Start(e) ==
  /\ pc[e] = "down"
  /\ Goto(e, "run")
  /\ \E d \in BOOLEAN : daemon' = [daemon EXCEPT ![e] = d]
  /\ running' = [running EXCEPT ![e] = TRUE]
  /\ bad' = [bad EXCEPT ![e] = FALSE]
  /\ status' = [status EXCEPT ![e] = "none"]
  /\ counter' = [counter EXCEPT ![e] = 0]
  /\ count' = [count EXCEPT ![e] = 0]
  /\ taken' = [taken EXCEPT ![e] = 0]
  /\ NoFault
  /\ UNCHANGED <<queueVars, rc, inTran, held, bufferVars, exc>>

\* signal_handler: SIGINT may arrive at any time
Interrupt(e) ==
  /\ pc[e] # "down" /\ running[e]
  /\ running' = [running EXCEPT ![e] = FALSE]
  /\ UNCHANGED <<queueVars, faults, pc, daemon, bad, status, counter, count, rc,
                 inTran, held, bufferVars, exc, taken>>

\* the process dies; the transaction manager rolls its transaction back
Crash(e) ==
  /\ pc[e] # "down"
  /\ Fault
  /\ Goto(e, "down")
  /\ EndTran(e)
  /\ status' = [status EXCEPT ![e] = "killed"]
  /\ Vanish(e)
  /\ UNCHANGED <<queueVars, daemon, running, bad, counter, count, taken>>

\* the stream enters the failed state, from which it does not recover
StreamFails(e) ==
  /\ StreamCanFail /\ pc[e] # "down" /\ ~bad[e]
  /\ bad' = [bad EXCEPT ![e] = TRUE]
  /\ UNCHANGED <<queueVars, faults, pc, daemon, running, status, counter, count,
                 rc, inTran, held, bufferVars, exc, taken>>
(* operator<<, called by queue_export::run *)

\* entry: the count is reset, the export buffer and the CARRAY are allocated
Open(e) ==
  /\ pc[e] = "run"
  /\ ResetCount(e)
  /\ rc' = [rc EXCEPT ![e] = "FAILED"]
  /\ room' = [room EXCEPT ![e] = BufferSize]
  /\ \/ /\ message' = [message EXCEPT ![e] = TRUE]
        /\ Goto(e, "begin")
        /\ NoFault /\ UNCHANGED exc
     \/ /\ Fault                                        \* allocate throws
        /\ Throw(e, "tuxedo_exception")
        /\ Goto(e, "rescue")
        /\ UNCHANGED message
  /\ UNCHANGED <<queueVars, processVars, inTran, held, size, taken>>

\* tpbegin fails, for one, in a process that already is in transaction mode
Begin(e) ==
  /\ pc[e] = "begin"
  /\ \/ /\ ~inTran[e]
        /\ inTran' = [inTran EXCEPT ![e] = TRUE]
        /\ Goto(e, "dequeue")
        /\ NoFault /\ UNCHANGED exc
     \/ /\ IF inTran[e] THEN NoFault ELSE Fault
        /\ Throw(e, "tuxedo_exception")
        /\ Goto(e, "rescue")
        /\ UNCHANGED inTran
  /\ UNCHANGED <<queueVars, processVars, count, rc, held, bufferVars, taken>>

\* a message was available: a blank one skips the export and the write
DequeueMessage(e, m) ==
  /\ pc[e] = "dequeue"
  /\ m \in Available
  /\ held' = [held EXCEPT ![e] = m]
  /\ rc' = [rc EXCEPT ![e] = "OK"]
  /\ Goto(e, AfterDequeue(m))
  /\ UNCHANGED <<queueVars, faults, processVars, count, inTran, bufferVars, exc,
                 taken>>

\* set_message_wait(false): an empty queue answers QMENOMSG at once
DequeueNothing(e) ==
  /\ pc[e] = "dequeue"
  /\ Available = {}
  /\ rc' = [rc EXCEPT ![e] = "QMENOMSG"]
  /\ Goto(e, "commit")
  /\ UNCHANGED <<queueVars, faults, processVars, count, inTran, held, bufferVars,
                 exc, taken>>

\* The inner handler catches timeouts, the outer one everything else.  Timeouts of
\* a dequeue cost no failure: there may be any number of them.
DequeueFails(e) ==
  /\ pc[e] = "dequeue"
  /\ \E class \in QueueExceptions :
       /\ IF class = "timeout_exception" THEN NoFault ELSE Fault
       /\ Throw(e, class)
       /\ Goto(e, Handler(class))
  /\ UNCHANGED <<queueVars, processVars, count, rc, inTran, held, bufferVars,
                 taken>>

\* tpexport, and once more in a larger buffer when it answers TPELIMIT.  What
\* tpexport leaves in s with TPELIMIT, the size it was given or the size it
\* needs, is its own choice.
Export(e) ==
  LET need == ExportSize[held[e]] IN
  /\ pc[e] = "export"
  /\ \/ /\ need <= BufferSize
        /\ size' = [size EXCEPT ![e] = need]
        /\ rc' = [rc EXCEPT ![e] = "OK"]
        /\ Goto(e, "write")
        /\ NoFault /\ UNCHANGED <<room, exc>>
     \/ /\ need > BufferSize
        /\ \E s \in {BufferSize, need} :
             /\ room' = [room EXCEPT ![e] = Grow(s)]
             /\ \/ /\ need <= s + s
                   /\ size' = [size EXCEPT ![e] = need]
                   /\ rc' = [rc EXCEPT ![e] = "OK"]
                   /\ Goto(e, "write")
                   /\ UNCHANGED exc
                \/ /\ need > s + s
                   /\ size' = [size EXCEPT ![e] = s + s]
                   /\ rc' = [rc EXCEPT ![e] = "FAILED"]
                   /\ Throw(e, "tuxedo_exception")
                   /\ Goto(e, "rescue")
        /\ NoFault
     \/ /\ Fault                           \* tpexport fails for another reason
        /\ rc' = [rc EXCEPT ![e] = "FAILED"]
        /\ Throw(e, "tuxedo_exception")
        /\ Goto(e, "rescue")
        /\ UNCHANGED <<room, size>>
  /\ UNCHANGED <<queueVars, processVars, count, inTran, held, message, taken>>

\* the state of the stream is not looked at
Write(e) ==
  /\ pc[e] = "write"
  /\ lines' = IF bad[e] THEN lines ELSE [lines EXCEPT ![held[e]] = @ + 1]
  /\ count' = [count EXCEPT ![e] = @ + 1]
  /\ Goto(e, "commit")
  /\ UNCHANGED <<queued, removed, faults, processVars, rc, inTran, held,
                 bufferVars, exc, taken>>

\* mutant of Commit: the transaction is left open
CommitForgotten(e) ==
  /\ pc[e] = "commit"
  /\ Goto(e, IF rc[e] = "QMENOMSG" THEN "return" ELSE "begin")
  /\ UNCHANGED <<queueVars, faults, processVars, count, rc, inTran, held,
                 bufferVars, exc, taken>>

\* tpcommit ends the transaction whatever it answers: a failed one was rolled
\* back, or its outcome is unknown and it may have been applied
Commit(e) ==
  /\ pc[e] = "commit"
  /\ EndTran(e)
  /\ \/ /\ RemoveHeld(e)
        /\ Goto(e, IF rc[e] = "QMENOMSG" THEN "return" ELSE "begin")
        /\ NoFault /\ UNCHANGED exc
     \/ /\ Fault
        /\ KeepHeld \/ RemoveHeld(e)
        /\ Throw(e, "tuxedo_exception")
        /\ Goto(e, "rescue")
  /\ UNCHANGED <<lines, processVars, count, rc, bufferVars>>

\* catch (timeout_exception): abort and go round the loop again.  A tpabort
\* that fails has ended the transaction all the same.
TimeoutAbort(e) ==
  /\ pc[e] = "timeout"
  /\ EndTran(e)
  /\ \/ /\ Throw(e, None)
        /\ Goto(e, "begin")
        /\ NoFault
     \/ /\ Fault
        /\ Throw(e, "tuxedo_exception")
        /\ Goto(e, "rescue")
  /\ UNCHANGED <<queueVars, processVars, count, rc, bufferVars, taken>>

\* catch (...): abort, free both buffers and rethrow.  Without a transaction
\* to abort tpabort answers TPEPROTO and abort throws out of the handler,
\* before the buffers are freed and in place of the exception being handled.
Rescue(e) ==
  /\ pc[e] = "rescue"
  /\ EndTran(e)
  /\ Goto(e, "threw")
  /\ \/ /\ inTran[e]
        /\ room' = [room EXCEPT ![e] = 0]
        /\ message' = [message EXCEPT ![e] = FALSE]
        /\ NoFault /\ UNCHANGED exc
     \/ /\ IF inTran[e] THEN Fault ELSE NoFault
        /\ Throw(e, "tuxedo_exception")
        /\ UNCHANGED <<room, message>>
  /\ UNCHANGED <<queueVars, processVars, count, rc, size, taken>>

\* operator<< frees its buffers and returns; run() adds the count up and starts
\* over if it is a daemon nobody interrupted
Return(e) ==
  /\ pc[e] = "return"
  /\ counter' = [counter EXCEPT ![e] = @ + count[e]]
  /\ Vanish(e)
  /\ \/ /\ Again(e)
        /\ Goto(e, "run")
        /\ UNCHANGED status
     \/ /\ ~Again(e)
        /\ Goto(e, "down")
        /\ status' = [status EXCEPT ![e] = "success"]
  /\ UNCHANGED <<queueVars, faults, daemon, running, bad, count, inTran, held,
                 taken>>

\* run() catches what operator<< threw, reports it and fails
Fail(e) ==
  /\ pc[e] = "threw"
  /\ Goto(e, "down")
  /\ status' = [status EXCEPT ![e] = "failure"]
  /\ Vanish(e)
  /\ UNCHANGED <<queueVars, faults, daemon, running, bad, counter, count, inTran,
                 held, taken>>

-----------------------------------------------------------------------------
Dequeue(e) ==
  \/ \E m \in Msgs : DequeueMessage(e, m)
  \/ DequeueNothing(e)
  \/ DequeueFails(e)

\* the steps of the program, as opposed to what happens to it
Step(e) ==
  \/ Open(e) \/ Begin(e) \/ Dequeue(e) \/ Export(e) \/ Write(e) \/ Commit(e)
  \/ TimeoutAbort(e) \/ Rescue(e) \/ Return(e) \/ Fail(e)

Next ==
  \/ \E m \in Msgs : Produce(m)
  \/ \E e \in Exporters :
       Start(e) \/ Interrupt(e) \/ Crash(e) \/ StreamFails(e) \/ Step(e)

Spec == Init /\ [][Next]_vars

\* a running process is scheduled; nothing is assumed of its environment
FairSpec == Spec /\ \A e \in Exporters : WF_vars(Step(e))

\* Somebody launches qexport again when it is not running, and no message with data
\* is passed over for ever: the queue hands messages out in an order, and not every
\* dequeue times out.
SupervisedSpec ==
  /\ FairSpec
  /\ \A e \in Exporters : WF_vars(Start(e))
  /\ \A m \in Msgs \ Blank : SF_vars(\E e \in Exporters : DequeueMessage(e, m))

-----------------------------------------------------------------------------
(* Properties *)

\* Whatever fails, a message with data that left the queue was written to a
\* stream (queue_stream.cpp: commit only after out.write).
NoLoss == \A m \in removed \ Blank : lines[m] > 0

\* A message is written again only because something failed: a behaviour
\* without failures writes every message once, even with several exporters and
\* with signals (the write and the dequeue are in one transaction).
DuplicatesCostAFailure == \A m \in Msgs : lines[m] <= 1 + faults

\* What run() adds up is what left the queue.  On the way, and when it threw,
\* the count is ahead by the one message whose commit did not succeed.
CountExact ==
  \A e \in Exporters :
    LET reported == IF pc[e] \in {"down", "run"} /\ status[e] # "failure"
                      THEN counter[e]
                      ELSE counter[e] + count[e]
    IN  \/ reported = taken[e]
        \/ reported = taken[e] + 1 /\ (pc[e] \in {"commit", "rescue", "threw"}
                                         \/ status[e] = "failure")
        \/ status[e] = "killed"

\* operator<< returns or throws with its transaction finished, so that the next
\* tpbegin of the process is legal and nothing stays locked in the queue.
TranClosed ==
  \A e \in Exporters :
    pc[e] \in {"down", "run", "begin", "return", "threw"} =>
      ~inTran[e] /\ held[e] = NoMsg

\* tpexport's result lies within the buffer that out.write reads.
WriteInBounds ==
  \A e \in Exporters :
    pc[e] = "write" => size[e] <= room[e] /\ size[e] = ExportSize[held[e]]

\* The exporters implement an at-least-once hand-off of the queue.
Handoff == INSTANCE QueueHandoff
             WITH delivered <- {m \in Msgs : lines[m] > 0}
HandoffSpec == Handoff!Spec

\* What keeps operator<< in its loop, which ends with QMENOMSG and nothing else:
\* somebody enqueues, or a dequeue times out.
KeptBusy ==
  \/ \E m \in Msgs : Produce(m)
  \/ \E e \in Exporters : pc[e] = "dequeue" /\ pc'[e] = "timeout"
CalmsDown == <>[][~KeptBusy]_vars

\* Once nobody enqueues any more and no dequeue times out, SIGINT ends qexport.
\* Without that it need not: the loop of operator<< does not look at running.
InterruptStops ==
  CalmsDown =>
    \A e \in Exporters : (pc[e] # "down" /\ ~running[e]) ~> pc[e] = "down"

\* As long as qexport is launched again after it ends, every message that the
\* export buffer can hold reaches a stream, unless a stream fails.
EventuallyExported ==
  \A m \in Msgs \ Blank :
    m \in queued ~> (lines[m] > 0 \/ \E e \in Exporters : bad[e])

\* Why the safety properties hold, as an invariant each step preserves.
\* Where a process is says what its transaction holds ...
WellPlaced ==
  \A e \in Exporters :
    /\ pc[e] \in {"export", "write"} => held[e] \in Msgs \ Blank
    /\ pc[e] \notin {"export", "write", "commit", "rescue"} => held[e] = NoMsg
    /\ pc[e] \in {"down", "run", "begin", "return", "threw"} => ~inTran[e]

\* ... locks are exclusive and on stored messages ...
LocksExclusive ==
  /\ \A e \in Exporters : held[e] # NoMsg => held[e] \in queued
  /\ \A e, f \in Exporters : held[e] = held[f] /\ held[e] # NoMsg => e = f
  /\ queued \cap removed = {}

\* ... between its write and the end of its transaction, and only then, a stored
\* message may have been written once more than there were failures; one without data
\* never is.
Accounted ==
  /\ \A m \in Msgs : lines[m] <= 1 + faults
  /\ \A m \in Blank : lines[m] = 0
  /\ \A m \in Msgs \ removed :
       lines[m] <= faults \/ \E e \in Exporters : held[e] = m /\ pc[e] = "commit"

\* A message whose dequeue is being or was committed has been written.
WrittenFirst ==
  StreamCanFail \/
    /\ \A e \in Exporters : ~bad[e]
    /\ \A e \in Exporters :
         pc[e] = "commit" /\ held[e] \in Msgs \ Blank => lines[held[e]] > 0
    /\ NoLoss

\* The export buffer never shrinks below the size the first tpexport is told.
RoomKept ==
  /\ \A e \in Exporters :
       pc[e] \in {"begin", "dequeue", "export", "write", "commit", "timeout"} =>
         room[e] >= BufferSize
  /\ WriteInBounds

\* Only between a write and its commit is the count ahead of what left the queue.
Counted ==
  \A e \in Exporters :
    LET total == counter[e] + count[e] IN
    /\ pc[e] = "run" => counter[e] = taken[e]
    /\ pc[e] \in {"begin", "dequeue", "export", "write", "timeout", "return"} =>
         total = taken[e]
    /\ pc[e] = "commit" =>
         total = IF held[e] \in Msgs \ Blank THEN taken[e] + 1 ELSE taken[e]
    /\ pc[e] \in {"rescue", "threw"} \/ (pc[e] = "down" /\ status[e] = "failure") =>
         total \in {taken[e], taken[e] + 1}
    /\ pc[e] = "down" /\ status[e] \in {"none", "success"} => counter[e] = taken[e]
    /\ pc[e] # "down" => status[e] = "none"

IInv ==
  /\ TypeOK /\ WellPlaced /\ LocksExclusive /\ Accounted /\ WrittenFirst
  /\ RoomKept /\ Counted
=============================================================================
