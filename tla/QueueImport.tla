----------------------------- MODULE QueueImport ----------------------------
(***************************************************************************)
(* qimport: a process that loads the lines of some files into one /Q       *)
(* queue, through operator>>(std::istream&, queue_stream&).                *)
(*                                                                         *)
(* A line is a position <<file, line>>: what is in it does not matter,     *)
(* except whether tpimport accepts it.  Every line is enqueued in a        *)
(* transaction of its own.  The queue space and the transaction manager    *)
(* are Tuxedo's, modelled from the answers the code handles.               *)
(***************************************************************************)
EXTENDS Naturals, TuxedoErrors

CONSTANTS
  NumFiles,     \* files on the command line
  FileLines,    \* number of lines of each file
  Malformed,    \* lines tpimport rejects
  MaxFaults     \* bound: failures of Tuxedo or of the process in a behaviour

ASSUME FilesAssumption == NumFiles \in Nat /\ FileLines \in [1..NumFiles -> Nat]

Positions ==
  UNION {{<<f, l>> : l \in 1..FileLines[f]} : f \in 1..NumFiles}

ASSUME MalformedAssumption == Malformed \subseteq Positions
ASSUME FaultsAssumption == MaxFaults \in Nat

VARIABLES
  copies,     \* how often each line is on the queue
  faults,     \* failures so far
  pc,         \* where the process is in main(), run() and operator>>
  file,       \* index of the file being loaded (optind)
  line,       \* lines of that file getline has returned
  truncated,  \* history: reading that file failed before its end
  status,     \* exit status of the process so far
  count,      \* queue_stream::_count
  inTran,     \* the process is in transaction mode
  pending,    \* the current line is enqueued in that transaction
  message,    \* the CARRAY buffer is allocated
  exc         \* exception on its way, "none" if there is none

vars == <<copies, faults, pc, file, line, truncated, status, count, inTran,
          pending, message, exc>>

Locations == {"open", "run", "getline", "import", "begin", "enqueue", "commit",
              "abort", "outer", "return", "threw", "exit"}

FlagsOK ==
  /\ truncated \in BOOLEAN /\ message \in BOOLEAN
  /\ inTran \in BOOLEAN /\ pending \in BOOLEAN

TypeOK ==
  /\ FlagsOK
  /\ copies \in [Positions -> Nat]
  /\ faults \in 0..MaxFaults
  /\ pc \in Locations
  /\ file \in 0..NumFiles
  /\ line \in Nat
  /\ status \in {"success", "failure", "killed"}
  /\ count \in Nat
  /\ exc \in TuxedoExceptions \cup {None}

Init ==
  /\ copies = [p \in Positions |-> 0]
  /\ faults = 0
  /\ pc = "open"
  /\ file = 0 /\ line = 0
  /\ truncated = FALSE
  /\ status = "failure"
  /\ count = 0
  /\ inTran = FALSE /\ pending = FALSE /\ message = FALSE
  /\ exc = None

-----------------------------------------------------------------------------
(* Helpers *)

Goto(l) == pc' = l

\* something in the environment fails; a behaviour has at most MaxFaults of these
Fault == faults < MaxFaults /\ faults' = faults + 1
NoFault == UNCHANGED faults

Throw(class) == exc' = class

EndTran == inTran' = FALSE /\ pending' = FALSE

\* the enqueue of the current line is made permanent
StorePending ==
  copies' = IF pending THEN [copies EXCEPT ![<<file, line>>] = @ + 1] ELSE copies

\* operator>>: who catches what begin, enqueue or commit throws
RetryLine(class) == "begin"             \* mutant: the line is tried again
CatchDiagnostics(class) ==              \* mutant: tuxedo errors are not caught here
  IF class \in DiagnosticExceptions THEN "abort" ELSE "outer"
Handler(class) == IF class \in TuxedoExceptions THEN "abort" ELSE "threw"

\* operator>>: qs._count = 0
KeepCount == UNCHANGED count            \* mutant: the reset is missing
ResetCount == count' = 0

\* operator>>: qs.free(message), on both ways out
FreeMessage == message' = FALSE

\* operator>>: where an exception tpimport caused goes
SkipLine == "getline"                   \* mutant: a rejected line is skipped
SameLine == "import"                    \* mutant: a rejected line is tried again
OnMalformed == "outer"

-----------------------------------------------------------------------------
(* main() and run() *)

\* the next file is opened, or cannot be: then the status stays what it was
OpenFile ==
  /\ pc = "open" /\ file < NumFiles
  /\ file' = file + 1
  /\ line' = 0 /\ truncated' = FALSE
  /\ \/ Goto("run") /\ NoFault
     \/ UNCHANGED pc /\ Fault
  /\ UNCHANGED <<copies, status, count, inTran, pending, message, exc>>

Exit ==
  /\ pc = "open" /\ file = NumFiles
  /\ Goto("exit")
  /\ UNCHANGED <<copies, faults, file, line, truncated, status, count, inTran,
                 pending, message, exc>>

Succeed ==
  /\ pc = "return"
  /\ Goto("open")
  /\ status' = "success"
  /\ FreeMessage
  /\ UNCHANGED <<copies, faults, file, line, truncated, count, inTran, pending, exc>>

Fail ==
  /\ pc = "threw"
  /\ Goto("open")
  /\ status' = "failure"
  /\ Throw(None)
  /\ UNCHANGED <<copies, faults, file, line, truncated, count, inTran, pending,
                 message>>

\* the process dies; the transaction manager rolls its transaction back
Crash ==
  /\ pc # "exit"
  /\ Fault
  /\ Goto("exit")
  /\ EndTran
  /\ status' = "killed"
  /\ message' = FALSE
  /\ Throw(None)
  /\ UNCHANGED <<copies, file, line, truncated, count>>

-----------------------------------------------------------------------------
(* operator>> *)

Enter ==
  /\ pc = "run"
  /\ ResetCount
  /\ \/ message' = TRUE /\ Goto("getline") /\ NoFault /\ UNCHANGED exc
     \/ Fault /\ Throw("tuxedo_exception") /\ Goto("outer") /\ UNCHANGED message
  /\ UNCHANGED <<copies, file, line, truncated, status, inTran, pending>>

\* a stream that fails ends the loop just as the end of the file does
GetLine ==
  /\ pc = "getline"
  /\ \/ /\ line < FileLines[file]
        /\ line' = line + 1
        /\ Goto("import")
        /\ NoFault /\ UNCHANGED truncated
     \/ /\ line = FileLines[file]
        /\ Goto("return")
        /\ NoFault /\ UNCHANGED <<line, truncated>>
     \/ /\ Fault
        /\ truncated' = TRUE
        /\ Goto("return")
        /\ UNCHANGED line
  /\ UNCHANGED <<copies, file, status, count, inTran, pending, message, exc>>

Import ==
  /\ pc = "import"
  /\ \/ /\ <<file, line>> \notin Malformed
        /\ Goto("begin")
        /\ NoFault /\ UNCHANGED exc
     \/ /\ IF <<file, line>> \in Malformed THEN NoFault ELSE Fault
        /\ Throw("tuxedo_exception")
        /\ Goto(OnMalformed)
  /\ UNCHANGED <<copies, file, line, truncated, status, count, inTran, pending,
                 message>>

\* tpbegin fails, for one, in a process that already is in transaction mode
Begin ==
  /\ pc = "begin"
  /\ \/ ~inTran /\ inTran' = TRUE /\ Goto("enqueue") /\ NoFault /\ UNCHANGED exc
     \/ /\ IF inTran THEN NoFault ELSE Fault
        /\ Throw("tuxedo_exception")
        /\ Goto(Handler("tuxedo_exception"))
        /\ UNCHANGED inTran
  /\ UNCHANGED <<copies, file, line, truncated, status, count, pending, message>>

Enqueue ==
  /\ pc = "enqueue"
  /\ \/ pending' = TRUE /\ Goto("commit") /\ NoFault /\ UNCHANGED exc
     \/ /\ Fault
        /\ \E class \in QueueExceptions : Throw(class) /\ Goto(Handler(class))
        /\ UNCHANGED pending
  /\ UNCHANGED <<copies, file, line, truncated, status, count, inTran, message>>

\* mutant of Commit: an error of tpcommit is not noticed
CommitUnchecked ==
  /\ pc = "commit"
  /\ EndTran
  /\ count' = count + 1
  /\ Goto("getline")
  /\ (StorePending /\ NoFault) \/ (UNCHANGED copies /\ Fault)
  /\ UNCHANGED <<file, line, truncated, status, message, exc>>

\* tpcommit ends the transaction whatever it answers; a failed one was rolled
\* back, or its outcome is unknown and it may have been applied
Commit ==
  /\ pc = "commit"
  /\ EndTran
  /\ \/ /\ StorePending
        /\ count' = count + 1
        /\ Goto("getline")
        /\ NoFault /\ UNCHANGED exc
     \/ /\ Fault
        /\ StorePending \/ UNCHANGED copies
        /\ Throw("tuxedo_exception")
        /\ Goto(Handler("tuxedo_exception"))
        /\ UNCHANGED count
  /\ UNCHANGED <<file, line, truncated, status, message>>

\* the inner handlers: abort and rethrow.  Without a transaction to abort
\* tpabort answers TPEPROTO, and that is the exception that goes on.
Abort ==
  /\ pc = "abort"
  /\ EndTran
  /\ Goto("outer")
  /\ \/ inTran /\ NoFault /\ UNCHANGED exc
     \/ /\ IF inTran THEN Fault ELSE NoFault
        /\ Throw("tuxedo_exception")
  /\ UNCHANGED <<copies, file, line, truncated, status, count, message>>

\* the outer handler: free and rethrow
Outer ==
  /\ pc = "outer"
  /\ FreeMessage
  /\ Goto("threw")
  /\ UNCHANGED <<copies, faults, file, line, truncated, status, count, inTran,
                 pending, exc>>

-----------------------------------------------------------------------------
Step ==
  \/ OpenFile \/ Exit \/ Succeed \/ Fail
  \/ Enter \/ GetLine \/ Import \/ Begin \/ Enqueue \/ Commit \/ Abort \/ Outer

Next == Step \/ Crash

Spec == Init /\ [][Next]_vars

\* the process is scheduled
FairSpec == Spec /\ WF_vars(Step)

-----------------------------------------------------------------------------
(* Properties *)

\* No line is enqueued twice, whatever is retried or fails.
AtMostOnce == \A p \in Positions : copies[p] <= 1

\* What is on the queue of a file is its beginning: a line is never stored without
\* the lines before it (operator>> gives up at the first line that fails).
Prefix ==
  \A f \in 1..NumFiles : \A l \in 1..FileLines[f] :
    copies[<<f, l>>] > 0 => \A k \in 1..l : copies[<<f, k>>] > 0

\* qs.count() tells where to resume: the first count lines are stored, the lines
\* from count + 2 on are not, and on a normal return neither is line count + 1.
CountTellsPrefix ==
  pc \in {"return", "threw"} =>
    \A l \in 1..FileLines[file] :
      /\ l <= count => copies[<<file, l>>] = 1
      /\ l > count + 1 => copies[<<file, l>>] = 0
      /\ pc = "return" /\ l > count => copies[<<file, l>>] = 0

\* operator>> returns normally only after every line of a readable file is stored.
ReturnMeansLoaded ==
  pc = "return" /\ ~truncated =>
    \A l \in 1..FileLines[file] : copies[<<file, l>>] = 1

\* operator>> is left with its transaction finished and its buffer freed, so that
\* the next file of the same process starts clean.
LeftClean ==
  /\ pc \in {"open", "run", "getline", "import", "begin", "return", "threw"} =>
       ~inTran /\ ~pending
  /\ pc \in {"open", "run", "threw"} => ~message

\* Why this is so.  Where the process is says what its transaction holds, ...
WellPlaced ==
  /\ LeftClean
  /\ pc \in {"exit", "outer"} => ~inTran /\ ~pending
  /\ pc \in {"enqueue", "commit"} => inTran
  /\ pc = "enqueue" => ~pending
  /\ pc = "commit" => pending

\* ... how far it is in the file and how much of it was counted, ...
Progress ==
  /\ pc \notin {"open", "exit"} => file \in 1..NumFiles
  /\ file \in 1..NumFiles => line <= FileLines[file]
  /\ pc = "run" => line = 0
  /\ pc = "getline" => count = line
  /\ pc \in {"import", "begin", "enqueue", "commit"} => line = count + 1
  /\ pc = "return" => count = line /\ (truncated \/ line = FileLines[file])
  /\ pc \in {"abort", "outer", "threw"} => line \in {count, count + 1}

\* ... and so which of its lines are stored.
Stored ==
  /\ \A f \in 1..NumFiles : \A l \in 1..FileLines[f] :
       f > file => copies[<<f, l>>] = 0
  /\ pc \notin {"open", "exit"} =>
       \A l \in 1..FileLines[file] :
         /\ pc # "run" /\ l <= count => copies[<<file, l>>] = 1
         /\ l > line => copies[<<file, l>>] = 0
         /\ pc \in {"import", "begin", "enqueue", "commit"} /\ l = line =>
              copies[<<file, l>>] = 0

IInv == TypeOK /\ WellPlaced /\ Progress /\ Stored /\ AtMostOnce /\ Prefix

\* The process implements the loading of files: it takes them in order, stores the
\* lines of one from the first on, each once, and after an exception or the end of the
\* input, until the next file, none.
Load == INSTANCE QueueLoad
          WITH state <- IF pc \in {"run", "getline", "import", "begin", "enqueue", "commit"}
                          THEN "loading" ELSE "idle"
LoadSpec == Load!Spec

\* how far operator>> and the loop around it are with the line at hand
Stage == [l \in Locations |->
  CASE l = "run" -> 1     [] l = "import" -> 2            [] l = "begin" -> 3
    [] l = "enqueue" -> 4 [] l = "commit" -> 5            [] l = "getline" -> 6
    [] l \in {"return", "abort"} -> 7 [] l = "outer" -> 8 [] l = "threw" -> 9
    [] l = "open" -> 10   [] l = "exit" -> 11]

\* The process never goes back: every step, failures and handlers included, takes it to
\* a later file, a later line of its file or a later stage of its line.  With finitely
\* many of each no loop of main or of operator>> can go round for ever.
Advance ==
  \/ file' > file
  \/ file' = file /\ line' > line
  \/ file' = file /\ line' = line /\ Stage[pc'] > Stage[pc]
Forward == [][Advance]_vars

\* qimport ends.
Terminates == <>(pc = "exit")
=============================================================================
