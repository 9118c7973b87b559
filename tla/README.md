# Verification of cpp-atmi

cpp-atmi (ATMI++) is a C++ wrapper around the ATMI interface of Oracle Tuxedo, with a few command line programs built
on it. This directory holds TLA+ models of the code under `src/`, TLC configurations that check them, and proofs
that the TLA+ proof system checks.

## 1. The system

| Part | Code | State it keeps | Operations |
|---|---|---|---|
| tuxedo | `src/tuxedo.cpp` | `_context`, flags, last error | `begin`, `commit`, `abort`, `switch_context`, `allocate`, `extend`, `free`; `handle_tperrno` turns an error number into an exception class |
| abstract_client | `src/abstract_client.cpp` | a joined context | constructor (`tpinit`), destructor (`tpterm`), factories of `transaction` and `queue` objects that share its context |
| transaction | `src/transaction.cpp` | `_call_descriptor` | `call` with retries, `acall`, `reply`, `cancel` |
| queue | `src/queue.cpp` | `_qctl`, one control block for all calls | `enqueue`, `dequeue`, `enqueueReply`, `dequeueReply`; setters for waiting, reply queue, persistence, correlation |
| queue_stream | `src/queue_stream.cpp` | `_count`, `_buffer_size` | `operator<<` (queue to stream), `operator>>` (stream to queue) |
| qexport, qimport | `utls/*.bcl` | exit status, `running`, counter | loops over the operators, signal handling |
| buffer, fields | `src/buffer.cpp`, `src/field.cpp`, `include/atmi/*field.hpp` | an FML32 buffer and its extent; a value and an occurrence; a carray field also memory of its own | add, set, get, remove, extend |
| tmreboot | `utls/tmreboot.bcl` | a counter | finds servers through the MIB, stops and starts them |
| event, ulog, call_info, decode, qwriter, PROXY | small wrappers and programs | | |

They interact by plain calls. Everything else runs outside the program: Tuxedo (queue space, transaction manager,
services), other processes on the same queue, signals. So the hard behaviour is:

* **failure between two steps**: any Tuxedo call may fail, `tpcommit` with an outcome nobody knows, and the code goes
  on from an exception handler; a process may die anywhere;
* **several actors**: exporters on one queue, producers, services that answer late, threads that share a context;
* **state that outlives its meaning**: a call descriptor, a current context, the buffer a service answered into, the
  control block a dequeue wrote into, memory that held a longer value;
* **ends**: a loop that must stop on a signal, a retry that must not repeat a success, a count that must be exact.

What makes the parts correct: export loses no message and duplicates one only if something failed; import stores every
line at most once and a prefix of the file; both leave no transaction open; a call reports what its last attempt was
told; a reply belongs to the call that was meant and goes to the queue its request names; calls, transactions and
`tpterm` stay in their context; a field keeps the value and the occurrence it was given; servers the tool stopped run
again.

## 2. Modules

| Module | Models | State and actions against the code |
|---|---|---|
| `TuxedoErrors` | `handle_tperrno` (tuxedo.hpp), `handle_diagnostics` (queue.hpp), exceptions.hpp | which exception class is thrown, and which handler catches it |
| `QueueHandoff` | abstract | a set of queued and delivered messages; a message leaves the queue only after delivery, and may be delivered again before that |
| `QueueExport` | qexport and `operator<<`; implements `QueueHandoff` | one program counter per process; one action per Tuxedo call of the loop, per handler and per step of `run()`; the environment's actions are `Produce`, `Start`, `Interrupt` (SIGINT), `Crash`, `StreamFails` |
| `QueueLoad` | abstract | files are taken once and in order, the lines of the one at hand stored one by one from the first, none after the file was given up |
| `QueueImport` | qimport and `operator>>`; implements `QueueLoad` | one program counter through the files and lines, one action per Tuxedo call and per handler, `Crash` |
| `ServiceCall` | `transaction::call` | the attempts of one call against a server with a queue of its own, which serves requests the caller gave up |
| `AsyncCall` | `acall`, `reply`, `cancel` | each object's `_call_descriptor` against Tuxedo's table of open calls |
| `FmlBuffer` | `buffer`, fields | Tuxedo's typed buffers with size and values, each object's `_buffer`, `_allocated`, `_extent`, each field's `_field_occurence`; one action per method, `add` split by whether it extends, and the ways an answer comes back into a buffer |
| `ServerReboot` | tmreboot | the pages of the MIB's answer, the loop over their entries, stop and start of one server; the environment is `Operator`, `CarriedOutLate` and refusals and exceptions of any request |
| `AtmiContext` | `abstract_client`, `switch_context`, `begin`/`commit`/`abort` | each thread's current context, each client's `_context` and object; `switch_context` and the call after it are two actions, so that another thread may come in between |
| `QueueControl` | `queue` with its control block | each object's `_qctl` and `_queue`, the messages in the queues with the control data they carry; one action per setter and per enqueue or dequeue of a client or a server, `Abort` of the transaction in which a server holds a request |
| `CarrayField` | `Tfield<char *>` | `_value`, `_buffer_size`, `_length` of each object, the occurrences in a buffer; one action per method, `get` split by the branch it takes; `Answer` is a service that changes the occurrences |
| `...Proofs` | | proofs about all of them, `ServiceCall` and `AsyncCall` together in `TransactionProofs` (which is why the specification of `AsyncCall` is `ACSpec`, with `ACInit`, `ACNext` and `ACTypeOK`) |
| `MC...` | | the values of the constants for TLC |

Operators marked "mutant" stand beside the definition they vary. No specification uses them: each is a plausible slip
(a dropped guard, a missing reset) with which the property named in PROJECT.json is violated, so that every property
is known to depend on the code it is about.

## 3. Runs

| Run | Instance | Shows |
|---|---|---|
| `export_two` | 2 exporters, a large and a rejected message, 2 failures | `NoLoss`, `DuplicatesCostAFailure`, and that the exporters implement `QueueHandoff` |
| `export_supervised` | 1 exporter launched again, a small, a large and a blank message (produced again and again), 2 failures, a stream that may fail, fairness | the transaction is closed however `operator<<` ends; the write stays within the buffer; the count is exact; every message reaches a working stream; SIGINT ends the process once the queue calms down |
| `export_bad_stream` | 1 exporter, the stream fails | *violated*: `operator<<` commits messages that a bad stream swallowed |
| `import` | 3 files, a rejected line, 4 failures | lines are stored at most once; the process implements `QueueLoad`, so that what is stored is the beginning of each file; the count, no transaction left open, no step goes back (`Forward`), it ends |
| `transaction` | a call with up to 2 retries, codes 0 and 7; or 2 objects, 2 descriptors, 3 asynchronous calls | the service is not asked again after a success; the result is that of the last attempt; only an answer of a failed service, in the caller's one buffer, changes what a retry sends; the call ends; a reply or cancel ends the call it was meant for; the last call stays in reach |
| `call_attempts` | up to 2 retries | *violated*: a call is attempted once more than its argument says |
| `context` | 2 threads, 2 clients (one shared, one thread with both), 1 failing `tpgetctxt` | calls and `tpterm` go to their own context, destructors are quiet, what does not switch stays with its client in a thread that entered a context for it last |
| `buffer` | 2 buffer objects, 2 typed buffers, 2 fields of one id, a short and a long value | every typed buffer is freed, and once, until one of the operations that hand ownership out unchecked leaves it without an owner or with two; the occurrence a field remembers is right; one `extend` is enough for a value that the default extent has room for |
| `queue` | 2 clients, 1 server, 2 reply queues, 3 messages, 2 calls of setters | a reply goes to the queue its request names, a client's reply queue stays the one it set, flags stay as asked |
| `queue_corrid` | same | *violated*: after `set_new_corrid` a client dequeues messages of any correlation id |
| `carray` | 2 fields, values of 0, 1 and 2 bytes, 2 occurrences, a `new char[]` that may throw | a field stays within its memory and knows its size, unless its `new char[]` threw; it holds what it was given last, and gives its memory back |
| `reboot` | 3 servers and the BBL, pages of 2, 2 failures, 1 act of an operator | a server left down is paid for by a failure, none is missed, the count is exact when nothing fails and never too small, no step of the tool goes back without a failure or a refused GETNEXT (`Forward`), it ends if GETNEXT is not refused for ever |

**Bounds.** Two exporters are enough for every interference: they meet only at the lock of one message. The messages
are one per path through `operator<<`: blank (committed unseen), small (first `tpexport` fits), large (buffer
reallocated), huge (rejected), spread over the two export runs. A failure budget of 1 to 4 (timeouts of a dequeue and
refusals of GETNEXT that harm nothing cost none) lets one fail in a handler of another; the proofs are for every
budget. One rejected line and three files cover a file before, at and after the failing one. Two retries give a first,
a middle and a last attempt. Two descriptors for three calls force one to be used again, and make `acall` meet
`TPELIMIT`. In `FmlBuffer` a new buffer holds one short value, a long one needs an extension and the largest buffer
(`MaxSize`) holds a short and a long one or three short ones; sharing and moving need no more than two objects. An
uninitialised `_extent` is -1 in the run, which makes `extend` shrink the buffer; that it throws can happen anyway. The
constraint `FewAtOnce` keeps to two objects and live typed buffers together, to three if no buffer holds more than two
values (one if its ownership is disturbed) and one object at a time has an extent it grew to, and lets two objects with
a buffer each in as long as no field is written, no buffer grows and no extent is changed: enough for an owner and a
wrapper or copy on one buffer that moves, and for every way to give ownership away. In `QueueControl` two clients on
two reply queues and one server are the fewest for whom a wrong queue is possible; three messages let two requests wait
while a reply is read, and two setter calls come before, between and after. The three values of `CarrayField` are
shorter than, as long as and longer than the memory another one left, share no bytes and include the empty one; two
objects suffice for copying, two occurrences for one before another; what a junk length made longer is not made longer
again (`Short`). Two pages with one left over, a refused page and a protected server on either side cover the loops of
tmreboot; memory that nobody points to is handed out again, so that runs may be arbitrarily long. A synchronous call
and the asynchronous ones share nothing but Tuxedo, so `MCTransaction` checks them in one run, each behaviour being of
one kind. Unbounded counters (`counter`, `count`, `lines`) are bounded by the messages and failures.

**Fairness.** `QueueExport!FairSpec` assumes that a running process takes its next step: no step of the program waits
for another actor, as `tpdequeue` and `tpcommit` end with a timeout at the latest. `SupervisedSpec` adds that somebody
launches qexport again when it is not running: the code does not do that, so it is an assumption on the installation
and `EventuallyExported` is only claimed under it. It assumes as well, by strong fairness, that the queue does not pass
over one message with data for ever while it hands out others, as blank messages come without end in the run and a
dequeue may time out any number of times. `InterruptStops` owes nothing to either, but it needs that the queue calms
down (`CalmsDown`): `operator<<` looks for the next message until QMENOMSG, and the signal handler's flag is read only
between two operators (queue_stream.cpp:64, qexport.bcl:56), so that a producer that keeps up with qexport, or dequeues
that always time out, keep it going after SIGINT. Without the assumption TLC finds that loop. `ServiceCall!FairSpec`
rests on the blocking timeout of `tpcall`, `QueueImport!FairSpec` on a scheduled process, `ServerReboot!FairSpec` on
that and on `.TMIB` answering or timing out. `Ends` needs besides that GETNEXT is not refused for ever: a refused one
leaves the last page and its TA_MORE in the buffer, and the loop of tmreboot.bcl:97-135 goes over it again. The run has
that loop, without a bound where the page holds only servers that are left alone; without the assumption TLC finds it.
Failures, signals and producers are never fair.

**Deadlock** is checked for `QueueExport` and `QueueControl`. `QueueImport`, `ServerReboot`, `MCTransaction` and
`AtmiContext` end (the processes exit, the call returns, the clients are gone), in `CarrayField` a null pointer may
kill the process and in `FmlBuffer` a program may lose all the memory there is, so their configurations turn the check
off.

**Where code and documentation differ.** The three violation runs are the findings of PROJECT.json: messages swallowed
by a bad stream, correlation ids that are never used, and `call` with `retries = n`, which makes n + 1 attempts where
transaction.hpp:58 says "attempted at most retries times". Met as well, without a run of its own; where a property
leaves such a case out, it is named:


* The outer handler of `operator<<` and `operator>>` calls `abort` also when `begin` or `commit` failed and no
  transaction is open: it throws out of the handler, and the frees after it are skipped.
* qimport reports the status of its last file only, a file that cannot be opened leaves it alone, and `operator>>` takes
  a failed read for the end of the file (qimport.bcl:73, queue_stream.cpp:132): success may hide missing lines.
* `reply(&cd)` sets `_call_descriptor` to 0 also when it timed out and the call is still open (transaction.cpp:150):
  after that "0 ... last acall descriptor is used" (transaction.hpp:163) no longer holds. `LastCallReachable` leaves
  that case out.
* `set_buffer`: "Previous buffer is deallocated before assign the passed value" (buffer.hpp:229). It is not, and an
  object that owned its memory goes on to free what it was given. `set_handling_memory` (buffer.cpp:199) and the
  implicit copy constructor, which copies `_buffer` and `_allocated`, likewise look at one object only: two owners free
  a buffer twice, none never. `FreedOnce` names all three, and the moves that an owner does not learn of.
* `buffer(FBFR32*)` leaves `_extent` uninitialised; `set_extent` is "number of bytes to allocate when no space is left in
  buffer" (buffer.hpp:130), but `pack`, `resize` and each `extend` overwrite it with the size: after `pack` an add may
  find no space, and every extension doubles. `resize` sets the size, it does not extend it "with the given bytes".
* A failing `get(f, occ)` has already changed the occurrence that the next `set` uses, and `set` beyond the last
  occurrence makes new ones.
* tmreboot counts a server whose restart was refused; "@return number servers successfully restarted"
  (tmreboot.bcl:55). `ReportHonest` is exact only while nothing failed; with failures it says that no restart that
  worked is missing from the number.
* `reply()` and `cancel()` keep the descriptor of a finished call: asking twice may end another object's call.
* A retry of `call` sends the failed service's answer when `idata` and `odata` are one buffer, as in `call(buffer&)`
  (transaction.cpp:65): the request is gone. `SpoiltOnlyByAnswer` says that this is the only way to lose it: the
  service has answered TPESVCFAIL, into the caller's one buffer.
* `begin`, `commit`, `abort`, `reply` and `cancel` do not call `switch_context` (tuxedo.cpp:69): in a thread whose last
  call was one of another client they act in that client's context, though "When set, ATMI++ switches to this context
  before executing a tuxedo call." (tuxedo.hpp:153). `FollowOwnSwitch` is about threads that entered a context for this
  client last.
* `set_flags`, `reset_flags` and `unset_flags` drop the value `set` and `unset` return, like `set_new_corrid` and
  `unset_corrid`, so no flag changes; the TPNOTRAN that the constructor of `event` asks for is lost that way.
* `_qctl.replyqueue == NULL` (queue.cpp:111, 129) compares an array and is never true. The Dequeuer of queue_test sets
  no reply queue, so that its `enqueueReply` depends on what the request wrote into the block; a request
  without a reply queue turns TPQREPLYQ off, and the next reply goes to the name of an earlier one.
* `dequeue` returns QMENOMSG, not -1, for an empty queue (queue.cpp:157); queue_test.bcl:76 takes anything but -1 for
  "it's ok we have a message". `diagno()` keeps the diagnostic of an earlier failure after a success.
* The correlation id ends in the time in seconds (queue.cpp:238), "milliseconds" in queue.hpp:226: two objects of one
  thread may get the same id.
* `dequeueReply(buffer&)` (queue.cpp:102-105) passes the address of the fielded buffer as the address of a pointer, and
  a null length, and never sets the buffer: it cannot have worked, and only the overload for `char**` is modelled.
* `set_char_array` sets `_buffer_size` before `new char[]` (carray_field.hpp:92): if that throws, the object has a size
  and no memory, and the next shorter value is copied to a null pointer. `WithinMemory` confines the damage to that
  object.
* `get_char_array` changes the length of the field it reads and shows bytes beyond its value (carray_field.hpp:103-115);
  its `operator[]` never throws; memory of `new[]` and of Fgetalloc32 is given to `delete`; the branch for
  `_length > _buffer_size` is dead; the implicit copy constructor shares the memory; the block of a value of no bytes
  is never deleted; an absent occurrence is reported by -1 if the object has memory and by an exception if not.
* qwriter does not stop at the end of its input and ignores that options were wrong.
* `cancel` passes a message with `%s` and no argument (transaction.cpp:177).

## 4. Proofs

All theorems are for every value of the constants: any number of exporters, messages, sizes, files, lines, failures.

`QueueExportProofs`: `NoLoss` alone is not inductive: it says nothing of a message that is about to be removed. The
invariant `IInv` adds where a process must be to hold a message and a transaction (`WellPlaced`), that two transactions
never hold the same stored message (`LocksExclusive`), that a message in the commit step has been written
(`WrittenFirst`), that a stored message has one line more than there were failures only while a commit is pending
(`Accounted`), that the export buffer is never smaller than what `tpexport` is told (`RoomKept`), and how far the count
may be ahead of what was removed, for each place in the code (`Counted`). It is shown to hold initially and to be kept
by each action; type correctness, `NoLoss` (if the stream does not fail), `DuplicatesCostAFailure`, `CountExact`,
`TranClosed` and `WriteInBounds` follow. With it every step of the program is a step of `QueueHandoff` or leaves its
variables alone, which proves the refinement.

`QueueImportProofs`: the invariant ties, for each place in `operator>>`, the lines that are stored and the one that is
pending in the transaction to the position in the file and to `_count`. At most once, prefix, the meaning of
the count, of a normal return, and the clean exit follow. With it a commit, reported as successful or not, is the
`Store` of `QueueLoad` or leaves its variables alone, which proves the refinement: after a commit that failed but was
applied the abstract loader stores the line and gives the file up in one step. `Forward` is what can be proved of
termination: the pair of file and line, and the stage of the line, grow lexicographically with every step.

`TransactionProofs`: for `call`, the bound on executions depends on requests the server may still carry out, so the
invariant says which attempts it can know of (`Known`), that the loop runs only while an attempt is left (`LoopRuns`)
and that all attempts but the last failed (`FailedSoFar`). It also says what the request is: the caller's, unless an
answer landed on it. For `acall`, `reply` and `cancel` the properties need that a descriptor names one open call
(`TypeOK`), that an object's last call is its own (`OwnLast`) and that after a `reply(&cd)` that timed out the object
names no call, not even a newer one that got the same descriptor (`CutForgot`).

`AtmiContextProofs`: between `switch_context` and the call it is made for any other thread may end the context. Then
the thread is in an invalid context, not in another client's (`Ready`); one thread destroys a client and finds its
context unless Tuxedo refused to tell it (`Closing`, `HasContext`); a thread that entered a context for a client last
is still there, or in an invalid one (`Faithful`).

`ServerRebootProofs`: what is down or will be once late requests are carried out (`Gone`) grows only by requests that
fail (`Paid`), which covers requests that outlive the tool. Without failures the entries that were seen, and no others,
were counted (`Dry`) or brought up again (`Wet`), for any page size. For `Forward` it is enough to know besides that a
page is asked for only before the first or while entries are left (`LeftToRead`): a page then takes something away,
unless GETNEXT is refused.

`QueueControlProofs`: two arguments meet. One block agrees with what was asked of its object (`Agrees`), shown for each
setter and dequeue as a lemma on blocks; and every queue holds only messages that belong there (`Belonging`): a reply
names the queue it lies in, so that dequeuing it writes back the name that was there.

`CarrayFieldProofs`: every method is a function of an object's members, so the lemmas are about one object: `Sound`
(lengths and blocks agree with the memory), `Backed` (so does the size; every function keeps this but a
`set_char_array` whose `new` throws) and what it holds after each function, from the library's theorems on sequences.

`FmlBufferProofs`: the ownership of typed buffers, the occurrences of fields and the room in a buffer depend on each
other only through what a method does to the objects that share a typed buffer. So the invariant has one part for each:
the values of a live typed buffer fit in its size (`HeapOK`); an object has one exactly while it is constructed
(`ObjectsOK`); a live one has an owner unless an operation took it away (`orphaned`), and an owner's is there and its
alone unless an operation gave it another owner or moved it away (`doubled`; together `Owned`); a field that is not
stale remembers an occurrence that is there and has its value (`Held`); the extent of an object is the default or more
unless wrapping, `pack`, `resize` or `set_extent` made it smaller (`ExtentKept`). Two lemmas carry it over most
methods: `MoveStep` for those that move or replace a typed buffer, `ValuesStep` for those that change the values. Each
method is then a lemma that says which of the two it is; those that only hand ownership out have proofs of their own.
The memory that values take is the cardinality of a set of units, because the prover cannot reason about sums made by a
fold; `OneExtendEnough` rests on the lemmas on that set: one value more takes as many units more as it needs.

The assumptions are those the modules name on their constants (`MessagesAssumption`, `SizesAssumption`, ...): sets
that are disjoint or finite, names that are no members of the others, sizes that are positive, values that fit in the
largest buffer.

Only model-checked: the liveness properties (`EventuallyExported`, `InterruptStops`, `CallEndsOnceMade`, `Terminates`,
`Ends`), which the prover cannot treat. Of `Terminates` and `Ends` the safety half is proved, as `Forward`: what is
left to TLC is that a process which can take a step does.

## 5. What is left out

Message texts, logging, catalogues, command lines, passwords, the wording of exported lines, base64; `sleep(delay)` in
`call`; that `delete` is used for arrays; Tuxedo itself, which appears as the answers the code handles. In
`AtmiContext` the single-context mode (nothing to switch) and a failing `tpinit` (nothing changed) are left out, and
objects made without a factory, which like `Unset` never switch. In `AsyncCall` calls are outside a transaction, where
a timeout leaves the call open. In `FmlBuffer` the program does not touch a buffer whose memory is gone (that is
undefined), gives a field its value before it adds or sets it, and names and type checks of fields, printing and
checksums are left out; freeing a buffer a second time, which is undefined, only makes the object go away. In
`QueueExport` liveness is checked for one exporter only, and the buffers that leak when the abort in a handler throws
(`Rescue`) are not counted. In `CarrayField` an add or set for which the buffer has no room, which throws and changes
nothing, is left out, and so is the implicit copy constructor; when `new char[]` throws, the object's memory is already
freed, and what a get makes of the size that remains is `Junk` bytes, as Fgetalloc32 is told to allocate that many
more. In `QueueControl` `dequeueReply(buffer&)`, which cannot work, is left out, a server does not change its reply
queue while it holds a request, the queue space never fails (`QueueExport` and `QueueImport` are about that), and the
two flags for the quality of service, which the code only handles together, are one. The components without a module
are listed in PROJECT.json with the reason.

## 6. Plan

Done, in this order: `TuxedoErrors`, `QueueHandoff`, `QueueExport` and its proofs, `QueueImport` and its proofs,
`ServiceCall`, `AtmiContext`, `AsyncCall`, `ServerReboot`, `FmlBuffer`, `QueueControl`, `CarrayField`, the proofs about
all of them, `QueueLoad` and the proof that `QueueImport` implements it. Left, most important first:

1. An abstract queue manager for `QueueControl` and an abstract field for `CarrayField`, with the refinements proved.
2. `QueueMigration`: `QueueExport` and `QueueImport` composed through a file: a message is moved at least once, and
   exactly once without failures. Both refinements are there to build it on.
3. Servers of `QueueControl` in queue spaces that fail: a diagnostic after the block was overwritten.
