---------------------------- MODULE QueueControl ----------------------------
(***************************************************************************)
(* The control block (TPQCTL _qctl) of atmi::queue, in programs that       *)
(* exchange requests and replies through /Q (queue.cpp).                   *)
(*                                                                         *)
(* One block serves as the argument of every tpenqueue and as the argument *)
(* and result of every tpdequeue.  Clients enqueue requests and dequeue    *)
(* their replies; servers dequeue a request in a transaction and enqueue   *)
(* the reply to the queue the block names, as queue_test does.  A server   *)
(* does not change its reply queue or correlation id while it holds a      *)
(* request.  TPQDELIVERYQOS and TPQREPLYQOS, which this code only handles  *)
(* together, are the one flag "TPQQOS".                                    *)
(***************************************************************************)
EXTENDS Naturals, Sequences, SequencesExt, FiniteSets

CONSTANTS
  Clients, Servers,  \* objects of class queue
  RequestQueue, ReplyQueues,
  None,
  Undefined,         \* what the uninitialised _qctl.replyqueue names: no queue
  MaxMessages,       \* bound: messages that exist at a time
  MaxSets            \* bound: calls of setters

Supported == {"TPQQOSDEFAULTPERSIST", "TPQQOSPERSISTENT", "TPQQOSNONPERSISTENT"}

ASSUME NamesAssumption ==
  /\ Clients \cap Servers = {}
  /\ RequestQueue \notin ReplyQueues
  /\ Undefined \notin ReplyQueues \cup {RequestQueue}
  /\ None \notin Clients \cup Servers \cup ReplyQueues \cup {RequestQueue, Undefined}
  /\ None \notin Supported \cup {"any"}

Objects == Clients \cup Servers
Queues == ReplyQueues \cup {RequestQueue}
Qualities == Supported \cup {"unsupported"}
Flags == {"TPQWAIT", "TPQREPLYQ", "TPQQOS", "TPQCORRID", "TPQGETBYCORRID"}

VARIABLES
  qctl,      \* _qctl
  queue,     \* _queue
  stored,    \* the messages of every queue
  held,      \* the message an object dequeued last; a server's open request
  asked,     \* observer: what the program asked of the object
  sets       \* calls of setters

vars == <<qctl, queue, stored, held, asked, sets>>

Names(S) == S \cup {None}
Messages ==
  [reply : Names(ReplyQueues \cup {Undefined}), quality : Names(Supported),
   corrid : Names(Objects),
   home : Names(ReplyQueues)]  \* observer: of a reply, the queue its request named

TypeOK ==
  /\ qctl \in [Objects -> [flags : SUBSET Flags, replyqueue : ReplyQueues \cup {Undefined},
                           quality : Supported, corrid : Names(Objects)]]
  /\ queue \in [Objects -> Names({RequestQueue})]
  /\ stored \in [Queues -> Seq(Messages)]
  /\ held \in [Objects -> Names(Messages)]
  /\ asked \in [Objects -> [wait : BOOLEAN, quality : Names(Supported) \cup {"any"},
                            reply : Names(ReplyQueues), corrid : Names(Objects)]]
  /\ sets \in Nat

-----------------------------------------------------------------------------
(* Setters, as functions of the block *)

With(c, flags) == [c EXCEPT !.flags = @ \cup flags]
Without(c, flags) == [c EXCEPT !.flags = @ \ flags]

FlagOnly(c, r) ==                     \* mutant: an earlier name stays
  IF r = None THEN Without(c, {"TPQREPLYQ"})
  ELSE With([c EXCEPT !.replyqueue = IF @ = Undefined THEN r ELSE @], {"TPQREPLYQ"})
\* without a name the old one stays in the block
ReplyQueueSet(c, r) ==
  IF r = None THEN Without(c, {"TPQREPLYQ"})
  ELSE With([c EXCEPT !.replyqueue = r], {"TPQREPLYQ"})

ClearsAll(c, wait) ==                 \* mutant: the other flags go with it
  IF wait THEN With(c, {"TPQWAIT"}) ELSE [c EXCEPT !.flags = {}]
MessageWaitSet(c, wait) ==
  IF wait THEN With(c, {"TPQWAIT"}) ELSE Without(c, {"TPQWAIT"})

KeepsQuality(c, q) ==                 \* mutant: a rejected quality leaves the flags
  IF q \in Supported THEN With([c EXCEPT !.quality = q], {"TPQQOS"}) ELSE c
\* an unsupported quality throws after the flags were unset
QualitySet(c, q) ==
  IF q \in Supported THEN With([c EXCEPT !.quality = q], {"TPQQOS"})
  ELSE Without(c, {"TPQQOS"})

\* set() and unset() return the new flags, and both functions drop them
NewCorrid(c, o) == [c EXCEPT !.corrid = o]
CorridUnset(c) == [c EXCEPT !.corrid = None]

\* queue(qspace, queue, reply)
Constructed(r) ==
  LET fresh == [flags |-> {}, replyqueue |-> Undefined,
                quality |-> "TPQQOSDEFAULTPERSIST", corrid |-> None]
  IN ReplyQueueSet(QualitySet(MessageWaitSet(fresh, TRUE), "TPQQOSDEFAULTPERSIST"), r)

Init ==
  \E reply \in [Objects -> Names(ReplyQueues)] :
    /\ qctl = [o \in Objects |-> Constructed(reply[o])]
    /\ queue \in [Objects -> Names({RequestQueue})]
    /\ stored = [q \in Queues |-> <<>>]
    /\ held = [o \in Objects |-> None]
    /\ asked = [o \in Objects |-> [wait |-> TRUE, quality |-> "TPQQOSDEFAULTPERSIST",
                                   reply |-> reply[o], corrid |-> None]]
    /\ sets = 0

-----------------------------------------------------------------------------
Setter == sets < MaxSets /\ sets' = sets + 1 /\ UNCHANGED stored
BetweenMessages(o) ==
  /\ o \in Servers => held[o] = None
  /\ held' = [held EXCEPT ![o] = None]

SetReplyQueue(o, r) ==
  /\ Setter /\ BetweenMessages(o)
  /\ qctl' = [qctl EXCEPT ![o] = ReplyQueueSet(@, r)]
  /\ asked' = [asked EXCEPT ![o].reply = r]
  /\ UNCHANGED queue

SetMessageWait(o, wait) ==
  /\ Setter
  /\ qctl' = [qctl EXCEPT ![o] = MessageWaitSet(@, wait)]
  /\ asked' = [asked EXCEPT ![o].wait = wait]
  /\ UNCHANGED <<queue, held>>

SetQualityOfService(o, q) ==
  /\ Setter
  /\ qctl' = [qctl EXCEPT ![o] = QualitySet(@, q)]
  /\ asked' = [asked EXCEPT ![o].quality = IF q \in Supported THEN q ELSE None]
  /\ UNCHANGED <<queue, held>>

SetNewCorrid(o) ==
  /\ Setter /\ BetweenMessages(o)
  /\ qctl' = [qctl EXCEPT ![o] = NewCorrid(@, o)]
  /\ asked' = [asked EXCEPT ![o].corrid = o]
  /\ UNCHANGED queue

UnsetCorrid(o) ==
  /\ Setter /\ BetweenMessages(o)
  /\ qctl' = [qctl EXCEPT ![o] = CorridUnset(@)]
  /\ asked' = [asked EXCEPT ![o].corrid = None]
  /\ UNCHANGED queue

SetQueueName(o) ==
  /\ Setter
  /\ queue' = [queue EXCEPT ![o] = RequestQueue]
  /\ UNCHANGED <<qctl, held, asked>>

-----------------------------------------------------------------------------
(* Tuxedo *)

\* the message tpenqueue makes of the block
Message(c, home) ==
  [reply   |-> IF "TPQREPLYQ" \in c.flags THEN c.replyqueue ELSE None,
   quality |-> IF "TPQQOS" \in c.flags THEN c.quality ELSE None,
   corrid  |-> IF "TPQCORRID" \in c.flags THEN c.corrid ELSE None,
   home    |-> home]

\* tpdequeue fills in what the flags ask for, and turns off those for which the
\* message has nothing
FilledIn(c, m) ==
  LET has == (IF m.reply = None THEN {} ELSE {"TPQREPLYQ"})
               \cup (IF m.quality = None THEN {} ELSE {"TPQQOS"})
               \cup (IF m.corrid = None THEN {} ELSE {"TPQCORRID"})
      got == c.flags \cap has
  IN [flags      |-> got \cup (c.flags \cap {"TPQWAIT", "TPQGETBYCORRID"}),
      replyqueue |-> IF "TPQREPLYQ" \in got THEN m.reply ELSE c.replyqueue,
      quality    |-> IF "TPQQOS" \in got THEN m.quality ELSE c.quality,
      corrid     |-> IF "TPQCORRID" \in got THEN m.corrid ELSE c.corrid]

Takes(o, m) == "TPQGETBYCORRID" \in qctl[o].flags => m.corrid = qctl[o].corrid

Existing == {s \in Queues \X (1..MaxMessages) : s[2] <= Len(stored[s[1]])}
Held == {s \in Servers : held[s] # None}
Room == Cardinality(Existing) + Cardinality(Held) < MaxMessages

-----------------------------------------------------------------------------
(* Operations *)

ReplyQueueOf(o) == qctl[o].replyqueue

\* enqueue(data); without a queue name it throws
Enqueue(o) ==
  /\ Room /\ queue[o] # None
  /\ stored' = [stored EXCEPT ![queue[o]] = Append(@, Message(qctl[o], None))]
  /\ UNCHANGED <<qctl, queue, held, asked, sets>>

\* dequeue(q, data).  Where the message names no reply queue nothing is claimed
\* of the object's reply queue any more, nor of its quality of service.
DequeueFrom(o, q) ==
  /\ \E i \in DOMAIN stored[q] :
       LET m == stored[q][i] IN
       /\ Takes(o, m) /\ \A j \in 1..(i - 1) : ~Takes(o, stored[q][j])
       /\ stored' = [stored EXCEPT ![q] = RemoveAt(@, i)]
       /\ qctl' = [qctl EXCEPT ![o] = FilledIn(@, m)]
       /\ held' = [held EXCEPT ![o] = m]
       /\ asked' = [asked EXCEPT ![o] =
            [wait |-> @.wait, quality |-> "any",
             reply |-> IF m.reply = None THEN None ELSE @.reply, corrid |-> @.corrid]]
  /\ UNCHANGED <<queue, sets>>

Dequeue(o) == held[o] = None /\ queue[o] # None /\ DequeueFrom(o, queue[o])

\* dequeueReply(char**, long*): the check for NULL compares an array and is never
\* true.  dequeueReply(buffer&) passes the address of the fielded buffer where the
\* address of a pointer belongs, no length, and sets no buffer: it cannot have worked
\* and is not modelled.
DequeueReply(o) == ReplyQueueOf(o) \in Queues /\ DequeueFrom(o, ReplyQueueOf(o))

\* no message, no such queue, or no queue name: QMENOMSG, a timeout or another
\* exception
Waiting(q) == q \in Queues /\ stored[q] # <<>>
DequeueNothing(o) ==
  /\ ~Waiting(IF o \in Servers THEN queue[o] ELSE ReplyQueueOf(o))
  /\ UNCHANGED vars

\* enqueueReply and the commit of the server
EnqueueReply(s) ==
  /\ held[s] # None /\ ReplyQueueOf(s) \in Queues
  /\ stored' = [stored EXCEPT ![ReplyQueueOf(s)] =
       Append(@, Message(qctl[s], IF asked[s].reply = None THEN None ELSE held[s].reply))]
  /\ held' = [held EXCEPT ![s] = None]
  /\ UNCHANGED <<qctl, queue, asked, sets>>

\* the reply is refused, or the transaction aborted for another reason: the
\* request is back, the block stays as it is
Abort(s) ==
  /\ held[s] # None
  /\ stored' = [stored EXCEPT ![RequestQueue] = <<held[s]>> \o @]
  /\ held' = [held EXCEPT ![s] = None]
  /\ UNCHANGED <<qctl, queue, asked, sets>>

Next ==
  \/ \E o \in Objects :
       \/ \E r \in Names(ReplyQueues) : SetReplyQueue(o, r)
       \/ \E wait \in BOOLEAN : SetMessageWait(o, wait)
       \/ \E q \in Qualities : SetQualityOfService(o, q)
       \/ SetNewCorrid(o) \/ UnsetCorrid(o) \/ SetQueueName(o)
  \/ \E c \in Clients : Enqueue(c) \/ DequeueReply(c) \/ DequeueNothing(c)
  \/ \E s \in Servers : Dequeue(s) \/ DequeueNothing(s) \/ EnqueueReply(s) \/ Abort(s)

Spec == Init /\ [][Next]_vars

-----------------------------------------------------------------------------
(* Properties *)

\* A server that asked for reply queues answers every request in the queue the
\* request names, however often its one block was overwritten by earlier
\* requests, setters and aborted transactions, until a request without a reply
\* queue turns its flag off (enqueueReply, queue.cpp:125).
RepliesGoHome ==
  \A q \in Queues : \A i \in DOMAIN stored[q] : stored[q][i].home \in {None, q}

\* A client's requests name, and dequeueReply reads, the reply queue the program
\* set last, although every dequeue writes into the block the next call reads
\* (queue.cpp:150), until a reply that names no queue turns the flag off.
ReplyQueueSticks ==
  \A c \in Clients : asked[c].reply # None =>
    ReplyQueueOf(c) = asked[c].reply /\ "TPQREPLYQ" \in qctl[c].flags

\* The setters change disjoint bits of one word: whatever is called in between,
\* the wait flag is the last one asked for, the quality of service is the last
\* accepted one and none after a rejected one, until a dequeue overwrites it.
ControlAsAsked ==
  \A o \in Objects :
    LET c == qctl[o] IN
    /\ "TPQWAIT" \in c.flags <=> asked[o].wait
    /\ asked[o].quality \in Supported =>
         "TPQQOS" \in c.flags /\ c.quality = asked[o].quality
    /\ asked[o].quality = None => "TPQQOS" \notin c.flags

\* "subsequent calls to dequeue methods will get only message with the
\* correleation id that was last set" (set_new_corrid, queue.hpp:228)
OnlyCorrelated ==
  \A c \in Clients : held[c] # None /\ asked[c].corrid # None =>
    held[c].corrid = asked[c].corrid
=============================================================================
