------------------------- MODULE QueueControlProofs -------------------------
(***************************************************************************)
(* Proofs about QueueControl, for any objects, queues and bounds.          *)
(*                                                                         *)
(* Two arguments meet: one block agrees with what was asked of its object  *)
(* (Agrees), and every queue holds only messages that belong there         *)
(* (Belonging): a reply names the queue it lies in, so that dequeuing it   *)
(* writes the name back that was there.                                    *)
(***************************************************************************)
EXTENDS QueueControl, TLAPS, SequenceTheorems

Blocks == [flags : SUBSET Flags, replyqueue : ReplyQueues \cup {Undefined},
           quality : Supported, corrid : Names(Objects)]
Askings == [wait : BOOLEAN, quality : Names(Supported) \cup {"any"},
            reply : Names(ReplyQueues), corrid : Names(Objects)]

\* The flags of a block are what was asked for.
Agrees(c, a) ==
  /\ "TPQWAIT" \in c.flags <=> a.wait
  /\ a.quality \in Supported => "TPQQOS" \in c.flags /\ c.quality = a.quality
  /\ a.quality = None => "TPQQOS" \notin c.flags
  /\ a.reply # None => "TPQREPLYQ" \in c.flags

\* The messages that may lie in a queue.
Belonging(q) ==
  {m \in Messages : /\ m.home \in {None, q}
                    /\ q \in ReplyQueues => m.reply \in {q, None}}

\* An open request has not been answered, and its server's block names the reply
\* queue it asked for.
RequestOpen ==
  \A s \in Servers : held[s] # None =>
    /\ held[s] \in Belonging(RequestQueue)
    /\ asked[s].reply # None => held[s].reply \in {None, ReplyQueueOf(s)}

NameKept == \A c \in Clients : asked[c].reply # None => ReplyQueueOf(c) = asked[c].reply

IInv ==
  /\ TypeOK
  /\ \A o \in Objects : Agrees(qctl[o], asked[o])
  /\ \A q \in Queues : stored[q] \in Seq(Belonging(q))
  /\ RequestOpen /\ NameKept

\* The invariant gives the properties.
LEMMA Gives == IInv => RepliesGoHome /\ ReplyQueueSticks /\ ControlAsAsked
<1> SUFFICES ASSUME IInv PROVE RepliesGoHome /\ ReplyQueueSticks /\ ControlAsAsked
  OBVIOUS
<1>1. RepliesGoHome
  <2> SUFFICES ASSUME NEW q \in Queues, NEW i \in DOMAIN stored[q]
               PROVE  stored[q][i].home \in {None, q}
    BY DEF RepliesGoHome
  <2>1. stored[q] \in Seq(Belonging(q))
    BY DEF IInv
  <2>2. stored[q][i] \in Belonging(q)
    BY <2>1, ElementOfSeq
  <2> QED  BY <2>2 DEF Belonging
<1>2. ReplyQueueSticks
  BY DEF IInv, ReplyQueueSticks, NameKept, Agrees, Objects
<1>3. ControlAsAsked
  BY Zenon DEF IInv, ControlAsAsked, Agrees
<1> QED  BY <1>1, <1>2, <1>3

-----------------------------------------------------------------------------
(* One block *)

\* set_reply_queue
LEMMA ReplyQueueSetAgrees ==
  ASSUME NEW c \in Blocks, NEW a \in Askings, Agrees(c, a), NEW r \in Names(ReplyQueues)
  PROVE  /\ ReplyQueueSet(c, r) \in Blocks /\ [a EXCEPT !.reply = r] \in Askings
         /\ Agrees(ReplyQueueSet(c, r), [a EXCEPT !.reply = r])
         /\ r # None => ReplyQueueSet(c, r).replyqueue = r
<1>1. [a EXCEPT !.reply = r] = [wait |-> a.wait, quality |-> a.quality, reply |-> r,
                                corrid |-> a.corrid]
  BY DEF Askings
<1>2. CASE r = None
  <2>1. ReplyQueueSet(c, r) = [flags |-> c.flags \ {"TPQREPLYQ"}, replyqueue |-> c.replyqueue,
                               quality |-> c.quality, corrid |-> c.corrid]
    BY <1>2 DEF Blocks, ReplyQueueSet, Without
  <2> QED  BY <1>1, <1>2, <2>1 DEF Blocks, Askings, Agrees
<1>3. CASE r # None
  <2>1. ReplyQueueSet(c, r) = [flags |-> c.flags \cup {"TPQREPLYQ"}, replyqueue |-> r,
                               quality |-> c.quality, corrid |-> c.corrid]
    BY <1>3 DEF Blocks, ReplyQueueSet, With
  <2> QED  BY <1>1, <1>3, <2>1 DEF Blocks, Askings, Agrees, Flags, Names
<1> QED  BY <1>2, <1>3

\* set_message_wait
LEMMA MessageWaitSetAgrees ==
  ASSUME NEW c \in Blocks, NEW a \in Askings, Agrees(c, a), NEW wait \in BOOLEAN
  PROVE  /\ MessageWaitSet(c, wait) \in Blocks /\ [a EXCEPT !.wait = wait] \in Askings
         /\ Agrees(MessageWaitSet(c, wait), [a EXCEPT !.wait = wait])
         /\ MessageWaitSet(c, wait).replyqueue = c.replyqueue
<1>1. [a EXCEPT !.wait = wait] = [wait |-> wait, quality |-> a.quality, reply |-> a.reply,
                                  corrid |-> a.corrid]
  BY DEF Askings
<1>2. CASE wait
  <2>1. MessageWaitSet(c, wait) =
          [flags |-> c.flags \cup {"TPQWAIT"}, replyqueue |-> c.replyqueue,
           quality |-> c.quality, corrid |-> c.corrid]
    BY <1>2 DEF Blocks, MessageWaitSet, With
  <2>2. wait = TRUE
    BY <1>2
  <2>3. /\ MessageWaitSet(c, wait) \in Blocks /\ [a EXCEPT !.wait = wait] \in Askings
        /\ MessageWaitSet(c, wait).replyqueue = c.replyqueue
    BY <1>1, <2>1 DEF Blocks, Askings, Flags
  <2>4. Agrees(MessageWaitSet(c, wait), [a EXCEPT !.wait = wait])
    BY <1>1, <2>1, <2>2 DEF Agrees
  <2> QED  BY <2>3, <2>4
<1>3. CASE ~wait
  <2>1. MessageWaitSet(c, wait) =
          [flags |-> c.flags \ {"TPQWAIT"}, replyqueue |-> c.replyqueue,
           quality |-> c.quality, corrid |-> c.corrid]
    BY <1>3 DEF Blocks, MessageWaitSet, Without
  <2> QED  BY <1>1, <1>3, <2>1 DEF Blocks, Askings, Agrees
<1> QED  BY <1>2, <1>3

\* set_quality_of_service, accepted or rejected
LEMMA QualitySetAgrees ==
  ASSUME NEW c \in Blocks, NEW a \in Askings, Agrees(c, a), NEW q \in Qualities,
         NEW b, b = [a EXCEPT !.quality = IF q \in Supported THEN q ELSE None]
  PROVE  /\ QualitySet(c, q) \in Blocks /\ b \in Askings
         /\ Agrees(QualitySet(c, q), b)
         /\ QualitySet(c, q).replyqueue = c.replyqueue
         /\ b.reply = a.reply
<1>1. b = [wait |-> a.wait, quality |-> IF q \in Supported THEN q ELSE None,
           reply |-> a.reply, corrid |-> a.corrid]
  BY DEF Askings
<1>2. CASE q \in Supported
  <2>1. QualitySet(c, q) = [flags |-> c.flags \cup {"TPQQOS"}, replyqueue |-> c.replyqueue,
                            quality |-> q, corrid |-> c.corrid]
    BY <1>2 DEF Blocks, QualitySet, With
  <2> QED  BY <1>1, <1>2, <2>1, NamesAssumption DEF Blocks, Askings, Agrees, Flags, Names
<1>3. CASE q \notin Supported
  <2>1. QualitySet(c, q) = [flags |-> c.flags \ {"TPQQOS"}, replyqueue |-> c.replyqueue,
                            quality |-> c.quality, corrid |-> c.corrid]
    BY <1>3 DEF Blocks, QualitySet, Without
  <2> QED  BY <1>1, <1>3, <2>1, NamesAssumption DEF Blocks, Askings, Agrees, Names
<1> QED  BY <1>2, <1>3

\* set_new_corrid, unset_corrid
LEMMA CorridAgrees ==
  ASSUME NEW c \in Blocks, NEW a \in Askings, Agrees(c, a), NEW o \in Names(Objects)
  PROVE  /\ [c EXCEPT !.corrid = o] \in Blocks /\ [a EXCEPT !.corrid = o] \in Askings
         /\ Agrees([c EXCEPT !.corrid = o], [a EXCEPT !.corrid = o])
         /\ [c EXCEPT !.corrid = o].replyqueue = c.replyqueue
         /\ [a EXCEPT !.corrid = o].reply = a.reply
<1>1. [c EXCEPT !.corrid = o] = [flags |-> c.flags, replyqueue |-> c.replyqueue,
                                 quality |-> c.quality, corrid |-> o]
  BY DEF Blocks
<1>2. [a EXCEPT !.corrid = o] = [wait |-> a.wait, quality |-> a.quality, reply |-> a.reply,
                                 corrid |-> o]
  BY DEF Askings
<1> QED  BY <1>1, <1>2 DEF Blocks, Askings, Agrees

\* A dequeue leaves the wait flag alone and claims nothing of the quality; the
\* name in the block is the message's where the flag asked for it.
LEMMA FilledInAgrees ==
  ASSUME NEW c \in Blocks, NEW a \in Askings, Agrees(c, a), NEW m \in Messages,
         NEW b, b = [wait |-> a.wait, quality |-> "any",
                     reply |-> IF m.reply = None THEN None ELSE a.reply,
                     corrid |-> a.corrid]
  PROVE  /\ FilledIn(c, m) \in Blocks /\ b \in Askings
         /\ Agrees(FilledIn(c, m), b)
         /\ b.reply # None => FilledIn(c, m).replyqueue = m.reply /\ b.reply = a.reply
<1> DEFINE has == (IF m.reply = None THEN {} ELSE {"TPQREPLYQ"})
                    \cup (IF m.quality = None THEN {} ELSE {"TPQQOS"})
                    \cup (IF m.corrid = None THEN {} ELSE {"TPQCORRID"})
           got == c.flags \cap has
           d == FilledIn(c, m)
<1>1. d = [flags      |-> got \cup (c.flags \cap {"TPQWAIT", "TPQGETBYCORRID"}),
           replyqueue |-> IF "TPQREPLYQ" \in got THEN m.reply ELSE c.replyqueue,
           quality    |-> IF "TPQQOS" \in got THEN m.quality ELSE c.quality,
           corrid     |-> IF "TPQCORRID" \in got THEN m.corrid ELSE c.corrid]
  BY DEF FilledIn
<1>2. /\ "TPQREPLYQ" \in got <=> "TPQREPLYQ" \in c.flags /\ m.reply # None
      /\ "TPQQOS" \in got <=> "TPQQOS" \in c.flags /\ m.quality # None
      /\ "TPQCORRID" \in got <=> "TPQCORRID" \in c.flags /\ m.corrid # None
      /\ "TPQWAIT" \notin got /\ got \subseteq Flags
  BY DEF Flags
<1> HIDE DEF got, d, FilledIn
<1>3. d \in Blocks
  BY <1>1, <1>2 DEF Blocks, Messages, Names, Flags
<1>4. b \in Askings
  BY DEF Askings, Names
<1>5. "TPQWAIT" \in d.flags <=> b.wait
  BY <1>1, <1>2 DEF Agrees
<1>6. b.quality \notin Supported \cup {None}
  BY NamesAssumption DEF Supported
<1>7. b.reply # None => "TPQREPLYQ" \in d.flags /\ d.replyqueue = m.reply /\ b.reply = a.reply
  BY <1>1, <1>2 DEF Agrees
<1> QED  BY <1>3, <1>4, <1>5, <1>6, <1>7 DEF Agrees, d

\* What tpenqueue makes of a block names the block's reply queue, or none.
LEMMA MessageType ==
  ASSUME NEW c \in Blocks, NEW home \in Names(ReplyQueues)
  PROVE  /\ Message(c, home) \in Messages
         /\ Message(c, home).home = home
         /\ Message(c, home).reply \in {c.replyqueue, None}
  BY DEF Message, Messages, Blocks, Names

-----------------------------------------------------------------------------
(* Steps *)

\* The block of o changes as asked; no message moves.
LEMMA BlockStep ==
  ASSUME IInv, NEW o \in Objects, NEW c \in Blocks, NEW a \in Askings, Agrees(c, a),
         qctl' = [qctl EXCEPT ![o] = c], asked' = [asked EXCEPT ![o] = a],
         UNCHANGED stored, queue' \in [Objects -> Names({RequestQueue})], sets' \in Nat,
         \/ held' = held /\ c.replyqueue = qctl[o].replyqueue /\ a.reply = asked[o].reply
         \/ /\ held' = [held EXCEPT ![o] = None]
            /\ o \in Clients /\ a.reply # None => c.replyqueue = a.reply
  PROVE  IInv'
<1>1. /\ qctl' \in [Objects -> Blocks] /\ asked' \in [Objects -> Askings]
      /\ held' \in [Objects -> Names(Messages)]
  BY DEF IInv, TypeOK, Blocks, Askings, Names
<1>2. TypeOK'
  BY <1>1 DEF IInv, TypeOK, Blocks, Askings
<1>3. \A p \in Objects : Agrees(qctl'[p], asked'[p])
  BY DEF IInv, TypeOK
<1>4. (\A q \in Queues : stored[q] \in Seq(Belonging(q)))'
  BY DEF IInv
<1>5. RequestOpen'
  <2> SUFFICES ASSUME NEW s \in Servers, held'[s] # None
               PROVE  /\ held'[s] \in Belonging(RequestQueue)
                      /\ asked'[s].reply # None => held'[s].reply \in {None, qctl'[s].replyqueue}
    BY DEF RequestOpen, ReplyQueueOf, Belonging
  <2>1. held'[s] = held[s] /\ qctl'[s].replyqueue = qctl[s].replyqueue
        /\ asked'[s].reply = asked[s].reply
    BY DEF IInv, TypeOK, Objects
  <2> QED  BY <2>1 DEF IInv, RequestOpen, ReplyQueueOf
<1>6. NameKept'
  BY DEF IInv, TypeOK, NameKept, ReplyQueueOf, Objects
<1> QED  BY <1>2, <1>3, <1>4, <1>5, <1>6 DEF IInv

\* The queues change, each to messages that belong there.
LEMMA StoredType ==
  ASSUME IInv, NEW q \in Queues, NEW d \in Seq(Belonging(q)),
         stored' = [stored EXCEPT ![q] = d]
  PROVE  /\ stored' \in [Queues -> Seq(Messages)]
         /\ \A p \in Queues : stored'[p] \in Seq(Belonging(p))
<1>1. Belonging(q) \subseteq Messages
  BY DEF Belonging
<1>2. d \in Seq(Messages)
  BY <1>1, SeqMonotonic
<1>3. stored \in [Queues -> Seq(Messages)] /\ \A p \in Queues : stored[p] \in Seq(Belonging(p))
  BY DEF IInv, TypeOK
<1> QED  BY <1>2, <1>3

\* A message that belongs to the request queue has no home.
LEMMA Requests ==
  \A m \in Messages : m \in Belonging(RequestQueue) <=> m.home = None
<1>1. RequestQueue \notin ReplyQueues /\ RequestQueue # None
  BY NamesAssumption
<1> QED  BY <1>1 DEF Belonging, Messages, Names

\* Taking one message out of a queue.
LEMMA Taken ==
  ASSUME NEW S, NEW d \in Seq(S), NEW i \in DOMAIN d
  PROVE  d[i] \in S /\ RemoveAt(d, i) \in Seq(S)
<1>1. i \in 1..Len(d) /\ Len(d) \in Nat
  BY LenProperties
<1>2. d[i] \in S
  BY <1>1, ElementOfSeq
<1>3. SubSeq(d, 1, i - 1) \in Seq(S) /\ SubSeq(d, i + 1, Len(d)) \in Seq(S)
  BY <1>1, SubSeqProperties
<1> QED  BY <1>2, <1>3, ConcatProperties DEF RemoveAt

\* enqueue
LEMMA EnqueueInv ==
  ASSUME IInv, NEW o \in Clients, Enqueue(o)
  PROVE  IInv'
<1>1. PICK c, d : c = qctl[o] /\ d = stored[RequestQueue]
  OBVIOUS
<1>2. c \in Blocks /\ d \in Seq(Belonging(RequestQueue)) /\ RequestQueue \in Queues
  BY <1>1 DEF IInv, TypeOK, Objects, Queues, Blocks
<1>3. queue[o] = RequestQueue
  BY DEF Enqueue, IInv, TypeOK, Objects, Names
<1>4. Message(c, None) \in Belonging(RequestQueue)
  BY <1>2, MessageType, Requests DEF Names
<1>5. stored' = [stored EXCEPT ![RequestQueue] = Append(d, Message(c, None))]
  BY <1>1, <1>3 DEF Enqueue
<1>6. Append(d, Message(c, None)) \in Seq(Belonging(RequestQueue))
  BY <1>2, <1>4, AppendProperties
<1>7. /\ stored' \in [Queues -> Seq(Messages)]
      /\ \A q \in Queues : stored'[q] \in Seq(Belonging(q))
  BY <1>2, <1>5, <1>6, StoredType
<1>8. UNCHANGED <<qctl, queue, held, asked, sets>>
  BY DEF Enqueue
<1> QED
  BY <1>7, <1>8 DEF IInv, TypeOK, RequestOpen, NameKept, ReplyQueueOf, Belonging

\* A dequeue from a queue q that is the request queue, or the one the block of a
\* client names.
LEMMA DequeueInv ==
  ASSUME IInv, NEW o \in Objects, NEW q \in Queues, DequeueFrom(o, q),
         o \in Servers => q = RequestQueue,
         o \in Clients => q = ReplyQueueOf(o)
  PROVE  IInv'
<1>1. PICK i \in DOMAIN stored[q] :
        LET m == stored[q][i] IN
        /\ stored' = [stored EXCEPT ![q] = RemoveAt(@, i)]
        /\ qctl' = [qctl EXCEPT ![o] = FilledIn(@, m)]
        /\ held' = [held EXCEPT ![o] = m]
        /\ asked' = [asked EXCEPT ![o] =
             [wait |-> @.wait, quality |-> "any",
              reply |-> IF m.reply = None THEN None ELSE @.reply, corrid |-> @.corrid]]
  BY DEF DequeueFrom
<1>2. PICK c, a, d, m : c = qctl[o] /\ a = asked[o] /\ d = stored[q] /\ m = d[i]
  OBVIOUS
<1>3. PICK b : b = [wait |-> a.wait, quality |-> "any",
                    reply |-> IF m.reply = None THEN None ELSE a.reply,
                    corrid |-> a.corrid]
  OBVIOUS
<1>4. /\ stored' = [stored EXCEPT ![q] = RemoveAt(d, i)]
      /\ qctl' = [qctl EXCEPT ![o] = FilledIn(c, m)]
      /\ held' = [held EXCEPT ![o] = m]
      /\ asked' = [asked EXCEPT ![o] = b]
  BY <1>1, <1>2, <1>3
<1>5. c \in Blocks /\ a \in Askings /\ Agrees(c, a) /\ d \in Seq(Belonging(q))
  BY <1>2 DEF IInv, TypeOK, Blocks, Askings
<1>6. m \in Belonging(q) /\ RemoveAt(d, i) \in Seq(Belonging(q))
  BY <1>2, <1>5, Taken
<1>7. m \in Messages
  BY <1>6 DEF Belonging
<1>8. /\ FilledIn(c, m) \in Blocks /\ b \in Askings
      /\ Agrees(FilledIn(c, m), b)
      /\ b.reply # None => FilledIn(c, m).replyqueue = m.reply /\ b.reply = a.reply
  BY <1>3, <1>5, <1>7, FilledInAgrees
<1>9. PICK e : e = FilledIn(c, m)
  OBVIOUS
<1>10. /\ stored' \in [Queues -> Seq(Messages)]
       /\ \A p \in Queues : stored'[p] \in Seq(Belonging(p))
  BY <1>4, <1>6, StoredType
<1>11. UNCHANGED <<queue, sets>>
  BY DEF DequeueFrom
<1>12. TypeOK'
  <2>1. qctl' \in [Objects -> Blocks] /\ asked' \in [Objects -> Askings]
        /\ held' \in [Objects -> Names(Messages)]
    BY <1>4, <1>7, <1>8 DEF IInv, TypeOK, Blocks, Askings, Names
  <2> QED  BY <1>10, <1>11, <2>1 DEF IInv, TypeOK, Blocks, Askings
<1>13. \A p \in Objects : Agrees(qctl'[p], asked'[p])
  BY <1>4, <1>8 DEF IInv, TypeOK
<1>14. /\ qctl'[o] = e /\ asked'[o] = b /\ held'[o] = m
       /\ \A p \in Objects \ {o} : /\ qctl'[p] = qctl[p] /\ asked'[p] = asked[p]
                                  /\ held'[p] = held[p]
  BY <1>4, <1>9 DEF IInv, TypeOK
<1>15. RequestOpen'
  <2> SUFFICES ASSUME NEW s \in Servers, held'[s] # None
               PROVE  /\ held'[s] \in Belonging(RequestQueue)
                      /\ asked'[s].reply # None => held'[s].reply \in {None, qctl'[s].replyqueue}
    BY DEF RequestOpen, ReplyQueueOf, Belonging
  <2>1. CASE s = o
    BY <1>6, <1>8, <1>9, <1>14, <2>1
  <2>2. CASE s # o
    BY <1>14, <2>2 DEF IInv, RequestOpen, ReplyQueueOf, Objects
  <2> QED  BY <2>1, <2>2
<1>16. NameKept'
  <2> SUFFICES ASSUME NEW p \in Clients, asked'[p].reply # None
               PROVE  qctl'[p].replyqueue = asked'[p].reply
    BY DEF NameKept, ReplyQueueOf
  <2>1. CASE p = o
    <3>1. b.reply # None /\ m.reply # None /\ b.reply = a.reply /\ e.replyqueue = m.reply
      BY <1>3, <1>8, <1>9, <1>14, <2>1
    <3>2. q = c.replyqueue /\ q = a.reply
      BY <1>2, <2>1, <3>1 DEF IInv, NameKept, ReplyQueueOf
    <3>3. a.reply \in ReplyQueues
      BY <1>5, <3>1 DEF Askings, Names
    <3>4. m.reply = q
      BY <1>6, <3>1, <3>2, <3>3 DEF Belonging
    <3> QED  BY <1>14, <2>1, <3>1, <3>2, <3>4
  <2>2. CASE p # o
    BY <1>14, <2>2 DEF IInv, NameKept, ReplyQueueOf, Objects
  <2> QED  BY <2>1, <2>2
<1>17. (\A p \in Queues : stored[p] \in Seq(Belonging(p)))'
  BY <1>10 DEF Belonging
<1> QED  BY <1>12, <1>13, <1>15, <1>16, <1>17 DEF IInv

\* The request of a server ends: answered, in the queue the block names, or back.
LEMMA RequestEndsInv ==
  ASSUME IInv, NEW s \in Servers, EnqueueReply(s) \/ Abort(s)
  PROVE  IInv'
<1>1. PICK c, h, r : c = qctl[s] /\ h = held[s] /\ r = asked[s].reply
  OBVIOUS
<1>2. /\ c \in Blocks /\ h # None /\ h \in Belonging(RequestQueue)
      /\ r # None => h.reply \in {None, c.replyqueue}
      /\ \A q \in Queues : stored[q] \in Seq(Belonging(q))
  BY <1>1 DEF IInv, TypeOK, RequestOpen, ReplyQueueOf, Objects, Blocks, EnqueueReply, Abort
<1>3. /\ stored' \in [Queues -> Seq(Messages)]
      /\ \A q \in Queues : stored'[q] \in Seq(Belonging(q))
  <2>1. CASE EnqueueReply(s)
    <3>1. PICK q, home, d : /\ q = c.replyqueue /\ d = stored[q]
                            /\ home = IF r = None THEN None ELSE h.reply
      OBVIOUS
    <3>2. q \in Queues /\ q \in ReplyQueues
      BY <1>1, <1>2, <2>1, <3>1, NamesAssumption
      DEF EnqueueReply, ReplyQueueOf, Blocks, Queues
    <3>3. home \in {None, q}
      BY <1>2, <3>1
    <3>4. Message(c, home) \in Belonging(q)
      <4>1. home \in Names(ReplyQueues)
        BY <3>2, <3>3 DEF Names
      <4> QED  BY <1>2, <3>1, <3>3, <4>1, MessageType DEF Belonging
    <3>5. stored' = [stored EXCEPT ![q] = Append(d, Message(c, home))]
      BY <1>1, <2>1, <3>1 DEF EnqueueReply, ReplyQueueOf
    <3>6. Append(d, Message(c, home)) \in Seq(Belonging(q))
      BY <1>2, <3>1, <3>2, <3>4, AppendProperties
    <3> QED  BY <3>2, <3>5, <3>6, StoredType
  <2>2. CASE Abort(s)
    <3>1. PICK d : d = stored[RequestQueue]
      OBVIOUS
    <3>2. RequestQueue \in Queues /\ d \in Seq(Belonging(RequestQueue))
      BY <1>2, <3>1 DEF Queues
    <3>3. <<h>> \o d \in Seq(Belonging(RequestQueue))
      BY <1>2, <3>2, ConcatProperties
    <3>4. stored' = [stored EXCEPT ![RequestQueue] = <<h>> \o d]
      BY <1>1, <2>2, <3>1 DEF Abort
    <3> QED  BY <3>2, <3>3, <3>4, StoredType
  <2> QED  BY <2>1, <2>2
<1>4. UNCHANGED <<qctl, queue, asked, sets>> /\ held' = [held EXCEPT ![s] = None]
  BY DEF EnqueueReply, Abort
<1>5. held' \in [Objects -> Names(Messages)]
  BY <1>4 DEF IInv, TypeOK, Names
<1>6. RequestOpen'
  BY <1>4 DEF IInv, TypeOK, RequestOpen, ReplyQueueOf, Belonging, Objects
<1>7. TypeOK' /\ NameKept'
  BY <1>3, <1>4, <1>5 DEF IInv, TypeOK, NameKept, ReplyQueueOf
<1>8. (\A q \in Queues : stored[q] \in Seq(Belonging(q)))'
  BY <1>3 DEF Belonging
<1>9. (\A o \in Objects : Agrees(qctl[o], asked[o]))'
  BY <1>4 DEF IInv
<1> QED  BY <1>6, <1>7, <1>8, <1>9 DEF IInv

\* The initial state satisfies the invariant.
LEMMA InitInv == Init => IInv
<1> SUFFICES ASSUME Init PROVE IInv
  OBVIOUS
<1>1. PICK reply \in [Objects -> Names(ReplyQueues)] :
        /\ qctl = [o \in Objects |-> Constructed(reply[o])]
        /\ asked = [o \in Objects |-> [wait |-> TRUE, quality |-> "TPQQOSDEFAULTPERSIST",
                                       reply |-> reply[o], corrid |-> None]]
  BY DEF Init
<1>2. ASSUME NEW r \in Names(ReplyQueues)
      PROVE  LET a == [wait |-> TRUE, quality |-> "TPQQOSDEFAULTPERSIST",
                       reply |-> r, corrid |-> None]
             IN /\ Constructed(r) \in Blocks /\ a \in Askings /\ Agrees(Constructed(r), a)
                /\ r # None => Constructed(r).replyqueue = r
  <2> DEFINE fresh == [flags |-> {}, replyqueue |-> Undefined,
                       quality |-> "TPQQOSDEFAULTPERSIST", corrid |-> None]
             waits == [flags |-> {"TPQWAIT"}, replyqueue |-> Undefined,
                       quality |-> "TPQQOSDEFAULTPERSIST", corrid |-> None]
             keeps == [flags |-> {"TPQWAIT", "TPQQOS"}, replyqueue |-> Undefined,
                       quality |-> "TPQQOSDEFAULTPERSIST", corrid |-> None]
             b == [wait |-> TRUE, quality |-> "TPQQOSDEFAULTPERSIST",
                   reply |-> None, corrid |-> None]
  <2>1. MessageWaitSet(fresh, TRUE) = waits
    BY DEF MessageWaitSet, With
  <2>2. QualitySet(waits, "TPQQOSDEFAULTPERSIST") = keeps
    BY DEF QualitySet, With, Supported
  <2>3. Constructed(r) = ReplyQueueSet(keeps, r)
    BY <2>1, <2>2 DEF Constructed
  <2>4. keeps \in Blocks /\ b \in Askings
    BY DEF Blocks, Askings, Flags, Supported, Names
  <2>5. Agrees(keeps, b)
    BY NamesAssumption DEF Agrees, Supported
  <2>6. PICK a : a = b
    OBVIOUS
  <2>7. [a EXCEPT !.reply = r] = [wait |-> a.wait, quality |-> a.quality,
                                  reply |-> r, corrid |-> a.corrid]
    <3> HIDE DEF b
    <3> QED  BY <2>4, <2>6 DEF Askings
  <2>8. a.wait = TRUE /\ a.quality = "TPQQOSDEFAULTPERSIST" /\ a.corrid = None
    BY Zenon, <2>6
  <2>9. [a EXCEPT !.reply = r] = [wait |-> TRUE, quality |-> "TPQQOSDEFAULTPERSIST",
                                  reply |-> r, corrid |-> None]
    BY Zenon, <2>7, <2>8
  <2> HIDE DEF keeps, b
  <2>10. /\ Constructed(r) \in Blocks /\ [a EXCEPT !.reply = r] \in Askings
         /\ Agrees(Constructed(r), [a EXCEPT !.reply = r])
         /\ r # None => Constructed(r).replyqueue = r
    BY <2>3, <2>4, <2>5, <2>6, ReplyQueueSetAgrees
  <2> QED  BY Zenon, <2>9, <2>10
<1>3. ASSUME NEW o \in Objects
      PROVE  /\ qctl[o] \in Blocks /\ asked[o] \in Askings /\ Agrees(qctl[o], asked[o])
             /\ asked[o].reply # None => qctl[o].replyqueue = asked[o].reply
  <2>1. PICK r \in Names(ReplyQueues) : r = reply[o]
    OBVIOUS
  <2> QED  BY <1>1, <1>2, <2>1
<1>4. /\ qctl \in [Objects -> Blocks] /\ asked \in [Objects -> Askings]
      /\ held \in [Objects -> Names(Messages)] /\ \A o \in Objects : held[o] = None
  BY <1>1, <1>3 DEF Init, Names
<1>5. stored \in [Queues -> Seq(Messages)] /\ \A q \in Queues : stored[q] \in Seq(Belonging(q))
  BY DEF Init
<1>6. queue \in [Objects -> Names({RequestQueue})] /\ sets = 0
  BY Zenon DEF Init
<1>7. TypeOK
  BY <1>4, <1>5, <1>6, Zenon DEF TypeOK, Blocks, Askings
<1> QED  BY <1>3, <1>4, <1>5, <1>7 DEF IInv, RequestOpen, NameKept, ReplyQueueOf, Objects

\* Every step keeps the invariant.
LEMMA StepInv == IInv /\ [Next]_vars => IInv'
<1> SUFFICES ASSUME IInv, [Next]_vars PROVE IInv'
  OBVIOUS
<1>0. queue \in [Objects -> Names({RequestQueue})] /\ sets \in Nat
  BY Zenon DEF IInv, TypeOK
<1>1. ASSUME NEW o \in Objects, NEW r \in Names(ReplyQueues), SetReplyQueue(o, r)
      PROVE  IInv'
  <2>1. PICK c, a, b : c = qctl[o] /\ a = asked[o] /\ b = [a EXCEPT !.reply = r]
    OBVIOUS
  <2>2. c \in Blocks /\ a \in Askings /\ Agrees(c, a)
    BY <2>1 DEF IInv, TypeOK, Blocks, Askings
  <2>3. /\ ReplyQueueSet(c, r) \in Blocks /\ b \in Askings
        /\ Agrees(ReplyQueueSet(c, r), b)
        /\ r # None => ReplyQueueSet(c, r).replyqueue = r
    BY <2>1, <2>2, ReplyQueueSetAgrees
  <2>4. b.reply = r
    BY <2>1, <2>2 DEF Askings
  <2>5. /\ qctl' = [qctl EXCEPT ![o] = ReplyQueueSet(c, r)]
        /\ asked' = [asked EXCEPT ![o] = b]
        /\ held' = [held EXCEPT ![o] = None]
        /\ UNCHANGED stored /\ queue' = queue /\ sets' = sets + 1
    BY <1>1, <2>1 DEF SetReplyQueue, BetweenMessages, Setter
  <2>6. queue' \in [Objects -> Names({RequestQueue})] /\ sets' \in Nat
    BY <1>0, <2>5
  <2>7. o \in Clients /\ b.reply # None => ReplyQueueSet(c, r).replyqueue = b.reply
    BY <2>3, <2>4
  <2> QED  BY <2>3, <2>5, <2>6, <2>7, BlockStep
<1>2. ASSUME NEW o \in Objects, NEW wait \in BOOLEAN, SetMessageWait(o, wait)
      PROVE  IInv'
  <2>1. PICK c, a, b : c = qctl[o] /\ a = asked[o] /\ b = [a EXCEPT !.wait = wait]
    OBVIOUS
  <2>2. c \in Blocks /\ a \in Askings /\ Agrees(c, a)
    BY <2>1 DEF IInv, TypeOK, Blocks, Askings
  <2>3. /\ MessageWaitSet(c, wait) \in Blocks /\ b \in Askings
        /\ Agrees(MessageWaitSet(c, wait), b)
        /\ MessageWaitSet(c, wait).replyqueue = qctl[o].replyqueue
    BY <2>1, <2>2, MessageWaitSetAgrees
  <2>4. b.reply = asked[o].reply
    BY <2>1, <2>2 DEF Askings
  <2>5. /\ qctl' = [qctl EXCEPT ![o] = MessageWaitSet(c, wait)]
        /\ asked' = [asked EXCEPT ![o] = b]
        /\ held' = held /\ UNCHANGED stored /\ queue' = queue /\ sets' = sets + 1
    BY <1>2, <2>1 DEF SetMessageWait, Setter
  <2>6. queue' \in [Objects -> Names({RequestQueue})] /\ sets' \in Nat
    BY <1>0, <2>5
  <2> QED  BY <2>3, <2>4, <2>5, <2>6, BlockStep
<1>3. ASSUME NEW o \in Objects, NEW q \in Qualities, SetQualityOfService(o, q)
      PROVE  IInv'
  <2>1. PICK c, a, b : /\ c = qctl[o] /\ a = asked[o]
                       /\ b = [a EXCEPT !.quality = IF q \in Supported THEN q ELSE None]
    OBVIOUS
  <2>2. c \in Blocks /\ a \in Askings /\ Agrees(c, a)
    BY <2>1 DEF IInv, TypeOK, Blocks, Askings
  <2>3. /\ QualitySet(c, q) \in Blocks /\ b \in Askings /\ Agrees(QualitySet(c, q), b)
        /\ QualitySet(c, q).replyqueue = qctl[o].replyqueue /\ b.reply = asked[o].reply
    BY <2>1, <2>2, QualitySetAgrees
  <2>4. /\ qctl' = [qctl EXCEPT ![o] = QualitySet(c, q)]
        /\ asked' = [asked EXCEPT ![o] = b]
        /\ held' = held /\ UNCHANGED stored /\ queue' = queue /\ sets' = sets + 1
    BY <1>3, <2>1 DEF SetQualityOfService, Setter
  <2>5. queue' \in [Objects -> Names({RequestQueue})] /\ sets' \in Nat
    BY <1>0, <2>4
  <2> QED  BY <2>3, <2>4, <2>5, BlockStep
<1>4. ASSUME NEW o \in Objects, SetNewCorrid(o) \/ UnsetCorrid(o)
      PROVE  IInv'
  <2>1. PICK n \in Names(Objects) :
          /\ qctl' = [qctl EXCEPT ![o] = [@ EXCEPT !.corrid = n]]
          /\ asked' = [asked EXCEPT ![o] = [@ EXCEPT !.corrid = n]]
    BY <1>4 DEF SetNewCorrid, UnsetCorrid, NewCorrid, CorridUnset, Names
  <2>2. PICK c, a, d, b : /\ c = qctl[o] /\ d = [c EXCEPT !.corrid = n]
                          /\ a = asked[o] /\ b = [a EXCEPT !.corrid = n]
    OBVIOUS
  <2>3. c \in Blocks /\ a \in Askings /\ Agrees(c, a)
    BY <2>2 DEF IInv, TypeOK, Blocks, Askings
  <2>4. /\ d \in Blocks /\ b \in Askings /\ Agrees(d, b)
        /\ d.replyqueue = qctl[o].replyqueue /\ b.reply = asked[o].reply
    BY <2>2, <2>3, CorridAgrees
  <2>5. /\ qctl' = [qctl EXCEPT ![o] = d] /\ asked' = [asked EXCEPT ![o] = b]
        /\ held' = [held EXCEPT ![o] = None] /\ (o \in Servers => held' = held)
        /\ UNCHANGED stored /\ queue' = queue /\ sets' = sets + 1
    BY <1>4, <2>1, <2>2
    DEF SetNewCorrid, UnsetCorrid, BetweenMessages, Setter, IInv, TypeOK
  <2>6. queue' \in [Objects -> Names({RequestQueue})] /\ sets' \in Nat
    BY <1>0, <2>5
  <2>7. CASE o \in Servers
    BY <2>4, <2>5, <2>6, <2>7, BlockStep
  <2>8. CASE o \in Clients
    <3>1. b.reply # None => d.replyqueue = b.reply
      BY <2>4, <2>8 DEF IInv, NameKept, ReplyQueueOf
    <3> QED  BY <2>4, <2>5, <2>6, <2>8, <3>1, BlockStep
  <2> QED  BY <2>7, <2>8 DEF Objects
<1>5. ASSUME NEW o \in Objects, SetQueueName(o)
      PROVE  IInv'
  <2>1. queue' \in [Objects -> Names({RequestQueue})] /\ sets' \in Nat
        /\ UNCHANGED <<qctl, stored, held, asked>>
    BY <1>5 DEF SetQueueName, Setter, IInv, TypeOK, Names
  <2> QED  BY <2>1 DEF IInv, TypeOK, RequestOpen, NameKept, ReplyQueueOf, Belonging
<1>6. ASSUME NEW c \in Clients, DequeueReply(c)
      PROVE  IInv'
  <2>1. PICK q : q = ReplyQueueOf(c)
    OBVIOUS
  <2>2. c \in Objects /\ c \notin Servers /\ q \in Queues /\ DequeueFrom(c, q)
    BY <1>6, <2>1, NamesAssumption DEF DequeueReply, Objects
  <2> QED  BY <2>1, <2>2, DequeueInv
<1>7. ASSUME NEW s \in Servers, Dequeue(s)
      PROVE  IInv'
  <2>1. s \in Objects /\ s \notin Clients /\ queue[s] = RequestQueue
    BY <1>7, NamesAssumption DEF Dequeue, Objects, IInv, TypeOK, Names
  <2>2. RequestQueue \in Queues /\ DequeueFrom(s, RequestQueue)
    BY <1>7, <2>1 DEF Dequeue, Queues
  <2> QED  BY <2>1, <2>2, DequeueInv
<1>8. ASSUME UNCHANGED vars
      PROVE  IInv'
  <2>1. UNCHANGED <<qctl, queue, stored, held, asked, sets>>
    BY <1>8 DEF vars
  <2> QED  BY <2>1 DEF IInv, TypeOK, RequestOpen, NameKept, ReplyQueueOf, Belonging
<1>9. ASSUME NEW o \in Objects, DequeueNothing(o)
      PROVE  IInv'
  BY <1>8, <1>9 DEF DequeueNothing
<1> QED
  BY <1>1, <1>2, <1>3, <1>4, <1>5, <1>6, <1>7, <1>8, <1>9, EnqueueInv, RequestEndsInv
  DEF Next, Objects

-----------------------------------------------------------------------------
\* Every block agrees with what was asked, and every message is where it belongs.
THEOREM Invariance == Spec => []IInv
<1> QED  BY InitInv, StepInv, PTL DEF Spec

\* The block and the queues keep their types: no flag but those of the class.
THEOREM TypeCorrect == Spec => []TypeOK
<1>1. IInv => TypeOK
  BY DEF IInv
<1> QED  BY <1>1, Invariance, PTL

\* Replies go to the queue their request names (enqueueReply, queue.cpp:125), for
\* any number of clients, servers, queues and messages.
THEOREM RepliesReturn == Spec => []RepliesGoHome
<1> QED  BY Gives, Invariance, PTL

\* Dequeues do not change the reply queue a client works with (queue.cpp:150).
THEOREM ReplyQueueKept == Spec => []ReplyQueueSticks
<1> QED  BY Gives, Invariance, PTL

\* Setters and dequeues keep each other's flags (queue.cpp:182-213).
THEOREM ControlKept == Spec => []ControlAsAsked
<1> QED  BY Gives, Invariance, PTL
=============================================================================
