--------------------------- MODULE TransactionProofs ------------------------
(***************************************************************************)
(* Proofs about class transaction: ServiceCall, for any number of retries  *)
(* and any codes, and AsyncCall (names with AC), for any number of         *)
(* objects, descriptors and calls.                                         *)
(***************************************************************************)
EXTENDS ServiceCall, AsyncCall, TLAPS

-----------------------------------------------------------------------------
(* ServiceCall.  The loop of call is left by a success or by its last        *)
(* attempt.  The invariant says which attempts were made, which requests the *)
(* server can know of, and that all attempts but the last failed.            *)

\* The types of all variables but the Boolean one.
Types ==
  /\ retries \in 0..MaxRetries
  /\ pc \in {"call", "wait", "returned", "threw"}
  /\ retry \in 0..(MaxRetries + 1)
  /\ errno \in Errors \cup {"0"} /\ tpurcode \in Codes
  /\ contents \in Contents
  /\ server \in [Attempts -> {"none", "queued", "serving", "served"}]
  /\ sent \in [Attempts -> Contents \cup {"nothing"}]
  /\ answer \in [Attempts -> [kind : {"none", "success"} \cup Errors, code : Codes]]
  /\ result \in [code : Codes \cup {0, FAILED}, thrown : TuxedoExceptions \cup {None}]

\* While the loop runs there is an attempt left; it ends after an attempt.
LoopRuns == retry <= retries + 1 /\ IF Done THEN retry > 0 ELSE retry <= retries

\* Every attempt but the one that ended the loop failed or was not made.
FailedSoFar ==
  \A b \in Attempts :
    /\ b < retry => answer[b].kind # "success"
    /\ b > retry => answer[b].kind = "none"
    /\ ~Done => answer[b].kind # "success"

\* The server knows of the attempts made and of the one tpcall is in.
Known ==
  \A a \in Attempts : server[a] # "none" => a <= retry \/ (a = retry + 1 /\ pc = "wait")

\* With a buffer of its own for the answer, idata is the request.
InputKept == aliased \/ contents = "request"
InputSentThen == aliased \/ \A a \in Attempts : sent[a] \in {"nothing", "request"}

\* While the loop runs, only an attempt the service answered can have spoilt idata,
\* and so what a later one sent.
FailedBefore(a) == \E b \in Attempts : b < a /\ answer[b].kind = "TPESVCFAIL"
SpoiltBefore == contents = "request" \/ Done \/ FailedBefore(retry + 1)
SpoiltSent ==
  \A a \in Attempts : sent[a] \in {"nothing", "request"} \/ FailedBefore(a)

IInv ==
  /\ Types /\ aliased \in BOOLEAN
  /\ LoopRuns /\ FailedSoFar /\ Known /\ HonestResult
  /\ InputKept /\ InputSentThen /\ SpoiltBefore /\ SpoiltSent

\* The invariant gives the properties.
LEMMA Gives == IInv => TypeOK /\ NoneAfterSuccess /\ SpoiltOnlyByAnswer
<1> SUFFICES ASSUME IInv PROVE TypeOK /\ NoneAfterSuccess /\ SpoiltOnlyByAnswer
  OBVIOUS
<1>1. TypeOK
  BY Zenon DEF IInv, TypeOK, Types
<1>2. NoneAfterSuccess
  <2>1. Types /\ LoopRuns /\ FailedSoFar /\ Known
    BY DEF IInv
  <2> QED
    BY <2>1, RetriesAssumption
    DEF Types, LoopRuns, FailedSoFar, Known, NoneAfterSuccess, Done, Attempts
<1>3. SpoiltOnlyByAnswer
  <2> SUFFICES ASSUME NEW a \in Attempts, sent[a] \notin {"nothing", "request"}
               PROVE  aliased /\ \E b \in Attempts : b < a /\ answer[b].kind = "TPESVCFAIL"
    BY Zenon DEF SpoiltOnlyByAnswer
  <2>1. aliased
    BY Zenon DEF IInv, InputSentThen
  <2>2. \E b \in Attempts : b < a /\ answer[b].kind = "TPESVCFAIL"
    BY Zenon DEF IInv, SpoiltSent, FailedBefore
  <2> QED  BY <2>1, <2>2
<1> QED  BY <1>1, <1>2, <1>3

\* handle_tperrno throws exceptions of tuxedo's family, or nothing.
LEMMA OutcomeType ==
  ASSUME NEW e \in Errors \cup {"0"}, NEW code \in Codes
  PROVE  /\ Outcome(e, code) \in [code : Codes \cup {0, FAILED},
                                  thrown : TuxedoExceptions \cup {None}]
         /\ e = "0" => Outcome(e, code) = Returns(0)
         /\ e = "TPESVCFAIL" => Outcome(e, code) = Returns(IF code > 0 THEN code ELSE FAILED)
         /\ e \in Failures => Outcome(e, code) = Throws(HandleTperrno(e))
<1>1. HandleTperrno(e) \in TuxedoExceptions \cup {None}
  BY DEF HandleTperrno, TuxedoExceptions
<1> QED
  BY <1>1 DEF Outcome, Returns, Throws, Errors, Failures

\* The initial states satisfy the invariant.
LEMMA InitInv == Init => IInv
<1> SUFFICES ASSUME Init PROVE IInv
  OBVIOUS
<1>1. aliased \in BOOLEAN
  BY Zenon DEF Init
<1>2. /\ retries \in 0..MaxRetries /\ pc = "call" /\ retry = 0
      /\ errno = "0" /\ tpurcode = 0 /\ contents = "request"
      /\ server = [a \in Attempts |-> "none"]
      /\ sent = [a \in Attempts |-> "nothing"]
      /\ answer = [a \in Attempts |-> NoAnswer]
      /\ result = Returns(FAILED)
  BY Zenon DEF Init
<1>3. Types
  BY <1>2, RetriesAssumption, CodesAssumption
  DEF Types, Contents, NoAnswer, Returns
<1>4. LoopRuns /\ FailedSoFar /\ Known /\ HonestResult
  BY <1>2, RetriesAssumption
  DEF LoopRuns, FailedSoFar, Known, HonestResult, Done, Attempts, NoAnswer
<1>5. InputKept
  BY <1>2 DEF InputKept
<1>6. InputSentThen /\ SpoiltBefore /\ SpoiltSent
  BY <1>2 DEF InputSentThen, SpoiltBefore, SpoiltSent
<1> QED  BY <1>1, <1>3, <1>4, <1>5, <1>6 DEF IInv

\* The end of tpcall with error e, whatever the server does to its request.
LEMMA FinishStep ==
  ASSUME IInv, ~Done, NEW e \in Errors \cup {"0"}, NEW code \in Codes, Finish(e, code),
         tpurcode' \in Codes, contents' \in Contents,
         server' \in [Attempts -> {"none", "queued", "serving", "served"}],
         \A a \in Attempts : server'[a] # "none" => server[a] # "none",
         e \in {"0", "TPESVCFAIL"} => server'[Attempt] = "served",
         UNCHANGED retries, UNCHANGED aliased, UNCHANGED sent,
         aliased \/ contents' = contents,
         contents' = contents \/ e \in {"0", "TPESVCFAIL"}
  PROVE  IInv'
<1>1. Types /\ LoopRuns /\ FailedSoFar /\ Known /\ SpoiltBefore /\ SpoiltSent
  BY DEF IInv
<1>2. retry \in Nat /\ retries \in Nat /\ retry <= retries /\ Attempt \in Attempts
  BY <1>1, RetriesAssumption DEF Types, LoopRuns, Attempts, Attempt
<1>3. PICK n : n = Attempt
  OBVIOUS
<1>4. PICK kind : kind = IF e = "0" THEN "success" ELSE e
  OBVIOUS
<1>5. /\ errno' = e /\ retry' = retry + 1 /\ retry' = n
      /\ answer' = [answer EXCEPT ![n] = [kind |-> kind, code |-> code]]
      /\ IF Again(n, e # "0") THEN pc' = "call" /\ result' = result
         ELSE /\ result' = Outcome(e, code)
              /\ pc' = IF e \in Failures THEN "threw" ELSE "returned"
  BY <1>3, <1>4 DEF Finish, Attempt
<1>6. kind \in {"success"} \cup Errors
  BY <1>4
<1>7. n \in Attempts /\ n = retry + 1 /\ n \in 1..(retries + 1)
  BY <1>2, <1>3, RetriesAssumption DEF Attempt
<1>8. Types'
  <2>1. answer' \in [Attempts -> [kind : {"none", "success"} \cup Errors, code : Codes]]
    BY <1>1, <1>5, <1>6 DEF Types
  <2>2. result' \in [code : Codes \cup {0, FAILED}, thrown : TuxedoExceptions \cup {None}]
    BY <1>1, <1>5, OutcomeType DEF Types
  <2>3. retry' \in 0..(MaxRetries + 1)
    BY <1>5, <1>7, RetriesAssumption DEF Attempts
  <2>4. pc' \in {"call", "wait", "returned", "threw"}
    BY <1>5
  <2>5. sent' \in [Attempts -> Contents \cup {"nothing"}] /\ retries' \in 0..MaxRetries
    BY <1>1 DEF Types
  <2> QED  BY <1>5, <2>1, <2>2, <2>3, <2>4, <2>5 DEF Types
<1>9. /\ Done' <=> ~Again(n, e # "0")
      /\ Again(n, e # "0") <=> n <= retries /\ e # "0"
  BY <1>5 DEF Done, Again
<1>10. LoopRuns'
  BY <1>2, <1>5, <1>7, <1>9 DEF LoopRuns
<1>11. /\ answer'[n] = [kind |-> kind, code |-> code]
       /\ \A b \in Attempts \ {n} : answer'[b] = answer[b]
  BY <1>1, <1>5, <1>7 DEF Types
<1>12. kind = "success" <=> e = "0"
  BY <1>4 DEF Errors, Failures
<1>13. FailedSoFar'
  <2>1. \A b \in Attempts : answer[b].kind # "success" /\ (b > retry => answer[b].kind = "none")
    BY <1>1 DEF FailedSoFar
  <2> SUFFICES ASSUME NEW b \in Attempts
               PROVE  /\ b < retry' => answer'[b].kind # "success"
                      /\ b > retry' => answer'[b].kind = "none"
                      /\ ~Done' => answer'[b].kind # "success"
    BY DEF FailedSoFar
  <2>2. CASE b = n
    BY <1>5, <1>7, <1>9, <1>11, <1>12, <2>2 DEF Attempts
  <2>3. CASE b # n
    BY <1>2, <1>5, <1>7, <1>11, <2>1, <2>3 DEF Attempts
  <2> QED  BY <2>2, <2>3
<1>14. Known'
  BY <1>1, <1>2, <1>5, <1>7 DEF Known, Attempts
<1>15. HonestResult'
  <2> SUFFICES ASSUME Done'
               PROVE  /\ errno' # "0" => retry' >= retries'
                      /\ CASE kind = "success" ->
                                result' = Returns(0) /\ server'[n] = "served"
                           [] kind = "TPESVCFAIL" ->
                                /\ result'.thrown = None /\ result'.code # 0
                                /\ result'.code > 0 => result'.code = code
                                /\ server'[n] = "served"
                           [] OTHER ->
                                pc' = "threw" /\ result' = Throws(HandleTperrno(kind))
    BY <1>5, <1>11 DEF HonestResult
  <2>1. errno' # "0" => retry' >= retries'
    BY <1>2, <1>5, <1>7, <1>9
  <2>2. /\ result' = Outcome(e, code)
        /\ pc' = IF e \in Failures THEN "threw" ELSE "returned"
    BY <1>5, <1>9
  <2>3. CASE e = "0"
    BY <1>3, <1>12, <2>1, <2>2, <2>3, OutcomeType
  <2>4. CASE e = "TPESVCFAIL"
    <3>1. result' = Returns(IF code > 0 THEN code ELSE FAILED)
      BY <2>2, <2>4, OutcomeType
    <3>2. result'.thrown = None /\ result'.code # 0 /\ (result'.code > 0 => result'.code = code)
      BY <3>1, CodesAssumption DEF Returns, FAILED
    <3>3. kind = "TPESVCFAIL" /\ server'[n] = "served"
      BY <1>3, <1>4, <2>4
    <3> QED  BY <2>1, <3>2, <3>3
  <2>5. CASE e \in Failures
    BY <1>4, <2>1, <2>2, <2>5, OutcomeType DEF Failures
  <2> QED  BY <2>3, <2>4, <2>5 DEF Errors
<1>16. InputKept' /\ InputSentThen'
  BY Zenon DEF IInv, InputKept, InputSentThen
<1>17. aliased' \in BOOLEAN
  BY Zenon DEF IInv
<1>18. ASSUME NEW a, FailedBefore(a)
       PROVE  FailedBefore(a)'
  <2>1. PICK b \in Attempts : b < a /\ answer[b].kind = "TPESVCFAIL"
    BY <1>18 DEF FailedBefore
  <2>2. b # n
    BY <1>1, <1>7, <2>1, RetriesAssumption DEF FailedSoFar, Types, Attempts
  <2> QED  BY <1>11, <2>1, <2>2 DEF FailedBefore
<1>19. SpoiltSent'
  BY <1>1, <1>18 DEF SpoiltSent, FailedBefore
<1>20. SpoiltBefore'
  <2>1. CASE e = "0"
    BY <1>9, <2>1 DEF SpoiltBefore
  <2>2. CASE e = "TPESVCFAIL"
    <3>1. answer'[n].kind = "TPESVCFAIL" /\ n < retry' + 1
      BY <1>4, <1>5, <1>7, <1>11, <2>2 DEF Attempts
    <3> QED  BY <1>7, <3>1 DEF SpoiltBefore, FailedBefore
  <2>3. CASE contents' = contents /\ contents = "request"
    BY <2>3 DEF SpoiltBefore
  <2>4. CASE contents' = contents /\ contents # "request"
    <3>1. PICK b \in Attempts : b < retry + 1 /\ answer[b].kind = "TPESVCFAIL"
      BY <1>1, <2>4 DEF SpoiltBefore, FailedBefore
    <3>2. b # n /\ b < retry' + 1
      BY <1>2, <1>5, <1>7, <3>1 DEF Attempts
    <3> QED  BY <1>11, <3>1, <3>2 DEF SpoiltBefore, FailedBefore
  <2> QED  BY <2>1, <2>2, <2>3, <2>4
<1> QED
  BY Zenon, <1>8, <1>10, <1>13, <1>14, <1>15, <1>16, <1>17, <1>19, <1>20 DEF IInv

\* The server takes or drops a request: the client notices nothing.
LEMMA ServerStep ==
  ASSUME IInv, NEW a \in Attempts, Serve(a) \/ Drop(a)
  PROVE  IInv'
<1>1. Types /\ LoopRuns /\ FailedSoFar /\ Known /\ HonestResult
  BY DEF IInv
<1>2. /\ retries' = retries /\ pc' = pc /\ retry' = retry /\ errno' = errno
      /\ tpurcode' = tpurcode /\ contents' = contents /\ sent' = sent
      /\ answer' = answer /\ result' = result
  BY DEF Serve, Drop
<1>3. PICK stage \in {"serving", "served"} : server' = [server EXCEPT ![a] = stage]
  BY DEF Serve, Drop
<1>4. server[a] \in {"queued", "serving"}
  BY DEF Serve, Drop
<1>5. Types' /\ LoopRuns' /\ FailedSoFar'
  BY <1>1, <1>2, <1>3 DEF Types, LoopRuns, FailedSoFar, Done
<1>6. Known'
  BY <1>1, <1>2, <1>3, <1>4 DEF Types, Known
<1>7. HonestResult'
  <2>1. \A b \in Attempts : server[b] = "served" => server'[b] = "served"
    BY <1>1, <1>3, <1>4 DEF Types
  <2>2. Done => retry \in Attempts
    BY <1>1, RetriesAssumption DEF Types, LoopRuns, Attempts
  <2> QED  BY <1>1, <1>2, <2>1, <2>2 DEF HonestResult, Done
<1>8. UNCHANGED <<aliased, contents, sent>>
  BY Zenon DEF Serve, Drop
<1>9. aliased' \in BOOLEAN /\ InputKept' /\ InputSentThen'
  BY Zenon, <1>8 DEF IInv, InputKept, InputSentThen
<1>10. SpoiltBefore' /\ SpoiltSent'
  BY <1>2 DEF IInv, SpoiltBefore, SpoiltSent, FailedBefore, Done
<1> QED  BY Zenon, <1>5, <1>6, <1>7, <1>9, <1>10 DEF IInv

\* tpcall sends what idata points at.
LEMMA SendStep ==
  ASSUME IInv, Send
  PROVE  IInv'
<1>1. Types /\ LoopRuns /\ FailedSoFar /\ Known /\ ~Done
  BY DEF IInv, Send, Done
<1>2. retry \in Nat /\ retries \in Nat /\ Attempt \in Attempts
  BY <1>1, RetriesAssumption DEF Types, LoopRuns, Attempts, Attempt
<1>3. /\ retries' = retries /\ pc' = "wait" /\ retry' = retry /\ errno' = errno
      /\ tpurcode' = tpurcode /\ contents' = contents
      /\ answer' = answer /\ result' = result
      /\ server' = [server EXCEPT ![Attempt] = "queued"]
      /\ sent' = [sent EXCEPT ![Attempt] = contents]
  BY DEF Send
<1>4. Types' /\ LoopRuns'
  BY <1>1, <1>2, <1>3 DEF Types, LoopRuns, Done
<1>5. FailedSoFar' /\ Known' /\ HonestResult'
  BY <1>1, <1>2, <1>3 DEF Types, FailedSoFar, Known, HonestResult, Done, Attempt
<1>6. aliased' = aliased
  BY Zenon DEF Send
<1>7. InputKept'
  BY Zenon, <1>3, <1>6 DEF IInv, InputKept
<1>8. InputSentThen'
  <2>1. aliased \/ contents = "request"
    BY Zenon DEF IInv, InputKept
  <2>2. aliased \/ \A a \in Attempts : sent'[a] \in {"nothing", "request"}
    <3>1. aliased \/ \A a \in Attempts : sent[a] \in {"nothing", "request"}
      BY Zenon DEF IInv, InputSentThen
    <3>2. sent \in [Attempts -> Contents \cup {"nothing"}]
      BY <1>1 DEF Types
    <3>3. \A a \in Attempts : sent'[a] = IF a = Attempt THEN contents ELSE sent[a]
      BY <1>3, <3>2
    <3> QED  BY <2>1, <3>1, <3>3
  <2> QED  BY Zenon, <1>6, <2>2 DEF InputSentThen
<1>9. SpoiltBefore' /\ SpoiltSent'
  <2>1. SpoiltBefore /\ SpoiltSent
    BY DEF IInv
  <2>2. contents = "request" \/ FailedBefore(Attempt)
    BY <1>1, <2>1 DEF SpoiltBefore, Attempt
  <2>3. \A a \in Attempts : sent'[a] = IF a = Attempt THEN contents ELSE sent[a]
    BY <1>1, <1>3 DEF Types
  <2>4. SpoiltSent'
    BY <1>3, <2>1, <2>2, <2>3 DEF SpoiltSent, FailedBefore
  <2>5. SpoiltBefore'
    BY <1>3, <2>2 DEF SpoiltBefore, FailedBefore, Attempt
  <2> QED  BY <2>4, <2>5
<1> QED
  <2>1. aliased' \in BOOLEAN
    BY Zenon, <1>6 DEF IInv
  <2> QED  BY Zenon, <1>4, <1>5, <1>7, <1>8, <1>9, <2>1 DEF IInv

\* Every step keeps the invariant.
LEMMA StepInv == IInv /\ [Next]_vars => IInv'
<1> SUFFICES ASSUME IInv, [Next]_vars PROVE IInv'
  OBVIOUS
<1>1. Types /\ LoopRuns
  BY DEF IInv
<1>2. tpurcode \in Codes /\ contents \in Contents
      /\ server \in [Attempts -> {"none", "queued", "serving", "served"}]
  BY <1>1 DEF Types
<1>3. ASSUME ~Done, NEW e \in Failures, NEW code \in Codes, Finish(e, code),
             tpurcode' = tpurcode, contents' = contents, UNCHANGED retries,
             UNCHANGED aliased, UNCHANGED sent,
             \/ server' = server
             \/ /\ server' = [server EXCEPT ![Attempt] = "served"]
                /\ server[Attempt] = "serving"
      PROVE  IInv'
  <2>1. /\ server' \in [Attempts -> {"none", "queued", "serving", "served"}]
        /\ \A a \in Attempts : server'[a] # "none" => server[a] # "none"
    BY <1>2, <1>3
  <2>2. e \in Errors \cup {"0"} /\ e \notin {"0", "TPESVCFAIL"}
    BY DEF Errors, Failures
  <2>3. tpurcode' \in Codes /\ contents' \in Contents
    BY <1>2, <1>3
  <2> QED  BY <1>3, <2>1, <2>2, <2>3, FinishStep
<1>4. CASE NotSent
  <2>1. ~Done /\ "TPENOENT" \in Failures
    BY <1>4 DEF NotSent, Done, Failures
  <2> QED  BY <1>2, <1>3, <1>4, <2>1 DEF NotSent
<1>5. CASE GiveUp
  <2>1. PICK e \in {"TPETIME", "TPGOTSIG"} : Finish(e, tpurcode)
    BY <1>5 DEF GiveUp
  <2>2. ~Done /\ e \in Failures
    BY <1>5 DEF GiveUp, Done, Failures
  <2> QED  BY <1>2, <1>3, <1>5, <2>1, <2>2 DEF GiveUp
<1>6. CASE ServerDies
  <2>1. ~Done /\ "TPESVCERR" \in Failures
    BY <1>6 DEF ServerDies, Done, Failures
  <2> QED  BY <1>2, <1>3, <1>6, <2>1 DEF ServerDies
<1>7. CASE Answered
  <2>1. PICK e \in {"0", "TPESVCFAIL"}, code \in Codes : tpurcode' = code /\ Finish(e, code)
    BY <1>7 DEF Answered
  <2>2. ~Done /\ server[Attempt] = "serving"
        /\ server' = [server EXCEPT ![Attempt] = "served"]
        /\ UNCHANGED retries /\ UNCHANGED sent
    BY <1>7 DEF Answered, Done
  <2>3. Attempt \in Attempts
    BY <1>1, <2>2, RetriesAssumption DEF Types, LoopRuns, Attempts, Attempt
  <2>4. /\ server' \in [Attempts -> {"none", "queued", "serving", "served"}]
        /\ \A a \in Attempts : server'[a] # "none" => server[a] # "none"
        /\ server'[Attempt] = "served"
    BY <1>2, <2>2, <2>3
  <2>5. (aliased \/ contents' = contents) /\ UNCHANGED aliased
    BY Zenon, <1>7 DEF Answered, AnswerLands
  <2>6. contents' \in Contents
    <3>1. contents' \in {"answer", "freed"} \/ contents' = contents
      BY Zenon, <1>7 DEF Answered, AnswerLands
    <3> QED  BY <1>2, <3>1 DEF Contents
  <2>7. e \in Errors \cup {"0"}
    BY DEF Errors
  <2> QED  BY <2>1, <2>2, <2>4, <2>5, <2>6, <2>7, FinishStep
<1>8. CASE UNCHANGED vars
  <2>1. /\ retries' = retries /\ pc' = pc /\ retry' = retry /\ errno' = errno
        /\ tpurcode' = tpurcode /\ contents' = contents /\ sent' = sent /\ server' = server
        /\ answer' = answer /\ result' = result /\ aliased' = aliased
    BY Zenon, <1>8 DEF vars
  <2>2. Types' /\ LoopRuns' /\ FailedSoFar' /\ Known' /\ HonestResult'
    BY <2>1 DEF IInv, Types, LoopRuns, FailedSoFar, Known, HonestResult, Done
  <2>3. aliased' \in BOOLEAN /\ InputKept' /\ InputSentThen'
    BY Zenon, <2>1 DEF IInv, InputKept, InputSentThen
  <2>4. SpoiltBefore' /\ SpoiltSent'
    BY <2>1 DEF IInv, SpoiltBefore, SpoiltSent, FailedBefore, Done
  <2> QED  BY Zenon, <2>2, <2>3, <2>4 DEF IInv
<1> QED
  BY <1>4, <1>5, <1>6, <1>7, <1>8, SendStep, ServerStep DEF Next, Call

-----------------------------------------------------------------------------
\* Which attempts were made and how they ended is known in every state.
THEOREM Invariance == Spec => []IInv
<1> QED  BY InitInv, StepInv, PTL DEF Spec

\* The variables keep their types: attempts and codes stay in range.
THEOREM TypeCorrect == Spec => []TypeOK
<1> QED  BY Gives, Invariance, PTL

\* The service works only for attempts call made, and not again after a success
\* (transaction.cpp:54), whatever becomes of late requests.
THEOREM ServedForAttempts == Spec => []NoneAfterSuccess
<1> QED  BY Gives, Invariance, PTL

\* call returns or throws what its last attempt was told (transaction.cpp:58).
THEOREM ResultHonest == Spec => []HonestResult
<1>1. IInv => HonestResult
  BY DEF IInv
<1> QED  BY <1>1, Invariance, PTL

\* A retry sends something else than the caller's data only if the service answered
\* an earlier attempt, in the buffer that served for both (transaction.cpp:36): given
\* up attempts and their late answers never change what is sent.
THEOREM InputSent == Spec => []SpoiltOnlyByAnswer
<1> QED  BY Gives, Invariance, PTL
-----------------------------------------------------------------------------
(* AsyncCall.  A descriptor names one open call, and the last call an object *)
(* made is its own.                                                          *)

\* The call an object made last is its own.
OwnLast == \A o \in Objects : last[o] # 0 => call[last[o]].by = o

\* After a reply(&cd) that timed out the object names no call, not even a newer
\* one of another object that got the same descriptor.
CutForgot == \A o \in cut : descriptor[o] \notin Descriptors

ACInv == ACTypeOK /\ OwnLast /\ CutForgot /\ AnsweredAsMeant /\ LastCallReachable

\* A descriptor names one open call at most.
LEMMA OneCall ==
  ASSUME ACTypeOK, NEW n, IsOpen(n), NEW m, m \in CallsOf(call[n].cd)
  PROVE  m = n
  BY DEF ACTypeOK, IsOpen, CallsOf

\* An open call has a descriptor of Tuxedo and an object.
LEMMA OpenCalls ==
  ASSUME ACTypeOK, NEW n, IsOpen(n)
  PROVE  /\ n \in Calls /\ call[n].fate \in Open
         /\ call[n] \in [fate : Open \cup Over, by : Objects, cd : Descriptors,
                         to : Objects \cup {None}, meant : 0..MaxCalls]
  BY ObjectsAssumption DEF ACTypeOK, IsOpen, NoCall, Open

\* The initial state satisfies the invariant.
LEMMA ACInitInv == ACInit => ACInv
  BY MaxCallsAssumption
  DEF ACInit, ACInv, ACTypeOK, OwnLast, CutForgot, AnsweredAsMeant, LastCallReachable,
      NoCall, IsOpen, Open, Over

\* What a call looks like when o, asked for call m, ended call n.
LEMMA Settled ==
  ASSUME ACInv, NEW n, IsOpen(n), NEW fate \in Over, NEW o \in Objects,
         NEW m, Settle(n, fate, o, m)
  PROVE  /\ call' = [call EXCEPT ![n] =
                       [fate |-> fate, by |-> call[n].by, cd |-> call[n].cd, to |-> o,
                        meant |-> IF IsOpen(m) THEN m ELSE 0]]
         /\ call' \in [Calls -> {NoCall} \cup
              [fate : Open \cup Over, by : Objects, cd : Descriptors,
               to : Objects \cup {None}, meant : 0..MaxCalls]]
<1>1. n \in Calls /\ call[n] \in [fate : Open \cup Over, by : Objects, cd : Descriptors,
                                  to : Objects \cup {None}, meant : 0..MaxCalls]
  BY OpenCalls DEF ACInv
<1>2. call' = [call EXCEPT ![n] =
                 [fate |-> fate, by |-> call[n].by, cd |-> call[n].cd, to |-> o,
                  meant |-> IF IsOpen(m) THEN m ELSE 0]]
  BY DEF Settle
<1>3. (IF IsOpen(m) THEN m ELSE 0) \in 0..MaxCalls
  BY MaxCallsAssumption DEF IsOpen, Calls
<1> QED  BY <1>1, <1>2, <1>3 DEF ACInv, ACTypeOK

\* Ending the call that was asked for, by its own object, keeps the invariant.
LEMMA SettleStep ==
  ASSUME ACInv, NEW n, IsOpen(n), NEW fate \in Over, NEW m, NEW o \in Objects,
         Settle(n, fate, o, m), IsOpen(m) => m = n /\ call[n].by = o,
         UNCHANGED <<last, made>>
  PROVE  /\ call' \in [Calls -> {NoCall} \cup
              [fate : Open \cup Over, by : Objects, cd : Descriptors,
               to : Objects \cup {None}, meant : 0..MaxCalls]]
         /\ OwnLast' /\ AnsweredAsMeant'
         /\ ~IsOpen(n)'
         /\ \A k : IsOpen(k)' => IsOpen(k)
         /\ \A k \in Calls : call'[k].cd = call[k].cd
         /\ \A j, k \in Calls :
              j # k /\ {call'[j].fate, call'[k].fate} \subseteq Open => call'[j].cd # call'[k].cd
<1> DEFINE r == [fate |-> fate, by |-> call[n].by, cd |-> call[n].cd, to |-> o,
                 meant |-> IF IsOpen(m) THEN m ELSE 0]
<1>1. call' = [call EXCEPT ![n] = r]
  BY Settled
<1>2. call' \in [Calls -> {NoCall} \cup
              [fate : Open \cup Over, by : Objects, cd : Descriptors,
               to : Objects \cup {None}, meant : 0..MaxCalls]]
  BY Settled
<1>3. n \in Calls /\ fate \notin Open /\ DOMAIN call = Calls
  BY OpenCalls DEF ACInv, ACTypeOK, Open, Over
<1>4. \A k \in Calls : /\ k # n => call'[k] = call[k]
                       /\ k = n => call'[k] = r
  BY <1>1, <1>3
<1>5. \A k \in Calls : call'[k].cd = call[k].cd /\ call'[k].by = call[k].by
  BY <1>4
<1>6. OwnLast'
  BY <1>5, MaxCallsAssumption DEF OwnLast, ACInv, ACTypeOK, Calls
<1>7. AnsweredAsMeant'
  BY <1>4, <1>3 DEF AnsweredAsMeant, ACInv
<1>8. ~IsOpen(n)' /\ \A k : IsOpen(k)' => IsOpen(k)
  BY <1>4, <1>3 DEF IsOpen
<1>9. \A j, k \in Calls :
         j # k /\ {call'[j].fate, call'[k].fate} \subseteq Open => call'[j].cd # call'[k].cd
  BY <1>4, <1>3 DEF ACInv, ACTypeOK
<1> QED  BY <1>2, <1>5, <1>6, <1>7, <1>8, <1>9

\* ... whatever the object then remembers, as long as that is right.
LEMMA EndStep ==
  ASSUME ACInv, NEW n, IsOpen(n), NEW fate \in Over, NEW m, NEW o \in Objects,
         Settle(n, fate, o, m), IsOpen(m) => m = n /\ call[n].by = o,
         UNCHANGED <<last, cut, made>>,
         NEW d, d = 0 \/ d = descriptor[o], d = 0 => descriptor[o] \in {0, -1, call[n].cd},
         descriptor' = [descriptor EXCEPT ![o] = d]
  PROVE  ACInv'
<1>1. descriptor' \in [Objects -> Descriptors \cup {0, -1}]
  BY DEF ACInv, ACTypeOK
<1>2. ACTypeOK'
  BY <1>1, SettleStep DEF ACInv, ACTypeOK
<1>3. CutForgot'
  BY DescriptorsAssumption DEF ACInv, ACTypeOK, CutForgot
<1>4. LastCallReachable'
  <2> SUFFICES ASSUME NEW p \in Objects \ cut, IsOpen(last[p])'
               PROVE  descriptor'[p] = call'[last[p]].cd
    BY DEF LastCallReachable
  <2>1. IsOpen(last[p]) /\ last[p] # n /\ last[p] \in Calls
    BY SettleStep DEF IsOpen
  <2>2. descriptor[p] = call[last[p]].cd /\ call'[last[p]].cd = call[last[p]].cd
    BY <2>1, SettleStep DEF ACInv, LastCallReachable
  <2>3. ASSUME p = o, d = 0 PROVE FALSE
    <3>1. call[last[p]].cd \in Descriptors
      BY <2>1, OpenCalls DEF ACInv
    <3>2. call[last[p]].cd = call[n].cd
      BY <2>2, <2>3, <3>1, DescriptorsAssumption
    <3>3. last[p] \in CallsOf(call[n].cd)
      BY <2>1, <3>2 DEF CallsOf
    <3> QED  BY <2>1, <3>3, OneCall DEF ACInv
  <2> QED  BY <2>2, <2>3 DEF ACInv, ACTypeOK
<1> QED  BY <1>2, <1>3, <1>4, SettleStep DEF ACInv

\* reply() and cancel() of an object end the object's last call, if it is open.
LEMMA LastIsMeant ==
  ASSUME ACInv, NEW o \in Objects, NEW n \in CallsOf(descriptor[o])
  PROVE  IsOpen(n) /\ (IsOpen(last[o]) => last[o] = n /\ call[n].by = o)
<1>1. IsOpen(n) /\ call[n].cd = descriptor[o] /\ descriptor[o] \in Descriptors
  BY OpenCalls DEF CallsOf, ACInv
<1>2. ASSUME IsOpen(last[o]) PROVE last[o] = n /\ call[n].by = o
  <2>1. descriptor[o] = call[last[o]].cd
    BY <1>1, <1>2 DEF ACInv, CutForgot, LastCallReachable
  <2>2. n = last[o]
    BY <1>1, <1>2, <2>1, OneCall DEF ACInv
  <2> QED  BY <1>2, <2>2 DEF ACInv, OwnLast, IsOpen, Calls
<1> QED  BY <1>1, <1>2

\* The invariant is kept by every step.
LEMMA ACStepInv == ACInv /\ [ACNext]_acVars => ACInv'
<1> SUFFICES ASSUME ACInv, [ACNext]_acVars PROVE ACInv'
  OBVIOUS
<1>1. ASSUME NEW n \in Calls, Answer(n) PROVE ACInv'
  <2>1. /\ n \in Calls /\ "ready" \in Open /\ call[n].fate = "pending"
        /\ call[n] \in [fate : Open \cup Over, by : Objects, cd : Descriptors,
                        to : Objects \cup {None}, meant : 0..MaxCalls]
    BY <1>1, OpenCalls DEF Answer, ACInv, Open
  <2>2. /\ call'[n] = [call[n] EXCEPT !.fate = "ready"]
        /\ \A k \in Calls \ {n} : call'[k] = call[k]
    BY <1>1 DEF Answer, ACInv, ACTypeOK
  <2>3. call' \in [Calls -> {NoCall} \cup
              [fate : Open \cup Over, by : Objects, cd : Descriptors,
               to : Objects \cup {None}, meant : 0..MaxCalls]]
    BY <1>1, <2>1 DEF Answer, ACInv, ACTypeOK
  <2>4. \A k \in Calls : /\ call'[k].cd = call[k].cd /\ call'[k].by = call[k].by
                         /\ call'[k].to = call[k].to /\ call'[k].meant = call[k].meant
                         /\ call'[k].fate \in Open <=> call[k].fate \in Open
    BY <2>1, <2>2 DEF Open
  <2>5. ACTypeOK'
    <3> SUFFICES \A j, k \in Calls :
         j # k /\ {call'[j].fate, call'[k].fate} \subseteq Open => call'[j].cd # call'[k].cd
      BY <1>1, <2>3 DEF Answer, ACInv, ACTypeOK
    <3> QED  BY <2>4 DEF ACInv, ACTypeOK
  <2>6. OwnLast' /\ CutForgot' /\ AnsweredAsMeant' /\ LastCallReachable'
    BY <1>1, <2>4, MaxCallsAssumption
    DEF Answer, ACInv, ACTypeOK, Calls, OwnLast, CutForgot, AnsweredAsMeant, LastCallReachable, IsOpen
  <2> QED  BY <2>5, <2>6 DEF ACInv
<1>2. ASSUME NEW o \in Objects, Acall(o) PROVE ACInv'
  <2>1. PICK d \in FreeDescriptors :
          /\ descriptor' = [descriptor EXCEPT ![o] = d]
          /\ call' = [call EXCEPT ![made + 1] =
                 [fate |-> "pending", by |-> o, cd |-> d, to |-> None, meant |-> 0]]
    BY <1>2 DEF Acall, Remember
  <2>2. /\ made + 1 \in Calls /\ made' = made + 1 /\ d \in Descriptors
        /\ \A k \in Calls : call[k].fate \in Open => call[k].cd # d
    <3>1. made + 1 \in Calls /\ made' = made + 1
      BY <1>2, MaxCallsAssumption DEF Acall, ACInv, ACTypeOK, Calls
    <3>2. d \in Descriptors /\ CallsOf(d) = {}
      BY <2>1 DEF FreeDescriptors
    <3> QED  BY <3>1, <3>2 DEF CallsOf, IsOpen
  <2>3. /\ call'[made + 1] =
             [fate |-> "pending", by |-> o, cd |-> d, to |-> None, meant |-> 0]
        /\ \A k \in Calls \ {made + 1} : call'[k] = call[k]
    BY <2>1, <2>2 DEF ACInv, ACTypeOK
  <2>4. ACTypeOK'
    <3>1. call' \in [Calls -> {NoCall} \cup
              [fate : Open \cup Over, by : Objects, cd : Descriptors,
               to : Objects \cup {None}, meant : 0..MaxCalls]]
      BY <2>1, <2>2, MaxCallsAssumption DEF ACInv, ACTypeOK, Open
    <3>2. last' \in [Objects -> 0..made'] /\ cut' \subseteq Objects /\ made' \in 0..MaxCalls
      BY <1>2, <2>2, MaxCallsAssumption DEF Acall, ACInv, ACTypeOK
    <3>3. \A j, k \in Calls :
         j # k /\ {call'[j].fate, call'[k].fate} \subseteq Open => call'[j].cd # call'[k].cd
      BY <2>2, <2>3 DEF ACInv, ACTypeOK
    <3>4. descriptor' \in [Objects -> Descriptors \cup {0, -1}]
      BY <2>1, <2>2 DEF ACInv, ACTypeOK
    <3> QED  BY <3>1, <3>2, <3>3, <3>4 DEF ACTypeOK
  <2>5. \A p \in Objects : /\ p = o => last'[p] = made + 1 /\ descriptor'[p] = d
                           /\ p # o => /\ last'[p] = last[p] /\ descriptor'[p] = descriptor[p]
                                       /\ last[p] # made + 1
    BY <1>2, <2>1, MaxCallsAssumption DEF Acall, ACInv, ACTypeOK
  <2>6. OwnLast'
    BY <2>2, <2>3, <2>5, MaxCallsAssumption DEF ACInv, ACTypeOK, OwnLast, Calls
  <2>7. CutForgot'
    BY <1>2, <2>5 DEF Acall, ACInv, ACTypeOK, CutForgot
  <2>8. AnsweredAsMeant'
    BY <2>3 DEF ACInv, AnsweredAsMeant
  <2>9. LastCallReachable'
    BY <1>2, <2>2, <2>3, <2>5 DEF Acall, ACInv, LastCallReachable, IsOpen
  <2> QED  BY <2>4, <2>6, <2>7, <2>8, <2>9 DEF ACInv
<1>3. ASSUME NEW o \in Objects, AcallFails(o) PROVE ACInv'
  <2>1. ACTypeOK' /\ OwnLast' /\ AnsweredAsMeant'
    BY <1>3, MaxCallsAssumption DEF AcallFails, ACInv, ACTypeOK, OwnLast, AnsweredAsMeant
  <2>2. CutForgot' /\ LastCallReachable'
    BY <1>3, DescriptorsAssumption
    DEF AcallFails, ACInv, ACTypeOK, CutForgot, LastCallReachable, IsOpen, Calls
  <2> QED  BY <2>1, <2>2 DEF ACInv
<1>4. ASSUME UNCHANGED acVars PROVE ACInv'
  BY <1>4 DEF acVars, ACInv, ACTypeOK, OwnLast, CutForgot, AnsweredAsMeant, LastCallReachable, IsOpen
<1>5. ASSUME NEW o \in Objects, NEW n \in CallsOf(descriptor[o]), NEW fate \in Over,
             Settle(n, fate, o, last[o]), UNCHANGED <<descriptor, last, cut, made>>
      PROVE  ACInv'
  <2>1. PICK m : m = last[o]
    OBVIOUS
  <2>2. PICK d : d = descriptor[o]
    OBVIOUS
  <2>3. descriptor' = [descriptor EXCEPT ![o] = d]
    BY <1>5, <2>2 DEF ACInv, ACTypeOK
  <2>4. IsOpen(n) /\ Settle(n, fate, o, m) /\ (IsOpen(m) => m = n /\ call[n].by = o)
    BY <1>5, <2>1, LastIsMeant
  <2>5. UNCHANGED <<last, cut, made>> /\ (d = 0 => descriptor[o] \in {0, -1, call[n].cd})
    BY <1>5, <2>2
  <2> QED  BY <2>2, <2>3, <2>4, <2>5, EndStep
<1>6. ASSUME NEW o \in Objects, ReplyLast(o) PROVE ACInv'
  BY <1>4, <1>5, <1>6 DEF ReplyLast, Getrply, GetrplyFails, Over, acVars
<1>7. ASSUME NEW o \in Objects, CancelLast(o) PROVE ACInv'
  BY <1>4, <1>5, <1>7 DEF CancelLast, Tpcancel, Over, acVars
<1>8. ASSUME NEW o \in Objects, NEW n \in Calls, Names(o, n), NEW k \in CallsOf(call[n].cd),
             NEW fate \in Over, Settle(k, fate, o, n), UNCHANGED <<last, cut, made>>,
             NEW d, d = descriptor[o] \/ d = Forget(o, call[n].cd),
             descriptor' = [descriptor EXCEPT ![o] = d]
      PROVE  ACInv'
  <2>1. IsOpen(n) /\ k = n /\ call[n].by = o
    BY <1>8, OneCall DEF Names, ACInv
  <2>2. (d = 0 \/ d = descriptor[o]) /\ (d = 0 => descriptor[o] \in {0, -1, call[n].cd})
    BY <1>8 DEF Forget
  <2>3. Settle(n, fate, o, n) /\ IsOpen(n) /\ call[n].by = o
    BY <1>8, <2>1
  <2> QED  BY <1>8, <2>2, <2>3, EndStep
<1>9. ASSUME NEW o \in Objects, NEW n \in Calls, ReplyNamed(o, n) PROVE ACInv'
  <2>1. CASE Getrply(call[n].cd, o, n) /\ UNCHANGED cut
    BY <1>8, <1>9, <2>1 DEF ReplyNamed, Getrply, Over
  <2>2. CASE GetrplyFails /\ cut' = IF n = last[o] THEN cut \cup {o} ELSE cut
    <3>1. UNCHANGED <<call, last, made>> /\ IsOpen(n)
      BY <1>9, <2>2 DEF ReplyNamed, GetrplyFails, Names
    <3>2. \A p \in Objects : /\ p # o => descriptor'[p] = descriptor[p]
                             /\ p = o => descriptor'[p] = Forget(o, call[n].cd)
      BY <1>9 DEF ReplyNamed, ACInv, ACTypeOK
    <3>3. ACTypeOK' /\ OwnLast' /\ AnsweredAsMeant'
      BY <1>9, <2>2, <3>1 DEF ReplyNamed, Forget, ACInv, ACTypeOK, OwnLast, AnsweredAsMeant
    <3>4. CutForgot'
      <4> SUFFICES ASSUME NEW p \in cut' PROVE descriptor'[p] \notin Descriptors
        BY DEF CutForgot
      <4>1. CASE p \in cut
        BY <3>2, <4>1, DescriptorsAssumption DEF ACInv, ACTypeOK, CutForgot, Forget
      <4>2. CASE p \notin cut
        BY <2>2, <3>1, <3>2, <4>2, DescriptorsAssumption DEF ACInv, LastCallReachable, Forget
      <4> QED  BY <4>1, <4>2
    <3>5. LastCallReachable'
      <4> SUFFICES ASSUME NEW p \in Objects \ cut', IsOpen(last[p])
                   PROVE  descriptor'[p] = call[last[p]].cd
        BY <3>1 DEF LastCallReachable, IsOpen
      <4>1. p \in Objects \ cut /\ descriptor[p] = call[last[p]].cd
        BY <2>2 DEF ACInv, LastCallReachable
      <4>2. ASSUME p = o, call[n].cd = descriptor[o] PROVE FALSE
        BY <2>2, <3>1, <4>1, <4>2, OneCall DEF CallsOf, ACInv
      <4> QED  BY <3>2, <4>1, <4>2 DEF Forget
    <3> QED  BY <3>3, <3>4, <3>5 DEF ACInv
  <2> QED  BY <1>9, <2>1, <2>2 DEF ReplyNamed
<1>10. ASSUME NEW o \in Objects, NEW n \in Calls, CancelNamed(o, n) PROVE ACInv'
  <2>1. descriptor' = [descriptor EXCEPT ![o] = descriptor[o]]
    BY <1>10 DEF CancelNamed, ACInv, ACTypeOK
  <2> QED  BY <1>4, <1>8, <1>10, <2>1 DEF CancelNamed, Tpcancel, Over, acVars
<1> QED
  BY <1>1, <1>2, <1>3, <1>4, <1>6, <1>7, <1>9, <1>10 DEF ACNext

\* The descriptors, the calls and what objects remember of them fit together.
THEOREM ACInvariance == ACSpec => []ACInv
  BY ACInitInv, ACStepInv, PTL DEF ACSpec

\* Types are right, and no two open calls have the same descriptor.
THEOREM ACTypeCorrect == ACSpec => []ACTypeOK
<1>1. ACInv => ACTypeOK
  BY DEF ACInv
<1> QED  BY <1>1, ACInvariance, PTL

\* Asking for an open call ends that call (transaction.cpp:141-181).
THEOREM RightCallEnded == ACSpec => []AnsweredAsMeant
<1>1. ACInv => AnsweredAsMeant
  BY DEF ACInv
<1> QED  BY <1>1, ACInvariance, PTL

\* An object keeps its last call in reach (transaction.cpp:147-152).
THEOREM LastCallKept == ACSpec => []LastCallReachable
<1>1. ACInv => LastCallReachable
  BY DEF ACInv
<1> QED  BY <1>1, ACInvariance, PTL
=============================================================================
