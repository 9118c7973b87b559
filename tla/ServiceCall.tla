----------------------------- MODULE ServiceCall ----------------------------
(***************************************************************************)
(* transaction::call: a synchronous service call with retries.             *)
(*                                                                         *)
(* The client sends one request per attempt and waits.  The server works   *)
(* on its own: a request whose caller stopped waiting (timeout, signal)    *)
(* may still be served later, when the client is in another attempt or     *)
(* has long returned.                                                      *)
(*                                                                         *)
(* Attempts are numbered from 1; attempt a is made with retry = a - 1.     *)
(***************************************************************************)
EXTENDS Integers, TuxedoErrors

CONSTANTS
  MaxRetries,   \* bound: the largest "retries" argument
  Codes         \* values a service may set tpurcode to

ASSUME RetriesAssumption == MaxRetries \in Nat
ASSUME CodesAssumption == Codes \subseteq Nat /\ 0 \in Codes

Attempts == 1..(MaxRetries + 1)

\* errors of tpcall that come without an answer of the service
Failures == {"TPETIME", "TPESVCERR", "TPGOTSIG", "TPENOENT"}
Errors   == Failures \cup {"TPESVCFAIL"}

FAILED == -1

VARIABLES
  retries,    \* the argument
  aliased,    \* idata and *odata are one buffer, as in call(buffer&)
  pc,         \* "call": about to call tpcall; "wait": inside it; then the end
  retry,      \* attempts made so far
  errno,      \* tperrno, "0" after a success
  tpurcode,   \* Tuxedo's user return code, set by every answer
  contents,   \* what idata points at: the request, an answer, or freed memory
  server,     \* what became of the request of each attempt
  sent,       \* history: what each attempt sent
  answer,     \* history: how each attempt was answered, and with which code
  result      \* what call returns or throws

vars == <<retries, aliased, pc, retry, errno, tpurcode, contents, server, sent,
          answer, result>>

NoAnswer == [kind |-> "none", code |-> 0]
Contents == {"request", "answer", "freed"}
Returns(code) == [code |-> code, thrown |-> None]
Throws(class) == [code |-> FAILED, thrown |-> class]

TypeOK ==
  /\ retries \in 0..MaxRetries /\ aliased \in BOOLEAN
  /\ pc \in {"call", "wait", "returned", "threw"}
  /\ retry \in 0..(MaxRetries + 1)
  /\ errno \in Errors \cup {"0"} /\ tpurcode \in Codes
  /\ contents \in Contents
  /\ server \in [Attempts -> {"none", "queued", "serving", "served"}]
  /\ sent \in [Attempts -> Contents \cup {"nothing"}]
  /\ answer \in [Attempts -> [kind : {"none", "success"} \cup Errors, code : Codes]]
  /\ result \in [code : Codes \cup {0, FAILED}, thrown : TuxedoExceptions \cup {None}]

Init ==
  /\ retries \in 0..MaxRetries /\ aliased \in BOOLEAN
  /\ pc = "call" /\ retry = 0
  /\ errno = "0" /\ tpurcode = 0
  /\ contents = "request"
  /\ server = [a \in Attempts |-> "none"]
  /\ sent = [a \in Attempts |-> "nothing"]
  /\ answer = [a \in Attempts |-> NoAnswer]
  /\ result = Returns(FAILED)

-----------------------------------------------------------------------------
(* Helpers *)

Attempt == retry + 1       \* the attempt tpcall is in

\* while ( (retry <= retries) && (rc != 0) ), after retry++: r attempts were made
AlwaysAgain(r, failed) == r <= retries              \* mutant: a success is repeated
Again(r, failed) == r <= retries /\ failed

\* what the caller gets: handle_tperrno( tperrno, ... ) after the loop
CodeAsIs(e, code) ==                       \* mutant: code 0 looks like success
  IF e \in {"0", "TPESVCFAIL"} THEN Returns(code) ELSE Throws(HandleTperrno(e))
Outcome(e, code) ==
  CASE e = "0"          -> Returns(0)
    [] e = "TPESVCFAIL" -> Returns(IF code > 0 THEN code ELSE FAILED)
    [] OTHER            -> Throws(HandleTperrno(e))

\* an answer goes to *odata; a large one goes to new memory and *odata is freed
AlwaysInPlace == contents' \in {"answer", "freed"}  \* mutant: idata is overwritten
AnswerLands ==
  IF aliased THEN contents' \in {"answer", "freed"} ELSE UNCHANGED contents

\* tpcall is over with this error number and user code: retry or leave
Finish(e, code) ==
  /\ errno' = e
  /\ retry' = retry + 1
  /\ answer' = [answer EXCEPT ![Attempt] =
                  [kind |-> IF e = "0" THEN "success" ELSE e, code |-> code]]
  /\ IF Again(retry + 1, e # "0")
       THEN pc' = "call" /\ UNCHANGED result
       ELSE /\ result' = Outcome(e, code)
            /\ pc' = IF e \in Failures THEN "threw" ELSE "returned"

-----------------------------------------------------------------------------
(* The client *)

\* tpcall sends what idata points at
Send ==
  /\ pc = "call"
  /\ pc' = "wait"
  /\ server' = [server EXCEPT ![Attempt] = "queued"]
  /\ sent' = [sent EXCEPT ![Attempt] = contents]
  /\ UNCHANGED <<retries, aliased, retry, errno, tpurcode, contents, answer, result>>

\* tpcall fails before anything is sent
NotSent ==
  /\ pc = "call"
  /\ Finish("TPENOENT", tpurcode)
  /\ UNCHANGED <<retries, aliased, tpurcode, contents, server, sent>>

WaitForever == FALSE                       \* mutant: tpcall has no timeout

\* the client stops waiting: the request stays with the server
GiveUp ==
  /\ pc = "wait"
  /\ \E e \in {"TPETIME", "TPGOTSIG"} : Finish(e, tpurcode)
  /\ UNCHANGED <<retries, aliased, tpurcode, contents, server, sent>>

\* the service answers in time, with success or with TPFAIL
Answered ==
  /\ pc = "wait" /\ server[Attempt] = "serving"
  /\ server' = [server EXCEPT ![Attempt] = "served"]
  /\ \E e \in {"0", "TPESVCFAIL"}, code \in Codes :
       tpurcode' = code /\ Finish(e, code)
  /\ AnswerLands
  /\ UNCHANGED <<retries, aliased, sent>>

\* the server dies while serving
ServerDies ==
  /\ pc = "wait" /\ server[Attempt] = "serving"
  /\ server' = [server EXCEPT ![Attempt] = "served"]
  /\ Finish("TPESVCERR", tpurcode)
  /\ UNCHANGED <<retries, aliased, tpurcode, contents, sent>>

-----------------------------------------------------------------------------
(* The server *)

\* it takes requests in any order, those of given up attempts included
Serve(a) ==
  /\ server[a] = "queued"
  /\ server' = [server EXCEPT ![a] = "serving"]
  /\ UNCHANGED <<retries, aliased, pc, retry, errno, tpurcode, contents, sent,
                 answer, result>>

\* an answer nobody waits for is dropped
Drop(a) ==
  /\ server[a] = "serving" /\ ~(pc = "wait" /\ a = Attempt)
  /\ server' = [server EXCEPT ![a] = "served"]
  /\ UNCHANGED <<retries, aliased, pc, retry, errno, tpurcode, contents, sent,
                 answer, result>>

-----------------------------------------------------------------------------
Call == Send \/ NotSent \/ GiveUp \/ Answered \/ ServerDies

Next == Call \/ \E a \in Attempts : Serve(a) \/ Drop(a)

Spec == Init /\ [][Next]_vars

\* tpcall always ends: it is bound by the blocking timeout of the configuration
FairSpec == Spec /\ WF_vars(Call)

-----------------------------------------------------------------------------
(* Properties *)

Done == pc \in {"returned", "threw"}

\* Late requests included, the server never works for an attempt call did not make,
\* nor for one made after another was answered with success.
NoneAfterSuccess ==
  \A a \in Attempts : server[a] # "none" =>
    /\ Done => a <= retry
    /\ \A b \in Attempts : b < a => answer[b].kind # "success"

\* "call is attempted at most retries times", says transaction.hpp of its argument.
AtMostRetries == Done => retry <= retries

\* What call returns or throws is what its last attempt was told, never what an
\* earlier one was, nor a late answer to a request it gave up, and it is a failure
\* only after as many attempts as the caller asked for.
HonestResult ==
  Done =>
    /\ errno # "0" => retry >= retries
    /\ LET last == answer[retry] IN
       CASE last.kind = "success" ->
              result = Returns(0) /\ server[retry] = "served"
         [] last.kind = "TPESVCFAIL" ->
              /\ result.thrown = None /\ result.code # 0
              /\ result.code > 0 => result.code = last.code
              /\ server[retry] = "served"
         [] OTHER ->
              pc = "threw" /\ result = Throws(HandleTperrno(last.kind))

\* call returns or throws, whatever the server does.
CallEnds == <>Done

\* Whatever an attempt sends that is not the caller's data, an earlier attempt of the
\* call put there: it was answered with TPESVCFAIL, in the one buffer the caller gave
\* for both.  A retry after a timeout, a signal or a dead server sends what the caller
\* passed, however late the request it gave up is served.
SpoiltOnlyByAnswer ==
  \A a \in Attempts : sent[a] \notin {"nothing", "request"} =>
    aliased /\ \E b \in Attempts : b < a /\ answer[b].kind = "TPESVCFAIL"
=============================================================================
