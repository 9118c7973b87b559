---------------------------- MODULE TuxedoErrors ----------------------------
(***************************************************************************)
(* How the library turns the error numbers of Tuxedo into C++ exceptions.  *)
(*                                                                         *)
(* An exception is the name of its class; "none" stands for "nothing was   *)
(* thrown, the function returned".  An exception class is caught by a      *)
(* handler of any of its base classes, so a handler is the set of classes  *)
(* it catches.                                                             *)
(***************************************************************************)

None == "none"

\* handlers: the classes each base class of exceptions.hpp catches
DiagnosticExceptions ==
  {"diagnostic_exception", "nomsg_exception", "aborted_exception"}

TuxedoExceptions ==
  DiagnosticExceptions \cup
  {"tuxedo_exception", "service_exception", "timeout_exception",
   "blocking_exception", "interrupt_exception"}

AtmiExceptions ==
  TuxedoExceptions \cup
  {"atmi_exception", "unix_exception", "buffer_exception", "field_exception"}

\* tuxedo::handle_tperrno: one exception class per family of error numbers.
\* TPESVCFAIL throws nothing: the service answered, and its code is returned.
HandleTperrno(errno) ==
  CASE errno = "TPEBLOCK"   -> "blocking_exception"
    [] errno = "TPGOTSIG"   -> "interrupt_exception"
    [] errno = "TPESVCERR"  -> "service_exception"
    [] errno = "TPETIME"    -> "timeout_exception"
    [] errno = "TPESVCFAIL" -> None
    [] OTHER                -> "tuxedo_exception"

\* queue::handle_diagnostics, reached when tperrno is TPEDIAGNOSTIC
HandleDiagnostics(diagnostic) ==
  CASE diagnostic = "QMEABORTED" -> "aborted_exception"
    [] diagnostic = "QMENOMSG"   -> None
    [] OTHER                     -> "diagnostic_exception"

\* what queue::dequeue and queue::enqueue throw when Tuxedo fails: one
\* representative of every family of errors of tpdequeue(3c)/tpenqueue(3c)
QueueExceptions ==
  {HandleTperrno(errno) : errno \in {"TPETIME", "TPEBLOCK", "TPGOTSIG", "TPESYSTEM"}}
    \cup {HandleDiagnostics(d) : d \in {"QMEABORTED", "QMESYSTEM"}}
=============================================================================
