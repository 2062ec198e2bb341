-------------------------------- MODULE Asio --------------------------------
(***************************************************************************)
(* The asynchronous operations of the Asio library, as far as this code    *)
(* uses them (external: Asio is not part of the repository).               *)
(*                                                                         *)
(* All objects live on one io_context run by one thread, so a completion   *)
(* handler is one atomic step.  An operation that was started owes exactly *)
(* one handler invocation.  Which result the handler gets is decided when  *)
(* the operation completes, which may be well before the handler runs:     *)
(* closing a socket or cancelling a timer does not change the result of an *)
(* operation that has completed already and is only waiting for its        *)
(* handler to be invoked.                                                  *)
(*                                                                         *)
(*   none       no handler is owed                                         *)
(*   pending    the operation is in progress or has completed              *)
(*   cancelled  the object was closed or cancelled while it was pending    *)
(*   broken     the operation was started on a closed socket               *)
(***************************************************************************)
OpStatus == {"none", "pending", "cancelled", "broken"}

OpResult == {"ok", "error", "aborted", "eof"}

\* socket.close() and timer.cancel(): what becomes of an operation.
cancel(op) == IF op = "pending" THEN "cancelled" ELSE op

\* The results with which the handler of a connect, write or wait operation
\* may be invoked.  A cancelled operation reports operation_aborted unless it
\* had completed before; one started on a closed socket reports another error
\* (bad descriptor).
Results(op) ==
  CASE op = "pending"   -> {"ok", "error"}
    [] op = "cancelled" -> {"ok", "error", "aborted"}
    [] op = "broken"    -> {"error"}
    [] OTHER            -> {}

\* A read may also meet the end of the stream.
ReadResults(op) ==
  Results(op) \cup (IF op \in {"pending", "cancelled"} THEN {"eof"} ELSE {})

\* The operation ends whatever the peer does.
Cancelled(op) == op \in {"cancelled", "broken"}

=============================================================================
