---------------------------- MODULE TcpConnection ----------------------------
(***************************************************************************)
(* What the Tcp_connection classes of the client and of the server have in *)
(* common: a socket, a login timer, a heartbeat timer and a                *)
(* Connection_state, shut down together by disconnect(), after which the   *)
(* owner drops the object once the socket and both timers have reported    *)
(* that they are done.  A connection is a record, a method or a completion *)
(* handler an operator from the connection before it to the connection     *)
(* after it.                                                               *)
(***************************************************************************)
EXTENDS Socket, Timers

State == {"connecting", "connected", "logged_in", "disconnecting", "disconnected"}

Disconnect_reason ==
  {"none", "user_initiated", "superseded", "logout_request", "peer_closed",
   "connect_failure", "transport_error", "login_timeout", "heartbeat_timeout",
   "access_denied", "session_mismatch", "sequence_number_ahead_of_session",
   "sequence_number_too_low", "sequence_number_too_high",
   "protocol_violation", "unmanaged_abort"}

TcpConnections == [state  : State,
                   reason : Disconnect_reason,
                   sock   : Sockets,
                   login  : LoginTimers,
                   hb     : HeartbeatTimers,
                   socket_closed           : BOOLEAN,
                   login_timer_stopped     : BOOLEAN,
                   heartbeat_timer_stopped : BOOLEAN]

\* The members before the constructor's body runs.
NewTcpConnection(state) ==
  [state |-> state, reason |-> "none", sock |-> NewSocket,
   login |-> NewLoginTimer, hb |-> NewHeartbeatTimer,
   socket_closed |-> FALSE, login_timer_stopped |-> TRUE,
   heartbeat_timer_stopped |-> TRUE]

is_closing(c) == c.state \in {"disconnecting", "disconnected"}

\* Faulty: the timers keep running.
disconnect_socket_only(c, reason) ==
  IF c.state = "disconnected" THEN c
  ELSE [c EXCEPT !.state = "disconnected", !.reason = IF @ = "none" THEN reason ELSE @,
                 !.sock = socket_close(@)]

disconnect(c, reason) ==
  IF c.state = "disconnected" THEN c
  ELSE [c EXCEPT !.state  = "disconnected",
                 !.reason = IF @ = "none" THEN reason ELSE @,
                 !.sock   = socket_close(@),
                 !.login  = timer_stop(@),
                 !.hb     = timer_stop(@)]

handle_connect_failure(c) == disconnect(c, "connect_failure")

handle_transport_error(c) == disconnect(c, "transport_error")

handle_protocol_violation(c) == disconnect(c, "protocol_violation")

\* maybe_signal_closed() calls on_closed().
is_done(c) == c.socket_closed /\ c.login_timer_stopped /\ c.heartbeat_timer_stopped

-----------------------------------------------------------------------------
\* Starting a timer; when the timer reports an error instead of waiting the
\* *_timer_error callback disconnects.

start_login_timer(c, fails) ==
  LET d == [c EXCEPT !.login_timer_stopped = FALSE,
                     !.login = login_timer_start(@, fails)]
  IN  IF fails /\ ~c.login.started THEN handle_transport_error(d) ELSE d

start_heartbeat_timer(c, fails) ==
  LET d == [c EXCEPT !.heartbeat_timer_stopped = FALSE,
                     !.hb = heartbeat_timer_start(@, fails)]
  IN  IF fails /\ ~c.hb.started THEN handle_transport_error(d) ELSE d

-----------------------------------------------------------------------------
\* Completion handlers.  Each clears its pending flag, makes its callback and
\* ends with maybe_signal_closed() or maybe_signal_stopped().

end_of_handler(c) == [c EXCEPT !.sock = socket_maybe_signal_closed(@)]

\* A read that completed with an error, in header_received or payload_received.
read_failed(c, result) ==
  LET d == [c EXCEPT !.sock.read = "none"]
  IN  end_of_handler(CASE result = "aborted" -> disconnect(d, "unmanaged_abort")
                       [] result = "eof"     -> disconnect(d, "peer_closed")
                       [] OTHER              -> handle_transport_error(d))

\* header_received with a payload still to come.
header_received(c) ==
  end_of_handler([c EXCEPT !.sock = read_payload([@ EXCEPT !.read = "none"])])

header_malformed(c) ==
  end_of_handler(handle_protocol_violation([c EXCEPT !.sock.read = "none"]))

\* The last part of read_success(), for the connection process_packet() left.
read_next(c) ==
  end_of_handler(IF is_closing(c) THEN c ELSE [c EXCEPT !.sock = async_read(@)])

write_failed(c, result) ==
  LET d == [c EXCEPT !.sock.write = "none"]
  IN  end_of_handler(IF result = "aborted" THEN d ELSE handle_transport_error(d))

login_wait_completed(c, result) ==
  LET d == [c EXCEPT !.login.wait = "none"]
      e == CASE ~d.login.started -> d
             [] d.login.started /\ result # "ok" -> handle_transport_error(d)
             [] OTHER -> disconnect(d, "login_timeout")
  IN  [e EXCEPT !.login = maybe_signal_stopped(@)]

\* heartbeat_send_due(), or the reset of the send counter.
send_heartbeat(c) ==
  IF c.hb.sent THEN [c EXCEPT !.hb.sent = FALSE]
               ELSE [c EXCEPT !.sock = async_write(@, "other")]

heartbeat_wait_completed(c, result, fails) ==
  LET d == [c EXCEPT !.hb.wait = "none"]
      e == [d EXCEPT !.hb = count_silence(@)]
      f == LET s == send_heartbeat(e) IN [s EXCEPT !.hb = schedule(@, fails)]
      g == CASE ~d.hb.started -> d
             [] d.hb.started /\ result # "ok" -> handle_transport_error(d)
             [] d.hb.started /\ result = "ok" /\ receive_timed_out(d.hb)
                  -> disconnect(e, "heartbeat_timeout")
             [] OTHER -> IF fails THEN handle_transport_error(f) ELSE f
  IN  [g EXCEPT !.hb = maybe_signal_stopped(@)]

-----------------------------------------------------------------------------
\* No handler invocation is owed to an object of the connection: a handler
\* that runs after the connection was destroyed would use it after its lifetime.
owes_nothing(c) ==
  /\ is_idle(c.sock) /\ c.login.wait = "none" /\ c.hb.wait = "none"
  /\ ~c.sock.posted /\ ~c.login.posted /\ ~c.hb.posted

=============================================================================
