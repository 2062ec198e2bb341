-------------------------- MODULE ClientConnection --------------------------
(***************************************************************************)
(* One client::Connection of a client::Client, with the                    *)
(* client::Tcp_connection it owns while there is one: connecting, logging  *)
(* in, receiving, heartbeats, disconnecting, dropping the Tcp_connection   *)
(* and reconnecting with a growing delay.                                  *)
(*                                                                         *)
(* Every step is one handler that the executor runs to its end, or one     *)
(* call of the application on the executor's thread.  The network and the  *)
(* peer choose the results of the operations and the packets received.     *)
(* What the packets carry is left to the modules about sequencing; here    *)
(* the verdict of on_login_success() is any of its outcomes.               *)
(***************************************************************************)
EXTENDS TcpConnection

CONSTANTS
  InitialDelay,   \* reconnect_initial_delay
  MaxDelay,       \* reconnect_max_delay
  Multiplier,     \* reconnect_delay_multiplier
  CallbackCalls,  \* what the application may call inside its callbacks
  TimerFaults,    \* whether setting a timer may fail: {FALSE} or {FALSE, TRUE}
  MaxTasks,       \* bound: start() and stop() calls not yet executed
  MaxStale        \* bound: reconnect waits of earlier epochs not yet handled

ASSUME ClientAssumption ==
  /\ InitialDelay \in Nat \ {0} /\ MaxDelay \in Nat /\ InitialDelay <= MaxDelay
  /\ Multiplier \in Nat \ {0}
  /\ CallbackCalls \subseteq {"connect", "close", "send_debug"}
  /\ TimerFaults \subseteq BOOLEAN /\ FALSE \in TimerFaults
  /\ MaxTasks \in Nat /\ MaxStale \in Nat

VARIABLES
  started,            \* Client::started_
  tasks,              \* start() and stop() posted to the executor
  engaged,            \* connection_.has_value()
  tcp,                \* *connection_ (a new one when not engaged)
  reconnect_timer,
  next_delay,         \* reconnect_next_delay_
  has_session_ended,
  \* History, never read by the code:
  orphaned,           \* a Tcp_connection was destroyed that a handler still uses
  given_up            \* nothing asks for a connection attempt

vars == <<started, tasks, engaged, tcp, reconnect_timer, next_delay,
          has_session_ended, orphaned, given_up>>

clientVars == <<started, tasks>>
timerVars  == <<reconnect_timer, next_delay>>
connVars   == <<engaged, orphaned, given_up>>

NoTcp == NewTcpConnection("connecting")

is_retryable(reason) ==
  reason \in {"peer_closed", "connect_failure", "transport_error",
              "login_timeout", "heartbeat_timeout"}

Init ==
  /\ started = FALSE /\ tasks = <<>>
  /\ engaged = FALSE /\ tcp = NoTcp
  /\ reconnect_timer = NewReconnectTimer /\ next_delay = 0
  /\ has_session_ended = FALSE
  /\ orphaned = FALSE /\ given_up = TRUE

-----------------------------------------------------------------------------
\* Connection: making a Tcp_connection, and closing.

\* The constructor: open() and set_no_delay() may fail.
construct(opened) ==
  IF opened THEN [NoTcp EXCEPT !.sock = async_connect(@)]
            ELSE handle_connect_failure(NoTcp)

\* connection_.emplace() destroys the Tcp_connection that is there, if any.
Emplace(opened) ==
  /\ engaged' = TRUE /\ tcp' = construct(opened)
  /\ orphaned' = (orphaned \/ (engaged /\ ~owes_nothing(tcp)))
  /\ given_up' = FALSE

\* Faulty: a scheduled reconnect does not keep connect() from connecting.
may_connect_twice == started /\ ~engaged

may_connect == started /\ ~engaged /\ ~reconnect_timer.started

\* Faulty: only an established session is closed.
close_logged_in(c) ==
  IF engaged /\ c.state = "logged_in" THEN disconnect(c, "user_initiated") ELSE c

\* Connection::close() on the Tcp_connection, if there is one.
close(c) == IF engaged THEN disconnect(c, "user_initiated") ELSE c

Close ==
  /\ tcp' = close(tcp)
  /\ reconnect_timer' = reconnect_timer_stop(reconnect_timer)
  /\ next_delay' = 0
  /\ given_up' = (given_up \/ ~engaged)
  /\ UNCHANGED <<engaged, orphaned>>

\* The bound on waits of earlier epochs: another connection is made when few
\* enough of them are left.
FewStale == reconnect_timer.wait = "none" \/ reconnect_timer.stale < MaxStale

UserConnect ==
  /\ may_connect /\ FewStale
  /\ \E opened \in BOOLEAN : Emplace(opened)
  /\ UNCHANGED <<clientVars, timerVars, has_session_ended>>

UserClose ==
  /\ Close
  /\ UNCHANGED <<clientVars, has_session_ended>>

-----------------------------------------------------------------------------
\* Client::start() and stop(): posted to the executor, executed in order.

Post ==
  /\ Len(tasks) < MaxTasks
  /\ \E task \in {"start", "stop"} : tasks' = Append(tasks, task)
  /\ UNCHANGED <<started, tcp, timerVars, connVars, has_session_ended>>

\* A start() when started, or a stop() when stopped, does nothing.
RunNothing ==
  /\ tasks # <<>> /\ started = (Head(tasks) = "start")
  /\ tasks' = Tail(tasks)
  /\ UNCHANGED <<started, tcp, timerVars, connVars, has_session_ended>>

RunStart ==
  /\ tasks # <<>> /\ Head(tasks) = "start" /\ ~started /\ FewStale
  /\ tasks' = Tail(tasks) /\ started' = TRUE
  /\ IF ~engaged /\ ~reconnect_timer.started
     THEN \E opened \in BOOLEAN : Emplace(opened)
     ELSE UNCHANGED <<connVars, tcp>>
  /\ UNCHANGED <<timerVars, has_session_ended>>

RunStop ==
  /\ tasks # <<>> /\ Head(tasks) = "stop" /\ started
  /\ tasks' = Tail(tasks) /\ started' = FALSE
  /\ Close
  /\ UNCHANGED <<has_session_ended>>

-----------------------------------------------------------------------------
\* Sending.  Only calls that change something are steps.

Sends(c) == engaged /\ tcp' = c /\ UNCHANGED
  <<clientVars, timerVars, connVars, has_session_ended>>

\* Unsequenced data counts as a sign of life; send_message().
SendMessage ==
  /\ ~has_session_ended /\ tcp.state = "logged_in"
  /\ Sends([tcp EXCEPT !.sock = async_write(@, "other"),
                       !.hb.sent = @ \/ async_write_error(tcp.sock) = "none"])

SendLogoutRequest ==
  /\ tcp.state = "logged_in"
  /\ Sends([tcp EXCEPT !.sock = async_write(@, "other")])

\* Faulty: before the connect has completed, too.
SendDebugEarly ==
  /\ ~is_closing(tcp)
  /\ Sends([tcp EXCEPT !.sock = async_write(@, "other")])

SendDebug ==
  /\ tcp.state # "connecting" /\ ~is_closing(tcp)
  /\ Sends([tcp EXCEPT !.sock = async_write(@, "other")])

-----------------------------------------------------------------------------
\* Connecting.

\* A step of the Tcp_connection that concerns nothing else.
Becomes(c) == tcp' = c /\ UNCHANGED
  <<clientVars, timerVars, connVars, has_session_ended>>

ConnectFailed ==
  /\ engaged
  /\ \E result \in Results(tcp.sock.connect) \ {"ok"} :
       LET c == [tcp EXCEPT !.sock.connect = "none"]
       IN  Becomes(end_of_handler(IF result = "aborted" THEN c
                                  ELSE handle_connect_failure(c)))

\* Whether the application calls close() inside a callback.
Closes == {FALSE} \cup {x \in {TRUE} : "close" \in CallbackCalls}

\* How often it calls send_debug() inside the callbacks connect_success() and
\* logging_in(): once in each is the bound.
EarlySends == {0} \cup {n \in 1..2 : "send_debug" \in CallbackCalls}

send_early(c) == [c EXCEPT !.sock = async_write(@, "early")]

sent_early(c, early) ==
  CASE early = 0 -> c
    [] early = 1 -> send_early(c)
    [] OTHER     -> send_early(send_early(c))

\* connect_success() up to the login request: the state is set whether or not
\* the connection was closed since, and before the two callbacks, so that what
\* the application sends in them is accepted.
connect_success(c, early, closes, fails) ==
  LET d == sent_early([c EXCEPT !.sock.connect = "none", !.state = "connected"], early)
      e == start_login_timer(IF closes THEN close(d) ELSE d, fails)
  IN  [e EXCEPT !.sock = async_read(@)]

\* Its failure is discarded: what was sent early may have filled the queue.
write_login_request(c) == [c EXCEPT !.sock = async_write(@, "login")]

Connected ==
  /\ engaged /\ "ok" \in Results(tcp.sock.connect)
  /\ \E early \in EarlySends, closes \in Closes, fails \in TimerFaults :
       LET c == connect_success(tcp, early, closes, fails)
       IN  /\ tcp' = end_of_handler(write_login_request(c))
           /\ next_delay' = IF closes THEN 0 ELSE next_delay
           /\ reconnect_timer' = IF closes THEN reconnect_timer_stop(reconnect_timer)
                                           ELSE reconnect_timer
  /\ UNCHANGED <<clientVars, connVars, has_session_ended>>

-----------------------------------------------------------------------------
\* Reading.

ReadFailed ==
  /\ engaged
  /\ \E result \in ReadResults(tcp.sock.read) \ {"ok"} :
       Becomes(read_failed(tcp, result))

HeaderReceived ==
  /\ engaged /\ "ok" \in ReadResults(tcp.sock.read) /\ tcp.sock.part = "header"
  /\ Becomes(header_received(tcp))

HeaderMalformed ==
  /\ engaged /\ "ok" \in ReadResults(tcp.sock.read) /\ tcp.sock.part = "header"
  /\ Becomes(header_malformed(tcp))

\* A whole packet was read: one without payload by the read of its header.
PacketRead == engaged /\ "ok" \in ReadResults(tcp.sock.read)

\* The connection in read_success().
Reader == [tcp EXCEPT !.sock.read = "none"]

\* read_success() ignores what arrives while closing.
PacketIgnored ==
  /\ PacketRead /\ is_closing(tcp)
  /\ Becomes(end_of_handler(Reader))

\* process_packet() finds the packet's type, length, field or moment wrong:
\* the peer can send such a packet at any time.
PacketInvalid ==
  /\ PacketRead /\ ~is_closing(tcp)
  /\ Becomes(read_next(handle_protocol_violation(Reader)))

DebugReceived ==
  /\ PacketRead /\ ~is_closing(tcp)
  /\ Becomes(read_next(Reader))

\* on_login_success(): what it finds wrong with an accepted login.
LoginVerdict ==
  {"none", "session_mismatch", "sequence_number_too_low",
   "sequence_number_too_high", "sequence_number_ahead_of_session"}

on_login_success(delay, verdict) == IF verdict = "none" THEN 0 ELSE delay

process_login_accepted(c, verdict, closes, fails) ==
  LET d == [c EXCEPT !.login = timer_stop(@), !.state = "logged_in"]
  IN  IF verdict = "none"
      THEN start_heartbeat_timer(IF closes THEN close(d) ELSE d, fails)
      ELSE disconnect(d, verdict)

LoginAccepted ==
  /\ PacketRead /\ tcp.sock.part = "payload" /\ tcp.state = "connected"
  /\ \E verdict \in LoginVerdict, closes \in Closes, fails \in TimerFaults :
       /\ closes => verdict = "none"
       /\ tcp' = read_next(process_login_accepted(Reader, verdict, closes, fails))
       /\ next_delay' = on_login_success(next_delay, verdict)
       /\ reconnect_timer' = IF closes THEN reconnect_timer_stop(reconnect_timer)
                                       ELSE reconnect_timer
  /\ UNCHANGED <<clientVars, connVars, has_session_ended>>

LoginRejected ==
  /\ PacketRead /\ tcp.sock.part = "payload" /\ tcp.state = "connected"
  /\ Becomes(read_next(
       disconnect([Reader EXCEPT !.login = timer_stop(@)], "access_denied")))

\* increment_receive_count(), and what Connection does with the message is
\* the subject of the sequencing modules.
SequencedData ==
  /\ PacketRead /\ tcp.state = "logged_in" /\ ~has_session_ended
  /\ Becomes(read_next([Reader EXCEPT !.hb.received = TRUE]))

ServerHeartbeat ==
  /\ PacketRead /\ tcp.sock.part = "header" /\ tcp.state = "logged_in"
  /\ Becomes(read_next([Reader EXCEPT !.hb.received = TRUE]))

EndOfSession ==
  /\ PacketRead /\ tcp.sock.part = "header" /\ tcp.state = "logged_in"
  /\ tcp' = read_next([Reader EXCEPT !.hb.received = TRUE])
  /\ has_session_ended' = TRUE
  /\ UNCHANGED <<clientVars, timerVars, connVars>>

-----------------------------------------------------------------------------
\* Writing and timers.

WriteFailed ==
  /\ engaged
  /\ \E result \in Results(tcp.sock.write) \ {"ok"} :
       Becomes(write_failed(tcp, result))

PacketSent ==
  /\ engaged /\ "ok" \in Results(tcp.sock.write)
  /\ Becomes(end_of_handler(
       [tcp EXCEPT !.sock = packet_sent([@ EXCEPT !.write = "none"])]))

LoginWait ==
  /\ engaged
  /\ \E result \in Results(tcp.login.wait) :
       Becomes(login_wait_completed(tcp, result))

HeartbeatWait ==
  /\ engaged
  /\ \E result \in Results(tcp.hb.wait), fails \in TimerFaults :
       Becomes(heartbeat_wait_completed(tcp, result, fails))

-----------------------------------------------------------------------------
\* Dropping the Tcp_connection and reconnecting.

\* Faulty: no maximum.
grow_uncapped(delay) == IF delay = 0 THEN InitialDelay ELSE delay * Multiplier

grow(delay) ==
  IF delay = 0 THEN InitialDelay
  ELSE IF delay * Multiplier < MaxDelay THEN delay * Multiplier ELSE MaxDelay

\* Faulty: a stopped client retries.
retries_when_stopped(reason) == is_retryable(reason)

retries(reason) == started /\ is_retryable(reason)

\* on_closed() for the connection c: drop it, tell the application, and
\* schedule a reconnect if the reason is one that time may cure.  The
\* application may call connect() or close() in its callbacks: `call' is its
\* call in disconnect(), `late' the one in reconnect_scheduled(), which comes
\* after the delay has grown and before the timer is started.
on_closed(c) ==
  \E call, late \in {"none"} \cup CallbackCalls, opened \in BOOLEAN, fails \in TimerFaults :
    LET retry    == retries(c.reason)
        connects == /\ started /\ ~reconnect_timer.started
                    /\ call = "connect" \/ (retry /\ late = "connect")
        closes   == retry /\ late = "close"
        delay    == IF call = "close" THEN 0 ELSE next_delay
        grown    == IF retry THEN grow(delay) ELSE delay
        timer    == IF call = "close" \/ closes THEN reconnect_timer_stop(reconnect_timer)
                                                ELSE reconnect_timer
        made     == construct(opened)
    IN  /\ engaged' = connects
        /\ tcp' = IF ~connects THEN NoTcp
                  ELSE IF closes THEN disconnect(made, "user_initiated") ELSE made
        /\ orphaned' = (orphaned \/ ~owes_nothing(c))
        /\ next_delay' = IF closes THEN 0 ELSE grown
        /\ reconnect_timer' = IF retry THEN reconnect_timer_start(timer, fails)
                                         ELSE timer
        /\ given_up' = (~connects /\ (~retry \/ fails))

\* closed(), login_timer_stopped() and heartbeat_timer_stopped(), posted to
\* the executor: the last of them drops the connection.
Report(c) ==
  IF is_done(c) THEN on_closed(c)
  ELSE tcp' = c /\ UNCHANGED <<timerVars, connVars>>

SocketClosed ==
  /\ engaged /\ tcp.sock.posted
  /\ Report([tcp EXCEPT !.sock.posted = FALSE, !.socket_closed = TRUE])
  /\ UNCHANGED <<clientVars, has_session_ended>>

LoginTimerStopped ==
  /\ engaged /\ tcp.login.posted
  /\ Report([tcp EXCEPT !.login.posted = FALSE, !.login_timer_stopped = TRUE])
  /\ UNCHANGED <<clientVars, has_session_ended>>

HeartbeatTimerStopped ==
  /\ engaged /\ tcp.hb.posted
  /\ Report([tcp EXCEPT !.hb.posted = FALSE, !.heartbeat_timer_stopped = TRUE])
  /\ UNCHANGED <<clientVars, has_session_ended>>

\* Reconnect_timer::on_expiry() of the current epoch.
ReconnectWait ==
  \E result \in Results(reconnect_timer.wait) :
    /\ reconnect_timer' = [reconnect_timer EXCEPT !.wait = "none", !.started = FALSE]
    /\ IF reconnect_timer.started /\ result = "ok"
       THEN \E opened \in BOOLEAN : Emplace(opened)
       ELSE /\ given_up' = (given_up \/ reconnect_timer.started)
            /\ UNCHANGED <<engaged, orphaned, tcp>>
    /\ UNCHANGED <<clientVars, next_delay, has_session_ended>>

\* Faulty: the epoch is not compared, and the aborted wait ends the new one.
StaleReconnectWaitEnds ==
  /\ reconnect_timer.stale > 0
  /\ reconnect_timer' = [reconnect_timer EXCEPT !.stale = @ - 1, !.started = FALSE]
  /\ UNCHANGED <<clientVars, next_delay, connVars, tcp, has_session_ended>>

\* The wait handler of an earlier epoch.
StaleReconnectWait ==
  /\ reconnect_timer.stale > 0
  /\ reconnect_timer' = [reconnect_timer EXCEPT !.stale = @ - 1]
  /\ UNCHANGED <<clientVars, next_delay, connVars, tcp, has_session_ended>>

-----------------------------------------------------------------------------
User == UserConnect \/ UserClose \/ Post \/ SendMessage \/ SendLogoutRequest \/ SendDebug

Next ==
  \/ User
  \/ RunNothing \/ RunStart \/ RunStop
  \/ ConnectFailed \/ Connected
  \/ ReadFailed \/ HeaderReceived \/ HeaderMalformed \/ PacketIgnored \/ PacketInvalid
  \/ DebugReceived \/ LoginAccepted \/ LoginRejected \/ SequencedData
  \/ ServerHeartbeat \/ EndOfSession
  \/ WriteFailed \/ PacketSent \/ LoginWait \/ HeartbeatWait
  \/ SocketClosed \/ LoginTimerStopped \/ HeartbeatTimerStopped
  \/ ReconnectWait \/ StaleReconnectWait

Spec == Init /\ [][Next]_vars

\* An operation that was cancelled, or started on a closed socket, completes;
\* so does a connect (the operating system gives up in the end); timers
\* expire; what was posted is executed.  A read or a write may stay pending
\* for as long as the peer likes, and the application need not call anything.
Fairness ==
  /\ WF_vars(RunNothing) /\ WF_vars(RunStart) /\ WF_vars(RunStop)
  /\ WF_vars(ConnectFailed \/ Connected)
  /\ WF_vars(Cancelled(tcp.sock.read)
             /\ (ReadFailed \/ HeaderReceived \/ HeaderMalformed \/ PacketIgnored))
  /\ WF_vars(Cancelled(tcp.sock.write) /\ (WriteFailed \/ PacketSent))
  /\ WF_vars(LoginWait) /\ WF_vars(HeartbeatWait)
  /\ WF_vars(SocketClosed) /\ WF_vars(LoginTimerStopped) /\ WF_vars(HeartbeatTimerStopped)
  /\ WF_vars(ReconnectWait)

FairSpec == Spec /\ Fairness

-----------------------------------------------------------------------------
\* Every variable has its type, and the delay is at most reconnect_max_delay.
TypeOK ==
  /\ started \in BOOLEAN /\ tasks \in Seq({"start", "stop"})
  /\ engaged \in BOOLEAN /\ tcp \in TcpConnections
  /\ reconnect_timer \in ReconnectTimers /\ next_delay \in 0..MaxDelay
  /\ has_session_ended \in BOOLEAN
  /\ orphaned \in BOOLEAN /\ given_up \in BOOLEAN

\* No Tcp_connection is destroyed, by on_closed() or by a reconnect that
\* replaces it, while a handler of its socket or timers is still to be
\* invoked: the handlers capture raw pointers.
NoOrphans == ~orphaned

\* A reconnect is scheduled only when there is no Tcp_connection, and none is
\* left scheduled when the client is stopped.
ReconnectOnlyWhenDropped ==
  reconnect_timer.started => ~engaged /\ started

\* Whatever state a Tcp_connection is in, something that will happen without
\* the peer's help takes it to another: a connect that completes, a login or
\* heartbeat wait that is not cancelled, or, once it is disconnected, a
\* handler that brings its end nearer, no timer being left running.
NeverStranded ==
  engaged =>
    CASE tcp.state = "connecting"   -> tcp.sock.connect = "pending"
      [] tcp.state = "connected"    -> tcp.login.started /\ tcp.login.wait = "pending"
      [] tcp.state = "logged_in"    -> tcp.hb.started /\ tcp.hb.wait = "pending"
      [] tcp.state = "disconnected" -> /\ ~tcp.login.started /\ ~tcp.hb.started
                                       /\ ~owes_nothing(tcp)
      [] OTHER -> FALSE

\* Packets are never left in the queue with nobody writing them while the
\* socket is open, and the completion of a write finds its packet at the
\* front of the queue.
WriteQueueServed ==
  /\ tcp.sock.write # "none" => tcp.sock.write_packets # <<>>
  /\ ~tcp.sock.closing /\ tcp.sock.write_packets # <<>> => tcp.sock.write = "pending"
  /\ Len(tcp.sock.write_packets) <= WriteLimit

\* Nothing overtakes the login request but what the application sends inside
\* the two callbacks that connect_success() makes before it: no packet sent
\* before the connect completed, or left from anything else, is written ahead
\* of the request.
LoginRequestFirst ==
  \A i \in 1..Len(tcp.sock.write_packets) :
    tcp.sock.write_packets[i] = "login" =>
      \A j \in 1..(i - 1) : tcp.sock.write_packets[j] = "early"

\* A connection that is neither there nor scheduled was given up: it was lost
\* for a reason that is not retried, closed, stopped, or its timer failed.
NoForgottenRetry == ~engaged /\ ~reconnect_timer.started => given_up

\* A client that is not started makes no connection attempt, whichever
\* reconnect wait had already expired when it was stopped.
NoAttemptWhenStopped == [][~engaged /\ engaged' => started']_vars

-----------------------------------------------------------------------------
\* A Tcp_connection whose socket was closed is dropped.
ClosedLeadsToDropped == engaged /\ tcp.sock.closing ~> ~engaged

\* Stopping the client gets rid of the Tcp_connection, unless it is started again.
StopLeadsToDropped == ~started ~> ~engaged \/ started

\* The peer cannot keep a connection waiting for its login response.
LoginIsBounded == engaged /\ tcp.state = "connected" ~> tcp.state # "connected"

\* A connection whose peer falls silent does not stay logged in.
SilentPeerIsDropped ==
  []<>~(engaged /\ tcp.state = "logged_in" /\ ~tcp.hb.received)

\* A connection lost for a retryable reason is attempted again, unless it is
\* closed or stopped in the meantime.
LossIsRetried == ~given_up /\ ~engaged ~> engaged \/ given_up

=============================================================================
