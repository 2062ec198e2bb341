------------------------------- MODULE Server -------------------------------
(***************************************************************************)
(* One server::Acceptor of a server::Server, with the                      *)
(* server::Tcp_connections it has accepted and its server::Ports, which    *)
(* point back at the connection that is logged in to them: accepting,      *)
(* logging in, superseding, rejecting, heartbeats, ending the session,     *)
(* stopping, and dropping a connection once nothing refers to it.          *)
(*                                                                         *)
(* Every step is one handler that the executor runs to its end, or one     *)
(* call of the application on the executor's thread.  The network and the  *)
(* clients choose the results of the operations and the packets received.  *)
(* Whether a login request names a port, its password and the session, and *)
(* the sequence numbers, are left open here: any outcome may happen.       *)
(***************************************************************************)
EXTENDS TcpConnection, SequencesExt

CONSTANTS
  Conn,           \* bound: the connections there can be at a time
  Ports,          \* ports_ of the acceptor
  NoConn, NoPort, \* null pointers
  Banner,         \* whether debug_banner_ is set
  CallbackSends,  \* whether a port's handler sends in its login_success callback
  TimerFaults,    \* whether setting a timer may fail: {FALSE} or {FALSE, TRUE}
  MaxAccepts,     \* bound: accept operations when the server is started
  MaxTasks        \* bound: start(), end_session() and stop() not yet executed

ASSUME ServerAssumption ==
  /\ NoConn \notin Conn /\ NoPort \notin Ports
  /\ Banner \in BOOLEAN /\ CallbackSends \in BOOLEAN
  /\ TimerFaults \subseteq BOOLEAN /\ FALSE \in TimerFaults
  /\ MaxTasks \in Nat /\ MaxAccepts \in Nat

VARIABLES
  started,            \* Server::started_
  tasks,              \* start(), end_session() and stop() posted to the executor
  acceptor,           \* Socket_acceptor: is it open, and its accept operations
  live,               \* connections_ of the acceptor
  tcp,                \* the connections (a new one when not live)
  port,               \* Tcp_connection::port_ and, with it, handler_
  connection,         \* Port::connection_
  has_session_ended,  \* Port::has_session_ended_
  \* History, never read by the code:
  orphaned            \* a Tcp_connection was destroyed that a handler still uses

vars == <<started, tasks, acceptor, live, tcp, port, connection,
          has_session_ended, orphaned>>

serverVars == <<started, tasks, acceptor>>
portVars   == <<port, connection, has_session_ended>>

Task == {"start", "end_session", "stop"}

NoTcp == NewTcpConnection("connected")

Init ==
  /\ started = FALSE /\ tasks = <<>>
  /\ acceptor = [open |-> FALSE, accepts |-> <<>>]
  /\ live = {} /\ tcp = [c \in Conn |-> NoTcp]
  /\ port = [c \in Conn |-> NoPort] /\ connection = [p \in Ports |-> NoConn]
  /\ has_session_ended = [p \in Ports |-> FALSE]
  /\ orphaned = FALSE

\* A step of one connection that concerns nothing else.
Becomes(c, new) ==
  /\ tcp' = [tcp EXCEPT ![c] = new]
  /\ UNCHANGED <<serverVars, live, portVars, orphaned>>

-----------------------------------------------------------------------------
\* Socket_acceptor and Acceptor: accepting.

async_accept(a) ==
  [a EXCEPT !.accepts = Append(@, IF a.open THEN "pending" ELSE "broken")]

close_acceptor(a) ==
  [open |-> FALSE, accepts |-> [k \in DOMAIN a.accepts |-> cancel(a.accepts[k])]]

\* The acceptor when the handler of its k-th operation is invoked.
accept_done(k) == [acceptor EXCEPT !.accepts = RemoveAt(@, k)]

\* Faulty: a failed accept is the last.
accept_again_not(a) == a

\* Acceptor::accept_failure() and the end of accept_success(): accepting again,
\* even when the acceptor was closed.
accept_again(a) == async_accept(a)

AcceptFailed ==
  /\ \E k \in DOMAIN acceptor.accepts : \E result \in Results(acceptor.accepts[k]) \ {"ok"} :
       acceptor' = IF result = "aborted" THEN accept_done(k) ELSE accept_again(accept_done(k))
  /\ UNCHANGED <<started, tasks, live, tcp, portVars, orphaned>>

\* send_debug_packet()
write_debug(c) ==
  IF c.state = "connecting" \/ is_closing(c) THEN c
  ELSE [c EXCEPT !.sock = async_write(@, "other")]

\* The constructor, and the banner that accept_success() sends.
construct(fails) ==
  LET c == start_login_timer(NoTcp, fails)
      d == [c EXCEPT !.sock = async_read(@)]
  IN  IF Banner THEN write_debug(d) ELSE d

Accepted ==
  /\ \E k \in DOMAIN acceptor.accepts :
       "ok" \in Results(acceptor.accepts[k]) /\ acceptor' = accept_again(accept_done(k))
  /\ \E c \in Conn \ live, fails \in TimerFaults :
       /\ live' = live \cup {c}
       /\ tcp' = [tcp EXCEPT ![c] = construct(fails)]
  /\ UNCHANGED <<started, tasks, portVars, orphaned>>

-----------------------------------------------------------------------------
\* Server::start(), end_session() and stop(): posted, executed in order.

Post ==
  /\ Len(tasks) < MaxTasks
  /\ \E task \in Task : tasks' = Append(tasks, task)
  /\ UNCHANGED <<started, acceptor, live, tcp, portVars, orphaned>>

RunNothing ==
  /\ tasks # <<>> /\ started = (Head(tasks) = "start")
  /\ tasks' = Tail(tasks)
  /\ UNCHANGED <<started, acceptor, live, tcp, portVars, orphaned>>

\* Setting up the listening socket may fail at any of its five calls, which
\* leaves the server started with nothing new to accept.  Accept operations of
\* its previous run may still be outstanding, and join the new one.
RunStart ==
  /\ tasks # <<>> /\ Head(tasks) = "start" /\ ~started
  /\ Len(acceptor.accepts) < MaxAccepts
  /\ tasks' = Tail(tasks) /\ started' = TRUE
  /\ \/ acceptor' = async_accept([acceptor EXCEPT !.open = TRUE])
     \/ \E open \in BOOLEAN : acceptor' = [acceptor EXCEPT !.open = open]
  /\ UNCHANGED <<live, tcp, portVars, orphaned>>

RunStop ==
  /\ tasks # <<>> /\ Head(tasks) = "stop" /\ started
  /\ tasks' = Tail(tasks) /\ started' = FALSE
  /\ acceptor' = close_acceptor(acceptor)
  /\ tcp' = [c \in Conn |-> IF c \in live THEN disconnect(tcp[c], "user_initiated")
                                          ELSE tcp[c]]
  /\ UNCHANGED <<live, portVars, orphaned>>

\* Faulty: whichever connection there is.
SendsTo_anyone(p, c) == c \in Conn

\* The connection that Port::send_packet() and send_debug() write to.
SendsTo(p, c) == c \in Conn /\ connection[p] = c

\* Every port whose session has not ended tells its connection, best effort.
RunEndSession ==
  /\ tasks # <<>> /\ Head(tasks) = "end_session" /\ started
  /\ tasks' = Tail(tasks)
  /\ tcp' = [c \in Conn |->
               IF /\ tcp[c].state = "logged_in"
                  /\ \E p \in Ports : SendsTo(p, c) /\ ~has_session_ended[p]
               THEN [tcp[c] EXCEPT !.sock = async_write(@, "other")]
               ELSE tcp[c]]
  /\ has_session_ended' = [p \in Ports |-> TRUE]
  /\ UNCHANGED <<started, acceptor, live, port, connection, orphaned>>

-----------------------------------------------------------------------------
\* Port::send_message() and send_debug().  Only calls that change something
\* are steps.

\* send_packet() of sequenced data, which counts as a sign of life.
write_data(c) ==
  [c EXCEPT !.sock = async_write(@, "other"),
            !.hb.sent = @ \/ async_write_error(c.sock) = "none"]

SendMessage(c) ==
  /\ \E p \in Ports : SendsTo(p, c) /\ ~has_session_ended[p]
  /\ tcp[c].state = "logged_in"
  /\ Becomes(c, write_data(tcp[c]))

SendDebug(c) ==
  /\ \E p \in Ports : SendsTo(p, c)
  /\ ~is_closing(tcp[c])
  /\ Becomes(c, write_debug(tcp[c]))

-----------------------------------------------------------------------------
\* Reading.

ReadFailed(c) ==
  \E result \in ReadResults(tcp[c].sock.read) \ {"ok"} :
    Becomes(c, read_failed(tcp[c], result))

PacketRead(c) == "ok" \in ReadResults(tcp[c].sock.read)

HeaderReceived(c) ==
  /\ PacketRead(c) /\ tcp[c].sock.part = "header"
  /\ Becomes(c, header_received(tcp[c]))

HeaderMalformed(c) ==
  /\ PacketRead(c) /\ tcp[c].sock.part = "header"
  /\ Becomes(c, header_malformed(tcp[c]))

\* The connection in read_success().
Reader(c) == [tcp[c] EXCEPT !.sock.read = "none"]

PacketIgnored(c) ==
  /\ PacketRead(c) /\ is_closing(tcp[c])
  /\ Becomes(c, end_of_handler(Reader(c)))

\* process_packet() finds the packet's type, length or moment wrong.
PacketInvalid(c) ==
  /\ PacketRead(c) /\ ~is_closing(tcp[c])
  /\ Becomes(c, read_next(handle_protocol_violation(Reader(c))))

DebugReceived(c) ==
  /\ PacketRead(c) /\ ~is_closing(tcp[c])
  /\ Becomes(c, read_next(Reader(c)))

\* Unsequenced data and client heartbeats: increment_receive_count().
ClientAlive(c) ==
  /\ PacketRead(c) /\ tcp[c].state = "logged_in"
  /\ Becomes(c, read_next([Reader(c) EXCEPT !.hb.received = TRUE]))

LogoutRequest(c) ==
  /\ PacketRead(c) /\ tcp[c].sock.part = "header" /\ tcp[c].state = "logged_in"
  /\ Becomes(c, read_next(disconnect(Reader(c), "logout_request")))

-----------------------------------------------------------------------------
\* Logging in.

LoginRequest(c) ==
  PacketRead(c) /\ tcp[c].sock.part = "payload" /\ tcp[c].state = "connected"

\* Port::on_login_request(): the connection that was logged in is superseded.
supersede(p) ==
  [d \in Conn |-> IF connection[p] = d THEN disconnect(tcp[d], "superseded")
                                       ELSE tcp[d]]

\* process_login_request() up to writing the response, for a login accepted.
login_accepted(c, sends, fails) ==
  LET d == [c EXCEPT !.login = timer_stop(@), !.state = "logged_in"]
  IN  start_heartbeat_timer(IF sends THEN write_data(d) ELSE d, fails)

write_login_response(c) == [c EXCEPT !.sock = async_write(@, "login")]

Sends(p) == {FALSE} \cup {x \in {TRUE} : CallbackSends /\ ~has_session_ended[p]}

LoginAccepted(c) ==
  /\ LoginRequest(c)
  /\ \E p \in Ports : \E sends \in Sends(p), fails \in TimerFaults :
       /\ tcp' = [supersede(p) EXCEPT ![c] =
                    read_next(write_login_response(login_accepted(Reader(c), sends, fails)))]
       /\ connection' = [connection EXCEPT ![p] = c]
       /\ port' = [port EXCEPT ![c] = p]
  /\ UNCHANGED <<serverVars, live, has_session_ended, orphaned>>

\* Connection_state::initiate_disconnect(): the state in which the connection
\* waits for the response to be written.
prepare_graceful_disconnect(c, reason) ==
  IF is_closing(c) THEN c ELSE [c EXCEPT !.state = "disconnecting", !.reason = reason]

login_rejected(c) ==
  prepare_graceful_disconnect([c EXCEPT !.login = timer_stop(@)], "access_denied")

LoginRejected(c) ==
  /\ LoginRequest(c)
  /\ Becomes(c, read_next(write_login_response(login_rejected(Reader(c)))))

-----------------------------------------------------------------------------
\* Writing and timers.

WriteFailed(c) ==
  \E result \in Results(tcp[c].sock.write) \ {"ok"} :
    Becomes(c, write_failed(tcp[c], result))

\* Faulty: a rejected connection is not closed.
write_success_nothing(c) == c

\* A rejected connection is closed when a write has succeeded.
write_success(c) ==
  IF c.state = "disconnecting" THEN disconnect(c, "unmanaged_abort") ELSE c

PacketSent(c) ==
  /\ "ok" \in Results(tcp[c].sock.write)
  /\ LET d == write_success([tcp[c] EXCEPT !.sock.write = "none"])
     IN  Becomes(c, end_of_handler([d EXCEPT !.sock = packet_sent(@)]))

LoginWait(c) ==
  \E result \in Results(tcp[c].login.wait) :
    Becomes(c, login_wait_completed(tcp[c], result))

HeartbeatWait(c) ==
  \E result \in Results(tcp[c].hb.wait), fails \in TimerFaults :
    Becomes(c, heartbeat_wait_completed(tcp[c], result, fails))

-----------------------------------------------------------------------------
\* Dropping a connection: Port::on_closed() and Acceptor::on_closed().

\* Faulty: the port forgets whatever connection it has.
port_on_closed_any(p, c) == IF p = port[c] THEN NoConn ELSE connection[p]

\* Faulty: the port keeps pointing at the connection.
port_on_closed_nothing(p, c) == connection[p]

\* Port::on_closed(): what the port p points at after c was closed.
port_on_closed(p, c) ==
  IF p = port[c] /\ connection[p] = c THEN NoConn ELSE connection[p]

on_closed(c, new) ==
  /\ connection' = [p \in Ports |-> port_on_closed(p, c)]
  /\ live' = live \ {c}
  /\ tcp' = [tcp EXCEPT ![c] = NoTcp] /\ port' = [port EXCEPT ![c] = NoPort]
  /\ orphaned' = (orphaned \/ ~owes_nothing(new))

\* closed(), login_timer_stopped() and heartbeat_timer_stopped(), posted to
\* the executor: the last of them drops the connection.
Report(c, new) ==
  /\ IF is_done(new) THEN on_closed(c, new)
     ELSE tcp' = [tcp EXCEPT ![c] = new] /\ UNCHANGED <<connection, live, port, orphaned>>
  /\ UNCHANGED <<serverVars, has_session_ended>>

SocketClosed(c) ==
  /\ tcp[c].sock.posted
  /\ Report(c, [tcp[c] EXCEPT !.sock.posted = FALSE, !.socket_closed = TRUE])

LoginTimerStopped(c) ==
  /\ tcp[c].login.posted
  /\ Report(c, [tcp[c] EXCEPT !.login.posted = FALSE, !.login_timer_stopped = TRUE])

HeartbeatTimerStopped(c) ==
  /\ tcp[c].hb.posted
  /\ Report(c, [tcp[c] EXCEPT !.hb.posted = FALSE, !.heartbeat_timer_stopped = TRUE])

-----------------------------------------------------------------------------
Handler(c) ==
  \/ ReadFailed(c) \/ HeaderReceived(c) \/ HeaderMalformed(c) \/ PacketIgnored(c)
  \/ PacketInvalid(c) \/ DebugReceived(c) \/ ClientAlive(c) \/ LogoutRequest(c)
  \/ LoginAccepted(c) \/ LoginRejected(c)
  \/ WriteFailed(c) \/ PacketSent(c) \/ LoginWait(c) \/ HeartbeatWait(c)
  \/ SocketClosed(c) \/ LoginTimerStopped(c) \/ HeartbeatTimerStopped(c)

Next ==
  \/ Post \/ RunNothing \/ RunStart \/ RunStop \/ RunEndSession
  \/ AcceptFailed \/ Accepted
  \/ \E c \in live : Handler(c) \/ SendMessage(c) \/ SendDebug(c)

Spec == Init /\ [][Next]_vars

\* Operations that were cancelled or started on a closed socket complete,
\* timers expire and what was posted is executed.  A read, a write or an
\* accept may stay pending for as long as the clients like, and the
\* application need not call anything.
Fairness ==
  \A c \in Conn :
    /\ WF_vars(/\ c \in live /\ Cancelled(tcp[c].sock.read)
               /\ ReadFailed(c) \/ HeaderReceived(c) \/ HeaderMalformed(c)
                  \/ PacketIgnored(c))
    /\ WF_vars(c \in live /\ Cancelled(tcp[c].sock.write) /\ (WriteFailed(c) \/ PacketSent(c)))
    /\ WF_vars(c \in live /\ LoginWait(c)) /\ WF_vars(c \in live /\ HeartbeatWait(c))
    /\ WF_vars(c \in live /\ SocketClosed(c))
    /\ WF_vars(c \in live /\ LoginTimerStopped(c))
    /\ WF_vars(c \in live /\ HeartbeatTimerStopped(c))

-----------------------------------------------------------------------------
\* Every variable has its type, and no queue exceeds write_packets_limit_.
TypeOK ==
  /\ started \in BOOLEAN /\ tasks \in Seq(Task)
  /\ acceptor \in [open : BOOLEAN, accepts : Seq(OpStatus)]
  /\ live \subseteq Conn /\ tcp \in [Conn -> TcpConnections]
  /\ \A c \in Conn : Len(tcp[c].sock.write_packets) <= WriteLimit
  /\ port \in [Conn -> Ports \cup {NoPort}] /\ connection \in [Ports -> Conn \cup {NoConn}]
  /\ has_session_ended \in [Ports -> BOOLEAN]
  /\ orphaned \in BOOLEAN

\* No Tcp_connection is destroyed while a handler of its socket or timers is
\* still to be invoked: the handlers capture raw pointers.
NoOrphans == ~orphaned

\* A port's connection_ never dangles: it points at a connection of the
\* acceptor, and that connection's port_ points back.
PortPointsToLive ==
  \A p \in Ports : connection[p] # NoConn =>
    connection[p] \in live /\ port[connection[p]] = p

\* A port has at most one session: a connection that is logged in is the one
\* its port sends to, so that a login always displaces the one before it and
\* the late end of a superseded connection does not detach its successor.
OneSessionPerPort ==
  \A c \in live : tcp[c].state = "logged_in" =>
    port[c] \in Ports /\ connection[port[c]] = c

\* A rejected connection has no timer and reads nothing: what ends it is the
\* write of the rejection, which is under way and next to complete.
RejectIsWaitedFor ==
  \A c \in live : tcp[c].state = "disconnecting" =>
    tcp[c].sock.write_packets = <<"login">> /\ tcp[c].sock.write = "pending"

\* Whatever state a connection is in, something that will happen without the
\* client's help takes it out of it, a rejection excepted.
NeverStranded ==
  \A c \in live :
    CASE tcp[c].state = "connected"     -> tcp[c].login.started /\ tcp[c].login.wait = "pending"
      [] tcp[c].state = "logged_in"     -> tcp[c].hb.started /\ tcp[c].hb.wait = "pending"
      [] tcp[c].state = "disconnecting" -> tcp[c].sock.write = "pending"
      [] tcp[c].state = "disconnected"  -> /\ ~tcp[c].login.started /\ ~tcp[c].hb.started
                                           /\ ~owes_nothing(tcp[c])
      [] OTHER -> FALSE

\* Without a banner the login response is the first packet that a connection
\* sends, whatever its port is asked to send meanwhile: a client takes data
\* before the response for a violation.  So it is unless the port's handler
\* itself sends in its login_success callback, which comes before the response.
LoginResponseFirst ==
  \A c \in live : \A i \in 2..Len(tcp[c].sock.write_packets) :
    tcp[c].sock.write_packets[i] # "login"

\* An accept operation is waiting for a client.
Accepting == \E k \in DOMAIN acceptor.accepts : acceptor.accepts[k] = "pending"

\* Once the server has an accept operation on its listening socket it always
\* has one until it is stopped, whatever fails, and with accept operations of
\* an earlier run still to end.
NeverDeaf == [][Accepting /\ acceptor'.open => Accepting']_vars

-----------------------------------------------------------------------------
\* A connection whose socket was closed is dropped by the acceptor.
ClosedLeadsToDropped ==
  \A c \in Conn : (c \in live /\ tcp[c].sock.closing) ~> c \notin live

\* A client cannot stay connected without sending its login request.
LoginIsBounded ==
  \A c \in Conn : (c \in live /\ tcp[c].state = "connected")
                    ~> ~(c \in live /\ tcp[c].state = "connected")

\* A client that falls silent does not stay logged in.
SilentClientIsDropped ==
  \A c \in Conn : []<>~(c \in live /\ tcp[c].state = "logged_in" /\ ~tcp[c].hb.received)

=============================================================================
