------------------------- MODULE TcpConnection_proof -------------------------
(***************************************************************************)
(* Lemmas about the operators of Socket, Timers and TcpConnection: each of *)
(* them preserves the invariant of the shutdown protocol and keeps the     *)
(* queue of packets in order, and none leaves a connection that nothing    *)
(* takes further.                                                          *)
(***************************************************************************)
EXTENDS TcpConnection, TLAPS

\* closed() is posted only for a socket that is closing and idle; a write that
\* is owed has its packet in the queue.
SocketInv(s) ==
  /\ s.closed_signaled => s.closing /\ is_idle(s)
  /\ s.posted => s.closed_signaled
  /\ s.write # "none" => s.write_packets # <<>>

\* *_timer_stopped() is posted only for a timer that is stopped and not waiting.
TimerInv(t) ==
  /\ t.stopped_signaled => ~t.started /\ t.wait = "none"
  /\ t.posted => t.stopped_signaled

\* A timer that was never started, and one that owes its owner nothing.
Fresh(t) == ~t.started /\ t.wait = "none" /\ ~t.stopped_signaled /\ ~t.posted

Rests(t) == ~t.started /\ t.wait = "none" /\ ~t.posted

\* What the three flags of a connection stand for.
FlagsInv(c) ==
  /\ c.socket_closed => c.sock.closed_signaled /\ ~c.sock.posted
  /\ c.login_timer_stopped => Rests(c.login)
  /\ c.heartbeat_timer_stopped => Rests(c.hb)

\* The timers that connect_success() and a login will start.
StartInv(c) ==
  /\ c.sock.connect # "none" => /\ Fresh(c.login) /\ Fresh(c.hb)
                               /\ c.state \in {"connecting", "disconnected"}
  /\ c.state \in {"connecting", "connected"} => Fresh(c.hb)

ShutdownInv(c) ==
  /\ c \in TcpConnections
  /\ SocketInv(c.sock) /\ TimerInv(c.login) /\ TimerInv(c.hb)
  /\ FlagsInv(c) /\ StartInv(c)

-----------------------------------------------------------------------------
\* Cancelling yields a status, and never one that was not owed.
LEMMA CancelType ==
  ASSUME NEW op \in OpStatus
  PROVE  cancel(op) \in OpStatus /\ (cancel(op) = "none" <=> op = "none")
BY DEF cancel, OpStatus

\* Signalling closed() leaves everything else of a socket alone.
LEMMA SignalClosed ==
  ASSUME NEW s \in Sockets, SocketInv(s)
  PROVE  LET t == socket_maybe_signal_closed(s)
         IN  /\ t \in Sockets /\ SocketInv(t)
             /\ t.connect = s.connect /\ t.closing = s.closing
             /\ s.closed_signaled => t = s
BY DEF socket_maybe_signal_closed, Sockets, SocketInv, is_idle

\* Closing a socket: what is owed stays owed, and closed() is posted once.
LEMMA SocketClose ==
  ASSUME NEW s \in Sockets, SocketInv(s)
  PROVE  LET t == socket_close(s)
         IN  /\ t \in Sockets /\ SocketInv(t) /\ t.closing
             /\ t.connect = "none" <=> s.connect = "none"
             /\ s.closed_signaled => t.closed_signaled /\ t.posted = s.posted
<1> DEFINE u == [s EXCEPT !.closing = TRUE, !.connect = cancel(@),
                          !.read = cancel(@), !.write = cancel(@)]
<1>1. s.connect \in OpStatus /\ s.read \in OpStatus /\ s.write \in OpStatus
  BY DEF Sockets
<1>2. u \in Sockets
  BY <1>1, CancelType DEF Sockets
<1>3. SocketInv(u) /\ (u.connect = "none" <=> s.connect = "none")
  BY <1>1, CancelType DEF SocketInv, is_idle, Sockets
<1>4. u.closing /\ u.closed_signaled = s.closed_signaled /\ u.posted = s.posted
  BY DEF Sockets
<1> HIDE DEF u
<1>5. socket_close(s) = socket_maybe_signal_closed(u)
  BY DEF socket_close, u
<1> QED BY <1>2, <1>3, <1>4, <1>5, SignalClosed

\* Stopping a timer: it ends stopped, and a fresh or resting one is untouched.
LEMMA LoginTimerStop ==
  ASSUME NEW t \in LoginTimers, TimerInv(t)
  PROVE  /\ timer_stop(t) \in LoginTimers /\ TimerInv(timer_stop(t))
         /\ ~timer_stop(t).started
         /\ ~t.started => timer_stop(t) = t
BY CancelType DEF timer_stop, maybe_signal_stopped, LoginTimers, TimerInv

\* The same for the heartbeat timer.
LEMMA HeartbeatTimerStop ==
  ASSUME NEW t \in HeartbeatTimers, TimerInv(t)
  PROVE  /\ timer_stop(t) \in HeartbeatTimers /\ TimerInv(timer_stop(t))
         /\ ~timer_stop(t).started
         /\ ~t.started => timer_stop(t) = t
BY CancelType DEF timer_stop, maybe_signal_stopped, HeartbeatTimers, TimerInv

\* disconnect() preserves the invariant of the shutdown protocol.
LEMMA DisconnectInv ==
  ASSUME NEW c, ShutdownInv(c), NEW reason \in Disconnect_reason
  PROVE  ShutdownInv(disconnect(c, reason))
<1>1. CASE c.state = "disconnected"
  BY <1>1 DEF disconnect
<1>2. CASE c.state # "disconnected"
  <2> DEFINE d == disconnect(c, reason)
  <2>1. /\ c \in TcpConnections /\ c.sock \in Sockets /\ SocketInv(c.sock)
        /\ c.login \in LoginTimers /\ TimerInv(c.login)
        /\ c.hb \in HeartbeatTimers /\ TimerInv(c.hb)
    BY DEF ShutdownInv, TcpConnections
  <2>2. d = [c EXCEPT !.state  = "disconnected",
                 !.reason = IF @ = "none" THEN reason ELSE @,
                 !.sock   = socket_close(@),
                 !.login  = timer_stop(@),
                 !.hb     = timer_stop(@)]
    BY <1>2 DEF disconnect
  <2>3. d \in TcpConnections
    <3>1. socket_close(c.sock) \in Sockets
      BY <2>1, SocketClose
    <3>2. timer_stop(c.login) \in LoginTimers
      BY <2>1, LoginTimerStop
    <3>3. timer_stop(c.hb) \in HeartbeatTimers
      BY <2>1, HeartbeatTimerStop
    <3>4. (IF c.reason = "none" THEN reason ELSE c.reason) \in Disconnect_reason
      BY <2>1 DEF TcpConnections
    <3> QED BY <2>1, <2>2, <3>1, <3>2, <3>3, <3>4 DEF TcpConnections, State
  <2>4. /\ d.state = "disconnected" /\ d.sock = socket_close(c.sock)
        /\ d.login = timer_stop(c.login) /\ d.hb = timer_stop(c.hb)
        /\ d.socket_closed = c.socket_closed
        /\ d.login_timer_stopped = c.login_timer_stopped
        /\ d.heartbeat_timer_stopped = c.heartbeat_timer_stopped
    BY <2>1, <2>2 DEF TcpConnections
  <2> HIDE DEF d
  <2>5. SocketInv(d.sock) /\ TimerInv(d.login) /\ TimerInv(d.hb)
    BY <2>1, <2>4, SocketClose, LoginTimerStop, HeartbeatTimerStop
  <2>6. FlagsInv(d)
    BY <2>1, <2>4, SocketClose, LoginTimerStop, HeartbeatTimerStop
       DEF ShutdownInv, FlagsInv, Rests
  <2>7. StartInv(d)
    BY <2>1, <2>4, SocketClose, LoginTimerStop, HeartbeatTimerStop
       DEF ShutdownInv, StartInv, Fresh
  <2> QED BY <2>3, <2>5, <2>6, <2>7 DEF ShutdownInv, d
<1> QED BY <1>1, <1>2

-----------------------------------------------------------------------------
\* Replacing one member of a connection.
LEMMA SocketReplaced ==
  ASSUME NEW c, ShutdownInv(c), NEW s \in Sockets, SocketInv(s),
         c.socket_closed => s.closed_signaled /\ ~s.posted,
         s.connect # "none" => c.sock.connect # "none"
  PROVE  ShutdownInv([c EXCEPT !.sock = s])
<1> DEFINE d == [c EXCEPT !.sock = s]
<1>1. c \in TcpConnections
  BY DEF ShutdownInv
<1>2. d \in TcpConnections
  BY <1>1 DEF TcpConnections
<1>3. /\ d.sock = s /\ d.login = c.login /\ d.hb = c.hb /\ d.state = c.state
      /\ d.socket_closed = c.socket_closed
      /\ d.login_timer_stopped = c.login_timer_stopped
      /\ d.heartbeat_timer_stopped = c.heartbeat_timer_stopped
  BY <1>1 DEF TcpConnections
<1> HIDE DEF d
<1> QED BY <1>2, <1>3 DEF ShutdownInv, FlagsInv, StartInv, d

\* Replacing the login timer of a connection.
LEMMA LoginTimerReplaced ==
  ASSUME NEW c, ShutdownInv(c), NEW t \in LoginTimers, TimerInv(t),
         c.login_timer_stopped => Rests(t),
         c.sock.connect # "none" => Fresh(t)
  PROVE  ShutdownInv([c EXCEPT !.login = t])
<1> DEFINE d == [c EXCEPT !.login = t]
<1>1. c \in TcpConnections
  BY DEF ShutdownInv
<1>2. d \in TcpConnections
  BY <1>1 DEF TcpConnections
<1>3. /\ d.login = t /\ d.sock = c.sock /\ d.hb = c.hb /\ d.state = c.state
      /\ d.socket_closed = c.socket_closed
      /\ d.login_timer_stopped = c.login_timer_stopped
      /\ d.heartbeat_timer_stopped = c.heartbeat_timer_stopped
  BY <1>1 DEF TcpConnections
<1> HIDE DEF d
<1> QED BY <1>2, <1>3 DEF ShutdownInv, FlagsInv, StartInv, d

\* Replacing the heartbeat timer of a connection.
LEMMA HeartbeatTimerReplaced ==
  ASSUME NEW c, ShutdownInv(c), NEW t \in HeartbeatTimers, TimerInv(t),
         c.heartbeat_timer_stopped => Rests(t),
         c.sock.connect # "none" => Fresh(t),
         c.state \in {"connecting", "connected"} => Fresh(t)
  PROVE  ShutdownInv([c EXCEPT !.hb = t])
<1> DEFINE d == [c EXCEPT !.hb = t]
<1>1. c \in TcpConnections
  BY DEF ShutdownInv
<1>2. d \in TcpConnections
  BY <1>1 DEF TcpConnections
<1>3. /\ d.hb = t /\ d.sock = c.sock /\ d.login = c.login /\ d.state = c.state
      /\ d.socket_closed = c.socket_closed
      /\ d.login_timer_stopped = c.login_timer_stopped
      /\ d.heartbeat_timer_stopped = c.heartbeat_timer_stopped
  BY <1>1 DEF TcpConnections
<1> HIDE DEF d
<1> QED BY <1>2, <1>3 DEF ShutdownInv, FlagsInv, StartInv, d

-----------------------------------------------------------------------------
\* The end of every handler of a socket operation.
LEMMA EndOfHandlerInv ==
  ASSUME NEW c, ShutdownInv(c)
  PROVE  ShutdownInv(end_of_handler(c))
<1>1. c.sock \in Sockets /\ SocketInv(c.sock)
  BY DEF ShutdownInv, TcpConnections
<1>2. c.socket_closed => c.sock.closed_signaled /\ ~c.sock.posted
  BY DEF ShutdownInv, FlagsInv
<1> QED BY <1>1, <1>2, SignalClosed, SocketReplaced DEF end_of_handler

\* The start of a read handler: the read is no longer owed.
LEMMA ReadDone ==
  ASSUME NEW c, ShutdownInv(c), c.sock.read # "none"
  PROVE  ShutdownInv([c EXCEPT !.sock.read = "none"])
<1> DEFINE s == [c.sock EXCEPT !.read = "none"]
<1>1. c \in TcpConnections /\ c.sock \in Sockets /\ SocketInv(c.sock)
  BY DEF ShutdownInv, TcpConnections
<1>2. ~c.sock.closed_signaled /\ ~c.sock.posted /\ ~c.socket_closed
  BY DEF ShutdownInv, FlagsInv, SocketInv, is_idle
<1>3. s \in Sockets /\ SocketInv(s) /\ s.connect = c.sock.connect
  BY <1>1, <1>2 DEF Sockets, SocketInv, OpStatus
<1>4. [c EXCEPT !.sock.read = "none"] = [c EXCEPT !.sock = s]
  BY <1>1 DEF TcpConnections
<1> HIDE DEF s
<1> QED BY <1>2, <1>3, <1>4, SocketReplaced

\* The start of a write handler: the write is no longer owed.
LEMMA WriteDone ==
  ASSUME NEW c, ShutdownInv(c), c.sock.write # "none"
  PROVE  ShutdownInv([c EXCEPT !.sock.write = "none"])
<1> DEFINE s == [c.sock EXCEPT !.write = "none"]
<1>1. c \in TcpConnections /\ c.sock \in Sockets /\ SocketInv(c.sock)
  BY DEF ShutdownInv, TcpConnections
<1>2. ~c.sock.closed_signaled /\ ~c.sock.posted /\ ~c.socket_closed
  BY DEF ShutdownInv, FlagsInv, SocketInv, is_idle
<1>3. s \in Sockets /\ SocketInv(s) /\ s.connect = c.sock.connect
  BY <1>1, <1>2 DEF Sockets, SocketInv, OpStatus
<1>4. [c EXCEPT !.sock.write = "none"] = [c EXCEPT !.sock = s]
  BY <1>1 DEF TcpConnections
<1> HIDE DEF s
<1> QED BY <1>2, <1>3, <1>4, SocketReplaced

\* Queueing a packet.
LEMMA AsyncWriteInv ==
  ASSUME NEW c, ShutdownInv(c), NEW packet \in PacketKind
  PROVE  ShutdownInv([c EXCEPT !.sock = async_write(@, packet)])
<1>1. c.sock \in Sockets /\ SocketInv(c.sock)
  BY DEF ShutdownInv, TcpConnections
<1>2. c.socket_closed => c.sock.closed_signaled /\ ~c.sock.posted
  BY DEF ShutdownInv, FlagsInv
<1> DEFINE s == async_write(c.sock, packet)
<1>3. s \in Sockets
  <2> DEFINE t == [c.sock EXCEPT !.write_packets = Append(@, packet)]
  <2>1. Append(c.sock.write_packets, packet) \in Seq(PacketKind)
    BY <1>1 DEF Sockets
  <2>2. t \in Sockets
    BY <1>1, <2>1 DEF Sockets
  <2>3. write_packet(t) \in Sockets
    BY <2>2 DEF write_packet, StartOp, Sockets, OpStatus
  <2>4. [c.sock EXCEPT !.write_buffer_was_full = TRUE] \in Sockets
    BY <1>1 DEF Sockets
  <2>5. \/ s = c.sock
        \/ s = [c.sock EXCEPT !.write_buffer_was_full = TRUE]
        \/ s = t \/ s = write_packet(t)
    BY DEF async_write, async_write_error
  <2> QED BY <1>1, <2>2, <2>3, <2>4, <2>5
<1>4. SocketInv(s) /\ s.connect = c.sock.connect
  BY <1>1 DEF async_write, async_write_error, write_packet, StartOp, Sockets, SocketInv, is_idle
<1>5. s.closed_signaled = c.sock.closed_signaled /\ s.posted = c.sock.posted
  BY <1>1 DEF async_write, async_write_error, write_packet, StartOp, Sockets
<1> HIDE DEF s
<1> QED BY <1>2, <1>3, <1>4, <1>5, SocketReplaced DEF s

\* Starting the next read.
LEMMA AsyncReadInv ==
  ASSUME NEW c, ShutdownInv(c)
  PROVE  ShutdownInv([c EXCEPT !.sock = async_read(@)])
<1>1. c.sock \in Sockets /\ SocketInv(c.sock)
  BY DEF ShutdownInv, TcpConnections
<1>2. c.socket_closed => c.sock.closed_signaled /\ ~c.sock.posted
  BY DEF ShutdownInv, FlagsInv
<1> DEFINE s == async_read(c.sock)
<1>3. s \in Sockets /\ SocketInv(s) /\ s.connect = c.sock.connect
  BY <1>1 DEF async_read, read_header, StartOp, Sockets, OpStatus, SocketInv, is_idle
<1>5. s.closed_signaled = c.sock.closed_signaled /\ s.posted = c.sock.posted
  BY <1>1 DEF async_read, read_header, StartOp, Sockets
<1> HIDE DEF s
<1> QED BY <1>2, <1>3, <1>5, SocketReplaced DEF s

\* The end of read_success(): the next read is started, or nothing more.
LEMMA ReadNextInv ==
  ASSUME NEW c, ShutdownInv(c)
  PROVE  ShutdownInv(read_next(c))
BY AsyncReadInv, EndOfHandlerInv DEF read_next

\* A read that failed, was aborted or met the end of the stream disconnects.
LEMMA ReadFailedInv ==
  ASSUME NEW c, ShutdownInv(c), c.sock.read # "none", NEW result
  PROVE  ShutdownInv(read_failed(c, result))
BY ReadDone, DisconnectInv, EndOfHandlerInv
   DEF read_failed, handle_transport_error, Disconnect_reason

\* A malformed header is a protocol violation.
LEMMA HeaderMalformedInv ==
  ASSUME NEW c, ShutdownInv(c), c.sock.read # "none"
  PROVE  ShutdownInv(header_malformed(c))
BY ReadDone, DisconnectInv, EndOfHandlerInv
   DEF header_malformed, handle_protocol_violation, Disconnect_reason

\* After a header the payload is read, on a closed socket too.
LEMMA HeaderReceivedInv ==
  ASSUME NEW c, ShutdownInv(c), c.sock.read # "none"
  PROVE  ShutdownInv(header_received(c))
<1>1. c.sock \in Sockets /\ SocketInv(c.sock)
  BY DEF ShutdownInv, TcpConnections
<1>2. ~c.sock.closed_signaled /\ ~c.sock.posted /\ ~c.socket_closed
  BY DEF ShutdownInv, FlagsInv, SocketInv, is_idle
<1> DEFINE s == read_payload([c.sock EXCEPT !.read = "none"])
<1>3. s \in Sockets /\ SocketInv(s) /\ s.connect = c.sock.connect
  BY <1>1, <1>2 DEF read_payload, StartOp, Sockets, OpStatus, SocketInv, is_idle
<1> HIDE DEF s
<1>4. ShutdownInv([c EXCEPT !.sock = s])
  BY <1>2, <1>3, SocketReplaced
<1> QED BY <1>4, EndOfHandlerInv DEF header_received, s

\* A write that failed disconnects; one that was aborted does nothing.
LEMMA WriteFailedInv ==
  ASSUME NEW c, ShutdownInv(c), c.sock.write # "none", NEW result
  PROVE  ShutdownInv(write_failed(c, result))
BY WriteDone, DisconnectInv, EndOfHandlerInv
   DEF write_failed, handle_transport_error, Disconnect_reason

\* A packet was written: the next one is started, on a closed socket too.
LEMMA PacketSentInv ==
  ASSUME NEW c, ShutdownInv(c), c.sock.write # "none"
  PROVE  ShutdownInv([c EXCEPT !.sock = packet_sent([@ EXCEPT !.write = "none"])])
<1>1. c.sock \in Sockets /\ SocketInv(c.sock)
  BY DEF ShutdownInv, TcpConnections
<1>2. ~c.sock.closed_signaled /\ ~c.sock.posted /\ ~c.socket_closed
  BY DEF ShutdownInv, FlagsInv, SocketInv, is_idle
<1> DEFINE s == packet_sent([c.sock EXCEPT !.write = "none"])
           rest == Tail(c.sock.write_packets)
           t == [c.sock EXCEPT !.write = "none", !.write_packets = rest]
<1>3. rest \in Seq(PacketKind)
  BY <1>1 DEF Sockets, SocketInv
<1>4. t \in Sockets /\ ~t.closed_signaled /\ ~t.posted /\ t.connect = c.sock.connect
  BY <1>1, <1>2, <1>3 DEF Sockets, OpStatus
<1>5. \/ s = write_packet(t) /\ t.write_packets # <<>>
      \/ s = [t EXCEPT !.write_buffer_was_full = FALSE] /\ t.write = "none"
  BY <1>1 DEF packet_sent, Sockets
<1> HIDE DEF s, t
<1>6. s \in Sockets /\ SocketInv(s) /\ s.connect = c.sock.connect
  BY <1>4, <1>5 DEF write_packet, StartOp, Sockets, OpStatus, SocketInv
<1> QED BY <1>2, <1>6, SocketReplaced DEF s

-----------------------------------------------------------------------------
\* The handlers of the timers.

\* The start of a wait handler, and its end.
LEMMA LoginWaitDone ==
  ASSUME NEW c, ShutdownInv(c), c.login.wait # "none"
  PROVE  ShutdownInv([c EXCEPT !.login.wait = "none"])
<1> DEFINE t == [c.login EXCEPT !.wait = "none"]
<1>1. c \in TcpConnections /\ c.login \in LoginTimers /\ TimerInv(c.login)
  BY DEF ShutdownInv, TcpConnections
<1>2. ~c.login_timer_stopped /\ c.sock.connect = "none"
  BY DEF ShutdownInv, FlagsInv, StartInv, Rests, Fresh
<1>3. t \in LoginTimers /\ TimerInv(t)
  BY <1>1 DEF LoginTimers, TimerInv, OpStatus
<1>4. [c EXCEPT !.login.wait = "none"] = [c EXCEPT !.login = t]
  BY <1>1 DEF TcpConnections
<1> HIDE DEF t
<1> QED BY <1>2, <1>3, <1>4, LoginTimerReplaced

\* The end of the login timer's wait handler.
LEMMA LoginSignalStopped ==
  ASSUME NEW c, ShutdownInv(c), ~c.login_timer_stopped, c.sock.connect = "none"
  PROVE  ShutdownInv([c EXCEPT !.login = maybe_signal_stopped(@)])
<1>1. c.login \in LoginTimers /\ TimerInv(c.login)
  BY DEF ShutdownInv, TcpConnections
<1>2. maybe_signal_stopped(c.login) \in LoginTimers /\ TimerInv(maybe_signal_stopped(c.login))
  BY <1>1 DEF maybe_signal_stopped, LoginTimers, TimerInv
<1> QED BY <1>2, LoginTimerReplaced

\* The start of the heartbeat timer's wait handler.
LEMMA HeartbeatWaitDone ==
  ASSUME NEW c, ShutdownInv(c), c.hb.wait # "none"
  PROVE  ShutdownInv([c EXCEPT !.hb.wait = "none"])
<1> DEFINE t == [c.hb EXCEPT !.wait = "none"]
<1>1. c \in TcpConnections /\ c.hb \in HeartbeatTimers /\ TimerInv(c.hb)
  BY DEF ShutdownInv, TcpConnections
<1>2. /\ ~c.heartbeat_timer_stopped /\ c.sock.connect = "none"
      /\ c.state \notin {"connecting", "connected"}
  BY DEF ShutdownInv, FlagsInv, StartInv, Rests, Fresh
<1>3. t \in HeartbeatTimers /\ TimerInv(t)
  BY <1>1 DEF HeartbeatTimers, TimerInv, OpStatus
<1>4. [c EXCEPT !.hb.wait = "none"] = [c EXCEPT !.hb = t]
  BY <1>1 DEF TcpConnections
<1> HIDE DEF t
<1> QED BY <1>2, <1>3, <1>4, HeartbeatTimerReplaced

\* The end of the heartbeat timer's wait handler.
LEMMA HeartbeatSignalStopped ==
  ASSUME NEW c, ShutdownInv(c), ~c.heartbeat_timer_stopped, c.sock.connect = "none",
         c.state \notin {"connecting", "connected"}
  PROVE  ShutdownInv([c EXCEPT !.hb = maybe_signal_stopped(@)])
<1>1. c.hb \in HeartbeatTimers /\ TimerInv(c.hb)
  BY DEF ShutdownInv, TcpConnections
<1>2. maybe_signal_stopped(c.hb) \in HeartbeatTimers /\ TimerInv(maybe_signal_stopped(c.hb))
  BY <1>1 DEF maybe_signal_stopped, HeartbeatTimers, TimerInv
<1> QED BY <1>2, HeartbeatTimerReplaced

\* What disconnect() leaves alone.
LEMMA DisconnectKeeps ==
  ASSUME NEW c, ShutdownInv(c), NEW reason
  PROVE  LET d == disconnect(c, reason)
         IN  /\ d.state = "disconnected"
             /\ d.socket_closed = c.socket_closed
             /\ d.login_timer_stopped = c.login_timer_stopped
             /\ d.heartbeat_timer_stopped = c.heartbeat_timer_stopped
             /\ d.sock.connect = "none" <=> c.sock.connect = "none"
<1>1. c \in TcpConnections /\ c.sock \in Sockets /\ SocketInv(c.sock)
  BY DEF ShutdownInv, TcpConnections
<1>2. socket_close(c.sock).connect = "none" <=> c.sock.connect = "none"
  BY <1>1, SocketClose
<1> QED BY <1>1, <1>2 DEF disconnect, TcpConnections

\* disconnect() does not touch a timer that was never started.
LEMMA DisconnectFresh ==
  ASSUME NEW c, ShutdownInv(c), NEW reason
  PROVE  /\ Fresh(c.login) => Fresh(disconnect(c, reason).login)
         /\ Fresh(c.hb) => Fresh(disconnect(c, reason).hb)
BY DEF disconnect, timer_stop, Fresh, ShutdownInv, TcpConnections

\* The wait handler of the login timer as a whole.
LEMMA LoginWaitInv ==
  ASSUME NEW c, ShutdownInv(c), c.login.wait # "none", NEW result
  PROVE  ShutdownInv(login_wait_completed(c, result))
<1> DEFINE d == [c EXCEPT !.login.wait = "none"]
           e == CASE ~d.login.started -> d
                  [] d.login.started /\ result # "ok" -> handle_transport_error(d)
                  [] OTHER -> disconnect(d, "login_timeout")
<1>1. ~c.login_timer_stopped /\ c.sock.connect = "none"
  BY DEF ShutdownInv, FlagsInv, StartInv, Rests, Fresh
<1>2. ShutdownInv(d)
  BY LoginWaitDone
<1>3. ~d.login_timer_stopped /\ d.sock.connect = "none"
  BY <1>1 DEF ShutdownInv, TcpConnections
<1>4. login_wait_completed(c, result) = [e EXCEPT !.login = maybe_signal_stopped(@)]
  BY DEF login_wait_completed
<1> HIDE DEF d
<1>5. e \in {d, disconnect(d, "transport_error"), disconnect(d, "login_timeout")}
  BY DEF handle_transport_error
<1> HIDE DEF e
<1>6. ShutdownInv(e) /\ ~e.login_timer_stopped /\ e.sock.connect = "none"
  BY <1>2, <1>3, <1>5, DisconnectInv, DisconnectKeeps DEF Disconnect_reason
<1> QED BY <1>4, <1>6, LoginSignalStopped

\* A connection whose heartbeat timer is in use.
Ticks(c) ==
  /\ ShutdownInv(c) /\ ~c.heartbeat_timer_stopped /\ c.sock.connect = "none"
  /\ c.state \notin {"connecting", "connected"}

\* Replacing the heartbeat timer while it is in use.
LEMMA TicksReplaced ==
  ASSUME NEW c, Ticks(c), NEW t \in HeartbeatTimers, TimerInv(t)
  PROVE  LET d == [c EXCEPT !.hb = t] IN Ticks(d) /\ d.hb = t
<1>1. c \in TcpConnections
  BY DEF Ticks, ShutdownInv
<1>2. ShutdownInv([c EXCEPT !.hb = t])
  BY HeartbeatTimerReplaced DEF Ticks
<1> QED BY <1>1, <1>2 DEF Ticks, TcpConnections

\* Sending a heartbeat leaves the timer running or stopped as it was.
LEMMA SendHeartbeatInv ==
  ASSUME NEW c, Ticks(c)
  PROVE  /\ Ticks(send_heartbeat(c))
         /\ send_heartbeat(c).hb.started = c.hb.started
<1>1. /\ c \in TcpConnections /\ c.hb \in HeartbeatTimers /\ TimerInv(c.hb)
      /\ c.sock \in Sockets
  BY DEF Ticks, ShutdownInv, TcpConnections
<1>2. CASE c.hb.sent
  <2> DEFINE t == [c.hb EXCEPT !.sent = FALSE]
  <2>1. t \in HeartbeatTimers /\ TimerInv(t) /\ t.started = c.hb.started
    BY <1>1 DEF HeartbeatTimers, TimerInv
  <2>2. send_heartbeat(c) = [c EXCEPT !.hb = t]
    BY <1>1, <1>2 DEF send_heartbeat, TcpConnections
  <2> HIDE DEF t
  <2> QED BY <2>1, <2>2, TicksReplaced
<1>3. CASE ~c.hb.sent
  <2> DEFINE d == [c EXCEPT !.sock = async_write(@, "other")]
  <2>1. send_heartbeat(c) = d
    BY <1>3 DEF send_heartbeat
  <2>2. ShutdownInv(d)
    BY AsyncWriteInv DEF Ticks, PacketKind
  <2>3. async_write(c.sock, "other").connect = c.sock.connect
    BY <1>1 DEF async_write, async_write_error, write_packet, StartOp, Sockets
  <2>4. /\ d.hb = c.hb /\ d.sock.connect = c.sock.connect /\ d.state = c.state
        /\ d.heartbeat_timer_stopped = c.heartbeat_timer_stopped
    BY <1>1, <2>3 DEF TcpConnections
  <2> HIDE DEF d
  <2> QED BY <2>1, <2>2, <2>4 DEF Ticks
<1> QED BY <1>2, <1>3

\* Counting a silent period leaves the timer running or stopped as it was.
LEMMA CountSilenceInv ==
  ASSUME NEW t \in HeartbeatTimers, TimerInv(t)
  PROVE  /\ count_silence(t) \in HeartbeatTimers /\ TimerInv(count_silence(t))
         /\ count_silence(t).started = t.started
<1>1. CASE t.received
  <2> DEFINE n == 0
  <2>1. count_silence(t) = [t EXCEPT !.no_receive_period = n, !.received = FALSE]
    BY <1>1 DEF count_silence
  <2>2. n \in Nat
    OBVIOUS
  <2> HIDE DEF n
  <2> QED BY <2>1, <2>2 DEF HeartbeatTimers, TimerInv
<1>2. CASE ~t.received
  <2> DEFINE n == t.no_receive_period + 1
  <2>1. count_silence(t) = [t EXCEPT !.no_receive_period = n]
    BY <1>2 DEF count_silence
  <2>2. n \in Nat
    BY DEF HeartbeatTimers
  <2> HIDE DEF n
  <2> QED BY <2>1, <2>2 DEF HeartbeatTimers, TimerInv
<1> QED BY <1>1, <1>2

\* The wait handler of the heartbeat timer as a whole.
LEMMA HeartbeatWaitInv ==
  ASSUME NEW c, ShutdownInv(c), c.hb.wait # "none", NEW result, NEW fails \in BOOLEAN
  PROVE  ShutdownInv(heartbeat_wait_completed(c, result, fails))
<1> DEFINE d == [c EXCEPT !.hb.wait = "none"]
           e == [d EXCEPT !.hb = count_silence(@)]
           s == send_heartbeat(e)
           f == [s EXCEPT !.hb = schedule(@, fails)]
           g == CASE ~d.hb.started -> d
                  [] d.hb.started /\ result # "ok" -> handle_transport_error(d)
                  [] d.hb.started /\ result = "ok" /\ receive_timed_out(d.hb)
                       -> disconnect(e, "heartbeat_timeout")
                  [] OTHER -> IF fails THEN handle_transport_error(f) ELSE f
<1>1. heartbeat_wait_completed(c, result, fails) = [g EXCEPT !.hb = maybe_signal_stopped(@)]
  BY DEF heartbeat_wait_completed
<1>2. Ticks(d)
  <2>1. /\ ~c.heartbeat_timer_stopped /\ c.sock.connect = "none"
        /\ c.state \notin {"connecting", "connected"}
    BY DEF ShutdownInv, FlagsInv, StartInv, Rests, Fresh
  <2>2. ShutdownInv(d)
    BY HeartbeatWaitDone
  <2> QED BY <2>1, <2>2 DEF Ticks, ShutdownInv, TcpConnections
<1> HIDE DEF d
<1>3. Ticks(e) /\ e.hb.started = d.hb.started
  <2>1. d.hb \in HeartbeatTimers /\ TimerInv(d.hb)
    BY <1>2 DEF Ticks, ShutdownInv, TcpConnections
  <2>2. /\ count_silence(d.hb) \in HeartbeatTimers /\ TimerInv(count_silence(d.hb))
        /\ count_silence(d.hb).started = d.hb.started
    BY <2>1, CountSilenceInv
  <2> QED BY <1>2, <2>2, TicksReplaced
<1> HIDE DEF e
<1>4. Ticks(s) /\ s.hb.started = d.hb.started
  BY <1>3, SendHeartbeatInv
<1> HIDE DEF s
<1>5. d.hb.started => Ticks(f)
  <2>1. s.hb \in HeartbeatTimers /\ TimerInv(s.hb)
    BY <1>4 DEF Ticks, ShutdownInv, TcpConnections
  <2>2. d.hb.started => schedule(s.hb, fails) \in HeartbeatTimers /\ TimerInv(schedule(s.hb, fails))
    BY <1>4, <2>1 DEF schedule, HeartbeatTimers, TimerInv, OpStatus
  <2> QED BY <1>4, <2>2, TicksReplaced
<1> HIDE DEF f
<1>6. \/ g = d \/ g = disconnect(d, "transport_error")
      \/ g = disconnect(e, "heartbeat_timeout")
      \/ d.hb.started /\ g \in {f, disconnect(f, "transport_error")}
  BY DEF handle_transport_error
<1> HIDE DEF g
<1>7. ASSUME NEW x, Ticks(x), NEW reason \in Disconnect_reason
      PROVE  Ticks(disconnect(x, reason))
  BY <1>7, DisconnectInv, DisconnectKeeps DEF Ticks
<1>8. Ticks(g)
  BY <1>2, <1>3, <1>5, <1>6, <1>7 DEF Disconnect_reason
<1> QED BY <1>1, <1>8, HeartbeatSignalStopped DEF Ticks

-----------------------------------------------------------------------------
\* Starting the timers, which are fresh then.

\* start() of the login timer, whether or not setting it fails.
LEMMA StartLoginTimerInv ==
  ASSUME NEW c, ShutdownInv(c), Fresh(c.login), c.sock.connect = "none",
         NEW fails \in BOOLEAN
  PROVE  ShutdownInv(start_login_timer(c, fails))
<1> DEFINE t == login_timer_start(c.login, fails)
           d == [c EXCEPT !.login_timer_stopped = FALSE, !.login = t]
<1>1. c \in TcpConnections /\ c.login \in LoginTimers
  BY DEF ShutdownInv, TcpConnections
<1>2. t \in LoginTimers /\ TimerInv(t)
  BY <1>1 DEF login_timer_start, Fresh, TimerInv, LoginTimers, OpStatus
<1>3. d = [c EXCEPT !.login_timer_stopped = FALSE, !.login = login_timer_start(@, fails)]
  BY <1>1 DEF TcpConnections
<1>4. start_login_timer(c, fails) \in {d, handle_transport_error(d)}
  BY <1>3 DEF start_login_timer
<1> HIDE DEF t
<1>5. d \in TcpConnections
  BY <1>1, <1>2 DEF TcpConnections
<1>6. /\ d.login = t /\ ~d.login_timer_stopped /\ d.sock = c.sock /\ d.hb = c.hb
      /\ d.state = c.state /\ d.socket_closed = c.socket_closed
      /\ d.heartbeat_timer_stopped = c.heartbeat_timer_stopped
  BY <1>1 DEF TcpConnections
<1> HIDE DEF d
<1>7. ShutdownInv(d)
  BY <1>2, <1>5, <1>6 DEF ShutdownInv, FlagsInv, StartInv
<1> QED BY <1>4, <1>7, DisconnectInv DEF handle_transport_error, Disconnect_reason

\* start() of the heartbeat timer, whether or not setting it fails.
LEMMA StartHeartbeatTimerInv ==
  ASSUME NEW c, ShutdownInv(c), Fresh(c.hb), c.sock.connect = "none",
         c.state \notin {"connecting", "connected"}, NEW fails \in BOOLEAN
  PROVE  ShutdownInv(start_heartbeat_timer(c, fails))
<1> DEFINE t == heartbeat_timer_start(c.hb, fails)
           d == [c EXCEPT !.heartbeat_timer_stopped = FALSE, !.hb = t]
<1>1. c \in TcpConnections /\ c.hb \in HeartbeatTimers
  BY DEF ShutdownInv, TcpConnections
<1>2. t \in HeartbeatTimers /\ TimerInv(t)
  BY <1>1 DEF heartbeat_timer_start, schedule, Fresh, TimerInv, HeartbeatTimers, OpStatus
<1>3. d = [c EXCEPT !.heartbeat_timer_stopped = FALSE, !.hb = heartbeat_timer_start(@, fails)]
  BY <1>1 DEF TcpConnections
<1>4. start_heartbeat_timer(c, fails) \in {d, handle_transport_error(d)}
  BY <1>3 DEF start_heartbeat_timer
<1> HIDE DEF t
<1>5. d \in TcpConnections
  BY <1>1, <1>2 DEF TcpConnections
<1>6. /\ d.hb = t /\ ~d.heartbeat_timer_stopped /\ d.sock = c.sock /\ d.login = c.login
      /\ d.state = c.state /\ d.socket_closed = c.socket_closed
      /\ d.login_timer_stopped = c.login_timer_stopped
  BY <1>1 DEF TcpConnections
<1> HIDE DEF d
<1>7. ShutdownInv(d)
  BY <1>2, <1>5, <1>6 DEF ShutdownInv, FlagsInv, StartInv
<1> QED BY <1>4, <1>7, DisconnectInv DEF handle_transport_error, Disconnect_reason

-----------------------------------------------------------------------------
\* The login timer is stopped and the state connected left, for the answer to a
\* login.
LEMMA LeavesConnected ==
  ASSUME NEW c, ShutdownInv(c), c.state = "connected",
         NEW state \in {"logged_in", "disconnecting"}
  PROVE  LET d == [c EXCEPT !.login = timer_stop(@), !.state = state]
         IN  /\ ShutdownInv(d) /\ Fresh(d.hb) /\ d.sock = c.sock /\ d.hb = c.hb
             /\ d.state = state
<1> DEFINE t == timer_stop(c.login)
           l == [c EXCEPT !.login = t]
           d == [c EXCEPT !.login = timer_stop(@), !.state = state]
<1>1. c \in TcpConnections /\ c.login \in LoginTimers /\ TimerInv(c.login)
  BY DEF ShutdownInv, TcpConnections
<1>2. c.sock.connect = "none" /\ Fresh(c.hb)
  BY DEF ShutdownInv, StartInv
<1>3. ShutdownInv(l)
  <2>1. c.login_timer_stopped => Rests(t)
    BY <1>1, LoginTimerStop DEF ShutdownInv, FlagsInv, Rests
  <2> QED BY <1>1, <1>2, <2>1, LoginTimerStop, LoginTimerReplaced
<1>4. d = [l EXCEPT !.state = state] /\ l.hb = c.hb /\ l.sock = c.sock
  BY <1>1 DEF TcpConnections
<1> HIDE DEF l, d
<1>5. l \in TcpConnections
  BY <1>3 DEF ShutdownInv
<1>6. d \in TcpConnections
  BY <1>4, <1>5 DEF TcpConnections, State
<1>7. /\ d.state = state /\ d.sock = l.sock /\ d.login = l.login /\ d.hb = l.hb
      /\ d.socket_closed = l.socket_closed
      /\ d.login_timer_stopped = l.login_timer_stopped
      /\ d.heartbeat_timer_stopped = l.heartbeat_timer_stopped
  BY <1>4, <1>5 DEF TcpConnections
<1>8. ShutdownInv(d)
  BY <1>2, <1>3, <1>4, <1>6, <1>7 DEF ShutdownInv, FlagsInv, StartInv
<1> QED BY <1>2, <1>4, <1>7, <1>8 DEF d

\* A handler runs only for an operation that owes it.
LEMMA ResultOwed ==
  ASSUME NEW op, NEW result, result \in Results(op) \/ result \in ReadResults(op)
  PROVE  op # "none"
BY DEF Results, ReadResults

\* increment_receive_count() does not concern the shutdown.
LEMMA ReceiveCountInv ==
  ASSUME NEW c, ShutdownInv(c)
  PROVE  ShutdownInv([c EXCEPT !.hb.received = TRUE])
<1> DEFINE t == [c.hb EXCEPT !.received = TRUE]
<1>1. c \in TcpConnections /\ c.hb \in HeartbeatTimers /\ TimerInv(c.hb)
  BY DEF ShutdownInv, TcpConnections
<1>2. /\ t \in HeartbeatTimers /\ TimerInv(t)
      /\ (Rests(t) <=> Rests(c.hb)) /\ (Fresh(t) <=> Fresh(c.hb))
  BY <1>1 DEF HeartbeatTimers, TimerInv, Rests, Fresh
<1>3. [c EXCEPT !.hb.received = TRUE] = [c EXCEPT !.hb = t]
  BY <1>1 DEF TcpConnections
<1> HIDE DEF t
<1> QED BY <1>2, <1>3, HeartbeatTimerReplaced, ZenonT(30) DEF ShutdownInv, FlagsInv, StartInv

\* increment_send_count() does not concern the shutdown.
LEMMA SendCountInv ==
  ASSUME NEW c, ShutdownInv(c), NEW sent \in BOOLEAN
  PROVE  ShutdownInv([c EXCEPT !.hb.sent = sent])
<1> DEFINE t == [c.hb EXCEPT !.sent = sent]
<1>1. c \in TcpConnections /\ c.hb \in HeartbeatTimers /\ TimerInv(c.hb)
  BY DEF ShutdownInv, TcpConnections
<1>2. /\ t \in HeartbeatTimers /\ TimerInv(t)
      /\ (Rests(t) <=> Rests(c.hb)) /\ (Fresh(t) <=> Fresh(c.hb))
  BY <1>1 DEF HeartbeatTimers, TimerInv, Rests, Fresh
<1>3. [c EXCEPT !.hb.sent = sent] = [c EXCEPT !.hb = t]
  BY <1>1 DEF TcpConnections
<1> HIDE DEF t
<1> QED BY <1>2, <1>3, HeartbeatTimerReplaced, ZenonT(30) DEF ShutdownInv, FlagsInv, StartInv

-----------------------------------------------------------------------------
\* The three reports of which the last drops the connection.
LEMMA SocketReport ==
  ASSUME NEW c, ShutdownInv(c), c.sock.posted
  PROVE  ShutdownInv([c EXCEPT !.sock.posted = FALSE, !.socket_closed = TRUE])
<1> DEFINE s == [c.sock EXCEPT !.posted = FALSE]
           d == [c EXCEPT !.sock.posted = FALSE, !.socket_closed = TRUE]
<1>1. c \in TcpConnections /\ c.sock \in Sockets /\ SocketInv(c.sock)
  BY DEF ShutdownInv, TcpConnections
<1>2. /\ s \in Sockets /\ SocketInv(s) /\ s.closed_signaled /\ ~s.posted
      /\ s.connect = c.sock.connect
  BY <1>1 DEF Sockets, SocketInv, is_idle
<1>3. d = [c EXCEPT !.sock = s, !.socket_closed = TRUE]
  BY <1>1 DEF TcpConnections
<1> HIDE DEF s
<1>4. d \in TcpConnections
  BY <1>1, <1>2, <1>3 DEF TcpConnections
<1>5. /\ d.sock = s /\ d.login = c.login /\ d.hb = c.hb /\ d.state = c.state
      /\ d.login_timer_stopped = c.login_timer_stopped
      /\ d.heartbeat_timer_stopped = c.heartbeat_timer_stopped
  BY <1>1, <1>3 DEF TcpConnections
<1> HIDE DEF d
<1> QED BY <1>2, <1>4, <1>5 DEF ShutdownInv, FlagsInv, StartInv, d

\* login_timer_stopped() is executed.
LEMMA LoginReport ==
  ASSUME NEW c, ShutdownInv(c), c.login.posted
  PROVE  ShutdownInv([c EXCEPT !.login.posted = FALSE, !.login_timer_stopped = TRUE])
<1> DEFINE t == [c.login EXCEPT !.posted = FALSE]
           d == [c EXCEPT !.login.posted = FALSE, !.login_timer_stopped = TRUE]
<1>1. c \in TcpConnections /\ c.login \in LoginTimers /\ TimerInv(c.login)
  BY DEF ShutdownInv, TcpConnections
<1>2. c.sock.connect = "none"
  BY DEF ShutdownInv, StartInv, Fresh
<1>3. t \in LoginTimers /\ TimerInv(t) /\ Rests(t)
  BY <1>1 DEF LoginTimers, TimerInv, Rests
<1>4. d = [c EXCEPT !.login = t, !.login_timer_stopped = TRUE]
  BY <1>1 DEF TcpConnections
<1> HIDE DEF t
<1>5. d \in TcpConnections
  BY <1>1, <1>3, <1>4 DEF TcpConnections
<1>6. /\ d.login = t /\ d.sock = c.sock /\ d.hb = c.hb /\ d.state = c.state
      /\ d.socket_closed = c.socket_closed
      /\ d.heartbeat_timer_stopped = c.heartbeat_timer_stopped
  BY <1>1, <1>4 DEF TcpConnections
<1> HIDE DEF d
<1> QED BY <1>2, <1>3, <1>5, <1>6 DEF ShutdownInv, FlagsInv, StartInv, d

\* heartbeat_timer_stopped() is executed.
LEMMA HeartbeatReport ==
  ASSUME NEW c, ShutdownInv(c), c.hb.posted
  PROVE  ShutdownInv([c EXCEPT !.hb.posted = FALSE, !.heartbeat_timer_stopped = TRUE])
<1> DEFINE t == [c.hb EXCEPT !.posted = FALSE]
           d == [c EXCEPT !.hb.posted = FALSE, !.heartbeat_timer_stopped = TRUE]
<1>1. c \in TcpConnections /\ c.hb \in HeartbeatTimers /\ TimerInv(c.hb)
  BY DEF ShutdownInv, TcpConnections
<1>2. c.sock.connect = "none" /\ c.state \notin {"connecting", "connected"}
  BY DEF ShutdownInv, StartInv, Fresh
<1>3. t \in HeartbeatTimers /\ TimerInv(t) /\ Rests(t)
  BY <1>1 DEF HeartbeatTimers, TimerInv, Rests
<1>4. d = [c EXCEPT !.hb = t, !.heartbeat_timer_stopped = TRUE]
  BY <1>1 DEF TcpConnections
<1> HIDE DEF t
<1>5. d \in TcpConnections
  BY <1>1, <1>3, <1>4 DEF TcpConnections
<1>6. /\ d.hb = t /\ d.sock = c.sock /\ d.login = c.login /\ d.state = c.state
      /\ d.socket_closed = c.socket_closed
      /\ d.login_timer_stopped = c.login_timer_stopped
  BY <1>1, <1>4 DEF TcpConnections
<1> HIDE DEF d
<1> QED BY <1>2, <1>3, <1>5, <1>6 DEF ShutdownInv, FlagsInv, StartInv, d

\* A connection whose three flags are set owes no handler invocation.
LEMMA DoneOwesNothing ==
  ASSUME NEW c, ShutdownInv(c), is_done(c)
  PROVE  owes_nothing(c)
BY DEF ShutdownInv, is_done, owes_nothing, FlagsInv, SocketInv, Rests

-----------------------------------------------------------------------------
\* What the operators leave alone.

\* What the end of a handler leaves alone.
LEMMA EndOfHandlerKeeps ==
  ASSUME NEW c, ShutdownInv(c)
  PROVE  LET d == end_of_handler(c)
         IN  /\ d.state = c.state /\ d.hb = c.hb /\ d.sock.closing = c.sock.closing
             /\ d.sock.write_packets = c.sock.write_packets /\ d.sock.write = c.sock.write
             /\ d.sock.connect = c.sock.connect
BY DEF end_of_handler, socket_maybe_signal_closed, ShutdownInv, TcpConnections, Sockets

\* What starting the next read leaves alone.
LEMMA ReadNextKeeps ==
  ASSUME NEW c, ShutdownInv(c)
  PROVE  LET d == read_next(c)
         IN  /\ d.state = c.state /\ d.hb = c.hb /\ d.sock.closing = c.sock.closing
             /\ d.sock.write_packets = c.sock.write_packets /\ d.sock.write = c.sock.write
             /\ d.sock.connect = c.sock.connect
<1> DEFINE e == IF is_closing(c) THEN c ELSE [c EXCEPT !.sock = async_read(@)]
<1>1. ShutdownInv(e)
  BY AsyncReadInv
<1>2. /\ e.state = c.state /\ e.hb = c.hb /\ e.sock.closing = c.sock.closing
      /\ e.sock.write_packets = c.sock.write_packets /\ e.sock.write = c.sock.write
      /\ e.sock.connect = c.sock.connect
  BY DEF async_read, read_header, ShutdownInv, TcpConnections, Sockets
<1>3. read_next(c) = end_of_handler(e)
  BY DEF read_next
<1> HIDE DEF e
<1> QED BY <1>1, <1>2, <1>3, EndOfHandlerKeeps

\* What closing a socket leaves alone.
LEMMA SocketCloseKeeps ==
  ASSUME NEW s \in Sockets
  PROVE  LET t == socket_close(s)
         IN  t.write = cancel(s.write) /\ t.write_packets = s.write_packets
BY DEF socket_close, socket_maybe_signal_closed, Sockets, cancel

\* What async_write() leaves alone, and what it does to an empty queue.
LEMMA AsyncWriteKeeps ==
  ASSUME NEW c, ShutdownInv(c), NEW packet \in PacketKind
  PROVE  LET d == [c EXCEPT !.sock = async_write(@, packet)]
         IN  /\ d.state = c.state /\ d.hb = c.hb /\ d.sock.closing = c.sock.closing
             /\ d.sock.connect = c.sock.connect
             /\ c.sock.write_packets = <<>> /\ ~c.sock.closing /\ WriteLimit # 0 =>
                  d.sock.write_packets = <<packet>> /\ d.sock.write = "pending"
<1>1. c \in TcpConnections /\ c.sock \in Sockets
  BY DEF ShutdownInv, TcpConnections
<1>2. /\ async_write(c.sock, packet).closing = c.sock.closing
      /\ async_write(c.sock, packet).connect = c.sock.connect
  BY <1>1 DEF async_write, async_write_error, write_packet, StartOp, Sockets
<1>3. ASSUME c.sock.write_packets = <<>>, ~c.sock.closing, WriteLimit # 0
      PROVE  /\ async_write(c.sock, packet).write_packets = <<packet>>
             /\ async_write(c.sock, packet).write = "pending"
  <2>1. Len(c.sock.write_packets) # WriteLimit
    BY <1>3, WriteLimitAssumption
  <2>2. Append(c.sock.write_packets, packet) = <<packet>>
    BY <1>3
  <2> QED BY <1>1, <1>3, <2>1, <2>2
          DEF async_write, async_write_error, write_packet, StartOp, Sockets
<1> HIDE DEF PacketKind
<1> QED BY <1>1, <1>2, <1>3 DEF TcpConnections

-----------------------------------------------------------------------------
\* The queue of packets to write.

\* Somebody writes the queue of an open socket; it keeps to its limit; the
\* login packet is nowhere but at its front, or has early packets in front of
\* it and no others; and nothing is queued while the socket connects.
Served(s) == ~s.closing /\ s.write_packets # <<>> => s.write = "pending"

Limited(s) == Len(s.write_packets) <= WriteLimit

LoginFirst(s) == \A i \in 2..Len(s.write_packets) : s.write_packets[i] # "login"

\* What may be in front of a login packet when early packets may.
AllEarly(s) == \A i \in 1..Len(s.write_packets) : s.write_packets[i] = "early"

EarlyFirst(s) ==
  \A i \in 1..Len(s.write_packets) :
    s.write_packets[i] = "login" =>
      \A j \in 1..(i - 1) : s.write_packets[j] = "early"

Unsent(s) == s.connect # "none" => s.write_packets = <<>>

\* A step of a socket that keeps what there is of that.
QueueStep(s, t) ==
  /\ Served(s) => Served(t)
  /\ Limited(s) => Limited(t)
  /\ LoginFirst(s) => LoginFirst(t)
  /\ EarlyFirst(s) => EarlyFirst(t)
  /\ Unsent(s) => Unsent(t)

\* Such a step may leave the queue alone and close the socket.
LEMMA QueueSame ==
  ASSUME NEW s, NEW t, t.write_packets = s.write_packets,
         t.connect # "none" => s.connect # "none",
         t.closing \/ (t.closing = s.closing /\ t.write = s.write)
  PROVE  QueueStep(s, t)
BY DEF QueueStep, Served, Limited, LoginFirst, EarlyFirst, Unsent

\* Such steps follow each other.
LEMMA QueueTrans ==
  ASSUME NEW s, NEW t, NEW u, QueueStep(s, t), QueueStep(t, u)
  PROVE  QueueStep(s, u)
BY DEF QueueStep

\* async_write() appends within the limit, and starts the write of a first packet.
LEMMA AsyncWriteQueue ==
  ASSUME NEW s \in Sockets, NEW packet \in PacketKind
  PROVE  LET t == async_write(s, packet)
         IN  /\ Served(s) => Served(t)
             /\ Limited(s) => Limited(t)
             /\ packet # "login" \/ s.write_packets = <<>> \/ s.closing =>
                  (LoginFirst(s) => LoginFirst(t))
             /\ packet # "login" \/ AllEarly(s) \/ s.closing =>
                  (EarlyFirst(s) => EarlyFirst(t))
             /\ packet = "early" => (AllEarly(s) => AllEarly(t))
             /\ s.connect = "none" \/ s.closing => (Unsent(s) => Unsent(t))
<1> DEFINE q == Append(s.write_packets, packet)
           t == async_write(s, packet)
           u == [s EXCEPT !.write_packets = Append(@, packet)]
<1>1. s.write_packets \in Seq(PacketKind) /\ Len(s.write_packets) \in Nat
  BY DEF Sockets
<1>2. /\ Len(q) = Len(s.write_packets) + 1 /\ q[Len(s.write_packets) + 1] = packet
      /\ \A i \in 1..Len(s.write_packets) : q[i] = s.write_packets[i]
  BY <1>1
<1>3. CASE async_write_error(s) # "none"
  <2>1. t = s \/ t = [s EXCEPT !.write_buffer_was_full = TRUE]
    BY <1>3 DEF async_write, async_write_error
  <2>2. /\ t.write_packets = s.write_packets /\ t.closing = s.closing /\ t.write = s.write
        /\ t.connect = s.connect
    BY <2>1 DEF Sockets
  <2> HIDE DEF t
  <2>3. QueueStep(s, t) /\ (AllEarly(s) => AllEarly(t))
    BY <2>2, QueueSame DEF AllEarly
  <2> QED BY <2>3 DEF QueueStep, t
<1>4. CASE async_write_error(s) = "none"
  <2>1. ~s.closing /\ Len(s.write_packets) # WriteLimit
    BY <1>4 DEF async_write_error
  <2>2. t = IF s.write_packets = <<>> THEN write_packet(u) ELSE u
    BY <1>4 DEF async_write
  <2>3. /\ u.write_packets = q /\ u.closing = s.closing /\ u.write = s.write
        /\ write_packet(u).write_packets = q /\ write_packet(u).closing = s.closing
        /\ write_packet(u).write = "pending"
        /\ u.connect = s.connect /\ write_packet(u).connect = s.connect
    BY <2>1 DEF write_packet, StartOp, Sockets
  <2>4. /\ t.write_packets = q /\ t.closing = s.closing
        /\ t.write = IF s.write_packets = <<>> THEN "pending" ELSE s.write
        /\ t.connect = s.connect
    BY <2>2, <2>3
  <2> HIDE DEF q, t, u
  <2>5. Served(s) => Served(t)
    BY <2>1, <2>4 DEF Served
  <2>6. Limited(s) => Limited(t)
    BY <1>1, <1>2, <2>1, <2>4, WriteLimitAssumption DEF Limited
  <2>7. ASSUME packet # "login" \/ s.write_packets = <<>>, LoginFirst(s)
        PROVE  LoginFirst(t)
    <3> SUFFICES ASSUME NEW i \in 2..Len(q)
                 PROVE  q[i] # "login"
      BY <2>4 DEF LoginFirst
    <3>1. CASE i = Len(s.write_packets) + 1
      BY <1>1, <1>2, <2>7, <3>1
    <3>2. CASE i # Len(s.write_packets) + 1
      <4>1. i \in 2..Len(s.write_packets) /\ i \in 1..Len(s.write_packets)
        BY <1>1, <1>2, <3>2
      <4> QED BY <1>2, <2>7, <4>1 DEF LoginFirst
    <3> QED BY <3>1, <3>2
  <2>8. s.connect = "none" => Unsent(t)
    BY <2>4 DEF Unsent
  <2>9. ASSUME packet # "login" \/ AllEarly(s), EarlyFirst(s)
        PROVE  EarlyFirst(t)
    <3> SUFFICES ASSUME NEW i \in 1..Len(q), q[i] = "login", NEW j \in 1..(i - 1)
                 PROVE  q[j] = "early"
      BY <2>4 DEF EarlyFirst
    <3>1. j \in 1..Len(s.write_packets)
      BY <1>1, <1>2
    <3>2. CASE AllEarly(s)
      BY <1>2, <3>1, <3>2 DEF AllEarly
    <3>3. CASE packet # "login"
      <4>1. i \in 1..Len(s.write_packets)
        BY <1>1, <1>2, <3>3
      <4> QED BY <1>2, <2>9, <3>1, <4>1 DEF EarlyFirst
    <3> QED BY <2>9, <3>2, <3>3
  <2>10. ASSUME packet = "early", AllEarly(s)
         PROVE  AllEarly(t)
    <3> SUFFICES ASSUME NEW i \in 1..Len(q)
                 PROVE  q[i] = "early"
      BY <2>4 DEF AllEarly
    <3>1. i = Len(s.write_packets) + 1 \/ i \in 1..Len(s.write_packets)
      BY <1>1, <1>2
    <3> QED BY <1>2, <2>10, <3>1 DEF AllEarly
  <2> QED BY <2>1, <2>5, <2>6, <2>7, <2>8, <2>9, <2>10 DEF t
<1> QED BY <1>3, <1>4

\* packet_sent() takes the packet that was written off the queue, and starts
\* the next one.
LEMMA PacketSentQueue ==
  ASSUME NEW s \in Sockets, s.write_packets # <<>>
  PROVE  QueueStep(s, packet_sent([s EXCEPT !.write = "none"]))
<1> DEFINE u == Tail(s.write_packets)
           b == [s EXCEPT !.write = "none", !.write_packets = u]
           t == packet_sent([s EXCEPT !.write = "none"])
<1>1. s.write_packets \in Seq(PacketKind) /\ Len(s.write_packets) \in Nat
      /\ Len(s.write_packets) # 0
  BY DEF Sockets
<1>2. /\ Len(u) = Len(s.write_packets) - 1
      /\ \A i \in 1..Len(u) : u[i] = s.write_packets[i + 1]
  BY <1>1
<1>3. t = IF u # <<>> THEN write_packet(b) ELSE [b EXCEPT !.write_buffer_was_full = FALSE]
  BY DEF packet_sent, Sockets
<1> HIDE DEF u
<1>4. /\ t.write_packets = u /\ t.closing = s.closing /\ t.connect = s.connect
      /\ u # <<>> => t.write = StartOp(s)
  BY <1>3 DEF write_packet, StartOp, Sockets
<1> HIDE DEF t
<1>5. Served(t)
  BY <1>4 DEF Served, StartOp
<1>6. Limited(s) => Limited(t)
  BY <1>1, <1>2, <1>4, WriteLimitAssumption DEF Limited
<1>7. ASSUME LoginFirst(s)
      PROVE  LoginFirst(t)
  <2> SUFFICES ASSUME NEW i \in 2..Len(u)
               PROVE  u[i] # "login"
    BY <1>4 DEF LoginFirst
  <2>1. i \in 1..Len(u) /\ i + 1 \in 2..Len(s.write_packets)
    BY <1>1, <1>2
  <2> QED BY <1>2, <1>7, <2>1 DEF LoginFirst
<1>8. Unsent(s) => Unsent(t)
  BY <1>4 DEF Unsent
<1>9. ASSUME EarlyFirst(s)
      PROVE  EarlyFirst(t)
  <2> SUFFICES ASSUME NEW i \in 1..Len(u), u[i] = "login", NEW j \in 1..(i - 1)
               PROVE  u[j] = "early"
    BY <1>4 DEF EarlyFirst
  <2>1. /\ i + 1 \in 1..Len(s.write_packets) /\ j \in 1..Len(u)
        /\ j + 1 \in 1..(i + 1 - 1)
    BY <1>1, <1>2
  <2> QED BY <1>2, <1>9, <2>1 DEF EarlyFirst
<1> QED BY <1>5, <1>6, <1>7, <1>8, <1>9 DEF QueueStep, t

\* A connection that is disconnected has closed its socket.
Shut(c) == c.state = "disconnected" => c.sock.closing

\* What a handler may do to a connection's queue.
Keeps(c, d) == Shut(c) => Shut(d) /\ QueueStep(c.sock, d.sock)

\* A handler that does not write, and may close the socket.
LEMMA KeepsSame ==
  ASSUME NEW c, NEW d, d.sock.write_packets = c.sock.write_packets,
         d.sock.connect # "none" => c.sock.connect # "none",
         d.sock.closing \/ (d.sock.closing = c.sock.closing /\ d.sock.write = c.sock.write
                            /\ (d.state = c.state \/ d.state # "disconnected"))
  PROVE  Keeps(c, d)
BY QueueSame DEF Keeps, Shut

\* What two parts of a handler keep, both keep.
LEMMA KeepsTrans ==
  ASSUME NEW c, NEW d, NEW e, Keeps(c, d), Keeps(d, e)
  PROVE  Keeps(c, e)
BY QueueTrans DEF Keeps

\* disconnect() leaves the queue as it is, and has closed the socket.
LEMMA DisconnectQueue ==
  ASSUME NEW c \in TcpConnections, SocketInv(c.sock), NEW reason
  PROVE  /\ Keeps(c, disconnect(c, reason))
         /\ Shut(c) => disconnect(c, reason).sock.closing
<1>1. c.sock \in Sockets
  BY DEF TcpConnections
<1>2. CASE c.state = "disconnected"
  BY <1>2, KeepsSame DEF disconnect, Shut
<1>3. CASE c.state # "disconnected"
  <2>1. disconnect(c, reason).sock = socket_close(c.sock)
    BY <1>1, <1>3 DEF disconnect, TcpConnections
  <2> QED BY <1>1, <2>1, SocketClose, SocketCloseKeeps, KeepsSame
<1> QED BY <1>2, <1>3

\* The end of a handler and the next read.
LEMMA EndOfHandlerQueue ==
  ASSUME NEW c, ShutdownInv(c)
  PROVE  Keeps(c, end_of_handler(c)) /\ Keeps(c, read_next(c))
BY EndOfHandlerKeeps, ReadNextKeeps, KeepsSame

\* The start of a read handler.
LEMMA ReadDoneQueue ==
  ASSUME NEW c, ShutdownInv(c)
  PROVE  Keeps(c, [c EXCEPT !.sock.read = "none"])
<1> DEFINE d == [c EXCEPT !.sock.read = "none"]
<1>1. /\ d.sock.write_packets = c.sock.write_packets /\ d.sock.closing = c.sock.closing
      /\ d.sock.write = c.sock.write /\ d.state = c.state /\ d.sock.connect = c.sock.connect
  BY DEF ShutdownInv, TcpConnections, Sockets
<1> HIDE DEF d
<1>2. Keeps(c, d)
  BY <1>1, KeepsSame
<1> QED BY <1>2 DEF d

\* A handler that disconnects, and then ends.
LEMMA DisconnectEndQueue ==
  ASSUME NEW c, NEW d, ShutdownInv(d), Keeps(c, d), NEW reason \in Disconnect_reason
  PROVE  /\ Keeps(c, end_of_handler(disconnect(d, reason)))
         /\ Keeps(c, read_next(disconnect(d, reason)))
<1> DEFINE e == disconnect(d, reason)
<1>1. ShutdownInv(e) /\ Keeps(d, e)
  BY DisconnectInv, DisconnectQueue DEF ShutdownInv
<1> HIDE DEF e
<1>2. Keeps(c, e)
  BY <1>1, KeepsTrans
<1>3. Keeps(c, end_of_handler(e)) /\ Keeps(c, read_next(e))
  BY <1>1, <1>2, EndOfHandlerQueue, KeepsTrans
<1> QED BY <1>3 DEF e

\* The handlers of a read.
LEMMA ReadQueue ==
  ASSUME NEW c, ShutdownInv(c), c.sock.read # "none", NEW result
  PROVE  /\ Keeps(c, read_failed(c, result))
         /\ Keeps(c, header_malformed(c))
         /\ Keeps(c, header_received(c))
<1> DEFINE d == [c EXCEPT !.sock.read = "none"]
<1>1. ShutdownInv(d) /\ Keeps(c, d)
  BY ReadDone, ReadDoneQueue
<1>2. \E reason \in Disconnect_reason :
        read_failed(c, result) = end_of_handler(disconnect(d, reason))
  BY DEF read_failed, handle_transport_error, Disconnect_reason
<1>3. \E reason \in Disconnect_reason :
        header_malformed(c) = end_of_handler(disconnect(d, reason))
  BY DEF header_malformed, handle_protocol_violation, Disconnect_reason
<1> HIDE DEF d
<1>4. Keeps(c, read_failed(c, result))
  BY <1>1, <1>2, DisconnectEndQueue
<1>5. Keeps(c, header_malformed(c))
  BY <1>1, <1>3, DisconnectEndQueue
<1>6. Keeps(c, header_received(c))
  <2> DEFINE e == header_received(c)
  <2>1. c \in TcpConnections /\ c.sock \in Sockets
    BY DEF ShutdownInv, TcpConnections
  <2>2. /\ e.sock.write_packets = c.sock.write_packets /\ e.sock.closing = c.sock.closing
        /\ e.sock.write = c.sock.write /\ e.state = c.state
        /\ e.sock.connect = c.sock.connect
    BY <2>1 DEF header_received, read_payload, end_of_handler, socket_maybe_signal_closed,
                TcpConnections, Sockets
  <2> HIDE DEF e
  <2>3. Keeps(c, e)
    BY <2>2, KeepsSame
  <2> QED BY <2>3 DEF e
<1> QED BY <1>4, <1>5, <1>6

\* A write that failed closes the socket, or was cancelled by its close.
LEMMA WriteFailedQueue ==
  ASSUME NEW c, ShutdownInv(c), NEW result \in Results(c.sock.write) \ {"ok"}
  PROVE  Keeps(c, write_failed(c, result))
<1> DEFINE d == [c EXCEPT !.sock.write = "none"]
<1>1. c \in TcpConnections /\ c.sock \in Sockets /\ SocketInv(c.sock)
  BY DEF ShutdownInv, TcpConnections
<1>2. ShutdownInv(d)
  BY ResultOwed, WriteDone
<1>3. /\ d.sock.write_packets = c.sock.write_packets /\ d.sock.closing = c.sock.closing
      /\ d.state = c.state /\ d.sock.connect = c.sock.connect
  BY <1>1 DEF TcpConnections, Sockets
<1>4. CASE result = "aborted"
  <2>1. c.sock.write = "cancelled"
    BY <1>4 DEF Results
  <2>2. Keeps(c, d)
    BY <1>1, <1>3, <2>1 DEF SocketInv, Keeps, Shut, QueueStep, Served, Limited, LoginFirst,
                            EarlyFirst, Unsent
  <2>3. write_failed(c, result) = end_of_handler(d)
    BY <1>4 DEF write_failed
  <2> HIDE DEF d
  <2> QED BY <1>2, <2>2, <2>3, EndOfHandlerQueue, KeepsTrans
<1>5. CASE result # "aborted"
  <2> DEFINE e == disconnect(d, "transport_error")
  <2>1. write_failed(c, result) = end_of_handler(e)
    BY <1>5 DEF write_failed, handle_transport_error
  <2> HIDE DEF d
  <2>2. ShutdownInv(e) /\ Keeps(d, e) /\ (Shut(d) => e.sock.closing)
    BY <1>2, DisconnectInv, DisconnectQueue DEF Disconnect_reason, ShutdownInv
  <2> HIDE DEF e
  <2>3. Keeps(c, e)
    BY <1>3, <2>2 DEF Keeps, Shut, QueueStep, Served, Limited, LoginFirst, EarlyFirst, Unsent
  <2> QED BY <2>1, <2>2, <2>3, EndOfHandlerQueue, KeepsTrans
<1> QED BY <1>4, <1>5

\* A packet that is not a login is queued.
LEMMA WriteQueue ==
  ASSUME NEW c, ShutdownInv(c), NEW packet \in PacketKind,
         packet # "login" \/ c.sock.write_packets = <<>> \/ c.sock.closing,
         c.sock.connect = "none" \/ c.sock.closing
  PROVE  Keeps(c, [c EXCEPT !.sock = async_write(@, packet)])
<1> DEFINE s == async_write(c.sock, packet)
           d == [c EXCEPT !.sock = async_write(@, packet)]
<1>1. c.sock \in Sockets
  BY DEF ShutdownInv, TcpConnections
<1>2. QueueStep(c.sock, s)
  <2>1. c.sock.write_packets = <<>> => AllEarly(c.sock)
    BY DEF AllEarly
  <2> QED BY <1>1, <2>1, AsyncWriteQueue DEF QueueStep
<1>3. d.sock = s /\ d.state = c.state /\ d.sock.closing = c.sock.closing
  BY AsyncWriteKeeps DEF ShutdownInv, TcpConnections
<1> HIDE DEF s, d
<1>4. Keeps(c, d)
  BY <1>2, <1>3 DEF Keeps, Shut
<1> QED BY <1>4 DEF d

\* Of what a login does to a queue that others write to, too.
LEMMA WriteLoginQueue ==
  ASSUME NEW c, ShutdownInv(c)
  PROVE  LET d == [c EXCEPT !.sock = async_write(@, "login")]
         IN  /\ Shut(c) => Shut(d)
             /\ Served(c.sock) => Served(d.sock)
             /\ Limited(c.sock) => Limited(d.sock)
             /\ AllEarly(c.sock) => EarlyFirst(d.sock)
             /\ c.sock.connect = "none" => d.sock.connect = "none"
<1> DEFINE s == async_write(c.sock, "login")
           d == [c EXCEPT !.sock = async_write(@, "login")]
<1>1. c.sock \in Sockets /\ "login" \in PacketKind
  BY DEF ShutdownInv, TcpConnections, PacketKind
<1>2. /\ Served(c.sock) => Served(s)
      /\ Limited(c.sock) => Limited(s)
      /\ AllEarly(c.sock) => EarlyFirst(s)
  <2>1. AllEarly(c.sock) => EarlyFirst(c.sock)
    BY DEF AllEarly, EarlyFirst
  <2> QED BY <1>1, <2>1, AsyncWriteQueue
<1>3. /\ d.sock = s /\ d.state = c.state /\ d.sock.closing = c.sock.closing
      /\ d.sock.connect = c.sock.connect
  BY <1>1, AsyncWriteKeeps DEF ShutdownInv, TcpConnections
<1> HIDE DEF s, d
<1>4. /\ Shut(c) => Shut(d)
      /\ Served(c.sock) => Served(d.sock)
      /\ Limited(c.sock) => Limited(d.sock)
      /\ AllEarly(c.sock) => EarlyFirst(d.sock)
      /\ c.sock.connect = "none" => d.sock.connect = "none"
  BY <1>2, <1>3 DEF Shut
<1> QED BY <1>4 DEF d

\* A step that leaves the socket and the state alone.
LEMMA KeepsSocket ==
  ASSUME NEW c, NEW d, d.sock = c.sock, d.state = c.state
  PROVE  Keeps(c, d)
BY KeepsSame

\* The timers that are started, or fail to.
LEMMA StartTimerQueue ==
  ASSUME NEW c, ShutdownInv(c), NEW fails \in BOOLEAN
  PROVE  /\ Keeps(c, start_login_timer(c, fails))
         /\ Keeps(c, start_heartbeat_timer(c, fails))
<1> DEFINE l == [c EXCEPT !.login_timer_stopped = FALSE, !.login = login_timer_start(@, fails)]
           h == [c EXCEPT !.heartbeat_timer_stopped = FALSE,
                          !.hb = heartbeat_timer_start(@, fails)]
<1>1. c \in TcpConnections
  BY DEF ShutdownInv
<1>2. l.sock = c.sock /\ l.state = c.state /\ h.sock = c.sock /\ h.state = c.state
  BY <1>1 DEF TcpConnections
<1>3. /\ start_login_timer(c, fails) \in {l, disconnect(l, "transport_error")}
      /\ start_heartbeat_timer(c, fails) \in {h, disconnect(h, "transport_error")}
  BY DEF start_login_timer, start_heartbeat_timer, handle_transport_error
<1>4. l \in TcpConnections /\ h \in TcpConnections
  <2>1. /\ login_timer_start(c.login, fails) \in LoginTimers
        /\ heartbeat_timer_start(c.hb, fails) \in HeartbeatTimers
    BY <1>1 DEF login_timer_start, heartbeat_timer_start, schedule, TcpConnections,
                LoginTimers, HeartbeatTimers, OpStatus
  <2> QED BY <1>1, <2>1 DEF TcpConnections
<1>5. SocketInv(c.sock)
  BY DEF ShutdownInv
<1> HIDE DEF l, h
<1> QED BY <1>2, <1>3, <1>4, <1>5, KeepsSocket, KeepsTrans, DisconnectQueue

\* The wait handler of the login timer.
LEMMA LoginWaitQueue ==
  ASSUME NEW c, ShutdownInv(c), c.login.wait # "none", NEW result
  PROVE  Keeps(c, login_wait_completed(c, result))
<1> DEFINE d == [c EXCEPT !.login.wait = "none"]
           e == CASE ~d.login.started -> d
                  [] d.login.started /\ result # "ok" -> handle_transport_error(d)
                  [] OTHER -> disconnect(d, "login_timeout")
           f == login_wait_completed(c, result)
<1>1. f = [e EXCEPT !.login = maybe_signal_stopped(@)]
  BY DEF login_wait_completed
<1>2. ShutdownInv(d) /\ Keeps(c, d)
  <2>1. ShutdownInv(d)
    BY LoginWaitDone
  <2>2. d.sock = c.sock /\ d.state = c.state
    BY DEF ShutdownInv, TcpConnections
  <2> HIDE DEF d
  <2> QED BY <2>1, <2>2, KeepsSocket
<1> HIDE DEF d, f
<1>3. e \in {d, disconnect(d, "transport_error"), disconnect(d, "login_timeout")}
  BY DEF handle_transport_error
<1> HIDE DEF e
<1>4. ShutdownInv(e) /\ Keeps(d, e)
  <2>1. Keeps(d, d)
    BY KeepsSocket
  <2>2. d \in TcpConnections /\ SocketInv(d.sock)
    BY <1>2 DEF ShutdownInv
  <2> QED BY <1>2, <1>3, <2>1, <2>2, DisconnectInv, DisconnectQueue DEF Disconnect_reason
<1>5. f.sock = e.sock /\ f.state = e.state
  BY <1>1, <1>4 DEF ShutdownInv, TcpConnections
<1>6. Keeps(c, f)
  BY <1>2, <1>4, <1>5, KeepsSocket, KeepsTrans
<1> QED BY <1>6 DEF f

\* The wait handler of the heartbeat timer.
LEMMA HeartbeatWaitQueue ==
  ASSUME NEW c, ShutdownInv(c), c.hb.wait # "none", NEW result, NEW fails \in BOOLEAN
  PROVE  Keeps(c, heartbeat_wait_completed(c, result, fails))
<1> DEFINE d == [c EXCEPT !.hb.wait = "none"]
           e == [d EXCEPT !.hb = count_silence(@)]
           s == send_heartbeat(e)
           f == [s EXCEPT !.hb = schedule(@, fails)]
           g == CASE ~d.hb.started -> d
                  [] d.hb.started /\ result # "ok" -> handle_transport_error(d)
                  [] d.hb.started /\ result = "ok" /\ receive_timed_out(d.hb)
                       -> disconnect(e, "heartbeat_timeout")
                  [] OTHER -> IF fails THEN handle_transport_error(f) ELSE f
           h == heartbeat_wait_completed(c, result, fails)
<1>1. h = [g EXCEPT !.hb = maybe_signal_stopped(@)]
  BY DEF heartbeat_wait_completed
<1>2. Ticks(d) /\ Keeps(c, d)
  <2>1. ShutdownInv(d)
    BY HeartbeatWaitDone
  <2>2. /\ d.state = c.state /\ d.sock = c.sock
        /\ d.heartbeat_timer_stopped = c.heartbeat_timer_stopped
    BY DEF ShutdownInv, TcpConnections
  <2>3. /\ ~c.heartbeat_timer_stopped /\ c.sock.connect = "none"
        /\ c.state \notin {"connecting", "connected"}
    BY DEF ShutdownInv, FlagsInv, StartInv, Rests, Fresh
  <2> HIDE DEF d
  <2> QED BY <2>1, <2>2, <2>3, KeepsSocket DEF Ticks
<1> HIDE DEF d, h
<1>3. Ticks(e) /\ Keeps(d, e) /\ e.hb.started = d.hb.started
  <2>1. d \in TcpConnections /\ d.hb \in HeartbeatTimers /\ TimerInv(d.hb)
    BY <1>2 DEF Ticks, ShutdownInv, TcpConnections
  <2>2. /\ count_silence(d.hb) \in HeartbeatTimers /\ TimerInv(count_silence(d.hb))
        /\ count_silence(d.hb).started = d.hb.started
    BY <2>1, CountSilenceInv
  <2>3. e.sock = d.sock /\ e.state = d.state
    BY <2>1 DEF TcpConnections
  <2>4. Ticks(e) /\ e.hb.started = d.hb.started
    BY <1>2, <2>2, TicksReplaced
  <2> HIDE DEF e
  <2> QED BY <2>3, <2>4, KeepsSocket
<1> HIDE DEF e
<1>4. Ticks(s) /\ Keeps(e, s) /\ s.hb.started = d.hb.started
  <2>1. Ticks(s) /\ s.hb.started = d.hb.started
    BY <1>3, SendHeartbeatInv
  <2>2. ShutdownInv(e) /\ e \in TcpConnections
    BY <1>3 DEF Ticks, ShutdownInv
  <2>3. CASE e.hb.sent
    <3>1. s.sock = e.sock /\ s.state = e.state
      BY <2>2, <2>3 DEF send_heartbeat, TcpConnections
    <3> HIDE DEF s
    <3> QED BY <2>1, <3>1, KeepsSocket
  <2>4. CASE ~e.hb.sent
    <3>1. s = [e EXCEPT !.sock = async_write(@, "other")]
      BY <2>4 DEF send_heartbeat
    <3> HIDE DEF s
    <3>2. e.sock.connect = "none"
      BY <1>3 DEF Ticks
    <3> QED BY <2>1, <2>2, <3>1, <3>2, WriteQueue DEF PacketKind
  <2> QED BY <2>3, <2>4
<1> HIDE DEF s
<1>5. Keeps(s, f) /\ (d.hb.started => ShutdownInv(f))
  <2>1. s \in TcpConnections /\ s.hb \in HeartbeatTimers /\ TimerInv(s.hb)
    BY <1>4 DEF Ticks, ShutdownInv, TcpConnections
  <2>2. d.hb.started => schedule(s.hb, fails) \in HeartbeatTimers /\ TimerInv(schedule(s.hb, fails))
    BY <1>4, <2>1 DEF schedule, HeartbeatTimers, TimerInv, OpStatus
  <2>3. f.sock = s.sock /\ f.state = s.state
    BY <2>1 DEF TcpConnections
  <2>4. d.hb.started => ShutdownInv(f)
    BY <1>4, <2>2, TicksReplaced DEF Ticks
  <2> HIDE DEF f
  <2> QED BY <2>3, <2>4, KeepsSocket
<1> HIDE DEF f
<1>6. \/ g = d \/ g = disconnect(d, "transport_error")
      \/ g = disconnect(e, "heartbeat_timeout")
      \/ d.hb.started /\ g \in {f, disconnect(f, "transport_error")}
  BY DEF handle_transport_error
<1> HIDE DEF g
<1>7. ShutdownInv(d) /\ ShutdownInv(e) /\ Keeps(c, e) /\ Keeps(c, f)
  BY <1>2, <1>3, <1>4, <1>5, KeepsTrans DEF Ticks
<1>8. ShutdownInv(g) /\ Keeps(c, g)
  <2>1. \A x : ShutdownInv(x) => x \in TcpConnections /\ SocketInv(x.sock)
    BY DEF ShutdownInv
  <2> QED BY <1>2, <1>5, <1>6, <1>7, <2>1, DisconnectInv, DisconnectQueue, KeepsTrans
          DEF Disconnect_reason
<1>9. h.state = g.state /\ h.sock = g.sock
  BY <1>1, <1>8 DEF ShutdownInv, TcpConnections
<1>10. Keeps(c, h)
  BY <1>8, <1>9, KeepsSocket, KeepsTrans
<1> QED BY <1>10 DEF h

\* The reports.
LEMMA ReportQueue ==
  ASSUME NEW c, ShutdownInv(c)
  PROVE  /\ Keeps(c, [c EXCEPT !.sock.posted = FALSE, !.socket_closed = TRUE])
         /\ Keeps(c, [c EXCEPT !.login.posted = FALSE, !.login_timer_stopped = TRUE])
         /\ Keeps(c, [c EXCEPT !.hb.posted = FALSE, !.heartbeat_timer_stopped = TRUE])
<1> DEFINE x == [c EXCEPT !.sock.posted = FALSE, !.socket_closed = TRUE]
           y == [c EXCEPT !.login.posted = FALSE, !.login_timer_stopped = TRUE]
           z == [c EXCEPT !.hb.posted = FALSE, !.heartbeat_timer_stopped = TRUE]
<1>1. c \in TcpConnections
  BY DEF ShutdownInv
<1>2. /\ x.sock.write_packets = c.sock.write_packets /\ x.sock.closing = c.sock.closing
      /\ x.sock.write = c.sock.write /\ x.state = c.state /\ x.sock.connect = c.sock.connect
  BY <1>1 DEF TcpConnections, Sockets
<1>3. y.sock = c.sock /\ y.state = c.state /\ z.sock = c.sock /\ z.state = c.state
  BY <1>1 DEF TcpConnections
<1> HIDE DEF x, y, z
<1>4. Keeps(c, x) /\ Keeps(c, y) /\ Keeps(c, z)
  BY <1>2, <1>3, KeepsSame, KeepsSocket
<1> QED BY <1>4 DEF x, y, z

\* Closing, and starting a timer, leave the packets in the queue.
LEMMA PacketsStay ==
  ASSUME NEW c, ShutdownInv(c), NEW reason, NEW fails
  PROVE  /\ disconnect(c, reason).sock.write_packets = c.sock.write_packets
         /\ start_login_timer(c, fails).sock.write_packets = c.sock.write_packets
         /\ start_heartbeat_timer(c, fails).sock.write_packets = c.sock.write_packets
         /\ c.sock.connect = "none" => start_login_timer(c, fails).sock.connect = "none"
<1> DEFINE l == [c EXCEPT !.login_timer_stopped = FALSE, !.login = login_timer_start(@, fails)]
           h == [c EXCEPT !.heartbeat_timer_stopped = FALSE,
                          !.hb = heartbeat_timer_start(@, fails)]
<1>1. c \in TcpConnections /\ c.sock \in Sockets
  BY DEF ShutdownInv, TcpConnections
<1>2. /\ socket_close(c.sock).write_packets = c.sock.write_packets
      /\ c.sock.connect = "none" => socket_close(c.sock).connect = "none"
  BY <1>1, SocketCloseKeeps, SocketClose DEF ShutdownInv
<1>3. /\ l.sock = c.sock /\ h.sock = c.sock
      /\ DOMAIN l = DOMAIN c /\ DOMAIN h = DOMAIN c /\ "sock" \in DOMAIN c
  BY <1>1 DEF TcpConnections
<1>4. \A r : /\ disconnect(c, r).sock \in {c.sock, socket_close(c.sock)}
             /\ disconnect(l, r).sock \in {c.sock, socket_close(c.sock)}
             /\ disconnect(h, r).sock \in {c.sock, socket_close(c.sock)}
  <2> HIDE DEF l, h
  <2> QED BY <1>1, <1>3 DEF disconnect, TcpConnections
<1>5. /\ start_login_timer(c, fails) \in {l, disconnect(l, "transport_error")}
      /\ start_heartbeat_timer(c, fails) \in {h, disconnect(h, "transport_error")}
  BY DEF start_login_timer, start_heartbeat_timer, handle_transport_error
<1> HIDE DEF l, h
<1> QED BY <1>2, <1>3, <1>4, <1>5

-----------------------------------------------------------------------------
\* No connection is stranded.

\* closed() was reported, or is posted.
Signalled(s, closed) == s.closed_signaled /\ ~closed => s.posted

\* closed() is posted as soon as a closing socket is idle, which the end of
\* every handler sees to.
Ends(s) == s.closing /\ is_idle(s) => s.closed_signaled

\* A started timer waits; one that was stopped owes its wait handler or its
\* report.
Lives(t, stopped) ==
  /\ t.started => t.wait = "pending"
  /\ ~t.started /\ ~stopped => t.wait # "none" \/ t.posted
  /\ t.stopped_signaled /\ ~stopped => t.posted

\* What disconnect() needs to leave both timers like that.
Stoppable(c) ==
  /\ ~is_done(c) /\ Signalled(c.sock, c.socket_closed)
  /\ c.login.started \/ Lives(c.login, c.login_timer_stopped)
  /\ c.hb.started \/ Lives(c.hb, c.heartbeat_timer_stopped)

Steady(c) ==
  /\ ~is_done(c) /\ Signalled(c.sock, c.socket_closed)
  /\ Lives(c.login, c.login_timer_stopped)
  /\ Lives(c.hb, c.heartbeat_timer_stopped)

\* What takes the connection out of its state.
Watched(c) ==
  /\ c.state = "connecting" => c.sock.connect = "pending"
  /\ c.state = "connected" => c.login.started
  /\ c.state = "logged_in" => c.hb.started
  /\ c.state = "disconnected" => c.sock.closing /\ ~c.login.started /\ ~c.hb.started

\* Inside a handler, and between handlers.
Alive(c) == Steady(c) /\ Watched(c)

Lively(c) == Alive(c) /\ Ends(c.sock)

\* Two connections that do not differ in that.
Same(c, d) ==
  /\ d.state = c.state /\ d.login = c.login
  /\ d.hb.started = c.hb.started /\ d.hb.wait = c.hb.wait
  /\ d.hb.stopped_signaled = c.hb.stopped_signaled /\ d.hb.posted = c.hb.posted
  /\ d.sock.closing = c.sock.closing /\ d.sock.connect = c.sock.connect
  /\ d.sock.closed_signaled = c.sock.closed_signaled /\ d.sock.posted = c.sock.posted
  /\ d.socket_closed = c.socket_closed
  /\ d.login_timer_stopped = c.login_timer_stopped
  /\ d.heartbeat_timer_stopped = c.heartbeat_timer_stopped

\* They are under way alike.
LEMMA SameAlive ==
  ASSUME NEW c, NEW d, Same(c, d)
  PROVE  /\ Stoppable(c) => Stoppable(d)
         /\ Steady(c) => Steady(d)
         /\ Watched(c) => Watched(d)
         /\ Alive(c) => Alive(d)
BY DEF Same, Alive, Steady, Stoppable, Watched, Signalled, Lives, is_done

\* A connection that was disconnected and not dropped is still to be invoked:
\* what is left of its shutdown is under way.
LEMMA DisconnectedOwes ==
  ASSUME NEW c, Lively(c), c.state = "disconnected"
  PROVE  ~owes_nothing(c)
BY DEF Lively, Alive, Steady, Watched, Ends, Signalled, Lives, is_done, owes_nothing

\* Closing a socket signals what there is to signal.
LEMMA SocketCloseSignals ==
  ASSUME NEW s \in Sockets, SocketInv(s), NEW closed \in BOOLEAN, Signalled(s, closed)
  PROVE  /\ Signalled(socket_maybe_signal_closed(s), closed)
         /\ Ends(socket_maybe_signal_closed(s))
         /\ Signalled(socket_close(s), closed) /\ Ends(socket_close(s))
<1> DEFINE u == [s EXCEPT !.closing = TRUE, !.connect = cancel(@),
                          !.read = cancel(@), !.write = cancel(@)]
<1>1. ASSUME NEW x \in Sockets, Signalled(x, closed)
      PROVE  /\ Signalled(socket_maybe_signal_closed(x), closed)
             /\ Ends(socket_maybe_signal_closed(x))
  BY <1>1 DEF socket_maybe_signal_closed, Signalled, Ends, Sockets, is_idle
<1>2. u \in Sockets /\ Signalled(u, closed)
  BY CancelType DEF Sockets, Signalled
<1>3. socket_close(s) = socket_maybe_signal_closed(u)
  BY DEF socket_close
<1> HIDE DEF u
<1> QED BY <1>1, <1>2, <1>3

\* A timer that is stopped owes its report, or the wait handler that reports.
LEMMA TimerStopLives ==
  ASSUME NEW t \in LoginTimers \cup HeartbeatTimers, TimerInv(t), NEW stopped \in BOOLEAN,
         t.started \/ Lives(t, stopped)
  PROVE  Lives(timer_stop(t), stopped) /\ ~timer_stop(t).started
BY DEF timer_stop, maybe_signal_stopped, cancel, LoginTimers, HeartbeatTimers, OpStatus,
       TimerInv, Lives

\* The end of a wait handler reports a stopped timer.
LEMMA SignalLives ==
  ASSUME NEW t \in LoginTimers \cup HeartbeatTimers, NEW stopped \in BOOLEAN,
         Lives(t, stopped) \/ (~t.started /\ t.wait = "none" /\ ~t.stopped_signaled)
  PROVE  LET u == maybe_signal_stopped(t)
         IN  Lives(u, stopped) /\ u.started = t.started
BY DEF maybe_signal_stopped, LoginTimers, HeartbeatTimers, Lives

\* disconnect() leaves everything under way that will end the connection.
LEMMA DisconnectAlive ==
  ASSUME NEW c, ShutdownInv(c), Stoppable(c), c.state # "disconnected" \/ Alive(c), NEW reason
  PROVE  LET d == disconnect(c, reason)
         IN  /\ Alive(d) /\ d.state = "disconnected"
             /\ c.state # "disconnected" \/ Ends(c.sock) => Ends(d.sock)
<1>1. CASE c.state = "disconnected"
  BY <1>1 DEF disconnect
<1>2. CASE c.state # "disconnected"
  <2> DEFINE d == disconnect(c, reason)
  <2>1. /\ c \in TcpConnections /\ c.sock \in Sockets /\ SocketInv(c.sock)
        /\ c.login \in LoginTimers /\ TimerInv(c.login)
        /\ c.hb \in HeartbeatTimers /\ TimerInv(c.hb)
        /\ c.socket_closed \in BOOLEAN /\ c.login_timer_stopped \in BOOLEAN
        /\ c.heartbeat_timer_stopped \in BOOLEAN
    BY DEF ShutdownInv, TcpConnections
  <2>2. /\ d.state = "disconnected" /\ d.sock = socket_close(c.sock)
        /\ d.login = timer_stop(c.login) /\ d.hb = timer_stop(c.hb)
        /\ d.socket_closed = c.socket_closed
        /\ d.login_timer_stopped = c.login_timer_stopped
        /\ d.heartbeat_timer_stopped = c.heartbeat_timer_stopped
    BY <1>2, <2>1 DEF disconnect, TcpConnections
  <2> HIDE DEF d
  <2>3. Signalled(d.sock, d.socket_closed) /\ Ends(d.sock) /\ d.sock.closing
    BY <2>1, <2>2, SocketCloseSignals, SocketClose DEF Stoppable
  <2>4. Lives(d.login, d.login_timer_stopped) /\ ~d.login.started
    BY <2>1, <2>2, TimerStopLives DEF Stoppable
  <2>5. Lives(d.hb, d.heartbeat_timer_stopped) /\ ~d.hb.started
    BY <2>1, <2>2, TimerStopLives DEF Stoppable
  <2>6. ~is_done(d)
    BY <2>2 DEF Stoppable, is_done
  <2>7. Alive(d)
    BY <2>2, <2>3, <2>4, <2>5, <2>6 DEF Alive, Steady, Watched
  <2> QED BY <2>2, <2>3, <2>7 DEF d
<1> QED BY <1>1, <1>2

\* The end of a handler signals what there is to signal.
LEMMA EndLively ==
  ASSUME NEW c, ShutdownInv(c), Alive(c)
  PROVE  Lively(end_of_handler(c)) /\ Lively(read_next(c))
<1>1. ASSUME NEW d, ShutdownInv(d), Alive(d)
      PROVE  Lively(end_of_handler(d))
  <2> DEFINE e == end_of_handler(d)
  <2>1. d \in TcpConnections /\ d.sock \in Sockets /\ SocketInv(d.sock)
        /\ d.socket_closed \in BOOLEAN
    BY <1>1 DEF ShutdownInv, TcpConnections
  <2>2. /\ e.sock = socket_maybe_signal_closed(d.sock) /\ e.state = d.state
        /\ e.login = d.login /\ e.hb = d.hb /\ e.socket_closed = d.socket_closed
        /\ e.login_timer_stopped = d.login_timer_stopped
        /\ e.heartbeat_timer_stopped = d.heartbeat_timer_stopped
    BY <2>1 DEF end_of_handler, TcpConnections
  <2> HIDE DEF e
  <2>3. /\ Signalled(e.sock, e.socket_closed) /\ Ends(e.sock)
        /\ e.sock.closing = d.sock.closing /\ e.sock.connect = d.sock.connect
    BY <1>1, <2>1, <2>2, SocketCloseSignals, SignalClosed DEF Alive, Steady
  <2>4. Lively(e)
    BY <1>1, <2>2, <2>3 DEF Lively, Alive, Steady, Watched, is_done
  <2> QED BY <2>4 DEF e
<1> DEFINE r == [c EXCEPT !.sock = async_read(@)]
<1>2. ShutdownInv(r) /\ Same(c, r)
  BY AsyncReadInv, ZenonT(30)
     DEF ShutdownInv, TcpConnections, Sockets, async_read, read_header, Same
<1>3. read_next(c) = end_of_handler(IF is_closing(c) THEN c ELSE r)
  BY DEF read_next
<1> HIDE DEF r
<1>4. Alive(r)
  BY <1>2, SameAlive
<1> QED BY <1>1, <1>2, <1>3, <1>4

\* Writing changes nothing but the queue, on a socket that is open.
LEMMA WriteSame ==
  ASSUME NEW c, ShutdownInv(c), NEW packet
  PROVE  LET d == [c EXCEPT !.sock = async_write(@, packet)]
         IN  Same(c, d) /\ (Ends(c.sock) => Ends(d.sock))
BY DEF ShutdownInv, TcpConnections, Sockets, async_write, async_write_error, write_packet,
       Same, Ends

\* The start of a read or write handler.
LEMMA DoneSame ==
  ASSUME NEW c, ShutdownInv(c)
  PROVE  /\ Same(c, [c EXCEPT !.sock.read = "none"])
         /\ Same(c, [c EXCEPT !.sock.write = "none"])
         /\ Same(c, [c EXCEPT !.hb.received = TRUE])
BY DEF ShutdownInv, TcpConnections, Sockets, HeartbeatTimers, Same

\* A handler that disconnects, and then ends.
LEMMA DisconnectEndLively ==
  ASSUME NEW c, ShutdownInv(c), Alive(c), NEW reason \in Disconnect_reason
  PROVE  /\ Lively(end_of_handler(disconnect(c, reason)))
         /\ Lively(read_next(disconnect(c, reason)))
<1>1. Stoppable(c)
  BY DEF Alive, Steady, Stoppable
<1>2. ShutdownInv(disconnect(c, reason)) /\ Alive(disconnect(c, reason))
  BY <1>1, DisconnectInv, DisconnectAlive
<1> QED BY <1>2, EndLively

\* The handlers of a read.
LEMMA ReadLively ==
  ASSUME NEW c, ShutdownInv(c), Alive(c), c.sock.read # "none", NEW result
  PROVE  /\ Lively(read_failed(c, result))
         /\ Lively(header_malformed(c))
         /\ Lively(header_received(c))
<1> DEFINE d == [c EXCEPT !.sock.read = "none"]
           e == [c EXCEPT !.sock = read_payload([@ EXCEPT !.read = "none"])]
<1>1. ShutdownInv(d) /\ Alive(d)
  BY ReadDone, DoneSame, SameAlive
<1>2. \E reason \in Disconnect_reason :
        read_failed(c, result) = end_of_handler(disconnect(d, reason))
  BY DEF read_failed, handle_transport_error, Disconnect_reason
<1>3. \E reason \in Disconnect_reason :
        header_malformed(c) = end_of_handler(disconnect(d, reason))
  BY DEF header_malformed, handle_protocol_violation, Disconnect_reason
<1> HIDE DEF d
<1>4. Lively(read_failed(c, result)) /\ Lively(header_malformed(c))
  BY <1>1, <1>2, <1>3, DisconnectEndLively
<1>5. Lively(header_received(c))
  <2> DEFINE h == header_received(c)
  <2>1. c \in TcpConnections /\ c.sock \in Sockets /\ ShutdownInv(h)
    BY HeaderReceivedInv DEF ShutdownInv, TcpConnections
  <2>2. Same(c, e) /\ e.sock.read # "none"
    BY <2>1 DEF read_payload, StartOp, TcpConnections, Sockets, Same
  <2>3. h = end_of_handler(e) /\ e \in TcpConnections
    BY <2>1 DEF header_received, read_payload, StartOp, TcpConnections, Sockets, OpStatus
  <2> HIDE DEF e
  <2>4. ~is_idle(e.sock)
    BY <2>2 DEF is_idle
  <2>5. h = e
    BY <2>3, <2>4 DEF end_of_handler, socket_maybe_signal_closed, TcpConnections
  <2>6. Lively(e)
    BY <2>2, <2>4, SameAlive DEF Lively, Ends
  <2> QED BY <2>5, <2>6
<1> QED BY <1>4, <1>5

\* A write that failed.
LEMMA WriteFailedLively ==
  ASSUME NEW c, ShutdownInv(c), Alive(c), NEW result \in Results(c.sock.write) \ {"ok"}
  PROVE  Lively(write_failed(c, result))
<1> DEFINE d == [c EXCEPT !.sock.write = "none"]
<1>1. ShutdownInv(d) /\ Alive(d)
  BY ResultOwed, WriteDone, DoneSame, SameAlive
<1>2. \/ write_failed(c, result) = end_of_handler(d)
      \/ write_failed(c, result) = end_of_handler(disconnect(d, "transport_error"))
  BY DEF write_failed, handle_transport_error
<1> HIDE DEF d
<1> QED BY <1>1, <1>2, EndLively, DisconnectEndLively DEF Disconnect_reason

\* A write that succeeded starts the next.
LEMMA PacketSentSame ==
  ASSUME NEW c, ShutdownInv(c)
  PROVE  /\ Same(c, [c EXCEPT !.sock = packet_sent(@)])
         /\ Same(c, [c EXCEPT !.sock = packet_sent([@ EXCEPT !.write = "none"])])
BY DEF ShutdownInv, TcpConnections, Sockets, packet_sent, write_packet, Same

\* The wait handler of the login timer disconnects, or reports a stopped timer.
LEMMA LoginWaitLively ==
  ASSUME NEW c, ShutdownInv(c), Lively(c), c.login.wait # "none", NEW result
  PROVE  Lively(login_wait_completed(c, result))
<1> DEFINE d == [c EXCEPT !.login.wait = "none"]
           e == CASE ~d.login.started -> d
                  [] d.login.started /\ result # "ok" -> handle_transport_error(d)
                  [] OTHER -> disconnect(d, "login_timeout")
           f == login_wait_completed(c, result)
<1>1. f = [e EXCEPT !.login = maybe_signal_stopped(@)]
  BY DEF login_wait_completed
<1>2. ShutdownInv(d)
  BY LoginWaitDone
<1>3. /\ c \in TcpConnections /\ c.login \in LoginTimers /\ TimerInv(c.login)
  BY DEF ShutdownInv, TcpConnections
<1>4. /\ d.state = c.state /\ d.sock = c.sock /\ d.hb = c.hb
      /\ d.socket_closed = c.socket_closed
      /\ d.login_timer_stopped = c.login_timer_stopped
      /\ d.heartbeat_timer_stopped = c.heartbeat_timer_stopped
      /\ d.login.started = c.login.started /\ d.login.wait = "none"
      /\ d.login.stopped_signaled = c.login.stopped_signaled
      /\ d.login.posted = c.login.posted
  BY <1>3 DEF TcpConnections, LoginTimers
<1> HIDE DEF d, f
<1>5. Ends(d.sock) /\ Watched(d) /\ ~is_done(d) /\ Signalled(d.sock, d.socket_closed)
      /\ Lives(d.hb, d.heartbeat_timer_stopped)
  BY <1>4 DEF Lively, Alive, Steady, Watched, is_done
<1>6. /\ Ends(e.sock) /\ Watched(e) /\ ~is_done(e) /\ Signalled(e.sock, e.socket_closed)
      /\ Lives(e.hb, e.heartbeat_timer_stopped) /\ ShutdownInv(e)
      /\ \/ Lives(e.login, e.login_timer_stopped)
         \/ ~e.login.started /\ e.login.wait = "none" /\ ~e.login.stopped_signaled
  <2>1. CASE ~d.login.started
    <3>1. e = d
      BY <2>1
    <3> HIDE DEF e
    <3> QED BY <1>2, <1>3, <1>4, <1>5, <2>1, <3>1 DEF TimerInv
  <2>2. CASE d.login.started
    <3>1. Stoppable(d) /\ d.state # "disconnected"
      BY <1>5, <2>2 DEF Stoppable, Watched
    <3>2. \E reason \in Disconnect_reason : e = disconnect(d, reason)
      BY <2>2 DEF handle_transport_error, Disconnect_reason
    <3> HIDE DEF e
    <3>3. ShutdownInv(e) /\ Alive(e) /\ Ends(e.sock)
      BY <1>2, <3>1, <3>2, DisconnectInv, DisconnectAlive
    <3> QED BY <3>3 DEF Alive, Steady
  <2> QED BY <2>1, <2>2
<1> HIDE DEF e
<1>7. e \in TcpConnections /\ e.login \in LoginTimers /\ e.login_timer_stopped \in BOOLEAN
  BY <1>6 DEF ShutdownInv, TcpConnections
<1>8. /\ f.state = e.state /\ f.sock = e.sock /\ f.hb = e.hb
      /\ f.login = maybe_signal_stopped(e.login)
      /\ f.socket_closed = e.socket_closed
      /\ f.login_timer_stopped = e.login_timer_stopped
      /\ f.heartbeat_timer_stopped = e.heartbeat_timer_stopped
  BY <1>1, <1>7 DEF TcpConnections
<1>9. Lives(f.login, f.login_timer_stopped) /\ f.login.started = e.login.started
  BY <1>6, <1>7, <1>8, SignalLives
<1>10. Lively(f)
  BY <1>6, <1>8, <1>9 DEF Lively, Alive, Steady, Watched, is_done
<1> QED BY <1>10 DEF f

\* What the wait handler of a started heartbeat timer keeps until it has
\* scheduled the next wait, or disconnects.
Beating(c) ==
  /\ ~is_done(c) /\ Signalled(c.sock, c.socket_closed) /\ Ends(c.sock)
  /\ Lives(c.login, c.login_timer_stopped) /\ c.hb.started /\ ~c.hb.stopped_signaled
  /\ c.state # "disconnected" /\ Watched(c)

\* A connection that differs in its heartbeat timer's counts, or its queue.
LEMMA BeatingSame ==
  ASSUME NEW c, NEW d, Beating(c), Same(c, d), Ends(c.sock) => Ends(d.sock)
  PROVE  Beating(d)
BY SameAlive DEF Beating, Same, is_done, Signalled, Lives

\* Such a connection is disconnected without being stranded.
LEMMA BeatingStops ==
  ASSUME NEW c, ShutdownInv(c), Beating(c), NEW reason \in Disconnect_reason
  PROVE  Lively(disconnect(c, reason)) /\ ShutdownInv(disconnect(c, reason))
BY DisconnectInv, DisconnectAlive DEF Beating, Stoppable, Lively

\* Counting and sending concern nothing else.
LEMMA BeatSame ==
  ASSUME NEW c, ShutdownInv(c)
  PROVE  /\ Same(c, [c EXCEPT !.hb = count_silence(@)])
         /\ Same(c, send_heartbeat(c))
         /\ Ends(c.sock) => Ends(send_heartbeat(c).sock)
<1>1. c \in TcpConnections /\ c.hb \in HeartbeatTimers
  BY DEF ShutdownInv, TcpConnections
<1>2. Same(c, [c EXCEPT !.hb = count_silence(@)])
  <2>1. \A n : Same(c, [c EXCEPT !.hb = [@ EXCEPT !.no_receive_period = n]])
               /\ Same(c, [c EXCEPT !.hb = [@ EXCEPT !.no_receive_period = n, !.received = FALSE]])
    BY <1>1 DEF TcpConnections, HeartbeatTimers, Same
  <2>2. \E n : \/ [c EXCEPT !.hb = count_silence(@)]
                    = [c EXCEPT !.hb = [@ EXCEPT !.no_receive_period = n]]
               \/ [c EXCEPT !.hb = count_silence(@)]
                    = [c EXCEPT !.hb = [@ EXCEPT !.no_receive_period = n, !.received = FALSE]]
    BY DEF count_silence
  <2> QED BY <2>1, <2>2
<1>3. Same(c, send_heartbeat(c)) /\ (Ends(c.sock) => Ends(send_heartbeat(c).sock))
  <2>1. CASE c.hb.sent
    BY <1>1, <2>1 DEF send_heartbeat, TcpConnections, HeartbeatTimers, Same
  <2>2. CASE ~c.hb.sent
    BY <2>2, WriteSame DEF send_heartbeat
  <2> QED BY <2>1, <2>2
<1> QED BY <1>2, <1>3

\* The wait handler of the heartbeat timer waits again, disconnects, or reports
\* a stopped timer.
LEMMA HeartbeatWaitLively ==
  ASSUME NEW c, ShutdownInv(c), Lively(c), c.hb.wait # "none", NEW result, NEW fails \in BOOLEAN
  PROVE  Lively(heartbeat_wait_completed(c, result, fails))
<1> DEFINE d == [c EXCEPT !.hb.wait = "none"]
           e == [d EXCEPT !.hb = count_silence(@)]
           s == send_heartbeat(e)
           f == [s EXCEPT !.hb = schedule(@, fails)]
           g == CASE ~d.hb.started -> d
                  [] d.hb.started /\ result # "ok" -> handle_transport_error(d)
                  [] d.hb.started /\ result = "ok" /\ receive_timed_out(d.hb)
                       -> disconnect(e, "heartbeat_timeout")
                  [] OTHER -> IF fails THEN handle_transport_error(f) ELSE f
           h == heartbeat_wait_completed(c, result, fails)
<1>1. h = [g EXCEPT !.hb = maybe_signal_stopped(@)]
  BY DEF heartbeat_wait_completed
<1>2. ShutdownInv(d) /\ Ticks(d)
  <2>1. ShutdownInv(d)
    BY HeartbeatWaitDone
  <2>2. /\ d.state = c.state /\ d.sock = c.sock
        /\ d.heartbeat_timer_stopped = c.heartbeat_timer_stopped
    BY DEF ShutdownInv, TcpConnections
  <2>3. /\ ~c.heartbeat_timer_stopped /\ c.sock.connect = "none"
        /\ c.state \notin {"connecting", "connected"}
    BY DEF ShutdownInv, FlagsInv, StartInv, Rests, Fresh
  <2> HIDE DEF d
  <2> QED BY <2>1, <2>2, <2>3 DEF Ticks
<1>3. c \in TcpConnections /\ c.hb \in HeartbeatTimers /\ TimerInv(c.hb)
  BY DEF ShutdownInv, TcpConnections
<1>4. /\ d.state = c.state /\ d.sock = c.sock /\ d.login = c.login
      /\ d.socket_closed = c.socket_closed
      /\ d.login_timer_stopped = c.login_timer_stopped
      /\ d.heartbeat_timer_stopped = c.heartbeat_timer_stopped
      /\ d.hb.started = c.hb.started /\ d.hb.wait = "none" /\ ~d.hb.stopped_signaled
  BY <1>3 DEF TcpConnections, HeartbeatTimers, TimerInv
<1> HIDE DEF d, h
<1>5. /\ Ends(d.sock) /\ Watched(d) /\ ~is_done(d) /\ Signalled(d.sock, d.socket_closed)
      /\ Lives(d.login, d.login_timer_stopped)
  BY <1>4 DEF Lively, Alive, Steady, Watched, is_done
<1>6. d.hb.started => Beating(d)
  BY <1>4, <1>5 DEF Beating, Watched
<1>7. ShutdownInv(e) /\ Ticks(e) /\ (d.hb.started => Beating(e))
  <2>1. d.hb \in HeartbeatTimers /\ TimerInv(d.hb)
    BY <1>2 DEF ShutdownInv, TcpConnections
  <2>2. /\ count_silence(d.hb) \in HeartbeatTimers /\ TimerInv(count_silence(d.hb))
    BY <2>1, CountSilenceInv
  <2>3. Ticks(e) /\ Same(d, e) /\ e.sock = d.sock
    BY <1>2, <2>2, TicksReplaced, BeatSame DEF ShutdownInv, TcpConnections
  <2> HIDE DEF e
  <2> QED BY <1>6, <2>3, BeatingSame DEF Ticks
<1> HIDE DEF e
<1>8. ShutdownInv(s) /\ Ticks(s) /\ (d.hb.started => Beating(s))
  <2>1. Ticks(s)
    BY <1>7, SendHeartbeatInv
  <2>2. Same(e, s) /\ (Ends(e.sock) => Ends(s.sock))
    BY <1>7, BeatSame
  <2> HIDE DEF s
  <2> QED BY <1>7, <2>1, <2>2, BeatingSame DEF Ticks
<1> HIDE DEF s
<1>9. ASSUME d.hb.started
      PROVE  ShutdownInv(f) /\ Beating(f) /\ (fails \/ Lively(f))
  <2>1. s \in TcpConnections /\ s.hb \in HeartbeatTimers /\ TimerInv(s.hb)
    BY <1>8 DEF ShutdownInv, TcpConnections
  <2>2. s.hb.started /\ ~s.hb.stopped_signaled
    BY <1>8, <1>9 DEF Beating
  <2>3. schedule(s.hb, fails) \in HeartbeatTimers /\ TimerInv(schedule(s.hb, fails))
    BY <2>1, <2>2 DEF schedule, HeartbeatTimers, TimerInv, OpStatus
  <2>4. ShutdownInv(f)
    BY <1>8, <2>3, TicksReplaced DEF Ticks
  <2>5. /\ f.state = s.state /\ f.sock = s.sock /\ f.login = s.login
        /\ f.socket_closed = s.socket_closed
        /\ f.login_timer_stopped = s.login_timer_stopped
        /\ f.heartbeat_timer_stopped = s.heartbeat_timer_stopped
        /\ f.hb.started /\ ~f.hb.stopped_signaled
        /\ fails \/ f.hb.wait = "pending"
    BY <2>1, <2>2 DEF schedule, TcpConnections, HeartbeatTimers
  <2> HIDE DEF f
  <2>6. Beating(f)
    BY <1>8, <1>9, <2>5 DEF Beating, Watched, is_done
  <2>7. fails \/ Lively(f)
    BY <2>5, <2>6 DEF Beating, Lively, Alive, Steady, Lives
  <2> QED BY <2>4, <2>6, <2>7
<1> HIDE DEF f
<1>10. /\ ShutdownInv(g)
       /\ Lively(g) \/ (g = d /\ ~d.hb.started)
  <2>1. CASE ~d.hb.started
    BY <1>2, <2>1
  <2>2. CASE d.hb.started
    <3>1. \/ \E reason \in Disconnect_reason, x \in {d, e, f} : g = disconnect(x, reason)
          \/ ~fails /\ g = f
      BY <2>2 DEF handle_transport_error, Disconnect_reason
    <3> HIDE DEF g
    <3>2. \A x \in {d, e, f} : ShutdownInv(x) /\ Beating(x)
      BY <1>2, <1>6, <1>7, <1>9, <2>2
    <3> QED BY <1>9, <2>2, <3>1, <3>2, BeatingStops
  <2> QED BY <2>1, <2>2
<1> HIDE DEF g
<1>11. g \in TcpConnections /\ g.hb \in HeartbeatTimers /\ g.heartbeat_timer_stopped \in BOOLEAN
  BY <1>10 DEF ShutdownInv, TcpConnections
<1>12. /\ h.state = g.state /\ h.sock = g.sock /\ h.login = g.login
       /\ h.hb = maybe_signal_stopped(g.hb)
       /\ h.socket_closed = g.socket_closed
       /\ h.login_timer_stopped = g.login_timer_stopped
       /\ h.heartbeat_timer_stopped = g.heartbeat_timer_stopped
  BY <1>1, <1>11 DEF TcpConnections
<1>13. Lives(h.hb, h.heartbeat_timer_stopped) /\ h.hb.started = g.hb.started
  BY <1>4, <1>10, <1>11, <1>12, SignalLives DEF Lively, Alive, Steady
<1>14. Lively(h)
  BY <1>5, <1>10, <1>12, <1>13 DEF Lively, Alive, Steady, Watched, is_done
<1> QED BY <1>14 DEF h

\* start() of the login timer takes the connection out of the state connected
\* in the end, or disconnects at once.
LEMMA StartLoginTimerAlive ==
  ASSUME NEW c, ShutdownInv(c), Steady(c), Fresh(c.login), c.sock.connect = "none",
         c.state = "connected", NEW fails \in BOOLEAN
  PROVE  Alive(start_login_timer(c, fails))
<1> DEFINE t == login_timer_start(c.login, fails)
           d == [c EXCEPT !.login_timer_stopped = FALSE, !.login = login_timer_start(@, fails)]
<1>1. c \in TcpConnections /\ c.login \in LoginTimers
  BY DEF ShutdownInv, TcpConnections
<1>2. /\ d.state = "connected" /\ d.sock = c.sock /\ d.hb = c.hb
      /\ d.login = t
      /\ d.socket_closed = c.socket_closed /\ ~d.login_timer_stopped
      /\ d.heartbeat_timer_stopped = c.heartbeat_timer_stopped
  BY <1>1 DEF TcpConnections
<1>3. /\ d.login \in LoginTimers /\ TimerInv(d.login)
      /\ d.login.started /\ ~d.login.stopped_signaled
      /\ fails \/ d.login.wait = "pending"
  <2>1. t \in LoginTimers /\ TimerInv(t)
    BY <1>1 DEF login_timer_start, Fresh, TimerInv, LoginTimers, OpStatus
  <2>2. t.started /\ ~t.stopped_signaled
    BY <1>1 DEF login_timer_start, Fresh, LoginTimers
  <2>3. ~fails => t.wait = "pending"
    BY <1>1 DEF login_timer_start, Fresh, LoginTimers
  <2> HIDE DEF t, d
  <2> QED BY <1>2, <2>1, <2>2, <2>3
<1>4. d \in TcpConnections
  BY <1>1, <1>3 DEF TcpConnections
<1>5. start_login_timer(c, fails) = IF fails THEN disconnect(d, "transport_error") ELSE d
  BY DEF start_login_timer, handle_transport_error, Fresh
<1> HIDE DEF d
<1>6. ShutdownInv(d)
  BY <1>2, <1>3, <1>4 DEF ShutdownInv, FlagsInv, StartInv
<1>7. CASE fails
  <2>1. Stoppable(d)
    BY <1>2, <1>3 DEF Stoppable, Steady, is_done
  <2> QED BY <1>2, <1>5, <1>6, <1>7, <2>1, DisconnectAlive
<1>8. CASE ~fails
  BY <1>2, <1>3, <1>5, <1>8 DEF Alive, Steady, Watched, Lives, is_done
<1> QED BY <1>7, <1>8

\* start() of the heartbeat timer does the same for the state logged_in.
LEMMA StartHeartbeatTimerAlive ==
  ASSUME NEW c, ShutdownInv(c), Steady(c), Fresh(c.hb), c.sock.connect = "none",
         c.state = "logged_in", NEW fails \in BOOLEAN
  PROVE  Alive(start_heartbeat_timer(c, fails))
<1> DEFINE t == heartbeat_timer_start(c.hb, fails)
           d == [c EXCEPT !.heartbeat_timer_stopped = FALSE,
                          !.hb = heartbeat_timer_start(@, fails)]
<1>1. c \in TcpConnections /\ c.hb \in HeartbeatTimers
  BY DEF ShutdownInv, TcpConnections
<1>2. /\ d.state = "logged_in" /\ d.sock = c.sock /\ d.login = c.login
      /\ d.hb = t
      /\ d.socket_closed = c.socket_closed /\ ~d.heartbeat_timer_stopped
      /\ d.login_timer_stopped = c.login_timer_stopped
  BY <1>1 DEF TcpConnections
<1>3. /\ d.hb \in HeartbeatTimers /\ TimerInv(d.hb)
      /\ d.hb.started /\ ~d.hb.stopped_signaled
      /\ fails \/ d.hb.wait = "pending"
  <2>1. t \in HeartbeatTimers /\ TimerInv(t)
    BY <1>1 DEF heartbeat_timer_start, schedule, Fresh, TimerInv, HeartbeatTimers, OpStatus
  <2>2. t.started /\ ~t.stopped_signaled
    BY <1>1 DEF heartbeat_timer_start, schedule, Fresh, HeartbeatTimers
  <2>3. ~fails => t.wait = "pending"
    BY <1>1 DEF heartbeat_timer_start, schedule, Fresh, HeartbeatTimers
  <2> HIDE DEF t, d
  <2> QED BY <1>2, <2>1, <2>2, <2>3
<1>4. d \in TcpConnections
  BY <1>1, <1>3 DEF TcpConnections
<1>5. start_heartbeat_timer(c, fails) = IF fails THEN disconnect(d, "transport_error") ELSE d
  BY DEF start_heartbeat_timer, handle_transport_error, Fresh
<1> HIDE DEF d
<1>6. ShutdownInv(d)
  BY <1>2, <1>3, <1>4 DEF ShutdownInv, FlagsInv, StartInv
<1>7. CASE fails
  <2>1. Stoppable(d)
    BY <1>2, <1>3 DEF Stoppable, Steady, is_done
  <2> QED BY <1>2, <1>5, <1>6, <1>7, <2>1, DisconnectAlive
<1>8. CASE ~fails
  BY <1>2, <1>3, <1>5, <1>8 DEF Alive, Steady, Watched, Lives, is_done
<1> QED BY <1>7, <1>8

\* The answer to a login stops the login timer, which then owes its end.
LEMMA LeavesSteady ==
  ASSUME NEW c, ShutdownInv(c), Steady(c), NEW state
  PROVE  /\ Steady([c EXCEPT !.login = timer_stop(@), !.state = state])
         /\ Steady([c EXCEPT !.login = timer_stop(@)])
<1>1. /\ c \in TcpConnections /\ c.login \in LoginTimers /\ TimerInv(c.login)
      /\ c.login_timer_stopped \in BOOLEAN
  BY DEF ShutdownInv, TcpConnections
<1>2. Lives(timer_stop(c.login), c.login_timer_stopped)
  BY <1>1, TimerStopLives DEF Steady
<1> QED BY <1>1, <1>2 DEF Steady, is_done, TcpConnections

\* A report takes the place of what was posted.
LEMMA ReportLively ==
  ASSUME NEW c, ShutdownInv(c), Lively(c)
  PROVE  LET x == [c EXCEPT !.sock.posted = FALSE, !.socket_closed = TRUE]
             y == [c EXCEPT !.login.posted = FALSE, !.login_timer_stopped = TRUE]
             z == [c EXCEPT !.hb.posted = FALSE, !.heartbeat_timer_stopped = TRUE]
         IN  /\ ~is_done(x) => Lively(x)
             /\ c.login.posted /\ ~is_done(y) => Lively(y)
             /\ c.hb.posted /\ ~is_done(z) => Lively(z)
<1> DEFINE x == [c EXCEPT !.sock.posted = FALSE, !.socket_closed = TRUE]
           y == [c EXCEPT !.login.posted = FALSE, !.login_timer_stopped = TRUE]
           z == [c EXCEPT !.hb.posted = FALSE, !.heartbeat_timer_stopped = TRUE]
<1>1. c \in TcpConnections
  BY DEF ShutdownInv
<1>2. ~is_done(x) => Lively(x)
  BY <1>1 DEF TcpConnections, Sockets, Lively, Alive, Steady, Watched, Ends, Signalled, Lives,
              is_idle
<1>3. c.login.posted /\ ~is_done(y) => Lively(y)
  BY <1>1 DEF TcpConnections, LoginTimers, ShutdownInv, TimerInv,
              Lively, Alive, Steady, Watched, Ends, Signalled, Lives
<1>4. c.hb.posted /\ ~is_done(z) => Lively(z)
  BY <1>1 DEF TcpConnections, HeartbeatTimers, ShutdownInv, TimerInv,
              Lively, Alive, Steady, Watched, Ends, Signalled, Lives
<1> QED BY <1>2, <1>3, <1>4

-----------------------------------------------------------------------------
\* What is left to say of the state: the handlers common to both sides leave
\* it alone, or disconnect.

\* d is c, or c disconnected, as far as the state goes.
Settles(c, d) == "state" \in DOMAIN d /\ d.state \in {c.state, "disconnected"}

\* Each of the common handlers, and the starts of the two timers, keeps to it.
LEMMA HandlersSettle ==
  ASSUME NEW c \in TcpConnections, NEW result, NEW fails \in BOOLEAN
  PROVE  /\ Settles(c, end_of_handler(c)) /\ Settles(c, read_next(c))
         /\ Settles(c, read_failed(c, result))
         /\ Settles(c, header_received(c)) /\ Settles(c, header_malformed(c))
         /\ Settles(c, write_failed(c, result))
         /\ Settles(c, login_wait_completed(c, result))
         /\ Settles(c, heartbeat_wait_completed(c, result, fails))
         /\ Settles(c, start_login_timer(c, fails))
         /\ Settles(c, start_heartbeat_timer(c, fails))
<1>1. "state" \in DOMAIN c /\ Settles(c, c)
  BY DEF TcpConnections, Settles
<1>2. ASSUME NEW d, Settles(c, d), NEW v
      PROVE  /\ Settles(c, [d EXCEPT !.sock = v]) /\ Settles(c, [d EXCEPT !.login = v])
             /\ Settles(c, [d EXCEPT !.hb = v])
             /\ Settles(c, [d EXCEPT !.login_timer_stopped = FALSE, !.login = v])
             /\ Settles(c, [d EXCEPT !.heartbeat_timer_stopped = FALSE, !.hb = v])
  BY <1>2 DEF Settles
<1>3. ASSUME NEW d, Settles(c, d), NEW reason
      PROVE  Settles(c, disconnect(d, reason))
  BY <1>3 DEF Settles, disconnect
<1>4. ASSUME NEW d, Settles(c, d)
      PROVE  Settles(c, end_of_handler(d)) /\ Settles(c, read_next(d))
  BY <1>2, <1>4 DEF end_of_handler, read_next
<1>5. /\ Settles(c, [c EXCEPT !.sock.read = "none"])
      /\ Settles(c, [c EXCEPT !.sock.write = "none"])
      /\ Settles(c, [c EXCEPT !.login.wait = "none"])
      /\ Settles(c, [c EXCEPT !.hb.wait = "none"])
  BY <1>1 DEF Settles
<1>6. /\ Settles(c, read_failed(c, result)) /\ Settles(c, header_malformed(c))
      /\ Settles(c, write_failed(c, result))
  BY <1>3, <1>4, <1>5
     DEF read_failed, header_malformed, write_failed, handle_transport_error,
         handle_protocol_violation
<1>7. Settles(c, header_received(c))
  BY <1>1, <1>2, <1>4 DEF header_received
<1>8. Settles(c, login_wait_completed(c, result))
  <2> DEFINE d == [c EXCEPT !.login.wait = "none"]
             e == CASE ~d.login.started -> d
                    [] d.login.started /\ result # "ok" -> handle_transport_error(d)
                    [] OTHER -> disconnect(d, "login_timeout")
  <2>1. login_wait_completed(c, result) = [e EXCEPT !.login = maybe_signal_stopped(@)]
    BY DEF login_wait_completed
  <2>2. Settles(c, d)
    BY <1>5
  <2> HIDE DEF d
  <2>3. Settles(c, e)
    BY <1>3, <2>2 DEF handle_transport_error
  <2> HIDE DEF e
  <2>4. Settles(c, [e EXCEPT !.login = maybe_signal_stopped(@)])
    BY <2>3 DEF Settles
  <2> QED BY <2>1, <2>4
<1>9. Settles(c, heartbeat_wait_completed(c, result, fails))
  <2> DEFINE d == [c EXCEPT !.hb.wait = "none"]
             e == [d EXCEPT !.hb = count_silence(@)]
             s == send_heartbeat(e)
             f == [s EXCEPT !.hb = schedule(@, fails)]
             g == CASE ~d.hb.started -> d
                    [] d.hb.started /\ result # "ok" -> handle_transport_error(d)
                    [] d.hb.started /\ result = "ok" /\ receive_timed_out(d.hb)
                         -> disconnect(e, "heartbeat_timeout")
                    [] OTHER -> IF fails THEN handle_transport_error(f) ELSE f
  <2>1. heartbeat_wait_completed(c, result, fails) = [g EXCEPT !.hb = maybe_signal_stopped(@)]
    BY DEF heartbeat_wait_completed
  <2>2. Settles(c, d)
    BY <1>5
  <2> HIDE DEF d
  <2>3. Settles(c, e)
    BY <1>2, <2>2
  <2> HIDE DEF e
  <2>4. Settles(c, s)
    BY <1>2, <2>3 DEF send_heartbeat, Settles
  <2> HIDE DEF s
  <2>5. Settles(c, f)
    BY <1>2, <2>4
  <2> HIDE DEF f
  <2>6. Settles(c, g)
    BY <1>3, <2>2, <2>3, <2>5 DEF handle_transport_error
  <2> HIDE DEF g
  <2>7. Settles(c, [g EXCEPT !.hb = maybe_signal_stopped(@)])
    BY <2>6 DEF Settles
  <2> QED BY <2>1, <2>7
<1>10. /\ Settles(c, start_login_timer(c, fails)) /\ Settles(c, start_heartbeat_timer(c, fails))
  BY <1>1, <1>2, <1>3 DEF start_login_timer, start_heartbeat_timer, handle_transport_error
<1> QED BY <1>1, <1>4, <1>6, <1>7, <1>8, <1>9, <1>10

=============================================================================
