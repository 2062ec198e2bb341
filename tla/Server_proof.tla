---------------------------- MODULE Server_proof ----------------------------
(***************************************************************************)
(* What holds of the server for any number of connections and ports, as    *)
(* long as there is no debug banner: no Tcp_connection is destroyed that a *)
(* handler still uses, ports never point at a destroyed connection and     *)
(* never have two sessions, a rejection is always under way, the response  *)
(* to a login is the first packet, and no connection is stranded.  With a  *)
(* banner or without, a listening server goes on accepting.                *)
(***************************************************************************)
EXTENDS Server, TcpConnection_proof, SequenceTheorems

\* What a connection has to write before and after its login is answered.
\* With a banner the two parts about the queue do not hold: the completion of
\* another write than the rejection's would end the connection.
Quiet(c) ==
  /\ c.state # "connecting"
  /\ c.state # "disconnected" => ~c.sock.closing
  /\ c.state = "connected" => c.sock.write_packets = <<>>
  /\ c.state = "disconnecting" =>
       Fresh(c.hb) /\ c.sock.write_packets = <<"login">> /\ c.sock.write = "pending"

ConnInv(c) == ShutdownInv(c) /\ Quiet(c)

\* A connection that is not live is a new one without a port; one that has a
\* port has logged in.
PortInv ==
  /\ \A c \in Conn \ live : tcp[c] = NoTcp /\ port[c] = NoPort
  /\ \A c \in live : port[c] # NoPort => tcp[c].state \in {"logged_in", "disconnected"}

\* The inductive invariant.
IndInv ==
  /\ live \subseteq Conn /\ tcp \in [Conn -> TcpConnections]
  /\ port \in [Conn -> Ports \cup {NoPort}] /\ connection \in [Ports -> Conn \cup {NoConn}]
  /\ \A c \in Conn : ConnInv(tcp[c])
  /\ PortInv /\ PortPointsToLive /\ OneSessionPerPort /\ NoOrphans

\* What a step may make of one connection, its login apart.
Follows(c, d) ==
  /\ ConnInv(d)
  /\ \/ d.state \in {c.state, "disconnected"}
     \/ c.state = "connected" /\ d.state = "disconnecting"

-----------------------------------------------------------------------------
\* A connection that is closed follows any other.
LEMMA FollowsClosed ==
  ASSUME NEW c, NEW d, ShutdownInv(d), d.state = "disconnected"
  PROVE  Follows(c, d)
BY DEF Follows, ConnInv, Quiet

\* One that keeps its state, its queue and its heartbeat timer's freshness.
LEMMA FollowsSame ==
  ASSUME NEW c, ConnInv(c), NEW d, ShutdownInv(d), d.state = c.state,
         d.sock.closing = c.sock.closing, d.sock.write_packets = c.sock.write_packets,
         d.sock.write = c.sock.write, Fresh(c.hb) => Fresh(d.hb)
  PROVE  Follows(c, d)
BY DEF Follows, ConnInv, Quiet

\* One that is and stays logged in, whatever it writes.
LEMMA FollowsLoggedIn ==
  ASSUME NEW c, ConnInv(c), NEW d, ShutdownInv(d), c.state \in {"logged_in", "disconnected"},
         d.state = c.state, d.sock.closing = c.sock.closing
  PROVE  Follows(c, d)
BY DEF Follows, ConnInv, Quiet

\* The start of a read handler leaves alone what Quiet looks at.
LEMMA ReadDoneKeeps ==
  ASSUME NEW c, ConnInv(c), c.sock.read # "none"
  PROVE  Follows(c, [c EXCEPT !.sock.read = "none"])
<1> DEFINE d == [c EXCEPT !.sock.read = "none"]
<1>1. ShutdownInv(d)
  BY ReadDone DEF ConnInv
<1>2. /\ d.state = c.state /\ d.hb = c.hb /\ d.sock.closing = c.sock.closing
      /\ d.sock.write_packets = c.sock.write_packets /\ d.sock.write = c.sock.write
  BY DEF ConnInv, ShutdownInv, TcpConnections, Sockets
<1> HIDE DEF d
<1> QED BY <1>1, <1>2, FollowsSame DEF d

-----------------------------------------------------------------------------
\* The handlers that close the connection.
LEMMA ReadFailedFollows ==
  ASSUME NEW c, ConnInv(c), c.sock.read # "none", NEW result
  PROVE  Follows(c, read_failed(c, result)) /\ Follows(c, header_malformed(c))
<1> DEFINE d == [c EXCEPT !.sock.read = "none"]
<1>1. ShutdownInv(c) /\ ShutdownInv(d)
  BY ReadDone DEF ConnInv
<1>2. ASSUME NEW reason \in Disconnect_reason
      PROVE  end_of_handler(disconnect(d, reason)).state = "disconnected"
  <2> HIDE DEF d
  <2> QED BY <1>1, DisconnectInv, DisconnectKeeps, EndOfHandlerKeeps
<1>3. read_failed(c, result).state = "disconnected"
  BY <1>2 DEF read_failed, handle_transport_error, Disconnect_reason
<1>4. header_malformed(c).state = "disconnected"
  BY <1>2 DEF header_malformed, handle_protocol_violation, Disconnect_reason
<1>5. ShutdownInv(read_failed(c, result)) /\ ShutdownInv(header_malformed(c))
  BY <1>1, ReadFailedInv, HeaderMalformedInv
<1> QED BY <1>3, <1>4, <1>5, FollowsClosed

\* A packet that closes the connection.
LEMMA PacketClosesFollows ==
  ASSUME NEW c, NEW d, ShutdownInv(d), NEW reason \in Disconnect_reason
  PROVE  Follows(c, read_next(disconnect(d, reason)))
<1>1. ShutdownInv(disconnect(d, reason)) /\ disconnect(d, reason).state = "disconnected"
  BY DisconnectInv, DisconnectKeeps
<1> QED BY <1>1, ReadNextInv, ReadNextKeeps, FollowsClosed

\* A header with a payload to come.
LEMMA HeaderReceivedFollows ==
  ASSUME NEW c, ConnInv(c), c.sock.read # "none"
  PROVE  Follows(c, header_received(c))
<1>1. ShutdownInv(c) /\ c \in TcpConnections /\ c.sock \in Sockets
  BY DEF ConnInv, ShutdownInv, TcpConnections
<1>2. ShutdownInv(header_received(c))
  BY <1>1, HeaderReceivedInv
<1>3. LET d == header_received(c)
      IN  /\ d.state = c.state /\ d.hb = c.hb /\ d.sock.closing = c.sock.closing
          /\ d.sock.write_packets = c.sock.write_packets /\ d.sock.write = c.sock.write
  BY <1>1 DEF header_received, read_payload, end_of_handler, socket_maybe_signal_closed,
              TcpConnections, Sockets
<1> QED BY <1>2, <1>3, FollowsSame

\* Packets that change no more than what has been received.
LEMMA PacketReadFollows ==
  ASSUME NEW c, ConnInv(c), NEW d, Follows(c, d), d.state = c.state
  PROVE  Follows(c, end_of_handler(d)) /\ Follows(c, read_next(d))
<1>1. ShutdownInv(d) /\ Quiet(d)
  BY DEF Follows, ConnInv
<1>2. ShutdownInv(end_of_handler(d)) /\ ShutdownInv(read_next(d))
  BY <1>1, EndOfHandlerInv, ReadNextInv
<1>3. Follows(d, end_of_handler(d)) /\ Follows(d, read_next(d))
  BY <1>1, <1>2, EndOfHandlerKeeps, ReadNextKeeps, FollowsSame DEF ConnInv
<1> QED BY <1>3 DEF Follows

-----------------------------------------------------------------------------
\* A write that failed disconnects, and one that was aborted was cancelled by
\* the close.
LEMMA WriteFailedFollows ==
  ASSUME NEW c, ConnInv(c), NEW result \in Results(c.sock.write) \ {"ok"}
  PROVE  Follows(c, write_failed(c, result))
<1> DEFINE d == [c EXCEPT !.sock.write = "none"]
<1>1. ShutdownInv(c) /\ c.sock.write # "none"
  BY ResultOwed DEF ConnInv
<1>2. ShutdownInv(d) /\ ShutdownInv(write_failed(c, result))
  BY <1>1, WriteDone, WriteFailedInv
<1>3. CASE result # "aborted"
  <2>1. write_failed(c, result) = end_of_handler(disconnect(d, "transport_error"))
    BY <1>3 DEF write_failed, handle_transport_error
  <2> HIDE DEF d
  <2>2. disconnect(d, "transport_error").state = "disconnected"
    BY <1>2, DisconnectKeeps
  <2>3. ShutdownInv(disconnect(d, "transport_error"))
    BY <1>2, DisconnectInv DEF Disconnect_reason
  <2> QED BY <1>2, <2>1, <2>2, <2>3, EndOfHandlerKeeps, FollowsClosed
<1>4. CASE result = "aborted"
  <2>1. c.sock.write = "cancelled"
    BY <1>4 DEF Results
  <2>2. c.state # "disconnecting"
    BY <2>1 DEF ConnInv, Quiet
  <2>3. /\ d.state = c.state /\ d.hb = c.hb /\ d.sock.closing = c.sock.closing
        /\ d.sock.write_packets = c.sock.write_packets
    BY <1>1 DEF ShutdownInv, TcpConnections, Sockets
  <2>4. write_failed(c, result) = end_of_handler(d)
    BY <1>4 DEF write_failed
  <2> HIDE DEF d
  <2> QED BY <1>2, <2>2, <2>3, <2>4, EndOfHandlerKeeps DEF Follows, ConnInv, Quiet
<1> QED BY <1>3, <1>4

\* The rejection was written: the connection closes, with nothing more to write.
LEMMA RejectionSent ==
  ASSUME NEW c, ShutdownInv(c), c.sock.write = "none", c.state = "disconnecting",
         c.sock.write_packets = <<"login">>
  PROVE  LET d == disconnect(c, "unmanaged_abort")
             e == [d EXCEPT !.sock = packet_sent(@)]
         IN  ShutdownInv(e) /\ e.state = "disconnected"
<1> DEFINE d == disconnect(c, "unmanaged_abort")
           s == packet_sent(d.sock)
<1>1. ShutdownInv(d) /\ d.state = "disconnected"
  BY DisconnectInv, DisconnectKeeps DEF Disconnect_reason
<1>2. c \in TcpConnections /\ c.sock \in Sockets
  BY DEF ShutdownInv, TcpConnections
<1>3. d.sock = socket_close(c.sock)
  BY <1>2 DEF disconnect, TcpConnections
<1>4. d.sock.write = "none" /\ d.sock.write_packets = <<"login">>
  BY <1>2, <1>3, SocketCloseKeeps DEF cancel
<1> HIDE DEF d
<1>5. d \in TcpConnections /\ d.sock \in Sockets /\ SocketInv(d.sock)
  BY <1>1 DEF ShutdownInv, TcpConnections
<1>6. Tail(<<"login">>) = <<>>
  OBVIOUS
<1>7. s = [d.sock EXCEPT !.write_packets = <<>>, !.write_buffer_was_full = FALSE]
  BY <1>4, <1>5, <1>6 DEF packet_sent, Sockets
<1>8. <<>> \in Seq(PacketKind)
  OBVIOUS
<1>9. /\ s \in Sockets /\ SocketInv(s) /\ s.connect = d.sock.connect
      /\ s.closed_signaled = d.sock.closed_signaled /\ s.posted = d.sock.posted
  BY <1>4, <1>5, <1>7, <1>8 DEF Sockets, SocketInv, is_idle
<1> HIDE DEF s
<1>10. d.socket_closed => s.closed_signaled /\ ~s.posted
  BY <1>1, <1>9 DEF ShutdownInv, FlagsInv
<1>11. ShutdownInv([d EXCEPT !.sock = s])
  BY <1>1, <1>9, <1>10, SocketReplaced
<1> QED BY <1>1, <1>5, <1>11 DEF s, d, TcpConnections

\* A write succeeded.
LEMMA PacketSentFollows ==
  ASSUME NEW c, ConnInv(c), c.sock.write # "none"
  PROVE  LET d == write_success([c EXCEPT !.sock.write = "none"])
         IN  Follows(c, end_of_handler([d EXCEPT !.sock = packet_sent(@)]))
<1> DEFINE b == [c EXCEPT !.sock.write = "none"]
           d == write_success(b)
           e == [d EXCEPT !.sock = packet_sent(@)]
<1>1. ShutdownInv(c) /\ ShutdownInv(b)
  BY WriteDone DEF ConnInv
<1>2. c \in TcpConnections /\ c.sock \in Sockets /\ c.sock.write_packets # <<>>
  BY <1>1 DEF ShutdownInv, TcpConnections, SocketInv
<1>3. c.state # "connected"
  BY <1>2 DEF ConnInv, Quiet
<1>4. /\ b.state = c.state /\ b.sock.closing = c.sock.closing /\ b.sock.write = "none"
      /\ b.sock.write_packets = c.sock.write_packets
      /\ b.sock = [c.sock EXCEPT !.write = "none"]
  BY <1>2 DEF TcpConnections, Sockets
<1>5. CASE c.state = "disconnecting"
  <2> HIDE DEF b
  <2>1. d = disconnect(b, "unmanaged_abort") /\ b.sock.write_packets = <<"login">>
    BY <1>4, <1>5 DEF write_success, ConnInv, Quiet
  <2> HIDE DEF d
  <2>2. e = LET x == disconnect(b, "unmanaged_abort") IN [x EXCEPT !.sock = packet_sent(@)]
    BY <2>1
  <2> HIDE DEF e
  <2>3. b.sock.write = "none" /\ b.state = "disconnecting"
    BY <1>4, <1>5
  <2>4. ShutdownInv(e) /\ e.state = "disconnected"
    BY <1>1, <2>1, <2>2, <2>3, RejectionSent
  <2>5. ShutdownInv(end_of_handler(e)) /\ end_of_handler(e).state = "disconnected"
    BY <2>4, EndOfHandlerInv, EndOfHandlerKeeps
  <2> QED BY <2>5, FollowsClosed DEF b, d, e
<1>6. CASE c.state # "disconnecting"
  <2>1. d = b
    BY <1>4, <1>6 DEF write_success
  <2>2. e = [c EXCEPT !.sock = packet_sent([@ EXCEPT !.write = "none"])]
    BY <1>2, <2>1 DEF TcpConnections
  <2>3. ShutdownInv(e)
    BY <1>1, <2>2, PacketSentInv
  <2>4. packet_sent([c.sock EXCEPT !.write = "none"]).closing = c.sock.closing
    BY <1>2 DEF packet_sent, write_packet, StartOp, Sockets
  <2>5. e.state = c.state /\ e.sock.closing = c.sock.closing
    BY <1>2, <2>2, <2>4 DEF TcpConnections
  <2>6. c.state \in {"logged_in", "disconnected"}
    BY <1>2, <1>3, <1>6 DEF ConnInv, Quiet, TcpConnections, State
  <2> HIDE DEF e
  <2>7. /\ end_of_handler(e).state = c.state
        /\ end_of_handler(e).sock.closing = c.sock.closing
    BY <2>3, <2>5, EndOfHandlerKeeps
  <2>8. ShutdownInv(end_of_handler(e))
    BY <2>3, EndOfHandlerInv
  <2> QED BY <2>6, <2>7, <2>8, FollowsLoggedIn DEF e
<1> QED BY <1>5, <1>6

-----------------------------------------------------------------------------
\* The login timer's wait handler closes the connection, or concerns nothing
\* but the timer.
LEMMA LoginWaitFollows ==
  ASSUME NEW c, ConnInv(c), c.login.wait # "none", NEW result
  PROVE  Follows(c, login_wait_completed(c, result))
<1> DEFINE d == [c EXCEPT !.login.wait = "none"]
           e == CASE ~d.login.started -> d
                  [] d.login.started /\ result # "ok" -> handle_transport_error(d)
                  [] OTHER -> disconnect(d, "login_timeout")
           f == login_wait_completed(c, result)
<1>1. ShutdownInv(c) /\ ShutdownInv(d) /\ ShutdownInv(f)
  BY LoginWaitDone, LoginWaitInv DEF ConnInv
<1>2. f = [e EXCEPT !.login = maybe_signal_stopped(@)]
  BY DEF login_wait_completed
<1>3. d.state = c.state /\ d.hb = c.hb /\ d.sock = c.sock
  BY <1>1 DEF ShutdownInv, TcpConnections
<1> HIDE DEF d, f
<1>4. e \in {d, disconnect(d, "transport_error"), disconnect(d, "login_timeout")}
  BY DEF handle_transport_error
<1> HIDE DEF e
<1>5. ShutdownInv(e) /\ (e = d \/ e.state = "disconnected")
  BY <1>1, <1>4, DisconnectInv, DisconnectKeeps DEF Disconnect_reason
<1>6. f.state = e.state /\ f.hb = e.hb /\ f.sock = e.sock
  BY <1>2, <1>5 DEF ShutdownInv, TcpConnections
<1> QED BY <1>1, <1>3, <1>5, <1>6, FollowsClosed, FollowsSame DEF f

\* What the handlers of the heartbeat timer may do to a connection that is
\* logged in or closed: write to it.
Beats(c, d) == ShutdownInv(d) /\ d.state = c.state /\ d.sock.closing = c.sock.closing

\* Replacing the heartbeat timer is no more than that.
LEMMA BeatsTimer ==
  ASSUME NEW c, NEW d, Beats(c, d), Ticks(d), NEW t \in HeartbeatTimers, TimerInv(t)
  PROVE  Beats(c, [d EXCEPT !.hb = t])
<1>1. d \in TcpConnections /\ ShutdownInv([d EXCEPT !.hb = t])
  BY TicksReplaced DEF Ticks, ShutdownInv
<1>2. [d EXCEPT !.hb = t].state = d.state /\ [d EXCEPT !.hb = t].sock = d.sock
  BY <1>1 DEF TcpConnections
<1> QED BY <1>1, <1>2 DEF Beats

\* The heartbeat timer's wait handler closes the connection, or may write to it.
LEMMA HeartbeatWaitFollows ==
  ASSUME NEW c, ConnInv(c), c.hb.wait # "none", NEW result, NEW fails \in BOOLEAN
  PROVE  Follows(c, heartbeat_wait_completed(c, result, fails))
<1> DEFINE d == [c EXCEPT !.hb.wait = "none"]
           e == [d EXCEPT !.hb = count_silence(@)]
           s == send_heartbeat(e)
           f == [s EXCEPT !.hb = schedule(@, fails)]
           g == CASE ~d.hb.started -> d
                  [] d.hb.started /\ result # "ok" -> handle_transport_error(d)
                  [] d.hb.started /\ result = "ok" /\ receive_timed_out(d.hb)
                       -> disconnect(e, "heartbeat_timeout")
                  [] OTHER -> IF fails THEN handle_transport_error(f) ELSE f
           h == heartbeat_wait_completed(c, result, fails)
<1>0. ShutdownInv(heartbeat_wait_completed(c, result, fails)) /\ ShutdownInv(c)
  BY HeartbeatWaitInv DEF ConnInv
<1>1. h = [g EXCEPT !.hb = maybe_signal_stopped(@)] /\ ShutdownInv(h) /\ ShutdownInv(c)
  <2>1. h = [g EXCEPT !.hb = maybe_signal_stopped(@)]
    BY DEF heartbeat_wait_completed
  <2> HIDE DEF g
  <2> QED BY <1>0, <2>1
<1>2. c.state \in {"logged_in", "disconnected"}
  BY <1>1 DEF ConnInv, Quiet, ShutdownInv, StartInv, Fresh, TcpConnections, State
<1>3. Ticks(d) /\ Beats(c, d)
  <2>1. ShutdownInv(d)
    BY <1>1, HeartbeatWaitDone
  <2>2. /\ d.state = c.state /\ d.sock = c.sock
        /\ d.heartbeat_timer_stopped = c.heartbeat_timer_stopped
    BY <1>1 DEF ShutdownInv, TcpConnections
  <2>3. ~c.heartbeat_timer_stopped /\ c.sock.connect = "none"
    BY <1>1 DEF ShutdownInv, FlagsInv, StartInv, Rests, Fresh
  <2> QED BY <1>2, <2>1, <2>2, <2>3 DEF Ticks, Beats
<1> HIDE DEF d, h
<1>4. Ticks(e) /\ Beats(c, e) /\ e.hb.started = d.hb.started
  <2>1. d.hb \in HeartbeatTimers /\ TimerInv(d.hb)
    BY <1>3 DEF Ticks, ShutdownInv, TcpConnections
  <2>2. /\ count_silence(d.hb) \in HeartbeatTimers /\ TimerInv(count_silence(d.hb))
        /\ count_silence(d.hb).started = d.hb.started
    BY <2>1, CountSilenceInv
  <2> QED BY <1>3, <2>2, TicksReplaced, BeatsTimer
<1> HIDE DEF e
<1>5. Ticks(s) /\ Beats(c, s) /\ s.hb.started = d.hb.started
  <2>1. Ticks(s) /\ s.hb.started = d.hb.started
    BY <1>4, SendHeartbeatInv
  <2>2. e \in TcpConnections /\ ShutdownInv(e)
    BY <1>4 DEF Ticks, ShutdownInv
  <2>3. s.state = e.state /\ s.sock.closing = e.sock.closing
    BY <2>2, AsyncWriteKeeps DEF send_heartbeat, TcpConnections, PacketKind
  <2> QED BY <1>4, <2>1, <2>3 DEF Beats, Ticks
<1> HIDE DEF s
<1>6. d.hb.started => Beats(c, f)
  <2>1. s.hb \in HeartbeatTimers /\ TimerInv(s.hb)
    BY <1>5 DEF Ticks, ShutdownInv, TcpConnections
  <2>2. d.hb.started => schedule(s.hb, fails) \in HeartbeatTimers /\ TimerInv(schedule(s.hb, fails))
    BY <1>5, <2>1 DEF schedule, HeartbeatTimers, TimerInv, OpStatus
  <2> QED BY <1>5, <2>2, BeatsTimer
<1> HIDE DEF f
<1>7. \/ g = d \/ g = disconnect(d, "transport_error")
      \/ g = disconnect(e, "heartbeat_timeout")
      \/ d.hb.started /\ g \in {f, disconnect(f, "transport_error")}
  BY DEF handle_transport_error
<1> HIDE DEF g
<1>8. Beats(c, g) \/ (ShutdownInv(g) /\ g.state = "disconnected")
  BY <1>3, <1>4, <1>6, <1>7, DisconnectInv, DisconnectKeeps DEF Beats, Disconnect_reason
<1>9. h.state = g.state /\ h.sock = g.sock
  BY <1>1, <1>8 DEF Beats, ShutdownInv, TcpConnections
<1> QED BY <1>1, <1>2, <1>8, <1>9, FollowsClosed, FollowsLoggedIn DEF Beats, h

-----------------------------------------------------------------------------
\* A report changes nothing but what is posted and its flag.
LEMMA ReportFollows ==
  ASSUME NEW c, ConnInv(c)
  PROVE  /\ c.sock.posted =>
              Follows(c, [c EXCEPT !.sock.posted = FALSE, !.socket_closed = TRUE])
         /\ c.login.posted =>
              Follows(c, [c EXCEPT !.login.posted = FALSE, !.login_timer_stopped = TRUE])
         /\ c.hb.posted =>
              Follows(c, [c EXCEPT !.hb.posted = FALSE, !.heartbeat_timer_stopped = TRUE])
<1>1. ShutdownInv(c) /\ c \in TcpConnections
  BY DEF ConnInv, ShutdownInv
<1>2. ASSUME c.sock.posted
      PROVE  Follows(c, [c EXCEPT !.sock.posted = FALSE, !.socket_closed = TRUE])
  <2> DEFINE d == [c EXCEPT !.sock.posted = FALSE, !.socket_closed = TRUE]
  <2>1. ShutdownInv(d)
    BY <1>1, <1>2, SocketReport
  <2>2. /\ d.state = c.state /\ d.hb = c.hb /\ d.sock.closing = c.sock.closing
        /\ d.sock.write_packets = c.sock.write_packets /\ d.sock.write = c.sock.write
    BY <1>1 DEF TcpConnections, Sockets
  <2> HIDE DEF d
  <2> QED BY <2>1, <2>2, FollowsSame DEF d
<1>3. ASSUME c.login.posted
      PROVE  Follows(c, [c EXCEPT !.login.posted = FALSE, !.login_timer_stopped = TRUE])
  <2> DEFINE d == [c EXCEPT !.login.posted = FALSE, !.login_timer_stopped = TRUE]
  <2>1. ShutdownInv(d)
    BY <1>1, <1>3, LoginReport
  <2>2. d.state = c.state /\ d.hb = c.hb /\ d.sock = c.sock
    BY <1>1 DEF TcpConnections
  <2> HIDE DEF d
  <2> QED BY <2>1, <2>2, FollowsSame DEF d
<1>4. ASSUME c.hb.posted
      PROVE  Follows(c, [c EXCEPT !.hb.posted = FALSE, !.heartbeat_timer_stopped = TRUE])
  <2> DEFINE d == [c EXCEPT !.hb.posted = FALSE, !.heartbeat_timer_stopped = TRUE]
  <2>1. ShutdownInv(d)
    BY <1>1, <1>4, HeartbeatReport
  <2>2. d.state = c.state /\ d.sock = c.sock
    BY <1>1 DEF TcpConnections
  <2>3. c.state \in {"logged_in", "disconnected"}
    BY <1>1, <1>4 DEF ConnInv, Quiet, ShutdownInv, StartInv, Fresh, TcpConnections, State
  <2> HIDE DEF d
  <2> QED BY <2>1, <2>2, <2>3, FollowsLoggedIn DEF d
<1> QED BY <1>2, <1>3, <1>4

-----------------------------------------------------------------------------
\* The calls that write.

\* A message, whether or not it finds room.
LEMMA WriteDataKeeps ==
  ASSUME NEW c, ShutdownInv(c)
  PROVE  LET d == write_data(c)
         IN  /\ ShutdownInv(d) /\ d.state = c.state /\ d.sock.closing = c.sock.closing
             /\ Fresh(c.hb) => Fresh(d.hb)
<1> DEFINE b == [c EXCEPT !.sock = async_write(@, "other")]
           sent == c.hb.sent \/ async_write_error(c.sock) = "none"
           d == write_data(c)
<1>1. c \in TcpConnections /\ c.hb \in HeartbeatTimers
  BY DEF ShutdownInv, TcpConnections
<1>2. /\ ShutdownInv(b) /\ b.state = c.state /\ b.hb = c.hb
      /\ b.sock.closing = c.sock.closing
  BY AsyncWriteInv, AsyncWriteKeeps DEF PacketKind
<1>3. sent \in BOOLEAN
  OBVIOUS
<1>4. d = [b EXCEPT !.hb.sent = sent]
  BY <1>1 DEF write_data, TcpConnections
<1> HIDE DEF b, sent, d
<1>5. ShutdownInv(d)
  BY <1>2, <1>3, <1>4, SendCountInv
<1>6. b \in TcpConnections
  BY <1>2 DEF ShutdownInv
<1>7. d.state = b.state /\ d.sock = b.sock /\ d.hb = [c.hb EXCEPT !.sent = sent]
  BY <1>2, <1>4, <1>6 DEF TcpConnections
<1>8. Fresh(c.hb) => Fresh(d.hb)
  BY <1>1, <1>7 DEF Fresh, HeartbeatTimers
<1> QED BY <1>2, <1>5, <1>7, <1>8 DEF d

\* Writing to a connection that is logged in.
LEMMA WriteFollows ==
  ASSUME NEW c, ConnInv(c), c.state = "logged_in"
  PROVE  /\ Follows(c, write_data(c)) /\ Follows(c, write_debug(c))
         /\ Follows(c, [c EXCEPT !.sock = async_write(@, "other")])
<1>1. ShutdownInv(c)
  BY DEF ConnInv
<1>2. Follows(c, write_data(c))
  BY <1>1, WriteDataKeeps, FollowsLoggedIn
<1>3. Follows(c, [c EXCEPT !.sock = async_write(@, "other")])
  BY <1>1, AsyncWriteInv, AsyncWriteKeeps, FollowsLoggedIn DEF PacketKind
<1>4. write_debug(c) = [c EXCEPT !.sock = async_write(@, "other")]
  BY DEF write_debug, is_closing
<1> QED BY <1>2, <1>3, <1>4

-----------------------------------------------------------------------------
\* Logging in.

\* Starting the heartbeat timer, whether or not setting it fails.
LEMMA StartHeartbeatTimerKeeps ==
  ASSUME NEW c, ShutdownInv(c), Fresh(c.hb), c.sock.connect = "none",
         c.state = "logged_in", NEW fails \in BOOLEAN
  PROVE  LET d == start_heartbeat_timer(c, fails)
         IN  d.state = "disconnected" \/ (d.state = c.state /\ d.sock = c.sock)
<1> DEFINE t == heartbeat_timer_start(c.hb, fails)
           d == [c EXCEPT !.heartbeat_timer_stopped = FALSE, !.hb = heartbeat_timer_start(@, fails)]
<1>1. c \in TcpConnections
  BY DEF ShutdownInv
<1>2. d.state = c.state /\ d.sock = c.sock
  BY <1>1 DEF TcpConnections
<1>3. start_heartbeat_timer(c, fails) \in {d, disconnect(d, "transport_error")}
  BY DEF start_heartbeat_timer, handle_transport_error
<1>4. d.state # "disconnected"
  BY <1>2
<1> HIDE DEF d
<1>5. d = [c EXCEPT !.heartbeat_timer_stopped = FALSE, !.hb = t]
  BY <1>1 DEF d, TcpConnections
<1> HIDE DEF t
<1>6. DOMAIN d = DOMAIN c /\ "state" \in DOMAIN c
  BY <1>1, <1>5 DEF TcpConnections
<1>7. disconnect(d, "transport_error").state = "disconnected"
  BY <1>4, <1>6 DEF disconnect
<1> QED BY <1>2, <1>3, <1>7

\* The connection whose login was accepted, as its handler leaves it.
LEMMA LoginAcceptedKeeps ==
  ASSUME NEW c, ConnInv(c), c.state = "connected", NEW sends \in BOOLEAN,
         NEW fails \in BOOLEAN
  PROVE  LET d == read_next(write_login_response(login_accepted(c, sends, fails)))
         IN  ConnInv(d) /\ d.state \in {"logged_in", "disconnected"}
<1> DEFINE a == [c EXCEPT !.login = timer_stop(@), !.state = "logged_in"]
           b == IF sends THEN write_data(a) ELSE a
           l == start_heartbeat_timer(b, fails)
           w == write_login_response(l)
<1>1. ShutdownInv(c) /\ ~c.sock.closing
  BY DEF ConnInv, Quiet
<1>2. /\ ShutdownInv(a) /\ Fresh(a.hb) /\ a.state = "logged_in" /\ ~a.sock.closing
  BY <1>1, LeavesConnected
<1>3. l = login_accepted(c, sends, fails)
  BY DEF login_accepted
<1> HIDE DEF a
<1>4. ShutdownInv(b) /\ Fresh(b.hb) /\ b.state = "logged_in" /\ ~b.sock.closing
  BY <1>2, WriteDataKeeps
<1>5. b.sock.connect = "none"
  BY <1>4 DEF ShutdownInv, StartInv
<1> HIDE DEF b
<1>6. /\ ShutdownInv(l)
      /\ l.state = "disconnected" \/ (l.state = "logged_in" /\ ~l.sock.closing)
  BY <1>4, <1>5, StartHeartbeatTimerInv, StartHeartbeatTimerKeeps
<1> HIDE DEF l
<1>7. ShutdownInv(w) /\ w.state = l.state /\ w.sock.closing = l.sock.closing
  BY <1>6, AsyncWriteInv, AsyncWriteKeeps DEF write_login_response, PacketKind
<1> HIDE DEF w
<1>8. /\ ShutdownInv(read_next(w)) /\ read_next(w).state = w.state
      /\ read_next(w).sock.closing = w.sock.closing
  BY <1>7, ReadNextInv, ReadNextKeeps
<1> QED BY <1>3, <1>6, <1>7, <1>8 DEF ConnInv, Quiet, w

\* A rejection is the only packet in the queue, and under way.
LEMMA LoginRejectedFollows ==
  ASSUME NEW c, ConnInv(c), c.state = "connected", WriteLimit # 0
  PROVE  Follows(c, read_next(write_login_response(login_rejected(c))))
<1> DEFINE a == [c EXCEPT !.login = timer_stop(@), !.state = "disconnecting"]
           r == login_rejected(c)
           w == write_login_response(r)
<1>1. ShutdownInv(c) /\ c \in TcpConnections /\ ~c.sock.closing /\ c.sock.write_packets = <<>>
  BY DEF ConnInv, Quiet, ShutdownInv
<1>2. ShutdownInv(a) /\ Fresh(a.hb) /\ a.state = "disconnecting" /\ a.sock = c.sock
  BY <1>1, LeavesConnected
<1>3. r = [a EXCEPT !.reason = "access_denied"]
  BY <1>1 DEF login_rejected, prepare_graceful_disconnect, is_closing, TcpConnections
<1> HIDE DEF a, r
<1>4. a \in TcpConnections
  BY <1>2 DEF ShutdownInv
<1>5. /\ r \in TcpConnections /\ r.state = a.state /\ r.sock = a.sock /\ r.login = a.login
      /\ r.hb = a.hb /\ r.socket_closed = a.socket_closed
      /\ r.login_timer_stopped = a.login_timer_stopped
      /\ r.heartbeat_timer_stopped = a.heartbeat_timer_stopped
  BY <1>3, <1>4 DEF TcpConnections, Disconnect_reason
<1>6. ShutdownInv(r)
  BY <1>2, <1>5 DEF ShutdownInv, FlagsInv, StartInv
<1>7. /\ ShutdownInv(w) /\ w.state = "disconnecting" /\ Fresh(w.hb) /\ ~w.sock.closing
      /\ w.sock.write_packets = <<"login">> /\ w.sock.write = "pending"
  <2>1. "login" \in PacketKind
    BY DEF PacketKind
  <2>2. w = [r EXCEPT !.sock = async_write(@, "login")]
    BY DEF write_login_response
  <2> HIDE DEF w
  <2>3. ShutdownInv(w)
    BY <1>6, <2>1, <2>2, AsyncWriteInv
  <2>4. /\ r.state = "disconnecting" /\ Fresh(r.hb) /\ ~r.sock.closing
        /\ r.sock.write_packets = <<>>
    BY <1>1, <1>2, <1>5
  <2> QED BY <1>6, <2>1, <2>2, <2>3, <2>4, AsyncWriteKeeps
<1> HIDE DEF w
<1>8. ConnInv(w)
  BY <1>7 DEF ConnInv, Quiet
<1>9. Follows(c, w)
  BY <1>7, <1>8 DEF Follows
<1>10. ShutdownInv(read_next(w))
  BY <1>7, ReadNextInv
<1>11. Follows(w, read_next(w))
  BY <1>7, <1>8, <1>10, ReadNextKeeps, FollowsSame
<1> QED BY <1>7, <1>11 DEF Follows, w, r

\* A new connection, before and after its constructor.
LEMMA NoTcpInv ==
  ConnInv(NoTcp)
<1>1. NoTcp.sock \in Sockets
  BY DEF NoTcp, NewTcpConnection, NewSocket, Sockets, OpStatus
<1>2. NoTcp \in TcpConnections
  BY <1>1 DEF NoTcp, NewTcpConnection, TcpConnections, State, Disconnect_reason,
              NewLoginTimer, LoginTimers, NewHeartbeatTimer, HeartbeatTimers, OpStatus
<1> QED BY <1>2
        DEF NoTcp, NewTcpConnection, NewSocket, NewLoginTimer, NewHeartbeatTimer, ConnInv, Quiet,
            ShutdownInv, SocketInv, TimerInv, FlagsInv, StartInv, Rests, Fresh, is_idle

\* Without a banner nothing is written before the client logs in.
LEMMA ConstructInv ==
  ASSUME ~Banner, NEW fails \in BOOLEAN
  PROVE  ConnInv(construct(fails)) /\ construct(fails).state # "logged_in"
<1> DEFINE t == login_timer_start(NoTcp.login, fails)
           b == [NoTcp EXCEPT !.login_timer_stopped = FALSE, !.login = login_timer_start(@, fails)]
           c == start_login_timer(NoTcp, fails)
           d == [c EXCEPT !.sock = async_read(@)]
<1>1. construct(fails) = d
  BY DEF construct
<1>2. ShutdownInv(NoTcp) /\ NoTcp \in TcpConnections
  BY NoTcpInv DEF ConnInv, ShutdownInv
<1>3. ShutdownInv(c)
  BY <1>2, StartLoginTimerInv
     DEF NoTcp, NewTcpConnection, NewSocket, NewLoginTimer, Fresh
<1>4. b.state = "connected" /\ b.sock = NewSocket
  BY DEF NoTcp, NewTcpConnection
<1>5. c = b \/ c = disconnect(b, "transport_error")
  BY DEF start_login_timer, handle_transport_error
<1>6. disconnect(b, "transport_error").state = "disconnected"
  BY <1>4 DEF disconnect, NoTcp, NewTcpConnection
<1> HIDE DEF b, c
<1>7. ShutdownInv(d) /\ c \in TcpConnections /\ c.sock \in Sockets
  BY <1>3, AsyncReadInv DEF ShutdownInv, TcpConnections
<1>8. /\ d.state = c.state /\ d.sock.closing = c.sock.closing
      /\ d.sock.write_packets = c.sock.write_packets
  BY <1>7 DEF async_read, read_header, TcpConnections, Sockets
<1>9. ~NewSocket.closing /\ NewSocket.write_packets = <<>>
  BY DEF NewSocket
<1> HIDE DEF d
<1> QED BY <1>1, <1>4, <1>5, <1>6, <1>7, <1>8, <1>9 DEF ConnInv, Quiet

-----------------------------------------------------------------------------
\* Steps in which every connection follows from itself and the acceptor's and
\* the ports' pointers stay.
LEMMA FollowsInv ==
  ASSUME IndInv, tcp' = [c \in Conn |-> tcp'[c]], UNCHANGED <<live, port, connection, orphaned>>,
         \A c \in Conn : Follows(tcp[c], tcp'[c]),
         \A c \in Conn \ live : tcp'[c] = tcp[c]
  PROVE  IndInv'
<1>1. \A c \in Conn : ConnInv(tcp'[c]) /\ tcp'[c] \in TcpConnections
  BY DEF Follows, ConnInv, ShutdownInv
<1>2. tcp' \in [Conn -> TcpConnections]
  BY <1>1
<1>3. PortInv'
  BY DEF IndInv, PortInv, Follows
<1>4. OneSessionPerPort'
  BY DEF IndInv, OneSessionPerPort, Follows
<1> QED BY <1>1, <1>2, <1>3, <1>4 DEF IndInv, PortPointsToLive, NoOrphans

\* A step of one connection that concerns nothing else.
LEMMA BecomesInv ==
  ASSUME IndInv, NEW c \in live, NEW new, Becomes(c, new), Follows(tcp[c], new)
  PROVE  IndInv'
<1>1. /\ c \in Conn /\ tcp' = [tcp EXCEPT ![c] = new]
      /\ UNCHANGED <<live, port, connection, orphaned>>
  BY DEF Becomes, IndInv, portVars
<1>2. \A d \in Conn : Follows(tcp[d], tcp'[d])
  BY <1>1 DEF IndInv, Follows
<1> QED BY <1>1, <1>2, FollowsInv DEF IndInv

\* A step that changes nothing the invariant is about.
LEMMA UnchangedInv ==
  ASSUME IndInv, UNCHANGED <<live, tcp, port, connection, orphaned>>
  PROVE  IndInv'
BY DEF IndInv, PortInv, PortPointsToLive, OneSessionPerPort, NoOrphans

\* The acceptor and the posted calls.
LEMMA ServerStepInv ==
  ASSUME IndInv, ~Banner,
         \/ Post \/ RunNothing \/ RunStart \/ RunStop \/ RunEndSession
         \/ AcceptFailed \/ Accepted
  PROVE  IndInv'
<1>1. CASE Post \/ RunNothing \/ RunStart \/ AcceptFailed
  BY <1>1, UnchangedInv DEF Post, RunNothing, RunStart, AcceptFailed, portVars
<1>2. CASE RunStop
  <2>1. tcp' = [c \in Conn |-> IF c \in live THEN disconnect(tcp[c], "user_initiated")
                                             ELSE tcp[c]]
    BY <1>2 DEF RunStop
  <2>2. \A c \in Conn : /\ ShutdownInv(disconnect(tcp[c], "user_initiated"))
                        /\ disconnect(tcp[c], "user_initiated").state = "disconnected"
    BY DisconnectInv, DisconnectKeeps DEF IndInv, ConnInv, Disconnect_reason
  <2>3. \A c \in Conn : Follows(tcp[c], tcp'[c])
    BY <2>1, <2>2, FollowsClosed DEF IndInv, Follows
  <2> QED BY <1>2, <2>1, <2>3, FollowsInv DEF RunStop, portVars
<1>3. CASE RunEndSession
  <2> DEFINE Told(c) == /\ tcp[c].state = "logged_in"
                        /\ \E p \in Ports : SendsTo(p, c) /\ ~has_session_ended[p]
             End(c) == [tcp[c] EXCEPT !.sock = async_write(@, "other")]
  <2>1. tcp' = [c \in Conn |-> IF Told(c) THEN End(c) ELSE tcp[c]]
    BY <1>3 DEF RunEndSession
  <2>2. \A c \in Conn : Told(c) => Follows(tcp[c], End(c))
    BY WriteFollows DEF IndInv
  <2>3. \A c \in Conn : Told(c) => c \in live
    BY ServerAssumption DEF SendsTo, IndInv, PortPointsToLive
  <2> HIDE DEF Told, End
  <2>4. \A c \in Conn : Follows(tcp[c], tcp'[c])
    BY <2>1, <2>2 DEF IndInv, Follows
  <2> QED BY <1>3, <2>1, <2>3, <2>4, FollowsInv DEF RunEndSession
<1>4. CASE Accepted
  <2> PICK c \in Conn \ live, fails \in TimerFaults :
        live' = live \cup {c} /\ tcp' = [tcp EXCEPT ![c] = construct(fails)]
    BY <1>4 DEF Accepted
  <2>1. ConnInv(construct(fails)) /\ construct(fails).state # "logged_in"
    BY ServerAssumption, ConstructInv
  <2>2. UNCHANGED <<port, connection, orphaned>>
    BY <1>4 DEF Accepted, portVars
  <2>3. /\ tcp' \in [Conn -> TcpConnections] /\ live' \subseteq Conn
        /\ \A d \in Conn : ConnInv(tcp'[d])
    BY <2>1 DEF IndInv, ConnInv, ShutdownInv
  <2>4. PortInv'
    BY <2>2, <2>3 DEF IndInv, PortInv
  <2>5. PortPointsToLive' /\ OneSessionPerPort'
    BY <2>1, <2>2 DEF IndInv, PortPointsToLive, OneSessionPerPort
  <2> QED BY <2>2, <2>3, <2>4, <2>5 DEF IndInv, NoOrphans
<1> QED BY <1>1, <1>2, <1>3, <1>4

\* A packet was read; no login response is written.
LEMMA ReadStepInv ==
  ASSUME IndInv, NEW c \in live,
         \/ ReadFailed(c) \/ HeaderReceived(c) \/ HeaderMalformed(c) \/ PacketIgnored(c)
         \/ PacketInvalid(c) \/ DebugReceived(c) \/ ClientAlive(c) \/ LogoutRequest(c)
  PROVE  IndInv'
<1>0. ConnInv(tcp[c]) /\ tcp[c].sock.read # "none"
  BY ResultOwed
     DEF IndInv, ReadFailed, HeaderReceived, HeaderMalformed, PacketIgnored, PacketInvalid,
         DebugReceived, ClientAlive, LogoutRequest, PacketRead
<1>1. Follows(tcp[c], Reader(c)) /\ Reader(c).state = tcp[c].state /\ ShutdownInv(Reader(c))
  <2>1. tcp[c] \in TcpConnections
    BY <1>0 DEF ConnInv, ShutdownInv
  <2>2. Follows(tcp[c], Reader(c)) /\ Reader(c).state = tcp[c].state
    BY <1>0, <2>1, ReadDoneKeeps DEF Reader, TcpConnections
  <2> QED BY <2>2 DEF Follows, ConnInv
<1>2. CASE ReadFailed(c)
  BY <1>0, <1>2, ReadFailedFollows, BecomesInv DEF ReadFailed
<1>3. CASE HeaderReceived(c)
  BY <1>0, <1>3, HeaderReceivedFollows, BecomesInv DEF HeaderReceived
<1>4. CASE HeaderMalformed(c)
  BY <1>0, <1>4, ReadFailedFollows, BecomesInv DEF HeaderMalformed
<1>5. CASE PacketIgnored(c)
  BY <1>0, <1>1, <1>5, PacketReadFollows, BecomesInv DEF PacketIgnored
<1>6. CASE PacketInvalid(c)
  BY <1>1, <1>6, PacketClosesFollows, BecomesInv
     DEF PacketInvalid, handle_protocol_violation, Disconnect_reason
<1>7. CASE DebugReceived(c)
  BY <1>0, <1>1, <1>7, PacketReadFollows, BecomesInv DEF DebugReceived
<1>8. CASE ClientAlive(c)
  <2> DEFINE r == Reader(c)
             d == [r EXCEPT !.hb.received = TRUE]
  <2>1. ShutdownInv(d) /\ r \in TcpConnections
    BY <1>1, ReceiveCountInv DEF ShutdownInv
  <2>2. d.state = r.state /\ d.sock = r.sock
    BY <2>1 DEF TcpConnections
  <2>3. r.state = "logged_in" /\ ConnInv(r)
    BY <1>1, <1>8 DEF ClientAlive, Follows
  <2>4. Becomes(c, read_next(d))
    BY <1>8 DEF ClientAlive
  <2> HIDE DEF r, d
  <2>5. Follows(r, d)
    BY <2>1, <2>2, <2>3, FollowsLoggedIn
  <2>6. Follows(tcp[c], d) /\ d.state = tcp[c].state
    BY <1>1, <2>2, <2>3, <2>5 DEF Follows, r
  <2> QED BY <1>0, <2>4, <2>6, PacketReadFollows, BecomesInv
<1>9. CASE LogoutRequest(c)
  BY <1>1, <1>9, PacketClosesFollows, BecomesInv DEF LogoutRequest, Disconnect_reason
<1> QED BY <1>2, <1>3, <1>4, <1>5, <1>6, <1>7, <1>8, <1>9

\* A login is accepted: the port's pointers change sides together.
LEMMA SupersedeInv ==
  ASSUME IndInv, NEW c \in live, tcp[c].state = "connected", NEW p \in Ports,
         NEW new, ConnInv(new), new.state \in {"logged_in", "disconnected"},
         tcp' = [supersede(p) EXCEPT ![c] = new],
         connection' = [connection EXCEPT ![p] = c], port' = [port EXCEPT ![c] = p],
         UNCHANGED <<live, orphaned>>
  PROVE  IndInv'
<1> DEFINE old(d) == disconnect(tcp[d], "superseded")
<1>1. /\ c \in Conn /\ live \subseteq Conn
      /\ port \in [Conn -> Ports \cup {NoPort}] /\ connection \in [Ports -> Conn \cup {NoConn}]
      /\ \A d \in Conn : ConnInv(tcp[d])
  BY DEF IndInv
<1>2. tcp' = [d \in Conn |-> IF d = c THEN new
                             ELSE IF connection[p] = d THEN old(d) ELSE tcp[d]]
  BY DEF supersede
<1>3. \A d \in Conn : ConnInv(old(d)) /\ old(d).state = "disconnected"
  <2>1. \A d \in Conn : ShutdownInv(old(d)) /\ old(d).state = "disconnected"
    BY <1>1, DisconnectInv, DisconnectKeeps DEF ConnInv, Disconnect_reason
  <2> HIDE DEF old
  <2> QED BY <2>1 DEF ConnInv, Quiet
<1> HIDE DEF old
<1>4. \A d \in Conn : ConnInv(tcp'[d]) /\ tcp'[d] \in TcpConnections
  <2>1. \A d \in Conn : ConnInv(tcp'[d])
    BY <1>1, <1>2, <1>3
  <2> QED BY <2>1 DEF ConnInv, ShutdownInv
<1>5. tcp' \in [Conn -> TcpConnections]
  BY <1>2, <1>4
<1>6. /\ port' \in [Conn -> Ports \cup {NoPort}]
      /\ connection' \in [Ports -> Conn \cup {NoConn}]
  BY <1>1
<1>7. \A d \in Conn : port'[d] = IF d = c THEN p ELSE port[d]
  BY <1>1
<1>8. \A q \in Ports : connection'[q] = IF q = p THEN c ELSE connection[q]
  BY <1>1
<1>9. port[c] = NoPort
  BY <1>1 DEF IndInv, PortInv
<1>10. \A q \in Ports : connection[q] # NoConn => connection[q] \in live /\ port[connection[q]] = q
  BY DEF IndInv, PortPointsToLive
<1>11. PortInv'
  <2>1. \A d \in Conn \ live : tcp'[d] = NoTcp /\ port'[d] = NoPort
    <3> SUFFICES ASSUME NEW d \in Conn \ live
                 PROVE  tcp'[d] = NoTcp /\ port'[d] = NoPort
      OBVIOUS
    <3>1. d # c /\ connection[p] # d
      BY <1>10, ServerAssumption
    <3>2. tcp'[d] = tcp[d] /\ port'[d] = port[d]
      BY <1>2, <1>7, <3>1
    <3>3. tcp[d] = NoTcp /\ port[d] = NoPort
      BY DEF IndInv, PortInv
    <3> QED BY <3>2, <3>3
  <2>2. \A d \in live : port'[d] # NoPort => tcp'[d].state \in {"logged_in", "disconnected"}
    BY <1>1, <1>2, <1>3, <1>7 DEF IndInv, PortInv
  <2> QED BY <2>1, <2>2 DEF PortInv
<1>12. PortPointsToLive'
  BY <1>1, <1>7, <1>8, <1>9, <1>10, ServerAssumption DEF PortPointsToLive
<1>13. OneSessionPerPort'
  <2> SUFFICES ASSUME NEW d \in live, tcp'[d].state = "logged_in"
               PROVE  port'[d] \in Ports /\ connection'[port'[d]] = d
    BY DEF OneSessionPerPort
  <2>1. CASE d = c
    BY <1>1, <1>7, <1>8, <2>1
  <2>2. CASE d # c
    <3>1. connection[p] # d /\ tcp[d].state = "logged_in"
      BY <1>1, <1>2, <1>3, <2>2
    <3>2. port[d] \in Ports /\ connection[port[d]] = d
      BY <3>1 DEF IndInv, OneSessionPerPort
    <3> QED BY <1>1, <1>7, <1>8, <2>2, <3>1, <3>2
  <2> QED BY <2>1, <2>2
<1> QED BY <1>1, <1>4, <1>5, <1>6, <1>11, <1>12, <1>13 DEF IndInv, NoOrphans

\* A login is answered.
LEMMA LoginStepInv ==
  ASSUME IndInv, WriteLimit # 0, NEW c \in live, LoginAccepted(c) \/ LoginRejected(c)
  PROVE  IndInv'
<1>0. /\ ConnInv(tcp[c]) /\ tcp[c].sock.read # "none" /\ tcp[c].state = "connected"
      /\ c \in Conn
  BY ResultOwed DEF IndInv, LoginAccepted, LoginRejected, LoginRequest, PacketRead
<1>1. ConnInv(Reader(c)) /\ Reader(c).state = "connected"
  <2>1. tcp[c] \in TcpConnections
    BY <1>0 DEF ConnInv, ShutdownInv
  <2> QED BY <1>0, <2>1, ReadDoneKeeps DEF Reader, Follows, TcpConnections
<1>2. CASE LoginRejected(c)
  <2> DEFINE d == read_next(write_login_response(login_rejected(Reader(c))))
  <2>1. Follows(Reader(c), d)
    BY <1>1, LoginRejectedFollows
  <2>2. Becomes(c, d)
    BY <1>2 DEF LoginRejected
  <2> HIDE DEF d
  <2>3. Follows(tcp[c], d)
    BY <1>0, <1>1, <2>1 DEF Follows
  <2> QED BY <2>2, <2>3, BecomesInv
<1>3. CASE LoginAccepted(c)
  <2> PICK p \in Ports : \E sends \in Sends(p), fails \in TimerFaults :
        /\ tcp' = [supersede(p) EXCEPT ![c] =
             read_next(write_login_response(login_accepted(Reader(c), sends, fails)))]
        /\ connection' = [connection EXCEPT ![p] = c]
        /\ port' = [port EXCEPT ![c] = p]
    BY <1>3 DEF LoginAccepted
  <2> PICK sends \in Sends(p), fails \in TimerFaults :
        /\ tcp' = [supersede(p) EXCEPT ![c] =
             read_next(write_login_response(login_accepted(Reader(c), sends, fails)))]
        /\ connection' = [connection EXCEPT ![p] = c]
        /\ port' = [port EXCEPT ![c] = p]
    OBVIOUS
  <2> DEFINE new == read_next(write_login_response(login_accepted(Reader(c), sends, fails)))
  <2>1. sends \in BOOLEAN /\ fails \in BOOLEAN
    BY ServerAssumption DEF Sends
  <2>2. ConnInv(new) /\ new.state \in {"logged_in", "disconnected"}
    BY <1>1, <2>1, LoginAcceptedKeeps
  <2>3. UNCHANGED <<live, orphaned>>
    BY <1>3 DEF LoginAccepted
  <2>4. tcp' = [supersede(p) EXCEPT ![c] = new]
    OBVIOUS
  <2> HIDE DEF new
  <2> QED BY <1>0, <2>2, <2>3, <2>4, SupersedeInv
<1> QED BY <1>2, <1>3

\* The application sends, and the handlers of the write and of the timers.
LEMMA WriteStepInv ==
  ASSUME IndInv, NEW c \in live,
         \/ SendMessage(c) \/ SendDebug(c) \/ WriteFailed(c) \/ PacketSent(c)
         \/ LoginWait(c) \/ HeartbeatWait(c)
  PROVE  IndInv'
<1>0. ConnInv(tcp[c]) /\ c \in Conn
  BY DEF IndInv
<1>1. CASE SendMessage(c)
  BY <1>0, <1>1, WriteFollows, BecomesInv DEF SendMessage
<1>2. CASE SendDebug(c)
  <2>1. port[c] # NoPort
    BY <1>0, <1>2, ServerAssumption DEF SendDebug, SendsTo, IndInv, PortPointsToLive
  <2>2. tcp[c].state = "logged_in"
    BY <1>2, <2>1 DEF SendDebug, is_closing, IndInv, PortInv
  <2> QED BY <1>0, <1>2, <2>2, WriteFollows, BecomesInv DEF SendDebug
<1>3. CASE WriteFailed(c)
  BY <1>0, <1>3, WriteFailedFollows, BecomesInv DEF WriteFailed
<1>4. CASE PacketSent(c)
  BY <1>0, <1>4, ResultOwed, PacketSentFollows, BecomesInv DEF PacketSent
<1>5. CASE LoginWait(c)
  BY <1>0, <1>5, ResultOwed, LoginWaitFollows, BecomesInv DEF LoginWait
<1>6. CASE HeartbeatWait(c)
  <2> PICK result \in Results(tcp[c].hb.wait), fails \in TimerFaults :
        Becomes(c, heartbeat_wait_completed(tcp[c], result, fails))
    BY <1>6 DEF HeartbeatWait
  <2>1. fails \in BOOLEAN /\ tcp[c].hb.wait # "none"
    BY ServerAssumption, ResultOwed
  <2> QED BY <1>0, <2>1, HeartbeatWaitFollows, BecomesInv
<1> QED BY <1>1, <1>2, <1>3, <1>4, <1>5, <1>6

\* A connection is dropped: it owes nothing, and only its own port forgets it.
LEMMA OnClosedInv ==
  ASSUME IndInv, NEW c \in live, NEW new, ShutdownInv(new), is_done(new), on_closed(c, new)
  PROVE  IndInv'
<1>1. /\ connection' = [p \in Ports |-> port_on_closed(p, c)]
      /\ live' = live \ {c} /\ tcp' = [tcp EXCEPT ![c] = NoTcp]
      /\ port' = [port EXCEPT ![c] = NoPort]
  BY DEF on_closed
<1>2. ~orphaned'
  BY DoneOwesNothing DEF on_closed, IndInv, NoOrphans
<1>3. c \in Conn /\ \A d \in Conn : ConnInv(tcp'[d]) /\ tcp'[d] \in TcpConnections
  BY <1>1, NoTcpInv DEF IndInv, ConnInv, ShutdownInv
<1>4. \A p \in Ports : connection'[p] = IF p = port[c] /\ connection[p] = c
                                        THEN NoConn ELSE connection[p]
  BY <1>1 DEF port_on_closed
<1>5. /\ tcp' \in [Conn -> TcpConnections] /\ live' \subseteq Conn
      /\ port' \in [Conn -> Ports \cup {NoPort}]
      /\ connection' \in [Ports -> Conn \cup {NoConn}]
  BY <1>1, <1>3, <1>4 DEF IndInv
<1>6. PortInv'
  BY <1>1, <1>3 DEF IndInv, PortInv
<1>7. PortPointsToLive'
  BY <1>1, <1>3, <1>4, <1>5 DEF IndInv, PortPointsToLive
<1>8. OneSessionPerPort'
  BY <1>1, <1>3, <1>4 DEF IndInv, OneSessionPerPort
<1> QED BY <1>2, <1>3, <1>5, <1>6, <1>7, <1>8 DEF IndInv, NoOrphans

\* The three reports, of which the last drops the connection.
LEMMA ReportStepInv ==
  ASSUME IndInv, NEW c \in live,
         SocketClosed(c) \/ LoginTimerStopped(c) \/ HeartbeatTimerStopped(c)
  PROVE  IndInv'
<1>0. ConnInv(tcp[c])
  BY DEF IndInv
<1>1. ASSUME NEW new, Follows(tcp[c], new), Report(c, new)
      PROVE  IndInv'
  <2>1. CASE is_done(new)
    BY <1>1, <2>1, OnClosedInv DEF Report, Follows, ConnInv
  <2>2. CASE ~is_done(new)
    <3>1. Becomes(c, new)
      BY <1>1, <2>2 DEF Report, Becomes, portVars
    <3> QED BY <1>1, <3>1, BecomesInv
  <2> QED BY <2>1, <2>2
<1> QED BY <1>0, <1>1, ReportFollows DEF SocketClosed, LoginTimerStopped, HeartbeatTimerStopped

-----------------------------------------------------------------------------
\* The invariant holds initially.
LEMMA InitInv ==
  Init => IndInv
<1> SUFFICES ASSUME Init PROVE IndInv
  OBVIOUS
<1>1. \A c \in Conn : ConnInv(tcp[c]) /\ tcp[c] = NoTcp
  BY NoTcpInv DEF Init
<1>2. tcp \in [Conn -> TcpConnections]
  BY NoTcpInv DEF Init, ConnInv, ShutdownInv
<1> QED BY <1>1, <1>2
        DEF Init, IndInv, PortInv, PortPointsToLive, OneSessionPerPort, NoOrphans

\* Every step preserves it.
LEMMA NextInv ==
  ASSUME IndInv, ~Banner, WriteLimit # 0, [Next]_vars
  PROVE  IndInv'
<1>1. CASE UNCHANGED vars
  BY <1>1, UnchangedInv DEF vars, portVars
<1>2. CASE Next
  BY <1>2, ServerStepInv, ReadStepInv, LoginStepInv, WriteStepInv, ReportStepInv
     DEF Next, Handler
<1> QED BY <1>1, <1>2

\* No Tcp_connection is destroyed by Acceptor::on_closed() while a handler that
\* captured a pointer to it is still to be invoked.
THEOREM ServerOrphanFree ==
  ASSUME ~Banner, WriteLimit # 0
  PROVE  Spec => []NoOrphans
<1>1. IndInv => NoOrphans
  BY DEF IndInv
<1> QED BY <1>1, InitInv, NextInv, PTL DEF Spec

\* Port::connection_ never dangles, however logins, supersessions and the late
\* ends of connections follow each other.
THEOREM PortsPointToLive ==
  ASSUME ~Banner, WriteLimit # 0
  PROVE  Spec => []PortPointsToLive
<1>1. IndInv => PortPointsToLive
  BY DEF IndInv
<1> QED BY <1>1, InitInv, NextInv, PTL DEF Spec

\* Two connections are never logged in to one port: Port::on_login_request()
\* closes the one before, and the end of that one leaves the new one attached.
THEOREM OneSession ==
  ASSUME ~Banner, WriteLimit # 0
  PROVE  Spec => []OneSessionPerPort
<1>1. IndInv => OneSessionPerPort
  BY DEF IndInv
<1> QED BY <1>1, InitInv, NextInv, PTL DEF Spec

\* The only write that can end a rejected connection is the one of its
\* rejection, and it is under way: the code closes on any write's success.
THEOREM RejectionUnderWay ==
  ASSUME ~Banner, WriteLimit # 0
  PROVE  Spec => []RejectIsWaitedFor
<1>1. IndInv => RejectIsWaitedFor
  BY DEF IndInv, ConnInv, Quiet, RejectIsWaitedFor
<1> QED BY <1>1, InitInv, NextInv, PTL DEF Spec

-----------------------------------------------------------------------------
\* The listening socket and the accept operations.

\* The acceptor has its type.
AcceptorInv == acceptor \in [open : BOOLEAN, accepts : Seq(OpStatus)]

\* Removing one element of a sequence leaves the others.
LEMMA RemoveAtKeeps ==
  ASSUME NEW S, NEW q \in Seq(S), NEW k \in 1..Len(q)
  PROVE  /\ RemoveAt(q, k) \in Seq(S)
         /\ \A j \in 1..Len(q) : j # k =>
              \E i \in 1..Len(RemoveAt(q, k)) : RemoveAt(q, k)[i] = q[j]
<1> DEFINE a == SubSeq(q, 1, k - 1)
           b == SubSeq(q, k + 1, Len(q))
<1>1. RemoveAt(q, k) = a \o b
  BY DEF RemoveAt
<1>2. /\ a \in Seq(S) /\ Len(a) = k - 1 /\ \A i \in 1..k - 1 : a[i] = q[i]
  OBVIOUS
<1>3. /\ b \in Seq(S) /\ Len(b) = Len(q) - k /\ \A i \in 1..Len(q) - k : b[i] = q[k + i]
  OBVIOUS
<1> HIDE DEF a, b
<1>4. /\ a \o b \in Seq(S) /\ Len(a \o b) = Len(q) - 1
      /\ \A i \in 1..Len(q) - 1 : (a \o b)[i] = IF i < k THEN a[i] ELSE b[i - (k - 1)]
  <2>1. a \in Seq(S) /\ b \in Seq(S)
    BY <1>2, <1>3
  <2>2. /\ a \o b \in Seq(S) /\ Len(a \o b) = Len(a) + Len(b)
        /\ \A i \in 1..Len(a) + Len(b) :
             (a \o b)[i] = IF i <= Len(a) THEN a[i] ELSE b[i - Len(a)]
    BY <2>1, ConcatProperties
  <2>4. Len(a) + Len(b) = Len(q) - 1 /\ Len(a) = k - 1
    BY <1>2, <1>3
  <2>5. \A i \in Int : i <= k - 1 <=> i < k
    OBVIOUS
  <2>6. k \in Int
    OBVIOUS
  <2> QED BY <2>2, <2>4, <2>5, <2>6
<1>5. ASSUME NEW j \in 1..Len(q), j # k
      PROVE  \E i \in 1..Len(a \o b) : (a \o b)[i] = q[j]
  <2>1. CASE j < k
    <3>1. j \in 1..Len(a \o b) /\ (a \o b)[j] = q[j]
      BY <1>2, <1>4, <2>1
    <3> QED BY <3>1
  <2>2. CASE j > k
    <3>1. j - 1 \in 1..Len(a \o b) /\ (a \o b)[j - 1] = b[j - k] /\ b[j - k] = q[j]
      <4>1. /\ j - 1 \in 1..Len(q) - 1 /\ ~(j - 1 < k) /\ j - 1 - (k - 1) = j - k
            /\ j - k \in 1..Len(q) - k /\ k + (j - k) = j
        BY <2>2
      <4> QED BY <1>3, <1>4, <4>1
    <3> QED BY <3>1
  <2> QED BY <1>5, <2>1, <2>2
<1> QED BY <1>1, <1>4, <1>5

\* Accepting again on an open listening socket.
LEMMA AcceptAgain ==
  ASSUME NEW a \in [open : BOOLEAN, accepts : Seq(OpStatus)]
  PROVE  LET b == async_accept(a)
         IN  /\ b \in [open : BOOLEAN, accepts : Seq(OpStatus)] /\ b.open = a.open
             /\ a.open => \E i \in DOMAIN b.accepts : b.accepts[i] = "pending"
             /\ \A i \in DOMAIN a.accepts : i \in DOMAIN b.accepts /\ b.accepts[i] = a.accepts[i]
<1> DEFINE op == IF a.open THEN "pending" ELSE "broken"
           q == Append(a.accepts, op)
<1>1. op \in OpStatus
  BY DEF OpStatus
<1>2. /\ q \in Seq(OpStatus) /\ Len(q) = Len(a.accepts) + 1 /\ q[Len(a.accepts) + 1] = op
      /\ \A i \in 1..Len(a.accepts) : q[i] = a.accepts[i]
  BY <1>1
<1>3. async_accept(a) = [a EXCEPT !.accepts = q]
  BY DEF async_accept
<1> HIDE DEF q
<1>4. /\ async_accept(a) \in [open : BOOLEAN, accepts : Seq(OpStatus)]
      /\ async_accept(a).open = a.open /\ async_accept(a).accepts = q
  BY <1>2, <1>3
<1>5. Len(a.accepts) + 1 \in DOMAIN q /\ \A i \in DOMAIN a.accepts : i \in DOMAIN q /\ q[i] = a.accepts[i]
  BY <1>2
<1> QED BY <1>2, <1>4, <1>5

\* The acceptor while the handler of one of its operations runs.
LEMMA AcceptDone ==
  ASSUME AcceptorInv, NEW k \in DOMAIN acceptor.accepts
  PROVE  /\ accept_done(k) \in [open : BOOLEAN, accepts : Seq(OpStatus)]
         /\ accept_done(k).open = acceptor.open
         /\ \A j \in DOMAIN acceptor.accepts : j # k =>
              \E i \in DOMAIN accept_done(k).accepts :
                accept_done(k).accepts[i] = acceptor.accepts[j]
<1> DEFINE q == acceptor.accepts
<1>1. q \in Seq(OpStatus) /\ k \in 1..Len(q)
  BY DEF AcceptorInv
<1>2. accept_done(k) = [acceptor EXCEPT !.accepts = RemoveAt(q, k)]
  BY DEF accept_done
<1>3. /\ RemoveAt(q, k) \in Seq(OpStatus)
      /\ \A j \in 1..Len(q) : j # k =>
           \E i \in 1..Len(RemoveAt(q, k)) : RemoveAt(q, k)[i] = q[j]
  BY <1>1, RemoveAtKeeps
<1>4. accept_done(k).accepts = RemoveAt(q, k) /\ accept_done(k).open = acceptor.open
  BY <1>2 DEF AcceptorInv
<1>5. DOMAIN RemoveAt(q, k) = 1..Len(RemoveAt(q, k)) /\ DOMAIN q = 1..Len(q)
  BY <1>1, <1>3
<1> QED BY <1>2, <1>3, <1>4, <1>5 DEF AcceptorInv

\* What every step makes of the acceptor.
LEMMA AcceptorStep ==
  ASSUME AcceptorInv, [Next]_vars
  PROVE  AcceptorInv' /\ (Accepting /\ acceptor'.open => Accepting')
<1>1. CASE AcceptFailed
  <2> PICK k \in DOMAIN acceptor.accepts : \E result \in Results(acceptor.accepts[k]) \ {"ok"} :
        acceptor' = IF result = "aborted" THEN accept_done(k) ELSE accept_again(accept_done(k))
    BY <1>1 DEF AcceptFailed
  <2> PICK result \in Results(acceptor.accepts[k]) \ {"ok"} :
        acceptor' = IF result = "aborted" THEN accept_done(k) ELSE accept_again(accept_done(k))
    OBVIOUS
  <2>1. CASE result = "aborted"
    <3>1. acceptor.accepts[k] # "pending"
      BY <2>1 DEF Results
    <3>2. acceptor' = accept_done(k)
      BY <2>1
    <3> QED BY <3>1, <3>2, AcceptDone DEF AcceptorInv, Accepting
  <2>2. CASE result # "aborted"
    <3> DEFINE a == accept_done(k)
    <3>1. acceptor' = async_accept(a)
      BY <2>2 DEF accept_again
    <3>2. a \in [open : BOOLEAN, accepts : Seq(OpStatus)]
      BY AcceptDone
    <3> HIDE DEF a
    <3> QED BY <3>1, <3>2, AcceptAgain, SMTT(30) DEF AcceptorInv, Accepting
  <2> QED BY <2>1, <2>2
<1>2. CASE Accepted
  <2> PICK k \in DOMAIN acceptor.accepts : acceptor' = async_accept(accept_done(k))
    BY <1>2 DEF Accepted, accept_again
  <2> QED BY AcceptDone, AcceptAgain DEF AcceptorInv, Accepting
<1>3. CASE RunStart
  <2>1. ASSUME NEW open \in BOOLEAN
        PROVE  /\ [acceptor EXCEPT !.open = open] \in [open : BOOLEAN, accepts : Seq(OpStatus)]
               /\ [acceptor EXCEPT !.open = open].accepts = acceptor.accepts
    BY DEF AcceptorInv
  <2>2. CASE acceptor' = async_accept([acceptor EXCEPT !.open = TRUE])
    BY <2>1, <2>2, AcceptAgain DEF AcceptorInv, Accepting
  <2>3. CASE \E open \in BOOLEAN : acceptor' = [acceptor EXCEPT !.open = open]
    BY <2>1, <2>3 DEF AcceptorInv, Accepting
  <2> QED BY <1>3, <2>2, <2>3 DEF RunStart
<1>4. CASE RunStop
  <2> DEFINE q == [k \in DOMAIN acceptor.accepts |-> cancel(acceptor.accepts[k])]
  <2>1. acceptor' = [open |-> FALSE, accepts |-> q]
    BY <1>4 DEF RunStop, close_acceptor
  <2>2. \A k \in DOMAIN acceptor.accepts : cancel(acceptor.accepts[k]) \in OpStatus
    BY CancelType DEF AcceptorInv
  <2>3. q \in Seq(OpStatus)
    BY <2>2 DEF AcceptorInv
  <2> HIDE DEF q
  <2> QED BY <2>1, <2>3 DEF AcceptorInv
<1>5. ASSUME UNCHANGED acceptor
      PROVE  AcceptorInv' /\ (Accepting => Accepting')
  BY <1>5 DEF AcceptorInv, Accepting
<1>6. CASE Post \/ RunNothing \/ RunEndSession \/ UNCHANGED vars
  BY <1>5, <1>6 DEF Post, RunNothing, RunEndSession, vars
<1>7. ASSUME NEW c \in live, Handler(c) \/ SendMessage(c) \/ SendDebug(c)
      PROVE  UNCHANGED acceptor
  <2>1. \A new : Becomes(c, new) \/ Report(c, new) => UNCHANGED acceptor
    BY DEF Becomes, Report, serverVars
  <2> QED BY <1>7, <2>1
          DEF Handler, SendMessage, SendDebug, ReadFailed, HeaderReceived, HeaderMalformed,
              PacketIgnored, PacketInvalid, DebugReceived, ClientAlive, LogoutRequest,
              LoginAccepted, LoginRejected, WriteFailed, PacketSent, LoginWait, HeartbeatWait,
              SocketClosed, LoginTimerStopped, HeartbeatTimerStopped, serverVars
<1> QED BY <1>1, <1>2, <1>3, <1>4, <1>5, <1>6, <1>7 DEF Next

\* The acceptor has its type initially.
LEMMA InitAcceptor ==
  Init => AcceptorInv
BY DEF Init, AcceptorInv

\* A server that waits for a client on its listening socket goes on doing so
\* until it is stopped, whichever of its accept operations fail or are aborted.
THEOREM AlwaysAccepting ==
  Spec => NeverDeaf
<1>1. ASSUME AcceptorInv, [Next]_vars
      PROVE  AcceptorInv' /\ [Accepting /\ acceptor'.open => Accepting']_vars
  BY <1>1, AcceptorStep
<1> QED BY <1>1, InitAcceptor, PTL DEF Spec, NeverDeaf

-----------------------------------------------------------------------------
\* The queues of packets to write.

\* The inductive invariant, with IndInv.  That nothing is queued before the
\* login is answered is part of Quiet.
QueueInv(c) ==
  /\ Shut(c) /\ Limited(c.sock)
  /\ ~CallbackSends => LoginFirst(c.sock)

QueuesInv == \A c \in Conn : QueueInv(tcp[c])

\* What keeps the queue keeps its invariant.
LEMMA KeepsQueue ==
  ASSUME NEW c, NEW d, QueueInv(c), Keeps(c, d)
  PROVE  QueueInv(d)
BY DEF QueueInv, Keeps, QueueStep

\* Writing is only tried on a socket that has connected, or is closed.
LEMMA WriteKeepsQueue ==
  ASSUME NEW c, ShutdownInv(c), Shut(c), c.state # "connecting",
         NEW packet \in PacketKind, packet # "login" \/ c.sock.write_packets = <<>>
  PROVE  Keeps(c, [c EXCEPT !.sock = async_write(@, packet)])
<1>1. c.sock.connect = "none" \/ c.sock.closing
  BY DEF ShutdownInv, StartInv, Shut
<1> QED BY <1>1, WriteQueue

\* send_packet() of sequenced data.
LEMMA WriteDataQueue ==
  ASSUME NEW c, ShutdownInv(c), Shut(c), c.state # "connecting"
  PROVE  Keeps(c, write_data(c))
<1> DEFINE b == [c EXCEPT !.sock = async_write(@, "other")]
           d == write_data(c)
<1>1. Keeps(c, b)
  BY WriteKeepsQueue DEF PacketKind
<1>2. c \in TcpConnections
  BY DEF ShutdownInv
<1>3. d.sock = b.sock /\ d.state = b.state
  BY <1>2 DEF write_data, TcpConnections
<1> HIDE DEF b, d
<1>4. Keeps(c, d)
  BY <1>1, <1>3, KeepsSocket, KeepsTrans
<1> QED BY <1>4 DEF d

\* A new connection.
LEMMA ConstructQueue ==
  ASSUME ~Banner, NEW fails \in BOOLEAN
  PROVE  QueueInv(NoTcp) /\ QueueInv(construct(fails))
<1> DEFINE c == start_login_timer(NoTcp, fails)
           d == [c EXCEPT !.sock = async_read(@)]
<1>1. ShutdownInv(NoTcp)
  BY NoTcpInv DEF ConnInv
<1>2. NoTcp.state = "connected" /\ NoTcp.sock.write_packets = <<>>
  BY DEF NoTcp, NewTcpConnection, NewSocket
<1>3. QueueInv(NoTcp)
  BY <1>2, WriteLimitAssumption DEF QueueInv, Shut, Limited, LoginFirst
<1>4. ShutdownInv(c)
  BY <1>1, StartLoginTimerInv
     DEF NoTcp, NewTcpConnection, NewSocket, NewLoginTimer, Fresh
<1>5. Keeps(NoTcp, c)
  BY <1>1, StartTimerQueue
<1>6. construct(fails) = d
  BY DEF construct
<1> HIDE DEF c
<1>7. /\ d.sock.write_packets = c.sock.write_packets /\ d.sock.closing = c.sock.closing
      /\ d.sock.write = c.sock.write /\ d.state = c.state
      /\ d.sock.connect = c.sock.connect
  BY <1>4 DEF ShutdownInv, TcpConnections, Sockets, async_read, read_header
<1> HIDE DEF d
<1>8. Keeps(c, d)
  BY <1>7, KeepsSame
<1> QED BY <1>3, <1>5, <1>6, <1>8, KeepsTrans, KeepsQueue

\* An accepted login: its response is first in the queue unless the handler of
\* the port sends in its callback.
LEMMA LoginAcceptedQueue ==
  ASSUME NEW c, ConnInv(c), QueueInv(c), c.state = "connected", NEW sends \in BOOLEAN,
         sends => CallbackSends, NEW fails \in BOOLEAN
  PROVE  QueueInv(read_next(write_login_response(login_accepted(c, sends, fails))))
<1> DEFINE a == [c EXCEPT !.login = timer_stop(@), !.state = "logged_in"]
           b == IF sends THEN write_data(a) ELSE a
           l == start_heartbeat_timer(b, fails)
           w == write_login_response(l)
<1>1. ShutdownInv(c) /\ c.sock.write_packets = <<>>
  BY DEF ConnInv, Quiet
<1>2. /\ ShutdownInv(a) /\ Fresh(a.hb) /\ a.state = "logged_in" /\ a.sock = c.sock
  BY <1>1, LeavesConnected
<1>3. l = login_accepted(c, sends, fails)
  BY DEF login_accepted
<1> HIDE DEF a
<1>4. Keeps(c, a) /\ Shut(a)
  BY <1>2, KeepsSame DEF Shut
<1>5. /\ ShutdownInv(b) /\ Fresh(b.hb) /\ b.state = "logged_in" /\ Keeps(c, b)
      /\ ~sends => b.sock.write_packets = <<>>
  BY <1>1, <1>2, <1>4, WriteDataKeeps, WriteDataQueue, KeepsTrans
<1> HIDE DEF b
<1>6. /\ ShutdownInv(l) /\ Keeps(c, l) /\ l.state # "connecting"
      /\ ~sends => l.sock.write_packets = <<>>
  <2>1. b.sock.connect = "none"
    BY <1>5 DEF ShutdownInv, StartInv
  <2>2. ShutdownInv(l) /\ (l.state = "disconnected" \/ l.state = b.state)
    BY <1>5, <2>1, StartHeartbeatTimerInv, StartHeartbeatTimerKeeps
  <2>3. Keeps(b, l) /\ l.sock.write_packets = b.sock.write_packets
    BY <1>5, StartTimerQueue, PacketsStay
  <2> QED BY <1>5, <2>2, <2>3, KeepsTrans
<1> HIDE DEF l
<1>7. QueueInv(l)
  BY <1>6, KeepsQueue
<1>8. ShutdownInv(w)
  BY <1>6, AsyncWriteInv DEF write_login_response, PacketKind
<1>9. QueueInv(w)
  <2>1. CASE sends
    BY <1>6, <1>7, <2>1, WriteLoginQueue DEF write_login_response, QueueInv
  <2>2. CASE ~sends
    <3>1. Keeps(l, w)
      BY <1>6, <1>7, <2>2, WriteKeepsQueue DEF write_login_response, PacketKind, QueueInv
    <3> QED BY <1>7, <3>1, KeepsQueue
  <2> QED BY <2>1, <2>2
<1> HIDE DEF w
<1>10. QueueInv(read_next(w))
  BY <1>8, <1>9, EndOfHandlerQueue, KeepsQueue
<1> QED BY <1>3, <1>10 DEF w

\* A rejected login: the rejection is all there is in the queue.
LEMMA LoginRejectedQueue ==
  ASSUME NEW c, ConnInv(c), QueueInv(c), c.state = "connected"
  PROVE  QueueInv(read_next(write_login_response(login_rejected(c))))
<1> DEFINE a == [c EXCEPT !.login = timer_stop(@), !.state = "disconnecting"]
           r == login_rejected(c)
           w == write_login_response(r)
<1>1. ShutdownInv(c) /\ c \in TcpConnections /\ c.sock.write_packets = <<>>
  BY DEF ConnInv, Quiet, ShutdownInv
<1>2. ShutdownInv(a) /\ a.state = "disconnecting" /\ a.sock = c.sock
  BY <1>1, LeavesConnected
<1>3. r = [a EXCEPT !.reason = "access_denied"]
  BY <1>1 DEF login_rejected, prepare_graceful_disconnect, is_closing, TcpConnections
<1> HIDE DEF a, r
<1>4. a \in TcpConnections
  BY <1>2 DEF ShutdownInv
<1>5. /\ r \in TcpConnections /\ r.state = a.state /\ r.sock = a.sock /\ r.login = a.login
      /\ r.hb = a.hb /\ r.socket_closed = a.socket_closed
      /\ r.login_timer_stopped = a.login_timer_stopped
      /\ r.heartbeat_timer_stopped = a.heartbeat_timer_stopped
  BY <1>3, <1>4 DEF TcpConnections, Disconnect_reason
<1>6. ShutdownInv(r)
  BY <1>2, <1>5 DEF ShutdownInv, FlagsInv, StartInv
<1>7. Keeps(c, r) /\ Shut(r) /\ r.state # "connecting" /\ r.sock.write_packets = <<>>
  BY <1>1, <1>2, <1>5, KeepsSame DEF Shut
<1>8. ShutdownInv(w) /\ Keeps(r, w)
  BY <1>6, <1>7, AsyncWriteInv, WriteKeepsQueue DEF write_login_response, PacketKind
<1> HIDE DEF w
<1>9. Keeps(c, read_next(w))
  BY <1>7, <1>8, EndOfHandlerQueue, KeepsTrans
<1> QED BY <1>9, KeepsQueue DEF w, r

\* A write succeeded, of a rejection or of another packet.
LEMMA SentQueue ==
  ASSUME NEW c, ConnInv(c), QueueInv(c), c.sock.write # "none"
  PROVE  LET d == write_success([c EXCEPT !.sock.write = "none"])
         IN  QueueInv(end_of_handler([d EXCEPT !.sock = packet_sent(@)]))
<1> DEFINE b == [c EXCEPT !.sock.write = "none"]
           d == write_success(b)
           e == [d EXCEPT !.sock = packet_sent(@)]
<1>1. ShutdownInv(c) /\ ShutdownInv(b)
  BY WriteDone DEF ConnInv
<1>2. c \in TcpConnections /\ c.sock \in Sockets /\ c.sock.write_packets # <<>>
  BY <1>1 DEF ShutdownInv, TcpConnections, SocketInv
<1>3. /\ b.state = c.state /\ b.sock.closing = c.sock.closing /\ b.sock.write = "none"
      /\ b.sock.write_packets = c.sock.write_packets
      /\ b.sock = [c.sock EXCEPT !.write = "none"]
  BY <1>2 DEF TcpConnections, Sockets
<1>4. CASE c.state = "disconnecting"
  <2> HIDE DEF b
  <2>1. d = disconnect(b, "unmanaged_abort") /\ b.sock.write_packets = <<"login">>
    BY <1>3, <1>4 DEF write_success, ConnInv, Quiet
  <2>2. /\ ShutdownInv(d) /\ d.state = "disconnected" /\ d.sock.closing
        /\ d.sock.write_packets = <<"login">>
    <3>1. Shut(b) /\ b \in TcpConnections /\ SocketInv(b.sock)
      BY <1>1, <1>3, <1>4 DEF Shut, ShutdownInv
    <3> HIDE DEF d
    <3> QED BY <1>1, <2>1, <3>1, DisconnectInv, DisconnectKeeps, DisconnectQueue, PacketsStay
            DEF Disconnect_reason
  <2> HIDE DEF d
  <2>3. e = LET x == disconnect(b, "unmanaged_abort") IN [x EXCEPT !.sock = packet_sent(@)]
    BY <2>1
  <2>4. ShutdownInv(e)
    <3> HIDE DEF e
    <3> QED BY <1>1, <1>3, <1>4, <2>1, <2>3, RejectionSent
  <2>5. d \in TcpConnections /\ d.sock \in Sockets
    BY <2>2 DEF ShutdownInv, TcpConnections
  <2>6. Tail(<<"login">>) = <<>>
    OBVIOUS
  <2>7. packet_sent(d.sock).write_packets = <<>> /\ packet_sent(d.sock).closing
    BY <2>2, <2>5, <2>6 DEF packet_sent, Sockets
  <2>8. e.sock.write_packets = <<>> /\ e.sock.closing
    BY <2>5, <2>7 DEF TcpConnections
  <2> HIDE DEF e
  <2>9. QueueInv(e)
    BY <2>8, WriteLimitAssumption DEF QueueInv, Shut, Limited, LoginFirst
  <2>10. QueueInv(end_of_handler(e))
    BY <2>4, <2>9, EndOfHandlerQueue, KeepsQueue
  <2> QED BY <2>10 DEF e, d, b
<1>5. CASE c.state # "disconnecting"
  <2>1. d = b
    BY <1>3, <1>5 DEF write_success
  <2>2. e = [c EXCEPT !.sock = packet_sent([@ EXCEPT !.write = "none"])]
    BY <1>2, <2>1 DEF TcpConnections
  <2>3. ShutdownInv(e)
    BY <1>1, <2>2, PacketSentInv
  <2>4. packet_sent([c.sock EXCEPT !.write = "none"]).closing = c.sock.closing
    BY <1>2 DEF packet_sent, write_packet, StartOp, Sockets
  <2>5. /\ e.state = c.state /\ e.sock.closing = c.sock.closing
        /\ e.sock = packet_sent([c.sock EXCEPT !.write = "none"])
    BY <1>2, <2>2, <2>4 DEF TcpConnections
  <2> HIDE DEF e
  <2>6. QueueStep(c.sock, e.sock)
    BY <1>2, <2>5, PacketSentQueue
  <2>7. Keeps(c, e)
    BY <2>5, <2>6 DEF Keeps, Shut
  <2>8. QueueInv(end_of_handler(e))
    BY <2>3, <2>7, EndOfHandlerQueue, KeepsTrans, KeepsQueue
  <2> QED BY <2>8 DEF e
<1> QED BY <1>4, <1>5

\* A step of one connection that keeps its queue.
LEMMA BecomesQueue ==
  ASSUME IndInv, QueuesInv, NEW c \in live, NEW new, Becomes(c, new),
         Keeps(tcp[c], new) \/ QueueInv(new)
  PROVE  QueuesInv'
<1>1. c \in Conn /\ tcp' = [tcp EXCEPT ![c] = new] /\ DOMAIN tcp = Conn
  BY DEF Becomes, IndInv
<1>2. QueueInv(new)
  BY <1>1, KeepsQueue DEF QueuesInv
<1>3. \A d \in Conn : QueueInv(tcp'[d])
  BY <1>1, <1>2 DEF QueuesInv
<1> QED BY <1>3 DEF QueuesInv, QueueInv, Shut, Limited, LoginFirst

\* The acceptor and the posted calls.
LEMMA ServerStepQueue ==
  ASSUME IndInv, QueuesInv, ~Banner,
         \/ Post \/ RunNothing \/ RunStart \/ RunStop \/ RunEndSession
         \/ AcceptFailed \/ Accepted
  PROVE  \A d \in Conn : QueueInv(tcp'[d])
<1>0. \A d \in Conn : ShutdownInv(tcp[d]) /\ QueueInv(tcp[d])
                      /\ tcp[d] \in TcpConnections /\ SocketInv(tcp[d].sock)
  BY DEF IndInv, ConnInv, ShutdownInv, QueuesInv
<1>1. CASE Post \/ RunNothing \/ RunStart \/ AcceptFailed
  BY <1>0, <1>1 DEF Post, RunNothing, RunStart, AcceptFailed
<1>2. CASE RunStop
  <2>1. tcp' = [d \in Conn |-> IF d \in live THEN disconnect(tcp[d], "user_initiated")
                                             ELSE tcp[d]]
    BY <1>2 DEF RunStop
  <2>2. \A d \in Conn : QueueInv(disconnect(tcp[d], "user_initiated"))
    BY <1>0, DisconnectQueue, KeepsQueue
  <2> QED BY <1>0, <2>1, <2>2
<1>3. CASE RunEndSession
  <2> DEFINE End(d) == [tcp[d] EXCEPT !.sock = async_write(@, "other")]
  <2>1. \A d \in Conn : tcp'[d] = tcp[d] \/ (tcp[d].state = "logged_in" /\ tcp'[d] = End(d))
    BY <1>3 DEF RunEndSession
  <2>2. \A d \in Conn : tcp[d].state = "logged_in" => QueueInv(End(d))
    <3> SUFFICES ASSUME NEW d \in Conn, tcp[d].state = "logged_in"
                 PROVE  QueueInv(End(d))
      OBVIOUS
    <3>1. Shut(tcp[d])
      BY <1>0 DEF QueueInv
    <3>2. Keeps(tcp[d], End(d))
      BY <1>0, <3>1, WriteKeepsQueue DEF PacketKind
    <3> QED BY <1>0, <3>2, KeepsQueue
  <2> HIDE DEF End
  <2> QED BY <1>0, <2>1, <2>2
<1>4. CASE Accepted
  <2> PICK c \in Conn \ live, fails \in TimerFaults : tcp' = [tcp EXCEPT ![c] = construct(fails)]
    BY <1>4 DEF Accepted
  <2>1. QueueInv(construct(fails)) /\ DOMAIN tcp = Conn
    BY ServerAssumption, ConstructQueue DEF IndInv
  <2> QED BY <1>0, <2>1
<1> QED BY <1>1, <1>2, <1>3, <1>4

\* A packet was read; no login response is written.
LEMMA ReadStepQueue ==
  ASSUME IndInv, QueuesInv, NEW c \in live,
         \/ ReadFailed(c) \/ HeaderReceived(c) \/ HeaderMalformed(c) \/ PacketIgnored(c)
         \/ PacketInvalid(c) \/ DebugReceived(c) \/ ClientAlive(c) \/ LogoutRequest(c)
  PROVE  QueuesInv'
<1>0. ShutdownInv(tcp[c]) /\ tcp[c].sock.read # "none"
  BY ResultOwed
     DEF IndInv, ConnInv, ReadFailed, HeaderReceived, HeaderMalformed, PacketIgnored,
         PacketInvalid, DebugReceived, ClientAlive, LogoutRequest, PacketRead
<1>1. Keeps(tcp[c], Reader(c)) /\ ShutdownInv(Reader(c))
  BY <1>0, ReadDone, ReadDoneQueue DEF Reader
<1>2. CASE ReadFailed(c) \/ HeaderReceived(c) \/ HeaderMalformed(c)
  BY <1>0, <1>2, ReadQueue, BecomesQueue DEF ReadFailed, HeaderReceived, HeaderMalformed
<1>3. CASE PacketIgnored(c) \/ DebugReceived(c)
  <2>1. Keeps(tcp[c], end_of_handler(Reader(c))) /\ Keeps(tcp[c], read_next(Reader(c)))
    BY <1>1, EndOfHandlerQueue, KeepsTrans
  <2> QED BY <1>3, <2>1, BecomesQueue DEF PacketIgnored, DebugReceived
<1>4. CASE PacketInvalid(c) \/ LogoutRequest(c)
  <2>1. /\ Keeps(tcp[c], read_next(disconnect(Reader(c), "protocol_violation")))
        /\ Keeps(tcp[c], read_next(disconnect(Reader(c), "logout_request")))
    BY <1>1, DisconnectEndQueue DEF Disconnect_reason
  <2> QED BY <1>4, <2>1, BecomesQueue DEF PacketInvalid, handle_protocol_violation, LogoutRequest
<1>5. CASE ClientAlive(c)
  <2> DEFINE d == [Reader(c) EXCEPT !.hb.received = TRUE]
  <2>1. ShutdownInv(d)
    BY <1>1, ReceiveCountInv
  <2>2. d.sock = Reader(c).sock /\ d.state = Reader(c).state
    BY <1>1 DEF ShutdownInv, TcpConnections
  <2>3. Becomes(c, read_next(d))
    BY <1>5 DEF ClientAlive
  <2> HIDE DEF d
  <2>4. Keeps(tcp[c], d)
    BY <1>1, <2>2, KeepsSocket, KeepsTrans
  <2>5. Keeps(tcp[c], read_next(d))
    BY <2>1, <2>4, EndOfHandlerQueue, KeepsTrans
  <2> QED BY <2>3, <2>5, BecomesQueue
<1> QED BY <1>2, <1>3, <1>4, <1>5

\* A login is answered.
LEMMA LoginStepQueue ==
  ASSUME IndInv, QueuesInv, NEW c \in live, LoginAccepted(c) \/ LoginRejected(c)
  PROVE  \A d \in Conn : QueueInv(tcp'[d])
<1>0. /\ ConnInv(tcp[c]) /\ tcp[c].sock.read # "none" /\ tcp[c].state = "connected"
      /\ c \in Conn /\ DOMAIN tcp = Conn
  BY ResultOwed DEF IndInv, LoginAccepted, LoginRejected, LoginRequest, PacketRead
<1>1. ConnInv(Reader(c)) /\ Reader(c).state = "connected" /\ QueueInv(Reader(c))
  <2>1. tcp[c] \in TcpConnections
    BY <1>0 DEF ConnInv, ShutdownInv
  <2>2. Keeps(tcp[c], Reader(c)) /\ QueueInv(tcp[c])
    BY <1>0, ReadDoneQueue DEF Reader, ConnInv, QueuesInv
  <2>3. QueueInv(Reader(c))
    BY <2>2, KeepsQueue
  <2> QED BY <1>0, <2>1, <2>3, ReadDoneKeeps DEF Reader, Follows, TcpConnections
<1>2. CASE LoginRejected(c)
  <2> DEFINE new == read_next(write_login_response(login_rejected(Reader(c))))
  <2>1. QueueInv(new)
    BY <1>1, LoginRejectedQueue
  <2>2. tcp' = [tcp EXCEPT ![c] = new]
    BY <1>2 DEF LoginRejected, Becomes
  <2> HIDE DEF new
  <2> QED BY <1>0, <2>1, <2>2 DEF QueuesInv
<1>3. CASE LoginAccepted(c)
  <2> PICK p \in Ports : \E sends \in Sends(p), fails \in TimerFaults :
        tcp' = [supersede(p) EXCEPT ![c] =
          read_next(write_login_response(login_accepted(Reader(c), sends, fails)))]
    BY <1>3 DEF LoginAccepted
  <2> PICK sends \in Sends(p), fails \in TimerFaults :
        tcp' = [supersede(p) EXCEPT ![c] =
          read_next(write_login_response(login_accepted(Reader(c), sends, fails)))]
    OBVIOUS
  <2> DEFINE new == read_next(write_login_response(login_accepted(Reader(c), sends, fails)))
             old(d) == disconnect(tcp[d], "superseded")
  <2>1. sends \in BOOLEAN /\ fails \in BOOLEAN /\ (sends => CallbackSends)
    BY ServerAssumption DEF Sends
  <2>2. QueueInv(new)
    BY <1>1, <2>1, LoginAcceptedQueue
  <2>3. \A d \in Conn : QueueInv(old(d)) /\ QueueInv(tcp[d])
    <3>1. \A d \in Conn : QueueInv(tcp[d]) /\ tcp[d] \in TcpConnections /\ SocketInv(tcp[d].sock)
      BY DEF QueuesInv, IndInv, ConnInv, ShutdownInv
    <3> QED BY <3>1, DisconnectQueue, KeepsQueue
  <2>4. tcp' = [d \in Conn |-> IF d = c THEN new
                               ELSE IF connection[p] = d THEN old(d) ELSE tcp[d]]
    BY DEF supersede
  <2> HIDE DEF new, old
  <2> QED BY <2>2, <2>3, <2>4
<1> QED BY <1>2, <1>3

\* The application sends, and the handlers of the write and of the timers.
LEMMA WriteStepQueue ==
  ASSUME IndInv, QueuesInv, NEW c \in live,
         \/ SendMessage(c) \/ SendDebug(c) \/ WriteFailed(c) \/ PacketSent(c)
         \/ LoginWait(c) \/ HeartbeatWait(c)
  PROVE  QueuesInv'
<1>0. ConnInv(tcp[c]) /\ ShutdownInv(tcp[c]) /\ QueueInv(tcp[c]) /\ c \in Conn
  BY DEF IndInv, ConnInv, QueuesInv
<1>1. CASE SendMessage(c)
  BY <1>0, <1>1, WriteDataQueue, BecomesQueue DEF SendMessage, QueueInv
<1>2. CASE SendDebug(c)
  <2>1. write_debug(tcp[c]) = tcp[c]
        \/ write_debug(tcp[c]) = [tcp[c] EXCEPT !.sock = async_write(@, "other")]
    BY DEF write_debug
  <2>2. tcp[c].state # "connecting"
    BY <1>0 DEF ConnInv, Quiet
  <2>3. Keeps(tcp[c], write_debug(tcp[c]))
    BY <1>0, <2>1, <2>2, WriteKeepsQueue, KeepsSocket DEF PacketKind, QueueInv
  <2> QED BY <1>2, <2>3, BecomesQueue DEF SendDebug
<1>3. CASE WriteFailed(c)
  BY <1>0, <1>3, WriteFailedQueue, BecomesQueue DEF WriteFailed
<1>4. CASE PacketSent(c)
  BY <1>0, <1>4, ResultOwed, SentQueue, BecomesQueue DEF PacketSent
<1>5. CASE LoginWait(c)
  BY <1>0, <1>5, ResultOwed, LoginWaitQueue, BecomesQueue DEF LoginWait
<1>6. CASE HeartbeatWait(c)
  <2> PICK result \in Results(tcp[c].hb.wait), fails \in TimerFaults :
        Becomes(c, heartbeat_wait_completed(tcp[c], result, fails))
    BY <1>6 DEF HeartbeatWait
  <2>1. fails \in BOOLEAN /\ tcp[c].hb.wait # "none"
    BY ServerAssumption, ResultOwed
  <2> QED BY <1>0, <2>1, HeartbeatWaitQueue, BecomesQueue
<1> QED BY <1>1, <1>2, <1>3, <1>4, <1>5, <1>6

\* The three reports.
LEMMA ReportStepQueue ==
  ASSUME IndInv, QueuesInv, ~Banner, NEW c \in live,
         SocketClosed(c) \/ LoginTimerStopped(c) \/ HeartbeatTimerStopped(c)
  PROVE  \A d \in Conn : QueueInv(tcp'[d])
<1>0. /\ ShutdownInv(tcp[c]) /\ c \in Conn /\ DOMAIN tcp = Conn
      /\ \A d \in Conn : QueueInv(tcp[d])
  BY DEF IndInv, ConnInv, QueuesInv
<1>1. ASSUME NEW new, Keeps(tcp[c], new), Report(c, new)
      PROVE  \A d \in Conn : QueueInv(tcp'[d])
  <2>1. QueueInv(NoTcp) /\ QueueInv(new)
    BY <1>0, <1>1, ServerAssumption, ConstructQueue, KeepsQueue
  <2>2. tcp' = [tcp EXCEPT ![c] = new] \/ tcp' = [tcp EXCEPT ![c] = NoTcp]
    BY <1>1 DEF Report, on_closed
  <2> QED BY <1>0, <2>1, <2>2
<1>2. CASE SocketClosed(c)
  BY <1>0, <1>1, <1>2, ReportQueue DEF SocketClosed
<1>3. CASE LoginTimerStopped(c)
  BY <1>0, <1>1, <1>3, ReportQueue DEF LoginTimerStopped
<1>4. CASE HeartbeatTimerStopped(c)
  BY <1>0, <1>1, <1>4, ReportQueue DEF HeartbeatTimerStopped
<1> QED BY <1>2, <1>3, <1>4

\* The rest of the types: the posted calls, the ports and the history.
SessionType ==
  /\ started \in BOOLEAN /\ tasks \in Seq(Task)
  /\ has_session_ended \in [Ports -> BOOLEAN] /\ orphaned \in BOOLEAN

\* Every step keeps them.
LEMMA NextSession ==
  ASSUME SessionType, [Next]_vars
  PROVE  SessionType'
<1>1. CASE Post
  BY <1>1 DEF Post, SessionType, portVars
<1>2. CASE RunNothing \/ RunStart \/ RunStop \/ RunEndSession
  <2>1. tasks' \in Seq(Task) /\ started' \in BOOLEAN
    <3>1. tasks # <<>> /\ tasks' = Tail(tasks) /\ tasks \in Seq(Task)
      BY <1>2 DEF RunNothing, RunStart, RunStop, RunEndSession, SessionType
    <3>2. started' \in {started, TRUE, FALSE}
      BY <1>2 DEF RunNothing, RunStart, RunStop, RunEndSession
    <3>3. Tail(tasks) \in Seq(Task)
      BY <3>1
    <3>4. started \in BOOLEAN
      BY DEF SessionType
    <3> QED BY <3>1, <3>2, <3>3, <3>4
  <2>2. has_session_ended' \in [Ports -> BOOLEAN] /\ orphaned' \in BOOLEAN
    BY <1>2 DEF RunNothing, RunStart, RunStop, RunEndSession, SessionType, portVars
  <2> QED BY <2>1, <2>2 DEF SessionType
<1>3. CASE AcceptFailed \/ Accepted \/ UNCHANGED vars
  BY <1>3 DEF AcceptFailed, Accepted, vars, SessionType, portVars
<1>4. ASSUME NEW c \in live, Handler(c) \/ SendMessage(c) \/ SendDebug(c)
      PROVE  SessionType'
  <2>1. \A new : Becomes(c, new) \/ Report(c, new) =>
          UNCHANGED <<started, tasks, has_session_ended>> /\ orphaned' \in BOOLEAN
    BY DEF Becomes, Report, on_closed, serverVars, portVars, SessionType
  <2>2. UNCHANGED <<started, tasks, has_session_ended>> /\ orphaned' \in BOOLEAN
    BY <1>4, <2>1
       DEF Handler, SendMessage, SendDebug, ReadFailed, HeaderReceived, HeaderMalformed,
           PacketIgnored, PacketInvalid, DebugReceived, ClientAlive, LogoutRequest,
           LoginAccepted, LoginRejected, WriteFailed, PacketSent, LoginWait, HeartbeatWait,
           SocketClosed, LoginTimerStopped, HeartbeatTimerStopped, serverVars, SessionType
  <2> QED BY <2>2 DEF SessionType
<1> QED BY <1>1, <1>2, <1>3, <1>4 DEF Next

\* Every step keeps the queues.
LEMMA NextQueues ==
  ASSUME IndInv, QueuesInv, ~Banner, [Next]_vars
  PROVE  QueuesInv'
<1>1. ASSUME \A d \in Conn : QueueInv(tcp'[d])
      PROVE  QueuesInv'
  BY <1>1 DEF QueuesInv, QueueInv, Shut, Limited, LoginFirst
<1>2. CASE UNCHANGED vars
  BY <1>1, <1>2 DEF vars, QueuesInv
<1>3. CASE Next
  BY <1>1, <1>3, ServerStepQueue, ReadStepQueue, LoginStepQueue, WriteStepQueue, ReportStepQueue
     DEF Next, Handler
<1> QED BY <1>2, <1>3

\* All of it in every reachable state.
LEMMA QueuesKept ==
  ASSUME ~Banner, WriteLimit # 0
  PROVE  Spec => [](IndInv /\ QueuesInv /\ SessionType /\ AcceptorInv)
<1>1. Init => QueuesInv /\ SessionType
  <2> SUFFICES ASSUME Init PROVE QueuesInv /\ SessionType
    OBVIOUS
  <2>1. FALSE \in BOOLEAN
    OBVIOUS
  <2>2. QueueInv(NoTcp)
    BY <2>1, ConstructQueue
  <2>3. QueuesInv
    BY <2>2 DEF Init, QueuesInv
  <2>4. <<>> \in Seq(Task)
    OBVIOUS
  <2>5. SessionType
    BY <2>4 DEF Init, SessionType
  <2> QED BY <2>3, <2>5
<1>2. IndInv /\ QueuesInv /\ [Next]_vars => QueuesInv'
  BY NextQueues
<1>3. SessionType /\ [Next]_vars => SessionType'
  BY NextSession
<1>4. AcceptorInv /\ [Next]_vars => AcceptorInv'
  BY AcceptorStep
<1> QED BY <1>1, <1>2, <1>3, <1>4, InitInv, NextInv, InitAcceptor, PTL DEF Spec

\* The server, its acceptor, ports and connections are well typed in every
\* reachable state, and no queue exceeds write_packets_limit.
THEOREM TypeCorrect ==
  ASSUME ~Banner, WriteLimit # 0
  PROVE  Spec => []TypeOK
<1>1. IndInv /\ QueuesInv /\ SessionType /\ AcceptorInv => TypeOK
  BY DEF IndInv, QueuesInv, QueueInv, Limited, SessionType, AcceptorInv, TypeOK
<1> QED BY <1>1, QueuesKept, PTL

\* The login response is the first packet that a connection sends, whatever its
\* port is asked to send and whichever of its timers fails, as long as the
\* handler of the port does not send in its login_success callback.
THEOREM LoginResponseLeads ==
  ASSUME ~Banner, WriteLimit # 0, ~CallbackSends
  PROVE  Spec => []LoginResponseFirst
<1>1. IndInv /\ QueuesInv => LoginResponseFirst
  BY DEF IndInv, QueuesInv, QueueInv, LoginFirst, LoginResponseFirst
<1> QED BY <1>1, QueuesKept, PTL

-----------------------------------------------------------------------------
\* No connection is stranded.

\* The inductive invariant, with IndInv, which knows that a rejection is being
\* written.
LivesInv == \A c \in live : Lively(tcp[c])

\* The constructor starts the login timer, or leaves a shutdown under way.
LEMMA ConstructLively ==
  ASSUME ~Banner, NEW fails \in BOOLEAN
  PROVE  Lively(construct(fails))
<1> DEFINE c == start_login_timer(NoTcp, fails)
           d == [c EXCEPT !.sock = async_read(@)]
<1>1. construct(fails) = d
  BY DEF construct
<1>2. /\ ShutdownInv(NoTcp) /\ Fresh(NoTcp.login) /\ NoTcp.sock.connect = "none"
      /\ NoTcp.state = "connected" /\ Steady(NoTcp) /\ NoTcp.sock = NewSocket
      /\ NoTcp.sock \in Sockets /\ SocketInv(NoTcp.sock)
  <2>1. ShutdownInv(NoTcp) /\ NoTcp.sock \in Sockets /\ SocketInv(NoTcp.sock)
    BY NoTcpInv DEF ConnInv, ShutdownInv, TcpConnections
  <2> QED BY <2>1 DEF NoTcp, NewTcpConnection, NewSocket, NewLoginTimer, NewHeartbeatTimer,
                      Fresh, Steady, Signalled, Lives, is_done
<1>3. ShutdownInv(c) /\ Alive(c)
  BY <1>2, StartLoginTimerInv, StartLoginTimerAlive
<1>4. Ends(c.sock)
  <2>1. c.sock \in {NoTcp.sock, socket_close(NoTcp.sock)}
    BY DEF start_login_timer, handle_transport_error, disconnect, NoTcp, NewTcpConnection
  <2>2. Signalled(NoTcp.sock, TRUE) /\ TRUE \in BOOLEAN
    BY DEF Signalled
  <2>3. Ends(socket_close(NoTcp.sock))
    BY <1>2, <2>2, SocketCloseSignals
  <2>4. Ends(NoTcp.sock)
    BY <1>2 DEF NewSocket, Ends
  <2> QED BY <2>1, <2>3, <2>4
<1> HIDE DEF c
<1>5. Same(c, d) /\ (Ends(c.sock) => Ends(d.sock))
  BY <1>3 DEF ShutdownInv, TcpConnections, Sockets, async_read, read_header, Same, Ends
<1> HIDE DEF d
<1>6. Lively(d)
  BY <1>3, <1>4, <1>5, SameAlive DEF Lively
<1> QED BY <1>1, <1>6

\* send_packet() concerns nothing but the queue and the count of packets sent.
LEMMA WriteDataSame ==
  ASSUME NEW c, ShutdownInv(c)
  PROVE  Same(c, write_data(c)) /\ (Ends(c.sock) => Ends(write_data(c).sock))
<1> DEFINE b == [c EXCEPT !.sock = async_write(@, "other")]
           d == write_data(c)
<1>1. c \in TcpConnections
  BY DEF ShutdownInv
<1>2. /\ d.sock = b.sock /\ d.state = b.state /\ d.login = b.login
      /\ d.hb.started = b.hb.started /\ d.hb.wait = b.hb.wait
      /\ d.hb.stopped_signaled = b.hb.stopped_signaled /\ d.hb.posted = b.hb.posted
      /\ d.socket_closed = b.socket_closed
      /\ d.login_timer_stopped = b.login_timer_stopped
      /\ d.heartbeat_timer_stopped = b.heartbeat_timer_stopped
  BY <1>1 DEF write_data, TcpConnections, HeartbeatTimers
<1>3. Same(c, b) /\ (Ends(c.sock) => Ends(b.sock))
  BY WriteSame
<1> HIDE DEF b, d
<1>4. Same(c, d) /\ (Ends(c.sock) => Ends(d.sock))
  BY <1>2, <1>3 DEF Same
<1> QED BY <1>4 DEF d

\* An accepted login stops one timer and starts the other.
LEMMA LoginAcceptedLively ==
  ASSUME NEW c, ShutdownInv(c), Alive(c), c.state = "connected", NEW sends \in BOOLEAN,
         NEW fails \in BOOLEAN
  PROVE  Lively(read_next(write_login_response(login_accepted(c, sends, fails))))
<1> DEFINE a == [c EXCEPT !.login = timer_stop(@), !.state = "logged_in"]
           b == IF sends THEN write_data(a) ELSE a
           l == start_heartbeat_timer(b, fails)
           w == write_login_response(l)
<1>1. ShutdownInv(a) /\ Fresh(a.hb) /\ a.state = "logged_in" /\ Steady(a)
  BY LeavesConnected, LeavesSteady DEF Alive
<1>2. l = login_accepted(c, sends, fails)
  BY DEF login_accepted
<1> HIDE DEF a
<1>3. ShutdownInv(b) /\ Fresh(b.hb) /\ b.state = "logged_in" /\ Steady(b)
  BY <1>1, WriteDataKeeps, WriteDataSame, SameAlive
<1>4. b.sock.connect = "none"
  BY <1>3 DEF ShutdownInv, StartInv
<1> HIDE DEF b
<1>5. ShutdownInv(l) /\ Alive(l)
  BY <1>3, <1>4, StartHeartbeatTimerInv, StartHeartbeatTimerAlive
<1> HIDE DEF l
<1>6. ShutdownInv(w) /\ Same(l, w)
  BY <1>5, AsyncWriteInv, WriteSame DEF write_login_response, PacketKind
<1> HIDE DEF w
<1>7. Lively(read_next(w))
  BY <1>5, <1>6, SameAlive, EndLively
<1> QED BY <1>2, <1>7 DEF w

\* A rejected one leaves no timer: the rejection itself is waited for.
LEMMA LoginRejectedLively ==
  ASSUME NEW c, ShutdownInv(c), Alive(c), c.state = "connected"
  PROVE  Lively(read_next(write_login_response(login_rejected(c))))
<1> DEFINE a == [c EXCEPT !.login = timer_stop(@), !.state = "disconnecting"]
           r == login_rejected(c)
           w == write_login_response(r)
<1>1. /\ ShutdownInv(a) /\ a.state = "disconnecting" /\ Steady(a)
      /\ c \in TcpConnections
  BY LeavesConnected, LeavesSteady DEF Alive, ShutdownInv
<1>2. r = [a EXCEPT !.reason = "access_denied"]
  BY <1>1 DEF login_rejected, prepare_graceful_disconnect, is_closing, TcpConnections
<1> HIDE DEF a, r
<1>3. a \in TcpConnections
  BY <1>1 DEF ShutdownInv
<1>4. /\ r \in TcpConnections /\ r.state = a.state /\ r.sock = a.sock /\ r.login = a.login
      /\ r.hb = a.hb /\ r.socket_closed = a.socket_closed
      /\ r.login_timer_stopped = a.login_timer_stopped
      /\ r.heartbeat_timer_stopped = a.heartbeat_timer_stopped
  BY <1>2, <1>3 DEF TcpConnections, Disconnect_reason
<1>5. ShutdownInv(r)
  BY <1>1, <1>4 DEF ShutdownInv, FlagsInv, StartInv
<1>6. Alive(r)
  BY <1>1, <1>4 DEF Alive, Steady, Watched, is_done
<1>7. ShutdownInv(w) /\ Same(r, w)
  BY <1>5, AsyncWriteInv, WriteSame DEF write_login_response, PacketKind
<1> HIDE DEF w
<1>8. Lively(read_next(w))
  BY <1>6, <1>7, SameAlive, EndLively
<1> QED BY <1>8 DEF w, r

\* The end of a write, which disconnects a rejected connection.
LEMMA SentLively ==
  ASSUME NEW c, ConnInv(c), Lively(c), c.sock.write # "none"
  PROVE  LET d == write_success([c EXCEPT !.sock.write = "none"])
         IN  Lively(end_of_handler([d EXCEPT !.sock = packet_sent(@)]))
<1> DEFINE b == [c EXCEPT !.sock.write = "none"]
           d == write_success(b)
           e == [d EXCEPT !.sock = packet_sent(@)]
<1>1. ShutdownInv(c) /\ ShutdownInv(b) /\ Alive(b)
  BY WriteDone, DoneSame, SameAlive DEF ConnInv, Lively
<1>2. b.state = c.state /\ b.sock.write = "none"
      /\ b.sock.write_packets = c.sock.write_packets
  BY <1>1 DEF ShutdownInv, TcpConnections, Sockets
<1> HIDE DEF b
<1>3. ShutdownInv(d) /\ Alive(d)
  <2>1. Stoppable(b)
    BY <1>1 DEF Alive, Steady, Stoppable
  <2> QED BY <1>1, <2>1, DisconnectInv, DisconnectAlive DEF write_success, Disconnect_reason
<1>4. ShutdownInv(e)
  <2>1. CASE b.state = "disconnecting"
    <3>1. b.sock.write_packets = <<"login">>
      BY <1>2, <2>1 DEF ConnInv, Quiet
    <3> QED BY <1>1, <1>2, <2>1, <3>1, RejectionSent DEF write_success
  <2>2. CASE b.state # "disconnecting"
    <3>1. d = b
      BY <2>2 DEF write_success
    <3>2. e = [c EXCEPT !.sock = packet_sent([@ EXCEPT !.write = "none"])]
      BY <1>1, <3>1 DEF b, ShutdownInv, TcpConnections
    <3> QED BY <1>1, <3>2, PacketSentInv
  <2> QED BY <2>1, <2>2
<1> HIDE DEF d
<1>5. Alive(e)
  BY <1>3, PacketSentSame, SameAlive
<1> HIDE DEF e
<1>6. Lively(end_of_handler(e))
  BY <1>4, <1>5, EndLively
<1> QED BY <1>6 DEF e, d, b

\* One connection changes, the others do not.
LEMMA BecomesLives ==
  ASSUME IndInv, LivesInv, NEW c \in live, NEW new, Becomes(c, new), Lively(new)
  PROVE  LivesInv'
<1>1. c \in Conn /\ tcp' = [tcp EXCEPT ![c] = new] /\ live' = live /\ DOMAIN tcp = Conn
      /\ live \subseteq Conn
  BY DEF Becomes, IndInv
<1>2. \A d \in live : Lively(tcp'[d])
  BY <1>1 DEF LivesInv
<1> QED BY <1>1, <1>2 DEF LivesInv

\* The acceptor and the posted calls.
LEMMA ServerStepLives ==
  ASSUME IndInv, LivesInv, ~Banner,
         \/ Post \/ RunNothing \/ RunStart \/ RunStop \/ RunEndSession
         \/ AcceptFailed \/ Accepted
  PROVE  LivesInv'
<1>0. /\ \A d \in live : ShutdownInv(tcp[d]) /\ Lively(tcp[d])
      /\ live \subseteq Conn /\ DOMAIN tcp = Conn
  BY DEF IndInv, ConnInv, LivesInv
<1>1. CASE Post \/ RunNothing \/ RunStart \/ AcceptFailed
  BY <1>1 DEF Post, RunNothing, RunStart, AcceptFailed, LivesInv
<1>2. CASE RunStop
  <2>1. /\ tcp' = [d \in Conn |-> IF d \in live THEN disconnect(tcp[d], "user_initiated")
                                                ELSE tcp[d]]
        /\ live' = live
    BY <1>2 DEF RunStop
  <2>2. \A d \in live : Lively(disconnect(tcp[d], "user_initiated"))
    BY <1>0, DisconnectAlive DEF Lively, Alive, Steady, Stoppable
  <2>3. \A d \in live : Lively(tcp'[d])
    BY <1>0, <2>1, <2>2
  <2> QED BY <2>1, <2>3 DEF LivesInv
<1>3. CASE RunEndSession
  <2> DEFINE End(d) == [tcp[d] EXCEPT !.sock = async_write(@, "other")]
  <2>1. live' = live /\ \A d \in Conn : tcp'[d] \in {tcp[d], End(d)}
    BY <1>3 DEF RunEndSession
  <2>2. \A d \in live : Lively(End(d))
    BY <1>0, WriteSame, SameAlive DEF Lively
  <2> HIDE DEF End
  <2>3. \A d \in live : Lively(tcp'[d])
    BY <1>0, <2>1, <2>2
  <2> QED BY <2>1, <2>3 DEF LivesInv
<1>4. CASE Accepted
  <2> PICK c \in Conn \ live, fails \in TimerFaults :
        /\ live' = live \cup {c}
        /\ tcp' = [tcp EXCEPT ![c] = construct(fails)]
    BY <1>4 DEF Accepted
  <2>1. Lively(construct(fails))
    BY ServerAssumption, ConstructLively
  <2>2. \A d \in live \cup {c} : Lively(tcp'[d])
    BY <1>0, <2>1
  <2> QED BY <2>2 DEF LivesInv
<1> QED BY <1>1, <1>2, <1>3, <1>4

\* A packet was read, by a connection that is not logging in.
LEMMA ReadStepLives ==
  ASSUME IndInv, LivesInv, NEW c \in live,
         \/ ReadFailed(c) \/ HeaderReceived(c) \/ HeaderMalformed(c) \/ PacketIgnored(c)
         \/ PacketInvalid(c) \/ DebugReceived(c) \/ ClientAlive(c) \/ LogoutRequest(c)
  PROVE  LivesInv'
<1>0. /\ ShutdownInv(tcp[c]) /\ Lively(tcp[c]) /\ Alive(tcp[c]) /\ tcp[c].sock.read # "none"
  BY ResultOwed
     DEF IndInv, ConnInv, LivesInv, Lively, ReadFailed, HeaderReceived, HeaderMalformed,
         PacketIgnored, PacketInvalid, DebugReceived, ClientAlive, LogoutRequest, PacketRead
<1>1. ShutdownInv(Reader(c)) /\ Alive(Reader(c))
  BY <1>0, ReadDone, DoneSame, SameAlive DEF Reader
<1>2. CASE ReadFailed(c)
  BY <1>0, <1>2, ReadLively, BecomesLives DEF ReadFailed
<1>3. CASE HeaderReceived(c) \/ HeaderMalformed(c)
  BY <1>0, <1>3, ReadLively, BecomesLives DEF HeaderReceived, HeaderMalformed
<1>4. CASE PacketIgnored(c) \/ DebugReceived(c)
  BY <1>1, <1>4, EndLively, BecomesLives DEF PacketIgnored, DebugReceived
<1>5. CASE PacketInvalid(c) \/ LogoutRequest(c)
  BY <1>1, <1>5, DisconnectEndLively, BecomesLives
     DEF PacketInvalid, LogoutRequest, handle_protocol_violation, Disconnect_reason
<1>6. CASE ClientAlive(c)
  <2> DEFINE d == [Reader(c) EXCEPT !.hb.received = TRUE]
  <2>1. ShutdownInv(d) /\ Alive(d)
    BY <1>1, ReceiveCountInv, DoneSame, SameAlive
  <2>2. Becomes(c, read_next(d))
    BY <1>6 DEF ClientAlive
  <2> HIDE DEF d
  <2> QED BY <2>1, <2>2, EndLively, BecomesLives
<1> QED BY <1>2, <1>3, <1>4, <1>5, <1>6

\* Logging in, and what it does to the connection that was logged in.
LEMMA LoginStepLives ==
  ASSUME IndInv, LivesInv, NEW c \in live, LoginAccepted(c) \/ LoginRejected(c)
  PROVE  LivesInv'
<1>0. /\ ShutdownInv(tcp[c]) /\ Alive(tcp[c]) /\ tcp[c].sock.read # "none"
      /\ tcp[c].state = "connected" /\ c \in Conn /\ DOMAIN tcp = Conn /\ live \subseteq Conn
      /\ \A d \in live : ShutdownInv(tcp[d]) /\ Lively(tcp[d])
  BY ResultOwed
     DEF IndInv, ConnInv, LivesInv, Lively, LoginAccepted, LoginRejected, LoginRequest, PacketRead
<1>1. ShutdownInv(Reader(c)) /\ Alive(Reader(c)) /\ Reader(c).state = "connected"
  <2>1. ShutdownInv(Reader(c)) /\ Same(tcp[c], Reader(c))
    BY <1>0, ReadDone, DoneSame DEF Reader
  <2> QED BY <1>0, <2>1, SameAlive DEF Same
<1>2. CASE LoginRejected(c)
  BY <1>1, <1>2, LoginRejectedLively, BecomesLives DEF LoginRejected
<1>3. CASE LoginAccepted(c)
  <2> PICK p \in Ports : \E sends \in Sends(p), fails \in TimerFaults :
        tcp' = [supersede(p) EXCEPT ![c] =
          read_next(write_login_response(login_accepted(Reader(c), sends, fails)))]
    BY <1>3 DEF LoginAccepted
  <2> PICK sends \in Sends(p), fails \in TimerFaults :
        tcp' = [supersede(p) EXCEPT ![c] =
          read_next(write_login_response(login_accepted(Reader(c), sends, fails)))]
    OBVIOUS
  <2> DEFINE new == read_next(write_login_response(login_accepted(Reader(c), sends, fails)))
  <2>1. sends \in BOOLEAN /\ fails \in BOOLEAN
    BY ServerAssumption DEF Sends
  <2>2. Lively(new)
    BY <1>1, <2>1, LoginAcceptedLively
  <2>3. tcp' = [supersede(p) EXCEPT ![c] = new] /\ live' = live
    BY <1>3 DEF LoginAccepted
  <2> HIDE DEF new
  <2>4. \A d \in live : Lively(disconnect(tcp[d], "superseded"))
    BY <1>0, DisconnectAlive DEF Lively, Alive, Steady, Stoppable
  <2>5. \A d \in live : Lively(tcp'[d])
    BY <1>0, <2>2, <2>3, <2>4 DEF supersede
  <2> QED BY <2>3, <2>5 DEF LivesInv
<1> QED BY <1>2, <1>3

\* Writing, and the timers.
LEMMA WriteStepLives ==
  ASSUME IndInv, LivesInv, NEW c \in live,
         \/ SendMessage(c) \/ SendDebug(c) \/ WriteFailed(c) \/ PacketSent(c)
         \/ LoginWait(c) \/ HeartbeatWait(c)
  PROVE  LivesInv'
<1>0. ConnInv(tcp[c]) /\ ShutdownInv(tcp[c]) /\ Lively(tcp[c]) /\ Alive(tcp[c])
  BY DEF IndInv, ConnInv, LivesInv, Lively
<1>1. CASE SendMessage(c)
  BY <1>0, <1>1, WriteDataSame, SameAlive, BecomesLives DEF SendMessage, Lively
<1>2. CASE SendDebug(c)
  <2>1. Lively(write_debug(tcp[c]))
    BY <1>0, WriteSame, SameAlive DEF write_debug, Lively
  <2> QED BY <1>2, <2>1, BecomesLives DEF SendDebug
<1>3. CASE WriteFailed(c)
  BY <1>0, <1>3, WriteFailedLively, BecomesLives DEF WriteFailed
<1>4. CASE PacketSent(c)
  BY <1>0, <1>4, ResultOwed, SentLively, BecomesLives DEF PacketSent
<1>5. CASE LoginWait(c)
  BY <1>0, <1>5, ResultOwed, LoginWaitLively, BecomesLives DEF LoginWait
<1>6. CASE HeartbeatWait(c)
  BY <1>0, <1>6, ResultOwed, ServerAssumption, HeartbeatWaitLively, BecomesLives
     DEF HeartbeatWait
<1> QED BY <1>1, <1>2, <1>3, <1>4, <1>5, <1>6

\* The reports; the last of them takes the connection out of the acceptor.
LEMMA ReportStepLives ==
  ASSUME IndInv, LivesInv, NEW c \in live,
         SocketClosed(c) \/ LoginTimerStopped(c) \/ HeartbeatTimerStopped(c)
  PROVE  LivesInv'
<1>0. /\ ShutdownInv(tcp[c]) /\ c \in Conn /\ DOMAIN tcp = Conn /\ live \subseteq Conn
      /\ \A d \in live : Lively(tcp[d])
  BY DEF IndInv, ConnInv, LivesInv
<1>1. ASSUME NEW new, ~is_done(new) => Lively(new), Report(c, new)
      PROVE  LivesInv'
  <2>1. \/ Lively(new) /\ tcp' = [tcp EXCEPT ![c] = new] /\ live' = live
        \/ tcp' = [tcp EXCEPT ![c] = NoTcp] /\ live' = live \ {c}
    BY <1>1 DEF Report, on_closed
  <2>2. \A d \in live' : Lively(tcp'[d])
    BY <1>0, <2>1
  <2> QED BY <2>2 DEF LivesInv
<1>2. CASE SocketClosed(c)
  BY <1>0, <1>1, <1>2, ReportLively DEF SocketClosed
<1>3. CASE LoginTimerStopped(c)
  BY <1>0, <1>1, <1>3, ReportLively DEF LoginTimerStopped
<1>4. CASE HeartbeatTimerStopped(c)
  BY <1>0, <1>1, <1>4, ReportLively DEF HeartbeatTimerStopped
<1> QED BY <1>2, <1>3, <1>4

\* Every step leaves something under way.
LEMMA NextLives ==
  ASSUME IndInv, LivesInv, ~Banner, [Next]_vars
  PROVE  LivesInv'
<1>1. CASE UNCHANGED vars
  BY <1>1 DEF vars, LivesInv
<1>2. CASE Next
  BY <1>2, ServerStepLives, ReadStepLives, LoginStepLives, WriteStepLives, ReportStepLives
     DEF Next, Handler
<1> QED BY <1>1, <1>2

\* No connection is left in a state that nothing takes it out of, whatever its
\* client does: a wait expires, a rejection is being written or, once it is
\* disconnected, a handler is invoked that brings its end nearer.
THEOREM NotStranded ==
  ASSUME ~Banner, WriteLimit # 0
  PROVE  Spec => []NeverStranded
<1>1. Init => LivesInv
  BY DEF Init, LivesInv
<1>2. IndInv /\ LivesInv => NeverStranded
  <2> SUFFICES ASSUME IndInv, LivesInv, NEW c \in live
               PROVE  CASE tcp[c].state = "connected"
                             -> tcp[c].login.started /\ tcp[c].login.wait = "pending"
                        [] tcp[c].state = "logged_in"
                             -> tcp[c].hb.started /\ tcp[c].hb.wait = "pending"
                        [] tcp[c].state = "disconnecting" -> tcp[c].sock.write = "pending"
                        [] tcp[c].state = "disconnected"
                             -> /\ ~tcp[c].login.started /\ ~tcp[c].hb.started
                                /\ ~owes_nothing(tcp[c])
                        [] OTHER -> FALSE
    BY DEF NeverStranded
  <2>1. Lively(tcp[c]) /\ Quiet(tcp[c]) /\ tcp[c].state \in State
    BY DEF IndInv, ConnInv, ShutdownInv, TcpConnections, LivesInv
  <2>2. tcp[c].state = "disconnected" => ~owes_nothing(tcp[c])
    BY <2>1, DisconnectedOwes
  <2> QED BY <2>1, <2>2 DEF State, Quiet, Lively, Alive, Steady, Watched, Lives
<1> QED BY <1>1, <1>2, InitInv, NextInv, NextLives, PTL DEF Spec

=============================================================================
