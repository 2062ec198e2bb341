----------------------- MODULE ClientConnection_proof -----------------------
(***************************************************************************)
(* What holds of the client's Connection for every write limit, heartbeat  *)
(* timeout, delay and number of tasks, as long as the application does not *)
(* call connect() inside a callback: no Tcp_connection is destroyed that a *)
(* handler still uses, no loss is forgotten, a stopped client makes no     *)
(* attempt, the queue of packets is served in order; and, when the         *)
(* callbacks call nothing but send_debug(), no connection is stranded.     *)
(***************************************************************************)
EXTENDS ClientConnection, TcpConnection_proof

\* The inductive invariant.  NoOrphans alone is not inductive: that the three
\* flags of a Tcp_connection imply that nothing is owed is what ShutdownInv
\* says, and that a reconnect finds no Tcp_connection needs
\* ReconnectOnlyWhenDropped.
IndInv == TypeOK /\ ShutdownInv(tcp) /\ ReconnectOnlyWhenDropped /\ NoOrphans

-----------------------------------------------------------------------------
\* The connection before its constructor's body, and after it.
LEMMA NoTcpInv ==
  ShutdownInv(NoTcp)
BY DEF NoTcp, NewTcpConnection, NewSocket, NewLoginTimer, NewHeartbeatTimer,
         ShutdownInv, TcpConnections, Sockets, LoginTimers, HeartbeatTimers, OpStatus,
         State, Disconnect_reason, SocketInv, TimerInv, FlagsInv, StartInv, Fresh, Rests,
         PacketKind

\* The Tcp_connection that its constructor leaves.
LEMMA ConstructInv ==
  ASSUME NEW opened \in BOOLEAN
  PROVE  ShutdownInv(construct(opened))
<1>1. ShutdownInv(NoTcp)
  BY NoTcpInv
<1>2. CASE ~opened
  BY <1>1, <1>2, DisconnectInv DEF construct, handle_connect_failure, Disconnect_reason
<1>3. CASE opened
  <2> DEFINE s == async_connect(NoTcp.sock)
             d == construct(opened)
  <2>1. NoTcp.sock \in Sockets /\ SocketInv(NoTcp.sock) /\ ~NoTcp.sock.closing
        /\ ~NoTcp.sock.closed_signaled
    BY <1>1 DEF ShutdownInv, TcpConnections, NoTcp, NewTcpConnection, NewSocket
  <2>2. s \in Sockets /\ SocketInv(s)
    BY <2>1 DEF async_connect, StartOp, Sockets, OpStatus, SocketInv
  <2>3. d = [NoTcp EXCEPT !.sock = s]
    BY <1>3 DEF construct
  <2>4. NoTcp \in TcpConnections
    BY <1>1 DEF ShutdownInv
  <2> HIDE DEF s
  <2>5. d \in TcpConnections
    BY <2>2, <2>3, <2>4 DEF TcpConnections
  <2>6. /\ d.sock = s /\ d.state = "connecting"
        /\ d.login = NewLoginTimer /\ d.hb = NewHeartbeatTimer
        /\ ~d.socket_closed
    BY <2>3 DEF NoTcp, NewTcpConnection
  <2> HIDE DEF d
  <2>7. Fresh(d.login) /\ Fresh(d.hb)
    BY <2>6 DEF Fresh, NewLoginTimer, NewHeartbeatTimer
  <2>8. ShutdownInv(d)
    BY <2>2, <2>5, <2>6, <2>7
       DEF ShutdownInv, TimerInv, FlagsInv, StartInv, Fresh, Rests
  <2> QED BY <2>8 DEF d
<1> QED BY <1>2, <1>3

\* The start of the connect handler.
LEMMA ConnectDone ==
  ASSUME NEW c, ShutdownInv(c), c.sock.connect # "none", NEW state \in {c.state, "connected"}
  PROVE  LET d == [c EXCEPT !.sock.connect = "none", !.state = state]
         IN  ShutdownInv(d) /\ Fresh(d.login) /\ d.sock.connect = "none"
<1> DEFINE s == [c.sock EXCEPT !.connect = "none"]
           d == [c EXCEPT !.sock.connect = "none", !.state = state]
<1>1. c \in TcpConnections /\ c.sock \in Sockets /\ SocketInv(c.sock)
  BY DEF ShutdownInv, TcpConnections
<1>2. /\ ~c.sock.closed_signaled /\ ~c.sock.posted /\ ~c.socket_closed
      /\ Fresh(c.login) /\ Fresh(c.hb)
  BY DEF ShutdownInv, FlagsInv, StartInv, SocketInv, is_idle
<1>3. s \in Sockets /\ SocketInv(s) /\ s.connect = "none"
  BY <1>1, <1>2 DEF Sockets, SocketInv, OpStatus
<1>4. d = [c EXCEPT !.sock = s, !.state = state]
  BY <1>1 DEF TcpConnections
<1> HIDE DEF s
<1>5. d \in TcpConnections
  BY <1>1, <1>3, <1>4 DEF TcpConnections, State
<1>6. /\ d.sock = s /\ d.login = c.login /\ d.hb = c.hb
      /\ d.socket_closed = c.socket_closed
      /\ d.login_timer_stopped = c.login_timer_stopped
      /\ d.heartbeat_timer_stopped = c.heartbeat_timer_stopped
  BY <1>1, <1>4 DEF TcpConnections
<1> HIDE DEF d
<1>7. ShutdownInv(d)
  BY <1>2, <1>3, <1>5, <1>6 DEF ShutdownInv, FlagsInv, StartInv
<1> QED BY <1>2, <1>3, <1>6, <1>7 DEF d

\* What the debug packets sent inside connect_success()'s callbacks keep.
Earlier(c, d) ==
  /\ ShutdownInv(d) /\ Same(c, d) /\ Keeps(c, d)
  /\ d.login = c.login /\ d.sock.connect = "none"
  /\ AllEarly(c.sock) => AllEarly(d.sock)

\* One such packet.
LEMMA SendEarly ==
  ASSUME NEW c, ShutdownInv(c), c.sock.connect = "none"
  PROVE  Earlier(c, send_early(c))
<1> DEFINE s == async_write(c.sock, "early")
           d == send_early(c)
<1>1. c \in TcpConnections /\ c.sock \in Sockets /\ "early" \in PacketKind
  BY DEF ShutdownInv, TcpConnections, PacketKind
<1>2. ShutdownInv(d) /\ Same(c, d) /\ Keeps(c, d)
  BY <1>1, AsyncWriteInv, WriteSame, WriteQueue DEF send_early
<1>3. d.sock.connect = "none"
  BY <1>1, AsyncWriteKeeps DEF send_early
<1>4. AllEarly(c.sock) => AllEarly(s)
  BY <1>1, AsyncWriteQueue
<1>5. d.login = c.login /\ d.sock = s
  BY <1>1 DEF send_early, TcpConnections
<1> HIDE DEF d, s
<1>6. Earlier(c, d)
  BY <1>2, <1>3, <1>4, <1>5 DEF Earlier
<1> QED BY <1>6 DEF d

\* All of them.
LEMMA SentEarly ==
  ASSUME NEW c, ShutdownInv(c), c.sock.connect = "none", NEW early
  PROVE  Earlier(c, sent_early(c, early))
<1> DEFINE d == send_early(c)
           e == send_early(d)
<1>1. Earlier(c, c)
  BY KeepsSocket DEF Earlier, Same
<1>2. Earlier(c, d)
  BY SendEarly
<1> HIDE DEF d
<1>3. ShutdownInv(d) /\ d.sock.connect = "none"
  BY <1>2 DEF Earlier
<1>4. Earlier(d, e)
  BY <1>3, SendEarly
<1> HIDE DEF e
<1>5. Keeps(c, e)
  BY <1>2, <1>4, KeepsTrans DEF Earlier
<1>6. Earlier(c, e)
  BY <1>2, <1>4, <1>5 DEF Earlier, Same
<1>7. sent_early(c, early) = c \/ sent_early(c, early) = d \/ sent_early(c, early) = e
  BY DEF sent_early, d, e
<1> QED BY <1>1, <1>2, <1>6, <1>7

\* connect_success(), whatever the application does in its callbacks.
LEMMA ConnectSuccessInv ==
  ASSUME NEW c, ShutdownInv(c), c.sock.connect # "none", NEW early,
         NEW closes \in BOOLEAN, NEW fails \in BOOLEAN
  PROVE  ShutdownInv(end_of_handler(write_login_request(connect_success(c, early, closes, fails))))
<1> DEFINE b == [c EXCEPT !.sock.connect = "none", !.state = "connected"]
           d == sent_early(b, early)
           e == IF closes THEN close(d) ELSE d
           f == start_login_timer(e, fails)
<1>0. ShutdownInv(b) /\ Fresh(b.login) /\ b.sock.connect = "none"
  BY ConnectDone
<1> HIDE DEF b
<1>1. ShutdownInv(d) /\ Fresh(d.login) /\ d.sock.connect = "none"
  BY <1>0, SentEarly DEF Earlier
<1> HIDE DEF d
<1>2. ShutdownInv(e) /\ Fresh(e.login) /\ e.sock.connect = "none"
  BY <1>1, DisconnectInv, DisconnectFresh, DisconnectKeeps DEF close, Disconnect_reason
<1> HIDE DEF e
<1>3. ShutdownInv(f)
  BY <1>2, StartLoginTimerInv
<1>4. connect_success(c, early, closes, fails) = [f EXCEPT !.sock = async_read(@)]
  BY DEF connect_success, b, d, e
<1> HIDE DEF f
<1>5. ShutdownInv(connect_success(c, early, closes, fails))
  BY <1>3, <1>4, AsyncReadInv
<1> QED BY <1>5, AsyncWriteInv, EndOfHandlerInv DEF write_login_request, PacketKind

\* process_login_accepted(), for every verdict.
LEMMA LoginAcceptedInv ==
  ASSUME NEW c, ShutdownInv(c), c.state = "connected",
         NEW verdict \in LoginVerdict, NEW closes \in BOOLEAN, NEW fails \in BOOLEAN
  PROVE  ShutdownInv(process_login_accepted(c, verdict, closes, fails))
<1> DEFINE d == [c EXCEPT !.login = timer_stop(@), !.state = "logged_in"]
           e == IF closes THEN close(d) ELSE d
<1>1. ShutdownInv(d) /\ Fresh(d.hb) /\ d.sock.connect = "none" /\ d.state = "logged_in"
  BY LeavesConnected DEF ShutdownInv, StartInv
<1>2. process_login_accepted(c, verdict, closes, fails) =
        IF verdict = "none" THEN start_heartbeat_timer(e, fails) ELSE disconnect(d, verdict)
  BY DEF process_login_accepted
<1> HIDE DEF d
<1>3. /\ ShutdownInv(e) /\ Fresh(e.hb) /\ e.sock.connect = "none"
      /\ e.state \notin {"connecting", "connected"}
  BY <1>1, DisconnectInv, DisconnectFresh, DisconnectKeeps DEF close, Disconnect_reason
<1> HIDE DEF e
<1> QED BY <1>1, <1>2, <1>3, StartHeartbeatTimerInv, DisconnectInv
        DEF LoginVerdict, Disconnect_reason

-----------------------------------------------------------------------------
\* The reconnect timer and the delay.
LEMMA ReconnectTimerType ==
  ASSUME NEW t \in ReconnectTimers, NEW fails \in BOOLEAN
  PROVE  /\ reconnect_timer_start(t, fails) \in ReconnectTimers
         /\ reconnect_timer_stop(t) \in ReconnectTimers
         /\ ~reconnect_timer_stop(t).started
<1>1. t.stale + 1 \in Nat
  BY DEF ReconnectTimers
<1>2. reconnect_timer_start(t, fails) \in ReconnectTimers
  BY <1>1 DEF reconnect_timer_start, ReconnectTimers, OpStatus
<1>3. reconnect_timer_stop(t) \in ReconnectTimers /\ ~reconnect_timer_stop(t).started
  BY CancelType DEF reconnect_timer_stop, ReconnectTimers
<1> QED BY <1>2, <1>3

\* The reconnect delay never exceeds its maximum.
LEMMA GrowType ==
  ASSUME NEW delay \in 0..MaxDelay
  PROVE  grow(delay) \in 0..MaxDelay
<1>1. delay * Multiplier \in Nat
  BY ClientAssumption
<1> QED BY <1>1, ClientAssumption DEF grow

\* A step that changes nothing but the Tcp_connection.
LEMMA BecomesInv ==
  ASSUME IndInv, NEW c, ShutdownInv(c), Becomes(c) \/ Sends(c)
  PROVE  IndInv'
BY DEF IndInv, TypeOK, ReconnectOnlyWhenDropped, NoOrphans, ShutdownInv,
       Becomes, Sends, clientVars, timerVars, connVars

\* Connection::close().
LEMMA CloseInv ==
  ASSUME IndInv, Close
  PROVE  /\ ShutdownInv(tcp)' /\ NoOrphans'
         /\ tcp' \in TcpConnections /\ reconnect_timer' \in ReconnectTimers
         /\ engaged' \in BOOLEAN /\ orphaned' \in BOOLEAN /\ given_up' \in BOOLEAN
         /\ next_delay' \in 0..MaxDelay /\ ~reconnect_timer'.started
<1>1. ShutdownInv(tcp')
  BY DisconnectInv DEF IndInv, Close, close, Disconnect_reason
<1>2. reconnect_timer' \in ReconnectTimers /\ ~reconnect_timer'.started
  BY ReconnectTimerType DEF IndInv, TypeOK, Close
<1> QED BY <1>1, <1>2, ClientAssumption DEF IndInv, TypeOK, Close, NoOrphans, ShutdownInv

\* Making a Tcp_connection where there is none.
LEMMA EmplaceInv ==
  ASSUME IndInv, ~engaged, NEW opened \in BOOLEAN, Emplace(opened)
  PROVE  /\ ShutdownInv(tcp)' /\ NoOrphans' /\ tcp' \in TcpConnections
         /\ engaged' \in BOOLEAN /\ orphaned' \in BOOLEAN /\ given_up' \in BOOLEAN
<1>1. ShutdownInv(tcp')
  BY ConstructInv DEF Emplace
<1> QED BY <1>1 DEF IndInv, TypeOK, Emplace, NoOrphans, ShutdownInv

\* Dropping a Tcp_connection that is done.
LEMMA OnClosedInv ==
  ASSUME IndInv, "connect" \notin CallbackCalls, engaged,
         NEW c, ShutdownInv(c), is_done(c), on_closed(c),
         UNCHANGED <<clientVars, has_session_ended>>
  PROVE  IndInv'
<1> PICK call \in {"none"} \cup CallbackCalls, late \in {"none"} \cup CallbackCalls,
         opened \in BOOLEAN, fails \in TimerFaults :
      LET retry    == retries(c.reason)
          connects == /\ started /\ ~reconnect_timer.started
                      /\ call = "connect" \/ (retry /\ late = "connect")
          closes   == retry /\ late = "close"
          delay    == IF call = "close" THEN 0 ELSE next_delay
          grown    == IF retry THEN grow(delay) ELSE delay
          timer    == IF call = "close" \/ closes THEN reconnect_timer_stop(reconnect_timer)
                                                  ELSE reconnect_timer
          made     == construct(opened)
      IN  /\ engaged' = connects
          /\ tcp' = IF ~connects THEN NoTcp
                    ELSE IF closes THEN disconnect(made, "user_initiated") ELSE made
          /\ orphaned' = (orphaned \/ ~owes_nothing(c))
          /\ next_delay' = IF closes THEN 0 ELSE grown
          /\ reconnect_timer' = IF retry THEN reconnect_timer_start(timer, fails)
                                         ELSE timer
          /\ given_up' = (~connects /\ (~retry \/ fails))
  BY DEF on_closed
<1> DEFINE closes == retries(c.reason) /\ late = "close"
           delay  == IF call = "close" THEN 0 ELSE next_delay
           timer  == IF call = "close" \/ closes THEN reconnect_timer_stop(reconnect_timer)
                                                 ELSE reconnect_timer
<1>1. fails \in BOOLEAN
  BY ClientAssumption
<1>2. ~engaged' /\ tcp' = NoTcp /\ orphaned' = (orphaned \/ ~owes_nothing(c))
  OBVIOUS
<1>3. ~orphaned'
  BY <1>2, DoneOwesNothing DEF IndInv, NoOrphans
<1>4. timer \in ReconnectTimers /\ ~timer.started
  BY ReconnectTimerType DEF IndInv, TypeOK, ReconnectOnlyWhenDropped
<1>5. reconnect_timer' \in ReconnectTimers
  BY <1>1, <1>4, ReconnectTimerType
<1>6. reconnect_timer'.started => started
  BY <1>4 DEF retries
<1>7. delay \in 0..MaxDelay
  BY ClientAssumption DEF IndInv, TypeOK
<1>8. next_delay' \in 0..MaxDelay
  BY <1>7, GrowType, ClientAssumption
<1>9. ShutdownInv(tcp')
  BY <1>2, NoTcpInv
<1>10. given_up' \in BOOLEAN /\ engaged' \in BOOLEAN
  BY <1>1
<1> QED BY <1>2, <1>3, <1>5, <1>6, <1>8, <1>9, <1>10
        DEF IndInv, TypeOK, ReconnectOnlyWhenDropped, NoOrphans, ShutdownInv, clientVars

\* A packet was read: what process_packet() and read_success() make of it.
LEMMA PacketReadInv ==
  ASSUME IndInv, PacketRead
  PROVE  ShutdownInv(Reader) /\ Reader.state = tcp.state
<1>1. ShutdownInv(tcp) /\ tcp.sock.read # "none"
  BY ResultOwed DEF IndInv, PacketRead
<1>2. Reader.state = tcp.state
  BY <1>1 DEF Reader, ShutdownInv, TcpConnections
<1> QED BY <1>1, <1>2, ReadDone DEF Reader

-----------------------------------------------------------------------------
\* The steps of the application and of the client.
LEMMA UserStepInv ==
  ASSUME IndInv, User \/ RunNothing \/ RunStart \/ RunStop
  PROVE  IndInv'
<1>1. CASE UserConnect
  <2> PICK opened \in BOOLEAN : Emplace(opened)
    BY <1>1 DEF UserConnect
  <2>1. ~engaged /\ ~reconnect_timer.started
    BY <1>1 DEF UserConnect, may_connect
  <2> QED BY <1>1, <2>1, EmplaceInv
          DEF UserConnect, IndInv, TypeOK, ReconnectOnlyWhenDropped, clientVars, timerVars
<1>2. CASE UserClose
  BY <1>2, CloseInv DEF UserClose, IndInv, TypeOK, ReconnectOnlyWhenDropped, clientVars
<1>3. CASE Post
  <2>1. tasks' \in Seq({"start", "stop"})
    BY <1>3 DEF Post, IndInv, TypeOK
  <2> QED BY <1>3, <2>1 DEF Post, IndInv, TypeOK, ReconnectOnlyWhenDropped, NoOrphans,
                            ShutdownInv, timerVars, connVars
<1>4. CASE SendMessage
  <2> DEFINE c == [tcp EXCEPT !.sock = async_write(@, "other")]
             sent == tcp.hb.sent \/ async_write_error(tcp.sock) = "none"
             d == [tcp EXCEPT !.sock = async_write(@, "other"),
                       !.hb.sent = @ \/ async_write_error(tcp.sock) = "none"]
  <2>1. ShutdownInv(c)
    BY AsyncWriteInv DEF IndInv, PacketKind
  <2>2. sent \in BOOLEAN
    OBVIOUS
  <2>3. d = [c EXCEPT !.hb.sent = sent]
    BY DEF IndInv, TypeOK, TcpConnections
  <2> HIDE DEF c, sent
  <2>4. ShutdownInv(d)
    BY <2>1, <2>2, <2>3, SendCountInv
  <2> QED BY <1>4, <2>4, BecomesInv DEF SendMessage
<1>5. CASE SendLogoutRequest
  BY <1>5, AsyncWriteInv, BecomesInv DEF SendLogoutRequest, IndInv, PacketKind
<1>6. CASE SendDebug
  BY <1>6, AsyncWriteInv, BecomesInv DEF SendDebug, IndInv, PacketKind
<1>7. CASE RunNothing
  <2>1. tasks' \in Seq({"start", "stop"})
    BY <1>7 DEF RunNothing, IndInv, TypeOK
  <2> QED BY <1>7, <2>1 DEF RunNothing, IndInv, TypeOK, ReconnectOnlyWhenDropped, NoOrphans,
                            ShutdownInv, timerVars, connVars
<1>8. CASE RunStart
  <2>1. tasks' \in Seq({"start", "stop"}) /\ started'
    BY <1>8 DEF RunStart, IndInv, TypeOK
  <2>2. CASE ~engaged /\ ~reconnect_timer.started
    <3> PICK opened \in BOOLEAN : Emplace(opened)
      BY <1>8, <2>2 DEF RunStart
    <3> QED BY <1>8, <2>1, <2>2, EmplaceInv
            DEF RunStart, IndInv, TypeOK, ReconnectOnlyWhenDropped, timerVars
  <2>3. CASE ~(~engaged /\ ~reconnect_timer.started)
    BY <1>8, <2>1, <2>3 DEF RunStart, IndInv, TypeOK, ReconnectOnlyWhenDropped, NoOrphans,
                            ShutdownInv, timerVars, connVars
  <2> QED BY <2>2, <2>3
<1>9. CASE RunStop
  <2>1. tasks' \in Seq({"start", "stop"})
    BY <1>9 DEF RunStop, IndInv, TypeOK
  <2>2. started' = FALSE
    BY <1>9 DEF RunStop
  <2> QED BY <1>9, <2>1, <2>2, CloseInv DEF RunStop, IndInv, TypeOK, ReconnectOnlyWhenDropped
<1> QED BY <1>1, <1>2, <1>3, <1>4, <1>5, <1>6, <1>7, <1>8, <1>9 DEF User

\* The handlers of the socket.
LEMMA SocketStepInv ==
  ASSUME IndInv,
         \/ ConnectFailed \/ Connected \/ ReadFailed \/ HeaderReceived \/ HeaderMalformed
         \/ WriteFailed \/ PacketSent
  PROVE  IndInv'
<1>0. ShutdownInv(tcp)
  BY DEF IndInv
<1>1. CASE ConnectFailed
  <2> PICK result \in Results(tcp.sock.connect) \ {"ok"} :
        LET c == [tcp EXCEPT !.sock.connect = "none"]
        IN  Becomes(end_of_handler(IF result = "aborted" THEN c
                                   ELSE handle_connect_failure(c)))
    BY <1>1 DEF ConnectFailed
  <2> DEFINE c == [tcp EXCEPT !.sock.connect = "none"]
  <2>1. tcp.sock.connect # "none"
    BY ResultOwed
  <2>2. c = [tcp EXCEPT !.sock.connect = "none", !.state = tcp.state]
    BY <1>0 DEF ShutdownInv, TcpConnections
  <2>3. ShutdownInv(c)
    BY <1>0, <2>1, <2>2, ConnectDone
  <2> HIDE DEF c
  <2>4. ShutdownInv(end_of_handler(IF result = "aborted" THEN c ELSE handle_connect_failure(c)))
    BY <2>3, DisconnectInv, EndOfHandlerInv DEF handle_connect_failure, Disconnect_reason
  <2> QED BY <2>4, BecomesInv DEF c
<1>2. CASE Connected
  <2> PICK early \in EarlySends, closes \in Closes, fails \in TimerFaults :
        LET c == connect_success(tcp, early, closes, fails)
        IN  /\ tcp' = end_of_handler(write_login_request(c))
            /\ next_delay' = IF closes THEN 0 ELSE next_delay
            /\ reconnect_timer' = IF closes THEN reconnect_timer_stop(reconnect_timer)
                                            ELSE reconnect_timer
    BY <1>2 DEF Connected
  <2>1. closes \in BOOLEAN /\ fails \in BOOLEAN
    BY ClientAssumption DEF Closes
  <2>2. tcp.sock.connect # "none"
    BY <1>2, ResultOwed DEF Connected
  <2>3. ShutdownInv(tcp')
    BY <1>0, <2>1, <2>2, ConnectSuccessInv
  <2>4. /\ next_delay' \in 0..MaxDelay /\ reconnect_timer' \in ReconnectTimers
        /\ ~reconnect_timer'.started
    BY <1>2, ClientAssumption, ReconnectTimerType
       DEF Connected, IndInv, TypeOK, ReconnectOnlyWhenDropped
  <2> QED BY <1>2, <2>3, <2>4
          DEF Connected, IndInv, TypeOK, ReconnectOnlyWhenDropped, NoOrphans, ShutdownInv,
              clientVars, connVars
<1>3. CASE ReadFailed
  BY <1>0, <1>3, ResultOwed, ReadFailedInv, BecomesInv DEF ReadFailed
<1>4. CASE HeaderReceived
  BY <1>0, <1>4, ResultOwed, HeaderReceivedInv, BecomesInv DEF HeaderReceived
<1>5. CASE HeaderMalformed
  BY <1>0, <1>5, ResultOwed, HeaderMalformedInv, BecomesInv DEF HeaderMalformed
<1>6. CASE WriteFailed
  BY <1>0, <1>6, ResultOwed, WriteFailedInv, BecomesInv DEF WriteFailed
<1>7. CASE PacketSent
  BY <1>0, <1>7, ResultOwed, PacketSentInv, EndOfHandlerInv, BecomesInv DEF PacketSent
<1> QED BY <1>1, <1>2, <1>3, <1>4, <1>5, <1>6, <1>7

\* The packets.
LEMMA PacketStepInv ==
  ASSUME IndInv,
         \/ PacketIgnored \/ PacketInvalid \/ DebugReceived \/ LoginAccepted \/ LoginRejected
         \/ SequencedData \/ ServerHeartbeat \/ EndOfSession
  PROVE  IndInv'
<1>0. ShutdownInv(Reader) /\ Reader.state = tcp.state
  BY PacketReadInv DEF PacketIgnored, PacketInvalid, DebugReceived, LoginAccepted,
                       LoginRejected, SequencedData, ServerHeartbeat, EndOfSession
<1>1. CASE PacketIgnored
  BY <1>0, <1>1, EndOfHandlerInv, BecomesInv DEF PacketIgnored
<1>2. CASE PacketInvalid
  BY <1>0, <1>2, DisconnectInv, ReadNextInv, BecomesInv
     DEF PacketInvalid, handle_protocol_violation, Disconnect_reason
<1>3. CASE DebugReceived
  BY <1>0, <1>3, ReadNextInv, BecomesInv DEF DebugReceived
<1>4. CASE LoginAccepted
  <2> PICK verdict \in LoginVerdict, closes \in Closes, fails \in TimerFaults :
        /\ tcp' = read_next(process_login_accepted(Reader, verdict, closes, fails))
        /\ next_delay' = on_login_success(next_delay, verdict)
        /\ reconnect_timer' = IF closes THEN reconnect_timer_stop(reconnect_timer)
                                        ELSE reconnect_timer
    BY <1>4 DEF LoginAccepted
  <2>1. closes \in BOOLEAN /\ fails \in BOOLEAN
    BY ClientAssumption DEF Closes
  <2>2. ShutdownInv(tcp')
    BY <1>0, <1>4, <2>1, LoginAcceptedInv, ReadNextInv DEF LoginAccepted
  <2>3. /\ next_delay' \in 0..MaxDelay /\ reconnect_timer' \in ReconnectTimers
        /\ ~reconnect_timer'.started
    BY <1>4, ClientAssumption, ReconnectTimerType
       DEF LoginAccepted, PacketRead, on_login_success, IndInv, TypeOK, ReconnectOnlyWhenDropped
  <2> QED BY <1>4, <2>2, <2>3
          DEF LoginAccepted, IndInv, TypeOK, ReconnectOnlyWhenDropped, NoOrphans, ShutdownInv,
              clientVars, connVars
<1>5. CASE LoginRejected
  <2> DEFINE c == [Reader EXCEPT !.login = timer_stop(@)]
  <2>1. Reader.login \in LoginTimers /\ TimerInv(Reader.login)
    BY <1>0 DEF ShutdownInv, TcpConnections
  <2>2. Reader.login_timer_stopped => Rests(timer_stop(Reader.login))
    BY <1>0, <2>1, LoginTimerStop DEF ShutdownInv, FlagsInv, Rests
  <2>3. Reader.sock.connect = "none"
    BY <1>0, <1>5 DEF LoginRejected, ShutdownInv, StartInv
  <2>4. ShutdownInv(c)
    BY <1>0, <2>1, <2>2, <2>3, LoginTimerStop, LoginTimerReplaced
  <2> HIDE DEF c
  <2> QED BY <1>5, <2>4, DisconnectInv, ReadNextInv, BecomesInv
          DEF LoginRejected, Disconnect_reason, c
<1>6. CASE SequencedData
  BY <1>0, <1>6, ReceiveCountInv, ReadNextInv, BecomesInv DEF SequencedData
<1>7. CASE ServerHeartbeat
  BY <1>0, <1>7, ReceiveCountInv, ReadNextInv, BecomesInv DEF ServerHeartbeat
<1>8. CASE EndOfSession
  <2>1. ShutdownInv(tcp')
    BY <1>0, <1>8, ReceiveCountInv, ReadNextInv DEF EndOfSession
  <2> QED BY <1>8, <2>1
          DEF EndOfSession, IndInv, TypeOK, ReconnectOnlyWhenDropped, NoOrphans, ShutdownInv,
              clientVars, timerVars, connVars
<1> QED BY <1>1, <1>2, <1>3, <1>4, <1>5, <1>6, <1>7, <1>8

\* The timers, the reports and the reconnect.
LEMMA TimerStepInv ==
  ASSUME IndInv, "connect" \notin CallbackCalls,
         \/ LoginWait \/ HeartbeatWait
         \/ SocketClosed \/ LoginTimerStopped \/ HeartbeatTimerStopped
         \/ ReconnectWait \/ StaleReconnectWait
  PROVE  IndInv'
<1>0. ShutdownInv(tcp)
  BY DEF IndInv
<1>1. CASE LoginWait
  BY <1>0, <1>1, ResultOwed, LoginWaitInv, BecomesInv DEF LoginWait
<1>2. CASE HeartbeatWait
  <2> PICK result \in Results(tcp.hb.wait), fails \in TimerFaults :
        Becomes(heartbeat_wait_completed(tcp, result, fails))
    BY <1>2 DEF HeartbeatWait
  <2>1. fails \in BOOLEAN /\ tcp.hb.wait # "none"
    BY ClientAssumption, ResultOwed
  <2> QED BY <1>0, <2>1, HeartbeatWaitInv, BecomesInv
<1>3. ASSUME NEW c, ShutdownInv(c), engaged, Report(c),
             UNCHANGED <<clientVars, has_session_ended>>
      PROVE  IndInv'
  <2>1. CASE is_done(c)
    BY <1>3, <2>1, OnClosedInv DEF Report
  <2>2. CASE ~is_done(c)
    <3>1. Becomes(c)
      BY <1>3, <2>2 DEF Report, Becomes
    <3> QED BY <1>3, <3>1, BecomesInv
  <2> QED BY <2>1, <2>2
<1>4. CASE SocketClosed
  BY <1>0, <1>3, <1>4, SocketReport DEF SocketClosed
<1>5. CASE LoginTimerStopped
  BY <1>0, <1>3, <1>5, LoginReport DEF LoginTimerStopped
<1>6. CASE HeartbeatTimerStopped
  BY <1>0, <1>3, <1>6, HeartbeatReport DEF HeartbeatTimerStopped
<1>7. CASE ReconnectWait
  <2>1. reconnect_timer \in ReconnectTimers
    BY DEF IndInv, TypeOK
  <2>2. reconnect_timer' = [reconnect_timer EXCEPT !.wait = "none", !.started = FALSE]
    BY <1>7 DEF ReconnectWait
  <2>3. reconnect_timer' \in ReconnectTimers /\ ~reconnect_timer'.started
    BY <2>1, <2>2 DEF ReconnectTimers, OpStatus
  <2>4. UNCHANGED <<clientVars, next_delay, has_session_ended>>
    BY <1>7 DEF ReconnectWait
  <2>5. CASE reconnect_timer.started /\ \E opened \in BOOLEAN : Emplace(opened)
    <3>1. ~engaged
      BY <2>5 DEF IndInv, ReconnectOnlyWhenDropped
    <3> PICK opened \in BOOLEAN : Emplace(opened)
      BY <2>5
    <3> QED BY <2>3, <2>4, <3>1, EmplaceInv
            DEF IndInv, TypeOK, ReconnectOnlyWhenDropped, clientVars
  <2>6. CASE /\ given_up' = (given_up \/ reconnect_timer.started)
             /\ UNCHANGED <<engaged, orphaned, tcp>>
    <3>1. given_up' \in BOOLEAN
      BY <2>6
    <3> QED BY <2>3, <2>4, <2>6, <3>1
            DEF IndInv, TypeOK, ReconnectOnlyWhenDropped, NoOrphans, ShutdownInv, clientVars
  <2> QED BY <1>7, <2>5, <2>6 DEF ReconnectWait
<1>8. CASE StaleReconnectWait
  <2>1. reconnect_timer \in ReconnectTimers /\ reconnect_timer.stale > 0
    BY <1>8 DEF IndInv, TypeOK, StaleReconnectWait
  <2>2. reconnect_timer.stale - 1 \in Nat
    BY <2>1 DEF ReconnectTimers
  <2>3. reconnect_timer' \in ReconnectTimers /\ reconnect_timer'.started = reconnect_timer.started
    BY <1>8, <2>1, <2>2 DEF StaleReconnectWait, ReconnectTimers
  <2> QED BY <1>8, <2>3
          DEF StaleReconnectWait, IndInv, TypeOK, ReconnectOnlyWhenDropped, NoOrphans,
              ShutdownInv, clientVars, connVars
<1> QED BY <1>1, <1>2, <1>4, <1>5, <1>6, <1>7, <1>8

-----------------------------------------------------------------------------
\* The invariant holds initially.
LEMMA InitInv ==
  Init => IndInv
<1> SUFFICES ASSUME Init PROVE IndInv
  OBVIOUS
<1>1. ShutdownInv(tcp)
  BY NoTcpInv DEF Init
<1>2. TypeOK
  <2>1. reconnect_timer \in ReconnectTimers
    BY DEF Init, ReconnectTimers, NewReconnectTimer, OpStatus
  <2>2. next_delay \in 0..MaxDelay
    BY ClientAssumption DEF Init
  <2>3. tasks \in Seq({"start", "stop"})
    BY DEF Init
  <2> QED BY <1>1, <2>1, <2>2, <2>3 DEF Init, TypeOK, ShutdownInv
<1> QED BY <1>1, <1>2
        DEF Init, IndInv, ReconnectOnlyWhenDropped, NoOrphans, NewReconnectTimer

\* Every step preserves it.
LEMMA NextInv ==
  ASSUME IndInv, "connect" \notin CallbackCalls, [Next]_vars
  PROVE  IndInv'
<1>1. CASE UNCHANGED vars
  BY <1>1 DEF vars, IndInv, TypeOK, ReconnectOnlyWhenDropped, NoOrphans, ShutdownInv
<1>2. CASE Next
  BY <1>2, UserStepInv, SocketStepInv, PacketStepInv, TimerStepInv DEF Next
<1> QED BY <1>1, <1>2

\* Connection and Tcp_connection are well typed in every reachable state, and
\* the reconnect delay stays within reconnect_max_delay.
THEOREM TypeCorrect ==
  ASSUME "connect" \notin CallbackCalls
  PROVE  Spec => []TypeOK
<1>1. IndInv => TypeOK
  BY DEF IndInv
<1> QED BY <1>1, InitInv, NextInv, PTL DEF Spec

\* No Tcp_connection is destroyed, by on_closed() or by the emplace of a
\* reconnect, while a handler that refers to it is still to be invoked.
THEOREM OrphanFree ==
  ASSUME "connect" \notin CallbackCalls
  PROVE  Spec => []NoOrphans
<1>1. IndInv => NoOrphans
  BY DEF IndInv
<1> QED BY <1>1, InitInv, NextInv, PTL DEF Spec

\* A reconnect is scheduled only for a started client without a
\* Tcp_connection.
THEOREM ReconnectSafe ==
  ASSUME "connect" \notin CallbackCalls
  PROVE  Spec => []ReconnectOnlyWhenDropped
<1>1. IndInv => ReconnectOnlyWhenDropped
  BY DEF IndInv
<1> QED BY <1>1, InitInv, NextInv, PTL DEF Spec

-----------------------------------------------------------------------------
\* A lost connection is not forgotten, and a stopped client makes none.

\* What dropping a Tcp_connection leaves scheduled.
LEMMA OnClosedRetries ==
  ASSUME IndInv, engaged, NEW c, on_closed(c)
  PROVE  NoForgottenRetry'
<1> PICK call \in {"none"} \cup CallbackCalls, late \in {"none"} \cup CallbackCalls,
         opened \in BOOLEAN, fails \in TimerFaults :
      LET retry    == retries(c.reason)
          connects == /\ started /\ ~reconnect_timer.started
                      /\ call = "connect" \/ (retry /\ late = "connect")
          closes   == retry /\ late = "close"
          delay    == IF call = "close" THEN 0 ELSE next_delay
          grown    == IF retry THEN grow(delay) ELSE delay
          timer    == IF call = "close" \/ closes THEN reconnect_timer_stop(reconnect_timer)
                                                  ELSE reconnect_timer
          made     == construct(opened)
      IN  /\ engaged' = connects
          /\ tcp' = IF ~connects THEN NoTcp
                    ELSE IF closes THEN disconnect(made, "user_initiated") ELSE made
          /\ orphaned' = (orphaned \/ ~owes_nothing(c))
          /\ next_delay' = IF closes THEN 0 ELSE grown
          /\ reconnect_timer' = IF retry THEN reconnect_timer_start(timer, fails)
                                         ELSE timer
          /\ given_up' = (~connects /\ (~retry \/ fails))
  BY DEF on_closed
<1> DEFINE timer == IF call = "close" \/ (retries(c.reason) /\ late = "close")
                    THEN reconnect_timer_stop(reconnect_timer) ELSE reconnect_timer
<1>1. ~timer.started
  BY ReconnectTimerType DEF IndInv, TypeOK, ReconnectOnlyWhenDropped
<1>2. ~fails => reconnect_timer_start(timer, fails).started
  BY <1>1 DEF reconnect_timer_start
<1> QED BY <1>2 DEF NoForgottenRetry

\* Close() gives up what was not connected.
LEMMA CloseRetries ==
  ASSUME NoForgottenRetry, Close
  PROVE  NoForgottenRetry'
BY DEF NoForgottenRetry, Close

\* Every step keeps a connection there, scheduled or given up.
LEMMA NextRetries ==
  ASSUME IndInv, NoForgottenRetry, [Next]_vars
  PROVE  NoForgottenRetry'
<1>1. CASE \/ UserClose \/ RunStop
  BY <1>1, CloseRetries DEF UserClose, RunStop
<1>2. CASE UserConnect \/ RunStart
  BY <1>2 DEF UserConnect, RunStart, Emplace, NoForgottenRetry, connVars, timerVars
<1>3. ASSUME NEW c, engaged, Report(c)
      PROVE  NoForgottenRetry'
  BY <1>3, OnClosedRetries DEF Report, NoForgottenRetry, connVars, timerVars
<1>4. CASE SocketClosed \/ LoginTimerStopped \/ HeartbeatTimerStopped
  BY <1>3, <1>4 DEF SocketClosed, LoginTimerStopped, HeartbeatTimerStopped
<1>5. CASE ReconnectWait
  BY <1>5 DEF ReconnectWait, Emplace, NoForgottenRetry, IndInv, TypeOK, ReconnectTimers
<1>6. CASE StaleReconnectWait
  BY <1>6 DEF StaleReconnectWait, NoForgottenRetry, IndInv, TypeOK, ReconnectTimers, connVars
<1>7. CASE Connected \/ LoginAccepted
  BY <1>7 DEF Connected, LoginAccepted, PacketRead, NoForgottenRetry, connVars
<1>8. CASE \/ Post \/ SendMessage \/ SendLogoutRequest \/ SendDebug \/ RunNothing
           \/ EndOfSession \/ UNCHANGED vars
  BY <1>8 DEF Post, SendMessage, SendLogoutRequest, SendDebug, RunNothing, EndOfSession, Sends,
              vars, NoForgottenRetry, connVars, timerVars
<1>9. ASSUME NEW c, Becomes(c)
      PROVE  NoForgottenRetry'
  BY <1>9 DEF Becomes, NoForgottenRetry, connVars, timerVars
<1>10. CASE \/ ConnectFailed \/ ReadFailed \/ HeaderReceived \/ HeaderMalformed
            \/ PacketIgnored \/ PacketInvalid \/ DebugReceived \/ LoginRejected
            \/ SequencedData \/ ServerHeartbeat \/ WriteFailed \/ PacketSent
            \/ LoginWait \/ HeartbeatWait
  BY <1>9, <1>10
     DEF ConnectFailed, ReadFailed, HeaderReceived, HeaderMalformed, PacketIgnored,
         PacketInvalid, DebugReceived, LoginRejected, SequencedData, ServerHeartbeat,
         WriteFailed, PacketSent, LoginWait, HeartbeatWait
<1> QED BY <1>1, <1>2, <1>4, <1>5, <1>6, <1>7, <1>8, <1>10 DEF Next, User

\* A connection that is neither there nor scheduled was lost for a reason that
\* is not retried, closed or stopped, or its reconnect timer failed.
THEOREM RetryNotForgotten ==
  ASSUME "connect" \notin CallbackCalls
  PROVE  Spec => []NoForgottenRetry
<1>1. Init => NoForgottenRetry
  BY DEF Init, NoForgottenRetry
<1>2. IndInv /\ NoForgottenRetry /\ [Next]_vars => NoForgottenRetry'
  BY NextRetries
<1> QED BY <1>1, <1>2, InitInv, NextInv, PTL DEF Spec

\* A client that is not started makes no connection attempt, whichever
\* reconnect wait had expired when Client::stop() was executed.
THEOREM StoppedMakesNoAttempt ==
  ASSUME "connect" \notin CallbackCalls
  PROVE  Spec => NoAttemptWhenStopped
<1>1. ASSUME IndInv, [Next]_vars
      PROVE  [~engaged /\ engaged' => started']_vars
  <2> SUFFICES ASSUME Next, ~engaged, engaged'
               PROVE  started'
    BY <1>1
  <2>1. CASE UserConnect \/ RunStart
    BY <2>1 DEF UserConnect, RunStart, may_connect, clientVars
  <2>2. CASE ReconnectWait
    <3>1. reconnect_timer.started \/ UNCHANGED engaged
      BY <2>2 DEF ReconnectWait
    <3>2. reconnect_timer.started => started
      BY <1>1 DEF IndInv, ReconnectOnlyWhenDropped
    <3>3. started' = started
      BY <2>2 DEF ReconnectWait, clientVars
    <3> QED BY <3>1, <3>2, <3>3
  <2>3. CASE \/ UserClose \/ RunStop \/ Post \/ SendMessage \/ SendLogoutRequest \/ SendDebug
             \/ RunNothing \/ StaleReconnectWait
    BY <2>3 DEF UserClose, RunStop, Close, Post, SendMessage, SendLogoutRequest, SendDebug,
                Sends, RunNothing, StaleReconnectWait, connVars
  <2>4. CASE \/ ConnectFailed \/ Connected \/ ReadFailed \/ HeaderReceived
             \/ HeaderMalformed \/ PacketIgnored \/ PacketInvalid \/ DebugReceived
             \/ LoginAccepted \/ LoginRejected \/ SequencedData \/ ServerHeartbeat
             \/ EndOfSession \/ WriteFailed \/ PacketSent \/ LoginWait \/ HeartbeatWait
             \/ SocketClosed \/ LoginTimerStopped \/ HeartbeatTimerStopped
    BY <2>4 DEF ConnectFailed, Connected, ReadFailed, HeaderReceived, HeaderMalformed,
                PacketIgnored, PacketInvalid, DebugReceived, LoginAccepted, LoginRejected,
                SequencedData, ServerHeartbeat, EndOfSession, PacketRead, WriteFailed,
                PacketSent, LoginWait, HeartbeatWait, SocketClosed, LoginTimerStopped,
                HeartbeatTimerStopped
  <2> QED BY <2>1, <2>2, <2>3, <2>4 DEF Next, User
<1> QED BY <1>1, InitInv, NextInv, PTL DEF Spec, NoAttemptWhenStopped

-----------------------------------------------------------------------------
\* The queue of packets to write.

\* The inductive invariant, with IndInv: nothing but what is sent inside
\* connect_success() precedes the login request because nothing is queued
\* before the connect has completed, and that a close ends the queue needs
\* that a disconnected connection has closed its socket.
QueueInv(c) ==
  /\ Shut(c) /\ Served(c.sock) /\ Limited(c.sock)
  /\ EarlyFirst(c.sock) /\ Unsent(c.sock)

\* What keeps the queue keeps its invariant.
LEMMA KeepsQueue ==
  ASSUME NEW c, NEW d, QueueInv(c), Keeps(c, d)
  PROVE  QueueInv(d)
BY DEF QueueInv, Keeps, QueueStep

\* The Tcp_connection before and after its constructor.
LEMMA ConstructQueue ==
  ASSUME NEW opened
  PROVE  QueueInv(NoTcp) /\ QueueInv(construct(opened))
<1>1. ShutdownInv(NoTcp) /\ NoTcp \in TcpConnections /\ SocketInv(NoTcp.sock)
  BY NoTcpInv DEF ShutdownInv
<1>2. NoTcp.state = "connecting" /\ NoTcp.sock = NewSocket
  BY DEF NoTcp, NewTcpConnection
<1>3. \A s : /\ s.write_packets = <<>>
             => Served(s) /\ Limited(s) /\ EarlyFirst(s) /\ Unsent(s)
  BY WriteLimitAssumption DEF Served, Limited, EarlyFirst, Unsent
<1>4. QueueInv(NoTcp)
  BY <1>2, <1>3 DEF QueueInv, Shut, NewSocket
<1>5. CASE opened
  <2> DEFINE d == construct(opened)
  <2>1. d = [NoTcp EXCEPT !.sock = async_connect(@)]
    BY <1>5 DEF construct
  <2>2. d.state = "connecting" /\ d.sock = async_connect(NewSocket)
    BY <1>2, <2>1 DEF NoTcp, NewTcpConnection
  <2>3. async_connect(NewSocket).write_packets = <<>>
    BY DEF async_connect, NewSocket
  <2> HIDE DEF d
  <2>4. QueueInv(d)
    BY <1>3, <2>2, <2>3 DEF QueueInv, Shut
  <2> QED BY <1>4, <2>4 DEF d
<1>6. CASE ~opened
  <2>1. construct(opened) = disconnect(NoTcp, "connect_failure")
    BY <1>6 DEF construct, handle_connect_failure
  <2> QED BY <1>1, <1>4, <2>1, DisconnectQueue, KeepsQueue
<1> QED BY <1>5, <1>6

\* Connection::close() keeps the queue.
LEMMA CloseQueue ==
  ASSUME NEW c, ShutdownInv(c)
  PROVE  /\ ShutdownInv(close(c)) /\ Keeps(c, close(c))
         /\ close(c).sock.write_packets = c.sock.write_packets
<1>1. c \in TcpConnections /\ SocketInv(c.sock) /\ Keeps(c, c)
  BY KeepsSocket DEF ShutdownInv
<1>2. ShutdownInv(disconnect(c, "user_initiated"))
  BY DisconnectInv DEF Disconnect_reason
<1>3. disconnect(c, "user_initiated").sock.write_packets = c.sock.write_packets
  BY PacketsStay
<1> QED BY <1>1, <1>2, <1>3, DisconnectQueue DEF close

\* connect_success() queues the login request behind what was sent early.
LEMMA ConnectSuccessQueue ==
  ASSUME NEW c, ShutdownInv(c), QueueInv(c), c.sock.connect # "none", NEW early,
         NEW closes \in BOOLEAN, NEW fails \in BOOLEAN
  PROVE  QueueInv(end_of_handler(write_login_request(connect_success(c, early, closes, fails))))
<1> DEFINE b == [c EXCEPT !.sock.connect = "none", !.state = "connected"]
           d == sent_early(b, early)
           e == IF closes THEN close(d) ELSE d
           f == start_login_timer(e, fails)
           g == [f EXCEPT !.sock = async_read(@)]
           w == write_login_request(g)
<1>0. ShutdownInv(b) /\ Fresh(b.login) /\ b.sock.connect = "none"
  BY ConnectDone
<1>1. Keeps(c, b) /\ AllEarly(b.sock)
  <2>1. c.sock.write_packets = <<>>
    BY DEF QueueInv, Unsent
  <2>2. /\ b.sock.write_packets = c.sock.write_packets /\ b.sock.closing = c.sock.closing
        /\ b.sock.write = c.sock.write /\ b.state = "connected" /\ b.sock.connect = "none"
    BY DEF ShutdownInv, TcpConnections, Sockets
  <2> HIDE DEF b
  <2> QED BY <2>1, <2>2, KeepsSame DEF AllEarly
<1> HIDE DEF b
<1>2. /\ ShutdownInv(d) /\ Fresh(d.login) /\ d.sock.connect = "none"
      /\ Keeps(b, d) /\ AllEarly(d.sock)
  BY <1>0, <1>1, SentEarly DEF Earlier
<1> HIDE DEF d
<1>3. /\ ShutdownInv(e) /\ Fresh(e.login) /\ e.sock.connect = "none"
      /\ Keeps(d, e) /\ AllEarly(e.sock)
  <2>1. Keeps(d, d)
    BY KeepsSocket
  <2>2. Fresh(close(d).login) /\ close(d).sock.connect = "none"
    BY <1>2, DisconnectFresh, DisconnectKeeps DEF close
  <2>3. AllEarly(close(d).sock)
    BY <1>2, CloseQueue DEF AllEarly
  <2> QED BY <1>2, <2>1, <2>2, <2>3, CloseQueue
<1> HIDE DEF e
<1>4. ShutdownInv(f) /\ Keeps(e, f) /\ AllEarly(f.sock) /\ f.sock.connect = "none"
  BY <1>3, StartLoginTimerInv, StartTimerQueue, PacketsStay DEF AllEarly
<1> HIDE DEF f
<1>5. ShutdownInv(g) /\ Keeps(f, g) /\ AllEarly(g.sock) /\ g.sock.connect = "none"
  <2>1. ShutdownInv(g)
    BY <1>4, AsyncReadInv
  <2>2. /\ g.sock.write_packets = f.sock.write_packets /\ g.sock.closing = f.sock.closing
        /\ g.sock.write = f.sock.write /\ g.state = f.state
        /\ g.sock.connect = f.sock.connect
    BY <1>4 DEF ShutdownInv, TcpConnections, Sockets, async_read, read_header
  <2> HIDE DEF g
  <2> QED BY <1>4, <2>1, <2>2, KeepsSame DEF AllEarly
<1> HIDE DEF g
<1>6. QueueInv(g)
  BY <1>1, <1>2, <1>3, <1>4, <1>5, KeepsQueue
<1>7. ShutdownInv(w)
  BY <1>5, AsyncWriteInv DEF write_login_request, PacketKind
<1>8. QueueInv(w)
  BY <1>5, <1>6, WriteLoginQueue DEF write_login_request, QueueInv, Unsent
<1>9. end_of_handler(write_login_request(connect_success(c, early, closes, fails)))
        = end_of_handler(w)
  BY DEF connect_success, b, d, e, f, g
<1> HIDE DEF w
<1>10. Keeps(w, end_of_handler(w))
  BY <1>7, EndOfHandlerQueue
<1> QED BY <1>8, <1>9, <1>10, KeepsQueue

\* process_login_accepted() and the next read.
LEMMA LoginAcceptedQueue ==
  ASSUME NEW c, ShutdownInv(c), c.state = "connected",
         NEW verdict \in LoginVerdict, NEW closes \in BOOLEAN, NEW fails \in BOOLEAN
  PROVE  Keeps(c, read_next(process_login_accepted(c, verdict, closes, fails)))
<1> DEFINE d == [c EXCEPT !.login = timer_stop(@), !.state = "logged_in"]
           e == IF closes THEN close(d) ELSE d
           p == process_login_accepted(c, verdict, closes, fails)
<1>1. ShutdownInv(d) /\ Keeps(c, d)
  <2>1. ShutdownInv(d) /\ d.sock = c.sock /\ d.state = "logged_in"
    BY LeavesConnected
  <2> HIDE DEF d
  <2> QED BY <2>1, KeepsSame
<1>2. ShutdownInv(p)
  BY LoginAcceptedInv
<1>3. p = IF verdict = "none" THEN start_heartbeat_timer(e, fails) ELSE disconnect(d, verdict)
  BY DEF process_login_accepted
<1> HIDE DEF d, p
<1>4. ShutdownInv(e) /\ Keeps(c, e)
  BY <1>1, CloseQueue, KeepsTrans
<1> HIDE DEF e
<1>5. Keeps(e, start_heartbeat_timer(e, fails)) /\ Keeps(d, disconnect(d, verdict))
  <2>1. d \in TcpConnections /\ SocketInv(d.sock)
    BY <1>1 DEF ShutdownInv
  <2> QED BY <1>4, <2>1, StartTimerQueue, DisconnectQueue
<1>6. Keeps(c, p)
  BY <1>1, <1>3, <1>4, <1>5, KeepsTrans
<1>7. Keeps(c, read_next(p))
  BY <1>2, <1>6, EndOfHandlerQueue, KeepsTrans
<1> QED BY <1>7 DEF p

\* The steps of the application and of the client.
LEMMA UserStepQueue ==
  ASSUME IndInv, QueueInv(tcp), User \/ RunNothing \/ RunStart \/ RunStop
  PROVE  QueueInv(tcp')
<1>0. ShutdownInv(tcp) /\ tcp \in TcpConnections
  BY DEF IndInv, ShutdownInv
<1>1. ASSUME NEW packet \in PacketKind, packet = "other",
             tcp.state \notin {"connecting", "disconnected"}
      PROVE  Keeps(tcp, [tcp EXCEPT !.sock = async_write(@, packet)])
  <2>1. tcp.sock.connect = "none"
    BY <1>0, <1>1 DEF ShutdownInv, StartInv
  <2> QED BY <1>0, <1>1, <2>1, WriteQueue
<1>2. CASE SendMessage
  <2> DEFINE c == [tcp EXCEPT !.sock = async_write(@, "other")]
  <2>1. Keeps(tcp, c)
    BY <1>1, <1>2 DEF SendMessage, PacketKind
  <2>2. tcp'.sock = c.sock /\ tcp'.state = c.state
    BY <1>0, <1>2 DEF SendMessage, Sends, TcpConnections
  <2> HIDE DEF c
  <2> QED BY <2>1, <2>2, KeepsSocket, KeepsTrans, KeepsQueue
<1>3. CASE SendLogoutRequest
  <2>1. Keeps(tcp, tcp')
    BY <1>1, <1>3 DEF SendLogoutRequest, Sends, PacketKind
  <2> QED BY <2>1, KeepsQueue
<1>4. CASE SendDebug
  <2>1. Keeps(tcp, tcp')
    BY <1>1, <1>4 DEF SendDebug, Sends, PacketKind, is_closing
  <2> QED BY <2>1, KeepsQueue
<1>5. CASE UserClose \/ RunStop
  <2>1. Keeps(tcp, tcp')
    BY <1>0, <1>5, CloseQueue DEF UserClose, RunStop, Close
  <2> QED BY <2>1, KeepsQueue
<1>6. CASE UserConnect \/ RunStart
  BY <1>6, ConstructQueue DEF UserConnect, RunStart, Emplace, connVars
<1>7. CASE Post \/ RunNothing
  BY <1>7 DEF Post, RunNothing
<1> QED BY <1>2, <1>3, <1>4, <1>5, <1>6, <1>7 DEF User

\* The handlers of the socket.
LEMMA SocketStepQueue ==
  ASSUME IndInv, QueueInv(tcp),
         \/ ConnectFailed \/ Connected \/ ReadFailed \/ HeaderReceived \/ HeaderMalformed
         \/ WriteFailed \/ PacketSent
  PROVE  QueueInv(tcp')
<1>0. ShutdownInv(tcp) /\ tcp \in TcpConnections /\ tcp.sock \in Sockets
  BY DEF IndInv, ShutdownInv, TcpConnections
<1>1. CASE ConnectFailed
  <2> PICK result \in Results(tcp.sock.connect) \ {"ok"} :
        LET c == [tcp EXCEPT !.sock.connect = "none"]
        IN  Becomes(end_of_handler(IF result = "aborted" THEN c
                                   ELSE handle_connect_failure(c)))
    BY <1>1 DEF ConnectFailed
  <2> DEFINE c == [tcp EXCEPT !.sock.connect = "none"]
             d == IF result = "aborted" THEN c ELSE disconnect(c, "connect_failure")
  <2>1. tcp.sock.connect # "none"
    BY ResultOwed
  <2>2. c = [tcp EXCEPT !.sock.connect = "none", !.state = tcp.state]
    BY <1>0 DEF TcpConnections
  <2>3. ShutdownInv(c)
    BY <1>0, <2>1, <2>2, ConnectDone
  <2>4. Keeps(tcp, c)
    <3>1. /\ c.sock.write_packets = tcp.sock.write_packets
          /\ c.sock.closing = tcp.sock.closing /\ c.sock.write = tcp.sock.write
          /\ c.state = tcp.state /\ c.sock.connect = "none"
      BY <1>0 DEF TcpConnections, Sockets
    <3> HIDE DEF c
    <3> QED BY <3>1, KeepsSame
  <2>5. tcp' = end_of_handler(d)
    BY DEF Becomes, handle_connect_failure
  <2> HIDE DEF c
  <2>6. ShutdownInv(d) /\ Keeps(tcp, d)
    <3>1. c \in TcpConnections /\ SocketInv(c.sock)
      BY <2>3 DEF ShutdownInv
    <3> QED BY <2>3, <2>4, <3>1, DisconnectInv, DisconnectQueue, KeepsTrans
            DEF Disconnect_reason
  <2> HIDE DEF d
  <2> QED BY <2>5, <2>6, EndOfHandlerQueue, KeepsTrans, KeepsQueue
<1>2. CASE Connected
  <2> PICK early \in EarlySends, closes \in Closes, fails \in TimerFaults :
        tcp' = end_of_handler(write_login_request(connect_success(tcp, early, closes, fails)))
    BY <1>2 DEF Connected
  <2>1. closes \in BOOLEAN /\ fails \in BOOLEAN
    BY ClientAssumption DEF Closes
  <2>2. tcp.sock.connect # "none"
    BY <1>2, ResultOwed DEF Connected
  <2> QED BY <1>0, <2>1, <2>2, ConnectSuccessQueue
<1>3. CASE ReadFailed
  <2>1. Keeps(tcp, tcp')
    BY <1>0, <1>3, ResultOwed, ReadQueue DEF ReadFailed, Becomes
  <2> QED BY <2>1, KeepsQueue
<1>4. CASE HeaderReceived \/ HeaderMalformed
  <2>1. Keeps(tcp, tcp')
    BY <1>0, <1>4, ResultOwed, ReadQueue DEF HeaderReceived, HeaderMalformed, Becomes
  <2> QED BY <2>1, KeepsQueue
<1>5. CASE WriteFailed
  <2>1. Keeps(tcp, tcp')
    BY <1>0, <1>5, WriteFailedQueue DEF WriteFailed, Becomes
  <2> QED BY <2>1, KeepsQueue
<1>6. CASE PacketSent
  <2> DEFINE c == [tcp EXCEPT !.sock = packet_sent([@ EXCEPT !.write = "none"])]
  <2>1. tcp.sock.write # "none"
    BY <1>6, ResultOwed DEF PacketSent
  <2>2. tcp.sock.write_packets # <<>>
    BY <1>0, <2>1 DEF ShutdownInv, SocketInv
  <2>3. QueueStep(tcp.sock, packet_sent([tcp.sock EXCEPT !.write = "none"]))
    BY <1>0, <2>2, PacketSentQueue
  <2>4. /\ c.sock = packet_sent([tcp.sock EXCEPT !.write = "none"])
        /\ c.state = tcp.state /\ c.sock.closing = tcp.sock.closing
    BY <1>0 DEF TcpConnections, Sockets, packet_sent, write_packet
  <2>5. ShutdownInv(c)
    BY <1>0, <2>1, PacketSentInv
  <2>6. tcp' = end_of_handler(c)
    BY <1>6 DEF PacketSent, Becomes
  <2> HIDE DEF c
  <2>7. Keeps(tcp, c)
    BY <2>3, <2>4 DEF Keeps, Shut
  <2> QED BY <2>5, <2>6, <2>7, EndOfHandlerQueue, KeepsTrans, KeepsQueue
<1> QED BY <1>1, <1>2, <1>3, <1>4, <1>5, <1>6

\* The packets.
LEMMA PacketStepQueue ==
  ASSUME IndInv, QueueInv(tcp),
         \/ PacketIgnored \/ PacketInvalid \/ DebugReceived \/ LoginAccepted \/ LoginRejected
         \/ SequencedData \/ ServerHeartbeat \/ EndOfSession
  PROVE  QueueInv(tcp')
<1>0. ShutdownInv(tcp) /\ ShutdownInv(Reader) /\ Reader.state = tcp.state
  BY PacketReadInv DEF PacketIgnored, PacketInvalid, DebugReceived, LoginAccepted, IndInv,
                       LoginRejected, SequencedData, ServerHeartbeat, EndOfSession
<1>1. Keeps(tcp, Reader)
  BY <1>0, ReadDoneQueue DEF Reader
<1>2. ASSUME NEW c, ShutdownInv(c), Keeps(tcp, c),
             tcp' = read_next(c) \/ tcp' = end_of_handler(c)
      PROVE  QueueInv(tcp')
  BY <1>2, EndOfHandlerQueue, KeepsTrans, KeepsQueue
<1>3. CASE PacketIgnored \/ DebugReceived
  BY <1>0, <1>1, <1>2, <1>3 DEF PacketIgnored, DebugReceived, Becomes
<1>4. CASE PacketInvalid
  <2>1. Keeps(tcp, tcp')
    BY <1>0, <1>1, <1>4, DisconnectEndQueue
       DEF PacketInvalid, Becomes, handle_protocol_violation, Disconnect_reason
  <2> QED BY <2>1, KeepsQueue
<1>5. CASE LoginAccepted
  <2> PICK verdict \in LoginVerdict, closes \in Closes, fails \in TimerFaults :
        tcp' = read_next(process_login_accepted(Reader, verdict, closes, fails))
    BY <1>5 DEF LoginAccepted
  <2>1. closes \in BOOLEAN /\ fails \in BOOLEAN
    BY ClientAssumption DEF Closes
  <2>2. Keeps(Reader, tcp')
    BY <1>0, <1>5, <2>1, LoginAcceptedQueue DEF LoginAccepted
  <2> QED BY <1>1, <2>2, KeepsTrans, KeepsQueue
<1>6. CASE LoginRejected
  <2> DEFINE c == [Reader EXCEPT !.login = timer_stop(@)]
  <2>1. Reader.login \in LoginTimers /\ TimerInv(Reader.login)
    BY <1>0 DEF ShutdownInv, TcpConnections
  <2>2. Reader.login_timer_stopped => Rests(timer_stop(Reader.login))
    BY <1>0, <2>1, LoginTimerStop DEF ShutdownInv, FlagsInv, Rests
  <2>3. Reader.sock.connect = "none"
    BY <1>0, <1>6 DEF LoginRejected, ShutdownInv, StartInv
  <2>4. ShutdownInv(c)
    BY <1>0, <2>1, <2>2, <2>3, LoginTimerStop, LoginTimerReplaced
  <2>5. c.sock = Reader.sock /\ c.state = Reader.state
    BY <1>0 DEF ShutdownInv, TcpConnections
  <2>6. tcp' = read_next(disconnect(c, "access_denied"))
    BY <1>6 DEF LoginRejected, Becomes
  <2> HIDE DEF c
  <2>7. Keeps(tcp, c)
    BY <1>1, <2>5, KeepsSocket, KeepsTrans
  <2>8. Keeps(tcp, tcp')
    BY <2>4, <2>6, <2>7, DisconnectEndQueue DEF Disconnect_reason
  <2> QED BY <2>8, KeepsQueue
<1>7. CASE SequencedData \/ ServerHeartbeat \/ EndOfSession
  <2> DEFINE c == [Reader EXCEPT !.hb.received = TRUE]
  <2>1. ShutdownInv(c)
    BY <1>0, <1>7, ReceiveCountInv DEF SequencedData, ServerHeartbeat, EndOfSession
  <2>2. c.sock = Reader.sock /\ c.state = Reader.state
    BY <1>0 DEF ShutdownInv, TcpConnections
  <2>3. tcp' = read_next(c)
    BY <1>7 DEF SequencedData, ServerHeartbeat, EndOfSession, Becomes
  <2> HIDE DEF c
  <2>4. Keeps(tcp, c)
    BY <1>1, <2>2, KeepsSocket, KeepsTrans
  <2> QED BY <1>2, <2>1, <2>3, <2>4
<1> QED BY <1>3, <1>4, <1>5, <1>6, <1>7

\* The timers, the reports and the reconnect.
LEMMA TimerStepQueue ==
  ASSUME IndInv, QueueInv(tcp),
         \/ LoginWait \/ HeartbeatWait
         \/ SocketClosed \/ LoginTimerStopped \/ HeartbeatTimerStopped
         \/ ReconnectWait \/ StaleReconnectWait
  PROVE  QueueInv(tcp')
<1>0. ShutdownInv(tcp)
  BY DEF IndInv
<1>1. CASE LoginWait
  <2>1. Keeps(tcp, tcp')
    BY <1>0, <1>1, ResultOwed, LoginWaitQueue DEF LoginWait, Becomes
  <2> QED BY <2>1, KeepsQueue
<1>2. CASE HeartbeatWait
  <2> PICK result \in Results(tcp.hb.wait), fails \in TimerFaults :
        Becomes(heartbeat_wait_completed(tcp, result, fails))
    BY <1>2 DEF HeartbeatWait
  <2>1. fails \in BOOLEAN /\ tcp.hb.wait # "none"
    BY ClientAssumption, ResultOwed
  <2>2. Keeps(tcp, tcp')
    BY <1>0, <2>1, HeartbeatWaitQueue DEF Becomes
  <2> QED BY <2>2, KeepsQueue
<1>3. ASSUME NEW c, Keeps(tcp, c), Report(c)
      PROVE  QueueInv(tcp')
  <2>1. \/ tcp' = c \/ tcp' = NoTcp
        \/ \E opened \in BOOLEAN :
             \/ tcp' = construct(opened)
             \/ tcp' = disconnect(construct(opened), "user_initiated")
    BY <1>3 DEF Report, on_closed
  <2>2. ASSUME NEW opened \in BOOLEAN
        PROVE  QueueInv(disconnect(construct(opened), "user_initiated"))
    <3> DEFINE d == construct(opened)
    <3>1. QueueInv(d) /\ d \in TcpConnections /\ SocketInv(d.sock)
      BY ConstructInv, ConstructQueue DEF ShutdownInv
    <3> HIDE DEF d
    <3>2. QueueInv(disconnect(d, "user_initiated"))
      BY <3>1, DisconnectQueue, KeepsQueue
    <3> QED BY <3>2 DEF d
  <2> QED BY <1>3, <2>1, <2>2, ConstructQueue, KeepsQueue
<1>4. CASE SocketClosed
  BY <1>0, <1>3, <1>4, ReportQueue DEF SocketClosed
<1>5. CASE LoginTimerStopped
  BY <1>0, <1>3, <1>5, ReportQueue DEF LoginTimerStopped
<1>6. CASE HeartbeatTimerStopped
  BY <1>0, <1>3, <1>6, ReportQueue DEF HeartbeatTimerStopped
<1>7. CASE ReconnectWait
  BY <1>7, ConstructQueue DEF ReconnectWait, Emplace
<1>8. CASE StaleReconnectWait
  BY <1>8 DEF StaleReconnectWait
<1> QED BY <1>1, <1>2, <1>4, <1>5, <1>6, <1>7, <1>8

\* Every step keeps the queue.
LEMMA NextQueue ==
  ASSUME IndInv, QueueInv(tcp), [Next]_vars
  PROVE  QueueInv(tcp')
<1>1. CASE UNCHANGED vars
  BY <1>1 DEF vars
<1>2. CASE Next
  BY <1>2, UserStepQueue, SocketStepQueue, PacketStepQueue, TimerStepQueue DEF Next
<1> QED BY <1>1, <1>2

\* The invariant of the queue in every reachable state.
LEMMA QueueKept ==
  ASSUME "connect" \notin CallbackCalls
  PROVE  Spec => [](IndInv /\ QueueInv(tcp))
<1>1. Init => QueueInv(tcp)
  BY ConstructQueue DEF Init
<1>2. IndInv /\ QueueInv(tcp) /\ [Next]_vars => QueueInv(tcp)'
  BY NextQueue DEF QueueInv, Shut, Served, Limited, EarlyFirst, Unsent
<1> QED BY <1>1, <1>2, InitInv, NextInv, PTL DEF Spec

\* Packets are never left in the queue of an open socket with nobody writing
\* them, the completion of a write finds its packet at the front, and the
\* queue keeps to write_packets_limit.
THEOREM QueueServed ==
  ASSUME "connect" \notin CallbackCalls
  PROVE  Spec => []WriteQueueServed
<1>1. IndInv /\ QueueInv(tcp) => WriteQueueServed
  BY DEF IndInv, ShutdownInv, SocketInv, QueueInv, Served, Limited, WriteQueueServed
<1> QED BY <1>1, QueueKept, PTL

\* No packet is in front of the login request in the queue but the debug
\* packets that the application sends inside connect_success()'s callbacks,
\* whatever else it sends and whichever timer writes a heartbeat.
THEOREM LoginRequestLeads ==
  ASSUME "connect" \notin CallbackCalls
  PROVE  Spec => []LoginRequestFirst
<1>1. QueueInv(tcp) => LoginRequestFirst
  BY DEF QueueInv, EarlyFirst, LoginRequestFirst
<1> QED BY <1>1, QueueKept, PTL

-----------------------------------------------------------------------------
\* No connection is stranded.

\* The inductive invariant, with IndInv.  NeverStranded alone is not inductive:
\* that something is still owed to a disconnected connection needs to know
\* that each report is posted, or will be by the last handler, until it was
\* made.  The client never enters the state disconnecting.
Underway(c) == Lively(c) /\ c.state # "disconnecting"

EngagedUnderway == engaged => Underway(tcp)

\* The constructor leaves a connect to wait for, or a shutdown under way.
LEMMA ConstructUnderway ==
  ASSUME NEW opened \in BOOLEAN
  PROVE  Underway(construct(opened))
<1>1. ShutdownInv(NoTcp)
  BY NoTcpInv
<1>2. CASE opened
  <2> DEFINE d == construct(opened)
  <2>1. d = [NoTcp EXCEPT !.sock = [NewSocket EXCEPT !.connect = "pending"]]
    BY <1>2 DEF construct, NoTcp, NewTcpConnection, async_connect, StartOp, NewSocket
  <2>2. /\ d.state = "connecting" /\ d.sock.connect = "pending" /\ ~d.sock.closing
        /\ ~d.sock.closed_signaled /\ ~d.socket_closed
        /\ d.login = NewLoginTimer /\ d.hb = NewHeartbeatTimer
        /\ d.login_timer_stopped /\ d.heartbeat_timer_stopped
    BY <2>1 DEF NoTcp, NewTcpConnection, NewSocket
  <2> HIDE DEF d
  <2>3. Underway(d)
    BY <2>2 DEF Underway, Lively, Alive, Steady, Watched, Signalled, Ends, Lives, is_done,
                NewLoginTimer, NewHeartbeatTimer
  <2> QED BY <2>3 DEF d
<1>3. CASE ~opened
  <2>1. construct(opened) = disconnect(NoTcp, "connect_failure")
    BY <1>3 DEF construct, handle_connect_failure
  <2>2. NoTcp.state = "connecting" /\ Stoppable(NoTcp)
    BY DEF NoTcp, NewTcpConnection, NewSocket, NewLoginTimer, NewHeartbeatTimer,
           Stoppable, Signalled, Lives, is_done
  <2>3. Ends(NoTcp.sock)
    BY DEF NoTcp, NewTcpConnection, NewSocket, Ends
  <2> QED BY <1>1, <2>1, <2>2, <2>3, DisconnectAlive DEF Underway, Lively
<1> QED BY <1>2, <1>3

\* Connection::close() leaves its shutdown under way.
LEMMA DisconnectUnderway ==
  ASSUME NEW c, ShutdownInv(c), Underway(c), NEW reason \in Disconnect_reason
  PROVE  Underway(disconnect(c, reason))
<1>1. Stoppable(c) /\ Alive(c) /\ Ends(c.sock)
  BY DEF Underway, Lively, Alive, Steady, Stoppable
<1> QED BY <1>1, DisconnectAlive DEF Underway, Lively

\* A handler of a connection that leaves the state alone or disconnects.
LEMMA SettlesUnderway ==
  ASSUME NEW c, NEW d, Underway(c), Settles(c, d), Lively(d)
  PROVE  Underway(d)
BY DEF Underway, Settles

\* connect_success() starts the login timer, on a socket that was closed too.
LEMMA ConnectSuccessUnderway ==
  ASSUME NEW c, ShutdownInv(c), Underway(c), c.sock.connect # "none",
         NEW early, NEW fails \in BOOLEAN
  PROVE  Underway(end_of_handler(write_login_request(connect_success(c, early, FALSE, fails))))
<1> DEFINE b == [c EXCEPT !.sock.connect = "none", !.state = "connected"]
           d == sent_early(b, early)
           f == start_login_timer(d, fails)
           g == [f EXCEPT !.sock = async_read(@)]
           w == write_login_request(g)
<1>0. ShutdownInv(b) /\ Fresh(b.login) /\ b.sock.connect = "none"
  BY ConnectDone
<1>1. b.state = "connected" /\ Steady(b)
  BY DEF ShutdownInv, TcpConnections, Sockets, Underway, Lively, Alive, Steady, Signalled,
         Lives, is_done
<1> HIDE DEF b
<1>2. /\ ShutdownInv(d) /\ Fresh(d.login) /\ d.sock.connect = "none"
      /\ d.state = "connected" /\ Steady(d)
  <2>1. Earlier(b, d)
    BY <1>0, SentEarly
  <2> HIDE DEF d
  <2> QED BY <1>0, <1>1, <2>1 DEF Earlier, Same, Steady, Signalled, Lives, is_done
<1> HIDE DEF d
<1>3. ShutdownInv(f) /\ Alive(f) /\ Settles(d, f)
  BY <1>2, StartLoginTimerInv, StartLoginTimerAlive, HandlersSettle DEF ShutdownInv
<1> HIDE DEF f
<1>4. ShutdownInv(g) /\ Same(f, g)
  BY <1>3, AsyncReadInv, ZenonT(30)
     DEF ShutdownInv, TcpConnections, Sockets, async_read, read_header, Same
<1> HIDE DEF g
<1>5. ShutdownInv(w) /\ Same(g, w)
  BY <1>4, AsyncWriteInv, WriteSame DEF write_login_request, PacketKind
<1>6. end_of_handler(write_login_request(connect_success(c, early, FALSE, fails)))
        = end_of_handler(w)
  BY DEF connect_success, b, d, f, g
<1> HIDE DEF w
<1>7. Lively(end_of_handler(w)) /\ Settles(w, end_of_handler(w))
  BY <1>3, <1>4, <1>5, SameAlive, EndLively, HandlersSettle DEF ShutdownInv
<1>8. w.state \in {"connected", "disconnected"}
  BY <1>2, <1>3, <1>4, <1>5 DEF Same, Settles
<1> QED BY <1>6, <1>7, <1>8 DEF Underway, Settles

\* process_login_accepted() starts the heartbeat timer, or disconnects.
LEMMA LoginAcceptedUnderway ==
  ASSUME NEW c, ShutdownInv(c), Alive(c), c.state = "connected",
         NEW verdict \in LoginVerdict, NEW fails \in BOOLEAN
  PROVE  Underway(read_next(process_login_accepted(c, verdict, FALSE, fails)))
<1> DEFINE d == [c EXCEPT !.login = timer_stop(@), !.state = "logged_in"]
           p == process_login_accepted(c, verdict, FALSE, fails)
<1>1. ShutdownInv(d) /\ Fresh(d.hb) /\ d.state = "logged_in" /\ d.sock = c.sock
  BY LeavesConnected
<1>2. d.sock.connect = "none"
  BY <1>1 DEF ShutdownInv, StartInv
<1>3. Steady(d)
  BY LeavesSteady DEF Alive
<1>4. ShutdownInv(p)
  BY LoginAcceptedInv
<1>5. p = IF verdict = "none" THEN start_heartbeat_timer(d, fails) ELSE disconnect(d, verdict)
  BY DEF process_login_accepted
<1> HIDE DEF d, p
<1>6. Stoppable(d)
  BY <1>3 DEF Steady, Stoppable
<1>7. Alive(p) /\ p.state \in {"logged_in", "disconnected"}
  <2>1. CASE verdict = "none"
    <3>1. Alive(start_heartbeat_timer(d, fails)) /\ Settles(d, start_heartbeat_timer(d, fails))
      BY <1>1, <1>2, <1>3, StartHeartbeatTimerAlive, HandlersSettle DEF ShutdownInv
    <3> QED BY <1>1, <1>5, <2>1, <3>1 DEF Settles
  <2>2. CASE verdict # "none"
    BY <1>1, <1>5, <1>6, <2>2, DisconnectAlive
  <2> QED BY <2>1, <2>2
<1>8. Lively(read_next(p)) /\ Settles(p, read_next(p))
  BY <1>4, <1>7, EndLively, HandlersSettle DEF ShutdownInv
<1>9. Underway(read_next(p))
  BY <1>7, <1>8 DEF Underway, Settles
<1> QED BY <1>9 DEF p

\* A handler that starts like c and ends in d.
LEMMA SameUnderway ==
  ASSUME NEW c, NEW d, Underway(c), Same(c, d), Ends(c.sock) => Ends(d.sock)
  PROVE  Underway(d)
BY SameAlive DEF Underway, Lively, Same

\* The steps of the application and of the client.
LEMMA UserStepUnderway ==
  ASSUME IndInv, EngagedUnderway, User \/ RunNothing \/ RunStart \/ RunStop
  PROVE  EngagedUnderway'
<1>0. ShutdownInv(tcp) /\ tcp \in TcpConnections
  BY DEF IndInv, ShutdownInv
<1>1. CASE UserConnect \/ RunStart
  <2>1. \/ UNCHANGED <<engaged, tcp>>
        \/ \E opened \in BOOLEAN : engaged' = TRUE /\ tcp' = construct(opened)
    BY <1>1 DEF UserConnect, RunStart, Emplace, connVars
  <2> QED BY <2>1, ConstructUnderway DEF EngagedUnderway, Underway
<1>2. CASE UserClose \/ RunStop
  <2>1. tcp' = close(tcp) /\ engaged' = engaged
    BY <1>2 DEF UserClose, RunStop, Close
  <2>2. engaged => Underway(tcp')
    BY <1>0, <2>1, DisconnectUnderway DEF close, EngagedUnderway, Disconnect_reason
  <2> QED BY <2>1, <2>2 DEF EngagedUnderway
<1>3. ASSUME engaged' = engaged, Same(tcp, tcp'), Ends(tcp.sock) => Ends(tcp'.sock)
      PROVE  EngagedUnderway'
  BY <1>3, SameUnderway DEF EngagedUnderway
<1>4. CASE SendMessage
  <2> DEFINE c == [tcp EXCEPT !.sock = async_write(@, "other")]
  <2>1. /\ engaged' = engaged
        /\ tcp' = [tcp EXCEPT !.sock = async_write(@, "other"),
                              !.hb.sent = @ \/ async_write_error(tcp.sock) = "none"]
    BY <1>4 DEF SendMessage, Sends, connVars
  <2>2. /\ tcp'.sock = c.sock /\ tcp'.state = c.state /\ tcp'.login = c.login
        /\ tcp'.hb.started = c.hb.started /\ tcp'.hb.wait = c.hb.wait
        /\ tcp'.hb.stopped_signaled = c.hb.stopped_signaled /\ tcp'.hb.posted = c.hb.posted
        /\ tcp'.socket_closed = c.socket_closed
        /\ tcp'.login_timer_stopped = c.login_timer_stopped
        /\ tcp'.heartbeat_timer_stopped = c.heartbeat_timer_stopped
    BY <1>0, <2>1 DEF TcpConnections, HeartbeatTimers
  <2>3. Same(tcp, c) /\ (Ends(tcp.sock) => Ends(c.sock))
    BY <1>0, WriteSame
  <2> HIDE DEF c
  <2> QED BY <1>3, <2>1, <2>2, <2>3 DEF Same
<1>5. CASE SendLogoutRequest \/ SendDebug
  BY <1>0, <1>3, <1>5, WriteSame DEF SendLogoutRequest, SendDebug, Sends, connVars
<1>6. CASE Post \/ RunNothing
  BY <1>6 DEF Post, RunNothing, connVars, EngagedUnderway, Underway
<1> QED BY <1>1, <1>2, <1>4, <1>5, <1>6 DEF User

\* The handlers of the socket.
LEMMA SocketStepUnderway ==
  ASSUME IndInv, EngagedUnderway, CallbackCalls \subseteq {"send_debug"},
         \/ ConnectFailed \/ Connected \/ ReadFailed \/ HeaderReceived \/ HeaderMalformed
         \/ WriteFailed \/ PacketSent
  PROVE  EngagedUnderway'
<1>0. /\ ShutdownInv(tcp) /\ tcp \in TcpConnections /\ tcp.sock \in Sockets
      /\ Underway(tcp) /\ Lively(tcp) /\ Alive(tcp) /\ engaged' = engaged
  BY DEF IndInv, ShutdownInv, TcpConnections, EngagedUnderway, Underway, Lively,
         ConnectFailed, Connected, ReadFailed, HeaderReceived, HeaderMalformed,
         WriteFailed, PacketSent, Becomes, connVars
<1>1. ASSUME NEW d, tcp' = d, Underway(d)
      PROVE  EngagedUnderway'
  BY <1>1 DEF EngagedUnderway
<1>2. CASE ConnectFailed
  <2> PICK result \in Results(tcp.sock.connect) \ {"ok"} :
        LET c == [tcp EXCEPT !.sock.connect = "none"]
        IN  Becomes(end_of_handler(IF result = "aborted" THEN c
                                   ELSE handle_connect_failure(c)))
    BY <1>2 DEF ConnectFailed
  <2> DEFINE c == [tcp EXCEPT !.sock.connect = "none"]
             d == IF result = "aborted" THEN c ELSE disconnect(c, "connect_failure")
  <2>1. tcp.sock.connect # "none" /\ (result = "aborted" => tcp.sock.connect # "pending")
    BY DEF Results
  <2>2. c = [tcp EXCEPT !.sock.connect = "none", !.state = tcp.state]
    BY <1>0 DEF TcpConnections
  <2>3. ShutdownInv(c)
    BY <1>0, <2>1, <2>2, ConnectDone
  <2>4. /\ c.state = tcp.state /\ c.login = tcp.login /\ c.hb = tcp.hb
        /\ c.sock.closing = tcp.sock.closing
        /\ c.sock.closed_signaled = tcp.sock.closed_signaled /\ c.sock.posted = tcp.sock.posted
        /\ c.socket_closed = tcp.socket_closed
        /\ c.login_timer_stopped = tcp.login_timer_stopped
        /\ c.heartbeat_timer_stopped = tcp.heartbeat_timer_stopped
    BY <1>0 DEF TcpConnections, Sockets
  <2>5. tcp' = end_of_handler(d)
    BY DEF Becomes, handle_connect_failure
  <2> HIDE DEF c
  <2>6. Steady(c) /\ Stoppable(c) /\ (c.state # "connecting" => Alive(c))
    BY <1>0, <2>4 DEF Alive, Steady, Watched, Stoppable, Signalled, is_done
  <2>7. result = "aborted" => Alive(c)
    BY <1>0, <2>1, <2>4, <2>6 DEF Alive, Watched
  <2>8. ShutdownInv(d) /\ Alive(d) /\ d.state # "disconnecting"
    <3>1. ShutdownInv(disconnect(c, "connect_failure"))
      BY <2>3, DisconnectInv DEF Disconnect_reason
    <3>2. /\ Alive(disconnect(c, "connect_failure"))
          /\ disconnect(c, "connect_failure").state = "disconnected"
      BY <2>3, <2>6, DisconnectAlive
    <3> QED BY <1>0, <2>3, <2>4, <2>7, <3>1, <3>2 DEF Underway
  <2> HIDE DEF d
  <2>9. Lively(end_of_handler(d)) /\ Settles(d, end_of_handler(d))
    BY <2>8, EndLively, HandlersSettle DEF ShutdownInv
  <2> QED BY <1>1, <2>5, <2>8, <2>9 DEF Underway, Settles
<1>3. CASE Connected
  <2> PICK early \in EarlySends, closes \in Closes, fails \in TimerFaults :
        tcp' = end_of_handler(write_login_request(connect_success(tcp, early, closes, fails)))
    BY <1>3 DEF Connected
  <2>1. closes = FALSE /\ fails \in BOOLEAN
    BY ClientAssumption DEF Closes
  <2>2. tcp.sock.connect # "none"
    BY <1>3, ResultOwed DEF Connected
  <2> QED BY <1>0, <1>1, <2>1, <2>2, ConnectSuccessUnderway
<1>4. CASE ReadFailed
  <2> PICK result \in ReadResults(tcp.sock.read) : tcp' = read_failed(tcp, result)
    BY <1>4 DEF ReadFailed, Becomes
  <2>1. Lively(tcp') /\ Settles(tcp, tcp')
    BY <1>0, ResultOwed, ReadLively, HandlersSettle
  <2> QED BY <1>0, <1>1, <2>1, SettlesUnderway
<1>5. CASE HeaderReceived \/ HeaderMalformed
  <2>1. /\ tcp.sock.read # "none"
        /\ tcp' = header_received(tcp) \/ tcp' = header_malformed(tcp)
    BY <1>5, ResultOwed DEF HeaderReceived, HeaderMalformed, Becomes
  <2>2. Lively(tcp') /\ Settles(tcp, tcp')
    BY <1>0, <2>1, ReadLively, HandlersSettle
  <2> QED BY <1>0, <1>1, <2>2, SettlesUnderway
<1>6. CASE WriteFailed
  <2> PICK result \in Results(tcp.sock.write) \ {"ok"} : tcp' = write_failed(tcp, result)
    BY <1>6 DEF WriteFailed, Becomes
  <2>1. Lively(tcp') /\ Settles(tcp, tcp')
    BY <1>0, WriteFailedLively, HandlersSettle
  <2> QED BY <1>0, <1>1, <2>1, SettlesUnderway
<1>7. CASE PacketSent
  <2> DEFINE c == [tcp EXCEPT !.sock = packet_sent([@ EXCEPT !.write = "none"])]
  <2>1. ShutdownInv(c) /\ Same(tcp, c)
    BY <1>0, <1>7, ResultOwed, PacketSentInv, PacketSentSame DEF PacketSent
  <2>2. tcp' = end_of_handler(c)
    BY <1>7 DEF PacketSent, Becomes
  <2> HIDE DEF c
  <2>3. Alive(c) /\ c.state = tcp.state
    BY <1>0, <2>1, SameAlive DEF Same
  <2>4. Lively(tcp') /\ Settles(c, tcp')
    BY <2>1, <2>2, <2>3, EndLively, HandlersSettle DEF ShutdownInv
  <2> QED BY <1>0, <1>1, <2>3, <2>4 DEF Underway, Settles
<1> QED BY <1>2, <1>3, <1>4, <1>5, <1>6, <1>7

\* The packets.
LEMMA PacketStepUnderway ==
  ASSUME IndInv, EngagedUnderway, CallbackCalls \subseteq {"send_debug"},
         \/ PacketIgnored \/ PacketInvalid \/ DebugReceived \/ LoginAccepted \/ LoginRejected
         \/ SequencedData \/ ServerHeartbeat \/ EndOfSession
  PROVE  EngagedUnderway'
<1>0. /\ PacketRead /\ engaged' = engaged
      /\ ShutdownInv(Reader) /\ Reader.state = tcp.state
  BY PacketReadInv DEF PacketIgnored, PacketInvalid, DebugReceived, LoginAccepted,
                       LoginRejected, SequencedData, ServerHeartbeat, EndOfSession,
                       Becomes, connVars
<1>1. Alive(Reader) /\ Reader.state # "disconnecting"
  BY <1>0, DoneSame, SameAlive
     DEF Reader, IndInv, PacketRead, EngagedUnderway, Underway, Lively
<1>2. ASSUME NEW c, ShutdownInv(c), Alive(c), c.state # "disconnecting",
             tcp' = read_next(c) \/ tcp' = end_of_handler(c)
      PROVE  EngagedUnderway'
  <2>1. Lively(tcp') /\ Settles(c, tcp')
    BY <1>2, EndLively, HandlersSettle DEF ShutdownInv
  <2> QED BY <1>2, <2>1 DEF EngagedUnderway, Underway, Settles
<1>3. CASE PacketIgnored \/ DebugReceived
  BY <1>0, <1>1, <1>2, <1>3 DEF PacketIgnored, DebugReceived, Becomes
<1>4. ASSUME NEW c, ShutdownInv(c), Stoppable(c), c.state # "disconnected" \/ Alive(c),
             NEW reason \in Disconnect_reason, tcp' = read_next(disconnect(c, reason))
      PROVE  EngagedUnderway'
  <2> DEFINE d == disconnect(c, reason)
  <2>1. ShutdownInv(d) /\ Alive(d) /\ d.state = "disconnected"
    BY <1>4, DisconnectInv, DisconnectAlive
  <2> HIDE DEF d
  <2> QED BY <1>2, <1>4, <2>1 DEF d
<1>5. CASE PacketInvalid
  BY <1>0, <1>1, <1>4, <1>5
     DEF PacketInvalid, Becomes, handle_protocol_violation, Disconnect_reason,
         Alive, Steady, Stoppable
<1>6. CASE LoginAccepted
  <2> PICK verdict \in LoginVerdict, closes \in Closes, fails \in TimerFaults :
        tcp' = read_next(process_login_accepted(Reader, verdict, closes, fails))
    BY <1>6 DEF LoginAccepted
  <2>1. closes = FALSE /\ fails \in BOOLEAN
    BY ClientAssumption DEF Closes
  <2>2. Underway(tcp')
    BY <1>0, <1>1, <1>6, <2>1, LoginAcceptedUnderway DEF LoginAccepted
  <2> QED BY <2>2 DEF EngagedUnderway
<1>7. CASE LoginRejected
  <2> DEFINE c == [Reader EXCEPT !.login = timer_stop(@)]
  <2>1. Reader.login \in LoginTimers /\ TimerInv(Reader.login)
    BY <1>0 DEF ShutdownInv, TcpConnections
  <2>2. Reader.login_timer_stopped => Rests(timer_stop(Reader.login))
    BY <1>0, <2>1, LoginTimerStop DEF ShutdownInv, FlagsInv, Rests
  <2>3. Reader.sock.connect = "none"
    BY <1>0, <1>7 DEF LoginRejected, ShutdownInv, StartInv
  <2>4. ShutdownInv(c)
    BY <1>0, <2>1, <2>2, <2>3, LoginTimerStop, LoginTimerReplaced
  <2>5. Steady(c)
    BY <1>0, <1>1, LeavesSteady DEF Alive
  <2>6. c.state # "disconnected"
    BY <1>0, <1>7 DEF ShutdownInv, TcpConnections, LoginRejected
  <2>7. tcp' = read_next(disconnect(c, "access_denied"))
    BY <1>7 DEF LoginRejected, Becomes
  <2> HIDE DEF c
  <2>8. Stoppable(c)
    BY <2>5 DEF Steady, Stoppable
  <2> QED BY <1>4, <2>4, <2>6, <2>7, <2>8 DEF Disconnect_reason
<1>8. CASE SequencedData \/ ServerHeartbeat \/ EndOfSession
  <2> DEFINE c == [Reader EXCEPT !.hb.received = TRUE]
  <2>1. ShutdownInv(c) /\ Same(Reader, c)
    BY <1>0, ReceiveCountInv, DoneSame
  <2>2. tcp' = read_next(c)
    BY <1>8 DEF SequencedData, ServerHeartbeat, EndOfSession, Becomes
  <2> HIDE DEF c
  <2>3. Alive(c) /\ c.state # "disconnecting"
    BY <1>1, <2>1, SameAlive DEF Same
  <2> QED BY <1>2, <2>1, <2>2, <2>3
<1> QED BY <1>3, <1>5, <1>6, <1>7, <1>8

\* The timers, the reports and the reconnect.
LEMMA TimerStepUnderway ==
  ASSUME IndInv, EngagedUnderway, CallbackCalls \subseteq {"send_debug"},
         \/ LoginWait \/ HeartbeatWait
         \/ SocketClosed \/ LoginTimerStopped \/ HeartbeatTimerStopped
         \/ ReconnectWait \/ StaleReconnectWait
  PROVE  EngagedUnderway'
<1>0. ShutdownInv(tcp) /\ tcp \in TcpConnections
  BY DEF IndInv, ShutdownInv
<1>1. ASSUME engaged PROVE Underway(tcp) /\ Lively(tcp)
  BY <1>1 DEF EngagedUnderway, Underway
<1>2. CASE LoginWait
  <2> PICK result \in Results(tcp.login.wait) : Becomes(login_wait_completed(tcp, result))
    BY <1>2 DEF LoginWait
  <2>1. engaged /\ tcp.login.wait # "none" /\ tcp' = login_wait_completed(tcp, result)
    BY <1>2, ResultOwed DEF LoginWait, Becomes
  <2>2. Lively(tcp') /\ Settles(tcp, tcp')
    BY <1>0, <1>1, <2>1, LoginWaitLively, HandlersSettle
  <2>3. Underway(tcp')
    BY <1>1, <2>1, <2>2, SettlesUnderway
  <2> QED BY <2>3 DEF EngagedUnderway
<1>3. CASE HeartbeatWait
  <2> PICK result \in Results(tcp.hb.wait), fails \in TimerFaults :
        Becomes(heartbeat_wait_completed(tcp, result, fails))
    BY <1>3 DEF HeartbeatWait
  <2>1. /\ engaged /\ tcp.hb.wait # "none" /\ fails \in BOOLEAN
        /\ tcp' = heartbeat_wait_completed(tcp, result, fails)
    BY <1>3, ClientAssumption, ResultOwed DEF HeartbeatWait, Becomes
  <2>2. Lively(tcp') /\ Settles(tcp, tcp')
    BY <1>0, <1>1, <2>1, HeartbeatWaitLively, HandlersSettle
  <2>3. Underway(tcp')
    BY <1>1, <2>1, <2>2, SettlesUnderway
  <2> QED BY <2>3 DEF EngagedUnderway
<1>4. ASSUME NEW c, ~is_done(c) => Underway(c), Report(c)
      PROVE  EngagedUnderway'
  <2>1. (~is_done(c) /\ tcp' = c) \/ ~engaged'
    BY <1>4 DEF Report, on_closed
  <2> QED BY <1>4, <2>1 DEF EngagedUnderway
<1>5. /\ "state" \in DOMAIN tcp
      /\ [tcp EXCEPT !.sock.posted = FALSE, !.socket_closed = TRUE].state = tcp.state
      /\ [tcp EXCEPT !.login.posted = FALSE, !.login_timer_stopped = TRUE].state = tcp.state
      /\ [tcp EXCEPT !.hb.posted = FALSE, !.heartbeat_timer_stopped = TRUE].state = tcp.state
  BY <1>0 DEF TcpConnections
<1>6. CASE SocketClosed
  BY <1>0, <1>1, <1>4, <1>5, <1>6, ReportLively DEF SocketClosed, Underway
<1>7. CASE LoginTimerStopped
  BY <1>0, <1>1, <1>4, <1>5, <1>7, ReportLively DEF LoginTimerStopped, Underway
<1>8. CASE HeartbeatTimerStopped
  BY <1>0, <1>1, <1>4, <1>5, <1>8, ReportLively DEF HeartbeatTimerStopped, Underway
<1>9. CASE ReconnectWait
  <2>1. \/ UNCHANGED <<engaged, tcp>>
        \/ \E opened \in BOOLEAN : tcp' = construct(opened)
    BY <1>9 DEF ReconnectWait, Emplace
  <2> QED BY <2>1, ConstructUnderway DEF EngagedUnderway, Underway
<1>10. CASE StaleReconnectWait
  BY <1>10 DEF StaleReconnectWait, connVars, EngagedUnderway, Underway
<1> QED BY <1>2, <1>3, <1>6, <1>7, <1>8, <1>9, <1>10

\* Every step leaves something under way.
LEMMA NextUnderway ==
  ASSUME IndInv, EngagedUnderway, CallbackCalls \subseteq {"send_debug"}, [Next]_vars
  PROVE  EngagedUnderway'
<1>1. CASE UNCHANGED vars
  BY <1>1 DEF vars, EngagedUnderway, Underway
<1>2. CASE Next
  BY <1>2, UserStepUnderway, SocketStepUnderway, PacketStepUnderway, TimerStepUnderway DEF Next
<1> QED BY <1>1, <1>2

\* A Tcp_connection is never left in a state that nothing takes it out of:
\* whatever the peer does, a connect completes, a wait expires or, once it is
\* disconnected, a handler is invoked that brings its end nearer.
THEOREM NotStranded ==
  ASSUME CallbackCalls \subseteq {"send_debug"}
  PROVE  Spec => []NeverStranded
<1>1. Init => EngagedUnderway
  BY DEF Init, EngagedUnderway
<1>2. IndInv /\ EngagedUnderway => NeverStranded
  <2> SUFFICES ASSUME IndInv, EngagedUnderway, engaged PROVE NeverStranded
    BY DEF NeverStranded
  <2>1. Lively(tcp) /\ tcp.state # "disconnecting" /\ tcp.state \in State
    BY DEF IndInv, TypeOK, TcpConnections, EngagedUnderway, Underway
  <2>2. tcp.state = "disconnected" => ~owes_nothing(tcp)
    BY <2>1, DisconnectedOwes
  <2> QED BY <2>1, <2>2 DEF State, NeverStranded, Lively, Alive, Steady, Watched, Lives
<1>3. "connect" \notin CallbackCalls
  OBVIOUS
<1> QED BY <1>1, <1>2, <1>3, InitInv, NextInv, NextUnderway, PTL DEF Spec

=============================================================================
