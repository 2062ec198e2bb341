------------------------------ MODULE Session -------------------------------
(***************************************************************************)
(* A client::Client with its client::Connections, and the server::Ports    *)
(* they log in to, over TCP connections that deliver in order and may      *)
(* break at any moment, noticed by the two ends at different times:        *)
(* sequence numbers, sessions, rewinding, merging the data of several      *)
(* connections, superseding, the end of a session, and sending.  The life  *)
(* of each end is the subject of ClientConnection and Server; here an end  *)
(* is closed, connected or logged in.                                      *)
(*                                                                         *)
(* Every connection has an endpoint and a port of its own, as              *)
(* Client::add_connection() demands, and the user name and password of     *)
(* that port.  The server's application is taken to do what the sequence   *)
(* number of a port is for: it keeps the messages of a session in a log,   *)
(* sends message n when the port's next number is n, starts a restarted    *)
(* server at the end of its log, and does not reopen a session it ended.   *)
(***************************************************************************)
EXTENDS Naturals, Sequences, FiniteSets, SequencesExt

CONSTANTS
  Conn,         \* the connections of the client, and the ports of the server
  Link,         \* bound: the TCP connections of a client connection at a time
  NoLink, NoMessage,
  MaxSession,   \* bound: sessions are numbered in the order they are opened
  MaxMessages,  \* bound: messages published in a session
  MaxSends,     \* bound: unsequenced messages of the client
  WriteLimit,   \* write_packets_limit_, and bound: packets on their way
  StartNext,    \* values of Client::next_sequence_number_ to start with
  CallbackSends \* whether the server's application sends inside login_success()

ASSUME SessionAssumption ==
  /\ NoLink \notin Link /\ IsFiniteSet(Conn)
  /\ MaxSession \in Nat \ {0} /\ MaxMessages \in Nat /\ MaxSends \in Nat
  /\ WriteLimit \in Nat \ {0} /\ StartNext \subseteq Nat /\ CallbackSends \in BOOLEAN

Sessions  == 1..MaxSession
NoSession == 0

VARIABLES
  next,       \* Client::next_sequence_number_
  ended,      \* Client::has_session_ended_
  conn,       \* the client::Connections
  link,       \* the TCP connections: both ends and the packets on their way
  session,    \* Server::session_
  port,       \* the server::Ports
  leaving,    \* server ends that are closed, their Port::on_closed() still to come
  count,      \* the application's log: how many messages of each session
  \* History, never read by the code:
  joined,     \* the session the client is in
  got,        \* the last message handed to the client's application
  final,      \* where a port stood when its session ended
  verdict,    \* the last verdict on a login that was not "none"
  late_login, \* a port has accepted a login that the client no longer waits for
  sends,      \* unsequenced messages so far, and those
  refused,    \*   that send_message() refused,
  arrived     \*   that reached the server's application

vars == <<next, ended, conn, link, session, port, leaving, count, joined, got, final,
          verdict, late_login, sends, refused, arrived>>

clientHistory == <<joined, got, verdict>>
serverHistory == <<final, late_login>>
sendVars      == <<sends, refused, arrived>>

Connections == [session : Sessions \cup {NoSession}, \* session_
                next    : Nat,                       \* next_sequence_number_
                ended   : BOOLEAN,                   \* has_session_ended_
                link    : Link \cup {NoLink},        \* connection_
                wanted  : BOOLEAN] \* a reconnect is scheduled, or connect() called

Ports == [next  : Nat,                               \* next_sequence_number_
          ended : BOOLEAN,                           \* has_session_ended_
          link  : Link \cup {NoLink}]                \* connection_

EndState == {"closed", "connected", "logged_in"}

NoTcp == [client |-> "closed", server |-> "closed", up |-> <<>>, down |-> <<>>]

Login_request(s, n)  == [type |-> "login_request", session |-> s, next |-> n]
Login_accepted(s, n) == [type |-> "login_accepted", session |-> s, next |-> n]
Login_rejected       == [type |-> "login_rejected"]
Sequenced_data(m)    == [type |-> "sequenced_data", message |-> m]
Unsequenced_data(m)  == [type |-> "unsequenced_data", message |-> m]
End_of_session       == [type |-> "end_of_session"]

NewPort(n) == [next |-> n, ended |-> FALSE, link |-> NoLink]

Init ==
  /\ next \in StartNext /\ ended = FALSE
  /\ conn = [i \in Conn |-> [session |-> NoSession, next |-> 1, ended |-> FALSE,
                             link |-> NoLink, wanted |-> TRUE]]
  /\ link = [i \in Conn |-> [l \in Link |-> NoTcp]]
  /\ session = 1 /\ port = [i \in Conn |-> NewPort(1)] /\ leaving = {}
  /\ count = [s \in Sessions |-> 0]
  /\ joined = NoSession /\ got = NoMessage /\ final = [i \in Conn |-> 0]
  /\ verdict = "none" /\ late_login = FALSE
  /\ sends = 0 /\ refused = {} /\ arrived = {}

-----------------------------------------------------------------------------
\* The two ways in which an end leaves a TCP connection.  What it had written
\* may be lost, but only from some packet on; what it has not read is lost.

ClientCloses(t) ==
  {[t EXCEPT !.client = "closed", !.down = <<>>, !.up = sent] : sent \in Prefixes(t.up)}

ServerCloses(t) ==
  {[t EXCEPT !.server = "closed", !.up = <<>>, !.down = sent] :
     sent \in IF t.client = "closed" THEN {<<>>} ELSE Prefixes(t.down)}

\* The connection i leaves its TCP connection; wanted: it is to reconnect.
Drops(i, wanted) ==
  LET l == conn[i].link
  IN  /\ \E t \in ClientCloses(link[i][l]) : link' = [link EXCEPT ![i][l] = t]
      /\ conn' = [conn EXCEPT ![i].link = NoLink, ![i].wanted = wanted]

-----------------------------------------------------------------------------
\* The client: connecting.

\* What stands for a TCP connection is free for another one.
Free(i, l) ==
  {link[i][l].client, link[i][l].server} = {"closed"} /\ <<i, l>> \notin leaving

\* Connection::on_connect_success()
Connect(i) ==
  /\ conn[i].wanted /\ conn[i].link = NoLink
  /\ \E l \in {k \in Link : Free(i, k)} :
       /\ link' = [link EXCEPT ![i][l] =
                     [client |-> "connected", server |-> "connected", down |-> <<>>,
                      up |-> <<Login_request(conn[i].session, next)>>]]
       /\ conn' = [conn EXCEPT ![i].next = next, ![i].link = l]
  /\ UNCHANGED <<next, ended, session, port, leaving, count, clientHistory, serverHistory,
                 sendVars>>

\* connect() after the connection was closed or has given up.
UserConnect(i) ==
  /\ ~conn[i].wanted
  /\ conn' = [conn EXCEPT ![i].wanted = TRUE]
  /\ UNCHANGED <<next, ended, link, session, port, leaving, count, clientHistory, serverHistory,
                 sendVars>>

\* An error, a time-out, or close(), which asks for no other attempt.
ClientLoses(i) ==
  /\ conn[i].link # NoLink
  /\ \E wanted \in BOOLEAN : Drops(i, wanted)
  /\ UNCHANGED <<next, ended, session, port, leaving, count, clientHistory, serverHistory,
                 sendVars>>

\* read_end_of_file(): peer_closed is retried.
ClientReadsEnd(i) ==
  LET l == conn[i].link
  IN  /\ l # NoLink /\ link[i][l].server = "closed" /\ link[i][l].down = <<>>
      /\ Drops(i, TRUE)
      /\ UNCHANGED <<next, ended, session, port, leaving, count, clientHistory, serverHistory,
                 sendVars>>

-----------------------------------------------------------------------------
\* The client: packets received.

ClientState(i) == IF conn[i].link = NoLink THEN "closed" ELSE link[i][conn[i].link].client

ClientReads(i, type) ==
  /\ conn[i].link # NoLink
  /\ link[i][conn[i].link].down # <<>>
  /\ Head(link[i][conn[i].link].down).type = type

ClientPacket(i) == Head(link[i][conn[i].link].down)

\* process_packet() finds the packet's moment and number right.
Expected(i) ==
  LET packet == ClientPacket(i)
  IN  CASE packet.type = "sequenced_data" -> ClientState(i) = "logged_in" /\ ~conn[i].ended
        [] packet.type = "end_of_session" -> ClientState(i) = "logged_in"
        [] packet.type = "login_accepted" -> ClientState(i) = "connected" /\ packet.next # 0
        [] OTHER -> ClientState(i) = "connected"

Consumed(i) == link' = [link EXCEPT ![i][conn[i].link].down = Tail(@)]

\* Faulty: a response that is ahead of the client is accepted.
on_login_success_trusting(c, response) ==
  IF c.session # NoSession /\ response.session # c.session THEN "session_mismatch" ELSE "none"

\* The Disconnect_reason that Connection::on_login_success() returns.
on_login_success(c, response) ==
  CASE c.session # NoSession /\ response.session # c.session -> "session_mismatch"
    [] c.next # 0 /\ response.next < c.next -> "sequence_number_too_low"
    [] c.next # 0 /\ response.next > c.next -> "sequence_number_too_high"
    [] c.next = 0 /\ next # 0 /\ response.next > next -> "sequence_number_ahead_of_session"
    [] OTHER -> "none"

ClientLoggedIn(i) ==
  /\ ClientReads(i, "login_accepted") /\ ClientState(i) = "connected"
  /\ LET response == ClientPacket(i)
     IN  /\ response.next # 0 /\ on_login_success(conn[i], response) = "none"
         /\ conn' = [conn EXCEPT ![i].session = response.session, ![i].next = response.next]
         /\ next' = IF conn[i].next = 0 /\ next = 0 THEN response.next ELSE next
         /\ joined' = IF joined = NoSession THEN response.session ELSE joined
  /\ link' = [link EXCEPT ![i][conn[i].link].client = "logged_in",
                          ![i][conn[i].link].down = Tail(@)]
  /\ UNCHANGED <<ended, session, port, leaving, count, got, serverHistory, verdict, sendVars>>

\* The server's answer does not fit: no reason of these is retried.
ClientDisagrees(i) ==
  /\ ClientReads(i, "login_accepted") /\ ClientState(i) = "connected"
  /\ ClientPacket(i).next # 0 /\ on_login_success(conn[i], ClientPacket(i)) # "none"
  /\ verdict' = on_login_success(conn[i], ClientPacket(i))
  /\ Drops(i, FALSE)
  /\ UNCHANGED <<next, ended, session, port, leaving, count, joined, got, serverHistory, sendVars>>

\* access_denied is not retried either.
ClientRejected(i) ==
  /\ ClientReads(i, "login_rejected") /\ ClientState(i) = "connected"
  /\ Drops(i, FALSE)
  /\ UNCHANGED <<next, ended, session, port, leaving, count, clientHistory, serverHistory,
                 sendVars>>

\* handle_protocol_violation(), which is not retried: NoViolation says when.
ClientViolated(i) ==
  /\ conn[i].link # NoLink /\ link[i][conn[i].link].down # <<>> /\ ~Expected(i)
  /\ Drops(i, FALSE)
  /\ UNCHANGED <<next, ended, session, port, leaving, count, clientHistory, serverHistory,
                 sendVars>>

\* Faulty: what another connection has brought already is handed over again.
is_new_always(number) == TRUE

\* Faulty: the connection's number is one too low.
sequence_number_low(i) == conn[i].next - 1

\* The number Connection::on_sequenced_data() gives a message.
sequence_number(i) == conn[i].next

\* Client::on_sequenced_data(): a message that another connection has brought
\* already is dropped.
is_new(number) == number >= next

ClientReadsData(i) ==
  /\ ClientReads(i, "sequenced_data") /\ ClientState(i) = "logged_in" /\ ~conn[i].ended
  /\ conn' = [conn EXCEPT ![i].next = @ + 1]
  /\ IF is_new(sequence_number(i))
     THEN next' = sequence_number(i) + 1 /\ got' = ClientPacket(i).message
     ELSE UNCHANGED <<next, got>>
  /\ Consumed(i)
  /\ UNCHANGED <<ended, session, port, leaving, count, joined, serverHistory, verdict, sendVars>>

on_end_of_session(c) == [c EXCEPT !.ended = TRUE]

\* on_end_of_session() of the connection and then of the client.
ClientReadsEndOfSession(i) ==
  /\ ClientReads(i, "end_of_session") /\ ClientState(i) = "logged_in"
  /\ conn' = [conn EXCEPT ![i] = on_end_of_session(@)] /\ ended' = TRUE
  /\ Consumed(i)
  /\ UNCHANGED <<next, session, port, leaving, count, clientHistory, serverHistory, sendVars>>

-----------------------------------------------------------------------------
\* The client: Client::send_message().

\* What sending on the connection i returns.
send_packet(i) ==
  CASE conn[i].ended                                      -> "session_ended"
    [] ~conn[i].ended /\ conn[i].link = NoLink            -> "disconnected"
    [] ~conn[i].ended /\ ClientState(i) = "connected"     -> "not_logged_in"
    [] ~conn[i].ended /\ ClientState(i) = "logged_in"     ->
         IF Len(link[i][conn[i].link].up) >= WriteLimit THEN "buffer_full" ELSE "none"

\* Faulty: an error counts more than the success of another connection.
priority_error_first(errors) ==
  CASE "buffer_full" \in errors   -> "buffer_full"
    [] errors = {"none"}          -> "none"
    [] OTHER                      -> "disconnected"

\* The result of sending on all of several connections, from theirs.
priority_error(errors) ==
  CASE "none" \in errors -> "none"
    [] "none" \notin errors /\ "buffer_full" \in errors -> "buffer_full"
    [] errors \cap {"none", "buffer_full"} = {} /\ "not_logged_in" \in errors -> "not_logged_in"
    [] OTHER -> "disconnected"

send_all ==
  LET errors == {send_packet(i) : i \in Conn}
  IN  CASE ended                    -> "session_ended"
        [] ~ended /\ Cardinality(Conn) = 1 -> CHOOSE e \in errors : TRUE
        [] OTHER                    -> priority_error(errors)

ClientSend ==
  /\ sends < MaxSends /\ sends' = sends + 1
  /\ refused' = IF send_all = "none" THEN refused ELSE refused \cup {sends'}
  /\ link' = [i \in Conn |-> [l \in Link |->
                IF ~ended /\ conn[i].link = l /\ send_packet(i) = "none"
                THEN [link[i][l] EXCEPT !.up = Append(@, Unsequenced_data(sends'))]
                ELSE link[i][l]]]
  /\ UNCHANGED <<next, ended, conn, session, port, leaving, count, clientHistory, serverHistory,
                 arrived>>

-----------------------------------------------------------------------------
\* The server: logging in.

ServerReads(i, l, type) ==
  link[i][l].up # <<>> /\ Head(link[i][l].up).type = type

\* A request for another session is answered and the connection closed once
\* the answer is written.
LoginRejected(i, l) ==
  /\ ServerReads(i, l, "login_request") /\ link[i][l].server = "connected"
  /\ Head(link[i][l].up).session \notin {NoSession, session}
  /\ link' = [link EXCEPT ![i][l].server = "closed", ![i][l].up = <<>>,
                          ![i][l].down = <<Login_rejected>>]
  /\ UNCHANGED <<next, ended, conn, session, port, leaving, count, clientHistory, serverHistory,
                 sendVars>>

\* Faulty: the port goes on where it is.
rewind_nothing(n, request) == n

\* Port::on_login_request(): the port goes back to the number asked for, but
\* not ahead; zero asks for none.
rewind(n, request) == IF request.next # 0 /\ request.next < n THEN request.next ELSE n

\* supersede() does nothing to an end that is closed already.
superseded(t) == IF t.server = "logged_in" THEN ServerCloses(t) ELSE {t}

\* How many messages the application may send inside the login_success()
\* callback, when the port stands at n.
EarlySends(i, n) ==
  {0} \cup {k \in 1..WriteLimit :
             CallbackSends /\ ~port[i].ended /\ n + k - 1 <= count[session]}

\* Those messages are queued before the response, which is dropped if they
\* have filled the queue.
login_response(n, early) ==
  LET data == [k \in 1..early |-> Sequenced_data(<<session, n + k - 1>>)]
  IN  IF early < WriteLimit THEN Append(data, Login_accepted(session, n)) ELSE data

\* Port::on_login_request(), the callback and the response.  The TCP
\* connection that was logged in to the port is superseded; the port no longer
\* points at it when it runs Port::on_closed().
LoginAccepted(i, l) ==
  /\ ServerReads(i, l, "login_request") /\ link[i][l].server = "connected"
  /\ Head(link[i][l].up).session \in {NoSession, session}
  /\ LET old == port[i].link
         n   == rewind(port[i].next, Head(link[i][l].up))
     IN  \E early \in EarlySends(i, n) :
           LET new == [link[i][l] EXCEPT !.server = "logged_in", !.up = Tail(@),
                                         !.down = login_response(n, early)]
           IN  /\ port' = [port EXCEPT ![i].next = n + early, ![i].link = l]
               /\ IF old = NoLink
                  THEN link' = [link EXCEPT ![i][l] = new] /\ UNCHANGED leaving
                  ELSE /\ \E t \in superseded(link[i][old]) :
                            link' = [link EXCEPT ![i][old] = t, ![i][l] = new]
                       /\ leaving' = leaving \cup {<<i, old>>}
  /\ late_login' = (late_login \/ conn[i].link # l)
  /\ UNCHANGED <<next, ended, conn, session, count, clientHistory, final, sendVars>>

-----------------------------------------------------------------------------
\* The server: unsequenced data, and the end of a TCP connection.

ServerReadsData(i, l) ==
  /\ ServerReads(i, l, "unsequenced_data") /\ link[i][l].server = "logged_in"
  /\ arrived' = IF port[i].ended THEN arrived ELSE arrived \cup {Head(link[i][l].up).message}
  /\ link' = [link EXCEPT ![i][l].up = Tail(@)]
  /\ UNCHANGED <<next, ended, conn, session, port, leaving, count, clientHistory, serverHistory,
                 sends, refused>>

\* Faulty: the port forgets whatever TCP connection it has.
on_closed_any(i, l) == NoLink

\* Port::on_closed()
on_closed(i, l) == IF port[i].link = l THEN NoLink ELSE port[i].link

\* disconnect(): a connection with a port has it told later.
Leaves(i, l) ==
  /\ \E t \in ServerCloses(link[i][l]) : link' = [link EXCEPT ![i][l] = t]
  /\ leaving' = IF link[i][l].server = "logged_in" THEN leaving \cup {<<i, l>>} ELSE leaving

\* maybe_signal_closed(), for a connection with a port: the socket is closed,
\* and its timers have stopped.
Closed(i, l) ==
  /\ <<i, l>> \in leaving /\ link[i][l].server = "closed"
  /\ leaving' = leaving \ {<<i, l>>}
  /\ port' = [port EXCEPT ![i].link = on_closed(i, l)]
  /\ UNCHANGED <<next, ended, conn, link, session, count, clientHistory, serverHistory,
                 sendVars>>

\* An error, a time-out or a logout.
ServerLoses(i, l) ==
  /\ link[i][l].server # "closed" /\ Leaves(i, l)
  /\ UNCHANGED <<next, ended, conn, session, port, count, clientHistory, serverHistory,
                 sendVars>>

ServerReadsEnd(i, l) ==
  /\ link[i][l].server # "closed"
  /\ link[i][l].client = "closed" /\ link[i][l].up = <<>>
  /\ Leaves(i, l)
  /\ UNCHANGED <<next, ended, conn, session, port, count, clientHistory, serverHistory,
                 sendVars>>

-----------------------------------------------------------------------------
\* The server: sending, the end of the session, and a new process.

\* The application adds a message to its log.
Publish ==
  /\ count[session] < MaxMessages /\ \A i \in Conn : ~port[i].ended
  /\ count' = [count EXCEPT ![session] = @ + 1]
  /\ UNCHANGED <<next, ended, conn, link, session, port, leaving, clientHistory, serverHistory,
                 sendVars>>

\* Faulty: the queue takes one packet too many.
Sent_late(i) ==
  /\ ~port[i].ended /\ port[i].link # NoLink
  /\ link[i][port[i].link].server = "logged_in"
  /\ Len(link[i][port[i].link].down) <= WriteLimit

\* Faulty: the port goes on after the end of its session.
Sent_after_end(i) ==
  /\ port[i].link # NoLink /\ link[i][port[i].link].server = "logged_in"
  /\ Len(link[i][port[i].link].down) < WriteLimit

\* Whether Port::send_message() returns none.
Sent(i) ==
  /\ ~port[i].ended /\ port[i].link # NoLink
  /\ link[i][port[i].link].server = "logged_in"
  /\ Len(link[i][port[i].link].down) < WriteLimit

\* Port::send_message() of the message that the port's number asks for.  The
\* calls that change nothing are not steps.
PortSend(i) ==
  /\ port[i].next <= count[session] /\ Sent(i)
  /\ port' = [port EXCEPT ![i].next = @ + 1]
  /\ link' = [link EXCEPT ![i][port[i].link].down =
                Append(@, Sequenced_data(<<session, port[i].next>>))]
  /\ UNCHANGED <<next, ended, conn, session, leaving, count, clientHistory, serverHistory,
                 sendVars>>

\* Faulty: end of session is queued in front.
with_end_first(packets) == <<End_of_session>> \o packets

with_end(packets) == Append(packets, End_of_session)

\* Server::end_session(): best effort, and only for who is logged in.
EndSession ==
  /\ \E i \in Conn : ~port[i].ended
  /\ link' = [i \in Conn |-> [l \in Link |->
                IF port[i].link = l /\ Sent(i)
                THEN [link[i][l] EXCEPT !.down = with_end(@)]
                ELSE link[i][l]]]
  /\ port' = [i \in Conn |-> [port[i] EXCEPT !.ended = TRUE]]
  /\ final' = [i \in Conn |-> IF port[i].ended THEN final[i] ELSE port[i].next]
  /\ UNCHANGED <<next, ended, conn, session, leaving, count, clientHistory, late_login,
                 sendVars>>

\* The server's process ends and another takes over, for the same session or
\* for the next.
Restart ==
  /\ \E s \in {session, session + 1} \cap Sessions :
       /\ s = session => \A i \in Conn : ~port[i].ended
       /\ session' = s /\ port' = [i \in Conn |-> NewPort(count[s] + 1)]
       /\ final' = [i \in Conn |-> IF s = session THEN final[i] ELSE 0]
  /\ leaving' = {}
  /\ \E kept \in [Conn -> [Link -> 0..WriteLimit]] :
       link' = [i \in Conn |-> [l \in Link |->
                  [link[i][l] EXCEPT !.server = "closed", !.up = <<>>,
                     !.down = SubSeq(@, 1, Min({kept[i][l], Len(@)}))]]]
  /\ UNCHANGED <<next, ended, conn, count, clientHistory, late_login, sendVars>>

-----------------------------------------------------------------------------
ClientStep(i) ==
  \/ Connect(i) \/ UserConnect(i) \/ ClientReadsEnd(i) \/ ClientLoggedIn(i)
  \/ ClientDisagrees(i) \/ ClientRejected(i) \/ ClientReadsData(i)
  \/ ClientReadsEndOfSession(i) \/ ClientViolated(i)

ServerStep(i, l) ==
  \/ LoginRejected(i, l) \/ LoginAccepted(i, l) \/ ServerReadsData(i, l)
  \/ ServerReadsEnd(i, l) \/ Closed(i, l)

\* What only faults and the applications bring about.
Fault ==
  \/ \E i \in Conn : ClientLoses(i) \/ \E l \in Link : ServerLoses(i, l)
  \/ EndSession \/ Restart

Next ==
  \/ \E i \in Conn : ClientStep(i) \/ PortSend(i) \/ \E l \in Link : ServerStep(i, l)
  \/ ClientSend \/ Publish \/ Fault

Spec == Init /\ [][Next]_vars

\* Both ends read, answer and send what the application has for them, and a
\* connection that is to reconnect does.  Nothing is assumed of faults, of
\* what the applications publish, and of calls of connect().
Fairness ==
  \A i \in Conn :
    /\ WF_vars(Connect(i)) /\ WF_vars(PortSend(i))
    /\ WF_vars(ClientLoggedIn(i) \/ ClientDisagrees(i) \/ ClientRejected(i)
               \/ ClientReadsData(i) \/ ClientReadsEndOfSession(i) \/ ClientViolated(i)
               \/ ClientReadsEnd(i))
    /\ \A l \in Link :
         /\ WF_vars(LoginRejected(i, l) \/ LoginAccepted(i, l) \/ ServerReadsData(i, l)
                    \/ ServerReadsEnd(i, l))
         /\ WF_vars(Closed(i, l))

FairSpec == Spec /\ Fairness

-----------------------------------------------------------------------------
\* Every variable has its type, and no queue exceeds its bound.
TypeOK ==
  /\ next \in Nat /\ ended \in BOOLEAN /\ conn \in [Conn -> Connections]
  /\ \A i \in Conn, l \in Link :
       /\ {link[i][l].client, link[i][l].server} \subseteq EndState
       /\ Len(link[i][l].up) <= WriteLimit /\ Len(link[i][l].down) <= WriteLimit
  /\ session \in Sessions /\ port \in [Conn -> Ports] /\ leaving \subseteq Conn \X Link
  /\ joined \in Sessions \cup {NoSession} /\ final \in [Conn -> Nat]
  /\ refused \cup arrived \subseteq 1..sends

\* The assertion in Client::on_sequenced_data() holds: a connection that is
\* logged in is never ahead of the client, however the connections lose and
\* regain their TCP connections and whoever brought a message first.
NeverAhead ==
  \A i \in Conn : ClientState(i) = "logged_in" => conn[i].next <= next

\* Peers that are both this library find each other in violation of the
\* protocol in one case only: what the server's application sends inside the
\* login_success() callback goes before the response to the login, and the
\* client takes the data for a violation.  Otherwise no packet arrives in a
\* state in which process_packet() does not expect it, such as data on a
\* connection whose session has ended.
NoViolation ==
  \A i \in Conn :
    /\ conn[i].link # NoLink /\ link[i][conn[i].link].down # <<>> =>
         \/ Expected(i)
         \/ /\ CallbackSends /\ ClientPacket(i).type = "sequenced_data"
            /\ ClientState(i) = "connected"
    /\ \A l \in Link : link[i][l].up # <<>> =>
         (link[i][l].server = "connected") = (Head(link[i][l].up).type = "login_request")

\* Client and port agree where to go on: with one connection that starts with
\* number 0 or 1, no sequence of losses, rewinds, restarts and new sessions
\* makes on_login_success() refuse a login, which would end the connection for
\* good.  The exception is a login request that the client has given up: when
\* the port accepts it late, it goes back under the connection that follows.
LoginsAgree == verdict # "none" => late_login /\ verdict = "sequence_number_too_low"

\* The end of the session is not told before the data: a connection that was
\* told has brought every message that its port sent before end_session(),
\* and the client's application has them.
EndAfterData ==
  \A i \in Conn : conn[i].ended /\ conn[i].session = session => next >= final[i]

\* What a client said was not sent is not sent by one of its connections
\* after all: a caller that repeats a message after an error never repeats
\* one that the server gets.
RefusedIsNotSent == refused \cap arrived = {}

\* The client hands over exactly what Feed says.
TheFeed == INSTANCE Feed

\* With any number of connections that come and go, the application sees one
\* feed: no gap, no message twice, none under another's number.
ImplementsFeed == TheFeed!Spec

\* From some time on nothing breaks and nobody closes, ends or restarts.
Calm ==
  /\ <>[][~Fault]_vars
  /\ <>[](\A i \in Conn : conn[i].wanted /\ ~port[i].ended)

\* A message that was published is handed over in the end, whatever broke
\* before: no sequence of losses leaves client and port waiting for each other.
Delivered == Calm => TheFeed!Progress

=============================================================================
