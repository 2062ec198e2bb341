------------------------ MODULE SessionLogins_proof ------------------------
(***************************************************************************)
(* Client and port agree where to go on: with one connection that starts   *)
(* with number 0 or 1, no login is refused for its session or its number   *)
(* as long as no request is accepted that the client has given up.         *)
(***************************************************************************)
EXTENDS Session_proof

\* The port has gone as far as the messages in q, which follow the number n.
Reached(q, n, reached) ==
  /\ n <= reached
  /\ \A k \in 1..Len(q) : q[k].type = "sequenced_data" => n + k <= reached

\* The port, at reached in the session cur, has not gone back under what its
\* client c still has to read from t.
Agrees(c, t, reached, cur) ==
  /\ t.client = "logged_in" /\ c.session = cur => Reached(t.down, c.next, reached)
  /\ t.client = "connected" /\ t.down # <<>> /\ Head(t.down).type = "login_accepted" =>
       LET r == Head(t.down)
       IN  /\ c.next # 0 => c.next <= r.next
           /\ r.session = cur => Reached(Tail(t.down), r.next, reached)

\* The inductive invariant, for one connection: it is where the client is, and
\* its port is not behind what it has asked for and what is on its way.
AgreeInv ==
  /\ \A i \in Conn : /\ conn[i].session = joined
                     /\ conn[i].link # NoLink => conn[i].next = next
  /\ IF joined = NoSession THEN next \in {0, 1} ELSE next \in 1..(count[joined] + 1)
  /\ late_login \/ \A i \in Conn :
       /\ joined = session => next <= port[i].next
       /\ \A l \in Link : conn[i].link = l => Agrees(conn[i], link[i][l], port[i].next, session)
  /\ LoginsAgree

-----------------------------------------------------------------------------
\* What happens to a queue.

\* Packets are lost, and the port is not behind.
LEMMA ReachedCut ==
  ASSUME NEW q \in Seq(DownPackets), NEW n \in Nat, NEW a \in Nat, NEW b \in Nat, a <= b,
         Reached(q, n, a), NEW m \in 0..Len(q)
  PROVE  Reached(SubSeq(q, 1, m), n, b)
<1> DEFINE u == SubSeq(q, 1, m)
<1>1. Len(u) = m /\ \A k \in 1..m : u[k] = q[k] /\ k \in 1..Len(q)
  BY CutQueue
<1> HIDE DEF u
<1>2. Reached(u, n, b)
  BY <1>1 DEF Reached
<1> QED
  BY <1>2 DEF u

\* A packet is written, and the port counts it if it is a message.
LEMMA ReachedAppend ==
  ASSUME NEW q \in Seq(DownPackets), NEW n \in Nat, NEW a \in Nat, NEW b \in Nat, a <= b,
         Reached(q, n, a), NEW e \in DownPackets,
         e.type = "sequenced_data" => n + Len(q) + 1 <= b
  PROVE  Reached(Append(q, e), n, b)
<1> DEFINE u == Append(q, e)
<1>1. /\ Len(q) \in Nat /\ Len(u) = Len(q) + 1 /\ u[Len(u)] = e
      /\ \A k \in 1..Len(q) : u[k] = q[k]
  BY AppendToQueue
<1> HIDE DEF u
<1>2. ASSUME NEW k \in 1..Len(u), u[k].type = "sequenced_data"
      PROVE  n + k <= b
  <2>1. k \in 1..Len(q) \/ k = Len(q) + 1
    BY <1>1
  <2>2. CASE k = Len(q) + 1
    BY <1>1, <1>2, <2>2
  <2>3. CASE k \in 1..Len(q)
    <3>1. q[k].type = "sequenced_data"
      BY <1>1, <1>2, <2>3
    <3>2. n + k <= a
      BY <2>3, <3>1 DEF Reached
    <3> QED
      BY <2>3, <3>2
  <2> QED
    BY <2>1, <2>2, <2>3
<1>3. Reached(u, n, b)
  BY <1>2 DEF Reached
<1> QED
  BY <1>3 DEF u

\* The first packet is read.
LEMMA ReachedTail ==
  ASSUME NEW q \in Seq(DownPackets), NEW n \in Nat, NEW a \in Nat, Reached(q, n, a),
         q # <<>>, Head(q).type = "sequenced_data"
  PROVE  Reached(Tail(q), n + 1, a)
<1> DEFINE u == Tail(q)
<1>1. /\ Len(u) = Len(q) - 1 /\ Len(q) \in Nat \ {0} /\ Head(q) = q[1]
      /\ \A k \in 1..Len(q) - 1 : u[k] = q[k + 1]
  BY TailOfQueue
<1> HIDE DEF u
<1>2. n + 1 <= a
  <2>1. 1 \in 1..Len(q) /\ q[1].type = "sequenced_data"
    BY <1>1
  <2> QED
    BY <2>1 DEF Reached
<1>3. ASSUME NEW k \in 1..Len(u), u[k].type = "sequenced_data"
      PROVE  n + 1 + k <= a
  <2>1. k + 1 \in 1..Len(q) /\ q[k + 1].type = "sequenced_data"
    BY <1>1, <1>3
  <2>2. n + (k + 1) <= a
    BY <2>1 DEF Reached
  <2> QED
    BY <2>2
<1>4. Reached(u, n + 1, a)
  BY <1>2, <1>3 DEF Reached
<1> QED
  BY <1>4 DEF u

\* All that is on its way is in the application's log.
LEMMA StreamReached ==
  ASSUME NEW q \in Seq(DownPackets), NEW s, NEW n, NEW cnt \in [Sessions -> Nat],
         Stream(q, s, n, cnt)
  PROVE  n \in Nat /\ cnt[s] + 1 \in Nat /\ Reached(q, n, cnt[s] + 1)
<1>1. n \in 1..(cnt[s] + 1) /\ cnt[s] \in Nat
  BY DEF Stream
<1>2. ASSUME NEW k \in 1..Len(q), q[k].type = "sequenced_data"
      PROVE  n + k <= cnt[s] + 1
  <2>1. q[k] # End_of_session
    BY <1>2 DEF End_of_session
  <2>2. n + k - 1 <= cnt[s]
    BY <2>1 DEF Stream
  <2> QED
    BY <1>1, <2>2
<1> QED
  BY <1>1, <1>2 DEF Reached

\* The session and the number in a response.
LEMMA ResponseFields ==
  ASSUME NEW q \in Seq(DownPackets), q # <<>>, Head(q).type = "login_accepted"
  PROVE  Head(q).session \in Nat /\ Head(q).next \in Nat /\ Tail(q) \in Seq(DownPackets)
<1>1. Head(q) \in DownPackets /\ Tail(q) \in Seq(DownPackets)
  BY TailOfQueue
<1> QED
  BY <1>1 DEF DownPackets, Login_rejected, End_of_session

-----------------------------------------------------------------------------
\* What happens to a TCP connection.

\* Nothing that is on its way to the client, while the port may go on.
LEMMA AgreesOn ==
  ASSUME NEW c \in Connections, NEW t \in Tcps, NEW a \in Nat, NEW b \in Nat, a <= b, NEW cur,
         Agrees(c, t, a, cur), NEW t2, t2.client = t.client, t2.down = t.down
  PROVE  Agrees(c, t2, b, cur)
<1>1. c.next \in Nat /\ t.down \in Seq(DownPackets)
  BY RecordFields, TcpFields
<1>2. \A q, n : n \in Nat /\ Reached(q, n, a) => Reached(q, n, b)
  <2> SUFFICES ASSUME NEW q, NEW n \in Nat, Reached(q, n, a)
               PROVE  Reached(q, n, b)
    OBVIOUS
  <2>1. ASSUME NEW k \in 1..Len(q), q[k].type = "sequenced_data"
        PROVE  n + k <= b
    <3>1. n + k <= a /\ k \in Int
      BY <2>1 DEF Reached
    <3> QED
      BY <3>1
  <2>2. n <= b
    BY DEF Reached
  <2> QED
    BY <2>1, <2>2 DEF Reached
<1>3. t.down # <<>> /\ Head(t.down).type = "login_accepted" => Head(t.down).next \in Nat
  BY <1>1, ResponseFields
<1> QED
  BY <1>1, <1>2, <1>3 DEF Agrees

\* The server's end is closed.
LEMMA AgreesCutOff ==
  ASSUME NEW c \in Connections, NEW t \in Tcps, NEW a \in Nat, NEW cur,
         Agrees(c, t, a, cur), NEW m \in 0..Len(t.down)
  PROVE  Agrees(c, CutOff(t, m), a, cur)
<1> DEFINE u == SubSeq(t.down, 1, m)
           t2 == CutOff(t, m)
<1>1. /\ c.next \in Nat /\ t.down \in Seq(DownPackets) /\ Len(t.down) \in Nat
      /\ t2.client = t.client /\ t2.down = u
  BY RecordFields, TcpFields, CutOffFields
<1>2. t.client = "logged_in" /\ c.session = cur => Reached(u, c.next, a)
  BY <1>1, ReachedCut DEF Agrees
<1>3. ASSUME t.client = "connected", u # <<>>, Head(u).type = "login_accepted"
      PROVE  /\ c.next # 0 => c.next <= Head(u).next
             /\ Head(u).session = cur => Reached(Tail(u), Head(u).next, a)
  <2>1. m # 0
    BY <1>1, <1>3, CutToEmpty
  <2>2. m \in 1..Len(t.down)
    BY <1>1, <2>1
  <2>3. /\ t.down # <<>> /\ Head(u) = Head(t.down) /\ Tail(u) = SubSeq(Tail(t.down), 1, m - 1)
        /\ m - 1 \in 0..Len(Tail(t.down))
    BY <1>1, <2>2, TailOfCut
  <2> DEFINE r == Head(t.down)
             q == Tail(t.down)
  <2>4. r.next \in Nat /\ q \in Seq(DownPackets)
    BY <1>1, <1>3, <2>3, ResponseFields
  <2>5. /\ c.next # 0 => c.next <= r.next
        /\ r.session = cur => Reached(q, r.next, a)
    BY <1>3, <2>3 DEF Agrees
  <2> HIDE DEF r, q, u
  <2>6. r.session = cur => \A k \in 0..Len(q) : Reached(SubSeq(q, 1, k), r.next, a)
    BY <2>4, <2>5, ReachedCut
  <2>7. Head(u) = r /\ Tail(u) = SubSeq(q, 1, m - 1) /\ m - 1 \in 0..Len(q)
    BY <2>3 DEF r, q
  <2> QED
    BY <2>5, <2>6, <2>7
<1> HIDE DEF u, t2
<1>4. Agrees(c, t2, a, cur)
  BY <1>1, <1>2, <1>3 DEF Agrees
<1> QED
  BY <1>4 DEF t2

\* A packet of the session is written.
LEMMA AgreesAppend ==
  ASSUME NEW c \in Connections, NEW t \in Tcps, NEW a \in Nat, NEW b \in Nat, a <= b, NEW cur,
         Agrees(c, t, a, cur),
         NEW e \in DownPackets, e.type # "login_accepted",
         e.type = "sequenced_data" =>
           /\ t.client = "logged_in" => c.next + Len(t.down) + 1 <= b
           /\ t.client = "connected" /\ t.down # <<>> /\ Head(t.down).type = "login_accepted" =>
                Head(t.down).next + Len(Tail(t.down)) + 1 <= b,
         NEW t2, t2.client = t.client, t2.down = Append(t.down, e)
  PROVE  Agrees(c, t2, b, cur)
<1>1. c.next \in Nat /\ t.down \in Seq(DownPackets)
  BY RecordFields, TcpFields
<1>2. t.client = "logged_in" /\ c.session = cur => Reached(t2.down, c.next, b)
  BY <1>1, ReachedAppend DEF Agrees
<1>3. ASSUME t.client = "connected", t2.down # <<>>, Head(t2.down).type = "login_accepted"
      PROVE  /\ c.next # 0 => c.next <= Head(t2.down).next
             /\ Head(t2.down).session = cur => Reached(Tail(t2.down), Head(t2.down).next, b)
  <2>1. t.down # <<>>
    <3> SUFFICES ASSUME t.down = <<>> PROVE FALSE
      OBVIOUS
    <3>1. Head(t2.down) = e
      OBVIOUS
    <3> QED
      BY <1>3, <3>1
  <2> DEFINE r == Head(t.down)
             q == Tail(t.down)
  <2>2. Head(t2.down) = r /\ Tail(t2.down) = Append(q, e)
    BY <1>1, <2>1, TailOfAppend
  <2>3. r.next \in Nat /\ q \in Seq(DownPackets)
    BY <1>1, <1>3, <2>1, <2>2, ResponseFields
  <2>4. /\ c.next # 0 => c.next <= r.next
        /\ r.session = cur => Reached(q, r.next, a)
    BY <1>3, <2>1, <2>2 DEF Agrees
  <2>5. e.type = "sequenced_data" => r.next + Len(q) + 1 <= b
    BY <1>3, <2>1, <2>2
  <2> HIDE DEF r, q
  <2>6. r.session = cur => Reached(Append(q, e), r.next, b)
    BY <2>3, <2>4, <2>5, ReachedAppend
  <2> QED
    BY <2>2, <2>4, <2>6
<1> QED
  BY <1>2, <1>3 DEF Agrees

\* The port of a new process stands at the end of the log.
LEMMA AgreesRestart ==
  ASSUME NEW c, NEW t \in Tcps, NEW p, NEW f, NEW cur, NEW cnt \in [Sessions -> Nat],
         Current(c, t, p, f, cur, cnt), NEW a, Agrees(c, t, a, cur), NEW cur2
  PROVE  Agrees(c, t, cnt[cur2] + 1, cur2)
<1>1. ASSUME t.client = "logged_in", c.session = cur2
      PROVE  Reached(t.down, c.next, cnt[cur2] + 1)
  <2>1. Follows(t.down, c.session, c.next, t.server, p, f, cur, cnt) /\ t.down \in Seq(DownPackets)
    BY <1>1, TcpFields DEF Current, Doomed
  <2> QED
    BY <1>1, <2>1, StreamReached DEF Follows
<1>2. ASSUME t.client = "connected", t.down # <<>>, Head(t.down).type = "login_accepted"
      PROVE  /\ c.next # 0 => c.next <= Head(t.down).next
             /\ Head(t.down).session = cur2 =>
                  Reached(Tail(t.down), Head(t.down).next, cnt[cur2] + 1)
  <2> DEFINE r == Head(t.down)
             q == Tail(t.down)
  <2>1. Follows(q, r.session, r.next, t.server, p, f, cur, cnt)
    BY <1>2, ResponseRead
  <2>2. q \in Seq(DownPackets) /\ (c.next # 0 => c.next <= r.next)
    BY <1>2, TcpFields, ResponseFields DEF Agrees
  <2> HIDE DEF r, q
  <2>3. r.session = cur2 => Reached(q, r.next, cnt[cur2] + 1)
    BY <2>1, <2>2, StreamReached DEF Follows
  <2> QED
    BY <2>2, <2>3 DEF r, q
<1> QED
  BY <1>1, <1>2 DEF Agrees

-----------------------------------------------------------------------------
\* The steps of the one connection i.

\* A step after which the connection is where it was, or has no TCP connection.
LEMMA Quiet ==
  ASSUME AgreeInv, NEW i \in Conn, \A j \in Conn : j = i,
         conn'[i].session = conn[i].session, conn'[i].next = conn[i].next,
         conn'[i].link \in {conn[i].link, NoLink},
         UNCHANGED <<next, joined, verdict>>, late_login => late_login',
         joined # NoSession => next \in 1..(count'[joined] + 1),
         late_login' \/ /\ joined = session' => next <= port'[i].next
                        /\ \A l \in Link : conn'[i].link = l =>
                             Agrees(conn[i], link'[i][l], port'[i].next, session')
  PROVE  AgreeInv'
<1>1. \A c, t, a, cur : Agrees(conn[i], t, a, cur) => Agrees(conn'[i], t, a, cur)
  BY DEF Agrees
<1>2. late_login' \/ \A j \in Conn :
        /\ joined' = session' => next' <= port'[j].next
        /\ \A l \in Link : conn'[j].link = l =>
             Agrees(conn'[j], link'[j][l], port'[j].next, session')
  BY <1>1
<1>3. LoginsAgree'
  BY DEF AgreeInv, LoginsAgree
<1>4. \A j \in Conn : /\ conn'[j].session = joined'
                      /\ conn'[j].link # NoLink => conn'[j].next = next'
  BY DEF AgreeInv
<1>5. IF joined' = NoSession THEN next' \in {0, 1} ELSE next' \in 1..(count'[joined'] + 1)
  BY DEF AgreeInv
<1> QED
  BY <1>2, <1>3, <1>4, <1>5 DEF AgreeInv

\* The connection leaves its TCP connection.
LEMMA DropsAgree ==
  ASSUME IndInv, AgreeInv, NEW i \in Conn, \A j \in Conn : j = i, NEW w, Drops(i, w),
         UNCHANGED <<next, session, port, count, joined, late_login>>, LoginsAgree'
  PROVE  AgreeInv'
<1>1. /\ conn' = [conn EXCEPT ![i].link = NoLink, ![i].wanted = w]
      /\ conn \in [Conn -> Connections]
  BY Facts DEF Drops
<1>2. /\ conn'[i].session = conn[i].session /\ conn'[i].next = conn[i].next
      /\ conn'[i].link = NoLink
  BY <1>1 DEF Connections
<1>3. \A l \in Link : conn'[i].link # l
  BY <1>2, SessionAssumption
<1>4. late_login' \/ \A j \in Conn :
        /\ joined' = session' => next' <= port'[j].next
        /\ \A l \in Link : conn'[j].link = l =>
             Agrees(conn'[j], link'[j][l], port'[j].next, session')
  BY <1>3 DEF AgreeInv
<1> QED
  BY <1>2, <1>4 DEF AgreeInv

\* Connect asks for the number that the client is at.
LEMMA ConnectAgree ==
  ASSUME IndInv, AgreeInv, NEW i \in Conn, \A j \in Conn : j = i, Connect(i)
  PROVE  AgreeInv'
<1>1. PICK l \in Link :
        /\ link' = [link EXCEPT ![i][l] =
                      [client |-> "connected", server |-> "connected", down |-> <<>>,
                       up |-> <<Login_request(conn[i].session, next)>>]]
        /\ conn' = [conn EXCEPT ![i].next = next, ![i].link = l]
  BY DEF Connect
<1>2. /\ UNCHANGED <<next, session, port, count, joined, verdict, late_login>>
      /\ conn \in [Conn -> Connections] /\ link \in [Conn -> [Link -> Tcps]]
  BY Facts DEF Connect, clientHistory, serverHistory
<1>3. /\ conn'[i].session = conn[i].session /\ conn'[i].next = next /\ conn'[i].link = l
  BY <1>1, <1>2 DEF Connections
<1>4. link'[i][l].client = "connected" /\ link'[i][l].down = <<>>
  BY <1>1, <1>2
<1>5. \A a, cur : Agrees(conn'[i], link'[i][l], a, cur)
  BY <1>4 DEF Agrees
<1>6. late_login' \/ \A j \in Conn :
        /\ joined' = session' => next' <= port'[j].next
        /\ \A m \in Link : conn'[j].link = m =>
             Agrees(conn'[j], link'[j][m], port'[j].next, session')
  BY <1>2, <1>3, <1>5 DEF AgreeInv
<1>7. LoginsAgree'
  BY <1>2 DEF AgreeInv, LoginsAgree
<1> QED
  BY <1>2, <1>3, <1>6, <1>7 DEF AgreeInv

\* The login succeeds, at the number that the client is at.
LEMMA LoggedInAgree ==
  ASSUME IndInv, AgreeInv, NEW i \in Conn, \A j \in Conn : j = i, ClientLoggedIn(i)
  PROVE  AgreeInv'
<1> DEFINE l == conn[i].link
           t == link[i][l]
           r == ClientPacket(i)
           q == Tail(t.down)
<1>1. /\ UNCHANGED <<session, port, count, verdict, late_login>>
      /\ l # NoLink /\ t.down # <<>> /\ Head(t.down).type = "login_accepted"
      /\ on_login_success(conn[i], r) = "none"
      /\ next' = (IF conn[i].next = 0 /\ next = 0 THEN r.next ELSE next)
      /\ joined' = (IF joined = NoSession THEN r.session ELSE joined)
      /\ conn' = [conn EXCEPT ![i].session = r.session, ![i].next = r.next]
      /\ link' = [link EXCEPT ![i][l].client = "logged_in", ![i][l].down = Tail(@)]
      /\ r = Head(t.down) /\ t.client = "connected"
  BY DEF ClientLoggedIn, ClientReads, ClientPacket, ClientState, serverHistory
<1>2. /\ next \in Nat /\ conn \in [Conn -> Connections] /\ conn[i] \in Connections
      /\ link \in [Conn -> [Link -> Tcps]] /\ count \in [Sessions -> Nat]
  BY Facts
<1>3. l \in Link /\ conn[i].next = next /\ conn[i].session = joined
  BY <1>1, <1>2, RecordFields DEF AgreeInv
<1>4. /\ t \in Tcps /\ Current(conn[i], t, port[i], final[i], session, count)
  BY <1>3, Facts DEF TcpInv
<1>5. /\ conn[i].session \in {NoSession, r.session}
      /\ Follows(q, r.session, r.next, t.server, port[i], final[i], session, count)
  BY <1>1, <1>2, <1>4, ResponseRead
<1>6. link'[i][l].client = "logged_in" /\ link'[i][l].down = q
  <2>1. link' = [link EXCEPT ![i][l] = [t EXCEPT !.client = "logged_in", !.down = Tail(@)]]
    BY <1>1, <1>2, <1>3, ZenonT(30)
  <2>2. link'[i][l] = [t EXCEPT !.client = "logged_in", !.down = Tail(@)]
    BY <1>2, <1>3, <2>1
  <2>3. /\ [t EXCEPT !.client = "logged_in", !.down = Tail(@)].client = "logged_in"
        /\ [t EXCEPT !.client = "logged_in", !.down = Tail(@)].down = q
    BY <1>4 DEF Tcps
  <2> QED BY <2>2, <2>3
<1>7. conn'[i].session = r.session /\ conn'[i].next = r.next /\ conn'[i].link = l
  BY <1>1, <1>2 DEF Connections
<1>8. r.session \in Sessions /\ r.session # NoSession /\ r.next \in 1..(count[r.session] + 1)
      /\ r.next \in Nat
  BY <1>2, <1>5, SessionAssumption DEF Follows, Stream, Sessions, NoSession
<1>9. late_login \/ Agrees(conn[i], t, port[i].next, session)
  BY <1>3 DEF AgreeInv
<1> HIDE DEF l, t, r, q
<1>10. next' = r.next /\ joined' = r.session
  <2>1. next # 0 => ~(r.next < next) /\ ~(r.next > next)
    BY <1>1, <1>3, VerdictNone
  <2>2. next # 0 => r.next = next
    BY <2>1, <1>2, <1>8
  <2> QED
    BY <1>1, <1>3, <1>5, <2>2
<1>11. late_login \/ (r.session = session => Reached(q, r.next, port[i].next))
  BY <1>1, <1>9 DEF Agrees, r, q
<1>12. \A a : Reached(q, r.next, a) => r.next <= a
  BY DEF Reached
<1>13. late_login' \/ \A j \in Conn :
         /\ joined' = session' => next' <= port'[j].next
         /\ \A m \in Link : conn'[j].link = m =>
              Agrees(conn'[j], link'[j][m], port'[j].next, session')
  <2>2. late_login' \/ (joined' = session' => next' <= port'[i].next)
    BY <1>1, <1>10, <1>11, <1>12
  <2>3. late_login' \/ Agrees(conn'[i], link'[i][l], port'[i].next, session')
    BY <1>1, <1>6, <1>7, <1>11 DEF Agrees
  <2> QED
    BY <1>7, <2>2, <2>3
<1>14. LoginsAgree'
  BY <1>1 DEF AgreeInv, LoginsAgree
<1>15. IF joined' = NoSession THEN next' \in {0, 1} ELSE next' \in 1..(count'[joined'] + 1)
  BY <1>1, <1>8, <1>10
<1> QED
  BY <1>7, <1>10, <1>13, <1>14, <1>15 DEF AgreeInv

\* A login is not refused, unless the port has accepted a request late.
LEMMA DisagreesAgree ==
  ASSUME IndInv, AgreeInv, NEW i \in Conn, \A j \in Conn : j = i, ClientDisagrees(i)
  PROVE  AgreeInv'
<1> DEFINE l == conn[i].link
           t == link[i][l]
           r == ClientPacket(i)
<1>1. /\ UNCHANGED <<next, session, port, count, joined, late_login>>
      /\ l # NoLink /\ t.down # <<>> /\ Head(t.down).type = "login_accepted"
      /\ verdict' = on_login_success(conn[i], r) /\ verdict' # "none"
      /\ Drops(i, FALSE)
      /\ r = Head(t.down) /\ t.client = "connected"
  BY DEF ClientDisagrees, ClientReads, ClientPacket, ClientState, serverHistory
<1>2. /\ next \in Nat /\ conn[i] \in Connections /\ count \in [Sessions -> Nat]
  BY Facts
<1>3. l \in Link /\ conn[i].next = next
  BY <1>1, <1>2, RecordFields DEF AgreeInv
<1>4. /\ t \in Tcps /\ Current(conn[i], t, port[i], final[i], session, count)
  BY <1>3, Facts DEF TcpInv
<1>5. /\ conn[i].session \in {NoSession, r.session} /\ (conn[i].next # 0 => r.next <= conn[i].next)
      /\ r.next \in Nat
  BY <1>1, <1>2, <1>4, ResponseRead, ResponseFields, TcpFields
<1>6. late_login \/ Agrees(conn[i], t, port[i].next, session)
  BY <1>3 DEF AgreeInv
<1> HIDE DEF l, t, r
<1>7. late_login \/ (conn[i].next # 0 => conn[i].next <= r.next)
  BY <1>1, <1>6 DEF Agrees
<1>8. conn[i].session # NoSession => r.session = conn[i].session
  BY <1>5
<1>9. conn[i].next # 0 => ~(r.next > conn[i].next) /\ (late_login \/ ~(r.next < conn[i].next))
  BY <1>2, <1>3, <1>5, <1>7
<1>10. ~(conn[i].next = 0 /\ next # 0)
  BY <1>3
<1>11. late_login /\ verdict' = "sequence_number_too_low"
  BY <1>1, <1>8, <1>9, <1>10 DEF on_login_success
<1>12. LoginsAgree'
  BY <1>1, <1>11 DEF LoginsAgree
<1> QED
  BY <1>1, <1>12, DropsAgree

\* A message is read, and the client goes on.
LEMMA DataAgree ==
  ASSUME IndInv, AgreeInv, NEW i \in Conn, \A j \in Conn : j = i, ClientReadsData(i)
  PROVE  AgreeInv'
<1> DEFINE l == conn[i].link
           t == link[i][l]
           q == Tail(t.down)
<1>1. /\ UNCHANGED <<session, port, count, joined, verdict, late_login>>
      /\ l # NoLink /\ t.down # <<>> /\ Head(t.down).type = "sequenced_data"
      /\ t.client = "logged_in"
      /\ conn' = [conn EXCEPT ![i].next = @ + 1] /\ link' = [link EXCEPT ![i][l].down = Tail(@)]
      /\ conn[i].next >= next => next' = conn[i].next + 1
  BY DEF ClientReadsData, ClientReads, ClientPacket, ClientState, Consumed, serverHistory,
         sequence_number, is_new
<1>2. /\ next \in Nat /\ conn \in [Conn -> Connections] /\ conn[i] \in Connections
      /\ link \in [Conn -> [Link -> Tcps]] /\ count \in [Sessions -> Nat]
  BY Facts
<1>3. l \in Link /\ conn[i].next = next /\ conn[i].session = joined
  BY <1>1, <1>2, RecordFields DEF AgreeInv
<1>4. t \in Tcps /\ t.down \in Seq(DownPackets) /\ port[i].next \in Nat
  BY <1>3, Facts, TcpFields, RecordFields
<1>5. joined \in Sessions /\ next \in 1..count[joined]
  BY <1>3, ClientReadsDataInv
<1>6. link'[i][l].client = "logged_in" /\ link'[i][l].down = q
  BY <1>1, <1>2, <1>3 DEF Tcps
<1>7. /\ conn'[i].session = joined /\ conn'[i].next = next + 1 /\ conn'[i].link = l
      /\ next' = next + 1
  BY <1>1, <1>2, <1>3 DEF Connections
<1>8. late_login \/ Agrees(conn[i], t, port[i].next, session)
  BY <1>3 DEF AgreeInv
<1>9. late_login \/ (joined = session => Reached(q, next + 1, port[i].next))
  <2>1. late_login \/ (joined = session => Reached(t.down, next, port[i].next))
    BY <1>1, <1>3, <1>8 DEF Agrees
  <2> HIDE DEF t
  <2> QED
    BY <1>1, <1>2, <1>4, <2>1, ReachedTail
<1> HIDE DEF l, t, q
<1>10. late_login' \/ (joined' = session' => next' <= port'[i].next)
  BY <1>1, <1>7, <1>9 DEF Reached
<1>11. late_login' \/ Agrees(conn'[i], link'[i][l], port'[i].next, session')
  BY <1>1, <1>6, <1>7, <1>9 DEF Agrees
<1>12. LoginsAgree'
  BY <1>1 DEF AgreeInv, LoginsAgree
<1>13. IF joined' = NoSession THEN next' \in {0, 1} ELSE next' \in 1..(count'[joined'] + 1)
  <2>1. joined' = joined /\ count' = count /\ joined # NoSession /\ count[joined] \in Nat
    BY <1>1, <1>2, <1>5, SessionAssumption DEF Sessions, NoSession
  <2> QED
    BY <1>5, <1>7, <2>1
<1> QED
  BY <1>1, <1>7, <1>10, <1>11, <1>12, <1>13 DEF AgreeInv

\* The end of the session is read, and nothing is left.
LEMMA EndAgree ==
  ASSUME IndInv, AgreeInv, NEW i \in Conn, \A j \in Conn : j = i, ClientReadsEndOfSession(i)
  PROVE  AgreeInv'
<1> DEFINE l == conn[i].link
           t == link[i][l]
<1>1. /\ UNCHANGED <<next, session, port, count, joined, verdict, late_login>>
      /\ l # NoLink /\ t.down # <<>> /\ Head(t.down).type = "end_of_session"
      /\ t.client = "logged_in"
      /\ conn' = [conn EXCEPT ![i] = [@ EXCEPT !.ended = TRUE]]
      /\ link' = [link EXCEPT ![i][l].down = Tail(@)]
  BY DEF ClientReadsEndOfSession, ClientReads, ClientPacket, ClientState, Consumed,
         on_end_of_session, clientHistory, serverHistory
<1>2. /\ conn \in [Conn -> Connections] /\ conn[i] \in Connections
      /\ link \in [Conn -> [Link -> Tcps]] /\ count \in [Sessions -> Nat]
  BY Facts
<1>3. l \in Link
  BY <1>1, <1>2, RecordFields
<1>4. /\ t \in Tcps /\ Current(conn[i], t, port[i], final[i], session, count)
  BY <1>3, Facts DEF TcpInv
<1>5. Tail(t.down) = <<>>
  <2>1. Head(t.down) # Sequenced_data(<<conn[i].session, conn[i].next>>)
    BY <1>1 DEF Sequenced_data
  <2> QED
    BY <1>1, <1>2, <1>4, <2>1, SessionRead
<1>6. link'[i][l].client = "logged_in" /\ link'[i][l].down = <<>>
  BY <1>1, <1>2, <1>3, <1>5 DEF Tcps
<1>7. /\ conn'[i].session = conn[i].session /\ conn'[i].next = conn[i].next /\ conn'[i].link = l
  BY <1>1, <1>2 DEF Connections
<1>8. late_login \/ Agrees(conn[i], t, port[i].next, session)
  BY <1>3 DEF AgreeInv
<1> HIDE DEF l, t
<1>9. late_login \/ Agrees(conn[i], link'[i][l], port[i].next, session)
  <2>1. \A n, a : n <= a => Reached(<<>>, n, a)
    BY DEF Reached
  <2> QED
    BY <1>1, <1>6, <1>8, <2>1 DEF Agrees, Reached
<1>10. late_login' \/ /\ joined = session' => next <= port'[i].next
                      /\ \A m \in Link : conn'[i].link = m =>
                           Agrees(conn[i], link'[i][m], port'[i].next, session')
  BY <1>1, <1>7, <1>9 DEF AgreeInv
<1>11. joined # NoSession => next \in 1..(count'[joined] + 1)
  BY <1>1 DEF AgreeInv
<1>12. conn'[i].link \in {conn[i].link, NoLink}
  BY <1>7 DEF l
<1> QED
  BY <1>1, <1>7, <1>10, <1>11, <1>12, Quiet

\* A step of the client, whichever it is.
LEMMA ClientAgree ==
  ASSUME IndInv, AgreeInv, NEW i \in Conn, \A j \in Conn : j = i,
         ClientStep(i) \/ ClientLoses(i)
  PROVE  AgreeInv'
<1>1. ASSUME NEW w, Drops(i, w), UNCHANGED <<next, session, port, count, joined, late_login, verdict>>
      PROVE  AgreeInv'
  <2>1. LoginsAgree'
    BY <1>1 DEF AgreeInv, LoginsAgree
  <2> QED
    BY <1>1, <2>1, DropsAgree
<1>2. CASE ClientReadsEnd(i) \/ ClientRejected(i) \/ ClientViolated(i) \/ ClientLoses(i)
  BY <1>1, <1>2 DEF ClientReadsEnd, ClientRejected, ClientViolated, ClientLoses,
     clientHistory, serverHistory
<1>3. CASE UserConnect(i)
  <2>1. /\ UNCHANGED <<next, link, session, port, count, joined, verdict, late_login>>
        /\ conn' = [conn EXCEPT ![i].wanted = TRUE]
    BY <1>3 DEF UserConnect, clientHistory, serverHistory
  <2>2. conn \in [Conn -> Connections]
    BY Facts
  <2>3. /\ conn'[i].session = conn[i].session /\ conn'[i].next = conn[i].next
        /\ conn'[i].link = conn[i].link
    BY <2>1, <2>2 DEF Connections
  <2>4. joined # NoSession => next \in 1..(count'[joined] + 1)
    BY <2>1 DEF AgreeInv
  <2>5. late_login' \/ /\ joined = session' => next <= port'[i].next
                       /\ \A m \in Link : conn'[i].link = m =>
                            Agrees(conn[i], link'[i][m], port'[i].next, session')
    BY <2>1, <2>3 DEF AgreeInv
  <2> QED
    BY <2>1, <2>3, <2>4, <2>5, Quiet
<1> QED
  BY <1>2, <1>3, ConnectAgree, LoggedInAgree, DisagreesAgree, DataAgree, EndAgree DEF ClientStep

-----------------------------------------------------------------------------
\* The steps of its port, and of all.

\* A step that leaves the client's connection and the session alone, in which
\* the port does not go back.
LEMMA PortAgree ==
  ASSUME IndInv, IndInv', AgreeInv, NEW i \in Conn, \A j \in Conn : j = i,
         UNCHANGED <<next, conn, session, joined, verdict>>, late_login' = late_login,
         \A s \in Sessions : count[s] <= count'[s],
         port[i].next <= port'[i].next,
         late_login \/ \A l \in Link : conn[i].link = l =>
           Agrees(conn[i], link'[i][l], port'[i].next, session)
  PROVE  AgreeInv'
<1>1. /\ count \in [Sessions -> Nat] /\ count' \in [Sessions -> Nat]
      /\ joined \in Sessions \cup {NoSession}
  BY DEF IndInv
<1>2. joined # NoSession => next \in 1..(count'[joined] + 1)
  <2> SUFFICES ASSUME joined # NoSession PROVE next \in 1..(count'[joined] + 1)
    OBVIOUS
  <2>1. joined \in Sessions /\ next \in 1..(count[joined] + 1)
    BY <1>1 DEF AgreeInv
  <2>2. count[joined] <= count'[joined] /\ count[joined] \in Nat /\ count'[joined] \in Nat
    BY <1>1, <2>1
  <2> QED
    BY <2>1, <2>2
<1>3. late_login \/ (joined = session => next <= port'[i].next)
  <2>1. next \in Nat /\ port[i].next \in Nat /\ port'[i].next \in Nat
    BY RecordFields DEF IndInv
  <2>2. late_login \/ (joined = session => next <= port[i].next)
    BY DEF AgreeInv
  <2> QED
    BY <2>1, <2>2
<1>4. late_login' \/ /\ joined = session' => next <= port'[i].next
                     /\ \A l \in Link : conn'[i].link = l =>
                          Agrees(conn[i], link'[i][l], port'[i].next, session')
  BY <1>3
<1> QED
  BY <1>2, <1>4, Quiet

\* What the client has not read is left alone, or part of it is lost.
LEMMA SameDownAgree ==
  ASSUME IndInv, IndInv', AgreeInv, NEW i \in Conn, \A j \in Conn : j = i,
         UNCHANGED <<next, conn, session, joined, verdict>>, late_login' = late_login,
         \A s \in Sessions : count[s] <= count'[s],
         port[i].next <= port'[i].next,
         \A l \in Link : \/ /\ link'[i][l].client = link[i][l].client
                            /\ link'[i][l].down = link[i][l].down
                         \/ \E m \in 0..Len(link[i][l].down) : link'[i][l] = CutOff(link[i][l], m)
  PROVE  AgreeInv'
<1>1. ASSUME NEW l \in Link, conn[i].link = l, ~late_login
      PROVE  Agrees(conn[i], link'[i][l], port'[i].next, session)
  <2>1. /\ conn[i] \in Connections /\ link[i][l] \in Tcps /\ link'[i][l] \in Tcps
        /\ port[i].next \in Nat
    BY Facts, RecordFields DEF IndInv
  <2>2. port'[i].next \in Nat
    BY RecordFields DEF IndInv
  <2>3. Agrees(conn[i], link[i][l], port[i].next, session)
    BY <1>1 DEF AgreeInv
  <2>4. CASE link'[i][l].client = link[i][l].client /\ link'[i][l].down = link[i][l].down
    BY <2>1, <2>2, <2>3, <2>4, AgreesOn
  <2>5. CASE \E m \in 0..Len(link[i][l].down) : link'[i][l] = CutOff(link[i][l], m)
    <3>1. Agrees(conn[i], link'[i][l], port[i].next, session)
      BY <2>1, <2>3, <2>5, AgreesCutOff
    <3> QED
      BY <2>1, <2>2, <3>1, AgreesOn
  <2> QED
    BY <2>4, <2>5
<1>2. late_login \/ \A l \in Link : conn[i].link = l =>
        Agrees(conn[i], link'[i][l], port'[i].next, session)
  BY <1>1
<1> QED
  BY <1>2, PortAgree

\* The log, and sending by the client.
LEMMA PublishAgree ==
  ASSUME IndInv, IndInv', AgreeInv, NEW i \in Conn, \A j \in Conn : j = i, Publish \/ ClientSend
  PROVE  AgreeInv'
<1>1. /\ UNCHANGED <<next, conn, session, joined, verdict, port>> /\ late_login' = late_login
  BY DEF Publish, ClientSend, clientHistory, serverHistory
<1>2. /\ count \in [Sessions -> Nat] /\ session \in Sessions /\ port[i].next \in Nat
      /\ \A l \in Link : link[i][l] \in Tcps
  BY Facts, RecordFields
<1>3. \A s \in Sessions : count[s] <= count'[s]
  <2>1. CASE Publish
    BY <1>2, <2>1 DEF Publish
  <2>2. CASE ClientSend
    BY <1>2, <2>2 DEF ClientSend
  <2> QED
    BY <2>1, <2>2
<1>4. ASSUME NEW l \in Link
      PROVE  link'[i][l].client = link[i][l].client /\ link'[i][l].down = link[i][l].down
  <2>1. CASE Publish
    BY <2>1 DEF Publish
  <2>2. CASE ClientSend
    <3>1. \/ link'[i][l] = link[i][l]
          \/ link'[i][l] = [link[i][l] EXCEPT !.up = Append(@, Unsequenced_data(sends'))]
      BY <2>2 DEF ClientSend
    <3> QED
      BY <1>2, <3>1 DEF Tcps
  <2> QED
    BY <2>1, <2>2
<1>5. port[i].next <= port'[i].next
  BY <1>1, <1>2
<1> QED
  BY <1>1, <1>3, <1>4, <1>5, SameDownAgree

\* The server's end is closed, the port is told, or unsequenced data are read.
LEMMA LeavesAgree ==
  ASSUME IndInv, IndInv', AgreeInv, NEW i \in Conn, \A j \in Conn : j = i, NEW l \in Link,
         ServerReadsEnd(i, l) \/ ServerLoses(i, l) \/ ServerReadsData(i, l) \/ Closed(i, l)
  PROVE  AgreeInv'
<1>1. UNCHANGED <<next, conn, session, joined, verdict, count>> /\ late_login' = late_login
  BY DEF ServerReadsEnd, ServerLoses, ServerReadsData, Closed, clientHistory, serverHistory
<1>2. /\ count \in [Sessions -> Nat] /\ port \in [Conn -> Ports] /\ port[i].next \in Nat
      /\ link \in [Conn -> [Link -> Tcps]] /\ link[i][l] \in Tcps
  BY Facts, RecordFields
<1>3. \A s \in Sessions : count[s] <= count'[s]
  BY <1>1, <1>2
<1>4. CASE ServerReadsEnd(i, l) \/ ServerLoses(i, l)
  <2>1. PICK t2 \in ServerCloses(link[i][l]) : link' = [link EXCEPT ![i][l] = t2]
    BY <1>4 DEF ServerReadsEnd, ServerLoses, Leaves
  <2>2. \E m \in 0..Len(link[i][l].down) : t2 = CutOff(link[i][l], m)
    BY <1>2, ServerClosesIsCutOff
  <2>3. link'[i][l] = t2 /\ \A m \in Link \ {l} : link'[i][m] = link[i][m]
    BY <1>2, <2>1
  <2>4. port'[i].next = port[i].next
    BY <1>4 DEF ServerReadsEnd, ServerLoses
  <2>5. port[i].next <= port'[i].next
    BY <1>2, <2>4
  <2>6. \A k \in Link : \/ /\ link'[i][k].client = link[i][k].client
                           /\ link'[i][k].down = link[i][k].down
                        \/ \E m \in 0..Len(link[i][k].down) : link'[i][k] = CutOff(link[i][k], m)
    BY <2>2, <2>3
  <2> QED
    BY <1>1, <1>3, <2>5, <2>6, SameDownAgree
<1>5. CASE ServerReadsData(i, l)
  <2>1. link' = [link EXCEPT ![i][l].up = Tail(@)] /\ port' = port
    BY <1>5 DEF ServerReadsData
  <2>2. \A k \in Link : /\ link'[i][k].client = link[i][k].client
                        /\ link'[i][k].down = link[i][k].down
    BY <1>2, <2>1 DEF Tcps
  <2>3. port[i].next <= port'[i].next
    BY <1>2, <2>1
  <2> QED
    BY <1>1, <1>3, <2>2, <2>3, SameDownAgree
<1>6. CASE Closed(i, l)
  <2>1. link' = link /\ port' = [port EXCEPT ![i].link = on_closed(i, l)]
    BY <1>6 DEF Closed
  <2>2. port[i].next <= port'[i].next
    BY <1>2, <2>1 DEF Ports
  <2> QED
    BY <1>1, <1>3, <2>1, <2>2, SameDownAgree
<1> QED
  BY <1>4, <1>5, <1>6

\* A refusal says nothing of where to go on.
LEMMA RejectedAgree ==
  ASSUME IndInv, IndInv', AgreeInv, NEW i \in Conn, \A j \in Conn : j = i,
         NEW l \in Link, LoginRejected(i, l)
  PROVE  AgreeInv'
<1>1. UNCHANGED <<next, conn, session, joined, verdict, count, port>> /\ late_login' = late_login
  BY DEF LoginRejected, clientHistory, serverHistory
<1>2. /\ count \in [Sessions -> Nat] /\ port[i].next \in Nat
      /\ link \in [Conn -> [Link -> Tcps]] /\ link[i][l] \in Tcps
      /\ TcpInv(conn[i], link[i][l], l, port[i], final[i], session, count)
  BY Facts, RecordFields
<1>3. PICK t2 \in Tcps : /\ link' = [link EXCEPT ![i][l] = t2]
                         /\ t2.up = <<>> /\ t2.down = <<Login_rejected>>
  BY LoginRejectedInv
<1>4. link'[i][l] = t2 /\ \A m \in Link \ {l} : link'[i][m] = link[i][m]
  BY <1>2, <1>3
<1>5. conn[i].link = l => t2.client # "logged_in"
  <2>1. link[i][l].server = "connected"
    BY DEF LoginRejected
  <2>2. link'[i][l].client = link[i][l].client
    BY <1>2 DEF LoginRejected, Tcps
  <2>3. link[i][l].client # "logged_in"
    BY <1>2, <2>1 DEF TcpInv, Unread
  <2> QED
    BY <1>4, <2>2, <2>3
<1>6. Head(<<Login_rejected>>).type # "login_accepted"
  BY DEF Login_rejected
<1>7. conn[i].link = l => Agrees(conn[i], t2, port[i].next, session)
  BY <1>3, <1>5, <1>6 DEF Agrees
<1>8. late_login \/ \A k \in Link : conn[i].link = k =>
        Agrees(conn[i], link'[i][k], port'[i].next, session)
  BY <1>1, <1>4, <1>7 DEF AgreeInv
<1>9. /\ \A s \in Sessions : count[s] <= count'[s]
      /\ port[i].next <= port'[i].next
  BY <1>1, <1>2
<1> QED
  BY <1>1, <1>8, <1>9, PortAgree

\* A message is sent, and the port counts it.
LEMMA PortSendAgree ==
  ASSUME IndInv, IndInv', AgreeInv, NEW i \in Conn, \A j \in Conn : j = i, PortSend(i)
  PROVE  AgreeInv'
<1> DEFINE l == port[i].link
           n == port[i].next
           e == Sequenced_data(<<session, n>>)
           t == link[i][l]
<1>1. /\ UNCHANGED <<next, conn, session, joined, verdict, count>> /\ late_login' = late_login
      /\ ~port[i].ended /\ l # NoLink /\ t.server = "logged_in"
      /\ port' = [port EXCEPT ![i].next = @ + 1]
      /\ link' = [link EXCEPT ![i][l].down = Append(@, e)]
  BY DEF PortSend, Sent, clientHistory, serverHistory
<1>2. /\ count \in [Sessions -> Nat] /\ port \in [Conn -> Ports] /\ port[i] \in Ports
      /\ session \in Sessions /\ session \in Nat /\ conn[i] \in Connections
      /\ link \in [Conn -> [Link -> Tcps]] /\ \A k \in Link : link[i][k] \in Tcps
  BY Facts
<1>3. l \in Link /\ n \in Nat
  BY <1>1, <1>2, RecordFields
<1>4. port'[i].next = n + 1
  BY <1>1, <1>2 DEF Ports
<1>5. /\ link'[i][l].client = t.client /\ link'[i][l].down = Append(t.down, e)
      /\ \A k \in Link \ {l} : link'[i][k] = link[i][k]
  BY <1>1, <1>2, <1>3 DEF Tcps
<1>6. TcpInv(conn[i], t, l, port[i], final[i], session, count)
  BY <1>3, Facts
<1>7. e \in DownPackets /\ e.type # "login_accepted"
  BY <1>2, <1>3 DEF DownPackets, Sequenced_data
<1>8. t \in Tcps /\ t.down \in Seq(DownPackets) /\ t.server = "logged_in"
  BY <1>1, <1>2, <1>3, TcpFields
<1> HIDE DEF e, n, t, l
<1>9. ASSUME conn[i].link = l
      PROVE  /\ t.client = "logged_in" => conn[i].next + Len(t.down) + 1 <= n + 1
             /\ t.client = "connected" /\ t.down # <<>> /\ Head(t.down).type = "login_accepted" =>
                  Head(t.down).next + Len(Tail(t.down)) + 1 <= n + 1
  <2>1. Current(conn[i], t, port[i], final[i], session, count)
    BY <1>6, <1>9 DEF TcpInv
  <2>2. ASSUME t.client = "logged_in"
        PROVE  conn[i].next + Len(t.down) + 1 <= n + 1
    <3>1. Follows(t.down, conn[i].session, conn[i].next, "logged_in", port[i], final[i], session, count)
      BY <1>8, <2>1, <2>2 DEF Current, Doomed
    <3>2. n = conn[i].next + Len(t.down) /\ conn[i].next \in Nat
      BY <1>1, <1>2, <1>8, <3>1, FollowsUnended, RecordFields DEF n
    <3> QED
      BY <1>8, <3>2
  <2>3. ASSUME t.client = "connected", t.down # <<>>, Head(t.down).type = "login_accepted"
        PROVE  Head(t.down).next + Len(Tail(t.down)) + 1 <= n + 1
    <3> DEFINE r == Head(t.down)
               q == Tail(t.down)
    <3>1. Follows(q, r.session, r.next, "logged_in", port[i], final[i], session, count)
      BY <1>2, <1>8, <2>1, <2>3, ResponseRead
    <3>2. q \in Seq(DownPackets) /\ r.next \in Nat
      BY <1>8, <2>3, ResponseFields
    <3> HIDE DEF r, q
    <3>3. n = r.next + Len(q) /\ Len(q) \in Nat
      BY <1>1, <1>2, <3>1, <3>2, FollowsUnended DEF n
    <3>4. r.next + Len(q) + 1 <= n + 1
      BY <3>2, <3>3
    <3> QED
      BY <3>4 DEF r, q
  <2> QED
    BY <2>2, <2>3
<1>10. ASSUME conn[i].link = l, ~late_login
       PROVE  Agrees(conn[i], link'[i][l], n + 1, session)
  <2>1. Agrees(conn[i], t, n, session)
    BY <1>3, <1>10 DEF AgreeInv, n, t
  <2>2. n + 1 \in Nat /\ n <= n + 1
    BY <1>3
  <2> QED
    BY <1>2, <1>3, <1>5, <1>7, <1>8, <1>9, <1>10, <2>1, <2>2, AgreesAppend
<1>11. ASSUME NEW k \in Link \ {l}, conn[i].link = k, ~late_login
       PROVE  Agrees(conn[i], link'[i][k], n + 1, session)
  <2>1. Agrees(conn[i], link[i][k], n, session)
    BY <1>11 DEF AgreeInv, n
  <2>2. n + 1 \in Nat /\ n <= n + 1 /\ link'[i][k] = link[i][k] /\ link[i][k] \in Tcps
    BY <1>2, <1>3, <1>5
  <2> QED
    BY <1>2, <1>3, <2>1, <2>2, AgreesOn
<1>12. late_login \/ \A k \in Link : conn[i].link = k =>
         Agrees(conn[i], link'[i][k], port'[i].next, session)
  BY <1>4, <1>10, <1>11
<1>13. /\ \A s \in Sessions : count[s] <= count'[s]
       /\ port[i].next <= port'[i].next
  BY <1>1, <1>2, <1>3, <1>4 DEF n
<1> QED
  BY <1>1, <1>12, <1>13, PortAgree

\* A login is accepted: at the number asked for, unless it is late.
LEMMA AcceptedAgree ==
  ASSUME IndInv, AgreeInv, NEW i \in Conn, \A j \in Conn : j = i,
         NEW l \in Link, LoginAccepted(i, l)
  PROVE  AgreeInv'
<1> DEFINE t == link[i][l]
           n == AcceptedAt(i, l)
           old == port[i].link
<1>1. /\ UNCHANGED <<next, conn, session, joined, verdict, count>>
      /\ late_login' = (late_login \/ conn[i].link # l)
      /\ t.up # <<>> /\ t.server = "connected" /\ Head(t.up).session \in {NoSession, session}
  BY DEF LoginAccepted, ServerReads, clientHistory
<1>2. /\ next \in Nat /\ port \in [Conn -> Ports] /\ port[i] \in Ports /\ port[i].next \in Nat
      /\ conn[i] \in Connections /\ t \in Tcps /\ link \in [Conn -> [Link -> Tcps]]
      /\ PairInv(conn[i], port[i], final[i], next, session, count)
      /\ TcpInv(conn[i], t, l, port[i], final[i], session, count)
      /\ session \in Sessions
  BY Facts, RecordFields
<1>3. PICK early \in EarlySends(i, n) : Accepted(i, l, n, early)
  BY AcceptedShape
<1> DEFINE down == login_response(n, early)
           new == LoggedIn(i, l, n, early)
<1>4. /\ n \in Nat /\ n # 0 /\ n <= port[i].next /\ early \in Nat
      /\ Answers(down, session, n, early)
  BY <1>3, AcceptedResponse
<1>5. n = rewind(port[i].next, Head(t.up))
  BY DEF AcceptedAt
<1>6. port'[i].next = n + early
  BY <1>2, <1>3 DEF Accepted, Ports
<1>7. new.client = t.client /\ new.down = down
  BY <1>2 DEF Tcps, LoggedIn
<1>8. \/ link' = [link EXCEPT ![i][l] = new]
      \/ old \in Link \ {l} /\ \E u : link' = [link EXCEPT ![i][old] = u, ![i][l] = new]
  BY <1>3 DEF Accepted
<1> HIDE DEF n, old, t, down, new
<1>9. link'[i][l] = new
  <2>1. CASE link' = [link EXCEPT ![i][l] = new]
    BY <1>2, <2>1
  <2>2. ASSUME old \in Link \ {l}, NEW u, link' = [link EXCEPT ![i][old] = u, ![i][l] = new]
        PROVE  link'[i][l] = new
    BY <1>2, <2>2
  <2> QED
    BY <1>8, <2>1, <2>2
<1>10. ASSUME conn[i].link = l, ~late_login
       PROVE  /\ joined = session => next <= n + early
              /\ Agrees(conn[i], link'[i][l], n + early, session)
  <2>1. /\ conn[i].session = joined /\ conn[i].next = next /\ l # NoLink
        /\ joined = session => next <= port[i].next
    BY <1>10, SessionAssumption DEF AgreeInv
  <2>2. t.client = "connected" /\ t.up = <<Login_request(joined, next)>>
    BY <1>1, <1>2, <1>10, <2>1 DEF TcpInv, Current, Doomed
  <2>3. Head(t.up).session = joined /\ Head(t.up).next = next
    <3>1. Head(t.up) = Login_request(joined, next)
      BY <2>2
    <3> QED
      BY <3>1 DEF Login_request
  <2>4. next # 0 => next <= port[i].next
    <3>1. joined \in {NoSession, session}
      BY <1>1, <2>3
    <3>2. joined = NoSession => next \in {0, 1}
      BY DEF AgreeInv
    <3>3. 1 <= port[i].next
      BY <1>2, <1>4
    <3> QED
      BY <2>1, <3>1, <3>2, <3>3
  <2>5. next # 0 => next <= n
    BY <1>2, <1>4, <1>5, <2>3, <2>4 DEF rewind
  <2>6. joined = session => next <= n + early
    BY <1>2, <1>4, <2>5
  <2>7. CASE early = 0 /\ down = <<Login_accepted(session, n)>>
    <3> DEFINE e == Login_accepted(session, n)
    <3>1. Head(<<e>>) = e /\ Tail(<<e>>) = <<>> /\ e.session = session /\ e.next = n
      BY DEF Login_accepted
    <3>2. Reached(<<>>, n, n) /\ n + early = n
      BY <1>4, <2>7 DEF Reached
    <3> HIDE DEF e
    <3>3. down = <<e>>
      BY <2>7 DEF e
    <3>4. Agrees(conn[i], link'[i][l], n, session)
      BY <1>7, <1>9, <2>1, <2>2, <2>5, <3>1, <3>2, <3>3 DEF Agrees
    <3> QED
      BY <2>6, <3>2, <3>4
  <2>8. CASE down # <<>> /\ Head(down).type = "sequenced_data"
    <3>1. Agrees(conn[i], link'[i][l], n + early, session)
      BY <1>7, <1>9, <2>2, <2>8 DEF Agrees
    <3> QED
      BY <2>6, <3>1
  <2> QED
    BY <1>4, <2>7, <2>8 DEF Answers
<1>11. late_login' \/ /\ joined = session' => next <= port'[i].next
                      /\ \A m \in Link : conn'[i].link = m =>
                           Agrees(conn[i], link'[i][m], port'[i].next, session')
  BY <1>1, <1>6, <1>10
<1>12. joined # NoSession => next \in 1..(count'[joined] + 1)
  BY <1>1 DEF AgreeInv
<1> QED
  BY <1>1, <1>11, <1>12, Quiet

\* The end of the session is told.
LEMMA EndSessionAgree ==
  ASSUME IndInv, IndInv', AgreeInv, NEW i \in Conn, \A j \in Conn : j = i, EndSession
  PROVE  AgreeInv'
<1>1. /\ UNCHANGED <<next, conn, session, joined, verdict, count>> /\ late_login' = late_login
      /\ port' = [k \in Conn |-> [port[k] EXCEPT !.ended = TRUE]]
  BY DEF EndSession, clientHistory
<1>2. /\ count \in [Sessions -> Nat] /\ port[i] \in Ports /\ port[i].next \in Nat
      /\ conn[i] \in Connections /\ \A l \in Link : link[i][l] \in Tcps
  BY Facts, RecordFields
<1>3. port'[i].next = port[i].next
  BY <1>1, <1>2 DEF Ports
<1>4. ASSUME NEW l \in Link, conn[i].link = l, ~late_login
      PROVE  Agrees(conn[i], link'[i][l], port[i].next, session)
  <2>1. Agrees(conn[i], link[i][l], port[i].next, session)
    BY <1>4 DEF AgreeInv
  <2>2. link'[i][l] = link[i][l] \/ link'[i][l] = [link[i][l] EXCEPT !.down = with_end(@)]
    BY DEF EndSession
  <2>3. CASE link'[i][l] = [link[i][l] EXCEPT !.down = with_end(@)]
    <3> DEFINE e == End_of_session
    <3>1. /\ link'[i][l].client = link[i][l].client
          /\ link'[i][l].down = Append(link[i][l].down, e)
      BY <1>2, <2>3 DEF Tcps, with_end
    <3>2. e \in DownPackets /\ e.type = "end_of_session"
      BY DEF DownPackets, End_of_session
    <3> HIDE DEF e
    <3> DEFINE t == link[i][l]
               t2 == link'[i][l]
    <3>3. /\ t \in Tcps /\ t2.client = t.client /\ t2.down = Append(t.down, e)
          /\ Agrees(conn[i], t, port[i].next, session) /\ port[i].next <= port[i].next
      BY <1>2, <2>1, <3>1
    <3> HIDE DEF t, t2
    <3>4. Agrees(conn[i], t2, port[i].next, session)
      BY <1>2, <3>2, <3>3, AgreesAppend
    <3> QED
      BY <3>4 DEF t2
  <2> QED
    BY <2>1, <2>2, <2>3
<1>5. late_login \/ \A l \in Link : conn[i].link = l =>
        Agrees(conn[i], link'[i][l], port'[i].next, session)
  BY <1>3, <1>4
<1>6. /\ \A s \in Sessions : count[s] <= count'[s]
      /\ port[i].next <= port'[i].next
  BY <1>1, <1>2, <1>3
<1> QED
  BY <1>1, <1>5, <1>6, PortAgree

\* A new process goes on where the log ends.
LEMMA RestartAgree ==
  ASSUME IndInv, AgreeInv, NEW i \in Conn, \A j \in Conn : j = i, Restart
  PROVE  AgreeInv'
<1>1. UNCHANGED <<next, conn, joined, verdict, count>> /\ late_login' = late_login
  BY DEF Restart, clientHistory
<1>2. PICK s \in {session, session + 1} \cap Sessions :
        session' = s /\ port' = [k \in Conn |-> NewPort(count[s] + 1)]
  BY DEF Restart
<1>3. PICK kept \in [Conn -> [Link -> 0..WriteLimit]] :
        link' = [j \in Conn |-> [l \in Link |->
                   [link[j][l] EXCEPT !.server = "closed", !.up = <<>>,
                      !.down = SubSeq(@, 1, Min({kept[j][l], Len(@)}))]]]
  BY DEF Restart
<1>4. /\ count \in [Sessions -> Nat] /\ count[s] \in Nat /\ conn[i] \in Connections
      /\ next \in Nat
  BY Facts
<1>5. port'[i].next = count[s] + 1
  BY <1>2 DEF NewPort
<1>6. joined # NoSession => next \in 1..(count[joined] + 1)
  BY DEF AgreeInv
<1>7. ASSUME NEW l \in Link, conn[i].link = l, ~late_login
      PROVE  Agrees(conn[i], link'[i][l], count[s] + 1, s)
  <2> DEFINE t == link[i][l]
             m == Min({kept[i][l], Len(t.down)})
  <2>1. /\ t \in Tcps /\ Current(conn[i], t, port[i], final[i], session, count)
        /\ Agrees(conn[i], t, port[i].next, session)
    BY <1>7, Facts DEF AgreeInv, TcpInv
  <2>2. kept[i][l] \in Nat /\ Len(t.down) \in Nat
    <3>1. kept[i][l] \in 0..WriteLimit /\ WriteLimit \in Nat
      BY SessionAssumption
    <3> QED
      BY <3>1, <2>1, TcpFields
  <2>3. m \in 0..Len(t.down)
    BY <2>2, MinIsCut
  <2>4. link'[i][l] = CutOff(t, m)
    BY <1>3 DEF CutOff
  <2> HIDE DEF m, t
  <2>5. Agrees(conn[i], t, count[s] + 1, s)
    BY <1>4, <2>1, AgreesRestart
  <2>6. count[s] + 1 \in Nat
    BY <1>4
  <2>7. Agrees(conn[i], CutOff(t, m), count[s] + 1, s)
    BY <1>4, <2>1, <2>3, <2>5, <2>6, AgreesCutOff
  <2> QED
    BY <2>4, <2>7
<1>8. joined = s => next <= count[s] + 1
  <2>1. s # NoSession
    BY SessionAssumption DEF Sessions, NoSession
  <2> QED
    BY <1>4, <1>6, <2>1
<1>9. late_login' \/ /\ joined = session' => next <= port'[i].next
                     /\ \A l \in Link : conn'[i].link = l =>
                          Agrees(conn[i], link'[i][l], port'[i].next, session')
  BY <1>1, <1>2, <1>5, <1>7, <1>8
<1>10. joined # NoSession => next \in 1..(count'[joined] + 1)
  BY <1>1, <1>6
<1> QED
  BY <1>1, <1>9, <1>10, Quiet

-----------------------------------------------------------------------------
\* Initially nothing has been asked for.
LEMMA InitAgree ==
  ASSUME Init, StartNext \subseteq {0, 1}
  PROVE  AgreeInv
<1>1. /\ next \in {0, 1} /\ joined = NoSession /\ verdict = "none"
      /\ conn = [i \in Conn |-> [session |-> NoSession, next |-> 1, ended |-> FALSE,
                                 link |-> NoLink, wanted |-> TRUE]]
      /\ session = 1
  BY DEF Init
<1>2. \A i \in Conn : conn[i].session = joined /\ conn[i].link = NoLink
  BY <1>1
<1>3. joined # session /\ \A i \in Conn, l \in Link : conn[i].link # l
  BY <1>1, <1>2, SessionAssumption DEF NoSession
<1> QED
  BY <1>1, <1>2, <1>3 DEF AgreeInv, LoginsAgree

\* Every step of the only connection and its port preserves the agreement.
LEMMA NextAgree ==
  ASSUME IndInv, IndInv', AgreeInv, \A i, j \in Conn : i = j, [Next]_vars
  PROVE  AgreeInv'
<1>1. CASE UNCHANGED vars
  <2>1. UNCHANGED <<next, conn, session, joined, verdict, late_login, count, port, link>>
    BY <1>1 DEF vars, clientHistory, serverHistory
  <2>2. LoginsAgree'
    BY <2>1 DEF LoginsAgree, AgreeInv
  <2> QED
    BY <2>1, <2>2 DEF AgreeInv
<1>2. CASE \E i \in Conn : ClientStep(i) \/ ClientLoses(i)
  BY <1>2, ClientAgree
<1>3. CASE \E i \in Conn : PortSend(i)
  BY <1>3, PortSendAgree
<1>4. CASE \E i \in Conn, l \in Link : ServerStep(i, l) \/ ServerLoses(i, l)
  BY <1>4, RejectedAgree, AcceptedAgree, LeavesAgree DEF ServerStep
<1>5. CASE Conn # {} /\ (ClientSend \/ Publish \/ EndSession \/ Restart)
  <2>1. PICK i \in Conn : TRUE
    BY <1>5
  <2> QED
    BY <1>5, <2>1, PublishAgree, EndSessionAgree, RestartAgree
<1>6. CASE Conn = {} /\ (ClientSend \/ Publish \/ EndSession \/ Restart)
  <2>1. UNCHANGED <<next, joined, verdict>> /\ late_login' = late_login
    BY <1>6 DEF ClientSend, Publish, EndSession, Restart, clientHistory, serverHistory
  <2>2. joined # NoSession => next \in 1..(count'[joined] + 1)
    <3>1. /\ count \in [Sessions -> Nat] /\ count' \in [Sessions -> Nat]
          /\ joined \in Sessions \cup {NoSession} /\ session \in Sessions
      BY DEF IndInv
    <3>2. \A s \in Sessions : count[s] <= count'[s]
      <4>1. count' = count \/ count' = [count EXCEPT ![session] = @ + 1]
        BY <1>6 DEF ClientSend, Publish, EndSession, Restart
      <4> QED
        BY <3>1, <4>1
    <3> SUFFICES ASSUME joined # NoSession PROVE next \in 1..(count'[joined] + 1)
      OBVIOUS
    <3>3. joined \in Sessions /\ next \in 1..(count[joined] + 1)
      BY <3>1 DEF AgreeInv
    <3>4. count[joined] <= count'[joined] /\ count[joined] \in Nat /\ count'[joined] \in Nat
      BY <3>1, <3>2, <3>3
    <3> QED
      BY <3>3, <3>4
  <2> QED
    BY <1>6, <2>1, <2>2 DEF AgreeInv, LoginsAgree
<1> QED
  BY <1>1, <1>2, <1>3, <1>4, <1>5, <1>6 DEF Next, Fault

\* With one connection that starts with number 0 or 1, on_login_success()
\* refuses no login, whatever is lost, rewound or restarted, except when the
\* port has accepted a request that the client had given up.
THEOREM LoginsDoAgree ==
  ASSUME \A i, j \in Conn : i = j, StartNext \subseteq {0, 1}
  PROVE  Spec => []LoginsAgree
<1>1. Init => AgreeInv
  BY InitAgree
<1>2. IndInv /\ IndInv' /\ AgreeInv /\ [Next]_vars => AgreeInv'
  BY NextAgree
<1>3. AgreeInv => LoginsAgree
  BY DEF AgreeInv
<1> QED
  BY <1>1, <1>2, <1>3, Invariance, PTL DEF Spec

=============================================================================
