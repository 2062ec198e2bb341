---------------------------- MODULE Session_proof ---------------------------
(***************************************************************************)
(* What the library promises an application, for any number of             *)
(* connections, sessions, messages and TCP connections: the client hands   *)
(* over one feed without a gap (Feed), it is never ahead of itself, a peer *)
(* finds the other in violation of the protocol in one case only, the end  *)
(* of a session follows its data, and what was refused is not sent.        *)
(***************************************************************************)
EXTENDS Session, FiniteSetTheorems, TLAPS

\* What is on its way in either direction.
UpPackets ==
  [type : {"login_request"}, session : Nat, next : Nat]
    \cup [type : {"unsequenced_data"}, message : Nat]

DownPackets ==
  [type : {"login_accepted"}, session : Nat, next : Nat]
    \cup [type : {"sequenced_data"}, message : Nat \X Nat]
    \cup {Login_rejected, End_of_session}

\* All that a TCP connection can be.
Tcps == [client : EndState, server : EndState, up : Seq(UpPackets), down : Seq(DownPackets)]

\* The packets q carry the messages of session s from number n on, all of
\* them published, and then perhaps the end of the session.
Stream(q, s, n, cnt) ==
  /\ s \in Sessions /\ n \in 1..(cnt[s] + 1)
  /\ \A k \in 1..Len(q) :
       \/ q[k] = Sequenced_data(<<s, n + k - 1>>) /\ n + k - 1 <= cnt[s]
       \/ q[k] = End_of_session /\ k = Len(q)

\* The end of the session is on its way.
EndTold(q) == Len(q) # 0 /\ q[Len(q)] = End_of_session

\* How the packets q that follow n in the session s relate to the port p,
\* whose session is cur and which stood at f when that session ended.  It is
\* p that sends them while the server's end is logged in.
Follows(q, s, n, srv, p, f, cur, cnt) ==
  /\ Stream(q, s, n, cnt)
  /\ s <= cur
  /\ s = cur /\ EndTold(q) => p.ended /\ f = n + Len(q) - 1
  /\ srv = "logged_in" => s = cur /\ (~p.ended => p.next = n + Len(q))

\* The server's application has sent inside login_success(): the client has yet
\* to find data where it expects the response, and to give up.
Doomed(t) ==
  /\ CallbackSends /\ t.client = "connected" /\ t.server # "connected"
  /\ t.down # <<>> /\ Head(t.down).type = "sequenced_data"

\* The TCP connection t of the client's connection c.
Current(c, t, p, f, cur, cnt) ==
  \/ /\ t.client = "logged_in" /\ t.server # "connected"
         /\ Follows(t.down, c.session, c.next, t.server, p, f, cur, cnt)
     /\ c.ended => t.down = <<>>
  \/ /\ t.client = "connected" /\ t.server = "connected"
     /\ t.up = <<Login_request(c.session, c.next)>> /\ t.down = <<>>
  \/ /\ t.client = "connected" /\ t.server = "closed"
     /\ t.down \in {<<>>, <<Login_rejected>>}
  \/ /\ t.client = "connected" /\ t.server # "connected" /\ t.down # <<>>
     /\ LET r == Head(t.down)
        IN  /\ r = Login_accepted(r.session, r.next)
            /\ c.session \in {NoSession, r.session} /\ (c.next # 0 => r.next <= c.next)
            /\ Follows(Tail(t.down), r.session, r.next, t.server, p, f, cur, cnt)
     /\ c.ended => Tail(t.down) = <<>>
  \/ Doomed(t)

\* What the server has not read: a request before its answer, then data.
Unread(t) ==
  IF t.server = "connected"
  THEN t.client # "logged_in" /\ \A k \in 1..Len(t.up) : k = 1 /\ t.up[k].type = "login_request"
  ELSE \A k \in 1..Len(t.up) : t.up[k].type = "unsequenced_data"

\* A TCP connection l between the connection c and the port p.
TcpInv(c, t, l, p, f, cur, cnt) ==
  /\ t \in Tcps /\ Unread(t)
  /\ t.client # "closed" <=> c.link = l
  /\ t.server = "logged_in" => p.link = l
  /\ c.link = l => Current(c, t, p, f, cur, cnt)

\* A connection and its port.
PairInv(c, p, f, nxt, cur, cnt) ==
  /\ c \in Connections /\ p \in Ports /\ f \in Nat
  /\ c.session <= cur /\ p.next \in 1..(cnt[cur] + 1)
  /\ c.link # NoLink => c.next <= nxt
  /\ c.ended => c.session # NoSession /\ (c.session = cur => p.ended /\ f <= nxt)

\* The inductive invariant.
IndInv ==
  /\ next \in Nat /\ ended \in BOOLEAN /\ session \in Sessions
  /\ count \in [Sessions -> Nat] /\ joined \in Sessions \cup {NoSession}
  /\ conn \in [Conn -> Connections] /\ port \in [Conn -> Ports] /\ final \in [Conn -> Nat]
  /\ link \in [Conn -> [Link -> Tcps]]
  /\ \A i \in Conn : PairInv(conn[i], port[i], final[i], next, session, count)
  /\ \A i \in Conn, l \in Link :
       TcpInv(conn[i], link[i][l], l, port[i], final[i], session, count)

-----------------------------------------------------------------------------
\* What writing, reading and losing packets do to a queue.

\* A queue that is cut keeps its packets in front.
LEMMA CutQueue ==
  ASSUME NEW S, NEW q \in Seq(S), NEW m \in 0..Len(q)
  PROVE  LET r == SubSeq(q, 1, m)
         IN  r \in Seq(S) /\ Len(r) = m /\ \A k \in 1..m : r[k] = q[k]
OBVIOUS

\* Nothing is left before the first packet.
LEMMA CutToEmpty == \A q : SubSeq(q, 1, 0) = <<>>
OBVIOUS

\* A queue without packets is cut to itself.
LEMMA CutOfEmpty ==
  ASSUME NEW q, q = <<>>, NEW m \in 0..Len(q)
  PROVE  SubSeq(q, 1, m) = <<>>
OBVIOUS

\* A queue of one packet keeps it or not.
LEMMA CutOfOne ==
  ASSUME NEW e, NEW m \in 0..Len(<<e>>)
  PROVE  SubSeq(<<e>>, 1, m) \in {<<>>, <<e>>}
<1>1. m \in {0, 1}
  OBVIOUS
<1>2. SubSeq(<<e>>, 1, 1) = <<e>>
  <2> DEFINE r == SubSeq(<<e>>, 1, 1)
  <2>1. <<e>> \in Seq({e}) /\ 1 \in 0..Len(<<e>>) /\ <<e>>[1] = e
    OBVIOUS
  <2>2. r \in Seq({e}) /\ Len(r) = 1 /\ r[1] = e
    BY <2>1, CutQueue
  <2> HIDE DEF r
  <2>3. r = <<e>>
    BY <2>2
  <2> QED
    BY <2>3 DEF r
<1> QED
  BY <1>1, <1>2, CutToEmpty

\* What is left of a queue after its first packet.
LEMMA TailOfQueue ==
  ASSUME NEW S, NEW q \in Seq(S), q # <<>>
  PROVE  /\ Tail(q) \in Seq(S) /\ Len(Tail(q)) = Len(q) - 1 /\ Len(q) \in Nat \ {0}
         /\ Head(q) = q[1] /\ Head(q) \in S /\ \A k \in 1..Len(q) - 1 : Tail(q)[k] = q[k + 1]
OBVIOUS

\* A queue that has taken another packet.
LEMMA AppendToQueue ==
  ASSUME NEW S, NEW q \in Seq(S), NEW e \in S
  PROVE  LET r == Append(q, e)
         IN  /\ r \in Seq(S) /\ r # <<>> /\ Len(r) = Len(q) + 1 /\ r[Len(r)] = e
             /\ \A k \in 1..Len(q) : r[k] = q[k]
OBVIOUS

\* Appending behind the first packet.
LEMMA TailOfAppend ==
  ASSUME NEW S, NEW q \in Seq(S), q # <<>>, NEW e \in S
  PROVE  Head(Append(q, e)) = Head(q) /\ Tail(Append(q, e)) = Append(Tail(q), e)
OBVIOUS

\* Cutting behind the first packet.
LEMMA TailOfCut ==
  ASSUME NEW S, NEW q \in Seq(S), NEW m \in 1..Len(q)
  PROVE  LET r == SubSeq(q, 1, m)
         IN  /\ r # <<>> /\ q # <<>> /\ Head(r) = Head(q)
             /\ Tail(r) = SubSeq(Tail(q), 1, m - 1) /\ m - 1 \in 0..Len(Tail(q))
OBVIOUS

\* The prefixes of a queue are its cuts.
LEMMA PrefixIsCut ==
  ASSUME NEW q, NEW r \in Prefixes(q)
  PROVE  \E m \in 0..Len(q) : r = SubSeq(q, 1, m)
BY DEF Prefixes

\* Restart cuts every queue where its process stopped writing.
LEMMA MinIsCut ==
  ASSUME NEW a \in Nat, NEW b \in Nat
  PROVE  Min({a, b}) \in 0..b
<1> DEFINE S == {a, b}
<1>1. \E x \in S : \A y \in S : x <= y
  OBVIOUS
<1>2. Min(S) \in S /\ \A y \in S : Min(S) <= y
  BY <1>1 DEF Min
<1> QED
  BY <1>2

-----------------------------------------------------------------------------
\* What they do to the packets that carry a session.

\* A message is not the end.
LEMMA DataIsNotEnd == \A x : Sequenced_data(x) # End_of_session
BY DEF Sequenced_data, End_of_session

\* The server stops writing, and what it had written is cut.
LEMMA FollowsCut ==
  ASSUME NEW q \in Seq(DownPackets), NEW s, NEW n, NEW srv, NEW p, NEW f \in Nat,
         NEW cur \in Nat, NEW cnt \in [Sessions -> Nat],
         Follows(q, s, n, srv, p, f, cur, cnt),
         NEW m \in 0..Len(q), NEW p2, NEW f2 \in Nat, NEW cur2 \in Nat,
         (cur2 = cur /\ (p.ended => p2.ended /\ f2 = f)) \/ cur2 > cur
  PROVE  Follows(SubSeq(q, 1, m), s, n, "closed", p2, f2, cur2, cnt)
<1> DEFINE r == SubSeq(q, 1, m)
<1>1. r \in Seq(DownPackets) /\ Len(r) = m /\ \A k \in 1..m : r[k] = q[k]
  BY CutQueue
<1> HIDE DEF r
<1>2. Len(q) \in Nat /\ n \in Nat /\ s \in Nat
  <2>1. s \in Sessions /\ cnt[s] \in Nat /\ n \in 1..(cnt[s] + 1)
    BY DEF Follows, Stream
  <2>2. s \in Nat
    BY <2>1, SessionAssumption DEF Sessions
  <2>3. n \in Nat
    BY <2>1
  <2>4. Len(q) \in Nat
    OBVIOUS
  <2> QED
    BY <2>2, <2>3, <2>4
<1>3. EndTold(r) => m = Len(q) /\ EndTold(q)
  <2> SUFFICES ASSUME EndTold(r)
               PROVE  m = Len(q) /\ EndTold(q)
    OBVIOUS
  <2>1. m \in 1..Len(q) /\ q[m] = End_of_session
    <3>1. m # 0 /\ r[m] = End_of_session
      BY <1>1 DEF EndTold
    <3>2. m \in 1..Len(q) /\ m \in 1..m /\ Len(q) # 0
      BY <3>1, <1>2
    <3>3. r[m] = q[m]
      BY <3>2, <1>1
    <3> QED
      BY <3>1, <3>2, <3>3
  <2>2. m = Len(q)
    BY <2>1, DataIsNotEnd DEF Follows, Stream
  <2>3. Len(q) # 0
    BY <2>1, <1>2
  <2>4. q[Len(q)] = End_of_session
    BY <2>1, <2>2
  <2> QED
    BY <2>2, <2>3, <2>4 DEF EndTold
<1>4. Stream(r, s, n, cnt)
  <2> SUFFICES ASSUME NEW k \in 1..Len(r)
               PROVE  \/ r[k] = Sequenced_data(<<s, n + k - 1>>) /\ n + k - 1 <= cnt[s]
                      \/ r[k] = End_of_session /\ k = Len(r)
    BY DEF Follows, Stream
  <2>1. k \in 1..m /\ k \in 1..Len(q) /\ (k = Len(q) => k = Len(r))
    BY <1>1, <1>2
  <2>2. r[k] = q[k]
    BY <1>1, <2>1
  <2> QED
    BY <2>1, <2>2 DEF Follows, Stream
<1>5. Follows(r, s, n, "closed", p2, f2, cur2, cnt)
  BY <1>1, <1>2, <1>3, <1>4 DEF Follows
<1> QED
  BY <1>5 DEF r

\* The log grows.
LEMMA FollowsPublish ==
  ASSUME NEW q \in Seq(DownPackets), NEW s, NEW n, NEW srv, NEW p, NEW f, NEW cur,
         NEW cnt \in [Sessions -> Nat], NEW cnt2 \in [Sessions -> Nat],
         \A x \in Sessions : cnt[x] <= cnt2[x],
         Follows(q, s, n, srv, p, f, cur, cnt)
  PROVE  Follows(q, s, n, srv, p, f, cur, cnt2)
<1>1. Stream(q, s, n, cnt2)
  BY DEF Follows, Stream
<1> QED
  BY <1>1 DEF Follows

\* The next packet of a session is its next message, or the end and the last.
LEMMA FollowsHead ==
  ASSUME NEW q \in Seq(DownPackets), NEW s, NEW n, NEW srv, NEW p, NEW f, NEW cur,
         NEW cnt \in [Sessions -> Nat],
         Follows(q, s, n, srv, p, f, cur, cnt), q # <<>>
  PROVE  \/ /\ Head(q) = Sequenced_data(<<s, n>>) /\ n <= cnt[s]
            /\ Follows(Tail(q), s, n + 1, srv, p, f, cur, cnt)
         \/ Head(q) = End_of_session /\ Tail(q) = <<>>
<1> DEFINE r == Tail(q)
<1>1. /\ r \in Seq(DownPackets) /\ Len(r) = Len(q) - 1 /\ Len(q) \in Nat \ {0}
      /\ Head(q) = q[1] /\ \A k \in 1..Len(q) - 1 : r[k] = q[k + 1]
  BY TailOfQueue
<1> HIDE DEF r
<1>2. /\ n \in Nat /\ n + 1 - 1 = n /\ s \in Sessions /\ cnt[s] \in Nat
      /\ \A k \in 1..Len(q) : \/ q[k] = Sequenced_data(<<s, n + k - 1>>) /\ n + k - 1 <= cnt[s]
                              \/ q[k] = End_of_session /\ k = Len(q)
  BY DEF Follows, Stream
<1>3. \/ q[1] = Sequenced_data(<<s, n>>) /\ n <= cnt[s]
      \/ q[1] = End_of_session /\ Len(q) = 1
  <2>1. 1 \in 1..Len(q)
    BY <1>1
  <2>2. PICK m \in {n + 1 - 1} : \/ q[1] = Sequenced_data(<<s, m>>) /\ m <= cnt[s]
                                 \/ q[1] = End_of_session /\ 1 = Len(q)
    BY <2>1, <1>2
  <2>3. m = n
    BY <1>2
  <2> QED
    BY <2>2, <2>3
<1>4. CASE q[1] = End_of_session /\ Len(q) = 1
  <2>1. Len(r) = 0
    BY <1>1, <1>4
  <2>2. r = <<>>
    BY <2>1, <1>1
  <2> QED
    BY <2>2, <1>1, <1>4 DEF r
<1>5. CASE q[1] = Sequenced_data(<<s, n>>) /\ n <= cnt[s]
  <2>1. \A k \in 1..Len(r) : \/ /\ r[k] = Sequenced_data(<<s, n + 1 + k - 1>>)
                               /\ n + 1 + k - 1 <= cnt[s]
                             \/ r[k] = End_of_session /\ k = Len(r)
    <3> SUFFICES ASSUME NEW k \in 1..Len(r)
                 PROVE  \/ r[k] = Sequenced_data(<<s, n + 1 + k - 1>>) /\ n + 1 + k - 1 <= cnt[s]
                        \/ r[k] = End_of_session /\ k = Len(r)
      OBVIOUS
    <3>1. /\ k + 1 \in 1..Len(q) /\ r[k] = q[k + 1] /\ n + (k + 1) - 1 = n + 1 + k - 1
          /\ k + 1 = Len(q) => k = Len(r)
      BY <1>1, <1>2
    <3>2. \/ q[k + 1] = Sequenced_data(<<s, n + (k + 1) - 1>>) /\ n + (k + 1) - 1 <= cnt[s]
          \/ q[k + 1] = End_of_session /\ k + 1 = Len(q)
      BY <3>1, <1>2
    <3> QED
      BY <3>1, <3>2
  <2>2. Stream(r, s, n + 1, cnt)
    BY <2>1, <1>2, <1>5 DEF Stream
  <2>3. EndTold(r) => EndTold(q)
    BY <1>1 DEF EndTold
  <2>4. n + Len(q) = n + 1 + Len(r) /\ n + Len(q) - 1 = n + 1 + Len(r) - 1
    BY <1>1, <1>2
  <2>5. Follows(r, s, n + 1, srv, p, f, cur, cnt)
    BY <2>2, <2>3, <2>4 DEF Follows
  <2> QED
    BY <1>1, <1>5, <2>5 DEF r
<1> QED
  BY <1>3, <1>4, <1>5

\* A port that has not ended its session has told nobody of its end.
LEMMA FollowsUnended ==
  ASSUME NEW q \in Seq(DownPackets), NEW s, NEW n, NEW p, NEW f, NEW cur,
         NEW cnt \in [Sessions -> Nat],
         Follows(q, s, n, "logged_in", p, f, cur, cnt), ~p.ended
  PROVE  /\ \A k \in 1..Len(q) : q[k] = Sequenced_data(<<s, n + k - 1>>) /\ n + k - 1 <= cnt[s]
         /\ s = cur /\ s \in Sessions /\ n \in 1..(cnt[s] + 1)
         /\ p.next = n + Len(q) /\ Len(q) \in Nat
<1>1. ~EndTold(q) /\ Len(q) \in Nat
  BY DEF Follows
<1> QED
  BY <1>1 DEF Follows, Stream, EndTold

\* Port::send_message()
LEMMA FollowsSend ==
  ASSUME NEW q \in Seq(DownPackets), NEW s, NEW n, NEW p, NEW f, NEW cur,
         NEW cnt \in [Sessions -> Nat],
         Follows(q, s, n, "logged_in", p, f, cur, cnt), ~p.ended, p.next <= cnt[cur],
         NEW p2, p2.next = p.next + 1, p2.ended = p.ended
  PROVE  Follows(Append(q, Sequenced_data(<<cur, p.next>>)), s, n, "logged_in", p2, f, cur, cnt)
<1> DEFINE e == Sequenced_data(<<cur, p.next>>)
           r == Append(q, e)
<1>1. /\ \A k \in 1..Len(q) : q[k] = Sequenced_data(<<s, n + k - 1>>) /\ n + k - 1 <= cnt[s]
      /\ s = cur /\ s \in Sessions /\ n \in 1..(cnt[s] + 1)
      /\ p.next = n + Len(q) /\ Len(q) \in Nat
  BY FollowsUnended
<1>2. e \in DownPackets
  BY <1>1 DEF DownPackets, Sequenced_data, Sessions
<1>3. /\ r \in Seq(DownPackets) /\ r # <<>> /\ Len(r) = Len(q) + 1 /\ r[Len(r)] = e
      /\ \A k \in 1..Len(q) : r[k] = q[k]
  BY <1>2, AppendToQueue
<1> HIDE DEF r
<1>4. \A k \in 1..Len(r) : r[k] = Sequenced_data(<<s, n + k - 1>>) /\ n + k - 1 <= cnt[s]
  <2> SUFFICES ASSUME NEW k \in 1..Len(r)
               PROVE  r[k] = Sequenced_data(<<s, n + k - 1>>) /\ n + k - 1 <= cnt[s]
    OBVIOUS
  <2>1. CASE k \in 1..Len(q)
    BY <2>1, <1>1, <1>3
  <2>2. CASE k = Len(r)
    <3>1. n + k - 1 = p.next
      BY <2>2, <1>1, <1>3
    <3> QED
      BY <3>1, <2>2, <1>1, <1>3
  <2> QED
    BY <2>1, <2>2, <1>1, <1>3
<1>5. ~EndTold(r)
  BY <1>3 DEF EndTold, Sequenced_data, End_of_session
<1>6. Stream(r, s, n, cnt)
  BY <1>4, <1>1 DEF Stream
<1>7. p2.next = n + Len(r) /\ s <= cur
  BY <1>1, <1>3 DEF Sessions
<1> QED
  BY <1>1, <1>5, <1>6, <1>7 DEF Follows, r

\* Server::end_session(), for a port that sends its end.
LEMMA FollowsEnd ==
  ASSUME NEW q \in Seq(DownPackets), NEW s, NEW n, NEW p, NEW f, NEW cur,
         NEW cnt \in [Sessions -> Nat],
         Follows(q, s, n, "logged_in", p, f, cur, cnt), ~p.ended, NEW p2, p2.ended
  PROVE  Follows(with_end(q), s, n, "logged_in", p2, p.next, cur, cnt)
<1> DEFINE r == Append(q, End_of_session)
<1>1. /\ \A k \in 1..Len(q) : q[k] = Sequenced_data(<<s, n + k - 1>>) /\ n + k - 1 <= cnt[s]
      /\ s = cur /\ s \in Sessions /\ n \in 1..(cnt[s] + 1)
      /\ p.next = n + Len(q) /\ Len(q) \in Nat
  BY FollowsUnended
<1>2. End_of_session \in DownPackets
  BY DEF DownPackets
<1>3. /\ r \in Seq(DownPackets) /\ r # <<>> /\ Len(r) = Len(q) + 1 /\ r[Len(r)] = End_of_session
      /\ \A k \in 1..Len(q) : r[k] = q[k]
  BY <1>2, AppendToQueue
<1> HIDE DEF r
<1>4. Stream(r, s, n, cnt)
  BY <1>1, <1>3 DEF Stream
<1>5. p.next = n + Len(r) - 1 /\ s <= cur
  BY <1>1, <1>3 DEF Sessions
<1>6. Follows(r, s, n, "logged_in", p2, p.next, cur, cnt)
  BY <1>1, <1>4, <1>5 DEF Follows
<1> QED
  BY <1>6 DEF r, with_end

\* Server::end_session(), for a port that cannot tell anybody.
LEMMA FollowsEndUntold ==
  ASSUME NEW q, NEW s, NEW n, NEW srv, NEW p, NEW f, NEW cur, NEW cnt,
         Follows(q, s, n, srv, p, f, cur, cnt), ~p.ended, NEW p2, p2.ended, NEW f2
  PROVE  Follows(q, s, n, srv, p2, f2, cur, cnt)
BY DEF Follows

-----------------------------------------------------------------------------
\* What the steps of the server do to a TCP connection.

\* A TCP connection whose server's end is closed, with what is left of down.
CutOff(t, m) == [t EXCEPT !.server = "closed", !.up = <<>>, !.down = SubSeq(t.down, 1, m)]

\* The fields of a TCP connection.
LEMMA TcpFields ==
  ASSUME NEW t \in Tcps
  PROVE  /\ t.client \in EndState /\ t.server \in EndState
         /\ t.up \in Seq(UpPackets) /\ t.down \in Seq(DownPackets)
BY DEF Tcps

\* The fields of one that is cut off.
LEMMA CutOffFields ==
  ASSUME NEW t \in Tcps, NEW m \in 0..Len(t.down)
  PROVE  LET t2 == CutOff(t, m)
         IN  /\ t2 \in Tcps /\ t2.server = "closed" /\ t2.client = t.client
             /\ t2.up = <<>> /\ t2.down = SubSeq(t.down, 1, m)
<1>1. SubSeq(t.down, 1, m) \in Seq(DownPackets)
  BY TcpFields, CutQueue
<1>2. <<>> \in Seq(UpPackets)
  OBVIOUS
<1> QED
  BY <1>1, <1>2 DEF CutOff, Tcps, EndState

\* Whatever becomes of what a server had written, it is cut off.
LEMMA ServerClosesIsCutOff ==
  ASSUME NEW t \in Tcps, NEW t2 \in ServerCloses(t)
  PROVE  \E m \in 0..Len(t.down) : t2 = CutOff(t, m)
<1> USE TcpFields
<1>1. PICK r \in IF t.client = "closed" THEN {<<>>} ELSE Prefixes(t.down) :
        t2 = [t EXCEPT !.server = "closed", !.up = <<>>, !.down = r]
  BY DEF ServerCloses
<1>2. \E m \in 0..Len(t.down) : r = SubSeq(t.down, 1, m)
  <2>1. CASE t.client = "closed"
    <3>1. <<>> = SubSeq(t.down, 1, 0) /\ 0 \in 0..Len(t.down)
      OBVIOUS
    <3> QED
      BY <2>1, <3>1
  <2>2. CASE t.client # "closed"
    BY <2>2, PrefixIsCut
  <2> QED
    BY <2>1, <2>2
<1> QED
  BY <1>1, <1>2 DEF CutOff

\* The client reads on what was written before.
LEMMA CurrentCutOff ==
  ASSUME NEW t \in Tcps, NEW m \in 0..Len(t.down), NEW c, NEW p, NEW f \in Nat, NEW cur \in Nat,
         NEW cnt \in [Sessions -> Nat], Current(c, t, p, f, cur, cnt),
         NEW p2, NEW f2 \in Nat, NEW cur2 \in Nat,
         (cur2 = cur /\ (p.ended => p2.ended /\ f2 = f)) \/ cur2 > cur
  PROVE  Current(c, CutOff(t, m), p2, f2, cur2, cnt)
<1> DEFINE t2 == CutOff(t, m)
<1>1. /\ t2 \in Tcps /\ t2.server = "closed" /\ t2.client = t.client
      /\ t2.up = <<>> /\ t2.down = SubSeq(t.down, 1, m)
  BY CutOffFields
<1>2. t.down \in Seq(DownPackets) /\ Len(t.down) \in Nat /\ m \in Nat
  BY TcpFields
<1> SUFFICES Current(c, t2, p2, f2, cur2, cnt)
  OBVIOUS
<1> HIDE DEF t2
<1>3. CASE /\ t.client = "logged_in" /\ t.server # "connected"
           /\ Follows(t.down, c.session, c.next, t.server, p, f, cur, cnt)
           /\ c.ended => t.down = <<>>
  <2> DEFINE q == t.down
             s == c.session
             n == c.next
             srv == t.server
  <2>1. q \in Seq(DownPackets) /\ m \in 0..Len(q) /\ Follows(q, s, n, srv, p, f, cur, cnt)
    BY <1>2, <1>3
  <2> HIDE DEF q, s, n, srv
  <2>2. Follows(SubSeq(q, 1, m), s, n, "closed", p2, f2, cur2, cnt)
    BY <2>1, FollowsCut
  <2>3. t.down = <<>> => t2.down = <<>>
    BY <1>1, CutOfEmpty
  <2> QED
    BY <1>1, <1>3, <2>2, <2>3 DEF Current, q, s, n
<1>4. CASE t.client = "connected" /\ t.down \in {<<>>, <<Login_rejected>>}
  <2>1. t2.down \in {<<>>, <<Login_rejected>>}
    <3>1. CASE t.down = <<>>
      BY <3>1, <1>1, CutOfEmpty
    <3>2. CASE t.down = <<Login_rejected>>
      BY <3>2, <1>1, CutOfOne
    <3> QED
      BY <1>4, <3>1, <3>2
  <2> QED
    BY <1>1, <1>4, <2>1 DEF Current
<1>5. ASSUME /\ t.client = "connected" /\ t.down # <<>>
             /\ LET r == Head(t.down)
                IN  /\ r = Login_accepted(r.session, r.next)
                    /\ c.session \in {NoSession, r.session} /\ (c.next # 0 => r.next <= c.next)
                    /\ Follows(Tail(t.down), r.session, r.next, t.server, p, f, cur, cnt)
             /\ c.ended => Tail(t.down) = <<>>
      PROVE  Current(c, t2, p2, f2, cur2, cnt)
  <2>1. CASE m = 0
    <3>1. t2.down = <<>>
      BY <1>1, <2>1, CutToEmpty
    <3> QED
      BY <1>1, <1>5, <3>1 DEF Current
  <2>2. CASE m # 0
    <3> DEFINE q == Tail(t.down)
               r == Head(t.down)
    <3>0. m \in 1..Len(t.down)
      BY <1>2, <2>2
    <3>1. /\ t2.down # <<>> /\ Head(t2.down) = r
          /\ Tail(t2.down) = SubSeq(q, 1, m - 1) /\ m - 1 \in 0..Len(q)
      BY <1>1, <1>2, <3>0, TailOfCut
    <3>2. q \in Seq(DownPackets)
      BY <1>2, <1>5, TailOfQueue
    <3> HIDE DEF q, r
    <3>3. Follows(q, r.session, r.next, t.server, p, f, cur, cnt)
      BY <1>5 DEF q, r
    <3>4. Follows(Tail(t2.down), r.session, r.next, "closed", p2, f2, cur2, cnt)
      <4>1. \A k \in 0..Len(q) :
              Follows(SubSeq(q, 1, k), r.session, r.next, "closed", p2, f2, cur2, cnt)
        BY <3>2, <3>3, FollowsCut
      <4> QED
        BY <3>1, <4>1
    <3>5. c.ended => Tail(t2.down) = <<>>
      <4> SUFFICES ASSUME c.ended PROVE Tail(t2.down) = <<>>
        OBVIOUS
      <4>1. q = <<>>
        BY <1>5 DEF q
      <4> QED
        BY <3>1, <4>1, CutOfEmpty
    <3> QED
      BY <1>1, <1>5, <3>1, <3>4, <3>5 DEF Current, r
  <2> QED
    BY <2>1, <2>2
<1>6. ASSUME Doomed(t)
      PROVE  Current(c, t2, p2, f2, cur2, cnt)
  <2>1. CASE m = 0
    <3>1. t2.down = <<>>
      BY <1>1, <2>1, CutToEmpty
    <3> QED
      BY <1>1, <1>6, <3>1 DEF Current, Doomed
  <2>2. CASE m # 0
    <3>1. m \in 1..Len(t.down)
      BY <1>2, <2>2
    <3>2. t2.down # <<>> /\ Head(t2.down) = Head(t.down)
      BY <1>1, <1>2, <3>1, TailOfCut
    <3>3. Doomed(t2)
      BY <1>1, <1>6, <3>2 DEF Doomed
    <3> QED
      BY <3>3 DEF Current
  <2> QED
    BY <2>1, <2>2
<1> QED
  BY <1>3, <1>4, <1>5, <1>6 DEF Current

\* A TCP connection whose server's end is closed.
LEMMA TcpCutOff ==
  ASSUME NEW c, NEW t, NEW l, NEW p, NEW f \in Nat, NEW cur \in Nat,
         NEW cnt \in [Sessions -> Nat], TcpInv(c, t, l, p, f, cur, cnt),
         NEW m \in 0..Len(t.down), NEW p2, NEW f2 \in Nat, NEW cur2 \in Nat,
         (cur2 = cur /\ (p.ended => p2.ended /\ f2 = f)) \/ cur2 > cur
  PROVE  TcpInv(c, CutOff(t, m), l, p2, f2, cur2, cnt)
<1> DEFINE t2 == CutOff(t, m)
<1> SUFFICES TcpInv(c, t2, l, p2, f2, cur2, cnt)
  OBVIOUS
<1>1. t \in Tcps
  BY DEF TcpInv
<1>2. /\ t2 \in Tcps /\ t2.server = "closed" /\ t2.client = t.client
      /\ t2.up = <<>> /\ t2.down = SubSeq(t.down, 1, m)
  BY <1>1, CutOffFields
<1>3. c.link = l => Current(c, t2, p2, f2, cur2, cnt)
  BY <1>1, CurrentCutOff DEF TcpInv
<1> HIDE DEF t2
<1>4. Unread(t2)
  BY <1>2 DEF Unread
<1> QED
  BY <1>2, <1>3, <1>4 DEF TcpInv

\* One that the client has left, whatever becomes of the others.
LEMMA TcpBystander ==
  ASSUME NEW c, NEW t, NEW l, NEW p, NEW f, NEW cur, NEW cnt, TcpInv(c, t, l, p, f, cur, cnt),
         c.link # l, NEW c2, c2.link # l, NEW p2, p2.link = l <=> p.link = l,
         NEW f2, NEW cur2, NEW cnt2
  PROVE  TcpInv(c2, t, l, p2, f2, cur2, cnt2)
BY DEF TcpInv

\* One that is not logged in to the port, or whose port is as it was.
LEMMA TcpOtherPort ==
  ASSUME NEW c, NEW t, NEW l, NEW p, NEW f, NEW cur, NEW cnt, TcpInv(c, t, l, p, f, cur, cnt),
         NEW p2, p2.ended = p.ended, t.server = "logged_in" => p2 = p
  PROVE  TcpInv(c, t, l, p2, f, cur, cnt)
<1>2. \A q, s, n : Follows(q, s, n, t.server, p, f, cur, cnt)
                     => Follows(q, s, n, t.server, p2, f, cur, cnt)
  BY DEF Follows
<1>3. Current(c, t, p, f, cur, cnt) => Current(c, t, p2, f, cur, cnt)
  BY <1>2 DEF Current
<1> QED
  BY <1>3 DEF TcpInv

\* The log grows.
LEMMA TcpPublish ==
  ASSUME NEW c, NEW t, NEW l, NEW p, NEW f, NEW cur,
         NEW cnt \in [Sessions -> Nat], NEW cnt2 \in [Sessions -> Nat],
         \A x \in Sessions : cnt[x] <= cnt2[x], TcpInv(c, t, l, p, f, cur, cnt)
  PROVE  TcpInv(c, t, l, p, f, cur, cnt2)
<1>1. \A q \in Seq(DownPackets) : \A s, n :
        Follows(q, s, n, t.server, p, f, cur, cnt) => Follows(q, s, n, t.server, p, f, cur, cnt2)
  BY FollowsPublish
<1>2. t.down \in Seq(DownPackets) /\ (t.down # <<>> => Tail(t.down) \in Seq(DownPackets))
  BY TcpFields, TailOfQueue DEF TcpInv
<1>3. Current(c, t, p, f, cur, cnt) => Current(c, t, p, f, cur, cnt2)
  BY <1>1, <1>2 DEF Current
<1> QED
  BY <1>3 DEF TcpInv

\* LoginRejected
LEMMA TcpRejected ==
  ASSUME NEW c, NEW t, NEW l, NEW p, NEW f, NEW cur, NEW cnt, TcpInv(c, t, l, p, f, cur, cnt),
         t.server = "connected",
         NEW t2, t2 = [t EXCEPT !.server = "closed", !.up = <<>>, !.down = <<Login_rejected>>]
  PROVE  TcpInv(c, t2, l, p, f, cur, cnt)
<1>1. <<Login_rejected>> \in Seq(DownPackets) /\ <<>> \in Seq(UpPackets)
  BY DEF DownPackets
<1>2. /\ t2 \in Tcps /\ t2.server = "closed" /\ t2.client = t.client
      /\ t2.up = <<>> /\ t2.down = <<Login_rejected>>
  BY <1>1 DEF TcpInv, Tcps, EndState
<1>3. Unread(t2)
  BY <1>2 DEF Unread
<1>4. c.link = l => t.client = "connected"
  BY DEF TcpInv, Current, Doomed
<1> QED
  BY <1>2, <1>3, <1>4 DEF TcpInv, Current

\* What a server that is connected reads.
LEMMA RequestIsFirst ==
  ASSUME NEW t \in Tcps, Unread(t), t.server = "connected", t.up # <<>>
  PROVE  /\ Head(t.up).type = "login_request" /\ Tail(t.up) = <<>>
         /\ Head(t.up) \in UpPackets /\ Head(t.up).session \in Nat /\ Head(t.up).next \in Nat
<1>1. t.up \in Seq(UpPackets)
  BY TcpFields
<1>2. /\ Tail(t.up) \in Seq(UpPackets) /\ Len(Tail(t.up)) = Len(t.up) - 1 /\ Len(t.up) \in Nat \ {0}
      /\ Head(t.up) = t.up[1] /\ Head(t.up) \in UpPackets
  BY <1>1, TailOfQueue
<1>3. \A k \in 1..Len(t.up) : k = 1 /\ t.up[k].type = "login_request"
  BY DEF Unread
<1>4. Head(t.up).type = "login_request" /\ Len(t.up) = 1
  <2>1. 1 \in 1..Len(t.up) /\ Len(t.up) \in 1..Len(t.up)
    BY <1>2
  <2> QED
    BY <1>2, <1>3, <2>1
<1>5. Tail(t.up) = <<>>
  <2> DEFINE u == Tail(t.up)
  <2>1. u \in Seq(UpPackets) /\ Len(u) = 0
    BY <1>2, <1>4
  <2> HIDE DEF u
  <2>2. u = <<>>
    BY <2>1
  <2> QED
    BY <2>2 DEF u
<1>6. Head(t.up).session \in Nat /\ Head(t.up).next \in Nat
  BY <1>2, <1>4 DEF UpPackets
<1> QED
  BY <1>2, <1>4, <1>5, <1>6

\* The port goes back to the number asked for, if to any.
LEMMA RewindIsBelow ==
  ASSUME NEW n \in Nat \ {0}, NEW r, r.next \in Nat
  PROVE  rewind(n, r) \in 1..n /\ (r.next # 0 => rewind(n, r) <= r.next)
BY DEF rewind

\* The number that the server answers with.
LEMMA AcceptedNumber ==
  ASSUME NEW c, NEW t, NEW l, NEW p, NEW f, NEW nxt, NEW cur \in Sessions,
         NEW cnt \in [Sessions -> Nat], TcpInv(c, t, l, p, f, cur, cnt),
         PairInv(c, p, f, nxt, cur, cnt), t.server = "connected", t.up # <<>>,
         NEW n, n = rewind(p.next, Head(t.up))
  PROVE  /\ n \in 1..p.next /\ n \in Nat /\ p.next \in 1..(cnt[cur] + 1) /\ cnt[cur] \in Nat
         /\ Head(t.up).next \in Nat /\ (Head(t.up).next # 0 => n <= Head(t.up).next)
<1>1. t \in Tcps /\ Unread(t) /\ cnt[cur] \in Nat /\ p.next \in 1..(cnt[cur] + 1)
  BY DEF TcpInv, PairInv
<1>2. Head(t.up).next \in Nat
  BY <1>1, RequestIsFirst
<1>3. p.next \in Nat \ {0}
  BY <1>1
<1>4. n \in 1..p.next /\ (Head(t.up).next # 0 => n <= Head(t.up).next)
  BY <1>2, <1>3, RewindIsBelow
<1> QED
  BY <1>1, <1>2, <1>3, <1>4

\* The response alone, or behind what was sent inside login_success().
Answers(q, cur, n, early) ==
  \/ early = 0 /\ q = <<Login_accepted(cur, n)>>
  \/ early # 0 /\ CallbackSends /\ q # <<>> /\ Head(q).type = "sequenced_data"

\* What is queued for a client whose login the port i accepts at number n.
LEMMA ResponseQueued ==
  ASSUME NEW i, session \in Sessions, session \in Nat, count[session] \in Nat,
         NEW n \in Nat, n # 0, n <= count[session] + 1, NEW early \in EarlySends(i, n)
  PROVE  /\ early \in Nat /\ n + early <= count[session] + 1
         /\ login_response(n, early) \in Seq(DownPackets)
         /\ Len(login_response(n, early)) <= WriteLimit
         /\ Answers(login_response(n, early), session, n, early)
<1> DEFINE r == Login_accepted(session, n)
           data == [k \in 1..early |-> Sequenced_data(<<session, n + k - 1>>)]
<1>1. /\ early \in Nat /\ early <= WriteLimit /\ WriteLimit \in Nat \ {0}
      /\ early = 0 \/ (CallbackSends /\ n + early - 1 <= count[session])
  BY SessionAssumption DEF EarlySends
<1>2. n + early <= count[session] + 1
  BY <1>1
<1>3. r \in DownPackets
  BY DEF DownPackets, Login_accepted
<1>4. \A k \in 1..early : Sequenced_data(<<session, n + k - 1>>) \in DownPackets
  <2> SUFFICES ASSUME NEW k \in 1..early
               PROVE  Sequenced_data(<<session, n + k - 1>>) \in DownPackets
    OBVIOUS
  <2>1. n + k - 1 \in Nat
    BY <1>1
  <2> QED
    BY <2>1 DEF DownPackets, Sequenced_data
<1>5. data \in Seq(DownPackets) /\ Len(data) = early
  BY <1>1, <1>4
<1>6. login_response(n, early) = IF early < WriteLimit THEN Append(data, r) ELSE data
  BY DEF login_response
<1>7. early # 0 => data[1].type = "sequenced_data"
  BY <1>1 DEF Sequenced_data
<1> HIDE DEF data
<1>8. CASE early = 0
  <2>1. data = <<>>
    BY <1>5, <1>8
  <2>2. login_response(n, early) = <<r>>
    BY <1>1, <1>6, <1>8, <2>1
  <2>3. login_response(n, early) \in Seq(DownPackets) /\ Len(login_response(n, early)) = 1
    BY <1>3, <2>2
  <2>4. Answers(login_response(n, early), session, n, early)
    BY <1>8, <2>2 DEF Answers
  <2>5. Len(login_response(n, early)) <= WriteLimit
    BY <1>1, <2>3
  <2> QED
    BY <1>1, <1>2, <2>3, <2>4, <2>5
<1>9. CASE early # 0
  <2> DEFINE q == login_response(n, early)
  <2>1. data # <<>> /\ Head(data).type = "sequenced_data"
    BY <1>1, <1>5, <1>7, <1>9
  <2>2. CASE early < WriteLimit
    <3>1. q = Append(data, r)
      BY <1>6, <2>2
    <3>2. q \in Seq(DownPackets) /\ q # <<>> /\ Len(q) = early + 1
      BY <1>3, <1>5, <3>1, AppendToQueue
    <3>3. Head(q) = Head(data)
      BY <1>3, <1>5, <2>1, <3>1, TailOfAppend
    <3> QED
      BY <1>1, <1>2, <1>9, <2>1, <2>2, <3>2, <3>3 DEF Answers
  <2>3. CASE ~(early < WriteLimit)
    <3>1. q = data
      BY <1>6, <2>3
    <3> QED
      BY <1>1, <1>2, <1>5, <1>9, <2>1, <3>1 DEF Answers
  <2> QED
    BY <2>2, <2>3
<1> QED
  BY <1>8, <1>9

\* LoginAccepted
LEMMA TcpAccepted ==
  ASSUME NEW c, NEW t, NEW l, NEW p, NEW f, NEW nxt, NEW cur \in Sessions,
         NEW cnt \in [Sessions -> Nat], TcpInv(c, t, l, p, f, cur, cnt),
         PairInv(c, p, f, nxt, cur, cnt),
         t.server = "connected", t.up # <<>>, Head(t.up).session \in {NoSession, cur},
         NEW n, n = rewind(p.next, Head(t.up)), NEW early,
         NEW down \in Seq(DownPackets), Answers(down, cur, n, early),
         NEW p2, p2.next = n + early, p2.link = l, p2.ended = p.ended,
         NEW t2, t2 = [t EXCEPT !.server = "logged_in", !.up = Tail(@), !.down = down]
  PROVE  TcpInv(c, t2, l, p2, f, cur, cnt)
<1> DEFINE r == Login_accepted(cur, n)
<1>1. t \in Tcps /\ Unread(t) /\ cur \in Nat /\ cnt[cur] \in Nat /\ p.next \in 1..(cnt[cur] + 1)
  BY SessionAssumption DEF TcpInv, PairInv, Sessions
<1>2. Tail(t.up) = <<>> /\ Head(t.up).next \in Nat
  BY <1>1, RequestIsFirst
<1>3. n \in 1..p.next /\ (Head(t.up).next # 0 => n <= Head(t.up).next)
  BY AcceptedNumber
<1>4. <<>> \in Seq(UpPackets)
  OBVIOUS
<1>5. /\ t2 \in Tcps /\ t2.server = "logged_in" /\ t2.client = t.client
      /\ t2.up = <<>> /\ t2.down = down
  BY <1>1, <1>2, <1>4 DEF Tcps, EndState
<1>6. Unread(t2)
  BY <1>5 DEF Unread
<1>7. ASSUME c.link = l
      PROVE  Current(c, t2, p2, f, cur, cnt)
  <2>1. t.client = "connected" /\ t.up = <<Login_request(c.session, c.next)>>
    BY <1>7 DEF TcpInv, Current, Doomed
  <2>2. CASE early = 0 /\ down = <<r>>
    <3>2. Head(t.up).session = c.session /\ Head(t.up).next = c.next
      BY <2>1 DEF Login_request
    <3>3. Follows(<<>>, cur, n, "logged_in", p2, f, cur, cnt)
      BY <1>1, <1>3, <2>2 DEF Follows, Stream, EndTold
    <3>4. Head(t2.down) = r /\ Tail(t2.down) = <<>> /\ t2.down # <<>>
      BY <1>5, <2>2
    <3>5. r = Login_accepted(r.session, r.next) /\ r.session = cur /\ r.next = n
      BY DEF Login_accepted
    <3> HIDE DEF r
    <3>6. c.session \in {NoSession, r.session} /\ (c.next # 0 => r.next <= c.next)
      BY <1>3, <3>2, <3>5
    <3> QED
      BY <1>5, <2>1, <3>3, <3>4, <3>5, <3>6 DEF Current
  <2>3. CASE early # 0 /\ CallbackSends /\ down # <<>> /\ Head(down).type = "sequenced_data"
    <3>1. Doomed(t2)
      BY <1>5, <2>1, <2>3 DEF Doomed
    <3> QED
      BY <3>1 DEF Current
  <2> QED
    BY <2>2, <2>3 DEF Answers
<1> QED
  BY <1>5, <1>6, <1>7 DEF TcpInv

\* A port that goes on does not meet a connection that was told of its end.
LEMMA SendsBeforeEnd ==
  ASSUME NEW c, NEW t, NEW p, NEW f, NEW nxt, NEW cur, NEW cnt,
         Current(c, t, p, f, cur, cnt), PairInv(c, p, f, nxt, cur, cnt),
         t.server = "logged_in", ~p.ended
  PROVE  ~c.ended \/ Doomed(t)
BY DEF Current, PairInv, Follows

\* A packet that the port adds.
LEMMA CurrentAppend ==
  ASSUME NEW c, NEW t \in Tcps, NEW p, NEW f, NEW nxt, NEW cur, NEW cnt \in [Sessions -> Nat],
         Current(c, t, p, f, cur, cnt), ~c.ended \/ Doomed(t), t.server = "logged_in",
         NEW e \in DownPackets, NEW p2, NEW f2,
         \A q \in Seq(DownPackets) : \A s, n :
            Follows(q, s, n, "logged_in", p, f, cur, cnt)
              => Follows(Append(q, e), s, n, "logged_in", p2, f2, cur, cnt),
         NEW t2 \in Tcps, t2.server = "logged_in", t2.client = t.client,
         t2.down = Append(t.down, e)
  PROVE  Current(c, t2, p2, f2, cur, cnt)
<1>1. t.down \in Seq(DownPackets)
  BY TcpFields
<1>2. CASE t.client = "logged_in" /\ Follows(t.down, c.session, c.next, t.server, p, f, cur, cnt)
  <2>1. Follows(t2.down, c.session, c.next, "logged_in", p2, f2, cur, cnt)
    BY <1>1, <1>2
  <2> QED
    BY <1>2, <2>1 DEF Current, Doomed
<1>3. ASSUME /\ t.client = "connected" /\ t.down # <<>>
             /\ LET r == Head(t.down)
                IN  /\ r = Login_accepted(r.session, r.next)
                    /\ c.session \in {NoSession, r.session} /\ (c.next # 0 => r.next <= c.next)
                    /\ Follows(Tail(t.down), r.session, r.next, t.server, p, f, cur, cnt)
      PROVE  Current(c, t2, p2, f2, cur, cnt)
  <2> DEFINE q == Tail(t.down)
             r == Head(t.down)
  <2>1. q \in Seq(DownPackets) /\ t2.down # <<>>
    BY <1>1, <1>3, TailOfQueue, AppendToQueue
  <2>2. Head(t2.down) = r /\ Tail(t2.down) = Append(q, e)
    BY <1>1, <1>3, TailOfAppend
  <2> HIDE DEF q, r
  <2>3. Follows(q, r.session, r.next, "logged_in", p, f, cur, cnt)
    BY <1>3 DEF q, r
  <2>4. Follows(Tail(t2.down), r.session, r.next, "logged_in", p2, f2, cur, cnt)
    BY <2>1, <2>2, <2>3
  <2>5. r = Login_accepted(r.session, r.next)
         /\ c.session \in {NoSession, r.session} /\ (c.next # 0 => r.next <= c.next)
    BY <1>3 DEF r
  <2>6. ~c.ended
    <3>1. r.type # "sequenced_data"
      BY <2>5 DEF Login_accepted
    <3> QED
      BY <3>1 DEF Doomed, r
  <2> QED
    BY <1>3, <2>1, <2>2, <2>4, <2>5, <2>6 DEF Current
<1>4. ASSUME Doomed(t)
      PROVE  Current(c, t2, p2, f2, cur, cnt)
  <2>1. t2.down # <<>> /\ Head(t2.down) = Head(t.down)
    BY <1>1, <1>4, AppendToQueue, TailOfAppend DEF Doomed
  <2>2. Doomed(t2)
    BY <1>4, <2>1 DEF Doomed
  <2> QED
    BY <2>2 DEF Current
<1> QED
  BY <1>2, <1>3, <1>4 DEF Current

\* PortSend
LEMMA TcpSend ==
  ASSUME NEW c, NEW t, NEW l, NEW p, NEW f, NEW nxt, NEW cur \in Sessions,
         NEW cnt \in [Sessions -> Nat], TcpInv(c, t, l, p, f, cur, cnt),
         PairInv(c, p, f, nxt, cur, cnt), t.server = "logged_in", ~p.ended, p.next <= cnt[cur],
         NEW t2, t2 = [t EXCEPT !.down = Append(@, Sequenced_data(<<cur, p.next>>))],
         NEW p2, p2.link = l, p2.ended = p.ended, p2.next = p.next + 1
  PROVE  TcpInv(c, t2, l, p2, f, cur, cnt)
<1> DEFINE e == Sequenced_data(<<cur, p.next>>)
<1>1. t \in Tcps /\ Unread(t) /\ t.down \in Seq(DownPackets)
  BY TcpFields DEF TcpInv
<1>2. cur \in Nat /\ p.next \in Nat
  BY SessionAssumption DEF PairInv, Sessions
<1>3. e \in DownPackets
  BY <1>2 DEF DownPackets, Sequenced_data
<1> HIDE DEF e
<1>4. Append(t.down, e) \in Seq(DownPackets)
  BY <1>1, <1>3, AppendToQueue
<1>5. t2 = [t EXCEPT !.down = Append(@, e)]
  BY DEF e
<1>6. /\ t2 \in Tcps /\ t2.server = "logged_in" /\ t2.client = t.client /\ t2.up = t.up
      /\ t2.down = Append(t.down, e)
  BY <1>1, <1>4, <1>5 DEF Tcps
<1>7. Unread(t2)
  BY <1>1, <1>6 DEF Unread
<1>8. \A q \in Seq(DownPackets) : \A s, n :
        Follows(q, s, n, "logged_in", p, f, cur, cnt)
          => Follows(Append(q, e), s, n, "logged_in", p2, f, cur, cnt)
  BY FollowsSend DEF e
<1>9. c.link = l => Current(c, t2, p2, f, cur, cnt)
  <2> SUFFICES ASSUME c.link = l PROVE Current(c, t2, p2, f, cur, cnt)
    OBVIOUS
  <2>1. Current(c, t, p, f, cur, cnt)
    BY DEF TcpInv
  <2>2. ~c.ended \/ Doomed(t)
    BY <2>1, SendsBeforeEnd
  <2> QED
    BY <1>1, <1>3, <1>6, <1>8, <2>1, <2>2, CurrentAppend
<1> QED
  BY <1>1, <1>6, <1>7, <1>9 DEF TcpInv

\* EndSession, for the connection of a port that can send.
LEMMA TcpEnd ==
  ASSUME NEW c, NEW t, NEW l, NEW p, NEW f, NEW nxt, NEW cur \in Sessions,
         NEW cnt \in [Sessions -> Nat], TcpInv(c, t, l, p, f, cur, cnt),
         PairInv(c, p, f, nxt, cur, cnt), t.server = "logged_in", ~p.ended,
         NEW t2, t2 = [t EXCEPT !.down = with_end(@)],
         NEW p2, p2.link = l, p2.ended
  PROVE  TcpInv(c, t2, l, p2, p.next, cur, cnt)
<1>1. t \in Tcps /\ Unread(t) /\ t.down \in Seq(DownPackets)
  BY TcpFields DEF TcpInv
<1>2. End_of_session \in DownPackets
  BY DEF DownPackets
<1>3. Append(t.down, End_of_session) \in Seq(DownPackets)
  BY <1>1, <1>2, AppendToQueue
<1>4. /\ t2 \in Tcps /\ t2.server = "logged_in" /\ t2.client = t.client /\ t2.up = t.up
      /\ t2.down = Append(t.down, End_of_session)
  BY <1>1, <1>3 DEF Tcps, with_end
<1>5. Unread(t2)
  BY <1>1, <1>4 DEF Unread
<1>6. \A q \in Seq(DownPackets) : \A s, n :
        Follows(q, s, n, "logged_in", p, f, cur, cnt)
          => Follows(Append(q, End_of_session), s, n, "logged_in", p2, p.next, cur, cnt)
  BY FollowsEnd DEF with_end
<1>7. c.link = l => Current(c, t2, p2, p.next, cur, cnt)
  <2> SUFFICES ASSUME c.link = l PROVE Current(c, t2, p2, p.next, cur, cnt)
    OBVIOUS
  <2>1. Current(c, t, p, f, cur, cnt)
    BY DEF TcpInv
  <2>2. ~c.ended \/ Doomed(t)
    BY <2>1, SendsBeforeEnd
  <2> QED
    BY <1>1, <1>2, <1>4, <1>6, <2>1, <2>2, CurrentAppend
<1> QED
  BY <1>1, <1>4, <1>5, <1>7 DEF TcpInv

\* EndSession, for any other.
LEMMA TcpEndUntold ==
  ASSUME NEW c, NEW t, NEW l, NEW p, NEW f, NEW cur, NEW cnt, TcpInv(c, t, l, p, f, cur, cnt),
         ~p.ended, NEW p2, p2.link = p.link, p2.ended, NEW f2
  PROVE  TcpInv(c, t, l, p2, f2, cur, cnt)
<1>1. \A q, s, n : Follows(q, s, n, t.server, p, f, cur, cnt)
                     => Follows(q, s, n, t.server, p2, f2, cur, cnt)
  BY FollowsEndUntold
<1>2. Current(c, t, p, f, cur, cnt) => Current(c, t, p2, f2, cur, cnt)
  BY <1>1 DEF Current
<1> QED
  BY <1>2 DEF TcpInv

\* ServerReadsData
LEMMA TcpServerReads ==
  ASSUME NEW c, NEW t, NEW l, NEW p, NEW f, NEW cur, NEW cnt, TcpInv(c, t, l, p, f, cur, cnt),
         t.server = "logged_in", t.up # <<>>, NEW t2, t2 = [t EXCEPT !.up = Tail(@)]
  PROVE  TcpInv(c, t2, l, p, f, cur, cnt)
<1>1. t \in Tcps /\ Unread(t) /\ t.up \in Seq(UpPackets)
  BY TcpFields DEF TcpInv
<1> DEFINE u == Tail(t.up)
<1>2. /\ u \in Seq(UpPackets) /\ Len(u) = Len(t.up) - 1 /\ Len(t.up) \in Nat \ {0}
      /\ \A k \in 1..Len(t.up) - 1 : u[k] = t.up[k + 1]
  BY <1>1, TailOfQueue
<1>3. /\ t2 \in Tcps /\ t2.server = t.server /\ t2.client = t.client
      /\ t2.up = u /\ t2.down = t.down
  BY <1>1, <1>2 DEF Tcps
<1> HIDE DEF u
<1>4. Unread(t2)
  <2>1. \A k \in 1..Len(t.up) : t.up[k].type = "unsequenced_data"
    BY <1>1 DEF Unread
  <2>2. ASSUME NEW k \in 1..Len(u)
        PROVE  u[k].type = "unsequenced_data"
    <3>1. k + 1 \in 1..Len(t.up) /\ k \in 1..Len(t.up) - 1
      BY <1>2
    <3> QED
      BY <3>1, <1>2, <2>1
  <2> QED
    BY <1>3, <2>2 DEF Unread
<1>5. Current(c, t, p, f, cur, cnt) => Current(c, t2, p, f, cur, cnt)
  BY <1>3 DEF Current, Doomed
<1> QED
  BY <1>3, <1>4, <1>5 DEF TcpInv

-----------------------------------------------------------------------------
\* What the steps of the client do to a TCP connection.

\* Connect
LEMMA TcpConnect ==
  ASSUME NEW c, NEW t, NEW l, NEW p, NEW f, NEW cur, NEW cnt, TcpInv(c, t, l, p, f, cur, cnt),
         c \in Connections, MaxSession \in Nat,
         t.server = "closed", NEW nxt \in Nat,
         NEW c2, c2.link = l, c2.session = c.session, c2.next = nxt,
         NEW t2, t2 = [client |-> "connected", server |-> "connected", down |-> <<>>,
                       up |-> <<Login_request(c.session, nxt)>>]
  PROVE  TcpInv(c2, t2, l, p, f, cur, cnt)
<1> DEFINE r == Login_request(c.session, nxt)
<1>1. c.session \in Nat
  BY DEF Connections, Sessions, NoSession
<1>2. r \in UpPackets /\ r.type = "login_request"
  BY <1>1 DEF UpPackets, Login_request
<1> HIDE DEF r
<1>3. <<r>> \in Seq(UpPackets) /\ <<>> \in Seq(DownPackets) /\ Len(<<r>>) = 1 /\ <<r>>[1] = r
  BY <1>2
<1>4. t2 \in Tcps /\ t2.up = <<r>>
  BY <1>3 DEF Tcps, EndState, r
<1>5. t2.server = "connected" /\ t2.client = "connected" /\ t2.down = <<>>
  OBVIOUS
<1>6. Unread(t2)
  BY <1>2, <1>3, <1>4, <1>5 DEF Unread
<1>7. Current(c2, t2, p, f, cur, cnt)
  BY <1>4, <1>5 DEF Current, r
<1> QED
  BY <1>4, <1>5, <1>6, <1>7 DEF TcpInv

\* ClientCloses
LEMMA TcpClientCloses ==
  ASSUME NEW c, NEW t, NEW l, NEW p, NEW f, NEW cur, NEW cnt, TcpInv(c, t, l, p, f, cur, cnt),
         NEW t2 \in ClientCloses(t), NEW c2, c2.link # l
  PROVE  TcpInv(c2, t2, l, p, f, cur, cnt)
<1>1. t \in Tcps /\ Unread(t) /\ t.up \in Seq(UpPackets)
  BY TcpFields DEF TcpInv
<1>2. PICK u \in Prefixes(t.up) : t2 = [t EXCEPT !.client = "closed", !.down = <<>>, !.up = u]
  BY DEF ClientCloses
<1>3. PICK m \in 0..Len(t.up) : u = SubSeq(t.up, 1, m)
  BY PrefixIsCut
<1>4. u \in Seq(UpPackets) /\ Len(u) = m /\ \A k \in 1..m : u[k] = t.up[k]
  BY <1>1, <1>3, CutQueue
<1>5. <<>> \in Seq(DownPackets)
  OBVIOUS
<1>6. t2 \in Tcps /\ t2.server = t.server /\ t2.client = "closed" /\ t2.up = u
  BY <1>1, <1>2, <1>4, <1>5 DEF Tcps, EndState
<1>7. \A k \in 1..m : k \in 1..Len(t.up)
  BY <1>1
<1>8. Unread(t2)
  BY <1>1, <1>4, <1>6, <1>7 DEF Unread
<1> QED
  BY <1>6, <1>8 DEF TcpInv

\* What a client reads in the response to its login.
LEMMA ResponseRead ==
  ASSUME NEW c, NEW t \in Tcps, NEW p, NEW f, NEW cur, NEW cnt \in [Sessions -> Nat],
         Current(c, t, p, f, cur, cnt), t.down # <<>>, Head(t.down).type = "login_accepted",
         NEW r, r = Head(t.down)
  PROVE  /\ t.client = "connected" /\ t.server # "connected"
         /\ c.session \in {NoSession, r.session} /\ (c.next # 0 => r.next <= c.next)
         /\ Follows(Tail(t.down), r.session, r.next, t.server, p, f, cur, cnt)
         /\ c.ended => Tail(t.down) = <<>>
<1>1. t.down \in Seq(DownPackets)
  BY TcpFields
<1>2. t.down # <<Login_rejected>>
  <2> SUFFICES ASSUME t.down = <<Login_rejected>> PROVE FALSE
    OBVIOUS
  <2>1. Head(t.down) = Login_rejected
    OBVIOUS
  <2> QED
    BY <2>1 DEF Login_rejected
<1>3. ~Follows(t.down, c.session, c.next, t.server, p, f, cur, cnt)
  <2> SUFFICES ASSUME Follows(t.down, c.session, c.next, t.server, p, f, cur, cnt)
               PROVE  FALSE
    OBVIOUS
  <2>1. \/ Head(t.down) = Sequenced_data(<<c.session, c.next>>)
        \/ Head(t.down) = End_of_session
    BY <1>1, FollowsHead
  <2> QED
    BY <2>1 DEF Sequenced_data, End_of_session
<1> QED
  BY <1>2, <1>3 DEF Current, Doomed

\* What a client that is logged in reads.
LEMMA SessionRead ==
  ASSUME NEW c, NEW t \in Tcps, NEW p, NEW f, NEW cur, NEW cnt \in [Sessions -> Nat],
         Current(c, t, p, f, cur, cnt), t.down # <<>>, t.client = "logged_in"
  PROVE  /\ t.server # "connected" /\ ~c.ended
         /\ Follows(t.down, c.session, c.next, t.server, p, f, cur, cnt)
         /\ \/ /\ Head(t.down) = Sequenced_data(<<c.session, c.next>>) /\ c.next <= cnt[c.session]
               /\ Follows(Tail(t.down), c.session, c.next + 1, t.server, p, f, cur, cnt)
            \/ Head(t.down) = End_of_session /\ Tail(t.down) = <<>>
<1>1. t.server # "connected" /\ ~c.ended
      /\ Follows(t.down, c.session, c.next, t.server, p, f, cur, cnt)
  BY DEF Current, Doomed
<1> QED
  BY <1>1, TcpFields, FollowsHead

\* ClientLoggedIn
LEMMA TcpLoggedIn ==
  ASSUME NEW c, NEW t, NEW l, NEW p, NEW f, NEW cur, NEW cnt \in [Sessions -> Nat],
         TcpInv(c, t, l, p, f, cur, cnt),
         c.link = l, t.down # <<>>, Head(t.down).type = "login_accepted",
         NEW r, r = Head(t.down),
         NEW c2, c2.link = l, c2.session = r.session, c2.next = r.next, c2.ended = c.ended,
         NEW t2, t2 = [t EXCEPT !.client = "logged_in", !.down = Tail(@)]
  PROVE  TcpInv(c2, t2, l, p, f, cur, cnt)
<1>1. t \in Tcps /\ Unread(t) /\ Current(c, t, p, f, cur, cnt) /\ t.down \in Seq(DownPackets)
  BY TcpFields DEF TcpInv
<1>2. /\ t.client = "connected" /\ t.server # "connected"
      /\ Follows(Tail(t.down), r.session, r.next, t.server, p, f, cur, cnt)
      /\ c.ended => Tail(t.down) = <<>>
  BY <1>1, ResponseRead
<1> DEFINE q == Tail(t.down)
<1>3. q \in Seq(DownPackets)
  BY <1>1, TailOfQueue
<1> HIDE DEF q
<1>4. t2 = [t EXCEPT !.client = "logged_in", !.down = q]
  BY DEF q
<1>5. /\ t2 \in Tcps /\ t2.server = t.server /\ t2.client = "logged_in" /\ t2.up = t.up
      /\ t2.down = q
  BY <1>1, <1>3, <1>4 DEF Tcps, EndState
<1>6. Unread(t2)
  BY <1>1, <1>2, <1>5 DEF Unread
<1>7. Follows(q, c2.session, c2.next, t2.server, p, f, cur, cnt) /\ (c2.ended => q = <<>>)
  BY <1>2, <1>5 DEF q
<1>8. Current(c2, t2, p, f, cur, cnt)
  BY <1>2, <1>5, <1>7 DEF Current
<1> QED
  BY <1>1, <1>5, <1>6, <1>8 DEF TcpInv

\* What a client is handed.
LEMMA DataRead ==
  ASSUME NEW c, NEW t, NEW l, NEW p, NEW f, NEW cur, NEW cnt \in [Sessions -> Nat],
         TcpInv(c, t, l, p, f, cur, cnt), c.link = l, t.client = "logged_in",
         t.down # <<>>, Head(t.down).type = "sequenced_data"
  PROVE  /\ Head(t.down).message = <<c.session, c.next>>
         /\ c.session \in Sessions /\ c.next \in 1..cnt[c.session]
<1>1. t \in Tcps /\ Current(c, t, p, f, cur, cnt)
  BY DEF TcpInv
<1>2. /\ Head(t.down) = Sequenced_data(<<c.session, c.next>>) /\ c.next <= cnt[c.session]
      /\ Follows(t.down, c.session, c.next, t.server, p, f, cur, cnt)
  BY <1>1, SessionRead DEF End_of_session
<1> QED
  BY <1>2 DEF Sequenced_data, Follows, Stream

\* ClientReadsData
LEMMA TcpReadsData ==
  ASSUME NEW c, NEW t, NEW l, NEW p, NEW f, NEW cur, NEW cnt \in [Sessions -> Nat],
         TcpInv(c, t, l, p, f, cur, cnt), c.link = l, t.client = "logged_in",
         t.down # <<>>, Head(t.down).type = "sequenced_data",
         NEW c2, c2.link = l, c2.session = c.session, c2.next = c.next + 1, c2.ended = c.ended,
         NEW t2, t2 = [t EXCEPT !.down = Tail(@)]
  PROVE  TcpInv(c2, t2, l, p, f, cur, cnt)
<1>1. t \in Tcps /\ Unread(t) /\ Current(c, t, p, f, cur, cnt) /\ t.down \in Seq(DownPackets)
  BY TcpFields DEF TcpInv
<1>2. /\ t.server # "connected" /\ ~c.ended
      /\ Head(t.down) = Sequenced_data(<<c.session, c.next>>) /\ c.next <= cnt[c.session]
      /\ Follows(t.down, c.session, c.next, t.server, p, f, cur, cnt)
      /\ Follows(Tail(t.down), c.session, c.next + 1, t.server, p, f, cur, cnt)
  BY <1>1, SessionRead DEF End_of_session
<1> DEFINE q == Tail(t.down)
<1>4. q \in Seq(DownPackets)
  BY <1>1, TailOfQueue
<1>5. Follows(q, c2.session, c2.next, t.server, p, f, cur, cnt)
  BY <1>2
<1> HIDE DEF q
<1>6. t2 = [t EXCEPT !.down = q]
  BY DEF q
<1>7. /\ t2 \in Tcps /\ t2.server = t.server /\ t2.client = t.client /\ t2.up = t.up
      /\ t2.down = q
  BY <1>1, <1>4, <1>6 DEF Tcps
<1>8. Unread(t2)
  BY <1>1, <1>7 DEF Unread
<1>9. Current(c2, t2, p, f, cur, cnt)
  BY <1>2, <1>5, <1>7 DEF Current
<1> QED
  BY <1>1, <1>7, <1>8, <1>9 DEF TcpInv

\* When a client is told of the end.
LEMMA EndRead ==
  ASSUME NEW c, NEW t, NEW l, NEW p, NEW f \in Nat, NEW cur, NEW cnt \in [Sessions -> Nat],
         TcpInv(c, t, l, p, f, cur, cnt), c.link = l, t.client = "logged_in",
         t.down # <<>>, Head(t.down).type = "end_of_session"
  PROVE  c.session \in Sessions /\ (c.session = cur => p.ended /\ f = c.next)
<1>1. t \in Tcps /\ Current(c, t, p, f, cur, cnt) /\ t.down \in Seq(DownPackets)
  BY TcpFields DEF TcpInv
<1>2. /\ Head(t.down) = End_of_session /\ Tail(t.down) = <<>>
      /\ Follows(t.down, c.session, c.next, t.server, p, f, cur, cnt)
  <2>1. Head(t.down) # Sequenced_data(<<c.session, c.next>>)
    BY DEF Sequenced_data
  <2> QED
    BY <1>1, <2>1, SessionRead
<1>3. Len(t.down) = 1 /\ t.down[1] = End_of_session
  <2> DEFINE u == Tail(t.down)
  <2>1. Len(u) = Len(t.down) - 1 /\ Len(t.down) \in Nat /\ Head(t.down) = t.down[1]
    BY <1>1, TailOfQueue
  <2>2. u = <<>>
    BY <1>2
  <2> HIDE DEF u
  <2> QED
    BY <1>2, <2>1, <2>2
<1>4. c.session \in Sessions /\ c.next \in Nat
  BY <1>2 DEF Follows, Stream
<1> QED
  BY <1>2, <1>3, <1>4 DEF Follows, EndTold

\* ClientReadsEndOfSession
LEMMA TcpReadsEndOfSession ==
  ASSUME NEW c, NEW t, NEW l, NEW p, NEW f \in Nat, NEW cur, NEW cnt \in [Sessions -> Nat],
         TcpInv(c, t, l, p, f, cur, cnt), c.link = l, t.client = "logged_in",
         t.down # <<>>, Head(t.down).type = "end_of_session",
         NEW c2, c2.link = l, c2.session = c.session, c2.next = c.next,
         NEW t2, t2 = [t EXCEPT !.down = Tail(@)]
  PROVE  TcpInv(c2, t2, l, p, f, cur, cnt)
<1>1. t \in Tcps /\ Unread(t) /\ Current(c, t, p, f, cur, cnt) /\ t.down \in Seq(DownPackets)
  BY TcpFields DEF TcpInv
<1>2. /\ t.server # "connected" /\ Head(t.down) = End_of_session /\ Tail(t.down) = <<>>
      /\ Follows(t.down, c.session, c.next, t.server, p, f, cur, cnt)
  <2>1. Head(t.down) # Sequenced_data(<<c.session, c.next>>)
    BY DEF Sequenced_data
  <2> QED
    BY <1>1, <2>1, SessionRead
<1>4. c.session \in Sessions /\ c.next \in Nat /\ cnt[c.session] \in Nat
      /\ c.next \in 1..(cnt[c.session] + 1) /\ c.session <= cur
  BY <1>2 DEF Follows, Stream
<1>5. c.session = cur => p.ended /\ f = c.next
  BY EndRead
<1>6. <<>> \in Seq(DownPackets)
  OBVIOUS
<1>7. /\ t2 \in Tcps /\ t2.server = t.server /\ t2.client = t.client /\ t2.up = t.up
      /\ t2.down = <<>>
  BY <1>1, <1>2, <1>6 DEF Tcps
<1>8. Unread(t2)
  BY <1>1, <1>7 DEF Unread
<1>9. Follows(<<>>, c.session, c.next, t.server, p, f, cur, cnt)
  <2>1. Stream(<<>>, c.session, c.next, cnt)
    BY <1>4 DEF Stream
  <2>2. ~EndTold(<<>>)
    BY DEF EndTold
  <2>3. t.server = "logged_in" => c.session = cur /\ (~p.ended => p.next = c.next + Len(<<>>))
    BY <1>2, <1>5 DEF Follows
  <2> QED
    BY <1>4, <2>1, <2>2, <2>3 DEF Follows
<1>10. Current(c2, t2, p, f, cur, cnt)
  BY <1>2, <1>7, <1>9 DEF Current
<1> QED
  BY <1>1, <1>7, <1>8, <1>10 DEF TcpInv

\* ClientSend, on a connection that takes the message.
LEMMA TcpClientSend ==
  ASSUME NEW c, NEW t, NEW l, NEW p, NEW f, NEW cur, NEW cnt,
         TcpInv(c, t, l, p, f, cur, cnt), c.link = l, t.client = "logged_in",
         NEW m \in Nat, NEW t2, t2 = [t EXCEPT !.up = Append(@, Unsequenced_data(m))]
  PROVE  TcpInv(c, t2, l, p, f, cur, cnt)
<1>1. t \in Tcps /\ Unread(t) /\ Current(c, t, p, f, cur, cnt) /\ t.up \in Seq(UpPackets)
  BY TcpFields DEF TcpInv
<1> DEFINE e == Unsequenced_data(m)
           u == Append(t.up, e)
<1>2. e \in UpPackets /\ e.type = "unsequenced_data"
  BY DEF UpPackets, Unsequenced_data
<1> HIDE DEF e
<1>3. /\ u \in Seq(UpPackets) /\ Len(u) = Len(t.up) + 1 /\ u[Len(u)] = e /\ Len(t.up) \in Nat
      /\ \A k \in 1..Len(t.up) : u[k] = t.up[k]
  BY <1>1, <1>2, AppendToQueue
<1> HIDE DEF u
<1>4. t2 = [t EXCEPT !.up = u]
  BY DEF e, u
<1>5. /\ t2 \in Tcps /\ t2.server = t.server /\ t2.client = t.client /\ t2.up = u
      /\ t2.down = t.down
  BY <1>1, <1>3, <1>4 DEF Tcps
<1>6. t.server # "connected"
  BY <1>1 DEF Current, Doomed
<1>7. Unread(t2)
  <2>1. \A k \in 1..Len(t.up) : t.up[k].type = "unsequenced_data"
    BY <1>1, <1>6 DEF Unread
  <2>2. ASSUME NEW k \in 1..Len(u)
        PROVE  u[k].type = "unsequenced_data"
    <3>1. k \in 1..Len(t.up) \/ k = Len(u)
      BY <1>3
    <3> QED
      BY <1>2, <1>3, <2>1, <3>1
  <2> QED
    BY <1>5, <1>6, <2>2 DEF Unread
<1>8. Current(c, t2, p, f, cur, cnt)
  BY <1>1, <1>5, <1>6 DEF Current, Doomed
<1> QED
  BY <1>1, <1>5, <1>7, <1>8 DEF TcpInv

-----------------------------------------------------------------------------
\* Steps of one connection and its port.

\* A connection and its port do not mind that the client goes on.
LEMMA PairMonotone ==
  ASSUME NEW c, NEW p, NEW f, NEW nxt \in Nat, NEW cur, NEW cnt, PairInv(c, p, f, nxt, cur, cnt),
         NEW nxt2 \in Nat, nxt <= nxt2
  PROVE  PairInv(c, p, f, nxt2, cur, cnt)
<1>1. c.next \in Nat /\ f \in Nat
  BY DEF PairInv, Connections
<1> QED
  BY <1>1 DEF PairInv

\* A step that leaves all other connections and ports alone.
LEMMA OnePair ==
  ASSUME IndInv, NEW i \in Conn,
         session' = session, count' = count, final' = final,
         next' \in Nat, next <= next', ended' \in BOOLEAN, joined' \in Sessions \cup {NoSession},
         conn' \in [Conn -> Connections], \A j \in Conn \ {i} : conn'[j] = conn[j],
         port' \in [Conn -> Ports], \A j \in Conn \ {i} : port'[j] = port[j],
         link' \in [Conn -> [Link -> Tcps]], \A j \in Conn \ {i} : link'[j] = link[j],
         PairInv(conn'[i], port'[i], final[i], next', session, count),
         \A l \in Link : TcpInv(conn'[i], link'[i][l], l, port'[i], final[i], session, count)
  PROVE  IndInv'
<1>1. \A j \in Conn : PairInv(conn'[j], port'[j], final[j], next', session, count)
  <2> SUFFICES ASSUME NEW j \in Conn \ {i}
               PROVE  PairInv(conn[j], port[j], final[j], next', session, count)
    OBVIOUS
  <2>1. PairInv(conn[j], port[j], final[j], next, session, count) /\ next \in Nat
    BY DEF IndInv
  <2> QED
    BY <2>1, PairMonotone
<1>2. \A j \in Conn, l \in Link :
        TcpInv(conn'[j], link'[j][l], l, port'[j], final[j], session, count)
  <2> SUFFICES ASSUME NEW j \in Conn \ {i}, NEW l \in Link
               PROVE  TcpInv(conn[j], link[j][l], l, port[j], final[j], session, count)
    OBVIOUS
  <2> QED
    BY DEF IndInv
<1> QED
  BY <1>1, <1>2 DEF IndInv

\* A new value of one TCP connection.
LEMMA OneTcpChanged ==
  ASSUME NEW f \in [Conn -> [Link -> Tcps]], NEW i \in Conn, NEW l \in Link, NEW t \in Tcps,
         NEW g, g = [f EXCEPT ![i][l] = t]
  PROVE  /\ g \in [Conn -> [Link -> Tcps]]
         /\ \A j \in Conn \ {i} : g[j] = f[j]
         /\ g[i][l] = t /\ \A m \in Link \ {l} : g[i][m] = f[i][m]
OBVIOUS

\* A step of one connection, its port and one of its TCP connections.
LEMMA OneTcp ==
  ASSUME IndInv, NEW i \in Conn, NEW l \in Link, NEW t \in Tcps,
         session' = session, count' = count, final' = final,
         next' \in Nat, next <= next', ended' \in BOOLEAN, joined' \in Sessions \cup {NoSession},
         conn' \in [Conn -> Connections], \A j \in Conn \ {i} : conn'[j] = conn[j],
         port' \in [Conn -> Ports], \A j \in Conn \ {i} : port'[j] = port[j],
         link' = [link EXCEPT ![i][l] = t],
         PairInv(conn'[i], port'[i], final[i], next', session, count),
         TcpInv(conn'[i], t, l, port'[i], final[i], session, count),
         \A m \in Link \ {l} :
           TcpInv(conn'[i], link[i][m], m, port'[i], final[i], session, count)
  PROVE  IndInv'
<1>1. link \in [Conn -> [Link -> Tcps]]
  BY DEF IndInv
<1>2. /\ link' \in [Conn -> [Link -> Tcps]] /\ \A j \in Conn \ {i} : link'[j] = link[j]
      /\ link'[i][l] = t /\ \A m \in Link \ {l} : link'[i][m] = link[i][m]
  BY <1>1, OneTcpChanged
<1>3. \A m \in Link : TcpInv(conn'[i], link'[i][m], m, port'[i], final[i], session, count)
  BY <1>2
<1> QED
  BY <1>2, <1>3, OnePair

\* The facts about one connection, its port and its TCP connections.
LEMMA Facts ==
  ASSUME IndInv, NEW i \in Conn
  PROVE  /\ next \in Nat /\ ended \in BOOLEAN /\ session \in Sessions /\ session \in Nat
         /\ count \in [Sessions -> Nat] /\ count[session] \in Nat
         /\ joined \in Sessions \cup {NoSession} /\ final[i] \in Nat
         /\ conn \in [Conn -> Connections] /\ port \in [Conn -> Ports]
         /\ conn[i] \in Connections /\ port[i] \in Ports
         /\ link \in [Conn -> [Link -> Tcps]]
         /\ PairInv(conn[i], port[i], final[i], next, session, count)
         /\ \A l \in Link : /\ link[i][l] \in Tcps
                            /\ TcpInv(conn[i], link[i][l], l, port[i], final[i], session, count)
BY SessionAssumption DEF IndInv, Sessions

\* The fields of a connection and of a port.
LEMMA RecordFields ==
  /\ \A c \in Connections : /\ c.session \in Sessions \cup {NoSession} /\ c.next \in Nat
                            /\ c.ended \in BOOLEAN /\ c.link \in Link \cup {NoLink}
  /\ \A p \in Ports : p.next \in Nat /\ p.ended \in BOOLEAN /\ p.link \in Link \cup {NoLink}
BY DEF Connections, Ports

\* A step of a client's connection, which was at l or comes to it.
LEMMA ClientTcp ==
  ASSUME IndInv, NEW i \in Conn, NEW l \in Link, NEW t \in Tcps, NEW c \in Connections,
         UNCHANGED <<session, port, count, final>>,
         next' \in Nat, next <= next', ended' \in BOOLEAN, joined' \in Sessions \cup {NoSession},
         conn' = [conn EXCEPT ![i] = c], link' = [link EXCEPT ![i][l] = t],
         PairInv(c, port[i], final[i], next', session, count),
         TcpInv(c, t, l, port[i], final[i], session, count),
         conn[i].link \in {l, NoLink}, c.link \in {l, NoLink}
  PROVE  IndInv'
<1>1. /\ conn \in [Conn -> Connections] /\ port \in [Conn -> Ports]
      /\ \A m \in Link : TcpInv(conn[i], link[i][m], m, port[i], final[i], session, count)
  BY Facts
<1>2. /\ conn' \in [Conn -> Connections] /\ conn'[i] = c
      /\ \A j \in Conn \ {i} : conn'[j] = conn[j]
  BY <1>1
<1>3. /\ port' \in [Conn -> Ports] /\ port'[i] = port[i]
      /\ \A j \in Conn \ {i} : port'[j] = port[j]
  BY <1>1
<1>4. \A m \in Link \ {l} : TcpInv(c, link[i][m], m, port[i], final[i], session, count)
  <2> SUFFICES ASSUME NEW m \in Link \ {l}
               PROVE  TcpInv(c, link[i][m], m, port[i], final[i], session, count)
    OBVIOUS
  <2>1. conn[i].link # m /\ c.link # m
    BY SessionAssumption
  <2> QED
    BY <1>1, <2>1, TcpBystander
<1> QED
  BY <1>2, <1>3, <1>4, OneTcp

\* Connect
LEMMA ConnectInv ==
  ASSUME IndInv, NEW i \in Conn, Connect(i)
  PROVE  IndInv'
<1>1. PICK l \in {k \in Link : Free(i, k)} :
        /\ link' = [link EXCEPT ![i][l] =
                      [client |-> "connected", server |-> "connected", down |-> <<>>,
                       up |-> <<Login_request(conn[i].session, next)>>]]
        /\ conn' = [conn EXCEPT ![i].next = next, ![i].link = l]
  BY DEF Connect
<1>2. /\ UNCHANGED <<next, ended, session, port, count, joined, final>>
      /\ conn[i].link = NoLink
  BY DEF Connect, clientHistory, serverHistory
<1>3. /\ next \in Nat /\ ended \in BOOLEAN /\ joined \in Sessions \cup {NoSession}
      /\ conn \in [Conn -> Connections] /\ conn[i] \in Connections
      /\ PairInv(conn[i], port[i], final[i], next, session, count)
      /\ TcpInv(conn[i], link[i][l], l, port[i], final[i], session, count)
  BY Facts
<1> DEFINE t == [client |-> "connected", server |-> "connected", down |-> <<>>,
                 up |-> <<Login_request(conn[i].session, next)>>]
           c == [conn[i] EXCEPT !.next = next, !.link = l]
<1>4. /\ c \in Connections /\ c.link = l /\ c.session = conn[i].session /\ c.next = next
      /\ c.ended = conn[i].ended
  BY <1>3 DEF Connections
<1>5. conn' = [conn EXCEPT ![i] = c] /\ link' = [link EXCEPT ![i][l] = t]
  BY <1>1, <1>3
<1>6. t = [client |-> "connected", server |-> "connected", down |-> <<>>,
           up |-> <<Login_request(conn[i].session, next)>>]
  OBVIOUS
<1> HIDE DEF t, c
<1>7. TcpInv(c, t, l, port[i], final[i], session, count)
  <2>1. link[i][l].server = "closed"
    BY <1>1 DEF Free
  <2> QED
    BY <2>1, <1>3, <1>4, <1>6, TcpConnect, SessionAssumption
<1>8. t \in Tcps
  BY <1>7 DEF TcpInv
<1>9. PairInv(c, port[i], final[i], next, session, count)
  BY <1>3, <1>4 DEF PairInv
<1>10. next' \in Nat /\ next <= next' /\ ended' \in BOOLEAN /\ joined' \in Sessions \cup {NoSession}
       /\ PairInv(c, port[i], final[i], next', session, count)
  BY <1>2, <1>3, <1>9
<1> QED
  BY <1>2, <1>4, <1>5, <1>7, <1>8, <1>10, ClientTcp

\* A connection that leaves its TCP connection.
LEMMA DropsInv ==
  ASSUME IndInv, NEW i \in Conn, conn[i].link # NoLink, NEW w \in BOOLEAN, Drops(i, w),
         UNCHANGED <<next, ended, session, port, count, joined, final>>
  PROVE  IndInv'
<1> DEFINE l == conn[i].link
           c == [conn[i] EXCEPT !.link = NoLink, !.wanted = w]
<1>1. PICK t \in ClientCloses(link[i][l]) : link' = [link EXCEPT ![i][l] = t]
  BY DEF Drops
<1>2. /\ next \in Nat /\ ended \in BOOLEAN /\ joined \in Sessions \cup {NoSession}
      /\ conn \in [Conn -> Connections] /\ conn[i] \in Connections
      /\ PairInv(conn[i], port[i], final[i], next, session, count)
      /\ \A m \in Link : TcpInv(conn[i], link[i][m], m, port[i], final[i], session, count)
  BY Facts
<1>3. /\ c \in Connections /\ c.link = NoLink /\ c.session = conn[i].session
      /\ c.ended = conn[i].ended /\ l \in Link
  BY <1>2 DEF Connections
<1>4. conn' = [conn EXCEPT ![i] = c]
  BY <1>2 DEF Drops
<1> HIDE DEF c
<1>5. NoLink # l
  OBVIOUS
<1>6. TcpInv(c, t, l, port[i], final[i], session, count)
  BY <1>1, <1>2, <1>3, <1>5, TcpClientCloses
<1>7. t \in Tcps
  BY <1>6 DEF TcpInv
<1>8. PairInv(c, port[i], final[i], next, session, count)
  BY <1>2, <1>3 DEF PairInv
<1>9. next' \in Nat /\ next <= next' /\ ended' \in BOOLEAN /\ joined' \in Sessions \cup {NoSession}
      /\ PairInv(c, port[i], final[i], next', session, count)
  BY <1>2, <1>8
<1>10. conn[i].link \in {l, NoLink} /\ c.link \in {l, NoLink}
  BY <1>3
<1> HIDE DEF l
<1> QED
  BY <1>1, <1>3, <1>4, <1>6, <1>7, <1>9, <1>10, ClientTcp

\* UserConnect
LEMMA UserConnectInv ==
  ASSUME IndInv, NEW i \in Conn, UserConnect(i)
  PROVE  IndInv'
<1> DEFINE c == [conn[i] EXCEPT !.wanted = TRUE]
<1>1. UNCHANGED <<next, ended, link, session, port, count, joined, final>>
  BY DEF UserConnect, clientHistory, serverHistory
<1>2. /\ next \in Nat /\ ended \in BOOLEAN /\ joined \in Sessions \cup {NoSession}
      /\ conn \in [Conn -> Connections] /\ conn[i] \in Connections /\ port \in [Conn -> Ports]
      /\ link \in [Conn -> [Link -> Tcps]]
      /\ PairInv(conn[i], port[i], final[i], next, session, count)
      /\ \A m \in Link : TcpInv(conn[i], link[i][m], m, port[i], final[i], session, count)
  BY Facts
<1>3. /\ c \in Connections /\ c.link = conn[i].link /\ c.session = conn[i].session
      /\ c.next = conn[i].next /\ c.ended = conn[i].ended
  BY <1>2 DEF Connections
<1>4. /\ conn' \in [Conn -> Connections] /\ conn'[i] = c
      /\ \A j \in Conn \ {i} : conn'[j] = conn[j]
  BY <1>2, <1>3 DEF UserConnect
<1> HIDE DEF c
<1>5. PairInv(c, port[i], final[i], next, session, count)
  BY <1>2, <1>3 DEF PairInv
<1>6. ASSUME NEW m \in Link
      PROVE  TcpInv(c, link[i][m], m, port[i], final[i], session, count)
  BY <1>2, <1>3 DEF TcpInv, Current
<1>7. /\ PairInv(conn'[i], port'[i], final[i], next', session, count)
      /\ \A m \in Link : TcpInv(conn'[i], link'[i][m], m, port'[i], final[i], session, count)
  BY <1>1, <1>4, <1>5, <1>6
<1>8. /\ next' \in Nat /\ next <= next' /\ ended' \in BOOLEAN
      /\ joined' \in Sessions \cup {NoSession} /\ port' \in [Conn -> Ports]
      /\ link' \in [Conn -> [Link -> Tcps]]
      /\ \A j \in Conn \ {i} : port'[j] = port[j] /\ link'[j] = link[j]
  BY <1>1, <1>2
<1> QED
  BY <1>1, <1>4, <1>7, <1>8, OnePair

\* What the verdict "none" says of the number in the response.
LEMMA VerdictNone ==
  ASSUME NEW c, NEW r, on_login_success(c, r) = "none"
  PROVE  /\ c.session # NoSession => r.session = c.session
         /\ c.next # 0 => ~(r.next < c.next) /\ ~(r.next > c.next)
         /\ c.next = 0 /\ next # 0 => ~(r.next > next)
BY DEF on_login_success

\* ClientLoggedIn
LEMMA ClientLoggedInInv ==
  ASSUME IndInv, NEW i \in Conn, ClientLoggedIn(i)
  PROVE  IndInv'
<1> DEFINE l == conn[i].link
           r == ClientPacket(i)
           c == [conn[i] EXCEPT !.session = r.session, !.next = r.next]
           t == [link[i][l] EXCEPT !.client = "logged_in", !.down = Tail(@)]
<1>1. /\ UNCHANGED <<ended, session, port, count, final>>
      /\ l # NoLink /\ link[i][l].down # <<>> /\ Head(link[i][l].down).type = "login_accepted"
      /\ on_login_success(conn[i], r) = "none"
      /\ next' = (IF conn[i].next = 0 /\ next = 0 THEN r.next ELSE next)
      /\ joined' = (IF joined = NoSession THEN r.session ELSE joined)
      /\ r = Head(link[i][l].down) /\ r.next # 0
  BY DEF ClientLoggedIn, ClientReads, ClientPacket, serverHistory
<1>2. /\ next \in Nat /\ ended \in BOOLEAN /\ joined \in Sessions \cup {NoSession}
      /\ session \in Nat /\ count \in [Sessions -> Nat] /\ final[i] \in Nat
      /\ conn \in [Conn -> Connections] /\ conn[i] \in Connections
      /\ PairInv(conn[i], port[i], final[i], next, session, count)
      /\ \A m \in Link : /\ link[i][m] \in Tcps
                         /\ TcpInv(conn[i], link[i][m], m, port[i], final[i], session, count)
  BY Facts
<1>3. l \in Link /\ conn[i].next \in Nat
  BY <1>1, <1>2, RecordFields
<1>4. Follows(Tail(link[i][l].down), r.session, r.next, link[i][l].server,
              port[i], final[i], session, count)
      /\ conn[i].session \in {NoSession, r.session}
  <2>1. Current(conn[i], link[i][l], port[i], final[i], session, count)
    BY <1>2, <1>3 DEF TcpInv
  <2> QED
    BY <1>1, <1>2, <1>3, <2>1, ResponseRead
<1>5. r.session \in Sessions /\ r.session <= session /\ count[r.session] \in Nat
      /\ r.next \in 1..(count[r.session] + 1)
  BY <1>2, <1>4 DEF Follows, Stream
<1>6. /\ c \in Connections /\ c.link = l /\ c.session = r.session /\ c.next = r.next
      /\ c.ended = conn[i].ended
  <2> HIDE DEF r
  <2>1. r.session \in Sessions \cup {NoSession} /\ r.next \in Nat
    BY <1>5
  <2> QED
    BY <1>2, <2>1 DEF Connections
<1>7. conn' = [conn EXCEPT ![i] = c] /\ link' = [link EXCEPT ![i][l] = t]
  BY <1>2, <1>3 DEF ClientLoggedIn
<1>8. t = [link[i][l] EXCEPT !.client = "logged_in", !.down = Tail(@)]
  OBVIOUS
<1> HIDE DEF c, t, r, l
<1>9. TcpInv(c, t, l, port[i], final[i], session, count)
  <2>1. conn[i].link = l
    BY DEF l
  <2> QED
    BY <1>1, <1>2, <1>3, <1>6, <1>8, <2>1, TcpLoggedIn
<1>10. t \in Tcps
  BY <1>9 DEF TcpInv
<1>11. next' \in Nat /\ next <= next' /\ r.next <= next'
  <2>1. conn[i].next <= next
    BY <1>1, <1>2 DEF PairInv, l
  <2>2. CASE conn[i].next = 0 /\ next = 0
    BY <2>2, <1>1, <1>2, <1>5
  <2>3. CASE ~(conn[i].next = 0 /\ next = 0)
    <3>1. /\ conn[i].next # 0 => ~(r.next < conn[i].next) /\ ~(r.next > conn[i].next)
          /\ conn[i].next = 0 /\ next # 0 => ~(r.next > next)
      BY <1>1, VerdictNone
    <3> QED
      BY <2>1, <2>3, <3>1, <1>1, <1>2, <1>3, <1>5
  <2> QED
    BY <2>2, <2>3
<1>12. PairInv(c, port[i], final[i], next', session, count)
  <2>1. PairInv(conn[i], port[i], final[i], next', session, count)
    BY <1>2, <1>11, PairMonotone
  <2>2. c.ended => c.session = conn[i].session
    BY <1>2, <1>4, <1>6 DEF PairInv
  <2> QED
    BY <1>5, <1>6, <1>11, <2>1, <2>2 DEF PairInv
<1>13. ended' \in BOOLEAN /\ joined' \in Sessions \cup {NoSession}
  BY <1>1, <1>2, <1>5
<1>14. conn[i].link \in {l, NoLink} /\ c.link \in {l, NoLink}
  BY <1>6 DEF l
<1> QED
  BY <1>1, <1>3, <1>6, <1>7, <1>9, <1>10, <1>11, <1>12, <1>13, <1>14, ClientTcp

\* ClientReadsData
LEMMA ClientReadsDataInv ==
  ASSUME IndInv, NEW i \in Conn, ClientReadsData(i)
  PROVE  /\ IndInv' /\ next \in Nat /\ conn[i].next \in 1..count[conn[i].session]
         /\ conn[i].session \in Sessions /\ conn[i].next <= next
         /\ ClientPacket(i).message = <<conn[i].session, conn[i].next>>
<1> DEFINE l == conn[i].link
           c == [conn[i] EXCEPT !.next = @ + 1]
           t == [link[i][l] EXCEPT !.down = Tail(@)]
<1>1. /\ UNCHANGED <<ended, session, port, count, joined, final>>
      /\ l # NoLink /\ link[i][l].down # <<>> /\ Head(link[i][l].down).type = "sequenced_data"
      /\ link[i][l].client = "logged_in"
      /\ conn[i].next >= next => next' = conn[i].next + 1
      /\ ~(conn[i].next >= next) => next' = next
      /\ ClientPacket(i) = Head(link[i][l].down)
  BY DEF ClientReadsData, ClientReads, ClientPacket, ClientState, serverHistory,
         sequence_number, is_new
<1>2. /\ next \in Nat /\ ended \in BOOLEAN /\ joined \in Sessions \cup {NoSession}
      /\ count \in [Sessions -> Nat]
      /\ conn \in [Conn -> Connections] /\ conn[i] \in Connections
      /\ PairInv(conn[i], port[i], final[i], next, session, count)
      /\ \A m \in Link : TcpInv(conn[i], link[i][m], m, port[i], final[i], session, count)
  BY Facts
<1>3. l \in Link /\ conn[i].next \in Nat
  BY <1>1, <1>2, RecordFields
<1>4. /\ c \in Connections /\ c.link = l /\ c.session = conn[i].session
      /\ c.next = conn[i].next + 1 /\ c.ended = conn[i].ended
  BY <1>2 DEF Connections
<1>5. conn' = [conn EXCEPT ![i] = c] /\ link' = [link EXCEPT ![i][l] = t]
  BY <1>2, <1>3 DEF ClientReadsData, Consumed
<1>6. t = [link[i][l] EXCEPT !.down = Tail(@)] /\ conn[i].link = l
  OBVIOUS
<1> HIDE DEF c, t, l
<1>7. /\ TcpInv(c, t, l, port[i], final[i], session, count)
      /\ Head(link[i][l].down).message = <<conn[i].session, conn[i].next>>
      /\ conn[i].session \in Sessions /\ conn[i].next \in 1..count[conn[i].session]
  <2>1. /\ TcpInv(conn[i], link[i][l], l, port[i], final[i], session, count)
        /\ link[i][l].client = "logged_in" /\ link[i][l].down # <<>>
        /\ Head(link[i][l].down).type = "sequenced_data"
    BY <1>1, <1>2, <1>3
  <2>2. count \in [Sessions -> Nat]
    BY <1>2
  <2> QED
    BY <1>4, <1>6, <2>1, <2>2, TcpReadsData, DataRead
<1>8. t \in Tcps
  BY <1>7 DEF TcpInv
<1>9. conn[i].next <= next
  BY <1>1, <1>2, <1>6 DEF PairInv
<1>10. next' \in Nat /\ next <= next' /\ conn[i].next + 1 <= next'
  <2>1. CASE conn[i].next >= next
    BY <2>1, <1>1, <1>2, <1>3, <1>9
  <2>2. CASE ~(conn[i].next >= next)
    <3>1. next' = next /\ next \in Nat
      BY <1>1, <1>2, <2>2
    <3> QED
      BY <2>2, <3>1, <1>3
  <2> QED
    BY <2>1, <2>2
<1>11. PairInv(c, port[i], final[i], next', session, count)
  <2>1. PairInv(conn[i], port[i], final[i], next', session, count)
    BY <1>2, <1>10, PairMonotone
  <2> QED
    BY <1>4, <1>10, <2>1 DEF PairInv
<1>12. IndInv'
  <2>1. ended' \in BOOLEAN /\ joined' \in Sessions \cup {NoSession}
        /\ conn[i].link \in {l, NoLink} /\ c.link \in {l, NoLink}
    BY <1>1, <1>2, <1>4, <1>6
  <2> QED
    BY <1>1, <1>3, <1>4, <1>5, <1>7, <1>8, <1>10, <1>11, <2>1, ClientTcp
<1> QED
  BY <1>1, <1>2, <1>7, <1>9, <1>12

\* ClientReadsEndOfSession
LEMMA ClientReadsEndOfSessionInv ==
  ASSUME IndInv, NEW i \in Conn, ClientReadsEndOfSession(i)
  PROVE  IndInv'
<1> DEFINE l == conn[i].link
           c == [conn[i] EXCEPT !.ended = TRUE]
           t == [link[i][l] EXCEPT !.down = Tail(@)]
<1>1. /\ UNCHANGED <<next, session, port, count, joined, final>> /\ ended' = TRUE
      /\ l # NoLink /\ link[i][l].down # <<>> /\ Head(link[i][l].down).type = "end_of_session"
      /\ link[i][l].client = "logged_in"
  BY DEF ClientReadsEndOfSession, ClientReads, ClientPacket, ClientState, clientHistory,
         serverHistory
<1>2. /\ next \in Nat /\ ended \in BOOLEAN /\ joined \in Sessions \cup {NoSession}
      /\ count \in [Sessions -> Nat] /\ final[i] \in Nat
      /\ conn \in [Conn -> Connections] /\ conn[i] \in Connections
      /\ PairInv(conn[i], port[i], final[i], next, session, count)
      /\ \A m \in Link : TcpInv(conn[i], link[i][m], m, port[i], final[i], session, count)
  BY Facts
<1>3. l \in Link /\ conn[i].next \in Nat
  BY <1>1, <1>2, RecordFields
<1>4. /\ c \in Connections /\ c.link = l /\ c.session = conn[i].session
      /\ c.next = conn[i].next
  BY <1>2 DEF Connections
<1>5. conn' = [conn EXCEPT ![i] = c] /\ link' = [link EXCEPT ![i][l] = t]
  BY <1>2, <1>3 DEF ClientReadsEndOfSession, Consumed, on_end_of_session
<1>6. t = [link[i][l] EXCEPT !.down = Tail(@)] /\ conn[i].link = l
  OBVIOUS
<1> HIDE DEF c, t, l
<1>7. /\ TcpInv(c, t, l, port[i], final[i], session, count)
      /\ conn[i].session \in Sessions
      /\ conn[i].session = session => port[i].ended /\ final[i] = conn[i].next
  <2>1. /\ TcpInv(conn[i], link[i][l], l, port[i], final[i], session, count)
        /\ link[i][l].client = "logged_in" /\ link[i][l].down # <<>>
        /\ Head(link[i][l].down).type = "end_of_session"
    BY <1>1, <1>2, <1>3
  <2>2. count \in [Sessions -> Nat] /\ final[i] \in Nat
    BY <1>2
  <2>3. TcpInv(c, t, l, port[i], final[i], session, count)
    BY <1>4, <1>6, <2>1, <2>2, TcpReadsEndOfSession
  <2>4. /\ conn[i].session \in Sessions
        /\ conn[i].session = session => port[i].ended /\ final[i] = conn[i].next
    BY <1>6, <2>1, <2>2, EndRead
  <2> QED
    BY <2>3, <2>4
<1>8. t \in Tcps
  BY <1>7 DEF TcpInv
<1>9. conn[i].next <= next
  BY <1>1, <1>2, <1>6 DEF PairInv
<1>10. conn[i].session # NoSession
  BY <1>7, SessionAssumption DEF Sessions, NoSession
<1>11. PairInv(c, port[i], final[i], next, session, count)
  BY <1>2, <1>4, <1>7, <1>9, <1>10 DEF PairInv
<1>12. next' \in Nat /\ next <= next' /\ ended' \in BOOLEAN /\ joined' \in Sessions \cup {NoSession}
       /\ PairInv(c, port[i], final[i], next', session, count)
       /\ conn[i].link \in {l, NoLink} /\ c.link \in {l, NoLink}
  BY <1>1, <1>2, <1>4, <1>6, <1>11
<1> QED
  BY <1>1, <1>3, <1>4, <1>5, <1>7, <1>8, <1>12, ClientTcp

\* A step of the client, whichever it is.
LEMMA ClientStepInv ==
  ASSUME IndInv, NEW i \in Conn, ClientStep(i) \/ ClientLoses(i)
  PROVE  IndInv'
<1>1. CASE Connect(i)
  BY <1>1, ConnectInv
<1>2. CASE UserConnect(i)
  BY <1>2, UserConnectInv
<1>3. CASE ClientReadsEnd(i)
  BY <1>3, DropsInv DEF ClientReadsEnd, clientHistory, serverHistory
<1>4. CASE ClientLoggedIn(i)
  BY <1>4, ClientLoggedInInv
<1>5. CASE ClientDisagrees(i)
  BY <1>5, DropsInv DEF ClientDisagrees, ClientReads, serverHistory
<1>6. CASE ClientRejected(i)
  BY <1>6, DropsInv DEF ClientRejected, ClientReads, clientHistory, serverHistory
<1>7. CASE ClientReadsData(i)
  BY <1>7, ClientReadsDataInv
<1>8. CASE ClientReadsEndOfSession(i)
  BY <1>8, ClientReadsEndOfSessionInv
<1>9. CASE ClientViolated(i)
  BY <1>9, DropsInv DEF ClientViolated, clientHistory, serverHistory
<1>10. CASE ClientLoses(i)
  BY <1>10, DropsInv DEF ClientLoses, clientHistory, serverHistory
<1> QED
  BY <1>1, <1>2, <1>3, <1>4, <1>5, <1>6, <1>7, <1>8, <1>9, <1>10 DEF ClientStep

\* A step of a port that leaves its other TCP connections alone.
LEMMA ServerTcp ==
  ASSUME IndInv, NEW i \in Conn, NEW l \in Link, NEW t \in Tcps, NEW p \in Ports,
         UNCHANGED <<next, ended, conn, session, count, joined, final>>,
         port' = [port EXCEPT ![i] = p], link' = [link EXCEPT ![i][l] = t],
         PairInv(conn[i], p, final[i], next, session, count),
         TcpInv(conn[i], t, l, p, final[i], session, count),
         p.ended = port[i].ended,
         p = port[i] \/ \A m \in Link \ {l} : link[i][m].server # "logged_in"
  PROVE  IndInv'
<1>1. /\ next \in Nat /\ ended \in BOOLEAN /\ joined \in Sessions \cup {NoSession}
      /\ conn \in [Conn -> Connections] /\ port \in [Conn -> Ports]
      /\ \A m \in Link : TcpInv(conn[i], link[i][m], m, port[i], final[i], session, count)
  BY Facts
<1>2. /\ port' \in [Conn -> Ports] /\ port'[i] = p
      /\ \A j \in Conn \ {i} : port'[j] = port[j]
  BY <1>1
<1>3. /\ conn' \in [Conn -> Connections] /\ conn'[i] = conn[i]
      /\ \A j \in Conn \ {i} : conn'[j] = conn[j]
  BY <1>1
<1>4. \A m \in Link \ {l} : TcpInv(conn[i], link[i][m], m, p, final[i], session, count)
  <2> SUFFICES ASSUME NEW m \in Link \ {l}
               PROVE  TcpInv(conn[i], link[i][m], m, p, final[i], session, count)
    OBVIOUS
  <2>1. link[i][m].server = "logged_in" => p = port[i]
    OBVIOUS
  <2>2. TcpInv(conn[i], link[i][m], m, port[i], final[i], session, count)
    BY <1>1
  <2> QED
    BY <2>1, <2>2, TcpOtherPort
<1>5. /\ next' \in Nat /\ next <= next' /\ ended' \in BOOLEAN
      /\ joined' \in Sessions \cup {NoSession}
      /\ PairInv(conn'[i], port'[i], final[i], next', session, count)
  BY <1>1, <1>2, <1>3
<1> QED
  BY <1>2, <1>3, <1>4, <1>5, OneTcp

\* LoginRejected
LEMMA LoginRejectedInv ==
  ASSUME IndInv, NEW i \in Conn, NEW l \in Link, LoginRejected(i, l)
  PROVE  /\ IndInv'
         /\ \E t \in Tcps : /\ link' = [link EXCEPT ![i][l] = t]
                            /\ t.up = <<>> /\ t.down = <<Login_rejected>>
<1> DEFINE t == [link[i][l] EXCEPT !.server = "closed", !.up = <<>>, !.down = <<Login_rejected>>]
<1>1. /\ UNCHANGED <<next, ended, conn, session, port, count, joined, final>>
      /\ link[i][l].server = "connected"
  BY DEF LoginRejected, clientHistory, serverHistory
<1>2. /\ link \in [Conn -> [Link -> Tcps]] /\ port \in [Conn -> Ports] /\ port[i] \in Ports
      /\ PairInv(conn[i], port[i], final[i], next, session, count)
      /\ TcpInv(conn[i], link[i][l], l, port[i], final[i], session, count)
  BY Facts
<1>3. link' = [link EXCEPT ![i][l] = t] /\ port' = [port EXCEPT ![i] = port[i]]
  BY <1>1, <1>2 DEF LoginRejected
<1>4. TcpInv(conn[i], t, l, port[i], final[i], session, count)
  BY <1>1, <1>2, TcpRejected
<1>5. link[i][l] \in Tcps
  BY <1>2 DEF TcpInv
<1>6. t.up = <<>> /\ t.down = <<Login_rejected>>
  BY <1>5 DEF Tcps
<1> HIDE DEF t
<1>7. t \in Tcps
  BY <1>4 DEF TcpInv
<1>8. IndInv'
  BY <1>1, <1>2, <1>3, <1>4, <1>7, ServerTcp
<1> QED
  BY <1>3, <1>6, <1>7, <1>8

\* ServerReadsData
LEMMA ServerReadsDataInv ==
  ASSUME IndInv, NEW i \in Conn, NEW l \in Link, ServerReadsData(i, l)
  PROVE  IndInv'
<1> DEFINE t == [link[i][l] EXCEPT !.up = Tail(@)]
<1>1. /\ UNCHANGED <<next, ended, conn, session, port, count, joined, final>>
      /\ link[i][l].server = "logged_in" /\ link[i][l].up # <<>>
  BY DEF ServerReadsData, ServerReads, clientHistory, serverHistory
<1>2. /\ link \in [Conn -> [Link -> Tcps]] /\ port \in [Conn -> Ports] /\ port[i] \in Ports
      /\ PairInv(conn[i], port[i], final[i], next, session, count)
      /\ TcpInv(conn[i], link[i][l], l, port[i], final[i], session, count)
  BY Facts
<1>3. link' = [link EXCEPT ![i][l] = t] /\ port' = [port EXCEPT ![i] = port[i]]
  BY <1>1, <1>2 DEF ServerReadsData
<1>4. TcpInv(conn[i], t, l, port[i], final[i], session, count)
  BY <1>1, <1>2, TcpServerReads
<1> HIDE DEF t
<1>5. t \in Tcps
  BY <1>4 DEF TcpInv
<1> QED
  BY <1>1, <1>2, <1>3, <1>4, <1>5, ServerTcp

\* All but the TCP connection that the port points at are not logged in.
LEMMA OneIsLoggedIn ==
  ASSUME IndInv, NEW i \in Conn, NEW l \in Link, port[i].link \in {l, NoLink}
  PROVE  \A m \in Link \ {l} : link[i][m].server # "logged_in"
<1> SUFFICES ASSUME NEW m \in Link \ {l}
             PROVE  link[i][m].server # "logged_in"
  OBVIOUS
<1>1. TcpInv(conn[i], link[i][m], m, port[i], final[i], session, count)
  BY Facts
<1> QED
  BY <1>1, SessionAssumption DEF TcpInv

\* A server's end that leaves its TCP connection.
LEMMA LeavesInv ==
  ASSUME IndInv, NEW i \in Conn, NEW l \in Link, Leaves(i, l),
         UNCHANGED <<next, ended, conn, session, port, count, joined, final>>
  PROVE  IndInv'
<1>1. PICK t \in ServerCloses(link[i][l]) : link' = [link EXCEPT ![i][l] = t]
  BY DEF Leaves
<1>2. /\ link \in [Conn -> [Link -> Tcps]] /\ port \in [Conn -> Ports] /\ port[i] \in Ports
      /\ session \in Nat /\ count \in [Sessions -> Nat] /\ final[i] \in Nat
      /\ PairInv(conn[i], port[i], final[i], next, session, count)
      /\ link[i][l] \in Tcps
      /\ TcpInv(conn[i], link[i][l], l, port[i], final[i], session, count)
  BY Facts
<1>3. PICK m \in 0..Len(link[i][l].down) : t = CutOff(link[i][l], m)
  BY <1>1, <1>2, ServerClosesIsCutOff
<1>4. TcpInv(conn[i], t, l, port[i], final[i], session, count)
  BY <1>2, <1>3, TcpCutOff
<1>5. t \in Tcps
  BY <1>4 DEF TcpInv
<1>6. port' = [port EXCEPT ![i] = port[i]]
  BY <1>2
<1> QED
  BY <1>1, <1>2, <1>4, <1>5, <1>6, ServerTcp

\* The port is told, and forgets the TCP connection if it still points at it.
LEMMA ClosedInv ==
  ASSUME IndInv, NEW i \in Conn, NEW l \in Link, Closed(i, l)
  PROVE  IndInv'
<1> DEFINE p == [port[i] EXCEPT !.link = on_closed(i, l)]
<1>1. /\ UNCHANGED <<next, ended, conn, link, session, count, joined, final>>
      /\ link[i][l].server = "closed" /\ port' = [port EXCEPT ![i].link = on_closed(i, l)]
  BY DEF Closed, clientHistory, serverHistory
<1>2. /\ link \in [Conn -> [Link -> Tcps]] /\ port \in [Conn -> Ports] /\ port[i] \in Ports
      /\ PairInv(conn[i], port[i], final[i], next, session, count)
      /\ link[i][l] \in Tcps
      /\ TcpInv(conn[i], link[i][l], l, port[i], final[i], session, count)
  BY Facts
<1>3. /\ p \in Ports /\ p.ended = port[i].ended /\ p.next = port[i].next
      /\ p = port[i] \/ port[i].link = l
  BY <1>2, SessionAssumption DEF Ports, on_closed
<1>4. port' = [port EXCEPT ![i] = p] /\ link' = [link EXCEPT ![i][l] = link[i][l]]
  BY <1>1, <1>2
<1> HIDE DEF p
<1>5. TcpInv(conn[i], link[i][l], l, p, final[i], session, count)
  BY <1>1, <1>2, <1>3, TcpOtherPort
<1>6. PairInv(conn[i], p, final[i], next, session, count)
  BY <1>2, <1>3 DEF PairInv
<1>7. p = port[i] \/ \A m \in Link \ {l} : link[i][m].server # "logged_in"
  BY <1>3, OneIsLoggedIn
<1> DEFINE t == link[i][l]
<1>8. t \in Tcps /\ link' = [link EXCEPT ![i][l] = t]
  BY <1>2, <1>4
<1>9. TcpInv(conn[i], t, l, p, final[i], session, count)
  BY <1>5
<1>10. p \in Ports /\ p.ended = port[i].ended /\ port' = [port EXCEPT ![i] = p]
  BY <1>3, <1>4
<1>11. UNCHANGED <<next, ended, conn, session, count, joined, final>>
  BY <1>1
<1> HIDE DEF t
<1> QED
  BY <1>6, <1>7, <1>8, <1>9, <1>10, <1>11, ServerTcp

\* PortSend
LEMMA PortSendInv ==
  ASSUME IndInv, NEW i \in Conn, PortSend(i)
  PROVE  IndInv'
<1> DEFINE l == port[i].link
           p == [port[i] EXCEPT !.next = @ + 1]
           t == [link[i][l] EXCEPT !.down = Append(@, Sequenced_data(<<session, port[i].next>>))]
<1>1. /\ UNCHANGED <<next, ended, conn, session, count, joined, final>>
      /\ l # NoLink /\ ~port[i].ended /\ port[i].next <= count[session]
      /\ link[i][l].server = "logged_in"
  BY DEF PortSend, Sent, clientHistory, serverHistory
<1>2. /\ link \in [Conn -> [Link -> Tcps]] /\ port \in [Conn -> Ports] /\ port[i] \in Ports
      /\ session \in Sessions /\ count \in [Sessions -> Nat] /\ count[session] \in Nat
      /\ PairInv(conn[i], port[i], final[i], next, session, count)
      /\ \A m \in Link : TcpInv(conn[i], link[i][m], m, port[i], final[i], session, count)
  BY Facts
<1>3. l \in Link /\ port[i].next \in Nat
  BY <1>1, <1>2, RecordFields
<1>4. /\ p \in Ports /\ p.ended = port[i].ended /\ p.next = port[i].next + 1 /\ p.link = l
  <2>1. port[i].next + 1 \in Nat
    BY <1>3
  <2> QED
    BY <1>2, <2>1 DEF Ports
<1>5. port' = [port EXCEPT ![i] = p] /\ link' = [link EXCEPT ![i][l] = t]
  BY <1>2, <1>3 DEF PortSend
<1>6. /\ t = [link[i][l] EXCEPT !.down = Append(@, Sequenced_data(<<session, port[i].next>>))]
      /\ port[i].link = l
  OBVIOUS
<1> HIDE DEF p, t, l
<1>7. TcpInv(conn[i], t, l, p, final[i], session, count)
  BY <1>1, <1>2, <1>3, <1>4, <1>6, TcpSend
<1>8. t \in Tcps
  BY <1>7 DEF TcpInv
<1>9. PairInv(conn[i], p, final[i], next, session, count)
  BY <1>1, <1>2, <1>3, <1>4 DEF PairInv
<1>10. \A m \in Link \ {l} : link[i][m].server # "logged_in"
  BY <1>3, <1>6, OneIsLoggedIn
<1> QED
  BY <1>1, <1>3, <1>4, <1>5, <1>7, <1>8, <1>9, <1>10, ServerTcp

\* The server's end of a TCP connection whose login has been accepted at n.
LoggedIn(i, l, n, early) ==
  [link[i][l] EXCEPT !.server = "logged_in", !.up = Tail(@), !.down = login_response(n, early)]

\* What LoginAccepted makes of the port and of its TCP connections: another
\* one was logged in to the port, or none.
Accepted(i, l, n, early) ==
  /\ port' = [port EXCEPT ![i].next = n + early, ![i].link = l]
  /\ \/ /\ \A m \in Link \ {l} : link[i][m].server # "logged_in"
        /\ link' = [link EXCEPT ![i][l] = LoggedIn(i, l, n, early)]
     \/ /\ port[i].link \in Link \ {l}
        /\ \E u \in ServerCloses(link[i][port[i].link]) :
             link' = [link EXCEPT ![i][port[i].link] = u, ![i][l] = LoggedIn(i, l, n, early)]

\* The number at which the port accepts the login.
AcceptedAt(i, l) == rewind(port[i].next, Head(link[i][l].up))

\* LoginAccepted does so.
LEMMA AcceptedShape ==
  ASSUME IndInv, NEW i \in Conn, NEW l \in Link, LoginAccepted(i, l)
  PROVE  \E early \in EarlySends(i, AcceptedAt(i, l)) : Accepted(i, l, AcceptedAt(i, l), early)
<1> DEFINE old == port[i].link
           n == AcceptedAt(i, l)
<1>1. PICK early \in EarlySends(i, n) :
        /\ port' = [port EXCEPT ![i].next = n + early, ![i].link = l]
        /\ \/ old = NoLink /\ link' = [link EXCEPT ![i][l] = LoggedIn(i, l, n, early)]
           \/ /\ old # NoLink
              /\ \E u \in superseded(link[i][old]) :
                   link' = [link EXCEPT ![i][old] = u, ![i][l] = LoggedIn(i, l, n, early)]
  BY DEF LoginAccepted, LoggedIn, AcceptedAt
<1>2. /\ link \in [Conn -> [Link -> Tcps]] /\ old \in Link \cup {NoLink}
      /\ link[i][l].server = "connected"
      /\ \A m \in Link : TcpInv(conn[i], link[i][m], m, port[i], final[i], session, count)
  BY Facts, RecordFields DEF LoginAccepted
<1> HIDE DEF n
<1>3. CASE old = NoLink
  <2>1. \A m \in Link \ {l} : link[i][m].server # "logged_in"
    BY <1>3, OneIsLoggedIn
  <2> QED
    BY <1>1, <1>3, <2>1 DEF Accepted, n
<1>4. CASE old # NoLink /\ link[i][old].server = "logged_in"
  <2>1. old \in Link \ {l}
    BY <1>2, <1>4
  <2> QED
    BY <1>1, <1>4, <2>1 DEF Accepted, superseded, n
<1>5. CASE old # NoLink /\ link[i][old].server # "logged_in"
  <2>1. \A m \in Link : link[i][m].server # "logged_in"
    BY <1>2, <1>5 DEF TcpInv
  <2> DEFINE t == LoggedIn(i, l, n, early)
  <2>2. link' = [link EXCEPT ![i][old] = link[i][old], ![i][l] = t]
    BY <1>1, <1>5 DEF superseded
  <2> HIDE DEF t, old
  <2>3. link' = [link EXCEPT ![i][l] = t]
    BY <1>2, <1>5, <2>2
  <2> QED
    BY <1>1, <2>1, <2>3 DEF Accepted, n, t
<1> QED
  BY <1>3, <1>4, <1>5

\* The number, and what is queued for the client.
LEMMA AcceptedResponse ==
  ASSUME IndInv, NEW i \in Conn, NEW l \in Link, LoginAccepted(i, l),
         NEW n, n = AcceptedAt(i, l), NEW early \in EarlySends(i, n)
  PROVE  /\ n \in Nat /\ n # 0 /\ n <= port[i].next
         /\ early \in Nat /\ n + early <= count[session] + 1
         /\ login_response(n, early) \in Seq(DownPackets)
         /\ Len(login_response(n, early)) <= WriteLimit
         /\ Answers(login_response(n, early), session, n, early)
<1>1. link[i][l].up # <<>> /\ link[i][l].server = "connected"
  BY DEF LoginAccepted, ServerReads
<1>2. /\ session \in Sessions /\ session \in Nat
      /\ count \in [Sessions -> Nat] /\ count[session] \in Nat
      /\ PairInv(conn[i], port[i], final[i], next, session, count)
      /\ TcpInv(conn[i], link[i][l], l, port[i], final[i], session, count)
  BY Facts
<1>3. n = rewind(port[i].next, Head(link[i][l].up))
  BY DEF AcceptedAt
<1>4. n \in 1..port[i].next /\ port[i].next \in 1..(count[session] + 1)
  BY <1>1, <1>2, <1>3, AcceptedNumber
<1>5. n \in Nat /\ n # 0 /\ n <= port[i].next /\ n <= count[session] + 1
  BY <1>2, <1>4
<1> QED
  BY <1>2, <1>5, ResponseQueued

\* LoginAccepted
LEMMA LoginAcceptedInv ==
  ASSUME IndInv, NEW i \in Conn, NEW l \in Link, LoginAccepted(i, l)
  PROVE  IndInv'
<1> DEFINE old == port[i].link
           n == AcceptedAt(i, l)
<1>1. /\ UNCHANGED <<next, ended, conn, session, count, joined, final>>
      /\ link[i][l].up # <<>> /\ link[i][l].server = "connected"
      /\ Head(link[i][l].up).session \in {NoSession, session}
  BY DEF LoginAccepted, ServerReads, clientHistory
<1>2. /\ link \in [Conn -> [Link -> Tcps]] /\ port \in [Conn -> Ports] /\ port[i] \in Ports
      /\ next \in Nat /\ ended \in BOOLEAN /\ joined \in Sessions \cup {NoSession}
      /\ conn \in [Conn -> Connections]
      /\ session \in Sessions /\ session \in Nat
      /\ count \in [Sessions -> Nat] /\ count[session] \in Nat /\ final[i] \in Nat
      /\ PairInv(conn[i], port[i], final[i], next, session, count)
      /\ \A m \in Link : /\ link[i][m] \in Tcps
                         /\ TcpInv(conn[i], link[i][m], m, port[i], final[i], session, count)
  BY Facts
<1>3. PICK early \in EarlySends(i, n) : Accepted(i, l, n, early)
  BY AcceptedShape
<1> DEFINE t == LoggedIn(i, l, n, early)
           p == [port[i] EXCEPT !.next = n + early, !.link = l]
           down == login_response(n, early)
<1>4. n \in Nat /\ n # 0
  BY <1>3, AcceptedResponse
<1>5. /\ early \in Nat /\ n + early <= count[session] + 1 /\ down \in Seq(DownPackets)
      /\ Answers(down, session, n, early)
  BY <1>3, AcceptedResponse
<1>6. /\ p \in Ports /\ p.next = n + early /\ p.link = l /\ p.ended = port[i].ended
      /\ p.next \in 1..(count[session] + 1)
  <2> DEFINE a == n + early
  <2> HIDE DEF n
  <2>1. a \in Nat /\ a \in 1..(count[session] + 1)
    BY <1>2, <1>4, <1>5
  <2>2. p = [port[i] EXCEPT !.next = a, !.link = l]
    OBVIOUS
  <2> HIDE DEF a, p
  <2>3. p \in Ports /\ p.next = a /\ p.link = l /\ p.ended = port[i].ended
    BY <1>2, <2>1, <2>2 DEF Ports
  <2> QED
    BY <2>1, <2>3 DEF a
<1>7. TcpInv(conn[i], t, l, p, final[i], session, count)
  <2>1. /\ n = rewind(port[i].next, Head(link[i][l].up))
        /\ t = [link[i][l] EXCEPT !.server = "logged_in", !.up = Tail(@), !.down = down]
    BY DEF AcceptedAt, LoggedIn
  <2>2. TcpInv(conn[i], link[i][l], l, port[i], final[i], session, count)
    BY <1>2
  <2> HIDE DEF n, p, t, down
  <2> QED
    BY <1>1, <1>2, <1>5, <1>6, <2>1, <2>2, TcpAccepted
<1>8. t \in Tcps
  BY <1>7 DEF TcpInv
<1>9. port' = [port EXCEPT ![i] = p]
  BY <1>2, <1>3 DEF Accepted
<1>10. PairInv(conn[i], p, final[i], next, session, count)
  BY <1>2, <1>6 DEF PairInv
<1>11. \/ /\ \A m \in Link \ {l} : link[i][m].server # "logged_in"
          /\ link' = [link EXCEPT ![i][l] = t]
       \/ /\ old \in Link \ {l}
          /\ \E u \in ServerCloses(link[i][old]) : link' = [link EXCEPT ![i][old] = u, ![i][l] = t]
  BY <1>3 DEF Accepted
<1> HIDE DEF n, p, t, down
<1>12. CASE /\ \A m \in Link \ {l} : link[i][m].server # "logged_in"
            /\ link' = [link EXCEPT ![i][l] = t]
  BY <1>1, <1>6, <1>7, <1>8, <1>9, <1>10, <1>12, ServerTcp
<1>13. ASSUME old \in Link \ {l},
              NEW u \in ServerCloses(link[i][old]), link' = [link EXCEPT ![i][old] = u, ![i][l] = t]
       PROVE  IndInv'
  <2>1. old = port[i].link
    OBVIOUS
  <2> HIDE DEF old
  <2>2. PICK m \in 0..Len(link[i][old].down) : u = CutOff(link[i][old], m)
    BY <1>2, <1>13, ServerClosesIsCutOff
  <2>3. TcpInv(conn[i], u, old, p, final[i], session, count)
    BY <1>2, <1>6, <1>13, <2>2, TcpCutOff
  <2>4. u \in Tcps
    BY <2>3 DEF TcpInv
  <2>5. /\ link' \in [Conn -> [Link -> Tcps]] /\ \A j \in Conn \ {i} : link'[j] = link[j]
        /\ link'[i][l] = t /\ link'[i][old] = u
        /\ \A m2 \in Link \ {l, old} : link'[i][m2] = link[i][m2]
    BY <1>2, <1>8, <1>13, <2>4
  <2>6. ASSUME NEW m2 \in Link \ {l, old}
        PROVE  TcpInv(conn[i], link[i][m2], m2, p, final[i], session, count)
    <3>1. TcpInv(conn[i], link[i][m2], m2, port[i], final[i], session, count)
      BY <1>2
    <3>2. link[i][m2].server # "logged_in"
      BY <2>1, <3>1 DEF TcpInv
    <3> QED
      BY <1>6, <3>1, <3>2, TcpOtherPort
  <2>7. \A m2 \in Link : TcpInv(conn[i], link'[i][m2], m2, p, final[i], session, count)
    BY <1>7, <2>3, <2>5, <2>6
  <2>8. /\ port' \in [Conn -> Ports] /\ port'[i] = p
        /\ \A j \in Conn \ {i} : port'[j] = port[j]
        /\ conn' \in [Conn -> Connections] /\ conn'[i] = conn[i]
        /\ \A j \in Conn \ {i} : conn'[j] = conn[j]
    BY <1>1, <1>2, <1>6, <1>9
  <2>9. /\ next' \in Nat /\ next <= next' /\ ended' \in BOOLEAN
        /\ joined' \in Sessions \cup {NoSession}
        /\ PairInv(conn'[i], port'[i], final[i], next', session, count)
        /\ \A m2 \in Link : TcpInv(conn'[i], link'[i][m2], m2, port'[i], final[i], session, count)
    BY <1>1, <1>2, <1>10, <2>7, <2>8
  <2>10. session' = session /\ count' = count /\ final' = final
    BY <1>1
  <2>11. link' \in [Conn -> [Link -> Tcps]] /\ \A j \in Conn \ {i} : link'[j] = link[j]
    BY <2>5
  <2> QED
    BY <2>8, <2>9, <2>10, <2>11, OnePair
<1> QED
  BY <1>11, <1>12, <1>13

\* A step of the server, whichever it is.
LEMMA ServerStepInv ==
  ASSUME IndInv, NEW i \in Conn, NEW l \in Link, ServerStep(i, l) \/ ServerLoses(i, l)
  PROVE  IndInv'
<1>1. CASE LoginRejected(i, l)
  BY <1>1, LoginRejectedInv
<1>2. CASE LoginAccepted(i, l)
  BY <1>2, LoginAcceptedInv
<1>3. CASE ServerReadsData(i, l)
  BY <1>3, ServerReadsDataInv
<1>4. CASE ServerReadsEnd(i, l)
  BY <1>4, LeavesInv DEF ServerReadsEnd, clientHistory, serverHistory
<1>5. CASE Closed(i, l)
  BY <1>5, ClosedInv
<1>6. CASE ServerLoses(i, l)
  BY <1>6, LeavesInv DEF ServerLoses, clientHistory, serverHistory
<1> QED
  BY <1>1, <1>2, <1>3, <1>4, <1>5, <1>6 DEF ServerStep

-----------------------------------------------------------------------------
\* Steps of all connections or ports at once.

\* Publish
LEMMA PublishInv ==
  ASSUME IndInv, Publish
  PROVE  IndInv'
<1>1. /\ UNCHANGED <<next, ended, conn, link, session, port, joined, final>>
      /\ count' = [count EXCEPT ![session] = @ + 1]
  BY DEF Publish, clientHistory, serverHistory
<1>2. /\ session \in Sessions /\ count \in [Sessions -> Nat]
  BY DEF IndInv
<1>3. count' \in [Sessions -> Nat] /\ \A s \in Sessions : count[s] <= count'[s]
  BY <1>1, <1>2
<1>4. ASSUME NEW i \in Conn
      PROVE  PairInv(conn[i], port[i], final[i], next, session, count')
  <2>1. PairInv(conn[i], port[i], final[i], next, session, count) /\ count[session] \in Nat
        /\ count'[session] \in Nat /\ count[session] <= count'[session]
    BY <1>2, <1>3, Facts
  <2> QED
    BY <2>1 DEF PairInv
<1>5. ASSUME NEW i \in Conn, NEW l \in Link
      PROVE  TcpInv(conn[i], link[i][l], l, port[i], final[i], session, count')
  <2>1. TcpInv(conn[i], link[i][l], l, port[i], final[i], session, count)
    BY Facts
  <2> QED
    BY <1>2, <1>3, <2>1, TcpPublish
<1> QED
  BY <1>1, <1>3, <1>4, <1>5 DEF IndInv

\* What ClientSend makes of a TCP connection.
LEMMA ClientSendTakes ==
  ASSUME NEW i \in Conn, NEW l \in Link, conn[i] \in Connections, conn[i].link = l,
         send_packet(i) = "none"
  PROVE  link[i][l].client = "logged_in" \/ link[i][l].client \notin {"connected", "logged_in"}
<1>1. conn[i].link # NoLink /\ conn[i].ended \in BOOLEAN
  BY SessionAssumption, RecordFields
<1> QED
  BY <1>1 DEF send_packet, ClientState

\* ClientSend
LEMMA ClientSendInv ==
  ASSUME IndInv, sends \in Nat, ClientSend
  PROVE  IndInv'
<1> DEFINE t(i, l) == [link[i][l] EXCEPT !.up = Append(@, Unsequenced_data(sends'))]
<1>1. /\ UNCHANGED <<next, ended, conn, session, port, count, joined, final>>
      /\ sends' \in Nat
      /\ link' = [i \in Conn |-> [l \in Link |->
                   IF ~ended /\ conn[i].link = l /\ send_packet(i) = "none"
                   THEN t(i, l) ELSE link[i][l]]]
  BY DEF ClientSend, clientHistory, serverHistory
<1>2. ASSUME NEW i \in Conn, NEW l \in Link
      PROVE  TcpInv(conn[i], link'[i][l], l, port[i], final[i], session, count)
  <2>1. /\ TcpInv(conn[i], link[i][l], l, port[i], final[i], session, count)
        /\ conn[i] \in Connections /\ link[i][l] \in Tcps
    BY Facts
  <2>2. CASE ~ended /\ conn[i].link = l /\ send_packet(i) = "none"
    <3>1. link[i][l].client = "logged_in"
      <4>1. link[i][l].client \in {"connected", "logged_in"}
        BY <2>1, <2>2, TcpFields DEF TcpInv, EndState
      <4> QED
        BY <2>1, <2>2, <4>1, ClientSendTakes
    <3>2. link'[i][l] = [link[i][l] EXCEPT !.up = Append(@, Unsequenced_data(sends'))]
      BY <1>1, <2>2
    <3>3. sends' \in Nat /\ conn[i].link = l
      BY <1>1, <2>2
    <3> DEFINE u == link'[i][l]
               m == sends'
    <3>4. u = [link[i][l] EXCEPT !.up = Append(@, Unsequenced_data(m))] /\ m \in Nat
      BY <3>2, <3>3
    <3> HIDE DEF t, u, m
    <3>5. TcpInv(conn[i], u, l, port[i], final[i], session, count)
      BY <2>1, <3>1, <3>3, <3>4, TcpClientSend
    <3> QED
      BY <3>5 DEF u
  <2>3. CASE ~(~ended /\ conn[i].link = l /\ send_packet(i) = "none")
    <3>1. link'[i][l] = link[i][l]
      BY <1>1, <2>3
    <3> QED
      BY <2>1, <3>1
  <2> QED
    BY <2>2, <2>3
<1>3. \A i \in Conn, l \in Link : link'[i][l] \in Tcps
  BY <1>2 DEF TcpInv
<1>4. link' \in [Conn -> [Link -> Tcps]]
  <2>1. link' = [i \in Conn |-> [l \in Link |-> link'[i][l]]]
    BY <1>1
  <2> QED
    BY <1>3, <2>1
<1> HIDE DEF t
<1> QED
  BY <1>1, <1>2, <1>4 DEF IndInv

\* EndSession
LEMMA EndSessionInv ==
  ASSUME IndInv, EndSession
  PROVE  IndInv'
<1> DEFINE p(i) == [port[i] EXCEPT !.ended = TRUE]
           f(i) == IF port[i].ended THEN final[i] ELSE port[i].next
           t(i, l) == [link[i][l] EXCEPT !.down = with_end(@)]
<1>1. /\ UNCHANGED <<next, ended, conn, session, count, joined>>
      /\ port' = [i \in Conn |-> p(i)] /\ final' = [i \in Conn |-> f(i)]
      /\ link' = [i \in Conn |-> [l \in Link |->
                    IF port[i].link = l /\ Sent(i) THEN t(i, l) ELSE link[i][l]]]
  BY DEF EndSession, clientHistory
<1>2. ASSUME NEW i \in Conn
      PROVE  /\ p(i) \in Ports /\ p(i).next = port[i].next /\ p(i).link = port[i].link
             /\ p(i).ended /\ (port[i].ended => p(i) = port[i]) /\ f(i) \in Nat
             /\ port[i].next \in Nat
  <2>1. port[i] \in Ports /\ final[i] \in Nat
    BY Facts
  <2> QED
    BY <2>1 DEF Ports
<1> HIDE DEF p, f, t
<1>3. ASSUME NEW i \in Conn
      PROVE  PairInv(conn[i], p(i), f(i), next, session, count)
  <2>1. PairInv(conn[i], port[i], final[i], next, session, count)
    BY Facts
  <2>2. port[i].ended => f(i) = final[i]
    BY DEF f
  <2> QED
    BY <1>2, <2>1, <2>2 DEF PairInv
<1>4. ASSUME NEW i \in Conn, NEW l \in Link
      PROVE  TcpInv(conn[i], link'[i][l], l, p(i), f(i), session, count)
  <2>1. /\ TcpInv(conn[i], link[i][l], l, port[i], final[i], session, count)
        /\ PairInv(conn[i], port[i], final[i], next, session, count)
        /\ session \in Sessions /\ count \in [Sessions -> Nat]
    BY Facts
  <2>2. CASE port[i].ended
    <3>1. link'[i][l] = link[i][l] /\ f(i) = final[i] /\ p(i) = port[i]
      BY <1>1, <1>2, <2>2 DEF Sent, f
    <3> QED
      BY <2>1, <3>1
  <2>3. CASE ~port[i].ended /\ ~(port[i].link = l /\ Sent(i))
    <3>1. link'[i][l] = link[i][l]
      BY <1>1, <2>3
    <3> QED
      BY <1>2, <2>1, <2>3, <3>1, TcpEndUntold
  <2>4. CASE ~port[i].ended /\ port[i].link = l /\ Sent(i)
    <3> DEFINE u == link'[i][l]
    <3>1. u = [link[i][l] EXCEPT !.down = with_end(@)]
      BY <1>1, <2>4 DEF t
    <3>2. f(i) = port[i].next
      BY <2>4 DEF f
    <3> HIDE DEF u
    <3>3. p(i).link = l /\ p(i).ended /\ link[i][l].server = "logged_in"
      BY <1>2, <2>4 DEF Sent
    <3>4. TcpInv(conn[i], u, l, p(i), port[i].next, session, count)
      BY <2>1, <2>4, <3>1, <3>3, TcpEnd
    <3> QED
      BY <3>2, <3>4 DEF u
  <2> QED
    BY <2>2, <2>3, <2>4
<1>5. link' \in [Conn -> [Link -> Tcps]]
  <2>1. \A i \in Conn, l \in Link : link'[i][l] \in Tcps
    BY <1>4 DEF TcpInv
  <2>2. link' = [i \in Conn |-> [l \in Link |-> link'[i][l]]]
    BY <1>1
  <2> QED
    BY <2>1, <2>2
<1>6. port' \in [Conn -> Ports] /\ final' \in [Conn -> Nat]
  BY <1>1, <1>2
<1>7. \A i \in Conn : PairInv(conn'[i], port'[i], final'[i], next', session', count')
  BY <1>1, <1>3
<1>8. \A i \in Conn, l \in Link :
        TcpInv(conn'[i], link'[i][l], l, port'[i], final'[i], session', count')
  <2> SUFFICES ASSUME NEW i \in Conn, NEW l \in Link
               PROVE  TcpInv(conn'[i], link'[i][l], l, port'[i], final'[i], session', count')
    OBVIOUS
  <2>1. /\ conn' = conn /\ session' = session /\ count' = count
        /\ port'[i] = p(i) /\ final'[i] = f(i)
    BY <1>1
  <2> QED
    BY <1>4, <2>1
<1>9. /\ next' \in Nat /\ ended' \in BOOLEAN /\ session' \in Sessions
      /\ count' \in [Sessions -> Nat] /\ joined' \in Sessions \cup {NoSession}
      /\ conn' \in [Conn -> Connections]
  BY <1>1 DEF IndInv
<1> QED
  BY <1>5, <1>6, <1>7, <1>8, <1>9 DEF IndInv

\* Restart
LEMMA RestartInv ==
  ASSUME IndInv, Restart
  PROVE  IndInv'
<1>1. UNCHANGED <<next, ended, conn, count, joined>>
  BY DEF Restart, clientHistory
<1>2. PICK s \in {session, session + 1} \cap Sessions :
        /\ s = session => \A i \in Conn : ~port[i].ended
        /\ session' = s /\ port' = [i \in Conn |-> NewPort(count[s] + 1)]
        /\ final' = [i \in Conn |-> IF s = session THEN final[i] ELSE 0]
  BY DEF Restart
<1>3. PICK kept \in [Conn -> [Link -> 0..WriteLimit]] :
        link' = [i \in Conn |-> [l \in Link |->
                   [link[i][l] EXCEPT !.server = "closed", !.up = <<>>,
                      !.down = SubSeq(@, 1, Min({kept[i][l], Len(@)}))]]]
  BY DEF Restart
<1>4. /\ session \in Sessions /\ session \in Nat /\ s \in Sessions /\ s \in Nat
      /\ count \in [Sessions -> Nat] /\ count[s] \in Nat
      /\ next \in Nat /\ final \in [Conn -> Nat]
  <2>1. s \in Sessions
    OBVIOUS
  <2>2. session \in Sessions /\ count \in [Sessions -> Nat] /\ next \in Nat
        /\ final \in [Conn -> Nat]
    BY DEF IndInv
  <2>3. count[s] \in Nat
    BY <2>1, <2>2
  <2> QED
    BY <2>1, <2>2, <2>3, SessionAssumption DEF Sessions
<1> DEFINE p == NewPort(count[s] + 1)
<1>5. p \in Ports /\ p.link = NoLink /\ p.next = count[s] + 1
  BY <1>4 DEF Ports, NewPort
<1> HIDE DEF p
<1>6. ASSUME NEW i \in Conn
      PROVE  PairInv(conn[i], p, final'[i], next, s, count) /\ final'[i] \in Nat
  <2>1. PairInv(conn[i], port[i], final[i], next, session, count) /\ final[i] \in Nat
        /\ conn[i] \in Connections
    BY Facts
  <2>2. final'[i] \in Nat
    BY <1>2, <2>1
  <2>3. conn[i].session \in Nat
    BY <2>1, SessionAssumption DEF Connections, Sessions, NoSession
  <2>4. conn[i].session <= s /\ (conn[i].session = s => s = session)
    BY <1>4, <2>1, <2>3 DEF PairInv
  <2>5. conn[i].ended /\ conn[i].session = s => FALSE
    BY <1>2, <2>1, <2>4 DEF PairInv
  <2>6. p.next \in 1..(count[s] + 1)
    BY <1>4, <1>5
  <2> QED
    BY <1>5, <2>1, <2>2, <2>4, <2>5, <2>6 DEF PairInv
<1>7. ASSUME NEW i \in Conn, NEW l \in Link
      PROVE  TcpInv(conn[i], link'[i][l], l, p, final'[i], s, count)
  <2>1. /\ TcpInv(conn[i], link[i][l], l, port[i], final[i], session, count)
        /\ link[i][l] \in Tcps /\ final[i] \in Nat
    BY Facts
  <2>2. kept[i][l] \in Nat /\ Len(link[i][l].down) \in Nat
    <3>1. kept[i][l] \in 0..WriteLimit /\ WriteLimit \in Nat
      BY SessionAssumption
    <3> QED
      BY <3>1, <2>1, TcpFields
  <2> DEFINE m == Min({kept[i][l], Len(link[i][l].down)})
  <2>3. m \in 0..Len(link[i][l].down)
    BY <2>2, MinIsCut
  <2>4. link'[i][l] = CutOff(link[i][l], m)
    BY <1>3 DEF CutOff
  <2> HIDE DEF m
  <2>5. (s = session /\ ~port[i].ended) \/ s > session
    BY <1>2, <1>4
  <2>6. final'[i] \in Nat
    BY <1>6
  <2>7. TcpInv(conn[i], CutOff(link[i][l], m), l, p, final'[i], s, count)
    BY <1>4, <2>1, <2>3, <2>5, <2>6, TcpCutOff
  <2> QED
    BY <2>4, <2>7
<1>8. link' \in [Conn -> [Link -> Tcps]]
  <2>1. \A i \in Conn, l \in Link : link'[i][l] \in Tcps
    BY <1>7 DEF TcpInv
  <2>2. link' = [i \in Conn |-> [l \in Link |-> link'[i][l]]]
    BY <1>3
  <2> QED
    BY <2>1, <2>2
<1>9. final' \in [Conn -> Nat]
  BY <1>2, <1>6
<1>10. port' = [i \in Conn |-> p]
  BY <1>2 DEF p
<1>11. port' \in [Conn -> Ports] /\ \A i \in Conn : port'[i] = p
  BY <1>5, <1>10
<1>12. \A i \in Conn : PairInv(conn'[i], port'[i], final'[i], next', session', count')
  BY <1>1, <1>2, <1>6, <1>11
<1>13. \A i \in Conn, l \in Link :
        TcpInv(conn'[i], link'[i][l], l, port'[i], final'[i], session', count')
  BY <1>1, <1>2, <1>7, <1>11
<1>14. /\ next' \in Nat /\ ended' \in BOOLEAN /\ session' \in Sessions
      /\ count' \in [Sessions -> Nat] /\ joined' \in Sessions \cup {NoSession}
      /\ conn' \in [Conn -> Connections]
  BY <1>1, <1>2, <1>4 DEF IndInv
<1> QED
  BY <1>8, <1>9, <1>11, <1>12, <1>13, <1>14 DEF IndInv

-----------------------------------------------------------------------------
\* The invariant holds initially.
LEMMA InitInv == Init => IndInv
<1> SUFFICES ASSUME Init PROVE IndInv
  OBVIOUS
<1>1. /\ next \in Nat /\ ended = FALSE /\ session = 1 /\ joined = NoSession
      /\ conn = [i \in Conn |-> [session |-> NoSession, next |-> 1, ended |-> FALSE,
                                 link |-> NoLink, wanted |-> TRUE]]
      /\ link = [i \in Conn |-> [l \in Link |-> NoTcp]]
      /\ port = [i \in Conn |-> NewPort(1)] /\ count = [s \in Sessions |-> 0]
      /\ final = [i \in Conn |-> 0]
  BY SessionAssumption DEF Init
<1>2. 1 \in Sessions /\ NoLink \notin Link
  BY SessionAssumption DEF Sessions
<1>3. NoTcp \in Tcps /\ Unread(NoTcp) /\ NoTcp.client = "closed" /\ NoTcp.server = "closed"
  <2>1. <<>> \in Seq(UpPackets) /\ <<>> \in Seq(DownPackets)
    OBVIOUS
  <2> QED
    BY <2>1 DEF NoTcp, Tcps, EndState, Unread
<1> DEFINE c == [session |-> NoSession, next |-> 1, ended |-> FALSE,
                 link |-> NoLink, wanted |-> TRUE]
           p == NewPort(1)
<1>4. c \in Connections /\ c.link = NoLink /\ c.session = 0 /\ c.ended = FALSE
  BY DEF Connections, NoSession
<1>5. p \in Ports /\ p.link = NoLink /\ p.next = 1
  BY DEF Ports, NewPort
<1>6. count \in [Sessions -> Nat] /\ count[1] = 0
  BY <1>1, <1>2
<1> HIDE DEF c, p
<1>7. PairInv(c, p, 0, next, session, count)
  BY <1>1, <1>4, <1>5, <1>6 DEF PairInv
<1>8. ASSUME NEW l \in Link
      PROVE  TcpInv(c, NoTcp, l, p, 0, session, count)
  BY <1>2, <1>3, <1>4, <1>5 DEF TcpInv
<1>9. /\ conn = [i \in Conn |-> c] /\ port = [i \in Conn |-> p]
  BY <1>1 DEF c, p
<1> QED
  BY <1>1, <1>2, <1>3, <1>4, <1>5, <1>6, <1>7, <1>8, <1>9 DEF IndInv

\* A step that changes nothing the invariant is about.
LEMMA StutterInv ==
  ASSUME IndInv, UNCHANGED vars
  PROVE  IndInv'
BY DEF IndInv, vars, clientHistory, serverHistory, sendVars

\* The server neither sends nor refuses for the client.
LEMMA ServerSendsNothing ==
  ASSUME NEW i, NEW l, ServerStep(i, l) \/ ServerLoses(i, l)
  PROVE  sends' = sends /\ refused' = refused
<1>1. CASE LoginRejected(i, l)
  BY <1>1 DEF LoginRejected, sendVars
<1>2. CASE LoginAccepted(i, l)
  BY <1>2 DEF LoginAccepted, sendVars
<1>3. CASE ServerReadsData(i, l)
  BY <1>3 DEF ServerReadsData
<1>4. CASE ServerReadsEnd(i, l)
  BY <1>4 DEF ServerReadsEnd, sendVars
<1>5. CASE Closed(i, l)
  BY <1>5 DEF Closed, sendVars
<1>6. CASE ServerLoses(i, l)
  BY <1>6 DEF ServerLoses, sendVars
<1> QED
  BY <1>1, <1>2, <1>3, <1>4, <1>5, <1>6 DEF ServerStep

\* The messages that the client sends are counted.
LEMMA SendsCounted ==
  ASSUME sends \in Nat, Next
  PROVE  sends' \in Nat
<1>1. CASE ClientSend
  BY <1>1 DEF ClientSend
<1>2. CASE Publish \/ EndSession \/ Restart
  BY <1>2 DEF Publish, EndSession, Restart, sendVars
<1>3. CASE \E i \in Conn : ClientStep(i) \/ ClientLoses(i)
  BY <1>3 DEF ClientStep, ClientLoses, Connect, UserConnect, ClientReadsEnd, ClientLoggedIn,
     ClientDisagrees, ClientRejected, ClientReadsData, ClientReadsEndOfSession,
     ClientViolated, sendVars
<1>4. CASE \E i \in Conn : \E l \in Link : ServerStep(i, l) \/ ServerLoses(i, l)
  BY <1>4, ServerSendsNothing
<1>5. CASE \E i \in Conn : PortSend(i)
  BY <1>5 DEF PortSend, sendVars
<1> QED
  BY <1>1, <1>2, <1>3, <1>4, <1>5 DEF Next, Fault

\* The step of the proof of the invariant: one case for each action.
LEMMA NextInv ==
  ASSUME IndInv, sends \in Nat, [Next]_vars
  PROVE  IndInv'
<1>1. CASE UNCHANGED vars
  BY <1>1, StutterInv
<1>2. CASE \E i \in Conn : ClientStep(i) \/ ClientLoses(i)
  BY <1>2, ClientStepInv
<1>3. CASE \E i \in Conn : PortSend(i)
  BY <1>3, PortSendInv
<1>4. CASE \E i \in Conn, l \in Link : ServerStep(i, l) \/ ServerLoses(i, l)
  BY <1>4, ServerStepInv
<1>5. CASE ClientSend
  BY <1>5, ClientSendInv
<1>6. CASE Publish
  BY <1>6, PublishInv
<1>7. CASE EndSession
  BY <1>7, EndSessionInv
<1>8. CASE Restart
  BY <1>8, RestartInv
<1> QED
  BY <1>1, <1>2, <1>3, <1>4, <1>5, <1>6, <1>7, <1>8 DEF Next, Fault

\* The invariant: every queue carries what its two ends agree on.
LEMMA Invariance == Spec => [](IndInv /\ sends \in Nat)
<1>1. Init => IndInv /\ sends \in Nat
  BY InitInv DEF Init
<1>2. IndInv /\ sends \in Nat /\ [Next]_vars => (IndInv /\ sends \in Nat)'
  <2> SUFFICES ASSUME IndInv, sends \in Nat, [Next]_vars
               PROVE  (IndInv /\ sends \in Nat)'
    OBVIOUS
  <2>1. sends' \in Nat
    BY SendsCounted DEF vars, sendVars
  <2> QED
    BY <2>1, NextInv
<1> QED
  BY <1>1, <1>2, PTL DEF Spec

-----------------------------------------------------------------------------
\* A connection that is logged in is never ahead of the client: the assertion
\* in Client::on_sequenced_data() holds for any number of connections.
THEOREM NeverAheadOfClient == Spec => []NeverAhead
<1>1. IndInv => NeverAhead
  <2> SUFFICES ASSUME IndInv, NEW i \in Conn, ClientState(i) = "logged_in"
               PROVE  conn[i].next <= next
    BY DEF NeverAhead
  <2>1. conn[i].link # NoLink
    BY DEF ClientState
  <2> QED
    BY <2>1, Facts DEF PairInv
<1> QED
  BY <1>1, Invariance, PTL

\* The end of a session is not told before its data.
THEOREM EndFollowsData == Spec => []EndAfterData
<1>1. IndInv => EndAfterData
  <2> SUFFICES ASSUME IndInv, NEW i \in Conn, conn[i].ended, conn[i].session = session
               PROVE  next >= final[i]
    BY DEF EndAfterData
  <2>1. final[i] <= next /\ next \in Nat /\ final[i] \in Nat
    BY Facts DEF PairInv
  <2> QED
    BY <2>1
<1> QED
  BY <1>1, Invariance, PTL

\* Peers find each other in violation of the protocol in one case only, that
\* of data sent inside login_success(): any other packet arrives in a state in
\* which process_packet() expects it.
THEOREM ProtocolKept == Spec => []NoViolation
<1>1. IndInv => NoViolation
  <2> SUFFICES ASSUME IndInv, NEW i \in Conn
               PROVE  /\ conn[i].link # NoLink /\ link[i][conn[i].link].down # <<>> =>
                           \/ Expected(i)
                           \/ /\ CallbackSends /\ ClientPacket(i).type = "sequenced_data"
                              /\ ClientState(i) = "connected"
                      /\ \A l \in Link : link[i][l].up # <<>> =>
                           (link[i][l].server = "connected")
                             = (Head(link[i][l].up).type = "login_request")
    BY DEF NoViolation
  <2>1. ASSUME NEW l \in Link, link[i][l].up # <<>>
        PROVE  (link[i][l].server = "connected") = (Head(link[i][l].up).type = "login_request")
    <3>1. link[i][l] \in Tcps /\ Unread(link[i][l]) /\ link[i][l].up \in Seq(UpPackets)
      BY Facts, TcpFields DEF TcpInv
    <3>2. Head(link[i][l].up) = link[i][l].up[1] /\ 1 \in 1..Len(link[i][l].up)
      BY <2>1, <3>1, TailOfQueue
    <3> QED
      BY <3>1, <3>2 DEF Unread
  <2>2. ASSUME conn[i].link # NoLink, link[i][conn[i].link].down # <<>>
        PROVE  \/ Expected(i)
               \/ /\ CallbackSends /\ ClientPacket(i).type = "sequenced_data"
                  /\ ClientState(i) = "connected"
    <3> DEFINE t == link[i][conn[i].link]
               packet == ClientPacket(i)
    <3>1. conn[i].link \in Link /\ count \in [Sessions -> Nat]
      BY <2>2, Facts, RecordFields
    <3>2. /\ t \in Tcps /\ t.down # <<>> /\ ClientState(i) = t.client /\ packet = Head(t.down)
          /\ Current(conn[i], t, port[i], final[i], session, count)
      BY <2>2, <3>1, Facts DEF TcpInv, ClientState, ClientPacket
    <3> HIDE DEF t, packet
    <3>3. CASE t.client = "logged_in"
      <4>1. ~conn[i].ended /\ (\/ packet = Sequenced_data(<<conn[i].session, conn[i].next>>)
                               \/ packet = End_of_session)
        BY <3>1, <3>2, <3>3, SessionRead
      <4>2. ~conn[i].ended /\ packet.type \in {"sequenced_data", "end_of_session"}
        BY <4>1 DEF Sequenced_data, End_of_session
      <4> QED
        BY <3>2, <3>3, <4>2 DEF packet, Expected
    <3>4. CASE t.client = "connected" /\ ~Doomed(t)
      <4>1. \/ packet = Login_rejected
            \/ /\ packet = Login_accepted(packet.session, packet.next)
               /\ Follows(Tail(t.down), packet.session, packet.next, t.server,
                          port[i], final[i], session, count)
        <5>1. Head(<<Login_rejected>>) = Login_rejected
          OBVIOUS
        <5> QED
          BY <3>2, <3>4, <5>1 DEF Current
      <4>2. \/ packet.type = "login_rejected"
            \/ packet.type = "login_accepted" /\ packet.next # 0
        <5>1. CASE packet = Login_rejected
          BY <5>1 DEF Login_rejected
        <5>2. CASE /\ packet = Login_accepted(packet.session, packet.next)
                   /\ Follows(Tail(t.down), packet.session, packet.next, t.server,
                              port[i], final[i], session, count)
          BY <3>1, <5>2 DEF Login_accepted, Follows, Stream
        <5> QED
          BY <4>1, <5>1, <5>2
      <4> QED
        BY <3>2, <3>4, <4>2 DEF packet, Expected
    <3>5. CASE Doomed(t)
      BY <3>2, <3>5 DEF Doomed, packet
    <3> QED
      BY <3>2, <3>3, <3>4, <3>5 DEF Current
  <2> QED
    BY <2>1, <2>2
<1> QED
  BY <1>1, Invariance, PTL

-----------------------------------------------------------------------------
\* The client hands over one feed.  A connection that has never logged in
\* asks for no session: after a restart for the next session it is accepted
\* there, while the client's other connections remain in the old one.  So one
\* feed is claimed for one connection, or for several in one session.
OneFeed == (\A i, j \in Conn : i = j) \/ MaxSession = 1

\* The session that the client is in.
JoinInv ==
  /\ joined # NoSession => next # 0 /\ \E i \in Conn : conn[i].session # NoSession
  /\ \A i \in Conn : conn[i].session # NoSession => conn[i].session = joined

\* A step that the application does not see.
Unseen ==
  /\ UNCHANGED <<count, joined, next, got>>
  /\ \A i \in Conn : conn'[i].session = conn[i].session

\* All steps but three.
LEMMA MostAreUnseen ==
  ASSUME IndInv, [Next]_vars, ~Publish,
         \A i \in Conn : ~ClientLoggedIn(i) /\ ~ClientReadsData(i)
  PROVE  Unseen
<1>1. conn \in [Conn -> Connections]
  BY DEF IndInv
<1>2. CASE UNCHANGED vars
  BY <1>2 DEF Unseen, vars, clientHistory
<1>3. CASE ClientSend \/ EndSession \/ Restart
  BY <1>3 DEF Unseen, ClientSend, EndSession, Restart, clientHistory
<1>4. ASSUME NEW i \in Conn, ClientStep(i) \/ ClientLoses(i)
      PROVE  Unseen
  <2>1. CASE \E w \in BOOLEAN : Drops(i, w) /\ UNCHANGED <<count, joined, next, got>>
    BY <1>1, <2>1 DEF Drops, Unseen, Connections
  <2>2. CASE Connect(i) \/ UserConnect(i) \/ ClientReadsEndOfSession(i)
    BY <1>1, <2>2 DEF Connect, UserConnect, ClientReadsEndOfSession, on_end_of_session,
       clientHistory, Unseen, Connections
  <2> QED
    BY <1>4, <2>1, <2>2 DEF ClientStep, ClientLoses, ClientReadsEnd, ClientDisagrees,
       ClientRejected, ClientViolated, clientHistory
<1>5. ASSUME NEW i \in Conn, PortSend(i) \/ \E l \in Link : ServerStep(i, l) \/ ServerLoses(i, l)
      PROVE  Unseen
  BY <1>5 DEF PortSend, ServerStep, ServerLoses, LoginRejected, LoginAccepted, ServerReadsData,
     ServerReadsEnd, Closed, clientHistory, Unseen
<1> QED
  BY <1>2, <1>3, <1>4, <1>5 DEF Next, Fault

\* A connection that logs in is in the client's session from then on.
LEMMA LoggedInJoins ==
  ASSUME IndInv, JoinInv, OneFeed, NEW i \in Conn, ClientLoggedIn(i)
  PROVE  /\ JoinInv'
         /\ joined = NoSession =>
              \E s \in Sessions : \E n \in 1..(count[s] + 1) : TheFeed!Join(s, n)
         /\ joined # NoSession => UNCHANGED <<count, joined, next, got>>
<1> DEFINE l == conn[i].link
           r == ClientPacket(i)
<1>1. /\ UNCHANGED <<count, got>>
      /\ l # NoLink /\ link[i][l].down # <<>> /\ Head(link[i][l].down).type = "login_accepted"
      /\ on_login_success(conn[i], r) = "none"
      /\ next' = (IF conn[i].next = 0 /\ next = 0 THEN r.next ELSE next)
      /\ joined' = (IF joined = NoSession THEN r.session ELSE joined)
      /\ conn' = [conn EXCEPT ![i].session = r.session, ![i].next = r.next]
      /\ r = Head(link[i][l].down) /\ r.next # 0
  BY DEF ClientLoggedIn, ClientReads, ClientPacket, serverHistory
<1>2. /\ next \in Nat /\ conn \in [Conn -> Connections] /\ conn[i] \in Connections
      /\ count \in [Sessions -> Nat] /\ joined \in Sessions \cup {NoSession}
      /\ PairInv(conn[i], port[i], final[i], next, session, count)
  BY Facts
<1>3. l \in Link /\ conn[i].next \in Nat /\ conn[i].next <= next
  BY <1>1, <1>2, RecordFields DEF PairInv
<1>4. Follows(Tail(link[i][l].down), r.session, r.next, link[i][l].server,
              port[i], final[i], session, count)
      /\ conn[i].session \in {NoSession, r.session}
  <2>1. /\ link[i][l] \in Tcps
        /\ Current(conn[i], link[i][l], port[i], final[i], session, count)
    BY <1>3, Facts DEF TcpInv
  <2> QED
    BY <1>1, <1>2, <2>1, ResponseRead
<1>5. r.session \in Sessions /\ r.next \in 1..(count[r.session] + 1) /\ r.session # NoSession
  BY <1>4, SessionAssumption DEF Follows, Stream, Sessions, NoSession
<1> HIDE DEF l, r
<1>6. joined # NoSession => r.session = joined
  <2>1. CASE MaxSession = 1
    BY <1>2, <1>5, <2>1 DEF Sessions
  <2>2. CASE \A j \in Conn : j = i
    BY <1>4, <2>2 DEF JoinInv
  <2> QED
    BY <2>1, <2>2 DEF OneFeed
<1>7. conn'[i].session = r.session /\ \A j \in Conn \ {i} : conn'[j] = conn[j]
  BY <1>1, <1>2 DEF Connections
<1>8. joined' = r.session
  BY <1>1, <1>6
<1>9. \A j \in Conn : conn[j].session # NoSession => conn[j].session = r.session
  BY <1>5, <1>6, <1>4 DEF JoinInv
<1>10. next' = IF next = 0 THEN r.next ELSE next
  BY <1>1, <1>2, <1>3
<1>11. next' # 0
  BY <1>2, <1>1, <1>10
<1>12. JoinInv'
  BY <1>5, <1>7, <1>8, <1>9, <1>11 DEF JoinInv
<1>13. joined = NoSession => TheFeed!Join(r.session, r.next)
  BY <1>1, <1>5, <1>8, <1>10 DEF TheFeed!Join
<1>14. joined # NoSession => UNCHANGED <<count, joined, next, got>>
  BY <1>1, <1>6, <1>8, <1>10 DEF JoinInv
<1> QED
  BY <1>5, <1>12, <1>13, <1>14

\* A message is handed over once, in its turn and under its own number, or it
\* is one that another connection has brought.
LEMMA DataIsReceived ==
  ASSUME IndInv, JoinInv, NEW i \in Conn, ClientReadsData(i)
  PROVE  JoinInv' /\ (TheFeed!Receive \/ UNCHANGED <<count, joined, next, got>>)
<1>1. /\ UNCHANGED <<count, joined>>
      /\ conn' = [conn EXCEPT ![i].next = @ + 1]
      /\ \/ /\ conn[i].next >= next /\ next' = conn[i].next + 1
            /\ got' = ClientPacket(i).message
         \/ UNCHANGED <<next, got>>
  BY DEF ClientReadsData, sequence_number, is_new
<1>2. /\ next \in Nat /\ conn[i].next \in 1..count[conn[i].session]
      /\ conn[i].session \in Sessions /\ conn[i].next <= next
      /\ ClientPacket(i).message = <<conn[i].session, conn[i].next>>
  BY ClientReadsDataInv
<1>3. conn \in [Conn -> Connections] /\ count \in [Sessions -> Nat]
  BY DEF IndInv
<1>4. \A j \in Conn : conn'[j].session = conn[j].session
  BY <1>1, <1>3 DEF Connections
<1>5. conn[i].session # NoSession /\ joined # NoSession /\ joined = conn[i].session
  BY <1>2, SessionAssumption DEF JoinInv, Sessions, NoSession
<1>6. conn[i].next \in Nat /\ conn[i].next # 0
  BY <1>2, <1>3
<1>7. CASE /\ conn[i].next >= next /\ next' = conn[i].next + 1
           /\ got' = ClientPacket(i).message
  <2>1. conn[i].next = next
    BY <1>2, <1>6, <1>7
  <2>2. TheFeed!Receive
    BY <1>1, <1>2, <1>5, <1>7, <2>1 DEF TheFeed!Receive
  <2>3. next' # 0
    BY <1>6, <1>7
  <2>4. JoinInv'
    BY <1>1, <1>4, <2>3 DEF JoinInv
  <2> QED
    BY <2>2, <2>4
<1>8. CASE UNCHANGED <<next, got>>
  BY <1>1, <1>4, <1>8 DEF JoinInv
<1> QED
  BY <1>1, <1>7, <1>8

\* Every step of the library is a step of the feed or leaves it alone.
LEMMA FeedStep ==
  ASSUME IndInv, JoinInv, OneFeed, [Next]_vars
  PROVE  JoinInv' /\ [TheFeed!Next]_(TheFeed!vars)
<1>1. CASE Unseen
  BY <1>1 DEF Unseen, JoinInv, TheFeed!vars
<1>2. ASSUME NEW i \in Conn, ClientLoggedIn(i)
      PROVE  JoinInv' /\ [TheFeed!Next]_(TheFeed!vars)
  BY <1>2, LoggedInJoins DEF TheFeed!Next, TheFeed!vars
<1>3. ASSUME NEW i \in Conn, ClientReadsData(i)
      PROVE  JoinInv' /\ [TheFeed!Next]_(TheFeed!vars)
  BY <1>3, DataIsReceived DEF TheFeed!Next, TheFeed!vars
<1>4. CASE Publish
  <2>1. session \in Sessions
    BY DEF IndInv
  <2>2. TheFeed!Publish(session) /\ UNCHANGED <<conn, joined, next>>
    BY <1>4 DEF Publish, TheFeed!Publish, clientHistory
  <2> QED
    BY <2>1, <2>2 DEF JoinInv, TheFeed!Next
<1> QED
  BY <1>1, <1>2, <1>3, <1>4, MostAreUnseen

\* With one connection or one session, whatever breaks, the application of
\* the client sees what Feed says: no gap, no message twice, none under
\* another's number.
THEOREM FeedImplemented ==
  ASSUME OneFeed
  PROVE  Spec => ImplementsFeed
<1>1. Init => JoinInv /\ TheFeed!Init
  BY DEF Init, JoinInv, TheFeed!Init
<1>2. IndInv /\ JoinInv /\ [Next]_vars => JoinInv' /\ [TheFeed!Next]_(TheFeed!vars)
  BY FeedStep
<1> QED
  BY <1>1, <1>2, Invariance, PTL DEF Spec, ImplementsFeed, TheFeed!Spec

-----------------------------------------------------------------------------
\* What is on its way from the client, and how much.

\* The TCP connection t holds packets within the limit, and none of the
\* messages not_sent.
PacketsInv(t, n, not_sent) ==
  /\ Len(t.up) <= WriteLimit /\ Len(t.down) <= WriteLimit
  /\ \A k \in 1..Len(t.up) :
       t.up[k].type = "unsequenced_data" => t.up[k].message \in (1..n) \ not_sent

\* No connection holds a message that was refused, nor has one arrived.
SendInv ==
  /\ sends \in Nat /\ refused \subseteq 1..sends /\ arrived \subseteq (1..sends) \ refused
  /\ \A i \in Conn, l \in Link : PacketsInv(link[i][l], sends, refused)

\* A step from t to t2 that adds no message of the client and keeps to the
\* limit.
Moves(t2, t) ==
  /\ \A k \in 1..Len(t2.up) : \/ t2.up[k].type = "login_request"
                              \/ \E j \in 1..Len(t.up) : t2.up[k] = t.up[j]
  /\ Len(t2.up) <= Len(t.up) \/ Len(t2.up) <= 1
  /\ Len(t2.down) <= Len(t.down) \/ Len(t2.down) <= WriteLimit

\* Such a step preserves what is said of the packets.
LEMMA MovesInv ==
  ASSUME NEW t \in Tcps, NEW t2 \in Tcps, Moves(t2, t), NEW n, NEW not_sent,
         PacketsInv(t, n, not_sent)
  PROVE  PacketsInv(t2, n, not_sent)
<1>1. /\ Len(t.up) \in Nat /\ Len(t.down) \in Nat /\ Len(t2.up) \in Nat /\ Len(t2.down) \in Nat
      /\ WriteLimit \in Nat \ {0}
  BY TcpFields, SessionAssumption
<1>2. Len(t2.up) <= WriteLimit /\ Len(t2.down) <= WriteLimit
  BY <1>1 DEF Moves, PacketsInv
<1>3. ASSUME NEW k \in 1..Len(t2.up), t2.up[k].type = "unsequenced_data"
      PROVE  t2.up[k].message \in (1..n) \ not_sent
  BY <1>3 DEF Moves, PacketsInv
<1> QED
  BY <1>2, <1>3 DEF PacketsInv

\* Nothing new, a packet read, packets lost, or only the request.
LEMMA MovesUp ==
  ASSUME NEW t \in Tcps, NEW t2 \in Tcps,
         \/ t2.up \in {t.up, <<>>}
         \/ t2.up = Tail(t.up) /\ t.up # <<>>
         \/ \E m \in 0..Len(t.up) : t2.up = SubSeq(t.up, 1, m)
         \/ \E s, n : t2.up = <<Login_request(s, n)>>,
         Len(t2.down) <= Len(t.down) \/ Len(t2.down) <= WriteLimit
  PROVE  Moves(t2, t)
<1>1. t.up \in Seq(UpPackets) /\ Len(t.up) \in Nat
  BY TcpFields
<1>2. CASE t2.up \in {t.up, <<>>}
  BY <1>1, <1>2 DEF Moves
<1>3. CASE t2.up = Tail(t.up) /\ t.up # <<>>
  <2> DEFINE u == Tail(t.up)
  <2>1. /\ Len(u) = Len(t.up) - 1 /\ Len(t.up) \in Nat \ {0}
        /\ \A k \in 1..Len(t.up) - 1 : u[k] = t.up[k + 1]
    BY <1>1, <1>3, TailOfQueue
  <2> HIDE DEF u
  <2>2. \A k \in 1..Len(u) : \E j \in 1..Len(t.up) : u[k] = t.up[j]
    <3> SUFFICES ASSUME NEW k \in 1..Len(u)
                 PROVE  \E j \in 1..Len(t.up) : u[k] = t.up[j]
      OBVIOUS
    <3>1. k + 1 \in 1..Len(t.up) /\ u[k] = t.up[k + 1]
      BY <2>1
    <3> QED
      BY <3>1
  <2>3. t2.up = u
    BY <1>3 DEF u
  <2> QED
    BY <2>1, <2>2, <2>3 DEF Moves
<1>4. CASE \E m \in 0..Len(t.up) : t2.up = SubSeq(t.up, 1, m)
  <2>1. PICK m \in 0..Len(t.up) : t2.up = SubSeq(t.up, 1, m)
    BY <1>4
  <2>2. Len(t2.up) = m /\ \A k \in 1..m : t2.up[k] = t.up[k] /\ k \in 1..Len(t.up)
    BY <1>1, <2>1, CutQueue
  <2> QED
    BY <1>1, <2>2 DEF Moves
<1>5. CASE \E s, n : t2.up = <<Login_request(s, n)>>
  <2>1. PICK s, n : t2.up = <<Login_request(s, n)>>
    BY <1>5
  <2>2. Len(t2.up) = 1 /\ t2.up[1].type = "login_request"
    BY <2>1 DEF Login_request
  <2> QED
    BY <2>2 DEF Moves
<1> QED
  BY <1>2, <1>3, <1>4, <1>5

\* No TCP connection has another value.
LEMMA NoneMoves ==
  ASSUME IndInv
  PROVE  \A j \in Conn, m \in Link : Moves(link[j][m], link[j][m])
<1> SUFFICES ASSUME NEW j \in Conn, NEW m \in Link
             PROVE  Moves(link[j][m], link[j][m])
  OBVIOUS
<1>1. link[j][m] \in Tcps /\ Len(link[j][m].down) \in Nat
  BY Facts, TcpFields
<1> QED
  BY <1>1, MovesUp

\* One TCP connection has another value.
LEMMA OneMovesTo ==
  ASSUME IndInv, NEW i \in Conn, NEW l \in Link, NEW t2 \in Tcps, Moves(t2, link[i][l]),
         NEW link2, link2 = [link EXCEPT ![i][l] = t2]
  PROVE  \A j \in Conn, m \in Link : Moves(link2[j][m], link[j][m])
<1>1. link \in [Conn -> [Link -> Tcps]]
  BY DEF IndInv
<1>2. \A j \in Conn, m \in Link : Moves(link[j][m], link[j][m])
  BY NoneMoves
<1>3. /\ link2[i][l] = t2 /\ \A j \in Conn \ {i} : link2[j] = link[j]
      /\ \A m \in Link \ {l} : link2[i][m] = link[i][m]
  BY <1>1, OneTcpChanged
<1> QED
  BY <1>2, <1>3

\* A step of one TCP connection.
LEMMA OneMoves ==
  ASSUME IndInv, NEW i \in Conn, NEW l \in Link, NEW t2 \in Tcps, Moves(t2, link[i][l]),
         link' = [link EXCEPT ![i][l] = t2]
  PROVE  \A j \in Conn, m \in Link : Moves(link'[j][m], link[j][m])
BY OneMovesTo

\* A step of a client's connection other than sending.
LEMMA ClientMoves ==
  ASSUME IndInv, link' \in [Conn -> [Link -> Tcps]], NEW i \in Conn,
         ClientStep(i) \/ ClientLoses(i)
  PROVE  \A j \in Conn, m \in Link : Moves(link'[j][m], link[j][m])
<1> DEFINE l == conn[i].link
<1>1. /\ link \in [Conn -> [Link -> Tcps]] /\ l \in Link \cup {NoLink}
      /\ \A m \in Link : link[i][m] \in Tcps /\ link'[i][m] \in Tcps
  BY Facts, RecordFields
<1>2. /\ WriteLimit \in Nat \ {0} /\ \A m \in Link : Len(link[i][m].down) \in Nat
  BY <1>1, TcpFields, SessionAssumption
<1> HIDE DEF l
<1>3. ASSUME l # NoLink, NEW w \in BOOLEAN, Drops(i, w)
      PROVE  \A j \in Conn, m \in Link : Moves(link'[j][m], link[j][m])
  <2>1. l \in Link
    BY <1>1, <1>3
  <2>2. PICK t2 \in ClientCloses(link[i][l]) : link' = [link EXCEPT ![i][l] = t2]
    BY <1>3 DEF Drops, l
  <2>3. t2 \in Tcps
    BY <1>1, <2>1, <2>2
  <2>4. PICK sent \in Prefixes(link[i][l].up) :
          t2 = [link[i][l] EXCEPT !.client = "closed", !.down = <<>>, !.up = sent]
    BY DEF ClientCloses
  <2>5. PICK m \in 0..Len(link[i][l].up) : sent = SubSeq(link[i][l].up, 1, m)
    BY PrefixIsCut
  <2>6. t2.up = SubSeq(link[i][l].up, 1, m) /\ t2.down = <<>>
    BY <1>1, <2>1, <2>4, <2>5 DEF Tcps
  <2>7. Len(t2.down) <= WriteLimit
    BY <1>2, <2>6
  <2>8. Moves(t2, link[i][l])
    BY <1>1, <2>1, <2>3, <2>6, <2>7, MovesUp
  <2> QED
    BY <2>1, <2>2, <2>3, <2>8, OneMoves
<1>4. ASSUME ClientReads(i, "login_accepted") \/ ClientReads(i, "sequenced_data")
               \/ ClientReads(i, "end_of_session"),
             NEW s, s = link[i][l].client \/ s = "logged_in",
             link' = [link EXCEPT ![i][l].client = s, ![i][l].down = Tail(@)]
      PROVE  \A j \in Conn, m \in Link : Moves(link'[j][m], link[j][m])
  <2>1. l \in Link /\ link[i][l].down # <<>>
    BY <1>1, <1>4 DEF ClientReads, l
  <2> DEFINE t2 == [link[i][l] EXCEPT !.client = s, !.down = Tail(@)]
  <2>2. link' = [link EXCEPT ![i][l] = t2]
    BY <1>1, <1>4, <2>1, ZenonT(30)
  <2>3. t2.up = link[i][l].up /\ t2.down = Tail(link[i][l].down)
    BY <1>1, <2>1 DEF Tcps
  <2> HIDE DEF t2
  <2>4. t2 \in Tcps
    BY <1>1, <2>1, <2>2
  <2>5. Len(t2.down) <= Len(link[i][l].down)
    BY <1>1, <2>1, <2>3, TailOfQueue, TcpFields
  <2>6. Moves(t2, link[i][l])
    BY <1>1, <2>1, <2>3, <2>4, <2>5, MovesUp
  <2> QED
    BY <2>1, <2>2, <2>4, <2>6, OneMoves
<1>5. CASE Connect(i)
  <2>1. PICK k \in Link :
          link' = [link EXCEPT ![i][k] =
                     [client |-> "connected", server |-> "connected", down |-> <<>>,
                      up |-> <<Login_request(conn[i].session, next)>>]]
    BY <1>5 DEF Connect
  <2> DEFINE t2 == [client |-> "connected", server |-> "connected", down |-> <<>>,
                    up |-> <<Login_request(conn[i].session, next)>>]
  <2>2. link' = [link EXCEPT ![i][k] = t2]
    BY <2>1
  <2>3. t2.up = <<Login_request(conn[i].session, next)>> /\ t2.down = <<>>
    OBVIOUS
  <2> HIDE DEF t2
  <2>4. t2 \in Tcps
    BY <1>1, <2>2
  <2>5. Len(t2.down) <= WriteLimit
    BY <1>2, <2>3
  <2>6. Moves(t2, link[i][k])
    BY <1>1, <2>3, <2>4, <2>5, MovesUp
  <2> QED
    BY <2>2, <2>4, <2>6, OneMoves
<1>6. CASE UserConnect(i)
  <2>1. link' = link
    BY <1>6 DEF UserConnect
  <2> QED
    BY <2>1, NoneMoves
<1>7. CASE ClientReadsEnd(i) \/ ClientLoses(i)
  BY <1>3, <1>7 DEF ClientReadsEnd, ClientLoses, l
<1>8. CASE ClientDisagrees(i) \/ ClientRejected(i) \/ ClientViolated(i)
  BY <1>3, <1>8 DEF ClientDisagrees, ClientRejected, ClientViolated, ClientReads, l
<1>9. CASE ClientLoggedIn(i)
  BY <1>4, <1>9 DEF ClientLoggedIn, l
<1>10. CASE ClientReadsData(i) \/ ClientReadsEndOfSession(i)
  <2>1. l \in Link /\ link' = [link EXCEPT ![i][l].down = Tail(@)]
    BY <1>1, <1>10 DEF ClientReadsData, ClientReadsEndOfSession, Consumed, ClientReads, l
  <2>2. link' = [link EXCEPT ![i][l].client = link[i][l].client, ![i][l].down = Tail(@)]
    <3>1. link[i][l] = [link[i][l] EXCEPT !.client = link[i][l].client]
      BY <1>1, <2>1 DEF Tcps
    <3> QED
      BY <1>1, <2>1, <3>1
  <2> QED
    BY <1>4, <1>10, <2>2 DEF ClientReadsData, ClientReadsEndOfSession
<1> QED
  BY <1>5, <1>6, <1>7, <1>8, <1>9, <1>10 DEF ClientStep

\* Whatever becomes of what a server had written, nothing is added.
LEMMA CutOffMoves ==
  ASSUME NEW t \in Tcps, NEW m \in 0..Len(t.down)
  PROVE  CutOff(t, m) \in Tcps /\ Moves(CutOff(t, m), t)
<1> DEFINE t2 == CutOff(t, m)
<1>1. t2 \in Tcps /\ t2.up = <<>> /\ t2.down = SubSeq(t.down, 1, m)
  BY CutOffFields
<1> HIDE DEF t2
<1>2. t.down \in Seq(DownPackets) /\ Len(t.down) \in Nat
  BY TcpFields
<1>3. Len(t2.down) <= Len(t.down)
  BY <1>1, <1>2, CutQueue
<1>4. Moves(t2, t)
  BY <1>1, <1>3, MovesUp
<1> QED
  BY <1>1, <1>4 DEF t2

\* A step of the server at one TCP connection, or of one port.
LEMMA ServerMoves ==
  ASSUME IndInv, link' \in [Conn -> [Link -> Tcps]], NEW i \in Conn,
         PortSend(i) \/ \E l \in Link : ServerStep(i, l) \/ ServerLoses(i, l)
  PROVE  \A j \in Conn, m \in Link : Moves(link'[j][m], link[j][m])
<1>1. /\ link \in [Conn -> [Link -> Tcps]] /\ port[i].link \in Link \cup {NoLink}
      /\ \A m \in Link : link[i][m] \in Tcps /\ link'[i][m] \in Tcps
  BY Facts, RecordFields
<1>2. WriteLimit \in Nat \ {0}
  BY SessionAssumption
<1>3. ASSUME NEW l \in Link, Leaves(i, l)
      PROVE  \A j \in Conn, m \in Link : Moves(link'[j][m], link[j][m])
  <2>1. PICK t2 \in ServerCloses(link[i][l]) : link' = [link EXCEPT ![i][l] = t2]
    BY <1>3 DEF Leaves
  <2>2. PICK m \in 0..Len(link[i][l].down) : t2 = CutOff(link[i][l], m)
    BY <1>1, ServerClosesIsCutOff
  <2>3. t2 \in Tcps /\ Moves(t2, link[i][l])
    BY <1>1, <2>2, CutOffMoves
  <2> QED
    BY <2>1, <2>3, OneMoves
<1>4. CASE \E l \in Link : ServerReadsEnd(i, l) \/ ServerLoses(i, l)
  BY <1>3, <1>4 DEF ServerReadsEnd, ServerLoses
<1>5. ASSUME NEW l \in Link, LoginRejected(i, l)
      PROVE  \A j \in Conn, m \in Link : Moves(link'[j][m], link[j][m])
  <2>1. PICK t2 \in Tcps : /\ link' = [link EXCEPT ![i][l] = t2]
                           /\ t2.up = <<>> /\ t2.down = <<Login_rejected>>
    BY <1>5, LoginRejectedInv
  <2>2. Len(t2.down) <= WriteLimit
    BY <1>2, <2>1
  <2>3. Moves(t2, link[i][l])
    BY <1>1, <2>1, <2>2, MovesUp
  <2> QED
    BY <2>1, <2>3, OneMoves
<1>6. CASE \E l \in Link : ServerReadsData(i, l)
  <2>1. PICK l \in Link : ServerReadsData(i, l)
    BY <1>6
  <2> DEFINE t2 == [link[i][l] EXCEPT !.up = Tail(@)]
  <2>2. link' = [link EXCEPT ![i][l] = t2] /\ link[i][l].up # <<>>
    BY <1>1, <2>1 DEF ServerReadsData, ServerReads
  <2>3. t2.up = Tail(link[i][l].up) /\ t2.down = link[i][l].down
    BY <1>1 DEF Tcps
  <2> HIDE DEF t2
  <2>4. t2 \in Tcps /\ Len(link[i][l].down) \in Nat
    BY <1>1, <2>2, TcpFields
  <2>5. Moves(t2, link[i][l])
    BY <1>1, <2>2, <2>3, <2>4, MovesUp
  <2> QED
    BY <2>2, <2>4, <2>5, OneMoves
<1>7. CASE PortSend(i)
  <2> DEFINE l == port[i].link
             e == Sequenced_data(<<session, port[i].next>>)
             t2 == [link[i][l] EXCEPT !.down = Append(@, e)]
  <2>1. l \in Link /\ Len(link[i][l].down) < WriteLimit
    BY <1>1, <1>7 DEF PortSend, Sent
  <2>2. link' = [link EXCEPT ![i][l] = t2]
    BY <1>1, <1>7, <2>1 DEF PortSend
  <2>3. t2.up = link[i][l].up /\ t2.down = Append(link[i][l].down, e)
    BY <1>1, <2>1 DEF Tcps
  <2> HIDE DEF l, t2, e
  <2>4. t2 \in Tcps /\ link[i][l].down \in Seq(DownPackets) /\ Len(link[i][l].down) \in Nat
    BY <1>1, <2>1, <2>2, TcpFields
  <2>5. Len(t2.down) = Len(link[i][l].down) + 1
    BY <2>3, <2>4
  <2>6. Len(t2.down) <= WriteLimit
    BY <1>2, <2>1, <2>4, <2>5
  <2>7. Moves(t2, link[i][l])
    BY <1>1, <2>1, <2>3, <2>4, <2>6, MovesUp
  <2> QED
    BY <2>1, <2>2, <2>4, <2>7, OneMoves
<1>8. CASE \E l \in Link : LoginAccepted(i, l)
  <2>1. PICK l \in Link : LoginAccepted(i, l)
    BY <1>8
  <2> DEFINE old == port[i].link
             n == AcceptedAt(i, l)
  <2>2. PICK early \in EarlySends(i, n) : Accepted(i, l, n, early)
    BY <2>1, AcceptedShape
  <2>3. Len(login_response(n, early)) <= WriteLimit
    BY <2>1, AcceptedResponse
  <2>4. link[i][l].up # <<>>
    BY <2>1 DEF LoginAccepted, ServerReads
  <2> DEFINE t2 == LoggedIn(i, l, n, early)
  <2>5. t2.up = Tail(link[i][l].up) /\ t2.down = login_response(n, early)
    BY <1>1 DEF Tcps, LoggedIn
  <2>6. \/ link' = [link EXCEPT ![i][l] = t2]
        \/ /\ old \in Link \ {l}
           /\ \E u \in ServerCloses(link[i][old]) :
                link' = [link EXCEPT ![i][old] = u, ![i][l] = t2]
    BY <2>2 DEF Accepted
  <2> HIDE DEF old, n, t2
  <2>7. link'[i][l] = t2
    <3>1. CASE link' = [link EXCEPT ![i][l] = t2]
      BY <1>1, <3>1
    <3>2. ASSUME old \in Link \ {l}, NEW u, link' = [link EXCEPT ![i][old] = u, ![i][l] = t2]
          PROVE  link'[i][l] = t2
      BY <1>1, <3>2
    <3> QED
      BY <2>6, <3>1, <3>2
  <2>8. t2 \in Tcps /\ Len(t2.down) <= WriteLimit
    BY <1>1, <2>3, <2>5, <2>7
  <2>9. Moves(t2, link[i][l])
    BY <1>1, <2>4, <2>5, <2>8, MovesUp
  <2>10. CASE link' = [link EXCEPT ![i][l] = t2]
    BY <2>8, <2>9, <2>10, OneMoves
  <2>11. ASSUME old \in Link \ {l}, NEW u \in ServerCloses(link[i][old]),
                link' = [link EXCEPT ![i][old] = u, ![i][l] = t2]
         PROVE  \A j \in Conn, m \in Link : Moves(link'[j][m], link[j][m])
    <3>1. PICK m \in 0..Len(link[i][old].down) : u = CutOff(link[i][old], m)
      BY <1>1, <2>11, ServerClosesIsCutOff
    <3>2. u \in Tcps /\ Moves(u, link[i][old])
      BY <1>1, <2>11, <3>1, CutOffMoves
    <3>3. \A j \in Conn, m2 \in Link :
            Moves([link EXCEPT ![i][old] = u][j][m2], link[j][m2])
      BY <2>11, <3>2, OneMovesTo
    <3>4. \A j \in Conn, m2 \in Link :
            link'[j][m2] = IF j = i /\ m2 = l THEN t2 ELSE [link EXCEPT ![i][old] = u][j][m2]
      BY <1>1, <2>11
    <3> QED
      BY <2>9, <3>3, <3>4
  <2> QED
    BY <2>6, <2>10, <2>11
<1>9. CASE \E l \in Link : Closed(i, l)
  <2>1. link' = link
    BY <1>9 DEF Closed
  <2> QED
    BY <2>1, NoneMoves
<1> QED
  BY <1>4, <1>5, <1>6, <1>7, <1>8, <1>9 DEF ServerStep

\* A step of all ports.
LEMMA AllMove ==
  ASSUME IndInv, link' \in [Conn -> [Link -> Tcps]], Publish \/ EndSession \/ Restart
  PROVE  \A j \in Conn, m \in Link : Moves(link'[j][m], link[j][m])
<1> SUFFICES ASSUME NEW j \in Conn, NEW m \in Link
             PROVE  Moves(link'[j][m], link[j][m])
  OBVIOUS
<1> DEFINE t == link[j][m]
           t2 == link'[j][m]
<1>1. t \in Tcps /\ t2 \in Tcps
  BY Facts
<1>2. /\ WriteLimit \in Nat \ {0} /\ Len(t.down) \in Nat /\ t.down \in Seq(DownPackets)
  BY <1>1, TcpFields, SessionAssumption
<1>3. t2 = t => Moves(t2, t)
  <2> HIDE DEF t, t2
  <2>1. t2 = t => t2.up = t.up /\ Len(t2.down) <= Len(t.down)
    BY <1>2
  <2> QED
    BY <1>1, <2>1, MovesUp
<1>4. CASE Publish
  <2>1. t2 = t
    BY <1>4 DEF Publish
  <2> QED
    BY <1>3, <2>1
<1>5. CASE EndSession
  <2>1. t2 = IF port[j].link = m /\ Sent(j) THEN [t EXCEPT !.down = with_end(@)] ELSE t
    BY <1>5 DEF EndSession
  <2>2. ASSUME port[j].link = m, Sent(j)
        PROVE  Moves(t2, t)
    <3>1. Len(t.down) < WriteLimit
      BY <2>2 DEF Sent
    <3>2. t2 = [t EXCEPT !.down = Append(@, End_of_session)]
      BY <2>1, <2>2 DEF with_end
    <3> HIDE DEF t, t2
    <3>3. t2.up = t.up /\ t2.down = Append(t.down, End_of_session)
      BY <1>1, <3>2 DEF Tcps
    <3>4. End_of_session \in DownPackets
      BY DEF DownPackets
    <3>5. Len(t2.down) = Len(t.down) + 1
      BY <1>2, <3>3, <3>4, AppendToQueue
    <3>6. Len(t2.down) <= WriteLimit
      BY <1>2, <3>1, <3>5
    <3> QED
      BY <1>1, <3>3, <3>6, MovesUp
  <2> QED
    BY <1>3, <2>1, <2>2
<1>6. CASE Restart
  <2>0. PICK kept \in [Conn -> [Link -> 0..WriteLimit]] :
          link' = [i \in Conn |-> [l \in Link |->
                     [link[i][l] EXCEPT !.server = "closed", !.up = <<>>,
                        !.down = SubSeq(@, 1, Min({kept[i][l], Len(@)}))]]]
    BY <1>6 DEF Restart
  <2>1. t2 = [t EXCEPT !.server = "closed", !.up = <<>>,
                       !.down = SubSeq(@, 1, Min({kept[j][m], Len(@)}))]
    BY <2>0
  <2> DEFINE n == Min({kept[j][m], Len(t.down)})
  <2>2. kept[j][m] \in 0..WriteLimit
    OBVIOUS
  <2>3. kept[j][m] \in Nat
    BY <1>2, <2>2
  <2>4. n \in 0..Len(t.down)
    BY <1>2, <2>3, MinIsCut
  <2>5. t2 = CutOff(t, n)
    BY <2>1 DEF CutOff
  <2> HIDE DEF n, t, t2
  <2>6. Moves(t2, t)
    BY <1>1, <2>4, <2>5, CutOffMoves
  <2> QED
    BY <2>6 DEF t, t2
<1> QED
  BY <1>4, <1>5, <1>6

\* What the server's application gets was written by the client.
LEMMA ArrivedWasSent ==
  ASSUME IndInv, SendInv, NEW i \in Conn, NEW l \in Link, ServerReadsData(i, l)
  PROVE  arrived' \subseteq (1..sends) \ refused
<1> DEFINE q == link[i][l].up
<1>1. q # <<>> /\ Head(q).type = "unsequenced_data"
      /\ arrived' \subseteq arrived \cup {Head(q).message}
  BY DEF ServerReadsData, ServerReads
<1>2. /\ q \in Seq(UpPackets) /\ PacketsInv(link[i][l], sends, refused)
      /\ arrived \subseteq (1..sends) \ refused
  BY Facts, TcpFields DEF SendInv
<1>3. \A k \in 1..Len(q) : q[k].type = "unsequenced_data" => q[k].message \in (1..sends) \ refused
  BY <1>2 DEF PacketsInv
<1> HIDE DEF q
<1>4. Head(q) = q[1] /\ 1 \in 1..Len(q)
  BY <1>1, <1>2, TailOfQueue
<1>5. Head(q).message \in (1..sends) \ refused
  BY <1>1, <1>3, <1>4
<1> QED
  BY <1>1, <1>2, <1>5

\* A step other than a call of Client::send_message().
LEMMA NoSendInv ==
  ASSUME IndInv, IndInv', SendInv, Next, ~ClientSend
  PROVE  SendInv'
<1>1. link' \in [Conn -> [Link -> Tcps]]
  BY DEF IndInv
<1>2. \A j \in Conn, m \in Link : Moves(link'[j][m], link[j][m])
  <2>1. CASE \E i \in Conn : ClientStep(i) \/ ClientLoses(i)
    BY <1>1, <2>1, ClientMoves
  <2>2. CASE \E i \in Conn : PortSend(i) \/ \E l \in Link : ServerStep(i, l) \/ ServerLoses(i, l)
    BY <1>1, <2>2, ServerMoves
  <2>3. CASE Publish \/ EndSession \/ Restart
    BY <1>1, <2>3, AllMove
  <2> QED
    BY <2>1, <2>2, <2>3 DEF Next, Fault
<1>3. sends' = sends /\ refused' = refused
  <2>1. CASE \E i \in Conn : ClientStep(i) \/ ClientLoses(i)
    BY <2>1 DEF ClientStep, ClientLoses, Connect, UserConnect, ClientReadsEnd, ClientLoggedIn,
       ClientDisagrees, ClientRejected, ClientReadsData, ClientReadsEndOfSession,
       ClientViolated, sendVars
  <2>2. CASE \E i \in Conn : \E l \in Link : ServerStep(i, l) \/ ServerLoses(i, l)
    BY <2>2, ServerSendsNothing
  <2>3. CASE (\E i \in Conn : PortSend(i)) \/ Publish \/ EndSession \/ Restart
    BY <2>3 DEF PortSend, Publish, EndSession, Restart, sendVars
  <2> QED
    BY <2>1, <2>2, <2>3 DEF Next, Fault
<1>4. arrived' \subseteq (1..sends) \ refused
  <2>0. arrived \subseteq (1..sends) \ refused
    BY DEF SendInv
  <2>1. CASE \E i \in Conn : ClientStep(i) \/ ClientLoses(i)
    BY <2>0, <2>1 DEF ClientStep, ClientLoses, Connect, UserConnect, ClientReadsEnd,
       ClientLoggedIn, ClientDisagrees, ClientRejected, ClientReadsData,
       ClientReadsEndOfSession, ClientViolated, sendVars
  <2>2. CASE \E i \in Conn, l \in Link : LoginRejected(i, l) \/ LoginAccepted(i, l) \/ Closed(i, l)
                                           \/ ServerReadsEnd(i, l) \/ ServerLoses(i, l)
    <3>1. ASSUME NEW i \in Conn, NEW l \in Link, LoginAccepted(i, l)
          PROVE  arrived' = arrived
      BY <3>1 DEF LoginAccepted, sendVars
    <3>2. CASE \E i \in Conn, l \in Link : LoginRejected(i, l) \/ Closed(i, l)
                                              \/ ServerReadsEnd(i, l) \/ ServerLoses(i, l)
      BY <2>0, <3>2, SMTT(30) DEF LoginRejected, Closed, ServerReadsEnd, ServerLoses, sendVars
    <3> QED
      BY <1>3, <2>0, <2>2, <3>1, <3>2
  <2>3. CASE \E i \in Conn, l \in Link : ServerReadsData(i, l)
    BY <2>3, ArrivedWasSent
  <2>4. CASE (\E i \in Conn : PortSend(i)) \/ Publish \/ EndSession \/ Restart
    BY <2>0, <2>4 DEF PortSend, Publish, EndSession, Restart, sendVars
  <2> QED
    BY <2>1, <2>2, <2>3, <2>4 DEF Next, Fault, ServerStep
<1>5. ASSUME NEW j \in Conn, NEW m \in Link
      PROVE  PacketsInv(link'[j][m], sends, refused)
  <2>1. link[j][m] \in Tcps /\ link'[j][m] \in Tcps /\ PacketsInv(link[j][m], sends, refused)
    BY <1>1, Facts DEF SendInv
  <2> QED
    BY <1>2, <2>1, MovesInv
<1> QED
  BY <1>3, <1>4, <1>5 DEF SendInv

\* A connection takes a message only if there is room for it.
LEMMA TakesWithinLimit ==
  ASSUME IndInv, NEW i \in Conn, NEW l \in Link, conn[i].link = l, send_packet(i) = "none"
  PROVE  Len(link[i][l].up) < WriteLimit
<1>1. /\ conn[i] \in Connections /\ link[i][l] \in Tcps
      /\ TcpInv(conn[i], link[i][l], l, port[i], final[i], session, count)
  BY Facts
<1>2. conn[i].link # NoLink /\ conn[i].ended \in BOOLEAN
  BY <1>1, SessionAssumption, RecordFields
<1>3. link[i][l].client \in {"connected", "logged_in"}
  BY <1>1, TcpFields DEF TcpInv, EndState
<1>4. Len(link[i][l].up) \in Nat /\ WriteLimit \in Nat
  BY <1>1, TcpFields, SessionAssumption
<1>5. ~conn[i].ended /\ ClientState(i) = "logged_in"
  BY <1>2, <1>3 DEF send_packet, ClientState
<1>6. ~(Len(link[i][l].up) >= WriteLimit)
  BY <1>2, <1>5 DEF send_packet
<1> QED
  BY <1>4, <1>6

\* Client::send_message() says none if any connection has taken the message.
LEMMA TakenIsNone ==
  ASSUME ~ended, NEW i \in Conn, send_packet(i) = "none"
  PROVE  send_all = "none"
<1> DEFINE errors == {send_packet(j) : j \in Conn}
<1>1. "none" \in errors
  <2>1. send_packet(i) \in errors
    OBVIOUS
  <2> QED
    BY <2>1
<1>2. Cardinality(Conn) = 1 => (CHOOSE e \in errors : TRUE) = "none"
  <2> SUFFICES ASSUME Cardinality(Conn) = 1
               PROVE  (CHOOSE e \in errors : TRUE) = "none"
    OBVIOUS
  <2>1. PICK j : Conn = {j}
    BY SessionAssumption, FS_Singleton
  <2>2. \A e \in errors : e = "none"
    BY <2>1
  <2> HIDE DEF errors
  <2> QED
    BY <1>1, <2>2
<1>3. priority_error(errors) = "none"
  BY <1>1 DEF priority_error
<1>4. send_all = IF Cardinality(Conn) = 1 THEN CHOOSE e \in errors : TRUE
                 ELSE priority_error(errors)
  BY DEF send_all
<1> QED
  BY <1>2, <1>3, <1>4

\* A packet with a new number, in a queue that has room.
LEMMA PacketTaken ==
  ASSUME NEW t \in Tcps, NEW n \in Nat, NEW not_sent, not_sent \subseteq 1..n,
         PacketsInv(t, n, not_sent), Len(t.up) < WriteLimit,
         NEW t2, t2 = [t EXCEPT !.up = Append(@, Unsequenced_data(n + 1))]
  PROVE  PacketsInv(t2, n + 1, not_sent)
<1> DEFINE e == Unsequenced_data(n + 1)
<1>1. /\ t.up \in Seq(UpPackets) /\ Len(t.up) \in Nat /\ WriteLimit \in Nat
      /\ e \in UpPackets /\ e.message = n + 1
  BY TcpFields, SessionAssumption DEF UpPackets, Unsequenced_data
<1>2. t2.up = Append(t.up, e) /\ t2.down = t.down
  BY DEF Tcps
<1> HIDE DEF e
<1>3. /\ Len(t2.up) = Len(t.up) + 1 /\ t2.up[Len(t2.up)] = e
      /\ \A k \in 1..Len(t.up) : t2.up[k] = t.up[k]
  BY <1>1, <1>2, AppendToQueue
<1>4. n + 1 \in (1..(n + 1)) \ not_sent /\ (1..n) \ not_sent \subseteq (1..(n + 1)) \ not_sent
  OBVIOUS
<1>5. ASSUME NEW k \in 1..Len(t2.up), t2.up[k].type = "unsequenced_data"
      PROVE  t2.up[k].message \in (1..(n + 1)) \ not_sent
  <2>1. k \in 1..Len(t.up) \/ k = Len(t2.up)
    BY <1>1, <1>3
  <2>2. CASE k = Len(t2.up)
    BY <1>1, <1>3, <1>4, <2>2
  <2>3. CASE k \in 1..Len(t.up)
    <3>1. t.up[k].message \in (1..n) \ not_sent
      BY <1>3, <1>5, <2>3 DEF PacketsInv
    <3> QED
      BY <1>3, <1>4, <2>3, <3>1
  <2> QED
    BY <2>1, <2>2, <2>3
<1>6. Len(t2.up) <= WriteLimit /\ Len(t2.down) <= WriteLimit
  BY <1>1, <1>2, <1>3 DEF PacketsInv
<1> QED
  BY <1>5, <1>6 DEF PacketsInv

\* The packets that were written before.
LEMMA PacketsKept ==
  ASSUME NEW t, NEW n \in Nat, NEW not_sent, PacketsInv(t, n, not_sent)
  PROVE  /\ PacketsInv(t, n + 1, not_sent)
         /\ PacketsInv(t, n + 1, not_sent \cup {n + 1})
<1>1. /\ (1..n) \ not_sent \subseteq (1..(n + 1)) \ not_sent
      /\ (1..n) \ not_sent \subseteq (1..(n + 1)) \ (not_sent \cup {n + 1})
  OBVIOUS
<1> QED
  BY <1>1 DEF PacketsInv

\* ClientSend: what any connection takes is not refused.
LEMMA ClientSendSendInv ==
  ASSUME IndInv, SendInv, ClientSend
  PROVE  SendInv'
<1>1. /\ sends \in Nat /\ refused \subseteq 1..sends /\ arrived \subseteq (1..sends) \ refused
      /\ \A i \in Conn, l \in Link :
           link[i][l] \in Tcps /\ PacketsInv(link[i][l], sends, refused)
  BY Facts DEF SendInv
<1>2. /\ sends' = sends + 1 /\ arrived' = arrived
      /\ refused' = IF send_all = "none" THEN refused ELSE refused \cup {sends + 1}
      /\ link' = [i \in Conn |-> [l \in Link |->
                   IF ~ended /\ conn[i].link = l /\ send_packet(i) = "none"
                   THEN [link[i][l] EXCEPT !.up = Append(@, Unsequenced_data(sends'))]
                   ELSE link[i][l]]]
  BY DEF ClientSend
<1>3. ASSUME NEW i \in Conn, NEW l \in Link
      PROVE  PacketsInv(link'[i][l], sends + 1, refused')
  <2>1. CASE ~(~ended /\ conn[i].link = l /\ send_packet(i) = "none")
    <3>1. link'[i][l] = link[i][l]
      BY <1>2, <2>1
    <3>2. /\ PacketsInv(link[i][l], sends + 1, refused)
          /\ PacketsInv(link[i][l], sends + 1, refused \cup {sends + 1})
      BY <1>1, PacketsKept
    <3> QED
      BY <1>2, <3>1, <3>2
  <2>2. CASE ~ended /\ conn[i].link = l /\ send_packet(i) = "none"
    <3>1. refused' = refused
      BY <1>2, <2>2, TakenIsNone
    <3>2. Len(link[i][l].up) < WriteLimit
      BY <2>2, TakesWithinLimit
    <3>3. link'[i][l] = [link[i][l] EXCEPT !.up = Append(@, Unsequenced_data(sends + 1))]
      BY <1>2, <2>2
    <3>4. PacketsInv(link'[i][l], sends + 1, refused)
      BY <1>1, <3>2, <3>3, PacketTaken
    <3> QED
      BY <3>1, <3>4
  <2> QED
    BY <2>1, <2>2
<1>4. /\ refused' \subseteq 1..(sends + 1)
      /\ arrived \subseteq (1..(sends + 1)) \ refused'
  BY <1>1, <1>2
<1>5. \A i \in Conn, l \in Link : PacketsInv(link'[i][l], sends', refused')
  BY <1>2, <1>3
<1>6. sends' \in Nat /\ refused' \subseteq 1..sends' /\ arrived' \subseteq (1..sends') \ refused'
  <2>1. sends' = sends + 1 /\ arrived' = arrived
    BY <1>2
  <2> QED
    BY <1>1, <1>4, <2>1
<1> QED
  BY <1>5, <1>6 DEF SendInv

\* No queue is longer than its limit, and no message on its way was refused.
LEMMA SendInvariance == Spec => [](IndInv /\ SendInv)
<1>1. Init => IndInv /\ SendInv
  <2> SUFFICES ASSUME Init PROVE SendInv
    BY InitInv
  <2>1. /\ sends = 0 /\ refused = {} /\ arrived = {}
        /\ link = [i \in Conn |-> [l \in Link |-> NoTcp]]
    BY DEF Init
  <2>2. /\ NoTcp.up = <<>> /\ NoTcp.down = <<>> /\ WriteLimit \in Nat
    BY SessionAssumption DEF NoTcp
  <2>3. PacketsInv(NoTcp, 0, {})
    BY <2>2 DEF PacketsInv
  <2> QED
    BY <2>1, <2>3 DEF SendInv
<1>2. IndInv /\ SendInv /\ [Next]_vars => (IndInv /\ SendInv)'
  <2> SUFFICES ASSUME IndInv, SendInv, [Next]_vars
               PROVE  (IndInv /\ SendInv)'
    OBVIOUS
  <2>1. IndInv'
    BY NextInv DEF SendInv
  <2>2. CASE UNCHANGED vars
    BY <2>1, <2>2 DEF SendInv, vars, sendVars
  <2>3. CASE ClientSend
    BY <2>1, <2>3, ClientSendSendInv
  <2>4. CASE Next /\ ~ClientSend
    BY <2>1, <2>4, NoSendInv
  <2> QED
    BY <2>2, <2>3, <2>4
<1> QED
  BY <1>1, <1>2, PTL DEF Spec

\* What send_message() refused on behalf of all connections, no connection
\* sends after all: whoever repeats it never repeats what the server gets.
THEOREM RefusedIsNeverSent == Spec => []RefusedIsNotSent
<1>1. SendInv => RefusedIsNotSent
  BY DEF SendInv, RefusedIsNotSent
<1> QED
  BY <1>1, SendInvariance, PTL

\* Only TCP connections are waited for.
LEMMA LeavingTyped ==
  ASSUME IndInv, leaving \subseteq Conn \X Link, [Next]_vars
  PROVE  leaving' \subseteq Conn \X Link
<1>1. CASE UNCHANGED vars
  BY <1>1 DEF vars
<1>2. CASE ClientSend \/ Publish \/ EndSession \/ Restart
  BY <1>2 DEF ClientSend, Publish, EndSession, Restart
<1>3. CASE \E i \in Conn : ClientStep(i) \/ ClientLoses(i)
  BY <1>3 DEF ClientStep, ClientLoses, Connect, UserConnect, ClientReadsEnd, ClientLoggedIn,
     ClientDisagrees, ClientRejected, ClientReadsData, ClientReadsEndOfSession, ClientViolated
<1>4. ASSUME NEW i \in Conn, NEW l \in Link, Leaves(i, l)
      PROVE  leaving' \subseteq Conn \X Link
  BY <1>4 DEF Leaves
<1>5. ASSUME NEW i \in Conn, NEW l \in Link, LoginAccepted(i, l)
      PROVE  leaving' \subseteq Conn \X Link
  <2>1. port[i].link \in Link \cup {NoLink}
    BY Facts, RecordFields
  <2>2. \/ leaving' = leaving
        \/ port[i].link # NoLink /\ leaving' = leaving \cup {<<i, port[i].link>>}
    BY <1>5 DEF LoginAccepted
  <2> QED
    BY <2>1, <2>2
<1>6. CASE \E i \in Conn, l \in Link : ServerStep(i, l) \/ ServerLoses(i, l)
  BY <1>4, <1>5, <1>6 DEF ServerStep, ServerLoses, ServerReadsEnd, ServerReadsData, LoginRejected,
     Closed
<1>7. CASE \E i \in Conn : PortSend(i)
  BY <1>7 DEF PortSend
<1> QED
  BY <1>1, <1>2, <1>3, <1>6, <1>7 DEF Next, Fault

\* The variables have their types, and no queue ever exceeds the limit on
\* packets that wait to be written.
THEOREM TypeCorrect == Spec => []TypeOK
<1>1. IndInv /\ SendInv /\ leaving \subseteq Conn \X Link => TypeOK
  <2> SUFFICES ASSUME IndInv, SendInv, leaving \subseteq Conn \X Link PROVE TypeOK
    OBVIOUS
  <2>1. ASSUME NEW i \in Conn, NEW l \in Link
        PROVE  /\ {link[i][l].client, link[i][l].server} \subseteq EndState
               /\ Len(link[i][l].up) <= WriteLimit /\ Len(link[i][l].down) <= WriteLimit
    <3>1. link[i][l].client \in EndState /\ link[i][l].server \in EndState
      BY Facts, TcpFields
    <3>2. PacketsInv(link[i][l], sends, refused)
      BY DEF SendInv
    <3> QED
      BY <3>1, <3>2 DEF PacketsInv
  <2> QED
    BY <2>1 DEF IndInv, SendInv, TypeOK
<1>2. Init => leaving \subseteq Conn \X Link
  BY DEF Init
<1>3. IndInv /\ leaving \subseteq Conn \X Link /\ [Next]_vars => (leaving \subseteq Conn \X Link)'
  BY LeavingTyped
<1> QED
  BY <1>1, <1>2, <1>3, SendInvariance, PTL DEF Spec

=============================================================================
