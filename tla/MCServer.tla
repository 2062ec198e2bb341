------------------------------ MODULE MCServer ------------------------------
(***************************************************************************)
(* Server from the moment it listens, for what takes too many states with  *)
(* starting and stopping in between: progress, and what several            *)
(* connections do to each other through their ports.                       *)
(***************************************************************************)
EXTENDS Server, TLC

\* start() was executed and has set up the listening socket.
ListeningInit ==
  /\ started = TRUE /\ tasks = <<>>
  /\ acceptor = [open |-> TRUE, accepts |-> <<"pending">>]
  /\ live = {} /\ tcp = [c \in Conn |-> NoTcp]
  /\ port = [c \in Conn |-> NoPort] /\ connection = [p \in Ports |-> NoConn]
  /\ has_session_ended = [p \in Ports |-> FALSE]
  /\ orphaned = FALSE

ListeningSpec == ListeningInit /\ [][Next]_vars

FairListeningSpec == ListeningSpec /\ Fairness

\* Connections, and ports, are interchangeable.
Symmetry == Permutations(Conn) \cup Permutations(Ports)

\* The bounds with several connections: they end because they were rejected,
\* superseded or closed by the client (the other ends differ from these in
\* the reason only), and what a connection notes about its own traffic, which
\* no other connection can see, is left out.  With one connection all of
\* these are explored.
Bounded ==
  \A c \in live :
    /\ tcp[c].reason \in {"none", "superseded", "peer_closed", "access_denied"}
    /\ ~tcp[c].sock.write_buffer_was_full
    /\ ~tcp[c].hb.sent /\ ~tcp[c].hb.received

=============================================================================
