----------------------------- MODULE MCSession ------------------------------
(***************************************************************************)
(* Session for model checking: TCP connections are interchangeable, and so *)
(* are the connections of a client.  Symmetry is not for the liveness      *)
(* properties.                                                             *)
(***************************************************************************)
EXTENDS Session

Symmetry == Permutations(Conn) \cup Permutations(Link)

\* The bound on what the two directions do at a time: sending looks only at
\* the states of the connections and at the queues to the server, none of which
\* a message of the server changes, so that the client sends in a session
\* without any.
Bounded == sends = 0 \/ \A s \in Sessions : count[s] = 0

\* The bound on the second session: one message, which is enough for another
\* feed to be mixed up with the first.
FewInSecond == \A s \in Sessions \ {1} : count'[s] <= 1

=============================================================================
