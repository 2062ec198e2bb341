-------------------------------- MODULE Feed --------------------------------
(***************************************************************************)
(* What the library promises the application of a client: it joins one     *)
(* session, and from the number it starts with is handed every message the *)
(* server's application published in that session, once, in order and      *)
(* under its own number, whatever happens to connections, to the server's  *)
(* process and to later sessions.                                          *)
(***************************************************************************)
EXTENDS Naturals

CONSTANTS
  Sessions,  \* the sessions a server may open
  NoSession, \* none joined yet
  NoMessage, \* none handed over yet
  StartNext  \* the sequence numbers a client may be configured with

VARIABLES
  count,     \* how many messages were published, by session
  joined,    \* the session the client is in
  next,      \* the number of the message it is handed next; 0: to be learnt
  got        \* the message it was handed last

vars == <<count, joined, next, got>>

Init ==
  /\ count = [s \in Sessions |-> 0] /\ joined = NoSession
  /\ next \in StartNext /\ got = NoMessage

Publish(s) ==
  /\ count' = [count EXCEPT ![s] = @ + 1]
  /\ UNCHANGED <<joined, next, got>>

\* A client that has no number starts where the session is.
Join(s, n) ==
  /\ joined = NoSession /\ joined' = s
  /\ n \in 1..(count[s] + 1)
  /\ next' = IF next = 0 THEN n ELSE next
  /\ UNCHANGED <<count, got>>

Receive ==
  /\ joined # NoSession /\ next \in 1..count[joined]
  /\ got' = <<joined, next>> /\ next' = next + 1
  /\ UNCHANGED <<count, joined>>

Next ==
  \/ \E s \in Sessions : Publish(s) \/ \E n \in 1..(count[s] + 1) : Join(s, n)
  \/ Receive

Spec == Init /\ [][Next]_vars

\* A message that was published is handed over in the end.
Progress == WF_vars(Receive)

=============================================================================
