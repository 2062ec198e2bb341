------------------------------- MODULE Socket -------------------------------
(***************************************************************************)
(* bc::soup::Socket: one connect, one read and one write operation at a    *)
(* time, a bounded queue of packets to write, and the protocol by which    *)
(* closed() is posted exactly once, when no handler refers to the socket   *)
(* any more.  A socket is a record, a method an operator from the socket   *)
(* before the call to the socket after it; the callbacks to                *)
(* Socket::Handler are made by the modules that own a socket.              *)
(***************************************************************************)
EXTENDS Asio, Naturals, Sequences

CONSTANT WriteLimit \* write_packets_limit_

ASSUME WriteLimitAssumption == WriteLimit \in Nat

\* A packet to write: the login request or response, a debug packet that was
\* sent inside the client's connect_success() callbacks, or any other packet.
PacketKind == {"login", "early", "other"}

Write_error == {"none", "disconnected", "not_logged_in", "buffer_full"}

Sockets == [connect         : OpStatus,          \* connect_pending_
            read            : OpStatus,          \* read_pending_
            part            : {"header", "payload"},
            write           : OpStatus,          \* write_pending_
            write_packets   : Seq(PacketKind),
            write_buffer_was_full : BOOLEAN,
            closing         : BOOLEAN,
            closed_signaled : BOOLEAN,
            posted          : BOOLEAN]           \* closed() is in the queue of the executor

NewSocket == [connect |-> "none", read |-> "none", part |-> "header",
              write |-> "none", write_packets |-> <<>>,
              write_buffer_was_full |-> FALSE, closing |-> FALSE,
              closed_signaled |-> FALSE, posted |-> FALSE]

is_idle(s) == s.connect = "none" /\ s.read = "none" /\ s.write = "none"

\* Faulty: closed() is posted without waiting for the handlers.
signal_closed_at_once(s) ==
  IF s.closing /\ ~s.closed_signaled
  THEN [s EXCEPT !.closed_signaled = TRUE, !.posted = TRUE]
  ELSE s

socket_maybe_signal_closed(s) ==
  IF s.closing /\ ~s.closed_signaled /\ is_idle(s)
  THEN [s EXCEPT !.closed_signaled = TRUE, !.posted = TRUE]
  ELSE s

socket_close(s) ==
  socket_maybe_signal_closed(
    [s EXCEPT !.closing = TRUE, !.connect = cancel(@),
              !.read = cancel(@), !.write = cancel(@)])

\* An operation started after close() fails: the descriptor is gone.
StartOp(s) == IF s.closing THEN "broken" ELSE "pending"

async_connect(s) == IF s.closing THEN s ELSE [s EXCEPT !.connect = StartOp(s)]

read_header(s) == [s EXCEPT !.read = StartOp(s), !.part = "header"]

read_payload(s) == [s EXCEPT !.read = StartOp(s), !.part = "payload"]

async_read(s) == IF s.closing THEN s ELSE read_header(s)

write_packet(s) == [s EXCEPT !.write = StartOp(s)]

\* Faulty: one packet too many.
async_write_error_late(s) ==
  CASE s.closing                                       -> "disconnected"
    [] ~s.closing /\ Len(s.write_packets) > WriteLimit -> "buffer_full"
    [] OTHER                                           -> "none"

\* What async_write returns, and what it does.
async_write_error(s) ==
  CASE s.closing                                       -> "disconnected"
    [] ~s.closing /\ Len(s.write_packets) = WriteLimit -> "buffer_full"
    [] OTHER                                           -> "none"

async_write(s, packet) ==
  CASE async_write_error(s) = "disconnected" -> s
    [] async_write_error(s) = "buffer_full"  -> [s EXCEPT !.write_buffer_was_full = TRUE]
    [] OTHER ->
         LET t == [s EXCEPT !.write_packets = Append(@, packet)]
         IN  IF s.write_packets = <<>> THEN write_packet(t) ELSE t

\* Faulty: the rest of the queue is not started.
packet_sent_last(s) == [s EXCEPT !.write_packets = Tail(@), !.write_buffer_was_full = FALSE]

\* packet_sent after the write_success callback: the packet leaves the queue
\* and the next one is started, without looking at closing_.
packet_sent(s) ==
  LET t == [s EXCEPT !.write_packets = Tail(@)]
  IN  IF t.write_packets # <<>> THEN write_packet(t)
                                ELSE [t EXCEPT !.write_buffer_was_full = FALSE]

=============================================================================
