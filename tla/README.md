# Verification of bc::soup (SoupBinTCP client and server)

The repository is a C++ library for both sides of the SoupBinTCP session
protocol, on top of Asio. This directory models it in TLA+ — the life cycle of
connections, the sessions that run over them, the packets as bytes and as
fields, and the record file a server keeps its messages in —, checks the models
with TLC and proves part of them with TLAPS.
Paths below are relative to the repository (`PROJECT.json` prefixes them with
`src/`).

## The system

Everything runs on one executor with one thread: a completion handler, a posted
callback or a call of the application runs to its end before the next. What is
hard is the order in which they run: operations complete, timers expire and
callbacks are posted while the application closes, stops, reconnects and sends.

| part | state it keeps | operations | interacts with |
|---|---|---|---|
| `Socket` | pending connect/read/write, queue of packets, closing flags | async_connect, async_read, async_write, close | calls back its `Tcp_connection`; posts `closed()` |
| `Login_timer`, `Heartbeat_timer` | started, wait pending, stopped signalled, counters | start, stop, expiry | call back their `Tcp_connection`; post `*_stopped()` |
| `Reconnect_timer` | started, epoch | start, stop, expiry | calls back `client::Connection` |
| `Connection_state` | state, first disconnect reason | set_state, initiate_disconnect, disconnect | member of both `Tcp_connection`s |
| `client::Tcp_connection` | the above, three "done" flags | connect/read/write handlers, packets, close | owned by `client::Connection`, which drops it in `on_closed()` |
| `client::Connection` | optional `Tcp_connection`, reconnect delay, session, sequence number | connect, close, send, on_closed, reconnect | `Client`, application callbacks |
| `client::Client` | started, next sequence number | start, stop (posted), send, merging of sequenced data | its `Connection`s |
| `server::Tcp_connection` | as the client's, `port_`, `handler_` | login request, data, heartbeats, logout, supersede | `Acceptor` (owner), `Port` |
| `server::Acceptor`, `Socket_acceptor` | list of connections, accept operation, ports | start, stop, accept, on_closed | `Server`, `Port` |
| `server::Port` | `connection_`, session ended, next sequence number | on_login_request, send, end_session, on_closed | `Tcp_connection` |
| `server::Server` | started, session | start, end_session, stop (posted) | its `Acceptor`s |
| `File_store` | file, offsets | open, close, add, get, sync | used by the application, not by the library |
| packets, packing, logical packets, messages | none (values) | pack, unpack, resize, release | all of the above |
| validation | none | check of names | setters of client and server |
| errors, `expected`, examples | none | | |

What makes the parts correct:

* a `Tcp_connection` is destroyed only when no handler refers to it, and is
  always destroyed in the end once it is closed (the handlers capture raw
  pointers, so this is the property everything else rests on);
* the write queue is bounded, in order, and never left unserved;
* the peer cannot hold a connection by silence, before or after the login;
* a lost connection is retried with a capped, growing delay and a stopped or
  closed one is not; an old reconnect wait never disturbs a new one;
* a port has one session at a time and never points at a destroyed connection;
* login packets come first; a rejected client gets its rejection;
* a listening server accepts;
* the client's application is handed one session's messages, each once, in order
  and under its number, however many connections bring them and however often
  they break; and in the end all of them;
* the ends of a connection agree on where to go on, so that no login is refused
  for good;
* what a record file was given is read back, by any later process;
* bytes are taken apart into the packets they were put together from, and fields
  into the names and numbers they were written from.

The hazards behind these properties are listed, line by line, in `PROJECT.json`.

## Modules

| module | models | remarks |
|---|---|---|
| `Asio` | asynchronous operations of Asio (external) | an operation is `none`, `pending`, `cancelled` or `broken`; the possible results of its handler follow from that |
| `Socket` | `src/socket.cpp` | a socket is a record, a method an operator |
| `Timers` | `src/login_timer.cpp`, `src/heartbeat_timer.cpp`, `src/reconnect_timer.cpp` | likewise |
| `TcpConnection` | what both `Tcp_connection` classes share, with `src/connection_state.cpp` | composes a socket and two timers |
| `ClientConnection` | `client::Connection` with its `Tcp_connection`, and `Client::start/stop` | state machine; one action per handler or call |
| `Server` | one `Acceptor` with its connections and ports, `Server::start/end_session/stop` | state machine |
| `MCServer` | `Server` from the moment it listens | initial state, symmetry and bounds for `server_ports` and `server_progress` |
| `Session`, `MCSession` | `client::Client` with its `Connection`s and the `server::Port`s they log in to, over TCP connections: sequence numbers, sessions, merging, sending, end of session, restarts | state machine; an end of a connection is closed, connected or logged in |
| `Feed` | what a client's application is promised | abstract; implemented by `Session` |
| `FileStore`, `MCFileStore` | `src/file_store.cpp` on a file, with failures and crashes | state machine |
| `MessageLog` | what the user of a `File_store` is promised | abstract; implemented by `FileStore` |
| `Framing` | `src/rw_packets.cpp`, the messages' payloads, header and payload as read by `Socket` | bytes |
| `Login`, `MCLogin` | `src/validate.cpp`, `src/packing.cpp`, `src/logical_packets.cpp` and the checks of both sides of a login | characters |
| `TcpConnection_proof`, `ClientConnection_proof`, `Server_proof`, `Session_proof`, `SessionLogins_proof`, `Framing_proof`, `FileStore_proof`, `Login_proof` | lemmas and theorems | see *Proofs* |

Operators in `snake_case` have the name of the C++ method they translate; actions
and properties are in `CamelCase`. A definition commented *Faulty* is a
plausible bug, used to show that a property can fail (`mutants` in
`PROJECT.json`); nothing else uses it.

**Handlers.** An action models a whole handler: clearing the pending flag, the
callback into the `Tcp_connection` and everything that does, and the trailing
`maybe_signal_closed()` / `maybe_signal_stopped()`. Posted callbacks (`closed()`,
`*_timer_stopped()`, `start()`, `stop()`) are `posted` flags or the `tasks`
sequence.

**Asio.** Cancelling or closing does not change the result of an operation that
has already completed, so a `cancelled` operation may still report success or
an error: this is where most of the hard interleavings come from. An operation
started on a closed socket is `broken` and reports an error other than
`operation_aborted`. The order in which the executor runs unrelated handlers is
left open (Asio's queue is first-in first-out, so the models allow more orders
than Asio does; tasks posted by one caller do stay in order).

**Abstractions.** Packets that are written are told apart as the login packet, those the
client's application sends inside the callbacks before it (`early`), and any other; a
received packet is any of those the code distinguishes, valid or not. The
heartbeat counters are represented by whether they are zero, time by the
expiry of timers, the silent time by a number of heartbeat periods. In
`ClientConnection` and `Server` the verdict on an accepted login
(`on_login_success`) and on a login request is any of its outcomes. `Session`
settles it from sequence numbers and sessions, with each end of a connection
reduced to three states and without timers and handlers, except that a server end that is
closed is `leaving` until its port is told (`Closed`); `Login` settles it from
the characters of names and passwords. So the life of a connection is checked
for whatever the verdict is, and the verdict for whatever life the connection
has.

**TCP connections** (`Session`). A link has two ends, which notice its loss at
different times, and two queues. What an end had written when it left may be
lost from some packet on, never in the middle; what it has not read is lost. A
client connection may have several links at a time, all but one of them left by
the client and not yet by the server: that is where late logins, superseding and
stale `on_closed()` calls come from. What stands for a link is free for another one when both
ends are closed and the port has been told (`Free`).

**The server's application** (`Session`). The library does not keep messages, and
what a client is handed depends on what the application sends when a port goes
back. The module takes it to do what `Port::next_sequence_number()` is there for:
keep a log for each session, send message *n* when the port's number is *n*,
set the ports of a restarted server to the end of its log, and not
reopen a session it ended. Each client connection has an endpoint and a port of
its own: `add_connection()` refuses an endpoint that another connection has.

**The file** (`FileStore`) is a sequence of bytes. Each call may fail; a write may
stop, by failure or by the death of the process, after any byte. A loss of power takes some
or all of what is behind what was synced, from a byte on: it truncates. That blocks behind the
synced part may also come back as zeros or in another order is left out. `open()` ignores
a failure of its first, read-only `::open()`, and if the second one succeeds the store is open
without the offsets of what the file holds: `OpenUnread`, which sets `unread`. Bytes have two
values in the runs, so that sizes need both bytes and messages may look like sizes.

**Characters** (`Login`) are digits, a letter, the space and another; the lengths of
fields, the base and the range of integers are constants, related as the
`static_assert` in `pack_numeric()` demands.

**Callbacks into the application.** A callback that does nothing is part of the
handler. Of the calls the application may make inside a callback these are modelled,
each switched on by a constant:

| callback | calls | constant |
|---|---|---|
| client `connect_success`, `logging_in` | `close()`; `send_debug()`, up to once in each | `CallbackCalls` |
| client `login_success` | `close()` | `CallbackCalls` |
| client `disconnect`, `reconnect_scheduled` | `connect()`, `close()` | `CallbackCalls` |
| server `login_success` | sending: one packet in `Server`, as many messages as the queue takes in `Session` | `CallbackSends` |

`start()`, `stop()` and the server's `end_session()` are posted, inside a callback as outside.
Not modelled are: calls inside the callbacks of a constructor that runs within
`connect()` or the reconnect timer's expiry (`connecting`, `connect_failure` and `disconnect`
of a socket that cannot be opened), sends inside the client's `login_success`, `disconnect`
and data callbacks, sends in the server's callbacks other than `login_success`, and `close()` or
`send_logout_request()` inside a data callback. Most of them do what the same call does just
after the handler, and that one is modelled; that this is so for all of them is not claimed.

**Refinement.** In `Feed` a client joins one session and
then receives that session's messages one by one. `Session` implements it
(`ImplementsFeed`) under the identity on `count`, `joined`, `next` and `got`, of which
the first is the application's log, the last and `joined` are history. `MessageLog` is a log that
grows, is read by range, and of which what was synced survives; `FileStore`
implements it (`ImplementsLog`) with `log` mapped to `added`, the messages added before
anything failed (`ends` are the places where their records end in the file, from which a loss
of power tells how many are left).

**History variables.** `unread` of `FileStore` (an open store whose file was not read), `orphaned` (a connection was destroyed although it owed a
handler), `given_up` (nothing asks for another attempt), those of `Session` and `FileStore` marked
as history, and `sent` and `received` of `Framing` are never read by an action's guard,
except that `Framing` counts what was sent to stop at `MaxPackets`, and `Session` to stop
at `MaxSends`.

## Runs

| run | shows |
|---|---|
| `client_safety` | 1.2 million states. With timer faults, `close()` and `send_debug()` in callbacks, full queues and stale reconnect waits: `NoOrphans`, `ReconnectOnlyWhenDropped`, `WriteQueueServed`, `LoginRequestFirst`, `NoForgottenRetry`, `NoAttemptWhenStopped` |
| `client_progress` | 0.1 million states. With `send_debug()` in callbacks, which may take the login request's place in the queue: `NeverStranded`, and under fairness: a closed connection is dropped, stopping drops the connection, the login and the silence of the peer are bounded, a loss is retried |
| `server_connection` | 1.3 million states. One connection, with starts and stops in any order, end of session, timer faults, sends in `login_success` and up to two accept operations outstanding: `NoOrphans`, `RejectIsWaitedFor`, `NeverStranded`, and `NeverDeaf`, a listening server never stops accepting |
| `server_ports` | Two connections and two ports: `PortPointsToLive`, `OneSessionPerPort`, in particular when a superseded connection is dropped after its successor logged in |
| `server_progress` | Under fairness: a closed connection is dropped; a client that does not log in, or falls silent, is got rid of. `LoginResponseFirst`: what the application sends does not get ahead of the login response |
| `session_reconnect` | 0.3 million states. One client connection, two links, two sessions, restarts, sends inside `login_success`, superseded connections whose `on_closed()` comes late: `ImplementsFeed`; `LoginsAgree`, with the one exception it names; `NoViolation`, with the one exception it names; `EndAfterData`; and under fairness, once nothing breaks any more, `Delivered`: every published message is handed over |
| `session_merge` | 1.6 million states. Two connections bring one session: `ImplementsFeed`; `NeverAhead`, the assertion in `Client::on_sequenced_data()`; `RefusedIsNotSent`, the single result of sending over two connections |
| `file_store` | 1.2 million states. `ReadBack`, `CountsMessages`, `ImplementsLog` |
| `framing` | `Framed` for payloads up to the largest of which the size fits |
| `login` | 1.1 million states. `ValidIffCarried`, `AcceptedIffAgreed`, `ReadsAnything`, over all strings up to one character longer than a field, with peers that send anything |
| `client_connect_in_callback` | *violation*: `connect()` in the disconnect callback |
| `server_banner` | *violation*: a banner in flight when the login is rejected |

### What the violations show

* `client_connect_in_callback`. `on_closed()` resets the `Tcp_connection`, makes
  the disconnect callback and schedules a reconnect. A `connect()` in the
  callback puts a new `Tcp_connection` in place, over which the reconnect timer
  emplaces the next one, while its connect handler is outstanding.
* `server_banner`. The comment on the rejection of a login says that it "should
  not fail since first packet sent", but a banner precedes it. When the banner's
  write completes after the rejection was queued, `write_success()` disconnects
  for it: `closed()` is posted while nothing is pending, and `packet_sent()` then
  starts the rejection's write on the closed socket. If the login timer has
  already reported, which Asio's first-in first-out order permits when the
  banner's write takes longer than the cancelled login wait, `closed()` destroys
  the connection before that write's handler runs.

### Where the passing runs end

Behaviour of the code that the properties above are stated around, each of which
TLC shows in a step or two from the configuration named:

* A closed connection that connects. If `close()` runs while the handler of a
  successful connect is queued, `connect_success()` takes the connection back to
  `connected`, and the write of the login request is refused because the socket is
  closing, although the comment there says it "should not fail since first packet
  sent". The connection then waits for the login timer. It is in all client runs;
  nothing is orphaned and the connection is dropped in the end.
* A debug packet before the login request. `connect_success()` makes its two callbacks in
  state `connected` before it queues the login request, so `send_debug()` is accepted there
  and goes first; with a full queue the login request is refused and the failure discarded,
  although the comment there says it "should not fail since first packet sent". Then
  nobody logs in and the login timer ends the connection. `client_safety` and
  `client_progress` contain it; `LoginRequestFirst` says that nothing else precedes.
* A message before Login Accepted. The server's `login_success` callback is made in state
  `logged_in` before the response is queued, so a message sent there comes
  first, and the client answers it with a protocol violation, which is not retried. With
  `CallbackSends` TRUE `LoginResponseFirst` fails; `server_progress` has it FALSE.
  `session_reconnect` has it TRUE, and `NoViolation` names it as the one case.
* A file that could not be read. After a failure of the first `::open()` in `open()`, for want
  of descriptors say, that the second one does not share, a `File_store` on a file with
  records counts none, and numbers what it adds from 1 on. `ReadBack`,
  `CountsMessages` and `MessageLog` except it (`unread`); the file is unharmed and the next
  `open()` finds everything, what was added meanwhile included.
* A `File_store` opened a second time. `open()` adds the offsets it finds to those
  there are, which neither `close()` nor a failed `open()` clears: every record is
  counted twice, and the server that takes its next sequence number from the store
  goes on in the wrong place. With `Reopens` TRUE `CountsMessages` fails;
  `file_store` has it FALSE.
* The longest payload. The size of a packet is one more than that of its payload
  and is computed in 16 bits, so that the longest payload (65535 bytes; 3 where
  bytes have two values) makes it 0: the packet that is sent has two bytes and its
  header is malformed. With `MaxPayload` 3 `Framed` fails; `framing` has 2.

`LoginsAgree` holds with an exception that is worth knowing: a client that gives up a
login (a time-out, `close()`) while its request is on the way, and logs in again,
may find the port moved back by the old request and be refused for good
(`sequence_number_too_low` is not retried).

### Bounds

`WriteLimit` 1 or 2 (an empty, a partly filled and a full queue; a packet behind
another), `HeartbeatTimeout` 2 or 3 periods (a silent period that is and one
that is not the last), delays 1, 2, 3 with a multiplier of 2 (growing and
capped), `MaxTasks` 1 (tasks interleave with everything else; longer sequences
of starts and stops arise over time), `MaxStale` 1 (one reconnect wait of an
earlier epoch; `FewStale` delays making another). One `client::Connection` and
one `Acceptor`: they share nothing with others but `started_` and what
`Session` is about. `server_ports` takes two connections, the least
that can compete, and is bounded by `MCServer!Bounded` to the ends and flags
that matter to the other connection. The number of connections at a time is the number of elements of
`Conn`. `MaxAccepts` bounds the accept operations outstanding: 2, as
one of an earlier run may end after the start of the next.

`Session`: two links (a connection and the one it replaces), two messages in a
session (a gap, a repetition and a wrong order need two), two sessions in
`session_reconnect` (another session at the same port; `MCSession!FewInSecond` has one message
in the second), queues of one or two
packets (a partly filled and a full one; filled by `login_success` before the response, or not),
first numbers 0 and 1 (learnt from the
server, and given). Two client connections in `session_merge`,
the least that can disagree, with one link each and in one session, without sends inside
`login_success` (`session_reconnect` has them), where
`MCSession!Bounded` has the client send only while no message is published (sending
looks at the connections' states and the queues to the server only): without a configured
session the two may join different ones across a restart (see the hazards).

`FileStore`: files of up to 4 bytes before the last addition and 9 after it, which is a torn record
with whole ones before and behind it; messages of 0, 1 and 3 bytes. `Framing`: two
packets, the least that can be confused with each other, of all payloads up to 2
bytes. `Login`: fields of 1 to 3 characters, all strings up to 3; a base of 3 with
integers up to 19, so that a field of digits may exceed them, as 20 digits may 2^64.

### Fairness

Assumed: a cancelled operation, or one started on a closed socket, completes;
timers expire; a connect succeeds or fails (the operating system's time-out);
what was posted is executed. All of these are promises of Asio and of a running
`io_context`. Not assumed: that a read, a write or an accept completes, that
the peer does anything, or that the application calls anything. So a server
connection that was rejected, which only waits for its write, has no liveness
property: `RejectIsWaitedFor` shows what it waits for.

`session_reconnect` assumes, for `Delivered`, that both ends read, answer and send, that a connection which
is to reconnect does in the end, and that the application sends what it has in its
log: on top of the above, that packets on a connection that does not break arrive. It
concludes from `Calm` — from some time on nothing breaks and nobody closes, ends or
restarts; the client has not given its connection up and the session is not ended — that
`Feed`'s `Receive` is fair.

`client_progress` has `send_debug()`, but no `close()` inside callbacks: with one, a timer is started
on a connection that is already disconnected and its expiry does nothing, so
`NeverStranded` and `ClosedLeadsToDropped` do not hold (see the hazards).

## Proofs

TLAPS proves every safety property that a run checks, and both refinements, for every value of the constants that the modules' named assumptions and
the hypotheses below allow. A theorem says what a run cannot: any number of
connections, links, ports, sessions, messages and packets, queues of any limit, payloads,
files, names and numbers of any length. Each theorem's property was checked by TLC in a run of the same
module first, under constants that satisfy the theorem's hypotheses.

| module | theorem (property) | hypotheses |
|---|---|---|
| `ClientConnection_proof` | `TypeCorrect` (`TypeOK`), `OrphanFree` (`NoOrphans`), `ReconnectSafe` (`ReconnectOnlyWhenDropped`), `RetryNotForgotten` (`NoForgottenRetry`), `StoppedMakesNoAttempt` (`NoAttemptWhenStopped`), `QueueServed` (`WriteQueueServed`), `LoginRequestLeads` (`LoginRequestFirst`) | `"connect" \notin CallbackCalls` |
| | `NotStranded` (`NeverStranded`) | `CallbackCalls \subseteq {"send_debug"}` |
| `Server_proof` | `AlwaysAccepting` (`NeverDeaf`) | none |
| | `ServerOrphanFree` (`NoOrphans`), `PortsPointToLive` (`PortPointsToLive`), `OneSession` (`OneSessionPerPort`), `RejectionUnderWay` (`RejectIsWaitedFor`), `TypeCorrect` (`TypeOK`), `NotStranded` (`NeverStranded`) | `~Banner`, `WriteLimit # 0` |
| | `LoginResponseLeads` (`LoginResponseFirst`) | these and `~CallbackSends` |
| `Session_proof` | `TypeCorrect` (`TypeOK`), `NeverAheadOfClient` (`NeverAhead`), `EndFollowsData` (`EndAfterData`), `ProtocolKept` (`NoViolation`), `RefusedIsNeverSent` (`RefusedIsNotSent`) | none |
| | `FeedImplemented` (`ImplementsFeed`) | `OneFeed`: one connection, or one session |
| `SessionLogins_proof` | `LoginsDoAgree` (`LoginsAgree`) | one connection, `StartNext \subseteq {0, 1}` |
| `Framing_proof` | `PacketsFramed` (`Framed`) | `SizeFits`: `MaxPayload + 1 < B * B` |
| `FileStore_proof` | `ReadsAlways` (`ReadBack`), `CountIsRight` (`CountsMessages`), `LogImplemented` (`ImplementsLog`) | `~Reopens` |
| `Login_proof` | `ValidMeansCarried` (`ValidIffCarried`), `AcceptedMeansAgreed` (`AcceptedIffAgreed`), `AnythingIsRead` (`ReadsAnything`) | none |

What the hypotheses leave out is what the code does not keep: `connect()` in the
`disconnect` or `reconnect_scheduled` callback (`client_connect_in_callback`), a banner
(`server_banner`), sending in `login_success`, the longest payload and a `File_store` opened twice (*Where the passing
runs end*). What is an exception in a property's own words — early debug packets in
`LoginRequestFirst`, data sent in `login_success` in `NoViolation`, a late login in `LoginsAgree`,
a file that was not read in `ReadBack`, `CountsMessages` and `MessageLog` — needs no hypothesis
and is proved with it. `close()` inside a callback is allowed but for the client's `NotStranded`: there
it leaves a timer running on a connection that is disconnected already. With a write limit
of 0 nothing can be sent, and a rejected connection has no write to wait for. Two
connections of a client without a configured session may join different sessions across
a restart, and are then merged into no one feed: hence `OneFeed`. A port
may be behind what another connection brought, or behind the number the application chose, and a
login there is refused: hence the hypotheses of `LoginsDoAgree`.

### The connections

`NoOrphans` is not inductive. A connection is dropped when its three flags are
set, and that this implies that nothing is owed is the content of
`ShutdownInv` in `TcpConnection_proof`: `closed()` is posted only by a socket that
is closing and idle and stays so (`SocketInv`), `*_stopped()` only by a timer that is
stopped and not waiting (`TimerInv`), a flag is set only after the post was executed
(`FlagsInv`), and a timer that a later handler will start has never been started
(`StartInv`), which is why the flags' initial value "stopped" is sound. The client's
inductive invariant is `IndInv == TypeOK /\ ShutdownInv(tcp) /\
ReconnectOnlyWhenDropped /\ NoOrphans`; `ReconnectOnlyWhenDropped` is needed because the
expiry of the reconnect timer emplaces without looking. `TcpConnection_proof` shows for
every operator of `Socket`, `Timers` and `TcpConnection` that it preserves `ShutdownInv`;
these lemmas do not depend on the client and carry the server's proof as well.
`ClientConnection_proof` has one step per action.

On the server `ShutdownInv` alone does not give `NoOrphans`: `PacketSent` closes a connection
that is `disconnecting` inside the write handler, with no write pending, so that
`closed()` may be posted, and then `packet_sent()` starts the next packet of the queue,
if there is one. `Quiet` rules it out: before its login is answered a connection has
nothing to write, and from then on a rejected one has exactly its rejection, under way,
and a heartbeat timer that was never started and so cannot write either. That nothing
is written to a connection before its login holds because ports write to their own
connections only, so the invariant also carries the two properties of the ports and
`PortInv`: a connection with a port is logged in or closed, and one that is not live is
new and has no port. `IndInv` is their conjunction. `Follows(c, d)` is what any handler
but the login may make of a connection; each operator is shown to satisfy it, and
`FollowsInv` lifts that to the invariant. The three steps that move pointers
(`Accepted`, `LoginAccepted` with the connection it supersedes, and the last report) are
proved for themselves.

On top of these come, on both sides, `QueueInv` (the queue is within its limit, is being
written while the socket is open, and has the login packet, if at all, behind nothing but
packets sent early) and
`Lively` with `EngagedUnderway` and `LivesInv` (a connection that is still to do something
has an operation, a wait or a posted call under way that does it; each operator of
`TcpConnection` either leaves that as it is or posts what is missing), and on the
server's `AcceptorInv` (a closed listening socket accepts nothing) and
`SessionType`.

### The sessions

`Session_proof` follows the packets on the links. `Follows(q, s, n, ...)` says of a queue
`q` on the way to a client in session `s` with next number `n` that its data packets are the
messages from `n` on, one by one, that an end of session comes last and behind the final
message, and that what the port sends next continues them. `Current` says the same of a
link from the state of its two ends — a response still to be sent, on the way, or read, or data sent in `login_success` before it
(`Doomed`), which the client is yet to find — and `PairInv` relates the links, the port and the connection of one endpoint: only the
port's link is written to, only the connection's link is read from, and the connection is
not ahead of the client. `IndInv` is their conjunction with the types (`TcpInv`). `JoinInv`
adds that a connection that has a session has the one the client joined, which gives the refinement of `Feed` step by step: a message that is handed over is
`Receive`, a first login is `Join`, the application's log is `Publish`, all else stutters.
`SendInv` says that no message that was refused is on a link or has arrived; any step but
the client's sending leaves only packets on a link that were there, or a login request, and
keeps the queues within their limit (`Moves`).

`AgreeInv` in `SessionLogins_proof` says that, unless the port has accepted a request that
the client had given up, the port is not behind the client while both are in one session, nor
behind a request or a response that is on its way (`Agrees`); and that the one connection is in
the client's session and has the client's number.

### The bytes

`Framing` has no state from which the bytes on their way could be told apart, so the
inductive invariant asserts that there is a sequence `all` of every byte ever written and a
sequence `at` of the places where packets end, such that each packet sent lies
between its two places (`Written`), and that what the receiver holds, header and stream, is
what `all` has from the place of the last packet received on (`ReceiverInv`). Reading then
takes from `all` what was put there, however the stream is cut; the size of two bytes
is read as it was written because it fits (`PackFits`).

`FileStore_proof` asserts that the file begins with the records of `added`, of which `ends`
says where each ends (`LogInv`), that an open store's offsets begin with theirs and are no
others unless an addition failed (`OffsetsInv`), and that what was synced covers the durable
messages (`DurableInv`). Adding continues the log (`LogGrows`), a torn record leaves it as
it is (`LogKept`), a loss of power cuts it behind a record (`LogCut`). `set_offsets()` and
`get()` are recursive functions. The induction theorems of the library take an operator as
a parameter, which the provers cannot instantiate; `Induction` and `Recursion`
state induction and definition by recursion for sets and functions instead and are proved
from the well-foundedness of the naturals, which yields that the two functions exist and
satisfy their equations (`OffsetsFrom`, `ReadPosition`). Then `FoundInOrder` and
`StandsAtRecord` show by induction that opening finds, and reading stands at, the
beginnings of the records.

### The login

The invariant `LoginInv` of `Login_proof` says that what is configured are names (strings of
letters and digits that fit), and that the request, what was read from it, the response
and the outcome are each what the operators make of the one before; the theorems then
rest on what the operators do. `RightPadded` and `LeftPadded`: a field has its length,
whatever is read from it is a name, and it is the string that was packed exactly if
that was a name. `WrittenNumber`: after `k` of the `n` digits of `i` the loop of
`unpack_numeric()` has `i \div power[n - k]`, which is in range, so that nothing
wraps. `ReadNumber`: whatever a field holds, the loop gives what its last digits denote,
modulo the range; `denoted` sums what each digit counts, from the last on, and
`ReadAndSum` relates the two directions. `Layout` puts the four fields one behind the other.
`power`, the loop and the sum are recursive functions; `StepsExist` and `StepsHold` show by
induction that there are functions that satisfy such equations and that what is
defined by them does, and `Division`, `DivisionUnique`, `DivideTwice` and `RemainderOf`
are the arithmetic. Of base, range and length the proofs use only what the `static_assert` of
`pack_numeric()` says (`LoginAssumption`): `digits10 + 1` is the length of the field.

### Only model-checked

All liveness — `Delivered`, and of `client_progress` and `server_progress`
`ClosedLeadsToDropped`, `StopLeadsToDropped`, `LoginIsBounded`, `SilentPeerIsDropped`,
`SilentClientIsDropped` and `LossIsRetried` —, since fairness and `ENABLED`
are beyond the prover. What the two runs that expect a violation show is shown by TLC's
counterexamples.

## Plan

Sessions of two connections with different sessions across a restart, as a
run of its own, if the application's contract for it becomes clear.

Not modelled, and not planned: the example programs, whose callbacks print a line each
and whose main threads sleep between the calls they make; `expected`, error codes and
`to_string`, which have no state and no arithmetic; moving and cloning of packets,
messages and stores, which keep the bytes; and the build.
