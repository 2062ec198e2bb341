------------------------------- MODULE Login --------------------------------
(***************************************************************************)
(* A login, from the strings an application configures to the reason it is *)
(* told: validation, the padded fields of the login packets, the check of  *)
(* user name, password and session against a port, and the response.       *)
(* Client and server may each be this library or something else, of which  *)
(* the packets are arbitrary characters in packets of the right length.    *)
(*                                                                         *)
(* A character is a number: a digit is its value, one letter stands for    *)
(* the letters, and there are the space and one other character.  Lengths, *)
(* the base and the range of integers are scaled down; what relates them   *)
(* is the static_assert of pack_numeric().                                 *)
(***************************************************************************)
EXTENDS Naturals, Sequences, SequencesExt

CONSTANTS
  base,                   \* 10 in the code
  max,                    \* integers are 0..(max - 1): 2^64 in the code
  username_length, password_length, session_length, sequence_number_length,
  Strings,                \* strings an application may configure
  Numbers,                \* next sequence numbers
  Servers,                \* configurations of the server
  ForeignRequests,        \* payloads of login requests of other clients
  ForeignResponses        \* responses of other servers

Letter == base
Space  == base + 1
Other  == base + 2
Chars  == 0..Other

\* The powers of the base.
power[n \in 0..sequence_number_length] == IF n = 0 THEN 1 ELSE base * power[n - 1]

\* digits10 + 1 is the number of digits of the largest integer.
ASSUME LoginAssumption ==
  /\ base \in Nat \ {0, 1} /\ max \in Nat \ {0}
  /\ {username_length, password_length, session_length} \subseteq Nat
  /\ sequence_number_length \in Nat \ {0}
  /\ power[sequence_number_length - 1] < max /\ max <= power[sequence_number_length]
  /\ Strings \subseteq Seq(Chars) /\ Numbers \subseteq 0..(max - 1)
  /\ Servers \subseteq [username : Strings, password : Strings, session : Strings, next : Numbers]
  /\ \A p \in ForeignRequests :
       /\ p \in Seq(Chars)
       /\ Len(p) = username_length + password_length + session_length + sequence_number_length

VARIABLES
  stage,    \* what happens next
  offered,  \* the string offered to a setter last, and what it returned
  client,   \* what the client is configured with
  server,   \* what the port and the server are configured with
  library,  \* whether each side is this library
  request,  \* the payload of the login request
  read,     \* the login request as the server has read it
  response, \* the type and the payload of the response
  outcome   \* what the client makes of it

vars == <<stage, offered, client, server, library, request, read, response, outcome>>

-----------------------------------------------------------------------------
\* Validation.

isdigit(c) == c < base
isalnum(c) == c <= Letter

\* Faulty: any string that fits is valid.
validate_length(s, length) == IF Len(s) > length THEN "too_long" ELSE "none"

\* validate_username(), validate_password() and validate_session()
validate(s, length) ==
  CASE Len(s) > length                                           -> "too_long"
    [] Len(s) <= length /\ \E i \in 1..Len(s) : ~isalnum(s[i])    -> "invalid"
    [] OTHER                                                      -> "none"

-----------------------------------------------------------------------------
\* Packing of strings: a string is cut to the length of the field, then to the
\* alphanumeric characters it begins with (right-padded fields) or ends with
\* (left-padded fields).

padding(n) == [i \in 1..n |-> Space]

truncated(s, length) == IF Len(s) > length THEN SubSeq(s, 1, length) ELSE s

alphanumeric_prefix(s) ==
  LET i == SelectInSeq(s, LAMBDA c : ~isalnum(c))
  IN  IF i = 0 THEN s ELSE SubSeq(s, 1, i - 1)

alphanumeric_suffix(s) ==
  SubSeq(s, SelectLastInSeq(s, LAMBDA c : ~isalnum(c)) + 1, Len(s))

\* User name and password.
pack_right_padded(s, length) ==
  LET t == alphanumeric_prefix(truncated(s, length))
  IN  t \o padding(length - Len(t))

unpack_right_padded(field) == alphanumeric_prefix(field)

\* Session.
pack_left_padded(s, length) ==
  LET t == alphanumeric_suffix(truncated(s, length))
  IN  padding(length - Len(t)) \o t

unpack_left_padded(field) == alphanumeric_suffix(field)

-----------------------------------------------------------------------------
\* Packing of sequence numbers: digits, padded on the left; zero has one.

number_of_digits(i) ==
  CHOOSE n \in 1..sequence_number_length :
    /\ i < power[n]
    /\ n = 1 \/ i >= power[n - 1]

pack_sequence_number(i) ==
  LET n == number_of_digits(i)
  IN  padding(sequence_number_length - n)
        \o [k \in 1..n |-> (i \div power[n - k]) % base]

digit_suffix(field) ==
  SubSeq(field, SelectLastInSeq(field, LAMBDA c : ~isdigit(c)) + 1, Len(field))

\* The digits are read from the first on; the arithmetic of std::uint64_t wraps.
integer(digits) ==
  LET i[k \in 0..Len(digits)] ==
        IF k = 0 THEN 0 ELSE (i[k - 1] * base + digits[k]) % max
  IN  i[Len(digits)]

\* Faulty: every character is taken for a digit.
unpack_number_prefix(field) == integer([k \in 1..Len(field) |-> field[k] % base])

unpack_sequence_number(field) == integer(digit_suffix(field))

-----------------------------------------------------------------------------
\* The layout of the login packets.

write_request(p) ==
  pack_right_padded(p.username, username_length)
    \o pack_right_padded(p.password, password_length)
    \o pack_left_padded(p.session, session_length)
    \o pack_sequence_number(p.next)

read_request(payload) ==
  LET password == username_length
      session  == password + password_length
      number   == session + session_length
  IN  [username |-> unpack_right_padded(SubSeq(payload, 1, password)),
       password |-> unpack_right_padded(SubSeq(payload, password + 1, session)),
       session  |-> unpack_left_padded(SubSeq(payload, session + 1, number)),
       next     |-> unpack_sequence_number(SubSeq(payload, number + 1, Len(payload)))]

write_accepted(session, number) ==
  pack_left_padded(session, session_length) \o pack_sequence_number(number)

read_accepted(payload) ==
  [session |-> unpack_left_padded(SubSeq(payload, 1, session_length)),
   next    |-> unpack_sequence_number(SubSeq(payload, session_length + 1, Len(payload)))]

\* A reason is one character.
write_rejected(reason) == IF reason = "not_authorized" THEN "A" ELSE "S"

convert(character) ==
  CASE character = "A" -> "not_authorized"
    [] character = "S" -> "session_not_available"
    [] OTHER           -> "invalid_reject_reason"

-----------------------------------------------------------------------------
\* Configuration.

length_of(field) ==
  CASE field = "username" -> username_length
    [] field = "password" -> password_length
    [] field = "session"  -> session_length

NotOffered == [field |-> "none", string |-> <<>>, error |-> "none"]

\* What Server::set_session() and Acceptor::add_port() let through.
IsSession(s) == validate(s, session_length) = "none"

IsPort(username, password) ==
  validate(username, username_length) = "none" /\ validate(password, password_length) = "none"

Init ==
  /\ stage = "username" /\ offered = NotOffered
  /\ client = [username |-> <<>>, password |-> <<>>, session |-> <<>>, next |-> 1]
  /\ server \in {p \in Servers : IsPort(p.username, p.password) /\ IsSession(p.session)}
  /\ library \in [client : BOOLEAN, server : BOOLEAN]
  /\ library.client \/ library.server
  /\ request = <<>> /\ response = <<>> /\ outcome = "none"
  /\ read = [username |-> <<>>, password |-> <<>>, session |-> <<>>, next |-> 0]

\* set_username(), set_password() and set_session() of a client::Connection,
\* in this order.  The server's counterparts validate in the same way.
Set(field, then) ==
  /\ stage = field /\ library.client
  /\ \E s \in Strings :
       LET error == validate(s, length_of(field))
       IN  /\ offered' = [field |-> field, string |-> s, error |-> error]
           /\ client' = IF error = "none" THEN [client EXCEPT ![field] = s] ELSE client
  /\ stage' = then
  /\ UNCHANGED <<server, library, request, read, response, outcome>>

-----------------------------------------------------------------------------
\* The login.

Request ==
  /\ \/ /\ library.client /\ stage = "request"
        /\ \E n \in Numbers : client' = [client EXCEPT !.next = n]
        /\ request' = write_request(client')
     \/ /\ ~library.client /\ stage = "username"
        /\ request' \in ForeignRequests /\ UNCHANGED client
  /\ stage' = "response" /\ offered' = NotOffered
  /\ UNCHANGED <<server, library, read, response, outcome>>

\* Faulty: the session is not checked.
login_verdict_any_session(p) ==
  IF p.username # server.username \/ p.password # server.password
  THEN "not_authorized" ELSE "none"

\* Acceptor::on_login_request() and Port::on_login_request()
login_verdict(p) ==
  CASE p.username # server.username -> "not_authorized"
    [] p.username = server.username /\ p.password # server.password -> "not_authorized"
    [] /\ p.username = server.username /\ p.password = server.password
       /\ p.session \notin {<<>>, server.session} -> "session_not_available"
    [] OTHER -> "none"

\* The number from which a port that has reached server.next goes on.
response_next(p) == IF p.next # 0 /\ p.next < server.next THEN p.next ELSE server.next

Respond ==
  /\ stage = "response" /\ library.server
  /\ read' = read_request(request)
  /\ response' = IF login_verdict(read') = "none"
                 THEN <<"A", write_accepted(server.session, response_next(read'))>>
                 ELSE <<"J", write_rejected(login_verdict(read'))>>
  /\ stage' = IF library.client THEN "outcome" ELSE "end"
  /\ UNCHANGED <<offered, client, server, library, request, outcome>>

ForeignRespond ==
  /\ stage = "response" /\ ~library.server
  /\ response' \in ForeignResponses /\ stage' = "outcome"
  /\ UNCHANGED <<offered, client, server, library, request, read, outcome>>

\* Connection::on_login_success(), the number of the connection being that of
\* its request.  (Session has what another connection of the client adds.)
on_login_success(p) ==
  IF client.session \notin {<<>>, p.session} THEN "session_mismatch"
  ELSE IF client.next # 0 /\ p.next < client.next THEN "sequence_number_too_low"
  ELSE IF client.next # 0 /\ p.next > client.next THEN "sequence_number_too_high"
  ELSE "logged_in"

\* process_login_accepted() and process_login_rejected()
outcome_of(type, payload) ==
  IF type = "J" THEN convert(payload)
  ELSE LET p == read_accepted(payload)
       IN  IF p.next = 0 THEN "invalid_field_value" ELSE on_login_success(p)

Finish ==
  /\ stage = "outcome" /\ library.client
  /\ outcome' = outcome_of(response[1], response[2])
  /\ stage' = "end"
  /\ UNCHANGED <<offered, client, server, library, request, read, response>>

Next ==
  \/ Set("username", "password") \/ Set("password", "session") \/ Set("session", "request")
  \/ Request \/ Respond \/ ForeignRespond \/ Finish

Spec == Init /\ [][Next]_vars

-----------------------------------------------------------------------------
\* The setters accept exactly the strings that the packets carry unchanged.
ValidIffCarried ==
  offered.field # "none" =>
    LET s == offered.string
        carried == IF offered.field = "session"
                   THEN unpack_left_padded(pack_left_padded(s, session_length))
                   ELSE unpack_right_padded(pack_right_padded(s, length_of(offered.field)))
    IN  (offered.error = "none") = (carried = s)

\* A server reads what the client was configured with, and accepts the login
\* exactly if that agrees with the port: nothing is cut, padded or wrapped on
\* the way so that it compares equal, or unequal, to something else.  The
\* client is told so, with the server's reason, and of the responses to its
\* own requests it refuses exactly two: that of a port without a number, and
\* that of a port which has not reached the number asked for.
AcceptedIffAgreed ==
  library.client /\ library.server /\ stage \in {"outcome", "end"} =>
    /\ read = client
    /\ (response[1] = "A") = /\ client.username = server.username
                             /\ client.password = server.password
                             /\ client.session \in {<<>>, server.session}
    /\ stage = "end" =>
         outcome = IF login_verdict(client) # "none" THEN login_verdict(client)
                   ELSE IF response_next(client) = 0 THEN "invalid_field_value"
                   ELSE IF client.next > server.next THEN "sequence_number_too_low"
                   ELSE "logged_in"

\* The integer that the trailing digits of a field denote: what each of them
\* counts, from the last on.
denoted(field) ==
  LET n == Len(field)
      sum[k \in 0..n] ==
        IF k = 0 THEN 0
        ELSE sum[k - 1] + IF \A j \in (n - k + 1)..n : isdigit(field[j])
                          THEN field[n - k + 1] * power[k - 1] ELSE 0
  IN  sum[n]

\* Whatever characters another client sends, what is read are valid names and
\* the integer that the trailing digits denote, modulo the integers' range;
\* written again they are read as the same.
ReadsAnything ==
  library.server /\ stage \in {"outcome", "end"} =>
    /\ validate(read.username, username_length) = "none"
    /\ validate(read.password, password_length) = "none"
    /\ validate(read.session, session_length) = "none"
    /\ read_request(write_request(read)) = read
    /\ LET n == Len(request)
           field == SubSeq(request, n - sequence_number_length + 1, n)
       IN  read.next = denoted(field) % max

=============================================================================
