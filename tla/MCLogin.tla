------------------------------ MODULE MCLogin -------------------------------
(***************************************************************************)
(* Login for model checking: fields of one to three characters, so that    *)
(* every string up to one character longer than a field can be tried.  The *)
(* range of integers lies between two powers of the base, as 2^64 does, so *)
(* that a field of digits may exceed it.                                   *)
(***************************************************************************)
EXTENDS Login

StringsUpTo(n, chars) == UNION {[1..k -> chars] : k \in 0..n}

MCStrings == StringsUpTo(3, {0, Letter, Space, Other})

MCServers ==
  {[username |-> <<0>>, password |-> <<Letter>>, session |-> <<Letter, 0>>, next |-> 8],
   [username |-> <<>>, password |-> <<0>>, session |-> <<0>>, next |-> 19]}

Raw(n) == [1..n -> {0, Letter, Space, Other}]

RawNumbers == [1..3 -> {0, 2, Letter, Space}]

MCForeignRequests ==
  {u \o p \o s \o n : u \in {<<1>>, <<Space>>, <<Other>>}, p \in {<<0>>, <<Other>>},
                      s \in Raw(2), n \in RawNumbers}

MCForeignResponses ==
  {<<"J", c>> : c \in {"A", "S", "?"}} \cup {<<"A", s \o n>> : s \in Raw(2), n \in RawNumbers}

=============================================================================
