----------------------------- MODULE MessageLog -----------------------------
(***************************************************************************)
(* What File_store promises its user: a log of messages that can be read   *)
(* back by number, that outlives the process, and of which what was synced *)
(* outlives a loss of power.  A write that fails or is interrupted ends    *)
(* the promise for later messages, never that for earlier ones; opening    *)
(* without reading suspends what is promised of answers, and no more.      *)
(***************************************************************************)
EXTENDS Naturals, Sequences

CONSTANTS
  Messages, \* the messages
  NoAnswer, \* nothing asked yet
  Failure   \* an error

VARIABLES
  log,      \* the messages that can be read back
  durable,  \* how many of them outlive a loss of power
  damaged,  \* an addition has failed or was interrupted
  unread,   \* the log is open, but was not read
  answer    \* the range asked for last, and the answer

vars == <<log, durable, damaged, unread, answer>>

Init == log = <<>> /\ durable = 0 /\ ~damaged /\ ~unread /\ answer = NoAnswer

Add(m) ==
  /\ ~damaged /\ log' = Append(log, m)
  /\ answer' = NoAnswer /\ UNCHANGED <<durable, damaged, unread>>

Damage ==
  /\ damaged' = TRUE
  /\ unread' \in {unread, FALSE}
  /\ answer' = NoAnswer /\ UNCHANGED <<log, durable>>

Sync ==
  /\ durable' = Len(log)
  /\ answer' = NoAnswer /\ UNCHANGED <<log, damaged, unread>>

PowerLoss ==
  /\ \E n \in durable..Len(log) : log' = SubSeq(log, 1, n)
  /\ damaged' \in {damaged, TRUE}
  /\ unread' = FALSE
  /\ answer' = NoAnswer /\ UNCHANGED durable

\* A range of the log is answered with its messages, any other range with an
\* error unless the log is damaged; reading may fail.  Nothing is promised of
\* the answers of a log that was not read.
Get ==
  /\ answer' # NoAnswer
  /\ \/ answer'.messages = Failure
     \/ /\ answer'.first \in 1..answer'.last /\ answer'.last <= Len(log)
        /\ answer'.messages = SubSeq(log, answer'.first, answer'.last)
     \/ damaged /\ answer'.last > Len(log)
     \/ unread
  /\ UNCHANGED <<log, durable, damaged, unread>>

\* Opening, with reading or without, closing, and the end of a process.
Other ==
  /\ unread' \in BOOLEAN
  /\ answer' = NoAnswer /\ UNCHANGED <<log, durable, damaged>>

Next == (\E m \in Messages : Add(m)) \/ Damage \/ Sync \/ PowerLoss \/ Get \/ Other

Spec == Init /\ [][Next]_vars

=============================================================================
