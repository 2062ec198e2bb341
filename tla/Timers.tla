------------------------------- MODULE Timers -------------------------------
(***************************************************************************)
(* Login_timer, Heartbeat_timer and Reconnect_timer.  The first two share  *)
(* the protocol by which stop() leads to exactly one posted *_stopped()    *)
(* callback once no wait handler is outstanding; the third tells a wait of *)
(* an earlier start() from the current one by its epoch.  A timer is a     *)
(* record, a method an operator; the callbacks to the timer's Handler are  *)
(* made by the modules that own it.                                        *)
(***************************************************************************)
EXTENDS Asio, Naturals

CONSTANT HeartbeatTimeout \* timeout_ of the heartbeat timer, in heartbeat periods

ASSUME HeartbeatTimeoutAssumption == HeartbeatTimeout \in Nat \ {0}

-----------------------------------------------------------------------------
\* Login_timer, and the part of Heartbeat_timer that is the same.

LoginTimers == [started          : BOOLEAN,
                wait             : OpStatus,   \* wait_pending_
                stopped_signaled : BOOLEAN,
                posted           : BOOLEAN]    \* *_timer_stopped() is in the queue

NewLoginTimer == [started |-> FALSE, wait |-> "none",
                  stopped_signaled |-> FALSE, posted |-> FALSE]

maybe_signal_stopped(t) ==
  IF ~t.started /\ ~t.stopped_signaled /\ t.wait = "none"
  THEN [t EXCEPT !.stopped_signaled = TRUE, !.posted = TRUE]
  ELSE t

timer_stop(t) ==
  IF t.started
  THEN maybe_signal_stopped([t EXCEPT !.started = FALSE, !.wait = cancel(@)])
  ELSE t

\* Faulty: the wait is never started.
login_timer_start_only(t, fails) == [t EXCEPT !.started = TRUE]

\* start(): when setting the expiry fails the timer counts as started but
\* has no wait, and the owner's *_timer_error callback follows.
login_timer_start(t, fails) ==
  IF t.started THEN t
  ELSE [t EXCEPT !.started = TRUE, !.wait = IF fails THEN @ ELSE "pending"]

-----------------------------------------------------------------------------
\* Heartbeat_timer.  receive_count_ and send_count_ are only compared with
\* zero and reset every period, so they are represented by whether they are
\* non-zero (a period is too short for 2^32 packets).

HeartbeatTimers == [started           : BOOLEAN,
                    wait              : OpStatus,
                    stopped_signaled  : BOOLEAN,
                    posted            : BOOLEAN,
                    received          : BOOLEAN,  \* receive_count_ # 0
                    sent              : BOOLEAN,  \* send_count_ # 0
                    no_receive_period : Nat]      \* in heartbeat periods

NewHeartbeatTimer == [started |-> FALSE, wait |-> "none",
                      stopped_signaled |-> FALSE, posted |-> FALSE,
                      received |-> FALSE, sent |-> FALSE, no_receive_period |-> 0]

\* Faulty: the timer is not armed again.
schedule_nothing(t, fails) == t

schedule(t, fails) == [t EXCEPT !.wait = IF fails THEN @ ELSE "pending"]

heartbeat_timer_start(t, fails) ==
  IF t.started THEN t ELSE schedule([t EXCEPT !.started = TRUE], fails)

\* Faulty: the silent periods do not add up.
count_silence_anew(t) == [t EXCEPT !.no_receive_period = 0, !.received = FALSE]

\* on_expiry without error: the receive half.
count_silence(t) ==
  IF t.received THEN [t EXCEPT !.no_receive_period = 0, !.received = FALSE]
                ELSE [t EXCEPT !.no_receive_period = @ + 1]

receive_timed_out(t) == ~t.received /\ t.no_receive_period + 1 >= HeartbeatTimeout

-----------------------------------------------------------------------------
\* Reconnect_timer.  The wait handler of the current epoch is told apart
\* from those of earlier epochs, of which only the number matters.

ReconnectTimers == [started : BOOLEAN,
                    wait    : OpStatus,  \* handler with epoch = epoch_
                    stale   : Nat]       \* handlers with epoch # epoch_

NewReconnectTimer == [started |-> FALSE, wait |-> "none", stale |-> 0]

\* Faulty: the wait is not started.
reconnect_timer_start_only(t, fails) == [t EXCEPT !.started = TRUE]

reconnect_timer_start(t, fails) ==
  IF t.started \/ fails THEN t
  ELSE [started |-> TRUE, wait |-> "pending",
        stale |-> IF t.wait = "none" THEN t.stale ELSE t.stale + 1]

reconnect_timer_stop(t) ==
  IF t.started THEN [t EXCEPT !.started = FALSE, !.wait = cancel(@)] ELSE t

=============================================================================
