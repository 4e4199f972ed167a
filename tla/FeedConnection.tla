--------------------------- MODULE FeedConnection ---------------------------
(***************************************************************************)
(* The live feed's connection: the loop of RealtimeFeedEngine::run, the    *)
(* receive thread of WebSocketClient::run, and the two controllers they    *)
(* share without a lock, HeartbeatController and ReconnectController.      *)
(*                                                                         *)
(* A timestamp is kept as the age it has now; ages stop at MaxAge, which   *)
(* no timeout exceeds, and Never stands for the timestamp 0.  Time passes  *)
(* while the loop sleeps or is blocked in connect().                       *)
(***************************************************************************)
EXTENDS Naturals

CONSTANTS
  PingInterval, PongTimeout, StaleTimeout,   \* HeartbeatController
  InitialDelay, MaxDelay,                    \* ReconnectController
  AttemptLimits,                             \* values of max_attempts_; 0 means unlimited
  MaxAge,                                    \* where ages stop
  AttemptBound                               \* where attempt_count stops

ASSUME FeedAssumption ==
  /\ MaxAge \in Nat /\ AttemptBound \in Nat
  /\ {PingInterval, PongTimeout, StaleTimeout, MaxDelay} \subseteq 1 .. MaxAge
  /\ InitialDelay \in 1 .. MaxDelay
  /\ AttemptLimits \subseteq 0 .. AttemptBound

VARIABLES
  pc,       \* where run() is
  client,   \* "none", "up" (connected), "down", or "closed" when the callback has been claimed
  thread,   \* where the receive thread is, "none" before the first and after a join
  hb,       \* HeartbeatController [open, waiting, ping, msg]; ping and msg are ages
  rc,       \* ReconnectController [limit, requested, reconnecting, disabled, attempts,
            \*   delay, request, attempt]; request and attempt are ages
  fatal,    \* fatal_error_
  owed      \* history: the age of the oldest PING without an answer, Never if there is none

feedVars == << pc, client, thread, hb, rc, fatal, owed >>

Never == MaxAge + 1
Older(age) == IF age < MaxAge THEN age + 1 ELSE age

FeedInit ==
  /\ pc = "connectFirst" /\ client = "none" /\ thread = "none"
  /\ hb = [open |-> FALSE, waiting |-> FALSE, ping |-> Never, msg |-> Never]
  /\ rc \in [limit : AttemptLimits, requested : {FALSE}, reconnecting : {FALSE},
             disabled : {FALSE}, attempts : {0}, delay : {InitialDelay},
             request : {Never}, attempt : {Never}]
  /\ fatal = FALSE
  /\ owed = Never

-----------------------------------------------------------------------------
(* HeartbeatController.                                                     *)

Opened(h) == [h EXCEPT !.open = TRUE, !.waiting = FALSE, !.ping = Never, !.msg = 0]
Closed(h) == [h EXCEPT !.open = FALSE, !.waiting = FALSE]
PingSent(h) == [h EXCEPT !.ping = 0, !.waiting = TRUE]
PongReceived(h) == [h EXCEPT !.msg = 0, !.waiting = FALSE]
MessageReceived(h) == [h EXCEPT !.msg = 0]
ShouldSendPing(h) == h.open /\ h.ping >= PingInterval

Status(h) ==
  CASE ~ h.open                                        -> "Stale"
    [] h.open /\ h.msg \in StaleTimeout .. MaxAge      -> "Stale"
    [] h.open /\ h.msg \notin StaleTimeout .. MaxAge   ->
         IF ~ h.waiting THEN "Ok"
         ELSE IF h.ping >= PongTimeout THEN "PongTimeout" ELSE "WaitingPong"

Unhealthy(h) == Status(h) \in {"PongTimeout", "Stale"}

-----------------------------------------------------------------------------
(* ReconnectController.                                                     *)

\* on_connection_open; last_attempt_ns_ and last_request_ns_ keep their values.
Connected(c) ==
  [c EXCEPT !.requested = FALSE, !.reconnecting = FALSE, !.disabled = FALSE,
            !.attempts = 0, !.delay = InitialDelay]

\* Faulty variant: every request restarts the wait.
RequestedAgain(c) ==
  IF c.disabled \/ c.reconnecting THEN c ELSE [c EXCEPT !.requested = TRUE, !.request = 0]

\* request_reconnect: a pending request keeps its time.
Requested(c) ==
  IF c.disabled \/ c.requested \/ c.reconnecting THEN c
  ELSE [c EXCEPT !.requested = TRUE, !.request = 0]

ShouldReconnect(c) ==
  /\ ~ c.disabled /\ c.requested /\ ~ c.reconnecting
  /\ c.limit # 0 => c.attempts < c.limit
  /\ (IF c.attempt = Never THEN c.request ELSE c.attempt) >= c.delay

\* on_reconnect_attempt.
Attempted(c) ==
  IF c.disabled THEN c
  ELSE [c EXCEPT !.reconnecting = TRUE, !.attempt = 0,
                 !.attempts = IF @ < AttemptBound THEN @ + 1 ELSE @]

\* on_reconnect_failure.
AttemptFailed(c) ==
  IF c.limit # 0 /\ c.attempts >= c.limit
  THEN [c EXCEPT !.reconnecting = FALSE, !.disabled = TRUE, !.requested = FALSE]
  ELSE [c EXCEPT !.reconnecting = FALSE, !.requested = TRUE,
                 !.delay = IF @ > MaxDelay \div 2 THEN MaxDelay ELSE @ * 2]

-----------------------------------------------------------------------------
(* run(): the steps of the main thread.                                     *)

Connecting == pc \in {"connectFirst", "connectAgain"}

\* connect() fails before the handshake ends: start_connection drops the client, and run()
\* requests a reconnect (so did handle_error) or maybe_reconnect records the failure.
ConnectFails ==
  /\ Connecting
  /\ client' = "none"
  /\ rc' = IF pc = "connectFirst" THEN Requested(rc) ELSE AttemptFailed(rc)
  /\ pc' = "test"
  /\ UNCHANGED << thread, hb, fatal, owed >>

\* The connection opens and the subscription cannot be sent: handle_open has opened the
\* heartbeat, and connect() clears connected, so disconnect() does not close it again.
SubscribeFails ==
  /\ Connecting
  /\ hb' = Opened(hb)
  /\ client' = "none"
  /\ rc' = IF pc = "connectFirst" THEN Requested(rc) ELSE AttemptFailed(rc)
  /\ pc' = "test"
  /\ UNCHANGED << thread, fatal, owed >>

\* connect() succeeds, the controller is told and the receive thread is started.
ConnectSucceeds ==
  /\ Connecting
  /\ hb' = Opened(hb)
  /\ rc' = Connected(rc)
  /\ client' = "up" /\ thread' = "reading"
  /\ owed' = Never
  /\ pc' = "test"
  /\ UNCHANGED fatal

\* The loop's condition; the stop() behind the loop disconnects and joins.
LoopTest ==
  /\ pc = "test"
  /\ pc' = IF fatal THEN "leaving" ELSE "ping"
  /\ UNCHANGED << client, thread, hb, rc, fatal, owed >>

\* maybe_send_ping up to the send; on_ping_sent is a step of its own, since the receive
\* thread may see the answer first.
SendPing ==
  /\ pc = "ping"
  /\ client = "up" /\ ShouldSendPing(hb)
  /\ pc' = "pinged"
  /\ owed' = IF owed = Never THEN 0 ELSE owed
  /\ UNCHANGED << client, thread, hb, rc, fatal >>

RecordPing ==
  /\ pc = "pinged"
  /\ hb' = PingSent(hb)
  /\ pc' = "beat"
  /\ UNCHANGED << client, thread, rc, fatal, owed >>

SendPingFails ==
  /\ pc = "ping"
  /\ client = "up" /\ ShouldSendPing(hb)
  /\ rc' = Requested(rc)
  /\ pc' = "beat"
  /\ UNCHANGED << client, thread, hb, fatal, owed >>

NoPing ==
  /\ pc = "ping"
  /\ ~ (client = "up" /\ ShouldSendPing(hb))
  /\ pc' = "beat"
  /\ UNCHANGED << client, thread, hb, rc, fatal, owed >>

\* maybe_request_reconnect_from_heartbeat.
CheckHeartbeat ==
  /\ pc = "beat"
  /\ rc' = IF Unhealthy(hb) THEN Requested(rc) ELSE rc
  /\ pc' = "reconnect"
  /\ UNCHANGED << client, thread, hb, fatal, owed >>

\* maybe_reconnect: nothing is due.
NoReconnect ==
  /\ pc = "reconnect"
  /\ ~ ShouldReconnect(rc)
  /\ pc' = "sleep"
  /\ UNCHANGED << client, thread, hb, rc, fatal, owed >>

\* stop_client_thread calls disconnect(), which clears connected; when it was clear already
\* disconnect() returns and the join is next.
Disconnect ==
  \/ /\ pc = "reconnect" /\ ShouldReconnect(rc)
     /\ pc' = IF client = "up" THEN "shutting" ELSE "joining"
     /\ client' = IF client = "up" THEN "down" ELSE client
     /\ UNCHANGED << thread, hb, rc, fatal, owed >>
  \/ /\ pc = "leaving"
     /\ pc' = IF client = "up" THEN "shuttingLast" ELSE "joiningLast"
     /\ client' = IF client = "up" THEN "down" ELSE client
     /\ UNCHANGED << thread, hb, rc, fatal, owed >>

Shutting == pc \in {"shutting", "shuttingLast"}

\* The rest of disconnect(): the socket is shut, and handle_close runs unless the receive
\* thread has claimed the callback first (close_callback_emitted).
Shutdown ==
  /\ Shutting
  /\ client' = "closed"
  /\ hb' = IF client = "down" THEN Closed(hb) ELSE hb
  /\ rc' = IF client = "down" /\ pc = "shutting" THEN Requested(rc) ELSE rc
  /\ pc' = IF pc = "shutting" THEN "joining" ELSE "joiningLast"
  /\ UNCHANGED << thread, fatal, owed >>

\* Faulty variant: the thread is not waited for.
JoinedAtOnce == TRUE

\* What the join waits for.
Joined == thread \in {"none", "done"}

\* The join returns; maybe_reconnect records the attempt and connects, stop() ends.
Join ==
  /\ pc \in {"joining", "joiningLast"} /\ Joined
  /\ thread' = IF thread = "done" THEN "none" ELSE thread
  /\ client' = "none"
  /\ rc' = IF pc = "joining" THEN Attempted(rc) ELSE rc
  /\ pc' = IF pc = "joining" THEN "connectAgain" ELSE "stopped"
  /\ UNCHANGED << hb, fatal, owed >>

\* Time passes, between two rounds of the loop or while connect() blocks.
Tick ==
  /\ pc = "sleep" \/ Connecting
  /\ hb' = [hb EXCEPT !.ping = Older(@), !.msg = Older(@)]
  /\ rc' = [rc EXCEPT !.request = Older(@), !.attempt = Older(@)]
  /\ owed' = Older(owed)
  /\ pc' = IF pc = "sleep" THEN "test" ELSE pc
  /\ UNCHANGED << client, thread, fatal >>

-----------------------------------------------------------------------------
(* WebSocketClient::run(): the steps of the receive thread.                 *)

\* handle_message; a raw log that cannot be written is fatal.  A message read before
\* disconnect() is handled after it, and is the thread's last.
Receive(h) ==
  /\ thread = "reading"
  /\ hb' = h
  /\ fatal' \in {fatal, TRUE}
  /\ thread' = IF client = "up" THEN thread ELSE "done"
  /\ UNCHANGED << pc, client, rc >>

ReceiveData == Receive(MessageReceived(hb)) /\ UNCHANGED owed

ReceivePong == Receive(PongReceived(hb)) /\ owed # Never /\ owed' = Never

\* The read fails: the peer closed, or an error that is reported before the close is.  It
\* may fail while disconnect() is under way, before disconnect_requested is seen.
ReadFails ==
  /\ thread = "reading" /\ (client = "up" \/ Shutting)
  /\ client' = "down"
  /\ thread' \in {"failed", "closing"}
  /\ UNCHANGED << pc, hb, rc, fatal, owed >>

\* The loop of the thread ends because disconnect() cleared connected, or the read because it
\* shut the socket; disconnect() runs the callback.
ReadAborted ==
  /\ thread = "reading" /\ client # "up"
  /\ thread' = "done"
  /\ UNCHANGED << pc, client, hb, rc, fatal, owed >>

\* handle_error and handle_close: the request is ignored once stop() has begun.
StopRequested == pc \in {"shuttingLast", "joiningLast", "stopped"}
AfterRequest(t) == IF t \in {"failed", "stampFailed"} THEN "closing" ELSE "done"

\* The thread runs a callback: handle_error, or handle_close if it is the first to claim it.
Calls == thread = "failed" \/ client = "down"

\* request_reconnect has something to record.
Wants(c) == Calls /\ ~ StopRequested /\ Requested(c) # c

\* handle_error requests; handle_close closes the heartbeat and requests.  The flag of
\* request_reconnect is stored before the time: the loop may read the controller between.
RequestFlag ==
  /\ thread \in {"failed", "closing"}
  /\ hb' = IF thread = "closing" /\ Calls THEN Closed(hb) ELSE hb
  /\ client' = IF thread = "closing" THEN "closed" ELSE client
  /\ rc' = [rc EXCEPT !.requested = @ \/ Wants(rc)]
  /\ thread' = IF ~ Wants(rc) THEN AfterRequest(thread)
               ELSE IF thread = "failed" THEN "stampFailed" ELSE "stampClosing"
  /\ UNCHANGED << pc, fatal, owed >>

RequestStamp ==
  /\ thread \in {"stampFailed", "stampClosing"}
  /\ rc' = [rc EXCEPT !.request = 0]
  /\ thread' = AfterRequest(thread)
  /\ UNCHANGED << pc, client, hb, fatal, owed >>

-----------------------------------------------------------------------------
MainStep ==
  \/ LoopTest \/ SendPing \/ RecordPing \/ SendPingFails \/ NoPing
  \/ CheckHeartbeat \/ NoReconnect \/ Disconnect \/ Shutdown \/ Join

ThreadEnds == ReadAborted \/ RequestFlag \/ RequestStamp

FeedNext ==
  \/ MainStep \/ Tick \/ ConnectFails \/ SubscribeFails \/ ConnectSucceeds
  \/ ReceiveData \/ ReceivePong \/ ReadFails \/ ThreadEnds

\* Both threads are scheduled and time passes.  Nothing is assumed of the peer: messages
\* may stop, connect() may fail or block for ever.
FeedFairness == WF_feedVars(MainStep) /\ WF_feedVars(Tick) /\ WF_feedVars(ThreadEnds)

FeedSpec == FeedInit /\ [][FeedNext]_feedVars /\ FeedFairness

-----------------------------------------------------------------------------
(* Properties.                                                              *)

\* The callbacks of an old connection never reach the controllers of the next: no receive
\* thread is left when start_connection runs, nor when stop() has returned.
OldThreadGone == Connecting \/ pc = "stopped" => thread = "none" /\ client = "none"

\* A run of failed attempts is as long as max_attempts_ allows and waits no longer than
\* max_delay_, whatever the receive thread requests between the test of should_reconnect and
\* the attempt (on_reconnect_attempt, on_reconnect_failure).
ReconnectIsBounded ==
  /\ rc.limit # 0 => rc.attempts <= rc.limit
  /\ rc.delay \in InitialDelay .. MaxDelay

\* The feed never goes quiet for good: again and again a message arrives, a connection is
\* attempted, or the engine has given up or stopped (request_reconnect must not restart a
\* wait that is running, or repeated errors would put the attempt off for ever).
NoSilentStall == []<>(hb.msg = 0 \/ Connecting \/ rc.disabled \/ pc = "stopped")

\* A PONG timeout means that a PING has no answer.
PongTimeoutIsReal == Status(hb) = "PongTimeout" => owed # Never
=============================================================================
