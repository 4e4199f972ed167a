---------------------------- MODULE EdgeProofs ----------------------------
(***************************************************************************)
(* Proofs about the three components where threads, clocks and outside     *)
(* messages meet the engine: the feed's connection, the confirmation of    *)
(* trades on chain, and the double buffer the readers copy.  They share no *)
(* state; each theorem is about one of the three specifications, for every *)
(* value of its constants.                                                 *)
(***************************************************************************)
EXTENDS FeedConnection, ChainConfirm, SnapshotPublication, SequenceTheorems, TLAPS

-----------------------------------------------------------------------------
(* OldThreadGone is inductive: only Join enters connect() or ends run(), and *)
(* no receive thread starts before connect() has returned.                  *)

\* For every configuration, no receive thread and no client of an old connection is left
\* when start_connection runs, nor when stop() has returned (stop_client_thread).
THEOREM OldThreadIsGone == FeedSpec => []OldThreadGone
<1>1. FeedInit => OldThreadGone
  BY DEF FeedInit, OldThreadGone, Connecting
<1>2. OldThreadGone /\ [FeedNext]_feedVars => OldThreadGone'
  <2> SUFFICES ASSUME OldThreadGone, [FeedNext]_feedVars PROVE OldThreadGone'
    OBVIOUS
  <2> USE DEF OldThreadGone, Connecting
  <2>1. CASE LoopTest \/ SendPing \/ RecordPing \/ SendPingFails \/ NoPing
    BY <2>1 DEF LoopTest, SendPing, RecordPing, SendPingFails, NoPing
  <2>2. CASE CheckHeartbeat \/ NoReconnect \/ Disconnect \/ Shutdown
    BY <2>2 DEF CheckHeartbeat, NoReconnect, Disconnect, Shutdown, Shutting
  <2>3. CASE Join
    BY <2>3 DEF Join, Joined
  <2>4. CASE Tick
    BY <2>4 DEF Tick
  <2>5. CASE ConnectFails \/ SubscribeFails \/ ConnectSucceeds
    BY <2>5 DEF ConnectFails, SubscribeFails, ConnectSucceeds
  <2>6. CASE ReceiveData \/ ReceivePong
    BY <2>6, Zenon DEF ReceiveData, ReceivePong, Receive
  <2>7. CASE ReadFails \/ ThreadEnds
    BY <2>7 DEF ReadFails, Shutting, ThreadEnds, ReadAborted, RequestFlag, RequestStamp
  <2>8. CASE UNCHANGED feedVars
    BY <2>8 DEF feedVars
  <2> QED BY <2>1, <2>2, <2>3, <2>4, <2>5, <2>6, <2>7, <2>8 DEF FeedNext, MainStep
<1> QED BY <1>1, <1>2, PTL DEF FeedSpec

-----------------------------------------------------------------------------
(* The reconnect controller.  Between the test of should_reconnect and the  *)
(* attempt the loop shuts the socket and waits for the receive thread, and  *)
(* both may call the controller: the invariant says what is still known.    *)

IsController(c) ==
  /\ DOMAIN c = {"limit", "requested", "reconnecting", "disabled", "attempts", "delay",
                 "request", "attempt"}
  /\ c.limit \in Nat /\ c.attempts \in Nat /\ c.delay \in InitialDelay .. MaxDelay

\* should_reconnect has been tested and the attempt is not recorded yet.
Due == pc \in {"shutting", "joining"}

ControllerInv ==
  /\ IsController(rc)
  /\ rc.limit # 0 => rc.attempts <= rc.limit
  /\ rc.limit # 0 /\ Due => rc.attempts < rc.limit

\* The operations of the controller keep its type; none but on_connection_open and
\* on_reconnect_attempt changes attempt_count_.
LEMMA ControllerSteps ==
  ASSUME NEW c, IsController(c)
  PROVE  /\ IsController(Requested(c)) /\ IsController(AttemptFailed(c))
         /\ IsController(Connected(c)) /\ IsController(Attempted(c))
         /\ Requested(c).limit = c.limit /\ Requested(c).attempts = c.attempts
         /\ AttemptFailed(c).limit = c.limit /\ AttemptFailed(c).attempts = c.attempts
         /\ Connected(c).limit = c.limit /\ Connected(c).attempts = 0
         /\ Attempted(c).limit = c.limit /\ Attempted(c).attempts <= c.attempts + 1
<1>1. InitialDelay \in Nat /\ MaxDelay \in Nat /\ InitialDelay <= MaxDelay /\ 0 < InitialDelay
      /\ AttemptBound \in Nat
  BY FeedAssumption
<1>2. IsController(Requested(c)) /\ Requested(c).limit = c.limit
      /\ Requested(c).attempts = c.attempts
  BY DEF Requested, IsController
<1>3. IsController(Connected(c)) /\ Connected(c).limit = c.limit /\ Connected(c).attempts = 0
  BY <1>1 DEF Connected, IsController
<1>4. IsController(Attempted(c)) /\ Attempted(c).limit = c.limit
      /\ Attempted(c).attempts <= c.attempts + 1
  BY <1>1 DEF Attempted, IsController
<1>5. IsController(AttemptFailed(c)) /\ AttemptFailed(c).limit = c.limit
      /\ AttemptFailed(c).attempts = c.attempts
  <2> DEFINE d == IF c.delay > MaxDelay \div 2 THEN MaxDelay ELSE c.delay * 2
  <2>1. d \in InitialDelay .. MaxDelay
    BY <1>1 DEF IsController
  <2>2. CASE c.limit # 0 /\ c.attempts >= c.limit
    BY <2>2 DEF AttemptFailed, IsController
  <2>3. CASE ~ (c.limit # 0 /\ c.attempts >= c.limit)
    <3>1. AttemptFailed(c) = [c EXCEPT !.reconnecting = FALSE, !.requested = TRUE, !.delay = d]
      BY <2>3 DEF AttemptFailed
    <3> HIDE DEF d
    <3> QED BY <2>1, <3>1 DEF IsController
  <2> QED BY <2>2, <2>3
<1> QED BY <1>2, <1>3, <1>4, <1>5

\* For every configuration, attempts and delay stay within their limits.
THEOREM ReconnectBounded == FeedSpec => []ReconnectIsBounded
<1>1. FeedInit => ControllerInv
  <2> SUFFICES ASSUME FeedInit PROVE ControllerInv
    OBVIOUS
  <2>1. rc.limit \in AttemptLimits /\ rc.attempts = 0 /\ rc.delay = InitialDelay /\ ~ Due
    BY DEF FeedInit, Due
  <2>2. DOMAIN rc = {"limit", "requested", "reconnecting", "disabled", "attempts", "delay",
                     "request", "attempt"}
    BY DEF FeedInit
  <2>3. rc.limit \in Nat
    <3>1. rc.limit \in 0 .. AttemptBound
      BY <2>1, FeedAssumption, Zenon
    <3> QED BY <3>1, FeedAssumption
  <2>4. rc.delay \in InitialDelay .. MaxDelay
    <3>1. MaxDelay \in Nat
      BY FeedAssumption
    <3> QED BY <2>1, <3>1, FeedAssumption
  <2> QED BY <2>1, <2>2, <2>3, <2>4 DEF ControllerInv, IsController
<1>2. ControllerInv /\ [FeedNext]_feedVars => ControllerInv'
  <2> SUFFICES ASSUME ControllerInv, [FeedNext]_feedVars PROVE ControllerInv'
    OBVIOUS
  <2>1. IsController(rc)
    BY DEF ControllerInv
  \* A step that leaves the counter alone and does not test should_reconnect.
  <2>2. ASSUME IsController(rc'), rc'.limit = rc.limit, rc'.attempts = rc.attempts,
               Due' => Due
        PROVE  ControllerInv'
    BY <2>2 DEF ControllerInv
  <2>3. CASE LoopTest \/ SendPing \/ RecordPing \/ NoPing \/ NoReconnect
    BY <2>1, <2>2, <2>3 DEF LoopTest, SendPing, RecordPing, NoPing, NoReconnect, Due
  <2>4. CASE SendPingFails \/ CheckHeartbeat
    BY <2>1, <2>2, <2>4, ControllerSteps DEF SendPingFails, CheckHeartbeat, Due
  <2>5. CASE Disconnect
    <3>1. rc' = rc
      BY <2>5 DEF Disconnect
    <3>2. Due' => ShouldReconnect(rc)
      BY <2>5 DEF Disconnect, Due
    <3> QED BY <3>1, <3>2 DEF ControllerInv, ShouldReconnect
  <2>6. CASE Join
    <3>1. CASE pc = "joining"
      <4>1. rc' = Attempted(rc) /\ ~ Due' /\ Due
        BY <2>6, <3>1 DEF Join, Due
      <4>2. IsController(rc') /\ rc'.limit = rc.limit /\ rc'.attempts <= rc.attempts + 1
        BY <2>1, <4>1, ControllerSteps
      <4>3. rc.attempts \in Nat /\ rc.limit \in Nat /\ rc'.attempts \in Nat
        BY <2>1, <4>2 DEF IsController
      <4> QED BY <3>1, <4>1, <4>2, <4>3 DEF ControllerInv
    <3>2. CASE pc # "joining"
      BY <2>1, <2>2, <2>6, <3>2 DEF Join, Due
    <3> QED BY <3>1, <3>2
  <2>7. CASE Tick
    BY <2>1, <2>2, <2>7, FeedAssumption DEF Tick, IsController, Older, Connecting, Due
  <2>8. CASE ConnectFails \/ SubscribeFails
    BY <2>1, <2>2, <2>8, ControllerSteps DEF ConnectFails, SubscribeFails, Due
  <2>9. CASE ConnectSucceeds
    <3>1. rc' = Connected(rc) /\ ~ Due'
      BY <2>9 DEF ConnectSucceeds, Due
    <3>2. IsController(rc') /\ rc'.limit = rc.limit /\ rc'.attempts = 0
      BY <2>1, <3>1, ControllerSteps
    <3>3. rc.limit \in Nat
      BY <2>1 DEF IsController
    <3> QED BY <3>1, <3>2, <3>3 DEF ControllerInv
  <2>10. CASE ReceiveData \/ ReceivePong \/ ReadFails \/ ReadAborted
    BY <2>1, <2>2, <2>10, Zenon DEF ReceiveData, ReceivePong, Receive, ReadFails, ReadAborted, Due
  <2>11. CASE RequestFlag
    <3>1. pc' = pc /\ rc' = [rc EXCEPT !.requested = @ \/ Wants(rc)]
      BY <2>11 DEF RequestFlag
    <3>2. Wants(rc) \in BOOLEAN
      BY DEF Wants, Calls
    <3>3. IsController(rc') /\ rc'.limit = rc.limit /\ rc'.attempts = rc.attempts
      BY <2>1, <3>1, <3>2 DEF IsController
    <3> QED BY <2>2, <3>1, <3>3 DEF Due
  <2>12. CASE RequestStamp
    BY <2>1, <2>2, <2>12 DEF RequestStamp, IsController, Due
  <2>13. CASE Shutdown
    BY <2>1, <2>2, <2>13, ControllerSteps DEF Shutdown, Shutting, Due
  <2>14. CASE UNCHANGED feedVars
    BY <2>1, <2>2, <2>14 DEF feedVars, Due
  <2> QED BY <2>3, <2>4, <2>5, <2>6, <2>7, <2>8, <2>9, <2>10, <2>11, <2>12, <2>13, <2>14
        DEF FeedNext, MainStep, ThreadEnds
<1>3. ControllerInv => ReconnectIsBounded
  BY DEF ControllerInv, IsController, ReconnectIsBounded
<1> QED BY <1>1, <1>2, <1>3, PTL DEF FeedSpec

-----------------------------------------------------------------------------
(* The store of confirmed fills.                                            *)

\* The ids of the store are those of fills whose log was read.
StoreInv ==
  /\ lastLog \in [Fills -> {"none", "present", "removed"}]
  /\ StoreFollowsChain

\* A log that is recorded keeps the store in step with the chain.
LEMMA RecordKeepsStore ==
  ASSUME StoreInv, NEW fill \in Fills, NEW removed \in BOOLEAN, Record(fill, removed)
  PROVE  StoreInv'
<1>1. lastLog' = [lastLog EXCEPT ![fill] = IF removed THEN "removed" ELSE "present"]
  BY DEF Record
<1>2. lastLog' \in [Fills -> {"none", "present", "removed"}]
  BY <1>1 DEF StoreInv
<1>3. ASSUME NEW f \in Fills
      PROVE  /\ f.id \in DOMAIN store' <=> lastLog'[f] # "none"
             /\ f.id \in DOMAIN store' => store'[f.id] = (lastLog'[f] = "removed")
  <2>1. CASE f = fill
    BY <1>1, <2>1 DEF StoreInv, Record, Upsert
  <2>2. CASE f # fill
    <3>1. f.id # fill.id
      BY <2>2, FillsAssumption
    <3>2. lastLog'[f] = lastLog[f]
      BY <1>1, <2>2 DEF StoreInv
    <3>3. f.id \in DOMAIN store' <=> f.id \in DOMAIN store
      BY <3>1 DEF Record, Upsert
    <3>4. f.id \in DOMAIN store => store'[f.id] = store[f.id]
      BY <3>1 DEF Record, Upsert
    <3> QED BY <3>2, <3>3, <3>4 DEF StoreInv, StoreFollowsChain
  <2> QED BY <2>1, <2>2
<1> QED BY <1>2, <1>3 DEF StoreInv, StoreFollowsChain

\* For every chain, the store answers what was last read of each log, whatever the order of
\* logs, removals and repetitions (ConfirmedFillStore::upsert).
THEOREM StoreIsTheChain == ChainSpec => []StoreFollowsChain
<1>1. ChainInit => StoreInv
  BY DEF ChainInit, StoreInv, StoreFollowsChain
<1>2. StoreInv /\ [ChainNext]_chainVars => StoreInv'
  <2> SUFFICES ASSUME StoreInv, [ChainNext]_chainVars PROVE StoreInv'
    OBVIOUS
  <2>1. ASSUME NEW fill \in Fills,
               OnRemovedLog(fill) \/ OnUnmappedFill(fill) \/ OnChainFill(fill)
        PROVE  StoreInv'
    BY <2>1, RecordKeepsStore, Zenon DEF OnRemovedLog, OnUnmappedFill, OnChainFill
  <2>2. ASSUME UNCHANGED << store, lastLog >>
        PROVE  StoreInv'
    BY <2>2 DEF StoreInv, StoreFollowsChain
  <2>3. ASSUME NEW shape \in Shapes, OnWsHint(shape)
        PROVE  StoreInv'
    BY <2>2, <2>3 DEF OnWsHint
  <2>4. CASE ExpireHints \/ ChainTick \/ UNCHANGED chainVars
    BY <2>2, <2>4 DEF ExpireHints, ChainTick, chainVars
  <2> QED BY <2>1, <2>3, <2>4 DEF ChainNext
<1>3. StoreInv => StoreFollowsChain
  BY DEF StoreInv
<1> QED BY <1>1, <1>2, <1>3, PTL DEF ChainSpec

-----------------------------------------------------------------------------
(* The hints.  HintConcludedOnce is not inductive: what keeps a hint from a *)
(* second end is what the ring still says of it.  HintsInv adds that ids    *)
(* are used once, that a hint which is still in the ring has not expired,   *)
(* and that one that was confirmed is final there.                          *)

Statuses == {"RemovedByReorg", "UnmatchedFill", "Ambiguous", "ConfirmedOneToOne"}

Results ==
  [status : Statuses, fill : {f.id : f \in Fills}, hints : SUBSET Nat, matching : SUBSET Nat]

HintRecords == [id : Nat, shape : Shapes, recv : Nat, finalized : BOOLEAN]

\* What the ring, the results and the expired hints know of each other.
HintsInv ==
  /\ pushed \in Nat /\ clock \in Nat
  /\ hints \subseteq HintRecords
  /\ told \in Seq(Results)
  /\ \A h \in hints : h.id <= pushed /\ h.id \notin expired
  /\ \A g, h \in hints : g.id = h.id => g = h
  /\ \A i \in expired : i \in Nat /\ i <= pushed
  /\ \A n \in Confirmations : \A i \in told[n].hints : i <= pushed
  /\ \A n \in Confirmations : \A h \in hints : h.id \in told[n].hints => h.finalized
  /\ HintConcludedOnce

\* A hint that arrives has a new id, so nothing is known of it.
LEMMA HintArrives ==
  ASSUME HintsInv, NEW shape \in Shapes, OnWsHint(shape)
  PROVE  HintsInv'
<1> DEFINE new == [id |-> pushed + 1, shape |-> shape, recv |-> clock, finalized |-> FALSE]
<1>1. /\ pushed' = pushed + 1 /\ clock' = clock /\ told' = told /\ expired' = expired
      /\ hints' \subseteq hints \cup {new} /\ new \in HintRecords
  BY DEF OnWsHint, Push, HintsInv, HintRecords
<1>2. Confirmations' = Confirmations
  BY <1>1 DEF Confirmations
<1>3. new.id = pushed + 1
  OBVIOUS
<1> HIDE DEF new
<1>4. \A h \in hints' : h.id <= pushed' /\ h.id \notin expired'
  BY <1>1, <1>3 DEF HintsInv, HintRecords
<1>5. \A g, h \in hints' : g.id = h.id => g = h
  BY <1>1, <1>3 DEF HintsInv, HintRecords
<1>6. \A i \in expired' : i \in Nat /\ i <= pushed'
  BY <1>1 DEF HintsInv
<1>7. \A n \in Confirmations : told[n].hints \subseteq Nat
  <2>1. \A n \in DOMAIN told : told[n] \in Results
    BY DEF HintsInv
  <2> QED BY <2>1 DEF Results, Confirmations
<1>8. \A n \in Confirmations' : \A i \in told'[n].hints : i <= pushed'
  BY <1>1, <1>2, <1>7 DEF HintsInv
<1>9. \A n \in Confirmations' : \A h \in hints' : h.id \in told'[n].hints => h.finalized
  BY <1>1, <1>2, <1>3, <1>7 DEF HintsInv
<1>10. HintConcludedOnce'
  BY <1>1, <1>2 DEF HintsInv, HintConcludedOnce
<1>11. hints' \subseteq HintRecords /\ told' \in Seq(Results) /\ pushed' \in Nat /\ clock' \in Nat
  BY <1>1 DEF HintsInv
<1> QED BY <1>4, <1>5, <1>6, <1>8, <1>9, <1>10, <1>11, Zenon DEF HintsInv

\* A result that confirms nothing changes nothing that the invariant is about.
LEMMA NothingConfirmed ==
  ASSUME HintsInv, NEW result \in Results, result.status # "ConfirmedOneToOne",
         told' = Append(told, result), UNCHANGED << clock, hints, pushed, expired >>
  PROVE  HintsInv'
<1>1. told' \in Seq(Results) /\ DOMAIN told' = DOMAIN told \cup {Len(told) + 1}
  BY DEF HintsInv
<1>2. \A n \in DOMAIN told : told'[n] = told[n]
  BY DEF HintsInv
<1>3. told'[Len(told) + 1] = result
  BY DEF HintsInv
<1>4. Confirmations' = Confirmations
  BY <1>1, <1>2, <1>3 DEF Confirmations
<1>5. \A n \in Confirmations : told'[n] = told[n]
  BY <1>2 DEF Confirmations
<1> QED BY <1>1, <1>4, <1>5, Zenon DEF HintsInv, HintConcludedOnce

\* A hint that is confirmed was not final, so no earlier result and no expiry names it.
LEMMA OneConfirmed ==
  ASSUME HintsInv, NEW h \in hints, ~ h.finalized,
         NEW result \in Results, result.hints = {h.id},
         told' = Append(told, result),
         hints' = (hints \ {h}) \cup {[h EXCEPT !.finalized = TRUE]},
         UNCHANGED << clock, pushed, expired >>
  PROVE  HintsInv'
<1> DEFINE done == [h EXCEPT !.finalized = TRUE]
           new  == Len(told) + 1
<1>0. h \in HintRecords /\ h.id \in Nat /\ h.id <= pushed /\ h.id \notin expired
  BY DEF HintsInv, HintRecords
<1>1. done \in HintRecords /\ done.id = h.id /\ done.finalized
  BY <1>0, Zenon DEF HintRecords
<1>2. hints' = (hints \ {h}) \cup {done}
  OBVIOUS
<1>3. told' \in Seq(Results) /\ DOMAIN told' = DOMAIN told \cup {new} /\ new \notin DOMAIN told
  BY DEF HintsInv
<1>4. \A n \in DOMAIN told : told'[n] = told[n]
  BY DEF HintsInv
<1>5. told'[new] = result
  BY DEF HintsInv
<1> HIDE DEF done, new
<1>6. Confirmations' \subseteq Confirmations \cup {new}
  BY <1>3, <1>4 DEF Confirmations
<1>7. \A n \in Confirmations : told'[n] = told[n] /\ h.id \notin told[n].hints /\ n # new
  BY <1>3, <1>4 DEF Confirmations, HintsInv
<1>8. \A g \in hints' : g.id <= pushed' /\ g.id \notin expired'
  BY <1>0, <1>1, <1>2 DEF HintsInv
<1>9. \A f, g \in hints' : f.id = g.id => f = g
  BY <1>1, <1>2 DEF HintsInv
<1>10. \A n \in Confirmations' : \A i \in told'[n].hints : i <= pushed'
  BY <1>0, <1>5, <1>6, <1>7, Zenon DEF HintsInv
<1>11. \A n \in Confirmations' : \A g \in hints' : g.id \in told'[n].hints => g.finalized
  <2> SUFFICES ASSUME NEW n \in Confirmations', NEW g \in hints', g.id \in told'[n].hints
               PROVE  g.finalized
    BY Zenon
  <2>1. CASE g = done
    BY <1>1, <2>1
  <2>2. CASE g \in hints /\ g # h
    <3>1. g.id # h.id
      BY <2>2 DEF HintsInv
    <3>2. n \in Confirmations /\ told'[n] = told[n]
      BY <1>5, <1>6, <1>7, <3>1, Zenon
    <3> QED BY <2>2, <3>2 DEF HintsInv
  <2> QED BY <1>2, <2>1, <2>2
<1>12. HintConcludedOnce'
  <2>1. ASSUME NEW m \in Confirmations', NEW n \in Confirmations', m # n,
               NEW i \in told'[m].hints, i \in told'[n].hints
        PROVE  FALSE
    <3>1. CASE m \in Confirmations /\ n \in Confirmations
      BY <1>7, <2>1, <3>1, Zenon DEF HintsInv, HintConcludedOnce
    <3>2. CASE m = new \/ n = new
      <4>1. i = h.id
        BY <1>5, <2>1, <3>2, Zenon
      <4>2. m \in Confirmations \/ n \in Confirmations
        BY <1>6, <2>1, <3>2
      <4> QED BY <1>7, <2>1, <4>1, <4>2, Zenon
    <3> QED BY <1>6, <2>1, <3>1, <3>2
  <2>2. ASSUME NEW n \in Confirmations', NEW i \in told'[n].hints, i \in expired
        PROVE  FALSE
    <3>1. CASE n \in Confirmations
      BY <1>7, <2>2, <3>1, Zenon DEF HintsInv, HintConcludedOnce
    <3>2. CASE n = new
      BY <1>0, <1>5, <2>2, <3>2, Zenon
    <3> QED BY <1>6, <3>1, <3>2
  <2> QED BY <2>1, <2>2, Zenon DEF HintConcludedOnce
<1>13. hints' \subseteq HintRecords
  BY <1>1, <1>2 DEF HintsInv
<1> QED BY <1>3, <1>8, <1>9, <1>10, <1>11, <1>12, <1>13, Zenon DEF HintsInv

\* A log that is read: whatever it finds in the ring.
LEMMA LogRead ==
  ASSUME HintsInv, NEW fill \in Fills,
         OnRemovedLog(fill) \/ OnUnmappedFill(fill) \/ OnChainFill(fill)
  PROVE  HintsInv'
<1>1. UNCHANGED << clock, pushed, expired >>
  BY Zenon DEF OnRemovedLog, OnUnmappedFill, OnChainFill, Record
<1>2. ASSUME NEW s \in Statuses, NEW hs \in SUBSET hints, NEW gs \in SUBSET hints
      PROVE  Result(s, fill, Ids(hs), Ids(gs)) \in Results
  BY DEF HintsInv, HintRecords, Result, Results, Ids
<1>3. ASSUME NEW s \in {"RemovedByReorg", "UnmatchedFill"},
             told' = Append(told, Result(s, fill, {}, {})), UNCHANGED hints
      PROVE  HintsInv'
  <2> DEFINE result == Result(s, fill, {}, {})
  <2>1. result \in Results
    BY DEF Result, Results, Statuses
  <2>2. result.status # "ConfirmedOneToOne"
    BY DEF Result
  <2>3. told' = Append(told, result)
    BY <1>3
  <2> HIDE DEF result
  <2> QED BY <1>1, <1>3, <2>1, <2>2, <2>3, NothingConfirmed, Zenon
<1>4. CASE OnRemovedLog(fill) \/ OnUnmappedFill(fill)
  BY <1>3, <1>4, Zenon DEF OnRemovedLog, OnUnmappedFill
<1>5. CASE OnChainFill(fill)
  <2>1. PICK kept \in Kept(Candidates(fill)) : Reconcile(fill, Candidates(fill), kept)
    BY <1>5, Zenon DEF OnChainFill
  <2>2. Candidates(fill) \subseteq hints /\ kept \subseteq Candidates(fill)
    BY <2>1 DEF Candidates, Kept
  <2> DEFINE Answer(s) == Result(s, fill, Ids(kept), Ids(Candidates(fill)))
  <2>3. CASE told' = Append(told, Answer("Ambiguous")) /\ UNCHANGED hints
    <3> DEFINE result == Answer("Ambiguous")
    <3>1. result.status # "ConfirmedOneToOne"
      BY DEF Result
    <3>2. result \in Results
      BY <1>2, <2>2 DEF Statuses
    <3>3. told' = Append(told, result)
      BY <2>3
    <3> HIDE DEF result
    <3> QED BY <1>1, <2>3, <3>1, <3>2, <3>3, NothingConfirmed
  <2>4. ASSUME NEW h \in kept, kept = {h},
               hints' = (hints \ {h}) \cup {[h EXCEPT !.finalized = TRUE]},
               told' = Append(told, Answer("ConfirmedOneToOne"))
        PROVE  HintsInv'
    <3> DEFINE result == Answer("ConfirmedOneToOne")
    <3>1. h \in hints /\ ~ h.finalized
      BY <2>2 DEF Candidates
    <3>2. result.hints = {h.id}
      BY <2>4 DEF Result, Ids
    <3>3. result \in Results
      BY <1>2, <2>2 DEF Statuses
    <3>4. told' = Append(told, result)
      BY <2>4, Zenon
    <3> HIDE DEF result
    <3> QED BY <1>1, <2>4, <3>1, <3>2, <3>3, <3>4, OneConfirmed, Zenon
  <2> QED BY <1>3, <2>1, <2>3, <2>4 DEF Reconcile
<1> QED BY <1>4, <1>5

\* What expires is not final, so no result has confirmed it.
LEMMA HintsExpire ==
  ASSUME HintsInv, ExpireHints
  PROVE  HintsInv'
<1>1. /\ pushed' = pushed /\ clock' = clock /\ told' = told /\ hints' \subseteq hints
      /\ Confirmations' = Confirmations
  BY DEF ExpireHints, Confirmations
<1>2. ASSUME NEW i \in expired' \ expired
      PROVE  \E h \in hints : h.id = i /\ h \notin hints' /\ ~ h.finalized
  BY DEF ExpireHints, Ids, Overdue
<1>3. \A h \in hints' : h.id \notin expired'
  BY <1>1, <1>2 DEF HintsInv
<1>4. \A i \in expired' : i \in Nat /\ i <= pushed'
  BY <1>1, <1>2 DEF HintsInv, HintRecords
<1>5. HintConcludedOnce'
  BY <1>1, <1>2 DEF HintsInv, HintConcludedOnce
<1> QED BY <1>1, <1>3, <1>4, <1>5 DEF HintsInv

\* For every fill, capacity, window and bound, a hint is confirmed by at most one log and
\* never both confirmed and expired (PendingTradeHintRing, FillReconciler).
THEOREM HintsEndOnce == ChainSpec => []HintConcludedOnce
<1>1. ChainInit => HintsInv
  BY DEF ChainInit, HintsInv, HintConcludedOnce, Confirmations
<1>2. HintsInv /\ [ChainNext]_chainVars => HintsInv'
  <2> SUFFICES ASSUME HintsInv, [ChainNext]_chainVars PROVE HintsInv'
    OBVIOUS
  <2>1. CASE ChainTick
    BY <2>1 DEF ChainTick, HintsInv, HintConcludedOnce, Confirmations
  <2>2. CASE UNCHANGED chainVars
    BY <2>2 DEF chainVars, HintsInv, HintConcludedOnce, Confirmations
  <2> QED BY <2>1, <2>2, HintArrives, LogRead, HintsExpire, Zenon DEF ChainNext
<1>3. HintsInv => HintConcludedOnce
  BY Zenon DEF HintsInv
<1> QED BY <1>1, <1>2, <1>3, PTL DEF ChainSpec

-----------------------------------------------------------------------------
(* The double buffer, for any number of readers and publications.          *)

WriterPcs == {"idle", "writeLow", "writeHigh", "flag", "flip"}
ReaderPcs == {"idle", "copyLow", "copyHigh"}

PubTypes ==
  /\ published \in BOOLEAN /\ active \in 0 .. 1
  /\ slots \in [0 .. 1 -> [low : Nat, high : Nat]]
  /\ mutex \in BatchReaders \cup {"free"}
  /\ writer \in [pc : WriterPcs, slot : 0 .. 1, version : Nat]
  /\ reader \in [AllReaders -> [pc : ReaderPcs, slot : 0 .. 1, low : Nat, overlap : Nat]]
  /\ reads \in [AllReaders -> [result : {"none", "missing", "ok"}, low : Nat, high : Nat,
                               overlap : Nat]]

\* The writer works on the inactive slot, and only that slot is ever half written.
WriterInv ==
  /\ writer.pc # "idle" => writer.slot = 1 - active
  /\ writer.pc = "writeHigh" => slots[writer.slot].low = writer.version
  /\ \A i \in 0 .. 1 :
       ~ (writer.pc = "writeHigh" /\ writer.slot = i) => slots[i].low = slots[i].high

\* While at most one publication overlaps a read, its slot is not written.
ReaderInv(r) ==
  /\ reader[r].pc # "idle" /\ reader[r].overlap = 0
       => writer.pc = "idle" /\ reader[r].slot = active
  /\ reader[r].pc # "idle" /\ reader[r].overlap <= 1 /\ writer.pc # "idle"
       => reader[r].slot # writer.slot
  /\ reader[r].pc = "copyHigh" /\ reader[r].overlap <= 1
       => reader[r].low = slots[reader[r].slot].low
  /\ reads[r].result = "ok" /\ reads[r].overlap <= 1 => reads[r].low = reads[r].high

\* A batch reader that copies holds the mutex, so at most one publication overlaps it.
BatchInv(r) ==
  /\ reader[r].pc # "idle" => mutex = r /\ reader[r].overlap <= 1
  /\ mutex = r => reader[r].pc # "idle"
  /\ reads[r].result = "ok" => reads[r].overlap <= 1

PubInv ==
  /\ PubTypes
  /\ WriterInv
  /\ \A r \in AllReaders : ReaderInv(r)
  /\ \A r \in BatchReaders : BatchInv(r)

\* The initial state satisfies the invariant (PubInit: an empty, unpublished buffer).
LEMMA PubInitInv == PubInit => PubInv
BY ReadersAssumption
   DEF PubInit, PubInv, PubTypes, WriterInv, ReaderInv, BatchInv, WriterPcs, ReaderPcs,
       AllReaders, Empty

\* A publication that begins takes the inactive slot; no batch reader is copying.
LEMMA BeginInv ==
  ASSUME PubInv, NEW v \in InputVersions, PublishBegin(v)
  PROVE  PubInv'
<1> USE DEF PubInv
<1>1. v \in Nat /\ slots[active].low \in Nat /\ NextVersion(v, slots[active].low) \in Nat
  BY ReadersAssumption DEF PubTypes, NextVersion
<1>2. Target(active) \in 0 .. 1 /\ Target(active) = 1 - active
  BY DEF PubTypes, Target
<1>3. writer' = [pc |-> "writeLow", slot |-> Target(active),
                 version |-> NextVersion(v, slots[active].low)]
  BY DEF PublishBegin
<1>4. UNCHANGED << published, active, slots, mutex, reads >> /\ writer.pc = "idle"
  BY DEF PublishBegin, bufferVars
<1>5. \A r \in AllReaders :
        reader'[r] = IF reader[r].pc = "idle" THEN reader[r]
                     ELSE [reader[r] EXCEPT !.overlap = @ + 1]
  BY DEF PublishBegin, Overlapped
<1>6. PubTypes'
  <2>1. reader' \in [AllReaders -> [pc : ReaderPcs, slot : 0 .. 1, low : Nat, overlap : Nat]]
    <3>1. \A r \in AllReaders :
            Overlapped[r] \in [pc : ReaderPcs, slot : 0 .. 1, low : Nat, overlap : Nat]
      BY DEF Overlapped, PubTypes
    <3>2. Overlapped = [r \in AllReaders |-> Overlapped[r]]
      BY DEF Overlapped
    <3>3. reader' = Overlapped
      BY Zenon DEF PublishBegin
    <3> HIDE DEF PubInv
    <3> QED BY <3>1, <3>2, <3>3
  <2>2. writer' \in [pc : WriterPcs, slot : 0 .. 1, version : Nat]
    BY <1>1, <1>2, <1>3, Zenon DEF WriterPcs
  <2> QED BY <2>1, <2>2, <1>4 DEF PubTypes
<1>7. WriterInv'
  BY <1>2, <1>3, <1>4 DEF WriterInv
<1>8. ASSUME NEW r \in AllReaders PROVE ReaderInv(r)'
  <2>1. reader[r] \in [pc : ReaderPcs, slot : 0 .. 1, low : Nat, overlap : Nat]
    BY DEF PubTypes
  <2>2. ReaderInv(r)
    OBVIOUS
  <2>3. CASE reader[r].pc = "idle"
    BY <2>1, <2>2, <2>3, <1>4, <1>5, Zenon DEF ReaderInv
  <2>4. CASE reader[r].pc # "idle"
    <3>1. /\ reader'[r].pc = reader[r].pc /\ reader'[r].slot = reader[r].slot
          /\ reader'[r].low = reader[r].low /\ reader'[r].overlap = reader[r].overlap + 1
      BY <2>1, <2>4, <1>5, Zenon
    <3>2. active \in 0 .. 1
      BY Zenon DEF PubTypes
    <3> HIDE DEF PubInv
    <3>3. reader[r].overlap \in Nat
      BY <2>1
    <3>4. /\ reader'[r].overlap # 0
          /\ reader'[r].overlap <= 1 => reader[r].overlap = 0 /\ reader[r].overlap <= 1
      BY <3>1, <3>3
    <3>5. writer'.slot # active
      <4>1. 1 - active # active
        BY <3>2
      <4> QED BY <4>1, <1>2, <1>3
    <3>6. /\ reader[r].overlap = 0 => reader[r].slot = active
          /\ reader[r].pc = "copyHigh" /\ reader[r].overlap <= 1
               => reader[r].low = slots[reader[r].slot].low
          /\ reads[r].result = "ok" /\ reads[r].overlap <= 1 => reads[r].low = reads[r].high
      BY <2>2, <2>4, Zenon DEF ReaderInv
    <3>7. slots' = slots /\ reads' = reads
      BY <1>4, Zenon
    <3>8. /\ reader'[r].overlap <= 1 => reader'[r].slot # writer'.slot
          /\ reader'[r].pc = "copyHigh" /\ reader'[r].overlap <= 1
               => reader'[r].low = slots'[reader'[r].slot].low
          /\ reads'[r].result = "ok" /\ reads'[r].overlap <= 1 => reads'[r].low = reads'[r].high
      BY <3>1, <3>4, <3>5, <3>6, <3>7, Zenon
    <3> QED BY <3>4, <3>8, Zenon DEF ReaderInv
  <2> QED BY <2>3, <2>4
<1>9. ASSUME NEW r \in BatchReaders PROVE BatchInv(r)'
  <2>1. mutex = "free" /\ mutex # r /\ BatchInv(r) /\ r \in AllReaders
    BY ReadersAssumption DEF PublishBegin, AllReaders
  <2>2. reader[r].pc = "idle" /\ reader'[r] = reader[r]
    BY <2>1, <1>5, Zenon DEF BatchInv
  <2> QED BY <2>1, <2>2, <1>4, Zenon DEF BatchInv
<1> QED BY <1>6, <1>7, <1>8, <1>9

\* The other steps of a publication touch the slot that is not read, the flag, or flip.
LEMMA PublishInv ==
  ASSUME PubInv, PublishLow \/ PublishHigh \/ PublishFlag \/ PublishFlip
  PROVE  PubInv'
<1> USE DEF PubInv
<1>0. UNCHANGED << mutex, reader, reads >>
  BY DEF PublishLow, PublishHigh, PublishFlag, PublishFlip
<1>1. /\ writer \in [pc : WriterPcs, slot : 0 .. 1, version : Nat]
      /\ slots \in [0 .. 1 -> [low : Nat, high : Nat]]
      /\ active \in 0 .. 1
      /\ writer.slot = 1 - active /\ writer.pc # "idle"
  BY Zenon DEF PubTypes, WriterInv, PublishLow, PublishHigh, PublishFlag, PublishFlip
<1>2. ASSUME NEW r \in BatchReaders PROVE BatchInv(r)'
  <2>1. BatchInv(r)
    OBVIOUS
  <2> QED BY <2>1, <1>0 DEF BatchInv
<1>3. PubTypes'
  <2>1. slots' \in [0 .. 1 -> [low : Nat, high : Nat]]
    BY <1>1 DEF PublishLow, PublishHigh, PublishFlag, PublishFlip
  <2>2. writer' \in [pc : WriterPcs, slot : 0 .. 1, version : Nat]
    BY <1>1 DEF PublishLow, PublishHigh, PublishFlag, PublishFlip, WriterPcs
  <2>3. published' \in BOOLEAN /\ active' \in 0 .. 1
    BY <1>1, Zenon DEF PubTypes, PublishLow, PublishHigh, PublishFlag, PublishFlip
  <2> QED BY <2>1, <2>2, <2>3, <1>0 DEF PubTypes
<1>4. WriterInv'
  BY <1>1 DEF WriterInv, PublishLow, PublishHigh, PublishFlag, PublishFlip
<1>5. ASSUME NEW r \in AllReaders PROVE ReaderInv(r)'
  <2>1. reader[r] \in [pc : ReaderPcs, slot : 0 .. 1, low : Nat, overlap : Nat]
    BY DEF PubTypes
  <2>2. ReaderInv(r)
    BY Zenon
  <2>3. reader[r].pc # "idle" /\ reader[r].overlap <= 1
          => reader[r].slot # writer.slot /\ slots'[reader[r].slot] = slots[reader[r].slot]
    BY <1>1, <2>1, <2>2 DEF ReaderInv, PublishLow, PublishHigh, PublishFlag, PublishFlip
  <2>4. writer'.slot = writer.slot
    BY <1>1 DEF PublishLow, PublishHigh, PublishFlag, PublishFlip
  <2> QED BY <1>0, <1>1, <2>1, <2>2, <2>3, <2>4, Zenon DEF ReaderInv, ReaderPcs
<1> QED BY <1>2, <1>3, <1>4, <1>5

\* The steps of the readers: they copy from a slot that at most one publication leaves
\* alone, and a batch reader holds the mutex from its first copy to its last.
LEMMA ReadInv ==
  ASSUME PubInv, NEW q \in AllReaders,
         ReadMissing(q) \/ ReadBegin(q) \/ ReadLow(q) \/ ReadHigh(q)
  PROVE  PubInv'
<1> USE DEF PubInv
<1>0. UNCHANGED << published, active, slots, writer >>
  BY Zenon DEF ReadMissing, ReadBegin, ReadLow, ReadHigh, bufferVars
<1>1. /\ reader \in [AllReaders -> [pc : ReaderPcs, slot : 0 .. 1, low : Nat, overlap : Nat]]
      /\ reads \in [AllReaders -> [result : {"none", "missing", "ok"}, low : Nat,
                                   high : Nat, overlap : Nat]]
      /\ slots \in [0 .. 1 -> [low : Nat, high : Nat]]
      /\ active \in 0 .. 1
      /\ mutex \in BatchReaders \cup {"free"}
      /\ writer.pc \in WriterPcs
  BY DEF PubTypes
<1>2. /\ reader[q] \in [pc : ReaderPcs, slot : 0 .. 1, low : Nat, overlap : Nat]
      /\ reads[q] \in [result : {"none", "missing", "ok"}, low : Nat, high : Nat,
                       overlap : Nat]
  BY <1>1, Zenon
<1>3. WriterInv'
  BY <1>0 DEF WriterInv
<1>4. \A r \in AllReaders : r # q => reader'[r] = reader[r] /\ reads'[r] = reads[r]
  BY <1>1, Zenon DEF ReadMissing, ReadBegin, ReadLow, ReadHigh
<1>5. PubTypes'
  <2>1. reader' \in [AllReaders -> [pc : ReaderPcs, slot : 0 .. 1, low : Nat, overlap : Nat]]
    BY <1>1, <1>2 DEF ReadMissing, ReadBegin, ReadLow, ReadHigh, ReaderPcs
  <2>2. reads' \in [AllReaders -> [result : {"none", "missing", "ok"}, low : Nat,
                                   high : Nat, overlap : Nat]]
    BY <1>1, <1>2 DEF ReadMissing, ReadBegin, ReadLow, ReadHigh
  <2>3. mutex' \in BatchReaders \cup {"free"}
    BY <1>1 DEF ReadMissing, ReadBegin, ReadLow, ReadHigh, Holder, Released
  <2> QED BY <2>1, <2>2, <2>3, <1>0 DEF PubTypes
<1>6. ASSUME NEW r \in AllReaders PROVE ReaderInv(r)'
  <2>1. CASE r # q
    <3>1. ReaderInv(r)
      OBVIOUS
    <3> QED BY <2>1, <3>1, <1>0, <1>4, Zenon DEF ReaderInv
  <2>2. CASE r = q
    <3>1. ReaderInv(q)
      BY Zenon
    <3>2. CASE ReadMissing(q)
      <4>1. reader' = reader /\ reads'[q].result = "missing"
        BY <3>2, <1>1, <1>2 DEF ReadMissing
      <4> QED BY <4>1, <2>2, <3>1, <1>0, Zenon DEF ReaderInv
    <3>3. CASE ReadBegin(q)
      <4>1. /\ reader'[q].pc = "copyLow" /\ reader'[q].slot = active
            /\ reader'[q].overlap = (IF writer.pc = "idle" THEN 0 ELSE 1)
            /\ reads' = reads
        BY <3>3, <1>1 DEF ReadBegin
      <4>2. writer' = writer /\ active' = active
        BY <1>0, Zenon
      <4>3. writer.pc # "idle" => writer.slot = 1 - active
        BY Zenon DEF WriterInv
      <4>4. active \in 0 .. 1
        BY Zenon DEF PubTypes
      <4>5. reads[q].result = "ok" /\ reads[q].overlap <= 1 => reads[q].low = reads[q].high
        BY <3>1, Zenon DEF ReaderInv
      <4> HIDE DEF PubInv
      <4>6. writer.pc # "idle" => reader'[q].slot # writer.slot
        <5>1. 1 - active # active
          BY <4>4
        <5> QED BY <4>1, <4>3, <5>1, Zenon
      <4>7. reader'[q].overlap = 0 => writer'.pc = "idle" /\ reader'[q].slot = active'
        <5>1. writer.pc # "idle" => reader'[q].overlap # 0
          BY <4>1
        <5> QED BY <4>1, <4>2, <5>1, Zenon
      <4>8. reads'[q].result = "ok" /\ reads'[q].overlap <= 1 => reads'[q].low = reads'[q].high
        BY <4>1, <4>5, Zenon
      <4>9. writer'.pc # "idle" => reader'[q].slot # writer'.slot
        BY <4>2, <4>6, Zenon
      <4>10. reader'[q].pc # "copyHigh"
        BY <4>1, Zenon
      <4>11. ReaderInv(q)'
        BY <4>7, <4>8, <4>9, <4>10, Zenon DEF ReaderInv
      <4> QED BY <4>11, <2>2, Zenon
    <3>4. CASE ReadLow(q)
      <4>1. /\ reader'[q].pc = "copyHigh" /\ reader'[q].slot = reader[q].slot
            /\ reader'[q].overlap = reader[q].overlap
            /\ reader'[q].low = slots[reader[q].slot].low
            /\ reads' = reads /\ reader[q].pc = "copyLow"
        BY <3>4, <1>1, <1>2, Zenon DEF ReadLow, At
      <4> QED BY <4>1, <2>2, <3>1, <1>0, <1>1, Zenon DEF ReaderInv
    <3>5. CASE ReadHigh(q)
      <4>1. /\ reader'[q].pc = "idle" /\ reader[q].pc = "copyHigh"
            /\ reads'[q].low = reader[q].low
            /\ reads'[q].high = slots[reader[q].slot].high
            /\ reads'[q].overlap = reader[q].overlap
        BY <3>5, <1>1, <1>2, Zenon DEF ReadHigh, At
      <4>2. reader[q].overlap <= 1 => slots[reader[q].slot].low = slots[reader[q].slot].high
        BY <4>1, <3>1, <1>2, Zenon DEF ReaderInv, WriterInv
      <4> QED BY <4>1, <4>2, <2>2, <3>1, <1>0, <1>2, Zenon DEF ReaderInv
    <3> QED BY <3>2, <3>3, <3>4, <3>5
  <2> QED BY <2>1, <2>2, Zenon
<1>7. ASSUME NEW r \in BatchReaders PROVE BatchInv(r)'
  <2>0. r \in AllReaders /\ r # "free" /\ BatchInv(r)
    BY ReadersAssumption, Zenon DEF AllReaders
  <2>1. CASE r # q
    <3>1. mutex' = r <=> mutex = r
      BY <2>0, <2>1, Zenon DEF ReadMissing, ReadBegin, ReadLow, ReadHigh, Holder, Released, MayEnter
    <3> QED BY <2>0, <2>1, <3>1, <1>4, Zenon DEF BatchInv
  <2>2. CASE r = q
    BY <2>0, <2>2, <1>1, <1>2
       DEF BatchInv, ReadMissing, ReadBegin, ReadLow, ReadHigh, Holder, Released, At
  <2> QED BY <2>1, <2>2
<1> QED BY <1>3, <1>5, <1>6, <1>7, Zenon

\* Every reachable state of the double buffer satisfies the invariant.
THEOREM PubInvariant == PubSpec => []PubInv
<1>1. PubInv /\ [PubNext]_pubVars => PubInv'
  <2> SUFFICES ASSUME PubInv, [PubNext]_pubVars PROVE PubInv'
    OBVIOUS
  <2>1. CASE UNCHANGED pubVars
    BY <2>1, Zenon DEF pubVars, PubInv, PubTypes, WriterInv, ReaderInv, BatchInv
  <2>2. CASE PubNext
    BY <2>2, BeginInv, PublishInv, ReadInv DEF PubNext
  <2> QED BY <2>1, <2>2, Zenon
<1> QED BY <1>1, PubInitInv, PTL DEF PubSpec

\* A read (read, read_many, read_depth_many) that at most one publication overlapped
\* returns the words of one snapshot, for any number of readers and publications.
THEOREM OnePublishIsSafe == PubSpec => []ValidDuringOnePublish
<1>1. PubInv => ValidDuringOnePublish
  BY Zenon DEF PubInv, ReaderInv, ValidDuringOnePublish, Whole
<1> QED BY <1>1, PubInvariant, PTL

\* read_many and read_depth_many return the words of one snapshot whatever the writer
\* does, because publish must take the mutex they hold before it can begin.
THEOREM BatchReadsAreWhole == PubSpec => []BatchReadsWhole
<1>1. PubInv => BatchReadsWhole
  BY Zenon DEF PubInv, ReaderInv, BatchInv, BatchReadsWhole, Whole, AllReaders
<1> QED BY <1>1, PubInvariant, PTL

\* The mutex is never left held by a batch reader that has returned.
THEOREM PubTypeCorrect == PubSpec => []PubTypeOK
<1>1. PubInv => PubTypeOK
  BY DEF PubInv, PubTypes, BatchInv, PubTypeOK, At
<1> QED BY <1>1, PubInvariant, PTL

=============================================================================
