---------------------------- MODULE ChainConfirm ----------------------------
(***************************************************************************)
(* Confirmation of trades on chain (engine/chain_confirm): hints of trades *)
(* from the market's WebSocket wait in a ring until a fill of the same     *)
(* market, asset, price and size (here: its shape) is read from the chain. *)
(* A fill's log arrives from the log subscription and from the backfill,   *)
(* so possibly twice, and is sent once more as removed after a reorg.      *)
(***************************************************************************)
EXTENDS Naturals, Sequences, FiniteSets

CONSTANTS
  Fills,          \* the logs of the chain: [id, shape, mapped]
  Shapes,         \* what a hint and a fill are compared by
  Capacity,       \* of the ring
  PendingWindow, ExpireUnmatched, MaxCandidateMatches,   \* ChainConfirmConfig
  ChainClock,     \* the instants, an interval from 0
  MaxHints,       \* bound on hints
  MaxLogs         \* bound on logs read

\* A fill_id names one log; so does a hint_id one hint, as they are counted.
ASSUME FillsAssumption == \A f, g \in Fills : f.id = g.id => f = g

VARIABLES
  clock,
  hints,      \* PendingTradeHintRing: [id, shape, recv, finalized], in the order of the ids
  store,      \* ConfirmedFillStore: the ids it holds, mapped to "removed"
  pushed,     \* history: number of hints received
  told,       \* history: the results of on_chain_fill
  expired,    \* history: the hints expire_unmatched returned
  lastLog     \* history: the last log read of each fill, "none" if there was none

chainVars == << clock, hints, store, pushed, told, expired, lastLog >>

Distance(a, b) == IF a >= b THEN a - b ELSE b - a

ChainInit ==
  /\ clock = 0
  /\ hints = {}
  /\ store = << >>
  /\ pushed = 0
  /\ told = << >>
  /\ expired = {}
  /\ lastLog = [f \in Fills |-> "none"]

-----------------------------------------------------------------------------
(* PendingTradeHintRing.                                                    *)

Oldest == CHOOSE h \in hints : \A g \in hints : h.id <= g.id

Push(hint) ==
  (IF Cardinality(hints) >= Capacity THEN hints \ {Oldest} ELSE hints) \cup {hint}

\* Faulty variant: a hint that was confirmed can be confirmed again.
CandidatesAgain(fill) ==
  {h \in hints : h.shape = fill.shape /\ Distance(h.recv, clock) <= PendingWindow}

\* The hints a fill could be the confirmation of.
Candidates(fill) ==
  {h \in hints : /\ ~ h.finalized
                 /\ h.shape = fill.shape
                 /\ Distance(h.recv, clock) <= PendingWindow}

\* The candidates that are kept: the nearest in time when there are too many.
Kept(matching) ==
  {kept \in SUBSET matching :
     IF MaxCandidateMatches > 0 /\ Cardinality(matching) > MaxCandidateMatches
     THEN /\ Cardinality(kept) = MaxCandidateMatches
          /\ \A h \in kept, g \in matching \ kept :
               Distance(h.recv, clock) <= Distance(g.recv, clock)
     ELSE kept = matching}

Overdue(hint) == ~ hint.finalized /\ clock - hint.recv > ExpireUnmatched

-----------------------------------------------------------------------------
(* ConfirmedFillStore.                                                      *)

\* Faulty variant: a log that is known is a duplicate, removed or not.
UpsertOnce(fill, removed) ==
  IF fill.id \in DOMAIN store /\ ~ removed THEN store
  ELSE [i \in DOMAIN store \cup {fill.id} |-> IF i = fill.id THEN removed ELSE store[i]]

\* upsert: a removal marks the fill, a log that comes back replaces what is there.
Upsert(fill, removed) ==
  [i \in DOMAIN store \cup {fill.id} |-> IF i = fill.id THEN removed ELSE store[i]]

-----------------------------------------------------------------------------
(* FillReconciler.                                                          *)

\* A result, with the hints that matched before the candidates were cut (history).
Result(status, fill, ids, matching) ==
  [status |-> status, fill |-> fill.id, hints |-> ids, matching |-> matching]

Ids(hs) == {h.id : h \in hs}

\* on_ws_hint.
OnWsHint(shape) ==
  /\ pushed < MaxHints
  /\ pushed' = pushed + 1
  /\ hints' = Push([id |-> pushed + 1, shape |-> shape, recv |-> clock, finalized |-> FALSE])
  /\ UNCHANGED << clock, store, told, expired, lastLog >>

\* The part of on_chain_fill that every log goes through: whatever upsert answers.
Record(fill, removed) ==
  /\ Len(told) < MaxLogs
  /\ store' = Upsert(fill, removed)
  /\ lastLog' = [lastLog EXCEPT ![fill] = IF removed THEN "removed" ELSE "present"]
  /\ UNCHANGED << clock, pushed, expired >>

\* on_chain_fill of a removed log: a hint it confirmed stays final.
OnRemovedLog(fill) ==
  /\ Record(fill, TRUE)
  /\ told' = Append(told, Result("RemovedByReorg", fill, {}, {}))
  /\ UNCHANGED hints

\* on_chain_fill of a log whose token is not known.
OnUnmappedFill(fill) ==
  /\ ~ fill.mapped
  /\ Record(fill, FALSE)
  /\ told' = Append(told, Result("UnmatchedFill", fill, {}, {}))
  /\ UNCHANGED hints

\* on_chain_fill, when matching is what the window holds and kept what is compared.
Reconcile(fill, matching, kept) ==
  \/ /\ kept = {}
     /\ told' = Append(told, Result("UnmatchedFill", fill, {}, {}))
     /\ UNCHANGED hints
  \/ /\ Cardinality(kept) > 1
     /\ told' = Append(told, Result("Ambiguous", fill, Ids(kept), Ids(matching)))
     /\ UNCHANGED hints
  \/ \E h \in kept :
       /\ kept = {h}
       /\ hints' = (hints \ {h}) \cup {[h EXCEPT !.finalized = TRUE]}
       /\ told' = Append(told, Result("ConfirmedOneToOne", fill, Ids(kept), Ids(matching)))

OnChainFill(fill) ==
  /\ fill.mapped
  /\ Record(fill, FALSE)
  /\ \E matching \in {Candidates(fill)} : \E kept \in Kept(matching) :
       Reconcile(fill, matching, kept)

\* expire_unmatched.
ExpireHints ==
  /\ \E h \in hints : Overdue(h)
  /\ hints' = {h \in hints : ~ Overdue(h)}
  /\ expired' = expired \cup Ids({h \in hints : Overdue(h)})
  /\ UNCHANGED << clock, store, pushed, told, lastLog >>

ChainTick ==
  /\ clock + 1 \in ChainClock
  /\ clock' = clock + 1
  /\ UNCHANGED << hints, store, pushed, told, expired, lastLog >>

ChainNext ==
  \/ \E shape \in Shapes : OnWsHint(shape)
  \/ \E fill \in Fills : OnRemovedLog(fill) \/ OnUnmappedFill(fill) \/ OnChainFill(fill)
  \/ ExpireHints
  \/ ChainTick

ChainSpec == ChainInit /\ [][ChainNext]_chainVars

-----------------------------------------------------------------------------
(* Properties.                                                              *)

\* What was confirmed: the results that finalized a hint.
Confirmations == {n \in DOMAIN told : told[n].status = "ConfirmedOneToOne"}

\* A hint has one end: it is confirmed by one log at most, and what was reported confirmed is
\* never reported expired, although it stays in the ring (candidates and expire skip what is
\* finalized).
HintConcludedOnce ==
  /\ \A m, n \in Confirmations : m # n => told[m].hints \cap told[n].hints = {}
  /\ \A n \in Confirmations : told[n].hints \cap expired = {}

\* The store answers what the chain said last: a fill is active when its last log was not a
\* removal, also when the log comes back after a reorg (ConfirmedFillStore::upsert).
StoreFollowsChain ==
  \A f \in Fills :
    /\ f.id \in DOMAIN store <=> lastLog[f] # "none"
    /\ f.id \in DOMAIN store => store[f.id] = (lastLog[f] = "removed")

\* Confirmation is one to one: a fill of the chain confirms one hint at most, however often
\* its log is read (on_chain_fill).
FillConfirmsOneHint ==
  \A m, n \in Confirmations : m # n => told[m].fill # told[n].fill
=============================================================================
