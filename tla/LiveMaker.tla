----------------------------- MODULE LiveMaker -----------------------------
(***************************************************************************)
(* A maker with either of its adapters: the paper one of MakerTrading, or  *)
(* the live one (engine/execution/adapter/LiveMakerExecutionAdapter.cpp).  *)
(*                                                                         *)
(* The live adapter signs each leg of a quote and sends it to a venue that *)
(* may refuse an order, match it at once or take it and lose the answer,   *)
(* fill what rests at any time, and cancel with or without an answer.  A   *)
(* call is one step; the answers it meets are chosen with it.  A venue     *)
(* order is [group, quote, side, acked, state], named by its place.        *)
(***************************************************************************)
EXTENDS MakerTrading

CONSTANTS
  LiveConfigs,     \* [enabled, sides, require_resting, max_orders, max_notional]
  MaxLiveCalls     \* bound: submissions and cancels of the live adapter

VARIABLE live      \* the live adapter and the venue, or NoAdapter

NoAdapter == << >>

liveVars == << makerVars, live >>

NewAdapter(cfg) ==
  [config |-> cfg, accepted_orders_by_group |-> << >>, submitted_hashes |-> {}, venue |-> << >>,
   calls |-> 0]

-----------------------------------------------------------------------------
(* Cancelling a group.                                                      *)

CancelAnswers == {"ok", "refused", "lost"}

Open(s, id) == s.venue[id].state = "open"

\* What the venue does: an order that no longer rests cannot be cancelled.
CancelledAtVenue(s, ids, answers) ==
  {id \in ids : Open(s, id) /\ answers[s.venue[id].side] # "refused"}

Told(s, ids, answers) == {id \in CancelledAtVenue(s, ids, answers) : answers[s.venue[id].side] = "ok"}

GroupIds(s, g) ==
  IF g \in DOMAIN s.accepted_orders_by_group THEN s.accepted_orders_by_group[g] ELSE {}

\* Faulty variant: the group is forgotten once one of its orders is cancelled.
AllCancelledAny(s, g, answers) == Told(s, GroupIds(s, g), answers) # {}

\* cancel_existing_group succeeds when every order of the group was cancelled in this call.
AllCancelled(s, g, answers) ==
  GroupIds(s, g) # {} /\ Told(s, GroupIds(s, g), answers) = GroupIds(s, g)

\* cancel_existing_group: the group is forgotten on success and kept whole otherwise.
CancelExistingGroup(s, g, answers) ==
  [s EXCEPT
     !.venue = [id \in DOMAIN s.venue |->
                  IF id \in CancelledAtVenue(s, GroupIds(s, g), answers)
                  THEN [s.venue[id] EXCEPT !.state = "cancelled"] ELSE s.venue[id]],
     !.accepted_orders_by_group = IF AllCancelled(s, g, answers) THEN Without(@, {g}) ELSE @]

-----------------------------------------------------------------------------
(* Submitting a quote.                                                      *)

SubmitAnswers == {"live", "matched", "refused", "lost"}

\* side_allowed, the checks of the leg, and notional_allowed.
LegAllowed(s, quote, side) ==
  /\ side \in s.config.sides
  /\ quote.legs[side].lots > 0 /\ quote.legs[side].price > 0
  /\ s.config.max_notional > 0 =>
       quote.legs[side].lots * quote.legs[side].price <= s.config.max_notional

\* Whether submit_leg succeeds.
LegTaken(s, quote, side, answer) ==
  /\ LegAllowed(s, quote, side)
  /\ answer = "live" \/ (answer = "matched" /\ ~ s.config.require_resting)

\* submit_leg: the order may exist at the venue when the leg has failed.
SubmitLeg(s, quote, side, answer) ==
  IF ~ LegAllowed(s, quote, side) \/ answer = "refused" THEN s
  ELSE [s EXCEPT
          !.venue = Append(@, [group |-> quote.group, quote |-> quote.id, side |-> side,
                               acked |-> answer \in {"live", "matched"},
                               state |-> IF answer = "matched" THEN "filled" ELSE "open"]),
          !.accepted_orders_by_group =
             IF LegTaken(s, quote, side, answer)
             THEN With(@, quote.group, GroupIds(s, quote.group) \cup {Len(s.venue) + 1})
             ELSE @]

\* One leg of submit_approved_quote: a leg that fails takes the group with it and ends the
\* call.
SubmitSide(r, quote, side, answers, cancels) ==
  LET sent == SubmitLeg(r.s, quote, side, answers[side])
  IN  IF ~ r.ok \/ side \notin DOMAIN quote.legs THEN r
      ELSE IF LegTaken(r.s, quote, side, answers[side]) THEN [ok |-> TRUE, s |-> sent]
      ELSE [ok |-> FALSE, s |-> CancelExistingGroup(sent, quote.group, cancels)]

\* The bid goes first; the hash is remembered once both legs are taken.
SubmitLegs(s, quote, answers, cancels) ==
  LET bid == SubmitSide([ok |-> TRUE, s |-> s], quote, "Bid", answers, cancels)
      ask == SubmitSide(bid, quote, "Ask", answers, cancels)
  IN  IF ask.ok /\ quote.hash # NoHash
      THEN [ask.s EXCEPT !.submitted_hashes = @ \cup {quote.hash}] ELSE ask.s

\* The early returns of submit_approved_quote; a hash is never forgotten.
Refused(s, quote) ==
  \/ ~ s.config.enabled
  \/ DOMAIN quote.legs = {}
  \/ quote.expires # 0 /\ quote.expires <= now
  \/ quote.hash # NoHash /\ quote.hash \in s.submitted_hashes

\* Faulty variant: a quote is sent although the one it replaces could not be cancelled.
ReplacedAnyway(s, quote, cancels) == TRUE

Replaced(s, quote, cancels) ==
  quote.group \in DOMAIN s.accepted_orders_by_group => AllCancelled(s, quote.group, cancels)

\* submit_approved_quote past its early returns.  The legs are counted after the group that
\* is replaced has been cancelled.  Only the bid can be left to clean up.
Replace(s, quote, answers, cancels, cleanup) ==
  LET gone == CancelExistingGroup(s, quote.group, cancels)
  IN  IF ~ Replaced(s, quote, cancels) \/ Cardinality(DOMAIN quote.legs) > s.config.max_orders
      THEN gone
      ELSE SubmitLegs(gone, quote, answers, [side \in Sides |-> cleanup])

-----------------------------------------------------------------------------
(* The maker.                                                               *)

Called(s) == [s EXCEPT !.calls = @ + 1]

LiveSubmit(quote, answers, cancels, cleanup) ==
  /\ live.calls < MaxLiveCalls /\ ~ Refused(live, quote)
  /\ live' = Called(Replace(live, quote, answers, cancels, cleanup))
  /\ UNCHANGED makerVars

\* cancel_quote_group.
LiveCancel(g, answers) ==
  /\ live.calls < MaxLiveCalls /\ live.config.enabled
  /\ live' = Called(CancelExistingGroup(live, g, answers))
  /\ UNCHANGED makerVars

\* The venue fills an order; nothing tells the adapter.
LiveVenueFills(id) ==
  /\ Open(live, id)
  /\ live' = [live EXCEPT !.venue[id].state = "filled"]
  /\ UNCHANGED makerVars

LiveTick == MakerTick /\ UNCHANGED live

LiveInit ==
  /\ MakerInit
  /\ \/ live = NoAdapter
     \/ live \in {NewAdapter(cfg) : cfg \in LiveConfigs}
        /\ config = CHOOSE c \in MakerConfigs : TRUE

LiveNext ==
  \/ live = NoAdapter /\ MakerNext /\ UNCHANGED live
  \/ /\ live # NoAdapter
     /\ \/ \E quote \in ApprovedQuotes :
             \E answers \in [DOMAIN quote.legs -> SubmitAnswers],
                cancels \in [Sides -> CancelAnswers], cleanup \in CancelAnswers :
               LiveSubmit(quote, answers, cancels, cleanup)
        \/ \E g \in DOMAIN live.accepted_orders_by_group, answers \in [Sides -> CancelAnswers] :
             LiveCancel(g, answers)
        \/ \E id \in DOMAIN live.venue : LiveVenueFills(id)
        \/ LiveTick

LiveSpec == LiveInit /\ [][LiveNext]_liveVars

-----------------------------------------------------------------------------
(* Properties.                                                              *)

Orders == IF live = NoAdapter THEN {} ELSE DOMAIN live.venue

Resting == {id \in Orders : Open(live, id) /\ live.venue[id].acked}

\* A group never has two orders of one side resting that the venue confirmed, whichever
\* cancels failed or were answered in part: submit_approved_quote cancels the whole group
\* before it sends its replacement.
OneOrderPerSide ==
  \A i, j \in Resting :
    live.venue[i].group = live.venue[j].group /\ live.venue[i].side = live.venue[j].side => i = j

\* An order that the venue confirmed as resting and that still rests can be cancelled: its
\* group still names it (submit_leg, cancel_existing_group).
RestingStaysCancellable ==
  \A id \in Resting : id \in GroupIds(live, live.venue[id].group)
=============================================================================
