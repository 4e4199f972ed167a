-------------------------- MODULE ReservationBook ---------------------------
(***************************************************************************)
(* The reservation book of the risk engine (engine/risk/ledger): an        *)
(* append-only vector of reservations, the index of the keys that are      *)
(* active, and the ledger of what the active reservations hold.            *)
(*                                                                         *)
(* The book is a record, and each operation of the C++ class is an         *)
(* operator from a book to a book, because RiskEngine runs several of them *)
(* inside one call.  The actions at the end of the module are the class    *)
(* used on its own.                                                        *)
(***************************************************************************)
EXTENDS Sequences, FiniteSets, PrefixSums

CONSTANTS
  Intents,          \* the OpportunityIntents offered to the book
  IdempotencyKeys,  \* idempotency_key strings; NoKey is the empty one
  NoKey,
  HashString,       \* hash_string, from keys to 64-bit hashes
  Assets,
  Markets,
  Times,            \* the values of now_ns that callers pass
  MaxReservations   \* bound: the vector of reservations grows without limit

\* An IntentLeg; the book reads its asset, market, lots and cost, the guards the rest.
Legs == [asset_id : Assets, market_id : Markets, side : {"Buy", "Sell"},
         quantity_lots : Nat, requested_qty_lots : Nat, executable_qty_lots : Nat,
         depth_margin_bps : Nat, enough_depth : BOOLEAN, estimated_cost_tick : Int]

\* The rows of the ledger: two totals, and a row per asset and per market.
Detail == Assets \cup Markets
Accounts == {"cost", "exposure"} \cup Detail

ASSUME IntentAssumption ==
  \A i \in Intents :
    /\ i.idempotency_hash \in Nat
    /\ i.idempotency_key \in IdempotencyKeys
    /\ i.estimated_cost_tick \in Int
    /\ i.expires_at_ns \in Nat
    /\ i.legs \in Seq(Legs)

ASSUME ConstantAssumption ==
  /\ NoKey \in IdempotencyKeys
  /\ HashString \in [IdempotencyKeys -> Nat]
  /\ Times \subseteq Nat
  /\ MaxReservations \in Nat
  /\ {"cost", "exposure"} \cap Detail = {}
  /\ Assets \cap Markets = {}

VARIABLE book

-----------------------------------------------------------------------------
(* Building a reservation.                                                 *)

NonNegative(x) == IF x > 0 THEN x ELSE 0

\* add_asset_lot and add_market_exposure, summed over the legs.
AssetLots(intent, a) ==
  PrefixSum([i \in 1 .. Len(intent.legs) |->
               IF intent.legs[i].asset_id = a THEN intent.legs[i].quantity_lots ELSE 0],
            Len(intent.legs))

MarketExposure(intent, m) ==
  PrefixSum([i \in 1 .. Len(intent.legs) |->
               IF intent.legs[i].market_id = m
               THEN NonNegative(intent.legs[i].estimated_cost_tick) ELSE 0],
            Len(intent.legs))

ReservationKeyFor(intent) ==
  << IF intent.idempotency_hash # 0 THEN intent.idempotency_hash
                                    ELSE HashString[intent.idempotency_key],
     intent.bundle_id >>

\* The keys active_reservation_keys_ can hold; an absent key maps to 0, which is no id.
Keys == {ReservationKeyFor(i) : i \in Intents}

\* The amounts a reservation puts on each row of the ledger.
Amounts(intent, track_ledger_detail) ==
  [c \in Accounts |->
     IF c = "cost" THEN intent.estimated_cost_tick
     ELSE IF c = "exposure" THEN NonNegative(intent.estimated_cost_tick)
     ELSE IF ~ track_ledger_detail THEN 0
     ELSE IF c \in Assets THEN AssetLots(intent, c)
     ELSE MarketExposure(intent, c)]

BuildReservation(intent, id, track_ledger_detail) ==
  [reservation_id  |-> id,
   key             |-> ReservationKeyFor(intent),
   amounts         |-> Amounts(intent, track_ledger_detail),
   expires_at_ns   |-> intent.expires_at_ns,
   status          |-> "Active",
   ledger_reserved |-> TRUE]

-----------------------------------------------------------------------------
(* The ledger.                                                             *)

Credit(ledger, amounts) == [c \in Accounts |-> ledger[c] + amounts[c]]

\* A detail row that is not in its map is skipped; a row that reaches zero is erased.
Debit(ledger, amounts) ==
  [c \in Accounts |->
     IF c \in Detail /\ ledger[c] = 0 THEN 0 ELSE ledger[c] - amounts[c]]

-----------------------------------------------------------------------------
(* The operations.                                                         *)

EmptyBook ==
  [next_reservation_id |-> 1,
   reservations        |-> << >>,
   active_keys         |-> [k \in Keys |-> 0],
   ledger              |-> [c \in Accounts |-> 0]]

\* Why try_reserve refuses an approved intent, in the order of its early returns.
ReserveRejection(b, intent, now) ==
  IF intent.idempotency_hash = 0 /\ intent.idempotency_key = NoKey THEN "MissingEvidence"
  ELSE IF ReservationKeyFor(intent)[1] = 0 THEN "MissingEvidence"
  ELSE IF intent.expires_at_ns <= now THEN "ExpiredIntent"
  ELSE IF b.active_keys[ReservationKeyFor(intent)] # 0 THEN "DuplicateReservation"
  ELSE "None"

\* Faulty variant: the id counter is not advanced.
ReserveSameId(b, intent, track_ledger_detail) ==
  LET r == BuildReservation(intent, b.next_reservation_id, track_ledger_detail)
  IN  [b EXCEPT !.reservations = Append(b.reservations, r),
                !.active_keys  = [b.active_keys EXCEPT ![r.key] = r.reservation_id],
                !.ledger       = Credit(b.ledger, r.amounts)]

\* try_reserve once every check has passed.
Reserve(b, intent, track_ledger_detail) ==
  LET id == b.next_reservation_id
      r  == BuildReservation(intent, id, track_ledger_detail)
  IN  [next_reservation_id |-> id + 1,
       reservations        |-> Append(b.reservations, r),
       active_keys         |-> [b.active_keys EXCEPT ![r.key] = id],
       ledger              |-> Credit(b.ledger, r.amounts)]

IsActive(b, i) == b.reservations[i].status = "Active"

Close(r, status) == [r EXCEPT !.ledger_reserved = FALSE, !.status = status]

Without(keys, gone) == [k \in Keys |-> IF k \in gone THEN 0 ELSE keys[k]]

\* release: a no-op for an id that is unknown or no longer active.
CanRelease(b, id) ==
  id \in DOMAIN b.reservations /\ b.reservations[id].reservation_id = id /\ IsActive(b, id)

ReleaseOne(b, id) ==
  LET r == b.reservations[id]
  IN  [b EXCEPT
         !.ledger       = IF r.ledger_reserved THEN Debit(b.ledger, r.amounts) ELSE b.ledger,
         !.active_keys  = Without(b.active_keys, {r.key}),
         !.reservations = [b.reservations EXCEPT ![id] = Close(r, "Released")]]

\* expire_old: one pass over the vector, in order.
Due(b, now) ==
  {i \in DOMAIN b.reservations : IsActive(b, i) /\ b.reservations[i].expires_at_ns <= now}

\* Faulty variant: the pass stops before the last reservation.
ExpireLedgerShort(b, now) ==
  LET L[k \in 0 .. Len(b.reservations)] ==
        IF k = 0 THEN b.ledger
        ELSE IF k \in Due(b, now) /\ k < Len(b.reservations)
        THEN Debit(L[k - 1], b.reservations[k].amounts)
        ELSE L[k - 1]
  IN  L[Len(b.reservations)]

ExpireLedger(b, now) ==
  LET L[k \in 0 .. Len(b.reservations)] ==
        IF k = 0 THEN b.ledger
        ELSE IF k \in Due(b, now) /\ b.reservations[k].ledger_reserved
        THEN Debit(L[k - 1], b.reservations[k].amounts)
        ELSE L[k - 1]
  IN  L[Len(b.reservations)]

Expire(b, now) ==
  [b EXCEPT
     !.ledger       = ExpireLedger(b, now),
     !.active_keys  = Without(b.active_keys, {b.reservations[i].key : i \in Due(b, now)}),
     !.reservations = [i \in DOMAIN b.reservations |->
                         IF i \in Due(b, now) THEN Close(b.reservations[i], "Expired")
                         ELSE b.reservations[i]]]

-----------------------------------------------------------------------------
(* The class used on its own.  Callers pass any time they like.            *)

Init == book = EmptyBook

TryReserve(intent, now, track_ledger_detail) ==
  /\ Len(book.reservations) < MaxReservations
  /\ ReserveRejection(book, intent, now) = "None"
  /\ book' = Reserve(book, intent, track_ledger_detail)

Release(id) ==
  /\ CanRelease(book, id)
  /\ book' = ReleaseOne(book, id)

ExpireOld(now) ==
  /\ Due(book, now) # {}
  /\ book' = Expire(book, now)

Next ==
  \/ \E intent \in Intents, now \in Times, track \in BOOLEAN :
       TryReserve(intent, now, track)
  \/ \E id \in 0 .. book.next_reservation_id : Release(id)
  \/ \E now \in Times : ExpireOld(now)

Spec == Init /\ [][Next]_book

-----------------------------------------------------------------------------
(* Properties.                                                             *)

Reservations ==
  [reservation_id : Nat, key : Keys,
   amounts : [Accounts -> Int], expires_at_ns : Nat,
   status : {"Active", "Released", "Expired"}, ledger_reserved : BOOLEAN]

\* Every field of the book has its type, ids are vector positions plus one (which is
\* what find_reservation indexes by), and no row but "cost" is ever charged a negative
\* amount.
BookType(b) ==
  /\ b \in [next_reservation_id : Nat, reservations : Seq(Reservations),
            active_keys : [Keys -> Nat], ledger : [Accounts -> Int]]
  /\ b.next_reservation_id = Len(b.reservations) + 1
  /\ \A i \in 1 .. Len(b.reservations) :
       /\ b.reservations[i].reservation_id = i
       /\ \A c \in Accounts \ {"cost"} : b.reservations[i].amounts[c] >= 0

\* active_reservation_keys_ holds exactly the keys of the active reservations, each
\* with its own id: so no two active reservations share a key, and a key is free
\* again once its reservation is released or has expired.
KeysMatchActive(b) ==
  /\ \A i \in 1 .. Len(b.reservations) :
       IsActive(b, i) => b.active_keys[b.reservations[i].key] = i
  /\ \A k \in Keys :
       b.active_keys[k] # 0 => /\ b.active_keys[k] \in 1 .. Len(b.reservations)
                               /\ IsActive(b, b.active_keys[k])
                               /\ b.reservations[b.active_keys[k]].key = k

\* What reservation i holds on row c.
Held(b, i, c) == IF IsActive(b, i) THEN b.reservations[i].amounts[c] ELSE 0

\* Each row of the ledger is the sum of what the active reservations hold on it: the
\* incremental reserve and release of RiskLedger, with its skipped and erased rows,
\* never drifts from the vector of reservations.
LedgerMatchesActive(b) ==
  \A c \in Accounts :
    b.ledger[c] = PrefixSum([i \in 1 .. Len(b.reservations) |-> Held(b, i, c)],
                            Len(b.reservations))

TypeOK == BookType(book)
ActiveKeysIndexTheActive == KeysMatchActive(book)
LedgerIsSumOfActive == LedgerMatchesActive(book)

\* A reservation is never removed, and one that was released or has expired is never
\* changed again: a late release of an expired reservation credits nothing twice.
ClosedStaysClosed ==
  [][\A i \in DOMAIN book.reservations :
       /\ i \in DOMAIN book'.reservations
       /\ ~ IsActive(book, i) => book'.reservations[i] = book.reservations[i]
       /\ book'.reservations[i].key = book.reservations[i].key]_book
=============================================================================
