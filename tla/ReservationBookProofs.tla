----------------------- MODULE ReservationBookProofs ------------------------
(***************************************************************************)
(* Theorems about ReservationBook.  BookInv is the inductive invariant:    *)
(* the type, the key index, the ledger, and the fact that the flag         *)
(* ledger_reserved is raised exactly while a reservation is active.        *)
(* Each operation on a book preserves it, whatever the intents, the assets *)
(* and the markets are.                                                    *)
(***************************************************************************)
EXTENDS ReservationBook, PrefixSumTheorems, SequenceTheorems

FlagMatchesActive(b) ==
  \A i \in 1 .. Len(b.reservations) :
    b.reservations[i].ledger_reserved <=> IsActive(b, i)

BookInv(b) ==
  /\ BookType(b)
  /\ KeysMatchActive(b)
  /\ LedgerMatchesActive(b)
  /\ FlagMatchesActive(b)

\* A function on 1..m is a sequence of length m.
LEMMA FunctionIsSeq ==
  ASSUME NEW S, NEW m \in Nat, NEW f \in [1 .. m -> S]
  PROVE  f \in Seq(S) /\ Len(f) = m
<1>1. f \in UNION {[1 .. k -> S] : k \in Nat}
  OBVIOUS
<1>2. f \in Seq(S)
  <2>1. Seq(S) = UNION {[1 .. k -> S] : k \in Nat}
    BY SeqDef
  <2> QED BY <1>1, <2>1, Zenon
<1>3. Len(f) \in Nat /\ DOMAIN f = 1 .. Len(f)
  BY <1>2, LenProperties
<1> QED BY <1>2, <1>3

-----------------------------------------------------------------------------
(* What a new reservation looks like.                                      *)

\* The per-leg totals of build_reservation are naturals.
LEMMA LegTotals ==
  ASSUME NEW intent \in Intents, NEW c
  PROVE  AssetLots(intent, c) \in Nat /\ MarketExposure(intent, c) \in Nat
<1> DEFINE n == Len(intent.legs)
           f == [i \in 1 .. n |->
                  IF intent.legs[i].asset_id = c THEN intent.legs[i].quantity_lots ELSE 0]
           g == [i \in 1 .. n |->
                  IF intent.legs[i].market_id = c
                  THEN NonNegative(intent.legs[i].estimated_cost_tick) ELSE 0]
<1>1. intent.legs \in Seq(Legs) /\ n \in Nat
  BY IntentAssumption
<1>2. \A i \in 1 .. n : /\ intent.legs[i].quantity_lots \in Nat
                        /\ intent.legs[i].estimated_cost_tick \in Int
  <2>1. \A i \in 1 .. n : intent.legs[i] \in Legs
    BY <1>1, ElementOfSeq
  <2> QED BY <2>1 DEF Legs
<1>3. \A i \in 1 .. n : f[i] \in Nat /\ g[i] \in Nat
  BY <1>2 DEF NonNegative
<1>4. PrefixSum(f, n) \in Nat /\ PrefixSum(g, n) \in Nat
  <2> HIDE DEF f, g, n
  <2> QED BY <1>1, <1>3, PrefixSumBounds
<1> QED BY <1>4 DEF AssetLots, MarketExposure

\* Amounts is a ledger row vector whose only possibly negative entry is the cost.
LEMMA AmountsType ==
  ASSUME NEW intent \in Intents, NEW track \in BOOLEAN
  PROVE  /\ Amounts(intent, track) \in [Accounts -> Int]
         /\ \A c \in Accounts \ {"cost"} : Amounts(intent, track)[c] >= 0
<1>1. intent.estimated_cost_tick \in Int
  BY IntentAssumption
<1>2. NonNegative(intent.estimated_cost_tick) \in Nat
  BY <1>1 DEF NonNegative
<1> QED BY <1>1, <1>2, LegTotals DEF Amounts

\* A reservation built for an intent has the type of a reservation.
LEMMA BuildType ==
  ASSUME NEW intent \in Intents, NEW track \in BOOLEAN, NEW id \in Nat
  PROVE  /\ BuildReservation(intent, id, track) \in Reservations
         /\ BuildReservation(intent, id, track).key = ReservationKeyFor(intent)
         /\ ReservationKeyFor(intent) \in Keys
<1>1. ReservationKeyFor(intent) \in Keys
  BY DEF Keys
<1>2. intent.expires_at_ns \in Nat
  BY IntentAssumption
<1> QED BY <1>1, <1>2, AmountsType DEF BuildReservation, Reservations

\* The types of the parts of a book.
LEMMA BookParts ==
  ASSUME NEW b, BookType(b)
  PROVE  /\ b.reservations \in Seq(Reservations)
         /\ Len(b.reservations) \in Nat
         /\ DOMAIN b.reservations = 1 .. Len(b.reservations)
         /\ b.active_keys \in [Keys -> Nat]
         /\ b.ledger \in [Accounts -> Int]
         /\ b.next_reservation_id = Len(b.reservations) + 1
         /\ b = [next_reservation_id |-> b.next_reservation_id,
                 reservations |-> b.reservations,
                 active_keys |-> b.active_keys, ledger |-> b.ledger]
         /\ \A i \in 1 .. Len(b.reservations) :
              /\ b.reservations[i] \in Reservations
              /\ b.reservations[i].reservation_id = i
              /\ b.reservations[i].key \in Keys
              /\ b.reservations[i].amounts \in [Accounts -> Int]
              /\ b.reservations[i].status \in {"Active", "Released", "Expired"}
              /\ b.reservations[i].expires_at_ns \in Nat
              /\ \A c \in Accounts : b.reservations[i].amounts[c] \in Int
              /\ \A c \in Accounts \ {"cost"} : b.reservations[i].amounts[c] >= 0
<1>1. /\ b.reservations \in Seq(Reservations)
      /\ b.active_keys \in [Keys -> Nat]
      /\ b.ledger \in [Accounts -> Int]
      /\ b.next_reservation_id = Len(b.reservations) + 1
      /\ b = [next_reservation_id |-> b.next_reservation_id,
              reservations |-> b.reservations,
              active_keys |-> b.active_keys, ledger |-> b.ledger]
  BY DEF BookType
<1>2. Len(b.reservations) \in Nat /\ DOMAIN b.reservations = 1 .. Len(b.reservations)
  BY <1>1, LenProperties
<1>3. \A i \in 1 .. Len(b.reservations) : b.reservations[i] \in Reservations
  BY <1>1, ElementOfSeq
<1> QED BY <1>1, <1>2, <1>3, Zenon DEF BookType, Reservations

-----------------------------------------------------------------------------
(* The empty book.                                                         *)

\* The book of a new engine.
LEMMA EmptyBookInv == BookInv(EmptyBook)
<1>1. /\ EmptyBook.reservations = << >> /\ Len(EmptyBook.reservations) = 0
      /\ EmptyBook.reservations \in Seq(Reservations)
  BY EmptySeq DEF EmptyBook
<1>2. BookType(EmptyBook)
  BY <1>1 DEF EmptyBook, BookType
<1>3. KeysMatchActive(EmptyBook)
  BY <1>1 DEF EmptyBook, KeysMatchActive
<1>4. LedgerMatchesActive(EmptyBook)
  <2> SUFFICES ASSUME NEW c \in Accounts
               PROVE  EmptyBook.ledger[c]
                        = PrefixSum([i \in 1 .. 0 |-> Held(EmptyBook, i, c)], 0)
    BY <1>1 DEF LedgerMatchesActive
  <2>1. EmptyBook.ledger[c] = 0
    BY DEF EmptyBook
  <2> QED BY <2>1, PrefixSumZero
<1>5. FlagMatchesActive(EmptyBook)
  BY <1>1 DEF FlagMatchesActive
<1> QED BY <1>2, <1>3, <1>4, <1>5 DEF BookInv

-----------------------------------------------------------------------------
(* try_reserve.                                                            *)

\* The book after a reservation, part by part.
LEMMA ReserveParts ==
  ASSUME NEW b, BookType(b), NEW intent \in Intents, NEW track \in BOOLEAN
  PROVE  LET d == Reserve(b, intent, track)
             n == Len(b.reservations)
             r == BuildReservation(intent, n + 1, track)
         IN  /\ d.reservations \in Seq(Reservations)
             /\ Len(d.reservations) = n + 1
             /\ \A i \in 1 .. n : d.reservations[i] = b.reservations[i]
             /\ d.reservations[n + 1] = r
             /\ d.next_reservation_id = n + 2
             /\ d.active_keys = [b.active_keys EXCEPT ![r.key] = n + 1]
             /\ d.ledger = Credit(b.ledger, r.amounts)
             /\ d = [next_reservation_id |-> d.next_reservation_id,
                     reservations |-> d.reservations,
                     active_keys |-> d.active_keys, ledger |-> d.ledger]
<1> DEFINE d == Reserve(b, intent, track)
           n == Len(b.reservations)
           r == BuildReservation(intent, n + 1, track)
<1>1. b.reservations \in Seq(Reservations) /\ n \in Nat /\ b.next_reservation_id = n + 1
  BY BookParts
<1>2. r \in Reservations
  BY <1>1, BuildType
<1>3. /\ d.reservations = Append(b.reservations, r)
      /\ d.next_reservation_id = (n + 1) + 1
      /\ d.active_keys = [b.active_keys EXCEPT ![r.key] = n + 1]
      /\ d.ledger = Credit(b.ledger, r.amounts)
      /\ d = [next_reservation_id |-> d.next_reservation_id,
              reservations |-> d.reservations,
              active_keys |-> d.active_keys, ledger |-> d.ledger]
  BY <1>1 DEF Reserve
<1> HIDE DEF d, r
<1>4. /\ Append(b.reservations, r) \in Seq(Reservations)
      /\ Len(Append(b.reservations, r)) = n + 1
      /\ \A i \in 1 .. n : Append(b.reservations, r)[i] = b.reservations[i]
      /\ Append(b.reservations, r)[n + 1] = r
  BY <1>1, <1>2, AppendProperties
<1>5. (n + 1) + 1 = n + 2
  BY <1>1
<1> QED BY <1>3, <1>4, <1>5 DEF d, r

\* try_reserve preserves the invariant when the key is free.
LEMMA ReserveInv ==
  ASSUME NEW b, BookInv(b), NEW intent \in Intents, NEW track \in BOOLEAN,
         b.active_keys[ReservationKeyFor(intent)] = 0
  PROVE  BookInv(Reserve(b, intent, track))
<1> DEFINE d == Reserve(b, intent, track)
           n == Len(b.reservations)
           r == BuildReservation(intent, n + 1, track)
           key == ReservationKeyFor(intent)
<1>0. BookType(b) /\ KeysMatchActive(b) /\ LedgerMatchesActive(b) /\ FlagMatchesActive(b)
  BY DEF BookInv
<1>1. /\ n \in Nat
      /\ b.active_keys \in [Keys -> Nat]
      /\ b.ledger \in [Accounts -> Int]
      /\ \A i \in 1 .. n :  /\ b.reservations[i] \in Reservations
                            /\ b.reservations[i].reservation_id = i
                            /\ b.reservations[i].key \in Keys
                            /\ \A c \in Accounts : b.reservations[i].amounts[c] \in Int
                            /\ \A c \in Accounts \ {"cost"} :
                                 b.reservations[i].amounts[c] >= 0
  BY <1>0, BookParts
<1>2. /\ d.reservations \in Seq(Reservations)
      /\ Len(d.reservations) = n + 1
      /\ \A i \in 1 .. n : d.reservations[i] = b.reservations[i]
      /\ d.reservations[n + 1] = r
      /\ d.next_reservation_id = n + 2
      /\ d.active_keys = [b.active_keys EXCEPT ![r.key] = n + 1]
      /\ d.ledger = Credit(b.ledger, r.amounts)
      /\ d = [next_reservation_id |-> d.next_reservation_id,
              reservations |-> d.reservations,
              active_keys |-> d.active_keys, ledger |-> d.ledger]
  BY <1>0, ReserveParts
<1>3. /\ r \in Reservations
      /\ r.key = key
      /\ key \in Keys
      /\ r.reservation_id = n + 1
      /\ r.status = "Active"
      /\ r.ledger_reserved = TRUE
      /\ r.amounts = Amounts(intent, track)
  <2>1. r \in Reservations /\ r.key = key /\ key \in Keys
    BY <1>1, BuildType
  <2> QED BY <2>1 DEF BuildReservation
<1>4. /\ r.amounts \in [Accounts -> Int]
      /\ \A c \in Accounts \ {"cost"} : r.amounts[c] >= 0
  BY <1>3, AmountsType
<1> HIDE DEF d, r, key
<1>5. BookType(d)
  <2>1. d.ledger \in [Accounts -> Int]
    BY <1>1, <1>2, <1>4 DEF Credit
  <2>2. d.active_keys \in [Keys -> Nat]
    BY <1>1, <1>2, <1>3
  <2>3. \A i \in 1 .. n + 1 :
          /\ d.reservations[i].reservation_id = i
          /\ \A c \in Accounts \ {"cost"} : d.reservations[i].amounts[c] >= 0
    <3> TAKE i \in 1 .. n + 1
    <3>1. CASE i = n + 1
      BY <1>2, <1>3, <1>4, <3>1, Zenon
    <3>2. CASE i # n + 1
      <4>1. i \in 1 .. n
        BY <1>1, <3>2
      <4> QED BY <1>1, <1>2, <4>1, Zenon
    <3> QED BY <3>1, <3>2
  <2>4. n + 2 = (n + 1) + 1 /\ n + 2 \in Nat
    BY <1>1
  <2> QED BY <1>2, <2>1, <2>2, <2>3, <2>4, Zenon DEF BookType
<1>6. \A i \in 1 .. n : i \in 1 .. n + 1 /\ i # n + 1 /\ (IsActive(d, i) <=> IsActive(b, i))
  BY <1>1, <1>2 DEF IsActive
<1>7. IsActive(d, n + 1)
  BY <1>2, <1>3, Zenon DEF IsActive
<1>8. KeysMatchActive(d)
  <2>1. ASSUME NEW i \in 1 .. n + 1, IsActive(d, i)
        PROVE  d.active_keys[d.reservations[i].key] = i
    <3>1. CASE i = n + 1
      BY <1>1, <1>2, <1>3, <3>1, Zenon
    <3>2. CASE i # n + 1
      <4>1. i \in 1 .. n /\ IsActive(b, i)
        BY <1>1, <1>6, <2>1, <3>2
      <4>2. b.active_keys[b.reservations[i].key] = i
        BY <1>0, <4>1 DEF KeysMatchActive
      <4>3. b.reservations[i].key # key
        BY <4>1, <4>2 DEF key
      <4> QED BY <1>1, <1>2, <1>3, <4>1, <4>2, <4>3
    <3> QED BY <3>1, <3>2, Zenon
  <2>2. ASSUME NEW k \in Keys, d.active_keys[k] # 0
        PROVE  /\ d.active_keys[k] \in 1 .. n + 1
               /\ IsActive(d, d.active_keys[k])
               /\ d.reservations[d.active_keys[k]].key = k
    <3>1. CASE k = key
      <4>1. d.active_keys[k] = n + 1
        BY <1>1, <1>2, <1>3, <3>1, Zenon
      <4> QED BY <1>1, <1>2, <1>3, <1>7, <3>1, <4>1
    <3>2. CASE k # key
      <4>1. d.active_keys[k] = b.active_keys[k]
        BY <1>1, <1>2, <1>3, <3>2
      <4>2. /\ b.active_keys[k] \in 1 .. n
            /\ IsActive(b, b.active_keys[k])
            /\ b.reservations[b.active_keys[k]].key = k
        BY <1>0, <2>2, <4>1 DEF KeysMatchActive
      <4> QED BY <1>2, <1>6, <4>1, <4>2, Zenon
    <3> QED BY <3>1, <3>2
  <2> QED BY <1>2, <2>1, <2>2, Zenon DEF KeysMatchActive
<1>9. LedgerMatchesActive(d)
  <2> SUFFICES ASSUME NEW c \in Accounts
               PROVE  d.ledger[c]
                        = PrefixSum([i \in 1 .. n + 1 |-> Held(d, i, c)], n + 1)
    BY <1>2 DEF LedgerMatchesActive
  <2> DEFINE f == [i \in 1 .. n |-> Held(b, i, c)]
             g == [i \in 1 .. n + 1 |-> Held(d, i, c)]
  <2>1. b.ledger[c] = PrefixSum(f, n)
    BY <1>0 DEF LedgerMatchesActive
  <2>2. \A i \in 1 .. n : g[i] = f[i]
    BY <1>2, <1>6 DEF Held
  <2>3. g[n + 1] = r.amounts[c]
    BY <1>1, <1>2, <1>7 DEF Held
  <2>4. d.ledger[c] = b.ledger[c] + r.amounts[c]
    BY <1>2 DEF Credit
  <2> HIDE DEF f, g
  <2>5. PrefixSum(f, n) = PrefixSum(g, n)
    BY <1>1, <2>2, PrefixSumEqual
  <2>6. PrefixSum(g, n + 1) = PrefixSum(g, n) + g[n + 1]
    BY <1>1, PrefixSumStep, Zenon
  <2>7. d.ledger[c] = PrefixSum(g, n + 1)
    BY <2>1, <2>3, <2>4, <2>5, <2>6
  <2> QED BY <2>7 DEF g
<1>10. FlagMatchesActive(d)
  <2> SUFFICES ASSUME NEW i \in 1 .. n + 1
               PROVE  d.reservations[i].ledger_reserved <=> IsActive(d, i)
    BY <1>2 DEF FlagMatchesActive
  <2>1. CASE i = n + 1
    BY <1>2, <1>3, <1>7, <2>1
  <2>2. CASE i # n + 1
    <3>1. i \in 1 .. n
      BY <1>1, <2>2
    <3>2. b.reservations[i].ledger_reserved <=> IsActive(b, i)
      BY <1>0, <3>1 DEF FlagMatchesActive
    <3> QED BY <1>2, <1>6, <3>1, <3>2
  <2> QED BY <2>1, <2>2
<1> QED BY <1>5, <1>8, <1>9, <1>10 DEF BookInv, d

-----------------------------------------------------------------------------
(* release and expire_old.  Both close a set D of active reservations and  *)
(* take what they hold off the ledger.                                     *)

\* What the reservations of D hold on row c, by position.
HeldBy(b, D, c) ==
  [i \in 1 .. Len(b.reservations) |-> IF i \in D THEN b.reservations[i].amounts[c] ELSE 0]

\* d is b with the reservations of D closed.
IsClosing(b, d, D, status) ==
  /\ d = [next_reservation_id |-> b.next_reservation_id,
          reservations |-> [i \in 1 .. Len(b.reservations) |->
                              IF i \in D THEN Close(b.reservations[i], status)
                              ELSE b.reservations[i]],
          active_keys |-> Without(b.active_keys, {b.reservations[i].key : i \in D}),
          ledger |-> d.ledger]
  /\ d.ledger \in [Accounts -> Int]
  /\ \A c \in Accounts :
       d.ledger[c] = b.ledger[c] - PrefixSum(HeldBy(b, D, c), Len(b.reservations))

\* A closed reservation keeps its type, its id, its key and its amounts.
LEMMA CloseType ==
  ASSUME NEW r \in Reservations, NEW status \in {"Released", "Expired"}
  PROVE  /\ Close(r, status) \in Reservations
         /\ Close(r, status).reservation_id = r.reservation_id
         /\ Close(r, status).key = r.key
         /\ Close(r, status).amounts = r.amounts
         /\ Close(r, status).status = status
         /\ Close(r, status).ledger_reserved = FALSE
BY Zenon DEF Close, Reservations

\* Closing a set of active reservations preserves the invariant.
LEMMA ClosingInv ==
  ASSUME NEW b, BookInv(b), NEW D \in SUBSET (1 .. Len(b.reservations)),
         \A i \in D : IsActive(b, i),
         NEW status \in {"Released", "Expired"}, NEW d, IsClosing(b, d, D, status)
  PROVE  BookInv(d)
<1> DEFINE n == Len(b.reservations)
<1>0. BookType(b) /\ KeysMatchActive(b) /\ LedgerMatchesActive(b) /\ FlagMatchesActive(b)
  BY DEF BookInv
<1>1. /\ n \in Nat
      /\ b.next_reservation_id = n + 1
      /\ b.active_keys \in [Keys -> Nat]
      /\ b.ledger \in [Accounts -> Int]
      /\ \A i \in 1 .. n :  /\ b.reservations[i] \in Reservations
                            /\ b.reservations[i].reservation_id = i
                            /\ b.reservations[i].key \in Keys
                            /\ \A c \in Accounts : b.reservations[i].amounts[c] \in Int
                            /\ \A c \in Accounts \ {"cost"} :
                                 b.reservations[i].amounts[c] >= 0
  BY <1>0, BookParts
<1>2. /\ d.reservations = [i \in 1 .. n |-> IF i \in D THEN Close(b.reservations[i], status)
                                           ELSE b.reservations[i]]
      /\ d.next_reservation_id = n + 1
      /\ d.active_keys = Without(b.active_keys, {b.reservations[i].key : i \in D})
      /\ d.ledger \in [Accounts -> Int]
      /\ d = [next_reservation_id |-> d.next_reservation_id,
              reservations |-> d.reservations,
              active_keys |-> d.active_keys, ledger |-> d.ledger]
  BY <1>1 DEF IsClosing
<1>3. \A i \in 1 .. n : /\ d.reservations[i] \in Reservations
                        /\ d.reservations[i].reservation_id = i
                        /\ d.reservations[i].key = b.reservations[i].key
                        /\ d.reservations[i].amounts = b.reservations[i].amounts
                        /\ i \in D => /\ d.reservations[i].status = status
                                      /\ d.reservations[i].ledger_reserved = FALSE
                        /\ i \notin D => d.reservations[i] = b.reservations[i]
  <2> TAKE i \in 1 .. n
  <2>1. b.reservations[i] \in Reservations /\ b.reservations[i].reservation_id = i
    BY <1>1
  <2>2. CASE i \in D
    <3>1. d.reservations[i] = Close(b.reservations[i], status)
      BY <1>2, <2>2
    <3>2. /\ Close(b.reservations[i], status) \in Reservations
          /\ Close(b.reservations[i], status).reservation_id
               = b.reservations[i].reservation_id
          /\ Close(b.reservations[i], status).key = b.reservations[i].key
          /\ Close(b.reservations[i], status).amounts = b.reservations[i].amounts
          /\ Close(b.reservations[i], status).status = status
          /\ Close(b.reservations[i], status).ledger_reserved = FALSE
      BY <2>1, CloseType, Zenon
    <3> QED BY <2>1, <2>2, <3>1, <3>2
  <2>3. CASE i \notin D
    <3>1. d.reservations[i] = b.reservations[i]
      BY <1>2, <2>3
    <3> QED BY <2>1, <2>3, <3>1
  <2> QED BY <2>2, <2>3, Zenon
<1>4. d.reservations \in Seq(Reservations) /\ Len(d.reservations) = n
  <2>1. d.reservations \in [1 .. n -> Reservations]
    BY <1>2, <1>3, Zenon
  <2> QED BY <1>1, <2>1, FunctionIsSeq, Zenon
<1>5. \A i \in 1 .. n : IsActive(d, i) <=> IsActive(b, i) /\ i \notin D
  <2> TAKE i \in 1 .. n
  <2>1. CASE i \in D
    BY <1>3, <2>1 DEF IsActive
  <2>2. CASE i \notin D
    BY <1>3, <2>2 DEF IsActive
  <2> QED BY <2>1, <2>2
<1>6. BookType(d)
  <2>1. d.active_keys \in [Keys -> Nat]
    BY <1>1, <1>2 DEF Without
  <2>2. n + 1 \in Nat
    BY <1>1
  <2> QED BY <1>1, <1>2, <1>3, <1>4, <2>1, <2>2, Zenon DEF BookType
<1>7. KeysMatchActive(d)
  <2>1. ASSUME NEW i \in 1 .. n, IsActive(d, i)
        PROVE  d.active_keys[d.reservations[i].key] = i
    <3>1. IsActive(b, i) /\ i \notin D
      BY <1>5, <2>1
    <3>2. b.active_keys[b.reservations[i].key] = i
      BY <1>0, <3>1 DEF KeysMatchActive
    <3>3. \A j \in D : b.active_keys[b.reservations[j].key] = j
      BY <1>0 DEF KeysMatchActive
    <3>4. b.reservations[i].key \notin {b.reservations[j].key : j \in D}
      BY <3>1, <3>2, <3>3
    <3>5. b.reservations[i].key \in Keys /\ d.reservations[i].key = b.reservations[i].key
      BY <1>1, <1>3, Zenon
    <3>6. d.active_keys[b.reservations[i].key] = b.active_keys[b.reservations[i].key]
      BY <1>2, <3>4, <3>5, Zenon DEF Without
    <3> QED BY <3>2, <3>5, <3>6
  <2>2. ASSUME NEW k \in Keys, d.active_keys[k] # 0
        PROVE  /\ d.active_keys[k] \in 1 .. n
               /\ IsActive(d, d.active_keys[k])
               /\ d.reservations[d.active_keys[k]].key = k
    <3>1. /\ d.active_keys[k] = b.active_keys[k]
          /\ k \notin {b.reservations[j].key : j \in D}
      BY <1>2, <2>2, Zenon DEF Without
    <3>2. /\ b.active_keys[k] \in 1 .. n
          /\ IsActive(b, b.active_keys[k])
          /\ b.reservations[b.active_keys[k]].key = k
      BY <1>0, <2>2, <3>1 DEF KeysMatchActive
    <3>3. b.active_keys[k] \notin D
      BY <3>1, <3>2
    <3> QED BY <1>3, <1>5, <3>1, <3>2, <3>3
  <2> QED BY <1>4, <2>1, <2>2 DEF KeysMatchActive
<1>8. LedgerMatchesActive(d)
  <2> SUFFICES ASSUME NEW c \in Accounts
               PROVE  d.ledger[c] = PrefixSum([i \in 1 .. n |-> Held(d, i, c)], n)
    BY <1>4 DEF LedgerMatchesActive
  <2> DEFINE f == [i \in 1 .. n |-> Held(b, i, c)]
             g == HeldBy(b, D, c)
             h == [i \in 1 .. n |-> Held(d, i, c)]
  <2>1. b.ledger[c] = PrefixSum(f, n)
    BY <1>0 DEF LedgerMatchesActive
  <2>2. ASSUME NEW i \in 1 .. n
        PROVE  f[i] \in Int /\ g[i] \in Int /\ h[i] = f[i] - g[i]
    <3>1. b.reservations[i].amounts[c] \in Int
      BY <1>1
    <3>2. CASE i \in D
      <4>1. IsActive(b, i) /\ ~ IsActive(d, i)
        BY <1>5, <3>2, Zenon
      <4> QED BY <3>1, <3>2, <4>1 DEF Held, HeldBy
    <3>3. CASE i \notin D
      <4>1. IsActive(b, i) <=> IsActive(d, i)
        BY <1>5, <3>3
      <4> QED BY <1>3, <3>1, <3>3, <4>1 DEF Held, HeldBy
    <3> QED BY <3>2, <3>3
  <2>3. d.ledger[c] = b.ledger[c] - PrefixSum(g, n)
    BY DEF IsClosing
  <2> HIDE DEF f, g, h
  <2>4. PrefixSum(h, n) = PrefixSum(f, n) - PrefixSum(g, n)
    <3>1. n \in Nat
      BY <1>1
    <3> HIDE DEF n
    <3> QED BY <2>2, <3>1, PrefixSumMinus
  <2>5. d.ledger[c] = PrefixSum(h, n)
    BY <2>1, <2>3, <2>4
  <2> QED BY <2>5 DEF h
<1>9. FlagMatchesActive(d)
  <2> SUFFICES ASSUME NEW i \in 1 .. n
               PROVE  d.reservations[i].ledger_reserved <=> IsActive(d, i)
    BY <1>4 DEF FlagMatchesActive
  <2>1. CASE i \in D
    BY <1>3, <1>5, <2>1
  <2>2. CASE i \notin D
    BY <1>0, <1>3, <1>5, <2>2 DEF FlagMatchesActive
  <2> QED BY <2>1, <2>2
<1> QED BY <1>6, <1>7, <1>8, <1>9 DEF BookInv

\* The ledger covers what any active reservation holds on a row other than the cost:
\* a row that is skipped because it is not in its map holds nothing.
LEMMA LedgerCovers ==
  ASSUME NEW b, BookInv(b), NEW c \in Accounts \ {"cost"},
         NEW D \in SUBSET (1 .. Len(b.reservations)), \A i \in D : IsActive(b, i)
  PROVE  /\ b.ledger[c] \in Nat
         /\ \A i \in 1 .. Len(b.reservations) : HeldBy(b, D, c)[i] \in Nat
         /\ PrefixSum(HeldBy(b, D, c), Len(b.reservations)) <= b.ledger[c]
<1> DEFINE n == Len(b.reservations)
           f == [i \in 1 .. n |-> Held(b, i, c)]
           g == HeldBy(b, D, c)
           h == [i \in 1 .. n |-> f[i] - g[i]]
<1>1. /\ n \in Nat
      /\ \A i \in 1 .. n : b.reservations[i].amounts[c] \in Int
                           /\ b.reservations[i].amounts[c] >= 0
  BY BookParts DEF BookInv
<1>2. b.ledger[c] = PrefixSum(f, n)
  BY DEF BookInv, LedgerMatchesActive
<1>3. ASSUME NEW i \in 1 .. n
      PROVE  f[i] \in Nat /\ g[i] \in Nat /\ h[i] \in Nat /\ h[i] = f[i] - g[i]
  <2>1. b.reservations[i].amounts[c] \in Nat
    BY <1>1
  <2>2. CASE i \in D
    <3>1. IsActive(b, i)
      BY <2>2, Zenon
    <3> QED BY <2>1, <2>2, <3>1 DEF Held, HeldBy
  <2>3. CASE i \notin D
    BY <2>1, <2>3 DEF Held, HeldBy
  <2> QED BY <2>2, <2>3
<1> HIDE DEF f, g, h
<1>4. PrefixSum(f, n) \in Nat /\ PrefixSum(g, n) \in Nat /\ PrefixSum(h, n) \in Nat
  BY <1>1, <1>3, PrefixSumBounds
<1>5. PrefixSum(h, n) = PrefixSum(f, n) - PrefixSum(g, n)
  BY <1>1, <1>3, PrefixSumMinus
<1> QED BY <1>2, <1>3, <1>4, <1>5 DEF g

\* A sum whose terms are all zero but one is that one.
LEMMA SingletonSum ==
  ASSUME NEW b, BookType(b), NEW c \in Accounts, NEW id \in 1 .. Len(b.reservations)
  PROVE  PrefixSum(HeldBy(b, {id}, c), Len(b.reservations))
           = b.reservations[id].amounts[c]
<1> DEFINE n == Len(b.reservations)
           z == [i \in 1 .. n |-> 0]
           g == HeldBy(b, {id}, c)
<1>1. n \in Nat /\ b.reservations[id].amounts[c] \in Int
  BY BookParts
<1>2. PrefixSum(z, n) = PrefixSum(z, n) - PrefixSum(z, n) /\ PrefixSum(z, n) \in Int
  <2>1. \A k \in 1 .. n : z[k] \in Int /\ z[k] = z[k] - z[k]
    OBVIOUS
  <2> HIDE DEF z
  <2>2. PrefixSum(z, n) = PrefixSum(z, n) - PrefixSum(z, n)
    BY <1>1, <2>1, PrefixSumMinus
  <2>3. PrefixSum(z, n) \in Int
    BY <1>1, <2>1, PrefixSumType
  <2> QED BY <2>2, <2>3
<1>3. PrefixSum(z, n) = 0
  <2> HIDE DEF z
  <2> QED BY <1>2
<1>4. \A k \in 1 .. n : z[k] \in Int /\ g[k] \in Int /\ (k # id => g[k] = z[k])
  BY <1>1 DEF HeldBy
<1>5. g[id] = b.reservations[id].amounts[c] /\ z[id] = 0
  BY DEF HeldBy
<1> HIDE DEF z, g
<1>6. PrefixSum(g, n) = PrefixSum(z, n) - z[id] + g[id]
  BY <1>1, <1>4, PrefixSumUpdate, Zenon
<1> QED BY <1>1, <1>3, <1>5, <1>6 DEF g

\* release and expire_old leave the id counter alone and replace the other fields.
LEMMA BookUpdate ==
  ASSUME NEW n, NEW rs, NEW ks, NEW lg, NEW rs2, NEW ks2, NEW lg2, NEW b,
         b = [next_reservation_id |-> n, reservations |-> rs, active_keys |-> ks,
              ledger |-> lg]
  PROVE  [b EXCEPT !.ledger = lg2, !.active_keys = ks2, !.reservations = rs2]
           = [next_reservation_id |-> n, reservations |-> rs2, active_keys |-> ks2,
              ledger |-> lg2]
<1> DEFINE d == [b EXCEPT !.ledger = lg2, !.active_keys = ks2, !.reservations = rs2]
<1>1. d = [f \in DOMAIN d |-> d[f]]
  BY Zenon
<1>2. /\ d.next_reservation_id = n
      /\ d.reservations = rs2
      /\ d.active_keys = ks2
      /\ d.ledger = lg2
  OBVIOUS
<1>3. DOMAIN d = {"next_reservation_id", "reservations", "active_keys", "ledger"}
  OBVIOUS
<1> HIDE DEF d
<1>4. d = [next_reservation_id |-> n, reservations |-> rs2, active_keys |-> ks2,
           ledger |-> lg2]
  BY <1>1, <1>2, <1>3
<1> QED BY <1>4 DEF d

\* release preserves the invariant.
LEMMA ReleaseInv ==
  ASSUME NEW b, BookInv(b), NEW id, CanRelease(b, id)
  PROVE  BookInv(ReleaseOne(b, id))
<1> DEFINE n == Len(b.reservations)
           d == ReleaseOne(b, id)
           r == b.reservations[id]
<1>0. BookType(b) /\ FlagMatchesActive(b)
  BY DEF BookInv
<1>1. id \in 1 .. n /\ IsActive(b, id)
  BY <1>0, BookParts DEF CanRelease
<1>2. /\ n \in Nat
      /\ b.reservations \in Seq(Reservations)
      /\ DOMAIN b.reservations = 1 .. n
      /\ b.ledger \in [Accounts -> Int]
      /\ \A c \in Accounts : r.amounts[c] \in Int
      /\ b = [next_reservation_id |-> b.next_reservation_id,
              reservations |-> b.reservations,
              active_keys |-> b.active_keys, ledger |-> b.ledger]
  BY <1>0, <1>1, BookParts
<1>3. r.ledger_reserved
  BY <1>0, <1>1 DEF FlagMatchesActive
<1>4. /\ d.ledger = Debit(b.ledger, r.amounts)
      /\ d.active_keys = Without(b.active_keys, {r.key})
      /\ d.reservations = [b.reservations EXCEPT ![id] = Close(r, "Released")]
      /\ d.next_reservation_id = b.next_reservation_id
      /\ d = [next_reservation_id |-> d.next_reservation_id,
              reservations |-> d.reservations,
              active_keys |-> d.active_keys, ledger |-> d.ledger]
  <2> DEFINE lg == Debit(b.ledger, r.amounts)
             ks == Without(b.active_keys, {r.key})
             rs == [b.reservations EXCEPT ![id] = Close(r, "Released")]
  <2>1. d = [b EXCEPT !.ledger = lg, !.active_keys = ks, !.reservations = rs]
    BY <1>3, Zenon DEF ReleaseOne
  <2> HIDE DEF lg, ks, rs, d
  <2>2. d = [next_reservation_id |-> b.next_reservation_id, reservations |-> rs,
             active_keys |-> ks, ledger |-> lg]
    BY <1>2, <2>1, BookUpdate, Zenon
  <2> QED BY <2>2 DEF lg, ks, rs
<1>5. d.reservations = [i \in 1 .. n |-> IF i \in {id} THEN Close(b.reservations[i], "Released")
                                       ELSE b.reservations[i]]
  BY <1>1, <1>2, <1>4, Zenon
<1>6. {r.key} = {b.reservations[i].key : i \in {id}}
  OBVIOUS
<1>7. d.ledger \in [Accounts -> Int]
  BY <1>2, <1>4 DEF Debit
<1>8. ASSUME NEW c \in Accounts
      PROVE  d.ledger[c] = b.ledger[c] - PrefixSum(HeldBy(b, {id}, c), n)
  <2>1. PrefixSum(HeldBy(b, {id}, c), n) = r.amounts[c]
    BY <1>0, <1>1, SingletonSum
  <2>2. CASE c \in Detail /\ b.ledger[c] = 0
    <3>1. c # "cost"
      BY <2>2, ConstantAssumption
    <3>2. /\ \A i \in 1 .. n : HeldBy(b, {id}, c)[i] \in Nat
          /\ PrefixSum(HeldBy(b, {id}, c), n) <= b.ledger[c]
      BY <1>1, <3>1, LedgerCovers, Zenon
    <3>3. r.amounts[c] \in Nat
      BY <1>1, <3>2 DEF HeldBy
    <3>4. r.amounts[c] = 0
      BY <2>1, <2>2, <3>2, <3>3
    <3>5. d.ledger[c] = 0
      BY <1>4, <2>2, Zenon DEF Debit
    <3> QED BY <2>1, <2>2, <3>4, <3>5
  <2>3. CASE ~ (c \in Detail /\ b.ledger[c] = 0)
    BY <1>4, <2>1, <2>3 DEF Debit
  <2> QED BY <2>2, <2>3
<1> HIDE DEF d
<1>9. IsClosing(b, d, {id}, "Released")
  <2>1. d = [next_reservation_id |-> b.next_reservation_id,
             reservations |-> [i \in 1 .. n |->
                                 IF i \in {id} THEN Close(b.reservations[i], "Released")
                                 ELSE b.reservations[i]],
             active_keys |-> Without(b.active_keys, {b.reservations[i].key : i \in {id}}),
             ledger |-> d.ledger]
    <3>1. d.active_keys = Without(b.active_keys, {b.reservations[i].key : i \in {id}})
      BY <1>4, <1>6
    <3> QED BY <1>4, <1>5, <3>1
  <2> QED BY <1>7, <1>8, <2>1, Zenon DEF IsClosing
<1>10. BookInv(d)
  BY <1>1, <1>9, ClosingInv, Zenon
<1> QED BY <1>10 DEF d

\* The pass of expire_old over the ledger: what it leaves after k reservations.
ExpirePass(b, now) ==
  CHOOSE L : L = [k \in 0 .. Len(b.reservations) |->
                    IF k = 0 THEN b.ledger
                    ELSE IF k \in Due(b, now) /\ b.reservations[k].ledger_reserved
                    THEN Debit(L[k - 1], b.reservations[k].amounts)
                    ELSE L[k - 1]]

\* After k reservations the pass has taken off the ledger what the due ones among
\* them hold.
AfterPass(b, now, k) ==
  [c \in Accounts |-> b.ledger[c] - PrefixSum(HeldBy(b, Due(b, now), c), k)]

\* One step of the pass.
LEMMA ExpireStep ==
  ASSUME NEW b, BookInv(b), NEW now, NEW k \in 1 .. Len(b.reservations)
  PROVE  AfterPass(b, now, k)
           = IF k \in Due(b, now) /\ b.reservations[k].ledger_reserved
             THEN Debit(AfterPass(b, now, k - 1), b.reservations[k].amounts)
             ELSE AfterPass(b, now, k - 1)
<1> DEFINE n == Len(b.reservations)
           D == Due(b, now)
           r == b.reservations[k]
           before == AfterPass(b, now, k - 1)
<1>0. BookType(b) /\ FlagMatchesActive(b)
  BY DEF BookInv
<1>1. /\ n \in Nat
      /\ DOMAIN b.reservations = 1 .. n
      /\ b.ledger \in [Accounts -> Int]
      /\ \A i \in 1 .. n : \A c \in Accounts : b.reservations[i].amounts[c] \in Int
  BY <1>0, BookParts
<1>2. /\ D \in SUBSET (1 .. n)
      /\ \A i \in D : IsActive(b, i)
      /\ k \in D => r.ledger_reserved
  BY <1>0, <1>1, Zenon DEF Due, FlagMatchesActive
<1>3. ASSUME NEW c \in Accounts
      PROVE  /\ PrefixSum(HeldBy(b, D, c), k)
                  = PrefixSum(HeldBy(b, D, c), k - 1) + HeldBy(b, D, c)[k]
             /\ PrefixSum(HeldBy(b, D, c), k - 1) \in Int
             /\ HeldBy(b, D, c)[k] = (IF k \in D THEN r.amounts[c] ELSE 0)
             /\ r.amounts[c] \in Int
             /\ b.ledger[c] \in Int
  <2>1. k - 1 \in Nat /\ (k - 1) + 1 = k
    BY <1>1
  <2>2. PrefixSum(HeldBy(b, D, c), (k - 1) + 1)
          = PrefixSum(HeldBy(b, D, c), k - 1) + HeldBy(b, D, c)[(k - 1) + 1]
    BY <2>1, PrefixSumStep, Zenon
  <2>3. \A i \in 1 .. k - 1 : HeldBy(b, D, c)[i] \in Int
    BY <1>1 DEF HeldBy
  <2>4. PrefixSum(HeldBy(b, D, c), k - 1) \in Int
    BY <2>1, <2>3, PrefixSumType
  <2>5. HeldBy(b, D, c)[k] = (IF k \in D THEN r.amounts[c] ELSE 0)
    BY DEF HeldBy
  <2> QED BY <1>1, <2>1, <2>2, <2>4, <2>5, Zenon
<1>4. CASE k \notin D
  <2>1. \A c \in Accounts : AfterPass(b, now, k)[c] = before[c]
    BY <1>3, <1>4 DEF AfterPass
  <2>2. AfterPass(b, now, k) = before
    BY <2>1 DEF AfterPass
  <2> QED BY <1>4, <2>2
<1>5. CASE k \in D
  <2>1. ASSUME NEW c \in Accounts
        PROVE  AfterPass(b, now, k)[c] = Debit(before, r.amounts)[c]
    <3>1. AfterPass(b, now, k)[c] = before[c] - r.amounts[c]
      BY <1>3, <1>5 DEF AfterPass
    <3>2. CASE c \in Detail /\ before[c] = 0
      <4>1. c # "cost"
        BY <3>2, ConstantAssumption
      <4>2. /\ b.ledger[c] \in Nat
            /\ \A i \in 1 .. n : HeldBy(b, D, c)[i] \in Nat
            /\ PrefixSum(HeldBy(b, D, c), n) <= b.ledger[c]
        BY <1>2, <4>1, LedgerCovers, Zenon
      <4>3. PrefixSum(HeldBy(b, D, c), k) <= PrefixSum(HeldBy(b, D, c), n)
        BY <1>1, <4>2, PrefixSumMonotone
      <4>4. PrefixSum(HeldBy(b, D, c), n) \in Nat
        BY <1>1, <4>2, PrefixSumBounds
      <4>5. HeldBy(b, D, c)[k] \in Nat
        BY <4>2
      <4>6. before[c] = b.ledger[c] - PrefixSum(HeldBy(b, D, c), k - 1)
        BY Zenon DEF AfterPass
      <4>7. r.amounts[c] = 0
        BY <1>3, <1>5, <3>2, <4>2, <4>3, <4>4, <4>5, <4>6
      <4>8. Debit(before, r.amounts)[c] = 0
        BY <3>2 DEF Debit
      <4> QED BY <3>1, <3>2, <4>7, <4>8
    <3>3. CASE ~ (c \in Detail /\ before[c] = 0)
      BY <3>1, <3>3, Zenon DEF Debit
    <3> QED BY <3>2, <3>3, Zenon
  <2>2. AfterPass(b, now, k) = Debit(before, r.amounts)
    BY <2>1 DEF AfterPass, Debit
  <2> QED BY <1>2, <1>5, <2>2, Zenon
<1> QED BY <1>4, <1>5

\* The whole pass takes off the ledger what the due reservations hold.
LEMMA ExpireLedgerValue ==
  ASSUME NEW b, BookInv(b), NEW now
  PROVE  ExpireLedger(b, now) = AfterPass(b, now, Len(b.reservations))
<1> DEFINE n == Len(b.reservations)
           Step(L, k) == IF k \in Due(b, now) /\ b.reservations[k].ledger_reserved
                         THEN Debit(L, b.reservations[k].amounts)
                         ELSE L
           W == [k \in 0 .. n |-> AfterPass(b, now, k)]
           P == ExpirePass(b, now)
<1>1. ExpireLedger(b, now) = P[n]
  BY DEF ExpireLedger, ExpirePass
<1>2. n \in Nat /\ b.ledger \in [Accounts -> Int]
  BY BookParts DEF BookInv
<1>3. AfterPass(b, now, 0) = b.ledger
  <2>1. \A c \in Accounts : AfterPass(b, now, 0)[c] = b.ledger[c]
    BY <1>2, PrefixSumZero DEF AfterPass
  <2> QED BY <1>2, <2>1 DEF AfterPass
<1>4. \A k \in 1 .. n : AfterPass(b, now, k) = Step(AfterPass(b, now, k - 1), k)
  BY ExpireStep
<1>5. W = [k \in 0 .. n |-> IF k = 0 THEN b.ledger ELSE Step(W[k - 1], k)]
  <2> HIDE DEF Step
  <2>1. ASSUME NEW k \in 0 .. n
        PROVE  W[k] = (IF k = 0 THEN b.ledger ELSE Step(W[k - 1], k))
    <3>1. CASE k = 0
      BY <1>3, <3>1
    <3>2. CASE k # 0
      <4>1. k \in 1 .. n /\ k - 1 \in 0 .. n
        BY <3>2
      <4>2. W[k] = AfterPass(b, now, k) /\ W[k - 1] = AfterPass(b, now, k - 1)
        BY <4>1
      <4> QED BY <1>4, <3>2, <4>1, <4>2
    <3> QED BY <3>1, <3>2
  <2> QED BY <2>1, Zenon
<1>6. P = [k \in 0 .. n |-> IF k = 0 THEN b.ledger ELSE Step(P[k - 1], k)]
  <2> HIDE DEF W
  <2> QED BY <1>5, Zenon DEF ExpirePass
<1> HIDE DEF Step, P
<1> DEFINE Good == {k \in Nat : k <= n => P[k] = W[k]}
<1>7. 0 \in Good
  BY <1>3, <1>6
<1>8. \A k \in Good : k + 1 \in Good
  <2> TAKE k \in Good
  <2>1. ASSUME k + 1 <= n PROVE P[k + 1] = W[k + 1]
    <3>1. k \in 0 .. n /\ k + 1 \in 1 .. n /\ k + 1 \in 0 .. n /\ (k + 1) - 1 = k
          /\ k + 1 # 0
      BY <2>1
    <3>2. P[k] = W[k]
      BY <2>1, <3>1
    <3>3. P[k + 1] = Step(P[k], k + 1)
      BY <1>6, <3>1
    <3>4. W[k + 1] = Step(W[k], k + 1)
      BY <1>5, <3>1, Zenon
    <3> QED BY <3>2, <3>3, <3>4
  <2> QED BY <2>1
<1>9. Good = Nat
  <2> HIDE DEF Good
  <2>1. Good \in SUBSET Nat
    BY DEF Good
  <2> QED BY <1>7, <1>8, <2>1, NatSetInduction
<1>10. P[n] = W[n]
  BY <1>2, <1>9
<1> QED BY <1>1, <1>2, <1>10 DEF P

\* The four fields of the book that expire_old leaves.
LEMMA ExpireParts ==
  ASSUME NEW b, BookInv(b), NEW now
  PROVE  Expire(b, now)
           = [next_reservation_id |-> b.next_reservation_id,
              reservations |-> [i \in 1 .. Len(b.reservations) |->
                                  IF i \in Due(b, now) THEN Close(b.reservations[i], "Expired")
                                  ELSE b.reservations[i]],
              active_keys |-> Without(b.active_keys, {b.reservations[i].key : i \in Due(b, now)}),
              ledger |-> ExpireLedger(b, now)]
<1> DEFINE n == Len(b.reservations)
           D == Due(b, now)
           d == Expire(b, now)
           lg == ExpireLedger(b, now)
           ks == Without(b.active_keys, {b.reservations[i].key : i \in D})
           rs == [i \in 1 .. n |-> IF i \in D THEN Close(b.reservations[i], "Expired")
                                  ELSE b.reservations[i]]
<1>1. /\ DOMAIN b.reservations = 1 .. n
      /\ b = [next_reservation_id |-> b.next_reservation_id,
              reservations |-> b.reservations,
              active_keys |-> b.active_keys, ledger |-> b.ledger]
  BY BookParts DEF BookInv
<1>2. d = [b EXCEPT !.ledger = lg, !.active_keys = ks, !.reservations = rs]
  BY <1>1 DEF Expire
<1> HIDE DEF lg, ks, rs, d
<1>3. d = [next_reservation_id |-> b.next_reservation_id, reservations |-> rs,
           active_keys |-> ks, ledger |-> lg]
  BY <1>1, <1>2, BookUpdate, Zenon
<1> QED BY <1>3 DEF lg, ks, rs, d

\* expire_old preserves the invariant.
LEMMA ExpireInv ==
  ASSUME NEW b, BookInv(b), NEW now
  PROVE  BookInv(Expire(b, now))
<1> DEFINE n == Len(b.reservations)
           d == Expire(b, now)
           D == Due(b, now)
<1>1. /\ n \in Nat
      /\ DOMAIN b.reservations = 1 .. n
      /\ b.ledger \in [Accounts -> Int]
      /\ \A i \in 1 .. n : \A c \in Accounts : b.reservations[i].amounts[c] \in Int
      /\ b = [next_reservation_id |-> b.next_reservation_id,
              reservations |-> b.reservations,
              active_keys |-> b.active_keys, ledger |-> b.ledger]
  BY BookParts DEF BookInv
<1>2. D \in SUBSET (1 .. n) /\ \A i \in D : IsActive(b, i)
  BY <1>1, Zenon DEF Due
<1>3. d = [next_reservation_id |-> b.next_reservation_id,
           reservations |-> [i \in 1 .. n |-> IF i \in D THEN Close(b.reservations[i], "Expired")
                                            ELSE b.reservations[i]],
           active_keys |-> Without(b.active_keys, {b.reservations[i].key : i \in D}),
           ledger |-> ExpireLedger(b, now)]
  BY ExpireParts, Zenon
<1>4. d.ledger = AfterPass(b, now, n)
  BY <1>3, ExpireLedgerValue
<1>5. ASSUME NEW c \in Accounts PROVE PrefixSum(HeldBy(b, D, c), n) \in Int
  <2>1. \A i \in 1 .. n : HeldBy(b, D, c)[i] \in Int
    BY <1>1 DEF HeldBy
  <2> QED BY <1>1, <2>1, PrefixSumType
<1>6. /\ d.ledger \in [Accounts -> Int]
      /\ \A c \in Accounts : d.ledger[c] = b.ledger[c] - PrefixSum(HeldBy(b, D, c), n)
  BY <1>1, <1>4, <1>5 DEF AfterPass
<1> HIDE DEF d, D
<1>7. IsClosing(b, d, D, "Expired")
  BY <1>3, <1>6 DEF IsClosing
<1>8. BookInv(d)
  BY <1>2, <1>7, ClosingInv, Zenon
<1> QED BY <1>8 DEF d

-----------------------------------------------------------------------------
(* What every behaviour of the book satisfies.                             *)

\* Every step of the book preserves the invariant.
LEMMA NextInv ==
  ASSUME BookInv(book), [Next]_book
  PROVE  BookInv(book')
<1>1. ASSUME NEW intent \in Intents, NEW now \in Times, NEW track \in BOOLEAN,
             TryReserve(intent, now, track)
      PROVE  BookInv(book')
  <2>1. book.active_keys[ReservationKeyFor(intent)] = 0
    BY <1>1 DEF TryReserve, ReserveRejection
  <2> QED BY <1>1, <2>1, ReserveInv DEF TryReserve
<1>2. ASSUME NEW id \in 0 .. book.next_reservation_id, Release(id)
      PROVE  BookInv(book')
  BY <1>2, ReleaseInv DEF Release
<1>3. ASSUME NEW now \in Times, ExpireOld(now)
      PROVE  BookInv(book')
  BY <1>3, ExpireInv DEF ExpireOld
<1>4. CASE UNCHANGED book
  BY <1>4
<1> QED BY <1>1, <1>2, <1>3, <1>4, Zenon DEF Next

\* The inductive invariant of the reservation book.
THEOREM BookInvariant == Spec => []BookInv(book)
<1>1. Init => BookInv(book)
  BY EmptyBookInv DEF Init
<1>2. BookInv(book) /\ [Next]_book => BookInv(book)'
  BY NextInv
<1> QED BY <1>1, <1>2, PTL DEF Spec

\* Ids stay the vector positions that find_reservation indexes by, and every field
\* keeps its type.
THEOREM TypeCorrect == Spec => []TypeOK
<1>1. BookInv(book) => TypeOK
  BY DEF BookInv, TypeOK
<1> QED BY <1>1, BookInvariant, PTL

\* try_reserve, release and expire_old keep active_reservation_keys_ an exact index
\* of the active reservations, so no key is ever held by two of them.
THEOREM KeysExact == Spec => []ActiveKeysIndexTheActive
<1>1. BookInv(book) => ActiveKeysIndexTheActive
  BY DEF BookInv, ActiveKeysIndexTheActive
<1> QED BY <1>1, BookInvariant, PTL

\* RiskLedger's incrementally kept totals are, row by row, the sum over the active
\* reservations.
THEOREM LedgerExact == Spec => []LedgerIsSumOfActive
<1>1. BookInv(book) => LedgerIsSumOfActive
  BY DEF BookInv, LedgerIsSumOfActive
<1> QED BY <1>1, BookInvariant, PTL

\* What a step may do to the reservations already in the vector.
KeepsClosed(b, d) ==
  \A i \in DOMAIN b.reservations :
    /\ i \in DOMAIN d.reservations
    /\ ~ IsActive(b, i) => d.reservations[i] = b.reservations[i]
    /\ d.reservations[i].key = b.reservations[i].key

\* Closing active reservations leaves the closed ones and every key alone.
LEMMA ClosingKeepsClosed ==
  ASSUME NEW b, BookInv(b), NEW D \in SUBSET (1 .. Len(b.reservations)),
         \A i \in D : IsActive(b, i), NEW status \in {"Released", "Expired"}, NEW rs,
         rs = [i \in 1 .. Len(b.reservations) |->
                 IF i \in D THEN Close(b.reservations[i], status) ELSE b.reservations[i]]
  PROVE  \A i \in DOMAIN b.reservations :
           /\ i \in DOMAIN rs
           /\ ~ IsActive(b, i) => rs[i] = b.reservations[i]
           /\ rs[i].key = b.reservations[i].key
<1>1. DOMAIN b.reservations = 1 .. Len(b.reservations)
      /\ \A i \in 1 .. Len(b.reservations) : b.reservations[i] \in Reservations
  BY BookParts, Zenon DEF BookInv
<1> SUFFICES ASSUME NEW i \in 1 .. Len(b.reservations)
             PROVE  /\ ~ IsActive(b, i) => rs[i] = b.reservations[i]
                    /\ rs[i].key = b.reservations[i].key
  BY <1>1, Zenon
<1>2. Close(b.reservations[i], status).key = b.reservations[i].key
  BY <1>1, CloseType, Zenon
<1> QED BY <1>2

\* What try_reserve leaves of the vector.
LEMMA ReserveVector ==
  ASSUME NEW b, BookType(b), NEW intent \in Intents, NEW track \in BOOLEAN
  PROVE  /\ Reserve(b, intent, track).reservations \in Seq(Reservations)
         /\ Len(Reserve(b, intent, track).reservations) = Len(b.reservations) + 1
         /\ \A i \in 1 .. Len(b.reservations) :
              Reserve(b, intent, track).reservations[i] = b.reservations[i]
<1> DEFINE d == Reserve(b, intent, track)
           n == Len(b.reservations)
           r == BuildReservation(intent, n + 1, track)
<1>1. /\ d.reservations \in Seq(Reservations)
      /\ Len(d.reservations) = n + 1
      /\ \A i \in 1 .. n : d.reservations[i] = b.reservations[i]
      /\ d.reservations[n + 1] = r
      /\ d.next_reservation_id = n + 2
      /\ d.active_keys = [b.active_keys EXCEPT ![r.key] = n + 1]
      /\ d.ledger = Credit(b.ledger, r.amounts)
      /\ d = [next_reservation_id |-> d.next_reservation_id,
              reservations |-> d.reservations,
              active_keys |-> d.active_keys, ledger |-> d.ledger]
  BY ReserveParts
<1> QED BY <1>1

\* What expire_old leaves of the vector.
LEMMA ExpireVector ==
  ASSUME NEW b, BookInv(b), NEW now
  PROVE  Expire(b, now).reservations
           = [i \in 1 .. Len(b.reservations) |->
                IF i \in Due(b, now) THEN Close(b.reservations[i], "Expired")
                ELSE b.reservations[i]]
<1> DEFINE rs == [i \in 1 .. Len(b.reservations) |->
                    IF i \in Due(b, now) THEN Close(b.reservations[i], "Expired")
                    ELSE b.reservations[i]]
           ks == Without(b.active_keys, {b.reservations[i].key : i \in Due(b, now)})
<1>1. Expire(b, now)
        = [next_reservation_id |-> b.next_reservation_id, reservations |-> rs,
           active_keys |-> ks, ledger |-> ExpireLedger(b, now)]
  BY ExpireParts, Zenon
<1> HIDE DEF rs, ks
<1>2. Expire(b, now).reservations = rs
  BY <1>1
<1> QED BY <1>2 DEF rs

\* Every step keeps the closed reservations.
LEMMA NextKeepsClosed ==
  ASSUME BookInv(book), [Next]_book
  PROVE  KeepsClosed(book, book')
<1> DEFINE n == Len(book.reservations)
<1>0. BookType(book) /\ DOMAIN book.reservations = 1 .. n /\ n \in Nat
  BY BookParts DEF BookInv
<1>1. ASSUME NEW intent \in Intents, NEW now \in Times, NEW track \in BOOLEAN,
             TryReserve(intent, now, track)
      PROVE  KeepsClosed(book, book')
  <2>1. /\ book'.reservations \in Seq(Reservations)
        /\ Len(book'.reservations) = n + 1
        /\ \A i \in 1 .. n : book'.reservations[i] = book.reservations[i]
    <3>1. book' = Reserve(book, intent, track)
      BY <1>1 DEF TryReserve
    <3> QED BY <1>0, <3>1, ReserveVector
  <2>2. DOMAIN book'.reservations = 1 .. n + 1
    BY <2>1
  <2> QED BY <1>0, <2>1, <2>2 DEF KeepsClosed
<1>2. ASSUME NEW id \in 0 .. book.next_reservation_id, Release(id)
      PROVE  KeepsClosed(book, book')
  <2>1. id \in 1 .. n /\ IsActive(book, id) /\ book' = ReleaseOne(book, id)
    BY <1>0, <1>2 DEF Release, CanRelease
  <2>2. book'.reservations
          = [i \in 1 .. n |-> IF i \in {id} THEN Close(book.reservations[i], "Released")
                              ELSE book.reservations[i]]
    <3>1. book'.reservations
            = [book.reservations EXCEPT ![id] = Close(book.reservations[id], "Released")]
      BY <1>0, <2>1 DEF ReleaseOne, BookType
    <3> QED BY <1>0, <2>1, <3>1
  <2>3. {id} \in SUBSET (1 .. n) /\ \A i \in {id} : IsActive(book, i)
    BY <2>1
  <2>4. \A i \in DOMAIN book.reservations :
          /\ i \in DOMAIN book'.reservations
          /\ ~ IsActive(book, i) => book'.reservations[i] = book.reservations[i]
          /\ book'.reservations[i].key = book.reservations[i].key
    BY <2>2, <2>3, ClosingKeepsClosed, Zenon
  <2> QED BY <2>4 DEF KeepsClosed
<1>3. ASSUME NEW now \in Times, ExpireOld(now)
      PROVE  KeepsClosed(book, book')
  <2> DEFINE D == Due(book, now)
  <2>1. D \in SUBSET (1 .. n) /\ \A i \in D : IsActive(book, i)
    BY <1>0 DEF Due
  <2>2. book'.reservations
          = [i \in 1 .. n |-> IF i \in D THEN Close(book.reservations[i], "Expired")
                              ELSE book.reservations[i]]
    <3>1. book' = Expire(book, now)
      BY <1>3 DEF ExpireOld
    <3> QED BY <3>1, ExpireVector
  <2> HIDE DEF D
  <2>4. \A i \in DOMAIN book.reservations :
          /\ i \in DOMAIN book'.reservations
          /\ ~ IsActive(book, i) => book'.reservations[i] = book.reservations[i]
          /\ book'.reservations[i].key = book.reservations[i].key
    BY <2>1, <2>2, ClosingKeepsClosed
  <2> QED BY <2>4 DEF KeepsClosed
<1>4. CASE UNCHANGED book
  BY <1>4 DEF KeepsClosed
<1> QED BY <1>1, <1>2, <1>3, <1>4 DEF Next

\* release and expire_old close a reservation once: nothing changes it afterwards,
\* and the vector never loses one.
THEOREM ClosedOnce == Spec => ClosedStaysClosed
<1>1. BookInv(book) /\ [Next]_book
        => [\A i \in DOMAIN book.reservations :
              /\ i \in DOMAIN book'.reservations
              /\ ~ IsActive(book, i) => book'.reservations[i] = book.reservations[i]
              /\ book'.reservations[i].key = book.reservations[i].key]_book
  BY NextKeepsClosed DEF KeepsClosed
<1> QED BY <1>1, BookInvariant, PTL DEF Spec, ClosedStaysClosed
=============================================================================
