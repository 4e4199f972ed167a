-------------------------- MODULE RiskEngineProofs --------------------------
(***************************************************************************)
(* Theorems about RiskEngine, for every policy, every set of intents and   *)
(* decisions and every market.  RiskInv is the inductive invariant: the    *)
(* book's own invariant, the alignment of approvals with reservations,     *)
(* what the duplicate guard remembers of them, the inventory limit, and    *)
(* the count of approvals in the second of the rate window.  From it       *)
(* follows that the engine implements RiskBudget.                          *)
(***************************************************************************)
EXTENDS RiskEngine, ReservationBookProofs, FiniteSetTheorems

-----------------------------------------------------------------------------
(* Sequences.                                                               *)

SomeSeq(s) == \E S : s \in Seq(S)

\* Appending to a sequence of whatever it holds.
LEMMA AppendAny ==
  ASSUME NEW s, SomeSeq(s), NEW e
  PROVE  /\ SomeSeq(Append(s, e))
         /\ Len(s) \in Nat
         /\ DOMAIN s = 1 .. Len(s)
         /\ Len(Append(s, e)) = Len(s) + 1
         /\ DOMAIN Append(s, e) = 1 .. Len(s) + 1
         /\ \A k \in 1 .. Len(s) : Append(s, e)[k] = s[k]
         /\ Append(s, e)[Len(s) + 1] = e
<1>1. PICK S : s \in Seq(S)
  BY DEF SomeSeq
<1> DEFINE T == S \cup {e}
<1>2. s \in Seq(T)
  <2>1. Len(s) \in Nat /\ \A k \in 1 .. Len(s) : s[k] \in T
    BY <1>1
  <2>2. s \in [1 .. Len(s) -> T]
    BY <1>1, <2>1
  <2> QED BY <2>1, <2>2, FunctionIsSeq
<1>3. e \in T
  OBVIOUS
<1> HIDE DEF T
<1>4. Append(s, e) \in Seq(T)
  BY <1>2, <1>3
<1> QED BY <1>2, <1>3, <1>4 DEF SomeSeq

\* The shape of a concatenation.
LEMMA ConcatShape ==
  ASSUME NEW S, NEW s \in Seq(S), NEW t \in Seq(S)
  PROVE  /\ s \o t \in Seq(S)
         /\ Len(s) \in Nat /\ Len(t) \in Nat
         /\ Len(s \o t) = Len(s) + Len(t)
         /\ DOMAIN (s \o t) = 1 .. Len(s) + Len(t)
BY ConcatProperties

\* Where the entries of a concatenation come from.
LEMMA ConcatEntries ==
  ASSUME NEW S, NEW s \in Seq(S), NEW t \in Seq(S)
  PROVE  /\ \A k \in 1 .. Len(s) : (s \o t)[k] = s[k]
         /\ \A k \in 1 .. Len(t) : (s \o t)[Len(s) + k] = t[k]
BY ConcatProperties

\* If every check of a concatenation passes, so does every check of its parts.
LEMMA ConcatAll ==
  ASSUME NEW S, NEW s \in Seq(S), NEW t \in Seq(S), AllPass(s \o t)
  PROVE  AllPass(s) /\ AllPass(t)
<1> DEFINE x == "None"
<1>0. \A k \in DOMAIN (s \o t) : (s \o t)[k] = x
  BY DEF AllPass
<1>1. /\ Len(s) \in Nat /\ Len(t) \in Nat
      /\ DOMAIN (s \o t) = 1 .. Len(s) + Len(t)
      /\ \A k \in 1 .. Len(s) + Len(t) :
           (s \o t)[k] = IF k <= Len(s) THEN s[k] ELSE t[k - Len(s)]
  BY ConcatProperties
<1>2. ASSUME NEW k \in DOMAIN s PROVE s[k] = x
  <2>1. k \in 1 .. Len(s)
    OBVIOUS
  <2>2. k \in 1 .. Len(s) + Len(t) /\ k <= Len(s)
    BY <1>1, <2>1
  <2> QED BY <1>0, <1>1, <2>2, Zenon
<1>3. ASSUME NEW k \in DOMAIN t PROVE t[k] = x
  <2>1. k \in 1 .. Len(t)
    OBVIOUS
  <2>2. /\ k + Len(s) \in 1 .. Len(s) + Len(t) /\ ~ (k + Len(s) <= Len(s))
        /\ (k + Len(s)) - Len(s) = k
    BY <1>1, <2>1
  <2>3. (s \o t)[k + Len(s)] = t[k]
    BY <1>1, <2>2
  <2> QED BY <1>0, <1>1, <2>2, <2>3, Zenon
<1> QED BY <1>2, <1>3 DEF AllPass

-----------------------------------------------------------------------------
(* What an approval has passed.                                             *)

\* The rate limit runs sixth.  When every check of evaluate_view passes, so do the duplicate guard, the rate limit,
\* the inventory guard and try_reserve, and the guards that keep state have run.
LEMMA PassedChecks ==
  ASSUME NEW b, NEW ledger, NEW intent \in Intents, NEW input
  PROVE  /\ Checks(b, ledger, intent, input)[6] = RateLimitGuard
         /\ AllPass(Checks(b, ledger, intent, input)) =>
              /\ DuplicateIntentGuard(intent) = "None"
              /\ RateLimitGuard = "None"
              /\ InventoryGuard(ledger, intent, Revalidate(intent, input)) = "None"
              /\ ReservationReason(b, intent) = "None"
              /\ Reached(Checks(b, ledger, intent, input), 4)
              /\ Reached(Checks(b, ledger, intent, input), 5)
              /\ Reached(Checks(b, ledger, intent, input), 6)
<1> DEFINE cost == Revalidate(intent, input)
           A == IntakeChecks(intent, input)
           B == << DuplicateIntentGuard(intent), RateLimitGuard >>
           C == MarketChecks(intent, input)
           D == BudgetChecks(b, ledger, intent, cost)
           n == 2 * Len(intent.legs)
           S == {A[1], A[2], A[3], A[4], B[1], B[2]} \cup {C[j] : j \in 1 .. n}
                  \cup {D[1], D[2], D[3], D[4], D[5], D[6], D[7]}
           all == Checks(b, ledger, intent, input)
<1>1. n \in Nat
  <2>1. Len(intent.legs) \in Nat
    BY IntentAssumption
  <2> QED BY <2>1
<1>2. A \in Seq(S) /\ Len(A) = 4
  BY DEF IntakeChecks
<1>3. B \in Seq(S) /\ Len(B) = 2
  OBVIOUS
<1>4. C \in Seq(S)
  <2>1. C \in [1 .. n -> S]
    BY Zenon DEF MarketChecks
  <2> HIDE DEF S, n, C
  <2> QED BY <1>1, <2>1, FunctionIsSeq, Zenon
<1>5. D \in Seq(S) /\ Len(D) = 7
  BY DEF BudgetChecks
<1>6. all = ((A \o B) \o C) \o D
  BY DEF Checks
<1>7. /\ B[1] = DuplicateIntentGuard(intent) /\ B[2] = RateLimitGuard
      /\ D[5] = InventoryGuard(ledger, intent, cost)
      /\ D[7] = ReservationReason(b, intent)
  BY DEF BudgetChecks
<1> HIDE DEF A, B, C, D, S
<1> DEFINE AB == A \o B
           ABC == AB \o C
<1>8. A \in Seq(S) /\ B \in Seq(S) /\ D \in Seq(S)
  BY <1>2, <1>3, <1>5, Zenon
<1>9. AB \in Seq(S) /\ Len(AB) = Len(A) + Len(B)
  BY <1>8, ConcatShape, Zenon
<1>10. AllPass(AB) => AllPass(B)
  BY <1>8, ConcatAll, Zenon
<1> HIDE DEF AB
<1>11. ABC \in Seq(S) /\ Len(ABC) = Len(AB) + Len(C) /\ Len(C) \in Nat
  BY <1>4, <1>9, ConcatShape, Zenon
<1>12. AllPass(ABC) => AllPass(AB)
  BY <1>4, <1>9, ConcatAll
<1> HIDE DEF ABC
<1>13. DOMAIN (ABC \o D) = 1 .. Len(ABC) + Len(D)
  BY <1>8, <1>11, ConcatShape, Zenon
<1>14. all = ABC \o D
  BY <1>6 DEF ABC, AB
<1>a. all[6] = RateLimitGuard
  <2>1. AB[4 + 2] = B[2]
    <3>1. \A k \in 1 .. Len(B) : AB[Len(A) + k] = B[k]
      BY <1>8, ConcatEntries DEF AB
    <3> QED BY <1>2, <1>3, <3>1
  <2>2. ABC[6] = AB[6]
    <3>1. \A k \in 1 .. Len(AB) : ABC[k] = AB[k]
      BY <1>4, <1>9, ConcatEntries, Zenon DEF ABC
    <3> QED BY <1>2, <1>3, <1>9, <3>1
  <2>3. (ABC \o D)[6] = ABC[6]
    <3>1. \A k \in 1 .. Len(ABC) : (ABC \o D)[k] = ABC[k]
      BY <1>8, <1>11, ConcatEntries, Zenon
    <3> QED BY <1>2, <1>3, <1>9, <1>11, <3>1
  <2> QED BY <1>7, <1>14, <2>1, <2>2, <2>3
<1>b. SUFFICES ASSUME AllPass(all)
               PROVE  /\ DuplicateIntentGuard(intent) = "None"
                      /\ RateLimitGuard = "None"
                      /\ InventoryGuard(ledger, intent, Revalidate(intent, input)) = "None"
                      /\ ReservationReason(b, intent) = "None"
                      /\ Reached(all, 4)
                      /\ Reached(all, 5)
                      /\ Reached(all, 6)
  BY <1>a, Zenon
<1>15. AllPass(ABC \o D)
  BY <1>b, <1>14, Zenon
<1>16. AllPass(ABC) /\ AllPass(D)
  BY <1>8, <1>11, <1>15, ConcatAll, Zenon
<1>17. B[1] = "None" /\ B[2] = "None" /\ D[5] = "None" /\ D[7] = "None"
  BY <1>3, <1>5, <1>10, <1>12, <1>16 DEF AllPass
<1>18. \A k \in 1 .. 6 : k \in DOMAIN (ABC \o D)
  <2>1. Len(ABC) + Len(D) \in Nat /\ Len(ABC) + Len(D) >= 6
    BY <1>2, <1>3, <1>5, <1>9, <1>11
  <2> QED BY <1>13, <2>1
<1>19. \A k \in 1 .. 6 : all[k] = "None"
  BY <1>14, <1>15, <1>18, Zenon DEF AllPass
<1>20. Reached(all, 4) /\ Reached(all, 5) /\ Reached(all, 6)
  BY <1>19 DEF Reached
<1> QED BY <1>7, <1>17, <1>20, Zenon

\* The inventory guard bounds what the ledger will hold of every asset.
LEMMA InventoryPassed ==
  ASSUME NEW ledger \in [Accounts -> Int], NEW intent \in Intents, NEW cost,
         InventoryGuard(ledger, intent, cost) = "None",
         Policy.max_inventory_lots_per_asset > 0,
         \A a \in Assets : ledger[a] <= Policy.max_inventory_lots_per_asset
  PROVE  \A a \in Assets :
           ledger[a] + AssetLots(intent, a) <= Policy.max_inventory_lots_per_asset
<1> SUFFICES ASSUME NEW a \in Assets
             PROVE  ledger[a] + AssetLots(intent, a) <= Policy.max_inventory_lots_per_asset
  OBVIOUS
<1> DEFINE n == Len(intent.legs)
           f == [i \in 1 .. n |->
                   IF intent.legs[i].asset_id = a THEN intent.legs[i].quantity_lots ELSE 0]
           z == [i \in 1 .. n |-> 0]
<1>1. CASE a \in AssetsOf(intent)
  BY <1>1 DEF InventoryGuard, Unless
<1>2. CASE a \notin AssetsOf(intent)
  <2>1. n \in Nat
    BY IntentAssumption
  <2>2. \A i \in 1 .. n : intent.legs[i].asset_id # a
    BY <1>2, Zenon DEF AssetsOf, LegIndexes
  <2>3. \A i \in 1 .. n : f[i] = z[i] /\ z[i] = 0
    BY <2>2
  <2>4. AssetLots(intent, a) = PrefixSum(f, n)
    BY DEF AssetLots
  <2>5. PrefixSum(f, n) = PrefixSum(z, n)
    <3> HIDE DEF f, z, n
    <3> QED BY <2>1, <2>3, PrefixSumEqual, Zenon
  <2>6. PrefixSum(z, n) = 0
    <3> HIDE DEF z, n
    <3>1. PrefixSum(z, n) = PrefixSum(z, n) - PrefixSum(z, n) /\ PrefixSum(z, n) \in Int
      BY <2>1, <2>3, PrefixSumMinus, PrefixSumType
    <3> QED BY <3>1
  <2>7. ledger[a] \in Int /\ ledger[a] + 0 = ledger[a]
    BY DEF Accounts, Detail
  <2> QED BY <2>4, <2>5, <2>6, <2>7, Zenon
<1> QED BY <1>1, <1>2

-----------------------------------------------------------------------------
(* Closing reservations frees budget.                                       *)

\* d holds the reservations of b, and no more of them are active.
Shrinks(b, d) ==
  /\ Len(d.reservations) = Len(b.reservations)
  /\ \A i \in 1 .. Len(b.reservations) :
       /\ d.reservations[i].key = b.reservations[i].key
       /\ d.reservations[i].amounts = b.reservations[i].amounts
       /\ IsActive(d, i) => IsActive(b, i)

\* Every row of the ledger but the signed cost can only go down when reservations close.
LEMMA ShrinkLedger ==
  ASSUME NEW b, BookInv(b), NEW d, BookInv(d), Shrinks(b, d),
         NEW c \in Accounts \ {"cost"}
  PROVE  d.ledger[c] <= b.ledger[c]
<1> DEFINE n == Len(b.reservations)
           f == [i \in 1 .. n |-> Held(b, i, c)]
           g == [i \in 1 .. n |-> Held(d, i, c)]
           h == [i \in 1 .. n |-> f[i] - g[i]]
<1>1. /\ n \in Nat
      /\ \A i \in 1 .. n : b.reservations[i].amounts[c] \in Int
                           /\ b.reservations[i].amounts[c] >= 0
  BY BookParts, Zenon DEF BookInv
<1>2. b.ledger[c] = PrefixSum(f, n)
  BY DEF BookInv, LedgerMatchesActive
<1>3. d.ledger[c] = PrefixSum(g, n)
  BY Zenon DEF BookInv, LedgerMatchesActive, Shrinks
<1>4. \A i \in 1 .. n : f[i] \in Nat /\ g[i] \in Nat /\ h[i] = f[i] - g[i] /\ h[i] \in Nat
  <2> SUFFICES ASSUME NEW i \in 1 .. n
               PROVE  /\ Held(b, i, c) \in Nat /\ Held(d, i, c) \in Nat
                      /\ Held(b, i, c) - Held(d, i, c) \in Nat
    OBVIOUS
  <2>1. /\ d.reservations[i].amounts[c] = b.reservations[i].amounts[c]
        /\ IsActive(d, i) => IsActive(b, i)
    BY DEF Shrinks
  <2>2. b.reservations[i].amounts[c] \in Int /\ b.reservations[i].amounts[c] >= 0
    BY <1>1, Zenon
  <2> QED BY <2>1, <2>2 DEF Held
<1> HIDE DEF n, f, g, h
<1>5. PrefixSum(h, n) = PrefixSum(f, n) - PrefixSum(g, n)
  BY <1>1, <1>4, PrefixSumMinus
<1>6. PrefixSum(h, n) \in Nat /\ PrefixSum(f, n) \in Nat /\ PrefixSum(g, n) \in Nat
  BY <1>1, <1>4, PrefixSumBounds, Zenon
<1> QED BY <1>2, <1>3, <1>5, <1>6

\* The reservations of b with those of D closed.
Closed(b, D, status) ==
  [i \in 1 .. Len(b.reservations) |->
     IF i \in D THEN Close(b.reservations[i], status) ELSE b.reservations[i]]

\* Closing a set of reservations shrinks the book.
LEMMA ClosingShrinks ==
  ASSUME NEW b, BookInv(b), NEW D, NEW status \in {"Released", "Expired"}, NEW d,
         d.reservations = Closed(b, D, status)
  PROVE  Shrinks(b, d)
<1> DEFINE n == Len(b.reservations)
<1> USE DEF Closed
<1>1. n \in Nat /\ \A i \in 1 .. n : b.reservations[i] \in Reservations
  BY BookParts, Zenon DEF BookInv
<1>2. ASSUME NEW i \in 1 .. n
      PROVE  /\ d.reservations[i].key = b.reservations[i].key
             /\ d.reservations[i].amounts = b.reservations[i].amounts
             /\ d.reservations[i].status = "Active" => b.reservations[i].status = "Active"
  <2>1. d.reservations[i] = IF i \in D THEN Close(b.reservations[i], status)
                            ELSE b.reservations[i]
    OBVIOUS
  <2>2. /\ Close(b.reservations[i], status).key = b.reservations[i].key
        /\ Close(b.reservations[i], status).amounts = b.reservations[i].amounts
        /\ Close(b.reservations[i], status).status = status
    BY <1>1, CloseType, Zenon
  <2> QED BY <2>1, <2>2, Zenon
<1>3. Len(d.reservations) = n
  <2>1. d.reservations \in [1 .. n -> {d.reservations[i] : i \in 1 .. n}]
    OBVIOUS
  <2> HIDE DEF n
  <2> QED BY <1>1, <2>1, FunctionIsSeq
<1> QED BY <1>2, <1>3, Zenon DEF Shrinks, IsActive

\* expire_old leaves a good book that holds no more than before, and the same next id.
LEMMA ExpireShrinks ==
  ASSUME NEW b, BookInv(b), NEW t
  PROVE  /\ BookInv(Expire(b, t)) /\ Shrinks(b, Expire(b, t))
         /\ Expire(b, t).next_reservation_id = b.next_reservation_id
<1>1. BookInv(Expire(b, t))
  BY ExpireInv
<1>2. Shrinks(b, Expire(b, t))
  <2>1. Expire(b, t).reservations = Closed(b, Due(b, t), "Expired")
    BY ExpireVector, Zenon DEF Closed
  <2> QED BY <2>1, ClosingShrinks, Zenon
<1>3. /\ Expire(b, t).next_reservation_id = Len(Expire(b, t).reservations) + 1
      /\ b.next_reservation_id = Len(b.reservations) + 1
  BY <1>1, BookParts, Zenon DEF BookInv
<1> QED BY <1>1, <1>2, <1>3 DEF Shrinks

\* release does too.
LEMMA ReleaseShrinks ==
  ASSUME NEW b, BookInv(b), NEW id, CanRelease(b, id)
  PROVE  BookInv(ReleaseOne(b, id)) /\ Shrinks(b, ReleaseOne(b, id))
<1> DEFINE n == Len(b.reservations)
           d == ReleaseOne(b, id)
<1>1. BookInv(d)
  BY ReleaseInv, Zenon
<1>2. id \in 1 .. n /\ DOMAIN b.reservations = 1 .. n /\ BookType(b)
  BY BookParts DEF CanRelease, BookInv
<1>3. d.reservations = [b.reservations EXCEPT ![id] = Close(b.reservations[id], "Released")]
  BY <1>2 DEF ReleaseOne, BookType
<1>4. d.reservations = Closed(b, {id}, "Released")
  BY <1>2, <1>3, Zenon DEF Closed
<1> HIDE DEF d
<1> QED BY <1>1, <1>4, ClosingShrinks, Zenon DEF d

-----------------------------------------------------------------------------
(* The rate window.                                                         *)

Second(t) == t \div NsPerSecond

\* How many approvals fall in a second.
InSecond(app, s) == {k \in DOMAIN app : Second(app[k].approved_at_ns) = s}

\* The window counts at least the approvals of its second, later seconds have none, and
\* no second has more than the policy allows.
RateOK(w, app, t) ==
  /\ w \in [second : Nat, used : Nat]
  /\ w.second <= Second(t)
  /\ w.used <= Policy.max_approvals_per_second
  /\ \A k \in DOMAIN app : /\ app[k].approved_at_ns \in Nat
                           /\ Second(app[k].approved_at_ns) <= w.second
  /\ Cardinality(InSecond(app, w.second)) <= w.used
  /\ \A s \in Nat : Cardinality(InSecond(app, s)) <= Policy.max_approvals_per_second

\* Seconds are whole numbers that do not go back.
LEMMA SecondType ==
  ASSUME NEW t \in Nat
  PROVE  Second(t) \in Nat /\ Second(t) <= Second(t + 1)
<1>1. NsPerSecond \in Nat /\ NsPerSecond > 0
  BY PolicyAssumption
<1>2. \A x \in Nat : \A n \in Nat : n > 0 => x \div n \in Nat
  OBVIOUS
<1>3. \A x \in Nat : \A n \in Nat : n > 0 => x \div n <= (x + 1) \div n
  OBVIOUS
<1> QED BY <1>1, <1>2, <1>3, Zenon DEF Second

\* The approvals of a second are finitely many, and an append adds at most one.
LEMMA CountAppend ==
  ASSUME NEW app, SomeSeq(app), NEW e, NEW s
  PROVE  /\ IsFiniteSet(InSecond(app, s)) /\ Cardinality(InSecond(app, s)) \in Nat
         /\ Cardinality(InSecond(Append(app, e), s))
              = IF Second(e.approved_at_ns) = s THEN Cardinality(InSecond(app, s)) + 1
                ELSE Cardinality(InSecond(app, s))
<1> DEFINE n == Len(app)
           A == InSecond(app, s)
           B == InSecond(Append(app, e), s)
<1>1. /\ n \in Nat /\ DOMAIN app = 1 .. n
      /\ DOMAIN Append(app, e) = 1 .. n + 1
      /\ \A k \in 1 .. n : Append(app, e)[k] = app[k]
      /\ Append(app, e)[n + 1] = e
  BY AppendAny
<1>2. A \subseteq 1 .. n /\ n + 1 \notin A
  BY <1>1 DEF InSecond
<1>3. IsFiniteSet(1 .. n)
  BY <1>1, FS_Interval
<1>4. IsFiniteSet(A) /\ Cardinality(A) \in Nat
  BY <1>2, <1>3, FS_Subset, FS_CardinalityType, Zenon
<1>5. CASE Second(e.approved_at_ns) = s
  <2>1. B = A \cup {n + 1}
    BY <1>1, <1>5 DEF InSecond
  <2>2. Cardinality(A \cup {n + 1}) = Cardinality(A) + 1
    BY <1>2, <1>4, FS_AddElement, Zenon
  <2> QED BY <1>4, <1>5, <2>1, <2>2, Zenon
<1>6. CASE Second(e.approved_at_ns) # s
  <2>1. B = A
    BY <1>1, <1>6 DEF InSecond
  <2> QED BY <1>4, <1>6, <2>1, Zenon
<1> QED BY <1>5, <1>6, Zenon

\* RateLimitGuard moves its window to the current second.
LEMMA RateAt ==
  ASSUME NEW app, NEW t \in Nat, RateOK(window, app, t)
  PROVE  RateOK(WindowAt(Second(t)), app, t) /\ WindowAt(Second(t)).second = Second(t)
<1>1. CASE Second(t) = window.second
  BY <1>1 DEF WindowAt
<1>2. CASE Second(t) # window.second
  <2> DEFINE w == [second |-> Second(t), used |-> 0]
  <2>1. WindowAt(Second(t)) = w
    BY <1>2 DEF WindowAt
  <2>2. Second(t) \in Nat /\ window.second \in Nat /\ window.second < Second(t)
    <3>1. Second(t) \in Nat
      BY SecondType
    <3>2. window \in [second : Nat, used : Nat] /\ window.second <= Second(t)
      BY DEF RateOK
    <3> QED BY <1>2, <3>1, <3>2
  <2>3. InSecond(app, Second(t)) = {}
    <3>1. ASSUME NEW k \in DOMAIN app, Second(app[k].approved_at_ns) = Second(t) PROVE FALSE
      <4>1. Second(app[k].approved_at_ns) <= window.second
        BY DEF RateOK
      <4> QED BY <2>2, <3>1, <4>1
    <3> QED BY <3>1 DEF InSecond
  <2>4. Cardinality(InSecond(app, Second(t))) = 0
    <3>1. Cardinality({}) = 0
      BY FS_EmptySet, Zenon
    <3> QED BY <2>3, <3>1, Zenon
  <2>5. \A k \in DOMAIN app : /\ app[k].approved_at_ns \in Nat
                              /\ Second(app[k].approved_at_ns) <= Second(t)
    <3> TAKE k \in DOMAIN app
    <3>1. app[k].approved_at_ns \in Nat /\ Second(app[k].approved_at_ns) <= window.second
      BY DEF RateOK
    <3>2. Second(app[k].approved_at_ns) \in Nat
      BY <3>1, SecondType, Zenon
    <3> QED BY <2>2, <3>1, <3>2
  <2>6. Policy.max_approvals_per_second \in Nat
    BY PolicyAssumption, Zenon
  <2>7. RateOK(w, app, t)
    <3>1. \A s \in Nat : Cardinality(InSecond(app, s)) <= Policy.max_approvals_per_second
      BY DEF RateOK
    <3> QED BY <2>2, <2>4, <2>5, <2>6, <3>1 DEF RateOK
  <2> QED BY <2>1, <2>7
<1> QED BY <1>1, <1>2, Zenon

\* Once the limit has been checked, a token is used, by an approval or by none.
LEMMA RateUse ==
  ASSUME NEW w, NEW app, SomeSeq(app), NEW t \in Nat, RateOK(w, app, t),
         w.second = Second(t), w.used < Policy.max_approvals_per_second,
         NEW e, e.approved_at_ns = t
  PROVE  /\ RateOK([w EXCEPT !.used = w.used + 1], app, t)
         /\ RateOK([w EXCEPT !.used = w.used + 1], Append(app, e), t)
<1> DEFINE v == [w EXCEPT !.used = w.used + 1]
           max == Policy.max_approvals_per_second
<1>1. /\ w \in [second : Nat, used : Nat] /\ w.second \in Nat /\ w.used \in Nat
      /\ max \in Nat /\ Second(t) \in Nat
  BY PolicyAssumption, SecondType, Zenon DEF RateOK
<1>2. /\ v \in [second : Nat, used : Nat] /\ v.second = w.second /\ v.used = w.used + 1
      /\ v.used <= max
  BY <1>1
<1> HIDE DEF v
<1>3. \A s : Cardinality(InSecond(app, s)) \in Nat
  BY CountAppend, Zenon
<1>4. RateOK(v, app, t)
  BY <1>1, <1>2, <1>3 DEF RateOK
<1>5. \A k \in DOMAIN Append(app, e) : /\ Append(app, e)[k].approved_at_ns \in Nat
                                       /\ Second(Append(app, e)[k].approved_at_ns) <= v.second
  <2> DEFINE n == Len(app)
  <2>1. /\ n \in Nat /\ DOMAIN app = 1 .. n
        /\ DOMAIN Append(app, e) = 1 .. n + 1
        /\ \A k \in 1 .. n : Append(app, e)[k] = app[k]
        /\ Append(app, e)[n + 1] = e
    BY AppendAny
  <2> TAKE k \in DOMAIN Append(app, e)
  <2>2. CASE k \in 1 .. n
    BY <1>4, <2>1, <2>2, Zenon DEF RateOK
  <2>3. CASE k = n + 1
    BY <1>1, <1>2, <2>1, <2>3
  <2> QED BY <2>1, <2>2, <2>3
<1>6. Cardinality(InSecond(Append(app, e), v.second)) <= v.used
  <2>1. Cardinality(InSecond(app, w.second)) <= w.used
    BY DEF RateOK
  <2>2. Cardinality(InSecond(Append(app, e), w.second)) = Cardinality(InSecond(app, w.second)) + 1
    BY CountAppend, Zenon
  <2> QED BY <1>1, <1>2, <1>3, <2>1, <2>2
<1>7. ASSUME NEW s \in Nat PROVE Cardinality(InSecond(Append(app, e), s)) <= max
  <2>1. CASE s = v.second
    <3>1. Cardinality(InSecond(Append(app, e), s)) \in Nat
      BY <1>3, CountAppend
    <3> QED BY <1>1, <1>2, <1>6, <2>1, <3>1
  <2>2. CASE s # v.second
    <3>1. Cardinality(InSecond(Append(app, e), s)) = Cardinality(InSecond(app, s))
      BY <1>2, <2>2, CountAppend, Zenon
    <3> QED BY <3>1, Zenon DEF RateOK
  <2> QED BY <2>1, <2>2, Zenon
<1>8. RateOK(v, Append(app, e), t)
  BY <1>1, <1>2, <1>5, <1>6, <1>7, Zenon DEF RateOK
<1> QED BY <1>4, <1>8, Zenon DEF v

-----------------------------------------------------------------------------
(* The approvals and the inventory.                                         *)

\* The approvals are the reservations, in order; the duplicate guard remembers the hash
\* of every one of them, and no hash occurs twice.
ApprovalsOK(app, b, sn) ==
  /\ SomeSeq(app)
  /\ Len(app) = Len(b.reservations)
  /\ \A k \in DOMAIN app :
       /\ app[k].intent \in Intents
       /\ app[k].reservation_id = k
       /\ b.reservations[k].key = ReservationKeyFor(app[k].intent)
       /\ app[k].intent.idempotency_hash # 0 => << "hash", app[k].intent.idempotency_hash >> \in sn
  /\ \A j, k \in DOMAIN app :
       /\ app[j].intent.idempotency_hash = app[k].intent.idempotency_hash
       /\ app[j].intent.idempotency_hash # 0
       => j = k

InventoryOK(b) ==
  Policy.max_inventory_lots_per_asset > 0 =>
    \A a \in Assets : b.ledger[a] <= Policy.max_inventory_lots_per_asset

\* Closing reservations and remembering more keep the approvals in order.
LEMMA ApprovalsShrink ==
  ASSUME NEW app, NEW b, NEW d, NEW sn, NEW sm, ApprovalsOK(app, b, sn),
         Shrinks(b, d), sn \subseteq sm
  PROVE  ApprovalsOK(app, d, sm)
<1>1. DOMAIN app = 1 .. Len(app)
  BY AppendAny, Zenon DEF ApprovalsOK
<1>2. \A k \in DOMAIN app : d.reservations[k].key = b.reservations[k].key
  BY <1>1, Zenon DEF ApprovalsOK, Shrinks
<1>3. Len(d.reservations) = Len(b.reservations)
  BY DEF Shrinks
<1> QED BY <1>2, <1>3, Zenon DEF ApprovalsOK

\* So does an approval of an intent that the duplicate guard had not seen.
LEMMA ApprovalsAppend ==
  ASSUME NEW app, NEW b, BookInv(b), NEW sn, ApprovalsOK(app, b, sn),
         NEW intent \in Intents, NEW track \in BOOLEAN,
         IdempotencyEntry(intent) \notin sn,
         NEW e, e.intent = intent, e.reservation_id = b.next_reservation_id
  PROVE  ApprovalsOK(Append(app, e), Reserve(b, intent, track), sn \cup {IdempotencyEntry(intent)})
<1> DEFINE n == Len(app)
           d == Reserve(b, intent, track)
           new == Append(app, e)
           sm == sn \cup {IdempotencyEntry(intent)}
<1>0. BookType(b)
  BY Zenon DEF BookInv
<1>1. /\ SomeSeq(new) /\ n \in Nat /\ DOMAIN app = 1 .. n /\ Len(new) = n + 1
      /\ DOMAIN new = 1 .. n + 1
      /\ \A k \in 1 .. n : new[k] = app[k]
      /\ new[n + 1] = e
  BY AppendAny DEF ApprovalsOK
<1>2. Len(b.reservations) = n /\ b.next_reservation_id = n + 1
  BY <1>0, BookParts, Zenon DEF ApprovalsOK
<1>3. /\ Len(d.reservations) = n + 1
      /\ \A k \in 1 .. n : d.reservations[k] = b.reservations[k]
      /\ d.reservations[n + 1].key = ReservationKeyFor(intent)
  <2>1. /\ d.reservations \in Seq(Reservations)
        /\ Len(d.reservations) = Len(b.reservations) + 1
        /\ \A i \in 1 .. Len(b.reservations) : d.reservations[i] = b.reservations[i]
    BY <1>0, ReserveVector, Zenon
  <2>2. d.reservations[n + 1].key = ReservationKeyFor(intent)
    <3>1. d.reservations = Append(b.reservations,
                                  BuildReservation(intent, b.next_reservation_id, track))
      BY Zenon DEF Reserve
    <3>2. b.reservations \in Seq(Reservations)
      BY <1>0, BookParts, Zenon
    <3>3. BuildReservation(intent, b.next_reservation_id, track).key = ReservationKeyFor(intent)
      BY DEF BuildReservation
    <3>4. SomeSeq(b.reservations)
      BY <3>2, Zenon DEF SomeSeq
    <3>5. Append(b.reservations, BuildReservation(intent, b.next_reservation_id, track))
            [Len(b.reservations) + 1] = BuildReservation(intent, b.next_reservation_id, track)
      BY <3>4, AppendAny, Zenon
    <3> QED BY <1>2, <3>1, <3>3, <3>5, Zenon
  <2> QED BY <1>2, <2>1, <2>2, Zenon
<1>4. intent.idempotency_hash # 0 => /\ << "hash", intent.idempotency_hash >> \notin sn
                                     /\ << "hash", intent.idempotency_hash >> \in sm
  BY Zenon DEF IdempotencyEntry
<1> HIDE DEF d, new
<1>5. ASSUME NEW k \in 1 .. n + 1
      PROVE  /\ new[k].intent \in Intents
             /\ new[k].reservation_id = k
             /\ d.reservations[k].key = ReservationKeyFor(new[k].intent)
             /\ new[k].intent.idempotency_hash # 0
                  => << "hash", new[k].intent.idempotency_hash >> \in sm
  <2>1. CASE k \in 1 .. n
    BY <1>1, <1>3, <2>1, Zenon DEF ApprovalsOK
  <2>2. CASE k = n + 1
    BY <1>1, <1>2, <1>3, <1>4, <2>2
  <2> QED BY <1>1, <2>1, <2>2
<1>6. ASSUME NEW k \in 1 .. n, intent.idempotency_hash # 0,
             new[k].intent.idempotency_hash = intent.idempotency_hash
      PROVE  FALSE
  <2>1. app[k].intent.idempotency_hash # 0
          => << "hash", app[k].intent.idempotency_hash >> \in sn
    BY <1>1, Zenon DEF ApprovalsOK
  <2>2. app[k].intent.idempotency_hash = intent.idempotency_hash
    BY <1>1, <1>6
  <2> QED BY <1>4, <1>6, <2>1, <2>2
<1>7. ASSUME NEW j \in 1 .. n + 1, NEW k \in 1 .. n + 1,
             new[j].intent.idempotency_hash = new[k].intent.idempotency_hash,
             new[j].intent.idempotency_hash # 0
      PROVE  j = k
  <2>1. CASE j \in 1 .. n /\ k \in 1 .. n
    BY <1>1, <1>7, <2>1 DEF ApprovalsOK
  <2>2. CASE j = n + 1 /\ k \in 1 .. n
    BY <1>1, <1>6, <1>7, <2>2, Zenon
  <2>3. CASE j \in 1 .. n /\ k = n + 1
    BY <1>1, <1>6, <1>7, <2>3, Zenon
  <2>4. CASE j = n + 1 /\ k = n + 1
    BY <2>4, Zenon
  <2> QED BY <1>1, <2>1, <2>2, <2>3, <2>4
<1>8. ApprovalsOK(new, d, sm)
  <2> HIDE DEF n, sm
  <2> QED BY <1>1, <1>3, <1>5, <1>7, Zenon DEF ApprovalsOK
<1> QED BY <1>8, Zenon DEF d, new

\* Closing reservations keeps the inventory limit.
LEMMA InventoryShrink ==
  ASSUME NEW b, BookInv(b), InventoryOK(b), NEW d, BookInv(d), Shrinks(b, d)
  PROVE  InventoryOK(d)
<1> SUFFICES ASSUME Policy.max_inventory_lots_per_asset > 0, NEW a \in Assets
             PROVE  d.ledger[a] <= Policy.max_inventory_lots_per_asset
  BY Zenon DEF InventoryOK
<1>1. a \in Accounts \ {"cost"} /\ a \in Accounts
  BY ConstantAssumption, Zenon DEF Accounts, Detail
<1>2. d.ledger[a] <= b.ledger[a]
  BY <1>1, ShrinkLedger, Zenon
<1>3. d.ledger[a] \in Int /\ b.ledger[a] \in Int
  BY <1>1, BookParts, Zenon DEF BookInv
<1>4. b.ledger[a] <= Policy.max_inventory_lots_per_asset
  BY Zenon DEF InventoryOK
<1> QED BY <1>2, <1>3, <1>4, PolicyAssumption

\* So does a reservation that the inventory guard has let through.
LEMMA InventoryReserve ==
  ASSUME NEW b, BookInv(b), InventoryOK(b), NEW intent \in Intents, NEW cost,
         InventoryGuard(b.ledger, intent, cost) = "None"
  PROVE  InventoryOK(Reserve(b, intent, TrackLedgerDetail))
<1> SUFFICES ASSUME Policy.max_inventory_lots_per_asset > 0, NEW a \in Assets
             PROVE  Reserve(b, intent, TrackLedgerDetail).ledger[a]
                      <= Policy.max_inventory_lots_per_asset
  BY DEF InventoryOK
<1>1. a \in Accounts /\ a # "cost" /\ a # "exposure"
  BY ConstantAssumption, Zenon DEF Accounts, Detail
<1>2. TrackLedgerDetail
  BY Zenon DEF TrackLedgerDetail
<1>3. Reserve(b, intent, TrackLedgerDetail).ledger[a]
        = b.ledger[a] + Amounts(intent, TrackLedgerDetail)[a]
  BY <1>1, Zenon DEF Reserve, Credit, BuildReservation
<1>4. Amounts(intent, TrackLedgerDetail)[a] = AssetLots(intent, a)
  BY <1>1, <1>2, Zenon DEF Amounts
<1>5. b.ledger \in [Accounts -> Int]
  BY BookParts, Zenon DEF BookInv
<1>6. b.ledger[a] + AssetLots(intent, a) <= Policy.max_inventory_lots_per_asset
  BY <1>5, InventoryPassed, Zenon DEF InventoryOK
<1> QED BY <1>3, <1>4, <1>6, Zenon

-----------------------------------------------------------------------------
(* The engine.                                                              *)

RiskInv ==
  /\ BookInv(book)
  /\ now \in Times
  /\ ApprovalsOK(approved, book, seen)
  /\ InventoryOK(book)
  /\ RateOK(window, approved, now)

\* A new risk engine.
LEMMA RiskInitInv == RiskInit => RiskInv
<1> SUFFICES ASSUME RiskInit PROVE RiskInv
  OBVIOUS
<1>1. BookInv(book) /\ book = EmptyBook
  BY EmptyBookInv, Zenon DEF RiskInit
<1>2. now \in Times
  <2>1. \E t \in Times : \A u \in Times : t <= u
    BY ConstantAssumption, PolicyAssumption, NatLeast, Zenon
  <2>2. FirstTime \in Times
    BY <2>1, Zenon DEF FirstTime
  <2> QED BY <2>2, Zenon DEF RiskInit
<1>3. /\ SomeSeq(approved) /\ Len(approved) = 0 /\ DOMAIN approved = {}
      /\ Len(book.reservations) = 0
  <2>1. approved \in Seq({0})
    BY DEF RiskInit
  <2> QED BY <1>1, <2>1 DEF RiskInit, SomeSeq, EmptyBook
<1>4. ApprovalsOK(approved, book, seen)
  BY <1>3, Zenon DEF ApprovalsOK
<1>5. InventoryOK(book)
  <2> SUFFICES ASSUME Policy.max_inventory_lots_per_asset > 0, NEW a \in Assets
               PROVE  book.ledger[a] <= Policy.max_inventory_lots_per_asset
    BY Zenon DEF InventoryOK
  <2>1. book.ledger[a] = 0
    BY <1>1, Zenon DEF EmptyBook, Accounts, Detail
  <2> QED BY <2>1, PolicyAssumption
<1>6. RateOK(window, approved, now)
  <2>1. window = [second |-> 0, used |-> 0]
    BY DEF RiskInit
  <2>2. now \in Nat /\ Second(now) \in Nat
    BY <1>2, ConstantAssumption, SecondType, Zenon
  <2>3. \A s : InSecond(approved, s) = {}
    BY <1>3 DEF InSecond
  <2>4. Cardinality({}) = 0
    BY FS_EmptySet, Zenon
  <2>5. Policy.max_approvals_per_second \in Nat
    BY PolicyAssumption
  <2>6. \A s : Cardinality(InSecond(approved, s)) = 0
    BY <2>3, <2>4, Zenon
  <2>7. window \in [second : Nat, used : Nat] /\ window.second = 0 /\ window.used = 0
    BY <2>1, Zenon
  <2> QED BY <1>3, <2>2, <2>5, <2>6, <2>7 DEF RateOK
<1> QED BY <1>1, <1>2, <1>4, <1>5, <1>6, Zenon DEF RiskInv

\* An evaluation, approved or rejected, keeps the invariant.
LEMMA EvaluateInv ==
  ASSUME RiskInv, NEW intent \in Intents, NEW input, EvaluateView(intent, input)
  PROVE  RiskInv'
<1> DEFINE b == Expire(book, now)
           at == WindowAt(Second(now))
           used == [at EXCEPT !.used = at.used + 1]
           e == ApprovedIntent(intent, Revalidate(intent, input))
<1>1. PICK checks \in {EvaluationOf(intent, input)} :
        /\ GuardsRemember(intent, checks)
        /\ \/ /\ AllPass(checks)
              /\ book' = Reserve(b, intent, TrackLedgerDetail)
              /\ approved' = Append(approved, e)
           \/ /\ ~ AllPass(checks)
              /\ book' = b
              /\ approved' = approved
  BY Zenon DEF EvaluateView
<1>2. checks = Checks(b, b.ledger, intent, input)
  BY <1>1, Zenon DEF EvaluationOf
<1>3. now' = now /\ now \in Times /\ now \in Nat
  BY ConstantAssumption, Zenon DEF EvaluateView, RiskInv
<1>4. /\ BookInv(book) /\ ApprovalsOK(approved, book, seen) /\ InventoryOK(book)
      /\ RateOK(window, approved, now) /\ SomeSeq(approved)
  BY DEF RiskInv, ApprovalsOK
<1>5. /\ BookInv(b) /\ Shrinks(book, b)
      /\ b.next_reservation_id = book.next_reservation_id
  BY <1>4, ExpireShrinks, Zenon
<1>6. InventoryOK(b)
  BY <1>4, <1>5, InventoryShrink, Zenon
<1>7. RateOK(at, approved, now) /\ at.second = Second(now)
  BY <1>3, <1>4, RateAt, Zenon
<1>8. /\ seen' = IF Reached(checks, 4) THEN seen \cup {IdempotencyEntry(intent)} ELSE seen
      /\ window' = IF Reached(checks, 6) THEN used
                   ELSE IF Reached(checks, 5) THEN at ELSE window
  BY <1>1, Zenon DEF GuardsRemember, Second
<1>9. e.intent = intent /\ e.reservation_id = b.next_reservation_id /\ e.approved_at_ns = now
  BY <1>5, Zenon DEF ApprovedIntent
<1> HIDE DEF b, at, e
<1>10. RateLimitGuard = "None" => at.used < Policy.max_approvals_per_second
  BY DEF RateLimitGuard, Unless, at, Second
<1>11. at.used < Policy.max_approvals_per_second
         => RateOK(used, approved, now) /\ RateOK(used, Append(approved, e), now)
  BY <1>3, <1>4, <1>7, <1>9, RateUse, Zenon
<1>12. CASE AllPass(checks)
  <2>1. book' = Reserve(b, intent, TrackLedgerDetail) /\ approved' = Append(approved, e)
    BY <1>1, <1>12, Zenon
  <2>2. /\ DuplicateIntentGuard(intent) = "None"
        /\ RateLimitGuard = "None"
        /\ InventoryGuard(b.ledger, intent, Revalidate(intent, input)) = "None"
        /\ ReservationReason(b, intent) = "None"
        /\ Reached(checks, 4)
        /\ Reached(checks, 5)
        /\ Reached(checks, 6)
    BY <1>2, <1>12, PassedChecks, Zenon
  <2>3. TrackLedgerDetail \in BOOLEAN
    BY Zenon DEF TrackLedgerDetail
  <2>4. BookInv(book')
    <3>1. b.active_keys[ReservationKeyFor(intent)] = 0
      BY <2>2, Zenon DEF ReservationReason, ReserveRejection
    <3> QED BY <1>5, <2>1, <2>3, <3>1, ReserveInv, Zenon
  <2>5. ApprovalsOK(approved', book', seen')
    <3>1. ApprovalsOK(approved, b, seen)
      BY <1>4, <1>5, ApprovalsShrink, Zenon
    <3>2. IdempotencyEntry(intent) \notin seen
      BY <2>2, Zenon DEF DuplicateIntentGuard, Unless
    <3>3. ApprovalsOK(Append(approved, e), Reserve(b, intent, TrackLedgerDetail),
                      seen \cup {IdempotencyEntry(intent)})
      BY <1>5, <1>9, <2>3, <3>1, <3>2, ApprovalsAppend, Zenon
    <3> QED BY <1>8, <2>1, <2>2, <3>3, Zenon
  <2>6. InventoryOK(book')
    BY <1>5, <1>6, <2>1, <2>2, InventoryReserve, Zenon
  <2>7. RateOK(window', approved', now)
    BY <1>8, <1>10, <1>11, <2>1, <2>2, Zenon
  <2> QED BY <1>3, <2>4, <2>5, <2>6, <2>7, Zenon DEF RiskInv, ApprovalsOK, InventoryOK, RateOK, InSecond
<1>13. CASE ~ AllPass(checks)
  <2>1. book' = b /\ approved' = approved
    BY <1>1, <1>13, Zenon
  <2>2. ApprovalsOK(approved', book', seen')
    <3>1. seen \subseteq seen'
      BY <1>8, Zenon
    <3> QED BY <1>4, <1>5, <2>1, <3>1, ApprovalsShrink, Zenon
  <2>3. RateOK(window', approved', now)
    <3>1. CASE Reached(checks, 6)
      <4>1. RateLimitGuard = "None"
        BY <1>2, <3>1, PassedChecks DEF Reached
      <4> QED BY <1>8, <1>10, <1>11, <2>1, <3>1, <4>1, Zenon
    <3>2. CASE ~ Reached(checks, 6)
      BY <1>4, <1>7, <1>8, <2>1, <3>2, Zenon
    <3> QED BY <3>1, <3>2, Zenon
  <2> QED BY <1>3, <1>5, <1>6, <2>1, <2>2, <2>3, Zenon DEF RiskInv
<1> QED BY <1>12, <1>13, Zenon

\* So does every other step.
LEMMA RiskNextInv ==
  ASSUME RiskInv, [RiskNext]_riskVars
  PROVE  RiskInv'
<1>0. /\ BookInv(book) /\ now \in Times /\ ApprovalsOK(approved, book, seen)
      /\ InventoryOK(book) /\ RateOK(window, approved, now) /\ now \in Nat
  BY ConstantAssumption, Zenon DEF RiskInv
<1>1. ASSUME NEW intent \in Signals, NEW input \in Inputs, EvaluateView(intent, input)
      PROVE  RiskInv'
  BY <1>1, EvaluateInv, OfferAssumption, Zenon
<1>2. ASSUME NEW d \in Decisions, NEW input \in Inputs, EvaluateDecision(d, input)
      PROVE  RiskInv'
  <2>1. EvaluateView(IntentFromDecision(d), input)
    BY <1>2, Zenon DEF EvaluateDecision
  <2>2. IntentFromDecision(d) \in Intents
    BY OfferAssumption, Zenon
  <2> QED BY <2>1, <2>2, EvaluateInv, Zenon
\* Closing reservations, by release or by expiry.
<1>3. ASSUME BookInv(book'), Shrinks(book, book'),
             UNCHANGED << market, now, seen, window, approved >>
      PROVE  RiskInv'
  <2>1. ApprovalsOK(approved, book', seen)
    BY <1>0, <1>3, ApprovalsShrink, Zenon
  <2>2. InventoryOK(book')
    BY <1>0, <1>3, InventoryShrink, Zenon
  <2> QED BY <1>0, <1>3, <2>1, <2>2, Zenon DEF RiskInv
<1>4. ASSUME NEW id \in 0 .. book.next_reservation_id, ReleaseReservation(id)
      PROVE  RiskInv'
  <2>1. CanRelease(book, id) /\ book' = ReleaseOne(book, id)
    BY <1>4, Zenon DEF ReleaseReservation, Release
  <2>2. BookInv(book') /\ Shrinks(book, book')
    BY <1>0, <2>1, ReleaseShrinks, Zenon
  <2> QED BY <1>3, <1>4, <2>2, Zenon DEF ReleaseReservation
<1>5. CASE ExpireReservations
  <2>1. book' = Expire(book, now)
    BY <1>5, Zenon DEF ExpireReservations, ExpireOld
  <2>2. BookInv(book') /\ Shrinks(book, book')
    BY <1>0, <2>1, ExpireShrinks, Zenon
  <2> QED BY <1>3, <1>5, <2>2, Zenon DEF ExpireReservations
<1>6. ASSUME NEW a \in Assets, NEW usable \in BOOLEAN, PublishSnapshot(a, usable)
      PROVE  RiskInv'
  BY <1>0, <1>6, Zenon DEF PublishSnapshot, RiskInv
<1>7. CASE Tick
  <2>1. /\ now' = now + 1 /\ now' \in Times
        /\ book' = book /\ seen' = seen /\ window' = window /\ approved' = approved
    BY <1>7, Zenon DEF Tick
  <2>2. RateOK(window, approved, now + 1)
    <3>1. /\ Second(now) \in Nat /\ Second(now) <= Second(now + 1)
          /\ now + 1 \in Nat /\ Second(now + 1) \in Nat
      BY <1>0, SecondType
    <3>2. window \in [second : Nat, used : Nat] /\ window.second <= Second(now)
      BY <1>0, Zenon DEF RateOK
    <3>3. window.second <= Second(now + 1)
      BY <3>1, <3>2
    <3> QED BY <1>0, <3>3, Zenon DEF RateOK
  <2> QED BY <1>0, <2>1, <2>2, Zenon DEF RiskInv
<1>8. CASE UNCHANGED riskVars
  BY <1>0, <1>8, Zenon DEF riskVars, RiskInv
<1> QED BY <1>1, <1>2, <1>4, <1>5, <1>6, <1>7, <1>8, Zenon DEF RiskNext

\* The inductive invariant of the engine holds in every behaviour.
THEOREM RiskInvariant == RiskSpec => []RiskInv
<1>1. RiskInit => RiskInv
  BY RiskInitInv
<1>2. RiskInv /\ [RiskNext]_riskVars => RiskInv'
  BY RiskNextInv
<1> QED BY <1>1, <1>2, PTL DEF RiskSpec

\* The engine keeps the types of its state and a well-formed book.
THEOREM RiskTypes == RiskSpec => []RiskTypeOK
<1>1. RiskInv => RiskTypeOK
  BY Zenon DEF RiskInv, RiskTypeOK, BookInv, ApprovalsOK, RateOK
<1> QED BY <1>1, RiskInvariant, PTL

\* Through every evaluation, release and expiry the ledger the guards read is, row by row,
\* the sum over the reservations that are still active.
THEOREM RiskLedgerExact == RiskSpec => []LedgerIsSumOfActive
<1>1. RiskInv => LedgerIsSumOfActive
  BY DEF RiskInv, LedgerIsSumOfActive, BookInv
<1> QED BY <1>1, RiskInvariant, PTL

\* evaluate_view approves exactly when it reserves: the approvals are the reservations.
THEOREM ApprovalsReserve == RiskSpec => []ApprovalsAreReservations
<1>1. RiskInv => ApprovalsAreReservations
  BY Zenon DEF RiskInv, ApprovalsAreReservations, ApprovalsOK
<1> QED BY <1>1, RiskInvariant, PTL

\* No idempotency hash is approved twice, whatever was released or has expired since.
THEOREM HashApprovedOnce == RiskSpec => []ApprovedOnce
<1>1. RiskInv => ApprovedOnce
  BY DEF RiskInv, ApprovedOnce, ApprovalsOK
<1> QED BY <1>1, RiskInvariant, PTL

\* The inventory held by active reservations stays within the policy's limit.
THEOREM InventoryLimited == RiskSpec => []InventoryWithinLimit
<1>1. RiskInv => InventoryWithinLimit
  BY Zenon DEF RiskInv, InventoryWithinLimit, InventoryOK
<1> QED BY <1>1, RiskInvariant, PTL

\* RateLimitGuard's single window bounds the approvals of every second.
THEOREM RateLimited == RiskSpec => []RateWithinLimit
<1>1. RiskInv => RateWithinLimit
  <2> SUFFICES ASSUME RiskInv, NEW t \in Times
               PROVE  Cardinality(InSecond(approved, Second(t)))
                        <= Policy.max_approvals_per_second
    BY DEF RateWithinLimit, InSecond, Second
  <2>1. Second(t) \in Nat
    BY ConstantAssumption, SecondType, Zenon
  <2> QED BY <2>1, Zenon DEF RiskInv, RateOK
<1> QED BY <1>1, RiskInvariant, PTL

-----------------------------------------------------------------------------
(* The engine implements RiskBudget.                                        *)

\* The grants of a well-formed book are as many as its reservations.
LEMMA GrantsLen ==
  ASSUME NEW b, BookType(b)
  PROVE  Len(Grants(b)) = Len(b.reservations) /\ Len(b.reservations) \in Nat
<1> DEFINE n == Len(b.reservations)
<1>1. n \in Nat
  BY BookParts, Zenon
<1>2. Grants(b) \in [1 .. n -> {Grants(b)[i] : i \in 1 .. n}]
  BY Zenon DEF Grants
<1> HIDE DEF n
<1>3. Len(Grants(b)) = n
  BY <1>1, <1>2, FunctionIsSeq
<1> QED BY <1>1, <1>3, Zenon DEF n

\* What a grant is.
LEMMA GrantIs ==
  ASSUME NEW b, NEW i \in 1 .. Len(b.reservations)
  PROVE  /\ Grants(b)[i].key = b.reservations[i].key
         /\ Grants(b)[i].lots = [a \in Assets |-> b.reservations[i].amounts[a]]
         /\ Grants(b)[i].held <=> IsActive(b, i)
<1>1. Grants(b)[i]
        = [key |-> b.reservations[i].key, lots |-> [a \in Assets |-> b.reservations[i].amounts[a]],
           held |-> IsActive(b, i)]
  BY DEF Grants
<1> QED BY <1>1

\* Taking a grant back changes nothing else of it.
LEMMA HeldCleared ==
  ASSUME NEW key, NEW lots, NEW g, g = [key |-> key, lots |-> lots, held |-> TRUE]
  PROVE  [g EXCEPT !.held = FALSE] = [key |-> key, lots |-> lots, held |-> FALSE]
<1> DEFINE d == [g EXCEPT !.held = FALSE]
<1>1. d = [f \in DOMAIN d |-> d[f]]
  BY Zenon
<1>2. d.key = key /\ d.lots = lots /\ d.held = FALSE
  OBVIOUS
<1>3. DOMAIN d = {"key", "lots", "held"}
  OBVIOUS
<1> HIDE DEF d
<1>4. d = [key |-> key, lots |-> lots, held |-> FALSE]
  BY <1>1, <1>2, <1>3
<1> QED BY <1>4 DEF d

\* Closing reservations takes grants back.
LEMMA ShrinkTakesBack ==
  ASSUME NEW b, NEW d, Shrinks(b, d), NEW i \in 1 .. Len(b.reservations)
  PROVE  \/ Grants(d)[i] = Grants(b)[i]
         \/ Grants(b)[i].held /\ Grants(d)[i] = [Grants(b)[i] EXCEPT !.held = FALSE]
<1>1. /\ d.reservations[i].key = b.reservations[i].key
      /\ d.reservations[i].amounts = b.reservations[i].amounts
      /\ IsActive(d, i) => IsActive(b, i)
      /\ i \in 1 .. Len(d.reservations)
  BY Zenon DEF Shrinks
<1>2. /\ IsActive(d, i) \in BOOLEAN
      /\ IsActive(b, i) \in BOOLEAN
  BY Zenon DEF IsActive
<1> DEFINE lots == [a \in Assets |-> b.reservations[i].amounts[a]]
           key == b.reservations[i].key
<1>3. /\ Grants(b)[i] = [key |-> key, lots |-> lots, held |-> IsActive(b, i)]
      /\ Grants(d)[i] = [key |-> key, lots |-> lots, held |-> IsActive(d, i)]
  BY <1>1, Zenon DEF Grants
<1> HIDE DEF lots, key
<1>4. CASE IsActive(b, i) /\ ~ IsActive(d, i)
  <2>1. IsActive(b, i) = TRUE /\ IsActive(d, i) = FALSE
    BY <1>2, <1>4
  <2>2. /\ Grants(b)[i] = [key |-> key, lots |-> lots, held |-> TRUE]
        /\ Grants(d)[i] = [key |-> key, lots |-> lots, held |-> FALSE]
    BY <1>3, <2>1, Zenon
  <2>3. Grants(b)[i].held
    BY <2>2
  <2>4. [Grants(b)[i] EXCEPT !.held = FALSE] = [key |-> key, lots |-> lots, held |-> FALSE]
    BY <2>2, HeldCleared
  <2> QED BY <2>2, <2>3, <2>4
<1>5. CASE IsActive(b, i) = IsActive(d, i)
  BY <1>3, <1>5, Zenon
<1> QED BY <1>1, <1>2, <1>4, <1>5

\* Releases and expiries are steps of the budget that take grants back.
LEMMA ShrinkIsTakeBack ==
  ASSUME BookInv(book), BookInv(book'), Shrinks(book, book')
  PROVE  Budget!TakeBack
<1>1. /\ Len(Grants(book)) = Len(book.reservations)
      /\ Len(Grants(book')) = Len(book'.reservations)
  BY GrantsLen, Zenon DEF BookInv
<1>2. Len(book'.reservations) = Len(book.reservations)
  BY DEF Shrinks
<1>3. \A i \in 1 .. Len(book.reservations) :
        \/ Grants(book')[i] = Grants(book)[i]
        \/ Grants(book)[i].held /\ Grants(book')[i] = [Grants(book)[i] EXCEPT !.held = FALSE]
  BY ShrinkTakesBack, Zenon
<1> QED BY <1>1, <1>2, <1>3, Zenon DEF Budget!TakeBack, Budget!SomeTakenBack

\* What the held grants hold of an asset is the asset's row of the ledger.
LEMMA HeldIsLedger ==
  ASSUME NEW b, BookInv(b), NEW a \in Assets
  PROVE  PrefixSum([i \in 1 .. Len(Grants(b)) |->
                      IF Grants(b)[i].held THEN Grants(b)[i].lots[a] ELSE 0], Len(Grants(b)))
           = b.ledger[a]
<1> DEFINE n == Len(b.reservations)
           f == [i \in 1 .. n |-> IF Grants(b)[i].held THEN Grants(b)[i].lots[a] ELSE 0]
           g == [i \in 1 .. n |-> Held(b, i, a)]
<1>1. Len(Grants(b)) = n /\ n \in Nat
  BY GrantsLen, Zenon DEF BookInv
<1>2. b.ledger[a] = PrefixSum(g, n)
  <2>1. a \in Accounts
    BY Zenon DEF Accounts, Detail
  <2> QED BY <2>1, Zenon DEF BookInv, LedgerMatchesActive
<1>3. ASSUME NEW i \in 1 .. n PROVE f[i] = g[i]
  <2>1. Grants(b)[i].lots[a] = b.reservations[i].amounts[a] /\ (Grants(b)[i].held <=> IsActive(b, i))
    <3>1. Grants(b)[i].lots = [x \in Assets |-> b.reservations[i].amounts[x]]
      BY GrantIs, Zenon
    <3>2. Grants(b)[i].held <=> IsActive(b, i)
      BY GrantIs, Zenon
    <3> QED BY <3>1, <3>2, Zenon
  <2> QED BY <2>1, Zenon DEF Held
<1>4. f = g
  BY <1>3, Zenon
<1> HIDE DEF f, g
<1>5. PrefixSum(f, n) = b.ledger[a]
  BY <1>2, <1>4
<1> QED BY <1>1, <1>5, Zenon DEF f

\* An approval is a step of the budget that makes one grant.
LEMMA ReserveIsGrant ==
  ASSUME BookInv(book), NEW b, BookInv(b), Shrinks(book, b), NEW intent \in Intents,
         NEW track \in BOOLEAN, book' = Reserve(b, intent, track), BookInv(book'),
         InventoryOK(book')
  PROVE  Budget!Grant(Len(Grants(book)) + 1)
<1> DEFINE n == Len(book.reservations)
           rs == book'.reservations
<1>1. /\ Len(Grants(book)) = n /\ n \in Nat /\ Len(Grants(book')) = Len(rs)
      /\ Len(b.reservations) = n
  BY GrantsLen, Zenon DEF BookInv, Shrinks
<1>2. /\ Len(rs) = n + 1
      /\ \A i \in 1 .. n : rs[i] = b.reservations[i]
  BY <1>1, ReserveVector DEF BookInv
<1>3. rs[n + 1].status = "Active"
  <2>1. rs = Append(b.reservations, BuildReservation(intent, b.next_reservation_id, track))
    BY Zenon DEF Reserve
  <2>2. b.reservations \in Seq(Reservations)
    BY BookParts, Zenon DEF BookInv
  <2>3. rs[n + 1] = BuildReservation(intent, b.next_reservation_id, track)
    BY <1>1, <2>1, <2>2, AppendAny DEF SomeSeq
  <2> QED BY <2>3 DEF BuildReservation
<1>4. ASSUME NEW i \in 1 .. n
      PROVE  \/ Grants(book')[i] = Grants(book)[i]
             \/ Grants(book)[i].held /\ Grants(book')[i] = [Grants(book)[i] EXCEPT !.held = FALSE]
  <2>1. Grants(book')[i] = Grants(b)[i]
    <3>1. rs[i] = b.reservations[i] /\ i \in 1 .. Len(rs) /\ i \in 1 .. Len(b.reservations)
      BY <1>1, <1>2
    <3> QED BY <3>1, Zenon DEF Grants, IsActive
  <2> QED BY <2>1, ShrinkTakesBack
<1>5. /\ n + 1 \in 1 .. Len(rs)
      /\ rs[n + 1].key \in Keys
      /\ \A c \in Accounts : rs[n + 1].amounts[c] \in Int
      /\ \A c \in Accounts \ {"cost"} : rs[n + 1].amounts[c] >= 0
  BY <1>1, <1>2, BookParts DEF BookInv
<1>6. /\ Grants(book')[n + 1].held
      /\ Grants(book')[n + 1].key \in Keys
      /\ Grants(book')[n + 1].lots \in [Assets -> Nat]
  <2>1. \A a \in Assets : a \in Accounts \ {"cost"}
    BY ConstantAssumption, Zenon DEF Accounts, Detail
  <2>2. \A a \in Assets : rs[n + 1].amounts[a] \in Nat
    BY <1>5, <2>1
  <2>3. IsActive(book', n + 1)
    BY <1>3, Zenon DEF IsActive
  <2> HIDE DEF n
  <2>4. /\ Grants(book')[n + 1].key = rs[n + 1].key
        /\ Grants(book')[n + 1].lots = [a \in Assets |-> rs[n + 1].amounts[a]]
        /\ Grants(book')[n + 1].held <=> IsActive(book', n + 1)
    <3> DEFINE k == n + 1
    <3> HIDE DEF k
    <3>1. k \in 1 .. Len(book'.reservations)
      BY <1>5, Zenon DEF k
    <3>2. Grants(book')[k].key = book'.reservations[k].key
      BY <3>1, GrantIs, Zenon
    <3>3. Grants(book')[k].lots = [a \in Assets |-> book'.reservations[k].amounts[a]]
      BY <3>1 DEF Grants
    <3>4. Grants(book')[k].held <=> IsActive(book', k)
      BY <3>1, GrantIs, Zenon
    <3> QED BY <3>2, <3>3, <3>4, Zenon DEF k
  <2>5. [a \in Assets |-> rs[n + 1].amounts[a]] \in [Assets -> Nat]
    BY <2>2
  <2> QED BY <1>5, <2>3, <2>4, <2>5, Zenon
<1>7. ASSUME NEW i \in 1 .. n, Grants(book')[i].held
      PROVE  Grants(book')[i].key # Grants(book')[n + 1].key
  <2>1. i \in 1 .. Len(rs) /\ i # n + 1
    BY <1>1, <1>2
  <2>2. IsActive(book', i) /\ IsActive(book', n + 1)
    <3> HIDE DEF n
    <3> QED BY <1>3, <1>7, <2>1, GrantIs, Zenon DEF IsActive
  <2>3. book'.active_keys[rs[i].key] = i /\ book'.active_keys[rs[n + 1].key] = n + 1
    BY <1>5, <2>1, <2>2, Zenon DEF BookInv, KeysMatchActive
  <2>4. rs[i].key # rs[n + 1].key
    BY <2>1, <2>3, Zenon
  <2> HIDE DEF n
  <2> QED BY <1>5, <2>1, <2>4, GrantIs
<1>8. ASSUME Policy.max_inventory_lots_per_asset > 0, NEW a \in Assets
      PROVE  book'.ledger[a] <= Policy.max_inventory_lots_per_asset
  BY <1>8, Zenon DEF InventoryOK
<1>9. Policy.max_inventory_lots_per_asset > 0 =>
        \A a \in Assets : Budget!HeldLots(a)' <= Policy.max_inventory_lots_per_asset
  <2>1. ASSUME NEW a \in Assets PROVE Budget!HeldLots(a)' = book'.ledger[a]
    <3> DEFINE f == [i \in 1 .. Len(Grants(book')) |->
                       IF Grants(book')[i].held THEN Grants(book')[i].lots[a] ELSE 0]
               m == Len(Grants(book'))
    <3>1. Budget!HeldLots(a)' = Budget!PrefixSum(f, m)
      BY Zenon DEF Budget!HeldLots
    <3>2. PrefixSum(f, m) = book'.ledger[a]
      BY HeldIsLedger, Zenon
    <3> HIDE DEF f, m
    <3>3. Budget!PrefixSum(f, m) = PrefixSum(f, m)
      BY DEF Budget!PrefixSum, PrefixSum
    <3> QED BY <3>1, <3>2, <3>3, Zenon
  <2> QED BY <1>8, <2>1, Zenon
<1> HIDE DEF n, rs
<1> QED BY <1>1, <1>2, <1>4, <1>6, <1>7, <1>9 DEF Budget!Grant, Budget!SomeTakenBack

\* An evaluation is a step of the budget.
LEMMA EvaluateRefines ==
  ASSUME RiskInv, RiskInv', NEW intent \in Intents, NEW input, EvaluateView(intent, input)
  PROVE  Budget!Next
<1> DEFINE b == Expire(book, now)
<1>1. \/ book' = Reserve(b, intent, TrackLedgerDetail)
      \/ book' = b
  BY Zenon DEF EvaluateView
<1>2. BookInv(book) /\ BookInv(book') /\ InventoryOK(book')
  BY Zenon DEF RiskInv, InventoryOK
<1>3. BookInv(b) /\ Shrinks(book, b)
  BY <1>2, ExpireShrinks, Zenon
<1>4. TrackLedgerDetail \in BOOLEAN
  BY DEF TrackLedgerDetail
<1> HIDE DEF b
<1>5. CASE book' = Reserve(b, intent, TrackLedgerDetail)
  <2>1. Budget!Grant(Len(Grants(book)) + 1)
    BY <1>2, <1>3, <1>4, <1>5, ReserveIsGrant, Zenon
  <2> QED BY <2>1, Zenon DEF Budget!Next
<1>6. CASE book' = b
  <2>1. Budget!TakeBack
    BY <1>2, <1>3, <1>6, ShrinkIsTakeBack, Zenon
  <2> QED BY <2>1, Zenon DEF Budget!Next
<1> QED BY <1>1, <1>5, <1>6, Zenon

\* Every step of the engine is a step of the budget or leaves the grants alone.
LEMMA StepRefines ==
  ASSUME RiskInv, RiskInv', [RiskNext]_riskVars
  PROVE  [Budget!Next]_(Grants(book))
<1>0. BookInv(book) /\ BookInv(book')
  BY DEF RiskInv
<1>1. ASSUME NEW intent \in Signals, NEW input \in Inputs, EvaluateView(intent, input)
      PROVE  Budget!Next
  <2>1. intent \in Intents
    BY OfferAssumption, Zenon
  <2> QED BY <1>1, <2>1, EvaluateRefines, Zenon
<1>2. ASSUME NEW d \in Decisions, NEW input \in Inputs, EvaluateDecision(d, input)
      PROVE  Budget!Next
  <2>1. EvaluateView(IntentFromDecision(d), input)
    BY <1>2, Zenon DEF EvaluateDecision
  <2>2. IntentFromDecision(d) \in Intents
    BY OfferAssumption, Zenon
  <2> QED BY <2>1, <2>2, EvaluateRefines, Zenon
<1>3. ASSUME NEW id \in 0 .. book.next_reservation_id, ReleaseReservation(id)
      PROVE  Budget!Next
  <2>1. CanRelease(book, id) /\ book' = ReleaseOne(book, id)
    BY <1>3, Zenon DEF ReleaseReservation, Release
  <2>2. Shrinks(book, book')
    BY <1>0, <2>1, ReleaseShrinks, Zenon
  <2>3. Budget!TakeBack
    BY <1>0, <2>2, ShrinkIsTakeBack, Zenon
  <2> QED BY <2>3, Zenon DEF Budget!Next
<1>4. CASE ExpireReservations
  <2>1. book' = Expire(book, now)
    BY <1>4, Zenon DEF ExpireReservations, ExpireOld
  <2>2. Shrinks(book, book')
    BY <1>0, <2>1, ExpireShrinks, Zenon
  <2>3. Budget!TakeBack
    BY <1>0, <2>2, ShrinkIsTakeBack, Zenon
  <2> QED BY <2>3, Zenon DEF Budget!Next
<1>5. ASSUME UNCHANGED book
      PROVE  UNCHANGED Grants(book)
  BY <1>5, Zenon DEF Grants, IsActive
<1>6. ASSUME NEW a \in Assets, NEW usable \in BOOLEAN, PublishSnapshot(a, usable)
      PROVE  UNCHANGED book
  BY <1>6, Zenon DEF PublishSnapshot
<1>7. Tick \/ UNCHANGED riskVars => UNCHANGED book
  BY Zenon DEF Tick, riskVars
<1> QED BY <1>1, <1>2, <1>3, <1>4, <1>5, <1>6, <1>7, Zenon DEF RiskNext

\* The engine starts with no grants.
LEMMA InitRefines == RiskInit => Budget!Init
<1> SUFFICES ASSUME RiskInit PROVE Grants(book) = << >>
  BY Zenon DEF Budget!Init
<1>1. Len(book.reservations) = 0
  BY DEF RiskInit, EmptyBook
<1> QED BY <1>1 DEF Grants

\* For every policy, intents, decisions and market, the risk engine implements RiskBudget:
\* evaluate, evaluate_decision, release and expire_old grant and take back lots one grant at
\* a time, never past the limit, never twice.
THEOREM RiskImplementsBudget == RiskSpec => ImplementsBudget
<1>1. RiskInit => Budget!Init
  BY InitRefines
<1>2. RiskInv /\ RiskInv' /\ [RiskNext]_riskVars => [Budget!Next]_(Grants(book))
  BY StepRefines
<1> QED BY <1>1, <1>2, RiskInvariant, PTL DEF RiskSpec, ImplementsBudget, Budget!Spec
=============================================================================
