------------------------- MODULE PrefixSumTheorems --------------------------
(***************************************************************************)
(* Facts about PrefixSum, proved by induction on n.  Induction over the    *)
(* naturals is obtained from the well-foundedness of < on Nat, in the form *)
(* "a non-empty set of naturals has a least element".  With them, facts    *)
(* about lists that more than one proof needs.                             *)
(***************************************************************************)
EXTENDS PrefixSums, WellFoundedInduction, SequenceTheorems, TLAPS

\* A non-empty set of naturals has a least element.
LEMMA NatLeast ==
  ASSUME NEW T \in SUBSET Nat, T # {}
  PROVE  \E x \in T : \A y \in T : x <= y
<1> DEFINE R == {p \in Nat \X Nat : p[1] < p[2]}
<1>1. IsWellFoundedOn(R, Nat)
  BY NatLessThanWellFounded DEF OpToRel
<1>2. PICK x \in T : \A y \in T : ~ (<<y, x>> \in R)
  <2> HIDE DEF R
  <2> QED BY <1>1, WFMin
<1>3. \A y \in T : x <= y
  <2> TAKE y \in T
  <2>1. x \in Nat /\ y \in Nat
    OBVIOUS
  <2>2. ~ (<<y, x>> \in R)
    BY <1>2
  <2>3. ~ (y < x)
    BY <2>1, <2>2
  <2> QED BY <2>1, <2>3
<1> QED BY <1>3

\* Induction over Nat, for a set in place of a predicate.
LEMMA NatSetInduction ==
  ASSUME NEW T \in SUBSET Nat, 0 \in T, \A n \in T : n + 1 \in T
  PROVE  T = Nat
<1>1. SUFFICES ASSUME Nat \ T # {} PROVE FALSE
  OBVIOUS
<1>2. PICK x \in Nat \ T : \A y \in Nat \ T : x <= y
  BY <1>1, NatLeast
<1>3. x # 0 /\ x - 1 \in Nat
  BY <1>2
<1>4. x - 1 \in T
  <2>1. ~ (x <= x - 1)
    BY <1>2
  <2> QED BY <1>2, <1>3, <2>1
<1>5. (x - 1) + 1 \in T
  BY <1>4
<1>6. (x - 1) + 1 = x
  BY <1>2
<1> QED BY <1>2, <1>5, <1>6

\* The table of partial sums that PrefixSum reads its last entry from.
Partial(f, n) ==
  CHOOSE S : S = [k \in 0 .. n |-> IF k = 0 THEN 0 ELSE S[k - 1] + f[k]]

\* PrefixSum is the last entry of the table.
LEMMA PrefixSumIsPartial ==
  ASSUME NEW f, NEW n
  PROVE  PrefixSum(f, n) = Partial(f, n)[n]
BY DEF PrefixSum, Partial

\* What it means for S to be the table of f's partial sums up to n.
IsTable(S, f, n) ==
  S = [k \in 0 .. n |-> IF k = 0 THEN 0 ELSE S[k - 1] + f[k]]

\* A table can be extended by one entry.
LEMMA TableExtends ==
  ASSUME NEW f, NEW n \in Nat, NEW S, IsTable(S, f, n)
  PROVE  IsTable([k \in 0 .. n + 1 |-> IF k = n + 1 THEN S[n] + f[n + 1] ELSE S[k]],
                 f, n + 1)
<1> DEFINE T == [k \in 0 .. n + 1 |-> IF k = n + 1 THEN S[n] + f[n + 1] ELSE S[k]]
           U == [k \in 0 .. n + 1 |-> IF k = 0 THEN 0 ELSE T[k - 1] + f[k]]
<1>1. ASSUME NEW k \in 0 .. n + 1 PROVE T[k] = U[k]
  <2>1. CASE k = 0
    <3>1. S[0] = 0
      BY DEF IsTable
    <3> QED BY <2>1, <3>1
  <2>2. CASE k = n + 1
    <3>1. k - 1 \in 0 .. n /\ k - 1 = n /\ k # 0
      BY <2>2
    <3>2. T[k - 1] = S[n]
      BY <3>1
    <3> QED BY <2>2, <3>1, <3>2
  <2>3. CASE k # 0 /\ k # n + 1
    <3>1. k \in 0 .. n /\ k - 1 \in 0 .. n
      BY <2>3
    <3>2. S[k] = S[k - 1] + f[k]
      BY <2>3, <3>1 DEF IsTable
    <3>3. T[k - 1] = S[k - 1]
      BY <3>1
    <3> QED BY <2>3, <3>1, <3>2, <3>3
  <2> QED BY <2>1, <2>2, <2>3
<1>2. T = U
  BY <1>1
<1> QED BY <1>2 DEF IsTable

\* Every n has a table.
LEMMA TableExists ==
  ASSUME NEW f, NEW n \in Nat
  PROVE  \E S : IsTable(S, f, n)
<1> DEFINE Good == {m \in Nat : \E S : IsTable(S, f, m)}
<1>1. 0 \in Good
  <2> DEFINE Z == [k \in 0 .. 0 |-> 0]
  <2>1. IsTable(Z, f, 0)
    BY DEF IsTable
  <2> QED BY <2>1
<1>2. \A m \in Good : m + 1 \in Good
  <2> TAKE m \in Good
  <2>1. PICK S : IsTable(S, f, m)
    OBVIOUS
  <2>2. \E T : IsTable(T, f, m + 1)
    BY <2>1, TableExtends
  <2> QED BY <2>2
<1>3. Good = Nat
  <2> HIDE DEF Good
  <2>1. Good \in SUBSET Nat
    BY DEF Good
  <2> QED BY <1>1, <1>2, <2>1, NatSetInduction
<1> QED BY <1>3

\* The chosen table is a table.
LEMMA PartialIsTable ==
  ASSUME NEW f, NEW n \in Nat
  PROVE  IsTable(Partial(f, n), f, n)
BY TableExists DEF Partial, IsTable

\* Two tables of functions that agree on 1..n agree up to n, however long they are.
LEMMA TablesAgree ==
  ASSUME NEW f, NEW g, NEW n \in Nat, NEW m \in Nat, NEW p \in Nat, n <= m, n <= p,
         NEW S, IsTable(S, f, m), NEW T, IsTable(T, g, p),
         \A k \in 1 .. n : f[k] = g[k]
  PROVE  S[n] = T[n]
<1> DEFINE Good == {k \in Nat : k <= n => S[k] = T[k]}
<1>1. 0 \in Good
  BY DEF IsTable
<1>2. \A k \in Good : k + 1 \in Good
  <2> TAKE k \in Good
  <2>1. CASE k + 1 <= n
    <3>1. S[k] = T[k] /\ k + 1 \in 0 .. m /\ k + 1 \in 0 .. p /\ (k + 1) - 1 = k
          /\ k + 1 # 0
      BY <2>1
    <3>2. S[k + 1] = S[k] + f[k + 1]
      BY <3>1 DEF IsTable
    <3>3. T[k + 1] = T[k] + g[k + 1]
      BY <3>1 DEF IsTable
    <3> QED BY <2>1, <3>1, <3>2, <3>3
  <2>2. CASE ~ (k + 1 <= n)
    BY <2>2
  <2> QED BY <2>1, <2>2
<1>3. Good = Nat
  <2> HIDE DEF Good
  <2>1. Good \in SUBSET Nat
    BY DEF Good
  <2> QED BY <1>1, <1>2, <2>1, NatSetInduction
<1>4. n \in Good
  BY <1>3
<1> QED BY <1>4

\* The empty sum.
LEMMA PrefixSumZero ==
  ASSUME NEW f
  PROVE  PrefixSum(f, 0) = 0
BY PrefixSumIsPartial, PartialIsTable DEF IsTable

\* The recurrence that characterises PrefixSum.
LEMMA PrefixSumStep ==
  ASSUME NEW f, NEW n \in Nat
  PROVE  PrefixSum(f, n + 1) = PrefixSum(f, n) + f[n + 1]
<1> DEFINE S == Partial(f, n + 1)
           T == Partial(f, n)
<1>1. IsTable(S, f, n + 1) /\ IsTable(T, f, n)
  BY PartialIsTable
<1>2. PrefixSum(f, n + 1) = S[n + 1] /\ PrefixSum(f, n) = T[n]
  BY PrefixSumIsPartial
<1> HIDE DEF S, T
<1>3. S[n] = T[n]
  BY <1>1, TablesAgree
<1>4. S[n + 1] = S[n] + f[n + 1]
  BY <1>1 DEF IsTable
<1> QED BY <1>2, <1>3, <1>4

\* Functions that agree on 1..n have the same sum.
LEMMA PrefixSumEqual ==
  ASSUME NEW f, NEW g, NEW n \in Nat, \A k \in 1 .. n : f[k] = g[k]
  PROVE  PrefixSum(f, n) = PrefixSum(g, n)
<1>1. IsTable(Partial(f, n), f, n) /\ IsTable(Partial(g, n), g, n)
  BY PartialIsTable
<1>2. Partial(f, n)[n] = Partial(g, n)[n]
  BY <1>1, TablesAgree
<1> QED BY <1>2, PrefixSumIsPartial

\* A sum of integers is an integer.
LEMMA PrefixSumType ==
  ASSUME NEW f, NEW n \in Nat, \A k \in 1 .. n : f[k] \in Int
  PROVE  PrefixSum(f, n) \in Int
<1> DEFINE Good == {k \in Nat : k <= n => PrefixSum(f, k) \in Int}
<1>1. 0 \in Good
  BY PrefixSumZero
<1>2. \A k \in Good : k + 1 \in Good
  <2> TAKE k \in Good
  <2>1. ASSUME k + 1 <= n PROVE PrefixSum(f, k + 1) \in Int
    <3>1. PrefixSum(f, k) \in Int /\ f[k + 1] \in Int
      BY <2>1
    <3> QED BY <3>1, PrefixSumStep
  <2> QED BY <2>1
<1>3. Good = Nat
  <2> HIDE DEF Good
  <2>1. Good \in SUBSET Nat
    BY DEF Good
  <2> QED BY <1>1, <1>2, <2>1, NatSetInduction
<1>4. n \in Good
  BY <1>3
<1> QED BY <1>4

\* The difference of two sums is the sum of the differences.
LEMMA PrefixSumMinus ==
  ASSUME NEW f, NEW g, NEW h, NEW n \in Nat,
         \A k \in 1 .. n : f[k] \in Int /\ g[k] \in Int /\ h[k] = f[k] - g[k]
  PROVE  PrefixSum(h, n) = PrefixSum(f, n) - PrefixSum(g, n)
<1> DEFINE Good == {k \in Nat : k <= n =>
                      /\ PrefixSum(f, k) \in Int
                      /\ PrefixSum(g, k) \in Int
                      /\ PrefixSum(h, k) = PrefixSum(f, k) - PrefixSum(g, k)}
<1>1. 0 \in Good
  BY PrefixSumZero
<1>2. \A k \in Good : k + 1 \in Good
  <2> TAKE k \in Good
  <2>1. ASSUME k + 1 <= n
        PROVE  /\ PrefixSum(f, k + 1) \in Int
               /\ PrefixSum(g, k + 1) \in Int
               /\ PrefixSum(h, k + 1) = PrefixSum(f, k + 1) - PrefixSum(g, k + 1)
    <3>1. k + 1 \in 1 .. n
      BY <2>1
    <3>2. f[k + 1] \in Int /\ g[k + 1] \in Int /\ h[k + 1] = f[k + 1] - g[k + 1]
      BY <3>1
    <3>3. /\ PrefixSum(f, k + 1) = PrefixSum(f, k) + f[k + 1]
          /\ PrefixSum(g, k + 1) = PrefixSum(g, k) + g[k + 1]
          /\ PrefixSum(h, k + 1) = PrefixSum(h, k) + h[k + 1]
      BY PrefixSumStep
    <3>4. /\ PrefixSum(f, k) \in Int
          /\ PrefixSum(g, k) \in Int
          /\ PrefixSum(h, k) = PrefixSum(f, k) - PrefixSum(g, k)
      BY <2>1
    <3> QED BY <3>2, <3>3, <3>4
  <2> QED BY <2>1
<1>3. Good = Nat
  <2> HIDE DEF Good
  <2>1. Good \in SUBSET Nat
    BY DEF Good
  <2> QED BY <1>1, <1>2, <2>1, NatSetInduction
<1>4. n \in Good
  BY <1>3
<1> QED BY <1>4

\* A sum of non-negative terms is non-negative and at least each of its terms.
LEMMA PrefixSumBounds ==
  ASSUME NEW f, NEW n \in Nat, \A k \in 1 .. n : f[k] \in Nat
  PROVE  /\ PrefixSum(f, n) \in Nat
         /\ \A k \in 1 .. n : f[k] <= PrefixSum(f, n)
<1> DEFINE Good == {m \in Nat : m <= n =>
                      /\ PrefixSum(f, m) \in Nat
                      /\ \A k \in 1 .. m : f[k] <= PrefixSum(f, m)}
<1>1. 0 \in Good
  BY PrefixSumZero
<1>2. \A m \in Good : m + 1 \in Good
  <2> TAKE m \in Good
  <2>1. ASSUME m + 1 <= n
        PROVE  /\ PrefixSum(f, m + 1) \in Nat
               /\ \A k \in 1 .. m + 1 : f[k] <= PrefixSum(f, m + 1)
    <3>1. PrefixSum(f, m) \in Nat /\ \A k \in 1 .. m : f[k] <= PrefixSum(f, m)
      BY <2>1
    <3>2. \A k \in 1 .. m + 1 : f[k] \in Nat
      BY <2>1
    <3>3. f[m + 1] \in Nat
      BY <3>2
    <3>4. PrefixSum(f, m + 1) = PrefixSum(f, m) + f[m + 1]
      BY PrefixSumStep
    <3>5. ASSUME NEW k \in 1 .. m + 1 PROVE f[k] <= PrefixSum(f, m + 1)
      <4>1. CASE k = m + 1
        BY <3>1, <3>3, <3>4, <4>1
      <4>2. CASE k # m + 1
        <5>1. k \in 1 .. m
          BY <4>2
        <5>2. f[k] <= PrefixSum(f, m) /\ f[k] \in Nat
          BY <3>1, <3>2, <5>1
        <5> QED BY <3>1, <3>3, <3>4, <5>2
      <4> QED BY <4>1, <4>2
    <3> QED BY <3>1, <3>3, <3>4, <3>5
  <2> QED BY <2>1
<1>3. Good = Nat
  <2> HIDE DEF Good
  <2>1. Good \in SUBSET Nat
    BY DEF Good
  <2> QED BY <1>1, <1>2, <2>1, NatSetInduction
<1>4. n \in Good
  BY <1>3
<1> QED BY <1>4

\* Sums of non-negative terms grow with the number of terms.
LEMMA PrefixSumMonotone ==
  ASSUME NEW f, NEW n \in Nat, NEW m \in 0 .. n, \A k \in 1 .. n : f[k] \in Nat
  PROVE  PrefixSum(f, m) <= PrefixSum(f, n)
<1> DEFINE Good == {d \in Nat : m + d <= n => /\ PrefixSum(f, m + d) \in Nat
                                             /\ PrefixSum(f, m) <= PrefixSum(f, m + d)}
<1>0. PrefixSum(f, m) \in Nat
  BY PrefixSumBounds
<1>1. 0 \in Good
  BY <1>0
<1>2. \A d \in Good : d + 1 \in Good
  <2> TAKE d \in Good
  <2>1. ASSUME m + (d + 1) <= n
        PROVE  /\ PrefixSum(f, m + (d + 1)) \in Nat
               /\ PrefixSum(f, m) <= PrefixSum(f, m + (d + 1))
    <3>1. m + d \in Nat /\ (m + d) + 1 = m + (d + 1) /\ (m + d) + 1 \in 1 .. n
      BY <2>1
    <3>2. PrefixSum(f, (m + d) + 1) = PrefixSum(f, m + d) + f[(m + d) + 1]
      BY <3>1, PrefixSumStep
    <3>3. f[(m + d) + 1] \in Nat
      BY <3>1
    <3>4. PrefixSum(f, m + d) \in Nat /\ PrefixSum(f, m) <= PrefixSum(f, m + d)
      BY <2>1
    <3> QED BY <1>0, <3>1, <3>2, <3>3, <3>4
  <2> QED BY <2>1
<1>3. Good = Nat
  <2> HIDE DEF Good
  <2>1. Good \in SUBSET Nat
    BY DEF Good
  <2> QED BY <1>1, <1>2, <2>1, NatSetInduction
<1>4. n - m \in Nat /\ m + (n - m) = n
  OBVIOUS
<1>5. n - m \in Good
  <2> HIDE DEF Good
  <2> QED BY <1>3, <1>4
<1> QED BY <1>4, <1>5

\* Changing one term changes the sum by the difference.
LEMMA PrefixSumUpdate ==
  ASSUME NEW f, NEW g, NEW n \in Nat, NEW j \in 1 .. n,
         \A k \in 1 .. n : f[k] \in Int /\ g[k] \in Int /\ (k # j => g[k] = f[k])
  PROVE  PrefixSum(g, n) = PrefixSum(f, n) - f[j] + g[j]
<1> DEFINE Good == {m \in Nat : m <= n =>
                      /\ PrefixSum(f, m) \in Int
                      /\ PrefixSum(g, m) = PrefixSum(f, m)
                                             + (IF j <= m THEN g[j] - f[j] ELSE 0)}
<1>1. 0 \in Good
  BY PrefixSumZero
<1>2. \A m \in Good : m + 1 \in Good
  <2> TAKE m \in Good
  <2>1. ASSUME m + 1 <= n
        PROVE  /\ PrefixSum(f, m + 1) \in Int
               /\ PrefixSum(g, m + 1) = PrefixSum(f, m + 1)
                                          + (IF j <= m + 1 THEN g[j] - f[j] ELSE 0)
    <3>1. m + 1 \in 1 .. n
      BY <2>1
    <3>2. /\ PrefixSum(f, m) \in Int
          /\ PrefixSum(g, m) = PrefixSum(f, m) + (IF j <= m THEN g[j] - f[j] ELSE 0)
      BY <2>1
    <3>3. /\ PrefixSum(f, m + 1) = PrefixSum(f, m) + f[m + 1]
          /\ PrefixSum(g, m + 1) = PrefixSum(g, m) + g[m + 1]
      BY PrefixSumStep
    <3>4. f[m + 1] \in Int /\ g[m + 1] \in Int /\ f[j] \in Int /\ g[j] \in Int
      BY <3>1
    <3>5. CASE j = m + 1
      BY <3>2, <3>3, <3>4, <3>5
    <3>6. CASE j # m + 1
      <4>1. g[m + 1] = f[m + 1]
        BY <3>1, <3>6
      <4>2. j <= m + 1 <=> j <= m
        BY <3>6
      <4> QED BY <3>2, <3>3, <3>4, <4>1, <4>2
    <3> QED BY <3>5, <3>6
  <2> QED BY <2>1
<1>3. Good = Nat
  <2> HIDE DEF Good
  <2>1. Good \in SUBSET Nat
    BY DEF Good
  <2> QED BY <1>1, <1>2, <2>1, NatSetInduction
<1>4. n \in Good
  BY <1>3
<1>5. f[j] \in Int /\ g[j] \in Int
  OBVIOUS
<1> QED BY <1>4, <1>5

-----------------------------------------------------------------------------
(* Lists of any entries: functions over 1 .. n.                             *)

IsList(v) == \E n \in Nat : \E T : v \in [1 .. n -> T]

\* The list with no entries.
LEMMA ListEmpty == IsList(<< >>)
<1>1. << >> \in [1 .. 0 -> {}]
  OBVIOUS
<1> QED BY <1>1 DEF IsList

\* A function over 1 .. n is a sequence of length n.
LEMMA LenOfFunction ==
  ASSUME NEW f, NEW n \in Nat, NEW S, f \in [1 .. n -> S]
  PROVE  Len(f) = n
BY LenProperties, SeqDef

\* The length of a list.
LEMMA ListLength ==
  ASSUME NEW v, IsList(v)
  PROVE  Len(v) \in Nat /\ DOMAIN v = 1 .. Len(v)
<1>0. PICK n \in Nat : \E T : v \in [1 .. n -> T]
  BY DEF IsList
<1>1. PICK T : v \in [1 .. n -> T]
  BY <1>0
<1>2. v \in Seq(T) /\ Len(v) = n
  BY <1>1, SeqDef, LenProperties
<1> QED BY <1>1, <1>2

\* A list that grows at its end.
LEMMA ListAppend ==
  ASSUME NEW v, IsList(v), NEW o
  PROVE  /\ IsList(Append(v, o)) /\ Len(v) \in Nat /\ Len(Append(v, o)) = Len(v) + 1
         /\ DOMAIN v = 1 .. Len(v)
         /\ DOMAIN Append(v, o) = 1 .. Len(v) + 1
         /\ DOMAIN Append(v, o) = DOMAIN v \cup {Len(v) + 1}
         /\ Len(v) + 1 \notin DOMAIN v
         /\ Append(v, o)[Len(v) + 1] = o
         /\ \A i \in DOMAIN v : Append(v, o)[i] = v[i]
<1>0. PICK n \in Nat : \E T : v \in [1 .. n -> T]
  BY DEF IsList
<1>1. PICK T : v \in [1 .. n -> T]
  BY <1>0
<1> DEFINE U == T \cup {o}
<1>2. v \in Seq(U) /\ Len(v) = n
  <2>1. v \in [1 .. n -> U]
    BY <1>1
  <2> QED BY <2>1, SeqDef, LenProperties
<1>3. /\ Append(v, o) \in Seq(U) /\ Len(Append(v, o)) = n + 1
      /\ \A i \in 1 .. n : Append(v, o)[i] = v[i]
      /\ Append(v, o)[n + 1] = o
  BY <1>2, AppendProperties
<1>4. Append(v, o) \in [1 .. n + 1 -> U]
  BY <1>3, LenProperties
<1>5. IsList(Append(v, o))
  <2>1. n + 1 \in Nat
    BY <1>1
  <2> QED BY <1>4, <2>1 DEF IsList
<1>6. DOMAIN v = 1 .. n /\ DOMAIN Append(v, o) = 1 .. n + 1
  BY <1>1, <1>4
<1>7. 1 .. n + 1 = (1 .. n) \cup {n + 1} /\ n + 1 \notin 1 .. n
  BY <1>1
<1> QED BY <1>2, <1>3, <1>5, <1>6, <1>7

\* List f is list e followed by the m entries of t.
IsJoin(f, e, m, t) ==
  /\ IsList(f) /\ Len(f) = Len(e) + m
  /\ DOMAIN f = 1 .. Len(e) + m
  /\ \A k \in 1 .. Len(e) : f[k] = e[k]
  /\ \A j \in 1 .. m : f[Len(e) + j] = t[j]

\* Two lists joined.
LEMMA ListJoin ==
  ASSUME NEW e, IsList(e), NEW m \in Nat, NEW T, NEW t \in [1 .. m -> T]
  PROVE  IsJoin(e \o t, e, m, t)
<1>0. PICK n \in Nat : \E S : e \in [1 .. n -> S]
  BY DEF IsList
<1>1. PICK S : e \in [1 .. n -> S]
  BY <1>0
<1> DEFINE U == S \cup T
<1>2. e \in Seq(U) /\ Len(e) = n
  <2>1. e \in [1 .. n -> U]
    BY <1>1
  <2> QED BY <1>1, <2>1, SeqDef, LenProperties
<1>3. t \in Seq(U) /\ Len(t) = m
  <2>1. t \in [1 .. m -> U]
    OBVIOUS
  <2> QED BY <2>1, SeqDef, LenProperties
<1> HIDE DEF U
<1>4. /\ e \o t \in Seq(U) /\ Len(e \o t) = n + m
      /\ \A k \in 1 .. n + m : (e \o t)[k] = IF k <= n THEN e[k] ELSE t[k - n]
  BY <1>2, <1>3, ConcatProperties
<1>5. e \o t \in [1 .. n + m -> U]
  BY <1>4, LenProperties
<1>6. IsList(e \o t)
  <2>1. n + m \in Nat
    BY <1>1
  <2> QED BY <1>5, <2>1 DEF IsList
<1>7. \A k \in 1 .. n : (e \o t)[k] = e[k]
  BY <1>1, <1>4
<1>8. ASSUME NEW j \in 1 .. m PROVE (e \o t)[n + j] = t[j]
  <2>1. n + j \in 1 .. n + m /\ ~ (n + j <= n) /\ (n + j) - n = j
    BY <1>1
  <2> QED BY <1>4, <2>1
<1> QED BY <1>2, <1>4, <1>5, <1>6, <1>7, <1>8 DEF IsJoin

\* The last reports of a longer list.
LEMMA ListConcat ==
  ASSUME NEW s, IsList(s), NEW m \in Nat, NEW T, NEW t \in [1 .. m -> T]
  PROVE  /\ IsList(s \o t) /\ Len(t) = m
         /\ SubSeq(s \o t, Len(s) + 1, Len(s \o t)) = t
         /\ SubSeq(s, Len(s) + 1, Len(s)) = << >>
<1>0. PICK k \in Nat : \E S : s \in [1 .. k -> S]
  BY DEF IsList
<1>1. PICK S : s \in Seq(S)
  BY <1>0, SeqDef
<1> DEFINE U == S \cup T
<1>2. s \in Seq(U) /\ t \in Seq(U) /\ Len(s) \in Nat /\ Len(t) = m
  <2>1. s \in [1 .. Len(s) -> S] /\ Len(s) \in Nat
    BY <1>1, LenProperties
  <2>2. s \in [1 .. Len(s) -> U] /\ t \in [1 .. m -> U]
    BY <2>1
  <2> HIDE DEF U
  <2>3. s \in Seq(U) /\ t \in Seq(U)
    BY <2>1, <2>2, SeqDef
  <2> QED BY <2>1, <2>2, <2>3, LenOfFunction
<1> HIDE DEF U
<1>3. /\ s \o t \in Seq(U) /\ Len(s \o t) = Len(s) + m
      /\ \A i \in 1 .. Len(s) + m :
           (s \o t)[i] = IF i <= Len(s) THEN s[i] ELSE t[i - Len(s)]
  BY <1>2, ConcatProperties
<1> DEFINE c == s \o t
           u == SubSeq(c, Len(s) + 1, Len(s) + m)
<1>4. \A i \in Len(s) + 1 .. Len(s) + m : c[i] \in U
  BY <1>2, <1>3, ElementOfSeq
<1>5. /\ u \in Seq(U) /\ Len(u) = m
      /\ \A i \in 1 .. m : u[i] = c[Len(s) + i]
  <2>1. Len(s) + 1 \in Int /\ Len(s) + m \in Int
    BY <1>2
  <2>2. /\ u \in Seq(U)
        /\ Len(u) = IF Len(s) + 1 <= Len(s) + m THEN (Len(s) + m) - (Len(s) + 1) + 1 ELSE 0
        /\ \A i \in 1 .. (Len(s) + m) - (Len(s) + 1) + 1 : u[i] = c[(Len(s) + 1) + i - 1]
    <3> HIDE DEF c
    <3> QED BY <1>4, <2>1, SubSeqProperties
  <2>3. (Len(s) + m) - (Len(s) + 1) + 1 = m /\ \A i \in 1 .. m : (Len(s) + 1) + i - 1 = Len(s) + i
    BY <1>2
  <2> HIDE DEF u
  <2>4. Len(u) = m
    BY <1>2, <2>2, <2>3
  <2>5. ASSUME NEW i \in 1 .. m PROVE u[i] = c[Len(s) + i]
    <3>1. i \in 1 .. (Len(s) + m) - (Len(s) + 1) + 1 /\ (Len(s) + 1) + i - 1 = Len(s) + i
      BY <2>3
    <3> HIDE DEF c
    <3> QED BY <2>2, <3>1
  <2> QED BY <2>2, <2>4, <2>5
<1>6. u = t
  <2>1. \A i \in 1 .. m : u[i] = t[i]
    BY <1>2, <1>3, <1>5
  <2> HIDE DEF u
  <2> QED BY <1>2, <1>5, <2>1, SeqEqual
<1>7. SubSeq(s, Len(s) + 1, Len(s)) = << >>
  BY <1>2, SubSeqEmpty
<1>8. IsList(s \o t)
  <2>1. s \o t \in [1 .. Len(s) + m -> U] /\ Len(s) + m \in Nat
    BY <1>2, <1>3, LenProperties
  <2> QED BY <2>1 DEF IsList
<1> QED BY <1>2, <1>3, <1>6, <1>7, <1>8

-----------------------------------------------------------------------------
(* Sums of longer lists.                                                    *)

\* Entries after n that are zero, but for the p-th, add that one.
LEMMA TailSum ==
  ASSUME NEW f, NEW n \in Nat, NEW m \in Nat, NEW p \in Nat,
         \A j \in 1 .. m : f[n + j] \in Int /\ (j # p => f[n + j] = 0),
         PrefixSum(f, n) \in Int
  PROVE  \A q \in 0 .. m :
           PrefixSum(f, n + q) = PrefixSum(f, n) + (IF p \in 1 .. q THEN f[n + p] ELSE 0)
<1> DEFINE Good == {q \in Nat : q <= m =>
                      PrefixSum(f, n + q) = PrefixSum(f, n)
                                              + (IF p \in 1 .. q THEN f[n + p] ELSE 0)}
<1>1. 0 \in Good
  OBVIOUS
<1>2. ASSUME NEW q \in Good PROVE q + 1 \in Good
  <2> SUFFICES ASSUME q + 1 <= m
               PROVE  PrefixSum(f, n + (q + 1))
                        = PrefixSum(f, n) + (IF p \in 1 .. q + 1 THEN f[n + p] ELSE 0)
    OBVIOUS
  <2>1. PrefixSum(f, n + q) = PrefixSum(f, n) + (IF p \in 1 .. q THEN f[n + p] ELSE 0)
    OBVIOUS
  <2>2. n + q \in Nat /\ n + (q + 1) = (n + q) + 1 /\ q + 1 \in 1 .. m
    OBVIOUS
  <2>3. PrefixSum(f, n + (q + 1)) = PrefixSum(f, n + q) + f[n + (q + 1)]
    BY <2>2, PrefixSumStep
  <2>4. f[n + (q + 1)] \in Int /\ (q + 1 # p => f[n + (q + 1)] = 0)
    BY <2>2
  <2>5. CASE p = q + 1
    BY <2>1, <2>3, <2>4, <2>5
  <2>6. CASE p # q + 1
    <3>1. p \in 1 .. q + 1 <=> p \in 1 .. q
      BY <2>6
    <3>2. p \in 1 .. q => f[n + p] \in Int
      BY <2>2
    <3> QED BY <2>1, <2>3, <2>4, <2>6, <3>1, <3>2
  <2> QED BY <2>5, <2>6
<1>3. Good = Nat
  BY <1>1, <1>2, NatSetInduction
<1>4. ASSUME NEW q \in 0 .. m
      PROVE  PrefixSum(f, n + q) = PrefixSum(f, n) + (IF p \in 1 .. q THEN f[n + p] ELSE 0)
  <2>1. q \in Nat /\ q <= m
    OBVIOUS
  <2>2. q \in Good
    <3> HIDE DEF Good
    <3> QED BY <1>3, <2>1
  <2> QED BY <2>1, <2>2
<1> HIDE DEF Good
<1> QED BY <1>4

\* A list of zeros adds up to zero.
LEMMA ZeroSum ==
  ASSUME NEW f, NEW n \in Nat, \A k \in 1 .. n : f[k] = 0
  PROVE  PrefixSum(f, n) = 0
<1> DEFINE Good == {k \in Nat : k <= n => PrefixSum(f, k) = 0}
<1>1. 0 \in Good
  BY PrefixSumZero
<1>2. ASSUME NEW k \in Good PROVE k + 1 \in Good
  <2>1. PrefixSum(f, k + 1) = PrefixSum(f, k) + f[k + 1]
    BY PrefixSumStep
  <2> QED BY <2>1
<1>3. Good = Nat
  BY <1>1, <1>2, NatSetInduction
<1> QED BY <1>3
=============================================================================
