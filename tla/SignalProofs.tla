----------------------------- MODULE SignalProofs -----------------------------
(* Proofs about what outlives a scan of the signal engine, for all bundles, books *)
(* and configurations: the marks of the deduper and the window of the limiter.    *)
EXTENDS SignalEngine, PrefixSumTheorems, FiniteSetTheorems

-----------------------------------------------------------------------------
\* The loops of a scan as tables: entry k is what the first k turns leave.

IsScanTable(T, mode, config, n) ==
  T = [k \in 0 .. n |->
         IF k = 0 THEN [result |-> EmptyResult, ordinal |-> 1, stored |-> << >>, candidates |-> << >>]
         ELSE ScanBundle(T[k - 1], mode, Bundles[k], config)]

IsDedupeTable(T, candidates, n) ==
  T = [k \in 0 .. n |->
         IF k = 0 THEN [kept |-> << >>, dropped |-> 0, marks |-> seen]
         ELSE Dedupe(T[k - 1], candidates[k])]

IsLimitTable(T, candidates, config, n) ==
  T = [k \in 0 .. n |->
         IF k = 0 THEN [kept |-> << >>, late |-> << >>, window |-> window]
         ELSE LimitRate(T[k - 1], candidates[k], config)]

LEMMA ScanTableExists ==
  ASSUME NEW mode, NEW config, NEW n \in Nat
  PROVE  \E T : IsScanTable(T, mode, config, n)
<1> DEFINE Good == {m \in Nat : \E T : IsScanTable(T, mode, config, m)}
           start == [result |-> EmptyResult, ordinal |-> 1, stored |-> << >>, candidates |-> << >>]
<1>1. 0 \in Good
  <2>1. IsScanTable([k \in 0 .. 0 |-> start], mode, config, 0)
    <3> HIDE DEF start
    <3> QED BY DEF IsScanTable, start
  <2> QED BY <2>1, Zenon
<1>2. ASSUME NEW m \in Good PROVE m + 1 \in Good
  <2>1. PICK S : IsScanTable(S, mode, config, m)
    BY <1>2, Zenon
  <2> DEFINE T == [k \in 0 .. m + 1 |-> IF k = m + 1 THEN ScanBundle(S[m], mode, Bundles[m + 1], config)
                                        ELSE S[k]]
             U == [k \in 0 .. m + 1 |-> IF k = 0 THEN start
                                        ELSE ScanBundle(T[k - 1], mode, Bundles[k], config)]
  <2>2. ASSUME NEW k \in 0 .. m + 1 PROVE T[k] = U[k]
    <3> HIDE DEF start
    <3>1. CASE k = 0
      <4>1. S[0] = start
        BY <2>1 DEF IsScanTable, start
      <4> QED BY <3>1, <4>1
    <3>2. CASE k = m + 1
      <4>1. k - 1 \in 0 .. m /\ k - 1 = m /\ k # 0
        BY <3>2
      <4>2. T[k - 1] = S[m]
        BY <4>1
      <4> QED BY <3>2, <4>1, <4>2, Zenon
    <3>3. CASE k # 0 /\ k # m + 1
      <4>1. k \in 0 .. m /\ k - 1 \in 0 .. m
        BY <3>3
      <4>2. S[k] = ScanBundle(S[k - 1], mode, Bundles[k], config)
        BY <2>1, <3>3, <4>1, Zenon DEF IsScanTable
      <4>3. T[k - 1] = S[k - 1]
        BY <4>1
      <4> QED BY <3>3, <4>1, <4>2, <4>3, Zenon
    <3> QED BY <3>1, <3>2, <3>3, Zenon
  <2>3. T = U
    BY <2>2, Zenon
  <2>4. IsScanTable(T, mode, config, m + 1)
    BY <2>3, Zenon DEF IsScanTable
  <2> QED BY <2>4
<1>3. Good = Nat
  <2> HIDE DEF Good
  <2>1. Good \in SUBSET Nat
    BY DEF Good
  <2> QED BY <1>1, <1>2, <2>1, NatSetInduction
<1> QED BY <1>3, Zenon

LEMMA DedupeTableExists ==
  ASSUME NEW candidates, NEW n \in Nat
  PROVE  \E T : IsDedupeTable(T, candidates, n)
<1> DEFINE Good == {m \in Nat : \E T : IsDedupeTable(T, candidates, m)}
           start == [kept |-> << >>, dropped |-> 0, marks |-> seen]
<1>1. 0 \in Good
  <2>1. IsDedupeTable([k \in 0 .. 0 |-> start], candidates, 0)
    <3> HIDE DEF start
    <3> QED BY DEF IsDedupeTable, start
  <2> QED BY <2>1, Zenon
<1>2. ASSUME NEW m \in Good PROVE m + 1 \in Good
  <2>1. PICK S : IsDedupeTable(S, candidates, m)
    BY <1>2, Zenon
  <2> DEFINE T == [k \in 0 .. m + 1 |-> IF k = m + 1 THEN Dedupe(S[m], candidates[m + 1]) ELSE S[k]]
             U == [k \in 0 .. m + 1 |-> IF k = 0 THEN start ELSE Dedupe(T[k - 1], candidates[k])]
  <2>2. ASSUME NEW k \in 0 .. m + 1 PROVE T[k] = U[k]
    <3> HIDE DEF start
    <3>1. CASE k = 0
      <4>1. S[0] = start
        BY <2>1 DEF IsDedupeTable, start
      <4> QED BY <3>1, <4>1
    <3>2. CASE k = m + 1
      <4>1. k - 1 \in 0 .. m /\ k - 1 = m /\ k # 0
        BY <3>2
      <4>2. T[k - 1] = S[m]
        BY <4>1
      <4> QED BY <3>2, <4>1, <4>2, Zenon
    <3>3. CASE k # 0 /\ k # m + 1
      <4>1. k \in 0 .. m /\ k - 1 \in 0 .. m
        BY <3>3
      <4>2. S[k] = Dedupe(S[k - 1], candidates[k])
        BY <2>1, <3>3, <4>1, Zenon DEF IsDedupeTable
      <4>3. T[k - 1] = S[k - 1]
        BY <4>1
      <4> QED BY <3>3, <4>1, <4>2, <4>3, Zenon
    <3> QED BY <3>1, <3>2, <3>3, Zenon
  <2>3. T = U
    BY <2>2, Zenon
  <2>4. IsDedupeTable(T, candidates, m + 1)
    BY <2>3, Zenon DEF IsDedupeTable
  <2> QED BY <2>4
<1>3. Good = Nat
  <2> HIDE DEF Good
  <2>1. Good \in SUBSET Nat
    BY DEF Good
  <2> QED BY <1>1, <1>2, <2>1, NatSetInduction
<1> QED BY <1>3

LEMMA LimitTableExists ==
  ASSUME NEW candidates, NEW config, NEW n \in Nat
  PROVE  \E T : IsLimitTable(T, candidates, config, n)
<1> DEFINE Good == {m \in Nat : \E T : IsLimitTable(T, candidates, config, m)}
           start == [kept |-> << >>, late |-> << >>, window |-> window]
<1>1. 0 \in Good
  <2>1. IsLimitTable([k \in 0 .. 0 |-> start], candidates, config, 0)
    <3> HIDE DEF start
    <3> QED BY DEF IsLimitTable, start
  <2> QED BY <2>1
<1>2. ASSUME NEW m \in Good PROVE m + 1 \in Good
  <2>1. PICK S : IsLimitTable(S, candidates, config, m)
    BY <1>2
  <2> DEFINE T == [k \in 0 .. m + 1 |-> IF k = m + 1 THEN LimitRate(S[m], candidates[m + 1], config) ELSE S[k]]
             U == [k \in 0 .. m + 1 |-> IF k = 0 THEN start ELSE LimitRate(T[k - 1], candidates[k], config)]
  <2>2. ASSUME NEW k \in 0 .. m + 1 PROVE T[k] = U[k]
    <3> HIDE DEF start
    <3>1. CASE k = 0
      <4>1. S[0] = start
        BY <2>1 DEF IsLimitTable, start
      <4> QED BY <3>1, <4>1
    <3>2. CASE k = m + 1
      <4>1. k - 1 \in 0 .. m /\ k - 1 = m /\ k # 0
        BY <3>2
      <4>2. T[k - 1] = S[m]
        BY <4>1
      <4> QED BY <3>2, <4>1, <4>2, Zenon
    <3>3. CASE k # 0 /\ k # m + 1
      <4>1. k \in 0 .. m /\ k - 1 \in 0 .. m
        BY <3>3
      <4>2. S[k] = LimitRate(S[k - 1], candidates[k], config)
        BY <2>1, <3>3, <4>1, Zenon DEF IsLimitTable
      <4>3. T[k - 1] = S[k - 1]
        BY <4>1
      <4> QED BY <3>3, <4>1, <4>2, <4>3, Zenon
    <3> QED BY <3>1, <3>2, <3>3, Zenon
  <2>3. T = U
    BY <2>2, Zenon
  <2>4. IsLimitTable(T, candidates, config, m + 1)
    BY <2>3, Zenon DEF IsLimitTable
  <2> QED BY <2>4
<1>3. Good = Nat
  <2> HIDE DEF Good
  <2>1. Good \in SUBSET Nat
    BY DEF Good
  <2> QED BY <1>1, <1>2, <2>1, NatSetInduction
<1> QED BY <1>3

-----------------------------------------------------------------------------
\* A scan's candidates, ranked or not, are a list.

LEMMA ScanIsTable ==
  ASSUME NEW mode, NEW config
  PROVE  \E T : IsScanTable(T, mode, config, Len(Bundles)) /\ ScanBundles(mode, config) = T[Len(Bundles)]
<1>1. Len(Bundles) \in Nat
  BY SignalAssumption
<1>2. \E T : IsScanTable(T, mode, config, Len(Bundles))
  BY <1>1, ScanTableExists
<1> QED BY <1>2, Zenon DEF ScanBundles, IsScanTable

LEMMA DedupedIsTable ==
  ASSUME NEW candidates, Len(candidates) \in Nat
  PROVE  \E T : IsDedupeTable(T, candidates, Len(candidates)) /\ Deduped(candidates) = T[Len(candidates)]
<1>1. \E T : IsDedupeTable(T, candidates, Len(candidates))
  BY DedupeTableExists
<1> QED BY <1>1, Zenon DEF Deduped, IsDedupeTable

LEMMA LimitedIsTable ==
  ASSUME NEW candidates, NEW config, Len(candidates) \in Nat
  PROVE  \E T : /\ IsLimitTable(T, candidates, config, Len(candidates))
                /\ Limited(candidates, config) = T[Len(candidates)]
<1>1. \E T : IsLimitTable(T, candidates, config, Len(candidates))
  BY LimitTableExists, Zenon
<1> QED BY <1>1, Zenon DEF Limited, IsLimitTable

LEMMA ScannedList ==
  ASSUME NEW mode, NEW config
  PROVE  IsList(ScanBundles(mode, config).candidates)
<1> DEFINE n == Len(Bundles)
<1>0. n \in Nat
  BY SignalAssumption, Zenon
<1>1. PICK T : IsScanTable(T, mode, config, n) /\ ScanBundles(mode, config) = T[n]
  BY ScanIsTable, Zenon
<1> HIDE DEF n
<1> DEFINE Good == {k \in Nat : k <= n => IsList(T[k].candidates)}
<1>2. 0 \in Good
  <2>1. T[0].candidates = << >>
    BY <1>0, <1>1 DEF IsScanTable
  <2> QED BY <2>1, ListEmpty, Zenon
<1>3. ASSUME NEW k \in Good PROVE k + 1 \in Good
  <2> SUFFICES ASSUME k + 1 <= n PROVE IsList(T[k + 1].candidates)
    BY <1>3
  <2>1. IsList(T[k].candidates)
    BY <1>0, <1>3
  <2>2. k + 1 \in 0 .. n /\ k + 1 # 0 /\ (k + 1) - 1 = k
    BY <1>0, <1>3
  <2>3. T[k + 1] = ScanBundle(T[k], mode, Bundles[k + 1], config)
    BY <1>1, <2>2, Zenon DEF IsScanTable
  <2>4. PICK c : \/ T[k + 1].candidates = Append(T[k].candidates, c)
                 \/ T[k + 1].candidates = T[k].candidates
    <3>1. \A judged : \/ \E c : TryPublish(T[k], judged, config).candidates = Append(T[k].candidates, c)
                      \/ TryPublish(T[k], judged, config).candidates = T[k].candidates
      BY Zenon DEF TryPublish
    <3> QED BY <2>3, <3>1, Zenon DEF ScanBundle
  <2>5. IsList(Append(T[k].candidates, c))
    BY <2>1, ListAppend
  <2> QED BY <2>1, <2>4, <2>5, Zenon
<1>4. Good = Nat
  <2> HIDE DEF Good
  <2>1. Good \in SUBSET Nat
    BY Zenon DEF Good
  <2> QED BY <1>2, <1>3, <2>1, NatSetInduction
<1> QED BY <1>0, <1>1, <1>4

LEMMA RankedList ==
  ASSUME NEW scanned, IsList(scanned), NEW config
  PROVE  IsList(Ranked(Completed(scanned, config)))
<1> DEFINE done == Completed(scanned, config)
           r    == Ranked(done)
<1>1. Len(scanned) \in Nat /\ DOMAIN scanned = 1 .. Len(scanned)
  BY ListLength, Zenon
<1>2. DOMAIN done = 1 .. Len(scanned) /\ done = [i \in DOMAIN done |-> done[i]]
  BY <1>1, Zenon DEF Completed
<1> HIDE DEF done
<1>3. DOMAIN r = 1 .. Len(scanned) /\ r = [i \in DOMAIN r |-> r[i]]
  <2>1. CASE setup.ranked
    <3>1. \E place : r = [i \in DOMAIN done |-> done[place[i]]]
      <4> DEFINE place == [i \in DOMAIN done |->
                             CHOOSE k \in DOMAIN done :
                               Cardinality({j \in DOMAIN done : CandidateLess(done[j], done[k])}) = i - 1]
      <4>1. r = [i \in DOMAIN done |-> done[place[i]]]
        BY <2>1 DEF Ranked
      <4> QED BY <4>1, Zenon
    <3> HIDE DEF r
    <3> QED BY <1>2, <3>1, Zenon
  <2>2. CASE ~ setup.ranked
    BY <1>2, <2>2 DEF Ranked
  <2> QED BY <2>1, <2>2, Zenon
<1>4. r \in [1 .. Len(scanned) -> {r[i] : i \in 1 .. Len(scanned)}]
  <2> HIDE DEF r
  <2> QED BY <1>3, Zenon
<1> HIDE DEF r
<1>5. IsList(r)
  BY <1>1, <1>4, Zenon DEF IsList
<1> QED BY <1>5, Zenon DEF r, done

-----------------------------------------------------------------------------
\* What deduplication leaves: no kept opportunity was marked within its life before the scan,
\* every kept one is marked now, and no two of them are the same.

Opportunity(c) == c.intent.status = "PaperOpportunity"
HashOf(c) == c.intent.idempotency_hash

MarksUpTo(marks, t) == \A h \in DOMAIN marks : marks[h] \in Nat /\ marks[h] <= t

\* What holds of the deduper after some candidates of a scan, given the marks before the scan.
DedupeSound(acc, before) ==
  /\ DOMAIN acc = {"kept", "dropped", "marks"}
  /\ IsList(acc.kept)
  /\ MarksUpTo(acc.marks, now)
  /\ \A h \in DOMAIN before : h \in DOMAIN acc.marks /\ acc.marks[h] \in {before[h], now}
  /\ setup.deduped =>
       /\ \A i \in DOMAIN acc.kept : Opportunity(acc.kept[i]) =>
            /\ HashOf(acc.kept[i]) \in DOMAIN acc.marks
            /\ acc.marks[HashOf(acc.kept[i])] = now
            /\ HashOf(acc.kept[i]) \in DOMAIN before => now - before[HashOf(acc.kept[i])] >= DedupeTtlNs
       /\ \A i, j \in DOMAIN acc.kept :
            i # j /\ Opportunity(acc.kept[i]) /\ Opportunity(acc.kept[j])
            /\ HashOf(acc.kept[i]) = HashOf(acc.kept[j]) => DedupeTtlNs = 0

LEMMA DedupeKeeps ==
  ASSUME NEW before, MarksUpTo(before, now), now \in Nat,
         NEW acc, DedupeSound(acc, before), NEW candidate
  PROVE  DedupeSound(Dedupe(acc, candidate), before)
<1> DEFINE next == Dedupe(acc, candidate)
           h    == HashOf(candidate)
<1>1. CASE ~ Opportunity(candidate) \/ ~ setup.deduped
  <2>1. /\ DOMAIN next = {"kept", "dropped", "marks"}
        /\ next.kept = Append(acc.kept, candidate) /\ next.marks = acc.marks
    BY <1>1, Zenon DEF Dedupe, DedupeSound, Opportunity
  <2> HIDE DEF next
  <2>2. /\ IsList(next.kept) /\ DOMAIN next.kept = DOMAIN acc.kept \cup {Len(acc.kept) + 1}
        /\ next.kept[Len(acc.kept) + 1] = candidate
        /\ \A i \in DOMAIN acc.kept : next.kept[i] = acc.kept[i]
    BY <2>1, ListAppend DEF DedupeSound
  <2>3. /\ MarksUpTo(next.marks, now)
        /\ \A g \in DOMAIN before : g \in DOMAIN next.marks /\ next.marks[g] \in {before[g], now}
    BY <2>1, Zenon DEF DedupeSound
  <2>4. ASSUME setup.deduped, NEW i \in DOMAIN next.kept, Opportunity(next.kept[i])
        PROVE  i \in DOMAIN acc.kept /\ next.kept[i] = acc.kept[i]
    BY <1>1, <2>2, <2>4, Zenon
  <2>5. ASSUME setup.deduped, NEW i \in DOMAIN next.kept, Opportunity(next.kept[i])
        PROVE  /\ HashOf(next.kept[i]) \in DOMAIN next.marks /\ next.marks[HashOf(next.kept[i])] = now
               /\ HashOf(next.kept[i]) \in DOMAIN before => now - before[HashOf(next.kept[i])] >= DedupeTtlNs
    <3>1. i \in DOMAIN acc.kept /\ next.kept[i] = acc.kept[i]
      BY <2>4, <2>5, Zenon
    <3> QED BY <2>1, <2>5, <3>1, Zenon DEF DedupeSound
  <2>6. ASSUME setup.deduped, NEW i \in DOMAIN next.kept, NEW j \in DOMAIN next.kept, i # j,
               Opportunity(next.kept[i]), Opportunity(next.kept[j]),
               HashOf(next.kept[i]) = HashOf(next.kept[j])
        PROVE  DedupeTtlNs = 0
    <3>1. /\ i \in DOMAIN acc.kept /\ next.kept[i] = acc.kept[i]
          /\ j \in DOMAIN acc.kept /\ next.kept[j] = acc.kept[j]
      BY <2>4, <2>6, Zenon
    <3> QED BY <2>6, <3>1, Zenon DEF DedupeSound
  <2>7. DedupeSound(next, before)
    BY <2>1, <2>2, <2>3, <2>5, <2>6, Zenon DEF DedupeSound
  <2> QED BY <2>7 DEF next
<1>2. CASE Opportunity(candidate) /\ setup.deduped /\ SeenRecently(acc.marks, h)
  <2>1. /\ DOMAIN next = {"kept", "dropped", "marks"}
        /\ next.kept = acc.kept /\ next.marks = acc.marks
    BY <1>2, Zenon DEF Dedupe, DedupeSound, Opportunity, HashOf
  <2> HIDE DEF next
  <2>2. DedupeSound(next, before)
    BY <2>1, Zenon DEF DedupeSound
  <2> QED BY <2>2 DEF next
<1>3. CASE Opportunity(candidate) /\ setup.deduped /\ ~ SeenRecently(acc.marks, h)
  <2>1. /\ DOMAIN next = {"kept", "dropped", "marks"}
        /\ next.kept = Append(acc.kept, candidate) /\ next.marks = MarkSeen(acc.marks, h)
    BY <1>3, Zenon DEF Dedupe, DedupeSound, Opportunity, HashOf
  <2>2. /\ IsList(Append(acc.kept, candidate))
        /\ DOMAIN Append(acc.kept, candidate) = DOMAIN acc.kept \cup {Len(acc.kept) + 1}
        /\ Append(acc.kept, candidate)[Len(acc.kept) + 1] = candidate
        /\ \A i \in DOMAIN acc.kept : Append(acc.kept, candidate)[i] = acc.kept[i]
    BY ListAppend DEF DedupeSound
  <2>3. /\ DOMAIN MarkSeen(acc.marks, h) = DOMAIN acc.marks \cup {h}
        /\ MarkSeen(acc.marks, h)[h] = now
        /\ \A g \in DOMAIN acc.marks : MarkSeen(acc.marks, h)[g] \in {acc.marks[g], now}
        /\ \A g \in DOMAIN acc.marks : acc.marks[g] = now => MarkSeen(acc.marks, h)[g] = now
    BY Zenon DEF MarkSeen
  <2> HIDE DEF h
  <2> DEFINE kept  == Append(acc.kept, candidate)
             marks == MarkSeen(acc.marks, h)
             last  == Len(acc.kept) + 1
  <2> HIDE DEF kept, marks, last
  <2>4. DedupeTtlNs \in Nat
    BY SignalAssumption, Zenon
  <2>5. h \in DOMAIN before => now - before[h] >= DedupeTtlNs
    <3> SUFFICES ASSUME h \in DOMAIN before PROVE now - before[h] >= DedupeTtlNs
      BY Zenon
    <3>1. /\ h \in DOMAIN acc.marks /\ acc.marks[h] \in {before[h], now}
          /\ acc.marks[h] \in Nat /\ acc.marks[h] <= now /\ before[h] \in Nat /\ before[h] <= now
      BY Zenon DEF DedupeSound, MarksUpTo
    <3>2. now - acc.marks[h] >= DedupeTtlNs
      BY <1>3, <2>4, <3>1 DEF SeenRecently
    <3> QED BY <2>4, <3>1, <3>2
  <2>6. h \in DOMAIN acc.marks /\ acc.marks[h] = now => DedupeTtlNs = 0
    BY <1>3, <2>4 DEF SeenRecently
  <2>7. MarksUpTo(marks, now)
    BY <2>3 DEF marks, MarksUpTo, DedupeSound
  <2>8. \A g \in DOMAIN before : g \in DOMAIN marks /\ marks[g] \in {before[g], now}
    BY <2>3, Zenon DEF marks, DedupeSound
  <2>9. ASSUME NEW i \in DOMAIN kept, Opportunity(kept[i])
        PROVE  /\ HashOf(kept[i]) \in DOMAIN marks /\ marks[HashOf(kept[i])] = now
               /\ HashOf(kept[i]) \in DOMAIN before => now - before[HashOf(kept[i])] >= DedupeTtlNs
    <3>1. CASE i = last
      <4>1. HashOf(kept[i]) = h
        BY <2>2, <3>1, Zenon DEF kept, last, h
      <4> QED BY <2>3, <2>5, <4>1, Zenon DEF marks
    <3>2. CASE i # last
      <4>1. i \in DOMAIN acc.kept /\ kept[i] = acc.kept[i]
        BY <2>2, <2>9, <3>2, Zenon DEF kept, last
      <4>2. /\ HashOf(acc.kept[i]) \in DOMAIN acc.marks
            /\ acc.marks[HashOf(acc.kept[i])] = now
            /\ HashOf(acc.kept[i]) \in DOMAIN before => now - before[HashOf(acc.kept[i])] >= DedupeTtlNs
        BY <1>3, <2>9, <4>1, Zenon DEF DedupeSound
      <4> QED BY <2>3, <4>1, <4>2, Zenon DEF marks
    <3> QED BY <3>1, <3>2, Zenon
  <2>10. ASSUME NEW i \in DOMAIN kept, NEW j \in DOMAIN kept, i # j,
                Opportunity(kept[i]), Opportunity(kept[j]), HashOf(kept[i]) = HashOf(kept[j])
         PROVE  DedupeTtlNs = 0
    <3>1. \A k \in DOMAIN kept : k # last => k \in DOMAIN acc.kept /\ kept[k] = acc.kept[k]
      BY <2>2, Zenon DEF kept, last
    <3>2. kept[last] = candidate
      BY <2>2, Zenon DEF kept, last
    <3>3. ASSUME NEW k \in DOMAIN kept, k # last, Opportunity(kept[k]), HashOf(kept[k]) = h
          PROVE  DedupeTtlNs = 0
      <4>1. h \in DOMAIN acc.marks /\ acc.marks[h] = now
        BY <1>3, <3>1, <3>3, Zenon DEF DedupeSound
      <4> QED BY <2>6, <4>1, Zenon
    <3>4. CASE i = last
      BY <2>10, <3>2, <3>3, <3>4, Zenon DEF h
    <3>5. CASE j = last
      BY <2>10, <3>2, <3>3, <3>5, Zenon DEF h
    <3>6. CASE i # last /\ j # last
      BY <1>3, <2>10, <3>1, <3>6, Zenon DEF DedupeSound
    <3> QED BY <3>4, <3>5, <3>6, Zenon
  <2>11. next.kept = kept /\ next.marks = marks
    BY <2>1, Zenon DEF kept, marks, h
  <2>12. IsList(kept) /\ DOMAIN next = {"kept", "dropped", "marks"}
    BY <2>1, <2>2, Zenon DEF kept
  <2> HIDE DEF next
  <2>13. DedupeSound(next, before)
    BY <2>7, <2>8, <2>9, <2>10, <2>11, <2>12, Zenon DEF DedupeSound
  <2> QED BY <2>13 DEF next
<1> QED BY <1>1, <1>2, <1>3

\* The whole of a scan's deduplication.
LEMMA DedupedSound ==
  ASSUME NEW candidates, IsList(candidates), now \in Nat, MarksUpTo(seen, now)
  PROVE  DedupeSound(Deduped(candidates), seen)
<1> DEFINE n == Len(candidates)
<1>0. n \in Nat
  BY ListLength, Zenon
<1>1. PICK T : IsDedupeTable(T, candidates, n) /\ Deduped(candidates) = T[n]
  BY <1>0, DedupedIsTable, Zenon
<1> HIDE DEF n
<1> DEFINE Good == {k \in Nat : k <= n => DedupeSound(T[k], seen)}
<1>2. 0 \in Good
  <2>1. T[0] = [kept |-> << >>, dropped |-> 0, marks |-> seen]
    BY <1>0, <1>1 DEF IsDedupeTable
  <2>2. /\ DOMAIN T[0] = {"kept", "dropped", "marks"} /\ T[0].marks = seen
        /\ T[0].kept = << >> /\ DOMAIN T[0].kept = {}
    BY <2>1
  <2>3. DedupeSound(T[0], seen)
    BY <2>2, ListEmpty, Zenon DEF DedupeSound
  <2> QED BY <2>3, Zenon
<1>3. ASSUME NEW k \in Good PROVE k + 1 \in Good
  <2> SUFFICES ASSUME k + 1 <= n PROVE DedupeSound(T[k + 1], seen)
    BY <1>3
  <2>1. DedupeSound(T[k], seen)
    BY <1>0, <1>3
  <2>2. k + 1 \in 0 .. n /\ k + 1 # 0 /\ (k + 1) - 1 = k
    BY <1>0, <1>3
  <2>3. T[k + 1] = Dedupe(T[k], candidates[k + 1])
    BY <1>1, <2>2, Zenon DEF IsDedupeTable
  <2> QED BY <2>1, <2>3, DedupeKeeps, Zenon
<1>4. Good = Nat
  <2> HIDE DEF Good
  <2>1. Good \in SUBSET Nat
    BY Zenon DEF Good
  <2> QED BY <1>2, <1>3, <2>1, NatSetInduction
<1> QED BY <1>0, <1>1, <1>4

-----------------------------------------------------------------------------
\* What the rate limiter lets through: candidates of the scan, each at most once, and no
\* more than the window has room for.

Opened == OpenWindow(window)

LimitSound(acc, candidates, config, k) ==
  /\ DOMAIN acc = {"kept", "late", "window"}
  /\ IsList(acc.kept) /\ IsList(acc.late)
  /\ \A i \in DOMAIN acc.kept : \E j \in 1 .. k : acc.kept[i] = candidates[j]
  /\ setup.deduped =>
       \A i, j \in DOMAIN acc.kept :
         i # j /\ Opportunity(acc.kept[i]) /\ Opportunity(acc.kept[j])
         /\ HashOf(acc.kept[i]) = HashOf(acc.kept[j]) => DedupeTtlNs = 0
  /\ \/ acc.window = window /\ Len(acc.kept) = 0
     \/ /\ acc.window = [has |-> TRUE, second |-> now \div SecondNs,
                         emitted |-> Opened.emitted + Len(acc.kept)]
        /\ Opened.emitted + Len(acc.kept) <= config.max_intents_per_second

\* The window as allow() finds it: of this second, with what this second has emitted.
LEMMA OpenedWindow ==
  ASSUME window.has => DOMAIN window = {"has", "second", "emitted"}, window.has \in BOOLEAN,
         window = [has |-> window.has, second |-> window.second, emitted |-> window.emitted],
         window.has => window.emitted \in Nat
  PROVE  /\ Opened = [has |-> TRUE, second |-> now \div SecondNs, emitted |-> Opened.emitted]
         /\ Opened.emitted \in Nat
         /\ Opened.emitted = IF window.has /\ window.second = now \div SecondNs THEN window.emitted ELSE 0
<1>1. CASE window.has /\ window.second = now \div SecondNs
  <2>1. Opened = window
    BY <1>1, Zenon DEF Opened, OpenWindow
  <2> QED BY <1>1, <2>1, Zenon
<1>2. CASE ~ (window.has /\ window.second = now \div SecondNs)
  BY <1>2, Zenon DEF Opened, OpenWindow
<1> QED BY <1>1, <1>2, Zenon

LEMMA LimitKeeps ==
  ASSUME NEW acc, NEW candidates, NEW config, NEW k \in Nat, LimitSound(acc, candidates, config, k),
         config.max_intents_per_second \in Nat,
         Opened = [has |-> TRUE, second |-> now \div SecondNs, emitted |-> Opened.emitted],
         Opened.emitted \in Nat, Opened.emitted <= config.max_intents_per_second,
         setup.deduped =>
           \A j \in 1 .. k : Opportunity(candidates[j]) /\ Opportunity(candidates[k + 1])
             /\ HashOf(candidates[j]) = HashOf(candidates[k + 1]) => DedupeTtlNs = 0
  PROVE  LimitSound(LimitRate(acc, candidates[k + 1], config), candidates, config, k + 1)
<1> DEFINE c    == candidates[k + 1]
           next == LimitRate(acc, c, config)
           w    == OpenWindow(acc.window)
           max  == config.max_intents_per_second
           n    == Len(acc.kept)
<1> HIDE DEF c, max
<1>0. n \in Nat /\ DOMAIN acc.kept = 1 .. n
  BY ListLength DEF LimitSound
<1>1. w = [has |-> TRUE, second |-> now \div SecondNs, emitted |-> Opened.emitted + n]
      /\ Opened.emitted + n <= max
  <2>1. CASE acc.window = window /\ n = 0
    <3>1. w = Opened /\ Opened.emitted + n = Opened.emitted
      BY <2>1 DEF Opened
    <3> QED BY <3>1, Zenon DEF max
  <2>2. CASE /\ acc.window = [has |-> TRUE, second |-> now \div SecondNs, emitted |-> Opened.emitted + n]
             /\ Opened.emitted + n <= max
    BY <2>2 DEF OpenWindow
  <2> QED BY <2>1, <2>2, Zenon DEF LimitSound, max
<1> HIDE DEF w, n
<1>2. CASE Allowed(w, config)
  <2>1. /\ DOMAIN next = {"kept", "late", "window"} /\ next.late = acc.late
        /\ next.kept = Append(acc.kept, c) /\ next.window = [w EXCEPT !.emitted = @ + 1]
    BY <1>2, Zenon DEF LimitRate, LimitSound, w
  <2> HIDE DEF next
  <2>2. /\ IsList(next.kept) /\ Len(next.kept) = n + 1 /\ DOMAIN next.kept = DOMAIN acc.kept \cup {n + 1}
        /\ next.kept[n + 1] = c
        /\ \A i \in DOMAIN acc.kept : next.kept[i] = acc.kept[i]
    <3>1. IsList(acc.kept)
      BY Zenon DEF LimitSound
    <3> QED BY <2>1, <3>1, ListAppend DEF n
  <2>3. ASSUME NEW i \in DOMAIN next.kept PROVE \E j \in 1 .. k + 1 : next.kept[i] = candidates[j]
    <3>1. CASE i = n + 1
      <4>1. next.kept[i] = candidates[k + 1]
        BY <2>2, <3>1, Zenon DEF c
      <4> QED BY <4>1
    <3>2. CASE i # n + 1
      <4>1. i \in DOMAIN acc.kept /\ next.kept[i] = acc.kept[i]
        BY <2>2, <3>2, Zenon
      <4>2. PICK j \in 1 .. k : acc.kept[i] = candidates[j]
        BY <4>1, Zenon DEF LimitSound
      <4>3. j \in 1 .. k + 1
        OBVIOUS
      <4> QED BY <4>1, <4>2, <4>3, Zenon
    <3> QED BY <3>1, <3>2, Zenon
  <2>4. ASSUME setup.deduped, NEW i \in DOMAIN next.kept, NEW j \in DOMAIN next.kept, i # j,
               Opportunity(next.kept[i]), Opportunity(next.kept[j]),
               HashOf(next.kept[i]) = HashOf(next.kept[j])
        PROVE  DedupeTtlNs = 0
    <3>1. \A p \in DOMAIN next.kept : p # n + 1 => p \in DOMAIN acc.kept /\ next.kept[p] = acc.kept[p]
      BY <2>2, Zenon
    <3>2. ASSUME NEW p \in DOMAIN next.kept, p # n + 1, Opportunity(next.kept[p]), Opportunity(c),
                 HashOf(next.kept[p]) = HashOf(c)
          PROVE  DedupeTtlNs = 0
      <4>1. p \in DOMAIN acc.kept /\ next.kept[p] = acc.kept[p]
        BY <3>1, <3>2, Zenon
      <4>2. PICK q \in 1 .. k : acc.kept[p] = candidates[q]
        BY <4>1, Zenon DEF LimitSound
      <4> QED BY <2>4, <3>2, <4>1, <4>2, Zenon DEF c
    <3>3. CASE i = n + 1 \/ j = n + 1
      BY <2>2, <2>4, <3>2, <3>3, Zenon
    <3>4. CASE i # n + 1 /\ j # n + 1
      <4>1. /\ i \in DOMAIN acc.kept /\ next.kept[i] = acc.kept[i]
            /\ j \in DOMAIN acc.kept /\ next.kept[j] = acc.kept[j]
        BY <3>1, <3>4, Zenon
      <4> QED BY <2>4, <4>1, Zenon DEF LimitSound
    <3> QED BY <3>3, <3>4, Zenon
  <2>5. /\ next.window = [has |-> TRUE, second |-> now \div SecondNs,
                          emitted |-> Opened.emitted + Len(next.kept)]
        /\ Opened.emitted + Len(next.kept) <= max
    <3>1. Opened.emitted + n < max
      BY <1>1, <1>2 DEF Allowed, max
    <3>2. (Opened.emitted + n) + 1 = Opened.emitted + (n + 1)
      BY <1>0
    <3>3. next.window = [has |-> TRUE, second |-> now \div SecondNs, emitted |-> (Opened.emitted + n) + 1]
      BY <1>1, <2>1, Zenon
    <3>4. max \in Nat
      BY DEF max
    <3>5. (Opened.emitted + n) + 1 <= max
      BY <1>0, <3>1, <3>4
    <3> HIDE DEF Opened
    <3>6. Opened.emitted + Len(next.kept) = (Opened.emitted + n) + 1
      BY <2>2, <3>2, Zenon
    <3> QED BY <3>3, <3>5, <3>6, Zenon
  <2>6. IsList(next.late)
    BY <2>1, Zenon DEF LimitSound
  <2>7. LimitSound(next, candidates, config, k + 1)
    BY <2>1, <2>2, <2>3, <2>4, <2>5, <2>6, Zenon DEF LimitSound, max
  <2> QED BY <2>7, Zenon DEF next, c
<1>3. CASE ~ Allowed(w, config)
  <2>1. /\ DOMAIN next = {"kept", "late", "window"} /\ next.late = Append(acc.late, c)
        /\ next.kept = acc.kept /\ next.window = w
    BY <1>3, Zenon DEF LimitRate, LimitSound, w
  <2> HIDE DEF next
  <2>2. IsList(next.late)
    <3>1. IsList(acc.late)
      BY Zenon DEF LimitSound
    <3> QED BY <2>1, <3>1, ListAppend
  <2>3. ASSUME NEW i \in DOMAIN next.kept PROVE \E j \in 1 .. k + 1 : next.kept[i] = candidates[j]
    <3>1. PICK j \in 1 .. k : acc.kept[i] = candidates[j]
      BY <2>1, Zenon DEF LimitSound
    <3>2. j \in 1 .. k + 1
      OBVIOUS
    <3> QED BY <2>1, <3>1, <3>2, Zenon
  <2>4. /\ next.window = [has |-> TRUE, second |-> now \div SecondNs,
                          emitted |-> Opened.emitted + Len(next.kept)]
        /\ Opened.emitted + Len(next.kept) <= max
    BY <1>1, <2>1, Zenon DEF n
  <2>5. LimitSound(next, candidates, config, k + 1)
    BY <2>1, <2>2, <2>3, <2>4, Zenon DEF LimitSound, max
  <2> QED BY <2>5 DEF next, c
<1> QED BY <1>2, <1>3

\* The whole of a scan's rate limiting.
LEMMA LimitedSound ==
  ASSUME NEW candidates, IsList(candidates), NEW config, config.max_intents_per_second \in Nat,
         Opened = [has |-> TRUE, second |-> now \div SecondNs, emitted |-> Opened.emitted],
         Opened.emitted \in Nat, Opened.emitted <= config.max_intents_per_second,
         setup.deduped =>
           \A i, j \in DOMAIN candidates :
             i # j /\ Opportunity(candidates[i]) /\ Opportunity(candidates[j])
             /\ HashOf(candidates[i]) = HashOf(candidates[j]) => DedupeTtlNs = 0
  PROVE  LimitSound(Limited(candidates, config), candidates, config, Len(candidates))
<1> DEFINE n == Len(candidates)
<1>0. n \in Nat /\ DOMAIN candidates = 1 .. n
  BY ListLength, Zenon
<1>1. PICK T : IsLimitTable(T, candidates, config, n) /\ Limited(candidates, config) = T[n]
  BY <1>0, LimitedIsTable, Zenon
<1> HIDE DEF n
<1> DEFINE Good == {k \in Nat : k <= n => LimitSound(T[k], candidates, config, k)}
<1>2. 0 \in Good
  <2>1. T[0] = [kept |-> << >>, late |-> << >>, window |-> window]
    BY <1>0, <1>1 DEF IsLimitTable
  <2>2. /\ DOMAIN T[0] = {"kept", "late", "window"} /\ T[0].window = window
        /\ T[0].kept = << >> /\ T[0].late = << >> /\ DOMAIN T[0].kept = {} /\ Len(T[0].kept) = 0
    BY <2>1
  <2>3. LimitSound(T[0], candidates, config, 0)
    BY <2>2, ListEmpty, Zenon DEF LimitSound
  <2> QED BY <2>3, Zenon
<1>3. ASSUME NEW k \in Good PROVE k + 1 \in Good
  <2> SUFFICES ASSUME k + 1 <= n PROVE LimitSound(T[k + 1], candidates, config, k + 1)
    BY <1>3
  <2>1. k \in Nat /\ LimitSound(T[k], candidates, config, k)
    BY <1>0, <1>3
  <2>2. k + 1 \in 0 .. n /\ k + 1 # 0 /\ (k + 1) - 1 = k
    BY <1>0, <1>3
  <2>3. T[k + 1] = LimitRate(T[k], candidates[k + 1], config)
    BY <1>1, <2>2, Zenon DEF IsLimitTable
  <2>4. setup.deduped =>
          \A j \in 1 .. k : Opportunity(candidates[j]) /\ Opportunity(candidates[k + 1])
            /\ HashOf(candidates[j]) = HashOf(candidates[k + 1]) => DedupeTtlNs = 0
    <3>1. k + 1 \in DOMAIN candidates /\ \A j \in 1 .. k : j \in DOMAIN candidates /\ j # k + 1
      BY <1>0, <2>1
    <3> QED BY <3>1
  <2> QED BY <2>1, <2>3, <2>4, LimitKeeps, Zenon
<1>4. Good = Nat
  <2> HIDE DEF Good
  <2>1. Good \in SUBSET Nat
    BY DEF Good
  <2> QED BY <1>2, <1>3, <2>1, NatSetInduction, Zenon
<1> QED BY <1>0, <1>1, <1>4

-----------------------------------------------------------------------------
\* The inductive invariant: the clock is ahead of every mark and of all that was offered, what
\* was shown is marked no earlier than it was shown, and the window counts what its second showed.

Second(t) == t \div SecondNs
ShownIn(list, s) == {i \in DOMAIN list : list[i].shown /\ Second(list[i].at) = s}

DatedInv ==
  /\ setup \in Setups
  /\ now \in Nat
  /\ MarksUpTo(seen, now)
  /\ IsList(history)
  /\ \A i \in DOMAIN history : history[i].at \in Nat /\ history[i].at <= now

MarkedInv ==
  setup.deduped =>
    \A i \in DOMAIN history :
      history[i].shown /\ history[i].status = "PaperOpportunity" =>
        history[i].hash \in DOMAIN seen /\ history[i].at <= seen[history[i].hash]

WindowInv ==
  /\ window = [has |-> window.has, second |-> window.second, emitted |-> window.emitted]
  /\ window.has \in BOOLEAN
  /\ window.has => /\ window.second \in Nat /\ window.second <= Second(now)
                   /\ window.emitted \in Nat /\ window.emitted <= setup.config.max_intents_per_second
                   /\ Cardinality(ShownIn(history, window.second)) = window.emitted
  /\ \A i \in DOMAIN history : history[i].shown => window.has /\ Second(history[i].at) <= window.second
  /\ \A s \in Nat : Cardinality(ShownIn(history, s)) <= setup.config.max_intents_per_second

\* Seconds are whole numbers that do not go back.
LEMMA SecondsGrow ==
  ASSUME NEW t \in Nat
  PROVE  Second(t) \in Nat /\ Second(t) <= Second(t + 1)
<1>1. SecondNs \in Nat /\ SecondNs > 0
  BY SignalAssumption
<1>2. \A x \in Nat : \A n \in Nat : n > 0 => x \div n \in Nat
  OBVIOUS
<1>3. \A x \in Nat : \A n \in Nat : n > 0 => x \div n <= (x + 1) \div n
  OBVIOUS
<1> QED BY <1>1, <1>2, <1>3, Zenon DEF Second

\* The offer of a candidate that is shown now.
IsOffer(offer, c) ==
  /\ offer.at = now /\ offer.shown = TRUE
  /\ offer.hash = HashOf(c) /\ offer.status = c.intent.status

\* List after is the list, what was shown, and what was held back.
Offered(list, kept, after) ==
  /\ IsList(after) /\ Len(list) \in Nat /\ Len(kept) \in Nat
  /\ DOMAIN list = 1 .. Len(list) /\ DOMAIN kept = 1 .. Len(kept)
  /\ \A i \in DOMAIN list : i \in DOMAIN after /\ after[i] = list[i]
  /\ \A j \in 1 .. Len(kept) :
       /\ Len(list) + j \in DOMAIN after
       /\ IsOffer(after[Len(list) + j], kept[j])
  /\ \A i \in DOMAIN after :
       \/ i \in DOMAIN list
       \/ \E j \in 1 .. Len(kept) : i = Len(list) + j
       \/ after[i].at = now /\ after[i].shown = FALSE

LEMMA OffersAppended ==
  ASSUME NEW list, IsList(list), NEW kept, IsList(kept), NEW late, IsList(late), NEW after,
         after = list \o Offers(kept, TRUE) \o Offers(late, FALSE)
  PROVE  Offered(list, kept, after)
<1> DEFINE n == Len(list)
           m == Len(kept)
           l == Len(late)
           shown == Offers(kept, TRUE)
           held  == Offers(late, FALSE)
           mid   == list \o shown
<1>1. /\ n \in Nat /\ m \in Nat /\ l \in Nat
      /\ DOMAIN list = 1 .. n /\ DOMAIN kept = 1 .. m /\ DOMAIN late = 1 .. l
  BY ListLength, Zenon
<1>2. /\ shown \in [1 .. m -> {shown[j] : j \in 1 .. m}]
      /\ \A j \in 1 .. m : IsOffer(shown[j], kept[j])
  BY <1>1, Zenon DEF Offers, HashOf, IsOffer
<1>3. /\ held \in [1 .. l -> {held[j] : j \in 1 .. l}]
      /\ \A j \in 1 .. l : held[j].at = now /\ held[j].shown = FALSE
  BY <1>1 DEF Offers
<1> HIDE DEF n, m, l, shown, held
<1>4. IsJoin(mid, list, m, shown)
  BY <1>1, <1>2, ListJoin, Zenon
<1> HIDE DEF mid
<1>5. IsJoin(after, mid, l, held)
  <2>1. IsList(mid) /\ after = mid \o held
    BY <1>4, Zenon DEF IsJoin, mid, shown, held
  <2> QED BY <1>1, <1>3, <2>1, ListJoin, Zenon
<1>6. /\ IsList(after) /\ Len(mid) = n + m
      /\ DOMAIN after = 1 .. (n + m) + l
      /\ \A k \in 1 .. n + m : after[k] = mid[k]
      /\ \A j \in 1 .. l : after[(n + m) + j] = held[j]
  <2>1. Len(mid) = n + m
    BY <1>4 DEF IsJoin, n
  <2> QED BY <1>5, <2>1, Zenon DEF IsJoin
<1>7. /\ \A k \in 1 .. n : mid[k] = list[k]
      /\ \A j \in 1 .. m : mid[n + j] = shown[j]
  BY <1>4, Zenon DEF IsJoin, n
<1>8. \A i \in 1 .. n : i \in DOMAIN after /\ after[i] = list[i]
  <2> TAKE i \in 1 .. n
  <2>1. i \in 1 .. n + m /\ i \in 1 .. (n + m) + l
    BY <1>1
  <2> QED BY <1>6, <1>7, <2>1, Zenon
<1>9. \A j \in 1 .. m : n + j \in DOMAIN after /\ after[n + j] = shown[j]
  <2> TAKE j \in 1 .. m
  <2>1. n + j \in 1 .. n + m /\ n + j \in 1 .. (n + m) + l
    BY <1>1
  <2> QED BY <1>6, <1>7, <2>1, Zenon
<1>10. ASSUME NEW i \in DOMAIN after
       PROVE  \/ i \in DOMAIN list
              \/ \E j \in 1 .. m : i = n + j
              \/ after[i].at = now /\ after[i].shown = FALSE
  <2>1. i \in 1 .. (n + m) + l
    BY <1>6, Zenon
  <2>2. CASE i <= n
    <3>1. i \in 1 .. n
      BY <1>1, <2>1, <2>2
    <3> QED BY <1>1, <3>1, Zenon
  <2>3. CASE n < i /\ i <= n + m
    <3>1. i - n \in 1 .. m /\ i = n + (i - n)
      BY <1>1, <2>1, <2>3
    <3> QED BY <3>1, Zenon
  <2>4. CASE n + m < i
    <3>1. i - (n + m) \in 1 .. l /\ i = (n + m) + (i - (n + m))
      BY <1>1, <2>1, <2>4
    <3> QED BY <1>3, <1>6, <3>1, Zenon
  <2>5. i <= n \/ (n < i /\ i <= n + m) \/ n + m < i
    BY <1>1, <2>1
  <2> QED BY <2>2, <2>3, <2>4, <2>5, Zenon
<1> QED BY <1>1, <1>2, <1>6, <1>8, <1>9, <1>10, Zenon DEF Offered, n, m

\* A scan leaves what it shows marked and dated, and shows nothing too soon.
LEMMA ScanKeepsMarks ==
  ASSUME DatedInv, MarkedInv, NoRepeatWithinTtl, NEW ded, DedupeSound(ded, seen),
         NEW lim, NEW config, IsList(ded.kept), LimitSound(lim, ded.kept, config, Len(ded.kept)),
         seen' = ded.marks, setup' = setup, now' = now,
         Offered(history, lim.kept, history')
  PROVE  DatedInv' /\ MarkedInv' /\ NoRepeatWithinTtl'
<1> DEFINE n == Len(history)
           m == Len(lim.kept)
<1>2. /\ IsList(history') /\ n \in Nat /\ m \in Nat /\ DOMAIN history = 1 .. n /\ DOMAIN lim.kept = 1 .. m
      /\ \A i \in DOMAIN history : i \in DOMAIN history' /\ history'[i] = history[i]
      /\ \A j \in 1 .. m : n + j \in DOMAIN history' /\ IsOffer(history'[n + j], lim.kept[j])
      /\ \A i \in DOMAIN history' :
           \/ i \in DOMAIN history
           \/ \E j \in 1 .. m : i = n + j
           \/ history'[i].at = now /\ history'[i].shown = FALSE
  BY Zenon DEF Offered
<1> HIDE DEF n, m
<1>3. now \in Nat /\ DedupeTtlNs \in Nat
  BY SignalAssumption, Zenon DEF DatedInv
\* What is new and shown.
<1>4. ASSUME NEW i \in DOMAIN history', i \notin DOMAIN history, history'[i].shown
      PROVE  \E j \in 1 .. m :
               /\ i = n + j /\ history'[i].at = now
               /\ history'[i].hash = HashOf(lim.kept[j])
               /\ history'[i].status = lim.kept[j].intent.status
  <2>1. PICK j \in 1 .. m : i = n + j
    BY <1>2, <1>4, Zenon
  <2>2. IsOffer(history'[i], lim.kept[j])
    BY <1>2, <2>1
  <2>3. /\ history'[i].at = now /\ history'[i].hash = HashOf(lim.kept[j])
        /\ history'[i].status = lim.kept[j].intent.status
    BY <2>2, Zenon DEF IsOffer
  <2> QED BY <2>1, <2>3, Zenon
<1>5. ASSUME NEW j \in 1 .. m, Opportunity(lim.kept[j]), setup.deduped
      PROVE  /\ HashOf(lim.kept[j]) \in DOMAIN ded.marks
             /\ ded.marks[HashOf(lim.kept[j])] = now
             /\ HashOf(lim.kept[j]) \in DOMAIN seen => now - seen[HashOf(lim.kept[j])] >= DedupeTtlNs
  <2>1. PICK p \in 1 .. Len(ded.kept) : lim.kept[j] = ded.kept[p]
    BY <1>2, Zenon DEF LimitSound
  <2>2. p \in DOMAIN ded.kept
    BY <2>1, ListLength
  <2> QED BY <1>5, <2>1, <2>2, Zenon DEF DedupeSound
<1>6. DatedInv'
  <2>1. MarksUpTo(seen', now')
    BY Zenon DEF DedupeSound
  <2>2. ASSUME NEW i \in DOMAIN history' PROVE history'[i].at \in Nat /\ history'[i].at <= now
    <3>1. CASE i \in DOMAIN history
      BY <1>2, <3>1 DEF DatedInv
    <3>2. CASE \E j \in 1 .. m : i = n + j
      <4>1. PICK j \in 1 .. m : i = n + j
        BY <3>2, Zenon
      <4>2. IsOffer(history'[n + j], lim.kept[j])
        BY <1>2, Zenon
      <4>3. history'[n + j].at = now
        BY <4>2, Zenon DEF IsOffer
      <4> QED BY <1>3, <4>1, <4>3
    <3>3. CASE history'[i].at = now
      BY <1>3, <3>3
    <3> QED BY <1>2, <3>1, <3>2, <3>3, Zenon
  <2>3. setup' \in Setups /\ now' \in Nat
    BY Zenon DEF DatedInv
  <2> QED BY <1>2, <2>1, <2>2, <2>3, Zenon DEF DatedInv
<1>7. MarkedInv'
  <2> SUFFICES ASSUME setup.deduped, NEW i \in DOMAIN history', history'[i].shown,
                      history'[i].status = "PaperOpportunity"
               PROVE  history'[i].hash \in DOMAIN ded.marks /\ history'[i].at <= ded.marks[history'[i].hash]
    BY Zenon DEF MarkedInv
  <2>1. CASE i \in DOMAIN history
    <3> DEFINE h == history[i].hash
    <3>1. history'[i] = history[i]
      BY <1>2, <2>1, Zenon
    <3>2. h \in DOMAIN seen /\ history[i].at <= seen[h] /\ history[i].at \in Nat /\ history[i].at <= now
      BY <2>1, <3>1, Zenon DEF MarkedInv, DatedInv
    <3>3. h \in DOMAIN ded.marks /\ ded.marks[h] \in {seen[h], now}
      BY <3>2, Zenon DEF DedupeSound
    <3> QED BY <3>1, <3>2, <3>3, Zenon
  <2>2. CASE i \notin DOMAIN history
    <3>1. PICK j \in 1 .. m : /\ i = n + j /\ history'[i].at = now
                              /\ history'[i].hash = HashOf(lim.kept[j])
                              /\ history'[i].status = lim.kept[j].intent.status
      BY <1>4, <2>2, Zenon
    <3> QED BY <1>3, <1>5, <3>1 DEF Opportunity
  <2> QED BY <2>1, <2>2, Zenon
<1>8. NoRepeatWithinTtl'
  <2> SUFFICES ASSUME setup.deduped, NEW i \in DOMAIN history', NEW j \in DOMAIN history', i < j,
                      history'[i].shown, history'[j].shown,
                      history'[i].status = "PaperOpportunity", history'[j].status = "PaperOpportunity",
                      history'[i].hash = history'[j].hash
               PROVE  history'[j].at - history'[i].at >= DedupeTtlNs
    BY Zenon DEF NoRepeatWithinTtl
  <2>1. CASE i \in DOMAIN history /\ j \in DOMAIN history
    <3>1. history'[i] = history[i] /\ history'[j] = history[j]
      BY <1>2, <2>1, Zenon
    <3> QED BY <2>1, <3>1, Zenon DEF NoRepeatWithinTtl
  <2>2. CASE i \in DOMAIN history /\ j \notin DOMAIN history
    <3> DEFINE h == history[i].hash
    <3>1. history'[i] = history[i]
      BY <1>2, <2>2, Zenon
    <3>2. h \in DOMAIN seen /\ history[i].at <= seen[h] /\ history[i].at \in Nat /\ seen[h] \in Nat
      BY <2>2, <3>1, Zenon DEF MarkedInv, DatedInv, MarksUpTo
    <3>3. PICK p \in 1 .. m : /\ j = n + p /\ history'[j].at = now
                              /\ history'[j].hash = HashOf(lim.kept[p])
                              /\ history'[j].status = lim.kept[p].intent.status
      BY <1>4, <2>2, Zenon
    <3>4. now - seen[h] >= DedupeTtlNs
      BY <1>5, <3>1, <3>2, <3>3 DEF Opportunity
    <3> HIDE DEF h
    <3> QED BY <1>3, <3>1, <3>2, <3>3, <3>4
  <2>3. CASE i \notin DOMAIN history /\ j \notin DOMAIN history
    <3>1. PICK p \in 1 .. m : /\ i = n + p /\ history'[i].at = now
                              /\ history'[i].hash = HashOf(lim.kept[p])
                              /\ history'[i].status = lim.kept[p].intent.status
      BY <1>4, <2>3, Zenon
    <3>2. PICK q \in 1 .. m : /\ j = n + q /\ history'[j].at = now
                              /\ history'[j].hash = HashOf(lim.kept[q])
                              /\ history'[j].status = lim.kept[q].intent.status
      BY <1>4, <2>3, Zenon
    <3>3. p # q /\ p \in DOMAIN lim.kept /\ q \in DOMAIN lim.kept
      BY <1>2, <3>1, <3>2
    <3>4. DedupeTtlNs = 0
      BY <3>1, <3>2, <3>3 DEF LimitSound, Opportunity
    <3> QED BY <1>3, <3>1, <3>2, <3>4
  <2>4. CASE i \notin DOMAIN history /\ j \in DOMAIN history
    <3>1. PICK p \in 1 .. m : i = n + p
      BY <1>4, <2>4, Zenon
    <3>2. FALSE
      BY <1>2, <2>4, <3>1
    <3> QED BY <3>2
  <2> QED BY <2>1, <2>2, <2>3, <2>4, Zenon
<1> QED BY <1>6, <1>7, <1>8, Zenon

\* What a second has shown after a scan: what it had shown, and if it is the scan's own second,
\* what the limiter let through.
LEMMA ShownGrows ==
  ASSUME NEW list, NEW kept, NEW after, Offered(list, kept, after), NEW s
  PROVE  /\ Cardinality(ShownIn(list, s)) \in Nat
         /\ Cardinality(ShownIn(after, s))
              = Cardinality(ShownIn(list, s)) + (IF s = Second(now) THEN Len(kept) ELSE 0)
<1> DEFINE n == Len(list)
           m == Len(kept)
           new == (n + 1) .. (n + m)
           old == ShownIn(list, s)
<1>1. n \in Nat /\ m \in Nat /\ DOMAIN list = 1 .. n
  BY Zenon DEF Offered
<1>2. \A i \in 1 .. n : i \in DOMAIN after /\ after[i] = list[i]
  BY <1>1, Zenon DEF Offered
<1>3. \A j \in 1 .. m : /\ n + j \in DOMAIN after
                        /\ after[n + j].at = now /\ after[n + j].shown = TRUE
  <2>1. \A j \in 1 .. m : n + j \in DOMAIN after /\ IsOffer(after[n + j], kept[j])
    BY Zenon DEF Offered
  <2> QED BY <2>1, Zenon DEF IsOffer
<1>4. \A i \in DOMAIN after : \/ i \in 1 .. n
                              \/ \E j \in 1 .. m : i = n + j
                              \/ after[i].shown = FALSE
  BY <1>1, Zenon DEF Offered
<1> HIDE DEF n, m
<1>5. \A i \in new : /\ i \in DOMAIN after /\ after[i].at = now /\ after[i].shown = TRUE
  <2> TAKE i \in new
  <2>1. i - n \in 1 .. m /\ n + (i - n) = i
    BY <1>1
  <2> QED BY <1>3, <2>1, Zenon
<1>6. \A i \in DOMAIN after : i \in 1 .. n \/ i \in new \/ after[i].shown = FALSE
  <2> TAKE i \in DOMAIN after
  <2>1. ASSUME NEW j \in 1 .. m, i = n + j PROVE i \in new
    BY <1>1, <2>1
  <2> QED BY <1>4, <2>1
<1>7. IsFiniteSet(old) /\ Cardinality(old) \in Nat
  <2>1. old \in SUBSET (1 .. n)
    BY <1>1, Zenon DEF ShownIn
  <2>2. IsFiniteSet(1 .. n)
    BY <1>1, FS_Interval
  <2>3. IsFiniteSet(old)
    BY <2>1, <2>2, FS_Subset, Zenon
  <2> QED BY <2>3, FS_CardinalityType
<1>8. CASE s = Second(now)
  <2>1. ShownIn(after, s) = old \cup new
    BY <1>1, <1>2, <1>5, <1>6, <1>8, Zenon DEF ShownIn
  <2>2. old \cap new = {}
    BY <1>1 DEF ShownIn
  <2>3. IsFiniteSet(new) /\ Cardinality(new) = m
    <3>1. n + 1 \in Int /\ n + m \in Int
      BY <1>1
    <3>2. /\ IsFiniteSet(new)
          /\ Cardinality(new) = IF n + 1 > n + m THEN 0 ELSE (n + m) - (n + 1) + 1
      BY <3>1, FS_Interval, Zenon
    <3>3. (IF n + 1 > n + m THEN 0 ELSE (n + m) - (n + 1) + 1) = m
      BY <1>1
    <3> QED BY <3>2, <3>3
  <2> HIDE DEF old, new
  <2>4. Cardinality(old \cup new) = Cardinality(old) + Cardinality(new) - Cardinality(old \cap new)
    BY <1>7, <2>3, FS_Union, Zenon
  <2>5. Cardinality(old \cap new) = 0
    BY <2>2, FS_EmptySet, Zenon
  <2>6. Cardinality(ShownIn(after, s)) = Cardinality(old) + m
    BY <1>1, <1>7, <2>1, <2>3, <2>4, <2>5
  <2> QED BY <1>7, <1>8, <2>6 DEF old, m
<1>9. CASE s # Second(now)
  <2>1. ShownIn(after, s) = old
    BY <1>1, <1>2, <1>5, <1>6, <1>9, Zenon DEF ShownIn
  <2> HIDE DEF old
  <2>2. Cardinality(ShownIn(after, s)) = Cardinality(old) + 0
    BY <1>7, <2>1
  <2> QED BY <1>7, <1>9, <2>2, Zenon DEF old
<1> QED BY <1>8, <1>9, Zenon

\* The window in force counts what its second has shown, and a second that has no window yet has
\* shown nothing.
LEMMA OpenedCounts ==
  ASSUME DatedInv, WindowInv
  PROVE  /\ Opened.emitted \in Nat
         /\ Cardinality(ShownIn(history, Second(now))) = Opened.emitted
         /\ Opened.emitted <= setup.config.max_intents_per_second
         /\ Opened = [has |-> TRUE, second |-> now \div SecondNs, emitted |-> Opened.emitted]
<1>1. /\ Opened = [has |-> TRUE, second |-> now \div SecondNs, emitted |-> Opened.emitted]
      /\ Opened.emitted \in Nat
      /\ Opened.emitted = IF window.has /\ window.second = Second(now) THEN window.emitted ELSE 0
  <2>1. /\ window = [has |-> window.has, second |-> window.second, emitted |-> window.emitted]
        /\ window.has \in BOOLEAN
        /\ window.has => window.emitted \in Nat
    BY Zenon DEF WindowInv
  <2>2. DOMAIN window = {"has", "second", "emitted"}
    BY <2>1, Zenon
  <2> QED BY <2>1, <2>2, OpenedWindow, Zenon DEF Second
<1>2. CASE window.has /\ window.second = Second(now)
  BY <1>1, <1>2, Zenon DEF WindowInv
<1>3. CASE ~ (window.has /\ window.second = Second(now))
  <2>1. ASSUME NEW i \in DOMAIN history, history[i].shown, Second(history[i].at) = Second(now)
        PROVE  FALSE
    <3>1. window.has /\ Second(history[i].at) <= window.second
      BY <2>1, Zenon DEF WindowInv
    <3>2. window.second \in Nat /\ window.second <= Second(now)
      BY <3>1, Zenon DEF WindowInv
    <3>3. Second(now) \in Nat
      BY SecondsGrow, Zenon DEF DatedInv
    <3> QED BY <1>3, <2>1, <3>1, <3>2, <3>3
  <2>2. ShownIn(history, Second(now)) = {}
    BY <2>1, Zenon DEF ShownIn
  <2>3. Cardinality(ShownIn(history, Second(now))) = 0
    BY <2>2, FS_EmptySet, Zenon
  <2>4. setup.config.max_intents_per_second \in Nat
    BY SignalAssumption, Zenon DEF DatedInv
  <2> QED BY <1>1, <1>3, <2>3, <2>4
<1> QED BY <1>2, <1>3, <1>1, Zenon

\* A scan leaves the window counting what its second has shown.
LEMMA ScanKeepsWindow ==
  ASSUME DatedInv, WindowInv, NEW lim, NEW candidates, NEW k,
         LimitSound(lim, candidates, setup.config, k),
         window' = lim.window, setup' = setup, now' = now,
         Offered(history, lim.kept, history')
  PROVE  WindowInv'
<1> DEFINE max == setup.config.max_intents_per_second
           m == Len(lim.kept)
           c(s) == Cardinality(ShownIn(history, s))
<1>1. max \in Nat /\ m \in Nat /\ now \in Nat /\ Second(now) \in Nat
  BY SignalAssumption, SecondsGrow, Zenon DEF DatedInv, Offered
<1>2. \A s : c(s) \in Nat /\ Cardinality(ShownIn(history', s)) = c(s) + (IF s = Second(now) THEN m ELSE 0)
  BY ShownGrows, Zenon
<1>3. \A i \in DOMAIN history' :
        \/ i \in DOMAIN history /\ history'[i] = history[i]
        \/ m > 0 /\ history'[i].at = now
        \/ history'[i].shown = FALSE
  <2> TAKE i \in DOMAIN history'
  <2>1. CASE i \in DOMAIN history
    BY <2>1 DEF Offered
  <2>2. ASSUME NEW j \in 1 .. m, i = Len(history) + j PROVE m > 0 /\ history'[i].at = now
    <3>1. IsOffer(history'[Len(history) + j], lim.kept[j])
      BY Zenon DEF Offered
    <3>2. history'[Len(history) + j].at = now
      BY <3>1, Zenon DEF IsOffer
    <3> QED BY <1>1, <2>2, <3>2
  <2> QED BY <2>1, <2>2, Zenon DEF Offered
<1>4. /\ Opened.emitted \in Nat
      /\ c(Second(now)) = Opened.emitted
      /\ Opened.emitted <= max
  BY OpenedCounts, Zenon
<1>5. \A s \in Nat : c(s) <= max
  BY Zenon DEF WindowInv
<1>6. \A i \in DOMAIN history : history[i].shown => window.has /\ Second(history[i].at) <= window.second
  BY Zenon DEF WindowInv
<1>7. window.has => window.second \in Nat /\ window.second <= Second(now)
  BY Zenon DEF WindowInv
<1>8. \A i \in DOMAIN history : Second(history[i].at) \in Nat
  BY SecondsGrow, Zenon DEF DatedInv
<1>9. \/ window' = window /\ m = 0
      \/ /\ window' = [has |-> TRUE, second |-> Second(now), emitted |-> Opened.emitted + m]
         /\ Opened.emitted + m <= max
  BY Zenon DEF LimitSound, Second
<1>10. WindowInv
  BY Zenon
<1> HIDE DEF max, m, c
<1>11. CASE window' = window /\ m = 0
  <2>1. \A s : Cardinality(ShownIn(history', s)) = c(s)
    BY <1>2, <1>11
  <2>2. \A i \in DOMAIN history' :
          history'[i].shown => window'.has /\ Second(history'[i].at) <= window'.second
    BY <1>3, <1>6, <1>11
  <2>3. \A s \in Nat : Cardinality(ShownIn(history', s)) <= setup'.config.max_intents_per_second
    BY <1>5, <2>1, Zenon DEF max
  <2>4. /\ window' = [has |-> window'.has, second |-> window'.second, emitted |-> window'.emitted]
        /\ window'.has \in BOOLEAN
    BY <1>10, <1>11, Zenon DEF WindowInv
  <2>5. window'.has =>
          /\ window'.second \in Nat /\ window'.second <= Second(now)
          /\ window'.emitted \in Nat /\ window'.emitted <= setup'.config.max_intents_per_second
          /\ Cardinality(ShownIn(history', window'.second)) = window'.emitted
    BY <1>10, <1>11, <2>1, Zenon DEF WindowInv, c
  <2>6. Second(now)' = Second(now)
    BY Zenon DEF Second
  <2> QED BY <2>2, <2>3, <2>4, <2>5, <2>6, Zenon DEF WindowInv, ShownIn, Second
<1>12. CASE /\ window' = [has |-> TRUE, second |-> Second(now), emitted |-> Opened.emitted + m]
            /\ Opened.emitted + m <= max
  <2>1. /\ window'.has = TRUE /\ window'.second = Second(now) /\ window'.emitted = Opened.emitted + m
        /\ window' = [has |-> window'.has, second |-> window'.second, emitted |-> window'.emitted]
    BY <1>12
  <2>2. Cardinality(ShownIn(history', Second(now))) = Opened.emitted + m
    BY <1>2, <1>4, Zenon
  <2>3. ASSUME NEW s \in Nat PROVE Cardinality(ShownIn(history', s)) <= max
    <3>1. CASE s = Second(now)
      BY <1>12, <2>2, <3>1, Zenon
    <3>2. CASE s # Second(now)
      <4>1. Cardinality(ShownIn(history', s)) = c(s) + 0 /\ c(s) \in Nat
        BY <1>2, <3>2, Zenon
      <4> QED BY <1>5, <4>1
    <3> QED BY <3>1, <3>2, Zenon
  <2>4. ASSUME NEW i \in DOMAIN history', history'[i].shown
        PROVE  Second(history'[i].at) <= Second(now)
    <3>1. CASE i \in DOMAIN history /\ history'[i] = history[i]
      <4>1. window.has /\ Second(history[i].at) <= window.second
        BY <1>6, <2>4, <3>1, Zenon
      <4>2. Second(history[i].at) \in Nat /\ window.second \in Nat /\ window.second <= Second(now)
        BY <1>7, <1>8, <3>1, <4>1, Zenon
      <4>3. Second(history[i].at) <= Second(now)
        BY <1>1, <4>1, <4>2
      <4> QED BY <3>1, <4>3, Zenon
    <3>2. CASE history'[i].at = now
      BY <1>1, <3>2
    <3> QED BY <1>3, <2>4, <3>1, <3>2, Zenon
  <2>5. Opened.emitted + m \in Nat
    BY <1>1, <1>4
  <2>6. window'.second \in Nat /\ window'.second <= Second(now)
    BY <1>1, <2>1
  <2>7. /\ window'.emitted \in Nat /\ window'.emitted <= setup'.config.max_intents_per_second
        /\ Cardinality(ShownIn(history', window'.second)) = window'.emitted
    BY <1>12, <2>1, <2>2, <2>5, Zenon DEF max
  <2>8. \A i \in DOMAIN history' :
          history'[i].shown => window'.has /\ Second(history'[i].at) <= window'.second
    BY <2>1, <2>4, Zenon
  <2>9. \A s \in Nat : Cardinality(ShownIn(history', s)) <= setup'.config.max_intents_per_second
    BY <2>3, Zenon DEF max
  <2>10. Second(now)' = Second(now)
    BY DEF Second
  <2> QED BY <2>1, <2>6, <2>7, <2>8, <2>9, <2>10, Zenon DEF WindowInv, ShownIn, Second
<1> QED BY <1>9, <1>11, <1>12, Zenon

-----------------------------------------------------------------------------
(* The theorems.                                                            *)

SignalInv == DatedInv /\ MarkedInv /\ WindowInv /\ NoRepeatWithinTtl

LEMMA SignalInitHolds == SignalInit => SignalInv
<1> SUFFICES ASSUME SignalInit PROVE SignalInv
  BY Zenon
<1>1. /\ setup \in Setups /\ now = 1 /\ seen = [h \in {} |-> 0] /\ history = << >>
      /\ window = [has |-> FALSE, second |-> 0, emitted |-> 0]
  BY Zenon DEF SignalInit
<1>2. DOMAIN history = {} /\ IsList(history) /\ DOMAIN seen = {}
  BY <1>1, ListEmpty
<1>3. DatedInv
  BY <1>1, <1>2, Zenon DEF DatedInv, MarksUpTo
<1>4. MarkedInv /\ NoRepeatWithinTtl
  BY <1>2, Zenon DEF MarkedInv, NoRepeatWithinTtl
<1>5. WindowInv
  <2>1. ASSUME NEW s \in Nat
        PROVE  Cardinality(ShownIn(history, s)) <= setup.config.max_intents_per_second
    <3>1. ShownIn(history, s) = {}
      BY <1>2, Zenon DEF ShownIn
    <3>2. Cardinality(ShownIn(history, s)) = 0
      BY <3>1, FS_EmptySet, Zenon
    <3>3. setup.config.max_intents_per_second \in Nat
      BY <1>1, SignalAssumption, Zenon
    <3> QED BY <3>2, <3>3
  <2>2. /\ window = [has |-> window.has, second |-> window.second, emitted |-> window.emitted]
        /\ window.has = FALSE
    BY <1>1, Zenon
  <2> QED BY <1>2, <2>1, <2>2, Zenon DEF WindowInv
<1> QED BY <1>3, <1>4, <1>5, Zenon DEF SignalInv

\* What a scan does to the invariant: the candidates it ranks are a list, the deduper and the
\* limiter treat them soundly, and what they let through is appended to what was offered.
LEMMA ScanKeeps ==
  ASSUME SignalInv, Scan
  PROVE  SignalInv'
<1> DEFINE scanned == ScanBundles(setup.mode, setup.config)
           ranked  == Ranked(Completed(scanned.candidates, setup.config))
           ded     == Deduped(ranked)
           lim     == Limited(ded.kept, setup.config)
<1>1. /\ seen' = ded.marks /\ window' = lim.window
      /\ history' = history \o Offers(lim.kept, TRUE) \o Offers(lim.late, FALSE)
      /\ setup' = setup /\ now' = now
  BY Zenon DEF Scan
<1>2. DatedInv /\ MarkedInv /\ WindowInv /\ NoRepeatWithinTtl
  BY DEF SignalInv
<1>3. IsList(ranked)
  <2>1. IsList(scanned.candidates)
    BY ScannedList, Zenon
  <2> HIDE DEF scanned
  <2> QED BY <2>1, RankedList, Zenon
<1> HIDE DEF ranked
<1>4. DedupeSound(ded, seen)
  <2>1. now \in Nat /\ MarksUpTo(seen, now)
    BY <1>2, Zenon DEF DatedInv
  <2> QED BY <1>3, <2>1, DedupedSound, Zenon
<1> HIDE DEF ded
<1>5. IsList(ded.kept)
  BY <1>4, Zenon DEF DedupeSound
<1>6. setup.config.max_intents_per_second \in Nat
  BY <1>2, SignalAssumption, Zenon DEF DatedInv
<1>7. LimitSound(lim, ded.kept, setup.config, Len(ded.kept))
  <2>1. /\ Opened.emitted \in Nat /\ Opened.emitted <= setup.config.max_intents_per_second
        /\ Opened = [has |-> TRUE, second |-> now \div SecondNs, emitted |-> Opened.emitted]
    BY <1>2, OpenedCounts, Zenon
  <2>2. setup.deduped =>
          \A i, j \in DOMAIN ded.kept :
            i # j /\ Opportunity(ded.kept[i]) /\ Opportunity(ded.kept[j])
            /\ HashOf(ded.kept[i]) = HashOf(ded.kept[j]) => DedupeTtlNs = 0
    BY <1>4, Zenon DEF DedupeSound
  <2> QED BY <1>5, <1>6, <2>1, <2>2, LimitedSound, Zenon
<1> HIDE DEF lim
<1>8. Offered(history, lim.kept, history')
  <2>1. IsList(history) /\ IsList(lim.kept) /\ IsList(lim.late)
    BY <1>2, <1>7 DEF DatedInv, LimitSound
  <2> QED BY <1>1, <2>1, OffersAppended, Zenon
<1>9. seen' = ded.marks /\ window' = lim.window /\ setup' = setup /\ now' = now
  BY <1>1, Zenon
<1>10. DatedInv' /\ MarkedInv' /\ NoRepeatWithinTtl'
  BY <1>2, <1>4, <1>5, <1>7, <1>8, <1>9, ScanKeepsMarks, Zenon
<1>11. WindowInv'
  BY <1>2, <1>7, <1>8, <1>9, ScanKeepsWindow, Zenon
<1> QED BY <1>10, <1>11, Zenon DEF SignalInv

\* Time passes: marks and offers stay in the past, and no window is ahead of the clock.
LEMMA TickKeeps ==
  ASSUME SignalInv, Tick
  PROVE  SignalInv'
<1>1. /\ now' = now + 1 /\ setup' = setup /\ seen' = seen /\ window' = window /\ history' = history
  BY Zenon DEF Tick
<1>2. now \in Nat
  BY Zenon DEF SignalInv, DatedInv
<1>3. DatedInv'
  BY <1>1, <1>2 DEF SignalInv, DatedInv, MarksUpTo
<1>4. MarkedInv' /\ NoRepeatWithinTtl'
  BY <1>1, Zenon DEF SignalInv, MarkedInv, NoRepeatWithinTtl
<1>5. WindowInv'
  <2>1. Second(now) \in Nat /\ Second(now) <= Second(now + 1) /\ Second(now + 1) \in Nat
    BY <1>2, SecondsGrow
  <2>2. WindowInv
    BY Zenon DEF SignalInv
  <2>3. window.has => window.second \in Nat /\ window.second <= Second(now)'
    <3>1. window.has => window.second \in Nat /\ window.second <= Second(now)
      BY <2>2, Zenon DEF WindowInv
    <3>2. Second(now)' = Second(now + 1)
      BY <1>1, Zenon DEF Second
    <3> QED BY <2>1, <3>1, <3>2
  <2> QED BY <1>1, <2>2, <2>3, Zenon DEF WindowInv, ShownIn, Second
<1> QED BY <1>3, <1>4, <1>5, Zenon DEF SignalInv

LEMMA SignalStep ==
  ASSUME SignalInv, [SignalNext]_vars
  PROVE  SignalInv'
<1>1. CASE Scan
  BY <1>1, ScanKeeps, Zenon
<1>2. CASE Tick
  BY <1>2, TickKeeps, Zenon
<1>3. CASE UNCHANGED <<setup, now, seen, window, history>>
  BY <1>3, Zenon DEF SignalInv, DatedInv, MarkedInv, WindowInv, NoRepeatWithinTtl, MarksUpTo, ShownIn, Second
<1>4. CASE \E asset \in Assets, asks \in AskSides, condition \in Conditions :
             PublishBook(asset, asks, condition)
  BY <1>3, <1>4, Zenon DEF PublishBook
<1>5. CASE \E market \in Markets, outcome \in BOOLEAN : Resolve(market, outcome)
  BY <1>3, <1>5, Zenon DEF Resolve
<1>6. CASE UNCHANGED vars
  BY <1>3, <1>6, Zenon DEF vars
<1> QED BY <1>1, <1>2, <1>4, <1>5, <1>6, Zenon DEF SignalNext

LEMMA SignalInvariant == SignalSpec => []SignalInv
BY SignalInitHolds, SignalStep, PTL DEF SignalSpec

\* However the books move and however often they are scanned, an opportunity that was shown is
\* not shown again before the deduper's time to live has passed: the marks of a scan, taken in the
\* order of its ranking, are enough, although the limiter behind them may hold a marked intent back
\* (IntentDeduper, SignalEngine::scan_once).
THEOREM NoRepeats == SignalSpec => []NoRepeatWithinTtl
<1>1. SignalInv => NoRepeatWithinTtl
  BY Zenon DEF SignalInv
<1> QED BY <1>1, SignalInvariant, PTL

\* No second of the clock shows more intents than the limiter's share, over all scans that fall
\* into it (IntentRateLimiter::allow).
THEOREM RateBounded == SignalSpec => []RateIsBounded
<1>1. SignalInv => RateIsBounded
  <2> SUFFICES ASSUME SignalInv, NEW s \in 0 .. MaxNow \div SecondNs
               PROVE  Cardinality({i \in DOMAIN history :
                                     history[i].shown /\ history[i].at \div SecondNs = s})
                        <= setup.config.max_intents_per_second
    BY Zenon DEF RateIsBounded
  <2>1. Second(MaxNow) \in Nat
    BY SignalAssumption, SecondsGrow, Zenon
  <2>2. s \in Nat
    BY <2>1 DEF Second
  <2>3. Cardinality(ShownIn(history, s)) <= setup.config.max_intents_per_second
    BY <2>2 DEF SignalInv, WindowInv
  <2> QED BY <2>3, Zenon DEF ShownIn, Second
<1> QED BY <1>1, SignalInvariant, PTL

=============================================================================
