------------------------ MODULE HostExtensionsProofs ------------------------
(***************************************************************************)
(* Proofs about HostExtensions: the cap goes by rank, whatever the number  *)
(* of extensions, weights and edits, and no list longer than the cap is    *)
(* ever written to an internal host.                                       *)
(***************************************************************************)
EXTENDS HostExtensions, FiniteSetTheorems, FunctionTheorems, SequenceTheorems,
        TLAPS

USE ExtensionsAssumption

-----------------------------------------------------------------------------
(* Sorting by a strict total order *)

\* Extensions with weights, to be sorted.
Sortable(exts, S) ==
  /\ S \subseteq Names /\ IsFiniteSet(S)
  /\ \A n \in S : exts[n].spec.weight \in Int

\* How many of S come before n.
Rank(exts, S, n) == Cardinality({m \in S : Precedes(exts, m, n)})

IsSorted(exts, S, s) ==
  /\ s \in [1..Cardinality(S) -> S]
  /\ \A i, j \in DOMAIN s : i < j => Precedes(exts, s[i], s[j])

\* By weight and then by name is a strict total order.
LEMMA PrecedesOrder ==
  ASSUME NEW exts, NEW S, Sortable(exts, S)
  PROVE  /\ \A n \in S : ~Precedes(exts, n, n)
         /\ \A m, n \in S : m = n \/ Precedes(exts, m, n) \/ Precedes(exts, n, m)
         /\ \A k, m, n \in S : Precedes(exts, k, m) /\ Precedes(exts, m, n)
                                 => Precedes(exts, k, n)
<1>1. \A n \in S : n \in Nat /\ exts[n].spec.weight \in Int
  BY DEF Sortable
<1> QED BY <1>1 DEF Precedes

\* Ranks are below the number of extensions and follow the order.
LEMMA RanksOrdered ==
  ASSUME NEW exts, NEW S, Sortable(exts, S)
  PROVE  /\ Cardinality(S) \in Nat
         /\ \A n \in S : Rank(exts, S, n) \in 0..(Cardinality(S) - 1)
         /\ \A m, n \in S : Precedes(exts, m, n)
                              => Rank(exts, S, m) < Rank(exts, S, n)
<1> DEFINE Below(n) == {m \in S : Precedes(exts, m, n)}
<1>1. IsFiniteSet(S)
  BY DEF Sortable
<1>2. Cardinality(S) \in Nat
  BY <1>1, FS_CardinalityType
<1>3. ASSUME NEW T \in SUBSET S, NEW U \in SUBSET T, U # T
      PROVE  /\ Cardinality(U) \in Nat /\ Cardinality(T) \in Nat
             /\ Cardinality(U) < Cardinality(T)
  <2>1. IsFiniteSet(T)
    BY <1>1, FS_Subset
  <2>2. IsFiniteSet(U) /\ Cardinality(U) <= Cardinality(T) /\ Cardinality(U) # Cardinality(T)
    BY <2>1, <1>3, FS_Subset
  <2>3. Cardinality(U) \in Nat /\ Cardinality(T) \in Nat
    BY <2>1, <2>2, FS_CardinalityType
  <2> QED BY <2>2, <2>3
<1>4. ASSUME NEW n \in S PROVE Rank(exts, S, n) \in 0..(Cardinality(S) - 1)
  <2>1. Below(n) \in SUBSET S /\ n \notin Below(n)
    BY PrecedesOrder
  <2>2. S \in SUBSET S /\ Below(n) # S
    BY <2>1
  <2>3. Cardinality(Below(n)) \in Nat /\ Cardinality(Below(n)) < Cardinality(S)
    BY <1>3, <2>1, <2>2
  <2> QED BY <1>2, <2>3 DEF Rank
<1>5. ASSUME NEW m \in S, NEW n \in S, Precedes(exts, m, n)
      PROVE  Rank(exts, S, m) < Rank(exts, S, n)
  <2>1. Below(n) \in SUBSET S /\ Below(m) \in SUBSET Below(n)
    BY <1>5, PrecedesOrder
  <2>2. m \in Below(n) /\ m \notin Below(m)
    BY <1>5, PrecedesOrder
  <2>3. Cardinality(Below(m)) < Cardinality(Below(n))
    BY <1>3, <2>1, <2>2
  <2> QED BY <2>3 DEF Rank
<1> QED BY <1>2, <1>4, <1>5

\* There is a sorted sequence: each place goes to the extension of its rank.
LEMMA SortedExists ==
  ASSUME NEW exts, NEW S, Sortable(exts, S)
  PROVE  \E s : IsSorted(exts, S, s)
<1> DEFINE K == Cardinality(S)
           f == [n \in S |-> Rank(exts, S, n) + 1]
           s == [i \in 1..K |-> CHOOSE n \in S : f[n] = i]
<1>0. K \in Nat /\ \A n \in S : Rank(exts, S, n) \in 0..(K - 1)
  BY RanksOrdered
<1>1. f \in [S -> 1..K]
  BY <1>0
<1>2. \A m, n \in S : f[m] = f[n] => m = n
  <2> SUFFICES ASSUME NEW m \in S, NEW n \in S, f[m] = f[n], m # n PROVE FALSE
    OBVIOUS
  <2>1. Precedes(exts, m, n) \/ Precedes(exts, n, m)
    BY PrecedesOrder
  <2>2. Rank(exts, S, m) < Rank(exts, S, n) \/ Rank(exts, S, n) < Rank(exts, S, m)
    BY <2>1, RanksOrdered
  <2>3. Rank(exts, S, m) = Rank(exts, S, n)
    BY <1>0
  <2> QED BY <1>0, <2>2, <2>3
<1>3. f \in Injection(S, 1..K)
  BY <1>1, <1>2, Fun_IsInj
<1>4. IsFiniteSet(1..K) /\ Cardinality(1..K) = K
  BY <1>0, FS_Interval
<1>5. f \in Surjection(S, 1..K)
  BY <1>3, <1>4, FS_Injection
<1>6. \A i \in 1..K : \E n \in S : f[n] = i
  BY <1>5 DEF Surjection
<1>7. \A i \in 1..K : s[i] \in S /\ f[s[i]] = i
  BY <1>6
<1>8. \A i \in 1..K : Rank(exts, S, s[i]) + 1 = i
  BY <1>7
<1>9. ASSUME NEW i \in 1..K, NEW j \in 1..K, i < j
      PROVE  Precedes(exts, s[i], s[j])
  <2> HIDE DEF s, f
  <2>1. s[i] # s[j]
    BY <1>8, <1>9
  <2>2. CASE Precedes(exts, s[j], s[i])
    <3>1. Rank(exts, S, s[j]) < Rank(exts, S, s[i])
      BY <1>7, <2>2, RanksOrdered
    <3>2. Rank(exts, S, s[i]) \in Int /\ Rank(exts, S, s[j]) \in Int
      BY <1>0, <1>7
    <3> QED BY <1>8, <1>9, <3>1, <3>2
  <2> QED BY <1>7, <2>1, <2>2, PrecedesOrder
<1>10. s \in [1..K -> S] /\ DOMAIN s = 1..K
  BY <1>7
<1> QED BY <1>9, <1>10 DEF IsSorted

\* In a sorted sequence every extension is at the place of its rank.
LEMMA SortedByRank ==
  ASSUME NEW exts, NEW S, Sortable(exts, S), NEW s, IsSorted(exts, S, s)
  PROVE  /\ \A n \in S : \E i \in 1..Cardinality(S) : s[i] = n
         /\ \A i \in 1..Cardinality(S) : Rank(exts, S, s[i]) = i - 1
<1> DEFINE K == Cardinality(S)
<1>0. /\ K \in Nat /\ s \in [1..K -> S]
      /\ \A i, j \in 1..K : i < j => Precedes(exts, s[i], s[j])
  BY RanksOrdered DEF IsSorted
<1>1. \A i, j \in 1..K : s[i] = s[j] => i = j
  <2> SUFFICES ASSUME NEW i \in 1..K, NEW j \in 1..K, s[i] = s[j], i # j
               PROVE  FALSE
    OBVIOUS
  <2>1. i < j \/ j < i
    BY <1>0
  <2>2. Precedes(exts, s[i], s[i])
    BY <1>0, <2>1
  <2> QED BY <1>0, <2>2, PrecedesOrder
<1>2. s \in Injection(1..K, S)
  BY <1>0, <1>1, Fun_IsInj
<1>3. IsFiniteSet(S) /\ Cardinality(1..K) = K
  BY <1>0, FS_Interval DEF Sortable
<1>4. s \in Surjection(1..K, S)
  BY <1>2, <1>3, FS_Injection
<1>5. \A n \in S : \E i \in 1..K : s[i] = n
  BY <1>4 DEF Surjection
<1>6. ASSUME NEW i \in 1..K PROVE Rank(exts, S, s[i]) = i - 1
  <2> DEFINE B == {m \in S : Precedes(exts, m, s[i])}
             g == [j \in 1..(i - 1) |-> s[j]]
  <2>1. g \in [1..(i - 1) -> B]
    BY <1>0
  <2>2. \A a, b \in 1..(i - 1) : g[a] = g[b] => a = b
    BY <1>0, <1>1
  <2>3. ASSUME NEW m \in B PROVE \E j \in 1..(i - 1) : g[j] = m
    <3>1. PICK j \in 1..K : s[j] = m
      BY <1>5
    <3>2. j < i
      <4>1. CASE j = i
        BY <1>0, <3>1, <4>1, PrecedesOrder
      <4>2. CASE i < j
        <5>1. Precedes(exts, s[i], m) /\ Precedes(exts, m, s[i]) /\ s[i] \in S
          BY <1>0, <3>1, <4>2
        <5> QED BY <5>1, PrecedesOrder
      <4> QED BY <1>0, <4>1, <4>2
    <3>3. j \in 1..(i - 1)
      BY <1>0, <3>2
    <3> QED BY <3>1, <3>3
  <2>4. g \in Bijection(1..(i - 1), B)
    <3> HIDE DEF g, B
    <3> QED BY <2>1, <2>2, <2>3, Fun_IsBij
  <2>5. ExistsBijection(1..(i - 1), B)
    <3> HIDE DEF g, B
    <3> QED BY <2>4 DEF ExistsBijection
  <2>6. i - 1 \in Nat
    BY <1>0
  <2>7. Cardinality(B) = i - 1
    <3> HIDE DEF B
    <3> QED BY <2>5, <2>6, FS_CountingElements
  <2> QED BY <2>7 DEF Rank
<1> QED BY <1>5, <1>6

-----------------------------------------------------------------------------
(* selectExtensions *)

Typed(exts) == exts \in [Names -> Extension \cup {None}]

Eligible(h, selector, exts) ==
  Matched(h, selector, exts) \ Invalid(h, selector, exts)

\* What is sorted can be sorted, and is.
LEMMA SortedIsSorted ==
  ASSUME NEW exts, Typed(exts), NEW h, NEW selector
  PROVE  LET S == Eligible(h, selector, exts)
         IN  Sortable(exts, S) /\ IsSorted(exts, S, Sorted(h, selector, exts))
<1> DEFINE S == Eligible(h, selector, exts)
<1>1. S \subseteq Names /\ \A n \in S : exts[n] \in Extension
  BY DEF Eligible, Matched, Typed
<1>2. \A n \in S : exts[n].spec.weight \in Int
  BY <1>1 DEF Extension
<1>3. IsFiniteSet(S)
  BY <1>1, FS_Subset
<1>4. Sortable(exts, S)
  BY <1>1, <1>2, <1>3 DEF Sortable
<1>5. PICK s : IsSorted(exts, S, s)
  <2> HIDE DEF S
  <2> QED BY <1>4, SortedExists
<1>6. s \in [1..Cardinality(S) -> S]
      /\ \A i, j \in DOMAIN s : i < j => Precedes(exts, s[i], s[j])
  BY <1>5 DEF IsSorted
<1>7. Sorted(h, selector, exts) =
        CHOOSE t \in [1..Cardinality(S) -> S] :
          \A i, j \in DOMAIN t : i < j => Precedes(exts, t[i], t[j])
  BY DEF Sorted, Eligible
<1>8. IsSorted(exts, S, Sorted(h, selector, exts))
  <2> HIDE DEF S
  <2> QED BY <1>6, <1>7 DEF IsSorted
<1> QED BY <1>4, <1>8

\* The list is cut after the cap, and the rest is the overflow.
LEMMA CutAtCap ==
  ASSUME NEW exts, Typed(exts), NEW h, NEW selector
  PROVE  LET S == Eligible(h, selector, exts)
             s == Sorted(h, selector, exts)
             K == Cardinality(S)
         IN  /\ Applied(h, selector, exts) \in Seq(S)
             /\ Len(Applied(h, selector, exts)) <= Cap
             /\ Range(Applied(h, selector, exts)) = {s[i] : i \in {j \in 1..K : j <= Cap}}
             /\ Range(Overflow(h, selector, exts)) = {s[i] : i \in {j \in 1..K : j > Cap}}
<1> DEFINE S == Eligible(h, selector, exts)
           s == Sorted(h, selector, exts)
           K == Cardinality(S)
           n == IF K > Cap THEN Cap ELSE K
<1>1. K \in Nat /\ s \in [1..K -> S]
  BY SortedIsSorted, RanksOrdered DEF IsSorted
<1>2. Cap \in Nat
  OBVIOUS
<1>3. Applied(h, selector, exts) = SubSeq(s, 1, IF Len(s) > Cap THEN Cap ELSE Len(s))
      /\ Overflow(h, selector, exts) = SubSeq(s, Cap + 1, Len(s))
  BY DEF Applied, Overflow
<1> HIDE DEF S, s, K
<1>4. s \in Seq(S) /\ Len(s) = K
  BY <1>1
<1>5. n \in Nat /\ n <= K /\ n <= Cap
  BY <1>1, <1>2
<1>6. /\ SubSeq(s, 1, n) \in Seq(S) /\ Len(SubSeq(s, 1, n)) = n
      /\ \A i \in 1..n : SubSeq(s, 1, n)[i] = s[i]
  BY <1>1, <1>4, <1>5, SubSeqProperties
<1>7. /\ SubSeq(s, 1, n) \in Seq(S) /\ Len(SubSeq(s, 1, n)) <= Cap
      /\ Range(SubSeq(s, 1, n)) = {s[i] : i \in {j \in 1..K : j <= Cap}}
  <2>1. DOMAIN SubSeq(s, 1, n) = 1..n
    BY <1>6
  <2>2. Range(SubSeq(s, 1, n)) = {s[i] : i \in 1..n}
    BY <1>6, <2>1 DEF Range
  <2>3. 1..n = {j \in 1..K : j <= Cap}
    BY <1>1, <1>2
  <2> HIDE DEF n
  <2> QED BY <1>5, <1>6, <2>2, <2>3
<1>8. Range(SubSeq(s, Cap + 1, K)) = {s[i] : i \in {j \in 1..K : j > Cap}}
  <2> DEFINE t == SubSeq(s, Cap + 1, K)
  <2>1. CASE Cap >= K
    <3>1. t = << >>
      BY <1>1, <1>2, <2>1
    <3>2. {j \in 1..K : j > Cap} = {}
      BY <1>1, <1>2, <2>1
    <3>3. Range(<< >>) = {}
      BY DEF Range
    <3> QED BY <3>1, <3>2, <3>3
  <2>2. CASE Cap < K
    <3>1. /\ t \in Seq(S) /\ Len(t) = K - Cap
          /\ \A i \in 1..(K - Cap) : t[i] = s[Cap + i]
      BY <1>1, <1>2, <1>4, <2>2, SubSeqProperties
    <3>2. DOMAIN t = 1..(K - Cap)
      BY <3>1
    <3> HIDE DEF t
    <3>3. ASSUME NEW i \in 1..(K - Cap)
          PROVE  t[i] \in {s[k] : k \in {j \in 1..K : j > Cap}}
      <4>1. Cap + i \in 1..K /\ Cap + i > Cap
        BY <1>1, <1>2
      <4> QED BY <3>1, <4>1
    <3>4. ASSUME NEW k \in 1..K, k > Cap
          PROVE  \E i \in 1..(K - Cap) : t[i] = s[k]
      <4>1. k - Cap \in 1..(K - Cap) /\ Cap + (k - Cap) = k
        BY <1>1, <1>2, <3>4
      <4> QED BY <3>1, <4>1
    <3>5. Range(t) = {t[i] : i \in 1..(K - Cap)}
      BY <3>2 DEF Range
    <3>6. {t[i] : i \in 1..(K - Cap)} = {s[k] : k \in {j \in 1..K : j > Cap}}
      BY <3>3, <3>4
    <3> QED BY <3>5, <3>6 DEF t
  <2> QED BY <1>1, <1>2, <2>1, <2>2
<1>9. /\ Applied(h, selector, exts) = SubSeq(s, 1, n)
      /\ Overflow(h, selector, exts) = SubSeq(s, Cap + 1, K)
  BY <1>3, <1>4
<1> HIDE DEF n
<1> QED BY <1>7, <1>8, <1>9 DEF S, s, K

\* Applied are the extensions whose rank is below the cap, overflowing the others.
LEMMA CapGoesByRank ==
  ASSUME NEW exts, Typed(exts), NEW h, NEW selector
  PROVE  LET S == Eligible(h, selector, exts)
         IN  /\ Range(Applied(h, selector, exts)) = {n \in S : Rank(exts, S, n) < Cap}
             /\ Range(Overflow(h, selector, exts)) = {n \in S : Rank(exts, S, n) >= Cap}
<1> DEFINE S == Eligible(h, selector, exts)
           s == Sorted(h, selector, exts)
           K == Cardinality(S)
<1>1. Sortable(exts, S) /\ IsSorted(exts, S, s)
  BY SortedIsSorted
<1>2. /\ Range(Applied(h, selector, exts)) = {s[i] : i \in {j \in 1..K : j <= Cap}}
      /\ Range(Overflow(h, selector, exts)) = {s[i] : i \in {j \in 1..K : j > Cap}}
  BY CutAtCap
<1> HIDE DEF S, s
<1>3. K \in Nat /\ Cap \in Nat /\ \A i \in 1..K : s[i] \in S
  BY <1>1, RanksOrdered DEF IsSorted
<1>4. /\ \A n \in S : \E i \in 1..K : s[i] = n
      /\ \A i \in 1..K : Rank(exts, S, s[i]) = i - 1
  BY <1>1, SortedByRank
<1>5. ASSUME NEW i \in 1..K
      PROVE  /\ i <= Cap <=> Rank(exts, S, s[i]) < Cap
             /\ i > Cap <=> Rank(exts, S, s[i]) >= Cap
  BY <1>3, <1>4
<1> HIDE DEF K
<1>6. {s[i] : i \in {j \in 1..K : j <= Cap}} = {n \in S : Rank(exts, S, n) < Cap}
  BY <1>3, <1>4, <1>5
<1>7. {s[i] : i \in {j \in 1..K : j > Cap}} = {n \in S : Rank(exts, S, n) >= Cap}
  BY <1>3, <1>4, <1>5
<1> QED BY <1>2, <1>6, <1>7 DEF S, s

\* What is written to an internal host passes the validation of its list.
LEMMA SnapshotEntries ==
  ASSUME NEW exts, Typed(exts), NEW h, NEW selector
  PROVE  Entries(Snapshot(h, selector, exts))
<1> DEFINE S == Eligible(h, selector, exts)
           a == Applied(h, selector, exts)
           Entry(n) == [name |-> n, spec |-> exts[n].spec,
                        generation |-> exts[n].generation]
<1>1. a \in Seq(S) /\ Len(a) <= Cap
  BY CutAtCap
<1>2. \A n \in S : n \in Names /\ exts[n] \in Extension
  BY DEF Eligible, Matched, Typed
<1>3. \A n \in S : Entry(n) \in
        [name: Names, spec: Specs, generation: 1..(MaxEdits + 1)]
  BY <1>2 DEF Extension
<1>4. Snapshot(h, selector, exts) = [i \in DOMAIN a |-> Entry(a[i])]
  BY DEF Snapshot
<1> HIDE DEF S, a, Entry
<1>5. DOMAIN a = 1..Len(a) /\ Len(a) \in Nat /\ \A i \in DOMAIN a : a[i] \in S
  BY <1>1
<1> DEFINE E == [i \in DOMAIN a |-> Entry(a[i])]
<1>6. E \in Seq([name: Names, spec: Specs, generation: 1..(MaxEdits + 1)])
      /\ Len(E) = Len(a)
  BY <1>3, <1>5
<1>7. Range(E) \subseteq [name: Names, spec: Specs, generation: 1..(MaxEdits + 1)]
  BY <1>3, <1>5 DEF Range
<1> QED BY <1>1, <1>4, <1>6, <1>7 DEF Entries

-----------------------------------------------------------------------------
(* The inductive invariant *)

\* Every edit moves a generation by one at most.
ExtensionsInv ==
  /\ TypeOK
  /\ \A n \in Names : ext[n] # None => ext[n].generation <= edits + 1

LEMMA ReasonType ==
  ASSUME NEW n, NEW hosts, NEW exts PROVE Reason(n, hosts, exts) \in Reasons
BY DEF Reason, Reasons

LEMMA FreshType ==
  ASSUME NEW s \in Specs PROVE Fresh(s) \in Extension /\ Fresh(s).generation = 1
BY DEF Fresh, Extension, Condition, Reasons

\* One extension is replaced.
LEMMA ExtensionReplaced ==
  ASSUME ExtensionsInv, NEW n \in Names, NEW e \in Extension \cup {None},
         ext' = [ext EXCEPT ![n] = e], e # None => e.generation <= edits' + 1,
         edits' \in 0..MaxEdits, edits' >= edits
  PROVE  /\ ext' \in [Names -> Extension \cup {None}]
         /\ \A m \in Names : ext'[m] # None => ext'[m].generation <= edits' + 1
<1>1. ext \in [Names -> Extension \cup {None}] /\ edits \in 0..MaxEdits
  BY DEF ExtensionsInv, TypeOK
<1>2. \A m \in Names : ext[m] # None =>
        ext[m].generation \in Int /\ ext[m].generation <= edits + 1
  BY <1>1 DEF ExtensionsInv, Extension
<1>3. \A m \in Names : ext'[m] = IF m = n THEN e ELSE ext[m]
  BY <1>1
<1> QED BY <1>1, <1>2, <1>3

\* The queues of keys.
LEMMA QueueTypes ==
  ASSUME NEW old \in Extension \cup {None}, NEW new \in Extension \cup {None},
         NEW exts
  PROVE  /\ extensionHostRefRequests(old, new) \subseteq Hosts
         /\ extensionsForSibling(old, new, exts) \subseteq Names
<1>1. \A e \in {old, new} \ {None} : e.spec.host \in Hosts
  BY DEF Extension
<1> QED BY <1>1 DEF extensionHostRefRequests, extensionsForSibling, extensionsNaming

LEMMA UsersInv ==
  ASSUME ExtensionsInv, NEW n \in Names, ApplyExtension(n) \/ DeleteExtension(n)
  PROVE  ExtensionsInv'
<1>0. /\ ext \in [Names -> Extension \cup {None}]
      /\ edits \in 0..MaxEdits /\ edits < MaxEdits /\ edits' = edits + 1
      /\ ext[n] # None => ext[n] \in Extension /\ ext[n].generation <= edits + 1
      /\ UNCHANGED <<extCache, host, hostCache, controllers>>
  BY DEF ExtensionsInv, TypeOK, ApplyExtension, DeleteExtension, Edit
<1>1. edits' \in 0..MaxEdits /\ edits' >= edits
  BY <1>0
<1>2. \E e \in Extension \cup {None} :
        /\ ext' = [ext EXCEPT ![n] = e]
        /\ e # None => e.generation <= edits' + 1
  <2>1. CASE ApplyExtension(n)
    <3>1. PICK s \in Specs :
            IF ext[n] = None
            THEN ext' = [ext EXCEPT ![n] = Fresh(s)]
            ELSE ext' = [ext EXCEPT ![n].spec = s,
                   ![n].generation =
                     IF [s EXCEPT !.label = ext[n].spec.label] = ext[n].spec
                     THEN @ ELSE @ + 1]
      BY <2>1 DEF ApplyExtension
    <3>2. CASE ext[n] = None
      BY <1>0, <3>1, <3>2, FreshType
    <3>3. CASE ext[n] # None
      <4> DEFINE g == IF [s EXCEPT !.label = ext[n].spec.label] = ext[n].spec
                      THEN ext[n].generation ELSE ext[n].generation + 1
                 e == [ext[n] EXCEPT !.spec = s, !.generation = g]
      <4>1. ext[n].generation \in 1..(MaxEdits + 1)
        BY <1>0, <3>3 DEF Extension
      <4>2. g \in 1..(MaxEdits + 1) /\ g <= edits' + 1
        BY <1>0, <3>3, <4>1
      <4>3. ext' = [ext EXCEPT ![n] = e]
        BY <1>0, <3>1, <3>3
      <4> HIDE DEF g
      <4>4. e \in Extension /\ e.generation = g
        BY <1>0, <3>3, <4>2 DEF Extension
      <4> QED BY <4>2, <4>3, <4>4
    <3> QED BY <3>2, <3>3
  <2>2. CASE DeleteExtension(n)
    <3>1. CASE ext' = [ext EXCEPT ![n] = None]
      BY <3>1
    <3>2. CASE ext' = [ext EXCEPT ![n].deleting = TRUE]
      <4> DEFINE e == [ext[n] EXCEPT !.deleting = TRUE]
      <4>1. ext[n] \in Extension /\ ext[n].generation <= edits + 1
        BY <1>0, <2>2 DEF DeleteExtension
      <4>2. e \in Extension /\ e.generation = ext[n].generation
        BY <4>1 DEF Extension
      <4>3. ext[n].generation \in Int
        BY <4>1 DEF Extension
      <4>4. ext' = [ext EXCEPT ![n] = e]
        BY <1>0, <3>2
      <4>5. e.generation <= edits' + 1
        BY <1>0, <4>1, <4>2, <4>3
      <4> HIDE DEF e
      <4> QED BY <4>2, <4>4, <4>5
    <3> QED BY <2>2, <3>1, <3>2 DEF DeleteExtension
  <2> QED BY <2>1, <2>2
<1>3. /\ ext' \in [Names -> Extension \cup {None}]
      /\ \A m \in Names : ext'[m] # None => ext'[m].generation <= edits' + 1
  BY <1>1, <1>2, ExtensionReplaced
<1> QED BY <1>0, <1>1, <1>3 DEF ExtensionsInv, TypeOK, controllers

LEMMA HostEditsInv ==
  ASSUME ExtensionsInv, NEW h \in Hosts, ApplyHost(h) \/ FinalizeHost(h)
  PROVE  ExtensionsInv'
<1>0. /\ host \in [Hosts -> Selectors \cup {None}]
      /\ edits \in 0..MaxEdits /\ edits < MaxEdits /\ edits' = edits + 1
      /\ UNCHANGED <<ext, extCache, hostCache, hostQueue, extQueue, plan, verdict>>
  BY DEF ExtensionsInv, TypeOK, ApplyHost, FinalizeHost, Edit, controllers
<1>1. host' \in [Hosts -> Selectors \cup {None}]
  BY <1>0 DEF ApplyHost, FinalizeHost
<1>2. \A g \in Hosts : Entries(internal'[g])
  <2>1. Entries(<< >>)
    BY DEF Entries, Range
  <2>2. CASE UNCHANGED internal
    BY <2>2 DEF ExtensionsInv, TypeOK
  <2>3. CASE internal' = [internal EXCEPT ![h] = <<>>]
    <3>1. \A g \in Hosts : internal'[g] = IF g = h THEN <<>> ELSE internal[g]
      BY <2>3 DEF ExtensionsInv, TypeOK
    <3> QED BY <2>1, <3>1 DEF ExtensionsInv, TypeOK
  <2> QED BY <2>2, <2>3 DEF ApplyHost, FinalizeHost, controllers
<1>3. edits' \in 0..MaxEdits /\ DOMAIN internal' = Hosts
  BY <1>0 DEF ExtensionsInv, TypeOK, ApplyHost, FinalizeHost, controllers
<1>4. \A n \in Names : ext'[n] # None => ext'[n].generation <= edits' + 1
  <2>1. \A n \in Names : ext[n] # None =>
          ext[n].generation \in Int /\ ext[n].generation <= edits + 1
    BY DEF ExtensionsInv, TypeOK, Extension
  <2> QED BY <1>0, <2>1
<1> QED BY <1>0, <1>1, <1>2, <1>3, <1>4 DEF ExtensionsInv, TypeOK

LEMMA SyncsInv ==
  ASSUME ExtensionsInv,
         (\E n \in Names : SyncExtension(n)) \/ (\E h \in Hosts : SyncHost(h))
  PROVE  ExtensionsInv'
<1>1. ASSUME NEW n \in Names, SyncExtension(n) PROVE ExtensionsInv'
  <2>1. /\ ext[n] \in Extension \cup {None} /\ extCache[n] \in Extension \cup {None}
        /\ extCache' \in [Names -> Extension \cup {None}]
    BY <1>1 DEF ExtensionsInv, TypeOK, SyncExtension
  <2>2. /\ extensionHostRefRequests(extCache[n], ext[n]) \subseteq Hosts
        /\ extensionsForSibling(extCache[n], ext[n], extCache') \subseteq Names
    BY <2>1, QueueTypes
  <2>3. hostQueue' \subseteq Hosts /\ extQueue' \subseteq Names
    BY <1>1, <2>2 DEF ExtensionsInv, TypeOK, SyncExtension
  <2>4. UNCHANGED <<ext, host, hostCache, internal, plan, verdict, edits>>
    BY <1>1 DEF SyncExtension
  <2> QED BY <2>1, <2>3, <2>4 DEF ExtensionsInv, TypeOK
<1>2. ASSUME NEW h \in Hosts, SyncHost(h) PROVE ExtensionsInv'
  <2>1. extensionsNaming({h}, extCache) \subseteq Names
    BY DEF extensionsNaming
  <2>2. hostQueue' \subseteq Hosts /\ extQueue' \subseteq Names
    BY <1>2, <2>1 DEF ExtensionsInv, TypeOK, SyncHost
  <2>3. hostCache' \in [Hosts -> Selectors \cup {None}]
    BY <1>2 DEF ExtensionsInv, TypeOK, SyncHost
  <2>4. UNCHANGED <<ext, extCache, host, internal, plan, verdict, edits>>
    BY <1>2 DEF SyncHost
  <2> QED BY <2>2, <2>3, <2>4 DEF ExtensionsInv, TypeOK
<1> QED BY <1>1, <1>2

LEMMA HostControllerInv ==
  ASSUME ExtensionsInv, NEW h \in Hosts,
         resolveExtensions(h) \/ createOrUpdateInternalHostResource(h)
  PROVE  ExtensionsInv'
<1>1. CASE resolveExtensions(h)
  <2>1. Entries(Snapshot(h, hostCache[h], extCache))
    BY SnapshotEntries DEF ExtensionsInv, TypeOK, Typed
  <2>2. \/ UNCHANGED plan
        \/ plan' = [plan EXCEPT ![h] = Snapshot(h, hostCache[h], extCache)]
    BY <1>1 DEF resolveExtensions
  <2>3. DOMAIN plan' = Hosts /\ \A g \in Hosts : plan'[g] # None => Entries(plan'[g])
    BY <2>1, <2>2 DEF ExtensionsInv, TypeOK
  <2>4. /\ hostQueue' \subseteq Hosts
        /\ UNCHANGED <<ext, extCache, host, hostCache, internal, extQueue, verdict, edits>>
    BY <1>1 DEF resolveExtensions, ExtensionsInv, TypeOK
  <2> QED BY <2>3, <2>4 DEF ExtensionsInv, TypeOK
<1>2. CASE createOrUpdateInternalHostResource(h)
  <2>1. plan[h] # None /\ Entries(plan[h]) /\ DOMAIN plan = Hosts /\ DOMAIN internal = Hosts
    BY <1>2 DEF createOrUpdateInternalHostResource, ExtensionsInv, TypeOK
  <2>2. DOMAIN plan' = Hosts /\ \A g \in Hosts : plan'[g] # None => Entries(plan'[g])
    BY <1>2, <2>1 DEF createOrUpdateInternalHostResource, ExtensionsInv, TypeOK
  <2>3. DOMAIN internal' = Hosts /\ \A g \in Hosts : Entries(internal'[g])
    BY <1>2, <2>1 DEF createOrUpdateInternalHostResource, ExtensionsInv, TypeOK
  <2>4. UNCHANGED <<ext, extCache, host, hostCache, hostQueue, extQueue, verdict, edits>>
    BY <1>2 DEF createOrUpdateInternalHostResource
  <2> QED BY <2>2, <2>3, <2>4 DEF ExtensionsInv, TypeOK
<1> QED BY <1>1, <1>2

LEMMA ExtensionControllerInv ==
  ASSUME ExtensionsInv, NEW n \in Names, Evaluate(n) \/ PatchCondition(n)
  PROVE  ExtensionsInv'
<1>0. /\ ext \in [Names -> Extension \cup {None}]
      /\ extCache \in [Names -> Extension \cup {None}]
      /\ verdict \in [Names -> [new: Condition, base: Condition] \cup {None}]
  BY DEF ExtensionsInv, TypeOK
<1>1. CASE Evaluate(n)
  <2> DEFINE c == [reason |-> Reason(n, hostCache, extCache),
                   observed |-> extCache[n].generation]
             v == [new |-> c, base |-> extCache[n].attached]
  <2>1. \/ UNCHANGED verdict
        \/ extCache[n] # None /\ verdict' = [verdict EXCEPT ![n] = v]
    BY <1>1 DEF Evaluate
  <2>2. ASSUME extCache[n] # None, verdict' = [verdict EXCEPT ![n] = v]
        PROVE  verdict' \in [Names -> [new: Condition, base: Condition] \cup {None}]
    <3>0. extCache[n] \in Extension
      BY <1>0, <2>2
    <3>1. /\ extCache[n].generation \in 0..(MaxEdits + 1)
          /\ extCache[n].attached \in Condition
      BY <3>0 DEF Extension
    <3>2. c \in Condition
      BY <3>1, ReasonType DEF Condition
    <3> HIDE DEF c
    <3>3. v \in [new: Condition, base: Condition]
      BY <3>1, <3>2
    <3> HIDE DEF v
    <3> QED BY <1>0, <2>2, <3>3
  <2>3. verdict' \in [Names -> [new: Condition, base: Condition] \cup {None}]
    BY <1>0, <2>1, <2>2
  <2>4. /\ extQueue' \subseteq Names
        /\ UNCHANGED <<ext, extCache, host, hostCache, internal, hostQueue, plan, edits>>
    BY <1>1 DEF Evaluate, ExtensionsInv, TypeOK
  <2> QED BY <2>3, <2>4 DEF ExtensionsInv, TypeOK
<1>2. CASE PatchCondition(n)
  <2>1. /\ verdict[n] \in [new: Condition, base: Condition]
        /\ verdict' \in [Names -> [new: Condition, base: Condition] \cup {None}]
    BY <1>0, <1>2 DEF PatchCondition
  <2>2. extQueue' \subseteq Names
    BY <1>2 DEF PatchCondition, ExtensionsInv, TypeOK
  <2>3. UNCHANGED <<extCache, host, hostCache, internal, hostQueue, plan, edits>>
    BY <1>2 DEF PatchCondition
  <2>4. /\ ext' \in [Names -> Extension \cup {None}]
        /\ \A m \in Names : ext'[m] # None => ext'[m].generation <= edits' + 1
    <3>1. CASE UNCHANGED ext
      BY <2>3, <3>1 DEF ExtensionsInv, TypeOK
    <3>2. CASE ext[n] # None /\ ext' = [ext EXCEPT ![n].attached = verdict[n].new]
      <4> DEFINE e == [ext[n] EXCEPT !.attached = verdict[n].new]
      <4>1. ext[n] \in Extension /\ ext[n].generation <= edits + 1
        BY <1>0, <3>2 DEF ExtensionsInv
      <4>2. e \in Extension /\ e.generation = ext[n].generation
        BY <2>1, <4>1 DEF Extension
      <4>3. ext' = [ext EXCEPT ![n] = e]
        BY <1>0, <3>2
      <4>4. edits' \in 0..MaxEdits /\ edits' >= edits /\ edits' = edits
        BY <2>3 DEF ExtensionsInv, TypeOK
      <4> HIDE DEF e
      <4> QED BY <4>1, <4>2, <4>3, <4>4, ExtensionReplaced
    <3> QED BY <1>2, <3>1, <3>2 DEF PatchCondition
  <2> QED BY <2>1, <2>2, <2>3, <2>4 DEF ExtensionsInv, TypeOK
<1> QED BY <1>1, <1>2

LEMMA ExtensionsSound == Spec => []ExtensionsInv
<1>1. Init => ExtensionsInv
  <2> SUFFICES ASSUME Init PROVE ExtensionsInv
    OBVIOUS
  <2>1. ext \in [Names -> Extension \cup {None}]
    BY FreshType DEF Init
  <2>2. \A n \in Names : ext[n] # None => ext[n].generation <= edits + 1
    BY FreshType DEF Init
  <2>3. Entries(<< >>)
    BY DEF Entries, Range
  <2>4. host \in [Hosts -> Selectors \cup {None}]
    BY DEF Init, Selectors
  <2>5. \A h \in Hosts : Entries(internal[h])
    BY <2>3 DEF Init
  <2>6. /\ DOMAIN internal = Hosts /\ DOMAIN plan = Hosts
        /\ \A h \in Hosts : plan[h] # None => Entries(plan[h])
        /\ verdict \in [Names -> [new: Condition, base: Condition] \cup {None}]
        /\ edits \in 0..MaxEdits
    BY DEF Init
  <2>7. /\ extCache = ext /\ hostCache = host
        /\ hostQueue \subseteq Hosts /\ extQueue \subseteq Names
    BY DEF Init
  <2> QED BY <2>1, <2>2, <2>4, <2>5, <2>6, <2>7 DEF ExtensionsInv, TypeOK
<1>2. ExtensionsInv /\ [Next]_vars => ExtensionsInv'
  <2> SUFFICES ASSUME ExtensionsInv, [Next]_vars PROVE ExtensionsInv'
    OBVIOUS
  <2>1. CASE UNCHANGED vars
    BY <2>1 DEF vars, ExtensionsInv, TypeOK
  <2> QED BY <2>1, UsersInv, HostEditsInv, SyncsInv, HostControllerInv,
             ExtensionControllerInv DEF Next
<1> QED BY <1>1, <1>2, PTL DEF Spec

\* Type correctness; no list longer than the cap is planned for or written to an
\* internal host, however extensions and selectors change meanwhile.
THEOREM ExtensionsTyped == Spec => []TypeOK
<1>1. ExtensionsInv => TypeOK
  BY DEF ExtensionsInv
<1> QED BY <1>1, ExtensionsSound, PTL

\* The cap of selectExtensions goes by rank for every set of extensions: applied
\* are the eligible ones with fewer than Cap before them, the rest overflows.
THEOREM CapByRank == Spec => []CapIsByRank
<1>1. ExtensionsInv => CapIsByRank
  <2> SUFFICES ASSUME ExtensionsInv, NEW h \in Hosts, NEW selector \in Selectors
      PROVE  LET eligible == {n \in Names :
                       /\ extCache[n] # None
                       /\ extCache[n].spec.host = h /\ extCache[n].spec.valid
                       /\ ~extCache[n].deleting
                       /\ \/ selector = "all"
                          \/ selector = "label" /\ extCache[n].spec.label}
                 rank(n) == Cardinality({m \in eligible : Precedes(extCache, m, n)})
             IN /\ Range(Applied(h, selector, extCache))
                      = {n \in eligible : rank(n) < Cap}
                /\ Range(Overflow(h, selector, extCache))
                      = {n \in eligible : rank(n) >= Cap}
    BY DEF CapIsByRank
  <2> DEFINE eligible == {n \in Names :
                       /\ extCache[n] # None
                       /\ extCache[n].spec.host = h /\ extCache[n].spec.valid
                       /\ ~extCache[n].deleting
                       /\ \/ selector = "all"
                          \/ selector = "label" /\ extCache[n].spec.label}
  <2>1. Typed(extCache)
    BY DEF ExtensionsInv, TypeOK, Typed
  <2>2. eligible = Eligible(h, selector, extCache)
    BY DEF Eligible, Matched, Invalid, Selects
  <2> HIDE DEF eligible
  <2>3. /\ Range(Applied(h, selector, extCache))
             = {n \in eligible : Rank(extCache, eligible, n) < Cap}
        /\ Range(Overflow(h, selector, extCache))
             = {n \in eligible : Rank(extCache, eligible, n) >= Cap}
    BY <2>1, <2>2, CapGoesByRank
  <2> QED BY <2>3 DEF Rank, eligible
<1> QED BY <1>1, ExtensionsSound, PTL

=============================================================================
