------------------------- MODULE HostReconcileProofs -------------------------
(***************************************************************************)
(* Proofs about HostReconcile: its types, what the walk over the           *)
(* translation sources keeps, and that the mirror only moves forward and   *)
(* is what a call that reports Ready judged, for all sets of translations, *)
(* all situations and any number of edits and troubles.                    *)
(***************************************************************************)
EXTENDS HostReconcile, FiniteSetTheorems, FunctionTheorems, SequenceTheorems,
        NaturalsInduction, WellFoundedInduction, TLAPS

-----------------------------------------------------------------------------
(* Numbers in order, and parts of a list *)

\* The rank of a number in a finite set is below the size of the set, and
\* follows the numbers.
LEMMA RanksFollow ==
  ASSUME NEW S \in SUBSET Nat, IsFiniteSet(S)
  PROVE  /\ Cardinality(S) \in Nat
         /\ \A n \in S : Cardinality({m \in S : m < n}) \in 0..(Cardinality(S) - 1)
         /\ \A m, n \in S : m < n => Cardinality({k \in S : k < m})
                                       < Cardinality({k \in S : k < n})
<1> DEFINE Below(n) == {m \in S : m < n}
<1>1. Cardinality(S) \in Nat
  BY FS_CardinalityType
<1>2. ASSUME NEW T \in SUBSET S, NEW U \in SUBSET T, U # T
      PROVE  /\ Cardinality(U) \in Nat /\ Cardinality(T) \in Nat
             /\ Cardinality(U) < Cardinality(T)
  <2>1. IsFiniteSet(T)
    BY FS_Subset
  <2>2. IsFiniteSet(U) /\ Cardinality(U) <= Cardinality(T) /\ Cardinality(U) # Cardinality(T)
    BY <2>1, <1>2, FS_Subset
  <2>3. Cardinality(U) \in Nat /\ Cardinality(T) \in Nat
    BY <2>1, <2>2, FS_CardinalityType
  <2> QED BY <2>2, <2>3
<1>3. ASSUME NEW n \in S PROVE Cardinality(Below(n)) \in 0..(Cardinality(S) - 1)
  <2>1. Below(n) \in SUBSET S /\ n \notin Below(n) /\ S \in SUBSET S
    OBVIOUS
  <2>2. Below(n) # S
    BY <2>1
  <2>3. Cardinality(Below(n)) \in Nat /\ Cardinality(Below(n)) < Cardinality(S)
    <3> HIDE DEF Below
    <3> QED BY <1>2, <2>1, <2>2
  <2> HIDE DEF Below
  <2> QED BY <1>1, <2>3
<1>4. ASSUME NEW m \in S, NEW n \in S, m < n
      PROVE  Cardinality(Below(m)) < Cardinality(Below(n))
  <2>0. m \in Nat /\ n \in Nat /\ \A k \in S : k \in Nat
    OBVIOUS
  <2>1. Below(n) \in SUBSET S /\ Below(m) \in SUBSET Below(n)
    <3>1. \A k \in S : k < m => k < n
      BY <2>0, <1>4
    <3> QED BY <3>1
  <2>2. m \in Below(n) /\ m \notin Below(m)
    BY <1>4
  <2> HIDE DEF Below
  <2> QED BY <1>2, <2>1, <2>2
<1> QED BY <1>1, <1>3, <1>4

\* InOrder lists every number of a finite set once, in increasing order.
LEMMA InOrderIncreases ==
  ASSUME NEW S \in SUBSET Nat, IsFiniteSet(S)
  PROVE  LET K == Cardinality(S)
         IN  /\ K \in Nat
             /\ InOrder(S) \in [1..K -> S]
             /\ \A i, j \in 1..K : i < j => InOrder(S)[i] < InOrder(S)[j]
             /\ \A n \in S : \E i \in 1..K : InOrder(S)[i] = n
<1> DEFINE K == Cardinality(S)
           rank(n) == Cardinality({m \in S : m < n})
           f == [n \in S |-> rank(n) + 1]
<1>0. /\ K \in Nat /\ \A n \in S : n \in Nat /\ rank(n) \in 0..(K - 1)
      /\ \A m, n \in S : m < n => rank(m) < rank(n)
  BY RanksFollow
<1>1. InOrder(S) = [k \in 1..K |-> CHOOSE n \in S : rank(n) = k - 1]
  BY DEF InOrder
<1> HIDE DEF rank
<1>2. f \in [S -> 1..K]
  BY <1>0
<1>3. \A m, n \in S : f[m] = f[n] => m = n
  <2> SUFFICES ASSUME NEW m \in S, NEW n \in S, f[m] = f[n], m # n PROVE FALSE
    OBVIOUS
  <2>1. m < n \/ n < m
    BY <1>0
  <2> QED BY <1>0, <2>1
<1>4. f \in Injection(S, 1..K)
  BY <1>2, <1>3, Fun_IsInj
<1>5. IsFiniteSet(1..K) /\ Cardinality(1..K) = K
  BY <1>0, FS_Interval
<1>6. f \in Surjection(S, 1..K)
  BY <1>4, <1>5, FS_Injection
<1>7. \A k \in 1..K : \E n \in S : f[n] = k
  BY <1>6 DEF Surjection
<1>8. \A k \in 1..K : \E n \in S : rank(n) = k - 1
  BY <1>0, <1>7
<1>9. \A k \in 1..K : InOrder(S)[k] \in S /\ rank(InOrder(S)[k]) = k - 1
  BY <1>1, <1>8
<1>10. InOrder(S) \in [1..K -> S]
  BY <1>1, <1>9
<1>11. ASSUME NEW i \in 1..K, NEW j \in 1..K, i < j
       PROVE  InOrder(S)[i] < InOrder(S)[j]
  <2> DEFINE a == InOrder(S)[i]
             b == InOrder(S)[j]
  <2>1. a \in S /\ b \in S /\ rank(a) = i - 1 /\ rank(b) = j - 1
    BY <1>9
  <2> HIDE DEF a, b
  <2>2. a = b \/ b < a \/ a < b
    BY <1>0, <2>1
  <2>3. ~(b < a) /\ a # b
    BY <1>0, <1>11, <2>1
  <2>4. a < b
    BY <2>2, <2>3
  <2> QED BY <2>4 DEF a, b
<1>12. ASSUME NEW n \in S PROVE \E i \in 1..K : InOrder(S)[i] = n
  <2> DEFINE i == rank(n) + 1
  <2>1. i \in 1..K /\ rank(n) = i - 1
    <3> rank(n) \in 0..(K - 1) /\ K \in Nat
      BY <1>0
    <3> HIDE DEF K
    <3> QED OBVIOUS
  <2> HIDE DEF i
  <2>2. InOrder(S)[i] \in S /\ rank(InOrder(S)[i]) = rank(n)
    BY <1>9, <2>1
  <2>3. InOrder(S)[i] = n
    BY <1>3, <2>2
  <2> QED BY <2>1, <2>3
<1> QED BY <1>0, <1>10, <1>11, <1>12

\* The places of a part of a list: increasing, and all of them.
PlacesOf(P, place) ==
  /\ place \in [1..Cardinality(P) -> P]
  /\ \A i, j \in 1..Cardinality(P) : i < j => place[i] < place[j]
  /\ \A n \in P : \E i \in 1..Cardinality(P) : place[i] = n

\* Sublist is the list of what is at the places, in the order of the list.
LEMMA SublistIs ==
  ASSUME NEW T, NEW list \in Seq(T), NEW P \in SUBSET (DOMAIN list)
  PROVE  /\ Cardinality(P) \in Nat
         /\ Sublist(list, P) \in Seq(T)
         /\ Len(Sublist(list, P)) = Cardinality(P)
         /\ \E place : /\ PlacesOf(P, place)
                       /\ \A k \in 1..Cardinality(P) : Sublist(list, P)[k] = list[place[k]]
<1> DEFINE K == Cardinality(P)
           place == InOrder(P)
<1>1. DOMAIN list = 1..Len(list) /\ Len(list) \in Nat
  OBVIOUS
<1>2. P \in SUBSET Nat /\ IsFiniteSet(P)
  <2>1. P \in SUBSET (1..Len(list)) /\ IsFiniteSet(1..Len(list))
    BY <1>1, FS_Interval
  <2>2. IsFiniteSet(P)
    BY <2>1, FS_Subset
  <2> QED BY <1>1, <2>1, <2>2
<1>3. K \in Nat /\ PlacesOf(P, place)
  BY <1>2, InOrderIncreases DEF PlacesOf
<1>4. Sublist(list, P) = [k \in 1..K |-> list[place[k]]]
  BY DEF Sublist
<1> HIDE DEF K, place
<1>5. \A k \in 1..K : list[place[k]] \in T
  BY <1>3 DEF PlacesOf, K
<1>6. Sublist(list, P) \in Seq(T) /\ Len(Sublist(list, P)) = K
  BY <1>3, <1>4, <1>5
<1>7. \A k \in 1..K : Sublist(list, P)[k] = list[place[k]]
  BY <1>4
<1> QED BY <1>3, <1>6, <1>7 DEF K

-----------------------------------------------------------------------------
(* The inductive invariant *)

InternalHost ==
  [exists : BOOLEAN, gen : Nat, spec : world.specs, translations : Seq(Names),
   pages : SUBSET {"announcement", "consent"}, ready : {"Unknown", "True", "False"}]

\* A call under way.
Calls ==
  [step : {"helm", "patch"}, gen : Nat, spec : world.specs, status : Status,
   unresolved : BOOLEAN, requeue : BOOLEAN,
   pages : SUBSET {"announcement", "consent"}, order : Seq(Translations),
   collision : BOOLEAN, again : BOOLEAN, notFound : BOOLEAN]

\* The internal host and the call have the shape the actions rely on, and the
\* status of neither is ahead of the host.
Shapes ==
  /\ internal \in InternalHost
  /\ worker \in Calls \cup {Idle}
  /\ cache.status.observed <= server.gen
  /\ worker # Idle => worker.status.observed <= server.gen

\* A generation has one spec, the mirror is no newer than the cache, and a call
\* that has not mirrored yet is no older than the mirror: only the call itself
\* writes the internal host, so that its fresh read of the generation cannot
\* put an older spec under a generation that was mirrored already.
Generations ==
  /\ cache.gen = server.gen => cache.spec = server.spec
  /\ internal.gen <= cache.gen
  /\ worker.step = "helm" => /\ internal.gen <= worker.gen
                             /\ worker.gen <= cache.gen
                             /\ worker.gen = server.gen => worker.spec = server.spec

\* A call that has not reached the ladder does not say Ready, and what it is
\* about to name has one source per name.
Underway ==
  worker.step = "helm" =>
    /\ worker.status.conditions.ready # "True"
    /\ \A m, n \in DOMAIN worker.order :
         Name[worker.order[m]] = Name[worker.order[n]] => m = n

HostInv ==
  /\ TypeOK /\ Shapes /\ Generations /\ Underway
  /\ SourcesServed /\ ReadyMirrored

Conditions == [ready : {"", "True", "False", "Unknown"},
               degraded : {"", "True", "False"},
               progressing : {"", "True", "False"}]

LEMMA ConditionTypes ==
  /\ Status = [observed : Nat, helm : {"none", "in_progress", "completed", "failed"},
               conditions : Conditions, copied : SUBSET Names]
  /\ {Unset, Reconciling, Waiting, Degraded, Ready} \subseteq Conditions
  /\ Ready.ready = "True"
  /\ \A c \in {Unset, Reconciling, Waiting, Degraded} : c.ready # "True"
BY DEF Status, Conditions, Unset, Reconciling, Waiting, Degraded, Ready, Triple

LEMMA WorldTypes ==
  ASSUME TypeOK
  PROVE  /\ world \in Worlds
         /\ \A s \in world.specs : s.translationRefs \in Seq(Translations)
         /\ server.gen \in Nat /\ server.spec \in world.specs /\ server.status \in Status
         /\ cache.gen \in Nat /\ cache.spec \in world.specs /\ cache.status \in Status
         /\ cache.gen <= server.gen /\ server.status.observed <= server.gen
BY HostAssumption DEF TypeOK, Host

\* A merged status is a status, and observes what the stored one or the desired
\* one observes.
LEMMA MergedType ==
  ASSUME NEW stored \in Status, NEW base \in Status, NEW desired \in Status,
         NEW status \in Merged(stored, base, desired)
  PROVE  /\ status \in Status
         /\ status.observed = IF base.observed = desired.observed THEN stored.observed
                              ELSE desired.observed
<1> DEFINE Kept(b, d, s) == IF b = d THEN s ELSE d
           made(c) == [observed |-> Kept(base.observed, desired.observed, stored.observed),
                       helm |-> Kept(base.helm, desired.helm, stored.helm),
                       conditions |-> c,
                       copied |-> (stored.copied \ (base.copied \ desired.copied))
                                    \cup (desired.copied \ base.copied)]
<1>1. /\ stored.observed \in Nat /\ desired.observed \in Nat
      /\ stored.helm \in {"none", "in_progress", "completed", "failed"}
      /\ desired.helm \in {"none", "in_progress", "completed", "failed"}
      /\ stored.conditions \in Conditions /\ desired.conditions \in Conditions
      /\ stored.copied \subseteq Names /\ desired.copied \subseteq Names
  BY DEF Status, Conditions
<1>2. PICK c \in {desired.conditions,
                  Kept(base.conditions, desired.conditions, stored.conditions)} :
        status = made(c)
  BY DEF Merged
<1>3. c \in Conditions
  BY <1>1, <1>2
<1>4. Kept(base.observed, desired.observed, stored.observed) \in Nat
  BY <1>1
<1>5. Kept(base.helm, desired.helm, stored.helm)
        \in {"none", "in_progress", "completed", "failed"}
  BY <1>1
<1>6. (stored.copied \ (base.copied \ desired.copied)) \cup (desired.copied \ base.copied)
        \in SUBSET Names
  BY <1>1
<1>7. status \in Status
  BY <1>2, <1>3, <1>4, <1>5, <1>6, ConditionTypes
<1> QED BY <1>2, <1>7

\* Leave changes the step, the conditions and the two flags of the result.
LEMMA LeaveType ==
  ASSUME NEW call \in Calls, NEW conditions \in Conditions,
         NEW again \in BOOLEAN, NEW notFound \in BOOLEAN,
         Leave(call, conditions, again, notFound)
  PROVE  /\ worker' \in Calls /\ worker'.step = "patch"
         /\ worker'.gen = call.gen /\ worker'.spec = call.spec
         /\ worker'.status.conditions = conditions
         /\ worker'.status.observed = call.status.observed
         /\ worker'.status.helm = call.status.helm
         /\ worker'.order = call.order /\ worker'.pages = call.pages
         /\ worker'.collision = call.collision
<1> DEFINE status == [call.status EXCEPT !.conditions = conditions]
           left == [call EXCEPT !.step = "patch", !.status = status,
                                !.again = again, !.notFound = notFound]
<1>1. call.status \in Status
  BY DEF Calls
<1>2. /\ status \in Status /\ status.conditions = conditions
      /\ status.observed = call.status.observed /\ status.helm = call.status.helm
  BY <1>1, ConditionTypes
<1>3. worker' = left
  BY DEF Leave, Calls
<1> HIDE DEF status
<1>4. left \in Calls /\ left.step = "patch" /\ left.status = status
  BY <1>2 DEF Calls
<1>5. /\ left.gen = call.gen /\ left.spec = call.spec /\ left.order = call.order
      /\ left.pages = call.pages /\ left.collision = call.collision
  BY DEF Calls
<1> QED BY <1>2, <1>3, <1>4, <1>5

-----------------------------------------------------------------------------
(* A call before Helm *)

\* A call that has just read the host, and at most noted a problem.
Fresh(call) ==
  /\ call \in Calls /\ call.step = "helm"
  /\ call.gen = cache.gen /\ call.spec = cache.spec
  /\ call.status.observed = cache.status.observed
  /\ call.status.conditions \in {Reconciling, Waiting}

LEMMA CallFresh ==
  ASSUME TypeOK
  PROVE  Fresh(Call)
<1> DEFINE status == [cache.status EXCEPT !.conditions = Reconciling]
<1>1. status \in Status /\ status.observed = cache.status.observed
      /\ status.conditions = Reconciling
  BY WorldTypes, ConditionTypes
<1>2. Call = [step |-> "helm", gen |-> cache.gen, spec |-> cache.spec, status |-> status,
              unresolved |-> FALSE, requeue |-> FALSE, pages |-> {},
              order |-> <<>>, collision |-> FALSE, again |-> FALSE, notFound |-> FALSE]
  BY DEF Call
<1> HIDE DEF status
<1>3. Call \in Calls
  BY <1>1, <1>2, WorldTypes DEF Calls
<1> QED BY <1>1, <1>2, <1>3 DEF Fresh

\* Changing only what the call notes leaves it fresh.
LEMMA NotedFresh ==
  ASSUME NEW call, Fresh(call), NEW requeue \in BOOLEAN
  PROVE  /\ Fresh(noteUnresolvedRef(call, requeue))
         /\ Fresh([call EXCEPT !.status.conditions = Waiting])
<1> DEFINE status == [call.status EXCEPT !.conditions = Waiting]
           noted == [call EXCEPT !.unresolved = TRUE, !.status = status,
                                 !.requeue = call.requeue \/ requeue]
           waits == [call EXCEPT !.status = status]
<1>1. call \in Calls /\ call.status \in Status
  BY DEF Fresh, Calls
<1>2. status \in Status /\ status.observed = call.status.observed
      /\ status.conditions = Waiting
  BY <1>1, ConditionTypes
<1>3. noteUnresolvedRef(call, requeue) = noted
  BY <1>1 DEF noteUnresolvedRef, Calls
<1>4. [call EXCEPT !.status.conditions = Waiting] = waits
  BY <1>1 DEF Calls
<1> HIDE DEF status
<1>5. (call.requeue \/ requeue) \in BOOLEAN
  BY <1>1 DEF Calls
<1>6. noted \in Calls /\ waits \in Calls
  BY <1>1, <1>2, <1>5 DEF Calls
<1>7. /\ noted.step = call.step /\ noted.gen = call.gen /\ noted.spec = call.spec
      /\ waits.step = call.step /\ waits.gen = call.gen /\ waits.spec = call.spec
      /\ noted.status = status /\ waits.status = status
  BY <1>1 DEF Calls
<1>8. Fresh(noted)
  <2> HIDE DEF noted
  <2> QED BY <1>2, <1>6, <1>7 DEF Fresh
<1>9. Fresh(waits)
  <2> HIDE DEF waits
  <2> QED BY <1>2, <1>6, <1>7 DEF Fresh
<1> QED BY <1>3, <1>4, <1>8, <1>9

\* So is the call after the utility pages and after the theme.
LEMMA ThemedFresh ==
  ASSUME TypeOK
  PROVE  Fresh(Paged) /\ Fresh(Themed)
<1> DEFINE used == {p \in {"announcement", "consent"} :
                      IF p = "announcement" THEN cache.spec.announcement
                      ELSE ConsentUsable(cache.spec)}
           call == [Call EXCEPT !.pages = used]
<1>1. Fresh(Call)
  BY CallFresh
<1>2. used \subseteq {"announcement", "consent"}
  OBVIOUS
<1> HIDE DEF used
<1>3. /\ call \in Calls /\ call.step = Call.step /\ call.gen = Call.gen
      /\ call.spec = Call.spec /\ call.status = Call.status
  BY <1>1, <1>2 DEF Fresh, Calls
<1>4. Fresh(call)
  <2> HIDE DEF call
  <2> QED BY <1>1, <1>3 DEF Fresh
<1>5. /\ (object[utilityPageRef(cache.spec)].state = "unready") \in BOOLEAN
      /\ (object["theme"].state = "unready") \in BOOLEAN
  OBVIOUS
<1>6. Fresh(Paged)
  <2>1. Paged = IF ConsentUnresolved(cache.spec)
                THEN noteUnresolvedRef(call, object[utilityPageRef(cache.spec)].state = "unready")
                ELSE IF object[utilityPageRef(cache.spec)].state = "missing"
                THEN [call EXCEPT !.status.conditions = Waiting]
                ELSE call
    BY DEF Paged, used
  <2> HIDE DEF call
  <2> QED BY <2>1, <1>4, <1>5, NotedFresh
<1>7. Fresh(Themed)
  <2>1. Themed = Paged \/ Themed = noteUnresolvedRef(Paged, object["theme"].state = "unready")
    BY DEF Themed
  <2> QED BY <2>1, <1>5, <1>6, NotedFresh
<1> QED BY <1>6, <1>7

-----------------------------------------------------------------------------
(* The translation sources *)

LEMMA SourceTypes ==
  ASSUME NEW spec, spec.translationRefs \in Seq(Translations)
  PROVE  /\ Attached(spec) \in Seq(Translations)
         /\ Candidates(spec) \in Seq(Translations)
         /\ orderTranslationSources(spec) \in Seq(Translations)
<1>1. ByName \in Seq(Translations)
  BY HostAssumption
<1>2. Attached(spec) \in Seq(Translations)
  <2> DEFINE places == {n \in DOMAIN ByName :
                          Attaches(ByName[n]) /\ ~IsDeclared(ByName[n], spec)}
  <2>1. places \in SUBSET (DOMAIN ByName) /\ Attached(spec) = Sublist(ByName, places)
    BY DEF Attached
  <2> HIDE DEF places
  <2> QED BY <1>1, <2>1, SublistIs
<1>3. Candidates(spec) \in Seq(Translations)
  <2>1. <<DefaultTranslation>> \in Seq(Translations)
    BY HostAssumption
  <2> QED BY <1>2, <2>1 DEF Candidates
<1>4. orderTranslationSources(spec) \in Seq(Translations)
  <2> DEFINE candidates == Candidates(spec)
             places == {n \in DOMAIN candidates : Keeps(candidates, n)}
  <2>1. /\ places \in SUBSET (DOMAIN candidates)
        /\ orderTranslationSources(spec) = Sublist(candidates, places)
    BY DEF orderTranslationSources
  <2> HIDE DEF places
  <2> QED BY <1>3, <2>1, SublistIs
<1> QED BY <1>2, <1>3, <1>4

\* What the walk keeps: at each place the last candidate of its name, in the
\* order of the candidates.
LEMMA WalkKeeps ==
  ASSUME NEW spec, spec.translationRefs \in Seq(Translations)
  PROVE  LET candidates == Candidates(spec)
             order == orderTranslationSources(spec)
         IN  \E place \in [DOMAIN order -> DOMAIN candidates] :
               /\ \A i \in DOMAIN order : /\ order[i] = candidates[place[i]]
                                          /\ Keeps(candidates, place[i])
               /\ \A i, j \in DOMAIN order : i < j => place[i] < place[j]
               /\ \A n \in DOMAIN candidates :
                    Keeps(candidates, n) => \E i \in DOMAIN order : place[i] = n
<1> DEFINE candidates == Candidates(spec)
           order == orderTranslationSources(spec)
           places == {n \in DOMAIN candidates : Keeps(candidates, n)}
           K == Cardinality(places)
<1>1. candidates \in Seq(Translations) /\ order \in Seq(Translations)
  BY SourceTypes
<1>2. places \in SUBSET (DOMAIN candidates) /\ order = Sublist(candidates, places)
  BY DEF orderTranslationSources
<1>3. /\ K \in Nat /\ Len(order) = K
      /\ \E place : /\ PlacesOf(places, place)
                    /\ \A k \in 1..K : order[k] = candidates[place[k]]
  <2> HIDE DEF candidates, order, places, K
  <2> QED BY <1>1, <1>2, SublistIs DEF K
<1>4. DOMAIN order = 1..K
  <2> HIDE DEF candidates, order, places, K
  <2> QED BY <1>1, <1>3
<1>5. PICK place : /\ PlacesOf(places, place)
                   /\ \A k \in 1..K : order[k] = candidates[place[k]]
  BY <1>3
<1>6. /\ place \in [1..K -> places]
      /\ \A i, j \in 1..K : i < j => place[i] < place[j]
      /\ \A n \in places : \E i \in 1..K : place[i] = n
  <2> HIDE DEF candidates, order, places
  <2> QED BY <1>5 DEF PlacesOf
<1>7. place \in [1..K -> DOMAIN candidates]
  <2> HIDE DEF candidates, places, K
  <2> QED BY <1>2, <1>6
<1>8. \A i \in 1..K : Keeps(candidates, place[i])
  <2> HIDE DEF candidates, K, order
  <2> QED BY <1>6
<1>9. \A n \in DOMAIN candidates : Keeps(candidates, n) => \E i \in 1..K : place[i] = n
  <2> HIDE DEF candidates, K, order
  <2> QED BY <1>6
<1> HIDE DEF candidates, order, places, K
<1>10. place \in [DOMAIN order -> DOMAIN candidates]
  BY <1>4, <1>7
<1>11. \A i \in DOMAIN order : order[i] = candidates[place[i]] /\ Keeps(candidates, place[i])
  BY <1>4, <1>5, <1>8
<1>12. \A i, j \in DOMAIN order : i < j => place[i] < place[j]
  BY <1>4, <1>6
<1>13. \A n \in DOMAIN candidates :
         Keeps(candidates, n) => \E i \in DOMAIN order : place[i] = n
  BY <1>4, <1>9
<1> QED BY <1>10, <1>11, <1>12, <1>13, Zenon DEF candidates, order

\* The sources kept have different names.
LEMMA OrderApart ==
  ASSUME NEW spec, spec.translationRefs \in Seq(Translations)
  PROVE  LET order == orderTranslationSources(spec)
         IN  \A m, n \in DOMAIN order : Name[order[m]] = Name[order[n]] => m = n
<1> DEFINE candidates == Candidates(spec)
           order == orderTranslationSources(spec)
<1>1. candidates \in Seq(Translations) /\ order \in Seq(Translations)
  BY SourceTypes
<1>2. PICK place \in [DOMAIN order -> DOMAIN candidates] :
        /\ \A i \in DOMAIN order : /\ order[i] = candidates[place[i]]
                                   /\ Keeps(candidates, place[i])
        /\ \A i, j \in DOMAIN order : i < j => place[i] < place[j]
  BY WalkKeeps
<1> HIDE DEF candidates, order
<1>3. ASSUME NEW m \in DOMAIN order, NEW n \in DOMAIN order, m < n
      PROVE  Name[order[m]] # Name[order[n]]
  <2>1. place[n] \in DOMAIN candidates /\ place[n] > place[m]
    <3>1. place[n] \in Nat /\ place[m] \in Nat
      BY <1>1, <1>2
    <3> QED BY <1>2, <1>3, <3>1
  <2>2. Keeps(candidates, place[m])
    BY <1>2
  <2>3. Name[candidates[place[n]]] # Name[candidates[place[m]]]
    BY <2>1, <2>2 DEF Keeps
  <2> QED BY <1>2, <2>3
<1>4. ASSUME NEW m \in DOMAIN order, NEW n \in DOMAIN order,
             Name[order[m]] = Name[order[n]], m # n
      PROVE  FALSE
  <2>1. m \in Nat /\ n \in Nat
    BY <1>1
  <2>2. m < n \/ n < m
    BY <1>4, <2>1
  <2> QED BY <1>3, <1>4, <2>2
<1> QED BY <1>4 DEF order

\* Copies carry the name of their source.
NamedRight(written) ==
  \A n \in Names : written[n] = None \/ Name[written[n].source] = n

\* What is written for a name is the copy of a source of that name, and of the
\* k-th source under its own name.
LEMMA WrittenCopies ==
  ASSUME NEW spec, NEW order \in Seq(Translations), NEW k \in 0..Len(order),
         NamedRight(copies)
  PROVE  LET written == Written(order, k, spec)
         IN  /\ NamedRight(written)
             /\ (\A m, n \in DOMAIN order : Name[order[m]] = Name[order[n]] => m = n)
                => \A m \in 1..k :
                     written[Name[order[m]]] = InternalTranslation(order[m], spec)
<1> DEFINE at(n) == {m \in 1..k : Name[order[m]] = n}
           first(n) == CHOOSE m \in at(n) : TRUE
           written == Written(order, k, spec)
<1>1. written = [n \in Names |-> IF at(n) = {} THEN copies[n]
                                 ELSE InternalTranslation(order[first(n)], spec)]
  BY DEF Written
<1>2. \A n \in Names : at(n) # {} => first(n) \in 1..k /\ Name[order[first(n)]] = n
  OBVIOUS
<1>3. \A t : InternalTranslation(t, spec).source = t
  BY DEF InternalTranslation
<1>4. 1..k \subseteq DOMAIN order /\ \A m \in 1..k : order[m] \in Translations
  OBVIOUS
<1> HIDE DEF written, at, first
<1> USE DEF NamedRight
<1>5. ASSUME NEW n \in Names PROVE written[n] = None \/ Name[written[n].source] = n
  <2>1. CASE at(n) = {}
    BY <1>1, <2>1
  <2>2. CASE at(n) # {}
    <3>1. written[n] = InternalTranslation(order[first(n)], spec)
      BY <1>1, <2>2
    <3> QED BY <1>2, <1>3, <2>2, <3>1
  <2> QED BY <2>1, <2>2
<1>6. ASSUME \A m, n \in DOMAIN order : Name[order[m]] = Name[order[n]] => m = n,
             NEW m \in 1..k
      PROVE  written[Name[order[m]]] = InternalTranslation(order[m], spec)
  <2>1. Name[order[m]] \in Names
    BY <1>4 DEF Names
  <2>2. at(Name[order[m]]) # {}
    BY DEF at
  <2>3. first(Name[order[m]]) = m
    BY <1>2, <1>4, <1>6, <2>1, <2>2
  <2> QED BY <1>1, <2>1, <2>2, <2>3
<1>7. NamedRight(written)
  BY <1>5 DEF NamedRight
<1> QED BY <1>6, <1>7 DEF written

-----------------------------------------------------------------------------
(* The invariant holds in the initial states *)

Rest == Shapes /\ Generations /\ Underway /\ SourcesServed /\ ReadyMirrored

LEMMA NoStatusType == NoStatus \in Status /\ NoStatus.observed = 0
BY ConditionTypes DEF NoStatus

LEMMA InitHostInv ==
  ASSUME Init
  PROVE  HostInv
<1> USE HostAssumption DEF Init
<1>1. server \in Host /\ server.gen = 1 /\ server.status.observed = 0
      /\ server.spec = world.start
  BY NoStatusType DEF Host
<1>2. worker.step = "idle" /\ worker = Idle
  BY DEF Idle
<1>3. TypeOK
  <2>1. world \in Worlds /\ deployment \in world.deployments
        /\ object \in [Objects -> Object]
    OBVIOUS
  <2>2. /\ server \in Host /\ cache \in Host /\ cache.gen <= server.gen
        /\ server.status.observed <= server.gen
    BY <1>1
  <2>3. \A n \in Names : copies[n] = None \/ Name[copies[n].source] = n
    OBVIOUS
  <2>4. internal.gen <= server.gen
    BY <1>1
  <2>5. /\ synced \in BOOLEAN /\ queued \in BOOLEAN /\ running \in BOOLEAN
        /\ cache = server
    OBVIOUS
  <2>6. edits \in 0..MaxEdits /\ troubles \in 0..MaxTroubles
    OBVIOUS
  <2> QED BY <1>2, <2>1, <2>2, <2>3, <2>4, <2>5, <2>6 DEF TypeOK
<1>4. internal \in InternalHost /\ internal.gen = 0 /\ internal.translations = <<>>
  BY DEF InternalHost
<1>5. Shapes /\ Generations /\ Underway /\ ReadyMirrored
  BY <1>1, <1>2, <1>4 DEF Shapes, Generations, Underway, ReadyMirrored
<1>6. SourcesServed
  BY <1>2, <1>4 DEF SourcesServed
<1> QED BY <1>3, <1>5, <1>6 DEF HostInv

-----------------------------------------------------------------------------
(* What a step that is not part of a call leaves alone *)

\* The internal host but for what the host manager reports on it.
SameMirror(old, new) ==
  /\ new.exists = old.exists /\ new.gen = old.gen /\ new.spec = old.spec
  /\ new.translations = old.translations /\ new.pages = old.pages

LEMMA WorkerTypes ==
  ASSUME Shapes
  PROVE  /\ worker = Idle => worker.step = "idle"
         /\ worker # Idle => worker \in Calls /\ worker.step \in {"helm", "patch"}
         /\ worker \in Calls => /\ worker.gen \in Nat /\ worker.spec \in world.specs
                                /\ worker.status \in Status
                                /\ worker.status.conditions \in Conditions
                                /\ worker.order \in Seq(Translations)
                                /\ worker # Idle
BY ConditionTypes DEF Shapes, Calls, Idle

\* A step in which the call stands still: what it relies on is unchanged, or
\* moves to a generation it is not of.
LEMMA CallStands ==
  ASSUME TypeOK, Rest,
         world' = world, worker' = worker, copies' = copies,
         internal' \in InternalHost, SameMirror(internal, internal'),
         cache' = cache \/ cache' = server,
         server'.gen \in Nat,
         \/ server'.gen = server.gen /\ server'.spec = server.spec
         \/ server'.gen = server.gen + 1 /\ cache' = cache
  PROVE  Rest'
<1> USE DEF Rest
<1>0. /\ server.gen \in Nat /\ cache.gen \in Nat /\ cache.gen <= server.gen
      /\ server'.gen >= server.gen
      /\ cache.status.observed \in Nat /\ server.status.observed \in Nat
      /\ server.status.observed <= server.gen
  <2>1. /\ server.gen \in Nat /\ cache.gen \in Nat /\ cache.gen <= server.gen
        /\ server.status.observed <= server.gen
        /\ server.status \in Status /\ cache.status \in Status
    BY WorldTypes
  <2>2. server'.gen >= server.gen
    BY <2>1
  <2>3. cache.status.observed \in Nat /\ server.status.observed \in Nat
    BY <2>1 DEF Status
  <2> QED BY <2>1, <2>2, <2>3
<1>1. Shapes'
  <2>1. internal' \in InternalHost'
    BY DEF InternalHost
  <2>2. worker' \in (Calls \cup {Idle})'
    BY DEF Shapes, Calls, Idle, Status
  <2>3. cache'.status.observed <= server'.gen
    BY <1>0 DEF Shapes
  <2>4. worker # Idle => worker.status.observed \in Nat
    BY WorkerTypes DEF Status
  <2>5. worker' # Idle' => worker'.status.observed <= server'.gen
    BY <1>0, <2>4 DEF Shapes, Idle
  <2> QED BY <2>1, <2>2, <2>3, <2>5 DEF Shapes
<1>2. Generations'
  <2>1. internal.gen \in Nat /\ internal'.gen = internal.gen
    BY DEF Shapes, InternalHost, SameMirror
  <2>2. worker.step = "helm" => worker.gen \in Nat
    BY WorkerTypes
  <2>3. cache'.gen = server'.gen => cache'.spec = server'.spec
    BY <1>0 DEF Generations
  <2>4. internal'.gen <= cache'.gen
    BY <1>0, <2>1 DEF Generations
  <2>5. worker'.step = "helm" => /\ internal'.gen <= worker'.gen
                                 /\ worker'.gen <= cache'.gen
                                 /\ worker'.gen = server'.gen => worker'.spec = server'.spec
    BY <1>0, <2>1, <2>2 DEF Generations
  <2> QED BY <2>3, <2>4, <2>5 DEF Generations
<1>3. Underway'
  BY DEF Underway
<1>4. SourcesServed'
  BY DEF SourcesServed, SameMirror, IsDeclared
<1>5. ReadyMirrored'
  BY DEF ReadyMirrored, SameMirror, Ready, Triple
<1> QED BY <1>1, <1>2, <1>3, <1>4, <1>5

\* A step that ends the call.
LEMMA CallEnds ==
  ASSUME TypeOK, Rest,
         world' = world, worker' = Idle, internal' = internal,
         cache' = cache \/ cache' = server,
         server'.gen = server.gen /\ server'.spec = server.spec
  PROVE  Rest'
<1> USE DEF Rest
<1>0. server.gen \in Nat /\ cache.gen \in Nat /\ cache.gen <= server.gen
      /\ server.status.observed <= server.gen
  BY WorldTypes
<1>1. worker'.step = "idle" /\ worker' = Idle'
  BY DEF Idle
<1>2. Shapes'
  BY <1>0, <1>1 DEF Shapes, InternalHost, Idle
<1>3. Generations'
  <2>1. internal.gen \in Nat
    BY DEF Shapes, InternalHost
  <2> QED BY <1>0, <1>1, <2>1 DEF Generations
<1>4. Underway' /\ ReadyMirrored'
  BY <1>1 DEF Underway, ReadyMirrored
<1>5. SourcesServed'
  BY <1>1 DEF SourcesServed
<1> QED BY <1>2, <1>3, <1>4, <1>5

-----------------------------------------------------------------------------
(* A call that ends before Helm *)

\* What the type invariant has about the host and the goroutine, where a step
\* leaves them alone.
LEMMA HostStands ==
  ASSUME TypeOK, world' = world, server' = server, cache' = cache, synced' = synced,
         running' = running
  PROVE  /\ (server \in Host)'
         /\ (cache \in Host)'
         /\ (synced \in BOOLEAN)'
         /\ (synced => cache = server)'
         /\ (running \in BOOLEAN)'
<1>1. Host' = Host
  BY DEF Host, Status
<1> QED BY <1>1 DEF TypeOK

\* Recording the copies that were written changes nothing else of the call.
LEMMA RecordedFresh ==
  ASSUME TypeOK, NEW order \in Seq(Translations), NEW k \in 0..Len(order)
  PROVE  Fresh(Recorded(order, k))
<1> DEFINE some == {Name[order[m]] : m \in 1..k}
           status == [Themed.status EXCEPT !.copied = @ \cup some]
           call == [Themed EXCEPT !.status = status]
<1>1. /\ Themed \in Calls /\ Themed.step = "helm" /\ Themed.gen = cache.gen
      /\ Themed.spec = cache.spec /\ Themed.status.observed = cache.status.observed
      /\ Themed.status.conditions \in {Reconciling, Waiting} /\ Themed.status \in Status
  BY ThemedFresh DEF Fresh, Calls
<1>2. some \subseteq Names
  BY DEF Names
<1>3. /\ status \in Status /\ status.observed = Themed.status.observed
      /\ status.conditions = Themed.status.conditions
  <2> HIDE DEF some
  <2> QED BY <1>1, <1>2 DEF Status
<1>4. Recorded(order, k) = call
  BY <1>1 DEF Recorded, Calls
<1> HIDE DEF status
<1>5. /\ call \in Calls /\ call.step = Themed.step /\ call.gen = Themed.gen
      /\ call.spec = Themed.spec /\ call.status = status
  BY <1>1, <1>3 DEF Calls
<1> HIDE DEF call
<1> QED BY <1>1, <1>3, <1>4, <1>5 DEF Fresh

\* A call that gives up before Helm has mirrored nothing and does not say Ready.
LEMMA GivesUp ==
  ASSUME TypeOK, Rest, NEW call, Fresh(call),
         NEW conditions \in {Reconciling, Waiting, Degraded},
         NEW notFound \in BOOLEAN, Leave(call, conditions, TRUE, notFound),
         UNCHANGED host, UNCHANGED surroundings, UNCHANGED internal,
         UNCHANGED running,
         NamedRight(copies'), queued' \in BOOLEAN, troubles' \in 0..MaxTroubles
  PROVE  TypeOK' /\ Rest'
<1> USE DEF Rest, host, surroundings
<1>0. /\ server.gen \in Nat /\ cache.gen \in Nat /\ cache.gen <= server.gen
      /\ cache.status.observed <= server.gen
  BY WorldTypes DEF Shapes
<1>1. /\ worker' \in Calls /\ worker'.step = "patch" /\ worker'.gen = cache.gen
      /\ worker'.status.conditions.ready # "True"
      /\ worker'.status.observed = cache.status.observed
      /\ worker'.status \in Status
  <2>1. call \in Calls /\ conditions \in Conditions /\ TRUE \in BOOLEAN
        /\ conditions.ready # "True"
    BY ConditionTypes DEF Fresh
  <2>2. /\ worker' \in Calls /\ worker'.step = "patch" /\ worker'.gen = call.gen
        /\ worker'.status.conditions = conditions
        /\ worker'.status.observed = call.status.observed
    BY <2>1, LeaveType
  <2>3. worker'.status \in Status
    BY <2>2 DEF Calls
  <2> QED BY <2>1, <2>2, <2>3 DEF Fresh
<1>2. worker' # Idle' /\ worker'.step # "helm"
  BY <1>1 DEF Idle
<1>3. TypeOK'
  <2>1. /\ (server \in Host)' /\ (cache \in Host)' /\ (synced \in BOOLEAN)'
        /\ (synced => cache = server)' /\ (running \in BOOLEAN)'
    BY HostStands
  <2>2. (worker # Idle => /\ worker.step \in {"helm", "patch"}
                          /\ worker.gen <= server.gen
                          /\ worker.status \in Status)'
    BY <1>0, <1>1 DEF Status
  <2> QED BY <2>1, <2>2 DEF TypeOK, NamedRight
<1>4. Shapes'
  BY <1>0, <1>1, <1>2 DEF Shapes, InternalHost, Calls, Status
<1>5. Generations'
  BY <1>2 DEF Generations
<1>6. Underway' /\ SourcesServed'
  BY <1>2 DEF Underway, SourcesServed
<1>7. ReadyMirrored'
  BY <1>1, ConditionTypes DEF ReadyMirrored, Ready, Triple
<1> QED BY <1>3, <1>4, <1>5, <1>6, <1>7

\* The type invariant has what a call may find in the copies.
LEMMA CopiesTyped ==
  ASSUME TypeOK
  PROVE  NamedRight(copies)
BY DEF TypeOK, NamedRight

\* resolveTranslations hands over an order whose sources have different names
\* and whose copies were just written.
LEMMA Resolved ==
  ASSUME TypeOK, Rest, resolveTranslations
  PROVE  TypeOK' /\ Rest'
<1> DEFINE spec == cache.spec
           order == orderTranslationSources(spec)
           kept == {Name[order[n]] : n \in DOMAIN order}
           written == Written(order, Len(order), spec)
           status == [Themed.status EXCEPT !.copied = kept]
           call == [Themed EXCEPT !.order = order, !.collision = Collision(spec),
                                  !.status = status]
<1>0. /\ server.gen \in Nat /\ cache.gen \in Nat /\ cache.gen <= server.gen
      /\ cache.status.observed <= server.gen
      /\ spec \in world.specs /\ spec.translationRefs \in Seq(Translations)
  BY WorldTypes DEF Rest, Shapes
<1>1. order \in Seq(Translations) /\ Len(order) \in Nat /\ DOMAIN order = 1..Len(order)
  BY <1>0, SourceTypes
<1>2. \A m, n \in DOMAIN order : Name[order[m]] = Name[order[n]] => m = n
  BY <1>0, OrderApart
<1>3. /\ Themed \in Calls /\ Themed.step = "helm" /\ Themed.gen = cache.gen
      /\ Themed.spec = spec /\ Themed.status.observed = cache.status.observed
      /\ Themed.status.conditions \in {Reconciling, Waiting} /\ Themed.status \in Status
  BY ThemedFresh DEF Fresh, Calls
<1>4. /\ worker' = [Themed EXCEPT !.order = order, !.collision = Collision(spec),
                                  !.status.copied = kept]
      /\ \/ copies' = Pruned(written, kept) /\ UNCHANGED troubles
         \/ copies' = written /\ Trouble
      /\ queued' = (<<pages, copies>>' # <<pages, copies>>)
      /\ UNCHANGED <<host, surroundings, internal, running>>
  BY DEF resolveTranslations, Owned
<1>5. kept \subseteq Names
  BY <1>1 DEF Names
<1>6. /\ NamedRight(written)
      /\ \A m \in DOMAIN order : written[Name[order[m]]] = InternalTranslation(order[m], spec)
  <2>1. Len(order) \in 0..Len(order)
    BY <1>1
  <2>2. NamedRight(copies)
    BY CopiesTyped
  <2> DEFINE k == Len(order)
  <2>3. k \in 0..Len(order)
    BY <2>1
  <2> HIDE DEF order, spec, k
  <2>4. LET w == Written(order, k, spec)
        IN  /\ NamedRight(w)
            /\ (\A m, n \in DOMAIN order : Name[order[m]] = Name[order[n]] => m = n)
               => \A m \in 1..k : w[Name[order[m]]] = InternalTranslation(order[m], spec)
    BY <1>1, <2>2, <2>3, WrittenCopies
  <2>5. written = Written(order, k, spec) /\ DOMAIN order = 1..k
    BY <1>1 DEF k
  <2> HIDE DEF written
  <2> QED BY <1>2, <2>4, <2>5
<1>7. /\ NamedRight(copies')
      /\ \A m \in DOMAIN order : copies'[Name[order[m]]] = InternalTranslation(order[m], spec)
  <2>1. \A m \in DOMAIN order : Name[order[m]] \in kept /\ Name[order[m]] \in Names
    BY <1>5
  <2> HIDE DEF order, spec, written, kept
  <2> QED BY <1>4, <1>6, <2>1 DEF NamedRight, Pruned
<1>8. /\ status \in Status /\ status.observed = cache.status.observed
      /\ status.conditions = Themed.status.conditions
  <2> HIDE DEF kept, spec
  <2> QED BY <1>3, <1>5, ConditionTypes
<1>9. worker' = call
  <2> HIDE DEF order, kept, spec
  <2> QED BY <1>3, <1>4 DEF Calls
<1>10. /\ call \in Calls /\ call.step = "helm" /\ call.gen = cache.gen /\ call.spec = spec
       /\ call.status = status /\ call.order = order
  <2>1. Collision(spec) \in BOOLEAN
    BY DEF Collision
  <2> HIDE DEF order, kept, spec, status
  <2> QED BY <1>1, <1>3, <1>8, <2>1 DEF Calls
<1>11. /\ worker' \in Calls /\ worker'.step = "helm" /\ worker'.gen = cache.gen
       /\ worker'.spec = cache.spec /\ worker'.order = order
       /\ worker'.status \in Status /\ worker'.status.observed = cache.status.observed
       /\ worker'.status.conditions.ready # "True"
  <2> HIDE DEF order, kept, status, call
  <2> QED BY <1>3, <1>8, <1>9, <1>10, ConditionTypes
<1> HIDE DEF order, kept, spec, written, status, call
<1>12. TypeOK'
  <2>1. /\ (server \in Host)' /\ (cache \in Host)' /\ (synced \in BOOLEAN)'
        /\ (synced => cache = server)' /\ (running \in BOOLEAN)'
    BY <1>4, HostStands DEF host, surroundings
  <2>2. (worker # Idle => /\ worker.step \in {"helm", "patch"}
                          /\ worker.gen <= server.gen
                          /\ worker.status \in Status)'
    BY <1>0, <1>4, <1>11 DEF Status, host
  <2>3. troubles' \in 0..MaxTroubles
    BY <1>4, HostAssumption DEF TypeOK, Trouble
  <2>4. queued' \in BOOLEAN
    BY <1>4
  <2> QED BY <1>4, <1>7, <2>1, <2>2, <2>3, <2>4
          DEF TypeOK, NamedRight, host, surroundings
<1>13. Shapes'
  BY <1>0, <1>4, <1>11 DEF Rest, Shapes, InternalHost, Calls, Status, host, surroundings
<1>14. Generations'
  BY <1>0, <1>4, <1>11 DEF Rest, Generations, host
<1>15. Underway'
  BY <1>2, <1>11 DEF Underway
<1>16. ReadyMirrored'
  BY <1>11 DEF ReadyMirrored
<1>17. SourcesServed'
  <2>1. \A m \in DOMAIN order :
          LET copy == copies'[Name[order[m]]]
          IN  /\ copy.source = order[m]
              /\ copy.wording => order[m] = DefaultTranslation
                                 \/ IsDeclared(order[m], cache.spec)
    <3> SUFFICES ASSUME NEW m \in DOMAIN order
                 PROVE  LET copy == copies'[Name[order[m]]]
                        IN  /\ copy.source = order[m]
                            /\ copy.wording => order[m] = DefaultTranslation
                                               \/ IsDeclared(order[m], cache.spec)
      OBVIOUS
    <3>1. copies'[Name[order[m]]] =
            [source |-> order[m], version |-> object[order[m]].version,
             wording |-> Worded(order[m], cache.spec)]
      BY <1>7 DEF InternalTranslation, spec
    <3>2. Worded(order[m], cache.spec) =>
            order[m] = DefaultTranslation \/ IsDeclared(order[m], cache.spec)
      BY DEF Worded
    <3> QED BY <3>1, <3>2
  <2> QED BY <1>4, <1>11, <2>1 DEF Rest, SourcesServed
<1> QED BY <1>12, <1>13, <1>14, <1>15, <1>16, <1>17 DEF Rest

-----------------------------------------------------------------------------
(* The mirror and the ladder *)

\* The call as it mirrors: with the generation of a fresh read, the spec and
\* the references as before.
Judged(call) ==
  /\ call \in Calls
  /\ call.gen = cache.gen /\ call.spec = worker.spec
  /\ call.order = worker.order /\ call.pages = worker.pages
  /\ call.status.observed = worker.status.observed
  /\ call.status.conditions.ready # "True"

LEMMA HelmJudges ==
  ASSUME TypeOK, Rest, worker.step = "helm"
  PROVE  Judged(Refreshed(worker)) /\ Judged(Launched(worker))
<1> DEFINE call == Refreshed(worker)
           conditions == [call.status.conditions EXCEPT !.ready = "False",
                                                        !.progressing = "True"]
           status == [call.status EXCEPT !.helm = "in_progress",
                                         !.conditions = conditions]
           launched == [call EXCEPT !.status = status]
<1>1. worker \in Calls /\ worker.status.conditions.ready # "True" /\ cache.gen \in Nat
  BY WorkerTypes, WorldTypes DEF Rest, Underway, Idle
<1>2. /\ call \in Calls /\ call.gen = cache.gen /\ call.spec = worker.spec
      /\ call.order = worker.order /\ call.pages = worker.pages
      /\ call.status = worker.status
  BY <1>1 DEF Refreshed, Calls
<1>3. Judged(call)
  <2> HIDE DEF call
  <2> QED BY <1>1, <1>2 DEF Judged
<1> HIDE DEF call
<1>4. call.status \in Status /\ call.status.conditions \in Conditions
  BY <1>2, ConditionTypes DEF Calls
<1>5. conditions \in Conditions /\ conditions.ready = "False"
  BY <1>4 DEF Conditions
<1>6. Launched(worker) = launched
  <2> DEFINE rendering == [call EXCEPT !.status = [call.status EXCEPT !.helm = "in_progress"]]
             unready == [rendering EXCEPT !.status =
                           [rendering.status EXCEPT !.conditions =
                              [rendering.status.conditions EXCEPT !.ready = "False"]]]
             moving == [unready EXCEPT !.status =
                          [unready.status EXCEPT !.conditions =
                             [unready.status.conditions EXCEPT !.progressing = "True"]]]
  <2>1. Launched(worker) = moving
    BY DEF Launched, call
  <2>2. rendering \in Calls /\ rendering.status = [call.status EXCEPT !.helm = "in_progress"]
    BY <1>2, <1>4, ConditionTypes DEF Calls
  <2>3. rendering.status.conditions = call.status.conditions
        /\ rendering.status \in Status
    BY <1>4, <2>2, ConditionTypes
  <2>4. unready = [call EXCEPT !.status =
                     [rendering.status EXCEPT !.conditions =
                        [call.status.conditions EXCEPT !.ready = "False"]]]
    <3> DEFINE new == [rendering.status EXCEPT !.conditions =
                         [call.status.conditions EXCEPT !.ready = "False"]]
    <3>1. unready = [rendering EXCEPT !.status = new]
      BY <2>3
    <3>2. \A st : [rendering EXCEPT !.status = st] = [call EXCEPT !.status = st]
      BY <1>2 DEF Calls
    <3> HIDE DEF new, rendering, unready
    <3>3. unready = [call EXCEPT !.status = new]
      BY <3>1, <3>2
    <3> QED BY <3>3 DEF new
  <2>5. moving = [call EXCEPT !.status =
                    [rendering.status EXCEPT !.conditions = conditions]]
    <3> HIDE DEF rendering, unready
    <3>1. [call.status.conditions EXCEPT !.ready = "False"] \in Conditions
      BY <1>4 DEF Conditions
    <3>2. unready.status = [rendering.status EXCEPT !.conditions =
                              [call.status.conditions EXCEPT !.ready = "False"]]
      BY <1>2, <2>4 DEF Calls
    <3>3. unready.status.conditions = [call.status.conditions EXCEPT !.ready = "False"]
      BY <2>3, <3>1, <3>2, ConditionTypes
    <3>4. [unready.status EXCEPT !.conditions = conditions]
            = [rendering.status EXCEPT !.conditions = conditions]
      BY <2>3, <3>1, <3>2, ConditionTypes
    <3>5. moving = [unready EXCEPT !.status =
                      [unready.status EXCEPT !.conditions = conditions]]
      BY <3>3
    <3> HIDE DEF conditions, moving
    <3> QED BY <1>2, <2>4, <3>4, <3>5 DEF Calls
  <2>6. [rendering.status EXCEPT !.conditions = conditions] = status
    <3> HIDE DEF conditions
    <3> QED BY <1>4, <2>2, ConditionTypes
  <2> HIDE DEF moving, rendering, unready, status, conditions
  <2> QED BY <2>1, <2>5, <2>6
<1> HIDE DEF conditions
<1>7. status \in Status /\ status.conditions = conditions
      /\ status.observed = call.status.observed
  BY <1>4, <1>5, ConditionTypes
<1> HIDE DEF status
<1>8. /\ launched \in Calls /\ launched.gen = call.gen /\ launched.spec = call.spec
      /\ launched.order = call.order /\ launched.pages = call.pages
      /\ launched.status = status
  BY <1>2, <1>7 DEF Calls
<1>9. Judged(launched)
  <2> HIDE DEF launched
  <2> QED BY <1>2, <1>5, <1>7, <1>8 DEF Judged
<1> QED BY <1>3, <1>6, <1>9 DEF call

\* Ready is the last rung: nothing is left to report, and the charts are
\* neither being rendered nor failed.
LEMMA LadderOutcome ==
  ASSUME NEW call \in Calls, call.status.conditions.ready # "True", Ladder(call)
  PROVE  \E conditions \in Conditions, again \in BOOLEAN :
           /\ Leave(call, conditions, again, FALSE)
           /\ conditions = Ready => ~HelmRung(call) /\ ~DegradedRung(call)
<1>1. /\ call.status.conditions \in Conditions /\ call.status.conditions # Ready
      /\ call.requeue \in BOOLEAN /\ TRUE \in BOOLEAN /\ FALSE \in BOOLEAN
  BY ConditionTypes DEF Calls
<1>2. /\ Waiting \in Conditions /\ Degraded \in Conditions /\ Ready \in Conditions
      /\ Waiting # Ready /\ Degraded # Ready
  BY ConditionTypes
<1>3. CASE call.unresolved
  BY <1>1, <1>3 DEF Ladder
<1>4. CASE ~call.unresolved /\ HelmRung(call)
  BY <1>1, <1>4 DEF Ladder
<1>5. CASE ~call.unresolved /\ ~HelmRung(call) /\ WaitingRung
  BY <1>1, <1>2, <1>5 DEF Ladder
<1>6. CASE ~call.unresolved /\ ~HelmRung(call) /\ ~WaitingRung
  BY <1>1, <1>2, <1>6 DEF Ladder
<1> QED BY <1>3, <1>4, <1>5, <1>6

LEMMA ReflectionIs ==
  ASSUME TypeOK, Rest, NEW call, Judged(call)
  PROVE  LET reflection == Reflection(call)
         IN  /\ reflection \in InternalHost /\ reflection.exists
             /\ reflection.gen = call.gen /\ reflection.spec = call.spec
             /\ reflection.pages = call.pages
             /\ reflection.translations = [n \in DOMAIN call.order |-> Name[call.order[n]]]
<1> DEFINE names == [n \in DOMAIN call.order |-> Name[call.order[n]]]
           reflection == [internal EXCEPT !.exists = TRUE, !.gen = call.gen,
                                          !.spec = call.spec, !.translations = names,
                                          !.pages = call.pages]
<1>1. internal \in InternalHost /\ call \in Calls
  BY DEF Rest, Shapes, Judged
<1>2. call.order \in Seq(Translations)
  BY <1>1 DEF Calls
<1>3. names \in Seq(Names)
  BY <1>2 DEF Names
<1>4. Reflection(call) = reflection
  BY DEF Reflection
<1> HIDE DEF names
<1>5. reflection \in InternalHost
  BY <1>1, <1>3 DEF InternalHost, Calls
<1>6. /\ reflection.exists /\ reflection.gen = call.gen /\ reflection.spec = call.spec
      /\ reflection.pages = call.pages /\ reflection.translations = names
  BY <1>1 DEF InternalHost
<1> QED BY <1>4, <1>5, <1>6 DEF names

LEMMA TroubleTyped ==
  ASSUME TypeOK, Trouble
  PROVE  troubles' \in 0..MaxTroubles
BY HostAssumption DEF TypeOK, Trouble

\* A call that got as far as Helm ends with the mirror written and judged, or
\* as it was and without saying Ready.
LEMMA CallJudges ==
  ASSUME TypeOK, Rest, worker.step = "helm", NEW call, Judged(call),
         MirrorAndJudge(call)
  PROVE  /\ worker' \in Calls /\ worker'.step = "patch"
         /\ worker'.gen = call.gen /\ worker'.spec = call.spec
         /\ worker'.order = call.order /\ worker'.pages = call.pages
         /\ worker'.status.observed = worker.status.observed
         /\ queued' \in BOOLEAN /\ troubles' \in 0..MaxTroubles
         /\ internal' \in {internal, Reflection(call)}
         /\ worker'.status.conditions = Ready =>
              /\ internal' = Reflection(call)
              /\ ~worker'.collision /\ worker'.spec.selectorParses
              /\ worker'.status.helm \notin {"in_progress", "failed"}
<1>0. /\ call \in Calls /\ call.status.conditions.ready # "True"
      /\ call.status.observed = worker.status.observed
  BY DEF Judged
<1>1. CASE /\ Mirror(call)
           /\ queued' = (queued \/ internal' # internal)
           /\ Ladder(call)
           /\ UNCHANGED troubles
  <2>1. PICK conditions \in Conditions, again \in BOOLEAN :
          /\ Leave(call, conditions, again, FALSE)
          /\ conditions = Ready => ~HelmRung(call) /\ ~DegradedRung(call)
    BY <1>0, <1>1, LadderOutcome
  <2>2. /\ worker' \in Calls /\ worker'.step = "patch"
        /\ worker'.gen = call.gen /\ worker'.spec = call.spec
        /\ worker'.status.conditions = conditions
        /\ worker'.status.observed = call.status.observed
        /\ worker'.status.helm = call.status.helm
        /\ worker'.order = call.order /\ worker'.pages = call.pages
        /\ worker'.collision = call.collision
    <3>1. FALSE \in BOOLEAN
      OBVIOUS
    <3> QED BY <1>0, <2>1, <3>1, LeaveType
  <2>3. internal' = Reflection(call)
    BY <1>1 DEF Mirror
  <2>4. worker'.status.conditions = Ready =>
          /\ ~worker'.collision /\ worker'.spec.selectorParses
          /\ worker'.status.helm \notin {"in_progress", "failed"}
    BY <2>1, <2>2 DEF HelmRung, DegradedRung
  <2>5. queued' \in BOOLEAN /\ troubles' \in 0..MaxTroubles
    BY <1>1 DEF TypeOK
  <2> QED BY <1>0, <2>2, <2>3, <2>4, <2>5
<1>2. CASE Trouble /\ Fail(call) /\ UNCHANGED <<internal, queued>>
  <2>1. Leave(call, Degraded, TRUE, FALSE) /\ Degraded \in Conditions /\ Degraded # Ready
        /\ TRUE \in BOOLEAN /\ FALSE \in BOOLEAN
    BY <1>2, ConditionTypes DEF Fail
  <2>2. /\ worker' \in Calls /\ worker'.step = "patch"
        /\ worker'.gen = call.gen /\ worker'.spec = call.spec
        /\ worker'.status.conditions = Degraded
        /\ worker'.status.observed = call.status.observed
        /\ worker'.order = call.order /\ worker'.pages = call.pages
    BY <1>0, <2>1, LeaveType
  <2>3. queued' \in BOOLEAN /\ troubles' \in 0..MaxTroubles
    BY <1>2, TroubleTyped DEF TypeOK
  <2> QED BY <1>0, <1>2, <2>1, <2>2, <2>3
<1> QED BY <1>1, <1>2 DEF MirrorAndJudge

\* What the call judged keeps the internal host in step: no generation is
\* mirrored twice with different specs.
LEMMA MirrorKeeps ==
  ASSUME TypeOK, Rest, worker.step = "helm", NEW call, Judged(call),
         MirrorAndJudge(call), world' = world, copies' = copies, cache' = cache,
         server'.gen = server.gen, server'.spec = server.spec
  PROVE  /\ Rest'
         /\ internal'.gen <= server.gen /\ internal'.gen >= internal.gen
         /\ Current => internal'.spec = internal.spec
<1> USE DEF Rest
<1>0. /\ server.gen \in Nat /\ cache.gen \in Nat /\ cache.gen <= server.gen
      /\ cache.status.observed <= server.gen /\ worker.status.observed <= server.gen
      /\ worker \in Calls /\ worker.gen \in Nat /\ internal.gen \in Nat
  BY WorldTypes, WorkerTypes DEF Shapes, Idle, InternalHost
<1>1. /\ worker' \in Calls /\ worker'.step = "patch"
      /\ worker'.gen = call.gen /\ worker'.spec = call.spec
      /\ worker'.order = call.order /\ worker'.pages = call.pages
      /\ worker'.status.observed = worker.status.observed
      /\ internal' \in {internal, Reflection(call)}
      /\ worker'.status.conditions = Ready =>
           /\ internal' = Reflection(call)
           /\ ~worker'.collision /\ worker'.spec.selectorParses
           /\ worker'.status.helm \notin {"in_progress", "failed"}
  BY CallJudges
<1>2. /\ Reflection(call) \in InternalHost /\ Reflection(call).exists
      /\ Reflection(call).gen = cache.gen /\ Reflection(call).spec = worker.spec
      /\ Reflection(call).pages = worker.pages
      /\ Reflection(call).translations =
           [n \in DOMAIN worker.order |-> Name[worker.order[n]]]
  BY ReflectionIs DEF Judged
<1>3. call.gen = cache.gen /\ call.spec = worker.spec /\ call.order = worker.order
      /\ call.pages = worker.pages
  BY DEF Judged
<1>4. internal' \in InternalHost
  BY <1>1, <1>2 DEF Shapes
<1>5. internal'.gen \in {internal.gen, cache.gen} /\ internal.gen <= cache.gen
  BY <1>1, <1>2 DEF Generations
<1>6. Shapes'
  BY <1>0, <1>1, <1>4 DEF Shapes, InternalHost, Calls, Status
<1>7. Generations'
  BY <1>0, <1>1, <1>5 DEF Generations
<1>8. Underway'
  BY <1>1 DEF Underway
<1>9. SourcesServed'
  <2>1. \A m, n \in DOMAIN worker.order :
          Name[worker.order[m]] = Name[worker.order[n]] => m = n
    BY DEF Underway
  <2>2. \A m, n \in DOMAIN Reflection(call).translations :
          Reflection(call).translations[m] = Reflection(call).translations[n] => m = n
    BY <1>2, <2>1
  <2>3. \A m, n \in DOMAIN internal'.translations :
          internal'.translations[m] = internal'.translations[n] => m = n
    BY <1>1, <2>2 DEF SourcesServed
  <2> QED BY <1>1, <2>3 DEF SourcesServed
<1>10. ReadyMirrored'
  <2> SUFFICES ASSUME worker'.status.conditions = Ready
               PROVE  /\ internal'.exists
                      /\ internal'.gen = worker'.gen /\ internal'.spec = worker'.spec
                      /\ internal'.pages = worker'.pages
                      /\ internal'.translations =
                           [n \in DOMAIN worker'.order |-> Name[worker'.order[n]]]
                      /\ \A n \in DOMAIN worker'.order :
                           copies'[internal'.translations[n]].source = worker'.order[n]
                      /\ ~worker'.collision /\ worker'.spec.selectorParses
                      /\ worker'.status.helm \notin {"in_progress", "failed"}
    BY DEF ReadyMirrored, Ready, Triple
  <2>1. \A n \in DOMAIN worker.order : copies[Name[worker.order[n]]].source = worker.order[n]
    BY DEF SourcesServed
  <2>2. internal' = Reflection(call)
    BY <1>1
  <2> QED BY <1>1, <1>2, <1>3, <2>1, <2>2
<1>11. Current => internal'.spec = internal.spec
  <2> SUFFICES ASSUME Current, internal' = Reflection(call)
               PROVE  internal'.spec = internal.spec
    BY <1>1
  <2>1. worker.gen = server.gen
    BY <1>0 DEF Current, Generations
  <2>2. worker.spec = server.spec
    BY <2>1 DEF Generations
  <2> QED BY <1>2, <2>2 DEF Current, wanted
<1>12. internal'.gen <= server.gen /\ internal'.gen >= internal.gen
  BY <1>0, <1>5
<1> QED BY <1>6, <1>7, <1>8, <1>9, <1>10, <1>11, <1>12

-----------------------------------------------------------------------------
(* The steps of users, other controllers, the informer and the goroutine *)

\* A patch of the status keeps the generation and the spec.
LEMMA StatusPatched ==
  ASSUME TypeOK, world' = world, cache' = cache,
         NEW desired \in Status, desired.observed <= server.gen,
         NEW status \in Merged(server.status, cache.status, desired),
         Store([server EXCEPT !.status = status])
  PROVE  /\ (server \in Host)' /\ (cache \in Host)'
         /\ server'.gen = server.gen /\ server'.spec = server.spec
         /\ server'.status.observed <= server'.gen
         /\ synced' \in BOOLEAN
         /\ synced' => cache' = server'
<1>1. /\ server \in Host /\ cache \in Host /\ server.gen \in Nat
      /\ server.status \in Status /\ cache.status \in Status
      /\ server.status.observed <= server.gen
  BY WorldTypes DEF TypeOK
<1>2. /\ status \in Status
      /\ status.observed \in {server.status.observed, desired.observed}
  BY <1>1, MergedType
<1>3. server' = [server EXCEPT !.status = status] /\ synced' = (synced /\ server' = server)
  BY DEF Store
<1>4. /\ server' \in Host /\ server'.gen = server.gen /\ server'.spec = server.spec
      /\ server'.status = status
  BY <1>1, <1>2, <1>3 DEF Host
<1>5. Host' = Host
  BY DEF Host, Status
<1>6. synced' \in BOOLEAN /\ (synced' => cache' = server')
  BY <1>3 DEF TypeOK
<1> QED BY <1>1, <1>2, <1>4, <1>5, <1>6

LEMMA EditTyped ==
  ASSUME TypeOK, Edit
  PROVE  /\ edits' \in 0..MaxEdits
         /\ UNCHANGED <<world, cache, copies, pages, worker, running, troubles>>
BY HostAssumption DEF TypeOK, Edit

\* What the type invariant has about a call that stands still.
LEMMA WorkerStands ==
  ASSUME TypeOK, worker' = worker, server'.gen \in Nat, server'.gen >= server.gen, Rest
  PROVE  (worker # Idle => /\ worker.step \in {"helm", "patch"}
                           /\ worker.gen <= server.gen
                           /\ worker.status \in Status)'
<1>1. server.gen \in Nat
  BY WorldTypes
<1>2. worker # Idle => /\ worker.gen \in Nat /\ worker.gen <= server.gen
                       /\ worker.step \in {"helm", "patch"} /\ worker.status \in Status
  BY WorkerTypes DEF Rest, TypeOK
<1>3. Idle' = Idle /\ Status' = Status
  BY DEF Idle, Status
<1>4. worker # Idle => worker.gen <= server'.gen
  BY <1>1, <1>2
<1> QED BY <1>2, <1>3, <1>4

LEMMA EditSpecKeeps ==
  ASSUME HostInv, EditSpec
  PROVE  HostInv'
<1> USE DEF HostInv, Rest
<1>1. /\ edits' \in 0..MaxEdits
      /\ UNCHANGED <<world, cache, copies, pages, worker, running, troubles>>
      /\ UNCHANGED <<object, internal, deployment, queued>>
  BY EditTyped DEF EditSpec
<1>2. PICK spec \in world.specs \ {server.spec} :
        Store([server EXCEPT !.spec = spec, !.gen = @ + 1])
  BY DEF EditSpec
<1>3. /\ server \in Host /\ cache \in Host /\ server.gen \in Nat /\ cache.gen \in Nat
      /\ cache.gen <= server.gen /\ server.status.observed \in Nat
      /\ server.status.observed <= server.gen
  BY WorldTypes DEF TypeOK, Status
<1>4. /\ server' \in Host /\ server'.gen = server.gen + 1 /\ server'.status = server.status
  <2>1. server' = [server EXCEPT !.spec = spec, !.gen = server.gen + 1]
    BY <1>2 DEF Store
  <2>2. spec \in world.specs /\ server.gen + 1 \in Nat
    BY <1>3
  <2> QED BY <1>3, <2>1, <2>2 DEF Host
<1>5. synced' \in BOOLEAN /\ (synced' => cache' = server')
  BY <1>1, <1>2 DEF TypeOK, Store
<1>6. Rest'
  <2>1. internal' \in InternalHost /\ SameMirror(internal, internal')
    BY <1>1 DEF Shapes, SameMirror
  <2> QED BY <1>1, <1>3, <1>4, <2>1, CallStands
<1>7. TypeOK'
  <2>1. Host' = Host
    BY <1>1 DEF Host, Status
  <2>2. internal'.gen <= server'.gen
    BY <1>1, <1>3, <1>4 DEF TypeOK, Shapes, InternalHost
  <2>3. /\ cache'.gen <= server'.gen /\ server'.status.observed <= server'.gen
        /\ server'.gen \in Nat /\ server'.gen >= server.gen
    BY <1>1, <1>3, <1>4
  <2>4. (worker # Idle => /\ worker.step \in {"helm", "patch"}
                          /\ worker.gen <= server.gen
                          /\ worker.status \in Status)'
    BY <1>1, <2>3, WorkerStands
  <2> QED BY <1>1, <1>3, <1>4, <1>5, <2>1, <2>2, <2>3, <2>4 DEF TypeOK
<1> QED BY <1>6, <1>7

\* An edit that leaves the host alone.
LEMMA OtherEditKeeps ==
  ASSUME HostInv, Edit, UNCHANGED <<server, synced>>,
         object' \in [Objects -> Object], deployment' \in world.deployments,
         queued' \in BOOLEAN, internal' \in InternalHost, SameMirror(internal, internal')
  PROVE  HostInv'
<1> USE DEF HostInv, Rest
<1>1. /\ edits' \in 0..MaxEdits
      /\ UNCHANGED <<world, cache, copies, pages, worker, running, troubles>>
  BY EditTyped
<1>2. server.gen \in Nat
  BY WorldTypes
<1>3. Rest'
  BY <1>1, <1>2, CallStands
<1>4. TypeOK'
  <2>1. /\ (server \in Host)' /\ (cache \in Host)' /\ (synced \in BOOLEAN)'
        /\ (synced => cache = server)' /\ (running \in BOOLEAN)'
    BY <1>1, HostStands
  <2>2. (worker # Idle => /\ worker.step \in {"helm", "patch"}
                          /\ worker.gen <= server.gen
                          /\ worker.status \in Status)'
    BY <1>1, <1>2, WorkerStands
  <2>3. internal'.gen <= server'.gen
    BY DEF TypeOK, SameMirror
  <2> QED BY <1>1, <2>1, <2>2, <2>3 DEF TypeOK
<1> QED BY <1>3, <1>4

LEMMA EnvironmentKeeps ==
  ASSUME HostInv, Environment
  PROVE  HostInv'
<1> USE DEF HostInv, Rest
<1>0. /\ world \in Worlds /\ object \in [Objects -> Object]
      /\ deployment \in world.deployments /\ queued \in BOOLEAN
      /\ internal \in InternalHost /\ SameMirror(internal, internal)
  BY DEF TypeOK, Shapes, SameMirror
<1>1. CASE EditSpec
  BY <1>1, EditSpecKeeps
<1>2. ASSUME NEW o \in Objects, ChangeObject(o) PROVE HostInv'
  <2>1. PICK new \in world.may[o] \ {object[o]} :
          /\ object' = [object EXCEPT ![o] = new]
          /\ queued' = (\/ queued
                        \/ HostRefRequests(object[o], new)
                        \/ ReferencePathRequests(o, cache.spec)
                        \/ defaultConsentPageRequests(o, cache.spec))
    BY <1>2 DEF ChangeObject
  <2>2. new \in Object
    BY <1>0, HostAssumption
  <2>3. object' \in [Objects -> Object] /\ queued' \in BOOLEAN
    BY <1>0, <2>1, <2>2
  <2>4. Edit /\ UNCHANGED <<server, synced, internal, deployment>>
    BY <1>2 DEF ChangeObject
  <2> QED BY <1>0, <2>3, <2>4, OtherEditKeeps
<1>3. CASE ChangeDeployment
  <2>1. /\ Edit /\ deployment' \in world.deployments
        /\ UNCHANGED <<server, synced, object, internal, queued>>
    BY <1>3 DEF ChangeDeployment
  <2> QED BY <1>0, <2>1, OtherEditKeeps
<1>4. CASE ChangeReadiness
  <2>1. PICK r \in world.readiness : internal' = [internal EXCEPT !.ready = r]
    BY <1>4 DEF ChangeReadiness
  <2>2. r \in {"Unknown", "True", "False"}
    BY <1>0, HostAssumption
  <2>3. internal' \in InternalHost /\ SameMirror(internal, internal')
    BY <1>0, <2>1, <2>2 DEF InternalHost, SameMirror
  <2>4. Edit /\ queued' = TRUE /\ UNCHANGED <<server, synced, object, deployment>>
    BY <1>4 DEF ChangeReadiness
  <2> QED BY <1>0, <2>3, <2>4, OtherEditKeeps
<1>5. CASE Restart
  <2>1. /\ cache' = server /\ synced' = TRUE /\ queued' = TRUE
        /\ worker' = Idle /\ running' = FALSE
        /\ UNCHANGED <<server, world, object, deployment, edits, copies, pages, internal>>
        /\ Trouble
    BY <1>5 DEF Restart, surroundings, children
  <2>2. Rest'
    BY <2>1, CallEnds
  <2>3. /\ server \in Host /\ server.gen \in Nat /\ server.status.observed <= server.gen
        /\ Host' = Host
    BY <2>1, WorldTypes DEF TypeOK, Host, Status
  <2>4. troubles' \in 0..MaxTroubles
    BY <2>1, TroubleTyped
  <2>5. worker' = Idle'
    BY <2>1 DEF Idle
  <2>6. /\ (server \in Host)' /\ (cache \in Host)'
        /\ cache'.gen <= server'.gen /\ server'.status.observed <= server'.gen
        /\ internal'.gen <= server'.gen
    BY <2>1, <2>3 DEF TypeOK
  <2>7. /\ synced' \in BOOLEAN /\ queued' \in BOOLEAN /\ running' \in BOOLEAN
        /\ cache' = server'
    BY <2>1
  <2>8. TypeOK'
    BY <2>1, <2>4, <2>5, <2>6, <2>7 DEF TypeOK
  <2> QED BY <2>2, <2>8
<1> QED BY <1>1, <1>2, <1>3, <1>4, <1>5 DEF Environment

LEMMA SyncCacheKeeps ==
  ASSUME HostInv, SyncCache
  PROVE  HostInv'
<1> USE DEF HostInv, Rest
<1>1. /\ cache' = server /\ synced' = TRUE /\ queued' = TRUE
      /\ UNCHANGED <<server, world, object, deployment, edits, copies, pages, internal,
                     worker, running, troubles>>
  BY DEF SyncCache, surroundings, children
<1>2. /\ server \in Host /\ server.gen \in Nat /\ server.status.observed <= server.gen
      /\ internal \in InternalHost /\ SameMirror(internal, internal)
  BY WorldTypes DEF TypeOK, Shapes, SameMirror
<1>3. Rest'
  BY <1>1, <1>2, CallStands
<1>4. Host' = Host
  BY <1>1 DEF Host, Status
<1>5. (worker # Idle => /\ worker.step \in {"helm", "patch"}
                        /\ worker.gen <= server.gen
                        /\ worker.status \in Status)'
  BY <1>1, <1>2, WorkerStands
<1>6. TypeOK'
  BY <1>1, <1>2, <1>4, <1>5 DEF TypeOK
<1> QED BY <1>3, <1>6

\* The goroutine's report changes the status alone.
LEMMA ReportKeeps ==
  ASSUME HostInv, updateHelmStatus
  PROVE  HostInv'
<1> USE DEF HostInv, Rest
<1>0. /\ server.gen \in Nat /\ cache.gen \in Nat /\ cache.gen <= server.gen
      /\ cache.status \in Status /\ cache.status.observed \in Nat
      /\ cache.status.observed <= server.gen
      /\ internal \in InternalHost /\ SameMirror(internal, internal)
  BY WorldTypes DEF Shapes, SameMirror, Status
<1>1. /\ running' = FALSE
      /\ UNCHANGED <<cache, world, object, deployment, edits, copies, pages, internal,
                     queued, worker>>
  BY DEF updateHelmStatus, surroundings, children
<1>2. /\ server' \in Host /\ cache' \in Host /\ Host' = Host
      /\ server'.gen = server.gen /\ server'.spec = server.spec
      /\ server'.status.observed <= server'.gen
      /\ synced' \in BOOLEAN /\ (synced' => cache' = server')
      /\ troubles' \in 0..MaxTroubles
  <2>0. Host' = Host
    BY <1>1 DEF Host, Status
  <2>1. ASSUME NEW helm \in {"completed", "failed"}, NEW conditions \in Conditions,
               \E status \in Merged(server.status, cache.status,
                                    [cache.status EXCEPT !.helm = helm,
                                                         !.conditions = conditions]) :
                 Store([server EXCEPT !.status = status])
        PROVE  /\ server' \in Host /\ cache' \in Host
               /\ server'.gen = server.gen /\ server'.spec = server.spec
               /\ server'.status.observed <= server'.gen
               /\ synced' \in BOOLEAN /\ (synced' => cache' = server')
    <3> DEFINE desired == [cache.status EXCEPT !.helm = helm, !.conditions = conditions]
    <3>1. desired \in Status /\ desired.observed = cache.status.observed
      BY <1>0, ConditionTypes
    <3>2. PICK status \in Merged(server.status, cache.status, desired) :
            Store([server EXCEPT !.status = status])
      BY <2>1
    <3> HIDE DEF desired
    <3> QED BY <1>0, <1>1, <2>0, <3>1, <3>2, StatusPatched
  <2>2. /\ [cache.status.conditions EXCEPT !.progressing = "False"] \in Conditions
        /\ [cache.status.conditions EXCEPT !.progressing = "False", !.degraded = "True"]
             \in Conditions
    BY <1>0, ConditionTypes DEF Conditions
  <2>3. CASE UNCHANGED <<server, synced>> /\ Trouble
    BY <1>1, <2>0, <2>3, TroubleTyped, WorldTypes DEF TypeOK
  <2>4. CASE UNCHANGED troubles
             /\ \E status \in Merged(server.status, cache.status,
                   [cache.status EXCEPT !.helm = "completed", !.conditions =
                      [cache.status.conditions EXCEPT !.progressing = "False"]]) :
                  Store([server EXCEPT !.status = status])
    BY <2>0, <2>1, <2>2, <2>4 DEF TypeOK
  <2>5. CASE Trouble
             /\ \E status \in Merged(server.status, cache.status,
                   [cache.status EXCEPT !.helm = "failed", !.conditions =
                      [cache.status.conditions EXCEPT !.progressing = "False",
                                                      !.degraded = "True"]]) :
                  Store([server EXCEPT !.status = status])
    BY <2>0, <2>1, <2>2, <2>5, TroubleTyped
  <2> QED BY <2>3, <2>4, <2>5 DEF updateHelmStatus
<1>3. Rest'
  BY <1>0, <1>1, <1>2, CallStands
<1>4. (worker # Idle => /\ worker.step \in {"helm", "patch"}
                        /\ worker.gen <= server.gen
                        /\ worker.status \in Status)'
  BY <1>0, <1>1, <1>2, WorkerStands
<1>5. TypeOK'
  BY <1>0, <1>1, <1>2, <1>4 DEF TypeOK
<1> QED BY <1>3, <1>5

-----------------------------------------------------------------------------
(* The steps of a Reconcile call *)

LEMMA CallGivesUp ==
  ASSUME HostInv,
         \/ AnnouncementUnresolved \/ PageWriteFails
         \/ TranslationUnresolved \/ TranslationWriteFails
  PROVE  HostInv'
<1> USE DEF HostInv, Rest
<1>0. /\ Fresh(Call) /\ Fresh(Themed) /\ NamedRight(copies)
      /\ TRUE \in BOOLEAN /\ FALSE \in BOOLEAN /\ troubles \in 0..MaxTroubles
  BY CallFresh, ThemedFresh, CopiesTyped DEF TypeOK
<1>1. CASE AnnouncementUnresolved
  <2> DEFINE state == object["announcement"].state
             conditions == IF state = "unready" THEN Reconciling ELSE Degraded
  <2>1. /\ Leave(Call, conditions, TRUE, state = "missing")
        /\ queued' = FALSE
        /\ UNCHANGED <<host, surroundings, children, running, troubles>>
    BY <1>1 DEF AnnouncementUnresolved
  <2>2. conditions \in {Reconciling, Waiting, Degraded} /\ (state = "missing") \in BOOLEAN
    OBVIOUS
  <2> HIDE DEF state, conditions
  <2>3. NamedRight(copies') /\ UNCHANGED internal
    BY <1>0, <2>1 DEF children, NamedRight
  <2> QED BY <1>0, <2>1, <2>2, <2>3, GivesUp
<1>2. CASE PageWriteFails
  <2>1. /\ Leave(Call, Degraded, TRUE, FALSE)
        /\ Trouble /\ queued' = (pages' # pages)
        /\ UNCHANGED <<host, surroundings, copies, internal, running>>
    BY <1>2 DEF PageWriteFails, Fail, Owned
  <2>2. NamedRight(copies') /\ troubles' \in 0..MaxTroubles /\ queued' \in BOOLEAN
    BY <1>0, <2>1, TroubleTyped DEF NamedRight
  <2> QED BY <1>0, <2>1, <2>2, GivesUp
<1>3. CASE TranslationUnresolved
  <2>1. /\ queued' = (pages' # pages)
        /\ UNCHANGED <<host, surroundings, copies, internal, running, troubles>>
        /\ \E missing \in BOOLEAN :
             Leave(Themed, IF missing THEN Degraded ELSE Themed.status.conditions,
                   TRUE, missing)
    BY <1>3, Zenon DEF TranslationUnresolved, Owned
  <2>2. PICK missing \in BOOLEAN :
          Leave(Themed, IF missing THEN Degraded ELSE Themed.status.conditions,
                TRUE, missing)
    BY <2>1
  <2> DEFINE conditions == IF missing THEN Degraded ELSE Themed.status.conditions
  <2>3. conditions \in {Reconciling, Waiting, Degraded}
    BY <1>0 DEF Fresh
  <2>4. Leave(Themed, conditions, TRUE, missing)
    BY <2>2
  <2>5. NamedRight(copies') /\ queued' \in BOOLEAN /\ troubles' \in 0..MaxTroubles
    BY <1>0, <2>1 DEF NamedRight
  <2> HIDE DEF conditions
  <2> QED BY <1>0, <2>1, <2>3, <2>4, <2>5, GivesUp
<1>4. CASE TranslationWriteFails
  <2> DEFINE order == orderTranslationSources(cache.spec)
  <2>1. /\ Trouble
        /\ queued' = (<<pages, copies>>' # <<pages, copies>>)
        /\ UNCHANGED <<host, surroundings, internal, running>>
        /\ \E k \in 0..(Len(order) - 1) :
             /\ copies' = Written(order, k, cache.spec)
             /\ Leave(Recorded(order, k), Degraded, TRUE, FALSE)
    BY <1>4 DEF TranslationWriteFails, Fail, Owned
  <2>2. PICK k \in 0..(Len(order) - 1) :
          /\ copies' = Written(order, k, cache.spec)
          /\ Leave(Recorded(order, k), Degraded, TRUE, FALSE)
    BY <2>1
  <2>3. order \in Seq(Translations)
    BY SourceTypes, WorldTypes
  <2> HIDE DEF order
  <2>4. k \in 0..Len(order)
    BY <2>3
  <2>5. NamedRight(copies')
    BY <1>0, <2>2, <2>3, <2>4, WrittenCopies
  <2>6. queued' \in BOOLEAN /\ troubles' \in 0..MaxTroubles
    BY <2>1, TroubleTyped
  <2>7. Fresh(Recorded(order, k))
    BY <1>0, <2>3, <2>4, RecordedFresh
  <2> QED BY <1>0, <2>1, <2>2, <2>5, <2>6, <2>7, GivesUp
<1> QED BY <1>1, <1>2, <1>3, <1>4

\* Helm, the mirror and the ladder: the host changes at most in its status.
LEMMA CallMirrors ==
  ASSUME HostInv, HelmSettled \/ StartHelm \/ HelmPatchFails
  PROVE  /\ HostInv'
         /\ internal'.gen >= internal.gen
         /\ Current => internal'.spec = internal.spec
<1> USE DEF HostInv, Rest
<1>1. PICK call \in {Refreshed(worker), Launched(worker)} :
        /\ worker.step = "helm" /\ MirrorAndJudge(call)
        /\ UNCHANGED <<cache, world, object, deployment, edits, copies>>
        /\ running' \in BOOLEAN
        /\ \/ UNCHANGED <<server, synced>>
           \/ \E status \in Merged(server.status, cache.status, Launched(worker).status) :
                Store([server EXCEPT !.status = status])
  <2>1. CASE HelmSettled
    BY <2>1 DEF HelmSettled, host, surroundings, TypeOK
  <2>2. CASE StartHelm
    BY <2>2 DEF StartHelm, MayLaunch, surroundings
  <2>3. CASE HelmPatchFails
    <3>1. MirrorAndJudge(Launched(worker))
      BY <2>3 DEF HelmPatchFails, MirrorAndJudge, children
    <3> QED BY <2>3, <3>1 DEF HelmPatchFails, MayLaunch, host, surroundings, children, TypeOK
  <2> QED BY <2>1, <2>2, <2>3
<1>2. Judged(call) /\ Judged(Launched(worker))
  BY <1>1, HelmJudges
<1>3. /\ server.gen \in Nat /\ worker.status.observed <= server.gen
      /\ cache.gen \in Nat /\ cache.gen <= server.gen
  BY <1>1, WorldTypes, WorkerTypes DEF Shapes
<1>4. Host' = Host
  BY <1>1 DEF Host, Status
<1>5. /\ (server \in Host)' /\ (cache \in Host)'
      /\ server'.gen = server.gen /\ server'.spec = server.spec
      /\ server'.status.observed <= server'.gen
      /\ synced' \in BOOLEAN /\ (synced' => cache' = server')
  <2>1. CASE UNCHANGED <<server, synced>>
    BY <1>1, <1>4, <2>1 DEF TypeOK
  <2>2. CASE \E status \in Merged(server.status, cache.status, Launched(worker).status) :
               Store([server EXCEPT !.status = status])
    <3>1. PICK status \in Merged(server.status, cache.status, Launched(worker).status) :
            Store([server EXCEPT !.status = status])
      BY <2>2
    <3>2. Launched(worker).status \in Status
          /\ Launched(worker).status.observed <= server.gen
      BY <1>2, <1>3 DEF Judged, Calls
    <3> QED BY <1>1, <3>1, <3>2, StatusPatched
  <2> QED BY <1>1, <2>1, <2>2
<1>6. /\ Rest'
      /\ internal'.gen <= server.gen /\ internal'.gen >= internal.gen
      /\ Current => internal'.spec = internal.spec
  BY <1>1, <1>2, <1>5, MirrorKeeps
<1>7. TypeOK'
  <2>1. /\ worker' \in Calls /\ worker'.step = "patch" /\ worker'.gen = call.gen
        /\ queued' \in BOOLEAN /\ troubles' \in 0..MaxTroubles
    BY <1>1, <1>2, CallJudges
  <2>2. (worker # Idle => /\ worker.step \in {"helm", "patch"}
                          /\ worker.gen <= server.gen
                          /\ worker.status \in Status)'
    BY <1>2, <1>3, <1>5, <2>1 DEF Judged, Calls, Status
  <2>3. cache'.gen <= server'.gen /\ internal'.gen <= server'.gen
    BY <1>1, <1>3, <1>5, <1>6
  <2> QED BY <1>1, <1>5, <2>1, <2>2, <2>3 DEF TypeOK
<1> QED BY <1>6, <1>7

\* The deferred patch ends the call.
LEMMA CallPatches ==
  ASSUME HostInv, PatchSkipped \/ PatchStatus \/ PatchFails
  PROVE  HostInv'
<1> USE DEF HostInv, Rest
<1>0. /\ server.gen \in Nat /\ cache.gen \in Nat /\ cache.gen <= server.gen
      /\ cache.status \in Status
  BY WorldTypes
<1>1. /\ worker.step = "patch" /\ worker' = Idle /\ queued' \in BOOLEAN
      /\ UNCHANGED <<cache, world, object, deployment, edits, copies, internal, running>>
      /\ UNCHANGED troubles \/ Trouble
      /\ \/ UNCHANGED <<server, synced>>
         \/ \E status \in Merged(server.status, cache.status, Desired(worker)) :
              Store([server EXCEPT !.status = status])
  <2>1. CASE PatchSkipped
    BY <2>1 DEF PatchSkipped, host, surroundings, children
  <2>2. CASE PatchStatus
    BY <2>2 DEF PatchStatus, surroundings, children, TypeOK
  <2>3. CASE PatchFails
    BY <2>3 DEF PatchFails, host, surroundings, children
  <2> QED BY <2>1, <2>2, <2>3
<1>2. Host' = Host
  BY <1>1 DEF Host, Status
<1>3. Desired(worker) \in Status /\ Desired(worker).observed <= server.gen
  <2>1. worker \in Calls /\ worker.gen <= server.gen /\ worker.gen \in Nat
    BY <1>1, WorkerTypes DEF TypeOK, Idle
  <2>2. worker.status \in Status /\ worker.status.conditions \in Conditions
    BY <2>1, WorkerTypes
  <2> DEFINE helm == IF cache.status.helm = "none" THEN worker.status.helm
                     ELSE cache.status.helm
             conditions == IF cache.status.helm = "failed"
                              /\ cache.status.conditions.degraded = "True"
                           THEN Degraded ELSE worker.status.conditions
  <2>3. helm \in {"none", "in_progress", "completed", "failed"}
        /\ conditions \in Conditions
    BY <1>0, <2>2, ConditionTypes
  <2>4. Desired(worker) = [worker.status EXCEPT !.observed = worker.gen, !.helm = helm,
                                                !.conditions = conditions]
    BY <2>2, ConditionTypes DEF Desired
  <2> HIDE DEF helm, conditions
  <2> QED BY <2>1, <2>2, <2>3, <2>4, ConditionTypes
<1>4. /\ (server \in Host)' /\ (cache \in Host)'
      /\ server'.gen = server.gen /\ server'.spec = server.spec
      /\ server'.status.observed <= server'.gen
      /\ synced' \in BOOLEAN /\ (synced' => cache' = server')
  <2>1. CASE UNCHANGED <<server, synced>>
    BY <1>1, <1>2, <2>1 DEF TypeOK
  <2>2. CASE \E status \in Merged(server.status, cache.status, Desired(worker)) :
               Store([server EXCEPT !.status = status])
    BY <1>1, <1>3, <2>2, StatusPatched
  <2> QED BY <1>1, <2>1, <2>2
<1>5. Rest'
  BY <1>1, <1>4, CallEnds
<1>6. worker' = Idle' /\ troubles' \in 0..MaxTroubles
  BY <1>1, TroubleTyped DEF Idle, TypeOK
<1>7. cache'.gen <= server'.gen /\ internal'.gen <= server'.gen
  BY <1>0, <1>1, <1>4 DEF TypeOK
<1>8. TypeOK'
  BY <1>1, <1>4, <1>6, <1>7 DEF TypeOK
<1> QED BY <1>5, <1>8

-----------------------------------------------------------------------------
(* The theorems *)

LEMMA StutterKeeps ==
  ASSUME HostInv, UNCHANGED vars
  PROVE  HostInv'
<1> USE DEF HostInv, Rest, vars
<1>0. /\ (server \in Host)' /\ (cache \in Host)' /\ (synced \in BOOLEAN)'
      /\ (synced => cache = server)' /\ (running \in BOOLEAN)'
      /\ (worker # Idle => /\ worker.step \in {"helm", "patch"}
                           /\ worker.gen <= server.gen
                           /\ worker.status \in Status)'
  BY HostStands, WorkerStands, WorldTypes
<1>1. TypeOK'
  BY <1>0 DEF TypeOK
<1>2. internal' \in InternalHost /\ SameMirror(internal, internal') /\ server.gen \in Nat
  BY WorldTypes DEF Shapes, SameMirror
<1>3. Rest'
  BY <1>2, CallStands
<1> QED BY <1>1, <1>3

LEMMA NextKeeps ==
  ASSUME HostInv, [Next]_vars
  PROVE  HostInv'
<1>1. CASE Reconcile
  <2>1. TypeOK /\ Rest
    BY DEF HostInv, Rest
  <2>2. CASE resolveTranslations
    <3>1. TypeOK' /\ Rest'
      BY <2>1, <2>2, Resolved
    <3> QED BY <3>1 DEF HostInv, Rest
  <2> QED BY <1>1, <2>2, CallGivesUp, CallMirrors, CallPatches DEF Reconcile
<1>2. CASE updateHelmStatus
  BY <1>2, ReportKeeps
<1>3. CASE SyncCache
  BY <1>3, SyncCacheKeeps
<1>4. CASE Environment
  BY <1>4, EnvironmentKeeps
<1>5. CASE UNCHANGED vars
  BY <1>5, StutterKeeps
<1> QED BY <1>1, <1>2, <1>3, <1>4, <1>5 DEF Next

\* What one call of Reconcile, the events it reacts to and the goroutine's report
\* leave true of the host, for every world: the shapes of the variables, the
\* generations that grow from the mirror over the call and the cached copy to the
\* API server, and what a call under way has not yet said or will name.
THEOREM HostInvariant == Spec => []HostInv
<1>1. Init => HostInv
  BY InitHostInv
<1>2. HostInv /\ [Next]_vars => HostInv'
  BY NextKeeps
<1> QED BY <1>1, <1>2, PTL DEF Spec

\* The controller's variables keep their shape: no generation is observed or
\* mirrored that the API server has not issued, a merge patch of a stale status
\* is a status, and each internal translation carries its source's name.
THEOREM HostTyped == Spec => []TypeOK
<1>1. HostInv => TypeOK
  BY DEF HostInv
<1> QED BY <1>1, HostInvariant, PTL

\* orderTranslationSources keeps one source per name, whatever translations
\* attach themselves while calls fail, so that the internal host names no copy
\* twice and what is named was copied from the source that was kept.
THEOREM SourcesApart == Spec => []SourcesServed
<1>1. HostInv => SourcesServed
  BY DEF HostInv
<1> QED BY <1>1, HostInvariant, PTL

\* The readiness ladder reports Ready only on what createOrUpdateInternalHost-
\* Resource wrote for the same call.
THEOREM ReadyIsMirrored == Spec => []ReadyMirrored
<1>1. HostInv => ReadyMirrored
  BY DEF HostInv
<1> QED BY <1>1, HostInvariant, PTL

\* A step leaves the internal host as it is, but for the readiness its manager
\* reports, unless it is the mirror of a call.
LEMMA OnlyCallsMirror ==
  ASSUME HostInv, [Next]_vars, ~(HelmSettled \/ StartHelm \/ HelmPatchFails)
  PROVE  internal'.gen = internal.gen /\ internal'.spec = internal.spec
<1>1. CASE Reconcile
  BY <1>1 DEF Reconcile, AnnouncementUnresolved, PageWriteFails, TranslationUnresolved,
              resolveTranslations, TranslationWriteFails, PatchSkipped, PatchStatus,
              PatchFails, children
<1>2. CASE ChangeReadiness
  <2>1. internal \in InternalHost
    BY DEF HostInv, Shapes
  <2>2. PICK r \in world.readiness : internal' = [internal EXCEPT !.ready = r]
    BY <1>2 DEF ChangeReadiness
  <2> QED BY <2>1, <2>2 DEF InternalHost
<1>3. CASE EditSpec \/ ChangeDeployment \/ Restart \/ \E o \in Objects : ChangeObject(o)
  BY <1>3 DEF EditSpec, ChangeDeployment, Restart, ChangeObject, children
<1>4. CASE updateHelmStatus \/ SyncCache \/ UNCHANGED vars
  BY <1>4 DEF updateHelmStatus, SyncCache, children, vars
<1> QED BY <1>1, <1>2, <1>3, <1>4 DEF Next, Environment

\* The internal host's generation never falls, and under the host's current
\* generation and spec no older spec is put back: the fresh read of the
\* generation before the mirror cannot relabel a stale spec over a newer one.
THEOREM MirrorMovesForward == Spec => MirrorForward
<1>1. HostInv /\ [Next]_vars =>
        [/\ internal'.gen >= internal.gen
         /\ Current => internal'.spec = internal.spec]_vars
  <2> SUFFICES ASSUME HostInv, [Next]_vars
               PROVE  /\ internal'.gen >= internal.gen
                      /\ Current => internal'.spec = internal.spec
    OBVIOUS
  <2>1. CASE HelmSettled \/ StartHelm \/ HelmPatchFails
    BY <2>1, CallMirrors
  <2>2. CASE ~(HelmSettled \/ StartHelm \/ HelmPatchFails)
    <3>1. internal.gen \in Nat
      BY DEF HostInv, Shapes, InternalHost
    <3> QED BY <2>2, <3>1, OnlyCallsMirror
  <2> QED BY <2>1, <2>2
<1> QED BY <1>1, HostInvariant, PTL DEF Spec, MirrorForward

-----------------------------------------------------------------------------
(* The walk and the precedence of the sources *)

LEMMA Greatest ==
  ASSUME NEW N \in Nat, NEW S \in SUBSET (1..N), S # {}
  PROVE  \E n \in S : \A m \in S : m <= n
<1> DEFINE R == {ss \in Nat \X Nat : ss[1] < ss[2]}
           T == {k \in Nat : N - k \in S}
<1>1. IsWellFoundedOn(R, Nat)
  BY NatLessThanWellFounded DEF OpToRel
<1>2. T \in SUBSET Nat /\ T # {}
  <2>1. PICK n \in S : TRUE
    OBVIOUS
  <2>2. N - n \in Nat /\ N - (N - n) = n
    OBVIOUS
  <2> QED BY <2>2
<1>3. \E k \in T : \A j \in T : <<j, k>> \notin R
  <2> HIDE DEF R, T
  <2> QED BY <1>1, <1>2, WFMin
<1>4. PICK k \in T : \A j \in T : <<j, k>> \notin R
  BY <1>3
<1>5. ASSUME NEW m \in S PROVE m <= N - k
  <2>1. N - m \in T
    <3>1. N - m \in Nat /\ N - (N - m) = m
      OBVIOUS
    <3> QED BY <3>1
  <2>2. ~(N - m < k)
    BY <1>4, <2>1
  <2> QED BY <2>1, <2>2
<1> QED BY <1>5

\* Whatever the spec, the candidates are the default, the translations that
\* attach themselves and are not declared, and the list of the spec.
LEMMA CandidatesAre ==
  ASSUME NEW spec, spec.translationRefs \in Seq(Translations)
  PROVE  LET a == Len(Attached(spec))
             refs == spec.translationRefs
             c == Candidates(spec)
         IN  /\ a \in Nat /\ Len(refs) \in Nat
             /\ c \in Seq(Translations) /\ Len(c) = 1 + a + Len(refs)
             /\ c[1] = DefaultTranslation
             /\ \A i \in 1..a : c[1 + i] = Attached(spec)[i]
             /\ \A j \in 1..Len(refs) : c[1 + a + j] = refs[j]
<1> DEFINE A == Attached(spec)
           refs == spec.translationRefs
           c == Candidates(spec)
<1>1. /\ A \in Seq(Translations) /\ refs \in Seq(Translations)
      /\ c \in Seq(Translations) /\ c = <<DefaultTranslation>> \o A \o refs
  BY SourceTypes DEF Candidates
<1>2. <<DefaultTranslation>> \in Seq(Translations) /\ Len(<<DefaultTranslation>>) = 1
      /\ <<DefaultTranslation>>[1] = DefaultTranslation
  BY HostAssumption
<1> DEFINE d == <<DefaultTranslation>>
<1>3. d \in Seq(Translations) /\ Len(d) = 1 /\ d[1] = DefaultTranslation
  BY <1>2
<1>4. c = d \o A \o refs
  BY <1>1
<1> HIDE DEF A, refs, c, d
<1>5. /\ Len(c) = 1 + Len(A) + Len(refs) /\ Len(A) \in Nat /\ Len(refs) \in Nat
  BY <1>1, <1>3, <1>4
<1>6. c[1] = DefaultTranslation
  BY <1>1, <1>3, <1>4
<1>7. \A i \in 1..Len(A) : c[1 + i] = A[i]
  BY <1>1, <1>3, <1>4
<1>8. \A j \in 1..Len(refs) : c[1 + Len(A) + j] = refs[j]
  BY <1>1, <1>3, <1>4
<1> QED BY <1>1, <1>5, <1>6, <1>7, <1>8 DEF A, refs, c

\* The attached translations that are not declared, in the order of ByName.
LEMMA AttachedAre ==
  ASSUME NEW spec, spec.translationRefs \in Seq(Translations)
  PROVE  LET A == Attached(spec)
             loose == {n \in DOMAIN ByName :
                         Attaches(ByName[n]) /\ ~IsDeclared(ByName[n], spec)}
         IN  \E at \in [1..Len(A) -> loose] :
               /\ \A i \in 1..Len(A) : A[i] = ByName[at[i]]
               /\ \A i, j \in 1..Len(A) : i < j => at[i] < at[j]
               /\ \A n \in loose : \E i \in 1..Len(A) : at[i] = n
<1> DEFINE A == Attached(spec)
           loose == {n \in DOMAIN ByName :
                       Attaches(ByName[n]) /\ ~IsDeclared(ByName[n], spec)}
<1>1. ByName \in Seq(Translations) /\ loose \in SUBSET (DOMAIN ByName)
      /\ A = Sublist(ByName, loose)
  BY HostAssumption DEF Attached
<1> HIDE DEF A, loose
<1>2. /\ Len(A) = Cardinality(loose)
      /\ \E at : /\ PlacesOf(loose, at)
                 /\ \A k \in 1..Cardinality(loose) : A[k] = ByName[at[k]]
  BY <1>1, SublistIs
<1>3. PICK at : /\ PlacesOf(loose, at)
                /\ \A k \in 1..Cardinality(loose) : A[k] = ByName[at[k]]
  BY <1>2
<1>4. at \in [1..Len(A) -> loose]
  BY <1>2, <1>3 DEF PlacesOf
<1>5. \A i \in 1..Len(A) : A[i] = ByName[at[i]]
  BY <1>2, <1>3
<1>6. \A i, j \in 1..Len(A) : i < j => at[i] < at[j]
  BY <1>2, <1>3 DEF PlacesOf
<1>7. \A n \in loose : \E i \in 1..Len(A) : at[i] = n
  BY <1>2, <1>3 DEF PlacesOf
<1> QED BY <1>4, <1>5, <1>6, <1>7, Zenon DEF A, loose

\* The last place of an entry of a list is the one it has when it is at no
\* later place.
LEMMA LastIs ==
  ASSUME NEW T, NEW list \in Seq(T), NEW t, NEW n \in DOMAIN list, list[n] = t,
         \A m \in DOMAIN list : list[m] = t => m <= n
  PROVE  (CHOOSE k \in DOMAIN list :
            list[k] = t /\ \A m \in DOMAIN list : list[m] = t => m <= k) = n
<1> DEFINE P(k) == list[k] = t /\ \A m \in DOMAIN list : list[m] = t => m <= k
           last == CHOOSE k \in DOMAIN list : P(k)
<1>1. \A k \in DOMAIN list : k \in Nat
  OBVIOUS
<1>2. \E k \in DOMAIN list : P(k)
  OBVIOUS
<1>3. last \in DOMAIN list /\ P(last)
  BY <1>2
<1> HIDE DEF last
<1>4. n <= last /\ last <= n
  BY <1>3
<1>5. last = n
  BY <1>1, <1>3, <1>4
<1> QED BY <1>5 DEF last

\* The candidates rise in rank: the rank of a source is that of its last place.
LEMMA RanksRise ==
  ASSUME wanted.translationRefs \in Seq(Translations)
  PROVE  LET c == Candidates(wanted)
         IN  \E rank \in [DOMAIN c -> Nat] :
               /\ \A m, n \in DOMAIN c : m < n => rank[m] < rank[n]
               /\ \A n \in DOMAIN c :
                    (\A m \in DOMAIN c : m > n => c[m] # c[n]) => Rank(c[n]) = rank[n]
<1> DEFINE A == Attached(wanted)
           a == Len(A)
           refs == wanted.translationRefs
           c == Candidates(wanted)
           L == Len(ByName)
           loose == {n \in DOMAIN ByName :
                       Attaches(ByName[n]) /\ ~IsDeclared(ByName[n], wanted)}
<1>1. /\ a \in Nat /\ Len(refs) \in Nat
      /\ c \in Seq(Translations) /\ Len(c) = 1 + a + Len(refs)
      /\ c[1] = DefaultTranslation
      /\ \A i \in 1..a : c[1 + i] = A[i]
      /\ \A j \in 1..Len(refs) : c[1 + a + j] = refs[j]
  BY CandidatesAre
<1>2. PICK at \in [1..a -> loose] :
        /\ \A i \in 1..a : A[i] = ByName[at[i]]
        /\ \A i, j \in 1..a : i < j => at[i] < at[j]
  BY AttachedAre
<1>3. /\ L \in Nat /\ DOMAIN ByName = 1..L /\ refs \in Seq(Translations)
      /\ ByName \in Seq(Translations \ {DefaultTranslation})
      /\ \A m, n \in DOMAIN ByName : ByName[m] = ByName[n] => m = n
      /\ DOMAIN c = 1..(1 + a + Len(refs)) /\ DOMAIN refs = 1..Len(refs)
  BY <1>1, HostAssumption
<1>4. \A i \in 1..a : /\ at[i] \in 1..L /\ ~IsDeclared(ByName[at[i]], wanted)
                      /\ ByName[at[i]] # DefaultTranslation
  BY <1>2, <1>3
<1> DEFINE rankAt(n) == IF n = 1 THEN 0
                        ELSE IF n <= 1 + a THEN at[n - 1] ELSE L + (n - (1 + a))
           rank == [n \in DOMAIN c |-> rankAt(n)]
<1> HIDE DEF a, refs, c, L, A, loose
<1>5. \A n \in DOMAIN c : \/ n = 1
                          \/ n - 1 \in 1..a /\ n = 1 + (n - 1) /\ n # 1 /\ n <= 1 + a
                          \/ /\ n - (1 + a) \in 1..Len(refs) /\ n = 1 + a + (n - (1 + a))
                             /\ n # 1 /\ ~(n <= 1 + a)
  BY <1>1, <1>3
<1>6. \A n \in DOMAIN c : rankAt(n) \in Nat
  BY <1>1, <1>3, <1>4, <1>5
<1>7. ASSUME NEW m \in DOMAIN c, NEW n \in DOMAIN c, m < n
      PROVE  rankAt(m) < rankAt(n)
  <2>1. m \in Nat /\ n \in Nat /\ m >= 1 /\ n # 1
    BY <1>1, <1>3, <1>7
  <2>2. CASE m = 1
    BY <1>1, <1>3, <1>4, <1>5, <2>1, <2>2
  <2>3. CASE m # 1 /\ n <= 1 + a
    <3>1. m - 1 \in 1..a /\ n - 1 \in 1..a /\ m - 1 < n - 1 /\ m <= 1 + a
      BY <1>1, <1>7, <2>1, <2>3
    <3>2. at[m - 1] < at[n - 1]
      BY <1>2, <3>1
    <3> QED BY <2>1, <2>3, <3>1, <3>2
  <2>4. CASE m # 1 /\ ~(n <= 1 + a) /\ m <= 1 + a
    <3>1. m - 1 \in 1..a /\ n - (1 + a) \in Nat /\ n - (1 + a) > 0
      BY <1>1, <2>1, <2>4
    <3>2. at[m - 1] \in Nat /\ at[m - 1] <= L
      BY <1>3, <1>4, <3>1
    <3> QED BY <1>3, <2>1, <2>4, <3>1, <3>2
  <2>5. CASE m # 1 /\ ~(n <= 1 + a) /\ ~(m <= 1 + a)
    BY <1>1, <1>3, <1>7, <2>1, <2>5
  <2> QED BY <2>2, <2>3, <2>4, <2>5
<1>8. ASSUME NEW n \in DOMAIN c, \A m \in DOMAIN c : m > n => c[m] # c[n]
      PROVE  Rank(c[n]) = rankAt(n)
  <2>1. CASE n = 1
    <3>1. ~IsDeclared(DefaultTranslation, wanted)
      <4> SUFFICES ASSUME NEW j \in DOMAIN refs, refs[j] = DefaultTranslation PROVE FALSE
        BY DEF IsDeclared, refs
      <4>1. 1 + a + j \in DOMAIN c /\ 1 + a + j > 1 /\ j \in 1..Len(refs)
        BY <1>1, <1>3
      <4> QED BY <1>1, <1>8, <2>1, <4>1
    <3> QED BY <1>1, <2>1, <3>1 DEF Rank
  <2>2. CASE n - 1 \in 1..a /\ n = 1 + (n - 1) /\ n # 1 /\ n <= 1 + a
    <3> DEFINE i == n - 1
    <3>1. c[n] = ByName[at[i]] /\ at[i] \in DOMAIN ByName
      BY <1>1, <1>2, <1>3, <1>4, <2>2
    <3> HIDE DEF i
    <3>2. ~IsDeclared(c[n], wanted) /\ c[n] # DefaultTranslation
      BY <1>4, <2>2, <3>1 DEF i
    <3>3. \A m \in DOMAIN ByName : ByName[m] = c[n] => m <= at[i]
      BY <1>3, <3>1
    <3>4. (CHOOSE k \in DOMAIN ByName :
             ByName[k] = c[n] /\ \A m \in DOMAIN ByName : ByName[m] = c[n] => m <= k) = at[i]
      BY <1>3, <3>1, <3>3, LastIs
    <3>5. Rank(c[n]) = at[i]
      BY <3>2, <3>4 DEF Rank
    <3> QED BY <2>2, <3>5 DEF i
  <2>3. CASE /\ n - (1 + a) \in 1..Len(refs) /\ n = 1 + a + (n - (1 + a))
             /\ n # 1 /\ ~(n <= 1 + a)
    <3> DEFINE j == n - (1 + a)
    <3>1. c[n] = refs[j] /\ j \in DOMAIN refs /\ n = 1 + a + j
      BY <1>1, <1>3, <2>3
    <3> HIDE DEF j
    <3>2. IsDeclared(c[n], wanted)
      BY <3>1 DEF IsDeclared, refs
    <3>3. ASSUME NEW m \in DOMAIN refs, refs[m] = c[n] PROVE m <= j
      <4>1. 1 + a + m \in DOMAIN c /\ c[1 + a + m] = c[n]
        BY <1>1, <1>3, <3>3
      <4>2. ~(1 + a + m > n)
        BY <1>8, <4>1
      <4> QED BY <1>1, <1>3, <3>1, <4>2
    <3>4. (CHOOSE k \in DOMAIN refs :
             refs[k] = c[n] /\ \A m \in DOMAIN refs : refs[m] = c[n] => m <= k) = j
      BY <1>3, <3>1, <3>3, LastIs
    <3>5. Rank(c[n]) = L + j
      BY <3>2, <3>4 DEF Rank, L, refs
    <3> QED BY <2>3, <3>5 DEF j
  <2> QED BY <1>5, <2>1, <2>2, <2>3
<1> HIDE DEF rankAt
<1>9. rank \in [DOMAIN c -> Nat] /\ \A n \in DOMAIN c : rank[n] = rankAt(n)
  BY <1>6
<1> HIDE DEF rank
<1>10. \A m, n \in DOMAIN c : m < n => rank[m] < rank[n]
  BY <1>7, <1>9
<1>11. \A n \in DOMAIN c :
         (\A m \in DOMAIN c : m > n => c[m] # c[n]) => Rank(c[n]) = rank[n]
  BY <1>8, <1>9
<1> QED BY <1>9, <1>10, <1>11, Zenon DEF c

\* The claimants of a name are the candidates that have it.
LEMMA ClaimantsAre ==
  ASSUME wanted.translationRefs \in Seq(Translations), NEW name, NEW t
  PROVE  LET c == Candidates(wanted)
         IN  t \in Claimants(name) <=> \E m \in DOMAIN c : c[m] = t /\ Name[t] = name
<1> DEFINE A == Attached(wanted)
           a == Len(A)
           refs == wanted.translationRefs
           c == Candidates(wanted)
           loose == {n \in DOMAIN ByName :
                       Attaches(ByName[n]) /\ ~IsDeclared(ByName[n], wanted)}
<1>1. /\ a \in Nat /\ Len(refs) \in Nat
      /\ c \in Seq(Translations) /\ Len(c) = 1 + a + Len(refs)
      /\ c[1] = DefaultTranslation
      /\ \A i \in 1..a : c[1 + i] = A[i]
      /\ \A j \in 1..Len(refs) : c[1 + a + j] = refs[j]
  BY CandidatesAre
<1>2. PICK at \in [1..a -> loose] :
        /\ \A i \in 1..a : A[i] = ByName[at[i]]
        /\ \A n \in loose : \E i \in 1..a : at[i] = n
  BY AttachedAre
<1>3. /\ DOMAIN c = 1..(1 + a + Len(refs)) /\ DOMAIN refs = 1..Len(refs)
      /\ refs \in Seq(Translations) /\ DefaultTranslation \in Translations
  BY <1>1, HostAssumption
<1>4. \A i \in 1..a : at[i] \in loose
  BY <1>2
<1>5. \A n \in loose : n \in DOMAIN ByName /\ NamesHost(object[ByName[n]])
  BY DEF Attaches
<1>6. \A n \in DOMAIN ByName :
        NamesHost(object[ByName[n]]) => n \in loose \/ IsDeclared(ByName[n], wanted)
  BY DEF Attaches
<1> HIDE DEF a, refs, c, A, loose
<1>7. ASSUME t \in Claimants(name)
      PROVE  \E m \in DOMAIN c : c[m] = t /\ Name[t] = name
  <2>1. t \in Translations /\ Name[t] = name
    BY <1>7 DEF Claimants
  <2>2. CASE t = DefaultTranslation
    <3>1. 1 \in DOMAIN c /\ c[1] = t
      BY <1>1, <1>3, <2>2
    <3> QED BY <2>1, <3>1
  <2>3. CASE IsDeclared(t, wanted)
    <3>1. PICK j \in DOMAIN refs : refs[j] = t
      BY <2>3 DEF IsDeclared, refs
    <3>2. 1 + a + j \in DOMAIN c /\ c[1 + a + j] = t
      BY <1>1, <1>3, <3>1
    <3> QED BY <2>1, <3>2
  <2>4. CASE t # DefaultTranslation /\ ~IsDeclared(t, wanted) /\ NamesHost(object[t])
    <3>1. PICK n \in DOMAIN ByName : ByName[n] = t
      BY <2>1, <2>4, HostAssumption
    <3>2. PICK i \in 1..a : at[i] = n
      BY <1>2, <1>6, <2>4, <3>1
    <3>3. 1 + i \in DOMAIN c /\ c[1 + i] = t
      BY <1>1, <1>2, <1>3, <3>1, <3>2
    <3> QED BY <2>1, <3>3
  <2> QED BY <1>7, <2>2, <2>3, <2>4 DEF Claimants
<1>8. ASSUME NEW m \in DOMAIN c, c[m] = t, Name[t] = name
      PROVE  t \in Claimants(name)
  <2>1. t \in Translations
    BY <1>1, <1>8
  <2>2. \/ m = 1
        \/ m - 1 \in 1..a /\ m = 1 + (m - 1)
        \/ m - (1 + a) \in 1..Len(refs) /\ m = 1 + a + (m - (1 + a))
    BY <1>1, <1>3
  <2>3. t = DefaultTranslation \/ IsDeclared(t, wanted) \/ NamesHost(object[t])
    <3>1. CASE m = 1
      BY <1>1, <1>8, <3>1
    <3>2. CASE m - 1 \in 1..a /\ m = 1 + (m - 1)
      <4>1. t = ByName[at[m - 1]] /\ at[m - 1] \in loose
        BY <1>1, <1>2, <1>4, <1>8, <3>2
      <4> QED BY <1>5, <4>1
    <3>3. CASE m - (1 + a) \in 1..Len(refs) /\ m = 1 + a + (m - (1 + a))
      <4>1. refs[m - (1 + a)] = t /\ m - (1 + a) \in DOMAIN refs
        BY <1>1, <1>3, <1>8, <3>3
      <4> QED BY <4>1 DEF IsDeclared, refs
    <3> QED BY <2>2, <3>1, <3>2, <3>3
  <2> QED BY <1>8, <2>1, <2>3 DEF Claimants
<1> QED BY <1>7, <1>8, Zenon DEF c

\* What is kept at the last place of a name wins it.
LEMMA KeptWins ==
  ASSUME wanted.translationRefs \in Seq(Translations),
         NEW p \in DOMAIN Candidates(wanted), Keeps(Candidates(wanted), p)
  PROVE  LET t == Candidates(wanted)[p]
         IN  t \in Claimants(Name[t]) /\ Winner(Name[t]) = t
<1> DEFINE c == Candidates(wanted)
           t == c[p]
<1>1. /\ c \in Seq(Translations)
      /\ \A name, u : u \in Claimants(name) <=> \E m \in DOMAIN c : c[m] = u /\ Name[u] = name
  BY SourceTypes, ClaimantsAre
<1>2. PICK rank \in [DOMAIN c -> Nat] :
        /\ \A m, n \in DOMAIN c : m < n => rank[m] < rank[n]
        /\ \A n \in DOMAIN c :
             (\A m \in DOMAIN c : m > n => c[m] # c[n]) => Rank(c[n]) = rank[n]
  BY RanksRise
<1>3. p \in DOMAIN c /\ Keeps(c, p)
  OBVIOUS
<1> HIDE DEF c
<1>4. \A m \in DOMAIN c : m > p => Name[c[m]] # Name[t]
  BY <1>3 DEF Keeps
<1>5. Rank(t) = rank[p]
  BY <1>2, <1>3, <1>4
<1>6. t \in Claimants(Name[t])
  BY <1>1, <1>3
<1>7. ASSUME NEW u \in Claimants(Name[t])
      PROVE  Rank(u) \in Nat /\ Rank(t) \in Nat /\ (u = t \/ Rank(u) < Rank(t))
  <2> DEFINE places == {m \in DOMAIN c : c[m] = u}
  <2>1. places # {} /\ places \in SUBSET (1..Len(c)) /\ Len(c) \in Nat
        /\ Name[u] = Name[t]
    BY <1>1, <1>7
  <2>2. PICK q \in places : \A m \in places : m <= q
    <3> HIDE DEF places
    <3> QED BY <2>1, Greatest
  <2>3. q \in DOMAIN c /\ c[q] = u /\ \A m \in DOMAIN c : m > q => c[m] # c[q]
    <3>1. \A m \in DOMAIN c : m \in Nat
      BY <1>1
    <3> QED BY <2>2, <3>1
  <2>4. Rank(u) = rank[q]
    BY <1>2, <2>3
  <2>5. ~(q > p)
    BY <1>4, <2>1, <2>3
  <2>6. q = p \/ q < p
    BY <1>1, <1>3, <2>3, <2>5
  <2>7. rank[q] \in Nat /\ rank[p] \in Nat
    BY <1>2, <1>3, <2>3
  <2>8. q < p => rank[q] < rank[p]
    BY <1>2, <1>3, <2>3
  <2> QED BY <1>5, <2>3, <2>4, <2>6, <2>7, <2>8
<1> HIDE DEF t
<1>8. \A u \in Claimants(Name[t]) : Rank(u) <= Rank(t)
  BY <1>7
<1>9. ASSUME NEW w \in Claimants(Name[t]), \A u \in Claimants(Name[t]) : Rank(u) <= Rank(w)
      PROVE  w = t
  <2>1. Rank(t) <= Rank(w)
    BY <1>6, <1>9
  <2> QED BY <1>7, <1>9, <2>1
<1>10. Winner(Name[t]) = t
  BY <1>6, <1>8, <1>9 DEF Winner
<1> QED BY <1>6, <1>10 DEF t, c

LEMMA WalkWins ==
  ASSUME wanted.translationRefs \in Seq(Translations)
  PROVE  Precedence
<1> DEFINE c == Candidates(wanted)
           order == orderTranslationSources(wanted)
<1>1. c \in Seq(Translations) /\ order \in Seq(Translations)
  BY SourceTypes
<1>2. PICK place \in [DOMAIN order -> DOMAIN c] :
        /\ \A i \in DOMAIN order : order[i] = c[place[i]] /\ Keeps(c, place[i])
        /\ \A i, j \in DOMAIN order : i < j => place[i] < place[j]
        /\ \A n \in DOMAIN c : Keeps(c, n) => \E i \in DOMAIN order : place[i] = n
  BY WalkKeeps
<1>3. PICK rank \in [DOMAIN c -> Nat] :
        /\ \A m, n \in DOMAIN c : m < n => rank[m] < rank[n]
        /\ \A n \in DOMAIN c :
             (\A m \in DOMAIN c : m > n => c[m] # c[n]) => Rank(c[n]) = rank[n]
  BY RanksRise
<1>4. \A p \in DOMAIN c : Keeps(c, p) => c[p] \in Claimants(Name[c[p]])
                                         /\ Winner(Name[c[p]]) = c[p]
  BY KeptWins
<1>5. \A name, u : u \in Claimants(name) => \E m \in DOMAIN c : c[m] = u /\ Name[u] = name
  BY ClaimantsAre
<1> HIDE DEF c, order
<1>6. ASSUME NEW i \in DOMAIN order PROVE order[i] \in Winners
  <2>1. /\ order[i] \in Claimants(Name[order[i]]) /\ Winner(Name[order[i]]) = order[i]
        /\ order[i] \in Translations
    BY <1>1, <1>2, <1>4
  <2>2. Name[order[i]] \in Names
    BY <2>1 DEF Names
  <2> QED BY <2>1, <2>2 DEF Winners
<1>7. ASSUME NEW t \in Winners PROVE \E i \in DOMAIN order : order[i] = t
  <2>1. PICK name \in Names : Claimants(name) # {} /\ Winner(name) = t
    BY DEF Winners
  <2> DEFINE places == {m \in DOMAIN c : Name[c[m]] = name}
  <2>2. places # {} /\ places \in SUBSET (1..Len(c)) /\ Len(c) \in Nat
    <3>1. PICK u \in Claimants(name) : TRUE
      BY <2>1
    <3> QED BY <1>1, <1>5, <3>1
  <2>3. PICK p \in places : \A m \in places : m <= p
    <3> HIDE DEF places
    <3> QED BY <2>2, Greatest
  <2>4. p \in DOMAIN c /\ Name[c[p]] = name /\ Keeps(c, p)
    <3>1. \A m \in DOMAIN c : m \in Nat
      BY <1>1
    <3> QED BY <2>3, <3>1 DEF Keeps
  <2>5. c[p] = t
    BY <1>4, <2>1, <2>4
  <2> QED BY <1>2, <2>4, <2>5
<1>8. ASSUME NEW m \in DOMAIN order, NEW n \in DOMAIN order, m < n
      PROVE  Rank(order[m]) < Rank(order[n])
  <2>1. ASSUME NEW i \in DOMAIN order
        PROVE  place[i] \in DOMAIN c /\ Rank(order[i]) = rank[place[i]]
    <3>1. place[i] \in DOMAIN c /\ Keeps(c, place[i]) /\ order[i] = c[place[i]]
      BY <1>2
    <3>2. \A k \in DOMAIN c : k > place[i] => c[k] # c[place[i]]
      BY <3>1 DEF Keeps
    <3> QED BY <1>3, <3>1, <3>2
  <2>2. place[m] < place[n]
    BY <1>2, <1>8
  <2>3. rank[place[m]] < rank[place[n]]
    BY <1>3, <2>1, <2>2
  <2> QED BY <2>1, <2>3
<1>9. {order[n] : n \in DOMAIN order} = Winners
  BY <1>6, <1>7
<1> QED BY <1>8, <1>9 DEF Precedence, order

\* orderTranslationSources' one walk down a list in which a source may stand
\* several times is the documented precedence: the default, then the attached
\* translations by name, then the host's own list, a higher one replacing a
\* lower one of its name.
THEOREM WalkIsPrecedence == Spec => []Precedence
<1>1. HostInv => Precedence
  BY WorldTypes, WalkWins DEF HostInv, wanted
<1> QED BY <1>1, HostInvariant, PTL

=============================================================================
