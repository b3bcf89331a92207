------------------------ MODULE ChartPathCacheProofs ------------------------
(***************************************************************************)
(* For every number of goroutines, charts, credentials and every limit:    *)
(* the cache stays within its limit and gives every caller its own archive.*)
(***************************************************************************)
EXTENDS ChartPathCache, FiniteSetTheorems, TLAPS

USE CacheAssumption

\* A goroutine inside get knows what it asked for, and what it holds or the
\* cache holds was downloaded for the key it is under.
CacheInv ==
  /\ TypeOK
  /\ \A k \in DOMAIN paths : paths[k] = k
  /\ \A c \in Callers :
       /\ IF caller[c].step = "idle" THEN caller[c].request = None
          ELSE caller[c].request \in Requests
       /\ caller[c].step = "store" => caller[c].path = caller[c].request
       /\ caller[c].step \in {"idle", "load"} => caller[c].path = None
       /\ caller[c].path # None => caller[c].path = caller[c].request

\* A goroutine row replaced by a sound one.
LEMMA CallerUpdate ==
  ASSUME CacheInv, NEW c \in Callers, NEW v \in Caller,
         caller' = [caller EXCEPT ![c] = v],
         IF v.step = "idle" THEN v.request = None ELSE v.request \in Requests,
         v.step = "store" => v.path = v.request,
         v.step \in {"idle", "load"} => v.path = None,
         v.path # None => v.path = v.request,
         UNCHANGED paths, faults' \in 0..MaxFaults
  PROVE  CacheInv'
<1>1. caller \in [Callers -> Caller]
  BY DEF CacheInv, TypeOK
<1>2. caller' \in [Callers -> Caller]
  BY <1>1
<1>3. \A d \in Callers : caller'[d] = IF d = c THEN v ELSE caller[d]
  BY <1>1
<1> QED BY <1>2, <1>3 DEF CacheInv, TypeOK

\* get's steps keep what the cache holds sound.
LEMMA NextCacheInv == CacheInv /\ [Next]_vars => CacheInv'
<1> SUFFICES ASSUME CacheInv, [Next]_vars PROVE CacheInv'
  OBVIOUS
<1>0. /\ caller \in [Callers -> Caller]
      /\ faults \in 0..MaxFaults
      /\ \A k \in DOMAIN paths : paths[k] = k /\ k \in Requests
  BY DEF CacheInv, TypeOK, Keys, chartPathKey
<1>1. ASSUME NEW c \in Callers, Lookup(c) PROVE CacheInv'
  <2>1. PICK r \in Requests :
          caller' = [caller EXCEPT ![c] =
            IF r \in DOMAIN paths
            THEN [step |-> "done", request |-> r, path |-> paths[r]]
            ELSE [step |-> "load", request |-> r, path |-> None]]
    BY <1>1 DEF Lookup, chartPathKey
  <2> DEFINE v == IF r \in DOMAIN paths
                  THEN [step |-> "done", request |-> r, path |-> paths[r]]
                  ELSE [step |-> "load", request |-> r, path |-> None]
  <2>2. /\ v \in Caller /\ v.request = r
        /\ \/ v.step = "done" /\ v.path = r
           \/ v.step = "load" /\ v.path = None
    BY <1>0 DEF Caller, Archives
  <2>3. UNCHANGED paths /\ faults' \in 0..MaxFaults
    BY <1>0, <1>1 DEF Lookup
  <2> HIDE DEF v
  <2>4. caller' = [caller EXCEPT ![c] = v]
    BY <2>1 DEF v
  <2> QED BY <2>2, <2>3, <2>4, CallerUpdate
<1>2. ASSUME NEW c \in Callers, Load(c) PROVE CacheInv'
  <2>1. /\ caller[c] \in Caller /\ caller[c].request \in Requests
        /\ caller[c].path = None
    BY <1>0, <1>2 DEF Load, CacheInv
  <2>2. faults' \in 0..MaxFaults /\ UNCHANGED paths
    BY <1>0, <1>2 DEF Load
  <2>3. CASE caller' = [caller EXCEPT ![c].step = "store",
                                      ![c].path = caller[c].request]
    <3> DEFINE v == [caller[c] EXCEPT !.step = "store",
                                      !.path = caller[c].request]
    <3>1. /\ v \in Caller /\ v.step = "store"
          /\ v.request = caller[c].request /\ v.path = caller[c].request
      BY <2>1 DEF Caller, Archives
    <3>2. caller' = [caller EXCEPT ![c] = v]
      BY <2>3
    <3> HIDE DEF v
    <3> QED BY <2>1, <2>2, <3>1, <3>2, CallerUpdate
  <2>4. CASE caller' = [caller EXCEPT ![c].step = "done"]
    <3> DEFINE v == [caller[c] EXCEPT !.step = "done"]
    <3>1. /\ v \in Caller /\ v.step = "done"
          /\ v.request = caller[c].request /\ v.path = None
      BY <2>1 DEF Caller
    <3>2. caller' = [caller EXCEPT ![c] = v]
      BY <2>4
    <3> HIDE DEF v
    <3> QED BY <2>1, <2>2, <3>1, <3>2, CallerUpdate
  <2> QED BY <1>2, <2>3, <2>4 DEF Load
<1>3. ASSUME NEW c \in Callers, Store(c) PROVE CacheInv'
  <2>1. /\ caller[c] \in Caller /\ caller[c].request \in Requests
        /\ caller[c].path = caller[c].request
    BY <1>0, <1>3 DEF Store, CacheInv
  <2> DEFINE k == caller[c].request
  <2>2. PICK S \in Survivors :
          paths' = [j \in S \cup {k} |->
                      IF j = k THEN caller[c].path ELSE paths[j]]
    BY <1>3 DEF Store, chartPathKey
  <2>3. S \subseteq DOMAIN paths
    BY DEF Survivors
  <2>4. /\ DOMAIN paths' = S \cup {k}
        /\ \A j \in DOMAIN paths' : paths'[j] = j
    BY <1>0, <2>1, <2>2, <2>3
  <2>5. S \cup {k} \subseteq Keys /\ S \cup {k} \subseteq Archives
    BY <1>0, <2>1, <2>3 DEF Keys, Archives, chartPathKey
  <2>6. paths' \in [S \cup {k} -> Archives]
    BY <2>2, <2>4, <2>5
  <2> DEFINE v == [caller[c] EXCEPT !.step = "done"]
  <2>7. /\ v \in Caller /\ v.step = "done" /\ v.request = k /\ v.path = k
    BY <2>1 DEF Caller
  <2>8. caller' = [caller EXCEPT ![c] = v] /\ UNCHANGED faults
    BY <1>3 DEF Store
  <2> HIDE DEF v
  <2>9. /\ caller' \in [Callers -> Caller]
        /\ \A d \in Callers : caller'[d] = IF d = c THEN v ELSE caller[d]
    BY <1>0, <2>7, <2>8
  <2>10. TypeOK'
    BY <1>0, <2>5, <2>6, <2>8, <2>9 DEF TypeOK
  <2> QED BY <2>1, <2>4, <2>7, <2>9, <2>10 DEF CacheInv
<1>4. ASSUME NEW c \in Callers, Leave(c) PROVE CacheInv'
  <2>1. /\ IdleCaller \in Caller /\ IdleCaller.step = "idle"
        /\ IdleCaller.path = None /\ IdleCaller.request = None
    BY DEF IdleCaller, Caller
  <2>2. /\ caller' = [caller EXCEPT ![c] = IdleCaller]
        /\ UNCHANGED paths /\ faults' \in 0..MaxFaults
    BY <1>0, <1>4 DEF Leave
  <2> QED BY <2>1, <2>2, CallerUpdate
<1>5. CASE UNCHANGED vars
  BY <1>5 DEF vars, CacheInv, TypeOK
<1> QED BY <1>1, <1>2, <1>3, <1>4, <1>5 DEF Next

\* The invariant of get, for every cache and fleet.
THEOREM CacheSound == Spec => []CacheInv
<1>1. Init => CacheInv
  <2> SUFFICES ASSUME Init PROVE CacheInv
    OBVIOUS
  <2>1. paths \in [{} -> Archives] /\ {} \in SUBSET Keys
    BY DEF Init
  <2>2. /\ IdleCaller \in Caller /\ IdleCaller.path = None
        /\ IdleCaller.request = None /\ IdleCaller.step = "idle"
    BY DEF IdleCaller, Caller
  <2>3. DOMAIN paths = {} /\ faults \in 0..MaxFaults
    BY DEF Init
  <2>4. caller = [c \in Callers |-> IdleCaller]
    BY DEF Init
  <2>5. TypeOK
    BY <2>1, <2>2, <2>3, <2>4 DEF TypeOK
  <2> QED BY <2>2, <2>3, <2>4, <2>5 DEF CacheInv
<1> QED BY <1>1, NextCacheInv, PTL DEF Spec

\* get hands out no archive of another chart or of other credentials.
THEOREM OwnArchives == Spec => []OwnArchive
<1>1. CacheInv => OwnArchive
  BY DEF CacheInv, OwnArchive
<1> QED BY <1>1, CacheSound, PTL

\* The eviction loop of get leaves room for the entry it then stores, so the
\* limit holds although each caller checks it long after its lookup missed.
THEOREM CacheBounded == Spec => []CacheBound
<1>1. Init => CacheBound
  BY FS_EmptySet DEF Init, CacheBound
<1>2. CacheInv /\ CacheBound /\ [Next]_vars => CacheBound'
  <2> SUFFICES ASSUME CacheInv, CacheBound, [Next]_vars PROVE CacheBound'
    OBVIOUS
  <2>1. ASSUME NEW c \in Callers, Store(c) PROVE CacheBound'
    <3> DEFINE k == chartPathKey(caller[c].request)
    <3>1. PICK S \in Survivors :
            paths' = [j \in S \cup {k} |->
                        IF j = k THEN caller[c].path ELSE paths[j]]
      BY <2>1 DEF Store
    <3>2. DOMAIN paths' = S \cup {k}
      BY <3>1
    <3>3. IsFiniteSet(DOMAIN paths)
      <4>1. DOMAIN paths \subseteq Requests
        BY DEF CacheInv, TypeOK, Keys, chartPathKey
      <4> QED BY <4>1, FS_Subset DEF Requests
    <3>4. S \subseteq DOMAIN paths
      BY DEF Survivors
    <3>5. IsFiniteSet(S)
      BY <3>3, <3>4, FS_Subset
    <3>6. /\ Cardinality(DOMAIN paths) \in Nat /\ Cardinality(S) \in Nat
          /\ Cardinality(S \cup {k}) \in {Cardinality(S), Cardinality(S) + 1}
      BY <3>3, <3>5, FS_AddElement, FS_CardinalityType
    <3>7. Cardinality(S) <= IF Max > 0 THEN Max - 1 ELSE 0
      <4>1. CASE Cardinality(DOMAIN paths) < Max
        BY <3>6, <4>1 DEF Survivors
      <4>2. CASE ~(Cardinality(DOMAIN paths) < Max)
        BY <3>6, <4>2 DEF Survivors
      <4> QED BY <4>1, <4>2
    <3> QED BY <3>2, <3>6, <3>7 DEF CacheBound
  <2>2. CASE UNCHANGED paths
    BY <2>2 DEF CacheBound
  <2> QED BY <2>1, <2>2 DEF Next, Lookup, Load, Leave, vars
<1> QED BY <1>1, <1>2, CacheSound, PTL DEF Spec

\* Every state is well typed, from the same invariant.
THEOREM CacheTyped == Spec => []TypeOK
<1>1. CacheInv => TypeOK
  BY DEF CacheInv
<1> QED BY <1>1, CacheSound, PTL

\* What one goroutine sees changes with its own row only.
LEMMA SeenUpdate ==
  ASSUME caller \in [Callers -> Caller],
         NEW c \in Callers, NEW v, caller' = [caller EXCEPT ![c] = v]
  PROVE  /\ caller'[c] = v
         /\ \A d \in Callers : d # c => caller'[d] = caller[d]
         /\ [d \in Callers |-> Seen(d)]'
              = [[d \in Callers |-> Seen(d)] EXCEPT ![c] = Seen(c)']
<1>1. /\ caller'[c] = v
      /\ \A d \in Callers : d # c => caller'[d] = caller[d]
  OBVIOUS
<1>2. \A d \in Callers : d # c => Seen(d)' = Seen(d)
  BY <1>1 DEF Seen
<1> QED BY <1>1, <1>2

\* A step of the cache is a step of the lookups it stands for, or none.
LEMMA StepRefines == CacheInv /\ CacheInv' /\ [Next]_vars => [Lookups!Next]_Lookups!vars
<1> SUFFICES ASSUME CacheInv, CacheInv', [Next]_vars
             PROVE  [Lookups!Next]_Lookups!vars
  OBVIOUS
<1> DEFINE calls == [d \in Callers |-> Seen(d)]
<1>0. /\ caller \in [Callers -> Caller]
      /\ caller' \in [Callers -> Caller]
      /\ \A k \in DOMAIN paths : paths[k] = k
      /\ None \notin Requests
  BY DEF CacheInv, TypeOK, Requests
<1>1. ASSUME NEW c \in Callers, Lookup(c) PROVE Lookups!Ask(c)
  <2>1. PICK r \in Requests :
          caller' = [caller EXCEPT ![c] =
            IF r \in DOMAIN paths
            THEN [step |-> "done", request |-> r, path |-> paths[r]]
            ELSE [step |-> "load", request |-> r, path |-> None]]
    BY <1>1 DEF Lookup, chartPathKey
  <2>2. /\ caller'[c] = IF r \in DOMAIN paths
                        THEN [step |-> "done", request |-> r, path |-> r]
                        ELSE [step |-> "load", request |-> r, path |-> None]
        /\ calls' = [calls EXCEPT ![c] = Seen(c)']
    BY <1>0, <2>1, SeenUpdate
  <2>3. Seen(c)' \in {Lookups!Pending(r), Lookups!Answered(r)}
    BY <1>0, <2>2 DEF Seen, Lookups!Pending, Lookups!Answered
  <2>4. calls[c] = Lookups!NoCall /\ UNCHANGED faults
    BY <1>1 DEF Lookup, CacheInv, Seen, Lookups!NoCall
  <2> HIDE DEF calls
  <2>5. calls' \in {[calls EXCEPT ![c] = Lookups!Pending(r)],
                    [calls EXCEPT ![c] = Lookups!Answered(r)]}
    BY <2>2, <2>3
  <2> QED BY <2>4, <2>5 DEF Lookups!Ask, calls
<1>2. ASSUME NEW c \in Callers, Load(c)
      PROVE  Lookups!Fail(c) \/ UNCHANGED Lookups!vars
  <2>1. /\ caller[c].request \in Requests /\ caller[c].path = None
        /\ caller[c].step = "load" /\ caller[c] \in Caller
    BY <1>0, <1>2 DEF Load, CacheInv
  <2>2. calls[c] = Lookups!Pending(caller[c].request)
    BY <2>1 DEF Seen, Lookups!Pending
  <2>3. CASE /\ caller' = [caller EXCEPT ![c].step = "store",
                                        ![c].path = caller[c].request]
             /\ UNCHANGED faults
    <3> DEFINE v == [caller[c] EXCEPT !.step = "store",
                                      !.path = caller[c].request]
    <3>1. v.step = "store" /\ v.request = caller[c].request
      BY <2>1 DEF Caller
    <3>2. caller' = [caller EXCEPT ![c] = v]
      BY <2>3
    <3> HIDE DEF v
    <3>3. caller'[c] = v /\ calls' = [calls EXCEPT ![c] = Seen(c)']
      BY <1>0, <3>2, SeenUpdate
    <3>4. Seen(c)' = calls[c]
      BY <2>1, <2>2, <3>1, <3>3 DEF Seen, Lookups!Pending
    <3> QED BY <2>3, <3>3, <3>4 DEF Lookups!vars
  <2>4. CASE /\ faults < MaxFaults /\ faults' = faults + 1
             /\ caller' = [caller EXCEPT ![c].step = "done"]
    <3> DEFINE v == [caller[c] EXCEPT !.step = "done"]
    <3>1. v.step = "done" /\ v.request = caller[c].request /\ v.path = None
      BY <2>1 DEF Caller
    <3>2. caller' = [caller EXCEPT ![c] = v]
      BY <2>4
    <3> HIDE DEF v
    <3>3. caller'[c] = v /\ calls' = [calls EXCEPT ![c] = Seen(c)']
      BY <1>0, <3>2, SeenUpdate
    <3>4. Seen(c)' = Lookups!Failed(caller[c].request)
      BY <3>1, <3>3 DEF Seen, Lookups!Failed
    <3> QED BY <2>1, <2>2, <2>4, <3>3, <3>4 DEF Lookups!Fail
  <2> QED BY <1>2, <2>3, <2>4 DEF Load
<1>3. ASSUME NEW c \in Callers, Store(c) PROVE Lookups!Answer(c)
  <2>1. /\ caller[c].request \in Requests
        /\ caller[c].path = caller[c].request
        /\ caller[c].step = "store" /\ caller[c] \in Caller
    BY <1>0, <1>3 DEF Store, CacheInv
  <2>2. calls[c] = Lookups!Pending(caller[c].request)
    BY <2>1 DEF Seen, Lookups!Pending
  <2> DEFINE v == [caller[c] EXCEPT !.step = "done"]
  <2>3. /\ v.step = "done" /\ v.request = caller[c].request
        /\ v.path = caller[c].request
    BY <2>1 DEF Caller
  <2>4. caller' = [caller EXCEPT ![c] = v] /\ UNCHANGED faults
    BY <1>3 DEF Store
  <2> HIDE DEF v
  <2>5. caller'[c] = v /\ calls' = [calls EXCEPT ![c] = Seen(c)']
    BY <1>0, <2>4, SeenUpdate
  <2>6. Seen(c)' = Lookups!Answered(caller[c].request)
    BY <1>0, <2>1, <2>3, <2>5 DEF Seen, Lookups!Answered
  <2> QED BY <2>1, <2>2, <2>4, <2>5, <2>6 DEF Lookups!Answer
<1>4. ASSUME NEW c \in Callers, Leave(c) PROVE Lookups!Leave(c)
  <2>1. /\ caller[c].request \in Requests /\ caller[c].step = "done"
        /\ caller[c].path \in {None, caller[c].request}
    BY <1>4 DEF Leave, CacheInv
  <2>2. calls[c] \in {Lookups!Answered(caller[c].request),
                      Lookups!Failed(caller[c].request)}
    BY <1>0, <2>1 DEF Seen, Lookups!Answered, Lookups!Failed
  <2>3. caller' = [caller EXCEPT ![c] = IdleCaller] /\ UNCHANGED faults
    BY <1>4 DEF Leave
  <2>4. caller'[c] = IdleCaller /\ calls' = [calls EXCEPT ![c] = Seen(c)']
    BY <1>0, <2>3, SeenUpdate
  <2>5. Seen(c)' = Lookups!NoCall
    BY <2>4 DEF Seen, IdleCaller, Lookups!NoCall
  <2> QED BY <2>1, <2>2, <2>3, <2>4, <2>5 DEF Lookups!Leave
<1>5. CASE UNCHANGED vars
  BY <1>5 DEF vars, Seen, Lookups!vars
<1> QED
  BY <1>1, <1>2, <1>3, <1>4, <1>5 DEF Next, Lookups!Next

\* locateChart with the cache keeps the promise of locateChart without one.
THEOREM CacheTransparent == Spec => Transparent
<1>1. Init => Lookups!Init
  BY DEF Init, Lookups!Init, Lookups!NoCall, Seen, IdleCaller
<1> QED
  BY <1>1, StepRefines, CacheSound, PTL DEF Spec, Transparent, Lookups!Spec

=============================================================================
