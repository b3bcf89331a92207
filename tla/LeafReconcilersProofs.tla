------------------------ MODULE LeafReconcilersProofs ------------------------
(***************************************************************************)
(* Proofs about LeafReconcilers: whatever the graph of resources, however  *)
(* often they are edited, deleted and created again, no status observes a  *)
(* generation that does not exist and no write revives what is gone.       *)
(***************************************************************************)
EXTENDS LeafReconcilers, NaturalsInduction, WellFoundedInduction, TLAPS

USE LeafAssumption

-----------------------------------------------------------------------------
(* The least element of a set of numbers *)

LEMMA Least ==
  ASSUME NEW S \in SUBSET Nat, S # {}
  PROVE  \E n \in S : \A m \in S : n <= m
<1> DEFINE R == {ss \in Nat \X Nat : ss[1] < ss[2]}
<1>1. IsWellFoundedOn(R, Nat)
  BY NatLessThanWellFounded DEF OpToRel
<1>2. \E x \in S : \A y \in S : <<y, x>> \notin R
  <2> HIDE DEF R
  <2> QED BY <1>1, WFMin
<1>3. PICK x \in S : \A y \in S : <<y, x>> \notin R
  BY <1>2
<1>4. ASSUME NEW y \in S PROVE x <= y
  <2>1. <<y, x>> \notin R
    BY <1>3
  <2> QED BY <2>1
<1> QED BY <1>4

-----------------------------------------------------------------------------
(* Types *)

\* Edits move a generation by one each.
LeafInv ==
  /\ TypeOK
  /\ \A o \in Objects : server[o].gen <= edits + 1

LEMMA WorldTypes ==
  ASSUME world \in Worlds
  PROVE  /\ \A o \in Objects : world.specs[o] \subseteq References
         /\ DefaultSecret \in Objects \cup {None}
         /\ world.archetypes \in Seq(Objects)
         /\ \A o \in DOMAIN world.start : o \in Objects /\ world.start[o] \in References
BY DEF DefaultSecret

\* A field names an object, or none.
LEMMA RefType ==
  ASSUME NEW refs \in References, NEW f
  PROVE  Ref(refs, f) \in Objects \cup {None}
<1>1. PICK some \in SUBSET Fields : refs \in [some -> Objects \cup {None}]
  BY DEF References
<1> QED BY <1>1 DEF Ref

LEMMA NoReferences == <<>> \in References
<1>1. <<>> \in [{} -> Objects \cup {None}] /\ {} \in SUBSET Fields
  OBVIOUS
<1> QED BY <1>1 DEF References

LEMMA NoStatusType == NoStatus \in Status /\ NoStatus.observed = 0
<1>1. [f \in Fields |-> 0] \in [Fields -> Nat]
  OBVIOUS
<1>2. Plainly("None") \in Condition
  BY DEF Plainly, Condition
<1> QED BY <1>1, <1>2 DEF NoStatus, Status

LEMMA FreshType ==
  ASSUME NEW refs \in References
  PROVE  /\ Fresh(refs) \in Object /\ Fresh(refs).gen = 1
         /\ Fresh(refs).status = NoStatus /\ Fresh(refs).exists
BY NoStatusType DEF Fresh, Object

LEMMA AbsentType ==
  Absent \in Object /\ Absent.gen = 1 /\ Absent.status.observed = 0
<1>1. /\ Fresh(<<>>) \in Object /\ Fresh(<<>>).gen = 1
      /\ Fresh(<<>>).status = NoStatus
  BY NoReferences, FreshType
<1> QED BY <1>1, NoStatusType DEF Absent, Object

LEMMA EditedType ==
  ASSUME NEW obj \in Object, NEW refs \in References
  PROVE  LET edited == [obj EXCEPT !.refs = refs, !.gen = @ + 1]
         IN /\ edited \in Object /\ edited.gen = obj.gen + 1
            /\ edited.status = obj.status /\ edited.exists = obj.exists
<1> DEFINE edited == [obj EXCEPT !.refs = refs, !.gen = @ + 1]
<1>1. /\ obj = [exists |-> obj.exists, gen |-> obj.gen, refs |-> obj.refs,
                status |-> obj.status]
      /\ obj.exists \in BOOLEAN /\ obj.gen \in Nat /\ obj.status \in Status
  BY Zenon DEF Object
<1>2. edited = [exists |-> obj.exists, gen |-> obj.gen + 1, refs |-> refs,
                status |-> obj.status]
  <2> DEFINE named == [obj EXCEPT !.refs = refs]
             moved == [named EXCEPT !.gen = obj.gen + 1]
  <2>1. named = [exists |-> obj.exists, gen |-> obj.gen, refs |-> refs,
                 status |-> obj.status]
    BY <1>1
  <2> HIDE DEF named
  <2>2. moved = [exists |-> obj.exists, gen |-> obj.gen + 1, refs |-> refs,
                 status |-> obj.status]
    BY <2>1
  <2>3. edited = moved
    BY DEF named
  <2> QED BY <2>2, <2>3
<1>3. obj.gen + 1 \in Nat
  BY <1>1
<1> HIDE DEF edited
<1>4. edited \in Object
  BY Zenon, <1>1, <1>2, <1>3 DEF Object
<1>5. edited.gen = obj.gen + 1 /\ edited.status = obj.status /\ edited.exists = obj.exists
  BY <1>2
<1> QED BY <1>4, <1>5 DEF edited

\* The status of an object is written.
LEMMA StatusWritten ==
  ASSUME NEW obj \in Object, NEW status \in Status
  PROVE  LET written == [obj EXCEPT !.status = status]
         IN /\ written \in Object /\ written.gen = obj.gen
            /\ written.status = status /\ written.exists = obj.exists
BY DEF Object

\* An object is written.
LEMMA StoreInv ==
  ASSUME LeafInv, NEW o \in Objects, NEW obj \in Object, Store(o, obj),
         obj.gen <= edits' + 1, obj.gen # 0, obj.status.observed <= obj.gen,
         obj.exists \/ obj = Absent,
         edits' \in 0..MaxEdits, edits' >= edits, UNCHANGED <<world, cache>>,
         queue' \subseteq Objects, delayed' \subseteq Objects,
         published' \subseteq Objects, troubles' \in 0..MaxTroubles
  PROVE  LeafInv'
<1>1. /\ server \in [Objects -> Object] /\ cache \in [Objects -> Object]
      /\ edits \in 0..MaxEdits
  BY DEF LeafInv, TypeOK
<1>2. server' = [server EXCEPT ![o] = obj] /\ synced' = synced \ {o}
  BY DEF Store
<1>3. server' \in [Objects -> Object]
      /\ \A p \in Objects : server'[p] = IF p = o THEN obj ELSE server[p]
  BY <1>1, <1>2
<1>4. \A p \in Objects : server[p].gen \in 1..(MaxEdits + 1) /\ server[p].gen <= edits + 1
  BY DEF LeafInv, TypeOK
<1>5. obj.gen \in Nat
  BY DEF Object
<1>6. ASSUME NEW p \in Objects
      PROVE  /\ server'[p].gen \in 1..(MaxEdits + 1) /\ server'[p].gen <= edits' + 1
             /\ server'[p].status.observed <= server'[p].gen
             /\ p \in synced' => cache'[p] = server'[p]
             /\ server'[p].exists \/ server'[p] = Absent
  <2>1. CASE p = o
    BY <1>1, <1>2, <1>3, <1>5, <2>1
  <2>2. CASE p # o
    <3>1. server'[p] = server[p] /\ (p \in synced' => p \in synced)
      BY <1>2, <1>3, <2>2
    <3>2. server'[p].gen <= edits' + 1
      BY <1>1, <1>4, <3>1
    <3> QED BY <3>1, <3>2, <1>4 DEF LeafInv, TypeOK
  <2> QED BY <2>1, <2>2
<1> QED BY <1>1, <1>3, <1>6 DEF LeafInv, TypeOK

LEMMA EditsInv ==
  ASSUME LeafInv, NEW o \in Objects,
         EditSpec(o) \/ DeleteObject(o) \/ CreateObject(o)
  PROVE  LeafInv'
<1>0. /\ edits \in 0..MaxEdits /\ edits < MaxEdits /\ edits' = edits + 1
      /\ UNCHANGED <<world, cache, queue, delayed, published, troubles>>
      /\ world \in Worlds /\ server[o] \in Object
      /\ queue' \subseteq Objects /\ delayed' \subseteq Objects
      /\ published' \subseteq Objects /\ troubles' \in 0..MaxTroubles
  BY DEF LeafInv, TypeOK, EditSpec, DeleteObject, CreateObject, Edit
<1>1. edits' \in 0..MaxEdits /\ edits' >= edits
  BY <1>0
<1>2. \E obj \in Object :
        /\ Store(o, obj)
        /\ obj.gen <= edits' + 1 /\ obj.gen # 0
        /\ obj.status.observed <= obj.gen
        /\ obj.exists \/ obj = Absent
  <2>1. CASE EditSpec(o)
    <3>1. PICK refs \in world.specs[o] :
            Store(o, [server[o] EXCEPT !.refs = refs, !.gen = @ + 1])
      BY <2>1 DEF EditSpec
    <3>2. refs \in References
      BY <1>0, <3>1, WorldTypes
    <3> DEFINE obj == [server[o] EXCEPT !.refs = refs, !.gen = @ + 1]
    <3>3. /\ server[o].gen \in Nat /\ server[o].gen <= edits + 1
          /\ server[o].status.observed \in Nat
          /\ server[o].status.observed <= server[o].gen
      BY <1>0 DEF LeafInv, TypeOK, Object, Status
    <3>4. /\ obj \in Object /\ obj.gen = server[o].gen + 1
          /\ obj.status = server[o].status /\ obj.exists = server[o].exists
      BY <1>0, <3>2, EditedType
    <3>5. server[o].exists
      BY <2>1 DEF EditSpec
    <3> HIDE DEF obj
    <3>6. obj.gen <= edits' + 1 /\ obj.gen # 0 /\ obj.status.observed <= obj.gen
      BY <1>0, <3>3, <3>4
    <3>7. Store(o, obj)
      BY <3>1 DEF obj
    <3> QED BY <3>4, <3>5, <3>6, <3>7
  <2>2. CASE DeleteObject(o)
    <3>1. Absent.gen <= edits' + 1 /\ Absent.gen # 0
          /\ Absent.status.observed <= Absent.gen
      BY <1>0, AbsentType
    <3> QED BY <2>2, <3>1, AbsentType DEF DeleteObject
  <2>3. CASE CreateObject(o)
    <3>1. PICK refs \in world.specs[o] : Store(o, Fresh(refs))
      BY <2>3 DEF CreateObject
    <3>2. refs \in References
      BY <1>0, <3>1, WorldTypes
    <3>3. /\ Fresh(refs) \in Object /\ Fresh(refs).gen = 1
          /\ Fresh(refs).status = NoStatus /\ Fresh(refs).exists
      BY <3>2, FreshType
    <3>4. Fresh(refs).gen <= edits' + 1
          /\ Fresh(refs).status.observed <= Fresh(refs).gen
      BY <1>0, <3>3, NoStatusType
    <3> QED BY <3>1, <3>3, <3>4
  <2> QED BY <2>1, <2>2, <2>3
<1> QED BY <1>0, <1>1, <1>2, StoreInv

\* Moves of the package registry, the informer, the workqueue and the process.
LEMMA EnvironmentInv ==
  ASSUME LeafInv,
         \/ \E o \in Objects : MovePackage(o) \/ SyncCache(o) \/ ComesBack(o)
         \/ Restart
  PROVE  LeafInv'
<1>1. ASSUME NEW o \in Objects, MovePackage(o) PROVE LeafInv'
  <2>1. /\ edits \in 0..MaxEdits /\ edits < MaxEdits /\ edits' = edits + 1
        /\ published' \subseteq Objects
        /\ UNCHANGED <<world, server, cache, synced, queue, delayed, troubles>>
    BY <1>1 DEF LeafInv, TypeOK, MovePackage
  <2>2. \A p \in Objects : server[p].gen \in Nat /\ server[p].gen <= edits + 1
    BY DEF LeafInv, TypeOK
  <2>3. edits' \in 0..MaxEdits /\ \A p \in Objects : server'[p].gen <= edits' + 1
    BY <2>1, <2>2
  <2> QED BY <2>1, <2>3 DEF LeafInv, TypeOK
<1>2. ASSUME NEW o \in Objects, SyncCache(o) PROVE LeafInv'
  <2>1. /\ cache' = [cache EXCEPT ![o] = server[o]] /\ synced' = synced \cup {o}
        /\ UNCHANGED <<server, delayed, world, published, edits, troubles>>
    BY <1>2 DEF SyncCache, env
  <2>2. /\ cache' \in [Objects -> Object]
        /\ \A p \in Objects : p \in synced' => cache'[p] = server'[p]
    BY <2>1 DEF LeafInv, TypeOK
  <2>3. ByReferencePath(o) \subseteq Objects /\ DefaultSecretRequests(o) \subseteq Objects
    BY DEF ByReferencePath, Listed, DefaultSecretRequests
  <2>4. queue' \subseteq Objects
    BY <1>2, <2>3 DEF SyncCache, LeafInv, TypeOK
  <2> QED BY <2>1, <2>2, <2>4 DEF LeafInv, TypeOK
<1>3. ASSUME NEW o \in Objects, ComesBack(o) PROVE LeafInv'
  BY <1>3 DEF ComesBack, env, LeafInv, TypeOK
<1>4. CASE Restart
  <2>1. /\ UNCHANGED <<server, world, published, edits>>
        /\ cache' = server /\ synced' = Objects
        /\ queue' \subseteq Objects /\ delayed' = {}
        /\ troubles' \in 0..MaxTroubles
    BY <1>4 DEF Restart, env, LeafInv, TypeOK
  <2> QED BY <2>1 DEF LeafInv, TypeOK
<1> QED BY <1>1, <1>2, <1>3, <1>4

-----------------------------------------------------------------------------
(* A pass over the references *)

\* Each reference of a step names an object, or none.
WellTyped(steps) ==
  /\ Len(steps) \in Nat
  /\ \A m \in 1..Len(steps) : \A f \in DOMAIN steps[m].targets :
       steps[m].targets[f] \in Objects \cup {None}

\* A pass stops at a step, the first that cannot be used, or gets through.
LEMMA ThroughType ==
  ASSUME NEW i, NEW steps, WellTyped(steps)
  PROVE  Through(i, steps) \in 0..Len(steps)
<1> DEFINE Ends == {n \in 0..Len(steps) :
                      n = Len(steps) \/ Stops(i, steps[n + 1]) # {}}
<1>1. Len(steps) \in Nat
  BY DEF WellTyped
<1>2. Ends \in SUBSET Nat /\ Len(steps) \in Ends
  BY <1>1
<1>3. PICK n \in Ends : \A m \in Ends : n <= m
  <2> HIDE DEF Ends
  <2> QED BY <1>2, Least
<1>4. ASSUME NEW m \in 1..n PROVE Stops(i, steps[m]) = {}
  <2>1. m - 1 \in 0..Len(steps) /\ m - 1 # Len(steps) /\ ~(n <= m - 1)
    BY <1>1, <1>3
  <2>2. m - 1 \notin Ends
    BY <1>3, <2>1
  <2>3. m = (m - 1) + 1
    BY <2>1
  <2> QED BY <2>1, <2>2, <2>3
<1>5. \E k \in 0..Len(steps) :
        /\ \A m \in 1..k : Stops(i, steps[m]) = {}
        /\ k = Len(steps) \/ Stops(i, steps[k + 1]) # {}
  BY <1>3, <1>4
<1> QED BY <1>5 DEF Through

\* The cached object that a pass reads.
LEMMA CachedType ==
  ASSUME LeafInv, NEW i \in Objects
  PROVE  /\ cache[i] \in Object /\ cache[i].gen \in Nat
         /\ cache[i].refs \in References /\ cache[i].status \in Status
BY DEF LeafInv, TypeOK, Object

LEMMA RecordedType ==
  ASSUME LeafInv, NEW i \in Objects, NEW steps, WellTyped(steps),
         NEW n \in 0..Len(steps)
  PROVE  Recorded(i, steps, n) \in [Fields -> Nat]
<1> DEFINE At(f) == {m \in 1..n : /\ f \in DOMAIN steps[m].targets
                                  /\ steps[m].targets[f] # None}
           Of(f) == IF At(f) = {} THEN cache[i].status.seen[f]
                    ELSE cache[steps[CHOOSE m \in At(f) : TRUE].targets[f]].gen
<1>1. ASSUME NEW f \in Fields PROVE Of(f) \in Nat
  <2>1. CASE At(f) = {}
    BY <2>1, CachedType DEF Status
  <2>2. CASE At(f) # {}
    <3>1. (CHOOSE m \in At(f) : TRUE) \in At(f)
      BY <2>2
    <3>2. \A m \in At(f) : /\ m \in 1..Len(steps) /\ f \in DOMAIN steps[m].targets
                            /\ steps[m].targets[f] # None
      BY DEF WellTyped
    <3> HIDE DEF At
    <3>3. steps[CHOOSE m \in At(f) : TRUE].targets[f] \in Objects
      BY <3>1, <3>2 DEF WellTyped
    <3> QED BY <2>2, <3>3, CachedType
  <2> QED BY <2>1, <2>2
<1>2. Recorded(i, steps, n) = [f \in Fields |-> Of(f)]
  BY DEF Recorded
<1> HIDE DEF Of
<1> QED BY <1>1, <1>2

\* The conditions that a pass may leave name an object, or none.
LEMMA LeftType ==
  ASSUME LeafInv, NEW i \in Objects, NEW steps, WellTyped(steps),
         NEW n \in 0..Len(steps)
  PROVE  Left(i, steps, n) \subseteq Condition
<1>1. cache[i].status.condition \in Condition
  BY CachedType DEF Status
<1>2. CASE n = Len(steps)
  BY <1>2 DEF Left, Plainly, Condition
<1>3. CASE n # Len(steps)
  <2> DEFINE step == steps[n + 1]
             At(f) == ConditionAt(Resolve(i, step.how, step.targets[f]),
                                  step.targets[f], cache[i].status.condition)
  <2>1. n + 1 \in 1..Len(steps)
    BY <1>3 DEF WellTyped
  <2>2. \A f \in Stops(i, step) : step.targets[f] \in Objects \cup {None}
    BY <2>1 DEF WellTyped, Stops
  <2>3. ASSUME NEW outcome, NEW t \in Objects \cup {None}
        PROVE  ConditionAt(outcome, t, cache[i].status.condition) \in Condition
    BY <1>1 DEF ConditionAt, Plainly, Condition
  <2>4. Left(i, steps, n) = {At(f) : f \in Stops(i, step)}
    BY <1>3 DEF Left
  <2> HIDE DEF step
  <2> QED BY <2>2, <2>3, <2>4
<1> QED BY <1>2, <1>3

\* What a pass leaves observes the generation it read.
LEMMA PassesType ==
  ASSUME LeafInv, NEW i \in Objects, NEW steps, WellTyped(steps),
         NEW n \in 0..Len(steps), NEW pass \in Passes(i, steps, n)
  PROVE  /\ pass.status \in Status
         /\ pass.status.observed = cache[i].gen
<1> DEFINE before == cache[i].status
<1>1. PICK condition \in Left(i, steps, n) :
        pass = [status |-> Passed(i, steps, n, condition),
                again |-> n < Len(steps)]
  BY DEF Passes
<1>2. before \in Status /\ cache[i].gen \in Nat
  BY CachedType
<1>3. /\ before = [condition |-> before.condition, observed |-> before.observed,
                   seen |-> before.seen, attempts |-> before.attempts]
      /\ before.attempts \in Nat
  BY <1>2, Zenon DEF Status
<1>4. condition \in Condition /\ Recorded(i, steps, n) \in [Fields -> Nat]
  BY <1>1, LeftType, RecordedType
<1>5. pass.status =
        [before EXCEPT !.observed = cache[i].gen, !.condition = condition,
                       !.seen = Recorded(i, steps, n)]
  BY <1>1 DEF Passed
<1> HIDE DEF before
<1>6. pass.status =
        [condition |-> condition, observed |-> cache[i].gen,
         seen |-> Recorded(i, steps, n), attempts |-> before.attempts]
  BY <1>3, <1>5
<1> QED BY <1>2, <1>3, <1>4, <1>6 DEF Status

\* The references that a pass takes from a spec.
LEMMA OnlyType ==
  ASSUME NEW refs \in References, NEW fields, NEW f \in DOMAIN Only(refs, fields)
  PROVE  Only(refs, fields)[f] \in Objects \cup {None}
<1>1. f \in DOMAIN refs /\ Only(refs, fields)[f] = refs[f]
  BY DEF Only
<1>2. PICK some \in SUBSET Fields : refs \in [some -> Objects \cup {None}]
  BY DEF References
<1> QED BY <1>1, <1>2

\* The references of a step name objects, or none.
StepTyped(step) ==
  \A f \in DOMAIN step.targets : step.targets[f] \in Objects \cup {None}

LEMMA ByType ==
  ASSUME NEW refs \in References
  PROVE  /\ \A f : StepTyped(By(f, refs))
         /\ StepTyped(ResolveContents(refs))
         /\ StepTyped(ResolvePageNavigations(refs))
BY OnlyType DEF By, ResolveContents, ResolvePageNavigations, Step, StepTyped

\* The default archetype is the first of those labelled, when there is one.
LEMMA ArchetypeStepType ==
  ASSUME LeafInv, NEW refs \in References
  PROVE  /\ StepTyped(ArchetypeStep(refs))
         /\ Ref(ArchetypeStep(refs).targets, "PageArchetypeRef") \in Objects \cup {None}
<1> DEFINE labelled == {n \in DOMAIN world.archetypes :
                          cache[world.archetypes[n]].exists}
           first == CHOOSE n \in labelled : \A m \in labelled : n <= m
<1>1. world.archetypes \in Seq(Objects)
  BY WorldTypes DEF LeafInv, TypeOK
<1>2. CASE Ref(refs, "PageArchetypeRef") # None \/ labelled = {}
  <2>1. ArchetypeStep(refs) = By("PageArchetypeRef", refs)
    BY <1>2 DEF ArchetypeStep
  <2>2. StepTyped(ArchetypeStep(refs))
    BY <2>1, ByType
  <2> QED BY <2>2 DEF StepTyped, Ref
<1>3. CASE ~(Ref(refs, "PageArchetypeRef") # None \/ labelled = {})
  <2>1. labelled \in SUBSET Nat /\ labelled # {}
    BY <1>1, <1>3
  <2>2. first \in labelled
    <3> HIDE DEF labelled
    <3>1. \E n \in labelled : \A m \in labelled : n <= m
      BY <2>1, Least
    <3> QED BY <3>1
  <2>3. world.archetypes[first] \in Objects
    <3>1. first \in DOMAIN world.archetypes
      BY <2>2
    <3> HIDE DEF first
    <3> QED BY <3>1, <1>1
  <2>4. ArchetypeStep(refs) =
          Step([f \in {"PageArchetypeRef"} |-> world.archetypes[first]], "default")
    BY <1>3 DEF ArchetypeStep
  <2> HIDE DEF first
  <2>5. ArchetypeStep(refs).targets = [f \in {"PageArchetypeRef"} |-> world.archetypes[first]]
    BY <2>4 DEF Step
  <2> QED BY <2>3, <2>5 DEF StepTyped, Ref
<1> QED BY <1>2, <1>3

LEMMA NavigationStepType ==
  ASSUME LeafInv, NEW refs \in References
  PROVE  StepTyped(NavigationStep(refs))
<1> DEFINE archetype == Ref(ArchetypeStep(refs).targets, "PageArchetypeRef")
           inherited == IF archetype = None THEN <<>> ELSE cache[archetype].refs
           keys == Navigations \cap (DOMAIN refs \cup DOMAIN inherited)
           merged == [f \in keys |-> IF f \in DOMAIN refs THEN refs[f]
                                     ELSE inherited[f]]
<1>1. archetype \in Objects \cup {None}
  BY ArchetypeStepType
<1>2. inherited \in References
  <2> HIDE DEF archetype
  <2> QED BY <1>1, CachedType, NoReferences
<1>3. NavigationStep(refs) = ResolvePageNavigations(merged)
  BY DEF NavigationStep
<1> HIDE DEF inherited
<1>4. PICK some \in SUBSET Fields : refs \in [some -> Objects \cup {None}]
  BY DEF References
<1>5. PICK others \in SUBSET Fields : inherited \in [others -> Objects \cup {None}]
  BY <1>2 DEF References
<1>6. keys \in SUBSET Fields
  BY DEF Fields
<1>7. \A f \in keys : merged[f] \in Objects \cup {None}
  BY <1>4, <1>5
<1>8. merged \in References
  <2>1. merged \in [keys -> Objects \cup {None}]
    BY <1>7
  <2> HIDE DEF merged, keys
  <2> QED BY <1>6, <2>1 DEF References
<1> HIDE DEF merged
<1> QED BY <1>3, <1>8, ByType

LEMMA SecretStepType ==
  ASSUME LeafInv, NEW refs \in References
  PROVE  StepTyped(SecretStep(refs))
<1>1. DefaultSecret \in Objects \cup {None} /\ Ref(refs, "SecretRef") \in Objects \cup {None}
  BY WorldTypes, RefType DEF LeafInv, TypeOK
<1>2. SecretStep(refs).targets =
        [f \in {"SecretRef"} |-> IF Ref(refs, f) = None THEN DefaultSecret
                                 ELSE Ref(refs, f)]
  BY DEF SecretStep, Step
<1> QED BY <1>1, <1>2 DEF StepTyped

\* A counted attempt changes nothing but the count and the condition.
LEMMA ValidatedType ==
  ASSUME LeafInv, NEW i, NEW status \in Status
  PROVE  LET pass == ValidatePackageReference(i, status)
         IN /\ pass.status \in Status
            /\ pass.status.observed = status.observed
<1> DEFINE passed == [status EXCEPT !.attempts = 0]
           failed == [status EXCEPT !.condition = Plainly("Invalid"),
                                    !.attempts = Counted(@)]
<1>1. /\ status = [condition |-> status.condition, observed |-> status.observed,
                   seen |-> status.seen, attempts |-> status.attempts]
      /\ status.attempts \in Nat /\ status.condition \in Condition
      /\ status.observed \in Nat /\ status.seen \in [Fields -> Nat]
  BY Zenon DEF Status
<1>2. Counted(status.attempts) \in Nat /\ Plainly("Invalid") \in Condition
  BY <1>1 DEF Counted, Plainly, Condition
<1>3. passed \in Status /\ passed.observed = status.observed
  BY <1>1 DEF Status
<1>4. failed = [condition |-> Plainly("Invalid"), observed |-> status.observed,
                seen |-> status.seen, attempts |-> Counted(status.attempts)]
  <2> DEFINE named == [status EXCEPT !.condition = Plainly("Invalid")]
             tried == [named EXCEPT !.attempts = Counted(status.attempts)]
  <2>1. named = [condition |-> Plainly("Invalid"), observed |-> status.observed,
                 seen |-> status.seen, attempts |-> status.attempts]
    BY <1>1
  <2> HIDE DEF named
  <2>2. tried = [condition |-> Plainly("Invalid"), observed |-> status.observed,
                 seen |-> status.seen, attempts |-> Counted(status.attempts)]
    BY <2>1
  <2>3. failed = tried
    BY DEF named
  <2> QED BY <2>2, <2>3
<1>5. failed \in Status /\ failed.observed = status.observed
  <2> HIDE DEF failed
  <2> QED BY <1>1, <1>2, <1>4 DEF Status
<1>6. ValidatePackageReference(i, status) =
        IF i \in published THEN [status |-> passed, again |-> FALSE]
        ELSE [status |-> failed, again |-> TRUE]
  BY DEF ValidatePackageReference
<1> HIDE DEF passed, failed
<1> QED BY <1>3, <1>5, <1>6

-----------------------------------------------------------------------------
(* The deferred write *)

LEMMA SaveInv ==
  ASSUME LeafInv, NEW i \in Objects, NEW pass, cache[i].exists,
         pass.status \in Status, pass.status.observed = cache[i].gen,
         Take(i), Save(i, pass)
  PROVE  LeafInv'
<1>1. /\ UNCHANGED <<cache, world, published, edits>>
      /\ queue' \subseteq Objects
      /\ edits' \in 0..MaxEdits /\ edits' >= edits /\ published' \subseteq Objects
  BY DEF Take, env, LeafInv, TypeOK
<1>2. delayed' \subseteq Objects /\ troubles' \in 0..MaxTroubles
  BY DEF Save, Later, LeafInv, TypeOK
<1>3. CASE UNCHANGED <<server, synced>>
  BY <1>1, <1>2, <1>3 DEF LeafInv, TypeOK
<1>4. CASE i \in synced /\ Store(i, [server[i] EXCEPT !.status = pass.status])
  <2>1. /\ server[i] = cache[i] /\ server[i] \in Object
        /\ server[i].gen \in Nat /\ server[i].gen # 0 /\ server[i].gen <= edits' + 1
    BY <1>1, <1>4 DEF LeafInv, TypeOK
  <2> DEFINE obj == [server[i] EXCEPT !.status = pass.status]
  <2>2. /\ obj \in Object /\ obj.gen = server[i].gen
        /\ obj.status = pass.status /\ obj.exists = server[i].exists
    BY <2>1, StatusWritten
  <2> HIDE DEF obj
  <2>3. obj.gen # 0 /\ obj.gen <= edits' + 1 /\ obj.status.observed <= obj.gen /\ obj.exists
    BY <2>1, <2>2
  <2>4. Store(i, obj)
    BY <1>4 DEF obj
  <2> QED BY <1>1, <1>2, <2>2, <2>3, <2>4, StoreInv
<1> QED BY <1>3, <1>4 DEF Save

LEMMA WalkInv ==
  ASSUME LeafInv, NEW i \in Objects, NEW steps, cache[i].exists,
         WellTyped(steps), Take(i), Walk(i, steps)
  PROVE  LeafInv'
<1>1. PICK n \in {Through(i, steps)} :
        \E pass \in Passes(i, steps, n) : Save(i, pass)
  BY DEF Walk
<1>2. n \in 0..Len(steps)
  BY ThroughType
<1> QED BY <1>1, <1>2, PassesType, SaveInv

LEMMA ValidateInv ==
  ASSUME LeafInv, NEW i \in Objects, cache[i].exists, Take(i), Validate(i)
  PROVE  LeafInv'
<1>1. PICK steps \in {<<SecretStep(cache[i].refs)>>} :
        \E n \in {Through(i, steps)} : \E pass \in Passes(i, steps, n) :
          Save(i, IF pass.again THEN pass
                  ELSE ValidatePackageReference(i, pass.status))
  BY DEF Validate
<1>2. PICK n \in {Through(i, steps)} : \E pass \in Passes(i, steps, n) :
          Save(i, IF pass.again THEN pass
                  ELSE ValidatePackageReference(i, pass.status))
  BY <1>1
<1>3. WellTyped(steps)
  <2>1. Len(steps) = 1 /\ steps[1] = SecretStep(cache[i].refs)
    BY <1>1
  <2>2. StepTyped(steps[1])
    BY <2>1, CachedType, SecretStepType
  <2> QED BY <2>1, <2>2 DEF WellTyped, StepTyped
<1>4. n \in 0..Len(steps)
  BY <1>3, ThroughType
<1>5. PICK pass \in Passes(i, steps, n) :
        Save(i, IF pass.again THEN pass
                ELSE ValidatePackageReference(i, pass.status))
  BY <1>2
<1>6. pass.status \in Status /\ pass.status.observed = cache[i].gen
  BY <1>3, <1>4, PassesType
<1>7. CASE pass.again
  BY <1>5, <1>6, <1>7, SaveInv
<1>8. CASE ~pass.again
  BY <1>5, <1>6, <1>8, ValidatedType, SaveInv
<1> QED BY <1>7, <1>8

-----------------------------------------------------------------------------
(* The controllers *)

LEMMA ReconcileInv ==
  ASSUME LeafInv, NEW i \in Objects, Reconcile(i)
  PROVE  LeafInv'
<1> DEFINE refs == cache[i].refs
           library == <<By("ScriptLibraryRef", refs)>>
           archetype ==
             <<By("FooterRef", refs), By("HeaderRef", refs),
               ResolvePageNavigations(refs), By("ScriptLibraryRef", refs)>>
           page ==
             <<ArchetypeStep(refs), ResolveContents(refs),
               By("HeaderRef", refs), By("FooterRef", refs),
               NavigationStep(refs), By("ScriptLibraryRef", refs)>>
<1>1. refs \in References
  BY CachedType
<1>2. WellTyped(<<>>)
  BY DEF WellTyped
<1>3. WellTyped(library)
  <2>1. Len(library) = 1 /\ library[1] = By("ScriptLibraryRef", refs)
    OBVIOUS
  <2> HIDE DEF library, refs
  <2> QED BY <1>1, <2>1, ByType DEF WellTyped, StepTyped
<1>4. WellTyped(archetype)
  <2>1. /\ Len(archetype) = 4
        /\ archetype[1] = By("FooterRef", refs)
        /\ archetype[2] = By("HeaderRef", refs)
        /\ archetype[3] = ResolvePageNavigations(refs)
        /\ archetype[4] = By("ScriptLibraryRef", refs)
    OBVIOUS
  <2> HIDE DEF archetype, refs
  <2>2. \A m \in 1..4 : m = 1 \/ m = 2 \/ m = 3 \/ m = 4
    OBVIOUS
  <2> QED BY <1>1, <2>1, <2>2, ByType DEF WellTyped, StepTyped
<1>5. WellTyped(page)
  <2>1. /\ Len(page) = 6
        /\ page[1] = ArchetypeStep(refs)
        /\ page[2] = ResolveContents(refs)
        /\ page[3] = By("HeaderRef", refs)
        /\ page[4] = By("FooterRef", refs)
        /\ page[5] = NavigationStep(refs)
        /\ page[6] = By("ScriptLibraryRef", refs)
    OBVIOUS
  <2> HIDE DEF page, refs
  <2>2. \A m \in 1..6 : m = 1 \/ m = 2 \/ m = 3 \/ m = 4 \/ m = 5 \/ m = 6
    OBVIOUS
  <2> QED BY <1>1, <2>1, <2>2, ByType, ArchetypeStepType, NavigationStepType DEF WellTyped, StepTyped
<1>6. CASE Gone(i)
  BY <1>6 DEF Gone, Take, env, LeafInv, TypeOK
<1>7. CASE KDexAppReconciler(i)
  BY <1>7, ValidateInv DEF KDexAppReconciler
<1>8. CASE KDexScriptLibraryReconciler(i)
  BY <1>8, <1>2, ValidateInv, WalkInv DEF KDexScriptLibraryReconciler
<1>9. CASE \/ KDexThemeReconciler(i) \/ KDexPageHeaderReconciler(i)
           \/ KDexPageFooterReconciler(i) \/ KDexPageNavigationReconciler(i)
  <2>1. cache[i].exists /\ Take(i) /\ Walk(i, library)
    BY <1>9 DEF KDexThemeReconciler, KDexPageHeaderReconciler,
                KDexPageFooterReconciler, KDexPageNavigationReconciler
  <2> QED BY <2>1, <1>3, WalkInv
<1>10. CASE KDexPageArchetypeReconciler(i)
  <2>1. cache[i].exists /\ Take(i) /\ Walk(i, archetype)
    BY <1>10 DEF KDexPageArchetypeReconciler
  <2> QED BY <2>1, <1>4, WalkInv
<1>11. CASE KDexUtilityPageReconciler(i)
  <2>1. cache[i].exists /\ Take(i) /\ Walk(i, page)
    BY <1>11 DEF KDexUtilityPageReconciler
  <2> QED BY <2>1, <1>5, WalkInv
<1>12. CASE KDexTranslationReconciler(i)
  BY <1>12, <1>2, WalkInv DEF KDexTranslationReconciler
<1> QED BY <1>6, <1>7, <1>8, <1>9, <1>10, <1>11, <1>12 DEF Reconcile

-----------------------------------------------------------------------------
(* The theorem *)

\* What exists at the start is fresh.
LEMMA LeafInit == Init => LeafInv
<1> SUFFICES ASSUME Init PROVE LeafInv
  OBVIOUS
<1>1. /\ world \in Worlds /\ cache = server /\ synced = Objects
      /\ queue \subseteq Objects /\ delayed = {} /\ published \subseteq Objects
      /\ edits = 0 /\ troubles = 0
  BY WorldTypes DEF Init
<1>2. server = [o \in Objects |-> IF o \in DOMAIN world.start
                                  THEN Fresh(world.start[o]) ELSE Absent]
  BY DEF Init
<1>3. ASSUME NEW o \in Objects
      PROVE  /\ server[o] \in Object /\ server[o].gen = 1
             /\ server[o].status.observed = 0
             /\ server[o].exists \/ server[o] = Absent
  <2>1. CASE o \in DOMAIN world.start
    <3>1. world.start[o] \in References
      BY <1>1, <2>1, WorldTypes
    <3>2. server[o] = Fresh(world.start[o])
      BY <1>2, <2>1
    <3> QED BY <3>1, <3>2, FreshType, NoStatusType
  <2>2. CASE o \notin DOMAIN world.start
    <3>1. server[o] = Absent
      BY <1>2, <2>2
    <3> QED BY <3>1, AbsentType
  <2> QED BY <2>1, <2>2
<1>4. server \in [Objects -> Object]
  BY <1>2, <1>3
<1>5. 1 \in 1..(MaxEdits + 1) /\ 1 <= edits + 1
  BY <1>1
<1> QED BY <1>1, <1>3, <1>4, <1>5 DEF LeafInv, TypeOK

\* No status observes a generation its object has not had, a synced cache holds
\* what the API server holds, and no late status write revives a deleted object:
\* for every graph of resources and every number of edits, failures and restarts.
THEOREM LeafTyped == Spec => []TypeOK
<1>1. LeafInv /\ [Next]_vars => LeafInv'
  <2> SUFFICES ASSUME LeafInv, [Next]_vars PROVE LeafInv'
    OBVIOUS
  <2>1. CASE UNCHANGED vars
    BY <2>1 DEF vars, LeafInv, TypeOK
  <2>2. CASE Next
    BY <2>2, EditsInv, EnvironmentInv, ReconcileInv DEF Next
  <2> QED BY <2>1, <2>2
<1>2. LeafInv => TypeOK
  BY DEF LeafInv
<1> QED BY LeafInit, <1>1, <1>2, PTL DEF Spec

==============================================================================
