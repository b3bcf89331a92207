--------------------------- MODULE LeafReconcilers ---------------------------
(***************************************************************************)
(* The controllers of the resources that other resources refer to: apps,   *)
(* script libraries, themes, page headers, footers, navigations and        *)
(* archetypes, utility pages and translations.                             *)
(*                                                                         *)
(* Each controller does the same: read the object, resolve its references  *)
(* in a fixed order, record the generation of each resolved one, stop at   *)
(* the first that cannot be used, and write the status when it changed.    *)
(* A change of a referenced object reaches the referrers through watches   *)
(* that map it to the objects naming it.  Whether all statuses end up      *)
(* right is a question about the whole graph of objects: readiness and     *)
(* generations travel along it through stale caches, conflicting writes,   *)
(* failed writes and restarts.                                             *)
(*                                                                         *)
(* Simplifications:                                                        *)
(* - a pass reads the cache at one instant: a referenced object that       *)
(*   changes during the pass enqueues the referrer again, as the workqueue *)
(*   does with a key that is added while it is processed;                  *)
(* - an informer may skip intermediate versions of an object;              *)
(* - a map of navigations has two keys, a list of contents one entry;      *)
(* - a reference is the object it names, kind, namespace and name.         *)
(***************************************************************************)
EXTENDS Naturals, FiniteSets, Sequences

CONSTANTS
  Objects,      \* the resources, Secrets among them
  Worlds,       \* the graphs of resources looked at
  Cluster,      \* the namespace of a cluster-scoped resource
  None,         \* "no object"
  MaxEdits,     \* bound on what users and the registry do
  MaxTroubles,  \* bound on failed writes and restarts
  MaxAttempts   \* bound on the validation attempts: they are counted round

Kinds == {"App", "ScriptLibrary", "Theme", "PageHeader", "PageFooter",
          "PageNavigation", "PageArchetype", "UtilityPage", "Translation",
          "Secret"}

\* The keys of an archetype's DefaultNavigationRefs and of a utility page's
\* OverrideNavigationRefs, each a field of its own.
Navigations == {"main", "side"}

\* FooterRef and HeaderRef are an archetype's default or a utility page's override.
Fields == {"SecretRef", "ScriptLibraryRef", "FooterRef", "HeaderRef",
           "PageArchetypeRef", "AppRef"} \cup Navigations

\* A content entry that names None has neither an app nor raw HTML.
References == UNION {[some -> Objects \cup {None}] : some \in SUBSET Fields}

\* specs: what a user may write; start: the objects there are at first, with
\* their references; packaged: the script libraries with a packageReference;
\* unreliable: the objects whose package the registry may lose; secret:
\* Configuration.DefaultNpmSecretRef; archetypes: the ones labelled
\* kdex.dev/default, oldest first.
ASSUME LeafAssumption ==
  /\ None \notin Objects
  /\ \A w \in Worlds :
       /\ w.kind \in [Objects -> Kinds]
       /\ DOMAIN w.namespace = Objects
       /\ \A o \in Objects : w.specs[o] \subseteq References
       /\ DOMAIN w.start \subseteq Objects
       /\ \A o \in DOMAIN w.start : w.start[o] \in w.specs[o]
       /\ w.packaged \subseteq Objects /\ w.unreliable \subseteq Objects
       /\ w.secret \in Objects \cup {None}
       /\ w.archetypes \in Seq(Objects)
  /\ MaxEdits \in Nat /\ MaxTroubles \in Nat /\ MaxAttempts \in Nat \ 0..2

VARIABLES
  world,      \* the graph at hand, which does not change
  server,     \* the objects as the API server stores them
  cache,      \* the objects as the informers last saw them
  synced,     \* the objects whose cached copy is the server's
  queue,      \* the keys in the controllers' workqueues
  delayed,    \* the keys that come back after a delay or a backoff
  published,  \* the objects whose package passes validation
  edits, troubles

vars == <<world, server, cache, synced, queue, delayed, published, edits, troubles>>

env == <<world, published, edits>>

Kind == world.kind
Namespace == world.namespace
Packaged == world.packaged
DefaultSecret == world.secret

-----------------------------------------------------------------------------
(* Objects *)

\* The condition triple by its reason and the object its message names.
Condition ==
  [reason : {"None", "Ready", "Unresolved", "NoSecret", "NoApp", "Invalid"},
   names : Objects \cup {None}]

\* A condition whose message names no object; a fresh object has none at all.
Plainly(reason) == [reason |-> reason, names |-> None]

\* seen[f]: the recorded generation of what field f refers to, 0 for none.
\* attempts: the validation.attempts attribute, 0 for none.
Status == [condition: Condition, observed: Nat, seen: [Fields -> Nat],
           attempts: Nat]

NoStatus == [condition |-> Plainly("None"), observed |-> 0,
             seen |-> [f \in Fields |-> 0], attempts |-> 0]

Fresh(refs) == [exists |-> TRUE, gen |-> 1, refs |-> refs, status |-> NoStatus]

Absent == [Fresh(<<>>) EXCEPT !.exists = FALSE]

IsCluster(o) == Namespace[o] = Cluster

\* The object field f of a spec refers to.
Ref(refs, f) == IF f \in DOMAIN refs THEN refs[f] ELSE None

Named(refs) == {Ref(refs, f) : f \in DOMAIN refs} \ {None}

\* A resource as the API server or a cache has it.
Object == [exists : BOOLEAN, gen : Nat, refs : References, status : Status]

\* Every state is well typed; a status observes no generation that does not
\* exist, and what is gone has left no status behind.
TypeOK ==
  /\ world \in Worlds
  /\ server \in [Objects -> Object] /\ cache \in [Objects -> Object]
  /\ \A o \in Objects :
       /\ server[o].gen \in 1..(MaxEdits + 1)
       /\ server[o].status.observed <= server[o].gen
       /\ o \in synced => cache[o] = server[o]
       /\ server[o].exists \/ server[o] = Absent
  /\ queue \subseteq Objects /\ delayed \subseteq Objects
  /\ published \subseteq Objects
  /\ edits \in 0..MaxEdits /\ troubles \in 0..MaxTroubles

\* The manager starts: what exists is listed and every key is enqueued.  A
\* package that may be lost may not have been published yet.
Init ==
  /\ world \in Worlds
  /\ server = [o \in Objects |-> IF o \in DOMAIN world.start
                                 THEN Fresh(world.start[o]) ELSE Absent]
  /\ queue = {o \in DOMAIN world.start : Kind[o] # "Secret"}
  /\ cache = server
  /\ synced = Objects
  /\ delayed = {}
  /\ published \in {Objects, Objects \ world.unreliable}
  /\ edits = 0 /\ troubles = 0

-----------------------------------------------------------------------------
(* Users, the package registry and the API server *)

\* A write gives the object a new resourceVersion, which no cache has yet.
Store(o, obj) ==
  /\ server' = [server EXCEPT ![o] = obj]
  /\ synced' = synced \ {o}

Edit ==
  /\ edits < MaxEdits
  /\ edits' = edits + 1
  /\ UNCHANGED <<world, cache, queue, delayed, published, troubles>>

\* The spec changes, in its references or in something else.
EditSpec(o) ==
  /\ Edit
  /\ server[o].exists /\ Kind[o] # "Secret"
  /\ \E refs \in world.specs[o] :
       Store(o, [server[o] EXCEPT !.refs = refs, !.gen = @ + 1])

DeleteObject(o) ==
  /\ Edit
  /\ server[o].exists
  /\ Store(o, Absent)

\* What is created is what something waits for.
CreateObject(o) ==
  /\ Edit
  /\ ~server[o].exists
  /\ o = DefaultSecret \/ \E i \in Objects : o \in Named(server[i].refs)
  /\ \E refs \in world.specs[o] : Store(o, Fresh(refs))

\* The registry loses a package or has it again: no object changes.
MovePackage(o) ==
  /\ o \in world.unreliable
  /\ edits < MaxEdits /\ edits' = edits + 1
  /\ published' = IF o \in published THEN published \ {o}
                  ELSE published \cup {o}
  /\ UNCHANGED <<world, server, cache, synced, queue, delayed, troubles>>

-----------------------------------------------------------------------------
(* Watches: which keys an event of an object enqueues *)

\* The reference fields whose objects a controller watches.
ThemeWatches == {"ScriptLibraryRef"}
HeaderWatches == {"ScriptLibraryRef"}
FooterWatches == {"ScriptLibraryRef"}
NavigationWatches == {"ScriptLibraryRef"}
ArchetypeWatches == {"FooterRef", "HeaderRef", "ScriptLibraryRef"} \cup Navigations
UtilityPageWatches == {"AppRef", "PageArchetypeRef", "FooterRef", "HeaderRef",
                       "ScriptLibraryRef"} \cup Navigations
AppWatches == {"SecretRef"}
ScriptLibraryWatches == {"SecretRef"}

Watched(i) ==
  CASE Kind[i] = "Theme" -> ThemeWatches
    [] Kind[i] = "PageHeader" -> HeaderWatches
    [] Kind[i] = "PageFooter" -> FooterWatches
    [] Kind[i] = "PageNavigation" -> NavigationWatches
    [] Kind[i] = "PageArchetype" -> ArchetypeWatches
    [] Kind[i] = "UtilityPage" -> UtilityPageWatches
    [] Kind[i] = "App" -> AppWatches
    [] Kind[i] = "ScriptLibrary" -> ScriptLibraryWatches
    [] OTHER -> {}

\* Variant: the items of the object's own namespace, also for a cluster object.
ListedByNamespace(o) == {i \in Objects : Namespace[i] = Namespace[o]}

\* The items listed for an event of o: those of its namespace, all of them for
\* a cluster-scoped object.
Listed(o) == {i \in Objects : IsCluster(o) \/ Namespace[i] = Namespace[o]}

\* MakeHandlerByReferencePath: the listed items that name o in a watched field.
ByReferencePath(o) ==
  {i \in Listed(o) :
     /\ cache'[i].exists
     /\ \E f \in Watched(i) : Ref(cache'[i].refs, f) = o}

\* defaultSecretRequests: everything that may fall back to the default Secret.
DefaultSecretRequests(o) ==
  IF o # DefaultSecret THEN {}
  ELSE {i \in Objects : cache'[i].exists /\ Kind[i] \in {"App", "ScriptLibrary"}}

\* The informer catches up with o, and the map functions see the caches as they
\* are then.  Secrets have no controller here.
SyncCache(o) ==
  /\ o \notin synced
  /\ cache' = [cache EXCEPT ![o] = server[o]]
  /\ synced' = synced \cup {o}
  /\ queue' = queue \cup ({o} \ {s \in {o} : Kind[s] = "Secret"})
                    \cup ByReferencePath(o) \cup DefaultSecretRequests(o)
  /\ UNCHANGED <<server, delayed, env, troubles>>

\* A delay or a backoff ends.
ComesBack(o) ==
  /\ o \in delayed
  /\ queue' = queue \cup {o}
  /\ delayed' = delayed \ {o}
  /\ UNCHANGED <<server, cache, synced, env, troubles>>

\* The manager stops and starts: queues and delays are lost, everything is
\* listed and enqueued.
Restart ==
  /\ troubles < MaxTroubles /\ troubles' = troubles + 1
  /\ cache' = server
  /\ synced' = Objects
  /\ queue' = {o \in Objects : server[o].exists /\ Kind[o] # "Secret"}
  /\ delayed' = {}
  /\ UNCHANGED <<server, env>>

-----------------------------------------------------------------------------
(* Resolving references *)

\* One step of a pass: references resolved together, each under the field it is
\* recorded as, and how they are looked up.
Step(targets, how) == [targets |-> targets, how |-> how]

Only(refs, fields) == [f \in fields \cap DOMAIN refs |-> refs[f]]

By(f, refs) == Step(Only(refs, {f}), "object")

\* A content entry is raw HTML, which needs nothing, or an app.
ResolveContents(refs) == Step(Only(refs, {"AppRef"}), "app")

\* The navigations of a map, in any order.
ResolvePageNavigations(refs) == Step(Only(refs, Navigations), "object")

isReady(t) == cache[t].status.condition.reason = "Ready"

\* ResolveKDexObjectReference: no reference, an object of the wrong scope, one
\* that is missing or not ready, or one that can be used.
ResolveKDexObjectReference(i, t) ==
  CASE t = None -> "usable"
    [] IsCluster(i) /\ ~IsCluster(t) -> "scope"
    [] ~cache[t].exists -> "missing"
    [] ~isReady(t) -> "unready"
    [] OTHER -> "usable"

\* ResolveSecret: no reference, a missing Secret, or one that can be used.
ResolveSecret(t) ==
  IF t = None \/ cache[t].exists THEN "usable" ELSE "no_secret"

IsApp(t) == t # None /\ Kind[t] = "App"

Resolve(i, how, t) ==
  CASE how = "secret" -> ResolveSecret(t)
    [] how = "default" -> "usable"
    [] how = "app" /\ ResolveKDexObjectReference(i, t) = "usable" /\ ~IsApp(t)
         -> "no_app"
    [] OTHER -> ResolveKDexObjectReference(i, t)

\* Variant: a missing object leaves the conditions alone too.
ConditionKept(outcome, t, before) ==
  IF outcome = "no_secret" THEN [reason |-> "NoSecret", names |-> t] ELSE before

\* What a resolver leaves on the referrer when it stops the pass at t.  A
\* referenced object that is not ready, or of the wrong scope, leaves its
\* conditions alone.
ConditionAt(outcome, t, before) ==
  CASE outcome = "missing" -> [reason |-> "Unresolved", names |-> t]
    [] outcome = "no_secret" -> [reason |-> "NoSecret", names |-> t]
    [] outcome = "no_app" -> Plainly("NoApp")
    [] OTHER -> before

\* The fields of a step that stop a pass.
Stops(i, step) ==
  {f \in DOMAIN step.targets : Resolve(i, step.how, step.targets[f]) # "usable"}

\* How many of the steps a pass gets through: up to the first that stops it.
Through(i, steps) ==
  CHOOSE n \in 0..Len(steps) :
    /\ \A m \in 1..n : Stops(i, steps[m]) = {}
    /\ n = Len(steps) \/ Stops(i, steps[n + 1]) # {}

\* The generations recorded on the way: those of the steps it got through.
Recorded(i, steps, n) ==
  LET At(f) == {m \in 1..n : /\ f \in DOMAIN steps[m].targets
                             /\ steps[m].targets[f] # None}
  IN [f \in Fields |->
        IF At(f) = {} THEN cache[i].status.seen[f]
        ELSE cache[steps[CHOOSE m \in At(f) : TRUE].targets[f]].gen]

\* The status that a pass over n steps leaves.
Passed(i, steps, n, condition) ==
  [cache[i].status EXCEPT !.observed = cache[i].gen,
                          !.condition = condition,
                          !.seen = Recorded(i, steps, n)]

\* The conditions it may leave: of several references of one step that cannot be
\* used, the one it comes to first decides.
Left(i, steps, n) ==
  IF n = Len(steps) THEN {Plainly("Ready")}
  ELSE LET step == steps[n + 1]
           At(f) == ConditionAt(Resolve(i, step.how, step.targets[f]),
                                step.targets[f], cache[i].status.condition)
       IN {At(f) : f \in Stops(i, step)}

\* The passes over the references of i.  again: the key comes back, after the
\* requeue delay or by an error's backoff.
Passes(i, steps, n) ==
  {[status |-> Passed(i, steps, n, condition), again |-> n < Len(steps)] :
     condition \in Left(i, steps, n)}

-----------------------------------------------------------------------------
(* One pass of each controller *)

\* ResolveOrDefaultPageArchetype: without a reference, the oldest archetype that
\* is labelled as the default, whether ready or not, if there is one.
ArchetypeStep(refs) ==
  LET labelled == {n \in DOMAIN world.archetypes :
                     cache[world.archetypes[n]].exists}
      oldest == world.archetypes[
                  CHOOSE n \in labelled : \A m \in labelled : n <= m]
  IN IF Ref(refs, "PageArchetypeRef") # None \/ labelled = {}
     THEN By("PageArchetypeRef", refs)
     ELSE Step([f \in {"PageArchetypeRef"} |-> oldest], "default")

\* The navigations of a utility page: its archetype's, its own over them.
NavigationStep(refs) ==
  LET archetype == Ref(ArchetypeStep(refs).targets, "PageArchetypeRef")
      inherited == IF archetype = None THEN <<>> ELSE cache[archetype].refs
      keys == Navigations \cap (DOMAIN refs \cup DOMAIN inherited)
  IN ResolvePageNavigations(
       [f \in keys |-> IF f \in DOMAIN refs THEN refs[f] ELSE inherited[f]])

\* The reference to the registry's credential, or to the cluster's default.
SecretStep(refs) ==
  Step([f \in {"SecretRef"} |-> IF Ref(refs, f) = None THEN DefaultSecret
                                ELSE Ref(refs, f)], "secret")

\* The failures to validate a package are counted from 1, and here round: each
\* still changes the status.
Counted(n) == IF n \in {0, MaxAttempts} THEN 2 ELSE n + 1

\* ValidatePackageReference: the retry is delayed at first and backs off beyond
\* the budget.
ValidatePackageReference(i, status) ==
  IF i \in published
  THEN [status |-> [status EXCEPT !.attempts = 0], again |-> FALSE]
  ELSE [status |-> [status EXCEPT !.condition = Plainly("Invalid"),
                                  !.attempts = Counted(@)],
        again |-> TRUE]

\* Variant: the watches alone bring a key back.
NotLater(i, again) == UNCHANGED delayed

Later(i, again) == delayed' = IF again THEN delayed \cup {i} ELSE delayed

\* Transition times do not count, and are not modelled.
kdexObjectStatusEqual(a, b) == a = b

\* Variant: the status is written on every pass.
SaveAlways(i, pass) ==
  /\ i \in synced
  /\ Store(i, [server[i] EXCEPT !.status = pass.status])
  /\ Later(i, pass.again)
  /\ UNCHANGED troubles

\* Variant: written whatever the version that was read.
SaveBlind(i, pass) ==
  /\ Store(i, [server[i] EXCEPT !.status = pass.status])
  /\ Later(i, pass.again)
  /\ UNCHANGED troubles

\* The deferred write: nothing when the status is as it was read; a conflict
\* or another failure brings the key back.
Save(i, pass) ==
  \/ /\ kdexObjectStatusEqual(pass.status, cache[i].status)
     /\ Later(i, pass.again)
     /\ UNCHANGED <<server, synced, troubles>>
  \/ /\ ~kdexObjectStatusEqual(pass.status, cache[i].status)
     /\ i \in synced
     /\ Store(i, [server[i] EXCEPT !.status = pass.status])
     /\ Later(i, pass.again)
     /\ UNCHANGED troubles
  \/ /\ ~kdexObjectStatusEqual(pass.status, cache[i].status)
     /\ i \notin synced
     /\ Later(i, TRUE)
     /\ UNCHANGED <<server, synced, troubles>>
  \/ /\ ~kdexObjectStatusEqual(pass.status, cache[i].status)
     /\ troubles < MaxTroubles /\ troubles' = troubles + 1
     /\ Later(i, TRUE)
     /\ UNCHANGED <<server, synced>>

\* Resolve, then write.
Walk(i, refs) ==
  \E steps \in {refs} : \E n \in {Through(i, steps)} :
    \E pass \in Passes(i, steps, n) : Save(i, pass)

\* The credential, then the package.
Validate(i) ==
  \E steps \in {<<SecretStep(cache[i].refs)>>} : \E n \in {Through(i, steps)} :
    \E pass \in Passes(i, steps, n) :
      Save(i, IF pass.again THEN pass
              ELSE ValidatePackageReference(i, pass.status))

\* A worker takes the key; an object that is gone needs nothing.
Take(i) ==
  /\ i \in queue
  /\ queue' = queue \ {i}
  /\ UNCHANGED <<cache, env>>

Gone(i) ==
  /\ Take(i)
  /\ ~cache[i].exists
  /\ UNCHANGED <<server, synced, delayed, troubles>>

KDexAppReconciler(i) ==
  /\ Kind[i] = "App" /\ cache[i].exists
  /\ Take(i) /\ Validate(i)

\* A library without a package has nothing to resolve.
KDexScriptLibraryReconciler(i) ==
  /\ Kind[i] = "ScriptLibrary" /\ cache[i].exists
  /\ Take(i)
  /\ IF i \in Packaged THEN Validate(i) ELSE Walk(i, <<>>)

KDexThemeReconciler(i) ==
  /\ Kind[i] = "Theme" /\ cache[i].exists
  /\ Take(i)
  /\ Walk(i, <<By("ScriptLibraryRef", cache[i].refs)>>)

KDexPageHeaderReconciler(i) ==
  /\ Kind[i] = "PageHeader" /\ cache[i].exists
  /\ Take(i)
  /\ Walk(i, <<By("ScriptLibraryRef", cache[i].refs)>>)

KDexPageFooterReconciler(i) ==
  /\ Kind[i] = "PageFooter" /\ cache[i].exists
  /\ Take(i)
  /\ Walk(i, <<By("ScriptLibraryRef", cache[i].refs)>>)

KDexPageNavigationReconciler(i) ==
  /\ Kind[i] = "PageNavigation" /\ cache[i].exists
  /\ Take(i)
  /\ Walk(i, <<By("ScriptLibraryRef", cache[i].refs)>>)

KDexPageArchetypeReconciler(i) ==
  /\ Kind[i] = "PageArchetype" /\ cache[i].exists
  /\ Take(i)
  /\ Walk(i, <<By("FooterRef", cache[i].refs),
               By("HeaderRef", cache[i].refs),
               ResolvePageNavigations(cache[i].refs),
               By("ScriptLibraryRef", cache[i].refs)>>)

KDexUtilityPageReconciler(i) ==
  /\ Kind[i] = "UtilityPage" /\ cache[i].exists
  /\ Take(i)
  /\ Walk(i, <<ArchetypeStep(cache[i].refs),
               ResolveContents(cache[i].refs),
               By("HeaderRef", cache[i].refs),
               By("FooterRef", cache[i].refs),
               NavigationStep(cache[i].refs),
               By("ScriptLibraryRef", cache[i].refs)>>)

KDexTranslationReconciler(i) ==
  /\ Kind[i] = "Translation" /\ cache[i].exists
  /\ Take(i)
  /\ Walk(i, <<>>)

Reconcile(i) ==
  \/ Gone(i)
  \/ KDexAppReconciler(i)
  \/ KDexScriptLibraryReconciler(i)
  \/ KDexThemeReconciler(i)
  \/ KDexPageHeaderReconciler(i)
  \/ KDexPageFooterReconciler(i)
  \/ KDexPageNavigationReconciler(i)
  \/ KDexPageArchetypeReconciler(i)
  \/ KDexUtilityPageReconciler(i)
  \/ KDexTranslationReconciler(i)

Next ==
  \/ \E o \in Objects : EditSpec(o) \/ DeleteObject(o) \/ CreateObject(o)
  \/ \E o \in Objects : MovePackage(o)
  \/ \E o \in Objects : SyncCache(o) \/ ComesBack(o) \/ Reconcile(o)
  \/ Restart

Spec == Init /\ [][Next]_vars

FairSpec ==
  /\ Spec
  /\ \A o \in Objects : WF_vars(SyncCache(o))
  /\ \A o \in Objects : WF_vars(ComesBack(o))
  /\ \A o \in Objects : WF_vars(Reconcile(o))

-----------------------------------------------------------------------------
(* Properties *)

\* What o falls back to: the default credential, the default archetype.
Fallbacks(o) ==
  {d \in Objects :
     \/ /\ d = DefaultSecret /\ (Kind[o] = "App" \/ o \in Packaged)
        /\ Ref(server[o].refs, "SecretRef") = None
     \/ /\ \E n \in DOMAIN world.archetypes : d = world.archetypes[n]
        /\ server[d].exists /\ Kind[o] = "UtilityPage"
        /\ Ref(server[o].refs, "PageArchetypeRef") = None}

\* What o depends on directly, as the API server has it.
Dependencies(o) == Named(server[o].refs) \cup Fallbacks(o)

\* o lacks nothing of its own.
Whole(o) ==
  /\ server[o].exists
  /\ Kind[o] = "App" \/ o \in Packaged => o \in published
  /\ "AppRef" \in DOMAIN server[o].refs => IsApp(server[o].refs["AppRef"])
  /\ IsCluster(o) => \A d \in Dependencies(o) : IsCluster(d) \/ Kind[d] = "Secret"

With(some) == some \cup UNION {Dependencies(s) : s \in some}

\* Neither does anything o depends on: a page, its archetype, a header, a script
\* library and its credential are the longest chain.
Sound(o) == \A s \in With(With(With(With({o})))) : Whole(s)

\* Once an object and all it depends on are in order, it becomes Ready at its
\* current generation and stays so: neither the order in which they appeared,
\* nor a conflict, a failed write, a stale cache or a restart leaves it behind.
\* References into other namespaces raise no event and are polled.
EventuallyReady ==
  <>[](\A o \in Objects :
         Kind[o] # "Secret" /\ Sound(o)
           => /\ server[o].status.condition.reason = "Ready"
              /\ server[o].status.observed = server[o].gen)

\* A reference whose changes are meant to reach the referrer: watched, and of the
\* referrer's namespace or cluster-scoped.
Tracked(o, f) ==
  LET t == Ref(server[o].refs, f)
  IN f \in Watched(o) /\ t # None /\ (IsCluster(t) \/ Namespace[t] = Namespace[o])

\* A Ready object ends up with the current generation of everything it names,
\* although it was Ready with an older one and nothing polls it.
GenerationsTracked ==
  <>[](\A o \in Objects : \A f \in Watched(o) :
         Sound(o) /\ Tracked(o, f)
           => server[o].status.seen[f] = server[Ref(server[o].refs, f)].gen)

\* The only reference of o that is not in order is one that is missing.
MissesOnly(o, f) ==
  /\ Whole(o) /\ Tracked(o, f)
  /\ ~server[Ref(server[o].refs, f)].exists
  /\ \A d \in Dependencies(o) \ {Ref(server[o].refs, f)} : Sound(d)

\* An object that was Ready does not stay so when something it names is deleted.
DeletionShown ==
  <>[](\A o \in Objects : \A f \in Watched(o) :
         MissesOnly(o, f) => server[o].status.condition.reason # "Ready")

\* The navigations o waits for that do not exist: its own and its archetype's.
Lacking(o) ==
  {t \in UNION {Named(server[s].refs) : s \in With({o})} :
     Kind[t] = "PageNavigation" /\ ~server[t].exists}

\* Statuses come to rest when users and the registry do (issue 31): no object
\* is written again and again because its own write, or another's, queued it.
\* Where two navigations of one map are missing the claim is not made: a pass
\* names the one it happens to come to first, and a change of the message is a
\* change of the status.
Quiesces ==
  <>[](published = Objects /\ \A o \in Objects : Cardinality(Lacking(o)) <= 1)
    => <>[][FALSE]_synced
==============================================================================
