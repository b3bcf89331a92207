---------------------------- MODULE HostReconcile ----------------------------
(***************************************************************************)
(* One KDexHost from its references to its status: the utility pages, the  *)
(* theme and the translations it resolves, the internal pages and internal *)
(* translations it writes, the internal host that mirrors its spec, and    *)
(* the readiness ladder whose result the deferred patch writes next to     *)
(* what the Helm goroutine reports.                                        *)
(*                                                                         *)
(* The pass is cut where it reads the host again: at its start, before     *)
(* Helm and for the deferred patch.  Users, other controllers, the         *)
(* goroutine and the informer move in between.  What else it reads, the    *)
(* referenced objects and then the internal host and the Deployment, it    *)
(* reads once, so that a change there is before or after the step.         *)
(*                                                                         *)
(* Simplifications:                                                        *)
(* - a delay is of no length: a key that comes back is in the queue;       *)
(* - the chart values are the same in every spec here, so there is one     *)
(*   hash; HelmRelease has what follows when they change;                  *)
(* - the informers of the referenced objects are current (LeafReconcilers  *)
(*   has stale ones), that of the host is not;                             *)
(* - the error and login pages are resolved as the announcement page is,   *)
(*   the script library as the theme is: one of each stands for both;      *)
(* - a consentRef names a page of the author's; naming the default page is *)
(*   as naming none;                                                       *)
(* - extensions and deletion are in HostExtensions and HelmRelease, and so  *)
(*   is a restart that cuts a Helm call short.                             *)
(***************************************************************************)
EXTENDS Naturals, FiniteSets, Sequences

CONSTANTS
  Translations,        \* the translation objects
  DefaultTranslation,  \* kdex-default-translation
  Name,                \* Name[t]: what its internal copy is named after
  ByName,              \* the other translations, sorted by name
  Worlds,              \* the situations looked at
  MaxEdits,            \* bound on what users and other controllers change
  MaxTroubles          \* bound on failed writes, failed renders and restarts

\* announcement and consent stand for the pages a spec names, defaultConsent
\* for kdex-default-utility-page-consent.
Pages == {"announcement", "consent", "defaultConsent"}
Objects == Pages \cup {"theme"} \cup Translations
Names == {Name[t] : t \in Translations}

\* attached: spec.hostRef of a translation names the host; wording: it has
\* consent.* keys.  mistyped: a utility page of another type.
Object == [state : {"missing", "unready", "mistyped", "ready"},
           version : Nat, attached : BOOLEAN, wording : BOOLEAN]

\* What a spec of the host refers to.
HostSpec == [announcement : BOOLEAN, consent : BOOLEAN, theme : BOOLEAN,
             translationRefs : Seq(Translations), selectorParses : BOOLEAN]

\* may[o]: what o can change to; deployments and readiness: what the Deployment
\* and the internal host's Ready condition can change to.
ASSUME HostAssumption ==
  /\ DefaultTranslation \in Translations
  /\ Name \in [Translations -> Names]
  /\ ByName \in Seq(Translations \ {DefaultTranslation})
  /\ \A t \in Translations \ {DefaultTranslation} : \E n \in DOMAIN ByName : ByName[n] = t
  /\ \A m, n \in DOMAIN ByName : ByName[m] = ByName[n] => m = n
  /\ \A w \in Worlds :
       /\ w.start \in w.specs
       /\ \A s \in w.specs : s.translationRefs \in Seq(Translations)
       /\ w.objects \in [Objects -> Object]
       /\ \A o \in Objects : w.may[o] \subseteq Object
       /\ w.deployments \subseteq {"absent", "unavailable", "available"}
       /\ w.readiness \subseteq {"Unknown", "True", "False"}
  /\ MaxEdits \in Nat /\ MaxTroubles \in Nat

VARIABLES
  world,       \* the situation, which does not change
  server,      \* the KDexHost as the API server stores it
  cache,       \* as the informer last saw it
  synced,      \* which is as it is stored
  object,      \* what the host may refer to
  copies,      \* the KDexInternalTranslations, by name
  pages,       \* the KDexInternalUtilityPages, by type
  internal,    \* the KDexInternalHost
  deployment,  \* the host manager's Deployment, as it is
  queued,      \* the host's key is in the workqueue, or will be after a delay
  worker,      \* the Reconcile call under way
  running,     \* a goroutine renders the host's charts
  edits, troubles

vars == <<world, server, cache, synced, object, copies, pages, internal, deployment,
          queued, worker, running, edits, troubles>>

host == <<server, cache, synced>>
surroundings == <<world, object, deployment, edits>>
children == <<copies, pages, internal>>

-----------------------------------------------------------------------------
(* Status *)

\* The conditions Ready, Degraded and Progressing; "" is not set yet.
Triple(r, d, p) == [ready |-> r, degraded |-> d, progressing |-> p]

Unset == Triple("", "", "")
Reconciling == Triple("Unknown", "False", "True")
Waiting == Triple("False", "False", "True")
Degraded == Triple("False", "True", "False")
Ready == Triple("True", "False", "False")

\* copied: the names with a translation generation attribute.
NoStatus == [observed |-> 0, helm |-> "none", conditions |-> Unset, copied |-> {}]

\* client.MergeFrom: what base and desired agree on stays as it is stored.  The
\* conditions are one list, whose messages and transition times may differ
\* although the triple does not.
Merged(stored, base, desired) ==
  LET Kept(b, d, s) == IF b = d THEN s ELSE d
  IN {[observed |-> Kept(base.observed, desired.observed, stored.observed),
       helm |-> Kept(base.helm, desired.helm, stored.helm),
       conditions |-> c,
       copied |-> (stored.copied \ (base.copied \ desired.copied))
                    \cup (desired.copied \ base.copied)] :
      c \in {desired.conditions,
             Kept(base.conditions, desired.conditions, stored.conditions)}}

Idle == [step |-> "idle"]

None == [source |-> "none"]

Init ==
  /\ world \in Worlds
  /\ server = [gen |-> 1, spec |-> world.start, status |-> NoStatus]
  /\ cache = server /\ synced = TRUE
  /\ object = world.objects
  /\ copies = [n \in Names |-> None]
  /\ pages = [announcement |-> None, consent |-> None]
  /\ internal = [exists |-> FALSE, gen |-> 0, spec |-> world.start,
                 translations |-> <<>>, pages |-> {}, ready |-> "Unknown"]
  /\ deployment \in world.deployments
  /\ queued = TRUE
  /\ worker = Idle /\ running = FALSE
  /\ edits = 0 /\ troubles = 0

-----------------------------------------------------------------------------
(* Users, other controllers, the API server *)

\* Variant: no event follows.
StoreQuietly(stored) == server' = stored /\ UNCHANGED synced

\* A write that changes the host is for the informer to deliver, even one that
\* makes the host what it was.
Store(stored) ==
  /\ server' = stored
  /\ synced' = (synced /\ stored = server)

Edit ==
  /\ edits < MaxEdits /\ edits' = edits + 1
  /\ UNCHANGED <<world, cache, copies, pages, worker, running, troubles>>

EditSpec ==
  /\ Edit
  /\ \E spec \in world.specs \ {server.spec} :
       Store([server EXCEPT !.spec = spec, !.gen = @ + 1])
  /\ UNCHANGED <<object, internal, deployment, queued>>

NamesHost(o) == o.attached /\ o.state # "missing"

\* translationHostRefRequests, mapped over the old and the new object.
HostRefRequests(old, new) == NamesHost(old) \/ NamesHost(new)

\* Variant: no handler for the default page.
NoDefaultRequests(o, spec) == FALSE

\* defaultConsentPageRequests: hosts that store no consentRef.
defaultConsentPageRequests(o, spec) == o = "defaultConsent" /\ ~spec.consent

\* MakeHandlerByReferencePath for the fields SetupWithManager lists.
ReferencePathRequests(o, spec) ==
  \/ o \in {"announcement", "consent", "theme"} /\ spec[o]
  \/ \E n \in DOMAIN spec.translationRefs : spec.translationRefs[n] = o

\* A referenced object changes, and its watches queue the hosts it concerns.
ChangeObject(o) ==
  /\ Edit
  /\ \E new \in world.may[o] \ {object[o]} :
       /\ object' = [object EXCEPT ![o] = new]
       /\ queued' = (\/ queued
                     \/ HostRefRequests(object[o], new)
                     \/ ReferencePathRequests(o, cache.spec)
                     \/ defaultConsentPageRequests(o, cache.spec))
  /\ UNCHANGED <<server, synced, internal, deployment>>

\* Nothing watches Deployments.
ChangeDeployment ==
  /\ Edit
  /\ deployment' \in world.deployments \ {deployment}
  /\ UNCHANGED <<server, synced, object, internal, queued>>

\* The host manager reports on the internal host, which the host owns.
ChangeReadiness ==
  /\ Edit
  /\ internal.exists
  /\ \E r \in world.readiness \ {internal.ready} :
       internal' = [internal EXCEPT !.ready = r]
  /\ queued' = TRUE
  /\ UNCHANGED <<server, synced, object, deployment>>

SyncCache ==
  /\ ~synced
  /\ cache' = server /\ synced' = TRUE /\ queued' = TRUE
  /\ UNCHANGED <<server, surroundings, children, worker, running, troubles>>

Trouble == troubles < MaxTroubles /\ troubles' = troubles + 1

\* The manager stops, with its goroutine and its call, and starts.
Restart ==
  /\ Trouble
  /\ cache' = server /\ synced' = TRUE /\ queued' = TRUE
  /\ worker' = Idle /\ running' = FALSE
  /\ UNCHANGED <<server, surroundings, children>>

-----------------------------------------------------------------------------
(* Utility pages *)

\* Variant: the conditions of the last call are left as they are.
CallAsItWas == [step |-> "helm", gen |-> cache.gen, spec |-> cache.spec,
                status |-> cache.status,
                unresolved |-> FALSE, requeue |-> FALSE, pages |-> {},
                order |-> <<>>, collision |-> FALSE, again |-> FALSE,
                notFound |-> FALSE]

\* The Reconcile call starts with the host as it was read.
Call == [step |-> "helm", gen |-> cache.gen, spec |-> cache.spec,
         status |-> [cache.status EXCEPT !.conditions = Reconciling],
         unresolved |-> FALSE, requeue |-> FALSE, pages |-> {},
         order |-> <<>>, collision |-> FALSE, again |-> FALSE, notFound |-> FALSE]

\* The call is over but for the deferred patch.  again: the key comes back;
\* notFound: the error returned is a NotFound error.
Leave(call, conditions, again, notFound) ==
  worker' = [call EXCEPT !.step = "patch", !.status.conditions = conditions,
                         !.again = again, !.notFound = notFound]

\* An error other than NotFound, after the conditions were set to Degraded.
Fail(call) == Leave(call, Degraded, TRUE, FALSE)

Start == worker.step = "idle" /\ queued

utilityPageRef(spec) == IF spec.consent THEN "consent" ELSE "defaultConsent"

Copy(o) == [source |-> o, version |-> object[o].version]

\* A default page is used although it is not ready.
ConsentUsable(spec) ==
  \/ object[utilityPageRef(spec)].state = "ready"
  \/ ~spec.consent /\ object["defaultConsent"].state = "unready"

\* An absent default page is no problem, a page of another type always is.
ConsentUnresolved(spec) ==
  ~ConsentUsable(spec) /\ (spec.consent \/ object["defaultConsent"].state = "mistyped")

AnnouncementPage(spec) ==
  IF spec.announcement THEN Copy("announcement") ELSE pages.announcement

ConsentPage(spec) ==
  IF ConsentUsable(spec) THEN Copy(utilityPageRef(spec)) ELSE None

\* Variant: the problem is recorded, and forgotten by the ladder.
noteOnly(call, requeue) == [call EXCEPT !.status.conditions = Waiting]

\* A reference that may stay unresolved while the host is mirrored.
noteUnresolvedRef(call, requeue) ==
  [call EXCEPT !.unresolved = TRUE, !.status.conditions = Waiting,
               !.requeue = @ \/ requeue]

\* An announcement page that does not resolve ends the call.
AnnouncementUnresolved ==
  /\ Start /\ cache.spec.announcement
  /\ LET state == object["announcement"].state
     IN /\ state # "ready"
        /\ Leave(Call, IF state = "unready" THEN Reconciling ELSE Degraded,
                 TRUE, state = "missing")
  /\ queued' = FALSE
  /\ UNCHANGED <<host, surroundings, children, running, troubles>>

AnnouncementResolved ==
  cache.spec.announcement => object["announcement"].state = "ready"

\* Writing an internal object queues the host that owns it.
Owned(changed) == queued' = changed

\* resolveUtilityPages: the internal pages, and the call after them.  The
\* resolver leaves Waiting behind when a default page is absent.
PagesWritten == [announcement |-> AnnouncementPage(cache.spec),
                 consent |-> ConsentPage(cache.spec)]

Paged ==
  LET state == object[utilityPageRef(cache.spec)].state
      used == {p \in {"announcement", "consent"} :
                 IF p = "announcement" THEN cache.spec.announcement
                 ELSE ConsentUsable(cache.spec)}
      call == [Call EXCEPT !.pages = used]
  IN IF ConsentUnresolved(cache.spec) THEN noteUnresolvedRef(call, state = "unready")
     ELSE IF state = "missing" THEN [call EXCEPT !.status.conditions = Waiting]
     ELSE call

\* A write or the deletion of the consent page fails.
PageWriteFails ==
  /\ Start /\ AnnouncementResolved
  /\ Trouble
  /\ \E a \in {pages.announcement, AnnouncementPage(cache.spec)} :
       pages' = [pages EXCEPT !.announcement = a]
  /\ Fail(Call)
  /\ Owned(pages' # pages)
  /\ UNCHANGED <<host, surroundings, copies, internal, running>>

-----------------------------------------------------------------------------
(* Theme and translations *)

\* Numbers in increasing order: each place goes to the one with that many below.
InOrder(numbers) ==
  [k \in 1..Cardinality(numbers) |->
     CHOOSE n \in numbers : Cardinality({m \in numbers : m < n}) = k - 1]

\* The entries of a list at some of its places, in the order of the list.
Sublist(list, places) ==
  LET place == InOrder(places)
  IN [k \in 1..Cardinality(places) |-> list[place[k]]]

Attaches(t) == NamesHost(object[t])

IsDeclared(t, spec) ==
  \E n \in DOMAIN spec.translationRefs : spec.translationRefs[n] = t

\* The translations that attach themselves, sorted by name, without those the
\* spec declares anyway.
Attached(spec) ==
  Sublist(ByName, {n \in DOMAIN ByName :
                     Attaches(ByName[n]) /\ ~IsDeclared(ByName[n], spec)})

\* Variant: a translation that attaches itself goes over the host's own list.
AttachedAbove(spec) ==
  <<DefaultTranslation>> \o spec.translationRefs \o Attached(spec)

\* orderTranslationSources: lowest precedence first.
Candidates(spec) ==
  <<DefaultTranslation>> \o Attached(spec) \o spec.translationRefs

\* Variant: every claimant is kept.
KeepsAll(candidates, n) == TRUE

\* Variant: the lowest claimant is kept.
KeepsFirst(candidates, n) ==
  \A m \in DOMAIN candidates : m < n => Name[candidates[m]] # Name[candidates[n]]

\* The walk from the highest precedence down keeps the first claimant of a name.
Keeps(candidates, n) ==
  \A m \in DOMAIN candidates : m > n => Name[candidates[m]] # Name[candidates[n]]

orderTranslationSources(spec) ==
  LET candidates == Candidates(spec)
  IN Sublist(candidates, {n \in DOMAIN candidates : Keeps(candidates, n)})

\* Two distinct sources of one name.
Collision(spec) ==
  LET candidates == Candidates(spec)
  IN \E m, n \in DOMAIN candidates :
       /\ candidates[m] # candidates[n]
       /\ Name[candidates[m]] = Name[candidates[n]]

\* withoutConsentKeys: only the default and the host's own translationRefs may
\* word the consent page.
Worded(t, spec) ==
  object[t].wording /\ (t = DefaultTranslation \/ IsDeclared(t, spec))

InternalTranslation(t, spec) ==
  [source |-> t, version |-> object[t].version, wording |-> Worded(t, spec)]

\* The copies after the first k sources were written.
Written(order, k, spec) ==
  [n \in Names |->
     LET at == {m \in 1..k : Name[order[m]] = n}
     IN IF at = {} THEN copies[n]
        ELSE InternalTranslation(order[CHOOSE m \in at : TRUE], spec)]

\* pruneInternalTranslations: copies whose name is not kept go.
Pruned(written, kept) == [n \in Names |-> IF n \in kept THEN written[n] ELSE None]

\* The call once the theme was looked at.
Themed ==
  LET state == object["theme"].state
  IN IF ~cache.spec.theme \/ state = "ready" THEN Paged
     ELSE noteUnresolvedRef(Paged, state = "unready")

\* The references where resolving may stop: the default comes first, those that
\* attach themselves in the order of the informer's list, which may be any, and
\* those of the spec as listed.
Unready(t) == object[t].state # "ready"

Stops(spec) ==
  LET refs == spec.translationRefs
      attached == {n \in DOMAIN ByName : Attaches(ByName[n]) /\ Unready(ByName[n])}
  IN IF Unready(DefaultTranslation) THEN {DefaultTranslation}
     ELSE IF attached # {} THEN {ByName[n] : n \in attached}
     ELSE {refs[n] : n \in {k \in DOMAIN refs :
                              Unready(refs[k]) /\ \A m \in 1..(k - 1) : ~Unready(refs[m])}}

Resolves == Start /\ AnnouncementResolved /\ pages' = PagesWritten

\* A translation that is missing or not ready ends the call.
TranslationUnresolved ==
  /\ Resolves
  /\ \E t \in Stops(cache.spec) :
       LET missing == object[t].state = "missing"
       IN Leave(Themed, IF missing THEN Degraded ELSE Themed.status.conditions,
                TRUE, missing)
  /\ Owned(pages' # pages)
  /\ UNCHANGED <<host, surroundings, copies, internal, running, troubles>>

TranslationsResolved == Stops(cache.spec) = {}

resolveTranslations ==
  /\ Resolves /\ TranslationsResolved
  /\ \E order \in {orderTranslationSources(cache.spec)} :
       LET kept == {Name[order[n]] : n \in DOMAIN order}
           written == Written(order, Len(order), cache.spec)
       IN /\ worker' = [Themed EXCEPT !.order = order,
                                      !.collision = Collision(cache.spec),
                                      !.status.copied = kept]
          /\ \/ copies' = Pruned(written, kept) /\ UNCHANGED troubles
             \/ copies' = written /\ Trouble  \* a failed deletion is only logged
  /\ Owned(<<pages, copies>>' # <<pages, copies>>)
  /\ UNCHANGED <<host, surroundings, internal, running>>

\* The call once the generations of the first k sources are recorded.
Recorded(order, k) ==
  [Themed EXCEPT !.status.copied = @ \cup {Name[order[m]] : m \in 1..k}]

\* One of the copies cannot be written.
TranslationWriteFails ==
  /\ Resolves /\ TranslationsResolved
  /\ Trouble
  /\ \E order \in {orderTranslationSources(cache.spec)} :
       \E k \in 0..(Len(order) - 1) :
         copies' = Written(order, k, cache.spec) /\ Fail(Recorded(order, k))
  /\ Owned(<<pages, copies>>' # <<pages, copies>>)
  /\ UNCHANGED <<host, surroundings, internal, running>>

-----------------------------------------------------------------------------
(* Helm *)

\* The generation becomes that of a fresh read, the spec stays as read before.
Refreshed(call) == [call EXCEPT !.gen = cache.gen]

Launched(call) ==
  [Refreshed(call) EXCEPT !.status.helm = "in_progress",
                          !.status.conditions.ready = "False",
                          !.status.conditions.progressing = "True"]

\* updateHelmStatus: the goroutine patches what the cache shows, and is gone.
updateHelmStatus ==
  /\ running /\ running' = FALSE
  /\ LET Report(helm, conditions) ==
           \E status \in Merged(server.status, cache.status,
                               [cache.status EXCEPT !.helm = helm,
                                                    !.conditions = conditions]) :
             Store([server EXCEPT !.status = status])
     IN \/ /\ Report("completed", [cache.status.conditions EXCEPT !.progressing = "False"])
           /\ UNCHANGED troubles
        \/ /\ Report("failed", [cache.status.conditions EXCEPT !.progressing = "False",
                                                              !.degraded = "True"])
           /\ Trouble
        \/ UNCHANGED <<server, synced>> /\ Trouble
  /\ UNCHANGED <<cache, surroundings, children, queued, worker>>

-----------------------------------------------------------------------------
(* The internal host and the readiness ladder *)

\* Variant: labelled with the generation observed last.
ReflectionObserved(call) ==
  [internal EXCEPT !.exists = TRUE, !.gen = call.status.observed, !.spec = call.spec,
                   !.translations = [n \in DOMAIN call.order |-> Name[call.order[n]]],
                   !.pages = call.pages]

\* createOrUpdateInternalHostResource: the spec as it was read, with references
\* to what was written for it.
Reflection(call) ==
  [internal EXCEPT !.exists = TRUE, !.gen = call.gen, !.spec = call.spec,
                   !.translations = [n \in DOMAIN call.order |-> Name[call.order[n]]],
                   !.pages = call.pages]

\* Variant: an unresolved theme or consent page stops the mirror.
MirrorResolved(call) ==
  internal' = IF call.unresolved THEN internal ELSE Reflection(call)

Mirror(call) == internal' = Reflection(call)

HelmRung(call) == call.status.helm \in {"in_progress", "failed"}

\* Variant: the internal host has to say that it is ready.
WaitingForTrue == deployment # "available" \/ internal.ready # "True"

WaitingRung == deployment # "available" \/ internal.ready = "False"

DegradedRung(call) == call.collision \/ ~call.spec.selectorParses

\* The readiness checks, the first that holds decides.
Ladder(call) ==
  IF call.unresolved THEN Leave(call, call.status.conditions, call.requeue, FALSE)
  ELSE IF HelmRung(call) THEN Leave(call, call.status.conditions, TRUE, FALSE)
  ELSE IF WaitingRung THEN Leave(call, Waiting, TRUE, FALSE)
  ELSE Leave(call, IF DegradedRung(call) THEN Degraded ELSE Ready, FALSE, FALSE)

MirrorAndJudge(call) ==
  \/ /\ Mirror(call)
     /\ queued' = (queued \/ internal' # internal)
     /\ Ladder(call)
     /\ UNCHANGED troubles
  \/ /\ Trouble  \* the internal host cannot be written
     /\ Fail(call)
     /\ UNCHANGED <<internal, queued>>

\* reconcileHelmReleases when the charts are rendered, are being rendered, or
\* failed a moment ago.
HelmSettled ==
  /\ worker.step = "helm"
  /\ \/ cache.status.helm \in {"completed", "failed"}
     \/ cache.status.helm = "in_progress" /\ running
  /\ MirrorAndJudge(Refreshed(worker))
  /\ UNCHANGED <<host, surroundings, copies, pages, running>>

MayLaunch ==
  /\ worker.step = "helm"
  /\ cache.status.helm # "completed"
  /\ cache.status.helm = "in_progress" => ~running

\* The status says in_progress, then the goroutine starts unless one runs.
StartHelm ==
  /\ MayLaunch
  /\ \E status \in Merged(server.status, cache.status, Launched(worker).status) :
       Store([server EXCEPT !.status = status])
  /\ running' = TRUE
  /\ MirrorAndJudge(Launched(worker))
  /\ UNCHANGED <<cache, surroundings, copies, pages>>

\* The patch is refused.
HelmPatchFails ==
  /\ MayLaunch
  /\ Trouble
  /\ Fail(Launched(worker))
  /\ UNCHANGED <<host, surroundings, children, queued, running>>

-----------------------------------------------------------------------------
(* The deferred patch *)

\* The Helm attributes of the cluster win, and so does a failed release.
Desired(call) ==
  [call.status EXCEPT
     !.observed = call.gen,
     !.helm = IF cache.status.helm = "none" THEN @ ELSE cache.status.helm,
     !.conditions = IF cache.status.helm = "failed"
                       /\ cache.status.conditions.degraded = "True"
                    THEN Degraded ELSE @]

\* A NotFound error, of whatever object, skips the patch.
Skips(call) == call.notFound

PatchSkipped ==
  /\ worker.step = "patch" /\ Skips(worker)
  /\ worker' = Idle /\ queued' = TRUE
  /\ UNCHANGED <<host, surroundings, children, running, troubles>>

PatchStatus ==
  /\ worker.step = "patch" /\ ~Skips(worker)
  /\ \E status \in Merged(server.status, cache.status, Desired(worker)) :
       Store([server EXCEPT !.status = status])
  /\ worker' = Idle /\ queued' = (queued \/ worker.again)
  /\ UNCHANGED <<cache, surroundings, children, running, troubles>>

\* The patch is refused: the key comes back.
PatchFails ==
  /\ worker.step = "patch" /\ ~Skips(worker)
  /\ Trouble
  /\ worker' = Idle /\ queued' = TRUE
  /\ UNCHANGED <<host, surroundings, children, running>>

-----------------------------------------------------------------------------

Reconcile ==
  \/ AnnouncementUnresolved \/ PageWriteFails
  \/ TranslationUnresolved \/ resolveTranslations \/ TranslationWriteFails
  \/ HelmSettled \/ StartHelm \/ HelmPatchFails
  \/ PatchSkipped \/ PatchStatus \/ PatchFails

Environment ==
  \/ EditSpec \/ ChangeDeployment \/ ChangeReadiness \/ Restart
  \/ \E o \in Objects : ChangeObject(o)

Next == Reconcile \/ updateHelmStatus \/ SyncCache \/ Environment

Spec == Init /\ [][Next]_vars

\* The informer delivers, the workqueue hands out keys when their delay is
\* over, a call and a goroutine end, and a backoff is over some time.
FairSpec ==
  /\ Spec
  /\ WF_vars(Reconcile) /\ SF_vars(StartHelm)
  /\ WF_vars(updateHelmStatus) /\ WF_vars(SyncCache)
-----------------------------------------------------------------------------
(* Properties *)

Status == [observed : Nat, helm : {"none", "in_progress", "completed", "failed"},
           conditions : [ready : {"", "True", "False", "Unknown"},
                         degraded : {"", "True", "False"},
                         progressing : {"", "True", "False"}],
           copied : SUBSET Names]

Host == [gen : Nat, spec : world.specs, status : Status]

\* Every variable has the shape the actions rely on; the status never observes
\* a generation that does not exist, and copies carry the name of their source.
TypeOK ==
  /\ world \in Worlds
  /\ server \in Host /\ cache \in Host
  /\ cache.gen <= server.gen /\ server.status.observed <= server.gen
  /\ object \in [Objects -> Object]
  /\ \A n \in Names : copies[n] = None \/ Name[copies[n].source] = n
  /\ internal.gen <= server.gen
  /\ deployment \in world.deployments
  /\ synced \in BOOLEAN /\ (synced => cache = server)
  /\ queued \in BOOLEAN /\ running \in BOOLEAN
  /\ worker # Idle => /\ worker.step \in {"helm", "patch"}
                      /\ worker.gen <= server.gen
                      /\ worker.status \in Status
  /\ edits \in 0..MaxEdits /\ troubles \in 0..MaxTroubles

wanted == server.spec

\* Sources whose internal translations have one name are told apart before
\* anything is written: the internal host names none twice, and what the call
\* is about to name is the copy of the source that won, with consent wording
\* only from the default and the host's own list.
SourcesServed ==
  /\ \A m, n \in DOMAIN internal.translations :
       internal.translations[m] = internal.translations[n] => m = n
  /\ worker.step = "helm" =>
       \A n \in DOMAIN worker.order :
         LET t == worker.order[n]
         IN /\ copies[Name[t]].source = t
            /\ copies[Name[t]].wording =>
                 t = DefaultTranslation \/ IsDeclared(t, worker.spec)

\* A call reports Ready only after it mirrored what it resolved: whichever way
\* it ended, failed or was overtaken, the internal host is the one it judged.
ReadyMirrored ==
  worker.step = "patch" /\ worker.status.conditions = Ready =>
    /\ internal.exists
    /\ internal.gen = worker.gen /\ internal.spec = worker.spec
    /\ internal.pages = worker.pages
    /\ internal.translations = [n \in DOMAIN worker.order |-> Name[worker.order[n]]]
    /\ \A n \in DOMAIN worker.order :
         copies[internal.translations[n]].source = worker.order[n]
    /\ ~worker.collision /\ worker.spec.selectorParses
    /\ worker.status.helm \notin {"in_progress", "failed"}

\* The internal host carries the spec the host has now.
Current ==
  internal.exists /\ internal.gen = server.gen /\ internal.spec = wanted

\* The mirror only moves forward: its generation never falls, and once it is
\* that of the host with the host's spec, no call that started earlier, no
\* stale cache, failed write or restart puts an older spec back.
MirrorForward ==
  [][/\ internal'.gen >= internal.gen
     /\ Current => internal'.spec = internal.spec]_vars

State(o) == object[o].state

\* The translations that claim a name, and how they rank: the host's own list
\* over those that attach themselves, those over the default.
Claimants(name) ==
  {t \in Translations :
     /\ Name[t] = name
     /\ t = DefaultTranslation \/ IsDeclared(t, wanted) \/ NamesHost(object[t])}

Rank(t) ==
  LET Last(list) == CHOOSE n \in DOMAIN list :
        list[n] = t /\ \A m \in DOMAIN list : list[m] = t => m <= n
  IN IF IsDeclared(t, wanted) THEN Len(ByName) + Last(wanted.translationRefs)
     ELSE IF t = DefaultTranslation THEN 0 ELSE Last(ByName)

Winner(name) ==
  CHOOSE t \in Claimants(name) : \A u \in Claimants(name) : Rank(u) <= Rank(t)

Winners == {Winner(name) : name \in {n \in Names : Claimants(n) # {}}}

\* The one walk from the top of the precedence order down keeps exactly the
\* highest claimant of every name, and leaves them from the lowest to the
\* highest: a source that is attached and declared counts once, where it is
\* declared, and one that is declared twice where it is declared last.
Precedence ==
  LET order == orderTranslationSources(wanted)
  IN /\ {order[n] : n \in DOMAIN order} = Winners
     /\ \A m, n \in DOMAIN order : m < n => Rank(order[m]) < Rank(order[n])

Collides == \E name \in Names : Cardinality(Claimants(name)) > 1

\* The references that end the call when they do not resolve.
PagesResolve == wanted.announcement => State("announcement") = "ready"

TranslationsResolve ==
  \A name \in Names : \A t \in Claimants(name) : State(t) = "ready"

ThemeResolves == wanted.theme => State("theme") = "ready"

\* A host without a consent page of its own can do without the default page.
ConsentResolves ==
  IF wanted.consent THEN State("consent") = "ready"
  ELSE State("defaultConsent") # "mistyped"

\* Once users and controllers stop, the internal host carries the last spec,
\* its generation and the translations in their order, whatever the theme, the
\* consent page, Helm or the Deployment do (issue #2): no pass, no failure and
\* no restart leaves an older mirror behind.
Carried ==
  PagesResolve /\ TranslationsResolve =>
    /\ internal.exists /\ internal.gen = server.gen /\ internal.spec = wanted
    /\ Len(internal.translations) = Cardinality(Winners)
    /\ \E order \in [DOMAIN internal.translations -> Winners] :
         /\ \A n \in DOMAIN order : Name[order[n]] = internal.translations[n]
         /\ \A m, n \in DOMAIN order : m < n => Rank(order[m]) < Rank(order[n])
    /\ "announcement" \in internal.pages <=> wanted.announcement
    /\ "consent" \in internal.pages <=> pages.consent # None

SpecMirrored == <>[]Carried

\* The copies the host serves end up being those of the highest claimant of
\* each name, in its current version, with consent wording only from the
\* default and the host's own list, and none is left of a source that is gone.
\* The default translation is not watched: its copy may be of an older version.
CopiedRight(name) ==
  IF Claimants(name) = {} THEN copies[name] = None
  ELSE LET winner == Winner(name)
       IN /\ copies[name].source = winner
          /\ winner # DefaultTranslation =>
               /\ copies[name].version = object[winner].version
               /\ copies[name].wording = (object[winner].wording
                                           /\ IsDeclared(winner, wanted))

CopiesFollow ==
  <>[](PagesResolve /\ TranslationsResolve => \A name \in Names : CopiedRight(name))

\* The consent page served ends up being the current version of the page the
\* host names, or of the default page, and none when that page is not usable:
\* a page left behind would go on being served.
ConsentServed ==
  LET page == IF wanted.consent THEN "consent" ELSE "defaultConsent"
      usable == State(page) = "ready" \/ (~wanted.consent /\ State(page) = "unready")
  IN PagesResolve =>
       pages.consent = IF usable THEN [source |-> page, version |-> object[page].version]
                       ELSE None

ConsentFollows == <>[]ConsentServed

\* A host that lacks nothing ends up Ready, one whose selector does not parse
\* or whose translations collide ends up Degraded, at its current generation,
\* although several writers patch the status from copies of different age.
Settled ==
  /\ PagesResolve /\ TranslationsResolve /\ ThemeResolves /\ ConsentResolves
  /\ deployment = "available" /\ internal.ready # "False"
  => /\ server.status.conditions =
          IF Collides \/ ~wanted.selectorParses THEN Degraded ELSE Ready
     /\ server.status.observed = server.gen

ReadySettles == <>[]Settled

\* A host does not stay Ready while its announcement page, its theme, its
\* consent page or a translation other than the default one is there but not
\* usable, its theme or consent page is missing, or its internal host says it
\* is not ready.  (MissingShown has the announcement page that is missing.)
Troubled ==
  \/ wanted.announcement /\ State("announcement") \in {"unready", "mistyped"}
  \/ /\ PagesResolve
     /\ \A name \in Names : \A t \in Claimants(name) : State(t) # "missing"
     /\ \/ ~ThemeResolves \/ ~ConsentResolves
        \/ internal.ready = "False"
        \/ \E t \in Translations \ {DefaultTranslation} :
             t \in Claimants(Name[t]) /\ State(t) # "ready"

ProblemsShown == <>[](Troubled => server.status.conditions.ready # "True")

\* "If the object was not found, we don't need to update status": what is not
\* found may be a page the host names, and the Degraded condition set for it
\* is never written.
MissingShown ==
  <>[](wanted.announcement /\ State("announcement") = "missing"
       => server.status.conditions.ready # "True")
=============================================================================
