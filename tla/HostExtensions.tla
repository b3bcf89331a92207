--------------------------- MODULE HostExtensions ---------------------------
(***************************************************************************)
(* Which KDexHostExtensions a host applies, and what each of them is told. *)
(*                                                                         *)
(* Two controllers evaluate the same selection from the same informer      *)
(* caches, each at its own time: the host controller writes the applied    *)
(* extensions into the KDexInternalHost, the extension controller writes   *)
(* an Attached condition on every extension.  Events of extensions and     *)
(* hosts decide what each of them looks at again.                          *)
(***************************************************************************)
EXTENDS Integers, FiniteSets, Sequences, Functions

CONSTANTS
  Names,      \* extension names: numbers, in the order of strings.Compare
  Hosts,      \* names of KDexHosts in the namespace
  Existing,   \* the hosts that are there when the manager starts
  Specs,      \* the extension specs users write
  Cap,        \* maxHostExtensions
  None,       \* "no such object", "nothing to write"
  MaxEdits    \* bound on what users do

ASSUME ExtensionsAssumption ==
  /\ Existing \subseteq Hosts
  /\ Names \subseteq Nat /\ IsFiniteSet(Names)
  /\ \A s \in Specs : /\ s.host \in Hosts /\ s.weight \in Int
                      /\ s.label \in BOOLEAN /\ s.valid \in BOOLEAN
  /\ Cap \in Nat
  /\ MaxEdits \in Nat

VARIABLES
  ext,        \* KDexHostExtensions as stored
  extCache,   \* and as the informer last saw them
  host,       \* the spec.extensionSelector of each KDexHost, None without host
  hostCache,
  internal,   \* spec.extensions of each KDexInternalHost
  hostQueue,  \* workqueue of the host controller
  extQueue,   \* workqueue of the extension controller
  plan,       \* the extensions a host's Reconcile resolved and has to write
  verdict,    \* the condition an extension's Reconcile found and has to patch
  edits

vars == <<ext, extCache, host, hostCache, internal, hostQueue, extQueue,
          plan, verdict, edits>>

Reasons == {"Unknown", "Attached", "NotSelected", "HostNotFound",
            "LimitExceeded", "InvalidClaimMappings"}

\* In a spec, label says that the labels match the selectors that want them
\* and valid that the claimMappings compile.  The Attached condition has a
\* reason and the generation that was evaluated.
Condition == [reason: Reasons, observed: 0..(MaxEdits + 1)]
Extension == [spec: Specs, generation: 1..(MaxEdits + 1), deleting: BOOLEAN,
              attached: Condition]

\* none: no selector, or one that cannot be parsed; label: wants the label;
\* all: the empty selector, which matches everything.
Selectors == {"none", "label", "all"}

-----------------------------------------------------------------------------
(* selectExtensions *)

\* The selector of host h accepts extension e.
Selects(selector, e) ==
  \/ selector = "all"
  \/ selector = "label" /\ e.spec.label

\* The extensions that name the host, stay, and match its selector.
Matched(h, selector, exts) ==
  {n \in Names : /\ exts[n] # None
                 /\ exts[n].spec.host = h
                 /\ ~exts[n].deleting
                 /\ Selects(selector, exts[n])}

Invalid(h, selector, exts) ==
  {n \in Matched(h, selector, exts) : ~exts[n].spec.valid}

\* Application order: weight, then name.
Precedes(exts, m, n) ==
  \/ exts[m].spec.weight < exts[n].spec.weight
  \/ exts[m].spec.weight = exts[n].spec.weight /\ m < n

\* The eligible extensions in that order.
Sorted(h, selector, exts) ==
  LET eligible == Matched(h, selector, exts) \ Invalid(h, selector, exts)
  IN CHOOSE s \in [1..Cardinality(eligible) -> eligible] :
       \A i, j \in DOMAIN s : i < j => Precedes(exts, s[i], s[j])

\* Variant: the limit is compared with > but sliced one too far.
AppliedOneTooMany(h, selector, exts) ==
  LET s == Sorted(h, selector, exts)
  IN SubSeq(s, 1, IF Len(s) > Cap THEN Cap + 1 ELSE Len(s))

Applied(h, selector, exts) ==
  LET s == Sorted(h, selector, exts)
  IN SubSeq(s, 1, IF Len(s) > Cap THEN Cap ELSE Len(s))

Overflow(h, selector, exts) ==
  LET s == Sorted(h, selector, exts) IN SubSeq(s, Cap + 1, Len(s))

\* The reason KDexHostExtensionReconciler.Reconcile gives extension n.
Reason(n, hosts, exts) ==
  LET h == exts[n].spec.host
      selector == hosts[h]
  IN CASE selector = None                             -> "HostNotFound"
       [] n \in Range(Applied(h, selector, exts))     -> "Attached"
       [] n \in Range(Overflow(h, selector, exts))    -> "LimitExceeded"
       [] n \in Invalid(h, selector, exts)            -> "InvalidClaimMappings"
       [] OTHER                                       -> "NotSelected"

\* Variant: the list is built from all that match, the overflow included.
SnapshotOfAll(h, selector, exts) ==
  LET matched == Sorted(h, selector, exts)
  IN [i \in DOMAIN matched |->
        LET e == exts[matched[i]]
        IN [name |-> matched[i], spec |-> e.spec, generation |-> e.generation]]

\* What the internal host carries of the applied extensions.
Snapshot(h, selector, exts) ==
  LET applied == Applied(h, selector, exts)
  IN [i \in DOMAIN applied |->
        LET e == exts[applied[i]]
        IN [name |-> applied[i], spec |-> e.spec, generation |-> e.generation]]

\* A list the CRD accepts: maxItems is the cap.
Entries(list) ==
  /\ Len(list) <= Cap
  /\ Range(list) \subseteq
       [name: Names, spec: Specs, generation: 1..(MaxEdits + 1)]

\* Every state is well typed; in particular what is written to an internal
\* host, or about to be, passes the validation of spec.extensions.
TypeOK ==
  /\ ext \in [Names -> Extension \cup {None}]
  /\ extCache \in [Names -> Extension \cup {None}]
  /\ host \in [Hosts -> Selectors \cup {None}]
  /\ hostCache \in [Hosts -> Selectors \cup {None}]
  /\ DOMAIN internal = Hosts /\ DOMAIN plan = Hosts
  /\ \A h \in Hosts : Entries(internal[h])
  /\ hostQueue \subseteq Hosts
  /\ extQueue \subseteq Names
  /\ \A h \in Hosts : plan[h] # None => Entries(plan[h])
  /\ verdict \in [Names -> [new: Condition, base: Condition] \cup {None}]
  /\ edits \in 0..MaxEdits

\* An extension no controller has looked at yet.
Fresh(s) ==
  [spec |-> s, generation |-> 1, deleting |-> FALSE,
   attached |-> [reason |-> "Unknown", observed |-> 0]]

\* The manager starts: the informers have listed the hosts and the extensions
\* that were created before, and everything listed is queued.
Init ==
  /\ ext \in [Names -> {Fresh(s) : s \in Specs} \cup {None}]
  /\ extCache = ext
  /\ host = [h \in Hosts |-> IF h \in Existing THEN "label" ELSE None]
  /\ hostCache = host
  /\ internal = [h \in Hosts |-> <<>>]
  /\ hostQueue = Existing
  /\ extQueue = {n \in Names : ext[n] # None}
  /\ plan = [h \in Hosts |-> None]
  /\ verdict = [n \in Names |-> None]
  /\ edits = 0

controllers == <<internal, hostQueue, extQueue, plan, verdict>>

\* Each controller has one worker, the default MaxConcurrentReconciles.
HostWorkerFree == \A h \in Hosts : plan[h] = None
ExtensionWorkerFree == \A n \in Names : verdict[n] = None

-----------------------------------------------------------------------------
(* Users *)

Edit == edits < MaxEdits /\ edits' = edits + 1

\* An extension is created, or its labels or its spec are replaced; only the
\* spec moves the generation.  A name is used again once the informer has seen
\* the deletion, so that two objects are never taken for one.
ApplyExtension(n) ==
  /\ Edit
  /\ \E s \in Specs :
       IF ext[n] = None
       THEN /\ extCache[n] = None
            /\ ext' = [ext EXCEPT ![n] = Fresh(s)]
       ELSE /\ s # ext[n].spec
            /\ ext' = [ext EXCEPT ![n].spec = s,
                 ![n].generation =
                   IF [s EXCEPT !.label = ext[n].spec.label] = ext[n].spec
                   THEN @ ELSE @ + 1]
  /\ UNCHANGED <<extCache, host, hostCache, controllers>>

\* It is deleted, at once or after somebody else's finalizer.
DeleteExtension(n) ==
  /\ Edit
  /\ ext[n] # None
  /\ \/ ext' = [ext EXCEPT ![n] = None]
     \/ /\ ~ext[n].deleting
        /\ ext' = [ext EXCEPT ![n].deleting = TRUE]
  /\ UNCHANGED <<extCache, host, hostCache, controllers>>

\* The selector is replaced, or a host that was gone is created again.
ApplyHost(h) ==
  /\ Edit
  /\ (host[h] = None => hostCache[h] = None)
  /\ \E s \in Selectors \ {host[h]} : host' = [host EXCEPT ![h] = s]
  /\ UNCHANGED <<ext, extCache, hostCache, controllers>>

\* The host's Reconcile has torn it down, its internal host first.
FinalizeHost(h) ==
  /\ Edit
  /\ host[h] # None /\ HostWorkerFree
  /\ host' = [host EXCEPT ![h] = None]
  /\ internal' = [internal EXCEPT ![h] = <<>>]
  /\ UNCHANGED <<ext, extCache, hostCache, hostQueue, extQueue, plan, verdict>>

-----------------------------------------------------------------------------
(* Events.  An update maps the old and the new object, so each map function *)
(* is applied to both.                                                      *)

\* Variant: of an update only the new object is mapped.
HostRefOfNewOnly(old, new) ==
  {e.spec.host : e \in (IF new = None THEN {old} ELSE {new}) \ {None}}

\* extensionHostRefRequests: the hosts to reconcile.
extensionHostRefRequests(old, new) ==
  {e.spec.host : e \in {old, new} \ {None}}

\* extensionsNaming: the extensions of the cache that name one of the hosts.
extensionsNaming(hosts, exts) ==
  {n \in Names : exts[n] # None /\ exts[n].spec.host \in hosts}

\* Variant: the siblings of a changed extension are not looked at again.
NoSiblings(old, new, exts) == {}

\* extensionsForSibling: an extension's verdict depends on its siblings.
extensionsForSibling(old, new, exts) ==
  extensionsNaming({e.spec.host : e \in {old, new} \ {None}}, exts)

SyncExtension(n) ==
  /\ extCache[n] # ext[n]
  /\ extCache' = [extCache EXCEPT ![n] = ext[n]]
  /\ hostQueue' = hostQueue \cup extensionHostRefRequests(extCache[n], ext[n])
  /\ extQueue' = extQueue \cup {n}
                  \cup extensionsForSibling(extCache[n], ext[n], extCache')
  /\ UNCHANGED <<ext, host, hostCache, internal, plan, verdict, edits>>

\* extensionsForHost, and the host itself.
SyncHost(h) ==
  /\ hostCache[h] # host[h]
  /\ hostCache' = [hostCache EXCEPT ![h] = host[h]]
  /\ hostQueue' = hostQueue \cup {h}
  /\ extQueue' = extQueue \cup extensionsNaming({h}, extCache)
  /\ UNCHANGED <<ext, extCache, host, internal, plan, verdict, edits>>

-----------------------------------------------------------------------------
(* The host controller *)

\* Reconcile up to resolveExtensions.  A host that is gone or finalized is
\* left.
resolveExtensions(h) ==
  /\ h \in hostQueue /\ HostWorkerFree
  /\ hostQueue' = hostQueue \ {h}
  /\ plan' = IF hostCache[h] = None \/ host[h] = None
             THEN plan
             ELSE [plan EXCEPT ![h] = Snapshot(h, hostCache[h], extCache)]
  /\ UNCHANGED <<ext, extCache, host, hostCache, internal, extQueue, verdict,
                 edits>>

\* createOrUpdateInternalHostResource writes what was resolved.
createOrUpdateInternalHostResource(h) ==
  /\ plan[h] # None
  /\ internal' = [internal EXCEPT ![h] = plan[h]]
  /\ plan' = [plan EXCEPT ![h] = None]
  /\ UNCHANGED <<ext, extCache, host, hostCache, hostQueue, extQueue, verdict,
                 edits>>

-----------------------------------------------------------------------------
(* The extension controller *)

\* Reconcile reads the extension, its host and its siblings.
Evaluate(n) ==
  /\ n \in extQueue /\ ExtensionWorkerFree
  /\ extQueue' = extQueue \ {n}
  /\ IF extCache[n] = None THEN UNCHANGED verdict
     ELSE IF extCache[n].deleting THEN UNCHANGED verdict
     ELSE verdict' = [verdict EXCEPT ![n] =
            [new  |-> [reason   |-> Reason(n, hostCache, extCache),
                       observed |-> extCache[n].generation],
             base |-> extCache[n].attached]]
  /\ UNCHANGED <<ext, extCache, host, hostCache, internal, hostQueue, plan,
                 edits>>

\* The patch: nothing when the cached condition says the same; an extension
\* that is gone is an error, retried.
PatchCondition(n) ==
  /\ verdict[n] # None
  /\ verdict' = [verdict EXCEPT ![n] = None]
  /\ IF ext[n] = None
     THEN extQueue' = extQueue \cup {n} /\ UNCHANGED ext
     ELSE /\ ext' = IF verdict[n].new = verdict[n].base THEN ext
                    ELSE [ext EXCEPT ![n].attached = verdict[n].new]
          /\ UNCHANGED extQueue
  /\ UNCHANGED <<extCache, host, hostCache, internal, hostQueue, plan, edits>>

-----------------------------------------------------------------------------

Next ==
  \/ \E n \in Names : \/ ApplyExtension(n) \/ DeleteExtension(n)
                      \/ SyncExtension(n)
                      \/ Evaluate(n) \/ PatchCondition(n)
  \/ \E h \in Hosts : \/ ApplyHost(h) \/ FinalizeHost(h) \/ SyncHost(h)
                      \/ resolveExtensions(h)
                      \/ createOrUpdateInternalHostResource(h)

Spec == Init /\ [][Next]_vars

\* Informers deliver and both controllers work through their queues.
Fairness ==
  /\ \A n \in Names : /\ WF_vars(SyncExtension(n))
                      /\ WF_vars(Evaluate(n))
                      /\ WF_vars(PatchCondition(n))
  /\ \A h \in Hosts : /\ WF_vars(SyncHost(h))
                      /\ WF_vars(resolveExtensions(h))
                      /\ WF_vars(createOrUpdateInternalHostResource(h))

FairSpec == Spec /\ Fairness

-----------------------------------------------------------------------------
(* Properties *)

\* selectExtensions against its definition: an extension is applied exactly
\* when it is eligible and fewer than Cap eligible ones come before it, the
\* other eligible ones overflow, and one that does not compile is in neither.
CapIsByRank ==
  \A h \in Hosts, selector \in Selectors :
    LET eligible == {n \in Names :
                       /\ extCache[n] # None
                       /\ extCache[n].spec.host = h /\ extCache[n].spec.valid
                       /\ ~extCache[n].deleting
                       /\ \/ selector = "all"
                          \/ selector = "label" /\ extCache[n].spec.label}
        rank(n) == Cardinality({m \in eligible : Precedes(extCache, m, n)})
    IN /\ Range(Applied(h, selector, extCache))
             = {n \in eligible : rank(n) < Cap}
       /\ Range(Overflow(h, selector, extCache))
             = {n \in eligible : rank(n) >= Cap}

\* Once users stop, every host carries exactly the extensions it selects, as
\* they are now: a moved or relabelled one has left its previous host, one
\* that was over the limit has taken a freed place.
HostsConverge ==
  \A h \in Hosts :
    <>[](host[h] # None => internal[h] = Snapshot(h, host[h], ext))

\* Once users stop, every extension is told what its host makes of it now, for
\* its last generation, although a sibling, the host or its selector changed
\* the answer.
ConditionsConverge ==
  \A n \in Names :
    <>[](ext[n] # None =>
           \/ ext[n].deleting
           \/ ext[n].attached = [reason |-> Reason(n, host, ext),
                                 observed |-> ext[n].generation])

=============================================================================
