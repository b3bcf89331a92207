---------------------------- MODULE HelmRelease ----------------------------
(***************************************************************************)
(* How the KDexHost controller drives a host's Helm releases.              *)
(*                                                                         *)
(* A reconcile worker (one per host, the workqueue serialises a key)       *)
(* decides from the cached object whether a Helm pass is due, records      *)
(* "in_progress" on the server, registers the pass in activeHelmOperations *)
(* and starts a goroutine.  The goroutine queues for a render slot, reads  *)
(* the host again, installs the host chart and its companions, prunes the  *)
(* companions no longer declared and reports the outcome.  On deletion the *)
(* worker cancels the registered goroutine, uninstalls every release and   *)
(* only then drops the finalizer.                                          *)
(*                                                                         *)
(* Every read goes to the informer cache, which trails the API server, and *)
(* every status write is a merge patch computed against what was read.     *)
(***************************************************************************)
EXTENDS Integers, FiniteSets

CONSTANTS
  Hosts,              \* KDexHost keys
  Ops,                \* identities of goroutines alive at once (a bound)
  Specs,              \* host specs the Helm values can be rendered from
  Companions,         \* companion chart names
  None,               \* "no spec", "no operation", "no host", "no companion"
  InitSpec,           \* the spec a host is created with
  Edits,              \* Edits[s]: the specs a user may replace s by
  Declares,           \* Declares[s]: the companions spec s declares
  Deletable,          \* the hosts a user may delete
  RenderConcurrency,  \* --helm-render-concurrency; <= 0 is unbounded
  MaxGeneration,      \* bound on metadata.generation
  MaxTroubles         \* bound on failed API and Helm calls and on restarts

ASSUME ConstantsAssumption ==
  /\ None \notin Specs \cup Ops \cup Hosts \cup Companions
  /\ InitSpec \in Specs
  /\ Edits \in [Specs -> SUBSET Specs]
  /\ Declares \in [Specs -> SUBSET Companions]
  /\ Deletable \subseteq Hosts
  /\ IsFiniteSet(Ops)
  /\ RenderConcurrency \in Int
  /\ MaxGeneration \in Nat \ {0}
  /\ MaxTroubles \in Nat

VARIABLES
  server,    \* the KDexHost as the API server stores it
  cache,     \* the KDexHost as the informer last saw it
  current,   \* which copies ("cache", "worker") are at the server's version
  queued,    \* the host's key is in the workqueue
  worker,    \* the Reconcile call of the host, step by step
  op,        \* the runAsyncHelmReconcile goroutines
  active,    \* r.activeHelmOperations
  slots,     \* occupancy of the r.helmRenderSem channel
  rel,       \* the Helm releases in the cluster
  raced,     \* auxiliary: the last teardown found a goroutine past its re-read
  faults,    \* failures so far
  crashes    \* restarts so far

vars == <<server, cache, current, queued, worker, op, active, slots, rel,
          raced, faults, crashes>>

memory == <<worker, op, active, slots>>
api    == <<server, cache, current>>
aux    == <<raced, faults, crashes>>

-----------------------------------------------------------------------------
(* Types *)

Statuses == {"absent", "in_progress", "completed", "failed"}

\* The helm.release.* status attributes.  The hash of a spec is the spec: two
\* specs hash alike exactly when they send the same values to Helm.  failure
\* stands for the error and last-attempt keys, always set and deleted together.
Attributes == [status: Statuses, hash: Specs \cup {None}, failure: BOOLEAN]

NoAttributes == [status |-> "absent", hash |-> None, failure |-> FALSE]

Object == [exists: BOOLEAN, deleting: BOOLEAN, finalizer: BOOLEAN,
           gen: 1..MaxGeneration, spec: Specs, attrs: Attributes]

NewHost == [exists |-> TRUE, deleting |-> FALSE, finalizer |-> FALSE,
            gen |-> 1, spec |-> InitSpec, attrs |-> NoAttributes]

WorkerSteps == {"idle", "helm", "launch", "teardown",
                "uninstall_host", "list_owned", "uninstall_companions",
                "defer"}

\* spec and attrs are the worker's in-memory copy of the host.
Worker == [step: WorkerSteps, spec: Specs \cup {None}, attrs: Attributes,
           todo: SUBSET Companions, failed: BOOLEAN, requeue: BOOLEAN]

IdleWorker == [step |-> "idle", spec |-> None, attrs |-> NoAttributes,
               todo |-> {}, failed |-> FALSE, requeue |-> FALSE]

OpSteps == {"idle", "start", "wait", "reread", "host", "companions",
            "list_owned", "prune", "report"}

\* gen and spec are the host as re-read after the slot was acquired; slot says
\* that the deferred release() still has a slot to give back.
Operation == [step: OpSteps, host: Hosts \cup {None},
              hash: Specs \cup {None}, cancelled: BOOLEAN, slot: BOOLEAN,
              gen: 0..MaxGeneration, spec: Specs \cup {None},
              todo: SUBSET Companions, failed: BOOLEAN]

IdleOp == [step |-> "idle", host |-> None, hash |-> None,
           cancelled |-> FALSE, slot |-> FALSE, gen |-> 0, spec |-> None,
           todo |-> {}, failed |-> FALSE]

\* gen = 0: the host-manager release is not installed; otherwise gen and spec
\* name the host it was rendered from.  companions carry the host's owner label.
\* wedged: the charts, None for the host manager's, whose release is pending
\* because the controller died in the middle of its install or upgrade.
Releases == [gen: 0..MaxGeneration, spec: Specs \cup {None},
             companions: SUBSET Companions,
             wedged: SUBSET (Companions \cup {None})]

NoReleases == [gen |-> 0, spec |-> None, companions |-> {}, wedged |-> {}]

TypeOK ==
  /\ server \in [Hosts -> Object]
  /\ cache \in [Hosts -> Object]
  /\ current \in [Hosts -> SUBSET {"cache", "worker"}]
  /\ queued \in [Hosts -> BOOLEAN]
  /\ worker \in [Hosts -> Worker]
  /\ op \in [Ops -> Operation]
  /\ active \in [Hosts -> Ops \cup {None}]
  /\ slots \in Nat
  /\ rel \in [Hosts -> Releases]
  /\ raced \in [Hosts -> BOOLEAN]
  /\ faults \in Nat /\ crashes \in Nat
  /\ faults + crashes <= MaxTroubles

Init ==
  /\ server = [h \in Hosts |-> NewHost]
  /\ cache = [h \in Hosts |-> NewHost]
  /\ current = [h \in Hosts |-> {"cache"}]
  /\ queued = [h \in Hosts |-> TRUE]
  /\ worker = [h \in Hosts |-> IdleWorker]
  /\ op = [i \in Ops |-> IdleOp]
  /\ active = [h \in Hosts |-> None]
  /\ slots = 0
  /\ rel = [h \in Hosts |-> NoReleases]
  /\ raced = [h \in Hosts |-> FALSE]
  /\ faults = 0
  /\ crashes = 0

-----------------------------------------------------------------------------
(* The API server: optimistic locking and merge patches *)

\* A write that changes the object gives it a new resourceVersion, which no
\* copy has yet.
Store(h, obj) ==
  /\ server' = [server EXCEPT ![h] = obj]
  /\ current' = IF obj = server[h] THEN current
                ELSE [current EXCEPT ![h] = {}]

\* What a merge patch from base to desired makes of the stored attributes:
\* only the keys that differ between the two are written.
MergePatch(stored, base, desired) ==
  [status  |-> IF desired.status = base.status THEN stored.status
               ELSE desired.status,
   hash    |-> IF desired.hash = base.hash THEN stored.hash ELSE desired.hash,
   failure |-> IF desired.failure = base.failure THEN stored.failure
               ELSE desired.failure]

\* Patching an object that is gone changes nothing (NotFound).
PatchStatus(h, base, desired) ==
  IF server[h].exists
  THEN Store(h, [server[h] EXCEPT !.attrs = MergePatch(@, base, desired)])
  ELSE UNCHANGED <<server, current>>

\* Something may still go wrong, within the bound.
TroubleLeft == faults + crashes < MaxTroubles

\* A call that fails.
Fault == TroubleLeft /\ faults' = faults + 1

NoFault == UNCHANGED faults

-----------------------------------------------------------------------------
(* The environment *)

\* A user replaces the spec.
EditSpec(h) ==
  /\ server[h].exists
  /\ server[h].gen < MaxGeneration
  /\ \E s \in Edits[server[h].spec] :
       Store(h, [server[h] EXCEPT !.spec = s, !.gen = @ + 1])
  /\ UNCHANGED <<cache, queued, memory, rel, aux>>

\* A user deletes the host: immediate without a finalizer, else it terminates,
\* which is a new generation.
DeleteHost(h) ==
  /\ h \in Deletable
  /\ server[h].exists /\ ~server[h].deleting
  /\ server[h].gen < MaxGeneration
  /\ Store(h, IF server[h].finalizer
              THEN [server[h] EXCEPT !.deleting = TRUE, !.gen = @ + 1]
              ELSE [server[h] EXCEPT !.exists = FALSE])
  /\ UNCHANGED <<cache, queued, memory, rel, aux>>

\* The informer catches up and its event enqueues the key.
SyncCache(h) ==
  /\ "cache" \notin current[h]
  /\ cache' = [cache EXCEPT ![h] = server[h]]
  /\ current' = [current EXCEPT ![h] = @ \cup {"cache"}]
  /\ queued' = [queued EXCEPT ![h] = TRUE]
  /\ UNCHANGED <<server, memory, rel, aux>>

\* The charts goroutine i may be installing; a pending one is refused at once.
InFlight(i) ==
  {c \in Companions \cup {None} :
     /\ \/ op[i].step = "host" /\ c = None
        \/ op[i].step = "companions" /\ c \in op[i].todo
     /\ c \notin rel[op[i].host].wedged}

\* The releases of h after each goroutine i was cut off in its call for chart[i]:
\* the new revision is stored and pending.
CutOff(h, chart) ==
  LET At(c) == {i \in DOMAIN chart : op[i].host = h /\ chart[i] = c}
      one == CHOOSE i \in At(None) : TRUE
      cut == {c \in Companions \cup {None} : At(c) # {}}
  IN [gen |-> IF None \in cut THEN op[one].gen ELSE rel[h].gen,
      spec |-> IF None \in cut THEN op[one].spec ELSE rel[h].spec,
      companions |-> rel[h].companions \cup (cut \ {None}),
      wedged |-> rel[h].wedged \cup cut]

\* The controller dies and starts again: its memory is lost, the informer
\* lists afresh and every host is enqueued.
Restart ==
  /\ TroubleLeft
  /\ crashes' = crashes + 1
  /\ worker' = [h \in Hosts |-> IdleWorker]
  /\ op' = [i \in Ops |-> IdleOp]
  /\ active' = [h \in Hosts |-> None]
  /\ slots' = 0
  /\ cache' = server
  /\ current' = [h \in Hosts |-> {"cache"}]
  /\ queued' = [h \in Hosts |-> server[h].exists]
  /\ \E busy \in SUBSET {i \in Ops : InFlight(i) # {}} :
       \E chart \in [busy -> Companions \cup {None}] :
         /\ \A i \in busy : chart[i] \in InFlight(i)
         /\ rel' = [h \in Hosts |-> CutOff(h, chart)]
  /\ UNCHANGED <<server, raced, faults>>

-----------------------------------------------------------------------------
(* activeHelmOperations *)

isHelmOperationActive(h, hash) ==
  active[h] # None /\ op[active[h]].hash = hash

\* Variant: the entry is forgotten whatever its hash.
clearWhateverHash(h, hash) == [active EXCEPT ![h] = None]

\* Forgets the host's entry when it carries this hash.
clearHelmOperationActive(h, hash) ==
  [active EXCEPT ![h] = IF isHelmOperationActive(h, hash) THEN None ELSE @]

\* The goroutines after the registered one of the host is cancelled.
Cancelled(h) ==
  IF active[h] = None THEN op
  ELSE [op EXCEPT ![active[h]].cancelled = TRUE]

-----------------------------------------------------------------------------
(* The reconcile worker *)

\* The worker moves to the deferred status patch, to requeue or not after it.
GoDefer(h, requeue) ==
  worker' = [worker EXCEPT ![h].step = "defer", ![h].requeue = requeue,
                           ![h].todo = {}, ![h].failed = FALSE]

\* The rest of Reconcile after the Helm part.  A pass in progress or failed is
\* looked at again; otherwise waits says that the internal host failed to be
\* written or that a later rung of the readiness ladder asks for another call.
AfterHelm(h) ==
  \E waits \in BOOLEAN :
    GoDefer(h, worker[h].attrs.status \in {"in_progress", "failed"} \/ waits)

\* Reconcile reads the host; one that is gone is ignored.  A live host without
\* the finalizer gets it, by an Update that conflicts when the copy is stale.
GetHost(h) ==
  /\ worker[h].step = "idle" /\ queued[h]
  /\ queued' = [queued EXCEPT ![h] = FALSE]
  /\ LET host == cache[h]
         Enter(step, requeue) ==
           worker' = [worker EXCEPT ![h] =
             [IdleWorker EXCEPT !.step = step, !.spec = host.spec,
                                !.attrs = host.attrs, !.requeue = requeue]]
         Read == current' = [current EXCEPT ![h] =
                   IF "cache" \in @ THEN @ \cup {"worker"} ELSE @ \ {"worker"}]
     IN \/ /\ ~host.exists
           /\ UNCHANGED <<server, current, worker>>
        \/ /\ host.exists /\ ~host.deleting /\ ~host.finalizer
           /\ Enter("defer", TRUE)
           /\ IF "cache" \in current[h]
              THEN Store(h, [server[h] EXCEPT !.finalizer = TRUE])
              ELSE UNCHANGED <<server, current>>
        \/ /\ host.exists /\ ~host.deleting /\ host.finalizer
           /\ Enter("helm", FALSE) /\ Read /\ UNCHANGED server
        \/ /\ host.exists /\ host.deleting /\ host.finalizer
           /\ Enter("teardown", FALSE) /\ Read /\ UNCHANGED server
        \/ /\ host.exists /\ host.deleting /\ ~host.finalizer
           /\ Enter("defer", FALSE) /\ UNCHANGED <<server, current>>
  /\ UNCHANGED <<cache, op, active, slots, rel, aux>>

\* References or extensions do not resolve or an API call failed, the last of
\* them the Get of reconcileHelmReleases: Reconcile returns before the Helm part
\* and is tried again.
ReturnEarly(h) ==
  /\ worker[h].step = "helm"
  /\ Fault
  /\ GoDefer(h, TRUE)
  /\ UNCHANGED <<api, queued, op, active, slots, rel, raced, crashes>>


\* reconcileHelmReleases: nothing to do.  status and hash come from the host
\* read now, the current hash from the spec read when Reconcile began.
InProgressHere(h) ==
  /\ cache[h].attrs.status = "in_progress"
  /\ isHelmOperationActive(h, worker[h].spec)


AlreadyCompleted(h) ==
  /\ cache[h].attrs.status = "completed"
  /\ cache[h].attrs.hash = worker[h].spec

\* A failure of this same hash whose last-attempt stamp may still be recent.
MayBackOff(h) ==
  /\ cache[h].attrs.status = "failed"
  /\ cache[h].attrs.hash = worker[h].spec
  /\ cache[h].attrs.failure

SkipHelm(h) ==
  /\ worker[h].step = "helm"
  /\ InProgressHere(h) \/ AlreadyCompleted(h) \/ MayBackOff(h)
  /\ AfterHelm(h)
  /\ UNCHANGED <<api, queued, op, active, slots, rel, aux>>

\* reconcileHelmReleases: a pass is due.  The in-memory status turns to
\* in_progress and is patched onto the server before anything is registered.
\* The host is there: it has the finalizer, which only this worker drops.
\* The answer is decoded into the same map, so the worker goes on with the
\* attributes the server now has.
StartHelm(h) ==
  /\ worker[h].step = "helm"
  /\ ~InProgressHere(h) /\ ~AlreadyCompleted(h)
  /\ LET mine == [status |-> "in_progress", hash |-> worker[h].spec,
                  failure |-> FALSE]
         To(step, attrs, requeue) ==
           worker' = [worker EXCEPT ![h].step = step, ![h].attrs = attrs,
                                    ![h].requeue = requeue]
     IN \/ /\ PatchStatus(h, cache[h].attrs, mine)
           /\ To("launch",
                 MergePatch(server[h].attrs, cache[h].attrs, mine), FALSE)
           /\ NoFault
        \/ /\ Fault
           /\ To("defer", mine, TRUE)
           /\ UNCHANGED <<server, current>>
  /\ UNCHANGED <<cache, queued, op, active, slots, rel, raced, crashes>>

\* trySetHelmOperationActive and the go statement.  A registered goroutine of
\* the same hash wins; one of another hash is cancelled and replaced.
trySetHelmOperationActive(h) ==
  /\ worker[h].step = "launch"
  /\ IF isHelmOperationActive(h, worker[h].spec)
     THEN UNCHANGED <<op, active>>
     ELSE \E i \in {j \in Ops : op[j].step = "idle"} :
            /\ op' = [Cancelled(h) EXCEPT ![i] =
                 [IdleOp EXCEPT !.step = "start", !.host = h,
                                !.hash = worker[h].spec]]
            /\ active' = [active EXCEPT ![h] = i]
  /\ AfterHelm(h)
  /\ UNCHANGED <<api, queued, slots, rel, aux>>

\* The attributes Reconcile's deferred function writes: the helm.release.* keys
\* of the host as cached now, and the worker's own where the cache has none.
Preserved(h) ==
  LET latest == cache[h].attrs
      mine   == worker[h].attrs
  IN [status  |-> IF latest.status = "absent" THEN mine.status
                  ELSE latest.status,
      hash    |-> IF latest.hash = None THEN mine.hash ELSE latest.hash,
      failure |-> latest.failure \/ mine.failure]

\* The deferred status patch ends the Reconcile call.
DeferredPatch(h) ==
  /\ worker[h].step = "defer"
  /\ worker' = [worker EXCEPT ![h] = IdleWorker]
  /\ \/ /\ IF cache[h].exists
           THEN PatchStatus(h, cache[h].attrs, Preserved(h))
           ELSE UNCHANGED <<server, current>>
        /\ queued' = [queued EXCEPT ![h] = @ \/ worker[h].requeue]
        /\ NoFault
     \/ /\ cache[h].exists /\ server[h].exists
        /\ Fault
        /\ queued' = [queued EXCEPT ![h] = TRUE]
        /\ UNCHANGED <<server, current>>
  /\ UNCHANGED <<cache, op, active, slots, rel, raced, crashes>>

-----------------------------------------------------------------------------
(* Teardown of a terminating host *)

\* The internal host, utility pages or translations of the host are still
\* there, or could not be listed or deleted: come back later.
AwaitChildren(h) ==
  /\ worker[h].step = "teardown"
  /\ Fault
  /\ GoDefer(h, TRUE)
  /\ UNCHANGED <<api, queued, op, active, slots, rel, raced, crashes>>

\* A goroutine past its re-read, with a chart of the host still to install.
Installing(i, h) ==
  /\ op[i].host = h
  /\ \/ op[i].step = "host"
     \/ op[i].step = "companions" /\ op[i].todo # {}

\* Variant: the goroutine is cancelled but its entry stays.
CancelKeepsEntry(h) ==
  /\ worker[h].step = "teardown"
  /\ op' = Cancelled(h)
  /\ worker' = [worker EXCEPT ![h].step = "uninstall_host"]
  /\ raced' = [raced EXCEPT ![h] = \E i \in Ops : Installing(i, h)]
  /\ UNCHANGED <<api, queued, active, slots, rel, faults, crashes>>

\* cancelHelmOperation: the registered goroutine is forgotten and cancelled.
cancelHelmOperation(h) ==
  /\ worker[h].step = "teardown"
  /\ op' = Cancelled(h)
  /\ active' = [active EXCEPT ![h] = None]
  /\ worker' = [worker EXCEPT ![h].step = "uninstall_host"]
  /\ raced' = [raced EXCEPT ![h] = \E i \in Ops : Installing(i, h)]
  /\ UNCHANGED <<api, queued, slots, rel, faults, crashes>>

\* Uninstall does not ignore what is not there: without a record of the release
\* it fails ("release: not found"), and any call may fail.
UninstallFails(present) == Fault \/ (~present /\ NoFault)

\* A failed uninstall is remembered and the next one is still attempted.
UninstallHost(h) ==
  /\ worker[h].step = "uninstall_host"
  /\ \/ /\ rel[h].gen # 0 /\ NoFault
        /\ rel' = [rel EXCEPT ![h].gen = 0, ![h].spec = None,
                              ![h].wedged = @ \ {None}]
        /\ worker' = [worker EXCEPT ![h].step = "list_owned"]
     \/ /\ UninstallFails(rel[h].gen # 0)
        /\ worker' = [worker EXCEPT ![h].step = "list_owned",
                                    ![h].failed = TRUE]
        /\ UNCHANGED rel
  /\ UNCHANGED <<api, queued, op, active, slots, raced, crashes>>

\* uninstallCompanionCharts: the owned and the declared companions.
TeardownTargets(h) == rel[h].companions \cup Declares[worker[h].spec]

ListOwned(h) ==
  /\ worker[h].step = "list_owned"
  /\ \/ /\ NoFault
        /\ worker' = [worker EXCEPT ![h].step = "uninstall_companions",
                                    ![h].todo = TeardownTargets(h)]
     \/ /\ Fault
        /\ worker' = [worker EXCEPT ![h].step = "uninstall_companions",
                                    ![h].failed = TRUE]
  /\ UNCHANGED <<api, queued, op, active, slots, rel, raced, crashes>>

UninstallCompanion(h) ==
  /\ worker[h].step = "uninstall_companions"
  /\ \E c \in worker[h].todo :
       \/ /\ c \in rel[h].companions /\ NoFault
          /\ rel' = [rel EXCEPT ![h].companions = @ \ {c},
                                ![h].wedged = @ \ {c}]
          /\ worker' = [worker EXCEPT ![h].todo = @ \ {c}]
       \/ /\ UninstallFails(c \in rel[h].companions)
          /\ worker' = [worker EXCEPT ![h].todo = @ \ {c},
                                      ![h].failed = TRUE]
          /\ UNCHANGED rel
  /\ UNCHANGED <<api, queued, op, active, slots, raced, crashes>>

\* Variant: a teardown that could not finish is not tried again.
FinishTeardownOnce(h) ==
  /\ worker[h].step = "uninstall_companions"
  /\ worker[h].todo = {}
  /\ IF ~worker[h].failed /\ "worker" \in current[h]
     THEN Store(h, [server[h] EXCEPT !.exists = FALSE, !.finalizer = FALSE])
     ELSE UNCHANGED <<server, current>>
  /\ GoDefer(h, FALSE)
  /\ UNCHANGED <<cache, queued, op, active, slots, rel, aux>>

\* Any failure keeps the finalizer.  Otherwise the Update that removes it
\* deletes the object, or conflicts because the copy is stale.
FinishTeardown(h) ==
  /\ worker[h].step = "uninstall_companions"
  /\ worker[h].todo = {}
  /\ IF ~worker[h].failed /\ "worker" \in current[h]
     THEN /\ Store(h, [server[h] EXCEPT !.exists = FALSE,
                                        !.finalizer = FALSE])
          /\ GoDefer(h, FALSE)
     ELSE /\ GoDefer(h, TRUE)
          /\ UNCHANGED <<server, current>>
  /\ UNCHANGED <<cache, queued, op, active, slots, rel, aux>>

-----------------------------------------------------------------------------
(* runAsyncHelmReconcile *)

\* Goroutine i returns: its entry is cleared and the deferred release() gives
\* back the slot unless that was done already.
Return(i) ==
  /\ op' = [op EXCEPT ![i] = IdleOp]
  /\ active' = clearHelmOperationActive(op[i].host, op[i].hash)
  /\ slots' = IF op[i].slot THEN slots - 1 ELSE slots

\* Goroutine i goes on to updateHelmStatus with an error.
GiveUp(i) ==
  /\ op' = [op EXCEPT ![i].step = "report", ![i].failed = TRUE,
                      ![i].todo = {}]
  /\ UNCHANGED <<active, slots, rel>>

Fail(i) == Fault /\ GiveUp(i)

\* Helm neither installs nor upgrades a release that is pending.
Refused(i, c) ==
  /\ c \in rel[op[i].host].wedged
  /\ NoFault /\ GiveUp(i)

\* The first read of the host, silently given up when it fails; without a Helm
\* client factory the pass fails.
OpGet(i) ==
  /\ op[i].step = "start"
  /\ \/ /\ ~cache[op[i].host].exists
        /\ Return(i) /\ NoFault /\ UNCHANGED rel
     \/ Return(i) /\ Fault /\ UNCHANGED rel
     \/ /\ cache[op[i].host].exists
        /\ op' = [op EXCEPT ![i].step = "wait"]
        /\ NoFault /\ UNCHANGED <<active, slots, rel>>
     \/ /\ cache[op[i].host].exists
        /\ Fail(i)
  /\ UNCHANGED <<api, queued, worker, raced, crashes>>

\* Variant: one render too many.
SlotFreeOffByOne == RenderConcurrency <= 0 \/ slots <= RenderConcurrency

\* acquireHelmRenderSlot: a slot is taken, or there is no bound.
SlotFree == RenderConcurrency <= 0 \/ slots < RenderConcurrency

acquireHelmRenderSlot(i) ==
  /\ op[i].step = "wait"
  /\ SlotFree
  /\ op' = [op EXCEPT ![i].step = "reread", ![i].slot = RenderConcurrency > 0]
  /\ slots' = IF RenderConcurrency > 0 THEN slots + 1 ELSE slots
  /\ UNCHANGED <<api, queued, worker, active, rel, aux>>

\* acquireHelmRenderSlot: the context is done while waiting.
CancelledWaiting(i) ==
  /\ op[i].step = "wait"
  /\ op[i].cancelled
  /\ Return(i)
  /\ UNCHANGED <<api, queued, worker, rel, aux>>

\* Variant: a terminating host is rendered as long as it is still there.
AbandonedOnlyIfGone(h) == ~cache[h].exists

\* The re-read under the slot abandons a host that is gone or terminating, and
\* one that could not be read.
Abandoned(h) == ~cache[h].exists \/ cache[h].deleting

Reread(i) ==
  /\ op[i].step = "reread"
  /\ LET h == op[i].host
     IN \/ /\ Abandoned(h)
           /\ Return(i) /\ NoFault /\ UNCHANGED rel
        \/ Return(i) /\ Fault /\ UNCHANGED rel
        \/ /\ ~Abandoned(h)
           /\ op' = [op EXCEPT ![i].step = "host", ![i].gen = cache[h].gen,
                               ![i].spec = cache[h].spec]
           /\ NoFault /\ UNCHANGED <<active, slots, rel>>
        \/ /\ ~Abandoned(h)
           /\ Fail(i)
  /\ UNCHANGED <<api, queued, worker, raced, crashes>>

reconcileHostManagerChart(i) ==
  /\ op[i].step = "host"
  /\ \/ /\ None \notin rel[op[i].host].wedged
        /\ rel' = [rel EXCEPT ![op[i].host].gen = op[i].gen,
                              ![op[i].host].spec = op[i].spec]
        /\ op' = [op EXCEPT ![i].step = "companions",
                            ![i].todo = Declares[op[i].spec]]
        /\ NoFault /\ UNCHANGED <<active, slots>>
     \/ Refused(i, None)
     \/ Fail(i)
  /\ UNCHANGED <<api, queued, worker, raced, crashes>>

reconcileCompanionChart(i) ==
  /\ op[i].step = "companions"
  /\ \E c \in op[i].todo :
       \/ /\ c \notin rel[op[i].host].wedged
          /\ rel' = [rel EXCEPT ![op[i].host].companions = @ \cup {c}]
          /\ op' = [op EXCEPT ![i].todo = @ \ {c}]
          /\ NoFault /\ UNCHANGED <<active, slots>>
       \/ Refused(i, c)
       \/ Fail(i)
  /\ UNCHANGED <<api, queued, worker, raced, crashes>>

\* Variant: the early release() is not remembered, the deferred one drains again.
ReleaseSlotTwice(i) ==
  /\ op[i].step = "companions" /\ op[i].todo = {}
  /\ op' = [op EXCEPT ![i].step = "list_owned"]
  /\ slots' = IF op[i].slot THEN slots - 1 ELSE slots
  /\ UNCHANGED <<api, queued, worker, active, rel, aux>>

\* Every chart is loaded: release() before the prune, once only.
ReleaseSlot(i) ==
  /\ op[i].step = "companions" /\ op[i].todo = {}
  /\ op' = [op EXCEPT ![i].step = "list_owned", ![i].slot = FALSE]
  /\ slots' = IF op[i].slot THEN slots - 1 ELSE slots
  /\ UNCHANGED <<api, queued, worker, active, rel, aux>>

\* pruneCompanionCharts: the owned releases the spec as re-read does not declare.
ListUndeclared(i) ==
  /\ op[i].step = "list_owned"
  /\ \/ /\ op' = [op EXCEPT ![i].step = "prune",
             ![i].todo = rel[op[i].host].companions \ Declares[op[i].spec]]
        /\ NoFault /\ UNCHANGED <<active, slots, rel>>
     \/ Fail(i)
  /\ UNCHANGED <<api, queued, worker, raced, crashes>>

pruneCompanionCharts(i) ==
  /\ op[i].step = "prune"
  /\ \/ \E c \in op[i].todo \cap rel[op[i].host].companions :
          /\ rel' = [rel EXCEPT ![op[i].host].companions = @ \ {c},
                                ![op[i].host].wedged = @ \ {c}]
          /\ op' = [op EXCEPT ![i].todo = @ \ {c}]
          /\ NoFault /\ UNCHANGED <<active, slots>>
     \/ \E c \in op[i].todo :
          UninstallFails(c \in rel[op[i].host].companions) /\ GiveUp(i)
     \/ /\ op[i].todo = {}
        /\ op' = [op EXCEPT ![i].step = "report"]
        /\ NoFault /\ UNCHANGED <<active, slots, rel>>
  /\ UNCHANGED <<api, queued, worker, raced, crashes>>

\* The attributes updateHelmStatus leaves on the host it read.
Outcome(i) ==
  [status  |-> IF op[i].failed THEN "failed" ELSE "completed",
   hash    |-> op[i].hash,
   failure |-> op[i].failed]

\* updateHelmStatus.  A failure's timestamp is new, so its keys are always part
\* of the patch; a cancelled context or a failed call loses the report, which
\* is only logged.
updateHelmStatus(i) ==
  /\ op[i].step = "report"
  /\ Return(i)
  /\ LET h    == op[i].host
         base == [cache[h].attrs EXCEPT
                    !.failure = @ /\ ~op[i].failed]
     IN \/ /\ cache[h].exists /\ ~op[i].cancelled
           /\ PatchStatus(h, base, Outcome(i))
           /\ NoFault
        \/ /\ cache[h].exists /\ ~op[i].cancelled
           /\ Fault /\ UNCHANGED <<server, current>>
        \/ /\ ~cache[h].exists \/ op[i].cancelled
           /\ NoFault /\ UNCHANGED <<server, current>>
  /\ UNCHANGED <<cache, queued, worker, rel, raced, crashes>>

-----------------------------------------------------------------------------
(* The specification *)

Reconcile(h) ==
  \/ GetHost(h)            \/ ReturnEarly(h)      \/ SkipHelm(h)
  \/ StartHelm(h)
  \/ trySetHelmOperationActive(h)                \/ AwaitChildren(h)
  \/ cancelHelmOperation(h) \/ UninstallHost(h)   \/ ListOwned(h)
  \/ UninstallCompanion(h) \/ FinishTeardown(h)   \/ DeferredPatch(h)

runAsyncHelmReconcile(i) ==
  \/ OpGet(i)              \/ acquireHelmRenderSlot(i)
  \/ CancelledWaiting(i)   \/ Reread(i)
  \/ reconcileHostManagerChart(i)
  \/ reconcileCompanionChart(i)
  \/ ReleaseSlot(i)        \/ ListUndeclared(i)
  \/ pruneCompanionCharts(i)
  \/ updateHelmStatus(i)

Environment(h) == EditSpec(h) \/ DeleteHost(h) \/ SyncCache(h)

Next ==
  \/ \E h \in Hosts : Environment(h) \/ Reconcile(h)
  \/ \E i \in Ops : runAsyncHelmReconcile(i)
  \/ Restart

Spec == Init /\ [][Next]_vars

\* The informer delivers, the workqueue runs what is queued and goroutines are
\* scheduled.  A pass in backoff is due again once RequeueDelay has gone by
\* (SF on StartHelm), and channel senders are served in order (SF on the slot).
Fairness ==
  /\ \A h \in Hosts : /\ WF_vars(SyncCache(h))
                      /\ WF_vars(Reconcile(h))
                      /\ SF_vars(StartHelm(h))
  /\ \A i \in Ops : /\ WF_vars(runAsyncHelmReconcile(i))
                    /\ SF_vars(acquireHelmRenderSlot(i))

FairSpec == Spec /\ Fairness

-----------------------------------------------------------------------------
(* Properties *)

\* Memory bound (issue #24): at most RenderConcurrency goroutines load and
\* render charts at once, whatever the fleet, the cancellations and the early
\* releases.
RenderBound ==
  RenderConcurrency > 0 =>
    Cardinality({i \in Ops : op[i].step \in {"host", "companions"}})
      <= RenderConcurrency

\* activeHelmOperations never holds an entry whose goroutine has returned or
\* was cancelled: such an entry would make every later reconcile of that hash
\* wait for work nobody does.
RegisteredIsRunning ==
  \A h \in Hosts : active[h] # None =>
    /\ op[active[h]].step # "idle"
    /\ op[active[h]].host = h
    /\ ~op[active[h]].cancelled

\* The users never go back to a spec a host had before.
EditsNeverReturn ==
  \E rank \in [Specs -> 0..Cardinality(Specs)] :
    \A s \in Specs : \A t \in Edits[s] : rank[s] < rank[t]

\* While no edit returns to an earlier spec, a goroutine that was not cancelled is
\* the one activeHelmOperations knows of: the end of a superseded one does not
\* clear its successor's entry, so teardown and the next edit can cancel it and
\* no reconcile starts a second one beside it.
RunningIsRegistered ==
  EditsNeverReturn =>
    \A i \in Ops : op[i].step # "idle" /\ ~op[i].cancelled
                   => active[op[i].host] = i

\* Once the finalizer is gone no release survives, unless a goroutine was
\* already past its re-read, with a chart still to install, when the last
\* teardown began.  A render still queued for a slot never re-installs.
OrphanOnlyIfRaced ==
  \A h \in Hosts :
    ~server[h].exists /\ ~raced[h] => rel[h] = NoReleases

\* No release outlives its host: the promise of the teardown path.
NoOrphans ==
  \A h \in Hosts : ~server[h].exists => rel[h] = NoReleases

\* With one render slot the host chart is never re-rendered from an older
\* generation than the one it already runs: a superseded goroutine that still
\* renders does so from the host as re-read under the slot.
HostChartNeverRegresses ==
  [][RenderConcurrency = 1 =>
       \A h \in Hosts : rel'[h].gen # 0 => rel'[h].gen >= rel[h].gen]_vars

\* Once edits, failures and restarts stop, every host is recorded as completed
\* for its current spec, or deleted: no pass is lost, stuck in progress or
\* abandoned after a failure.  The exception is a restart in the middle of a Helm
\* call, whose release is pending ever after (the comment in cmd/main.go).
Settled(h) ==
  \/ ~server[h].exists \/ server[h].deleting
  \/ /\ server[h].attrs.status = "completed"
     /\ server[h].attrs.hash = server[h].spec


\* Unless a call fails or the controller restarts, the last edit of the spec
\* reaches the cluster: the hash reports no change only when the host chart is
\* rendered from the spec the host has.
EventuallyApplied ==
  \A h \in Hosts :
    <>[](\/ ~server[h].exists \/ server[h].deleting
         \/ rel[h].spec = server[h].spec
         \/ faults > 0 \/ crashes > 0)


\* Unless a call fails or the controller restarts, a host ends up with the
\* companions its spec declares: the prune runs after the installs, so a rename
\* never leaves it with neither the old nor the new one.
CompanionsApplied ==
  \A h \in Hosts :
    <>[](\/ ~server[h].exists \/ rel[h].companions = Declares[server[h].spec]
         \/ faults > 0 \/ crashes > 0)

\* A host being deleted goes away: conflicts, failed uninstalls and restarts
\* only delay it, as an uninstall that is tried again does no harm.
DeletionCompletes ==
  \A h \in Hosts : server[h].deleting ~> ~server[h].exists

\* Whether or not it goes away, a host being deleted ends up without releases: an
\* uninstall that fails, because the release is not there or otherwise, keeps no
\* other release from being uninstalled, and a conflict or a restart only delays
\* them.  The exception is a goroutine that was installing when the last teardown
\* began.
DeletionClears ==
  \A h \in Hosts : server[h].deleting ~> [](rel[h] = NoReleases \/ raced[h])

-----------------------------------------------------------------------------
(* What all this promises *)

\* A host without its attributes.
Outline(o) == [exists |-> o.exists, deleting |-> o.deleting,
               finalizer |-> o.finalizer, gen |-> o.gen, spec |-> o.spec]

\* What a goroutine has taken, from its re-read to the end of its prune.
Taken(o) == o.step \in {"host", "companions", "list_owned", "prune"}

RenderOf(o) ==
  [host    |-> IF Taken(o) THEN o.host ELSE None,
   gen     |-> IF Taken(o) THEN o.gen ELSE 0,
   spec    |-> IF Taken(o) THEN o.spec ELSE None,
   charts  |-> IF o.step = "host" THEN {None}
               ELSE IF o.step = "companions" THEN o.todo ELSE {},
   pruning |-> o.step \in {"list_owned", "prune"}]

Installed(r) == [gen |-> r.gen, spec |-> r.spec, companions |-> r.companions]

outlines == [h \in Hosts |-> Outline(server[h])]
views    == [h \in Hosts |-> Outline(cache[h])]
renders  == [i \in Ops |-> RenderOf(op[i])]
releases == [h \in Hosts |-> Installed(rel[h])]

Promise == INSTANCE ReleasePromise WITH
  Renderers <- Ops, host <- outlines, view <- views, render <- renders,
  release <- releases

\* Whatever happens to statuses, hashes, caches, superseded goroutines, slots and
\* the controller itself, all that shows is renderers that each take the host as
\* last seen: what is installed is what one version of the host declared, nothing
\* is pruned before all of it is installed, and no release outlives its host
\* unless the teardown began in the middle of a render.
KeepsPromise == Promise!Spec

=============================================================================
