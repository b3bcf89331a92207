------------------------- MODULE HelmReleaseProofs -------------------------
(***************************************************************************)
(* Theorems about HelmRelease for every fleet, spec set, concurrency and   *)
(* bound, and their proofs.                                                *)
(***************************************************************************)
EXTENDS HelmRelease, FiniteSetTheorems, TLAPS

-----------------------------------------------------------------------------
(* The inductive invariant *)

\* A goroutine that has not returned belongs to a host, and past its re-read it
\* holds a spec.
OpShape ==
  \A i \in Ops :
    /\ op[i].step # "idle" => op[i].host \in Hosts /\ op[i].hash \in Specs
    /\ op[i].step \in {"host", "companions", "list_owned", "prune"}
         => op[i].spec \in Specs

\* A Reconcile call under way holds the spec it read.
WorkerShape ==
  \A h \in Hosts : worker[h].step # "idle" => worker[h].spec \in Specs

TypeInv ==
  /\ server \in [Hosts -> Object]
  /\ cache \in [Hosts -> Object]
  /\ current \in [Hosts -> SUBSET {"cache", "worker"}]
  /\ queued \in [Hosts -> BOOLEAN]
  /\ worker \in [Hosts -> Worker]
  /\ op \in [Ops -> Operation]
  /\ active \in [Hosts -> Ops \cup {None}]
  /\ slots \in Int
  /\ rel \in [Hosts -> Releases]
  /\ raced \in [Hosts -> BOOLEAN]
  /\ faults \in Nat /\ crashes \in Nat
  /\ faults + crashes <= MaxTroubles
  /\ OpShape
  /\ WorkerShape

USE ConstantsAssumption

\* The idle rows of workers, goroutines and releases are typed.
LEMMA IdleTyped ==
  /\ NewHost \in Object
  /\ IdleWorker \in Worker
  /\ IdleOp \in Operation
  /\ NoReleases \in Releases
BY DEF NewHost, Object, IdleWorker, Worker, WorkerSteps, IdleOp, Operation,
       OpSteps, NoReleases, Releases, NoAttributes, Attributes, Statuses

\* The controller starts typed.
LEMMA InitTypeInv == Init => TypeInv
BY IdleTyped DEF Init, TypeInv, OpShape, WorkerShape, IdleOp, IdleWorker

\* Releases with a chart no longer installed, nor pending, are typed.
LEMMA RemovedTyped ==
  ASSUME NEW r \in Releases, NEW c
  PROVE  /\ [r EXCEPT !.companions = @ \ {c}, !.wedged = @ \ {c}] \in Releases
         /\ [r EXCEPT !.gen = 0, !.spec = None, !.wedged = @ \ {c}] \in Releases
<1>1. /\ r.companions \ {c} \in SUBSET Companions
      /\ r.wedged \ {c} \in SUBSET (Companions \cup {None})
      /\ 0 \in 0..MaxGeneration /\ None \in Specs \cup {None}
  BY DEF Releases
<1> QED BY <1>1 DEF Releases

\* What TypeInv says of one host.
LEMMA RowsTyped ==
  ASSUME TypeInv, NEW h \in Hosts
  PROVE  /\ server[h] \in Object /\ cache[h] \in Object
         /\ worker[h] \in Worker /\ rel[h] \in Releases
BY DEF TypeInv

\* Replacing one worker row by a typed one.
LEMMA WorkerUpdate ==
  ASSUME TypeInv, NEW h \in Hosts, NEW w \in Worker,
         w.step # "idle" => w.spec \in Specs,
         worker' = [worker EXCEPT ![h] = w]
  PROVE  worker' \in [Hosts -> Worker] /\ WorkerShape'
BY DEF TypeInv, WorkerShape

\* Replacing one goroutine row by a typed one.
LEMMA OpUpdate ==
  ASSUME TypeInv, NEW i \in Ops, NEW o \in Operation,
         o.step # "idle" => o.host \in Hosts /\ o.hash \in Specs,
         o.step \in {"host", "companions", "list_owned", "prune"}
           => o.spec \in Specs,
         op' = [op EXCEPT ![i] = o]
  PROVE  op' \in [Ops -> Operation] /\ OpShape'
BY DEF TypeInv, OpShape

\* A merge patch of typed attributes is typed (client.MergeFrom).
LEMMA MergePatchTyped ==
  ASSUME NEW a \in Attributes, NEW b \in Attributes, NEW c \in Attributes
  PROVE  MergePatch(a, b, c) \in Attributes
BY DEF MergePatch, Attributes

\* A write of a typed object keeps the API server typed.
LEMMA StoreTyped ==
  ASSUME TypeInv, NEW h \in Hosts, NEW obj \in Object, Store(h, obj)
  PROVE  /\ server' \in [Hosts -> Object]
         /\ current' \in [Hosts -> SUBSET {"cache", "worker"}]
BY DEF TypeInv, Store

\* A status patch keeps the API server typed.
LEMMA PatchTyped ==
  ASSUME TypeInv, NEW h \in Hosts, NEW b \in Attributes, NEW d \in Attributes,
         PatchStatus(h, b, d)
  PROVE  /\ server' \in [Hosts -> Object]
         /\ current' \in [Hosts -> SUBSET {"cache", "worker"}]
<1>1. CASE ~server[h].exists
  BY <1>1 DEF PatchStatus, TypeInv
<1>2. CASE server[h].exists
  <2> DEFINE obj == [server[h] EXCEPT !.attrs = MergePatch(@, b, d)]
  <2>1. server[h] \in Object /\ server[h].attrs \in Attributes
    BY DEF TypeInv, Object
  <2>2. MergePatch(server[h].attrs, b, d) \in Attributes
    BY <2>1, MergePatchTyped
  <2>3. obj \in Object
    BY <2>1, <2>2 DEF Object
  <2>4. Store(h, obj)
    BY <1>2 DEF PatchStatus
  <2> QED BY <2>3, <2>4, StoreTyped
<1> QED BY <1>1, <1>2

-----------------------------------------------------------------------------
(* Every step keeps the types *)

\* Edits, deletions and informer events keep the types.
LEMMA EnvironmentTyped ==
  ASSUME TypeInv, NEW h \in Hosts, Environment(h)
  PROVE  TypeInv'
<1>1. CASE EditSpec(h)
  <2> PICK s \in Edits[server[h].spec] :
        Store(h, [server[h] EXCEPT !.spec = s, !.gen = @ + 1])
    BY <1>1 DEF EditSpec
  <2>0. s \in Specs /\ server[h].gen + 1 \in 1..MaxGeneration
    BY <1>1, RowsTyped DEF EditSpec, Object
  <2>1. [server[h] EXCEPT !.spec = s, !.gen = @ + 1] \in Object
    BY <2>0, RowsTyped DEF Object
  <2> QED BY <1>1, <2>1, StoreTyped
          DEF EditSpec, TypeInv, OpShape, WorkerShape, memory, aux
<1>2. CASE DeleteHost(h)
  <2> DEFINE obj == IF server[h].finalizer
                    THEN [server[h] EXCEPT !.deleting = TRUE, !.gen = @ + 1]
                    ELSE [server[h] EXCEPT !.exists = FALSE]
  <2>0. server[h].gen + 1 \in 1..MaxGeneration
    BY <1>2, RowsTyped DEF DeleteHost, Object
  <2>1. obj \in Object
    BY <2>0, RowsTyped DEF Object
  <2>2. Store(h, obj)
    BY <1>2 DEF DeleteHost
  <2> QED BY <1>2, <2>1, <2>2, StoreTyped
          DEF DeleteHost, TypeInv, OpShape, WorkerShape, memory, aux
<1>3. CASE SyncCache(h)
  BY <1>3 DEF SyncCache, TypeInv, OpShape, WorkerShape, memory, aux
<1> QED BY <1>1, <1>2, <1>3 DEF Environment

\* The goroutines a restart cuts off in a call are those the call was one of.
Cuts(busy, chart) ==
  /\ busy \in SUBSET {i \in Ops : InFlight(i) # {}}
  /\ chart \in [busy -> Companions \cup {None}]
  /\ \A i \in busy : chart[i] \in InFlight(i)

\* A restart leaves typed releases behind.
LEMMA CutOffTyped ==
  ASSUME TypeInv, NEW h \in Hosts, NEW busy, NEW chart, Cuts(busy, chart)
  PROVE  CutOff(h, chart) \in Releases
<1> DEFINE At(c) == {i \in DOMAIN chart : op[i].host = h /\ chart[i] = c}
           one == CHOOSE i \in At(None) : TRUE
           cut == {c \in Companions \cup {None} : At(c) # {}}
<1>1. rel[h] \in Releases
  BY RowsTyped
<1>2. At(None) # {} => op[one] \in Operation
  BY DEF Cuts, TypeInv
<1>3. None \in cut => op[one] \in Operation
  BY <1>2
<1>4. /\ cut \in SUBSET (Companions \cup {None})
      /\ cut \ {None} \in SUBSET Companions
  OBVIOUS
<1>5. CutOff(h, chart) =
        [gen |-> IF None \in cut THEN op[one].gen ELSE rel[h].gen,
         spec |-> IF None \in cut THEN op[one].spec ELSE rel[h].spec,
         companions |-> rel[h].companions \cup (cut \ {None}),
         wedged |-> rel[h].wedged \cup cut]
  BY DEF CutOff
<1> HIDE DEF cut, one
<1> QED BY <1>1, <1>3, <1>4, <1>5 DEF Releases, Operation

LEMMA RestartCuts ==
  ASSUME Restart
  PROVE  \E busy, chart : /\ Cuts(busy, chart)
                          /\ rel' = [h \in Hosts |-> CutOff(h, chart)]
<1>1. PICK busy \in SUBSET {i \in Ops : InFlight(i) # {}} :
        \E chart \in [busy -> Companions \cup {None}] :
          /\ \A i \in busy : chart[i] \in InFlight(i)
          /\ rel' = [h \in Hosts |-> CutOff(h, chart)]
  BY Zenon DEF Restart
<1>2. PICK chart \in [busy -> Companions \cup {None}] :
        /\ \A i \in busy : chart[i] \in InFlight(i)
        /\ rel' = [h \in Hosts |-> CutOff(h, chart)]
  BY <1>1, Zenon
<1>3. Cuts(busy, chart)
  BY <1>2, Zenon DEF Cuts
<1> QED BY <1>2, <1>3

\* A restart of the controller keeps the types.
LEMMA RestartTyped ==
  ASSUME TypeInv, Restart
  PROVE  TypeInv'
<1>1. /\ worker' \in [Hosts -> Worker] /\ WorkerShape'
      /\ op' \in [Ops -> Operation] /\ OpShape'
  BY IdleTyped DEF Restart, OpShape, WorkerShape, IdleOp, IdleWorker
<1>2. /\ queued' \in [Hosts -> BOOLEAN]
      /\ cache' \in [Hosts -> Object]
  BY DEF Restart, TypeInv, Object
<1>3. rel' \in [Hosts -> Releases]
  BY RestartCuts, CutOffTyped
<1>4. /\ faults' \in Nat /\ crashes' \in Nat
      /\ faults' + crashes' <= MaxTroubles
  BY DEF Restart, TypeInv, TroubleLeft
<1> QED BY <1>1, <1>2, <1>3, <1>4 DEF Restart, TypeInv

\* Reconcile's first read and the finalizer update keep the types.
LEMMA GetHostTyped ==
  ASSUME TypeInv, NEW h \in Hosts, GetHost(h)
  PROVE  TypeInv'
<1>1. queued' \in [Hosts -> BOOLEAN]
  BY DEF GetHost, TypeInv
<1>2. cache[h].spec \in Specs /\ cache[h].attrs \in Attributes
  BY DEF TypeInv, Object
<1>3. /\ worker' \in [Hosts -> Worker]
      /\ WorkerShape'
  <2> DEFINE Entered(step, requeue) ==
        [IdleWorker EXCEPT !.step = step, !.spec = cache[h].spec,
                           !.attrs = cache[h].attrs, !.requeue = requeue]
  <2>1. \A step \in WorkerSteps, requeue \in BOOLEAN :
          Entered(step, requeue) \in Worker
    BY <1>2, IdleTyped DEF Worker
  <2>2. \A step \in WorkerSteps, requeue \in BOOLEAN :
          Entered(step, requeue).spec \in Specs
    BY <1>2 DEF IdleWorker
  <2>3. CASE worker' = worker
    BY <2>3 DEF TypeInv, WorkerShape
  <2>4. CASE \E step \in WorkerSteps, requeue \in BOOLEAN :
               worker' = [worker EXCEPT ![h] = Entered(step, requeue)]
    BY <2>1, <2>2, <2>4, WorkerUpdate
  <2> QED BY <2>3, <2>4 DEF GetHost, WorkerSteps
<1>4. /\ server' \in [Hosts -> Object]
      /\ current' \in [Hosts -> SUBSET {"cache", "worker"}]
  <2>1. [server[h] EXCEPT !.finalizer = TRUE] \in Object
    BY RowsTyped DEF Object
  <2> QED BY <2>1, StoreTyped DEF GetHost, TypeInv
<1> QED BY <1>1, <1>3, <1>4 DEF GetHost, TypeInv, OpShape, aux

\* Heading for the deferred patch leaves a typed worker.
LEMMA GoDeferTyped ==
  ASSUME TypeInv, NEW h \in Hosts, NEW r \in BOOLEAN, GoDefer(h, r),
         worker[h].step # "idle"
  PROVE  worker' \in [Hosts -> Worker] /\ WorkerShape'
<1> DEFINE w == [worker[h] EXCEPT !.step = "defer", !.requeue = r,
                                  !.todo = {}, !.failed = FALSE]
<1>1. w \in Worker
  BY RowsTyped DEF Worker, WorkerSteps
<1>2. w.spec \in Specs
  BY RowsTyped DEF TypeInv, WorkerShape, Worker
<1>3. worker' = [worker EXCEPT ![h] = w]
  BY DEF GoDefer
<1> QED BY <1>1, <1>2, <1>3, WorkerUpdate

\* The failure counter stays within its bound.
LEMMA FaultTyped ==
  ASSUME TypeInv, Fault \/ NoFault
  PROVE  faults' \in Nat /\ faults' + crashes <= MaxTroubles
<1>1. /\ faults \in Nat /\ crashes \in Nat /\ MaxTroubles \in Nat
      /\ faults + crashes <= MaxTroubles
  BY DEF TypeInv
<1> QED BY <1>1 DEF Fault, NoFault, TroubleLeft

\* The rest of Reconcile leaves a typed worker.
LEMMA AfterHelmTyped ==
  ASSUME TypeInv, NEW h \in Hosts, AfterHelm(h),
         worker[h].step \in {"helm", "launch"}
  PROVE  worker' \in [Hosts -> Worker] /\ WorkerShape'
<1>1. PICK r \in BOOLEAN :
        GoDefer(h, worker[h].attrs.status \in {"in_progress", "failed"} \/ r)
  BY DEF AfterHelm
<1>2. (worker[h].attrs.status \in {"in_progress", "failed"} \/ r) \in BOOLEAN
  OBVIOUS
<1> QED BY <1>1, <1>2, GoDeferTyped

\* The early returns of Reconcile keep the types.
LEMMA SkipTyped ==
  ASSUME TypeInv, NEW h \in Hosts,
         \/ ReturnEarly(h) \/ AwaitChildren(h)
         \/ SkipHelm(h)
  PROVE  TypeInv'
<1>1. CASE ReturnEarly(h) \/ AwaitChildren(h)
  <2>1. worker' \in [Hosts -> Worker] /\ WorkerShape'
    BY <1>1, GoDeferTyped DEF ReturnEarly, AwaitChildren
  <2>2. faults' \in Nat /\ faults' + crashes <= MaxTroubles
    BY <1>1, FaultTyped DEF ReturnEarly, AwaitChildren
  <2> QED BY <1>1, <2>1, <2>2
          DEF ReturnEarly, AwaitChildren, TypeInv, OpShape, api
<1>2. CASE SkipHelm(h)
  <2>1. worker' \in [Hosts -> Worker] /\ WorkerShape'
    BY <1>2, AfterHelmTyped DEF SkipHelm
  <2> QED BY <1>2, <2>1 DEF SkipHelm, TypeInv, OpShape, api, aux
<1> QED BY <1>1, <1>2

\* The in_progress patch of reconcileHelmReleases keeps the types.
LEMMA StartHelmTyped ==
  ASSUME TypeInv, NEW h \in Hosts, StartHelm(h)
  PROVE  TypeInv'
<1> DEFINE mine == [status |-> "in_progress", hash |-> worker[h].spec,
                    failure |-> FALSE]
           response == MergePatch(server[h].attrs, cache[h].attrs, mine)
           To(step, attrs, requeue) ==
             [worker[h] EXCEPT !.step = step, !.attrs = attrs,
                               !.requeue = requeue]
<1>1. worker[h].spec \in Specs
  BY DEF StartHelm, TypeInv, WorkerShape
<1>2. mine \in Attributes
  BY <1>1 DEF Attributes, Statuses
<1>7. response \in Attributes
  <2>1. server[h].attrs \in Attributes /\ cache[h].attrs \in Attributes
    BY RowsTyped DEF Object
  <2> QED BY <1>2, <2>1, MergePatchTyped
<1> HIDE DEF response
<1>3. \A step \in WorkerSteps, a \in Attributes, requeue \in BOOLEAN :
        /\ To(step, a, requeue) \in Worker
        /\ To(step, a, requeue).spec \in Specs
  BY <1>1, RowsTyped DEF Worker
<1>4. worker' \in [Hosts -> Worker] /\ WorkerShape'
  <2>1. CASE \E step \in WorkerSteps, a \in Attributes, requeue \in BOOLEAN :
               worker' = [worker EXCEPT ![h] = To(step, a, requeue)]
    BY <1>3, <2>1, WorkerUpdate
  <2>2. \/ worker' = [worker EXCEPT ![h] = To("launch", response, FALSE)]
        \/ worker' = [worker EXCEPT ![h] = To("defer", mine, TRUE)]
    BY DEF StartHelm, response
  <2> HIDE DEF To, mine
  <2> QED BY <1>2, <1>7, <2>1, <2>2 DEF WorkerSteps
<1>5. /\ server' \in [Hosts -> Object]
      /\ current' \in [Hosts -> SUBSET {"cache", "worker"}]
  <2>1. cache[h].attrs \in Attributes
    BY RowsTyped DEF Object
  <2>2. CASE PatchStatus(h, cache[h].attrs, mine)
    BY <1>2, <2>1, <2>2, PatchTyped
  <2>3. CASE UNCHANGED <<server, current>>
    BY <2>3 DEF TypeInv
  <2> QED BY <2>2, <2>3 DEF StartHelm
<1>6. faults' \in Nat /\ faults' + crashes <= MaxTroubles
  BY FaultTyped DEF StartHelm
<1> QED BY <1>4, <1>5, <1>6 DEF StartHelm, TypeInv, OpShape

\* Cancelling touches nothing but the flag.
LEMMA CancelledTyped ==
  ASSUME TypeInv, NEW h \in Hosts
  PROVE  /\ Cancelled(h) \in [Ops -> Operation]
         /\ \A i \in Ops :
              /\ Cancelled(h)[i].cancelled =
                   (op[i].cancelled \/ (active[h] = i /\ active[h] # None))
              /\ Cancelled(h)[i].step = op[i].step
              /\ Cancelled(h)[i].host = op[i].host
              /\ Cancelled(h)[i].hash = op[i].hash
              /\ Cancelled(h)[i].slot = op[i].slot
              /\ Cancelled(h)[i].spec = op[i].spec
              /\ Cancelled(h)[i].todo = op[i].todo
              /\ Cancelled(h)[i].gen = op[i].gen
<1>0. op \in [Ops -> Operation] /\ \A i \in Ops : op[i].cancelled \in BOOLEAN
  BY DEF TypeInv, Operation
<1>1. CASE active[h] = None
  <2>1. Cancelled(h) = op
    BY <1>1 DEF Cancelled
  <2> QED BY <1>0, <1>1, <2>1
<1>2. CASE active[h] # None
  <2>1. active[h] \in Ops
    BY <1>2 DEF TypeInv
  <2> DEFINE o == [op[active[h]] EXCEPT !.cancelled = TRUE]
  <2>2. op[active[h]] \in Operation
    BY <2>1 DEF TypeInv
  <2>3. /\ o \in Operation /\ o.cancelled = TRUE
        /\ o.step = op[active[h]].step /\ o.host = op[active[h]].host
        /\ o.hash = op[active[h]].hash /\ o.slot = op[active[h]].slot
        /\ o.spec = op[active[h]].spec /\ o.todo = op[active[h]].todo
        /\ o.gen = op[active[h]].gen
    BY <2>2 DEF Operation
  <2>4. Cancelled(h) = [op EXCEPT ![active[h]] = o]
    BY <1>2 DEF Cancelled
  <2>5. \A i \in Ops : Cancelled(h)[i] = IF i = active[h] THEN o ELSE op[i]
    BY <1>0, <2>1, <2>4
  <2>6. Cancelled(h) \in [Ops -> Operation]
    BY <1>0, <2>1, <2>3, <2>4
  <2> HIDE DEF o
  <2> QED BY <1>0, <1>2, <2>3, <2>5, <2>6
<1> QED BY <1>1, <1>2

\* trySetHelmOperationActive and the go statement keep the types.
LEMMA LaunchTyped ==
  ASSUME TypeInv, NEW h \in Hosts, trySetHelmOperationActive(h)
  PROVE  TypeInv'
<1>1. worker' \in [Hosts -> Worker] /\ WorkerShape'
  BY AfterHelmTyped DEF trySetHelmOperationActive
<1>2. /\ op' \in [Ops -> Operation] /\ OpShape'
      /\ active' \in [Hosts -> Ops \cup {None}]
  <2>1. CASE UNCHANGED <<op, active>>
    BY <2>1 DEF TypeInv, OpShape
  <2>2. ASSUME NEW i \in Ops,
               op' = [Cancelled(h) EXCEPT ![i] =
                 [IdleOp EXCEPT !.step = "start", !.host = h,
                                !.hash = worker[h].spec]],
               active' = [active EXCEPT ![h] = i]
        PROVE  /\ op' \in [Ops -> Operation] /\ OpShape'
               /\ active' \in [Hosts -> Ops \cup {None}]
    <3> DEFINE o == [IdleOp EXCEPT !.step = "start", !.host = h,
                                   !.hash = worker[h].spec]
    <3>1. worker[h].spec \in Specs
      BY DEF trySetHelmOperationActive, TypeInv, WorkerShape
    <3>2. o \in Operation
      BY <3>1, IdleTyped DEF Operation, OpSteps
    <3>3. o.step = "start" /\ o.host = h /\ o.hash = worker[h].spec
      BY DEF IdleOp
    <3>4. op' = [Cancelled(h) EXCEPT ![i] = o]
      BY <2>2
    <3> HIDE DEF o
    <3>5. op' \in [Ops -> Operation]
      BY <3>2, <3>4, CancelledTyped
    <3>6. OpShape'
      <4>1. \A j \in Ops : op'[j] = IF j = i THEN o ELSE Cancelled(h)[j]
        BY <3>4, CancelledTyped
      <4>2. OpShape
        BY DEF TypeInv
      <4> QED BY <3>1, <3>3, <4>1, <4>2, CancelledTyped DEF OpShape
    <3>7. active' \in [Hosts -> Ops \cup {None}]
      BY <2>2 DEF TypeInv
    <3> QED BY <3>5, <3>6, <3>7
  <2> QED BY <2>1, <2>2 DEF trySetHelmOperationActive
<1> QED BY <1>1, <1>2 DEF trySetHelmOperationActive, TypeInv, api, aux

\* The deferred status patch keeps the types.
LEMMA DeferredPatchTyped ==
  ASSUME TypeInv, NEW h \in Hosts, DeferredPatch(h)
  PROVE  TypeInv'
<1>1. worker' \in [Hosts -> Worker] /\ WorkerShape'
  BY WorkerUpdate, IdleTyped DEF DeferredPatch, IdleWorker
<1>2. cache[h].attrs \in Attributes /\ worker[h].attrs \in Attributes
  BY RowsTyped DEF Object, Worker
<1>3. Preserved(h) \in Attributes
  BY <1>2 DEF Preserved, Attributes
<1>4. /\ server' \in [Hosts -> Object]
      /\ current' \in [Hosts -> SUBSET {"cache", "worker"}]
  <2>1. CASE PatchStatus(h, cache[h].attrs, Preserved(h))
    BY <1>2, <1>3, <2>1, PatchTyped
  <2>2. CASE UNCHANGED <<server, current>>
    BY <2>2 DEF TypeInv
  <2> QED BY <2>1, <2>2 DEF DeferredPatch
<1>5. queued' \in [Hosts -> BOOLEAN]
  <2>1. (queued[h] \/ worker[h].requeue) \in BOOLEAN
    OBVIOUS
  <2>2. \E b \in BOOLEAN : queued' = [queued EXCEPT ![h] = b]
    BY <2>1 DEF DeferredPatch
  <2> QED BY <2>2 DEF TypeInv
<1>6. faults' \in Nat /\ faults' + crashes <= MaxTroubles
  BY FaultTyped DEF DeferredPatch
<1> QED BY <1>1, <1>4, <1>5, <1>6 DEF DeferredPatch, TypeInv, OpShape

\* cancelHelmOperation keeps the types.
LEMMA CancelTyped ==
  ASSUME TypeInv, NEW h \in Hosts, cancelHelmOperation(h)
  PROVE  TypeInv'
<1> DEFINE w == [worker[h] EXCEPT !.step = "uninstall_host"]
<1>1. worker' \in [Hosts -> Worker] /\ WorkerShape'
  <2>1. w \in Worker
    BY RowsTyped DEF Worker, WorkerSteps
  <2>2. w.spec \in Specs
    BY RowsTyped DEF cancelHelmOperation, TypeInv, WorkerShape, Worker
  <2>3. worker' = [worker EXCEPT ![h] = w]
    BY DEF cancelHelmOperation
  <2> QED BY <2>1, <2>2, <2>3, WorkerUpdate
<1>2. op' \in [Ops -> Operation] /\ OpShape'
  <2>0. OpShape
    BY DEF TypeInv
  <2> QED BY <2>0, CancelledTyped DEF cancelHelmOperation, OpShape
<1>3. active' \in [Hosts -> Ops \cup {None}]
  <2>1. active' = [active EXCEPT ![h] = None]
    BY DEF cancelHelmOperation
  <2> QED BY <2>1 DEF TypeInv
<1>4. raced' \in [Hosts -> BOOLEAN]
  <2>1. (\E i \in Ops : Installing(i, h)) \in BOOLEAN
    OBVIOUS
  <2>2. \E b \in BOOLEAN : raced' = [raced EXCEPT ![h] = b]
    BY <2>1 DEF cancelHelmOperation
  <2> QED BY <2>2 DEF TypeInv
<1> QED BY <1>1, <1>2, <1>3, <1>4 DEF cancelHelmOperation, TypeInv, api

\* The uninstalls of teardown keep the types.
LEMMA UninstallTyped ==
  ASSUME TypeInv, NEW h \in Hosts,
         UninstallHost(h) \/ ListOwned(h) \/ UninstallCompanion(h)
  PROVE  TypeInv'
<1>0. worker[h] \in Worker /\ worker[h].spec \in Specs
  BY RowsTyped
     DEF UninstallHost, ListOwned, UninstallCompanion, TypeInv, WorkerShape
<1>1. CASE UninstallHost(h)
  <2> DEFINE w(f) == [worker[h] EXCEPT !.step = "list_owned", !.failed = f]
             w0 == [worker[h] EXCEPT !.step = "list_owned"]
  <2>1. /\ w(TRUE) \in Worker /\ w(TRUE).spec \in Specs
        /\ w0 \in Worker /\ w0.spec \in Specs
    BY <1>0 DEF Worker, WorkerSteps
  <2>2. worker' = [worker EXCEPT ![h] = w0] \/ worker' = [worker EXCEPT ![h] = w(TRUE)]
    BY <1>1 DEF UninstallHost
  <2>3. worker' \in [Hosts -> Worker] /\ WorkerShape'
    BY <2>1, <2>2, WorkerUpdate
  <2>4. rel' \in [Hosts -> Releases]
    <3> DEFINE r == [rel[h] EXCEPT !.gen = 0, !.spec = None,
                                !.wedged = @ \ {None}]
    <3>1. r \in Releases
      BY RowsTyped, RemovedTyped
    <3>2. rel' = rel \/ rel' = [rel EXCEPT ![h] = r]
      BY <1>1 DEF UninstallHost
    <3> QED BY <3>1, <3>2 DEF TypeInv
  <2>5. faults' \in Nat /\ faults' + crashes <= MaxTroubles
    BY <1>1, FaultTyped DEF UninstallHost, UninstallFails
  <2> QED BY <1>1, <2>3, <2>4, <2>5 DEF UninstallHost, TypeInv, OpShape, api
<1>2. CASE ListOwned(h)
  <2> DEFINE w1 == [worker[h] EXCEPT !.step = "uninstall_companions",
                                     !.todo = TeardownTargets(h)]
             w2 == [worker[h] EXCEPT !.step = "uninstall_companions",
                                     !.failed = TRUE]
  <2>1. TeardownTargets(h) \in SUBSET Companions
    BY <1>0, RowsTyped DEF TeardownTargets, Releases
  <2>2. /\ w1 \in Worker /\ w1.spec \in Specs
        /\ w2 \in Worker /\ w2.spec \in Specs
    BY <1>0, <2>1 DEF Worker, WorkerSteps
  <2>3. worker' = [worker EXCEPT ![h] = w1] \/ worker' = [worker EXCEPT ![h] = w2]
    BY <1>2 DEF ListOwned
  <2>4. worker' \in [Hosts -> Worker] /\ WorkerShape'
    BY <2>2, <2>3, WorkerUpdate
  <2>5. faults' \in Nat /\ faults' + crashes <= MaxTroubles
    BY <1>2, FaultTyped DEF ListOwned
  <2> QED BY <1>2, <2>4, <2>5 DEF ListOwned, TypeInv, OpShape, api
<1>3. CASE UninstallCompanion(h)
  <2> PICK c \in worker[h].todo :
        \/ /\ NoFault
           /\ rel' = [rel EXCEPT ![h].companions = @ \ {c},
                                 ![h].wedged = @ \ {c}]
           /\ worker' = [worker EXCEPT ![h].todo = @ \ {c}]
        \/ /\ Fault \/ NoFault
           /\ worker' = [worker EXCEPT ![h].todo = @ \ {c},
                                       ![h].failed = TRUE]
           /\ UNCHANGED rel
    BY <1>3 DEF UninstallCompanion, UninstallFails
  <2> DEFINE w1 == [worker[h] EXCEPT !.todo = @ \ {c}]
             w2 == [worker[h] EXCEPT !.todo = @ \ {c}, !.failed = TRUE]
             r == [rel[h] EXCEPT !.companions = @ \ {c}, !.wedged = @ \ {c}]
  <2>1. /\ w1 \in Worker /\ w1.spec \in Specs
        /\ w2 \in Worker /\ w2.spec \in Specs
    BY <1>0 DEF Worker
  <2>2. worker' = [worker EXCEPT ![h] = w1] \/ worker' = [worker EXCEPT ![h] = w2]
    OBVIOUS
  <2>3. worker' \in [Hosts -> Worker] /\ WorkerShape'
    BY <2>1, <2>2, WorkerUpdate
  <2>4. rel' \in [Hosts -> Releases]
    <3>1. r \in Releases
      BY RowsTyped, RemovedTyped
    <3>2. rel' = rel \/ rel' = [rel EXCEPT ![h] = r]
      OBVIOUS
    <3> QED BY <3>1, <3>2 DEF TypeInv
  <2>5. faults' \in Nat /\ faults' + crashes <= MaxTroubles
    BY FaultTyped
  <2> QED BY <1>3, <2>3, <2>4, <2>5 DEF UninstallCompanion, TypeInv, OpShape, api
<1> QED BY <1>1, <1>2, <1>3

\* Dropping or keeping the finalizer keeps the types.
LEMMA FinishTyped ==
  ASSUME TypeInv, NEW h \in Hosts, FinishTeardown(h)
  PROVE  TypeInv'
<1>1. worker' \in [Hosts -> Worker] /\ WorkerShape'
  BY GoDeferTyped DEF FinishTeardown
<1>2. /\ server' \in [Hosts -> Object]
      /\ current' \in [Hosts -> SUBSET {"cache", "worker"}]
  <2> DEFINE obj == [server[h] EXCEPT !.exists = FALSE, !.finalizer = FALSE]
  <2>1. obj \in Object
    BY RowsTyped DEF Object
  <2>2. CASE Store(h, obj)
    BY <2>1, <2>2, StoreTyped
  <2>3. CASE UNCHANGED <<server, current>>
    BY <2>3 DEF TypeInv
  <2> QED BY <2>2, <2>3 DEF FinishTeardown
<1> QED BY <1>1, <1>2 DEF FinishTeardown, TypeInv, OpShape, aux

\* Every step of a Reconcile call keeps the types.
LEMMA ReconcileTyped ==
  ASSUME TypeInv, NEW h \in Hosts, Reconcile(h)
  PROVE  TypeInv'
BY GetHostTyped, SkipTyped, StartHelmTyped, LaunchTyped, DeferredPatchTyped,
   CancelTyped, UninstallTyped, FinishTyped
   DEF Reconcile

\* A goroutine that returns leaves an idle row behind.
LEMMA ReturnTyped ==
  ASSUME TypeInv, NEW i \in Ops, op[i].step # "idle", Return(i)
  PROVE  /\ op' \in [Ops -> Operation] /\ OpShape'
         /\ active' \in [Hosts -> Ops \cup {None}]
         /\ slots' \in Int
<1>1. op' \in [Ops -> Operation] /\ OpShape'
  BY OpUpdate, IdleTyped DEF Return, IdleOp
<1>2. active' \in [Hosts -> Ops \cup {None}]
  BY DEF Return, clearHelmOperationActive, TypeInv
<1>3. slots' \in Int
  BY DEF Return, TypeInv
<1> QED BY <1>1, <1>2, <1>3

\* A goroutine that fails goes on to a typed report.
LEMMA GiveUpTyped ==
  ASSUME TypeInv, NEW i \in Ops, op[i].step # "idle", GiveUp(i)
  PROVE  op' \in [Ops -> Operation] /\ OpShape'
<1> DEFINE o == [op[i] EXCEPT !.step = "report", !.failed = TRUE, !.todo = {}]
<1>1. op[i] \in Operation /\ op[i].host \in Hosts /\ op[i].hash \in Specs
  BY DEF TypeInv, OpShape
<1>2. /\ o \in Operation /\ o.step = "report"
      /\ o.host \in Hosts /\ o.hash \in Specs
  BY <1>1 DEF Operation, OpSteps
<1>3. op' = [op EXCEPT ![i] = o]
  BY DEF GiveUp
<1> HIDE DEF o
<1> QED BY <1>2, <1>3, OpUpdate

\* What every step of a goroutine but the report leaves alone.
OpFrame ==
  UNCHANGED <<server, cache, current, queued, worker, raced, crashes>>

\* A goroutine step is typed when its row, entry, slot and releases are.
LEMMA OpStepTyped ==
  ASSUME TypeInv, OpFrame, Fault \/ NoFault,
         op' \in [Ops -> Operation], OpShape',
         active' \in [Hosts -> Ops \cup {None}], slots' \in Int,
         rel' \in [Hosts -> Releases]
  PROVE  TypeInv'
<1>1. faults' \in Nat /\ faults' + crashes <= MaxTroubles
  BY FaultTyped
<1> QED BY <1>1 DEF OpFrame, TypeInv, WorkerShape

\* A goroutine moves one step on: its row changes, activeHelmOperations does not.
LEMMA OpMoveTyped ==
  ASSUME TypeInv, NEW i \in Ops, NEW o \in Operation, OpFrame,
         Fault \/ NoFault, UNCHANGED active, slots' \in Int,
         rel' \in [Hosts -> Releases],
         o.host \in Hosts, o.hash \in Specs,
         o.step \in {"host", "companions", "list_owned", "prune"}
           => o.spec \in Specs,
         op' = [op EXCEPT ![i] = o]
  PROVE  TypeInv'
<1>1. op' \in [Ops -> Operation] /\ OpShape'
  BY OpUpdate
<1>2. active' \in [Hosts -> Ops \cup {None}]
  BY DEF TypeInv
<1> QED BY <1>1, <1>2, OpStepTyped

\* A goroutine step that returns keeps the types.
LEMMA OpReturnTyped ==
  ASSUME TypeInv, NEW i \in Ops, op[i].step # "idle", Return(i), OpFrame,
         Fault \/ NoFault, UNCHANGED rel
  PROVE  TypeInv'
<1>1. rel' \in [Hosts -> Releases]
  BY DEF TypeInv
<1> QED BY <1>1, ReturnTyped, OpStepTyped

\* A goroutine step that fails keeps the types.
LEMMA OpFailTyped ==
  ASSUME TypeInv, NEW i \in Ops, op[i].step # "idle",
         GiveUp(i), Fault \/ NoFault, OpFrame
  PROVE  TypeInv'
<1>1. /\ rel' \in [Hosts -> Releases] /\ slots' \in Int
      /\ active' \in [Hosts -> Ops \cup {None}]
  BY DEF TypeInv, GiveUp
<1> QED BY <1>1, GiveUpTyped, OpStepTyped

\* A running goroutine belongs to a host and carries a hash.
LEMMA OpRowTyped ==
  ASSUME TypeInv, NEW i \in Ops, op[i].step # "idle"
  PROVE  /\ op[i] \in Operation /\ op[i].host \in Hosts
         /\ op[i].hash \in Specs
         /\ op[i].step \in {"host", "companions", "list_owned", "prune"}
              => op[i].spec \in Specs
BY DEF TypeInv, OpShape

\* The goroutine's first read keeps the types.
LEMMA OpGetTyped ==
  ASSUME TypeInv, NEW i \in Ops, OpGet(i)
  PROVE  TypeInv'
<1>0. op[i].step # "idle" /\ OpFrame
  BY DEF OpGet, OpFrame, api
<1>1. CASE Return(i) /\ (NoFault \/ Fault) /\ UNCHANGED rel
  BY <1>0, <1>1, OpReturnTyped
<1>2. CASE Fail(i)
  BY <1>0, <1>2, OpFailTyped DEF Fail
<1>3. CASE /\ op' = [op EXCEPT ![i].step = "wait"]
           /\ NoFault /\ UNCHANGED <<active, slots, rel>>
  <2> DEFINE o == [op[i] EXCEPT !.step = "wait"]
  <2>1. /\ o \in Operation /\ o.step = "wait"
        /\ o.host \in Hosts /\ o.hash \in Specs
    BY <1>0, OpRowTyped DEF Operation, OpSteps
  <2>2. op' = [op EXCEPT ![i] = o]
    BY <1>3
  <2>3. slots' \in Int /\ rel' \in [Hosts -> Releases]
    BY <1>3 DEF TypeInv
  <2> HIDE DEF o
  <2> QED BY <1>0, <1>3, <2>1, <2>2, <2>3, OpMoveTyped
<1> QED BY <1>1, <1>2, <1>3 DEF OpGet

\* Taking, abandoning and releasing a render slot keep the types.
LEMMA SlotTyped ==
  ASSUME TypeInv, NEW i \in Ops,
         acquireHelmRenderSlot(i) \/ CancelledWaiting(i) \/ ReleaseSlot(i)
  PROVE  TypeInv'
<1>0. op[i].step # "idle" /\ OpFrame /\ NoFault /\ UNCHANGED rel
  BY DEF acquireHelmRenderSlot, CancelledWaiting, ReleaseSlot, OpFrame,
         NoFault, api, aux
<1>1. CASE CancelledWaiting(i)
  BY <1>0, <1>1, OpReturnTyped DEF CancelledWaiting
<1>2. CASE acquireHelmRenderSlot(i)
  <2> DEFINE o == [op[i] EXCEPT !.step = "reread", !.slot = RenderConcurrency > 0]
  <2>1. /\ o \in Operation /\ o.step = "reread"
        /\ o.host \in Hosts /\ o.hash \in Specs
    <3>1. (RenderConcurrency > 0) \in BOOLEAN
      OBVIOUS
    <3> QED BY <1>0, <3>1, OpRowTyped DEF Operation, OpSteps
  <2>2. op' = [op EXCEPT ![i] = o]
    BY <1>2 DEF acquireHelmRenderSlot
  <2>3. slots' \in Int /\ rel' \in [Hosts -> Releases] /\ UNCHANGED active
    BY <1>2 DEF acquireHelmRenderSlot, TypeInv
  <2> HIDE DEF o
  <2> QED BY <1>0, <2>1, <2>2, <2>3, OpMoveTyped
<1>3. CASE ReleaseSlot(i)
  <2> DEFINE o == [op[i] EXCEPT !.step = "list_owned", !.slot = FALSE]
  <2>1. /\ o \in Operation /\ o.host \in Hosts /\ o.hash \in Specs
        /\ o.spec \in Specs
    BY <1>0, <1>3, OpRowTyped DEF ReleaseSlot, Operation, OpSteps
  <2>2. op' = [op EXCEPT ![i] = o]
    BY <1>3 DEF ReleaseSlot
  <2>3. slots' \in Int /\ rel' \in [Hosts -> Releases] /\ UNCHANGED active
    BY <1>3 DEF ReleaseSlot, TypeInv
  <2> HIDE DEF o
  <2> QED BY <1>0, <2>1, <2>2, <2>3, OpMoveTyped
<1> QED BY <1>1, <1>2, <1>3

\* The re-read under the slot keeps the types.
LEMMA RereadTyped ==
  ASSUME TypeInv, NEW i \in Ops, Reread(i)
  PROVE  TypeInv'
<1> DEFINE h == op[i].host
<1>0. op[i].step # "idle" /\ OpFrame
  BY DEF Reread, OpFrame, api
<1>1. CASE Return(i) /\ (NoFault \/ Fault) /\ UNCHANGED rel
  BY <1>0, <1>1, OpReturnTyped
<1>2. CASE Fail(i)
  BY <1>0, <1>2, OpFailTyped DEF Fail
<1>3. CASE /\ op' = [op EXCEPT ![i].step = "host", ![i].gen = cache[h].gen,
                               ![i].spec = cache[h].spec]
           /\ NoFault /\ UNCHANGED <<active, slots, rel>>
  <2> DEFINE o == [op[i] EXCEPT !.step = "host", !.gen = cache[h].gen,
                                !.spec = cache[h].spec]
  <2>0. cache[h].gen \in 0..MaxGeneration /\ cache[h].spec \in Specs
    <3>1. h \in Hosts
      BY <1>0, OpRowTyped
    <3>2. cache[h] \in Object
      BY <3>1 DEF TypeInv
    <3> QED BY <3>2 DEF Object
  <2>1. /\ o \in Operation /\ o.host \in Hosts /\ o.hash \in Specs
        /\ o.spec \in Specs
    <3>1. op[i] \in Operation /\ op[i].host \in Hosts /\ op[i].hash \in Specs
      BY <1>0, OpRowTyped
    <3> HIDE DEF h
    <3> QED BY <2>0, <3>1 DEF Operation, OpSteps
  <2>2. op' = [op EXCEPT ![i] = o]
    BY <1>3
  <2>3. slots' \in Int /\ rel' \in [Hosts -> Releases]
    BY <1>3 DEF TypeInv
  <2> HIDE DEF o
  <2> QED BY <1>0, <1>3, <2>1, <2>2, <2>3, OpMoveTyped
<1> QED BY <1>1, <1>2, <1>3 DEF Reread

\* Installing the host chart or a companion keeps the types.
LEMMA InstallTyped ==
  ASSUME TypeInv, NEW i \in Ops,
         reconcileHostManagerChart(i) \/ reconcileCompanionChart(i)
  PROVE  TypeInv'
<1> DEFINE h == op[i].host
<1>0. op[i].step \in {"host", "companions"} /\ OpFrame
  BY DEF reconcileHostManagerChart, reconcileCompanionChart, OpFrame, api
<1>1. /\ op[i] \in Operation /\ h \in Hosts /\ op[i].hash \in Specs
      /\ op[i].spec \in Specs
  BY <1>0, OpRowTyped
<1>2. CASE Fail(i)
  BY <1>0, <1>2, OpFailTyped DEF Fail
<1>3. CASE /\ rel' = [rel EXCEPT ![h].gen = op[i].gen, ![h].spec = op[i].spec]
           /\ op' = [op EXCEPT ![i].step = "companions",
                               ![i].todo = Declares[op[i].spec]]
           /\ NoFault /\ UNCHANGED <<active, slots>>
  <2> DEFINE o == [op[i] EXCEPT !.step = "companions",
                                !.todo = Declares[op[i].spec]]
             r == [rel[h] EXCEPT !.gen = op[i].gen, !.spec = op[i].spec]
  <2>1. /\ o \in Operation /\ o.host \in Hosts /\ o.hash \in Specs
        /\ o.spec \in Specs
    BY <1>1 DEF Operation, OpSteps
  <2>2. op' = [op EXCEPT ![i] = o] /\ rel' = [rel EXCEPT ![h] = r]
    BY <1>3
  <2>3. rel[h] \in Releases
    BY <1>1 DEF TypeInv
  <2>4. r \in Releases
    BY <1>1, <2>3 DEF Releases, Operation
  <2>5. slots' \in Int /\ rel' \in [Hosts -> Releases]
    <3>1. slots \in Int /\ rel \in [Hosts -> Releases] /\ UNCHANGED slots
      BY <1>3 DEF TypeInv
    <3> HIDE DEF r
    <3> QED BY <2>2, <2>4, <3>1
  <2> HIDE DEF o
  <2> QED BY <1>0, <1>3, <2>1, <2>2, <2>5, OpMoveTyped
<1>4. ASSUME NEW c \in op[i].todo,
             rel' = [rel EXCEPT ![h].companions = @ \cup {c}],
             op' = [op EXCEPT ![i].todo = @ \ {c}],
             NoFault, UNCHANGED <<active, slots>>
      PROVE  TypeInv'
  <2> DEFINE o == [op[i] EXCEPT !.todo = @ \ {c}]
             r == [rel[h] EXCEPT !.companions = @ \cup {c}]
  <2>1. /\ o \in Operation /\ o.host \in Hosts /\ o.hash \in Specs
        /\ o.spec \in Specs /\ c \in Companions
    BY <1>1 DEF Operation
  <2>2. op' = [op EXCEPT ![i] = o] /\ rel' = [rel EXCEPT ![h] = r]
    BY <1>4
  <2>3. rel[h] \in Releases
    BY <1>1 DEF TypeInv
  <2>4. r \in Releases
    BY <2>1, <2>3 DEF Releases
  <2>5. slots' \in Int /\ rel' \in [Hosts -> Releases]
    <3>1. slots \in Int /\ rel \in [Hosts -> Releases] /\ UNCHANGED slots
      BY <1>4 DEF TypeInv
    <3> HIDE DEF r
    <3> QED BY <2>2, <2>4, <3>1
  <2> HIDE DEF o
  <2> QED BY <1>0, <1>4, <2>1, <2>2, <2>5, OpMoveTyped
<1>5. ASSUME NEW c, Refused(i, c) PROVE TypeInv'
  BY <1>0, <1>5, OpFailTyped DEF Refused
<1>6. CASE reconcileHostManagerChart(i)
  BY <1>2, <1>3, <1>5, <1>6 DEF reconcileHostManagerChart
<1>7. CASE reconcileCompanionChart(i)
  BY <1>2, <1>4, <1>5, <1>7 DEF reconcileCompanionChart
<1> QED BY <1>6, <1>7

\* Listing and pruning companions keeps the types.
LEMMA PruneTyped ==
  ASSUME TypeInv, NEW i \in Ops, ListUndeclared(i) \/ pruneCompanionCharts(i)
  PROVE  TypeInv'
<1> DEFINE h == op[i].host
<1>0. op[i].step \in {"list_owned", "prune"} /\ OpFrame
  BY DEF ListUndeclared, pruneCompanionCharts, OpFrame, api
<1>1. /\ op[i] \in Operation /\ h \in Hosts /\ op[i].hash \in Specs
      /\ op[i].spec \in Specs
  BY <1>0, OpRowTyped
<1>2. ASSUME GiveUp(i), Fault \/ NoFault PROVE TypeInv'
  BY <1>0, <1>2, OpFailTyped
<1>3. ASSUME NEW step \in {"prune", "report"}, NEW todo \in SUBSET Companions,
             op' = [op EXCEPT ![i] = [op[i] EXCEPT !.step = step,
                                                   !.todo = todo]],
             NoFault, UNCHANGED <<active, slots>>,
             rel' \in [Hosts -> Releases]
      PROVE  TypeInv'
  <2> DEFINE o == [op[i] EXCEPT !.step = step, !.todo = todo]
  <2>1. /\ o \in Operation /\ o.host \in Hosts /\ o.hash \in Specs
        /\ o.spec \in Specs
    BY <1>1, <1>3 DEF Operation, OpSteps
  <2>2. slots' \in Int
    BY <1>3 DEF TypeInv
  <2>3. op' = [op EXCEPT ![i] = o]
    BY <1>3
  <2> HIDE DEF o
  <2> QED BY <1>0, <1>3, <2>1, <2>2, <2>3, OpMoveTyped
<1>4. rel \in [Hosts -> Releases] /\ rel[h] \in Releases
  BY <1>1 DEF TypeInv
<1>5. CASE /\ op' = [op EXCEPT ![i].step = "prune",
                      ![i].todo = rel[h].companions \ Declares[op[i].spec]]
           /\ NoFault /\ UNCHANGED <<active, slots, rel>>
  <2>1. rel[h].companions \ Declares[op[i].spec] \in SUBSET Companions
    BY <1>4 DEF Releases
  <2>2. op' = [op EXCEPT ![i] = [op[i] EXCEPT !.step = "prune",
                !.todo = rel[h].companions \ Declares[op[i].spec]]]
    BY <1>5
  <2>3. rel' \in [Hosts -> Releases] /\ NoFault /\ UNCHANGED <<active, slots>>
    BY <1>4, <1>5
  <2> QED BY <1>3, <2>1, <2>2, <2>3
<1>6. ASSUME NEW c \in op[i].todo,
             op[i].step = "prune",
             rel' = [rel EXCEPT ![h].companions = @ \ {c},
                                ![h].wedged = @ \ {c}],
             op' = [op EXCEPT ![i].todo = @ \ {c}],
             NoFault, UNCHANGED <<active, slots>>
      PROVE  TypeInv'
  <2> DEFINE r == [rel[h] EXCEPT !.companions = @ \ {c}, !.wedged = @ \ {c}]
  <2>1. op[i].todo \ {c} \in SUBSET Companions
    BY <1>1 DEF Operation
  <2>2. op' = [op EXCEPT ![i] = [op[i] EXCEPT !.step = "prune",
                                              !.todo = op[i].todo \ {c}]]
    <3>1. [op[i] EXCEPT !.step = "prune", !.todo = op[i].todo \ {c}]
            = [op[i] EXCEPT !.todo = op[i].todo \ {c}]
      BY <1>1, <1>6 DEF Operation
    <3> QED BY <1>6, <3>1
  <2>3. r \in Releases
    BY <1>4 DEF Releases
  <2>4. rel' \in [Hosts -> Releases]
    <3>1. rel' = [rel EXCEPT ![h] = r]
      BY <1>6
    <3> QED BY <1>4, <2>3, <3>1
  <2> QED BY <1>3, <1>6, <2>1, <2>2, <2>4
<1>7. CASE /\ op[i].todo = {}
           /\ op' = [op EXCEPT ![i].step = "report"]
           /\ NoFault /\ UNCHANGED <<active, slots, rel>>
  <2>1. op' = [op EXCEPT ![i] = [op[i] EXCEPT !.step = "report", !.todo = {}]]
    <3>1. [op[i] EXCEPT !.step = "report", !.todo = {}]
            = [op[i] EXCEPT !.step = "report"]
      BY <1>1, <1>7 DEF Operation
    <3> QED BY <1>7, <3>1
  <2> QED BY <1>3, <1>4, <1>7, <2>1
<1>8. CASE ListUndeclared(i)
  BY <1>2, <1>5, <1>8 DEF ListUndeclared, Fail
<1>9. CASE pruneCompanionCharts(i)
  BY <1>2, <1>6, <1>7, <1>9 DEF pruneCompanionCharts, UninstallFails
<1> QED BY <1>8, <1>9

\* updateHelmStatus keeps the types.
LEMMA ReportTyped ==
  ASSUME TypeInv, NEW i \in Ops, updateHelmStatus(i)
  PROVE  TypeInv'
<1> DEFINE h == op[i].host
           base == [cache[h].attrs EXCEPT !.failure = @ /\ ~op[i].failed]
<1>1. op[i].step # "idle" /\ Return(i)
  BY DEF updateHelmStatus
<1>2. op[i] \in Operation /\ h \in Hosts /\ op[i].hash \in Specs
  BY <1>1, OpRowTyped
<1>3. cache[h].attrs \in Attributes
  BY <1>2, RowsTyped DEF Object
<1>4. base \in Attributes
  BY <1>3 DEF Attributes
<1>5. Outcome(i) \in Attributes
  BY <1>2 DEF Outcome, Attributes, Statuses, Operation
<1>6. /\ server' \in [Hosts -> Object]
      /\ current' \in [Hosts -> SUBSET {"cache", "worker"}]
  <2>1. CASE PatchStatus(h, base, Outcome(i))
    BY <1>2, <1>4, <1>5, <2>1, PatchTyped
  <2>2. CASE UNCHANGED <<server, current>>
    BY <2>2 DEF TypeInv
  <2> QED BY <2>1, <2>2 DEF updateHelmStatus
<1>7. /\ op' \in [Ops -> Operation] /\ OpShape'
      /\ active' \in [Hosts -> Ops \cup {None}] /\ slots' \in Int
  BY <1>1, ReturnTyped
<1>8. faults' \in Nat /\ faults' + crashes <= MaxTroubles
  BY FaultTyped DEF updateHelmStatus
<1>9. UNCHANGED <<cache, queued, worker, rel, raced, crashes>>
  BY DEF updateHelmStatus
<1> QED BY <1>6, <1>7, <1>8, <1>9 DEF TypeInv, WorkerShape

\* Every step of runAsyncHelmReconcile keeps the types.
LEMMA RunAsyncTyped ==
  ASSUME TypeInv, NEW i \in Ops, runAsyncHelmReconcile(i)
  PROVE  TypeInv'
BY OpGetTyped, SlotTyped, RereadTyped, InstallTyped, PruneTyped, ReportTyped
   DEF runAsyncHelmReconcile

\* Every step of the system keeps the types.
LEMMA NextTyped ==
  ASSUME TypeInv, [Next]_vars
  PROVE  TypeInv'
<1>1. CASE UNCHANGED vars
  BY <1>1 DEF vars, TypeInv, OpShape, WorkerShape
<1>2. CASE Next
  BY <1>2, EnvironmentTyped, RestartTyped, ReconcileTyped, RunAsyncTyped
     DEF Next
<1> QED BY <1>1, <1>2

\* Every variable keeps its type; a goroutine that is running belongs to a host
\* and a Reconcile call under way holds the spec it read.
THEOREM Typed == Spec => []TypeInv
BY InitTypeInv, NextTyped, PTL DEF Spec

-----------------------------------------------------------------------------
(* What a step does to goroutines, their registration and the slots *)

RenderSteps == {"reread", "host", "companions"}

SameOp(i) ==
  /\ op[i].step # "idle" /\ op'[i].step # "idle"
  /\ op'[i].host = op[i].host /\ op'[i].hash = op[i].hash
  /\ op'[i].cancelled = op[i].cancelled
  /\ \A j \in Ops \ {i} : op'[j] = op[j]
  /\ UNCHANGED active

\* A goroutine goes on with the slot it has, if any.
Moves(i) ==
  /\ SameOp(i) /\ op'[i].slot = op[i].slot /\ UNCHANGED slots
  /\ op'[i].step \in RenderSteps => op[i].step \in RenderSteps

Takes(i) ==
  /\ SameOp(i) /\ op[i].step = "wait" /\ op'[i].step = "reread" /\ SlotFree
  /\ op'[i].slot = (RenderConcurrency > 0)
  /\ slots' = IF RenderConcurrency > 0 THEN slots + 1 ELSE slots

GivesBack(i) ==
  /\ SameOp(i) /\ op'[i].slot = FALSE /\ op'[i].step \notin RenderSteps
  /\ slots' = IF op[i].slot THEN slots - 1 ELSE slots

\* A failing goroutine moves on without touching slot or entry.
LEMMA FailMoves ==
  ASSUME TypeInv, NEW i \in Ops, op[i].step # "idle", GiveUp(i)
  PROVE  Moves(i)
<1>1. op[i] \in Operation /\ op \in [Ops -> Operation]
  BY DEF TypeInv
<1> QED BY <1>1 DEF GiveUp, Moves, SameOp, RenderSteps, Operation

LEMMA RefusedMoves ==
  ASSUME TypeInv, NEW i \in Ops, op[i].step # "idle", NEW c, Refused(i, c)
  PROVE  Moves(i)
BY FailMoves DEF Refused

\* What a goroutine step does to slots and entries: nothing, take a slot,
\* give one back, or return.
LEMMA GoroutineSteps ==
  ASSUME TypeInv, NEW i \in Ops, runAsyncHelmReconcile(i)
  PROVE  \/ Moves(i) \/ Takes(i) \/ GivesBack(i)
         \/ op[i].step # "idle" /\ Return(i)
<1>0. op[i] \in Operation /\ op \in [Ops -> Operation]
  BY DEF TypeInv
<1>1. CASE OpGet(i)
  BY <1>0, <1>1, FailMoves
     DEF OpGet, Fail, Moves, SameOp, RenderSteps, Operation
<1>2. CASE acquireHelmRenderSlot(i)
  BY <1>0, <1>2 DEF acquireHelmRenderSlot, Takes, SameOp, Operation
<1>3. CASE CancelledWaiting(i)
  BY <1>3 DEF CancelledWaiting
<1>4. CASE Reread(i)
  BY <1>0, <1>4, FailMoves
     DEF Reread, Fail, Moves, SameOp, RenderSteps, Operation
<1>5. CASE reconcileHostManagerChart(i)
  <2>1. CASE Fail(i) \/ Refused(i, None)
    BY <1>5, <2>1, FailMoves, RefusedMoves DEF reconcileHostManagerChart, Fail
  <2>2. CASE ~(Fail(i) \/ Refused(i, None))
    BY <1>0, <1>5, <2>2
       DEF reconcileHostManagerChart, Moves, SameOp, RenderSteps, Operation
  <2> QED BY <2>1, <2>2
<1>6. CASE reconcileCompanionChart(i)
  <2>1. CASE Fail(i) \/ \E c \in op[i].todo : Refused(i, c)
    BY <1>6, <2>1, FailMoves, RefusedMoves DEF reconcileCompanionChart, Fail
  <2>2. CASE ~(Fail(i) \/ \E c \in op[i].todo : Refused(i, c))
    BY <1>0, <1>6, <2>2
       DEF reconcileCompanionChart, Moves, SameOp, RenderSteps, Operation
  <2> QED BY <2>1, <2>2
<1>7. CASE ReleaseSlot(i)
  BY <1>0, <1>7 DEF ReleaseSlot, GivesBack, SameOp, RenderSteps, Operation
<1>8. CASE ListUndeclared(i)
  BY <1>0, <1>8, FailMoves
     DEF ListUndeclared, Fail, Moves, SameOp, RenderSteps, Operation
<1>9. CASE pruneCompanionCharts(i)
  <2>1. CASE GiveUp(i)
    BY <1>9, <2>1, FailMoves DEF pruneCompanionCharts
  <2>2. ASSUME NEW c, op' = [op EXCEPT ![i].todo = @ \ {c}],
               UNCHANGED <<active, slots>>
        PROVE  Moves(i)
    BY <1>0, <1>9, <2>2
       DEF pruneCompanionCharts, Moves, SameOp, RenderSteps, Operation
  <2>3. CASE op' = [op EXCEPT ![i].step = "report"] /\ UNCHANGED <<active, slots>>
    BY <1>0, <1>9, <2>3
       DEF pruneCompanionCharts, Moves, SameOp, RenderSteps, Operation
  <2> QED BY <1>9, <2>1, <2>2, <2>3 DEF pruneCompanionCharts
<1>10. CASE updateHelmStatus(i)
  BY <1>10 DEF updateHelmStatus
<1> QED BY <1>1, <1>2, <1>3, <1>4, <1>5, <1>6, <1>7, <1>8, <1>9, <1>10
        DEF runAsyncHelmReconcile

\* A goroutine never goes back to wait for a slot.
LEMMA MovesForward ==
  ASSUME TypeInv, NEW i \in Ops, runAsyncHelmReconcile(i), Moves(i)
  PROVE  op'[i].step \notin {"start", "wait"} \/ op[i].step = "start"
<1>0. op[i] \in Operation /\ op \in [Ops -> Operation]
  BY DEF TypeInv
<1>1. GiveUp(i) => op'[i].step = "report"
  BY <1>0 DEF GiveUp
<1>2. Return(i) => op'[i].step = "idle"
  BY <1>0 DEF Return, IdleOp
<1>3. CASE OpGet(i)
  BY <1>3 DEF OpGet
<1>4. CASE CancelledWaiting(i) \/ updateHelmStatus(i)
  BY <1>2, <1>4 DEF CancelledWaiting, updateHelmStatus
<1>5. CASE acquireHelmRenderSlot(i) \/ ReleaseSlot(i)
  BY <1>0, <1>5 DEF acquireHelmRenderSlot, ReleaseSlot, Operation
<1>6. CASE Reread(i)
  BY <1>0, <1>1, <1>2, <1>6 DEF Reread, Fail, Operation
<1>7. CASE reconcileHostManagerChart(i)
  BY <1>0, <1>1, <1>7 DEF reconcileHostManagerChart, Fail, Refused, Operation
<1>8. CASE reconcileCompanionChart(i)
  BY <1>0, <1>1, <1>8 DEF reconcileCompanionChart, Fail, Refused, Operation
<1>9. CASE ListUndeclared(i)
  BY <1>0, <1>1, <1>9 DEF ListUndeclared, Fail, Operation
<1>10. CASE pruneCompanionCharts(i)
  <2>1. ASSUME NEW c, op' = [op EXCEPT ![i].todo = @ \ {c}]
        PROVE  op'[i].step = op[i].step
    BY <1>0, <2>1 DEF Operation
  <2>2. CASE op' = [op EXCEPT ![i].step = "report"]
    BY <1>0, <2>2 DEF Operation
  <2> QED BY <1>1, <1>10, <2>1, <2>2 DEF pruneCompanionCharts
<1> QED BY <1>3, <1>4, <1>5, <1>6, <1>7, <1>8, <1>9, <1>10
        DEF runAsyncHelmReconcile

\* Only launching and cancelling touch goroutines from Reconcile.
LEMMA ReconcileSteps ==
  ASSUME NEW h \in Hosts, Reconcile(h) \/ Environment(h)
  PROVE  \/ UNCHANGED <<op, active, slots>>
         \/ trySetHelmOperationActive(h) /\ UNCHANGED slots
         \/ cancelHelmOperation(h) /\ UNCHANGED slots
BY DEF Reconcile, Environment, EditSpec, DeleteHost, SyncCache, GetHost,
       ReturnEarly, AwaitChildren, SkipHelm, StartHelm,
       trySetHelmOperationActive, cancelHelmOperation, UninstallHost,
       ListOwned, UninstallCompanion, FinishTeardown, DeferredPatch, memory

-----------------------------------------------------------------------------
(* activeHelmOperations *)

\* A goroutine the host did not register is not touched by Cancelled.
UnlessCancelled(h, i) ==
  /\ Cancelled(h)[i].cancelled = op[i].cancelled
  /\ Cancelled(h)[i].step = op[i].step
  /\ Cancelled(h)[i].host = op[i].host

\* A goroutine the host did not register is not touched by Cancelled.
LEMMA CancelledUnless ==
  ASSUME TypeInv, NEW h \in Hosts, NEW i \in Ops, active[h] # i
  PROVE  UnlessCancelled(h, i)
<1>1. CASE active[h] = None
  BY <1>1 DEF Cancelled, UnlessCancelled
<1>2. CASE active[h] # None
  <2>1. Cancelled(h) = [op EXCEPT ![active[h]].cancelled = TRUE]
    BY <1>2 DEF Cancelled
  <2>2. Cancelled(h)[i] = op[i]
    BY <2>1 DEF TypeInv
  <2> QED BY <2>2 DEF UnlessCancelled
<1> QED BY <1>1, <1>2

\* activeHelmOperations starts empty.
LEMMA InitRegistered == Init => RegisteredIsRunning
BY DEF Init, RegisteredIsRunning

\* A returning goroutine takes its entry with it (clearHelmOperationActive).
LEMMA ReturnRegistered ==
  ASSUME TypeInv, RegisteredIsRunning, NEW i \in Ops, op[i].step # "idle",
         Return(i)
  PROVE  RegisteredIsRunning'
<1> SUFFICES ASSUME NEW h \in Hosts, active'[h] # None
             PROVE  /\ op'[active'[h]].step # "idle"
                    /\ op'[active'[h]].host = h
                    /\ ~op'[active'[h]].cancelled
  BY DEF RegisteredIsRunning
<1>1. active'[h] = active[h] /\ active[h] \in Ops
  BY DEF Return, clearHelmOperationActive, TypeInv
<1>2. op[active[h]].host = h
  BY <1>1 DEF RegisteredIsRunning
<1>3. active[h] # i
  <2> SUFFICES ASSUME active[h] = i PROVE FALSE
    OBVIOUS
  <2>1. op[i].host = h
    BY <1>2
  <2>2. isHelmOperationActive(h, op[i].hash)
    BY <1>1 DEF isHelmOperationActive
  <2>3. active'[h] = None
    BY <2>1, <2>2 DEF Return, clearHelmOperationActive, TypeInv
  <2> QED BY <2>3
<1>4. op'[active[h]] = op[active[h]]
  BY <1>1, <1>3 DEF Return, TypeInv
<1> QED BY <1>1, <1>4 DEF RegisteredIsRunning

\* A launched goroutine is registered running and uncancelled.
LEMMA LaunchRegistered ==
  ASSUME TypeInv, RegisteredIsRunning, NEW h \in Hosts,
         trySetHelmOperationActive(h)
  PROVE  RegisteredIsRunning'
<1>1. CASE UNCHANGED <<op, active>>
  BY <1>1 DEF RegisteredIsRunning
<1>2. ASSUME NEW i \in Ops, op[i].step = "idle",
             op' = [Cancelled(h) EXCEPT ![i] =
               [IdleOp EXCEPT !.step = "start", !.host = h,
                              !.hash = worker[h].spec]],
             active' = [active EXCEPT ![h] = i]
      PROVE  RegisteredIsRunning'
  <2> DEFINE o == [IdleOp EXCEPT !.step = "start", !.host = h,
                                 !.hash = worker[h].spec]
  <2>1. o.step = "start" /\ o.host = h /\ o.cancelled = FALSE
    BY DEF IdleOp
  <2>2. \A j \in Ops : op'[j] = IF j = i THEN o ELSE Cancelled(h)[j]
    BY <1>2, CancelledTyped
  <2>3. active'[h] = i /\ \A g \in Hosts \ {h} : active'[g] = active[g]
    BY <1>2 DEF TypeInv
  <2> HIDE DEF o
  <2> SUFFICES ASSUME NEW g \in Hosts, active'[g] # None
               PROVE  /\ op'[active'[g]].step # "idle"
                      /\ op'[active'[g]].host = g
                      /\ ~op'[active'[g]].cancelled
    BY DEF RegisteredIsRunning
  <2>4. CASE g = h
    BY <2>1, <2>2, <2>3, <2>4
  <2>5. CASE g # h
    <3>1. active'[g] = active[g] /\ active[g] \in Ops
      BY <2>3, <2>5 DEF TypeInv
    <3>2. /\ op[active[g]].step # "idle" /\ op[active[g]].host = g
          /\ ~op[active[g]].cancelled
      BY <3>1 DEF RegisteredIsRunning
    <3>3. active[g] # i /\ active[g] # active[h]
      BY <1>2, <2>5, <3>2 DEF RegisteredIsRunning
    <3>4. op'[active[g]] = Cancelled(h)[active[g]]
      BY <2>2, <3>1, <3>3
    <3>5. UnlessCancelled(h, active[g])
      BY <3>1, <3>3, CancelledUnless
    <3> QED BY <3>1, <3>2, <3>4, <3>5 DEF UnlessCancelled
  <2> QED BY <2>4, <2>5
<1> QED BY <1>1, <1>2 DEF trySetHelmOperationActive

\* Teardown leaves no entry behind (cancelHelmOperation).
LEMMA CancelRegistered ==
  ASSUME TypeInv, RegisteredIsRunning, NEW h \in Hosts,
         cancelHelmOperation(h)
  PROVE  RegisteredIsRunning'
<1>1. op' = Cancelled(h) /\ active' = [active EXCEPT ![h] = None]
  BY DEF cancelHelmOperation
<1> SUFFICES ASSUME NEW g \in Hosts, active'[g] # None
             PROVE  /\ op'[active'[g]].step # "idle"
                    /\ op'[active'[g]].host = g
                    /\ ~op'[active'[g]].cancelled
  BY DEF RegisteredIsRunning
<1>2. g # h /\ active'[g] = active[g] /\ active[g] \in Ops
  BY <1>1 DEF TypeInv
<1>3. /\ op[active[g]].step # "idle" /\ op[active[g]].host = g
      /\ ~op[active[g]].cancelled
  BY <1>2 DEF RegisteredIsRunning
<1>4. active[h] # active[g]
  BY <1>2, <1>3 DEF RegisteredIsRunning
<1>5. UnlessCancelled(h, active[g])
  BY <1>2, <1>4, CancelledUnless
<1> QED BY <1>1, <1>2, <1>3, <1>5 DEF UnlessCancelled

\* Every step keeps registered goroutines running and uncancelled.
LEMMA NextRegistered ==
  ASSUME TypeInv, RegisteredIsRunning, [Next]_vars
  PROVE  RegisteredIsRunning'
<1>1. CASE UNCHANGED <<op, active>>
  BY <1>1 DEF RegisteredIsRunning
<1>2. CASE Restart
  BY <1>2 DEF Restart, RegisteredIsRunning
<1>3. ASSUME NEW h \in Hosts, Reconcile(h) \/ Environment(h)
      PROVE  RegisteredIsRunning'
  BY <1>1, <1>3, ReconcileSteps, LaunchRegistered, CancelRegistered
<1>4. ASSUME NEW i \in Ops, runAsyncHelmReconcile(i)
      PROVE  RegisteredIsRunning'
  <2>1. CASE SameOp(i)
    BY <2>1 DEF SameOp, RegisteredIsRunning, TypeInv
  <2>2. CASE op[i].step # "idle" /\ Return(i)
    BY <2>2, ReturnRegistered
  <2> QED BY <1>4, <2>1, <2>2, GoroutineSteps DEF Moves, Takes, GivesBack
<1> QED BY <1>1, <1>2, <1>3, <1>4 DEF Next, vars

\* trySetHelmOperationActive, clearHelmOperationActive and cancelHelmOperation
\* together never leave an entry for a goroutine that returned or was
\* cancelled, for any number of hosts, goroutines, edits and restarts.
THEOREM Registered == Spec => []RegisteredIsRunning
BY Typed, InitRegistered, NextRegistered, PTL DEF Spec

-----------------------------------------------------------------------------
(* The render slots *)

SlotHolders == {i \in Ops : op[i].slot}

\* The channel holds one token per goroutine that has yet to release, every
\* goroutine between its slot and its release holds one, and a goroutine that
\* has none to give back never drains the channel.
SlotsCounted ==
  /\ slots = Cardinality(SlotHolders)
  /\ \A i \in Ops : op[i].slot => op[i].step \notin {"idle", "start", "wait"}
  /\ RenderConcurrency > 0 =>
       /\ slots <= RenderConcurrency
       /\ \A i \in Ops : op[i].step \in RenderSteps => op[i].slot

\* Finitely many goroutines hold a slot.
LEMMA HoldersFinite ==
  /\ IsFiniteSet(SlotHolders)
  /\ Cardinality(SlotHolders) \in Nat
<1>1. SlotHolders \subseteq Ops
  BY DEF SlotHolders
<1> QED BY <1>1, FS_Subset, FS_CardinalityType

\* The semaphore starts empty.
LEMMA InitSlots == Init => SlotsCounted
<1> SUFFICES ASSUME Init PROVE SlotsCounted
  OBVIOUS
<1>1. \A i \in Ops : op[i].slot = FALSE /\ op[i].step = "idle"
  BY DEF Init, IdleOp
<1>2. SlotHolders = {}
  BY <1>1 DEF SlotHolders
<1>3. slots = Cardinality(SlotHolders)
  BY <1>2, FS_EmptySet DEF Init
<1> QED BY <1>1, <1>3 DEF SlotsCounted, RenderSteps, Init

\* Nobody takes or returns a slot, and nobody starts to render.
LEMMA SameSlots ==
  ASSUME SlotsCounted, UNCHANGED slots,
         \A j \in Ops : /\ op'[j].slot = op[j].slot
                        /\ op[j].slot =>
                             op'[j].step \notin {"idle", "start", "wait"}
                        /\ op'[j].step \in RenderSteps =>
                             op[j].step \in RenderSteps
  PROVE  SlotsCounted'
<1>1. SlotHolders' = SlotHolders
  BY DEF SlotHolders
<1> QED BY <1>1 DEF SlotsCounted

\* Goroutine i gives its slot back, or had none.
LEMMA FewerSlots ==
  ASSUME TypeInv, SlotsCounted, NEW i \in Ops,
         slots' = IF op[i].slot THEN slots - 1 ELSE slots,
         op'[i].slot = FALSE, op'[i].step \notin RenderSteps,
         \A j \in Ops \ {i} : op'[j] = op[j]
  PROVE  SlotsCounted'
<1>1. SlotHolders' = SlotHolders \ {i}
  BY DEF SlotHolders
<1>2. Cardinality(SlotHolders') =
        IF i \in SlotHolders THEN Cardinality(SlotHolders) - 1
        ELSE Cardinality(SlotHolders)
  BY <1>1, HoldersFinite, FS_RemoveElement
<1>3. i \in SlotHolders <=> op[i].slot
  BY DEF SlotHolders
<1>4. slots' = Cardinality(SlotHolders') /\ slots' <= slots
  BY <1>2, <1>3, HoldersFinite DEF SlotsCounted
<1>5. slots \in Int /\ slots' \in Int
  BY <1>2, <1>4, HoldersFinite DEF TypeInv
<1> QED BY <1>4, <1>5 DEF SlotsCounted

\* Goroutine i acquires a slot, or there is no bound on them.
LEMMA OneMoreSlot ==
  ASSUME TypeInv, SlotsCounted, NEW i \in Ops, Takes(i)
  PROVE  SlotsCounted'
<1>1. ~op[i].slot
  BY DEF SlotsCounted, Takes
<1>2. /\ \A j \in Ops \ {i} : op'[j] = op[j]
      /\ op'[i].step \notin {"idle", "start", "wait"}
  BY DEF Takes, SameOp
<1>3. CASE RenderConcurrency > 0
  <2>1. SlotHolders' = SlotHolders \cup {i}
    BY <1>2, <1>3 DEF SlotHolders, Takes
  <2>2. i \notin SlotHolders
    BY <1>1 DEF SlotHolders
  <2>3. Cardinality(SlotHolders') = Cardinality(SlotHolders) + 1
    BY <2>1, <2>2, HoldersFinite, FS_AddElement
  <2>4. slots' = slots + 1 /\ slots < RenderConcurrency /\ slots \in Int
    BY <1>3 DEF Takes, SlotFree, TypeInv
  <2>5. op'[i].slot
    BY <1>3 DEF Takes
  <2>6. slots' = Cardinality(SlotHolders') /\ slots' <= RenderConcurrency
    BY <2>3, <2>4 DEF SlotsCounted
  <2> QED BY <1>2, <2>5, <2>6 DEF SlotsCounted
<1>4. CASE ~(RenderConcurrency > 0)
  <2>0. (RenderConcurrency > 0) = FALSE
    BY <1>4
  <2>1. op'[i].slot = FALSE /\ slots' = slots
    BY <2>0 DEF Takes
  <2>2. SlotHolders' = SlotHolders
    BY <1>1, <1>2, <2>1 DEF SlotHolders
  <2> QED BY <1>2, <1>4, <2>1, <2>2 DEF SlotsCounted
<1> QED BY <1>3, <1>4

\* Every step keeps the semaphore equal to its holders.
LEMMA NextSlots ==
  ASSUME TypeInv, SlotsCounted, [Next]_vars
  PROVE  SlotsCounted'
<1>1. CASE UNCHANGED <<op, slots>>
  BY <1>1, SameSlots DEF SlotsCounted
<1>2. CASE Restart
  <2>1. \A i \in Ops : op'[i].slot = FALSE /\ op'[i].step = "idle"
    BY <1>2 DEF Restart, IdleOp
  <2>2. SlotHolders' = {} /\ slots' = 0
    BY <1>2, <2>1 DEF SlotHolders, Restart
  <2>3. slots' = Cardinality(SlotHolders')
    BY <2>2, FS_EmptySet
  <2> QED BY <2>1, <2>2, <2>3 DEF SlotsCounted, RenderSteps
<1>3. ASSUME NEW h \in Hosts, trySetHelmOperationActive(h), UNCHANGED slots
      PROVE  SlotsCounted'
  <2>1. CASE UNCHANGED op
    BY <1>1, <1>3, <2>1
  <2>2. ASSUME NEW i \in Ops, op[i].step = "idle",
               op' = [Cancelled(h) EXCEPT ![i] =
                 [IdleOp EXCEPT !.step = "start", !.host = h,
                                !.hash = worker[h].spec]]
        PROVE  SlotsCounted'
    <3> DEFINE o == [IdleOp EXCEPT !.step = "start", !.host = h,
                                   !.hash = worker[h].spec]
    <3>1. o.step = "start" /\ o.slot = FALSE
      BY DEF IdleOp
    <3>2. \A j \in Ops : op'[j] = IF j = i THEN o ELSE Cancelled(h)[j]
      BY <2>2, CancelledTyped
    <3>3. op[i].slot = FALSE
      BY <2>2 DEF SlotsCounted, TypeInv, Operation
    <3> HIDE DEF o
    <3>4. \A j \in Ops : op[j].slot => op[j].step \notin {"idle", "start", "wait"}
      BY DEF SlotsCounted
    <3>5. \A j \in Ops : /\ op'[j].slot = op[j].slot
                         /\ op[j].slot =>
                              op'[j].step \notin {"idle", "start", "wait"}
                         /\ op'[j].step \in RenderSteps =>
                              op[j].step \in RenderSteps
      <4> TAKE j \in Ops
      <4>1. CASE j = i
        BY <3>1, <3>2, <3>3, <4>1 DEF RenderSteps
      <4>2. CASE j # i
        <5>1. op'[j].slot = op[j].slot /\ op'[j].step = op[j].step
          <6>1. op'[j] = Cancelled(h)[j]
            BY <3>2, <4>2
          <6> QED BY <6>1, CancelledTyped
        <5> QED BY <3>4, <5>1
      <4> QED BY <4>1, <4>2
    <3> QED BY <1>3, <3>5, SameSlots
  <2> QED BY <1>3, <2>1, <2>2 DEF trySetHelmOperationActive
<1>4. ASSUME NEW h \in Hosts, cancelHelmOperation(h), UNCHANGED slots
      PROVE  SlotsCounted'
  <2>1. op' = Cancelled(h)
    BY <1>4 DEF cancelHelmOperation
  <2> QED BY <1>4, <2>1, CancelledTyped, SameSlots DEF SlotsCounted
<1>5. ASSUME NEW i \in Ops, runAsyncHelmReconcile(i)
      PROVE  SlotsCounted'
  <2>1. CASE Moves(i)
    <3>1. op'[i].step \notin {"start", "wait"} \/ ~op[i].slot
      BY <1>5, <2>1, MovesForward DEF SlotsCounted
    <3> QED BY <2>1, <3>1, SameSlots DEF Moves, SameOp, SlotsCounted
  <2>2. CASE Takes(i)
    BY <2>2, OneMoreSlot
  <2>3. CASE GivesBack(i)
    BY <2>3, FewerSlots DEF GivesBack, SameOp
  <2>4. CASE op[i].step # "idle" /\ Return(i)
    BY <2>4, FewerSlots DEF Return, TypeInv, IdleOp, RenderSteps
  <2> QED BY <1>5, <2>1, <2>2, <2>3, <2>4, GoroutineSteps
<1> QED BY <1>1, <1>2, <1>3, <1>4, <1>5, ReconcileSteps DEF Next, vars

\* The channel never holds a token nobody will drain nor loses one that is
\* held, so acquireHelmRenderSlot bounds the goroutines that load charts.
THEOREM SlotAccounting == Spec => []SlotsCounted
BY Typed, InitSlots, NextSlots, PTL DEF Spec

\* At most RenderConcurrency goroutines render at once, for any fleet.
THEOREM RendersBounded == Spec => []RenderBound
<1>1. TypeInv /\ SlotsCounted => RenderBound
  <2> SUFFICES ASSUME TypeInv, SlotsCounted, RenderConcurrency > 0
               PROVE  Cardinality({i \in Ops :
                        op[i].step \in {"host", "companions"}})
                        <= RenderConcurrency
    BY DEF RenderBound
  <2> DEFINE R == {i \in Ops : op[i].step \in {"host", "companions"}}
  <2>1. R \in SUBSET SlotHolders
    BY DEF SlotHolders, SlotsCounted, RenderSteps
  <2>2. Cardinality(R) \in Nat /\ Cardinality(R) <= Cardinality(SlotHolders)
    BY <2>1, HoldersFinite, FS_Subset, FS_CardinalityType
  <2>3. Cardinality(SlotHolders) \in Nat
        /\ Cardinality(SlotHolders) <= RenderConcurrency
    BY HoldersFinite DEF SlotsCounted
  <2> HIDE DEF R
  <2>4. Cardinality(R) <= RenderConcurrency
    BY <2>2, <2>3
  <2> QED BY <2>4 DEF R
<1> QED BY <1>1, Typed, SlotAccounting, PTL

\* The type invariant the runs check, with a non-negative channel occupancy.
THEOREM TypesHold == Spec => []TypeOK
<1>1. TypeInv /\ SlotsCounted => TypeOK
  <2> SUFFICES ASSUME TypeInv, SlotsCounted PROVE TypeOK
    OBVIOUS
  <2>1. slots \in Nat
    BY HoldersFinite DEF SlotsCounted
  <2> QED BY <2>1 DEF TypeInv, TypeOK
<1> QED BY <1>1, Typed, SlotAccounting, PTL

-----------------------------------------------------------------------------
(* The generation of the host chart *)

\* Generations only grow on their way from the server through the cache and a
\* goroutine to the release; with one slot nobody overtakes the goroutine that
\* has read the host and is about to install it.
GenerationsOrdered ==
  /\ \A h \in Hosts : /\ cache[h].gen <= server[h].gen
                      /\ rel[h].gen <= cache[h].gen
  /\ \A i \in Ops : op[i].step = "host" =>
       /\ op[i].gen <= cache[op[i].host].gen
       /\ RenderConcurrency = 1 => rel[op[i].host].gen <= op[i].gen

\* What a step does to the host charts.
Forward ==
  RenderConcurrency = 1 =>
    \A h \in Hosts : rel'[h].gen # 0 => rel'[h].gen >= rel[h].gen

\* The generations are numbers.
LEMMA GenerationTypes ==
  ASSUME TypeInv
  PROVE  /\ \A h \in Hosts : /\ server[h].gen \in Nat /\ cache[h].gen \in Nat
                             /\ rel[h].gen \in Nat
         /\ \A i \in Ops : op[i].gen \in Nat
BY DEF TypeInv, Object, Releases, Operation

\* One goroutine at most installs the host charts.
LEMMA OneInstalls ==
  ASSUME SlotsCounted, RenderConcurrency = 1, NEW i \in Ops, NEW j \in Ops,
         op[i].step = "host", op[j].step = "host"
  PROVE  i = j
<1>1. i \in SlotHolders /\ j \in SlotHolders
  BY DEF SlotsCounted, SlotHolders, RenderSteps
<1>2. Cardinality(SlotHolders) \in Nat /\ Cardinality(SlotHolders) <= 1
  BY HoldersFinite DEF SlotsCounted
<1>3. Cardinality(SlotHolders) = 0 \/ Cardinality(SlotHolders) = 1
  BY <1>2
<1>4. SlotHolders # {}
  BY <1>1
<1>5. Cardinality(SlotHolders) # 0
  BY <1>4, HoldersFinite, FS_EmptySet
<1>6. \E k : SlotHolders = {k}
  BY <1>3, <1>5, HoldersFinite, FS_Singleton
<1> QED BY <1>1, <1>6

\* A write keeps the object's generation or raises it.
Raised == \A g \in Hosts : server'[g].gen >= server[g].gen

\* A step that reads no host and installs none.
LEMMA OrderKept ==
  ASSUME TypeInv, TypeInv', GenerationsOrdered, UNCHANGED cache,
         Raised, \A h \in Hosts : rel'[h].gen \in {0, rel[h].gen},
         \A i \in Ops : op'[i].step = "host" =>
           /\ op[i].step = "host"
           /\ op'[i].host = op[i].host /\ op'[i].gen = op[i].gen,
         \A i \in Ops : op'[i].step = "host" => op'[i].host \in Hosts
  PROVE  GenerationsOrdered' /\ Forward
<1>1. \A h \in Hosts : /\ server[h].gen \in Nat /\ cache[h].gen \in Nat
                       /\ rel[h].gen \in Nat /\ server'[h].gen \in Nat
                       /\ rel'[h].gen \in Nat
  BY GenerationTypes DEF TypeInv, Object, Releases
<1>2. \A i \in Ops : op[i].gen \in Nat
  BY GenerationTypes
<1>3. \A h \in Hosts : /\ cache'[h].gen <= server'[h].gen
                       /\ rel'[h].gen <= cache'[h].gen
  BY <1>1 DEF GenerationsOrdered, Raised
<1>4. \A i \in Ops : op'[i].step = "host" =>
        /\ op'[i].gen <= cache'[op'[i].host].gen
        /\ RenderConcurrency = 1 => rel'[op'[i].host].gen <= op'[i].gen
  BY <1>1, <1>2 DEF GenerationsOrdered
<1>5. Forward
  BY <1>1 DEF Forward
<1> QED BY <1>3, <1>4, <1>5 DEF GenerationsOrdered

LEMMA StoreRaises ==
  ASSUME TypeInv, NEW h \in Hosts, NEW o, Store(h, o),
         o.gen = server[h].gen \/ o.gen = server[h].gen + 1
  PROVE  Raised
BY GenerationTypes DEF Store, TypeInv, Raised

LEMMA SameRaises ==
  ASSUME TypeInv, UNCHANGED server
  PROVE  Raised
BY GenerationTypes DEF Raised

LEMMA PatchRaises ==
  ASSUME TypeInv, NEW h \in Hosts, NEW b, NEW d, PatchStatus(h, b, d)
  PROVE  Raised
<1>1. server[h] \in Object
  BY DEF TypeInv
<1>2. [server[h] EXCEPT !.attrs = MergePatch(@, b, d)].gen = server[h].gen
  BY <1>1 DEF Object
<1>3. CASE Store(h, [server[h] EXCEPT !.attrs = MergePatch(@, b, d)])
  BY <1>2, <1>3, StoreRaises
<1>4. CASE UNCHANGED server
  BY <1>4, SameRaises
<1> QED BY <1>3, <1>4 DEF PatchStatus

\* A goroutine that was running stays the host's; an idle one has no host yet.
LEMMA HostsTyped ==
  ASSUME TypeInv, NEW i \in Ops, op[i].step = "host"
  PROVE  op[i].host \in Hosts
BY DEF TypeInv, OpShape

-----------------------------------------------------------------------------
(* The steps *)

LEMMA EnvironmentOrdered ==
  ASSUME TypeInv, TypeInv', GenerationsOrdered, NEW h \in Hosts,
         Environment(h)
  PROVE  GenerationsOrdered' /\ Forward
<1>0. /\ server[h] \in Object /\ cache[h] \in Object
      /\ UNCHANGED <<op, rel>>
  BY RowsTyped DEF Environment, EditSpec, DeleteHost, SyncCache, memory
<1>1. CASE EditSpec(h)
  <2>1. PICK s : Store(h, [server[h] EXCEPT !.spec = s, !.gen = @ + 1])
    BY <1>1 DEF EditSpec
  <2>2. [server[h] EXCEPT !.spec = s, !.gen = @ + 1].gen = server[h].gen + 1
    BY <1>0 DEF Object
  <2>3. Raised
    BY <2>1, <2>2, StoreRaises
  <2> QED BY <1>0, <1>1, <2>3, OrderKept, HostsTyped DEF EditSpec
<1>2. CASE DeleteHost(h)
  <2> DEFINE marked == [server[h] EXCEPT !.deleting = TRUE, !.gen = @ + 1]
             gone == [server[h] EXCEPT !.exists = FALSE]
  <2>0. marked.gen = server[h].gen + 1 /\ gone.gen = server[h].gen
    BY <1>0 DEF Object
  <2>1. Store(h, marked) \/ Store(h, gone)
    BY <1>2 DEF DeleteHost
  <2> HIDE DEF marked, gone
  <2>2. Raised
    BY <2>0, <2>1, StoreRaises
  <2> QED BY <1>0, <1>2, <2>2, OrderKept, HostsTyped DEF DeleteHost
<1>3. CASE SyncCache(h)
  <2>1. \A g \in Hosts : /\ server'[g] = server[g]
                         /\ cache'[g] = IF g = h THEN server[g] ELSE cache[g]
    BY <1>3 DEF SyncCache, TypeInv
  <2>2. \A g \in Hosts : /\ cache[g].gen <= cache'[g].gen
                         /\ cache'[g].gen <= server'[g].gen
    BY <2>1, GenerationTypes DEF GenerationsOrdered
  <2>3. GenerationsOrdered'
    <3>1. \A g \in Hosts : cache'[g].gen \in Nat
      BY <2>1, GenerationTypes
    <3> QED BY <1>0, <2>2, <3>1, GenerationTypes, HostsTyped
            DEF GenerationsOrdered
  <2> QED BY <1>0, <2>3, GenerationTypes DEF Forward
<1> QED BY <1>1, <1>2, <1>3 DEF Environment

\* A launch leaves the goroutine at its start, a cancellation where it is.
LEMMA ReconcileOps ==
  ASSUME TypeInv, NEW h \in Hosts, Reconcile(h), NEW i \in Ops,
         op'[i].step = "host"
  PROVE  /\ op[i].step = "host"
         /\ op'[i].host = op[i].host /\ op'[i].gen = op[i].gen
<1>1. /\ DOMAIN Cancelled(h) = Ops
      /\ Cancelled(h)[i].step = op[i].step
      /\ Cancelled(h)[i].host = op[i].host /\ Cancelled(h)[i].gen = op[i].gen
  BY DEF Cancelled, TypeInv, Operation
<1>2. CASE UNCHANGED op
  BY <1>2
<1>3. CASE cancelHelmOperation(h)
  BY <1>1, <1>3 DEF cancelHelmOperation
<1>4. ASSUME NEW k \in Ops,
             op' = [Cancelled(h) EXCEPT ![k] =
                      [IdleOp EXCEPT !.step = "start", !.host = h,
                                     !.hash = worker[h].spec]]
      PROVE  /\ op[i].step = "host"
             /\ op'[i].host = op[i].host /\ op'[i].gen = op[i].gen
  <2>1. op'[k].step = "start"
    BY <1>1, <1>4 DEF IdleOp
  <2>2. i # k
    BY <2>1
  <2>3. op'[i] = Cancelled(h)[i]
    BY <1>1, <1>4, <2>2
  <2> QED BY <1>1, <2>3
<1> QED BY <1>2, <1>3, <1>4, ReconcileSteps DEF trySetHelmOperationActive

LEMMA ReconcileServer ==
  ASSUME TypeInv, NEW h \in Hosts, Reconcile(h)
  PROVE  Raised
<1>0. server[h] \in Object
  BY RowsTyped
<1>1. CASE UNCHANGED server
  BY <1>1, SameRaises
<1>2. CASE GetHost(h)
  <2>1. [server[h] EXCEPT !.finalizer = TRUE].gen = server[h].gen
    BY <1>0 DEF Object
  <2>2. \/ UNCHANGED server
        \/ Store(h, [server[h] EXCEPT !.finalizer = TRUE])
    BY <1>2 DEF GetHost
  <2> QED BY <1>1, <2>1, <2>2, StoreRaises
<1>3. CASE FinishTeardown(h)
  <2>1. [server[h] EXCEPT !.exists = FALSE, !.finalizer = FALSE].gen
          = server[h].gen
    BY <1>0 DEF Object
  <2> QED BY <1>1, <1>3, <2>1, StoreRaises DEF FinishTeardown
<1>4. CASE StartHelm(h)
  BY <1>1, <1>4, PatchRaises DEF StartHelm
<1>5. CASE DeferredPatch(h)
  BY <1>1, <1>5, PatchRaises DEF DeferredPatch
<1> QED BY <1>1, <1>2, <1>3, <1>4, <1>5
        DEF Reconcile, ReturnEarly, SkipHelm, trySetHelmOperationActive,
            AwaitChildren, cancelHelmOperation, UninstallHost, ListOwned,
            UninstallCompanion, api

LEMMA ReconcileReleases ==
  ASSUME TypeInv, NEW h \in Hosts, Reconcile(h), NEW g \in Hosts
  PROVE  rel'[g].gen \in {0, rel[g].gen}
<1>0. rel \in [Hosts -> Releases] /\ rel[h] \in Releases
  BY DEF TypeInv
<1>1. CASE UninstallHost(h)
  BY <1>0, <1>1 DEF UninstallHost, Releases
<1>2. CASE UninstallCompanion(h)
  BY <1>0, <1>2 DEF UninstallCompanion, Releases
<1>3. CASE UNCHANGED rel
  BY <1>3
<1> QED BY <1>1, <1>2, <1>3
        DEF Reconcile, GetHost, ReturnEarly, SkipHelm, StartHelm,
            trySetHelmOperationActive, AwaitChildren, cancelHelmOperation,
            ListOwned, FinishTeardown, DeferredPatch

LEMMA ReconcileOrdered ==
  ASSUME TypeInv, TypeInv', GenerationsOrdered, NEW h \in Hosts, Reconcile(h)
  PROVE  GenerationsOrdered' /\ Forward
<1>1. UNCHANGED cache
  BY DEF Reconcile, GetHost, ReturnEarly, SkipHelm, StartHelm,
         trySetHelmOperationActive, AwaitChildren, cancelHelmOperation,
         UninstallHost, ListOwned, UninstallCompanion, FinishTeardown,
         DeferredPatch, api
<1>2. \A i \in Ops : op'[i].step = "host" => op'[i].host \in Hosts
  BY ReconcileOps, HostsTyped
<1> QED BY <1>1, <1>2, ReconcileOps, ReconcileServer, ReconcileReleases,
           OrderKept

\* The re-read takes the generation the cache has.
LEMMA RereadOrdered ==
  ASSUME TypeInv, GenerationsOrdered, NEW i \in Ops, Reread(i),
         op' = [op EXCEPT ![i].step = "host",
                          ![i].gen = cache[op[i].host].gen,
                          ![i].spec = cache[op[i].host].spec],
         UNCHANGED rel
  PROVE  GenerationsOrdered' /\ Forward
<1>1. op[i] \in Operation /\ op[i].host \in Hosts /\ UNCHANGED <<server, cache>>
  BY DEF Reread, TypeInv, OpShape, api
<1>2. /\ \A j \in Ops : j # i => op'[j] = op[j]
      /\ op'[i].host = op[i].host /\ op'[i].gen = cache[op[i].host].gen
  BY <1>1 DEF TypeInv, Operation
<1>3. \A j \in Ops : op'[j].step = "host" =>
        /\ op'[j].gen <= cache'[op'[j].host].gen
        /\ RenderConcurrency = 1 => rel'[op'[j].host].gen <= op'[j].gen
  <2> SUFFICES ASSUME NEW j \in Ops, op'[j].step = "host"
               PROVE  /\ op'[j].gen <= cache[op'[j].host].gen
                      /\ RenderConcurrency = 1 =>
                           rel[op'[j].host].gen <= op'[j].gen
    BY <1>1
  <2>1. CASE j = i
    BY <1>1, <1>2, <2>1, GenerationTypes DEF GenerationsOrdered
  <2>2. CASE j # i
    BY <1>2, <2>2 DEF GenerationsOrdered
  <2> QED BY <2>1, <2>2
<1>4. Forward
  BY GenerationTypes DEF Forward
<1> QED BY <1>1, <1>3, <1>4 DEF GenerationsOrdered

\* The host chart is installed from what was re-read: no older than what runs,
\* and no other goroutine is about to install an older one.
LEMMA InstallOrdered ==
  ASSUME TypeInv, SlotsCounted, GenerationsOrdered, NEW i \in Ops,
         reconcileHostManagerChart(i),
         rel' = [rel EXCEPT ![op[i].host].gen = op[i].gen,
                            ![op[i].host].spec = op[i].spec],
         op' = [op EXCEPT ![i].step = "companions",
                          ![i].todo = Declares[op[i].spec]]
  PROVE  GenerationsOrdered' /\ Forward
<1> DEFINE h == op[i].host
<1>1. /\ op[i] \in Operation /\ op[i].step = "host" /\ h \in Hosts
      /\ UNCHANGED <<server, cache>>
  BY DEF reconcileHostManagerChart, TypeInv, OpShape, api
<1>2. \A g \in Hosts : rel'[g].gen = IF g = h THEN op[i].gen ELSE rel[g].gen
  BY <1>1 DEF TypeInv, Releases
<1>3. \A j \in Ops : op'[j].step = "host" => j # i /\ op'[j] = op[j]
  BY <1>1 DEF TypeInv, Operation
<1>4. Forward
  <2> SUFFICES ASSUME RenderConcurrency = 1, NEW g \in Hosts
               PROVE  rel'[g].gen >= rel[g].gen
    BY DEF Forward
  <2>1. rel[h].gen <= op[i].gen
    BY <1>1 DEF GenerationsOrdered
  <2>2. rel[g].gen \in Nat /\ op[i].gen \in Nat /\ rel[h].gen \in Nat
    BY <1>1, GenerationTypes
  <2>3. (rel'[g].gen = op[i].gen /\ g = h) \/ rel'[g].gen = rel[g].gen
    BY <1>2
  <2> QED BY <2>1, <2>2, <2>3
<1>5. \A g \in Hosts : /\ cache'[g].gen <= server'[g].gen
                       /\ rel'[g].gen <= cache'[g].gen
  BY <1>1, <1>2 DEF GenerationsOrdered
<1>6. ASSUME NEW j \in Ops, op'[j].step = "host"
      PROVE  /\ op'[j].gen <= cache'[op'[j].host].gen
             /\ RenderConcurrency = 1 => rel'[op'[j].host].gen <= op'[j].gen
  <2>1. j # i /\ op'[j] = op[j] /\ op[j].step = "host"
    BY <1>3, <1>6
  <2>2. RenderConcurrency # 1
    BY <1>1, <2>1, OneInstalls
  <2> QED BY <1>1, <2>1, <2>2 DEF GenerationsOrdered
<1> QED BY <1>4, <1>5, <1>6 DEF GenerationsOrdered

LEMMA GoroutineOrdered ==
  ASSUME TypeInv, TypeInv', SlotsCounted, GenerationsOrdered, NEW i \in Ops,
         runAsyncHelmReconcile(i)
  PROVE  GenerationsOrdered' /\ Forward
<1>0. /\ op \in [Ops -> Operation] /\ op[i] \in Operation
      /\ rel \in [Hosts -> Releases]
      /\ op[i].step # "idle" => op[i].host \in Hosts
  BY DEF TypeInv, OpShape
<1>1. UNCHANGED cache /\ Raised
  <2>1. CASE UNCHANGED <<server, cache>>
    BY <2>1, SameRaises
  <2>2. CASE updateHelmStatus(i)
    <3>1. UNCHANGED server => Raised
      BY SameRaises
    <3>2. op[i].host \in Hosts
      BY <1>0, <2>2 DEF updateHelmStatus
    <3>3. ASSUME NEW b, NEW d, PatchStatus(op[i].host, b, d) PROVE Raised
      BY <3>2, <3>3, PatchRaises
    <3> QED BY <2>2, <3>1, <3>3 DEF updateHelmStatus
  <2> QED BY <2>1, <2>2
          DEF runAsyncHelmReconcile, OpGet, acquireHelmRenderSlot,
              CancelledWaiting, Reread, reconcileHostManagerChart,
              reconcileCompanionChart, ReleaseSlot, ListUndeclared,
              pruneCompanionCharts, api
<1>2. ASSUME \A h \in Hosts : rel'[h].gen = rel[h].gen,
             op'[i].step # "host", \A j \in Ops : j # i => op'[j] = op[j]
      PROVE  GenerationsOrdered' /\ Forward
  <2>1. \A j \in Ops : op'[j].step = "host" => op'[j].host \in Hosts
    BY <1>2, HostsTyped
  <2> QED BY <1>1, <1>2, <2>1, OrderKept
<1>3. ASSUME Return(i) \/ GiveUp(i), UNCHANGED rel
      PROVE  GenerationsOrdered' /\ Forward
  <2>1. /\ op'[i].step # "host"
        /\ \A j \in Ops : j # i => op'[j] = op[j]
    BY <1>0, <1>3 DEF Return, GiveUp, IdleOp, Operation
  <2> QED BY <1>2, <1>3, <2>1
<1>a. ASSUME GiveUp(i) PROVE GenerationsOrdered' /\ Forward
  BY <1>3, <1>a DEF GiveUp
<1>b. ASSUME NEW c, Refused(i, c) PROVE GenerationsOrdered' /\ Forward
  BY <1>a, <1>b DEF Refused
<1>4. CASE OpGet(i)
  <2>1. CASE op' = [op EXCEPT ![i].step = "wait"] /\ UNCHANGED rel
    BY <1>0, <1>2, <2>1 DEF Operation
  <2> QED BY <1>3, <1>a, <1>4, <2>1 DEF OpGet, Fail
<1>5. CASE acquireHelmRenderSlot(i) \/ ReleaseSlot(i)
  BY <1>0, <1>2, <1>5 DEF acquireHelmRenderSlot, ReleaseSlot, Operation, aux
<1>6. CASE CancelledWaiting(i) \/ updateHelmStatus(i)
  BY <1>3, <1>6 DEF CancelledWaiting, updateHelmStatus
<1>7. CASE Reread(i)
  BY <1>3, <1>a, <1>7, RereadOrdered DEF Reread, Fail
<1>8. CASE reconcileHostManagerChart(i)
  BY <1>a, <1>b, <1>8, InstallOrdered DEF reconcileHostManagerChart, Fail
<1>9. CASE reconcileCompanionChart(i)
  <2>1. ASSUME NEW c, op' = [op EXCEPT ![i].todo = @ \ {c}],
               rel' = [rel EXCEPT ![op[i].host].companions = @ \cup {c}]
        PROVE  GenerationsOrdered' /\ Forward
    <3>1. /\ op'[i].step = "companions"
          /\ \A j \in Ops : j # i => op'[j] = op[j]
      BY <1>0, <1>9, <2>1 DEF reconcileCompanionChart, Operation
    <3>2. \A h \in Hosts : rel'[h].gen = rel[h].gen
      BY <1>0, <2>1 DEF Releases
    <3> QED BY <1>2, <3>1, <3>2
  <2> QED BY <1>a, <1>b, <1>9, <2>1 DEF reconcileCompanionChart, Fail
<1>10. CASE ListUndeclared(i)
  <2>1. CASE /\ op' = [op EXCEPT ![i].step = "prune",
               ![i].todo = rel[op[i].host].companions \ Declares[op[i].spec]]
             /\ UNCHANGED rel
    BY <1>0, <1>2, <2>1 DEF Operation
  <2> QED BY <1>a, <1>10, <2>1 DEF ListUndeclared, Fail
<1>11. CASE pruneCompanionCharts(i)
  <2>1. ASSUME NEW c, op' = [op EXCEPT ![i].todo = @ \ {c}],
               rel' = [rel EXCEPT ![op[i].host].companions = @ \ {c},
                                  ![op[i].host].wedged = @ \ {c}]
        PROVE  GenerationsOrdered' /\ Forward
    <3>1. /\ op'[i].step = "prune"
          /\ \A j \in Ops : j # i => op'[j] = op[j]
      BY <1>0, <1>11, <2>1 DEF pruneCompanionCharts, Operation
    <3>2. \A h \in Hosts : rel'[h].gen = rel[h].gen
      BY <1>0, <2>1 DEF Releases
    <3> QED BY <1>2, <3>1, <3>2
  <2>2. CASE op' = [op EXCEPT ![i].step = "report"] /\ UNCHANGED rel
    BY <1>0, <1>2, <2>2 DEF Operation
  <2> QED BY <1>a, <1>11, <2>1, <2>2 DEF pruneCompanionCharts
<1> QED BY <1>4, <1>5, <1>6, <1>7, <1>8, <1>9, <1>10, <1>11
        DEF runAsyncHelmReconcile

\* A restart that cuts the install short leaves the re-read generation behind.
LEMMA RestartOrdered ==
  ASSUME TypeInv, TypeInv', GenerationsOrdered, Restart
  PROVE  GenerationsOrdered' /\ Forward
<1>1. /\ cache' = server /\ server' = server
      /\ \A i \in Ops : op'[i].step = "idle"
  BY DEF Restart, IdleOp
<1>2. PICK busy, chart : /\ Cuts(busy, chart)
                         /\ rel' = [h \in Hosts |-> CutOff(h, chart)]
  BY RestartCuts
<1>3. ASSUME NEW h \in Hosts
      PROVE  /\ rel'[h].gen <= cache[h].gen
             /\ RenderConcurrency = 1 => rel'[h].gen >= rel[h].gen
  <2> DEFINE At(c) == {i \in DOMAIN chart : op[i].host = h /\ chart[i] = c}
             one == CHOOSE i \in At(None) : TRUE
             cut == {c \in Companions \cup {None} : At(c) # {}}
  <2>1. rel'[h].gen = IF None \in cut THEN op[one].gen ELSE rel[h].gen
    BY <1>2 DEF CutOff
  <2>2. None \in cut => one \in At(None)
    OBVIOUS
  <2>3. None \in cut => /\ one \in Ops /\ op[one].host = h
                        /\ None \in InFlight(one)
    BY <1>2, <2>2 DEF Cuts
  <2>4. \A i \in Ops : None \in InFlight(i) => op[i].step = "host"
    BY DEF InFlight, TypeInv, Operation
  <2> HIDE DEF cut, one
  <2>5. CASE None \in cut
    BY <2>1, <2>3, <2>4, <2>5, GenerationTypes DEF GenerationsOrdered
  <2>6. CASE None \notin cut
    BY <2>1, <2>6, GenerationTypes DEF GenerationsOrdered
  <2> QED BY <2>5, <2>6
<1>4. \A h \in Hosts : rel'[h].gen \in Nat
  BY DEF TypeInv, Releases
<1>5. \A h \in Hosts : /\ cache'[h].gen <= server'[h].gen
                       /\ rel'[h].gen <= cache'[h].gen
  BY <1>1, <1>3, <1>4, GenerationTypes DEF GenerationsOrdered
<1> QED BY <1>1, <1>3, <1>5 DEF GenerationsOrdered, Forward

-----------------------------------------------------------------------------

LEMMA InitOrdered == Init => GenerationsOrdered
BY DEF Init, GenerationsOrdered, NewHost, NoReleases, IdleOp

LEMMA NextOrdered ==
  ASSUME TypeInv, TypeInv', SlotsCounted, GenerationsOrdered, [Next]_vars
  PROVE  GenerationsOrdered' /\ Forward
<1>1. CASE UNCHANGED vars
  BY <1>1, GenerationTypes DEF vars, GenerationsOrdered, Forward
<1> QED BY <1>1, EnvironmentOrdered, ReconcileOrdered, GoroutineOrdered,
           RestartOrdered DEF Next

\* With --helm-render-concurrency=1 the host chart is never re-rendered from an
\* older generation than the one it runs, whatever goroutines were superseded,
\* however stale the cache and wherever the controller was killed.
THEOREM HostChartForward == Spec => HostChartNeverRegresses
<1>1. TypeInv /\ SlotsCounted /\ GenerationsOrdered /\ [Next]_vars
        => GenerationsOrdered'
  BY NextTyped, NextOrdered
<1>2. TypeInv /\ SlotsCounted /\ GenerationsOrdered /\ [Next]_vars
        => [RenderConcurrency = 1 =>
              \A h \in Hosts : rel'[h].gen # 0 => rel'[h].gen >= rel[h].gen]_vars
  BY NextTyped, NextOrdered DEF Forward
<1>3. Spec => []GenerationsOrdered
  BY <1>1, Typed, SlotAccounting, InitOrdered, PTL DEF Spec
<1> QED BY <1>2, <1>3, Typed, SlotAccounting, PTL
        DEF Spec, HostChartNeverRegresses

=============================================================================
