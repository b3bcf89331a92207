------------------------ MODULE HelmTeardownProofs ------------------------
(***************************************************************************)
(* For every fleet, spec set and bound: a host whose teardown began with   *)
(* no goroutine installing its charts leaves no release behind.            *)
(***************************************************************************)
EXTENDS HelmReleaseProofs

USE ConstantsAssumption

-----------------------------------------------------------------------------
(* The inductive invariant of one host *)

\* The finalizer was added, or the object is terminating.
Started(h) == server[h].finalizer \/ server[h].deleting

\* The teardown has dropped the finalizer.
Gone(h) == server[h].deleting /\ ~server[h].exists

Teardown == {"teardown", "uninstall_host", "list_owned", "uninstall_companions"}

\* Nothing is installed before the finalizer is there, and what the informer
\* shows was once on the server.
ObjectInv(h) ==
  /\ ~Started(h) =>
       /\ rel[h] = NoReleases
       /\ \A i \in Ops : op[i].host # h
       /\ worker[h].step \in {"idle", "defer"}
       /\ ~cache[h].finalizer
  /\ ~server[h].exists /\ ~server[h].deleting => ~server[h].finalizer
  /\ cache[h].deleting => server[h].deleting
  /\ "cache" \in current[h] => cache[h] = server[h]
  /\ "worker" \in current[h] => "cache" \in current[h]

\* A teardown is of a terminating host, which no re-read renders again; once it
\* has dropped the finalizer no second teardown begins from a stale copy.
TeardownInv(h) ==
  /\ worker[h].step \in Teardown =>
       /\ server[h].exists /\ server[h].deleting /\ cache[h].deleting
       /\ "worker" \in current[h] => ~queued[h]
  /\ Gone(h) =>
       /\ cache[h].deleting \/ ~cache[h].exists
       /\ worker[h].step \in {"idle", "defer"}
       /\ cache[h].exists =>
            ~queued[h] /\ ~(worker[h].step = "defer" /\ worker[h].requeue)

\* What a teardown that began with no goroutine installing has achieved.
ReleaseInv(h) ==
  ~raced[h] =>
    /\ worker[h].step \in Teardown \ {"teardown"} \/ Gone(h) =>
         \A i \in Ops : ~Installing(i, h)
    /\ \/ worker[h].step \in {"list_owned", "uninstall_companions"}
          /\ ~worker[h].failed
       \/ Gone(h)
       => rel[h].gen = 0 /\ rel[h].spec = None /\ None \notin rel[h].wedged
    /\ worker[h].step = "uninstall_companions" /\ ~worker[h].failed =>
         rel[h].companions \subseteq worker[h].todo
    /\ Gone(h) => rel[h].companions = {}

\* A companion whose release is pending is one of the host's.
WedgedInv(h) == rel[h].wedged \subseteq rel[h].companions \cup {None}

HostInv(h) ==
  ObjectInv(h) /\ TeardownInv(h) /\ ReleaseInv(h) /\ WedgedInv(h)

-----------------------------------------------------------------------------
(* What the steps of others leave of a host *)

\* The host's own state is as it was.
RowsKept(h) ==
  /\ server'[h] = server[h] /\ cache'[h] = cache[h] /\ current'[h] = current[h]
  /\ queued'[h] = queued[h] /\ worker'[h] = worker[h] /\ rel'[h] = rel[h]
  /\ raced'[h] = raced[h]

\* No goroutine becomes the host's, and none starts to install.
OpsKept(h) ==
  \A i \in Ops : /\ op'[i].host = h => op[i].host = h
                 /\ Installing(i, h)' => Installing(i, h)

LEMMA KeptInv ==
  ASSUME NEW h \in Hosts, HostInv(h), RowsKept(h), OpsKept(h)
  PROVE  HostInv(h)'
BY DEF HostInv, ObjectInv, TeardownInv, ReleaseInv, WedgedInv, RowsKept,
       OpsKept, Started, Gone

\* Goroutines keep the host they were started for.
LEMMA SameOpsKept ==
  ASSUME NEW h \in Hosts, UNCHANGED op PROVE OpsKept(h)
BY DEF OpsKept, Installing

LEMMA CancelledKept ==
  ASSUME TypeInv, NEW g \in Hosts, NEW i \in Ops
  PROVE  /\ Cancelled(g)[i].host = op[i].host
         /\ Cancelled(g)[i].step = op[i].step
         /\ Cancelled(g)[i].todo = op[i].todo
<1>1. CASE active[g] = None
  BY <1>1 DEF Cancelled
<1>2. CASE active[g] # None
  BY <1>2 DEF Cancelled, TypeInv, Operation
<1> QED BY <1>1, <1>2

\* A launch adds an idle goroutine that belongs to the launching host.
LEMMA LaunchOps ==
  ASSUME TypeInv, NEW g \in Hosts, trySetHelmOperationActive(g)
  PROVE  \A i \in Ops :
           /\ op'[i].host \in {op[i].host, g}
           /\ \A h \in Hosts : Installing(i, h)' => Installing(i, h)
<1>1. CASE UNCHANGED op
  BY <1>1 DEF Installing
<1>2. ASSUME NEW k \in Ops,
             op' = [Cancelled(g) EXCEPT ![k] =
                      [IdleOp EXCEPT !.step = "start", !.host = g,
                                     !.hash = worker[g].spec]]
      PROVE  \A i \in Ops :
               /\ op'[i].host \in {op[i].host, g}
               /\ \A h \in Hosts : Installing(i, h)' => Installing(i, h)
  <2>1. DOMAIN Cancelled(g) = Ops
    BY DEF Cancelled, TypeInv
  <2>2. op'[k].step = "start" /\ op'[k].host = g
    BY <1>2, <2>1 DEF IdleOp
  <2>3. \A i \in Ops : i # k => op'[i] = Cancelled(g)[i]
    BY <1>2, <2>1
  <2> QED BY <2>2, <2>3, CancelledKept DEF Installing
<1> QED BY <1>1, <1>2 DEF trySetHelmOperationActive

\* A teardown cancels a goroutine, which changes no host and no chart to go.
LEMMA CancelOps ==
  ASSUME TypeInv, NEW g \in Hosts, cancelHelmOperation(g), NEW h \in Hosts
  PROVE  /\ OpsKept(h)
         /\ \A i \in Ops : Installing(i, h)' = Installing(i, h)
BY CancelledKept DEF cancelHelmOperation, OpsKept, Installing

\* What another host's controller or users do does not show here.
LEMMA OtherHostInv ==
  ASSUME TypeInv, NEW g \in Hosts, NEW h \in Hosts, g # h, HostInv(h),
         Environment(g) \/ Reconcile(g)
  PROVE  HostInv(h)'
<1>1. RowsKept(h)
  <2>1. CASE Environment(g)
    BY <2>1 DEF Environment, EditSpec, DeleteHost, SyncCache, Store, TypeInv,
                RowsKept, memory, aux
  <2>2. CASE Reconcile(g)
    BY <2>2 DEF Reconcile, GetHost, ReturnEarly, SkipHelm, StartHelm,
         trySetHelmOperationActive, AwaitChildren, cancelHelmOperation,
         UninstallHost, ListOwned, UninstallCompanion, FinishTeardown,
         DeferredPatch, AfterHelm, GoDefer, PatchStatus, Store, TypeInv,
         RowsKept, api, aux
  <2> QED BY <2>1, <2>2
<1>2. OpsKept(h)
  <2>1. CASE UNCHANGED op
    BY <2>1, SameOpsKept
  <2>2. CASE trySetHelmOperationActive(g)
    BY <2>2, LaunchOps DEF OpsKept
  <2>3. CASE cancelHelmOperation(g)
    BY <2>3, CancelOps
  <2> QED BY <2>1, <2>2, <2>3, ReconcileSteps
<1> QED BY <1>1, <1>2, KeptInv

-----------------------------------------------------------------------------
(* Users, the informer and restarts *)

LEMMA EnvironmentInv ==
  ASSUME TypeInv, NEW h \in Hosts, HostInv(h), Environment(h)
  PROVE  HostInv(h)'
<1>0. UNCHANGED <<worker, op, rel, raced>> /\ server[h] \in Object
  BY RowsTyped DEF Environment, EditSpec, DeleteHost, SyncCache, memory, aux
<1>1. CASE EditSpec(h)
  <2>1. PICK s : Store(h, [server[h] EXCEPT !.spec = s, !.gen = @ + 1])
    BY <1>1 DEF EditSpec
  <2>2. /\ server'[h].exists = server[h].exists
        /\ server'[h].deleting = server[h].deleting
        /\ server'[h].finalizer = server[h].finalizer
    BY <1>0, <2>1 DEF Store, TypeInv, Object
  <2>3. current'[h] = {} \/ (server'[h] = server[h] /\ current'[h] = current[h])
    BY <2>1 DEF Store, TypeInv
  <2>4. cache'[h] = cache[h] /\ queued'[h] = queued[h]
    BY <1>1 DEF EditSpec
  <2> QED BY <1>0, <2>2, <2>3, <2>4
          DEF HostInv, ObjectInv, TeardownInv, ReleaseInv, WedgedInv, Started,
              Gone, Installing
<1>2. CASE DeleteHost(h)
  <2>1. /\ server[h].exists /\ ~server[h].deleting
        /\ Store(h, IF server[h].finalizer
                    THEN [server[h] EXCEPT !.deleting = TRUE, !.gen = @ + 1]
                    ELSE [server[h] EXCEPT !.exists = FALSE])
    BY <1>2 DEF DeleteHost
  <2>2. /\ server'[h].finalizer = server[h].finalizer
        /\ server'[h].deleting = server[h].finalizer
        /\ server'[h].exists = server[h].finalizer
    BY <1>0, <2>1 DEF Store, TypeInv, Object
  <2>3. current'[h] = {}
    BY <1>0, <2>1, <2>2 DEF Store, TypeInv, Object
  <2>4. cache'[h] = cache[h] /\ queued'[h] = queued[h]
    BY <1>2 DEF DeleteHost
  <2> QED BY <1>0, <2>1, <2>2, <2>3, <2>4
          DEF HostInv, ObjectInv, TeardownInv, ReleaseInv, WedgedInv, Started,
              Gone, Installing
<1>3. CASE SyncCache(h)
  <2>1. /\ "cache" \notin current[h] /\ server'[h] = server[h]
        /\ cache'[h] = server[h] /\ current'[h] = current[h] \cup {"cache"}
    BY <1>3 DEF SyncCache, TypeInv
  <2> QED BY <1>0, <2>1
          DEF HostInv, ObjectInv, TeardownInv, ReleaseInv, WedgedInv, Started,
              Gone, Installing
<1> QED BY <1>1, <1>2, <1>3 DEF Environment

\* Without a goroutine installing its charts a host keeps its releases, and
\* otherwise a pending companion is one of the host's all the same.
LEMMA CutOffReleases ==
  ASSUME TypeInv, NEW h \in Hosts, HostInv(h), NEW busy, NEW chart,
         Cuts(busy, chart), rel'[h] = CutOff(h, chart)
  PROVE  /\ (\A i \in Ops : ~Installing(i, h)) => rel'[h] = rel[h]
         /\ WedgedInv(h)'
<1> DEFINE At(c) == {i \in DOMAIN chart : op[i].host = h /\ chart[i] = c}
           one == CHOOSE i \in At(None) : TRUE
           cut == {c \in Companions \cup {None} : At(c) # {}}
<1>1. rel'[h] =
        [gen |-> IF None \in cut THEN op[one].gen ELSE rel[h].gen,
         spec |-> IF None \in cut THEN op[one].spec ELSE rel[h].spec,
         companions |-> rel[h].companions \cup (cut \ {None}),
         wedged |-> rel[h].wedged \cup cut]
  BY DEF CutOff
<1>2. \A i \in DOMAIN chart : op[i].host = h => Installing(i, h)
  BY DEF Cuts, InFlight, Installing
<1>3. (\A i \in Ops : ~Installing(i, h)) => cut = {}
  BY <1>2 DEF Cuts
<1>4. rel[h] \in Releases
  BY RowsTyped
<1> HIDE DEF cut, one
<1>5. cut = {} => rel'[h] = rel[h]
  BY <1>1, <1>4 DEF Releases
<1>6. WedgedInv(h)'
  BY <1>1 DEF HostInv, WedgedInv
<1> QED BY <1>3, <1>5, <1>6

LEMMA RestartInv ==
  ASSUME TypeInv, NEW h \in Hosts, HostInv(h), Restart
  PROVE  HostInv(h)'
<1>1. /\ server'[h] = server[h] /\ cache'[h] = server[h]
      /\ current'[h] = {"cache"} /\ queued'[h] = server[h].exists
      /\ worker'[h] = IdleWorker /\ raced'[h] = raced[h]
  BY DEF Restart, TypeInv
<1>2. \A i \in Ops : op'[i].host # h /\ ~Installing(i, h)'
  BY DEF Restart, IdleOp, Installing
<1>3. IdleWorker.step = "idle"
  BY DEF IdleWorker
<1>4. /\ (\A i \in Ops : ~Installing(i, h)) => rel'[h] = rel[h]
      /\ WedgedInv(h)'
  <2>1. PICK busy, chart : Cuts(busy, chart) /\ rel'[h] = CutOff(h, chart)
    BY RestartCuts
  <2> QED BY <2>1, CutOffReleases
<1>5. ObjectInv(h)'
  BY <1>1, <1>2, <1>3, <1>4 DEF HostInv, ObjectInv, Started, Installing
<1>6. TeardownInv(h)' /\ ReleaseInv(h)'
  BY <1>1, <1>2, <1>3, <1>4
     DEF HostInv, TeardownInv, ReleaseInv, Gone, Teardown
<1> QED BY <1>4, <1>5, <1>6 DEF HostInv

-----------------------------------------------------------------------------
(* Goroutines *)

\* What a goroutine of any host may do to the state of host h.
GoroutineView(h) ==
  /\ /\ server'[h].exists = server[h].exists
     /\ server'[h].deleting = server[h].deleting
     /\ server'[h].finalizer = server[h].finalizer
  /\ \/ server'[h] = server[h] /\ current'[h] = current[h]
     \/ current'[h] = {}
  /\ UNCHANGED <<cache, queued, worker, raced>>
  /\ \A i \in Ops : /\ op'[i].host = h => op[i].host = h
                    /\ Installing(i, h)' => Installing(i, h) \/ ~Abandoned(h)
  /\ \/ rel'[h] = rel[h]
     \/ \E i \in Ops : op[i].host = h /\ Installing(i, h)
     \/ /\ \E i \in Ops : op[i].host = h
        /\ rel'[h].gen = rel[h].gen /\ rel'[h].spec = rel[h].spec
        /\ rel'[h].companions \subseteq rel[h].companions
        /\ rel'[h].wedged \subseteq rel[h].wedged
  /\ WedgedInv(h) => WedgedInv(h)'

LEMMA GoroutineViewInv ==
  ASSUME TypeInv, NEW h \in Hosts, HostInv(h), GoroutineView(h)
  PROVE  HostInv(h)'
<1>1. ObjectInv(h)'
  BY DEF HostInv, ObjectInv, GoroutineView, Started
<1>2. TeardownInv(h)'
  BY DEF HostInv, TeardownInv, ObjectInv, GoroutineView, Gone
<1>3. worker[h].step \in Teardown \/ Gone(h) => Abandoned(h)
  BY DEF HostInv, TeardownInv, Abandoned
<1>4. ReleaseInv(h)'
  BY <1>3 DEF HostInv, ReleaseInv, GoroutineView, Gone, Teardown
<1>5. WedgedInv(h)'
  BY DEF HostInv, GoroutineView
<1> QED BY <1>1, <1>2, <1>4, <1>5 DEF HostInv

\* The row of one goroutine, and what it may do to its releases.
LEMMA OpView ==
  ASSUME TypeInv, NEW i \in Ops, NEW h \in Hosts,
         UNCHANGED <<cache, queued, worker, raced>>,
         \A g \in Hosts :
           /\ server'[g].exists = server[g].exists
           /\ server'[g].deleting = server[g].deleting
           /\ server'[g].finalizer = server[g].finalizer
           /\ \/ server'[g] = server[g] /\ current'[g] = current[g]
              \/ current'[g] = {},
         \A j \in Ops : j # i => op'[j] = op[j],
         op'[i].host \in {op[i].host, None},
         Installing(i, h)' => Installing(i, h) \/ ~Abandoned(h),
         \/ rel'[h] = rel[h]
         \/ Installing(i, h)
         \/ /\ op[i].host = h
            /\ rel'[h].gen = rel[h].gen /\ rel'[h].spec = rel[h].spec
            /\ rel'[h].companions \subseteq rel[h].companions
            /\ rel'[h].wedged \subseteq rel[h].wedged,
         WedgedInv(h) => WedgedInv(h)'
  PROVE  GoroutineView(h)
BY DEF GoroutineView, Installing

\* The server as a goroutine leaves it.
ServerKept ==
  \A g \in Hosts :
    /\ server'[g].exists = server[g].exists
    /\ server'[g].deleting = server[g].deleting
    /\ server'[g].finalizer = server[g].finalizer
    /\ \/ server'[g] = server[g] /\ current'[g] = current[g]
       \/ current'[g] = {}

LEMMA PatchKept ==
  ASSUME TypeInv, NEW g \in Hosts, NEW b, NEW d, PatchStatus(g, b, d)
  PROVE  ServerKept
<1>1. CASE UNCHANGED <<server, current>>
  BY <1>1 DEF ServerKept
<1>2. CASE Store(g, [server[g] EXCEPT !.attrs = MergePatch(@, b, d)])
  <2>1. server[g] \in Object
    BY DEF TypeInv
  <2>2. \A k \in Hosts : k # g => server'[k] = server[k] /\ current'[k] = current[k]
    BY <1>2 DEF Store, TypeInv
  <2>3. /\ server'[g].exists = server[g].exists
        /\ server'[g].deleting = server[g].deleting
        /\ server'[g].finalizer = server[g].finalizer
    BY <1>2, <2>1 DEF Store, TypeInv, Object
  <2>4. (server'[g] = server[g] /\ current'[g] = current[g]) \/ current'[g] = {}
    BY <1>2 DEF Store, TypeInv
  <2> QED BY <2>2, <2>3, <2>4 DEF ServerKept
<1> QED BY <1>1, <1>2 DEF PatchStatus

\* A goroutine that returns or fails installs nothing any more.
LEMMA ReturnRow ==
  ASSUME TypeInv, NEW i \in Ops, NEW h \in Hosts, Return(i) \/ GiveUp(i)
  PROVE  /\ \A j \in Ops : j # i => op'[j] = op[j]
         /\ op'[i].host \in {op[i].host, None} /\ ~Installing(i, h)'
<1>0. op \in [Ops -> Operation] /\ op[i] \in Operation
  BY DEF TypeInv
<1>1. CASE Return(i)
  BY <1>0, <1>1 DEF Return, IdleOp, Installing
<1>2. CASE GiveUp(i)
  BY <1>0, <1>2 DEF GiveUp, Installing, Operation
<1> QED BY <1>1, <1>2

LEMMA OpInv ==
  ASSUME TypeInv, NEW h \in Hosts, HostInv(h),
         NEW i \in Ops, runAsyncHelmReconcile(i)
  PROVE  HostInv(h)'
<1>0. /\ op \in [Ops -> Operation] /\ op[i] \in Operation
      /\ rel \in [Hosts -> Releases]
      /\ op[i].step # "idle" => op[i].host \in Hosts
  BY DEF TypeInv, OpShape
<1>1. ServerKept /\ UNCHANGED <<cache, queued, worker, raced>>
  <2>1. CASE UNCHANGED <<server, current>>
    BY <2>1 DEF runAsyncHelmReconcile, OpGet, acquireHelmRenderSlot,
         CancelledWaiting, Reread, reconcileHostManagerChart,
         reconcileCompanionChart, ReleaseSlot, ListUndeclared,
         pruneCompanionCharts, updateHelmStatus, ServerKept, api, aux
  <2>2. CASE updateHelmStatus(i)
    BY <1>0, <2>1, <2>2, PatchKept DEF updateHelmStatus
  <2> QED BY <2>1, <2>2
          DEF runAsyncHelmReconcile, OpGet, acquireHelmRenderSlot,
              CancelledWaiting, Reread, reconcileHostManagerChart,
              reconcileCompanionChart, ReleaseSlot, ListUndeclared,
              pruneCompanionCharts, api
<1> DEFINE Others == \A j \in Ops : j # i => op'[j] = op[j]
           Host == op'[i].host \in {op[i].host, None}
           Starts == Installing(i, h)' => Installing(i, h) \/ ~Abandoned(h)
           Charts == \/ rel'[h] = rel[h]
                     \/ Installing(i, h)
                     \/ /\ op[i].host = h
                        /\ rel'[h].gen = rel[h].gen
                        /\ rel'[h].spec = rel[h].spec
                        /\ rel'[h].companions \subseteq rel[h].companions
                        /\ rel'[h].wedged \subseteq rel[h].wedged
           Wedges == WedgedInv(h) => WedgedInv(h)'
           View == Others /\ Host /\ Starts /\ Charts /\ Wedges
<1> SUFFICES View
  BY <1>1, OpView, GoroutineViewInv DEF ServerKept
<1>a. UNCHANGED rel => Charts /\ Wedges
  BY DEF WedgedInv
<1>2. ASSUME Return(i) \/ GiveUp(i), UNCHANGED rel PROVE View
  BY <1>a, <1>2, ReturnRow
<1>b. GiveUp(i) => View
  BY <1>2 DEF GiveUp
<1> HIDE DEF Wedges
<1>3. CASE OpGet(i)
  <2>1. CASE op' = [op EXCEPT ![i].step = "wait"] /\ UNCHANGED rel
    BY <1>0, <1>a, <2>1 DEF Installing, Operation
  <2> QED BY <1>2, <1>b, <1>3, <2>1 DEF OpGet, Fail
<1>4. CASE acquireHelmRenderSlot(i)
  BY <1>0, <1>a, <1>4 DEF acquireHelmRenderSlot, Installing, Operation
<1>5. CASE CancelledWaiting(i)
  BY <1>2, <1>5 DEF CancelledWaiting
<1>6. CASE Reread(i)
  <2>1. CASE /\ ~Abandoned(op[i].host) /\ UNCHANGED rel
             /\ op' = [op EXCEPT ![i].step = "host",
                                 ![i].gen = cache[op[i].host].gen,
                                 ![i].spec = cache[op[i].host].spec]
    BY <1>0, <1>a, <2>1 DEF Installing, Operation
  <2> QED BY <1>2, <1>b, <1>6, <2>1 DEF Reread, Fail
<1>7. CASE reconcileHostManagerChart(i)
  <2>1. CASE /\ rel' = [rel EXCEPT ![op[i].host].gen = op[i].gen,
                                   ![op[i].host].spec = op[i].spec]
             /\ op' = [op EXCEPT ![i].step = "companions",
                                 ![i].todo = Declares[op[i].spec]]
    <3>1. Others /\ op'[i].host = op[i].host
      BY <1>0, <2>1 DEF Operation
    <3>2. op[i].host = h => Installing(i, h)
      BY <1>7 DEF reconcileHostManagerChart, Installing
    <3>3. op[i].host # h => rel'[h] = rel[h] /\ ~Installing(i, h)'
      BY <1>0, <2>1, <3>1 DEF Installing
    <3>4. Wedges
      BY <1>0, <2>1 DEF Wedges, WedgedInv, Releases
    <3> QED BY <3>1, <3>2, <3>3, <3>4
  <2> QED BY <1>b, <1>7, <2>1 DEF reconcileHostManagerChart, Fail, Refused
<1>8. CASE reconcileCompanionChart(i)
  <2>1. ASSUME NEW c \in op[i].todo,
               rel' = [rel EXCEPT ![op[i].host].companions = @ \cup {c}],
               op' = [op EXCEPT ![i].todo = @ \ {c}]
        PROVE  View
    <3>1. Others /\ op'[i].host = op[i].host
      BY <1>0, <2>1 DEF Operation
    <3>2. op[i].host = h => Installing(i, h)
      BY <1>8, <2>1 DEF reconcileCompanionChart, Installing
    <3>3. op[i].host # h => rel'[h] = rel[h] /\ ~Installing(i, h)'
      BY <1>0, <2>1, <3>1 DEF Installing
    <3>4. Wedges
      BY <1>0, <2>1 DEF Wedges, WedgedInv, Releases
    <3> QED BY <3>1, <3>2, <3>3, <3>4
  <2>2. ASSUME NEW c, Refused(i, c) PROVE View
    BY <1>b, <2>2 DEF Refused
  <2> QED BY <1>b, <1>8, <2>1, <2>2 DEF reconcileCompanionChart, Fail
<1>9. CASE ReleaseSlot(i)
  BY <1>0, <1>a, <1>9 DEF ReleaseSlot, Installing, Operation
<1>10. CASE ListUndeclared(i)
  <2>1. CASE /\ op' = [op EXCEPT ![i].step = "prune",
                   ![i].todo = rel[op[i].host].companions \ Declares[op[i].spec]]
             /\ UNCHANGED rel
    BY <1>0, <1>a, <2>1 DEF Installing, Operation
  <2> QED BY <1>b, <1>10, <2>1 DEF ListUndeclared, Fail
<1>11. CASE pruneCompanionCharts(i)
  <2>1. ASSUME NEW c \in op[i].todo,
               rel' = [rel EXCEPT ![op[i].host].companions = @ \ {c},
                                  ![op[i].host].wedged = @ \ {c}],
               op' = [op EXCEPT ![i].todo = @ \ {c}]
        PROVE  View
    <3>1. Others /\ op'[i].host = op[i].host /\ op'[i].step = "prune"
      BY <1>0, <1>11, <2>1 DEF pruneCompanionCharts, Operation
    <3>2. ~Installing(i, h)'
      BY <3>1 DEF Installing
    <3>3. CASE op[i].host = h
      <4>1. rel[h] \in Releases
        BY <1>0
      <4>2. rel'[h] = [rel[h] EXCEPT !.companions = @ \ {c},
                                     !.wedged = @ \ {c}]
        BY <1>0, <2>1, <3>3
      <4>3. /\ rel'[h].gen = rel[h].gen /\ rel'[h].spec = rel[h].spec
            /\ rel'[h].companions = rel[h].companions \ {c}
            /\ rel'[h].wedged = rel[h].wedged \ {c}
        BY <4>1, <4>2 DEF Releases
      <4>4. Wedges
        BY <4>3 DEF Wedges, WedgedInv
      <4> QED BY <3>1, <3>2, <3>3, <4>3, <4>4
    <3>4. CASE op[i].host # h
      BY <1>0, <1>a, <2>1, <3>1, <3>2, <3>4 DEF Wedges, WedgedInv
    <3> QED BY <3>3, <3>4
  <2>2. CASE op' = [op EXCEPT ![i].step = "report"] /\ UNCHANGED rel
    BY <1>0, <1>a, <2>2 DEF Installing, Operation
  <2> QED BY <1>b, <1>11, <2>1, <2>2 DEF pruneCompanionCharts
<1>12. CASE updateHelmStatus(i)
  BY <1>2, <1>12 DEF updateHelmStatus
<1> QED BY <1>3, <1>4, <1>5, <1>6, <1>7, <1>8, <1>9, <1>10, <1>11, <1>12
        DEF runAsyncHelmReconcile

-----------------------------------------------------------------------------
(* The Reconcile call of the host itself *)

\* Steps before the teardown that write no object and end in no teardown step.
LEMMA LiveInv ==
  ASSUME TypeInv, NEW h \in Hosts, HostInv(h),
         worker[h].step \in {"helm", "launch"},
         worker'[h].step \notin Teardown,
         ServerKept, UNCHANGED <<cache, queued, rel, raced>>,
         \A i \in Ops : Installing(i, h)' => Installing(i, h)
  PROVE  HostInv(h)'
<1>1. Started(h) /\ ~Gone(h)
  BY DEF HostInv, ObjectInv, TeardownInv
<1>2. Started(h)' /\ ~Gone(h)'
  BY <1>1 DEF ServerKept, Started, Gone
<1>3. ObjectInv(h)'
  BY <1>2 DEF HostInv, ObjectInv, ServerKept
<1>4. TeardownInv(h)' /\ ReleaseInv(h)' /\ WedgedInv(h)'
  BY <1>2 DEF HostInv, TeardownInv, ReleaseInv, WedgedInv, Teardown
<1> QED BY <1>3, <1>4 DEF HostInv

LEMMA GetHostInv ==
  ASSUME TypeInv, NEW h \in Hosts, HostInv(h), GetHost(h)
  PROVE  HostInv(h)'
<1>0. /\ worker[h].step = "idle" /\ queued[h] /\ ~queued'[h]
      /\ UNCHANGED <<cache, op, rel, raced>>
      /\ cache[h] \in Object /\ server[h] \in Object
      /\ ~Gone(h) \/ ~cache[h].exists
      /\ \A i \in Ops : Installing(i, h)' = Installing(i, h)
  BY RowsTyped DEF GetHost, TypeInv, HostInv, TeardownInv, aux, Installing
<1> DEFINE Enters(step, requeue) ==
      /\ worker'[h].step = step /\ ~worker'[h].failed
      /\ worker'[h].requeue = requeue
    Reads == current'[h] = IF "cache" \in current[h]
                           THEN current[h] \cup {"worker"}
                           ELSE current[h] \ {"worker"}
<1>7. ASSUME NEW s, NEW r,
             worker' = [worker EXCEPT ![h] =
               [IdleWorker EXCEPT !.step = s, !.spec = cache[h].spec,
                                  !.attrs = cache[h].attrs, !.requeue = r]]
      PROVE  Enters(s, r)
  BY <1>7 DEF IdleWorker, TypeInv
<1> HIDE DEF Enters
<1>8. current' = [current EXCEPT ![h] =
                    IF "cache" \in @ THEN @ \cup {"worker"} ELSE @ \ {"worker"}]
        => Reads
  BY DEF TypeInv
<1> HIDE DEF Reads
<1>1. \/ ~cache[h].exists /\ UNCHANGED <<server, current, worker>>
      \/ /\ cache[h].exists /\ ~cache[h].deleting /\ ~cache[h].finalizer
         /\ Enters("defer", TRUE)
         /\ IF "cache" \in current[h]
            THEN Store(h, [server[h] EXCEPT !.finalizer = TRUE])
            ELSE UNCHANGED <<server, current>>
      \/ /\ cache[h].exists /\ ~cache[h].deleting /\ cache[h].finalizer
         /\ Enters("helm", FALSE) /\ Reads /\ UNCHANGED server
      \/ /\ cache[h].exists /\ cache[h].deleting /\ cache[h].finalizer
         /\ Enters("teardown", FALSE) /\ Reads /\ UNCHANGED server
      \/ /\ cache[h].exists /\ cache[h].deleting /\ ~cache[h].finalizer
         /\ Enters("defer", FALSE) /\ UNCHANGED <<server, current>>
  BY <1>7, <1>8, Zenon DEF GetHost
<1> USE DEF Reads
<1>2. CASE ~cache[h].exists /\ UNCHANGED <<server, current, worker>>
  BY <1>0, <1>2 DEF HostInv, ObjectInv, TeardownInv, ReleaseInv, WedgedInv,
                    Started, Gone
<1>3. CASE /\ cache[h].exists /\ ~cache[h].deleting /\ ~cache[h].finalizer
           /\ Enters("defer", TRUE)
           /\ IF "cache" \in current[h]
              THEN Store(h, [server[h] EXCEPT !.finalizer = TRUE])
              ELSE UNCHANGED <<server, current>>
  <2>1. CASE UNCHANGED <<server, current>>
    BY <1>0, <1>3, <2>1
       DEF HostInv, ObjectInv, TeardownInv, ReleaseInv, WedgedInv,
           Started, Gone, Enters,
           Teardown
  <2>2. CASE /\ "cache" \in current[h]
             /\ Store(h, [server[h] EXCEPT !.finalizer = TRUE])
    <3>1. server[h] = cache[h]
      BY <2>2 DEF HostInv, ObjectInv
    <3>2. /\ server'[h].exists /\ ~server'[h].deleting /\ server'[h].finalizer
          /\ server'[h] # server[h]
      BY <1>0, <1>3, <2>2, <3>1 DEF Store, TypeInv, Object
    <3>3. current'[h] = {}
      BY <2>2, <3>2 DEF Store, TypeInv
    <3> QED BY <1>0, <1>3, <3>2, <3>3
            DEF HostInv, ObjectInv, TeardownInv, ReleaseInv, WedgedInv,
                Started, Gone,
                Enters, Teardown
  <2> QED BY <1>3, <2>1, <2>2
<1>4. CASE /\ cache[h].exists /\ ~cache[h].deleting /\ cache[h].finalizer
           /\ Enters("helm", FALSE) /\ Reads /\ UNCHANGED server
  BY <1>0, <1>4
     DEF HostInv, ObjectInv, TeardownInv, ReleaseInv, WedgedInv,
         Started, Gone, Enters,
         Teardown
<1>5. CASE /\ cache[h].exists /\ cache[h].deleting /\ cache[h].finalizer
           /\ Enters("teardown", FALSE) /\ Reads /\ UNCHANGED server
  BY <1>0, <1>5
     DEF HostInv, ObjectInv, TeardownInv, ReleaseInv, WedgedInv,
         Started, Gone, Enters,
         Teardown
<1>6. CASE /\ cache[h].exists /\ cache[h].deleting /\ ~cache[h].finalizer
           /\ Enters("defer", FALSE) /\ UNCHANGED <<server, current>>
  BY <1>0, <1>6
     DEF HostInv, ObjectInv, TeardownInv, ReleaseInv, WedgedInv,
         Started, Gone, Enters,
         Teardown
<1> QED BY <1>1, <1>2, <1>3, <1>4, <1>5, <1>6

LEMMA HelmStepsInv ==
  ASSUME TypeInv, NEW h \in Hosts, HostInv(h),
         \/ ReturnEarly(h) \/ SkipHelm(h) \/ StartHelm(h)
         \/ trySetHelmOperationActive(h)
  PROVE  HostInv(h)'
<1>0. worker \in [Hosts -> Worker] /\ worker[h] \in Worker
  BY DEF TypeInv
<1>1. /\ worker[h].step \in {"helm", "launch"}
      /\ UNCHANGED <<cache, queued, rel, raced>>
      /\ worker'[h].step \notin Teardown
  <2>1. ASSUME NEW r, GoDefer(h, r) PROVE worker'[h].step = "defer"
    BY <1>0, <2>1 DEF GoDefer, Worker
  <2>2. CASE ReturnEarly(h)
    BY <2>1, <2>2 DEF ReturnEarly, api, Teardown
  <2>3. CASE SkipHelm(h)
    BY <2>1, <2>3 DEF SkipHelm, AfterHelm, api, aux, Teardown
  <2>4. CASE trySetHelmOperationActive(h)
    BY <2>1, <2>4 DEF trySetHelmOperationActive, AfterHelm, api, aux, Teardown
  <2>5. CASE StartHelm(h)
    <3>1. ASSUME NEW s, NEW a, NEW r,
                 worker' = [worker EXCEPT ![h].step = s, ![h].attrs = a,
                                          ![h].requeue = r]
          PROVE  worker'[h].step = s
      BY <1>0, <3>1 DEF Worker
    <3> QED BY <2>5, <3>1 DEF StartHelm, Teardown
  <2> QED BY <2>2, <2>3, <2>4, <2>5
<1>2. ServerKept
  <2>1. CASE UNCHANGED <<server, current>>
    BY <2>1 DEF ServerKept
  <2>2. CASE StartHelm(h)
    BY <2>1, <2>2, PatchKept DEF StartHelm
  <2> QED BY <2>1, <2>2
          DEF ReturnEarly, SkipHelm, trySetHelmOperationActive, api
<1>3. \A i \in Ops : Installing(i, h)' => Installing(i, h)
  <2>1. CASE UNCHANGED op
    BY <2>1 DEF Installing
  <2>2. CASE trySetHelmOperationActive(h)
    BY <2>2, LaunchOps
  <2> QED BY <2>1, <2>2 DEF ReturnEarly, SkipHelm, StartHelm
<1> QED BY <1>1, <1>2, <1>3, LiveInv

LEMMA DeferInv ==
  ASSUME TypeInv, NEW h \in Hosts, HostInv(h), DeferredPatch(h)
  PROVE  HostInv(h)'
<1>1. /\ worker[h].step = "defer" /\ worker'[h] = IdleWorker
      /\ IdleWorker.step = "idle"
      /\ UNCHANGED <<cache, op, rel, raced>>
      /\ \A i \in Ops : Installing(i, h)' = Installing(i, h)
  BY DEF DeferredPatch, IdleWorker, TypeInv, Installing
<1>2. ServerKept
  <2>1. CASE UNCHANGED <<server, current>>
    BY <2>1 DEF ServerKept
  <2> QED BY <2>1, PatchKept DEF DeferredPatch
<1>3. \/ server[h].exists
      \/ queued'[h] = (queued[h] \/ worker[h].requeue)
  BY DEF DeferredPatch, TypeInv
<1>4. ObjectInv(h)'
  BY <1>1, <1>2 DEF HostInv, ObjectInv, ServerKept, Started
<1>5. TeardownInv(h)'
  BY <1>1, <1>2, <1>3 DEF HostInv, TeardownInv, ServerKept, Gone, Teardown
<1>6. ReleaseInv(h)' /\ WedgedInv(h)'
  BY <1>1, <1>2 DEF HostInv, ReleaseInv, WedgedInv, ServerKept, Gone, Teardown
<1> QED BY <1>4, <1>5, <1>6 DEF HostInv

-----------------------------------------------------------------------------
(* The teardown *)

\* A teardown step of the host, whatever it does to worker and releases.
LEMMA TeardownStep ==
  ASSUME TypeInv, NEW h \in Hosts, HostInv(h),
         worker[h].step \in Teardown,
         UNCHANGED <<server, cache, current, queued, op>>,
         ReleaseInv(h)', WedgedInv(h)'
  PROVE  HostInv(h)'
<1>1. server[h].deleting /\ server[h].exists
  BY DEF HostInv, TeardownInv
<1>2. ObjectInv(h)'
  BY <1>1 DEF HostInv, ObjectInv, Started
<1>3. TeardownInv(h)'
  BY <1>1 DEF HostInv, TeardownInv, Gone
<1> QED BY <1>2, <1>3 DEF HostInv

\* GoDefer, seen at the worker's row.
LEMMA Deferred ==
  ASSUME TypeInv, NEW h \in Hosts, NEW r, GoDefer(h, r)
  PROVE  worker'[h].step = "defer" /\ worker'[h].requeue = r
<1>1. worker[h] \in Worker
  BY DEF TypeInv
<1> QED BY <1>1 DEF GoDefer, TypeInv, Worker

LEMMA AwaitInv ==
  ASSUME TypeInv, NEW h \in Hosts, HostInv(h), AwaitChildren(h)
  PROVE  HostInv(h)'
<1>1. /\ worker[h].step = "teardown" /\ worker'[h].step = "defer"
      /\ UNCHANGED <<server, cache, current, queued, op, rel, raced>>
  BY Deferred DEF AwaitChildren, api
<1>2. ~Gone(h)
  BY <1>1 DEF HostInv, TeardownInv, Teardown, Gone
<1>3. ReleaseInv(h)' /\ WedgedInv(h)'
  BY <1>1, <1>2 DEF HostInv, ReleaseInv, WedgedInv, Gone, Teardown
<1> QED BY <1>1, <1>3, TeardownStep DEF Teardown

LEMMA CancelInv ==
  ASSUME TypeInv, NEW h \in Hosts, HostInv(h), cancelHelmOperation(h)
  PROVE  HostInv(h)'
<1>0. worker[h] \in Worker /\ worker[h].step = "teardown"
  BY DEF TypeInv, cancelHelmOperation
<1>1. /\ worker'[h].step = "uninstall_host"
      /\ UNCHANGED <<server, cache, current, queued, rel>>
      /\ raced'[h] = \E i \in Ops : Installing(i, h)
  BY <1>0 DEF cancelHelmOperation, TypeInv, Worker, api
<1>2. /\ \A i \in Ops : Installing(i, h)' = Installing(i, h)
      /\ OpsKept(h)
  BY CancelOps
<1>3. server[h].exists /\ server[h].deleting
  BY <1>0 DEF HostInv, TeardownInv, Teardown
<1>4. ObjectInv(h)'
  BY <1>1, <1>2, <1>3 DEF HostInv, ObjectInv, Started
<1>5. TeardownInv(h)'
  BY <1>0, <1>1, <1>3 DEF HostInv, TeardownInv, Gone, Teardown
<1>6. ReleaseInv(h)' /\ WedgedInv(h)'
  BY <1>1, <1>2, <1>3 DEF HostInv, ReleaseInv, WedgedInv, Gone, Teardown
<1> QED BY <1>4, <1>5, <1>6 DEF HostInv

\* The uninstalls: what is not removed is remembered as a failure.
LEMMA UninstallInv ==
  ASSUME TypeInv, NEW h \in Hosts, HostInv(h),
         UninstallHost(h) \/ ListOwned(h) \/ UninstallCompanion(h)
  PROVE  HostInv(h)'
<1>0. /\ worker[h] \in Worker /\ rel[h] \in Releases
      /\ rel \in [Hosts -> Releases] /\ worker \in [Hosts -> Worker]
  BY DEF TypeInv
<1>1. /\ worker[h].step \in Teardown \ {"teardown"}
      /\ UNCHANGED <<server, cache, current, queued, op, raced>>
  BY DEF UninstallHost, ListOwned, UninstallCompanion, api, Teardown
<1>2. /\ ~Gone(h)'
      /\ \A i \in Ops : Installing(i, h)' = Installing(i, h)
      /\ ~raced[h] => \A i \in Ops : ~Installing(i, h)
  BY <1>1 DEF HostInv, TeardownInv, ReleaseInv, Gone, Installing, Teardown
<1>3. CASE UninstallHost(h)
  <2>1. CASE /\ rel' = [rel EXCEPT ![h].gen = 0, ![h].spec = None,
                                   ![h].wedged = @ \ {None}]
             /\ worker' = [worker EXCEPT ![h].step = "list_owned"]
    <3>1. /\ rel'[h].gen = 0 /\ rel'[h].spec = None
          /\ rel'[h].wedged = rel[h].wedged \ {None}
          /\ rel'[h].companions = rel[h].companions
          /\ worker'[h].step = "list_owned"
      BY <1>0, <2>1 DEF Releases, Worker
    <3>2. ReleaseInv(h)' /\ WedgedInv(h)'
      BY <1>1, <1>2, <3>1 DEF HostInv, ReleaseInv, WedgedInv
    <3> QED BY <1>1, <3>2, TeardownStep
  <2>2. CASE /\ UNCHANGED rel
             /\ worker' = [worker EXCEPT ![h].step = "list_owned",
                                         ![h].failed = TRUE]
    <3>1. worker'[h].step = "list_owned" /\ worker'[h].failed
      BY <1>0, <2>2 DEF Worker
    <3>2. ReleaseInv(h)' /\ WedgedInv(h)'
      BY <1>1, <1>2, <2>2, <3>1 DEF HostInv, ReleaseInv, WedgedInv
    <3> QED BY <1>1, <3>2, TeardownStep
  <2> QED BY <1>3, <2>1, <2>2 DEF UninstallHost
<1>4. CASE ListOwned(h)
  <2>0. worker[h].step = "list_owned" /\ UNCHANGED rel
    BY <1>4 DEF ListOwned
  <2>1. CASE worker' = [worker EXCEPT ![h].step = "uninstall_companions",
                                      ![h].todo = TeardownTargets(h)]
    <3>1. /\ worker'[h].step = "uninstall_companions"
          /\ worker'[h].failed = worker[h].failed
          /\ rel[h].companions \subseteq worker'[h].todo
      BY <1>0, <2>1 DEF Worker, TeardownTargets
    <3>2. ReleaseInv(h)' /\ WedgedInv(h)'
      BY <1>1, <1>2, <2>0, <3>1 DEF HostInv, ReleaseInv, WedgedInv, Gone
    <3> QED BY <1>1, <3>2, TeardownStep
  <2>2. CASE worker' = [worker EXCEPT ![h].step = "uninstall_companions",
                                      ![h].failed = TRUE]
    <3>1. worker'[h].step = "uninstall_companions" /\ worker'[h].failed
      BY <1>0, <2>2 DEF Worker
    <3>2. ReleaseInv(h)' /\ WedgedInv(h)'
      BY <1>1, <1>2, <2>0, <3>1 DEF HostInv, ReleaseInv, WedgedInv
    <3> QED BY <1>1, <3>2, TeardownStep
  <2> QED BY <1>4, <2>1, <2>2 DEF ListOwned
<1>5. CASE UninstallCompanion(h)
  <2>0. worker[h].step = "uninstall_companions"
    BY <1>5 DEF UninstallCompanion
  <2>1. ASSUME NEW c, rel' = [rel EXCEPT ![h].companions = @ \ {c},
                                  ![h].wedged = @ \ {c}],
               worker' = [worker EXCEPT ![h].todo = @ \ {c}]
        PROVE  HostInv(h)'
    <3>1. /\ worker'[h].step = "uninstall_companions"
          /\ worker'[h].failed = worker[h].failed
          /\ worker'[h].todo = worker[h].todo \ {c}
          /\ rel'[h].gen = rel[h].gen /\ rel'[h].spec = rel[h].spec
          /\ rel'[h].companions = rel[h].companions \ {c}
          /\ rel'[h].wedged = rel[h].wedged \ {c}
      BY <1>0, <2>0, <2>1 DEF Worker, Releases
    <3>2. ReleaseInv(h)' /\ WedgedInv(h)'
      BY <1>1, <1>2, <2>0, <3>1 DEF HostInv, ReleaseInv, WedgedInv, Gone
    <3> QED BY <1>1, <3>2, TeardownStep
  <2>2. ASSUME NEW c, UNCHANGED rel,
               worker' = [worker EXCEPT ![h].todo = @ \ {c},
                                        ![h].failed = TRUE]
        PROVE  HostInv(h)'
    <3>1. worker'[h].step = "uninstall_companions" /\ worker'[h].failed
      BY <1>0, <2>0, <2>2 DEF Worker
    <3>2. ReleaseInv(h)' /\ WedgedInv(h)'
      BY <1>1, <1>2, <2>2, <3>1 DEF HostInv, ReleaseInv, WedgedInv
    <3> QED BY <1>1, <3>2, TeardownStep
  <2> QED BY <1>5, <2>1, <2>2 DEF UninstallCompanion
<1> QED BY <1>3, <1>4, <1>5

\* The finalizer goes only when every uninstall succeeded.
LEMMA FinishInv ==
  ASSUME TypeInv, NEW h \in Hosts, HostInv(h), FinishTeardown(h)
  PROVE  HostInv(h)'
<1>0. /\ worker[h].step = "uninstall_companions" /\ worker[h].todo = {}
      /\ UNCHANGED <<cache, queued, op, rel, raced>>
      /\ worker'[h].step = "defer"
      /\ server[h] \in Object
      /\ \A i \in Ops : Installing(i, h)' = Installing(i, h)
  <2>1. worker'[h].step = "defer"
    BY Deferred DEF FinishTeardown
  <2> QED BY <2>1 DEF FinishTeardown, aux, TypeInv, Installing
<1>1. server[h].exists /\ server[h].deleting /\ cache[h].deleting
  BY <1>0 DEF HostInv, TeardownInv, Teardown
<1>2. CASE UNCHANGED <<server, current>>
  <2>1. ReleaseInv(h)' /\ WedgedInv(h)'
    BY <1>0, <1>1, <1>2 DEF HostInv, ReleaseInv, WedgedInv, Gone, Teardown
  <2> QED BY <1>0, <1>2, <2>1, TeardownStep DEF Teardown
<1>3. CASE /\ ~worker[h].failed /\ "worker" \in current[h]
           /\ Store(h, [server[h] EXCEPT !.exists = FALSE,
                                         !.finalizer = FALSE])
           /\ GoDefer(h, FALSE)
  <2>1. ~server'[h].exists /\ server'[h].deleting /\ ~server'[h].finalizer
    BY <1>0, <1>1, <1>3 DEF Store, TypeInv, Object
  <2>2. current'[h] = {}
    BY <1>0, <1>1, <1>3, <2>1 DEF Store, TypeInv
  <2>3. ~worker'[h].requeue /\ ~queued[h]
    BY <1>0, <1>3, Deferred DEF HostInv, TeardownInv, Teardown
  <2>4. ObjectInv(h)' /\ TeardownInv(h)'
    BY <1>0, <1>1, <2>1, <2>2, <2>3
       DEF ObjectInv, TeardownInv, Started, Gone, Teardown
  <2>5. ReleaseInv(h)' /\ WedgedInv(h)'
    BY <1>0, <1>3 DEF HostInv, ReleaseInv, WedgedInv, Teardown
  <2> QED BY <2>4, <2>5 DEF HostInv
<1> QED BY <1>2, <1>3 DEF FinishTeardown

-----------------------------------------------------------------------------

LEMMA NextHostInv ==
  ASSUME TypeInv, NEW h \in Hosts, HostInv(h), [Next]_vars PROVE HostInv(h)'
<1>1. ASSUME NEW g \in Hosts, Environment(g) \/ Reconcile(g)
      PROVE  HostInv(h)'
  <2>1. CASE g # h
    BY <1>1, <2>1, OtherHostInv
  <2>2. CASE g = h
    BY <1>1, <2>2, EnvironmentInv, GetHostInv, HelmStepsInv, DeferInv, AwaitInv,
       CancelInv, UninstallInv, FinishInv DEF Reconcile
  <2> QED BY <2>1, <2>2
<1>2. CASE UNCHANGED vars
  BY <1>2, KeptInv DEF vars, RowsKept, OpsKept, Installing
<1> QED BY <1>1, <1>2, OpInv, RestartInv DEF Next

LEMMA InitHostInv ==
  ASSUME Init, NEW h \in Hosts PROVE HostInv(h)
<1>1. \A i \in Ops : op[i].host # h /\ ~Installing(i, h)
  BY DEF Init, IdleOp, Installing
<1> QED BY <1>1
        DEF Init, HostInv, ObjectInv, TeardownInv, ReleaseInv, WedgedInv,
            Started, Gone, NewHost, NoReleases, IdleWorker, Teardown

\* The teardown leaves no release behind unless a goroutine was already
\* installing when it began: a render that waits for a slot meanwhile sees the
\* deletion, and a failed uninstall or a stale copy only begins it again.
THEOREM NoOrphanUnlessRaced == Spec => []OrphanOnlyIfRaced
<1> DEFINE Inv == \A h \in Hosts : HostInv(h)
<1>1. Init => Inv
  BY InitHostInv
<1>2. TypeInv /\ Inv /\ [Next]_vars => Inv'
  BY NextHostInv
<1>3. TypeInv /\ Inv => OrphanOnlyIfRaced
  <2> SUFFICES ASSUME TypeInv, NEW h \in Hosts, HostInv(h),
                      ~server[h].exists, ~raced[h]
               PROVE  rel[h] = NoReleases
    BY DEF OrphanOnlyIfRaced
  <2>1. CASE ~server[h].deleting
    BY <2>1 DEF HostInv, ObjectInv, Started
  <2>2. CASE server[h].deleting
    <3>1. /\ rel[h].gen = 0 /\ rel[h].spec = None /\ rel[h].companions = {}
          /\ rel[h].wedged = {} /\ rel[h] \in Releases
      BY <2>2 DEF HostInv, ReleaseInv, WedgedInv, Gone, TypeInv
    <3> QED BY <3>1 DEF Releases, NoReleases
  <2> QED BY <2>1, <2>2
<1> QED BY <1>1, <1>2, <1>3, Typed, PTL DEF Spec

=============================================================================
