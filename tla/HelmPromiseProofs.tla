------------------------- MODULE HelmPromiseProofs -------------------------
(***************************************************************************)
(* For every fleet, spec set, number of goroutines and bound: HelmRelease  *)
(* implements ReleasePromise.                                              *)
(***************************************************************************)
EXTENDS HelmTeardownProofs

USE ConstantsAssumption

-----------------------------------------------------------------------------
(* The inductive invariant *)

\* A pass of the host is about to be launched, or has been.
Live(h) == worker[h].step \in {"helm", "launch"} \/ \E i \in Ops : op[i].host = h

\* What is rendered has its finalizer: a goroutine is only started for a host
\* that was seen with it, and nothing but the teardown takes it away.
Guarded(h) ==
  Live(h) /\ cache[h].exists /\ ~cache[h].deleting => cache[h].finalizer

\* A prune takes away nothing that its host declares.
Undeclared(i) ==
  op[i].step = "prune" => op[i].todo \cap Declares[op[i].spec] = {}

PromiseInv ==
  /\ \A h \in Hosts : HostInv(h) /\ Guarded(h)
  /\ \A i \in Ops : Undeclared(i)

-----------------------------------------------------------------------------
(* What of the state shows *)

\* A goroutine that has not taken a host looks like none.
LEMMA NotTaken ==
  ASSUME NEW o, ~Taken(o)
  PROVE  RenderOf(o) = Promise!NoRender
<1>1. o.step \notin {"host", "companions", "list_owned", "prune"}
  BY DEF Taken
<1>2. (o.step \in {"list_owned", "prune"}) = FALSE
  BY <1>1
<1> QED BY <1>1, <1>2 DEF RenderOf, Promise!NoRender, Taken

\* Otherwise it looks like what it took.
LEMMA TakenShows ==
  ASSUME TypeInv, NEW i \in Ops, Taken(op[i])
  PROVE  /\ op[i].host \in Hosts /\ op[i].spec \in Specs
         /\ op[i].todo \subseteq Companions
         /\ renders[i].host = op[i].host
         /\ renders[i].gen = op[i].gen
         /\ renders[i].spec = op[i].spec
<1>1. op[i].todo \subseteq Companions
  BY DEF TypeInv, Operation
<1>2. op[i].host \in Hosts /\ op[i].spec \in Specs
  BY DEF TypeInv, OpShape, Taken
<1>3. /\ RenderOf(op[i]).host = op[i].host
      /\ RenderOf(op[i]).gen = op[i].gen
      /\ RenderOf(op[i]).spec = op[i].spec
  BY DEF RenderOf
<1> QED BY <1>1, <1>2, <1>3 DEF renders

Outlines == [exists: BOOLEAN, deleting: BOOLEAN, finalizer: BOOLEAN,
             gen: Nat, spec: Specs]

LEMMA OutlineTyped ==
  ASSUME NEW o \in Object PROVE Outline(o) \in Outlines
BY DEF Object, Outline, Outlines

\* Outlines with the same fields are the same.
LEMMA OutlinesEqual ==
  ASSUME NEW r \in Outlines, NEW s \in Outlines,
         r.exists = s.exists, r.deleting = s.deleting,
         r.finalizer = s.finalizer, r.gen = s.gen, r.spec = s.spec
  PROVE  r = s
BY DEF Outlines

\* What one write shows.
LEMMA StoreShows ==
  ASSUME TypeInv, NEW h \in Hosts, NEW o, server' = [server EXCEPT ![h] = o]
  PROVE  outlines' = [outlines EXCEPT ![h] = Outline(o)]
<1>1. server \in [Hosts -> Object]
  BY DEF TypeInv
<1>2. \A g \in Hosts : server'[g] = IF g = h THEN o ELSE server[g]
  BY <1>1
<1>3. \A g \in Hosts : outlines'[g] = IF g = h THEN Outline(o) ELSE outlines[g]
  BY <1>2 DEF outlines
<1> QED BY <1>3 DEF outlines

\* Status patches do not show.
LEMMA PatchShows ==
  ASSUME TypeInv, NEW h \in Hosts, NEW b, NEW d, PatchStatus(h, b, d)
  PROVE  UNCHANGED outlines
<1>1. CASE UNCHANGED server
  BY <1>1 DEF outlines
<1>2. CASE Store(h, [server[h] EXCEPT !.attrs = MergePatch(@, b, d)])
  <2> DEFINE o == [server[h] EXCEPT !.attrs = MergePatch(@, b, d)]
  <2>1. server[h] \in Object
    BY DEF TypeInv
  <2>2. Outline(o) = Outline(server[h])
    BY <2>1 DEF Outline, Object
  <2>3. outlines' = [outlines EXCEPT ![h] = Outline(o)]
    BY <1>2, StoreShows DEF Store
  <2>4. Outline(o) = outlines[h]
    BY <2>2 DEF outlines
  <2> HIDE DEF o
  <2> QED BY <2>3, <2>4 DEF outlines
<1> QED BY <1>1, <1>2 DEF PatchStatus

\* What one goroutine's step shows.
LEMMA OpShows ==
  ASSUME NEW i \in Ops, \A j \in Ops : j # i => op'[j] = op[j]
  PROVE  renders' = [renders EXCEPT ![i] = RenderOf(op'[i])]
<1>1. \A j \in Ops : renders'[j] = IF j = i THEN RenderOf(op'[i]) ELSE renders[j]
  BY DEF renders, RenderOf, Taken
<1> QED BY <1>1 DEF renders

\* Goroutines that have taken no host do not show.
LEMMA OpsHidden ==
  ASSUME \A j \in Ops : RenderOf(op'[j]) = RenderOf(op[j])
  PROVE  UNCHANGED renders
BY DEF renders

\* Releases as they show, and after some of it changed.
Shown == [gen: 0..MaxGeneration, spec: Specs \cup {None},
          companions: SUBSET Companions]

LEMMA HostChartExcept ==
  ASSUME NEW r \in Shown, NEW g \in 0..MaxGeneration, NEW s \in Specs \cup {None}
  PROVE  [r EXCEPT !.gen = g, !.spec = s]
           = [gen |-> g, spec |-> s, companions |-> r.companions]
<1> DEFINE e == [r EXCEPT !.gen = g, !.spec = s]
<1>1. e \in Shown /\ e.gen = g /\ e.spec = s /\ e.companions = r.companions
  BY DEF Shown
<1> HIDE DEF e
<1>2. e = [gen |-> g, spec |-> s, companions |-> r.companions]
  BY <1>1 DEF Shown
<1> QED BY <1>2 DEF e

LEMMA CompanionsExcept ==
  ASSUME NEW r \in Shown, NEW C \in SUBSET Companions
  PROVE  [r EXCEPT !.companions = C]
           = [gen |-> r.gen, spec |-> r.spec, companions |-> C]
BY DEF Shown

LEMMA InstalledTyped ==
  ASSUME TypeInv, NEW h \in Hosts
  PROVE  /\ releases[h] \in Shown
         /\ releases[h].gen = rel[h].gen /\ releases[h].spec = rel[h].spec
         /\ releases[h].companions = rel[h].companions
<1>1. rel[h] \in Releases
  BY DEF TypeInv
<1>2. releases[h] = [gen |-> rel[h].gen, spec |-> rel[h].spec,
                     companions |-> rel[h].companions]
  BY DEF releases, Installed
<1> QED BY <1>1, <1>2 DEF Releases, Shown

LEMMA ReleaseShows ==
  ASSUME TypeInv, NEW h \in Hosts, NEW r, rel' = [rel EXCEPT ![h] = r]
  PROVE  releases' = [releases EXCEPT ![h] = Installed(r)]
<1>1. \A g \in Hosts : rel'[g] = IF g = h THEN r ELSE rel[g]
  BY DEF TypeInv
<1>2. \A g \in Hosts : releases'[g] = IF g = h THEN Installed(r) ELSE releases[g]
  BY <1>1 DEF releases
<1> QED BY <1>2 DEF releases

\* A cancelled goroutine goes on as it was.
LEMMA CancelledSame ==
  ASSUME TypeInv, NEW h \in Hosts, NEW i \in Ops
  PROVE  /\ Cancelled(h)[i].host = op[i].host
         /\ Cancelled(h)[i].step = op[i].step
         /\ Cancelled(h)[i].todo = op[i].todo
         /\ Cancelled(h)[i].gen = op[i].gen
         /\ Cancelled(h)[i].spec = op[i].spec
<1>1. CASE active[h] = None
  BY <1>1 DEF Cancelled
<1>2. CASE active[h] # None
  BY <1>2 DEF Cancelled, TypeInv, Operation
<1> QED BY <1>1, <1>2

\* Nothing shows.
Hidden == UNCHANGED <<outlines, views, renders, releases, raced>>

LEMMA HiddenStutters == Hidden => [Promise!Next]_(Promise!vars)
BY DEF Hidden, Promise!vars

LEMMA Framed ==
  /\ UNCHANGED server => UNCHANGED outlines
  /\ UNCHANGED cache => UNCHANGED views
  /\ UNCHANGED op => UNCHANGED renders
  /\ UNCHANGED rel => UNCHANGED releases
BY DEF outlines, views, renders, releases, RenderOf, Taken

LEMMA RowsShown ==
  ASSUME TypeInv, NEW h \in Hosts
  PROVE  /\ outlines[h] = Outline(server[h]) /\ views[h] = Outline(cache[h])
         /\ releases[h] = Installed(rel[h])
BY DEF outlines, views, releases

-----------------------------------------------------------------------------
(* Users and the informer *)

LEMMA EditShows ==
  ASSUME TypeInv, NEW h \in Hosts, EditSpec(h)
  PROVE  Promise!Edit(h)
<1>1. PICK s \in Edits[server[h].spec] :
        Store(h, [server[h] EXCEPT !.spec = s, !.gen = @ + 1])
  BY DEF EditSpec
<1> DEFINE o == [server[h] EXCEPT !.spec = s, !.gen = @ + 1]
<1>2. server[h] \in Object /\ server[h].exists /\ s \in Specs
  BY <1>1 DEF EditSpec, TypeInv, Object
<1>3. outlines' = [outlines EXCEPT ![h] = Outline(o)]
  BY <1>1, StoreShows DEF Store
<1>4. Outline(o) = [outlines[h] EXCEPT !.spec = s, !.gen = @ + 1]
  <2>1. /\ o.exists = server[h].exists /\ o.deleting = server[h].deleting
        /\ o.finalizer = server[h].finalizer /\ o.gen = server[h].gen + 1
        /\ o.spec = s
    BY <1>2 DEF Object
  <2>2. o \in Object
    <3>1. server[h].gen + 1 \in 1..MaxGeneration
      BY <1>2 DEF EditSpec, Object
    <3> QED BY <1>2, <3>1 DEF Object
  <2> HIDE DEF o
  <2>3. Outline(o) \in Outlines /\ outlines[h] \in Outlines /\ outlines[h] = Outline(server[h])
    BY <1>2, <2>2, OutlineTyped, RowsShown
  <2> DEFINE e == [outlines[h] EXCEPT !.spec = s, !.gen = outlines[h].gen + 1]
  <2>4. e \in Outlines
    <3>1. outlines[h].gen + 1 \in Nat
      BY <2>3 DEF Outlines
    <3> QED BY <1>2, <2>3, <3>1 DEF Outlines
  <2>5. /\ e.exists = outlines[h].exists /\ e.deleting = outlines[h].deleting
        /\ e.finalizer = outlines[h].finalizer /\ e.gen = outlines[h].gen + 1
        /\ e.spec = s
    BY <2>3 DEF Outlines
  <2> HIDE DEF e
  <2>6. /\ Outline(o).exists = o.exists /\ Outline(o).deleting = o.deleting
        /\ Outline(o).finalizer = o.finalizer /\ Outline(o).gen = o.gen
        /\ Outline(o).spec = o.spec
    BY DEF Outline
  <2>7. /\ outlines[h].exists = server[h].exists
        /\ outlines[h].deleting = server[h].deleting
        /\ outlines[h].finalizer = server[h].finalizer
        /\ outlines[h].gen = server[h].gen
    BY <2>3 DEF Outline
  <2>8. Outline(o) = e
    BY <2>1, <2>3, <2>4, <2>5, <2>6, <2>7, OutlinesEqual
  <2> QED BY <2>8 DEF e
<1>5. outlines' = [outlines EXCEPT ![h].spec = s, ![h].gen = @ + 1]
  <2> HIDE DEF o
  <2> QED BY <1>3, <1>4 DEF outlines
<1>6. outlines[h].exists
  BY <1>2 DEF outlines, Outline
<1>7. UNCHANGED <<views, renders, releases, raced>>
  BY Framed DEF EditSpec, memory, aux
<1> QED BY <1>2, <1>5, <1>6, <1>7 DEF Promise!Edit

\* A deletion marks a guarded host, a new generation, and removes any other.
LEMMA DeleteShows ==
  ASSUME TypeInv, NEW h \in Hosts, DeleteHost(h)
  PROVE  Promise!Delete(h)
<1> DEFINE marked == [server[h] EXCEPT !.deleting = TRUE, !.gen = @ + 1]
           gone == [server[h] EXCEPT !.exists = FALSE]
<1>1. /\ server[h] \in Object /\ server[h].exists /\ ~server[h].deleting
      /\ server[h].gen + 1 \in 1..MaxGeneration
  BY DEF DeleteHost, TypeInv, Object
<1>2. /\ outlines[h] \in Outlines
      /\ outlines[h].exists = server[h].exists
      /\ outlines[h].deleting = server[h].deleting
      /\ outlines[h].finalizer = server[h].finalizer
      /\ outlines[h].gen = server[h].gen /\ outlines[h].spec = server[h].spec
  <2>1. outlines[h] \in Outlines /\ outlines[h] = Outline(server[h])
    BY <1>1, OutlineTyped, RowsShown
  <2> QED BY <2>1 DEF Outline
<1>3. UNCHANGED <<views, renders, releases, raced>>
  BY Framed DEF DeleteHost, memory, aux
<1>4. CASE server[h].finalizer
  <2>1. outlines' = [outlines EXCEPT ![h] = Outline(marked)]
    BY <1>4, StoreShows DEF Store, DeleteHost
  <2>2. /\ marked.exists = server[h].exists /\ marked.deleting = TRUE
        /\ marked.finalizer = server[h].finalizer
        /\ marked.gen = server[h].gen + 1 /\ marked.spec = server[h].spec
    BY <1>1 DEF Object
  <2>3. marked \in Object
    BY <1>1 DEF Object
  <2> HIDE DEF marked
  <2> DEFINE e == [outlines[h] EXCEPT !.deleting = TRUE,
                                      !.gen = outlines[h].gen + 1]
  <2>4. e \in Outlines
    <3>1. outlines[h].gen + 1 \in Nat
      BY <1>2 DEF Outlines
    <3> QED BY <1>2, <3>1 DEF Outlines
  <2>5. /\ e.exists = outlines[h].exists /\ e.deleting = TRUE
        /\ e.finalizer = outlines[h].finalizer /\ e.gen = outlines[h].gen + 1
        /\ e.spec = outlines[h].spec
    BY <1>2 DEF Outlines
  <2> HIDE DEF e
  <2>6. /\ Outline(marked).exists = marked.exists
        /\ Outline(marked).deleting = marked.deleting
        /\ Outline(marked).finalizer = marked.finalizer
        /\ Outline(marked).gen = marked.gen
        /\ Outline(marked).spec = marked.spec
    BY DEF Outline
  <2>7. Outline(marked) \in Outlines
    BY <2>3, OutlineTyped
  <2>8. Outline(marked) = e
    <3>1. /\ Outline(marked).exists = e.exists
          /\ Outline(marked).deleting = e.deleting
          /\ Outline(marked).finalizer = e.finalizer
          /\ Outline(marked).gen = e.gen /\ Outline(marked).spec = e.spec
      BY <1>2, <2>2, <2>5, <2>6, Zenon
    <3> QED BY <2>4, <2>7, <3>1, OutlinesEqual, Zenon
  <2>9. outlines' = [outlines EXCEPT ![h].deleting = TRUE, ![h].gen = @ + 1]
    BY <2>1, <2>8 DEF e, outlines
  <2> QED BY <1>1, <1>2, <1>3, <1>4, <2>9 DEF Promise!Delete
<1>5. CASE ~server[h].finalizer
  <2>1. outlines' = [outlines EXCEPT ![h] = Outline(gone)]
    BY <1>5, StoreShows DEF Store, DeleteHost
  <2>2. /\ gone.exists = FALSE /\ gone.deleting = server[h].deleting
        /\ gone.finalizer = server[h].finalizer
        /\ gone.gen = server[h].gen /\ gone.spec = server[h].spec
    BY <1>1 DEF Object
  <2>3. gone \in Object
    BY <1>1 DEF Object
  <2> HIDE DEF gone
  <2> DEFINE e == [outlines[h] EXCEPT !.exists = FALSE]
  <2>4. e \in Outlines
    BY <1>2 DEF Outlines
  <2>5. /\ e.exists = FALSE /\ e.deleting = outlines[h].deleting
        /\ e.finalizer = outlines[h].finalizer /\ e.gen = outlines[h].gen
        /\ e.spec = outlines[h].spec
    BY <1>2 DEF Outlines
  <2> HIDE DEF e
  <2>6. /\ Outline(gone).exists = gone.exists
        /\ Outline(gone).deleting = gone.deleting
        /\ Outline(gone).finalizer = gone.finalizer
        /\ Outline(gone).gen = gone.gen /\ Outline(gone).spec = gone.spec
    BY DEF Outline
  <2>7. Outline(gone) \in Outlines
    BY <2>3, OutlineTyped
  <2>8. Outline(gone) = e
    <3>1. /\ Outline(gone).exists = e.exists
          /\ Outline(gone).deleting = e.deleting
          /\ Outline(gone).finalizer = e.finalizer
          /\ Outline(gone).gen = e.gen /\ Outline(gone).spec = e.spec
      BY <1>2, <2>2, <2>5, <2>6, Zenon
    <3> QED BY <2>4, <2>7, <3>1, OutlinesEqual, Zenon
  <2>9. outlines' = [outlines EXCEPT ![h].exists = FALSE]
    BY <2>1, <2>8 DEF e, outlines
  <2> QED BY <1>1, <1>2, <1>3, <1>5, <2>9 DEF Promise!Delete
<1> QED BY <1>4, <1>5

LEMMA SyncShows ==
  ASSUME TypeInv, NEW h \in Hosts, SyncCache(h)
  PROVE  Promise!See(h)
<1>1. \A g \in Hosts : views'[g] = IF g = h THEN outlines[h] ELSE views[g]
  BY DEF SyncCache, TypeInv, views, outlines
<1>2. views' = [views EXCEPT ![h] = outlines[h]]
  BY <1>1 DEF views
<1>3. UNCHANGED <<outlines, renders, releases, raced>>
  BY Framed DEF SyncCache, memory, aux
<1> QED BY <1>2, <1>3 DEF Promise!See

-----------------------------------------------------------------------------
(* The reconcile worker *)

LEMMA GuardShows ==
  ASSUME TypeInv, NEW h \in Hosts, HostInv(h),
         cache[h].exists, ~cache[h].deleting, "cache" \in current[h],
         server' = [server EXCEPT ![h] = [server[h] EXCEPT !.finalizer = TRUE]],
         UNCHANGED <<cache, op, rel, raced>>
  PROVE  Promise!Guard(h)
<1> DEFINE o == [server[h] EXCEPT !.finalizer = TRUE]
           e == [outlines[h] EXCEPT !.finalizer = TRUE]
<1>1. server[h] \in Object /\ o \in Object /\ cache[h] = server[h]
  <2>1. server[h] \in Object
    BY DEF TypeInv
  <2>2. o \in Object
    BY <2>1 DEF Object
  <2> QED BY <2>1, <2>2 DEF HostInv, ObjectInv
<1>2. outlines' = [outlines EXCEPT ![h] = Outline(o)]
  BY StoreShows
<1>3. outlines[h] \in Outlines /\ outlines[h] = Outline(server[h])
  BY <1>1, OutlineTyped, RowsShown
<1>4. Outline(o) = e
  <2>1. Outline(o) \in Outlines /\ e \in Outlines
    BY <1>1, <1>3, OutlineTyped DEF Outlines
  <2>2. /\ e.exists = outlines[h].exists /\ e.deleting = outlines[h].deleting
        /\ e.finalizer = TRUE /\ e.gen = outlines[h].gen /\ e.spec = outlines[h].spec
    BY <1>3 DEF Outlines
  <2>3. /\ o.exists = server[h].exists /\ o.deleting = server[h].deleting
        /\ o.finalizer = TRUE /\ o.gen = server[h].gen /\ o.spec = server[h].spec
    BY <1>1 DEF Object
  <2> HIDE DEF o, e
  <2>4. /\ Outline(o).exists = e.exists /\ Outline(o).deleting = e.deleting
        /\ Outline(o).finalizer = e.finalizer /\ Outline(o).gen = e.gen
        /\ Outline(o).spec = e.spec
    <3>1. /\ outlines[h].exists = server[h].exists
          /\ outlines[h].deleting = server[h].deleting
          /\ outlines[h].gen = server[h].gen /\ outlines[h].spec = server[h].spec
      BY <1>3 DEF Outline
    <3>2. /\ Outline(o).exists = o.exists /\ Outline(o).deleting = o.deleting
          /\ Outline(o).finalizer = o.finalizer /\ Outline(o).gen = o.gen
          /\ Outline(o).spec = o.spec
      BY DEF Outline
    <3> QED BY <2>2, <2>3, <3>1, <3>2
  <2> QED BY <2>1, <2>4, OutlinesEqual
<1>5. outlines[h].exists /\ ~outlines[h].deleting
  BY <1>1, <1>3 DEF Outline
<1>6. outlines' = [outlines EXCEPT ![h].finalizer = TRUE]
  BY <1>2, <1>4
<1>7. UNCHANGED <<views, renders, releases, raced>>
  BY Framed
<1> QED BY <1>5, <1>6, <1>7 DEF Promise!Guard

\* A read changes nothing, unless it adds the finalizer.
LEMMA GetHostShows ==
  ASSUME TypeInv, NEW h \in Hosts, HostInv(h), GetHost(h)
  PROVE  Promise!Guard(h) \/ Hidden
<1>1. UNCHANGED <<cache, op, rel, raced>>
  BY DEF GetHost, aux
<1>2. CASE UNCHANGED server
  BY <1>1, <1>2, Framed DEF Hidden
<1>3. CASE server' # server
  <2>1. /\ cache[h].exists /\ ~cache[h].deleting /\ "cache" \in current[h]
        /\ Store(h, [server[h] EXCEPT !.finalizer = TRUE])
    BY <1>3 DEF GetHost
  <2> QED BY <1>1, <2>1, GuardShows DEF Store
<1> QED BY <1>2, <1>3

\* Nothing of the Helm part shows before the goroutine has read the host again.
LEMMA HelmShows ==
  ASSUME TypeInv, NEW h \in Hosts,
         \/ ReturnEarly(h) \/ SkipHelm(h) \/ StartHelm(h)
         \/ trySetHelmOperationActive(h) \/ AwaitChildren(h) \/ ListOwned(h)
         \/ DeferredPatch(h)
  PROVE  Hidden
<1>1. UNCHANGED <<cache, rel, raced>>
  BY DEF ReturnEarly, SkipHelm, StartHelm, trySetHelmOperationActive,
         AwaitChildren, ListOwned, DeferredPatch, api, aux
<1>2. UNCHANGED outlines
  <2>1. CASE StartHelm(h) \/ DeferredPatch(h)
    <3>1. UNCHANGED server \/ \E b, d : PatchStatus(h, b, d)
      BY <2>1 DEF StartHelm, DeferredPatch
    <3> QED BY <3>1, Framed, PatchShows
  <2>2. CASE ~(StartHelm(h) \/ DeferredPatch(h))
    BY <2>2, Framed DEF ReturnEarly, SkipHelm, trySetHelmOperationActive,
                        AwaitChildren, ListOwned, api
  <2> QED BY <2>1, <2>2
<1>3. UNCHANGED renders
  <2>1. CASE trySetHelmOperationActive(h)
    <3>1. CASE UNCHANGED op
      BY <3>1, Framed
    <3>2. CASE op' # op
      <4>1. PICK i \in {j \in Ops : op[j].step = "idle"} :
              op' = [Cancelled(h) EXCEPT ![i] =
                 [IdleOp EXCEPT !.step = "start", !.host = h,
                                !.hash = worker[h].spec]]
        BY <2>1, <3>2 DEF trySetHelmOperationActive
      <4>2. Cancelled(h) \in [Ops -> Operation]
        BY CancelledTyped
      <4>3. op'[i].step = "start"
        BY <4>1, <4>2 DEF IdleOp
      <4>4. RenderOf(op'[i]) = RenderOf(op[i])
        BY <4>1, <4>3, NotTaken DEF Taken
      <4>5. ASSUME NEW j \in Ops, j # i PROVE RenderOf(op'[j]) = RenderOf(op[j])
        <5>1. op'[j] = Cancelled(h)[j]
          BY <4>1, <4>2, <4>5
        <5>2. /\ op'[j].step = op[j].step /\ op'[j].host = op[j].host
              /\ op'[j].todo = op[j].todo /\ op'[j].gen = op[j].gen
              /\ op'[j].spec = op[j].spec
          BY <5>1, CancelledSame
        <5> QED BY <5>2 DEF RenderOf, Taken
      <4> QED BY <4>4, <4>5, OpsHidden
    <3> QED BY <3>1, <3>2
  <2>2. CASE ~trySetHelmOperationActive(h)
    BY <2>2, Framed DEF ReturnEarly, SkipHelm, StartHelm, AwaitChildren,
                        ListOwned, DeferredPatch
  <2> QED BY <2>1, <2>2
<1> QED BY <1>1, <1>2, <1>3, Framed DEF Hidden

-----------------------------------------------------------------------------
(* Teardown *)

\* What is being torn down was seen to be deleted.
LEMMA TornDown ==
  ASSUME TypeInv, NEW h \in Hosts, HostInv(h), worker[h].step \in Teardown
  PROVE  outlines[h].exists /\ outlines[h].deleting /\ views[h].deleting
BY DEF HostInv, TeardownInv, outlines, views, Outline

LEMMA BeginShows ==
  ASSUME TypeInv, NEW h \in Hosts, HostInv(h), cancelHelmOperation(h)
  PROVE  Promise!Begin(h)
<1>1. UNCHANGED <<outlines, views, renders, releases>>
  <2>1. UNCHANGED <<server, cache, rel>> /\ op' = Cancelled(h)
    BY DEF cancelHelmOperation, api
  <2>2. ASSUME NEW j \in Ops PROVE RenderOf(op'[j]) = RenderOf(op[j])
    BY <2>1, CancelledSame DEF RenderOf, Taken
  <2> QED BY <2>1, <2>2, Framed, OpsHidden
<1>2. ASSUME NEW i \in Ops
      PROVE  Installing(i, h) <=> renders[i].host = h /\ renders[i].charts # {}
  <2>1. renders[i] = RenderOf(op[i]) /\ h # None
    BY DEF renders
  <2>2. CASE op[i].step = "host"
    <3>1. renders[i].host = op[i].host /\ renders[i].charts = {None}
      BY <2>1, <2>2 DEF RenderOf, Taken
    <3> QED BY <2>2, <3>1 DEF Installing
  <2>3. CASE op[i].step = "companions"
    <3>1. renders[i].host = op[i].host /\ renders[i].charts = op[i].todo
      BY <2>1, <2>3 DEF RenderOf, Taken
    <3> QED BY <2>3, <3>1 DEF Installing
  <2>4. CASE op[i].step \notin {"host", "companions"}
    <3>1. renders[i].charts = {}
      BY <2>1, <2>4 DEF RenderOf
    <3> QED BY <2>4, <3>1 DEF Installing
  <2> QED BY <2>2, <2>3, <2>4
<1>3. raced' = [raced EXCEPT ![h] =
        \E i \in Ops : renders[i].host = h /\ renders[i].charts # {}]
  <2>1. raced' = [raced EXCEPT ![h] = \E i \in Ops : Installing(i, h)]
    BY DEF cancelHelmOperation
  <2>2. (\E i \in Ops : Installing(i, h))
          = (\E i \in Ops : renders[i].host = h /\ renders[i].charts # {})
    BY <1>2
  <2> QED BY <2>1, <2>2
<1>4. outlines[h].exists /\ outlines[h].deleting /\ views[h].deleting
  BY TornDown DEF cancelHelmOperation, Teardown
<1> QED BY <1>1, <1>3, <1>4 DEF Promise!Begin

LEMMA UninstallShows ==
  ASSUME TypeInv, NEW h \in Hosts, HostInv(h),
         UninstallHost(h) \/ UninstallCompanion(h)
  PROVE  Promise!Uninstall(h) \/ Hidden
<1>1. UNCHANGED <<outlines, views, renders, raced>>
  BY Framed DEF UninstallHost, UninstallCompanion, api
<1>2. outlines[h].exists /\ outlines[h].deleting /\ views[h].deleting
  BY TornDown DEF UninstallHost, UninstallCompanion, Teardown
<1>3. CASE UNCHANGED rel
  BY <1>1, <1>3, Framed DEF Hidden
<1>4. rel[h] \in Releases /\ releases[h] = Installed(rel[h])
  BY RowsTyped, RowsShown
<1>5. CASE UninstallHost(h) /\ rel' # rel
  <2> DEFINE r == [rel[h] EXCEPT !.gen = 0, !.spec = None, !.wedged = @ \ {None}]
  <2>1. rel' = [rel EXCEPT ![h] = r]
    BY <1>5 DEF UninstallHost
  <2>2. r.gen = 0 /\ r.spec = None /\ r.companions = rel[h].companions
    BY <1>4 DEF Releases
  <2>3. Installed(r) = [releases[h] EXCEPT !.gen = 0, !.spec = None]
    <3> HIDE DEF r
    <3>1. Installed(r) = [gen |-> 0, spec |-> None, companions |-> rel[h].companions]
      BY <2>2 DEF Installed
    <3>2. 0 \in 0..MaxGeneration
      OBVIOUS
    <3>3. releases[h] \in Shown /\ releases[h].companions = rel[h].companions
      BY InstalledTyped
    <3>4. [releases[h] EXCEPT !.gen = 0, !.spec = None]
            = [gen |-> 0, spec |-> None, companions |-> releases[h].companions]
      BY <3>2, <3>3, HostChartExcept, Zenon
    <3> QED BY <3>1, <3>3, <3>4
  <2> HIDE DEF r
  <2>4. releases' = [releases EXCEPT ![h] = Installed(r)]
    BY <2>1, ReleaseShows
  <2>5. releases' = [releases EXCEPT ![h].gen = 0, ![h].spec = None]
    BY <2>3, <2>4 DEF releases
  <2> QED BY <1>1, <1>2, <2>5 DEF Promise!Uninstall
<1>6. CASE UninstallCompanion(h) /\ rel' # rel
  <2>1. PICK c \in worker[h].todo :
          rel' = [rel EXCEPT ![h].companions = @ \ {c}, ![h].wedged = @ \ {c}]
    BY <1>6 DEF UninstallCompanion
  <2>2. c \in Companions
    BY RowsTyped DEF Worker
  <2> DEFINE r == [rel[h] EXCEPT !.companions = @ \ {c}, !.wedged = @ \ {c}]
  <2>3. rel' = [rel EXCEPT ![h] = r]
    BY <2>1
  <2>4. r.gen = rel[h].gen /\ r.spec = rel[h].spec
        /\ r.companions = rel[h].companions \ {c}
    BY <1>4 DEF Releases
  <2>5. Installed(r) = [releases[h] EXCEPT !.companions = @ \ {c}]
    <3> HIDE DEF r
    <3>1. Installed(r) = [gen |-> rel[h].gen, spec |-> rel[h].spec,
                          companions |-> rel[h].companions \ {c}]
      BY <2>4 DEF Installed
    <3>2. releases[h].companions \ {c} \in SUBSET Companions
      BY InstalledTyped DEF Shown
    <3>3. /\ releases[h] \in Shown /\ releases[h].companions = rel[h].companions
          /\ releases[h].gen = rel[h].gen /\ releases[h].spec = rel[h].spec
      BY InstalledTyped
    <3>4. [releases[h] EXCEPT !.companions = releases[h].companions \ {c}]
            = [gen |-> releases[h].gen, spec |-> releases[h].spec,
               companions |-> releases[h].companions \ {c}]
      BY <3>2, <3>3, CompanionsExcept, Zenon
    <3> QED BY <3>1, <3>3, <3>4
  <2> HIDE DEF r
  <2>6. releases' = [releases EXCEPT ![h] = Installed(r)]
    BY <2>3, ReleaseShows
  <2>7. releases' = [releases EXCEPT ![h].companions = @ \ {c}]
    BY <2>5, <2>6 DEF releases
  <2> QED BY <1>1, <1>2, <2>2, <2>7 DEF Promise!Uninstall
<1> QED BY <1>3, <1>5, <1>6

\* The finalizer goes when nothing is left, or when a render was under way.
LEMMA FinishShows ==
  ASSUME TypeInv, NEW h \in Hosts, HostInv(h), FinishTeardown(h)
  PROVE  Promise!Leave(h) \/ Hidden
<1>1. UNCHANGED <<views, renders, releases, raced>>
  BY Framed DEF FinishTeardown, aux
<1>2. CASE UNCHANGED server
  BY <1>1, <1>2, Framed DEF Hidden
<1>3. CASE server' # server
  <2> DEFINE o == [server[h] EXCEPT !.exists = FALSE, !.finalizer = FALSE]
             e == [outlines[h] EXCEPT !.exists = FALSE, !.finalizer = FALSE]
  <2>1. /\ ~worker[h].failed /\ worker[h].step = "uninstall_companions"
        /\ worker[h].todo = {} /\ server' = [server EXCEPT ![h] = o]
    BY <1>3 DEF FinishTeardown, Store
  <2>2. outlines[h].exists /\ outlines[h].deleting /\ views[h].deleting
    BY <2>1, TornDown DEF Teardown
  <2>3. releases[h] = Promise!Nothing \/ raced[h]
    <3>1. CASE ~raced[h]
      <4>1. rel[h].gen = 0 /\ rel[h].spec = None /\ rel[h].companions = {}
        BY <2>1, <3>1 DEF HostInv, ReleaseInv
      <4> QED BY <4>1, RowsShown DEF Installed, Promise!Nothing
    <3> QED BY <3>1
  <2>4. server[h] \in Object
    BY RowsTyped
  <2>5. o \in Object
    BY <2>4 DEF Object
  <2>6. outlines[h] \in Outlines /\ outlines[h] = Outline(server[h])
    BY <2>4, OutlineTyped, RowsShown
  <2>7. Outline(o) = e
    <3>1. Outline(o) \in Outlines /\ e \in Outlines
      BY <2>5, <2>6, OutlineTyped DEF Outlines
    <3>2. /\ e.exists = FALSE /\ e.deleting = outlines[h].deleting
          /\ e.finalizer = FALSE /\ e.gen = outlines[h].gen /\ e.spec = outlines[h].spec
      BY <2>6 DEF Outlines
    <3>3. /\ o.exists = FALSE /\ o.deleting = server[h].deleting
          /\ o.finalizer = FALSE /\ o.gen = server[h].gen /\ o.spec = server[h].spec
      BY <2>4 DEF Object
    <3> HIDE DEF o, e
    <3>4. /\ outlines[h].deleting = server[h].deleting
          /\ outlines[h].gen = server[h].gen /\ outlines[h].spec = server[h].spec
      BY <2>6 DEF Outline
    <3>5. /\ Outline(o).exists = o.exists /\ Outline(o).deleting = o.deleting
          /\ Outline(o).finalizer = o.finalizer /\ Outline(o).gen = o.gen
          /\ Outline(o).spec = o.spec
      BY DEF Outline
    <3>6. /\ Outline(o).exists = e.exists /\ Outline(o).deleting = e.deleting
          /\ Outline(o).finalizer = e.finalizer /\ Outline(o).gen = e.gen
          /\ Outline(o).spec = e.spec
      BY <3>2, <3>3, <3>4, <3>5
    <3> QED BY <3>1, <3>6, OutlinesEqual
  <2> HIDE DEF o
  <2>8. outlines' = [outlines EXCEPT ![h] = e]
    BY <2>1, <2>7, StoreShows
  <2>9. outlines' = [outlines EXCEPT ![h].exists = FALSE, ![h].finalizer = FALSE]
    BY <2>8 DEF outlines
  <2> QED BY <1>1, <2>2, <2>3, <2>9 DEF Promise!Leave
<1> QED BY <1>2, <1>3

\* One Reconcile call's step is one of the promise, or does not show.
LEMMA ReconcileShows ==
  ASSUME TypeInv, NEW h \in Hosts, HostInv(h), Reconcile(h)
  PROVE  Hidden \/ Promise!Guard(h) \/ Promise!Begin(h) \/ Promise!Uninstall(h)
         \/ Promise!Leave(h)
BY GetHostShows, HelmShows, BeginShows, UninstallShows, FinishShows DEF Reconcile

-----------------------------------------------------------------------------
(* The goroutines *)

\* A goroutine's step is its own.
LEMMA OneRow ==
  ASSUME TypeInv, NEW i \in Ops, runAsyncHelmReconcile(i), NEW j \in Ops, j # i
  PROVE  op'[j] = op[j]
<1>1. \/ \E o : op' = [op EXCEPT ![i] = o]
      \/ op' = op
  BY DEF runAsyncHelmReconcile, OpGet, acquireHelmRenderSlot, CancelledWaiting, Reread,
         reconcileHostManagerChart, reconcileCompanionChart, ReleaseSlot,
         ListUndeclared, pruneCompanionCharts, updateHelmStatus, Return, Fail,
         Refused, GiveUp
<1> QED BY <1>1 DEF TypeInv

\* A goroutine that returns, gives up, or has not come to its re-read.
LEMMA StopShows ==
  ASSUME TypeInv, NEW i \in Ops, \A j \in Ops : j # i => op'[j] = op[j],
         ~Taken(op'[i]), UNCHANGED <<outlines, cache, rel, raced>>
  PROVE  Promise!Stop(i)
<1>1. renders' = [renders EXCEPT ![i] = Promise!NoRender]
  BY OpShows, NotTaken
<1>2. UNCHANGED <<views, releases>>
  BY Framed
<1> QED BY <1>1, <1>2 DEF Promise!Stop

LEMMA EndsNotTaken ==
  ASSUME TypeInv, NEW i \in Ops, Return(i) \/ GiveUp(i)
  PROVE  ~Taken(op'[i])
<1>1. op \in [Ops -> Operation]
  BY DEF TypeInv
<1>2. op'[i].step \in {"idle", "report"}
  BY <1>1 DEF Return, GiveUp, IdleOp, Operation
<1> QED BY <1>2 DEF Taken

LEMMA QuietShows ==
  ASSUME TypeInv, NEW i \in Ops,
         \/ OpGet(i) \/ acquireHelmRenderSlot(i) \/ CancelledWaiting(i)
         \/ updateHelmStatus(i)
  PROVE  Promise!Stop(i)
<1>1. \A j \in Ops : j # i => op'[j] = op[j]
  BY OneRow DEF runAsyncHelmReconcile
<1>2. UNCHANGED <<cache, rel, raced>>
  BY DEF OpGet, acquireHelmRenderSlot, CancelledWaiting, updateHelmStatus, api, aux,
         Fail, GiveUp
<1>3. UNCHANGED outlines
  <2>1. CASE updateHelmStatus(i)
    <3>1. op[i].host \in Hosts
      BY <2>1 DEF updateHelmStatus, TypeInv, OpShape
    <3>2. UNCHANGED server \/ \E b, d : PatchStatus(op[i].host, b, d)
      BY <2>1 DEF updateHelmStatus
    <3> QED BY <3>1, <3>2, Framed, PatchShows
  <2>2. CASE ~updateHelmStatus(i)
    BY <2>2, Framed DEF OpGet, acquireHelmRenderSlot, CancelledWaiting, api
  <2> QED BY <2>1, <2>2
<1>4. ~Taken(op'[i])
  <2>1. CASE Return(i) \/ GiveUp(i)
    BY <2>1, EndsNotTaken
  <2>2. CASE ~(Return(i) \/ GiveUp(i))
    <3>1. op'[i].step \in {"wait", "reread"}
      BY <2>2 DEF OpGet, acquireHelmRenderSlot, CancelledWaiting, updateHelmStatus,
                  Fail, TypeInv, Operation
    <3> QED BY <3>1 DEF Taken
  <2> QED BY <2>1, <2>2
<1> QED BY <1>1, <1>2, <1>3, <1>4, StopShows

\* The promise counts as the controller does.
LEMMA SameCount ==
  ASSUME NEW S PROVE Promise!Cardinality(S) = Cardinality(S)
BY DEF Promise!Cardinality, Promise!IsFiniteSet, Cardinality, IsFiniteSet

\* Under a bound, whoever is about to read the host again holds a slot that no
\* renderer holds.
LEMMA SlotLeft ==
  ASSUME TypeInv, SlotsCounted, NEW i \in Ops, op[i].step = "reread",
         RenderConcurrency > 0
  PROVE  Promise!Cardinality({j \in Ops : Promise!Rendering(j)}) < RenderConcurrency
<1> DEFINE R == {j \in Ops : Promise!Rendering(j)}
<1>1. ASSUME NEW j \in R PROVE j \in SlotHolders /\ j # i
  <2>1. renders[j] = RenderOf(op[j]) /\ renders[j].host # None /\ ~renders[j].pruning
    BY DEF Promise!Rendering, renders
  <2>2. Taken(op[j])
    BY <2>1, NotTaken DEF Promise!NoRender
  <2>3. op[j].step \notin {"list_owned", "prune"}
    <3>1. SUFFICES ASSUME op[j].step \in {"list_owned", "prune"} PROVE FALSE
      OBVIOUS
    <3>2. (op[j].step \in {"list_owned", "prune"}) = TRUE
      BY <3>1
    <3>3. RenderOf(op[j]).pruning = TRUE
      BY <3>2 DEF RenderOf
    <3> QED BY <2>1, <3>3
  <2>4. op[j].step \in {"host", "companions"}
    BY <2>2, <2>3 DEF Taken
  <2> QED BY <2>4 DEF SlotsCounted, RenderSteps, SlotHolders
<1>2. i \in SlotHolders
  BY DEF SlotsCounted, RenderSteps, SlotHolders
<1>3. R \subseteq SlotHolders \ {i}
  BY <1>1
<1>4. IsFiniteSet(SlotHolders) /\ Cardinality(SlotHolders) \in Nat
  BY HoldersFinite
<1>5. /\ IsFiniteSet(SlotHolders \ {i})
      /\ Cardinality(SlotHolders \ {i}) = Cardinality(SlotHolders) - 1
  BY <1>2, <1>4, FS_RemoveElement
<1>6. Cardinality(R) <= Cardinality(SlotHolders \ {i}) /\ Cardinality(R) \in Nat
  <2> HIDE DEF R
  <2> QED BY <1>3, <1>5, FS_Subset, FS_CardinalityType
<1>7. Cardinality(SlotHolders) <= RenderConcurrency
  BY DEF SlotsCounted
<1> QED BY <1>4, <1>5, <1>6, <1>7, SameCount

\* The re-read takes the host as the informer shows it.
LEMMA RereadShows ==
  ASSUME TypeInv, SlotsCounted, NEW i \in Ops, Reread(i),
         \A h \in Hosts : Guarded(h)
  PROVE  Promise!Take(i) \/ Promise!Stop(i)
<1>1. \A j \in Ops : j # i => op'[j] = op[j]
  BY OneRow DEF runAsyncHelmReconcile
<1>2. UNCHANGED <<outlines, views, releases, cache, rel, raced>>
  BY Framed DEF Reread, api, Fail, GiveUp
<1>3. CASE Return(i) \/ GiveUp(i)
  BY <1>1, <1>2, <1>3, EndsNotTaken, StopShows
<1>4. CASE ~(Return(i) \/ GiveUp(i))
  <2> DEFINE h == op[i].host
  <2>1. h \in Hosts /\ op[i].step = "reread" /\ op[i] \in Operation
    BY DEF Reread, TypeInv, OpShape
  <2>2. /\ ~Abandoned(h)
        /\ op' = [op EXCEPT ![i].step = "host", ![i].gen = cache[h].gen,
                            ![i].spec = cache[h].spec]
    BY <1>4 DEF Reread, Fail
  <2>3. /\ op'[i].step = "host" /\ op'[i].host = h
        /\ op'[i].gen = cache[h].gen /\ op'[i].spec = cache[h].spec
    BY <2>1, <2>2 DEF TypeInv, Operation
  <2>4. views[h] = Outline(cache[h])
    BY <2>1, RowsShown
  <2>5. views[h].exists /\ ~views[h].deleting /\ views[h].finalizer
    BY <2>1, <2>2, <2>4 DEF Abandoned, Guarded, Live, Outline
  <2>6. views[h].gen = cache[h].gen /\ views[h].spec = cache[h].spec
    BY <2>4 DEF Outline
  <2>7. RenderOf(op'[i]) = [host |-> h, gen |-> views[h].gen, spec |-> views[h].spec,
                            charts |-> {None}, pruning |-> FALSE]
    <3>1. (op'[i].step \in {"list_owned", "prune"}) = FALSE
      BY <2>3
    <3> QED BY <2>3, <2>6, <3>1 DEF RenderOf, Taken
  <2>8. renders[i] = Promise!NoRender
    BY <2>1, NotTaken DEF renders, Taken
  <2>9. renders' = [renders EXCEPT ![i] =
            [host |-> h, gen |-> views[h].gen, spec |-> views[h].spec,
             charts |-> {None}, pruning |-> FALSE]]
    BY <1>1, <2>7, OpShows
  <2>10. RenderConcurrency > 0 =>
           Promise!Cardinality({j \in Ops : Promise!Rendering(j)}) < RenderConcurrency
    BY <2>1, SlotLeft
  <2>11. \E g \in Hosts :
           /\ views[g].exists /\ ~views[g].deleting /\ views[g].finalizer
           /\ renders' = [renders EXCEPT ![i] =
                [host |-> g, gen |-> views[g].gen, spec |-> views[g].spec,
                 charts |-> {None}, pruning |-> FALSE]]
    <3> HIDE DEF h
    <3> QED BY <2>1, <2>5, <2>9
  <2> QED BY <1>2, <2>8, <2>10, <2>11 DEF Promise!Take
<1> QED BY <1>3, <1>4

\* What goroutine i shows while it installs.
LEMMA RendererShows ==
  ASSUME TypeInv, NEW i \in Ops, op[i].step \in {"host", "companions"}
  PROVE  /\ Promise!Rendering(i)
         /\ renders[i] = [host |-> op[i].host, gen |-> op[i].gen,
                          spec |-> op[i].spec,
                          charts |-> IF op[i].step = "host" THEN {None} ELSE op[i].todo,
                          pruning |-> FALSE]
<1>1. (op[i].step \in {"list_owned", "prune"}) = FALSE
  OBVIOUS
<1>2. op[i].host \in Hosts
  BY DEF TypeInv, OpShape
<1>3. renders[i] = RenderOf(op[i])
  BY DEF renders
<1>4. RenderOf(op[i]) = [host |-> op[i].host, gen |-> op[i].gen, spec |-> op[i].spec,
                         charts |-> IF op[i].step = "host" THEN {None} ELSE op[i].todo,
                         pruning |-> FALSE]
  BY <1>1 DEF RenderOf, Taken
<1>5. renders[i].host # None /\ ~renders[i].pruning
  BY <1>2, <1>3, <1>4
<1> QED BY <1>3, <1>4, <1>5 DEF Promise!Rendering

\* A render record after some of it changed.
RenderRecord == [host: Hosts, gen: 0..MaxGeneration, spec: Specs,
                 charts: SUBSET (Companions \cup {None}), pruning: BOOLEAN]

LEMMA RenderTyped ==
  ASSUME TypeInv, NEW i \in Ops, op[i].step \in {"host", "companions"}
  PROVE  renders[i] \in RenderRecord
<1>1. /\ op[i].host \in Hosts /\ op[i].spec \in Specs /\ op[i].gen \in 0..MaxGeneration
      /\ op[i].todo \subseteq Companions
  BY DEF TypeInv, OpShape, Operation
<1> DEFINE C == IF op[i].step = "host" THEN {None} ELSE op[i].todo
<1>2. C \in SUBSET (Companions \cup {None})
  BY <1>1
<1>3. renders[i] = [host |-> op[i].host, gen |-> op[i].gen, spec |-> op[i].spec,
                    charts |-> C, pruning |-> FALSE]
  BY RendererShows
<1> HIDE DEF C
<1> QED BY <1>1, <1>2, <1>3 DEF RenderRecord

LEMMA ChartsExcept ==
  ASSUME NEW r \in RenderRecord, NEW C \in SUBSET (Companions \cup {None})
  PROVE  [r EXCEPT !.charts = C]
           = [host |-> r.host, gen |-> r.gen, spec |-> r.spec, charts |-> C,
              pruning |-> r.pruning]
BY DEF RenderRecord

LEMMA PruningExcept ==
  ASSUME NEW r \in RenderRecord
  PROVE  [r EXCEPT !.pruning = TRUE]
           = [host |-> r.host, gen |-> r.gen, spec |-> r.spec,
              charts |-> r.charts, pruning |-> TRUE]
<1> DEFINE e == [r EXCEPT !.pruning = TRUE]
<1>1. e \in RenderRecord /\ e.host = r.host /\ e.gen = r.gen /\ e.spec = r.spec
      /\ e.charts = r.charts /\ e.pruning = TRUE
  BY DEF RenderRecord
<1> HIDE DEF e
<1>2. e = [host |-> r.host, gen |-> r.gen, spec |-> r.spec,
           charts |-> r.charts, pruning |-> TRUE]
  BY <1>1 DEF RenderRecord
<1> QED BY <1>2 DEF e

LEMMA InstallHostShows ==
  ASSUME TypeInv, NEW i \in Ops, reconcileHostManagerChart(i)
  PROVE  Promise!InstallHost(i) \/ Promise!Stop(i)
<1>1. \A j \in Ops : j # i => op'[j] = op[j]
  BY OneRow DEF runAsyncHelmReconcile
<1>2. UNCHANGED <<outlines, views, raced, cache>>
  BY Framed DEF reconcileHostManagerChart, api
<1>3. CASE GiveUp(i)
  <2>1. UNCHANGED rel
    BY <1>3 DEF GiveUp
  <2> QED BY <1>1, <1>2, <1>3, <2>1, EndsNotTaken, StopShows
<1>4. CASE ~GiveUp(i)
  <2> DEFINE h == op[i].host
             r == [rel[h] EXCEPT !.gen = op[i].gen, !.spec = op[i].spec]
  <2>1. /\ h \in Hosts /\ op[i].step = "host" /\ op[i] \in Operation
        /\ op[i].spec \in Specs /\ op[i].gen \in 0..MaxGeneration
    BY DEF reconcileHostManagerChart, TypeInv, OpShape, Operation
  <2>2. /\ rel' = [rel EXCEPT ![h].gen = op[i].gen, ![h].spec = op[i].spec]
        /\ op' = [op EXCEPT ![i].step = "companions", ![i].todo = Declares[op[i].spec]]
    BY <1>4 DEF reconcileHostManagerChart, Refused, Fail
  <2>3. Promise!Rendering(i)
        /\ renders[i] = [host |-> h, gen |-> op[i].gen, spec |-> op[i].spec,
                         charts |-> {None}, pruning |-> FALSE]
    BY <2>1, RendererShows
  <2>4. /\ op'[i].step = "companions" /\ op'[i].host = h /\ op'[i].gen = op[i].gen
        /\ op'[i].spec = op[i].spec /\ op'[i].todo = Declares[op[i].spec]
    BY <2>1, <2>2 DEF TypeInv, Operation
  <2>5. RenderOf(op'[i]) = [host |-> h, gen |-> op[i].gen, spec |-> op[i].spec,
                            charts |-> Declares[op[i].spec], pruning |-> FALSE]
    <3>1. (op'[i].step \in {"list_owned", "prune"}) = FALSE
      BY <2>4
    <3> QED BY <2>4, <3>1 DEF RenderOf, Taken
  <2>6. RenderOf(op'[i]) = [renders[i] EXCEPT !.charts = Declares[renders[i].spec]]
    <3>1. renders[i].spec = op[i].spec /\ renders[i].host = h
          /\ renders[i].gen = op[i].gen /\ renders[i].pruning = FALSE
      BY <2>3
    <3>2. renders[i] \in RenderRecord
      BY <2>1, RenderTyped
    <3>3. Declares[op[i].spec] \in SUBSET (Companions \cup {None})
      BY <2>1
    <3>4. [renders[i] EXCEPT !.charts = Declares[op[i].spec]]
            = [host |-> renders[i].host, gen |-> renders[i].gen, spec |-> renders[i].spec,
               charts |-> Declares[op[i].spec], pruning |-> renders[i].pruning]
      BY <3>2, <3>3, ChartsExcept, Zenon
    <3> QED BY <2>5, <3>1, <3>4
  <2>7. renders' = [renders EXCEPT ![i].charts = Declares[renders[i].spec]]
    <3>1. renders' = [renders EXCEPT ![i] = RenderOf(op'[i])]
      BY <1>1, OpShows
    <3> QED BY <2>6, <3>1
  <2>8. releases' = [releases EXCEPT ![h].gen = op[i].gen, ![h].spec = op[i].spec]
    <3>1. rel[h] \in Releases
      BY <2>1, RowsTyped
    <3>2. r.gen = op[i].gen /\ r.spec = op[i].spec /\ r.companions = rel[h].companions
      BY <3>1 DEF Releases
    <3>3. rel' = [rel EXCEPT ![h] = r]
      BY <2>2
    <3> HIDE DEF r, h
    <3>4. Installed(r) = [gen |-> op[i].gen, spec |-> op[i].spec,
                          companions |-> rel[h].companions]
      BY <3>2 DEF Installed
    <3>5. releases[h] \in Shown /\ releases[h].companions = rel[h].companions
      BY <2>1, InstalledTyped
    <3>6. op[i].gen \in 0..MaxGeneration /\ op[i].spec \in Specs \cup {None}
      BY <2>1
    <3>7. [releases[h] EXCEPT !.gen = op[i].gen, !.spec = op[i].spec]
            = [gen |-> op[i].gen, spec |-> op[i].spec,
               companions |-> releases[h].companions]
      BY <3>5, <3>6, HostChartExcept, Zenon
    <3>8. releases' = [releases EXCEPT ![h] = Installed(r)]
      BY <2>1, <3>3, ReleaseShows
    <3>9. Installed(r) = [releases[h] EXCEPT !.gen = op[i].gen, !.spec = op[i].spec]
      BY <3>4, <3>5, <3>7
    <3> QED BY <3>8, <3>9 DEF releases
  <2>9. renders[i].host = h /\ renders[i].gen = op[i].gen /\ renders[i].spec = op[i].spec
        /\ None \in renders[i].charts
    BY <2>3
  <2> HIDE DEF h
  <2>10. releases' = [releases EXCEPT ![renders[i].host].gen = renders[i].gen,
                                      ![renders[i].host].spec = renders[i].spec]
    BY <2>8, <2>9
  <2> QED BY <1>2, <2>3, <2>7, <2>9, <2>10 DEF Promise!InstallHost
<1> QED BY <1>3, <1>4

LEMMA InstallCompanionShows ==
  ASSUME TypeInv, NEW i \in Ops, reconcileCompanionChart(i)
  PROVE  Promise!InstallCompanion(i) \/ Promise!Stop(i)
<1>1. \A j \in Ops : j # i => op'[j] = op[j]
  BY OneRow DEF runAsyncHelmReconcile
<1>2. UNCHANGED <<outlines, views, raced, cache>>
  BY Framed DEF reconcileCompanionChart, api
<1>3. CASE GiveUp(i)
  <2>1. UNCHANGED rel
    BY <1>3 DEF GiveUp
  <2> QED BY <1>1, <1>2, <1>3, <2>1, EndsNotTaken, StopShows
<1>4. CASE ~GiveUp(i)
  <2> DEFINE h == op[i].host
  <2>1. /\ h \in Hosts /\ op[i].step = "companions" /\ op[i] \in Operation
        /\ op[i].todo \subseteq Companions
    BY DEF reconcileCompanionChart, TypeInv, OpShape, Operation
  <2>2. PICK c \in op[i].todo :
          /\ rel' = [rel EXCEPT ![h].companions = @ \cup {c}]
          /\ op' = [op EXCEPT ![i].todo = @ \ {c}]
    BY <1>4 DEF reconcileCompanionChart, Refused, Fail
  <2> DEFINE r == [rel[h] EXCEPT !.companions = @ \cup {c}]
             C == op[i].todo \ {c}
  <2>3. Promise!Rendering(i)
        /\ renders[i] = [host |-> h, gen |-> op[i].gen, spec |-> op[i].spec,
                         charts |-> op[i].todo, pruning |-> FALSE]
    BY <2>1, RendererShows
  <2>4. /\ op'[i].step = "companions" /\ op'[i].host = h /\ op'[i].gen = op[i].gen
        /\ op'[i].spec = op[i].spec /\ op'[i].todo = C
    BY <2>1, <2>2 DEF TypeInv, Operation
  <2>5. RenderOf(op'[i]) = [host |-> h, gen |-> op[i].gen, spec |-> op[i].spec,
                            charts |-> C, pruning |-> FALSE]
    <3>1. (op'[i].step \in {"list_owned", "prune"}) = FALSE
      BY <2>4
    <3> HIDE DEF C
    <3> QED BY <2>4, <3>1 DEF RenderOf, Taken
  <2>6. RenderOf(op'[i]) = [renders[i] EXCEPT !.charts = @ \ {c}]
    <3>1. renders[i].spec = op[i].spec /\ renders[i].host = h
          /\ renders[i].gen = op[i].gen /\ renders[i].pruning = FALSE
          /\ renders[i].charts = op[i].todo
      BY <2>3
    <3>2. renders[i] \in RenderRecord
      BY <2>1, RenderTyped
    <3>3. C \in SUBSET (Companions \cup {None})
      BY <2>1
    <3> HIDE DEF C
    <3>4. [renders[i] EXCEPT !.charts = C]
            = [host |-> renders[i].host, gen |-> renders[i].gen, spec |-> renders[i].spec,
               charts |-> C, pruning |-> renders[i].pruning]
      BY <3>2, <3>3, ChartsExcept, Zenon
    <3>5. renders[i].charts \ {c} = C
      BY <3>1 DEF C
    <3> QED BY <2>5, <3>1, <3>4, <3>5
  <2>7. renders' = [renders EXCEPT ![i].charts = @ \ {c}]
    <3>1. renders' = [renders EXCEPT ![i] = RenderOf(op'[i])]
      BY <1>1, OpShows
    <3> QED BY <2>6, <3>1
  <2>8. releases' = [releases EXCEPT ![h].companions = @ \cup {c}]
    <3>1. rel[h] \in Releases
      BY <2>1, RowsTyped
    <3>2. r.gen = rel[h].gen /\ r.spec = rel[h].spec
          /\ r.companions = rel[h].companions \cup {c}
      BY <3>1 DEF Releases
    <3>3. rel' = [rel EXCEPT ![h] = r]
      BY <2>2
    <3>4. releases[h] \in Shown /\ releases[h].companions = rel[h].companions
          /\ releases[h].gen = rel[h].gen /\ releases[h].spec = rel[h].spec
      BY <2>1, InstalledTyped
    <3> HIDE DEF r, h
    <3>5. Installed(r) = [gen |-> rel[h].gen, spec |-> rel[h].spec,
                          companions |-> rel[h].companions \cup {c}]
      BY <3>2 DEF Installed
    <3>6. releases[h].companions \cup {c} \in SUBSET Companions
      BY <2>1, <3>4 DEF Shown
    <3>7. [releases[h] EXCEPT !.companions = releases[h].companions \cup {c}]
            = [gen |-> releases[h].gen, spec |-> releases[h].spec,
               companions |-> releases[h].companions \cup {c}]
      BY <3>4, <3>6, CompanionsExcept, Zenon
    <3>8. releases' = [releases EXCEPT ![h] = Installed(r)]
      BY <2>1, <3>3, ReleaseShows
    <3>9. Installed(r) = [releases[h] EXCEPT !.companions = @ \cup {c}]
      BY <3>4, <3>5, <3>7
    <3> QED BY <3>8, <3>9 DEF releases
  <2>9. renders[i].host = h /\ c \in renders[i].charts \cap Companions
    BY <2>1, <2>3
  <2> HIDE DEF h
  <2>10. releases' = [releases EXCEPT ![renders[i].host].companions = @ \cup {c}]
    BY <2>8, <2>9
  <2> QED BY <1>2, <2>3, <2>7, <2>9, <2>10 DEF Promise!InstallCompanion
<1> QED BY <1>3, <1>4

\* Its slot given back, the goroutine turns to what is to be pruned.
LEMMA ReleaseSlotShows ==
  ASSUME TypeInv, NEW i \in Ops, ReleaseSlot(i)
  PROVE  Promise!StartPruning(i)
<1>1. \A j \in Ops : j # i => op'[j] = op[j]
  BY OneRow DEF runAsyncHelmReconcile
<1>2. UNCHANGED <<outlines, views, raced, releases>>
  BY Framed DEF ReleaseSlot, api, aux
<1>3. op[i].step = "companions" /\ op[i].todo = {} /\ op[i] \in Operation
  BY DEF ReleaseSlot, TypeInv
<1>4. /\ op'[i].step = "list_owned" /\ op'[i].host = op[i].host
      /\ op'[i].gen = op[i].gen /\ op'[i].spec = op[i].spec
  BY <1>3 DEF ReleaseSlot, TypeInv, Operation
<1>5. Promise!Rendering(i)
      /\ renders[i] = [host |-> op[i].host, gen |-> op[i].gen, spec |-> op[i].spec,
                       charts |-> {}, pruning |-> FALSE]
  BY <1>3, RendererShows
<1>6. RenderOf(op'[i]) = [host |-> op[i].host, gen |-> op[i].gen, spec |-> op[i].spec,
                          charts |-> {}, pruning |-> TRUE]
  <2>1. (op'[i].step \in {"list_owned", "prune"}) = TRUE
    BY <1>4
  <2> QED BY <1>4, <2>1 DEF RenderOf, Taken
<1>7. [renders[i] EXCEPT !.pruning = TRUE]
        = [host |-> renders[i].host, gen |-> renders[i].gen, spec |-> renders[i].spec,
           charts |-> renders[i].charts, pruning |-> TRUE]
  <2>1. renders[i] \in RenderRecord
    BY <1>3, RenderTyped
  <2> QED BY <2>1, PruningExcept, Zenon
<1>8. renders' = [renders EXCEPT ![i].pruning = TRUE]
  <2>1. renders' = [renders EXCEPT ![i] = RenderOf(op'[i])]
    BY <1>1, OpShows
  <2>2. RenderOf(op'[i]) = [renders[i] EXCEPT !.pruning = TRUE]
    BY <1>5, <1>6, <1>7
  <2> QED BY <2>1, <2>2
<1>9. renders[i].charts = {}
  BY <1>5
<1> QED BY <1>2, <1>5, <1>8, <1>9 DEF Promise!StartPruning

\* What goroutine i shows while it prunes.
Pruning(o) == o.step \in {"list_owned", "prune"}

LEMMA PrunerShows ==
  ASSUME NEW o, Pruning(o)
  PROVE  RenderOf(o) = [host |-> o.host, gen |-> o.gen, spec |-> o.spec,
                        charts |-> {}, pruning |-> TRUE]
<1>1. (o.step \in {"list_owned", "prune"}) = TRUE
  BY DEF Pruning
<1> QED BY <1>1 DEF RenderOf, Taken

LEMMA ListShows ==
  ASSUME TypeInv, NEW i \in Ops, ListUndeclared(i)
  PROVE  Hidden \/ Promise!Stop(i)
<1>1. \A j \in Ops : j # i => op'[j] = op[j]
  BY OneRow DEF runAsyncHelmReconcile
<1>2. UNCHANGED <<outlines, views, raced, releases, cache, rel>>
  BY Framed DEF ListUndeclared, api, Fail, GiveUp
<1>3. CASE GiveUp(i)
  BY <1>1, <1>2, <1>3, EndsNotTaken, StopShows
<1>4. CASE ~GiveUp(i)
  <2>1. op[i].step = "list_owned" /\ op[i] \in Operation
    BY DEF ListUndeclared, TypeInv
  <2>2. /\ op'[i].step = "prune" /\ op'[i].host = op[i].host
        /\ op'[i].gen = op[i].gen /\ op'[i].spec = op[i].spec
    BY <1>4, <2>1 DEF ListUndeclared, Fail, TypeInv, Operation
  <2>3. RenderOf(op'[i]) = RenderOf(op[i])
    <3>1. RenderOf(op[i]) = [host |-> op[i].host, gen |-> op[i].gen,
                             spec |-> op[i].spec, charts |-> {}, pruning |-> TRUE]
      <4>1. Pruning(op[i])
        BY <2>1 DEF Pruning
      <4> QED BY <4>1, PrunerShows, Zenon
    <3>2. RenderOf(op'[i]) = [host |-> op'[i].host, gen |-> op'[i].gen,
                              spec |-> op'[i].spec, charts |-> {}, pruning |-> TRUE]
      <4>1. Pruning(op'[i])
        BY <2>2 DEF Pruning
      <4> QED BY <4>1, PrunerShows, Zenon
    <3> QED BY <2>2, <3>1, <3>2
  <2>4. \A j \in Ops : RenderOf(op'[j]) = RenderOf(op[j])
    BY <1>1, <2>3
  <2> QED BY <1>2, <2>4, OpsHidden DEF Hidden
<1> QED BY <1>3, <1>4

\* A goroutine prunes what its host does not declare.
LEMMA PruneShows ==
  ASSUME TypeInv, NEW i \in Ops, pruneCompanionCharts(i), Undeclared(i)
  PROVE  Promise!Prune(i) \/ Promise!Stop(i)
<1>1. \A j \in Ops : j # i => op'[j] = op[j]
  BY OneRow DEF runAsyncHelmReconcile
<1>2. UNCHANGED <<outlines, views, raced, cache>>
  BY Framed DEF pruneCompanionCharts, api
<1>3. op[i].step = "prune" /\ op[i] \in Operation /\ op[i].host \in Hosts
      /\ op[i].todo \subseteq Companions
  BY DEF pruneCompanionCharts, TypeInv, OpShape, Operation
<1>4. CASE GiveUp(i)
  <2>1. UNCHANGED rel
    BY <1>4 DEF GiveUp
  <2> QED BY <1>1, <1>2, <1>4, <2>1, EndsNotTaken, StopShows
<1>5. CASE UNCHANGED rel /\ op' = [op EXCEPT ![i].step = "report"]
  <2>1. op'[i].step = "report"
    BY <1>3, <1>5 DEF TypeInv, Operation
  <2>2. ~Taken(op'[i])
    BY <2>1 DEF Taken
  <2> QED BY <1>1, <1>2, <1>5, <2>2, StopShows
<1>6. CASE \E c \in op[i].todo :
             /\ rel' = [rel EXCEPT ![op[i].host].companions = @ \ {c},
                                   ![op[i].host].wedged = @ \ {c}]
             /\ op' = [op EXCEPT ![i].todo = @ \ {c}]
  <2> DEFINE h == op[i].host
  <2>1. PICK c \in op[i].todo :
             /\ rel' = [rel EXCEPT ![h].companions = @ \ {c},
                                   ![h].wedged = @ \ {c}]
             /\ op' = [op EXCEPT ![i].todo = @ \ {c}]
    BY <1>6
  <2> DEFINE r == [rel[h] EXCEPT !.companions = @ \ {c}, !.wedged = @ \ {c}]
  <2>2. renders[i] = [host |-> h, gen |-> op[i].gen, spec |-> op[i].spec,
                      charts |-> {}, pruning |-> TRUE]
    <3>1. Pruning(op[i])
      BY <1>3 DEF Pruning
    <3>2. RenderOf(op[i]) = [host |-> op[i].host, gen |-> op[i].gen,
                             spec |-> op[i].spec, charts |-> {}, pruning |-> TRUE]
      BY <3>1, PrunerShows, Zenon
    <3> QED BY <3>2 DEF renders
  <2>3. UNCHANGED renders
    <3>1. /\ op'[i].step = op[i].step /\ op'[i].host = op[i].host
          /\ op'[i].gen = op[i].gen /\ op'[i].spec = op[i].spec
      BY <1>3, <2>1 DEF TypeInv, Operation
    <3>2. RenderOf(op'[i]) = RenderOf(op[i])
      <4>1. Pruning(op'[i])
        BY <1>3, <3>1 DEF Pruning
      <4>2. RenderOf(op'[i]) = [host |-> op'[i].host, gen |-> op'[i].gen,
                                spec |-> op'[i].spec, charts |-> {}, pruning |-> TRUE]
        BY <4>1, PrunerShows, Zenon
      <4>3. renders[i] = RenderOf(op[i])
        BY DEF renders
      <4> QED BY <2>2, <3>1, <4>2, <4>3
    <3>3. \A j \in Ops : RenderOf(op'[j]) = RenderOf(op[j])
      BY <1>1, <3>2
    <3> QED BY <3>3, OpsHidden
  <2>4. c \in Companions \ Declares[renders[i].spec]
    <3>1. renders[i].spec = op[i].spec
      BY <2>2
    <3> QED BY <1>3, <3>1 DEF Undeclared
  <2>5. releases' = [releases EXCEPT ![h].companions = @ \ {c}]
    <3>1. rel[h] \in Releases
      BY <1>3, RowsTyped
    <3>2. r.gen = rel[h].gen /\ r.spec = rel[h].spec
          /\ r.companions = rel[h].companions \ {c}
      BY <3>1 DEF Releases
    <3>3. rel' = [rel EXCEPT ![h] = r]
      BY <2>1
    <3>4. releases[h] \in Shown /\ releases[h].companions = rel[h].companions
          /\ releases[h].gen = rel[h].gen /\ releases[h].spec = rel[h].spec
      BY <1>3, InstalledTyped
    <3> HIDE DEF r, h
    <3>5. Installed(r) = [gen |-> rel[h].gen, spec |-> rel[h].spec,
                          companions |-> rel[h].companions \ {c}]
      BY <3>2 DEF Installed
    <3>6. releases[h].companions \ {c} \in SUBSET Companions
      BY <3>4 DEF Shown
    <3>7. [releases[h] EXCEPT !.companions = releases[h].companions \ {c}]
            = [gen |-> releases[h].gen, spec |-> releases[h].spec,
               companions |-> releases[h].companions \ {c}]
      BY <3>4, <3>6, CompanionsExcept, Zenon
    <3>8. releases' = [releases EXCEPT ![h] = Installed(r)]
      BY <1>3, <3>3, ReleaseShows DEF h
    <3>9. Installed(r) = [releases[h] EXCEPT !.companions = @ \ {c}]
      BY <3>4, <3>5, <3>7
    <3> QED BY <3>8, <3>9 DEF releases
  <2>6. renders[i].host = h /\ renders[i].pruning
    BY <2>2
  <2> HIDE DEF h
  <2>7. releases' = [releases EXCEPT ![renders[i].host].companions = @ \ {c}]
    BY <2>5, <2>6
  <2> QED BY <1>2, <2>3, <2>4, <2>6, <2>7 DEF Promise!Prune
<1> QED BY <1>4, <1>5, <1>6 DEF pruneCompanionCharts

\* One goroutine's step is one of the promise, or does not show.
LEMMA GoroutineShows ==
  ASSUME TypeInv, SlotsCounted, NEW i \in Ops, runAsyncHelmReconcile(i),
         \A h \in Hosts : Guarded(h), Undeclared(i)
  PROVE  \/ Hidden \/ Promise!Take(i) \/ Promise!InstallHost(i)
         \/ Promise!InstallCompanion(i) \/ Promise!StartPruning(i)
         \/ Promise!Prune(i) \/ Promise!Stop(i)
BY QuietShows, RereadShows, InstallHostShows, InstallCompanionShows,
   ReleaseSlotShows, ListShows, PruneShows DEF runAsyncHelmReconcile

-----------------------------------------------------------------------------
(* Restarts *)

\* A goroutine cut off in a call for a chart has that chart to install.
LEMMA CutShows ==
  ASSUME TypeInv, NEW i \in Ops, NEW c \in InFlight(i)
  PROVE  /\ renders[i].host = op[i].host
         /\ renders[i].gen = op[i].gen /\ renders[i].spec = op[i].spec
         /\ c \in renders[i].charts
<1>1. \/ op[i].step = "host" /\ c = None
      \/ op[i].step = "companions" /\ c \in op[i].todo
  BY DEF InFlight
<1>2. Taken(op[i])
  BY <1>1 DEF Taken
<1>3. renders[i].charts = IF op[i].step = "host" THEN {None}
                          ELSE IF op[i].step = "companions" THEN op[i].todo
                          ELSE {}
  BY DEF renders, RenderOf
<1>4. c \in renders[i].charts
  BY <1>1, <1>3
<1> QED BY <1>2, <1>4, TakenShows

\* What a restart leaves of a host's releases.
LEMMA CutOffShows ==
  ASSUME TypeInv, NEW h \in Hosts, NEW busy, NEW chart, Cuts(busy, chart)
  PROVE  Installed(CutOff(h, chart)) \in Promise!CutShort(h)
<1> DEFINE At(c) == {i \in DOMAIN chart : op[i].host = h /\ chart[i] = c}
           one == CHOOSE i \in At(None) : TRUE
           cut == {c \in Companions \cup {None} : At(c) # {}}
           mine == {i \in Ops : renders[i].host = h}
           owner == {renders[i] : i \in {j \in mine : None \in renders[j].charts}}
           charts == (UNION {renders[i].charts : i \in mine}) \cap Companions
           base == IF None \in cut THEN renders[one] ELSE releases[h]
<1>1. \A c : \A i \in At(c) :
        /\ i \in mine /\ c \in renders[i].charts
        /\ renders[i].gen = op[i].gen /\ renders[i].spec = op[i].spec
  BY CutShows DEF Cuts
<1>2. None \in cut => one \in At(None)
  OBVIOUS
<1>3. base \in owner \cup {releases[h]}
  BY <1>1, <1>2
<1>4. cut \ {None} \in SUBSET charts
  <2>1. ASSUME NEW c \in cut \ {None} PROVE c \in charts
    <3>1. PICK i : i \in At(c)
      BY <2>1
    <3>2. i \in mine /\ c \in renders[i].charts
      BY <1>1, <3>1
    <3>3. c \in Companions
      BY <2>1
    <3> QED BY <3>2, <3>3
  <2> QED BY <2>1
<1>5. /\ base.gen = IF None \in cut THEN op[one].gen ELSE rel[h].gen
      /\ base.spec = IF None \in cut THEN op[one].spec ELSE rel[h].spec
      /\ releases[h].companions = rel[h].companions
  <2>1. CASE None \in cut
    BY <1>1, <1>2, <2>1, InstalledTyped
  <2>2. CASE None \notin cut
    BY <2>2, InstalledTyped
  <2> QED BY <2>1, <2>2
<1>6. Installed(CutOff(h, chart)) =
        [gen |-> IF None \in cut THEN op[one].gen ELSE rel[h].gen,
         spec |-> IF None \in cut THEN op[one].spec ELSE rel[h].spec,
         companions |-> rel[h].companions \cup (cut \ {None})]
  BY DEF Installed, CutOff
<1> DEFINE left(r, part) == [gen |-> r.gen, spec |-> r.spec,
                             companions |-> releases[h].companions \cup part]
           taken == owner \cup {releases[h]}
<1>7. Promise!CutShort(h) = {left(r, part) : r \in taken, part \in SUBSET charts}
  BY DEF Promise!CutShort
<1> HIDE DEF base, cut, one, charts
<1>8. Installed(CutOff(h, chart)) = left(base, cut \ {None})
  BY <1>5, <1>6
<1>9. base \in taken
  BY <1>3
<1> HIDE DEF left, taken
<1> QED BY <1>4, <1>7, <1>8, <1>9

LEMMA RestartShows ==
  ASSUME TypeInv, Restart
  PROVE  Promise!Restart
<1>1. PICK busy, chart : /\ Cuts(busy, chart)
                         /\ rel' = [h \in Hosts |-> CutOff(h, chart)]
  BY RestartCuts
<1>2. \A h \in Hosts : releases'[h] = Installed(CutOff(h, chart))
  BY <1>1 DEF releases
<1>3. \A h \in Hosts : releases'[h] \in Promise!CutShort(h)
  BY <1>1, <1>2, CutOffShows
<1>4. releases' \in [Hosts -> UNION {Promise!CutShort(h) : h \in Hosts}]
  BY <1>3 DEF releases
<1>5. views' = outlines
  BY DEF Restart, views, outlines
<1>6. renders' = [i \in Ops |-> Promise!NoRender]
  <2>1. \A i \in Ops : ~Taken(op'[i])
    BY DEF Restart, IdleOp, Taken
  <2>2. \A i \in Ops : RenderOf(op'[i]) = Promise!NoRender
    BY <2>1, NotTaken
  <2> QED BY <2>2 DEF renders
<1>7. UNCHANGED <<outlines, raced>>
  BY Framed DEF Restart
<1> QED BY <1>3, <1>4, <1>5, <1>6, <1>7 DEF Promise!Restart

-----------------------------------------------------------------------------
(* What the goroutines take and prune, from step to step *)

\* The host's copy is kept, and no pass begins.
LEMMA GuardedKept ==
  ASSUME NEW h \in Hosts, Guarded(h), cache'[h] = cache[h],
         worker'[h].step \in {"helm", "launch"} =>
           worker[h].step \in {"helm", "launch"},
         \A i \in Ops : op'[i].host = h => Live(h)
  PROVE  Guarded(h)'
BY DEF Guarded, Live

LEMMA EnvironmentGuarded ==
  ASSUME TypeInv, NEW h \in Hosts, HostInv(h), Guarded(h),
         NEW g \in Hosts, Environment(g)
  PROVE  Guarded(h)'
<1>0. UNCHANGED <<worker, op>>
  BY DEF Environment, EditSpec, DeleteHost, SyncCache, memory
<1>1. CASE cache'[h] = cache[h]
  BY <1>0, <1>1, GuardedKept DEF Live
<1>2. CASE cache'[h] # cache[h]
  <2>1. cache'[h] = server[h]
    <3>1. SyncCache(g)
      BY <1>2 DEF Environment, EditSpec, DeleteHost
    <3> QED BY <1>2, <3>1 DEF SyncCache, TypeInv
  <2>2. Live(h) => Started(h)
    BY DEF HostInv, ObjectInv, Live
  <2> QED BY <1>0, <2>1, <2>2 DEF Guarded, Live, Started
<1> QED BY <1>1, <1>2

LEMMA ReconcileGuarded ==
  ASSUME TypeInv, NEW h \in Hosts, Guarded(h), NEW g \in Hosts, Reconcile(g)
  PROVE  Guarded(h)'
<1>0. UNCHANGED cache /\ worker[g] \in Worker /\ worker \in [Hosts -> Worker]
  BY DEF Reconcile, GetHost, ReturnEarly, SkipHelm, StartHelm,
         trySetHelmOperationActive, AwaitChildren, cancelHelmOperation,
         UninstallHost, ListOwned, UninstallCompanion, FinishTeardown,
         DeferredPatch, api, TypeInv
<1>1. \A i \in Ops : op'[i].host = h => Live(h)
  <2>1. CASE UNCHANGED op
    BY <2>1 DEF Live
  <2>2. CASE trySetHelmOperationActive(g)
    BY <2>2, LaunchOps DEF Live, trySetHelmOperationActive
  <2>3. CASE cancelHelmOperation(g)
    BY <2>3, CancelledSame DEF Live, cancelHelmOperation
  <2> QED BY <2>1, <2>2, <2>3, ReconcileSteps
<1>2. CASE worker'[h].step \in {"helm", "launch"} =>
             worker[h].step \in {"helm", "launch"}
  BY <1>0, <1>1, <1>2, GuardedKept
<1>3. CASE /\ worker'[h].step \in {"helm", "launch"}
           /\ worker[h].step \notin {"helm", "launch"}
  <2>1. GetHost(g) /\ g = h /\ worker[h].step = "idle"
    <3>1. ASSUME NEW r, GoDefer(g, r) PROVE worker'[g].step = "defer"
      BY <1>0, <3>1 DEF GoDefer, Worker
    <3>2. \A k \in Hosts : k # g => worker'[k] = worker[k]
      <4>1. CASE GetHost(g) \/ StartHelm(g)
        BY <1>0, <4>1 DEF GetHost, StartHelm
      <4>2. ASSUME NEW r, GoDefer(g, r)
            PROVE  \A k \in Hosts : k # g => worker'[k] = worker[k]
        BY <1>0, <4>2 DEF GoDefer
      <4>3. CASE \/ ReturnEarly(g) \/ SkipHelm(g) \/ AwaitChildren(g)
                 \/ trySetHelmOperationActive(g) \/ FinishTeardown(g)
        BY <4>2, <4>3
           DEF ReturnEarly, SkipHelm, trySetHelmOperationActive, AwaitChildren,
               FinishTeardown, AfterHelm
      <4>4. CASE \/ cancelHelmOperation(g) \/ UninstallHost(g) \/ ListOwned(g)
                 \/ UninstallCompanion(g) \/ DeferredPatch(g)
        BY <1>0, <4>4
           DEF cancelHelmOperation, UninstallHost, ListOwned,
               UninstallCompanion, DeferredPatch
      <4> QED BY <4>1, <4>3, <4>4 DEF Reconcile
    <3>3. g = h
      BY <1>3, <3>2
    <3>4. ASSUME ReturnEarly(g) \/ SkipHelm(g) \/ trySetHelmOperationActive(g)
                 \/ AwaitChildren(g) \/ FinishTeardown(g)
          PROVE  FALSE
      BY <1>3, <3>1, <3>3, <3>4
         DEF ReturnEarly, SkipHelm, trySetHelmOperationActive, AwaitChildren,
             FinishTeardown, AfterHelm
    <3>5. ASSUME StartHelm(g) PROVE FALSE
      BY <1>3, <3>3, <3>5 DEF StartHelm
    <3>6. ASSUME cancelHelmOperation(g) \/ UninstallHost(g) \/ ListOwned(g)
                 \/ UninstallCompanion(g)
          PROVE  FALSE
      <4>1. worker'[g].step \in Teardown
        <5>1. CASE cancelHelmOperation(g)
          BY <1>0, <5>1 DEF cancelHelmOperation, Teardown, Worker
        <5>2. CASE UninstallHost(g)
          BY <1>0, <5>2 DEF UninstallHost, Teardown, Worker
        <5>3. CASE ListOwned(g)
          BY <1>0, <5>3 DEF ListOwned, Teardown, Worker
        <5>4. CASE UninstallCompanion(g)
          BY <1>0, <5>4 DEF UninstallCompanion, Teardown, Worker
        <5> QED BY <3>6, <5>1, <5>2, <5>3, <5>4
      <4> QED BY <1>3, <3>3, <4>1 DEF Teardown
    <3>7. ASSUME DeferredPatch(g) PROVE FALSE
      BY <1>0, <1>3, <3>3, <3>7 DEF DeferredPatch, IdleWorker
    <3> QED BY <3>3, <3>4, <3>5, <3>6, <3>7 DEF Reconcile, GetHost
  <2>2. cache[h].exists /\ ~cache[h].deleting => cache[h].finalizer
    <3>1. ASSUME cache[h].exists, ~cache[h].deleting, ~cache[h].finalizer
          PROVE  FALSE
      <4>1. worker' = [worker EXCEPT ![h] =
              [IdleWorker EXCEPT !.step = "defer", !.spec = cache[h].spec,
                                 !.attrs = cache[h].attrs, !.requeue = TRUE]]
        BY <2>1, <3>1 DEF GetHost
      <4>2. worker'[h].step = "defer"
        BY <1>0, <4>1 DEF IdleWorker
      <4> QED BY <1>3, <4>2
    <3> QED BY <3>1
  <2> QED BY <1>0, <2>2 DEF Guarded, Live
<1> QED BY <1>2, <1>3

LEMMA GoroutineGuarded ==
  ASSUME TypeInv, NEW h \in Hosts, Guarded(h),
         NEW i \in Ops, runAsyncHelmReconcile(i)
  PROVE  Guarded(h)'
<1>1. UNCHANGED <<cache, worker>>
  BY DEF runAsyncHelmReconcile, OpGet, acquireHelmRenderSlot,
         CancelledWaiting, Reread, reconcileHostManagerChart,
         reconcileCompanionChart, ReleaseSlot, ListUndeclared,
         pruneCompanionCharts, updateHelmStatus, api
<1>2. op'[i].host \in {op[i].host, None}
  BY GoroutineSteps, ReturnRow DEF Moves, Takes, GivesBack, SameOp
<1>3. \A j \in Ops : op'[j].host = h => op[j].host = h
  BY <1>2, OneRow
<1> QED BY <1>1, <1>3, GuardedKept DEF Live

LEMMA OthersUndeclared ==
  ASSUME TypeInv, NEW i \in Ops, Undeclared(i), NEW h \in Hosts,
         Environment(h) \/ Reconcile(h)
  PROVE  Undeclared(i)'
<1>1. CASE UNCHANGED op
  BY <1>1 DEF Undeclared
<1>2. CASE op' = Cancelled(h)
  BY <1>2, CancelledSame DEF Undeclared
<1>3. ASSUME NEW k \in Ops,
             op' = [Cancelled(h) EXCEPT ![k] =
                      [IdleOp EXCEPT !.step = "start", !.host = h,
                                     !.hash = worker[h].spec]]
      PROVE  Undeclared(i)'
  <2>1. DOMAIN Cancelled(h) = Ops
    BY DEF Cancelled, TypeInv
  <2>2. op'[k].step = "start"
    BY <1>3, <2>1 DEF IdleOp
  <2>3. i # k => op'[i] = Cancelled(h)[i]
    BY <1>3, <2>1
  <2> QED BY <2>2, <2>3, CancelledSame DEF Undeclared
<1> QED BY <1>1, <1>2, <1>3, ReconcileSteps
        DEF trySetHelmOperationActive, cancelHelmOperation

LEMMA GoroutineUndeclared ==
  ASSUME TypeInv, NEW i \in Ops, Undeclared(i), runAsyncHelmReconcile(i)
  PROVE  Undeclared(i)'
<1>0. op[i] \in Operation /\ op \in [Ops -> Operation]
  BY DEF TypeInv
<1>1. Return(i) \/ GiveUp(i) => op'[i].step # "prune"
  BY <1>0 DEF Return, GiveUp, IdleOp, Operation
<1>2. CASE OpGet(i) \/ CancelledWaiting(i) \/ Reread(i) \/ updateHelmStatus(i)
           \/ acquireHelmRenderSlot(i) \/ ReleaseSlot(i)
  <2>1. op'[i].step # "prune"
    BY <1>0, <1>1, <1>2
       DEF OpGet, CancelledWaiting, Reread, updateHelmStatus,
           acquireHelmRenderSlot, ReleaseSlot, Fail, Operation
  <2> QED BY <2>1 DEF Undeclared
<1>3. CASE reconcileHostManagerChart(i) \/ reconcileCompanionChart(i)
  <2>1. op'[i].step # "prune"
    BY <1>0, <1>1, <1>3
       DEF reconcileHostManagerChart, reconcileCompanionChart, Refused, Fail,
           Operation
  <2> QED BY <2>1 DEF Undeclared
<1>4. CASE ListUndeclared(i)
  <2>1. CASE op' = [op EXCEPT ![i].step = "prune",
              ![i].todo = rel[op[i].host].companions \ Declares[op[i].spec]]
    <3>1. /\ op'[i].todo = rel[op[i].host].companions \ Declares[op[i].spec]
          /\ op'[i].spec = op[i].spec
      BY <1>0, <2>1 DEF Operation
    <3> QED BY <3>1 DEF Undeclared
  <2>2. CASE GiveUp(i)
    BY <1>1, <2>2 DEF Undeclared
  <2> QED BY <1>4, <2>1, <2>2 DEF ListUndeclared, Fail
<1>5. CASE pruneCompanionCharts(i)
  <2>1. ASSUME NEW c, op' = [op EXCEPT ![i].todo = @ \ {c}]
        PROVE  Undeclared(i)'
    <3>1. /\ op'[i].todo = op[i].todo \ {c} /\ op'[i].spec = op[i].spec
          /\ op'[i].step = op[i].step
      BY <1>0, <2>1 DEF Operation
    <3> QED BY <3>1 DEF Undeclared
  <2>2. CASE op' = [op EXCEPT ![i].step = "report"]
    BY <1>0, <2>2 DEF Undeclared, Operation
  <2>3. CASE GiveUp(i)
    BY <1>1, <2>3 DEF Undeclared
  <2> QED BY <1>5, <2>1, <2>2, <2>3 DEF pruneCompanionCharts
<1> QED BY <1>2, <1>3, <1>4, <1>5 DEF runAsyncHelmReconcile

LEMMA NextPromiseInv ==
  ASSUME TypeInv, PromiseInv, [Next]_vars
  PROVE  PromiseInv'
<1>1. \A h \in Hosts : HostInv(h)'
  BY NextHostInv DEF PromiseInv
<1>2. CASE UNCHANGED vars
  <2>1. \A h \in Hosts : Guarded(h)'
    BY <1>2 DEF PromiseInv, Guarded, Live, vars
  <2>2. \A i \in Ops : Undeclared(i)'
    BY <1>2 DEF PromiseInv, Undeclared, vars
  <2> QED BY <1>1, <2>1, <2>2 DEF PromiseInv
<1>3. ASSUME NEW h \in Hosts, Environment(h) \/ Reconcile(h)
      PROVE  PromiseInv'
  <2>1. \A g \in Hosts : Guarded(g)'
    BY <1>3, EnvironmentGuarded, ReconcileGuarded DEF PromiseInv
  <2>2. \A i \in Ops : Undeclared(i)'
    BY <1>3, OthersUndeclared DEF PromiseInv
  <2> QED BY <1>1, <2>1, <2>2 DEF PromiseInv
<1>4. ASSUME NEW i \in Ops, runAsyncHelmReconcile(i)
      PROVE  PromiseInv'
  <2>1. \A g \in Hosts : Guarded(g)'
    BY <1>4, GoroutineGuarded DEF PromiseInv
  <2>2. \A j \in Ops : Undeclared(j)'
    <3>1. ASSUME NEW j \in Ops, j # i PROVE Undeclared(j)'
      BY <1>4, <3>1, OneRow DEF PromiseInv, Undeclared
    <3> QED BY <1>4, <3>1, GoroutineUndeclared DEF PromiseInv
  <2> QED BY <1>1, <2>1, <2>2 DEF PromiseInv
<1>5. CASE Restart
  <2>1. /\ \A g \in Hosts : worker'[g].step = "idle"
        /\ \A i \in Ops : op'[i].host = None /\ op'[i].step = "idle"
    BY <1>5 DEF Restart, IdleWorker, IdleOp
  <2> QED BY <1>1, <2>1 DEF PromiseInv, Guarded, Live, Undeclared
<1> QED BY <1>2, <1>3, <1>4, <1>5 DEF Next

LEMMA InitPromiseInv == Init => PromiseInv
BY InitHostInv
   DEF Init, PromiseInv, Guarded, Live, Undeclared, IdleWorker, IdleOp

LEMMA InitShows == Init => Promise!Init
<1> SUFFICES ASSUME Init PROVE Promise!Init
  OBVIOUS
<1>1. Outline(NewHost) = Promise!NewHost
  BY DEF Outline, NewHost, Promise!NewHost
<1>2. outlines = [h \in Hosts |-> Promise!NewHost]
  BY <1>1 DEF Init, outlines
<1>3. views = [h \in Hosts |-> Promise!NewHost]
  BY <1>1 DEF Init, views
<1>4. renders = [i \in Ops |-> Promise!NoRender]
  <2>1. ~Taken(IdleOp)
    BY DEF Taken, IdleOp
  <2>2. RenderOf(IdleOp) = Promise!NoRender
    BY <2>1, NotTaken
  <2> QED BY <2>2 DEF Init, renders
<1>5. releases = [h \in Hosts |-> Promise!Nothing]
  BY DEF Init, releases, Installed, NoReleases, Promise!Nothing
<1> QED BY <1>2, <1>3, <1>4, <1>5 DEF Promise!Init, Init

LEMMA NextShows ==
  ASSUME TypeInv, SlotsCounted, PromiseInv, [Next]_vars
  PROVE  [Promise!Next]_(Promise!vars)
<1>1. CASE UNCHANGED vars
  <2>1. Hidden
    BY <1>1, Framed DEF Hidden, vars
  <2> QED BY <2>1, HiddenStutters
<1>2. ASSUME NEW h \in Hosts, Environment(h)
      PROVE  Promise!Next
  BY <1>2, EditShows, DeleteShows, SyncShows DEF Environment, Promise!Next
<1>3. ASSUME NEW h \in Hosts, Reconcile(h)
      PROVE  Hidden \/ Promise!Next
  BY <1>3, ReconcileShows DEF PromiseInv, Promise!Next
<1>4. ASSUME NEW i \in Ops, runAsyncHelmReconcile(i)
      PROVE  Hidden \/ Promise!Next
  <2>1. \/ Hidden \/ Promise!Take(i) \/ Promise!InstallHost(i)
        \/ Promise!InstallCompanion(i) \/ Promise!StartPruning(i)
        \/ Promise!Prune(i) \/ Promise!Stop(i)
    BY <1>4, GoroutineShows DEF PromiseInv
  <2> QED BY <2>1 DEF Promise!Next
<1>5. CASE Restart
  BY <1>5, RestartShows DEF Promise!Next
<1> QED BY <1>1, <1>2, <1>3, <1>4, <1>5, HiddenStutters DEF Next

\* What the controller promises it keeps, for every fleet, spec set, number of
\* goroutines and bound: every step of the implementation is a step of
\* ReleasePromise or does not show there.
THEOREM PromiseKept == Spec => KeepsPromise
<1>1. Init => Promise!Init /\ PromiseInv
  BY InitShows, InitPromiseInv
<1>2. TypeInv /\ PromiseInv /\ [Next]_vars => PromiseInv'
  BY NextPromiseInv
<1>3. TypeInv /\ SlotsCounted /\ PromiseInv /\ [Next]_vars
        => [Promise!Next]_(Promise!vars)
  BY NextShows
<1> QED BY <1>1, <1>2, <1>3, Typed, SlotAccounting, PTL
        DEF Spec, KeepsPromise, Promise!Spec

=============================================================================
