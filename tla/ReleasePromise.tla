--------------------------- MODULE ReleasePromise ---------------------------
(***************************************************************************)
(* What the controller promises of the releases of a host, whatever it     *)
(* keeps in statuses, hashes and memory to keep the promise: renderers,    *)
(* no more at once than configured, each take a host as last seen and      *)
(* install what that host declares, and only that; a host that is deleted  *)
(* keeps its finalizer until its releases are gone.                        *)
(***************************************************************************)
EXTENDS Integers, FiniteSets

CONSTANTS Hosts, Specs, Companions, None, InitSpec, Declares,
          Renderers, RenderConcurrency

VARIABLES
  host,     \* the hosts as users and the controller left them
  view,     \* the hosts as last seen by the controller
  render,   \* render[i]: the host renderer i took, and what it has to install
  release,  \* the releases in the cluster
  raced     \* the last teardown began in the middle of a render of the host

vars == <<host, view, render, release, raced>>

NewHost == [exists |-> TRUE, deleting |-> FALSE, finalizer |-> FALSE,
            gen |-> 1, spec |-> InitSpec]

Nothing == [gen |-> 0, spec |-> None, companions |-> {}]

\* None among the charts is the host manager's.
NoRender == [host |-> None, gen |-> 0, spec |-> None, charts |-> {},
             pruning |-> FALSE]

Init ==
  /\ host = [h \in Hosts |-> NewHost]
  /\ view = [h \in Hosts |-> NewHost]
  /\ render = [i \in Renderers |-> NoRender]
  /\ release = [h \in Hosts |-> Nothing]
  /\ raced = [h \in Hosts |-> FALSE]

-----------------------------------------------------------------------------
(* Hosts *)

Edit(h) ==
  /\ host[h].exists
  /\ \E s \in Specs : host' = [host EXCEPT ![h].spec = s, ![h].gen = @ + 1]
  /\ UNCHANGED <<view, render, release, raced>>

Guard(h) ==
  /\ host[h].exists /\ ~host[h].deleting
  /\ host' = [host EXCEPT ![h].finalizer = TRUE]
  /\ UNCHANGED <<view, render, release, raced>>

Delete(h) ==
  /\ host[h].exists /\ ~host[h].deleting
  /\ \/ /\ host[h].finalizer
        /\ host' = [host EXCEPT ![h].deleting = TRUE, ![h].gen = @ + 1]
     \/ /\ ~host[h].finalizer
        /\ host' = [host EXCEPT ![h].exists = FALSE]
  /\ UNCHANGED <<view, render, release, raced>>

See(h) ==
  /\ view' = [view EXCEPT ![h] = host[h]]
  /\ UNCHANGED <<host, render, release, raced>>

-----------------------------------------------------------------------------
(* Renders *)

Rendering(i) == render[i].host # None /\ ~render[i].pruning

\* A host is taken as last seen: with a finalizer, and not deleted.
Take(i) ==
  /\ render[i] = NoRender
  /\ RenderConcurrency > 0 =>
       Cardinality({j \in Renderers : Rendering(j)}) < RenderConcurrency
  /\ \E h \in Hosts :
       /\ view[h].exists /\ ~view[h].deleting /\ view[h].finalizer
       /\ render' = [render EXCEPT ![i] =
            [host |-> h, gen |-> view[h].gen, spec |-> view[h].spec,
             charts |-> {None}, pruning |-> FALSE]]
  /\ UNCHANGED <<host, view, release, raced>>

\* The host chart comes first, rendered from the host that was taken.
InstallHost(i) ==
  /\ Rendering(i) /\ None \in render[i].charts
  /\ release' = [release EXCEPT ![render[i].host].gen = render[i].gen,
                                ![render[i].host].spec = render[i].spec]
  /\ render' = [render EXCEPT ![i].charts = Declares[render[i].spec]]
  /\ UNCHANGED <<host, view, raced>>

InstallCompanion(i) ==
  /\ Rendering(i)
  /\ \E c \in render[i].charts \cap Companions :
       /\ release' = [release EXCEPT ![render[i].host].companions = @ \cup {c}]
       /\ render' = [render EXCEPT ![i].charts = @ \ {c}]
  /\ UNCHANGED <<host, view, raced>>

\* Only when everything is installed is anything taken away, and only what the
\* host that was taken does not declare.
StartPruning(i) ==
  /\ Rendering(i) /\ render[i].charts = {}
  /\ render' = [render EXCEPT ![i].pruning = TRUE]
  /\ UNCHANGED <<host, view, release, raced>>

Prune(i) ==
  /\ render[i].pruning
  /\ \E c \in Companions \ Declares[render[i].spec] :
       release' = [release EXCEPT ![render[i].host].companions = @ \ {c}]
  /\ UNCHANGED <<host, view, render, raced>>

\* A renderer is done, or has failed.
Stop(i) ==
  /\ render' = [render EXCEPT ![i] = NoRender]
  /\ UNCHANGED <<host, view, release, raced>>

\* The releases of h after a restart: of what was to be installed, some is.
CutShort(h) ==
  LET mine == {i \in Renderers : render[i].host = h}
      owner == {render[i] : i \in {j \in mine : None \in render[j].charts}}
      charts == (UNION {render[i].charts : i \in mine}) \cap Companions
  IN {[gen |-> r.gen, spec |-> r.spec,
       companions |-> release[h].companions \cup cut] :
        r \in owner \cup {release[h]}, cut \in SUBSET charts}

Restart ==
  /\ view' = host
  /\ render' = [i \in Renderers |-> NoRender]
  /\ \E left \in [Hosts -> UNION {CutShort(h) : h \in Hosts}] :
       (\A h \in Hosts : left[h] \in CutShort(h)) /\ release' = left
  /\ UNCHANGED <<host, raced>>

-----------------------------------------------------------------------------
(* Teardown *)

\* A teardown begins, or begins again, once the deletion was seen.
Begin(h) ==
  /\ host[h].exists /\ host[h].deleting /\ view[h].deleting
  /\ raced' = [raced EXCEPT ![h] =
       \E i \in Renderers : render[i].host = h /\ render[i].charts # {}]
  /\ UNCHANGED <<host, view, render, release>>

Uninstall(h) ==
  /\ host[h].exists /\ host[h].deleting /\ view[h].deleting
  /\ \/ release' = [release EXCEPT ![h].gen = 0, ![h].spec = None]
     \/ \E c \in Companions :
          release' = [release EXCEPT ![h].companions = @ \ {c}]
  /\ UNCHANGED <<host, view, render, raced>>

\* The finalizer goes last.
Leave(h) ==
  /\ host[h].exists /\ host[h].deleting /\ view[h].deleting
  /\ release[h] = Nothing \/ raced[h]
  /\ host' = [host EXCEPT ![h].exists = FALSE, ![h].finalizer = FALSE]
  /\ UNCHANGED <<view, render, release, raced>>

-----------------------------------------------------------------------------

Next ==
  \/ \E h \in Hosts : \/ Edit(h) \/ Guard(h) \/ Delete(h) \/ See(h)
                      \/ Begin(h) \/ Uninstall(h) \/ Leave(h)
  \/ \E i \in Renderers : \/ Take(i) \/ InstallHost(i) \/ InstallCompanion(i)
                          \/ StartPruning(i) \/ Prune(i) \/ Stop(i)
  \/ Restart

Spec == Init /\ [][Next]_vars
=============================================================================
