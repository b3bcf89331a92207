-------------------------- MODULE HelmClientsProofs --------------------------
(***************************************************************************)
(* For every set of hosts, number of goroutines, secret rotations and      *)
(* failures: whose client a goroutine or a teardown works with, and what   *)
(* becomes of the entries of repositories.yaml.                            *)
(***************************************************************************)
EXTENDS HelmClients, FiniteSetTheorems, TLAPS

\* A goroutine that was started has a host, and no client before its slot.
RowSound(o) ==
  /\ o.step # "idle" => o.host \in Hosts
  /\ o.step \in {"idle", "wait"} => o.client = None
  /\ o.client # None => o.client.secrets = o.secrets

\* The invariant behind OwnSecrets.
ClientsInv == TypeOK /\ \A i \in Ops : RowSound(op[i])

\* What a caller resolves are secrets.
LEMMA ResolvedType ==
  ASSUME TypeOK, NEW h \in Hosts PROVE ResolveSecrets(h) \in Secrets
<1>1. CASE version[h] = 0
  BY <1>1 DEF ResolveSecrets, Secrets
<1>2. CASE version[h] # 0
  <2>1. version[h] \in 1..MaxRotations /\ Namespace(h) \in Namespaces
    BY <1>2, ClientsAssumption DEF TypeOK, Namespaces
  <2>2. ResolveSecrets(h) = {<<Namespace(h), version[h]>>}
    BY <1>2 DEF ResolveSecrets
  <2> HIDE DEF Namespaces
  <2> QED BY <2>1, <2>2 DEF Secrets
<1> QED BY <1>1, <1>2

\* The pool holds clients of the right type whatever is taken from it.
LEMMA PoolType ==
  ASSUME TypeOK, NEW h \in Hosts, NEW s, NEW c \in Client,
         getOrCreateHelmClient(h, s, c)
  PROVE  /\ clients' \in [{helmClientKey(g) : g \in Hosts} -> Client \cup {None}]
         /\ c.secrets = s
BY DEF TypeOK, getOrCreateHelmClient, Reusable

\* One row of op replaced by a sound one.
LEMMA RowUpdate ==
  ASSUME ClientsInv, NEW i \in Ops, NEW o \in Operation, RowSound(o),
         op' = [op EXCEPT ![i] = o]
  PROVE  op' \in [Ops -> Operation] /\ \A j \in Ops : RowSound(op'[j])
BY DEF ClientsInv, TypeOK

\* The row of a goroutine that is over is sound.
LEMMA IdleSound == IdleOp \in Operation /\ RowSound(IdleOp)
BY DEF IdleOp, Operation, RowSound, Secrets, Contents, NoEntries

LEMMA LaunchInv ==
  ASSUME ClientsInv, NEW i \in Ops, Launch(i) PROVE ClientsInv'
<1>1. PICK h \in Hosts :
        op' = [op EXCEPT ![i] =
                 [IdleOp EXCEPT !.step = "wait", !.host = h,
                                !.secrets = ResolveSecrets(h)]]
  BY DEF Launch
<1> DEFINE o == [IdleOp EXCEPT !.step = "wait", !.host = h,
                               !.secrets = ResolveSecrets(h)]
<1>2. ResolveSecrets(h) \in Secrets
  BY ResolvedType DEF ClientsInv
<1>3. o \in Operation /\ RowSound(o)
  BY <1>2, IdleSound DEF IdleOp, Operation, RowSound
<1> HIDE DEF o
<1>4. op' = [op EXCEPT ![i] = o]
  BY <1>1 DEF o
<1>5. op' \in [Ops -> Operation] /\ \A j \in Ops : RowSound(op'[j])
  BY <1>3, <1>4, RowUpdate
<1> QED BY <1>5 DEF Launch, ClientsInv, TypeOK

LEMMA TakeClientInv ==
  ASSUME ClientsInv, NEW i \in Ops, TakeClient(i) PROVE ClientsInv'
<1>1. op[i] \in Operation /\ op[i].step = "wait" /\ op[i].host \in Hosts
  BY DEF ClientsInv, TypeOK, RowSound, TakeClient
<1>2. CASE \E c \in Client :
             /\ getOrCreateHelmClient(op[i].host, op[i].secrets, c)
             /\ op' = [op EXCEPT ![i].step = "load", ![i].client = c]
  <2>1. PICK c \in Client :
          /\ getOrCreateHelmClient(op[i].host, op[i].secrets, c)
          /\ op' = [op EXCEPT ![i].step = "load", ![i].client = c]
    BY <1>2
  <2> DEFINE o == [op[i] EXCEPT !.step = "load", !.client = c]
  <2>2. /\ clients' \in [{helmClientKey(g) : g \in Hosts} -> Client \cup {None}]
        /\ c.secrets = op[i].secrets
    BY <1>1, <2>1, PoolType DEF ClientsInv
  <2>3. o \in Operation /\ RowSound(o)
    BY <1>1, <2>2 DEF Operation, RowSound
  <2>4. op' = [op EXCEPT ![i] = o]
    BY <2>1
  <2> HIDE DEF o
  <2>5. op' \in [Ops -> Operation] /\ \A j \in Ops : RowSound(op'[j])
    BY <2>3, <2>4, RowUpdate
  <2>6. faults' \in 0..MaxFaults
    BY ClientsAssumption DEF TakeClient, Fault, ClientsInv, TypeOK
  <2> QED BY <2>2, <2>5, <2>6 DEF TakeClient, ClientsInv, TypeOK
<1>3. CASE Fault /\ op' = [op EXCEPT ![i] = IdleOp] /\ UNCHANGED clients
  <2>1. op' \in [Ops -> Operation] /\ \A j \in Ops : RowSound(op'[j])
    BY <1>3, IdleSound, RowUpdate
  <2>2. faults' \in 0..MaxFaults
    BY <1>3, ClientsAssumption DEF Fault, ClientsInv, TypeOK
  <2> QED BY <1>3, <2>1, <2>2 DEF TakeClient, ClientsInv, TypeOK
<1> QED BY <1>2, <1>3 DEF TakeClient

LEMMA LoadInv ==
  ASSUME ClientsInv, NEW i \in Ops, LoadRepositories(i) PROVE ClientsInv'
<1> DEFINE next == IF file[Companion[op[i].host].name] = None THEN "write"
                   ELSE "install"
           o == [op[i] EXCEPT !.read = file, !.step = next]
<1>1. op[i] \in Operation /\ op[i].step = "load" /\ RowSound(op[i])
  BY DEF ClientsInv, TypeOK, LoadRepositories
<1>2. file \in Contents /\ next \in {"write", "install"}
  BY DEF ClientsInv, TypeOK
<1>3. op' = [op EXCEPT ![i] = o]
  BY DEF LoadRepositories
<1> HIDE DEF next
<1>4. o \in Operation /\ RowSound(o)
  BY <1>1, <1>2 DEF Operation, RowSound
<1> HIDE DEF o
<1>5. op' \in [Ops -> Operation] /\ \A j \in Ops : RowSound(op'[j])
  BY <1>3, <1>4, RowUpdate
<1> QED BY <1>5 DEF LoadRepositories, ClientsInv, TypeOK

LEMMA WriteInv ==
  ASSUME ClientsInv, NEW i \in Ops, WriteRepositories(i) PROVE ClientsInv'
<1> DEFINE o == [op[i] EXCEPT !.step = "install"]
<1>1. op[i] \in Operation /\ op[i].step = "write" /\ RowSound(op[i])
  BY DEF ClientsInv, TypeOK, WriteRepositories
<1>2. op' = [op EXCEPT ![i] = o]
  BY DEF WriteRepositories
<1>3. o \in Operation /\ RowSound(o)
  BY <1>1 DEF Operation, RowSound
<1>4. op[i].read \in Contents /\ op[i].host \in Hosts
  BY <1>1 DEF Operation, RowSound
<1>5. file' \in Contents
  BY <1>4 DEF WriteRepositories, Contents, Repositories
<1> HIDE DEF o
<1>6. op' \in [Ops -> Operation] /\ \A j \in Ops : RowSound(op'[j])
  BY <1>2, <1>3, RowUpdate
<1> QED BY <1>5, <1>6 DEF WriteRepositories, ClientsInv, TypeOK

LEMMA FinishInv ==
  ASSUME ClientsInv, NEW i \in Ops, Finish(i) PROVE ClientsInv'
<1>1. op' \in [Ops -> Operation] /\ \A j \in Ops : RowSound(op'[j])
  BY IdleSound, RowUpdate DEF Finish
<1> QED BY <1>1 DEF Finish, ClientsInv, TypeOK

\* The steps of a host: its secrets change, or it is torn down.
LEMMA HostStepsInv ==
  ASSUME ClientsInv, NEW h \in Hosts,
         RotateSecrets(h) \/ StartTeardown(h) \/ deleteHelmClient(h)
  PROVE  ClientsInv'
<1>1. ASSUME RotateSecrets(h) PROVE ClientsInv'
  BY <1>1, ClientsAssumption DEF RotateSecrets, ClientsInv, TypeOK
<1>2. ASSUME StartTeardown(h) PROVE ClientsInv'
  <2>1. /\ clients' \in [{helmClientKey(g) : g \in Hosts} -> Client \cup {None}]
        /\ teardown' \in [Hosts -> Client \cup {None}]
        /\ faults' \in 0..MaxFaults
    <3>1. CASE /\ \E c \in Client :
                    /\ getOrCreateHelmClient(h, ResolveSecrets(h), c)
                    /\ teardown' = [teardown EXCEPT ![h] = c]
               /\ UNCHANGED faults
      BY <3>1, PoolType DEF ClientsInv, TypeOK
    <3>2. CASE Fault /\ UNCHANGED <<clients, teardown>>
      BY <3>2, ClientsAssumption DEF Fault, ClientsInv, TypeOK
    <3> QED BY <1>2, <3>1, <3>2 DEF StartTeardown
  <2>2. phase' \in [Hosts -> {"live", "terminating", "gone"}]
    BY <1>2 DEF StartTeardown, ClientsInv, TypeOK
  <2> QED BY <1>2, <2>1, <2>2 DEF StartTeardown, ClientsInv, TypeOK
<1>3. ASSUME deleteHelmClient(h) PROVE ClientsInv'
  <2>1. /\ clients' \in [{helmClientKey(g) : g \in Hosts} -> Client \cup {None}]
        /\ phase' \in [Hosts -> {"live", "terminating", "gone"}]
        /\ faults' \in 0..MaxFaults
    BY <1>3, ClientsAssumption DEF deleteHelmClient, Fault, ClientsInv, TypeOK
  <2>2. teardown' \in [Hosts -> Client \cup {None}]
    BY <1>3 DEF deleteHelmClient, ClientsInv, TypeOK
  <2> QED BY <1>3, <2>1, <2>2 DEF deleteHelmClient, ClientsInv, TypeOK
<1> QED BY <1>1, <1>2, <1>3

LEMMA NextClientsInv == ClientsInv /\ [Next]_vars => ClientsInv'
<1> SUFFICES ASSUME ClientsInv, [Next]_vars PROVE ClientsInv'
  OBVIOUS
<1>1. CASE UNCHANGED vars
  BY <1>1 DEF vars, ClientsInv, TypeOK
<1>2. ASSUME Next PROVE ClientsInv'
  BY <1>2, LaunchInv, TakeClientInv, LoadInv, WriteInv, FinishInv, HostStepsInv
     DEF Next
<1> QED BY <1>1, <1>2

LEMMA ClientsSound == Spec => []ClientsInv
<1>1. Init => ClientsInv
  <2> SUFFICES ASSUME Init PROVE ClientsInv
    OBVIOUS
  <2>1. op \in [Ops -> Operation] /\ \A i \in Ops : RowSound(op[i])
    BY IdleSound DEF Init
  <2>2. file \in Contents
    BY DEF Init, Contents, NoEntries
  <2> QED BY <2>1, <2>2, ClientsAssumption DEF Init, ClientsInv, TypeOK
<1> QED BY <1>1, NextClientsInv, PTL DEF Spec

\* The pool, the goroutines and the file hold what they are meant to hold.
THEOREM ClientsTyped == Spec => []TypeOK
<1>1. ClientsInv => TypeOK
  BY DEF ClientsInv
<1> QED BY <1>1, ClientsSound, PTL

\* A goroutine works with the secrets of its own Reconcile call, whoever
\* replaces the pooled client while it runs.
THEOREM SecretsOwned == Spec => []OwnSecrets
<1>1. ClientsInv => OwnSecrets
  BY DEF ClientsInv, RowSound, OwnSecrets
<1> QED BY <1>1, ClientsSound, PTL

-----------------------------------------------------------------------------

\* Secrets of the namespace of h.
Owned(s, h) == \A x \in s : x[1] = Namespace(h)

\* A goroutine's secrets are of its host's namespace.
Resolved == \A i \in Ops : op[i].step # "idle" => Owned(op[i].secrets, op[i].host)

\* A pooled client has secrets of its own namespace, which is that of the host
\* whose key it is under when the host reads alone.
PoolOwned ==
  \A h \in Hosts : clients[helmClientKey(h)] # None =>
    /\ \A x \in clients[helmClientKey(h)].secrets :
         x[1] = clients[helmClientKey(h)].namespace
    /\ ReadsAlone(h) => clients[helmClientKey(h)].namespace = Namespace(h)

LEMMA ResolvedOwned ==
  ASSUME NEW h \in Hosts PROVE Owned(ResolveSecrets(h), h)
BY DEF Owned, ResolveSecrets

\* Whoever takes a client gets one that serves it, and leaves a sound pool.
LEMMA TakenServes ==
  ASSUME TypeOK, PoolOwned, NEW h \in Hosts, NEW s, Owned(s, h),
         NEW c \in Client, getOrCreateHelmClient(h, s, c)
  PROVE  PoolOwned' /\ (c # None => Serves(c, h))
<1>1. CASE Reusable(h, s) /\ c = clients[helmClientKey(h)] /\ UNCHANGED clients
  <2>1. PoolOwned'
    BY <1>1 DEF PoolOwned
  <2>2. c.secrets = s /\ c # None
    BY <1>1 DEF Reusable
  <2>3. /\ \A x \in s : x[1] = c.namespace /\ x[1] = Namespace(h)
        /\ ReadsAlone(h) => c.namespace = Namespace(h)
    BY <1>1, <2>2 DEF PoolOwned, Owned
  <2> QED BY <2>1, <2>2, <2>3 DEF Serves
<1>2. CASE /\ c = [namespace |-> Namespace(h), secrets |-> s]
           /\ clients' = [clients EXCEPT ![helmClientKey(h)] = c]
  <2>1. \A g \in Hosts : clients'[helmClientKey(g)] =
          IF helmClientKey(g) = helmClientKey(h) THEN c
          ELSE clients[helmClientKey(g)]
    BY <1>2 DEF TypeOK
  <2>2. c.namespace = Namespace(h) /\ c.secrets = s
    BY <1>2
  <2>3. \A g \in Hosts :
          helmClientKey(g) = helmClientKey(h) /\ ReadsAlone(g)
            => Namespace(h) = Namespace(g)
    BY DEF helmClientKey, ReadsAlone
  <2>4. PoolOwned'
    BY <2>1, <2>2, <2>3 DEF PoolOwned, Owned, ReadsAlone
  <2> QED BY <2>2, <2>4 DEF Serves
<1> QED BY <1>1, <1>2 DEF getOrCreateHelmClient

\* A client is used for the namespace it was made for, whatever the hosts are
\* called, unless two that read alike both resolved no secret.
THEOREM NamespaceOwned == Spec => []OwnNamespace
<1> DEFINE Inv == PoolOwned /\ Resolved /\ OwnNamespace
<1>1. Init => Inv
  BY DEF Init, PoolOwned, Resolved, OwnNamespace, IdleOp
<1>2. ClientsInv /\ Inv /\ [Next]_vars => Inv'
  <2> SUFFICES ASSUME ClientsInv, Inv, [Next]_vars PROVE Inv'
    OBVIOUS
  <2>0. /\ op \in [Ops -> Operation]
        /\ teardown \in [Hosts -> Client \cup {None}]
        /\ clients \in [{helmClientKey(g) : g \in Hosts} -> Client \cup {None}]
    BY DEF ClientsInv, TypeOK
  <2>1. ASSUME NEW i \in Ops, Launch(i) \/ Finish(i) PROVE Inv'
    <3>1. /\ op'[i].client = None /\ \A j \in Ops : j # i => op'[j] = op[j]
          /\ op'[i].step # "idle" => Owned(op'[i].secrets, op'[i].host)
      <4>1. CASE Launch(i)
        <5>1. PICK h \in Hosts :
                op' = [op EXCEPT ![i] =
                         [IdleOp EXCEPT !.step = "wait", !.host = h,
                                        !.secrets = ResolveSecrets(h)]]
          BY <4>1 DEF Launch
        <5>2. /\ op'[i].client = None /\ op'[i].host = h
              /\ op'[i].secrets = ResolveSecrets(h)
              /\ \A j \in Ops : j # i => op'[j] = op[j]
          BY <2>0, <5>1 DEF IdleOp
        <5> QED BY <5>2, ResolvedOwned
      <4>2. CASE Finish(i)
        BY <2>0, <4>2 DEF Finish, IdleOp
      <4> QED BY <2>1, <4>1, <4>2
    <3>2. UNCHANGED <<clients, teardown>>
      BY <2>1 DEF Launch, Finish
    <3> QED BY <2>0, <3>1, <3>2 DEF PoolOwned, Resolved, OwnNamespace
  <2>2. ASSUME NEW i \in Ops, TakeClient(i) PROVE Inv'
    <3>1. op[i].host \in Hosts /\ op[i] \in Operation
      BY <2>0, <2>2 DEF TakeClient, ClientsInv, RowSound
    <3>2. CASE \E c \in Client :
                 /\ getOrCreateHelmClient(op[i].host, op[i].secrets, c)
                 /\ op' = [op EXCEPT ![i].step = "load", ![i].client = c]
      <4>1. PICK c \in Client :
              /\ getOrCreateHelmClient(op[i].host, op[i].secrets, c)
              /\ op' = [op EXCEPT ![i].step = "load", ![i].client = c]
        BY <3>2
      <4>2. PoolOwned' /\ (c # None => Serves(c, op[i].host))
        BY <2>2, <3>1, <4>1, TakenServes DEF ClientsInv, Resolved, TakeClient
      <4>3. /\ op'[i].client = c /\ op'[i].host = op[i].host
            /\ op'[i].secrets = op[i].secrets /\ op[i].step # "idle"
        BY <2>0, <2>2, <3>1, <4>1 DEF Operation, TakeClient
      <4>4. \A j \in Ops : j # i => op'[j] = op[j]
        BY <2>0, <4>1
      <4> QED BY <2>2, <4>2, <4>3, <4>4 DEF TakeClient, Resolved, OwnNamespace
    <3>3. CASE op' = [op EXCEPT ![i] = IdleOp] /\ UNCHANGED clients
      <4>1. IdleOp.client = None /\ IdleOp.step = "idle"
        BY DEF IdleOp
      <4> QED BY <2>0, <2>2, <3>3, <4>1
           DEF TakeClient, PoolOwned, Resolved, OwnNamespace
    <3> QED BY <2>2, <3>2, <3>3 DEF TakeClient
  <2>3. ASSUME NEW i \in Ops, LoadRepositories(i) \/ WriteRepositories(i)
        PROVE  Inv'
    <3>1. op[i] \in Operation
      BY <2>0
    <3>2. \A j \in Ops :
            /\ op'[j].client = op[j].client /\ op'[j].host = op[j].host
            /\ op'[j].secrets = op[j].secrets
            /\ op'[j].step # "idle" => op[j].step # "idle"
      BY <2>0, <2>3, <3>1 DEF LoadRepositories, WriteRepositories, Operation
    <3> QED BY <2>3, <3>2
            DEF LoadRepositories, WriteRepositories, PoolOwned, Resolved,
                OwnNamespace
  <2>4. ASSUME NEW h \in Hosts, StartTeardown(h) PROVE Inv'
    <3>1. CASE \E c \in Client :
                 /\ getOrCreateHelmClient(h, ResolveSecrets(h), c)
                 /\ teardown' = [teardown EXCEPT ![h] = c]
      <4>1. PICK c \in Client :
              /\ getOrCreateHelmClient(h, ResolveSecrets(h), c)
              /\ teardown' = [teardown EXCEPT ![h] = c]
        BY <3>1
      <4>2. PoolOwned' /\ (c # None => Serves(c, h))
        BY <4>1, ResolvedOwned, TakenServes DEF ClientsInv
      <4> QED BY <2>0, <2>4, <4>1, <4>2 DEF StartTeardown, Resolved, OwnNamespace
    <3>2. CASE UNCHANGED <<clients, teardown>>
      BY <2>4, <3>2 DEF StartTeardown, PoolOwned, Resolved, OwnNamespace
    <3> QED BY <2>4, <3>1, <3>2 DEF StartTeardown
  <2>5. ASSUME NEW h \in Hosts, deleteHelmClient(h) PROVE Inv'
    <3>1. \A g \in Hosts : clients'[helmClientKey(g)] \in {None, clients[helmClientKey(g)]}
      BY <2>0, <2>5 DEF deleteHelmClient
    <3>2. \A g \in Hosts : teardown'[g] \in {None, teardown[g]}
      BY <2>0, <2>5 DEF deleteHelmClient
    <3> QED BY <2>5, <3>1, <3>2 DEF deleteHelmClient, PoolOwned, Resolved,
                                  OwnNamespace
  <2>6. CASE UNCHANGED <<clients, op, teardown>>
    BY <2>6 DEF PoolOwned, Resolved, OwnNamespace
  <2> QED BY <2>1, <2>2, <2>3, <2>4, <2>5, <2>6 DEF Next, RotateSecrets, vars
<1>3. Inv => OwnNamespace
  OBVIOUS
<1> QED BY <1>1, <1>2, <1>3, ClientsSound, PTL DEF Spec

-----------------------------------------------------------------------------

\* With one render slot, one goroutine is at the file at a time, and what it
\* read is what the file still holds.
FileInv ==
  /\ \A i, j \in Rendering : i = j
  /\ \A i \in Ops : op[i].step = "write" =>
       op[i].read = file /\ file[Companion[op[i].host].name] = None

\* A slot is given only when nobody renders.
LEMMA SlotFree ==
  ASSUME ClientsInv, RenderConcurrency = 1, NEW i \in Ops, TakeClient(i)
  PROVE  Rendering = {}
<1>1. IsFiniteSet(Rendering)
  BY FS_Subset, ClientsAssumption DEF Rendering
<1>2. Cardinality(Rendering) \in Nat /\ Cardinality(Rendering) < 1
  BY <1>1, FS_CardinalityType DEF TakeClient
<1> QED BY <1>1, <1>2, FS_EmptySet

LEMMA NextFileInv ==
  ASSUME ClientsInv, FileInv, RenderConcurrency = 1, [Next]_vars PROVE FileInv'
<1>0. op \in [Ops -> Operation] /\ file \in Contents
  BY DEF ClientsInv, TypeOK
<1>1. ASSUME NEW i \in Ops, Launch(i) \/ Finish(i) PROVE FileInv'
  <2>1. /\ op'[i].step \in {"idle", "wait"}
        /\ \A j \in Ops : j # i => op'[j] = op[j]
    <3>1. CASE Launch(i)
      BY <1>0, <3>1 DEF Launch, IdleOp
    <3>2. CASE Finish(i)
      BY <1>0, <3>2 DEF Finish, IdleOp
    <3> QED BY <1>1, <3>1, <3>2
  <2> QED BY <1>1, <2>1 DEF Launch, Finish, FileInv, Rendering
<1>2. ASSUME NEW i \in Ops, TakeClient(i) PROVE FileInv'
  <2>1. Rendering = {}
    BY <1>2, SlotFree
  <2>2. /\ op'[i].step \in {"idle", "load"}
        /\ \A j \in Ops : j # i => op'[j] = op[j]
    <3>1. op[i] \in Operation
      BY <1>0
    <3> QED BY <1>0, <1>2, <3>1 DEF TakeClient, IdleOp, Operation
  <2> QED BY <1>2, <2>1, <2>2 DEF TakeClient, FileInv, Rendering
<1>3. ASSUME NEW i \in Ops, LoadRepositories(i) PROVE FileInv'
  <2> DEFINE name == Companion[op[i].host].name
  <2>1. op[i] \in Operation /\ op[i].step = "load" /\ UNCHANGED file
    BY <1>0, <1>3 DEF LoadRepositories
  <2>2. /\ op'[i].step = IF file[name] = None THEN "write" ELSE "install"
        /\ op'[i].read = file /\ op'[i].host = op[i].host
        /\ \A j \in Ops : j # i => op'[j] = op[j]
    BY <1>0, <1>3, <2>1 DEF LoadRepositories, Operation
  <2>3. i \in Rendering /\ \A j \in Rendering : j = i
    BY <2>1 DEF Rendering, FileInv
  <2> QED BY <2>1, <2>2, <2>3 DEF FileInv, Rendering
<1>4. ASSUME NEW i \in Ops, WriteRepositories(i) PROVE FileInv'
  <2>1. op[i] \in Operation /\ op[i].step = "write"
    BY <1>0, <1>4 DEF WriteRepositories
  <2>2. op'[i].step = "install" /\ \A j \in Ops : j # i => op'[j] = op[j]
    BY <1>0, <1>4, <2>1 DEF WriteRepositories, Operation
  <2>3. \A j \in Rendering : j = i
    BY <2>1 DEF Rendering, FileInv
  <2> QED BY <2>2, <2>3 DEF FileInv, Rendering
<1>5. CASE UNCHANGED <<op, file>>
  BY <1>5 DEF FileInv, Rendering
<1> QED
  BY <1>1, <1>2, <1>3, <1>4, <1>5
     DEF Next, RotateSecrets, StartTeardown, deleteHelmClient, vars

\* A goroutine that writes repositories.yaml overwrites nobody's entry when the
\* manager runs with --helm-render-concurrency=1.
THEOREM FileKept == Spec => EntriesKept
<1> DEFINE Kept == RenderConcurrency = 1 =>
             \A n \in Repositories : file[n] # None => file'[n] = file[n]
           Inv == RenderConcurrency = 1 => FileInv
<1>1. Init => Inv
  BY DEF Init, FileInv, Rendering, IdleOp
<1>2. ClientsInv /\ Inv /\ [Next]_vars => Inv'
  BY NextFileInv
<1>3. ClientsInv /\ Inv /\ [Next]_vars => [Kept]_vars
  <2> SUFFICES ASSUME ClientsInv, Inv, Next, RenderConcurrency = 1,
                      NEW n \in Repositories, file[n] # None
               PROVE  file'[n] = file[n]
    BY DEF vars
  <2>1. ASSUME NEW i \in Ops, WriteRepositories(i) PROVE file'[n] = file[n]
    <3>1. /\ op[i].read = file /\ file[Companion[op[i].host].name] = None
          /\ file \in Contents
      BY <2>1 DEF WriteRepositories, FileInv, ClientsInv, TypeOK
    <3> QED BY <2>1, <3>1 DEF WriteRepositories, Contents
  <2>2. CASE UNCHANGED file
    BY <2>2
  <2> QED BY <2>1, <2>2 DEF Next, RotateSecrets, StartTeardown, deleteHelmClient,
            Launch, TakeClient, Finish, LoadRepositories
<1> QED BY <1>1, <1>2, <1>3, ClientsSound, PTL DEF Spec, EntriesKept

=============================================================================
