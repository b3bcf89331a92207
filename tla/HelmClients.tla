---------------------------- MODULE HelmClients ----------------------------
(***************************************************************************)
(* What the Helm passes of all hosts share: the pool of Helm clients and   *)
(* repositories.yaml.                                                      *)
(*                                                                         *)
(* A client is bound to one namespace and to the secrets it was made with. *)
(* Goroutines that render a host's charts and the teardown of a host take  *)
(* their client from the pool, with the secrets their Reconcile call       *)
(* resolved before the wait for a slot.  A companion chart adds its        *)
(* repository by reading the whole file and writing it back with its       *)
(* entry, under a render slot and nothing else.                            *)
(***************************************************************************)
EXTENDS Integers, Sequences, FiniteSets

CONSTANTS
  Hosts,         \* pairs <<name, namespace>>, each a sequence of "-" segments
  Ops,           \* identities of goroutines alive at once (a bound)
  Companion,     \* Companion[h]: name and repository URL of h's companion chart
  None,          \* "no host", "no client", "no entry"
  RenderConcurrency,  \* --helm-render-concurrency; <= 0 is unbounded
  MaxRotations,  \* bound on changes of a host's secrets
  MaxFaults      \* bound on failing client factories and uninstalls

ASSUME ClientsAssumption ==
  /\ None \notin Hosts
  /\ IsFiniteSet(Ops)
  /\ \A h \in Hosts : Companion[h].url # None
  /\ RenderConcurrency \in Int
  /\ MaxRotations \in Nat
  /\ MaxFaults \in Nat

VARIABLES
  version,   \* how often the secrets a host's selector matches were replaced
  phase,     \* "live", "terminating" or "gone"
  clients,   \* r.helmClients
  op,        \* the goroutines
  teardown,  \* the client the teardown of each host works with
  file,      \* repositories.yaml: name -> URL
  faults

vars == <<version, phase, clients, op, teardown, file, faults>>

Name(h) == h[1]
Namespace(h) == h[2]

Namespaces == {Namespace(h) : h \in Hosts}

\* A set of Secret objects, each of a namespace and at a version.
Secrets == {{}} \cup {{<<n, v>>} : n \in Namespaces, v \in 1..MaxRotations}

\* Variant: a selector that matches nothing resolves an empty secret.
ResolveSecretsUnmatched(h) == {<<Namespace(h), version[h]>>}

\* ResolveSecrets: the matching secrets of the host's namespace, none at first.
ResolveSecrets(h) ==
  IF version[h] = 0 THEN {} ELSE {<<Namespace(h), version[h]>>}

Client == [namespace: Namespaces, secrets: Secrets]

\* Variant: the namespace is not part of the key.
KeyByName(h) == Name(h)

\* The key name + "-" + namespace: where the name ends is lost.
helmClientKey(h) == Name(h) \o Namespace(h)

\* repositories.yaml.  A repository is named after the companion.
Repositories == {Companion[h].name : h \in Hosts}
Contents == [Repositories -> {Companion[h].url : h \in Hosts} \cup {None}]
NoEntries == [n \in Repositories |-> None]

\* read: the file as the goroutine loaded it.
Operation == [step: {"idle", "wait", "load", "write", "install"},
              host: Hosts \cup {None}, secrets: Secrets,
              client: Client \cup {None}, read: Contents]

IdleOp == [step |-> "idle", host |-> None, secrets |-> {}, client |-> None,
           read |-> NoEntries]

Rendering == {i \in Ops : op[i].step \in {"load", "write", "install"}}

\* Every state is well typed: clients are made for a host's namespace, with
\* secrets that exist.
TypeOK ==
  /\ version \in [Hosts -> 0..MaxRotations]
  /\ phase \in [Hosts -> {"live", "terminating", "gone"}]
  /\ clients \in [{helmClientKey(h) : h \in Hosts} -> Client \cup {None}]
  /\ op \in [Ops -> Operation]
  /\ teardown \in [Hosts -> Client \cup {None}]
  /\ file \in Contents
  /\ faults \in 0..MaxFaults

Init ==
  /\ version = [h \in Hosts |-> 0]
  /\ phase = [h \in Hosts |-> "live"]
  /\ clients = [k \in {helmClientKey(h) : h \in Hosts} |-> None]
  /\ op = [i \in Ops |-> IdleOp]
  /\ teardown = [h \in Hosts |-> None]
  /\ file = NoEntries
  /\ faults = 0

\* A call that fails, within the bound on failures.
Fault == faults < MaxFaults /\ faults' = faults + 1

\* Variant: a cached client is reused whatever secrets it was made with.
ReusableAlways(h, s) == clients[helmClientKey(h)] # None

\* The pool has a client made with these secrets.
Reusable(h, s) ==
  /\ clients[helmClientKey(h)] # None
  /\ clients[helmClientKey(h)].secrets = s

\* getOrCreateHelmClient gives client c to a caller that resolved secrets s.
getOrCreateHelmClient(h, s, c) ==
  \/ /\ Reusable(h, s)
     /\ c = clients[helmClientKey(h)]
     /\ UNCHANGED clients
  \/ /\ ~Reusable(h, s)
     /\ c = [namespace |-> Namespace(h), secrets |-> s]
     /\ clients' = [clients EXCEPT ![helmClientKey(h)] = c]

\* A secret of the host is created or replaced (a rotated registry password).
RotateSecrets(h) ==
  /\ phase[h] # "gone"
  /\ version[h] < MaxRotations
  /\ version' = [version EXCEPT ![h] = @ + 1]
  /\ UNCHANGED <<phase, clients, op, teardown, file, faults>>

\* Reconcile resolves the secrets and starts a goroutine with them.
Launch(i) ==
  /\ op[i].step = "idle"
  /\ \E h \in Hosts :
       /\ phase[h] = "live"
       /\ op' = [op EXCEPT ![i] =
                   [IdleOp EXCEPT !.step = "wait", !.host = h,
                                  !.secrets = ResolveSecrets(h)]]
  /\ UNCHANGED <<version, phase, clients, teardown, file, faults>>

\* The goroutine gets a slot and takes a client; the factory may fail.
TakeClient(i) ==
  /\ op[i].step = "wait"
  /\ \/ RenderConcurrency <= 0
     \/ Cardinality(Rendering) < RenderConcurrency
  /\ \/ /\ \E c \in Client :
             /\ getOrCreateHelmClient(op[i].host, op[i].secrets, c)
             /\ op' = [op EXCEPT ![i].step = "load", ![i].client = c]
        /\ UNCHANGED faults
     \/ /\ ~Reusable(op[i].host, op[i].secrets)
        /\ Fault
        /\ op' = [op EXCEPT ![i] = IdleOp]
        /\ UNCHANGED clients
  /\ UNCHANGED <<version, phase, teardown, file>>

\* AddRepository: the file is loaded, a missing one is empty.  A name the file
\* has already is left as it is.
LoadRepositories(i) ==
  /\ op[i].step = "load"
  /\ op' = [op EXCEPT ![i].read = file,
       ![i].step = IF file[Companion[op[i].host].name] = None THEN "write"
                   ELSE "install"]
  /\ UNCHANGED <<version, phase, clients, teardown, file, faults>>

\* Variant: an existing file is replaced instead of extended.
WriteFresh(i) ==
  LET c == Companion[op[i].host]
  IN /\ op[i].step = "write"
     /\ file' = [NoEntries EXCEPT ![c.name] = c.url]
     /\ op' = [op EXCEPT ![i].step = "install"]
     /\ UNCHANGED <<version, phase, clients, teardown, faults>>

\* AddRepository: what was read is written back with the new entry.
WriteRepositories(i) ==
  LET c == Companion[op[i].host]
  IN /\ op[i].step = "write"
     /\ file' = [op[i].read EXCEPT ![c.name] = c.url]
     /\ op' = [op EXCEPT ![i].step = "install"]
     /\ UNCHANGED <<version, phase, clients, teardown, faults>>

\* The goroutine is done, or was cancelled or found the host terminating; a
\* host without a companion does not come to the file at all.
Finish(i) ==
  /\ op[i].step \in {"wait", "load", "install"}
  /\ op' = [op EXCEPT ![i] = IdleOp]
  /\ UNCHANGED <<version, phase, clients, teardown, file, faults>>

\* A terminating host takes a client to uninstall its releases with.
StartTeardown(h) ==
  /\ phase[h] # "gone" /\ teardown[h] = None
  /\ \/ /\ \E c \in Client :
             /\ getOrCreateHelmClient(h, ResolveSecrets(h), c)
             /\ teardown' = [teardown EXCEPT ![h] = c]
        /\ UNCHANGED faults
     \/ /\ ~Reusable(h, ResolveSecrets(h))
        /\ Fault
        /\ UNCHANGED <<clients, teardown>>
  /\ phase' = [phase EXCEPT ![h] = "terminating"]
  /\ UNCHANGED <<version, op, file>>

\* Its releases are gone: deleteHelmClient, and the finalizer with it.  When an
\* uninstall failed the client stays and teardown starts again.
deleteHelmClient(h) ==
  /\ teardown[h] # None
  /\ teardown' = [teardown EXCEPT ![h] = None]
  /\ \/ /\ clients' = [clients EXCEPT ![helmClientKey(h)] = None]
        /\ phase' = [phase EXCEPT ![h] = "gone"]
        /\ UNCHANGED faults
     \/ /\ Fault
        /\ UNCHANGED <<clients, phase>>
  /\ UNCHANGED <<version, op, file>>

Next ==
  \/ \E h \in Hosts : \/ RotateSecrets(h) \/ StartTeardown(h)
                      \/ deleteHelmClient(h)
  \/ \E i \in Ops : \/ Launch(i) \/ TakeClient(i) \/ Finish(i)
                    \/ LoadRepositories(i) \/ WriteRepositories(i)

Spec == Init /\ [][Next]_vars

\* No host of another namespace has a name and namespace that read the same once
\* joined.  "web" in "eu-prod" and "web-eu" in "prod" do: both are "web-eu-prod".
ReadsAlone(h) ==
  \A g \in Hosts : Name(g) \o Namespace(g) = Name(h) \o Namespace(h)
                  => Namespace(g) = Namespace(h)

\* A client that serves host h is bound to the namespace of h, if the host reads
\* alone or the client was made with secrets, which are of one namespace.
Serves(c, h) ==
  ReadsAlone(h) \/ c.secrets # {} => c.namespace = Namespace(h)

\* Whoever renders or tears down a host does it with a client of the host's own
\* namespace, so that releases are neither installed nor uninstalled elsewhere:
\* always when the host reads alone, else as long as secrets were resolved, which
\* tell its client from the other host's.  Two hosts of different namespaces that
\* read alike, both without secrets, do share one client.
OwnNamespace ==
  /\ \A i \in Ops : op[i].client # None => Serves(op[i].client, op[i].host)
  /\ \A h \in Hosts : teardown[h] # None => Serves(teardown[h], h)

\* A goroutine works with the secrets its Reconcile call resolved, although
\* others replace the pooled client meanwhile.
OwnSecrets ==
  \A i \in Ops : op[i].client # None => op[i].client.secrets = op[i].secrets

\* With one render slot a repository that was added stays: every other addition
\* is made to a file that was read after it.
EntriesKept ==
  [][RenderConcurrency = 1 =>
       \A n \in Repositories : file[n] # None => file'[n] = file[n]]_vars

=============================================================================
