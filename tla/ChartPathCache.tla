--------------------------- MODULE ChartPathCache ---------------------------
(***************************************************************************)
(* The fleet-shared cache of located chart archives.  get looks its key up *)
(* under the read lock, downloads without any lock on a miss, and stores   *)
(* the path under the write lock, evicting entries when the cache is full. *)
(***************************************************************************)
EXTENDS Integers, FiniteSets

CONSTANTS
  Callers,      \* goroutines in HelmClient.locateChart
  Charts,       \* chart names and versions
  Credentials,  \* hashes of the secrets a HelmClient was made with
  Max,          \* max of newChartPathCache
  None,         \* "no archive"
  MaxFaults     \* bound on failed downloads

ASSUME CacheAssumption ==
  /\ None \notin Charts \X Credentials
  /\ Max \in Nat
  /\ MaxFaults \in Nat
  /\ IsFiniteSet(Charts \X Credentials)

VARIABLES
  paths,   \* c.paths: key -> archive
  caller,  \* the get call of each goroutine
  faults

vars == <<paths, caller, faults>>

\* What is asked for, and the archive a download with it returns.
Requests == Charts \X Credentials
Archives == Requests

\* Variant: the credentials are not part of the key.
KeyWithoutCredential(r) == <<r[1]>>

\* chartPathKey
chartPathKey(r) == r

Keys == {chartPathKey(r) : r \in Requests}

Caller == [step: {"idle", "load", "store", "done"},
           request: Requests \cup {None}, path: Archives \cup {None}]

IdleCaller == [step |-> "idle", request |-> None, path |-> None]

\* Every state is well typed: only archives that were downloaded are cached.
TypeOK ==
  /\ \E K \in SUBSET Keys : paths \in [K -> Archives]
  /\ caller \in [Callers -> Caller]
  /\ faults \in 0..MaxFaults

Init ==
  /\ paths = [k \in {} |-> None]
  /\ caller = [c \in Callers |-> IdleCaller]
  /\ faults = 0

\* get: the lookup under RLock.
Lookup(c) ==
  /\ caller[c].step = "idle"
  /\ \E r \in Requests :
       LET k == chartPathKey(r)
       IN caller' = [caller EXCEPT ![c] =
            IF k \in DOMAIN paths
            THEN [step |-> "done", request |-> r, path |-> paths[k]]
            ELSE [step |-> "load", request |-> r, path |-> None]]
  /\ UNCHANGED <<paths, faults>>

\* Variant: a failed download is stored like an archive.
LoadCachesFailure(c) ==
  /\ caller[c].step = "load"
  /\ \/ /\ caller' = [caller EXCEPT ![c].step = "store",
                                    ![c].path = caller[c].request]
        /\ UNCHANGED faults
     \/ /\ faults < MaxFaults
        /\ faults' = faults + 1
        /\ caller' = [caller EXCEPT ![c].step = "store"]
  /\ UNCHANGED paths

\* load(): a download without the lock; a failure is returned, not cached.
Load(c) ==
  /\ caller[c].step = "load"
  /\ \/ /\ caller' = [caller EXCEPT ![c].step = "store",
                                    ![c].path = caller[c].request]
        /\ UNCHANGED faults
     \/ /\ faults < MaxFaults
        /\ faults' = faults + 1
        /\ caller' = [caller EXCEPT ![c].step = "done"]
  /\ UNCHANGED paths

\* Variant: room is made only once the cache is over its limit.
SurvivorsOffByOne ==
  IF Cardinality(DOMAIN paths) <= Max THEN {DOMAIN paths}
  ELSE {S \in SUBSET DOMAIN paths : Cardinality(S) = Max}

\* The keys the eviction loop may leave: entries go in map order until fewer
\* than Max are left, or none.
Survivors ==
  IF Cardinality(DOMAIN paths) < Max THEN {DOMAIN paths}
  ELSE {S \in SUBSET DOMAIN paths :
          Cardinality(S) = IF Max > 0 THEN Max - 1 ELSE 0}

\* The rest of get under Lock.
Store(c) ==
  /\ caller[c].step = "store"
  /\ \E S \in Survivors :
       LET k == chartPathKey(caller[c].request)
       IN paths' = [j \in S \cup {k} |->
                      IF j = k THEN caller[c].path ELSE paths[j]]
  /\ caller' = [caller EXCEPT ![c].step = "done"]
  /\ UNCHANGED faults

\* The render is over; the goroutine may come back for another chart.
Leave(c) ==
  /\ caller[c].step = "done"
  /\ caller' = [caller EXCEPT ![c] = IdleCaller]
  /\ UNCHANGED <<paths, faults>>

Next == \E c \in Callers : Lookup(c) \/ Load(c) \/ Store(c) \/ Leave(c)

Spec == Init /\ [][Next]_vars

\* The cache never outgrows its limit, however many downloads finish at once
\* (with max = 0 it keeps the last archive only).
CacheBound ==
  Cardinality(DOMAIN paths) <= IF Max > 0 THEN Max ELSE 1

\* A call that succeeds gives the archive of the chart it asked for, downloaded
\* with its own credentials, whoever downloaded it.
OwnArchive ==
  \A c \in Callers :
    caller[c].path # None => caller[c].path = caller[c].request

\* What a caller sees of its call of get.
Seen(c) ==
  [request |-> caller[c].request,
   outcome |-> CASE caller[c].step = "idle" -> "none"
                 [] caller[c].step \in {"load", "store"} -> "pending"
                 [] caller[c].step = "done" ->
                      IF caller[c].path = None THEN "error" ELSE "archive",
   archive |-> IF caller[c].step = "done" THEN caller[c].path ELSE None]

Lookups == INSTANCE ArchiveLookup WITH call <- [c \in Callers |-> Seen(c)]

\* The cache cannot be told from having none: whatever is shared, evicted or
\* downloaded twice, each call gets its own archive, and a failed download
\* fails the call that made it and no later one.
Transparent == Lookups!Spec

=============================================================================
