---------------------------- MODULE ArchiveLookup ----------------------------
(***************************************************************************)
(* What locateChart promises its callers, as if there were no cache: a     *)
(* call is answered with the archive of the chart it asked for, downloaded *)
(* with its own credentials, or fails because its own download did.        *)
(***************************************************************************)
EXTENDS Naturals

CONSTANTS Callers, Requests, None, MaxFaults

VARIABLES
  call,   \* call[c]: what c asks for, and the answer
  faults  \* downloads that failed

vars == <<call, faults>>

NoCall == [request |-> None, outcome |-> "none", archive |-> None]

Pending(r) == [request |-> r, outcome |-> "pending", archive |-> None]

\* The archive of a request is named after it.
Answered(r) == [request |-> r, outcome |-> "archive", archive |-> r]

Failed(r) == [request |-> r, outcome |-> "error", archive |-> None]

Init == call = [c \in Callers |-> NoCall] /\ faults = 0

\* Asking takes a while, or none.
Ask(c) ==
  /\ call[c] = NoCall
  /\ \E r \in Requests : call' \in {[call EXCEPT ![c] = Pending(r)],
                                    [call EXCEPT ![c] = Answered(r)]}
  /\ UNCHANGED faults

Answer(c) ==
  /\ \E r \in Requests :
       call[c] = Pending(r) /\ call' = [call EXCEPT ![c] = Answered(r)]
  /\ UNCHANGED faults

\* One failed download fails one call.
Fail(c) ==
  /\ faults < MaxFaults /\ faults' = faults + 1
  /\ \E r \in Requests :
       call[c] = Pending(r) /\ call' = [call EXCEPT ![c] = Failed(r)]

Leave(c) ==
  /\ \E r \in Requests : call[c] \in {Answered(r), Failed(r)}
  /\ call' = [call EXCEPT ![c] = NoCall]
  /\ UNCHANGED faults

Next == \E c \in Callers : Ask(c) \/ Answer(c) \/ Fail(c) \/ Leave(c)

Spec == Init /\ [][Next]_vars
=============================================================================
