--------------------------- MODULE MCHelmRelease ---------------------------
(* Constants for model checking HelmRelease: two specs and two companions.   *)
EXTENDS HelmRelease, TLC

CONSTANTS A, B, x, y

\* The user edits A into B, once.
ForwardEdits == (A :> {B}) @@ (B :> {})

\* The user edits A into B and may go back.
BackAndForth == (A :> {B}) @@ (B :> {A})

NoCompanions == (A :> {}) @@ (B :> {})

OneCompanion == (A :> {x}) @@ (B :> {x})

\* The edit from A to B renames the companion chart.
RenamedCompanion == (A :> {x}) @@ (B :> {y})

=============================================================================
