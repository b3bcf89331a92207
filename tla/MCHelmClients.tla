--------------------------- MODULE MCHelmClients ---------------------------
(* Constants for model checking HelmClients.                                 *)
EXTENDS HelmClients, TLC

\* The same name in two namespaces, and two names that read the same once joined
\* with their namespaces.
Lookalikes == {<< <<"web">>, <<"prod">> >>, << <<"web">>, <<"eu", "prod">> >>,
               << <<"web", "eu">>, <<"prod">> >>}

\* The hosts of a namespace declare the same companion.
OneEach ==
  [h \in Lookalikes |-> [name |-> h[2], url |-> <<"oci">> \o h[2]]]

\* The goroutines are interchangeable.
Goroutines == Permutations(Ops)

=============================================================================
