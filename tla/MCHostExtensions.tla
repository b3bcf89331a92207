-------------------------- MODULE MCHostExtensions --------------------------
(* Constants for model checking HostExtensions: two hosts and a few extension *)
(* specs.                                                                     *)
EXTENDS HostExtensions

CONSTANTS A, B

Ext(h, w, l, v) ==
  [host |-> h, weight |-> w, label |-> l, valid |-> v]

\* Light and heavy extensions of A, one of A that does not compile and would
\* come first, and one of B.
SomeSpecs ==
  {Ext(A, 1, TRUE, TRUE), Ext(A, 2, TRUE, TRUE), Ext(A, 0, TRUE, FALSE),
   Ext(B, 1, FALSE, TRUE)}

=============================================================================
