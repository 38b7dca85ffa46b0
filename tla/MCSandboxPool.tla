---------------------------- MODULE MCSandboxPool ----------------------------
(* Model checking of SandboxPool: the calls, and the ids that the sandbox  *)
(* server gives, are interchangeable.                                      *)

EXTENDS SandboxPool, TLC

Symmetry == Permutations(Calls) \cup Permutations(Sandboxes)

=============================================================================
