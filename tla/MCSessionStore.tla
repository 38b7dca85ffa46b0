---------------------------- MODULE MCSessionStore ----------------------------
(* Model checking of SessionStore: chat requests, and the message ids of   *)
(* either kind, are interchangeable.                                       *)

EXTENDS SessionStore, TLC

Symmetry == Permutations(Runs) \cup Permutations(UserMessages) \cup Permutations(Replies)

=============================================================================
