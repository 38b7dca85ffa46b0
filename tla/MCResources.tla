----------------------------- MODULE MCResources -----------------------------
(* Model checking of Resources: three names, of which two differ in case   *)
(* only ("Ab", "ab") and two share a directory ("ab", "ab.").              *)

EXTENDS Resources

Capital == [key |-> "ab", dir |-> "Ab"]
Plain == [key |-> "ab", dir |-> "ab"]
Dotted == [key |-> "ab.", dir |-> "ab"]

MCToolNames == {Capital, Plain, Dotted}
MCTwinNames == {Capital, Plain}
MCAgentNames == {Capital, Plain}
MCPresetNames == {Plain, Dotted}

=============================================================================
