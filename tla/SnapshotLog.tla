----------------------------- MODULE SnapshotLog -----------------------------
(****************************************************************************)
(* What the checkpoints promise: a log that only grows.  Each session has a *)
(* state; a handler changes the state of one session and may record, in the *)
(* same step, the state it leaves under an id that is not in use.  What is  *)
(* recorded never changes; it goes with the session, and only with it.      *)
(****************************************************************************)

CONSTANTS Sessions, Ids, None

VARIABLES state,  \* the state of each session
          log     \* the session and its state recorded under each id, or None

Init == log = [c \in Ids |-> None]

Change(s) == \A t \in Sessions \ {s} : state'[t] = state[t]

Record(s, c) ==
    /\ log[c] = None
    /\ log' = [log EXCEPT ![c] = [session |-> s, state |-> state'[s]]]

\* The session is deleted.
Forget(s) ==
    log' = [c \in Ids |-> IF log[c] # None /\ log[c].session = s THEN None ELSE log[c]]

Next ==
    \E s \in Sessions :
        /\ Change(s)
        /\ \/ UNCHANGED log
           \/ Forget(s)
           \/ \E c \in Ids : Record(s, c)

Spec == Init /\ [][Next]_<<state, log>>

=============================================================================
