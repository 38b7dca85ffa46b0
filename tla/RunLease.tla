------------------------------- MODULE RunLease -------------------------------
(***************************************************************************)
(* What the run registry promises the rest of the backend: of all the chat *)
(* requests of a session at most one generates at a time, the newest one   *)
(* displaces the one before it, and a displaced run never generates again. *)
(***************************************************************************)

CONSTANT Runs

VARIABLES writers,  \* the runs that may still append to the session
          spent     \* the runs that have registered, or can never register

Init == writers = {} /\ spent = {}

\* A run that has not been used takes the session over from whoever has it.
Take(r) ==
    /\ r \in Runs \ spent
    /\ writers' = {r}
    /\ spent' = spent \cup {r}

\* The generating run ends, or is told to stop; requests may be lost with it.
Drop(lost) ==
    /\ writers' = {}
    /\ spent' = spent \cup lost

\* Requests are used for another session, or lost.
Lose(lost) ==
    /\ spent' = spent \cup lost
    /\ UNCHANGED writers

Next ==
    \/ \E r \in Runs : Take(r)
    \/ \E lost \in SUBSET Runs : Drop(lost) \/ Lose(lost)

Spec == Init /\ [][Next]_<<writers, spent>>

=============================================================================
