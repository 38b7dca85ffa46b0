-------------------------- MODULE MCCheckpointStore --------------------------
(* Model checking of CheckpointStore: every clone gets the title ForkTitle. *)
(* Contents, messages and checkpoint ids are interchangeable.               *)

EXTENDS CheckpointStore, TLC

CONSTANT ForkTitle

MCForkOf == [t \in Titles |-> ForkTitle]

Symmetry == Permutations(Contents) \cup Permutations(Messages) \cup Permutations(Ids)

UsedIds == {c \in Ids : ~FreeId(c)}

UsedMessages ==
    UNION {Elems(history[s]) : s \in Sessions} \cup UNION {Elems(snapshot[c].history) : c \in UsedIds}

NoFiles ==
    /\ upload = NoUpload
    /\ \A s \in Sessions : \A p \in Paths : file[s][p] = Absent
    /\ \A b \in Bytes : object[b] = Missing

CONSTANTS PairBound,   \* checkpoints, and messages, of two sessions
          MixedBound   \* checkpoints, and messages, that stand beside files

\* One session without files is explored up to all ids and messages; two sessions, without
\* files or without messages, up to PairBound; one session with both up to MixedBound.
\* The properties are checked of each step that leads out of this, too.
Explored ==
    \/ NoFiles /\ Cardinality(exists) <= 1
    \/ /\ Cardinality(UsedIds) <= PairBound
       /\ (NoFiles /\ Cardinality(UsedMessages) <= PairBound) \/ UsedMessages = {}
    \/ /\ Cardinality(exists) <= 1
       /\ Cardinality(UsedIds) <= MixedBound
       /\ Cardinality(UsedMessages) <= MixedBound

=============================================================================
