--------------------------- MODULE CheckpointStore ---------------------------
(*****************************************************************************)
(* The checkpoints of a user's sessions: the live files of each session,     *)
(* the object store all sessions of the user share, and each session's       *)
(* checkpoint files, chain.json and HEAD.json.                               *)
(*                                                                           *)
(* Only an upload suspends, between its chunks; every other handler is one   *)
(* action.  The process may die, or a write may raise, between any two of    *)
(* the writes of a capture (the callers log the exception and go on): `done` *)
(* says how many took place.                                                 *)
(*                                                                           *)
(* Abstractions.  A file content is its own hash.  workspace/ and memory/    *)
(* are one flat tree.  `title` stands for the fields of session.json that    *)
(* a checkpoint keeps, `scenario` for scenario_prompt, which it omits.       *)
(* orchestration_state.json is treated as history.json is and is left out.   *)
(*****************************************************************************)

EXTENDS Naturals, Sequences, FiniteSets

CONSTANTS
    Sessions, FirstSession,   \* the session that exists at the start
    Titles, FirstTitle,
    ForkOf,                   \* the title a clone gets ("... (fork)", added once)
    Scenarios, NoScenario,    \* NoScenario: the empty prompt
    Messages,                 \* message ids
    Paths, Contents,          \* files and what users and tools write to them
    Absent,                   \* no such file
    Torn,                     \* the bytes of a write, or an upload, that is not complete
    Missing,                  \* no such object
    Ids, NoId,                \* checkpoint ids
    HardLinks,                \* os.link works between the store and the sessions
    TornWrites,               \* the process may die inside the write of an object
    ReadErrors                \* a capture may fail to read chain.json or HEAD.json

ASSUME ConstantsAssumption ==
    /\ FirstSession \in Sessions
    /\ FirstTitle \in Titles
    /\ ForkOf \in [Titles -> Titles]
    /\ NoScenario \in Scenarios
    /\ Torn \notin Contents
    /\ Missing \notin Contents \cup {Torn}
    /\ Absent \notin Contents \cup {Torn, Missing}
    /\ NoId \notin Ids \cup Sessions
    /\ HardLinks \in BOOLEAN
    /\ TornWrites \in BOOLEAN
    /\ ReadErrors \in BOOLEAN

VARIABLES exists,    \* the sessions that have been created and not deleted
          title, scenario, history,  \* session.json and history.json of each
          file,      \* the files of each session
          upload,    \* the upload that is between two chunks
          object,    \* blobs/{hash} in the store: the bytes it holds
          snapshot,  \* the checkpoint files of all sessions
          chain, head

live == <<exists, title, scenario, history, file, upload>>
log == <<snapshot, chain, head>>
vars == <<live, object, log>>

Bytes == Contents \cup {Torn}

\* A file has an inode of its own or, where links work, shares the one of an object.
Own(b) == [link |-> FALSE, of |-> b]
Link(h) == [link |-> TRUE, of |-> h]
File == {Own(b) : b \in Bytes} \cup (IF HardLinks THEN {Link(h) : h \in Bytes} ELSE {})

ASSUME AbsentAssumption == Absent \notin File

NoSnapshot == [session |-> NoId]

NoUpload == [session |-> NoId]

\* What reading the file gives when the store is `store`.
Read(store, f) == IF f = Absent THEN Absent ELSE IF f.link THEN store[f.of] ELSE f.of

TreeOf(store, files) == [p \in Paths |-> Read(store, files[p])]

Hashes(tree) == {tree[p] : p \in Paths} \ {Absent}

Elems(seq) == {seq[i] : i \in DOMAIN seq}

Init ==
    /\ exists = {FirstSession}
    /\ title = [s \in Sessions |-> FirstTitle]
    /\ scenario = [s \in Sessions |-> NoScenario]
    /\ history = [s \in Sessions |-> <<>>]
    /\ file = [s \in Sessions |-> [p \in Paths |-> Absent]]
    /\ upload = NoUpload
    /\ object = [b \in Bytes |-> Missing]
    /\ snapshot = [c \in Ids |-> NoSnapshot]
    /\ chain = [s \in Sessions |-> <<>>]
    /\ head = [s \in Sessions |-> NoId]

-----------------------------------------------------------------------------
(* Objects.                                                                *)

\* write_blob on every file: an object that exists is never written again.
StoreAll(store, tree) ==
    [b \in Bytes |-> IF b \in Hashes(tree) /\ store[b] = Missing THEN b ELSE store[b]]

\* The process died, or a write raised, while objects were written.
PartlyStored(store, tree) ==
    {partly \in [Bytes -> Bytes \cup {Missing}] :
        \A b \in Bytes :
            \/ partly[b] = store[b]
            \/ b \in Hashes(tree) /\ store[b] = Missing
               /\ partly[b] \in {b} \cup (IF TornWrites THEN {Torn} ELSE {})}

\* _materialize_blob: a link to the object, or a copy where links fail.
Materialize_AlwaysLinks(store, h) == IF h = Absent THEN Absent ELSE Link(h)

Materialize(store, h) ==
    IF h = Absent THEN Absent ELSE IF HardLinks THEN Link(h) ELSE Own(store[h])

Restored(store, tree) == [p \in Paths |-> Materialize(store, tree[p])]

\* What a restore of the snapshot makes readable.
Content(store, tree) == TreeOf(store, Restored(store, tree))

-----------------------------------------------------------------------------
(* capture_session_checkpoint of session s, in the live state (t, h, files) *)
(* that the handler has just written, the store being `store`.              *)

FreeId(c) == snapshot[c] = NoSnapshot

\* What load_chain and load_head return: a file that cannot be read is an empty list, or
\* no HEAD.
ChainRead(s) == {chain[s]} \cup (IF ReadErrors THEN {<<>>} ELSE {})
HeadRead(s) == {head[s]} \cup (IF ReadErrors THEN {NoId} ELSE {})

\* `json` is what a checkpoint of the whole session.json would hold, for the properties.
SnapshotOf(s, parent, t, sc, h, tree) ==
    [session |-> s, parent |-> parent, title |-> t, history |-> h, tree |-> tree,
     json |-> [title |-> t, scenario |-> sc]]

\* The state hash compares session.json, history and trees; session.json holds
\* updated_at too, so equal fields need not mean an equal hash.
SameState(c, t, h, tree) ==
    snapshot[c].title = t /\ snapshot[c].history = h /\ snapshot[c].tree = tree

\* The writes after the objects, in order: checkpoint file, chain.json (the list that was
\* read, and the new id), HEAD.json.
WriteSnapshot_HeadBeforeChain(s, old, snap, c, done) ==
    /\ FreeId(c)
    /\ snapshot' = [snapshot EXCEPT ![c] = snap]
    /\ head' = IF done >= 2 THEN [head EXCEPT ![s] = c] ELSE head
    /\ chain' = IF done >= 3 THEN [chain EXCEPT ![s] = Append(old, c)] ELSE chain

WriteSnapshot_ChainFirst(s, old, snap, c, done) ==
    /\ FreeId(c)
    /\ chain' = [chain EXCEPT ![s] = Append(old, c)]
    /\ snapshot' = IF done >= 2 THEN [snapshot EXCEPT ![c] = snap] ELSE snapshot
    /\ head' = IF done >= 3 THEN [head EXCEPT ![s] = c] ELSE head

WriteSnapshot_DropsOlder(s, old, snap, c, done) ==
    /\ FreeId(c)
    /\ snapshot' = [snapshot EXCEPT ![c] = snap]
    /\ chain' = IF done >= 2
                THEN [chain EXCEPT ![s] = IF head[s] = NoId THEN <<c>> ELSE <<head[s], c>>]
                ELSE chain
    /\ head' = IF done >= 3 THEN [head EXCEPT ![s] = c] ELSE head

WriteSnapshot(s, old, snap, c, done) ==
    /\ FreeId(c)
    /\ snapshot' = [snapshot EXCEPT ![c] = snap]
    /\ chain' = IF done >= 2 THEN [chain EXCEPT ![s] = Append(old, c)] ELSE chain
    /\ head' = IF done >= 3 THEN [head EXCEPT ![s] = c] ELSE head

Capture(s, t, sc, h, files, store, auto) ==
    LET tree == TreeOf(store, files)
    IN  \/ object' \in PartlyStored(store, tree) /\ UNCHANGED log
        \/ /\ auto
           /\ head[s] # NoId
           /\ SameState(head[s], t, h, tree)
           /\ object' = StoreAll(store, tree)
           /\ UNCHANGED log
        \/ \E old \in ChainRead(s), parent \in HeadRead(s), c \in Ids, done \in 1..3 :
              /\ object' = StoreAll(store, tree)
              /\ WriteSnapshot(s, old, SnapshotOf(s, parent, t, sc, h, tree), c, done)

-----------------------------------------------------------------------------
(* The handlers.                                                           *)

\* Session ids are never used twice: a member of Sessions stands for a new session when
\* nothing is left of the one it stood for.
NewSession(s) == s \notin exists /\ upload.session # s

\* create_session_internal.
Create(s, t, sc) ==
    /\ NewSession(s)
    /\ exists' = exists \cup {s}
    /\ title' = [title EXCEPT ![s] = t]
    /\ scenario' = [scenario EXCEPT ![s] = sc]
    /\ history' = [history EXCEPT ![s] = <<>>]
    /\ Capture(s, t, sc, <<>>, file[s], object, FALSE)
    /\ UNCHANGED <<file, upload>>

\* update_group_session.
Update(s, t, sc) ==
    /\ s \in exists
    /\ title' = [title EXCEPT ![s] = t]
    /\ scenario' = [scenario EXCEPT ![s] = sc]
    /\ Capture(s, t, sc, history[s], file[s], object, FALSE)
    /\ UNCHANGED <<exists, history, file, upload>>

\* save_group_history with a list that the run or a deletion has changed.
SaveHistory(s, h) ==
    /\ history' = [history EXCEPT ![s] = h]
    /\ Capture(s, title[s], scenario[s], h, file[s], object, TRUE)
    /\ UNCHANGED <<exists, title, scenario, file, upload>>

\* A message id is new: no history, live or kept, has it.
FreshMessage(m) ==
    /\ \A s \in Sessions : m \notin Elems(history[s])
    /\ \A c \in Ids : ~FreeId(c) => m \notin Elems(snapshot[c].history)

AppendMessage(s, m) ==
    /\ s \in exists
    /\ FreshMessage(m)
    /\ SaveHistory(s, Append(history[s], m))

\* The turn_completed save: nothing new in history.json.
CompleteTurn(s) ==
    /\ s \in exists
    /\ SaveHistory(s, history[s])

Position(h, m) == CHOOSE i \in DOMAIN h : h[i] = m

\* The list filtered by id; an id stands for one message.
Without(h, m) ==
    [i \in 1..(Len(h) - 1) |-> h[IF i < Position(h, m) THEN i ELSE i + 1]]

DeleteMessage(s, m) ==
    /\ s \in exists
    /\ m \in Elems(history[s])
    /\ SaveHistory(s, Without(history[s], m))

\* Saving or creating a file, and every tool that writes one: the file is truncated
\* and written in place, so a linked object changes with it.
Linked(f) == f # Absent /\ f.link

InPlace(s, p, b) == IF Linked(file[s][p]) THEN file[s] ELSE [file[s] EXCEPT ![p] = Own(b)]

StoreInPlace(f, b) == IF Linked(f) THEN [object EXCEPT ![f.of] = b] ELSE object

CaptureFiles(s, files, store) ==
    /\ file' = [file EXCEPT ![s] = files]
    /\ Capture(s, title[s], scenario[s], history[s], files, store, FALSE)
    /\ UNCHANGED <<exists, title, scenario, history>>

WriteFile(s, p, b) ==
    /\ s \in exists
    /\ CaptureFiles(s, InPlace(s, p, b), StoreInPlace(file[s][p], b))
    /\ UNCHANGED upload

\* The file being uploaded loses its name when that is one of ps.
Unlinked(s, ps) ==
    IF upload.session = s /\ upload.at \in ps THEN [upload EXCEPT !.at = Absent] ELSE upload

DeleteFile(s, p) ==
    /\ s \in exists
    /\ file[s][p] # Absent
    /\ upload' = Unlinked(s, {p})
    /\ CaptureFiles(s, [file[s] EXCEPT ![p] = Absent], object)

\* rename(2): the file that was at q is gone, unless both names are links of one object;
\* then nothing happens.
Renamed(s, p, q) ==
    IF p = q \/ (Linked(file[s][p]) /\ file[s][p] = file[s][q]) THEN file[s]
    ELSE [file[s] EXCEPT ![q] = file[s][p], ![p] = Absent]

RenameFile(s, p, q) ==
    /\ s \in exists
    /\ file[s][p] # Absent
    /\ upload' = IF Renamed(s, p, q) = file[s] THEN upload
                 ELSE IF upload.session = s /\ upload.at = p THEN [upload EXCEPT !.at = q]
                 ELSE Unlinked(s, {q})
    /\ CaptureFiles(s, Renamed(s, p, q), object)

\* upload_workspace_file truncates the file and waits for chunks.  Meanwhile it can be
\* captured, written over, moved (`at`) or removed; what it shares with an object
\* (`onto`) it goes on sharing.
BeginUpload(s, p) ==
    /\ s \in exists
    /\ upload = NoUpload
    /\ file' = [file EXCEPT ![s] = InPlace(s, p, Torn)]
    /\ object' = StoreInPlace(file[s][p], Torn)
    /\ upload' = [session |-> s, path |-> p, at |-> p,
                  onto |-> IF Linked(file[s][p]) THEN file[s][p].of ELSE Absent]
    /\ UNCHANGED <<exists, title, scenario, history, log>>

\* The last chunk.  If others wrote the file meanwhile, it is b or a mixture.  For a
\* session deleted meanwhile there is no checkpoint: _session_definition_snapshot raises.
EndUpload(s, b) ==
    /\ upload.session = s
    /\ upload' = NoUpload
    /\ LET shared == upload.onto # Absent
           named == upload.at # Absent /\ ~shared
           now == IF named THEN file[s][upload.at].of
                  ELSE IF shared THEN object[upload.onto] ELSE Torn
       IN \E got \in {b, Torn} :
            /\ now = Torn => got = b
            /\ LET files == IF named THEN [file[s] EXCEPT ![upload.at] = Own(got)] ELSE file[s]
                   store == IF shared THEN [object EXCEPT ![upload.onto] = got] ELSE object
               IN \/ s \in exists /\ CaptureFiles(s, files, store)
                  \/ /\ s \notin exists
                     /\ object' = store
                     /\ UNCHANGED <<exists, title, scenario, history, file, log>>

\* A chunk cannot be read or written: whatever has the name by now is removed, and
\* there is no checkpoint.
UploadFails(s) ==
    /\ upload.session = s
    /\ upload' = NoUpload
    /\ file' = [file EXCEPT ![s][upload.path] = Absent]
    /\ UNCHANGED <<exists, title, scenario, history, object, log>>

\* The request is cancelled or the process dies: what was written stays.
UploadStops(s) ==
    /\ upload.session = s
    /\ upload' = NoUpload
    /\ UNCHANGED <<exists, title, scenario, history, file, object, log>>

\* POST /sessions/{id}/snapshot.
TakeSnapshot(s) ==
    /\ s \in exists
    /\ Capture(s, title[s], scenario[s], history[s], file[s], object, FALSE)
    /\ UNCHANGED live

-----------------------------------------------------------------------------
(* Rollback and clone.                                                     *)

\* Where a restore that raised, or died, leaves the files: workspace/ is removed
\* first and then written file by file.
PartlyRestored(files) ==
    {partly \in [Paths -> Elems(files) \cup {Absent}] :
        \A p \in Paths : partly[p] \in {Absent, files[p]}}

\* The fields of session.json that _apply_checkpoint writes: a checkpoint has no
\* scenario_prompt, so the session gets the empty one.
RestoredTitle(c) == snapshot[c].title
RestoredScenario(c) == NoScenario

\* rollback_session_to_checkpoint: files, then session.json, history.json and a
\* checkpoint of the result; or it stops while the files are written.
Rollback(s, c) ==
    LET to == snapshot[c]
        files == Restored(object, to.tree)
    IN  /\ s \in exists
        /\ c \in Elems(chain[s])
        /\ \/ /\ file' = [file EXCEPT ![s] = files]
              /\ title' = [title EXCEPT ![s] = RestoredTitle(c)]
              /\ scenario' = [scenario EXCEPT ![s] = RestoredScenario(c)]
              /\ history' = [history EXCEPT ![s] = to.history]
              /\ Capture(s, RestoredTitle(c), RestoredScenario(c), to.history, files, object, FALSE)
           \/ /\ \E partly \in PartlyRestored(files) : file' = [file EXCEPT ![s] = partly]
              /\ UNCHANGED <<title, scenario, history, object, log>>
        /\ upload' = Unlinked(s, Paths)
        /\ UNCHANGED exists

Last(h) == h[Len(h)]

\* Where the chain of s holds checkpoints whose last message is one of ms.
EndingIn(s, ms) ==
    {i \in DOMAIN chain[s] :
        LET h == snapshot[chain[s][i]].history IN h # <<>> /\ Last(h) \in ms}

Latest(S) == CHOOSE i \in S : \A j \in S : j <= i

\* _checkpoint_for_message: the newest checkpoint that ends with the message, else
\* the newest of those whose last message stands closest before it.
CheckpointFor_AnyPosition(s, m) ==
    LET exact == EndingIn(s, {m})
        known == EndingIn(s, Elems(history[s]))
    IN  IF exact # {} THEN {chain[s][Latest(exact)]}
        ELSE IF known # {} THEN {chain[s][Latest(known)]}
        ELSE {}

CheckpointFor(s, m) ==
    LET at == Position(history[s], m)
        before(i) == EndingIn(s, {history[s][i]})
        closest == {i \in 1..at : before(i) # {} /\ \A j \in (i + 1)..at : before(j) = {}}
    IN  {chain[s][Latest(before(i))] : i \in closest}

RollbackToMessage(s, m) ==
    /\ m \in Elems(history[s])
    /\ \E c \in CheckpointFor(s, m) : Rollback(s, c)

\* _copy_session_state: the objects are read and stored again (they may hold other
\* bytes than their hash says), then the files of the new session n are written and
\* its first checkpoint, which keeps the source's title.
CopyTo(n, t, h, tree, store) ==
    LET again == StoreAll(store, [p \in Paths |-> IF tree[p] = Absent THEN Absent ELSE store[tree[p]]])
        files == Restored(again, tree)
        first == [session |-> n, parent |-> NoId, title |-> t, history |-> h, tree |-> tree,
                  json |-> [title |-> ForkOf[t], scenario |-> NoScenario]]
    IN  /\ NewSession(n)
        /\ exists' = exists \cup {n}
        /\ title' = [title EXCEPT ![n] = ForkOf[t]]
        /\ scenario' = [scenario EXCEPT ![n] = NoScenario]
        /\ history' = [history EXCEPT ![n] = h]
        /\ object' = again
        /\ UNCHANGED upload
        /\ \/ /\ file' = [file EXCEPT ![n] = files]
              /\ \E c \in Ids, done \in 1..3 : WriteSnapshot(n, <<>>, first, c, done)
           \/ /\ \E partly \in PartlyRestored(files) : file' = [file EXCEPT ![n] = partly]
              /\ UNCHANGED log

\* clone_session_from_checkpoint: from a checkpoint, from a message, or from now.
CloneCheckpoint(s, c, n) ==
    /\ s \in exists
    /\ c \in Elems(chain[s])
    /\ CopyTo(n, snapshot[c].title, snapshot[c].history, snapshot[c].tree, object)

CloneMessage(s, m, n) ==
    /\ m \in Elems(history[s])
    /\ \E c \in CheckpointFor(s, m) : CloneCheckpoint(s, c, n)

CloneNow(s, n) ==
    LET tree == TreeOf(object, file[s])
    IN  /\ s \in exists
        /\ CopyTo(n, title[s], history[s], tree, StoreAll(object, tree))

-----------------------------------------------------------------------------
(* delete_group_session: session.json is removed and the directory with it, *)
(* checkpoints, chain and HEAD included.  The objects, which other sessions *)
(* may name, stay.                                                          *)

ForgetCheckpoints(s) ==
    /\ snapshot' = [c \in Ids |-> IF snapshot[c].session = s THEN NoSnapshot ELSE snapshot[c]]
    /\ chain' = [chain EXCEPT ![s] = <<>>]
    /\ head' = [head EXCEPT ![s] = NoId]

DeleteSession(s) ==
    /\ s \in exists
    /\ exists' = exists \ {s}
    /\ title' = [title EXCEPT ![s] = FirstTitle]
    /\ scenario' = [scenario EXCEPT ![s] = NoScenario]
    /\ history' = [history EXCEPT ![s] = <<>>]
    /\ file' = [file EXCEPT ![s] = [p \in Paths |-> Absent]]
    /\ upload' = Unlinked(s, Paths)
    /\ ForgetCheckpoints(s)
    /\ UNCHANGED object

-----------------------------------------------------------------------------
Next ==
    \E s \in Sessions :
        \/ \E t \in Titles, sc \in Scenarios : Create(s, t, sc) \/ Update(s, t, sc)
        \/ \E m \in Messages :
              AppendMessage(s, m) \/ DeleteMessage(s, m) \/ RollbackToMessage(s, m)
        \/ CompleteTurn(s) \/ TakeSnapshot(s) \/ DeleteSession(s)
        \/ \E p \in Paths :
              \/ DeleteFile(s, p) \/ BeginUpload(s, p)
              \/ \E b \in Contents : WriteFile(s, p, b)
              \/ \E q \in Paths : RenameFile(s, p, q)
        \/ (\E b \in Contents : EndUpload(s, b)) \/ UploadFails(s) \/ UploadStops(s)
        \/ \E c \in Ids : Rollback(s, c)
        \/ \E n \in Sessions :
              \/ CloneNow(s, n)
              \/ \E c \in Ids : CloneCheckpoint(s, c, n)
              \/ \E m \in Messages : CloneMessage(s, m, n)

Spec == Init /\ [][Next]_vars

-----------------------------------------------------------------------------
(* Properties.                                                             *)

Published(c) == \E s \in Sessions : c \in Elems(chain[s])

TypeOK ==
    /\ exists \in SUBSET Sessions
    /\ title \in [Sessions -> Titles]
    /\ scenario \in [Sessions -> Scenarios]
    /\ history \in [Sessions -> Seq(Messages)]
    /\ file \in [Sessions -> [Paths -> File \cup {Absent}]]
    /\ upload \in {NoUpload} \cup
            [session : Sessions, path : Paths, at : Paths \cup {Absent}, onto : Bytes \cup {Absent}]
    /\ object \in [Bytes -> Bytes \cup {Missing}]
    /\ DOMAIN snapshot = Ids
    /\ chain \in [Sessions -> Seq(Ids)]
    /\ head \in [Sessions -> Ids \cup {NoId}]

\* HEAD.json never names a checkpoint that the chain does not hold, wherever a
\* capture was cut: it is the last file written.
HeadIsPublished ==
    \A s \in Sessions : head[s] # NoId => head[s] \in Elems(chain[s])

\* Every id in chain.json names a whole checkpoint file of that session, once, and
\* its parent stands before it: the chain can be walked back from any entry.
ChainIsWellFormed ==
    \A s \in Sessions : \A i \in DOMAIN chain[s] :
        /\ snapshot[chain[s][i]].session = s
        /\ \A j \in DOMAIN chain[s] : chain[s][j] = chain[s][i] => j = i
        /\ \/ snapshot[chain[s][i]].parent = NoId
           \/ \E j \in 1..(i - 1) : chain[s][j] = snapshot[chain[s][i]].parent

\* No handler, rollback and the deletion of another session included, drops or reorders
\* old checkpoints of a session that is not deleted itself: they can still be listed,
\* cloned and rolled back to.
ChainOnlyGrows ==
    [][\A s \in Sessions : s \in exists' =>
          /\ Len(chain'[s]) >= Len(chain[s])
          /\ \A i \in DOMAIN chain[s] : chain'[s][i] = chain[s][i]]_vars

\* Rolling back or cloning at a message never brings a message that stands after it,
\* whatever deletions and earlier rollbacks have done to history and chain.
MessageTargetNotLater ==
    \A s \in exists : \A m \in Elems(history[s]) : \A c \in CheckpointFor(s, m) :
        \A i \in DOMAIN history[s] :
            i > Position(history[s], m) => history[s][i] \notin Elems(snapshot[c].history)

StateOf(s) == [history |-> history[s], tree |-> TreeOf(object, file[s])]

\* The published checkpoints are the abstract log: each records the history and the
\* files its session had when it was published, and restores exactly them until that
\* session is deleted.
PublishedLog == INSTANCE SnapshotLog WITH
    None <- NoSnapshot,
    state <- [s \in Sessions |-> StateOf(s)],
    log <- [c \in Ids |->
              IF Published(c)
              THEN [session |-> snapshot[c].session,
                    state |-> [history |-> snapshot[c].history,
                               tree |-> Content(object, snapshot[c].tree)]]
              ELSE NoSnapshot]

LogSpec == PublishedLog!Spec

\* The data structure document says that existing checkpoints cannot be changed:
\* what a published checkpoint restores stays what it is, as long as its session lives.
CheckpointsAreImmutable ==
    [][\A c \in Ids : Published(c) /\ Published(c)' =>
          Content(object', snapshot'[c].tree) = Content(object, snapshot[c].tree)]_vars

=============================================================================
