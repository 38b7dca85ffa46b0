--------------------------- MODULE CheckpointProofs ---------------------------
(****************************************************************************)
(* Proofs about CheckpointStore, for any sessions, files and contents, with *)
(* and without hard links and torn writes.  The chain: checkpoints are      *)
(* published in order, and published ones stay as long as their session.    *)
(* Their contents: every object a checkpoint names is in the store, so that *)
(* a restore finds it.  Messages: histories, live or kept, never disagree   *)
(* about the order of two messages, so that a message target restores       *)
(* nothing that stands after the message.  The log: where restored files    *)
(* are copies and a write of an object is whole, the published checkpoints  *)
(* are the log of SnapshotLog.                                              *)
(*                                                                          *)
(* ~ReadErrors, an assumption of every theorem: chain.json and HEAD.json    *)
(* can be read.  A capture that cannot read chain.json starts a new one.    *)
(****************************************************************************)

EXTENDS Integers, CheckpointStore, TLAPS, WellFoundedInduction

-----------------------------------------------------------------------------
(* The chain.                                                              *)

ChainType ==
    /\ chain \in [Sessions -> Seq(Ids)]
    /\ head \in [Sessions -> Ids \cup {NoId}]
    /\ DOMAIN snapshot = Ids

\* A session that is not there, or not there any more, has no checkpoints.
NewHaveNone == \A s \in Sessions : s \notin exists => chain[s] = <<>>

Inv == ChainType /\ HeadIsPublished /\ ChainIsWellFormed /\ NewHaveNone

-----------------------------------------------------------------------------
\* Whatever a handler does that deletes no session, the chains and the checkpoint files
\* change only by a prefix of the writes of one new checkpoint, whose parent is HEAD or
\* nothing.  The reads of chain.json and HEAD.json do not fail.
Extends ==
    \E s \in Sessions, c \in Ids, done \in 1..3 :
        /\ s \in exists'
        /\ \E full : /\ full.session = s
                     /\ full.parent \in {head[s], NoId}
                     /\ WriteSnapshot(s, chain[s], full, c, done)

LogGrows == exists \subseteq exists' /\ (Extends \/ UNCHANGED log)

LEMMA CaptureExtends ==
    ASSUME ~ReadErrors, NEW s \in Sessions, s \in exists', NEW t, NEW sc, NEW h, NEW files,
           NEW store, NEW auto, Capture(s, t, sc, h, files, store, auto)
    PROVE  Extends \/ UNCHANGED log
<1> DEFINE tree == TreeOf(store, files)
           full == SnapshotOf(s, head[s], t, sc, h, tree)
<1>1. CASE UNCHANGED log
  BY <1>1
<1>2. CASE \E c \in Ids, done \in 1..3 : WriteSnapshot(s, chain[s], full, c, done)
  <2>1. full.session = s /\ full.parent = head[s]
    BY DEF SnapshotOf
  <2> HIDE DEF full
  <2> QED BY <1>2, <2>1 DEF Extends
<1>3. ChainRead(s) = {chain[s]} /\ HeadRead(s) = {head[s]}
  BY DEF ChainRead, HeadRead
<1> QED BY <1>1, <1>2, <1>3 DEF Capture

LEMMA FilesExtend ==
    ASSUME ~ReadErrors, NEW s \in Sessions, s \in exists, NEW files, NEW store,
           CaptureFiles(s, files, store)
    PROVE  LogGrows
  BY CaptureExtends DEF CaptureFiles, LogGrows

LEMMA CopyExtends ==
    ASSUME NewHaveNone, NEW n \in Sessions, NEW t, NEW h, NEW tree, NEW store,
           CopyTo(n, t, h, tree, store)
    PROVE  LogGrows
<1>0. exists \subseteq exists' /\ n \in exists' /\ chain[n] = <<>>
  BY DEF CopyTo, NewSession, NewHaveNone
<1>1. CASE UNCHANGED log
  BY <1>0, <1>1 DEF LogGrows
<1>2. ASSUME NEW full, full.session = n, full.parent = NoId,
             \E c \in Ids, done \in 1..3 : WriteSnapshot(n, <<>>, full, c, done)
      PROVE  LogGrows
  <2>1. \E c \in Ids, done \in 1..3 : WriteSnapshot(n, chain[n], full, c, done)
    BY <1>0, <1>2
  <2> QED BY <1>0, <1>2, <2>1 DEF Extends, LogGrows
<1> QED BY <1>1, <1>2 DEF CopyTo

LEMMA RollbackExtends ==
    ASSUME ~ReadErrors, NEW s \in Sessions, NEW c, Rollback(s, c)
    PROVE  LogGrows
  BY CaptureExtends DEF Rollback, LogGrows

LEMMA CloneExtends ==
    ASSUME NewHaveNone, NEW s, NEW c, NEW n \in Sessions, CloneCheckpoint(s, c, n)
    PROVE  LogGrows
  BY CopyExtends DEF CloneCheckpoint

LEMMA NextExtends ==
    ASSUME ~ReadErrors, NewHaveNone, [Next]_vars
    PROVE  LogGrows \/ \E s \in Sessions : DeleteSession(s)
<1>1. CASE UNCHANGED vars
  BY <1>1 DEF vars, live, LogGrows
<1>2. ASSUME NEW s \in Sessions, NEW t \in Titles, NEW sc \in Scenarios,
             Create(s, t, sc) \/ Update(s, t, sc)
      PROVE  LogGrows
  <2>1. s \in exists' /\ exists \subseteq exists'
    BY <1>2 DEF Create, Update
  <2> QED BY <1>2, <2>1, CaptureExtends DEF Create, Update, LogGrows
<1>3. ASSUME NEW s \in Sessions, s \in exists, NEW h, SaveHistory(s, h)
      PROVE  LogGrows
  BY <1>3, CaptureExtends DEF SaveHistory, LogGrows
<1>4. ASSUME NEW s \in Sessions, NEW m \in Messages,
             AppendMessage(s, m) \/ DeleteMessage(s, m) \/ RollbackToMessage(s, m)
      PROVE  LogGrows
  BY <1>3, <1>4, RollbackExtends DEF AppendMessage, DeleteMessage, RollbackToMessage
<1>5. ASSUME NEW s \in Sessions, CompleteTurn(s) \/ TakeSnapshot(s)
      PROVE  LogGrows
  BY <1>3, <1>5, CaptureExtends DEF CompleteTurn, TakeSnapshot, live, LogGrows
<1>6. ASSUME NEW s \in Sessions, NEW p \in Paths,
             \/ DeleteFile(s, p) \/ BeginUpload(s, p)
             \/ \E b \in Contents : WriteFile(s, p, b)
             \/ \E q \in Paths : RenameFile(s, p, q)
      PROVE  LogGrows
  <2>1. CASE DeleteFile(s, p)
    BY <2>1, FilesExtend DEF DeleteFile
  <2>2. CASE BeginUpload(s, p)
    BY <2>2 DEF BeginUpload, LogGrows
  <2>3. CASE \E b \in Contents : WriteFile(s, p, b)
    BY <2>3, FilesExtend DEF WriteFile
  <2>4. CASE \E q \in Paths : RenameFile(s, p, q)
    BY <2>4, FilesExtend DEF RenameFile
  <2> QED BY <1>6, <2>1, <2>2, <2>3, <2>4
<1>7. ASSUME NEW s \in Sessions, NEW n \in Sessions,
             \/ CloneNow(s, n)
             \/ \E c \in Ids : CloneCheckpoint(s, c, n)
             \/ \E m \in Messages : CloneMessage(s, m, n)
      PROVE  LogGrows
  <2>1. CASE CloneNow(s, n)
    BY <2>1, CopyExtends DEF CloneNow
  <2>2. CASE \E c \in Ids : CloneCheckpoint(s, c, n)
    BY <2>2, CloneExtends
  <2>3. CASE \E m \in Messages : CloneMessage(s, m, n)
    BY <2>3, CloneExtends DEF CloneMessage
  <2> QED BY <1>7, <2>1, <2>2, <2>3
<1>8. ASSUME NEW s \in Sessions, NEW c \in Ids, Rollback(s, c)
      PROVE  LogGrows
  BY <1>8, RollbackExtends
<1>9. ASSUME NEW s \in Sessions,
             (\E b \in Contents : EndUpload(s, b)) \/ UploadFails(s) \/ UploadStops(s)
      PROVE  LogGrows
  <2>1. CASE \E b \in Contents : EndUpload(s, b)
    <3>1. \/ s \in exists /\ \E files, store : CaptureFiles(s, files, store)
          \/ UNCHANGED <<exists, log>>
      BY <2>1 DEF EndUpload
    <3> QED BY <3>1, FilesExtend DEF LogGrows
  <2>2. CASE UploadFails(s) \/ UploadStops(s)
    BY <2>2 DEF UploadFails, UploadStops, LogGrows
  <2> QED BY <1>9, <2>1, <2>2
<1> QED BY <1>1, <1>2, <1>4, <1>5, <1>6, <1>7, <1>8, <1>9 DEF Next

-----------------------------------------------------------------------------
LEMMA InitInv == Init => Inv
  BY DEF Init, Inv, ChainType, HeadIsPublished, ChainIsWellFormed, NewHaveNone, Elems

\* The invariant after part of the writes of one checkpoint.
LEMMA ExtendsInv == Inv /\ Extends /\ exists \subseteq exists' => Inv' /\ (\A s \in Sessions :
          /\ Len(chain'[s]) >= Len(chain[s])
          /\ \A i \in DOMAIN chain[s] : chain'[s][i] = chain[s][i])
<1> SUFFICES ASSUME Inv, NEW s \in Sessions, NEW c \in Ids, NEW done \in 1..3, NEW full,
                    s \in exists', exists \subseteq exists',
                    full.session = s, full.parent \in {head[s], NoId},
                    WriteSnapshot(s, chain[s], full, c, done)
             PROVE  Inv' /\ (\A q \in Sessions :
                        /\ Len(chain'[q]) >= Len(chain[q])
                        /\ \A i \in DOMAIN chain[q] : chain'[q][i] = chain[q][i])
  BY DEF Extends
<1>0. ChainType /\ HeadIsPublished /\ ChainIsWellFormed /\ NewHaveNone
  BY DEF Inv
<1>1. ChainType'
  BY <1>0 DEF ChainType, WriteSnapshot
<1>2. \A q \in Sessions : \A i \in DOMAIN chain[q] : chain[q][i] # c
  <2>1. snapshot[c].session = NoId
    BY DEF WriteSnapshot, FreeId, NoSnapshot
  <2>2. NoId \notin Sessions
    BY ConstantsAssumption
  <2>3. \A q \in Sessions : \A i \in DOMAIN chain[q] : snapshot[chain[q][i]].session = q
    BY <1>0 DEF ChainIsWellFormed
  <2> QED BY <2>1, <2>2, <2>3
<1>3. \A q \in Sessions : chain'[q] = chain[q] \/ (q = s /\ chain'[q] = Append(chain[q], c))
  <2>1. chain' = chain \/ chain' = [chain EXCEPT ![s] = Append(chain[s], c)]
    BY DEF WriteSnapshot
  <2>2. chain \in [Sessions -> Seq(Ids)]
    BY <1>0 DEF ChainType
  <2>3. ASSUME NEW new, NEW q \in Sessions, chain' = [chain EXCEPT ![s] = new]
        PROVE  chain'[q] = chain[q] \/ (q = s /\ chain'[q] = new)
    BY <2>2, <2>3
  <2> QED BY <2>1, <2>3
<1>4. snapshot' = [snapshot EXCEPT ![c] = full]
  BY DEF WriteSnapshot
<1>5. \A q \in Sessions :
          /\ Len(chain'[q]) >= Len(chain[q])
          /\ \A i \in DOMAIN chain[q] : chain'[q][i] = chain[q][i]
  <2> SUFFICES ASSUME NEW q \in Sessions
               PROVE  /\ Len(chain'[q]) >= Len(chain[q])
                      /\ \A i \in DOMAIN chain[q] : chain'[q][i] = chain[q][i]
    OBVIOUS
  <2>1. chain[q] \in Seq(Ids)
    BY <1>0 DEF ChainType
  <2>2. chain'[q] = chain[q] \/ chain'[q] = Append(chain[q], c)
    BY <1>3
  <2>3. ASSUME NEW old \in Seq(Ids)
        PROVE  /\ Len(Append(old, c)) >= Len(old)
               /\ \A i \in DOMAIN old : Append(old, c)[i] = old[i]
    OBVIOUS
  <2> QED BY <2>1, <2>2, <2>3
<1>6. HeadIsPublished'
  <2> SUFFICES ASSUME NEW q \in Sessions, head'[q] # NoId
               PROVE  \E i \in DOMAIN chain'[q] : chain'[q][i] = head'[q]
    BY DEF HeadIsPublished, Elems
  <2>1. CASE done < 3
    <3>1. \E i \in DOMAIN chain[q] : chain[q][i] = head[q]
      BY <1>0, <2>1 DEF HeadIsPublished, Elems, WriteSnapshot
    <3>2. DOMAIN chain[q] \subseteq DOMAIN chain'[q]
      BY <1>0, <1>3 DEF ChainType
    <3> QED BY <2>1, <3>1, <3>2, <1>5 DEF WriteSnapshot
  <2>2. CASE done = 3 /\ q = s
    <3>1. chain'[s] = Append(chain[s], c) /\ head'[s] = c
      BY <2>2, <1>0 DEF WriteSnapshot, ChainType
    <3>2. Len(chain[s]) + 1 \in DOMAIN chain'[s] /\ chain'[s][Len(chain[s]) + 1] = c
      BY <3>1, <1>0 DEF ChainType
    <3> QED BY <2>2, <3>1, <3>2
  <2>3. CASE done = 3 /\ q # s
    BY <2>3, <1>0 DEF WriteSnapshot, ChainType, HeadIsPublished, Elems
  <2> QED BY <2>1, <2>2, <2>3
<1>7. ChainIsWellFormed'
  <2> SUFFICES ASSUME NEW q \in Sessions, NEW i \in DOMAIN chain'[q]
               PROVE  /\ snapshot'[chain'[q][i]].session = q
                      /\ \A j \in DOMAIN chain'[q] : chain'[q][j] = chain'[q][i] => j = i
                      /\ \/ snapshot'[chain'[q][i]].parent = NoId
                         \/ \E j \in 1..(i - 1) : chain'[q][j] = snapshot'[chain'[q][i]].parent
    BY DEF ChainIsWellFormed
  <2>1. CASE i \in DOMAIN chain[q]
    <3>1. chain'[q][i] = chain[q][i] /\ chain[q][i] \in Ids /\ chain[q][i] # c
      BY <2>1, <1>0, <1>2, <1>5 DEF ChainType
    <3>2. snapshot'[chain'[q][i]] = snapshot[chain[q][i]]
      BY <3>1, <1>4, <1>0 DEF ChainType
    <3>3. \A j \in DOMAIN chain'[q] : j \in DOMAIN chain[q] \/ chain'[q][j] = c
      BY <1>0, <1>3 DEF ChainType
    <3>4. \A j \in DOMAIN chain'[q] : chain'[q][j] = chain'[q][i] => j = i
      BY <3>1, <3>3, <2>1, <1>0, <1>5 DEF ChainIsWellFormed
    <3>5. \A j \in 1..(i - 1) : j \in DOMAIN chain[q]
      BY <2>1, <1>0 DEF ChainType
    <3> QED BY <3>1, <3>2, <3>4, <3>5, <2>1, <1>0, <1>5 DEF ChainIsWellFormed
  <2>2. CASE i \notin DOMAIN chain[q]
    <3>1. q = s /\ chain'[s] = Append(chain[s], c) /\ i = Len(chain[s]) + 1 /\ chain'[s][i] = c
      BY <2>2, <1>0, <1>3 DEF ChainType
    <3>2. snapshot'[c] = full
      BY <1>0, <1>4 DEF ChainType
    <3>3. \A j \in DOMAIN chain'[s] : chain'[s][j] = c => j = i
      BY <3>1, <1>0, <1>2 DEF ChainType
    <3>4. head[s] = NoId \/ \E j \in 1..(i - 1) : chain'[s][j] = head[s]
      <4>1. head[s] = NoId \/ \E j \in DOMAIN chain[s] : chain[s][j] = head[s]
        BY <1>0 DEF HeadIsPublished, Elems
      <4>2. DOMAIN chain[s] = 1..(i - 1)
        BY <3>1, <1>0 DEF ChainType
      <4> QED BY <4>1, <4>2, <1>5
    <3> QED BY <3>1, <3>2, <3>3, <3>4
  <2> QED BY <2>1, <2>2
<1>8. NewHaveNone'
  BY <1>0, <1>3 DEF NewHaveNone
<1> QED BY <1>1, <1>5, <1>6, <1>7, <1>8 DEF Inv

\* Deleting a session takes its checkpoints, and no others.
LEMMA DeleteInv ==
    ASSUME Inv, NEW s \in Sessions, DeleteSession(s)
    PROVE  /\ Inv'
           /\ \A q \in Sessions \ {s} : chain'[q] = chain[q] /\ head'[q] = head[q]
           /\ chain'[s] = <<>> /\ head'[s] = NoId
           /\ \A q \in Sessions \ {s} : \A i \in DOMAIN chain[q] :
                  snapshot'[chain[q][i]] = snapshot[chain[q][i]]
<1>0. ChainType /\ HeadIsPublished /\ ChainIsWellFormed /\ NewHaveNone
  BY DEF Inv
<1>1. /\ snapshot' = [c \in Ids |-> IF snapshot[c].session = s THEN NoSnapshot ELSE snapshot[c]]
      /\ chain' = [chain EXCEPT ![s] = <<>>]
      /\ head' = [head EXCEPT ![s] = NoId]
      /\ exists' = exists \ {s}
  BY DEF DeleteSession, ForgetCheckpoints
<1>2. ChainType'
  BY <1>0, <1>1 DEF ChainType
<1>3. \A q \in Sessions \ {s} : chain'[q] = chain[q] /\ head'[q] = head[q]
  BY <1>0, <1>1 DEF ChainType
<1>4. chain'[s] = <<>> /\ head'[s] = NoId
  BY <1>0, <1>1 DEF ChainType
<1>5. ASSUME NEW q \in Sessions \ {s}, NEW i \in DOMAIN chain[q]
      PROVE  snapshot'[chain[q][i]] = snapshot[chain[q][i]]
  <2>1. chain[q][i] \in Ids
    BY <1>0 DEF ChainType
  <2>2. snapshot[chain[q][i]].session = q
    BY <1>0 DEF ChainIsWellFormed
  <2> QED BY <1>1, <2>1, <2>2
<1>6. HeadIsPublished'
  BY <1>0, <1>3, <1>4 DEF HeadIsPublished, Elems
<1>7. ChainIsWellFormed'
  <2> SUFFICES ASSUME NEW q \in Sessions, NEW i \in DOMAIN chain'[q]
               PROVE  /\ snapshot'[chain'[q][i]].session = q
                      /\ \A j \in DOMAIN chain'[q] : chain'[q][j] = chain'[q][i] => j = i
                      /\ \/ snapshot'[chain'[q][i]].parent = NoId
                         \/ \E j \in 1..(i - 1) : chain'[q][j] = snapshot'[chain'[q][i]].parent
    BY DEF ChainIsWellFormed
  <2>1. q \in Sessions \ {s} /\ i \in DOMAIN chain[q] /\ chain'[q] = chain[q]
    BY <1>3, <1>4
  <2>2. snapshot'[chain'[q][i]] = snapshot[chain[q][i]]
    BY <1>5, <2>1
  <2> QED BY <1>0, <2>1, <2>2 DEF ChainIsWellFormed
<1>8. NewHaveNone'
  BY <1>0, <1>1, <1>3, <1>4 DEF NewHaveNone
<1> QED BY <1>2, <1>3, <1>4, <1>5, <1>6, <1>7, <1>8 DEF Inv

LEMMA InvStep ==
    ASSUME ~ReadErrors, Inv, [Next]_vars
    PROVE  Inv'
<1>1. CASE exists \subseteq exists' /\ UNCHANGED log
  BY <1>1 DEF Inv, ChainType, HeadIsPublished, ChainIsWellFormed, NewHaveNone, Elems, log
<1>2. LogGrows \/ \E s \in Sessions : DeleteSession(s)
  BY NextExtends DEF Inv
<1>3. CASE LogGrows
  BY <1>1, <1>3, ExtendsInv DEF LogGrows
<1>4. CASE \E s \in Sessions : DeleteSession(s)
  BY <1>4, DeleteInv
<1> QED BY <1>2, <1>3, <1>4

THEOREM Invariance ==
    ASSUME ~ReadErrors
    PROVE  Spec => []Inv
<1>1. Inv /\ [Next]_vars => Inv'
  BY InvStep
<1> QED BY <1>1, InitInv, PTL DEF Spec

\* HEAD.json names an entry of the chain, wherever captures were cut.
THEOREM HeadStaysPublished ==
    ASSUME ~ReadErrors
    PROVE  Spec => []HeadIsPublished
<1>1. Inv => HeadIsPublished BY DEF Inv
<1> QED BY <1>1, Invariance, PTL

\* Every chain entry is a whole checkpoint of its session after its parent.
THEOREM ChainStaysWellFormed ==
    ASSUME ~ReadErrors
    PROVE  Spec => []ChainIsWellFormed
<1>1. Inv => ChainIsWellFormed BY DEF Inv
<1> QED BY <1>1, Invariance, PTL

\* No handler takes an old checkpoint out of the chain of a session that goes on.
THEOREM OldCheckpointsStay ==
    ASSUME ~ReadErrors
    PROVE  Spec => ChainOnlyGrows
<1>1. Inv /\ [Next]_vars =>
        [\A s \in Sessions : s \in exists' =>
            /\ Len(chain'[s]) >= Len(chain[s])
            /\ \A i \in DOMAIN chain[s] : chain'[s][i] = chain[s][i]]_vars
  <2> SUFFICES ASSUME Inv, [Next]_vars, NEW s \in Sessions, s \in exists'
               PROVE  /\ Len(chain'[s]) >= Len(chain[s])
                      /\ \A i \in DOMAIN chain[s] : chain'[s][i] = chain[s][i]
    OBVIOUS
  <2>0. chain[s] \in Seq(Ids)
    BY DEF Inv, ChainType
  <2>1. CASE Extends /\ exists \subseteq exists'
    BY <2>1, ExtendsInv
  <2>2. CASE UNCHANGED log
    BY <2>0, <2>2 DEF log
  <2>3. ASSUME NEW q \in Sessions, DeleteSession(q)
        PROVE  chain'[s] = chain[s]
    BY <2>3, DeleteInv DEF DeleteSession
  <2> QED BY <2>0, <2>1, <2>2, <2>3, NextExtends DEF LogGrows, Inv
<1> QED BY <1>1, Invariance, PTL DEF Spec, ChainOnlyGrows

-----------------------------------------------------------------------------
(* Files, trees and objects.                                               *)

Store == [Bytes -> Bytes \cup {Missing}]
Tree == [Paths -> Bytes \cup {Absent}]
Files == [Paths -> File \cup {Absent}]

Grows(old, new) == \A b \in Bytes : old[b] # Missing => new[b] # Missing

\* Links lead to objects, and so do the hashes of a tree.
LinksHold(files, store) == \A p \in Paths : Linked(files[p]) => store[files[p].of] # Missing
Kept(tree, store) == \A p \in Paths : tree[p] # Absent => store[tree[p]] # Missing

LEMMA BytesAre == Absent \notin Bytes /\ Missing \notin Bytes /\ Absent # Missing
  BY ConstantsAssumption DEF Bytes

LEMMA FileIs ==
    ASSUME NEW f \in File
    PROVE  f.of \in Bytes /\ f.link \in BOOLEAN
<1>1. (\E b \in Bytes : f = Own(b)) \/ (\E b \in Bytes : f = Link(b))
  BY DEF File
<1>2. ASSUME NEW b \in Bytes, f = Own(b)
      PROVE  f.of \in Bytes /\ f.link \in BOOLEAN
  BY <1>2 DEF Own
<1>3. ASSUME NEW b \in Bytes, f = Link(b)
      PROVE  f.of \in Bytes /\ f.link \in BOOLEAN
  BY <1>3 DEF Link
<1> QED BY <1>1, <1>2, <1>3

LEMMA TreeOfType ==
    ASSUME NEW store \in Store, NEW files \in Files, LinksHold(files, store)
    PROVE  TreeOf(store, files) \in Tree
<1> SUFFICES ASSUME NEW p \in Paths PROVE Read(store, files[p]) \in Bytes \cup {Absent}
  BY DEF TreeOf, Tree
<1>1. files[p] \in File \cup {Absent}
  BY DEF Files
<1>2. CASE files[p] = Absent
  BY <1>2 DEF Read
<1>3. CASE files[p] # Absent /\ files[p].link
  BY <1>1, <1>3, FileIs DEF Read, LinksHold, Linked, Store
<1>4. CASE files[p] # Absent /\ ~files[p].link
  BY <1>1, <1>4, FileIs DEF Read
<1> QED BY <1>2, <1>3, <1>4

LEMMA StoreAllKeeps ==
    ASSUME NEW store \in Store, NEW tree \in Tree
    PROVE  /\ StoreAll(store, tree) \in Store
           /\ Grows(store, StoreAll(store, tree))
           /\ Kept(tree, StoreAll(store, tree))
<1>1. StoreAll(store, tree) \in Store
  BY DEF StoreAll, Store
<1>2. Grows(store, StoreAll(store, tree))
  BY BytesAre DEF StoreAll, Grows, Store
<1>3. ASSUME NEW p \in Paths, tree[p] # Absent
      PROVE  StoreAll(store, tree)[tree[p]] # Missing
  <2>1. tree[p] \in Bytes /\ tree[p] \in Hashes(tree)
    BY <1>3 DEF Tree, Hashes
  <2> QED BY <2>1, BytesAre DEF StoreAll
<1> QED BY <1>1, <1>2, <1>3 DEF Kept

LEMMA PartlyStoredGrows ==
    ASSUME NEW store \in Store, NEW tree \in Tree, NEW new \in PartlyStored(store, tree)
    PROVE  new \in Store /\ Grows(store, new)
<1>1. new \in Store
  BY DEF PartlyStored, Store
<1>2. \A b \in Bytes : new[b] = store[b] \/ new[b] \in Bytes
  BY DEF PartlyStored, Bytes
<1> QED BY <1>1, <1>2, BytesAre DEF Grows

LEMMA RestoredFiles ==
    ASSUME NEW store \in Store, NEW tree \in Tree, Kept(tree, store)
    PROVE  Restored(store, tree) \in Files /\ LinksHold(Restored(store, tree), store)
<1>1. ASSUME NEW p \in Paths
      PROVE  /\ Materialize(store, tree[p]) \in File \cup {Absent}
             /\ Linked(Materialize(store, tree[p])) => store[Materialize(store, tree[p]).of] # Missing
  <2>1. CASE tree[p] = Absent
    BY <2>1 DEF Materialize, Linked
  <2>2. CASE tree[p] # Absent
    <3>1. tree[p] \in Bytes /\ store[tree[p]] \in Bytes
      BY <2>2 DEF Tree, Kept, Store
    <3>2. CASE HardLinks
      BY <2>2, <3>1, <3>2, BytesAre DEF Materialize, Link, File, Linked, Kept
    <3>3. CASE ~HardLinks
      BY <2>2, <3>1, <3>3 DEF Materialize, Own, File, Linked
    <3> QED BY <3>2, <3>3
  <2> QED BY <2>1, <2>2
<1> QED BY <1>1 DEF Restored, Files, LinksHold

LEMMA PartlyRestoredFiles ==
    ASSUME NEW files \in Files, NEW store, LinksHold(files, store),
           NEW partly \in PartlyRestored(files)
    PROVE  partly \in Files /\ LinksHold(partly, store)
<1>1. \A p \in Paths : partly[p] = Absent \/ partly[p] = files[p]
  BY DEF PartlyRestored
<1>2. partly \in Files
  BY <1>1 DEF PartlyRestored, Files
<1> QED BY <1>1, <1>2 DEF LinksHold, Linked

-----------------------------------------------------------------------------
(* Every checkpoint is complete.                                           *)

Whole(snap, store) ==
    /\ snap.title \in Titles
    /\ snap.history \in Seq(Messages)
    /\ snap.tree \in Tree
    /\ Kept(snap.tree, store)

WholeInv == \A c \in Ids : ~FreeId(c) => Whole(snapshot[c], object)

UploadOK(u, store) ==
    \/ u = NoUpload
    \/ /\ u \in [session : Sessions, path : Paths, at : Paths \cup {Absent},
                 onto : Bytes \cup {Absent}]
       /\ u.onto # Absent => store[u.onto] # Missing

ContentInv ==
    /\ exists \in SUBSET Sessions
    /\ title \in [Sessions -> Titles]
    /\ scenario \in [Sessions -> Scenarios]
    /\ history \in [Sessions -> Seq(Messages)]
    /\ file \in [Sessions -> Files]
    /\ object \in Store
    /\ WholeInv
    /\ \A s \in Sessions : LinksHold(file[s], object)
    /\ UploadOK(upload, object)

LEMMA GrowsIsTransitive ==
    ASSUME NEW a, NEW b, NEW c, Grows(a, b), Grows(b, c)
    PROVE  Grows(a, c)
  BY DEF Grows

LEMMA LinksHoldLater ==
    ASSUME NEW old, NEW new, Grows(old, new), NEW files \in Files, LinksHold(files, old)
    PROVE  LinksHold(files, new)
<1> SUFFICES ASSUME NEW p \in Paths, Linked(files[p]) PROVE new[files[p].of] # Missing
  BY DEF LinksHold
<1>1. files[p] \in File
  BY DEF Files, Linked
<1>2. files[p].of \in Bytes /\ files[p] # Absent
  BY <1>1, FileIs DEF Linked
<1> QED BY <1>2 DEF LinksHold, Grows

LEMMA WholeLater ==
    ASSUME NEW old, NEW new, Grows(old, new), NEW snap, Whole(snap, old)
    PROVE  Whole(snap, new)
  BY DEF Whole, Kept, Grows, Tree

LEMMA UploadLater ==
    ASSUME NEW old, NEW new, Grows(old, new), NEW u, UploadOK(u, old)
    PROVE  UploadOK(u, new)
  BY DEF UploadOK, Grows

LEMMA SnapshotsStayWhole ==
    ASSUME WholeInv, Inv, Grows(object, object'), UNCHANGED snapshot
    PROVE  WholeInv'
  BY WholeLater DEF WholeInv, FreeId

LEMMA WriteSnapshotWhole ==
    ASSUME WholeInv, Inv, Grows(object, object'), NEW s, NEW old, NEW snap,
           NEW c \in Ids, NEW done, WriteSnapshot(s, old, snap, c, done), Whole(snap, object')
    PROVE  WholeInv'
<1>1. snapshot' = [snapshot EXCEPT ![c] = snap] /\ DOMAIN snapshot = Ids
  BY DEF WriteSnapshot, Inv, ChainType
<1> SUFFICES ASSUME NEW d \in Ids, snapshot'[d] # NoSnapshot PROVE Whole(snapshot'[d], object')
  BY DEF WholeInv, FreeId
<1>2. CASE d = c
  BY <1>1, <1>2
<1>3. CASE d # c
  BY <1>1, <1>3, WholeLater DEF WholeInv, FreeId
<1> QED BY <1>2, <1>3

LEMMA CaptureKeeps ==
    ASSUME ContentInv, Inv, NEW s \in Sessions, NEW t \in Titles, NEW sc,
           NEW h \in Seq(Messages), NEW files \in Files, NEW store \in Store,
           LinksHold(files, store), Grows(object, store), NEW auto,
           Capture(s, t, sc, h, files, store, auto)
    PROVE  object' \in Store /\ Grows(store, object') /\ Grows(object, object') /\ WholeInv'
<1> DEFINE tree == TreeOf(store, files)
           full(parent) == SnapshotOf(s, parent, t, sc, h, tree)
<1>1. tree \in Tree
  BY TreeOfType
<1>2. WholeInv
  BY DEF ContentInv
<1>3. CASE object' \in PartlyStored(store, tree) /\ UNCHANGED log
  <2> HIDE DEF tree
  <2>1. object' \in Store /\ Grows(store, object')
    BY <1>1, <1>3, PartlyStoredGrows
  <2>2. Grows(object, object')
    BY <2>1, GrowsIsTransitive
  <2> QED BY <1>2, <1>3, <2>1, <2>2, SnapshotsStayWhole DEF log
<1>4. ASSUME object' = StoreAll(store, tree)
      PROVE  /\ object' \in Store /\ Grows(store, object') /\ Grows(object, object')
             /\ Kept(tree, object')
  <2> HIDE DEF tree
  <2>1. object' \in Store /\ Grows(store, object') /\ Kept(tree, object')
    BY <1>1, <1>4, StoreAllKeeps
  <2> QED BY <2>1, GrowsIsTransitive
<1>5. CASE object' = StoreAll(store, tree) /\ UNCHANGED log
  BY <1>2, <1>4, <1>5, SnapshotsStayWhole DEF log
<1>6. ASSUME NEW old, NEW parent, NEW c \in Ids, NEW done \in 1..3,
             object' = StoreAll(store, tree), WriteSnapshot(s, old, full(parent), c, done)
      PROVE  object' \in Store /\ Grows(store, object') /\ Grows(object, object') /\ WholeInv'
  <2>1. full(parent).title = t /\ full(parent).history = h /\ full(parent).tree = tree
    BY DEF SnapshotOf
  <2> HIDE DEF full, tree
  <2>2. Whole(full(parent), object')
    BY <1>1, <1>4, <1>6, <2>1 DEF Whole
  <2> QED BY <1>2, <1>4, <1>6, <2>2, WriteSnapshotWhole
<1> QED BY <1>3, <1>5, <1>6 DEF Capture

LEMMA FilesKeep ==
    ASSUME ContentInv, NEW s \in Sessions, NEW files \in Files, LinksHold(files, object'),
           Grows(object, object'), file' = [file EXCEPT ![s] = files]
    PROVE  file' \in [Sessions -> Files] /\ \A q \in Sessions : LinksHold(file'[q], object')
<1>1. file \in [Sessions -> Files]
  BY DEF ContentInv
<1>2. ASSUME NEW q \in Sessions PROVE LinksHold(file'[q], object')
  <2>1. CASE q = s
    BY <1>1, <2>1
  <2>2. CASE q # s
    <3>1. file'[q] = file[q] /\ file[q] \in Files /\ LinksHold(file[q], object)
      BY <1>1, <2>2 DEF ContentInv
    <3> QED BY <3>1, LinksHoldLater
  <2> QED BY <2>1, <2>2
<1> QED BY <1>1, <1>2

LEMMA SameFilesKeep ==
    ASSUME ContentInv, Grows(object, object'), UNCHANGED file
    PROVE  file' \in [Sessions -> Files] /\ \A q \in Sessions : LinksHold(file'[q], object')
  BY LinksHoldLater DEF ContentInv

-----------------------------------------------------------------------------
(* The handlers.                                                           *)

LEMMA CreateKeeps ==
    ASSUME ContentInv, Inv, NEW s \in Sessions, NEW t \in Titles, NEW sc \in Scenarios,
           Create(s, t, sc) \/ Update(s, t, sc)
    PROVE  ContentInv'
<1>1. \E h \in Seq(Messages) : /\ Capture(s, t, sc, h, file[s], object, FALSE)
                               /\ history' \in {history, [history EXCEPT ![s] = h]}
  <2>1. CASE Create(s, t, sc)
    <3>1. <<>> \in Seq(Messages)
      OBVIOUS
    <3> QED BY <2>1, <3>1 DEF Create
  <2>2. CASE Update(s, t, sc)
    <3>1. history[s] \in Seq(Messages) /\ history' = history
      BY <2>2 DEF Update, ContentInv
    <3> QED BY <2>2, <3>1 DEF Update
  <2> QED BY <2>1, <2>2
<1>2. file[s] \in Files /\ LinksHold(file[s], object) /\ object \in Store
  BY DEF ContentInv
<1>3. Grows(object, object)
  BY DEF Grows
<1>4. object' \in Store /\ Grows(object, object') /\ WholeInv'
  BY <1>1, <1>2, <1>3, CaptureKeeps
<1>5. UNCHANGED <<file, upload>>
  BY DEF Create, Update
<1>6. UploadOK(upload', object')
  BY <1>4, <1>5, UploadLater DEF ContentInv
<1>7. exists' \in SUBSET Sessions /\ title' \in [Sessions -> Titles]
      /\ scenario' \in [Sessions -> Scenarios] /\ history' \in [Sessions -> Seq(Messages)]
  BY <1>1 DEF Create, Update, ContentInv
<1> QED BY <1>4, <1>5, <1>6, <1>7, SameFilesKeep DEF ContentInv

LEMMA SaveHistoryKeeps ==
    ASSUME ContentInv, Inv, NEW s \in Sessions, NEW h \in Seq(Messages), SaveHistory(s, h)
    PROVE  ContentInv'
<1>1. file[s] \in Files /\ LinksHold(file[s], object) /\ object \in Store /\ title[s] \in Titles
  BY DEF ContentInv
<1>2. Grows(object, object)
  BY DEF Grows
<1>3. object' \in Store /\ Grows(object, object') /\ WholeInv'
  BY <1>1, <1>2, CaptureKeeps DEF SaveHistory
<1>4. UploadOK(upload', object')
  BY <1>3, UploadLater DEF ContentInv, SaveHistory
<1>5. history' \in [Sessions -> Seq(Messages)]
  BY DEF SaveHistory, ContentInv
<1> QED BY <1>3, <1>4, <1>5, SameFilesKeep DEF ContentInv, SaveHistory

LEMMA PositionIs ==
    ASSUME NEW h \in Seq(Messages), NEW m \in Elems(h)
    PROVE  Position(h, m) \in DOMAIN h /\ h[Position(h, m)] = m
  BY DEF Elems, Position

LEMMA WithoutIs ==
    ASSUME NEW h \in Seq(Messages), NEW m \in Elems(h)
    PROVE  Without(h, m) \in Seq(Messages)
<1>1. Len(h) \in Nat \ {0} /\ Len(h) - 1 \in Nat
  <2>1. PICK i \in DOMAIN h : h[i] = m
    BY DEF Elems
  <2>2. DOMAIN h = 1..Len(h) /\ Len(h) \in Nat
    OBVIOUS
  <2> QED BY <2>1, <2>2
<1>2. ASSUME NEW i \in 1..(Len(h) - 1)
      PROVE  h[IF i < Position(h, m) THEN i ELSE i + 1] \in Messages
  <2>1. i \in DOMAIN h /\ i + 1 \in DOMAIN h
    BY <1>1
  <2> QED BY <2>1
<1> QED BY <1>1, <1>2 DEF Without

LEMMA MessagesKeep ==
    ASSUME ContentInv, Inv, NEW s \in Sessions, NEW m \in Messages,
           AppendMessage(s, m) \/ DeleteMessage(s, m) \/ CompleteTurn(s)
    PROVE  ContentInv'
<1>1. history[s] \in Seq(Messages)
  BY DEF ContentInv
<1>2. CASE AppendMessage(s, m)
  <2>1. Append(history[s], m) \in Seq(Messages)
    BY <1>1
  <2> QED BY <1>2, <2>1, SaveHistoryKeeps DEF AppendMessage
<1>3. CASE DeleteMessage(s, m)
  <2>1. Without(history[s], m) \in Seq(Messages)
    BY <1>1, <1>3, WithoutIs DEF DeleteMessage
  <2> QED BY <1>3, <2>1, SaveHistoryKeeps DEF DeleteMessage
<1>4. CASE CompleteTurn(s)
  BY <1>1, <1>4, SaveHistoryKeeps DEF CompleteTurn
<1> QED BY <1>2, <1>3, <1>4

\* A handler that leaves the session the files `files`, the store being `store` by then.
LEMMA CaptureFilesKeeps ==
    ASSUME ContentInv, Inv, NEW s \in Sessions, NEW files \in Files, NEW store \in Store,
           LinksHold(files, store), Grows(object, store), CaptureFiles(s, files, store),
           UploadOK(upload', object)
    PROVE  ContentInv'
<1>1. title[s] \in Titles /\ history[s] \in Seq(Messages)
  BY DEF ContentInv
<1>2. object' \in Store /\ Grows(store, object') /\ Grows(object, object') /\ WholeInv'
  BY <1>1, CaptureKeeps DEF CaptureFiles
<1>3. LinksHold(files, object')
  BY <1>2, LinksHoldLater
<1>4. UploadOK(upload', object')
  BY <1>2, UploadLater
<1>5. file' = [file EXCEPT ![s] = files]
  BY DEF CaptureFiles
<1>6. file' \in [Sessions -> Files] /\ \A q \in Sessions : LinksHold(file'[q], object')
  BY <1>2, <1>3, <1>5, FilesKeep
<1> QED BY <1>2, <1>4, <1>6 DEF ContentInv, CaptureFiles

LEMMA InPlaceKeeps ==
    ASSUME ContentInv, NEW s \in Sessions, NEW p \in Paths, NEW b \in Bytes
    PROVE  /\ InPlace(s, p, b) \in Files
           /\ StoreInPlace(file[s][p], b) \in Store
           /\ Grows(object, StoreInPlace(file[s][p], b))
           /\ LinksHold(InPlace(s, p, b), StoreInPlace(file[s][p], b))
<1>1. file[s] \in Files /\ LinksHold(file[s], object) /\ object \in Store
  BY DEF ContentInv
<1>2. InPlace(s, p, b) \in Files
  BY <1>1 DEF InPlace, Files, File
<1>3. StoreInPlace(file[s][p], b) \in Store /\ Grows(object, StoreInPlace(file[s][p], b))
  BY <1>1, BytesAre DEF StoreInPlace, Store, Grows
<1>4. LinksHold(InPlace(s, p, b), object)
  <2>1. CASE Linked(file[s][p])
    BY <1>1, <2>1 DEF InPlace
  <2>2. CASE ~Linked(file[s][p])
    BY <1>1, <2>2 DEF InPlace, LinksHold, Linked, Own, Files
  <2> QED BY <2>1, <2>2
<1> QED BY <1>2, <1>3, <1>4, LinksHoldLater

LEMMA UnlinkedIs ==
    ASSUME ContentInv, NEW s \in Sessions, NEW ps
    PROVE  UploadOK(Unlinked(s, ps), object)
<1>1. UploadOK(upload, object)
  BY DEF ContentInv
<1>2. CASE upload.session = s /\ upload.at \in ps
  <2>1. upload # NoUpload
    BY <1>2, ConstantsAssumption DEF NoUpload
  <2> QED BY <1>1, <1>2, <2>1 DEF UploadOK, Unlinked
<1>3. CASE ~(upload.session = s /\ upload.at \in ps)
  BY <1>1, <1>3 DEF Unlinked
<1> QED BY <1>2, <1>3

LEMMA WriteFileKeeps ==
    ASSUME ContentInv, Inv, NEW s \in Sessions, NEW p \in Paths, NEW b \in Contents,
           WriteFile(s, p, b)
    PROVE  ContentInv'
<1>1. b \in Bytes
  BY DEF Bytes
<1>2. UploadOK(upload', object)
  BY DEF ContentInv, WriteFile
<1> QED BY <1>1, <1>2, InPlaceKeeps, CaptureFilesKeeps DEF WriteFile

LEMMA DeleteFileKeeps ==
    ASSUME ContentInv, Inv, NEW s \in Sessions, NEW p \in Paths, DeleteFile(s, p)
    PROVE  ContentInv'
<1>1. file[s] \in Files /\ LinksHold(file[s], object) /\ object \in Store
  BY DEF ContentInv
<1>2. [file[s] EXCEPT ![p] = Absent] \in Files
      /\ LinksHold([file[s] EXCEPT ![p] = Absent], object)
  BY <1>1 DEF Files, LinksHold, Linked
<1>3. Grows(object, object)
  BY DEF Grows
<1>4. UploadOK(upload', object)
  BY UnlinkedIs DEF DeleteFile
<1> QED BY <1>1, <1>2, <1>3, <1>4, CaptureFilesKeeps DEF DeleteFile

LEMMA RenameFileKeeps ==
    ASSUME ContentInv, Inv, NEW s \in Sessions, NEW p \in Paths, NEW q \in Paths,
           RenameFile(s, p, q)
    PROVE  ContentInv'
<1>1. file[s] \in Files /\ LinksHold(file[s], object) /\ object \in Store
  BY DEF ContentInv
<1>2. Renamed(s, p, q) \in Files /\ LinksHold(Renamed(s, p, q), object)
  BY <1>1 DEF Renamed, Files, LinksHold, Linked
<1>3. Grows(object, object)
  BY DEF Grows
<1>4. UploadOK(upload', object)
  <2>1. UploadOK(upload, object)
    BY DEF ContentInv
  <2>2. CASE upload' = upload
    BY <2>1, <2>2
  <2>3. CASE upload.session = s /\ upload' = [upload EXCEPT !.at = q]
    <3>1. upload # NoUpload
      BY <2>3, ConstantsAssumption DEF NoUpload
    <3> QED BY <2>1, <2>3, <3>1 DEF UploadOK
  <2>4. CASE upload' = Unlinked(s, {q})
    BY <2>4, UnlinkedIs
  <2> QED BY <2>2, <2>3, <2>4 DEF RenameFile
<1> QED BY <1>1, <1>2, <1>3, <1>4, CaptureFilesKeeps DEF RenameFile

LEMMA BeginUploadKeeps ==
    ASSUME ContentInv, Inv, NEW s \in Sessions, NEW p \in Paths, BeginUpload(s, p)
    PROVE  ContentInv'
<1>1. Torn \in Bytes
  BY DEF Bytes
<1>2. object' \in Store /\ Grows(object, object') /\ LinksHold(InPlace(s, p, Torn), object')
      /\ InPlace(s, p, Torn) \in Files
  BY <1>1, InPlaceKeeps DEF BeginUpload
<1>3. WholeInv'
  BY <1>2, SnapshotsStayWhole DEF ContentInv, BeginUpload, log
<1>4. file' \in [Sessions -> Files] /\ \A q \in Sessions : LinksHold(file'[q], object')
  BY <1>2, FilesKeep DEF BeginUpload
<1>5. UploadOK(upload', object')
  <2>1. CASE Linked(file[s][p])
    <3>1. file[s][p] \in File
      BY <2>1 DEF ContentInv, Files, Linked
    <3>2. file[s][p].of \in Bytes /\ object[file[s][p].of] # Missing
      BY <2>1, <3>1, FileIs DEF ContentInv, LinksHold, Linked
    <3> QED BY <1>2, <2>1, <3>2 DEF BeginUpload, UploadOK, Grows
  <2>2. CASE ~Linked(file[s][p])
    BY <2>2 DEF BeginUpload, UploadOK
  <2> QED BY <2>1, <2>2
<1> QED BY <1>2, <1>3, <1>4, <1>5 DEF ContentInv, BeginUpload

LEMMA EndUploadKeeps ==
    ASSUME ContentInv, Inv, NEW s \in Sessions, NEW b \in Contents, EndUpload(s, b)
    PROVE  ContentInv'
<1> DEFINE shared == upload.onto # Absent
           named == upload.at # Absent /\ ~shared
           files(got) == IF named THEN [file[s] EXCEPT ![upload.at] = Own(got)] ELSE file[s]
           store(got) == IF shared THEN [object EXCEPT ![upload.onto] = got] ELSE object
<1>1. PICK got \in {b, Torn} :
         \/ CaptureFiles(s, files(got), store(got))
         \/ /\ object' = store(got)
            /\ UNCHANGED <<exists, title, scenario, history, file, log>>
  BY DEF EndUpload
<1>2. got \in Bytes /\ got # Missing
  BY BytesAre DEF Bytes
<1>3. file[s] \in Files /\ LinksHold(file[s], object) /\ object \in Store
  BY DEF ContentInv
<1>4. files(got) \in Files /\ LinksHold(files(got), object)
  BY <1>2, <1>3 DEF Files, File, LinksHold, Linked, Own
<1>5. store(got) \in Store /\ Grows(object, store(got))
  BY <1>2, <1>3 DEF Store, Grows
<1>6. UploadOK(upload', object)
  BY DEF EndUpload, UploadOK
<1> HIDE DEF files, store
<1>7. LinksHold(files(got), store(got))
  BY <1>4, <1>5, LinksHoldLater
<1>8. CASE /\ object' = store(got)
           /\ UNCHANGED <<exists, title, scenario, history, file, log>>
  <2>1. object' \in Store /\ Grows(object, object')
    BY <1>5, <1>8
  <2>2. WholeInv'
    BY <1>8, <2>1, SnapshotsStayWhole DEF ContentInv, log
  <2>3. UploadOK(upload', object')
    BY <1>6, <2>1, UploadLater
  <2> QED BY <1>8, <2>1, <2>2, <2>3, SameFilesKeep DEF ContentInv
<1> QED BY <1>1, <1>4, <1>5, <1>6, <1>7, <1>8, CaptureFilesKeeps

LEMMA UploadLeavesKeeps ==
    ASSUME ContentInv, Inv, NEW s \in Sessions, UploadFails(s) \/ UploadStops(s)
    PROVE  ContentInv'
<1>1. UNCHANGED object /\ object \in Store /\ UploadOK(upload', object')
  BY DEF ContentInv, UploadFails, UploadStops, UploadOK
<1>2. Grows(object, object')
  BY <1>1 DEF Grows
<1>3. WholeInv'
  BY <1>2, SnapshotsStayWhole DEF ContentInv, UploadFails, UploadStops, log
<1>4. file' \in [Sessions -> Files] /\ \A q \in Sessions : LinksHold(file'[q], object')
  <2>1. CASE UNCHANGED file
    BY <1>2, <2>1, SameFilesKeep
  <2>2. CASE file' = [file EXCEPT ![s][upload.path] = Absent]
    <3> DEFINE files == [file[s] EXCEPT ![upload.path] = Absent]
    <3>1. file[s] \in Files /\ LinksHold(file[s], object)
      BY DEF ContentInv
    <3>2. files \in Files /\ LinksHold(files, object')
      BY <1>1, <3>1 DEF Files, LinksHold, Linked
    <3>3. file' = [file EXCEPT ![s] = files]
      BY <2>2
    <3> HIDE DEF files
    <3> QED BY <1>2, <3>2, <3>3, FilesKeep
  <2> QED BY <2>1, <2>2 DEF UploadFails, UploadStops
<1> QED BY <1>1, <1>3, <1>4 DEF ContentInv, UploadFails, UploadStops

LEMMA TakeSnapshotKeeps ==
    ASSUME ContentInv, Inv, NEW s \in Sessions, TakeSnapshot(s)
    PROVE  ContentInv'
<1>1. file[s] \in Files /\ LinksHold(file[s], object) /\ object \in Store
      /\ title[s] \in Titles /\ history[s] \in Seq(Messages)
  BY DEF ContentInv
<1>2. Grows(object, object)
  BY DEF Grows
<1>3. object' \in Store /\ Grows(object, object') /\ WholeInv'
  BY <1>1, <1>2, CaptureKeeps DEF TakeSnapshot
<1>4. UploadOK(upload', object')
  BY <1>3, UploadLater DEF ContentInv, TakeSnapshot, live
<1> QED BY <1>3, <1>4, SameFilesKeep DEF ContentInv, TakeSnapshot, live

\* An id in a chain names a whole checkpoint.
LEMMA ChainedIsWhole ==
    ASSUME ContentInv, Inv, NEW s \in Sessions, NEW c \in Elems(chain[s])
    PROVE  c \in Ids /\ ~FreeId(c) /\ Whole(snapshot[c], object)
<1>1. PICK i \in DOMAIN chain[s] : chain[s][i] = c
  BY DEF Elems
<1>2. c \in Ids /\ snapshot[c].session = s
  BY <1>1 DEF Inv, ChainType, ChainIsWellFormed
<1>3. ~FreeId(c)
  BY <1>2, ConstantsAssumption DEF FreeId, NoSnapshot
<1> QED BY <1>2, <1>3 DEF ContentInv, WholeInv

LEMMA RollbackKeeps ==
    ASSUME ContentInv, Inv, NEW s \in Sessions, NEW c, Rollback(s, c)
    PROVE  ContentInv'
<1> DEFINE to == snapshot[c]
           files == Restored(object, to.tree)
<1>1. Whole(to, object)
  BY ChainedIsWhole DEF Rollback
<1>2. object \in Store /\ Grows(object, object)
  BY DEF ContentInv, Grows
<1>3. files \in Files /\ LinksHold(files, object)
  BY <1>1, <1>2, RestoredFiles DEF Whole
<1>4. UploadOK(upload', object)
  BY UnlinkedIs DEF Rollback
<1>5. CASE /\ file' = [file EXCEPT ![s] = files]
           /\ title' = [title EXCEPT ![s] = RestoredTitle(c)]
           /\ scenario' = [scenario EXCEPT ![s] = RestoredScenario(c)]
           /\ history' = [history EXCEPT ![s] = to.history]
           /\ Capture(s, RestoredTitle(c), RestoredScenario(c), to.history, files, object, FALSE)
  <2>1. RestoredTitle(c) \in Titles /\ RestoredScenario(c) \in Scenarios
        /\ to.history \in Seq(Messages)
    BY <1>1, ConstantsAssumption DEF RestoredTitle, RestoredScenario, Whole
  <2> HIDE DEF to, files
  <2>2. object' \in Store /\ Grows(object, object') /\ WholeInv'
    BY <1>2, <1>3, <1>5, <2>1, CaptureKeeps
  <2>3. UploadOK(upload', object')
    BY <1>4, <2>2, UploadLater
  <2>4. LinksHold(files, object')
    BY <1>3, <2>2, LinksHoldLater
  <2>5. file' \in [Sessions -> Files] /\ \A q \in Sessions : LinksHold(file'[q], object')
    BY <1>3, <1>5, <2>2, <2>4, FilesKeep
  <2>6. exists' = exists
    BY DEF Rollback
  <2> QED BY <1>5, <2>1, <2>2, <2>3, <2>5, <2>6 DEF ContentInv
<1>6. CASE /\ \E partly \in PartlyRestored(files) : file' = [file EXCEPT ![s] = partly]
           /\ UNCHANGED <<title, scenario, history, object, log>>
  <2>1. PICK partly \in PartlyRestored(files) : file' = [file EXCEPT ![s] = partly]
    BY <1>6
  <2> HIDE DEF files
  <2>2. partly \in Files /\ LinksHold(partly, object') /\ Grows(object, object')
    BY <1>2, <1>3, <1>6, PartlyRestoredFiles
  <2>3. file' \in [Sessions -> Files] /\ \A q \in Sessions : LinksHold(file'[q], object')
    BY <2>1, <2>2, FilesKeep
  <2>4. WholeInv'
    BY <1>6, <2>2, SnapshotsStayWhole DEF ContentInv, log
  <2> QED BY <1>4, <1>6, <2>3, <2>4 DEF ContentInv, Rollback
<1> QED BY <1>5, <1>6 DEF Rollback

LEMMA CopyToKeeps ==
    ASSUME ContentInv, Inv, NEW n \in Sessions, NEW t \in Titles, NEW h \in Seq(Messages),
           NEW tree \in Tree, NEW store \in Store, Kept(tree, store), Grows(object, store),
           CopyTo(n, t, h, tree, store)
    PROVE  ContentInv'
<1> DEFINE read == [p \in Paths |-> IF tree[p] = Absent THEN Absent ELSE store[tree[p]]]
           again == StoreAll(store, read)
           files == Restored(again, tree)
           first == [session |-> n, parent |-> NoId, title |-> t, history |-> h, tree |-> tree,
                     json |-> [title |-> ForkOf[t], scenario |-> NoScenario]]
<1>1. read \in Tree
  BY DEF Tree, Store, Kept
<1>2. again \in Store /\ Grows(store, again)
  BY <1>1, StoreAllKeeps
<1>3. object' = again
  BY DEF CopyTo
<1>4. Kept(tree, again)
  BY <1>2 DEF Kept, Grows, Tree
<1>5. files \in Files /\ LinksHold(files, again)
  BY <1>2, <1>4, RestoredFiles
<1>6. Grows(object, again)
  BY <1>2, GrowsIsTransitive
<1>7. Whole(first, again)
  BY <1>4 DEF Whole
<1>8. \/ /\ file' = [file EXCEPT ![n] = files]
         /\ \E c \in Ids, done \in 1..3 : WriteSnapshot(n, <<>>, first, c, done)
      \/ /\ \E partly \in PartlyRestored(files) : file' = [file EXCEPT ![n] = partly]
         /\ UNCHANGED log
  BY DEF CopyTo
<1> HIDE DEF read, again, files, first
<1>9. WholeInv'
  BY <1>3, <1>6, <1>7, <1>8, WriteSnapshotWhole, SnapshotsStayWhole DEF ContentInv, log
<1>10. file' \in [Sessions -> Files] /\ \A q \in Sessions : LinksHold(file'[q], object')
  BY <1>3, <1>5, <1>6, <1>8, PartlyRestoredFiles, FilesKeep
<1>11. UploadOK(upload', object')
  BY <1>3, <1>6, UploadLater DEF ContentInv, CopyTo
<1>12. /\ exists' \in SUBSET Sessions /\ title' \in [Sessions -> Titles]
       /\ scenario' \in [Sessions -> Scenarios] /\ history' \in [Sessions -> Seq(Messages)]
  BY ConstantsAssumption DEF CopyTo, ContentInv
<1> QED BY <1>2, <1>3, <1>9, <1>10, <1>11, <1>12 DEF ContentInv

LEMMA CloneCheckpointKeeps ==
    ASSUME ContentInv, Inv, NEW s \in Sessions, NEW c, NEW n \in Sessions,
           CloneCheckpoint(s, c, n)
    PROVE  ContentInv'
<1>1. Whole(snapshot[c], object)
  BY ChainedIsWhole DEF CloneCheckpoint
<1>2. object \in Store /\ Grows(object, object)
  BY DEF ContentInv, Grows
<1> QED BY <1>1, <1>2, CopyToKeeps DEF CloneCheckpoint, Whole

LEMMA CloneNowKeeps ==
    ASSUME ContentInv, Inv, NEW s \in Sessions, NEW n \in Sessions, CloneNow(s, n)
    PROVE  ContentInv'
<1> DEFINE tree == TreeOf(object, file[s])
<1>1. object \in Store /\ file[s] \in Files /\ LinksHold(file[s], object)
      /\ title[s] \in Titles /\ history[s] \in Seq(Messages)
  BY DEF ContentInv
<1>2. tree \in Tree
  BY <1>1, TreeOfType
<1>3. CopyTo(n, title[s], history[s], tree, StoreAll(object, tree))
  BY DEF CloneNow
<1> HIDE DEF tree
<1>4. StoreAll(object, tree) \in Store /\ Grows(object, StoreAll(object, tree))
      /\ Kept(tree, StoreAll(object, tree))
  BY <1>1, <1>2, StoreAllKeeps
<1> QED BY <1>1, <1>2, <1>3, <1>4, CopyToKeeps

\* The objects stay, so that what is left finds its own.
LEMMA DeleteSessionKeeps ==
    ASSUME ContentInv, Inv, NEW s \in Sessions, DeleteSession(s)
    PROVE  ContentInv'
<1>1. UNCHANGED object /\ object \in Store
  BY DEF ContentInv, DeleteSession
<1>2. Grows(object, object')
  BY <1>1 DEF Grows
<1>3. UploadOK(upload', object')
  BY <1>1, UnlinkedIs DEF DeleteSession
<1>4. WholeInv'
  BY <1>1 DEF ContentInv, WholeInv, FreeId, DeleteSession, ForgetCheckpoints
<1>5. file' \in [Sessions -> Files] /\ \A q \in Sessions : LinksHold(file'[q], object')
  <2> DEFINE files == [p \in Paths |-> Absent]
  <2>1. files \in Files /\ LinksHold(files, object')
    BY DEF Files, LinksHold, Linked
  <2>2. file' = [file EXCEPT ![s] = files]
    BY DEF DeleteSession
  <2> HIDE DEF files
  <2> QED BY <1>2, <2>1, <2>2, FilesKeep
<1>6. /\ exists' \in SUBSET Sessions /\ title' \in [Sessions -> Titles]
      /\ scenario' \in [Sessions -> Scenarios] /\ history' \in [Sessions -> Seq(Messages)]
  BY ConstantsAssumption DEF ContentInv, DeleteSession
<1> QED BY <1>1, <1>3, <1>4, <1>5, <1>6 DEF ContentInv

LEMMA ContentStep == ContentInv /\ Inv /\ [Next]_vars => ContentInv'
<1> SUFFICES ASSUME ContentInv, Inv, [Next]_vars PROVE ContentInv'
  OBVIOUS
<1>1. CASE UNCHANGED vars
  BY <1>1 DEF vars, live, log, ContentInv, WholeInv, FreeId
<1>2. ASSUME NEW s \in Sessions, NEW t \in Titles, NEW sc \in Scenarios,
             Create(s, t, sc) \/ Update(s, t, sc)
      PROVE  ContentInv'
  BY <1>2, CreateKeeps
<1>3. ASSUME NEW s \in Sessions, NEW m \in Messages,
             AppendMessage(s, m) \/ DeleteMessage(s, m) \/ RollbackToMessage(s, m)
      PROVE  ContentInv'
  BY <1>3, MessagesKeep, RollbackKeeps DEF RollbackToMessage
<1>4. ASSUME NEW s \in Sessions, CompleteTurn(s) \/ TakeSnapshot(s) \/ DeleteSession(s)
      PROVE  ContentInv'
  <2>1. CASE CompleteTurn(s)
    BY <2>1, SaveHistoryKeeps DEF CompleteTurn, ContentInv
  <2> QED BY <1>4, <2>1, TakeSnapshotKeeps, DeleteSessionKeeps
<1>5. ASSUME NEW s \in Sessions, NEW p \in Paths,
             \/ DeleteFile(s, p) \/ BeginUpload(s, p)
             \/ \E b \in Contents : WriteFile(s, p, b)
             \/ \E q \in Paths : RenameFile(s, p, q)
      PROVE  ContentInv'
  BY <1>5, DeleteFileKeeps, BeginUploadKeeps, WriteFileKeeps, RenameFileKeeps
<1>6. ASSUME NEW s \in Sessions,
             (\E b \in Contents : EndUpload(s, b)) \/ UploadFails(s) \/ UploadStops(s)
      PROVE  ContentInv'
  BY <1>6, EndUploadKeeps, UploadLeavesKeeps
<1>7. ASSUME NEW s \in Sessions, NEW c \in Ids, Rollback(s, c)
      PROVE  ContentInv'
  BY <1>7, RollbackKeeps
<1>8. ASSUME NEW s \in Sessions, NEW n \in Sessions,
             \/ CloneNow(s, n)
             \/ \E c \in Ids : CloneCheckpoint(s, c, n)
             \/ \E m \in Messages : CloneMessage(s, m, n)
      PROVE  ContentInv'
  <2>1. CASE CloneNow(s, n)
    BY <2>1, CloneNowKeeps
  <2>2. ASSUME NEW c, CloneCheckpoint(s, c, n) PROVE ContentInv'
    BY <2>2, CloneCheckpointKeeps
  <2> QED BY <1>8, <2>1, <2>2 DEF CloneMessage
<1> QED BY <1>1, <1>2, <1>3, <1>4, <1>5, <1>6, <1>7, <1>8 DEF Next

LEMMA ContentInit == Init => ContentInv
<1> SUFFICES ASSUME Init PROVE ContentInv
  OBVIOUS
<1>1. \A c \in Ids : FreeId(c)
  BY DEF Init, FreeId
<1>2. object \in Store /\ file \in [Sessions -> Files]
      /\ \A s \in Sessions : LinksHold(file[s], object)
  BY DEF Init, Store, Files, LinksHold, Linked
<1>3. exists \in SUBSET Sessions /\ title \in [Sessions -> Titles]
      /\ scenario \in [Sessions -> Scenarios] /\ UploadOK(upload, object)
  BY ConstantsAssumption DEF Init, UploadOK
<1>4. history \in [Sessions -> Seq(Messages)]
  BY DEF Init
<1> QED BY <1>1, <1>2, <1>3, <1>4 DEF ContentInv, WholeInv

LEMMA ContentInvariance ==
    ASSUME ~ReadErrors
    PROVE  Spec => [](Inv /\ ContentInv)
<1>1. Inv /\ ContentInv /\ [Next]_vars => (Inv /\ ContentInv)'
  BY InvStep, ContentStep
<1> QED BY <1>1, InitInv, ContentInit, PTL DEF Spec

\* Variables are typed.  The part about files says that a checkpoint is complete: a
\* restored file has the bytes of an object, and the object is in the store.
THEOREM TypeCorrect ==
    ASSUME ~ReadErrors
    PROVE  Spec => []TypeOK
<1>1. Inv /\ ContentInv => TypeOK
  BY DEF Inv, ChainType, ContentInv, TypeOK, Files, Store, UploadOK
<1> QED BY <1>1, ContentInvariance, PTL

\* Whatever captures were cut, and however contents were written meanwhile, every
\* object that a checkpoint of any session names is in the store.
CheckpointsAreComplete ==
    \A c \in Ids : ~FreeId(c) =>
        \A p \in Paths :
            snapshot[c].tree[p] # Absent => object[snapshot[c].tree[p]] # Missing

THEOREM RestoresFindEveryObject ==
    ASSUME ~ReadErrors
    PROVE  Spec => []CheckpointsAreComplete
<1>1. ContentInv => CheckpointsAreComplete
  BY DEF ContentInv, WholeInv, Whole, Kept, CheckpointsAreComplete
<1> QED BY <1>1, ContentInvariance, PTL

-----------------------------------------------------------------------------
(* The order of messages.                                                  *)

\* The lists of messages there are, live or in a checkpoint.
Histories ==
    {history[s] : s \in Sessions} \cup {snapshot[c].history : c \in {d \in Ids : ~FreeId(d)}}

\* No two messages stand one way in g and the other way in h.
Agree(g, h) ==
    \A i, j \in DOMAIN g : \A k, l \in DOMAIN h :
        i < j /\ k < l => ~(g[i] = h[l] /\ g[j] = h[k])

OrderInv == \A g, h \in Histories : Agree(g, h)

\* What a handler may make of the lists: nothing, an old one again, an empty one, an old
\* one without a message, or an old one with a message that is in no list.
Derived(h) ==
    \/ h \in Histories \cup {<<>>}
    \/ \E g \in Histories : \E m \in Elems(g) : h = Without(g, m)
    \/ \E g \in Histories, m \in Messages :
          h = Append(g, m) /\ \A f \in Histories : m \notin Elems(f)

LEMMA HistoriesType == ContentInv => Histories \subseteq Seq(Messages)
  BY DEF ContentInv, Histories, WholeInv, Whole

LEMMA AgreeSymmetric ==
    ASSUME NEW g, NEW h, Agree(g, h)
    PROVE  Agree(h, g)
  BY DEF Agree

LEMMA DistinctMessages ==
    ASSUME NEW h \in Seq(Messages), Agree(h, h), NEW i \in DOMAIN h, NEW j \in DOMAIN h,
           h[i] = h[j]
    PROVE  i = j
<1>1. i \in Nat /\ j \in Nat
  OBVIOUS
<1>2. ~(i < j) /\ ~(j < i)
  BY DEF Agree
<1> QED BY <1>1, <1>2

LEMMA AppendAgrees ==
    ASSUME NEW f \in Seq(Messages), NEW g \in Seq(Messages), NEW m,
           Agree(f, g), Agree(g, g), m \notin Elems(f), m \notin Elems(g)
    PROVE  Agree(f, Append(g, m)) /\ Agree(Append(g, m), Append(g, m))
<1> DEFINE h == Append(g, m)
           n == Len(g)
<1>1. n \in Nat /\ DOMAIN g = 1..n /\ DOMAIN h = 1..(n + 1)
      /\ (\A i \in 1..n : h[i] = g[i]) /\ h[n + 1] = m
  OBVIOUS
<1>2. (\A i \in DOMAIN f : f[i] # m) /\ (\A i \in DOMAIN g : g[i] # m)
  BY DEF Elems
<1> HIDE DEF h, n
<1>3. ASSUME NEW i \in DOMAIN f, NEW j \in DOMAIN f, NEW k \in DOMAIN h, NEW l \in DOMAIN h,
             i < j, k < l, f[i] = h[l], f[j] = h[k]
      PROVE  FALSE
  <2>1. l # n + 1
    BY <1>1, <1>2, <1>3
  <2>2. k \in 1..n /\ l \in 1..n
    BY <1>1, <1>3, <2>1
  <2> QED BY <1>1, <1>3, <2>2 DEF Agree
<1>4. ASSUME NEW i \in DOMAIN h, NEW j \in DOMAIN h, NEW k \in DOMAIN h, NEW l \in DOMAIN h,
             i < j, k < l, h[i] = h[l], h[j] = h[k]
      PROVE  FALSE
  <2>1. i \in 1..n /\ k \in 1..n
    BY <1>1, <1>4
  <2>2. l # n + 1 /\ j # n + 1
    BY <1>1, <1>2, <1>4, <2>1
  <2>3. l \in 1..n /\ j \in 1..n
    BY <1>1, <2>2
  <2> QED BY <1>1, <1>4, <2>1, <2>3 DEF Agree
<1>5. Agree(f, h) /\ Agree(h, h)
  BY <1>3, <1>4 DEF Agree
<1> QED BY <1>5 DEF h

LEMMA WithoutAgrees ==
    ASSUME NEW f \in Seq(Messages), NEW g \in Seq(Messages), NEW m \in Elems(g),
           Agree(f, g), Agree(g, g)
    PROVE  Agree(f, Without(g, m)) /\ Agree(Without(g, m), Without(g, m))
<1> DEFINE at == Position(g, m)
           e(i) == IF i < at THEN i ELSE i + 1
           h == Without(g, m)
<1>1. at \in DOMAIN g /\ DOMAIN g = 1..Len(g) /\ Len(g) \in Nat
  BY PositionIs
<1>2. DOMAIN h = 1..(Len(g) - 1) /\ \A i \in DOMAIN h : h[i] = g[e(i)]
  BY DEF Without
<1>3. \A i \in DOMAIN h : i \in Nat /\ e(i) \in DOMAIN g
  BY <1>1, <1>2
<1>4. \A i, j \in DOMAIN h : i < j => e(i) < e(j)
  BY <1>1, <1>3
<1> HIDE DEF at, e, h
<1>5. Agree(f, h)
  BY <1>2, <1>3, <1>4 DEF Agree
<1>6. Agree(h, h)
  BY <1>2, <1>3, <1>4 DEF Agree
<1> QED BY <1>5, <1>6 DEF h

LEMMA DerivedAgrees ==
    ASSUME ContentInv, OrderInv, NEW h, Derived(h), NEW f \in Histories
    PROVE  Agree(f, h) /\ Agree(h, h)
<1>1. Histories \subseteq Seq(Messages)
  BY HistoriesType
<1>2. CASE h \in Histories
  BY <1>2 DEF OrderInv
<1>3. CASE h = <<>>
  BY <1>3 DEF Agree
<1>4. CASE \E g \in Histories : \E m \in Elems(g) : h = Without(g, m)
  BY <1>1, <1>4, WithoutAgrees DEF OrderInv
<1>5. CASE \E g \in Histories, m \in Messages :
              h = Append(g, m) /\ \A d \in Histories : m \notin Elems(d)
  BY <1>1, <1>5, AppendAgrees DEF OrderInv
<1> QED BY <1>2, <1>3, <1>4, <1>5 DEF Derived

\* Every handler derives one list and gives it to sessions and checkpoints.
Derives == \E h : Derived(h) /\ Histories' \subseteq Histories \cup {h}

LEMMA DerivesOrder == ContentInv /\ OrderInv /\ Derives => OrderInv'
<1> SUFFICES ASSUME ContentInv, OrderInv, NEW h, Derived(h),
                    Histories' \subseteq Histories \cup {h}
             PROVE  OrderInv'
  BY DEF Derives
<1>1. ASSUME NEW f \in Histories \cup {h}, NEW g \in Histories \cup {h}
      PROVE  Agree(f, g)
  <2>1. CASE f \in Histories /\ g \in Histories
    BY <2>1 DEF OrderInv
  <2>2. CASE f \in Histories /\ g = h
    BY <2>2, DerivedAgrees
  <2>3. CASE f = h /\ g \in Histories
    BY <2>3, DerivedAgrees, AgreeSymmetric
  <2>4. CASE f = h /\ g = h /\ Histories # {}
    BY <2>4, DerivedAgrees
  <2>5. Histories # {}
    BY ConstantsAssumption DEF Histories
  <2> QED BY <2>1, <2>2, <2>3, <2>4, <2>5
<1> QED BY <1>1 DEF OrderInv, Agree, Histories

\* Checkpoints, unless they go, get no list but h, and neither do sessions.
LEMMA HandsOut ==
    ASSUME NEW h, Derived(h),
           \A c \in Ids : snapshot'[c] \in {snapshot[c], NoSnapshot} \/ snapshot'[c].history = h,
           \A s \in Sessions : history'[s] = history[s] \/ history'[s] = h
    PROVE  Derives
<1>1. ASSUME NEW s \in Sessions PROVE history'[s] \in Histories \cup {h}
  BY DEF Histories
<1>2. ASSUME NEW c \in Ids, snapshot'[c] # NoSnapshot
      PROVE  snapshot'[c].history \in Histories \cup {h}
  <2>1. CASE snapshot'[c] = snapshot[c]
    <3>1. c \in {d \in Ids : ~FreeId(d)}
      BY <1>2, <2>1 DEF FreeId
    <3> QED BY <2>1, <3>1 DEF Histories
  <2>2. CASE snapshot'[c].history = h
    BY <2>2
  <2> QED BY <1>2, <2>1, <2>2
<1>3. Histories' \subseteq Histories \cup {h}
  BY <1>1, <1>2 DEF Histories, FreeId
<1> QED BY <1>3 DEF Derives

LEMMA CaptureHandsOut ==
    ASSUME Inv, NEW s, NEW t, NEW sc, NEW h, NEW files, NEW store, NEW auto,
           Capture(s, t, sc, h, files, store, auto)
    PROVE  \A c \in Ids : snapshot'[c] = snapshot[c] \/ snapshot'[c].history = h
<1>1. CASE UNCHANGED log
  BY <1>1 DEF log
<1>2. ASSUME NEW old, NEW parent, NEW c \in Ids, NEW done,
             WriteSnapshot(s, old, SnapshotOf(s, parent, t, sc, h, TreeOf(store, files)), c, done)
      PROVE  \A d \in Ids : snapshot'[d] = snapshot[d] \/ snapshot'[d].history = h
  <2>1. SnapshotOf(s, parent, t, sc, h, TreeOf(store, files)).history = h
    BY DEF SnapshotOf
  <2> QED BY <1>2, <2>1 DEF WriteSnapshot, Inv, ChainType
<1> QED BY <1>1, <1>2 DEF Capture

LEMMA SessionsHave ==
    ASSUME ContentInv, NEW s \in Sessions, NEW h,
           history' \in {history, [history EXCEPT ![s] = h]}
    PROVE  \A q \in Sessions : history'[q] = history[q] \/ history'[q] = h
  BY DEF ContentInv

LEMMA LiveIsDerived == \A s \in Sessions : Derived(history[s])
  BY DEF Derived, Histories

LEMMA KeptIsDerived == \A c \in Ids : ~FreeId(c) => Derived(snapshot[c].history)
  BY DEF Derived, Histories

LEMMA CaptureDerives ==
    ASSUME ContentInv, Inv, NEW s \in Sessions, NEW t, NEW sc, NEW h, NEW files, NEW store,
           NEW auto, Derived(h), Capture(s, t, sc, h, files, store, auto),
           history' \in {history, [history EXCEPT ![s] = h]}
    PROVE  Derives
<1>1. \A c \in Ids : snapshot'[c] = snapshot[c] \/ snapshot'[c].history = h
  BY CaptureHandsOut
<1>2. \A q \in Sessions : history'[q] = history[q] \/ history'[q] = h
  BY SessionsHave
<1> QED BY <1>1, <1>2, HandsOut

LEMMA SaveHistoryDerives ==
    ASSUME ContentInv, Inv, NEW s \in Sessions, NEW h, Derived(h), SaveHistory(s, h)
    PROVE  Derives
  BY CaptureDerives DEF SaveHistory

LEMMA MessagesDerive ==
    ASSUME ContentInv, Inv, NEW s \in Sessions, NEW m \in Messages,
           AppendMessage(s, m) \/ DeleteMessage(s, m) \/ CompleteTurn(s)
    PROVE  Derives
<1>1. history[s] \in Histories
  BY DEF Histories
<1>2. CASE AppendMessage(s, m)
  <2>1. \A f \in Histories : m \notin Elems(f)
    BY <1>2 DEF AppendMessage, FreshMessage, Histories
  <2>2. Derived(Append(history[s], m))
    BY <1>1, <2>1 DEF Derived
  <2> QED BY <1>2, <2>2, SaveHistoryDerives DEF AppendMessage
<1>3. CASE DeleteMessage(s, m)
  <2>1. Derived(Without(history[s], m))
    BY <1>1, <1>3 DEF Derived, DeleteMessage
  <2> QED BY <1>3, <2>1, SaveHistoryDerives DEF DeleteMessage
<1>4. CASE CompleteTurn(s)
  BY <1>4, LiveIsDerived, SaveHistoryDerives DEF CompleteTurn
<1> QED BY <1>2, <1>3, <1>4

\* A capture of the session's list as it is.
LEMMA UnchangedDerives ==
    ASSUME ContentInv, Inv, NEW s \in Sessions, NEW t, NEW sc, NEW files, NEW store, NEW auto,
           Capture(s, t, sc, history[s], files, store, auto), UNCHANGED history
    PROVE  Derives
  BY CaptureHandsOut, LiveIsDerived, HandsOut

LEMMA NothingDerives ==
    ASSUME UNCHANGED <<history, log>>
    PROVE  Derives
  BY LiveIsDerived, HandsOut, ConstantsAssumption DEF log

LEMMA CreateDerives ==
    ASSUME ContentInv, Inv, NEW s \in Sessions, NEW t, NEW sc, Create(s, t, sc) \/ Update(s, t, sc)
    PROVE  Derives
<1>1. CASE Create(s, t, sc)
  <2>1. Derived(<<>>)
    BY DEF Derived
  <2>2. history' \in {history, [history EXCEPT ![s] = <<>>]}
        /\ Capture(s, t, sc, <<>>, file[s], object, FALSE)
    BY <1>1 DEF Create
  <2> QED BY <2>1, <2>2, CaptureDerives
<1>2. CASE Update(s, t, sc)
  BY <1>2, UnchangedDerives DEF Update
<1> QED BY <1>1, <1>2

LEMMA FilesDerive ==
    ASSUME ContentInv, Inv, NEW s \in Sessions, NEW files, NEW store,
           CaptureFiles(s, files, store)
    PROVE  Derives
  BY UnchangedDerives DEF CaptureFiles

LEMMA RollbackDerives ==
    ASSUME ContentInv, Inv, NEW s \in Sessions, NEW c, Rollback(s, c)
    PROVE  Derives
<1> DEFINE h == snapshot[c].history
           files == Restored(object, snapshot[c].tree)
<1>1. Derived(h)
  BY ChainedIsWhole, KeptIsDerived DEF Rollback
<1>2. CASE UNCHANGED <<history, log>>
  BY <1>2, NothingDerives
<1>3. CASE /\ history' = [history EXCEPT ![s] = h]
           /\ Capture(s, RestoredTitle(c), RestoredScenario(c), h, files, object, FALSE)
  <2> HIDE DEF h, files
  <2> QED BY <1>1, <1>3, CaptureDerives
<1> QED BY <1>2, <1>3 DEF Rollback

LEMMA CopyToDerives ==
    ASSUME ContentInv, Inv, NEW n \in Sessions, NEW t, NEW h, NEW tree, NEW store, Derived(h),
           CopyTo(n, t, h, tree, store)
    PROVE  Derives
<1>1. history' = [history EXCEPT ![n] = h]
  BY DEF CopyTo
<1>2. \A q \in Sessions : history'[q] = history[q] \/ history'[q] = h
  BY <1>1, SessionsHave
<1>3. CASE UNCHANGED log
  BY <1>2, <1>3, HandsOut DEF log
<1>4. ASSUME NEW first, first.history = h, NEW c \in Ids, NEW done,
             WriteSnapshot(n, <<>>, first, c, done)
      PROVE  Derives
  <2>1. \A d \in Ids : snapshot'[d] = snapshot[d] \/ snapshot'[d].history = h
    BY <1>4 DEF WriteSnapshot, Inv, ChainType
  <2> QED BY <1>2, <2>1, HandsOut
<1> QED BY <1>3, <1>4 DEF CopyTo

LEMMA CloneDerives ==
    ASSUME ContentInv, Inv, NEW s \in Sessions, NEW n \in Sessions,
           CloneNow(s, n) \/ \E c : CloneCheckpoint(s, c, n)
    PROVE  Derives
<1>1. CASE CloneNow(s, n)
  BY <1>1, LiveIsDerived, CopyToDerives DEF CloneNow
<1>2. ASSUME NEW c, CloneCheckpoint(s, c, n) PROVE Derives
  <2>1. Derived(snapshot[c].history)
    BY <1>2, ChainedIsWhole, KeptIsDerived DEF CloneCheckpoint
  <2> QED BY <1>2, <2>1, CopyToDerives DEF CloneCheckpoint
<1> QED BY <1>1, <1>2

\* A deletion leaves the session an empty list and takes its checkpoints away.
LEMMA DeleteSessionDerives ==
    ASSUME ContentInv, Inv, NEW s \in Sessions, DeleteSession(s)
    PROVE  Derives
<1>1. Derived(<<>>)
  BY DEF Derived
<1>2. \A c \in Ids : snapshot'[c] \in {snapshot[c], NoSnapshot}
  BY DEF DeleteSession, ForgetCheckpoints
<1>3. \A q \in Sessions : history'[q] = history[q] \/ history'[q] = <<>>
  BY DEF DeleteSession, ContentInv
<1> QED BY <1>1, <1>2, <1>3, HandsOut

LEMMA NextDerives == ContentInv /\ Inv /\ [Next]_vars => Derives
<1> SUFFICES ASSUME ContentInv, Inv, [Next]_vars PROVE Derives
  OBVIOUS
<1>1. CASE UNCHANGED vars
  BY <1>1, NothingDerives DEF vars, live
<1>2. ASSUME NEW s \in Sessions, NEW t \in Titles, NEW sc \in Scenarios,
             Create(s, t, sc) \/ Update(s, t, sc)
      PROVE  Derives
  BY <1>2, CreateDerives
<1>3. ASSUME NEW s \in Sessions, NEW m \in Messages,
             AppendMessage(s, m) \/ DeleteMessage(s, m) \/ RollbackToMessage(s, m)
      PROVE  Derives
  BY <1>3, MessagesDerive, RollbackDerives DEF RollbackToMessage
<1>4. ASSUME NEW s \in Sessions, CompleteTurn(s) \/ TakeSnapshot(s) \/ DeleteSession(s)
      PROVE  Derives
  <2>1. CASE CompleteTurn(s)
    BY <2>1, LiveIsDerived, SaveHistoryDerives DEF CompleteTurn
  <2>2. CASE TakeSnapshot(s)
    BY <2>2, UnchangedDerives DEF TakeSnapshot, live
  <2> QED BY <1>4, <2>1, <2>2, DeleteSessionDerives
<1>5. ASSUME NEW s \in Sessions, NEW p \in Paths,
             \/ DeleteFile(s, p) \/ BeginUpload(s, p)
             \/ \E b \in Contents : WriteFile(s, p, b)
             \/ \E q \in Paths : RenameFile(s, p, q)
      PROVE  Derives
  <2>1. CASE BeginUpload(s, p)
    BY <2>1, NothingDerives DEF BeginUpload
  <2> QED BY <1>5, <2>1, FilesDerive DEF DeleteFile, WriteFile, RenameFile
<1>6. ASSUME NEW s \in Sessions,
             (\E b \in Contents : EndUpload(s, b)) \/ UploadFails(s) \/ UploadStops(s)
      PROVE  Derives
  <2>1. CASE \E b \in Contents : EndUpload(s, b)
    BY <2>1, FilesDerive, NothingDerives DEF EndUpload
  <2>2. CASE UploadFails(s) \/ UploadStops(s)
    BY <2>2, NothingDerives DEF UploadFails, UploadStops
  <2> QED BY <1>6, <2>1, <2>2
<1>7. ASSUME NEW s \in Sessions, NEW c \in Ids, Rollback(s, c)
      PROVE  Derives
  BY <1>7, RollbackDerives
<1>8. ASSUME NEW s \in Sessions, NEW n \in Sessions,
             \/ CloneNow(s, n)
             \/ \E c \in Ids : CloneCheckpoint(s, c, n)
             \/ \E m \in Messages : CloneMessage(s, m, n)
      PROVE  Derives
  BY <1>8, CloneDerives DEF CloneMessage
<1> QED BY <1>1, <1>2, <1>3, <1>4, <1>5, <1>6, <1>7, <1>8 DEF Next

LEMMA OrderInit == Init => OrderInv
  BY DEF Init, OrderInv, Agree, Histories, FreeId

LEMMA OrderInvariance ==
    ASSUME ~ReadErrors
    PROVE  Spec => [](Inv /\ ContentInv /\ OrderInv)
<1>1. Inv /\ ContentInv /\ OrderInv /\ [Next]_vars => OrderInv'
  BY NextDerives, DerivesOrder
<1> QED BY <1>1, OrderInit, ContentInvariance, PTL DEF Spec

-----------------------------------------------------------------------------
(* Message targets.                                                        *)

Less == {pair \in Nat \X Nat : pair[1] < pair[2]}

LEMMA LessIsWellFounded == IsWellFoundedOn(Less, Nat)
  BY NatLessThanWellFounded DEF OpToRel, Less

LEMMA GreatestExists ==
    ASSUME NEW n \in Nat, NEW S, S \subseteq 1..n, S # {}
    PROVE  \E i \in S : \A j \in S : j <= i
<1> DEFINE U == {k \in Nat : n - k \in S}
<1>1. U # {}
  <2>1. PICK i \in S : TRUE
    OBVIOUS
  <2>2. i \in 1..n
    OBVIOUS
  <2>3. n - i \in Nat /\ n - (n - i) = i
    BY <2>2
  <2> QED BY <2>1, <2>3
<1>2. PICK k \in U : \A u \in U : ~(<<u, k>> \in Less)
  <2>1. U \subseteq Nat
    OBVIOUS
  <2> HIDE DEF U
  <2> QED BY <1>1, <2>1, LessIsWellFounded, WFMin
<1>3. ASSUME NEW j \in S PROVE j <= n - k
  <2>1. j \in Nat /\ j <= n /\ n - j \in Nat /\ n - (n - j) = j
    OBVIOUS
  <2>2. n - j \in U
    BY <2>1
  <2>3. ~(n - j < k)
    BY <2>1, <2>2, <1>2 DEF Less
  <2> QED BY <2>1, <2>3
<1> QED BY <1>3

\* The checkpoint found for a message ends with a message that stands at or before it.
LEMMA TargetEndsBefore ==
    ASSUME Inv, ContentInv, NEW s \in Sessions, NEW m \in Elems(history[s]),
           NEW c \in CheckpointFor(s, m)
    PROVE  /\ c \in Elems(chain[s])
           /\ snapshot[c].history # <<>>
           /\ \E i \in 1..Position(history[s], m) : Last(snapshot[c].history) = history[s][i]
<1> DEFINE before(i) == EndingIn(s, {history[s][i]})
<1>1. PICK i \in 1..Position(history[s], m) : before(i) # {} /\ c = chain[s][Latest(before(i))]
  BY DEF CheckpointFor
<1>2. chain[s] \in Seq(Ids)
  BY DEF Inv, ChainType
<1>3. before(i) \subseteq 1..Len(chain[s]) /\ Len(chain[s]) \in Nat
  BY <1>2 DEF EndingIn
<1>4. Latest(before(i)) \in before(i)
  <2> HIDE DEF before
  <2>1. \E k \in before(i) : \A j \in before(i) : j <= k
    BY <1>1, <1>3, GreatestExists
  <2> QED BY <2>1 DEF Latest
<1> QED BY <1>1, <1>4 DEF EndingIn, Elems

LEMMA TargetsNotLater == Inv /\ ContentInv /\ OrderInv => MessageTargetNotLater
<1> SUFFICES ASSUME Inv, ContentInv, OrderInv, NEW s \in exists, NEW m \in Elems(history[s]),
                    NEW c \in CheckpointFor(s, m), NEW i \in DOMAIN history[s],
                    i > Position(history[s], m),
                    history[s][i] \in Elems(snapshot[c].history)
             PROVE  FALSE
  BY DEF MessageTargetNotLater
<1> DEFINE g == history[s]
           h == snapshot[c].history
<1>1. s \in Sessions
  BY DEF ContentInv
<1>2. g \in Seq(Messages) /\ Position(g, m) \in DOMAIN g
  BY <1>1, PositionIs DEF ContentInv
<1>3. PICK at \in 1..Position(g, m) : Last(h) = g[at]
  BY <1>1, TargetEndsBefore
<1>4. c \in Ids /\ ~FreeId(c) /\ h \in Seq(Messages) /\ h # <<>>
  BY <1>1, TargetEndsBefore, ChainedIsWhole DEF Whole
<1>5. Agree(g, h) /\ Agree(g, g)
  BY <1>1, <1>4 DEF OrderInv, Histories
<1>6. PICK k \in DOMAIN h : h[k] = g[i]
  BY DEF Elems
<1> HIDE DEF g, h
<1>7. at \in DOMAIN g /\ at < i /\ i \in DOMAIN g
  BY <1>2 DEF g
<1>8. Len(h) \in DOMAIN h /\ h[Len(h)] = g[at]
  BY <1>3, <1>4 DEF Last
<1>9. CASE k = Len(h)
  <2>1. g[at] = g[i]
    BY <1>6, <1>8, <1>9
  <2>2. at = i
    BY <1>2, <1>5, <1>7, <2>1, DistinctMessages
  <2> QED BY <1>7, <2>2
<1>10. CASE k # Len(h)
  <2>1. k < Len(h)
    BY <1>4, <1>6, <1>10
  <2> QED BY <1>5, <1>6, <1>7, <1>8, <2>1 DEF Agree
<1> QED BY <1>9, <1>10

\* Rolling back or cloning at a message never brings a message that stands after it:
\* lists never disagree about the order of two messages.
THEOREM MessageTargetsAreNotLater ==
    ASSUME ~ReadErrors
    PROVE  Spec => []MessageTargetNotLater
  BY OrderInvariance, TargetsNotLater, PTL

-----------------------------------------------------------------------------
(* Objects hold the bytes they are named for, and no file shares one.      *)

Exact(store) == \A b \in Bytes : store[b] \in {b, Missing}

NoLinks(files) == \A p \in Paths : ~Linked(files[p])

CopyInv == Exact(object) /\ (upload # NoUpload => upload.onto = Absent)

LEMMA FilesAreCopies ==
    ASSUME ~HardLinks, NEW files \in Files
    PROVE  NoLinks(files)
  BY FileIs DEF Files, File, NoLinks, Linked, Own

LEMMA TreeOfCopies ==
    ASSUME ~HardLinks, NEW files \in Files, NEW old, NEW new
    PROVE  TreeOf(old, files) = TreeOf(new, files)
  BY FilesAreCopies DEF NoLinks, Linked, TreeOf, Read

LEMMA ContentIsTree ==
    ASSUME ~HardLinks, NEW store, NEW tree \in Tree, Exact(store), Kept(tree, store)
    PROVE  Content(store, tree) = tree
<1>1. ASSUME NEW p \in Paths PROVE Read(store, Materialize(store, tree[p])) = tree[p]
  <2>1. CASE tree[p] = Absent
    BY <2>1 DEF Materialize, Read
  <2>2. CASE tree[p] # Absent
    <3>1. tree[p] \in Bytes /\ store[tree[p]] = tree[p]
      BY <2>2 DEF Tree, Exact, Kept
    <3>2. Materialize(store, tree[p]) = Own(tree[p])
      BY <2>2, <3>1 DEF Materialize
    <3>3. Own(tree[p]) # Absent
      BY <3>1, AbsentAssumption DEF File
    <3> QED BY <3>2, <3>3 DEF Read, Own
  <2> QED BY <2>1, <2>2
<1>2. Content(store, tree) = [p \in Paths |-> Read(store, Materialize(store, tree[p]))]
  BY DEF Content, TreeOf, Restored
<1> QED BY <1>1, <1>2 DEF Tree

LEMMA ExactStore ==
    ASSUME NEW store \in Store, NEW tree, Exact(store)
    PROVE  Exact(StoreAll(store, tree))
  BY DEF Exact, StoreAll

LEMMA PartlyExact ==
    ASSUME ~TornWrites, NEW store, NEW tree, NEW new \in PartlyStored(store, tree), Exact(store)
    PROVE  Exact(new)
  BY DEF Exact, PartlyStored

\* A handler changes one session and records, in the same step, the state it leaves it in,
\* or records nothing, or deletes the session.
RecordsIts(s) ==
    \/ UNCHANGED log
    \/ \E c \in Ids, done \in 1..3 : \E full :
          /\ WriteSnapshot(s, chain[s], full, c, done)
          /\ full.session = s
          /\ full.history = history'[s]
          /\ full.tree = TreeOf(object', file'[s])
          /\ full.tree \in Tree
          /\ Kept(full.tree, object')

Others(s) == \A q \in Sessions \ {s} : history'[q] = history[q] /\ file'[q] = file[q]

LogStep ==
    Exact(object') /\ \E s \in Sessions : Others(s) /\ (RecordsIts(s) \/ DeleteSession(s))

LEMMA CaptureRecords ==
    ASSUME ~HardLinks, ~TornWrites, ~ReadErrors, ContentInv, NEW s \in Sessions, NEW t, NEW sc, NEW h,
           NEW files \in Files, NEW store \in Store, Exact(store), NEW auto,
           Capture(s, t, sc, h, files, store, auto), history'[s] = h, file'[s] = files
    PROVE  Exact(object') /\ RecordsIts(s)
<1> DEFINE tree == TreeOf(store, files)
           full(parent) == SnapshotOf(s, parent, t, sc, h, tree)
<1>1. LinksHold(files, store)
  BY FilesAreCopies DEF LinksHold, NoLinks
<1>2. tree \in Tree /\ tree = TreeOf(object', files)
  BY <1>1, TreeOfType, TreeOfCopies
<1>3. CASE object' \in PartlyStored(store, tree) /\ UNCHANGED log
  BY <1>3, PartlyExact DEF RecordsIts
<1>4. CASE object' = StoreAll(store, tree) /\ UNCHANGED log
  BY <1>4, ExactStore DEF RecordsIts
<1>5. ASSUME NEW parent, NEW c \in Ids, NEW done \in 1..3,
             object' = StoreAll(store, tree), WriteSnapshot(s, chain[s], full(parent), c, done)
      PROVE  Exact(object') /\ RecordsIts(s)
  <2>1. full(parent).session = s /\ full(parent).history = h /\ full(parent).tree = tree
    BY DEF SnapshotOf
  <2> HIDE DEF tree, full
  <2>2. Exact(object') /\ Kept(tree, object')
    BY <1>2, <1>5, ExactStore, StoreAllKeeps
  <2> QED BY <1>2, <1>5, <2>1, <2>2 DEF RecordsIts
<1>6. ChainRead(s) = {chain[s]}
  BY DEF ChainRead
<1> QED BY <1>3, <1>4, <1>5, <1>6 DEF Capture

LEMMA SaveHistoryRecords ==
    ASSUME ~HardLinks, ~TornWrites, ~ReadErrors, ContentInv, CopyInv, NEW s \in Sessions, NEW h,
           SaveHistory(s, h)
    PROVE  LogStep
<1>1. file'[s] \in Files /\ file'[s] = file[s] /\ object \in Store /\ Exact(object)
  BY DEF ContentInv, CopyInv, SaveHistory
<1>2. history'[s] = h /\ Others(s)
  BY DEF SaveHistory, ContentInv, Others
<1>3. Capture(s, title[s], scenario[s], h, file[s], object, TRUE)
  BY DEF SaveHistory
<1> QED BY <1>1, <1>2, <1>3, CaptureRecords DEF LogStep

LEMMA CreateRecords ==
    ASSUME ~HardLinks, ~TornWrites, ~ReadErrors, ContentInv, CopyInv, NEW s \in Sessions, NEW t, NEW sc,
           Create(s, t, sc) \/ Update(s, t, sc)
    PROVE  LogStep
<1>1. file'[s] \in Files /\ file'[s] = file[s] /\ object \in Store /\ Exact(object)
  BY DEF ContentInv, CopyInv, Create, Update
<1>2. Others(s) /\ Capture(s, t, sc, history'[s], file[s], object, FALSE)
  BY DEF Create, Update, ContentInv, Others
<1> QED BY <1>1, <1>2, CaptureRecords DEF LogStep

LEMMA FilesRecord ==
    ASSUME ~HardLinks, ~TornWrites, ~ReadErrors, ContentInv, CopyInv, NEW s \in Sessions,
           NEW files \in Files, CaptureFiles(s, files, object)
    PROVE  LogStep
<1>1. file'[s] = files /\ object \in Store /\ Exact(object)
  BY DEF ContentInv, CopyInv, CaptureFiles
<1>2. Others(s) /\ Capture(s, title[s], scenario[s], history'[s], files, object, FALSE)
  BY DEF CaptureFiles, ContentInv, Others
<1> QED BY <1>1, <1>2, CaptureRecords DEF LogStep

LEMMA NotLinked ==
    ASSUME ~HardLinks, ContentInv, NEW s \in Sessions, NEW p \in Paths, NEW b
    PROVE  ~Linked(file[s][p]) /\ StoreInPlace(file[s][p], b) = object
<1>1. NoLinks(file[s])
  BY FilesAreCopies DEF ContentInv
<1> QED BY <1>1 DEF NoLinks, StoreInPlace

\* The file of an upload moves, and shares what it shared.
Moves == upload' # NoUpload => upload # NoUpload /\ upload'.onto = upload.onto

LEMMA MovedIs ==
    ASSUME ContentInv, NEW s \in Sessions, NEW at, upload.session = s,
           upload' = [upload EXCEPT !.at = at]
    PROVE  Moves
<1>1. upload # NoUpload
  BY ConstantsAssumption DEF NoUpload
<1> QED BY <1>1 DEF ContentInv, UploadOK, Moves

LEMMA UnlinkedMoves ==
    ASSUME ContentInv, NEW s \in Sessions, NEW ps, upload' = Unlinked(s, ps)
    PROVE  Moves
<1>1. CASE upload' = upload
  BY <1>1 DEF Moves
<1>2. CASE upload.session = s /\ upload' = [upload EXCEPT !.at = Absent]
  BY <1>2, MovedIs
<1> QED BY <1>1, <1>2 DEF Unlinked

LEMMA FileHandlersRecord ==
    ASSUME ~HardLinks, ~TornWrites, ~ReadErrors, ContentInv, CopyInv, NEW s \in Sessions, NEW p \in Paths,
           \/ DeleteFile(s, p)
           \/ \E b \in Contents : WriteFile(s, p, b)
           \/ \E q \in Paths : RenameFile(s, p, q)
    PROVE  LogStep /\ CopyInv'
<1>1. file[s] \in Files
  BY DEF ContentInv
<1>2. Moves
  <2>1. \/ upload' = upload
        \/ \E ps : upload' = Unlinked(s, ps)
        \/ upload.session = s /\ \E q : upload' = [upload EXCEPT !.at = q]
    BY DEF DeleteFile, WriteFile, RenameFile
  <2> QED BY <2>1, UnlinkedMoves, MovedIs DEF Moves
<1>3. CASE DeleteFile(s, p)
  <2>1. [file[s] EXCEPT ![p] = Absent] \in Files
    BY <1>1 DEF Files
  <2> QED BY <1>2, <1>3, <2>1, FilesRecord DEF DeleteFile, CopyInv, LogStep, Moves
<1>4. ASSUME NEW b \in Contents, WriteFile(s, p, b) PROVE LogStep /\ CopyInv'
  <2>1. b \in Bytes
    BY DEF Bytes
  <2>2. InPlace(s, p, b) \in Files /\ CaptureFiles(s, InPlace(s, p, b), object)
    BY <1>4, <2>1, InPlaceKeeps, NotLinked DEF WriteFile
  <2> QED BY <1>2, <2>2, FilesRecord DEF CopyInv, LogStep, Moves
<1>5. ASSUME NEW q \in Paths, RenameFile(s, p, q) PROVE LogStep /\ CopyInv'
  <2>1. Renamed(s, p, q) \in Files
    BY <1>1 DEF Renamed, Files
  <2> QED BY <1>2, <1>5, <2>1, FilesRecord DEF RenameFile, CopyInv, LogStep, Moves
<1> QED BY <1>3, <1>4, <1>5

LEMMA UploadRecords ==
    ASSUME ~HardLinks, ~TornWrites, ~ReadErrors, ContentInv, CopyInv, NEW s \in Sessions,
           \/ \E p \in Paths : BeginUpload(s, p)
           \/ \E b \in Contents : EndUpload(s, b)
           \/ UploadFails(s) \/ UploadStops(s)
    PROVE  LogStep /\ CopyInv'
<1>1. file[s] \in Files /\ object \in Store /\ Exact(object)
  BY DEF ContentInv, CopyInv
<1>2. ASSUME NEW p \in Paths, BeginUpload(s, p) PROVE LogStep /\ CopyInv'
  <2>1. object' = object /\ upload'.onto = Absent /\ UNCHANGED log
    BY <1>2, NotLinked DEF BeginUpload, log
  <2>2. Others(s)
    BY <1>2 DEF BeginUpload, ContentInv, Others
  <2> QED BY <1>1, <2>1, <2>2 DEF LogStep, RecordsIts, CopyInv
<1>3. ASSUME NEW b \in Contents, EndUpload(s, b) PROVE LogStep /\ CopyInv'
  <2>1. upload # NoUpload
    BY <1>3, ConstantsAssumption DEF EndUpload, NoUpload
  <2>2. upload.onto = Absent /\ upload' = NoUpload
    BY <1>3, <2>1 DEF CopyInv, EndUpload
  <2>3. PICK got \in {b, Torn} :
           \/ CaptureFiles(s, IF upload.at # Absent THEN [file[s] EXCEPT ![upload.at] = Own(got)]
                              ELSE file[s], object)
           \/ object' = object /\ UNCHANGED <<history, file, log>>
    BY <1>3, <2>2 DEF EndUpload
  <2>4. (IF upload.at # Absent THEN [file[s] EXCEPT ![upload.at] = Own(got)] ELSE file[s])
            \in Files
    BY <1>1 DEF Files, File, Bytes
  <2>5. CASE object' = object /\ UNCHANGED <<history, file, log>>
    BY <1>1, <2>2, <2>5 DEF LogStep, Others, RecordsIts, CopyInv
  <2>6. CASE ~(object' = object /\ UNCHANGED <<history, file, log>>)
    BY <2>2, <2>3, <2>4, <2>6, FilesRecord DEF CopyInv, LogStep
  <2> QED BY <2>5, <2>6
<1>4. CASE UploadFails(s) \/ UploadStops(s)
  <2>1. object' = object /\ upload' = NoUpload /\ UNCHANGED log
    BY <1>4 DEF UploadFails, UploadStops, log
  <2>2. Others(s)
    BY <1>4 DEF UploadFails, UploadStops, ContentInv, Others
  <2> QED BY <1>1, <2>1, <2>2 DEF LogStep, RecordsIts, CopyInv
<1> QED BY <1>2, <1>3, <1>4

LEMMA RollbackRecords ==
    ASSUME ~HardLinks, ~TornWrites, ~ReadErrors, Inv, ContentInv, CopyInv, NEW s \in Sessions, NEW c,
           Rollback(s, c)
    PROVE  LogStep /\ CopyInv'
<1> DEFINE h == snapshot[c].history
           files == Restored(object, snapshot[c].tree)
<1>1. Whole(snapshot[c], object)
  BY ChainedIsWhole DEF Rollback
<1>2. object \in Store /\ Exact(object)
  BY DEF ContentInv, CopyInv
<1>3. files \in Files
  BY <1>1, <1>2, RestoredFiles DEF Whole
<1>4. Moves
  BY UnlinkedMoves DEF Rollback
<1>5. CASE /\ file' = [file EXCEPT ![s] = files]
           /\ history' = [history EXCEPT ![s] = h]
           /\ Capture(s, RestoredTitle(c), RestoredScenario(c), h, files, object, FALSE)
  <2> HIDE DEF h, files
  <2>1. file'[s] = files /\ history'[s] = h /\ Others(s)
    BY <1>5 DEF ContentInv, Others
  <2>2. Exact(object') /\ RecordsIts(s)
    BY <1>2, <1>3, <1>5, <2>1, CaptureRecords
  <2> QED BY <1>4, <2>1, <2>2 DEF LogStep, CopyInv, Moves
<1>6. CASE /\ \E partly \in PartlyRestored(files) : file' = [file EXCEPT ![s] = partly]
           /\ UNCHANGED <<history, object, log>>
  <2>1. Others(s)
    BY <1>6 DEF ContentInv, Others
  <2> QED BY <1>2, <1>4, <1>6, <2>1 DEF LogStep, CopyInv, RecordsIts, Moves
<1> QED BY <1>5, <1>6 DEF Rollback

LEMMA CopyRecords ==
    ASSUME ~HardLinks, ~TornWrites, ~ReadErrors, Inv, ContentInv, CopyInv,
           NEW n \in Sessions, NEW t, NEW h,
           NEW tree \in Tree, NEW store \in Store, Kept(tree, store), Exact(store),
           CopyTo(n, t, h, tree, store)
    PROVE  LogStep /\ CopyInv'
<1> DEFINE read == [p \in Paths |-> IF tree[p] = Absent THEN Absent ELSE store[tree[p]]]
           again == StoreAll(store, read)
           files == Restored(again, tree)
           first == [session |-> n, parent |-> NoId, title |-> t, history |-> h, tree |-> tree,
                     json |-> [title |-> ForkOf[t], scenario |-> NoScenario]]
<1>1. object' = again /\ history' = [history EXCEPT ![n] = h] /\ UNCHANGED upload
  BY DEF CopyTo
<1>2. read \in Tree
  BY DEF Tree, Store, Kept
<1>3. again \in Store /\ Grows(store, again) /\ Exact(again)
  BY <1>2, StoreAllKeeps, ExactStore
<1>4. Kept(tree, again)
  BY <1>3 DEF Kept, Grows, Tree
<1>5. TreeOf(again, files) = tree
  BY <1>3, <1>4, ContentIsTree DEF Content
<1>6. \/ /\ file' = [file EXCEPT ![n] = files]
         /\ \E c \in Ids, done \in 1..3 : WriteSnapshot(n, <<>>, first, c, done)
      \/ /\ \E partly \in PartlyRestored(files) : file' = [file EXCEPT ![n] = partly]
         /\ UNCHANGED log
  BY DEF CopyTo
<1>7. first.session = n /\ first.history = h /\ first.tree = tree
  OBVIOUS
<1> HIDE DEF read, again, files, first
<1>8. Others(n) /\ history'[n] = h
  BY <1>1, <1>6 DEF ContentInv, Others
<1>9. RecordsIts(n)
  <2>1. CASE UNCHANGED log
    BY <2>1 DEF RecordsIts
  <2>2. ASSUME file' = [file EXCEPT ![n] = files], NEW c \in Ids, NEW done \in 1..3,
               WriteSnapshot(n, <<>>, first, c, done)
        PROVE  RecordsIts(n)
    <3>1. file'[n] = files
      BY <2>2 DEF ContentInv
    <3>2. first.tree = TreeOf(object', file'[n]) /\ Kept(first.tree, object')
      BY <1>1, <1>4, <1>5, <1>7, <3>1
    <3>3. chain[n] = <<>>
      BY DEF Inv, NewHaveNone, CopyTo, NewSession
    <3> QED BY <1>7, <1>8, <2>2, <3>2, <3>3 DEF RecordsIts
  <2> QED BY <1>6, <2>1, <2>2
<1>10. CopyInv'
  BY <1>1, <1>3 DEF CopyInv
<1> QED BY <1>1, <1>3, <1>8, <1>9, <1>10 DEF LogStep

LEMMA DeletionRecords ==
    ASSUME ContentInv, CopyInv, NEW s \in Sessions, DeleteSession(s)
    PROVE  LogStep /\ CopyInv'
<1>1. Exact(object) /\ object' = object
  BY DEF CopyInv, DeleteSession
<1>2. Others(s)
  BY DEF DeleteSession, ContentInv, Others
<1>3. Moves
  BY UnlinkedMoves DEF DeleteSession
<1> QED BY <1>1, <1>2, <1>3 DEF LogStep, CopyInv, Moves

LEMMA NextRecords ==
    ASSUME ~HardLinks, ~TornWrites, ~ReadErrors, Inv, ContentInv, CopyInv, [Next]_vars
    PROVE  (UNCHANGED vars \/ LogStep) /\ CopyInv'
<1>1. CASE UNCHANGED vars
  BY <1>1 DEF vars, live, CopyInv
<1>2. ASSUME NEW s \in Sessions, NEW t \in Titles, NEW sc \in Scenarios,
             Create(s, t, sc) \/ Update(s, t, sc)
      PROVE  LogStep /\ CopyInv'
  BY <1>2, CreateRecords DEF CopyInv, LogStep, Create, Update
<1>3. ASSUME NEW s \in Sessions, NEW h, SaveHistory(s, h)
      PROVE  LogStep /\ CopyInv'
  BY <1>3, SaveHistoryRecords DEF CopyInv, LogStep, SaveHistory
<1>4. ASSUME NEW s \in Sessions, NEW m \in Messages,
             AppendMessage(s, m) \/ DeleteMessage(s, m) \/ RollbackToMessage(s, m)
      PROVE  LogStep /\ CopyInv'
  BY <1>3, <1>4, RollbackRecords DEF AppendMessage, DeleteMessage, RollbackToMessage
<1>5. ASSUME NEW s \in Sessions, CompleteTurn(s) \/ TakeSnapshot(s) \/ DeleteSession(s)
      PROVE  LogStep /\ CopyInv'
  <2>1. CASE CompleteTurn(s)
    BY <1>3, <2>1 DEF CompleteTurn
  <2>2. CASE TakeSnapshot(s)
    <3>1. file'[s] \in Files /\ file'[s] = file[s] /\ object \in Store /\ Exact(object)
      BY <2>2 DEF ContentInv, CopyInv, TakeSnapshot, live
    <3>2. Others(s) /\ Capture(s, title[s], scenario[s], history'[s], file[s], object, FALSE)
      BY <2>2 DEF TakeSnapshot, live, Others
    <3>3. LogStep
      BY <3>1, <3>2, CaptureRecords DEF LogStep
    <3> QED BY <2>2, <3>3 DEF CopyInv, LogStep, TakeSnapshot, live
  <2> QED BY <1>5, <2>1, <2>2, DeletionRecords
<1>6. ASSUME NEW s \in Sessions, NEW p \in Paths,
             \/ DeleteFile(s, p) \/ BeginUpload(s, p)
             \/ \E b \in Contents : WriteFile(s, p, b)
             \/ \E q \in Paths : RenameFile(s, p, q)
      PROVE  LogStep /\ CopyInv'
  BY <1>6, FileHandlersRecord, UploadRecords
<1>7. ASSUME NEW s \in Sessions,
             (\E b \in Contents : EndUpload(s, b)) \/ UploadFails(s) \/ UploadStops(s)
      PROVE  LogStep /\ CopyInv'
  BY <1>7, UploadRecords
<1>8. ASSUME NEW s \in Sessions, NEW c \in Ids, Rollback(s, c)
      PROVE  LogStep /\ CopyInv'
  BY <1>8, RollbackRecords
<1>9. ASSUME NEW s \in Sessions, NEW c, NEW n \in Sessions, CloneCheckpoint(s, c, n)
      PROVE  LogStep /\ CopyInv'
  <2>1. Whole(snapshot[c], object)
    BY <1>9, ChainedIsWhole DEF CloneCheckpoint
  <2>2. object \in Store /\ Exact(object)
    BY DEF ContentInv, CopyInv
  <2> QED BY <1>9, <2>1, <2>2, CopyRecords DEF CloneCheckpoint, Whole
<1>10. ASSUME NEW s \in Sessions, NEW n \in Sessions, CloneNow(s, n)
       PROVE  LogStep /\ CopyInv'
  <2> DEFINE tree == TreeOf(object, file[s])
  <2>1. object \in Store /\ file[s] \in Files /\ LinksHold(file[s], object) /\ Exact(object)
    BY DEF ContentInv, CopyInv
  <2>2. tree \in Tree
    BY <2>1, TreeOfType
  <2>3. CopyTo(n, title[s], history[s], tree, StoreAll(object, tree))
    BY <1>10 DEF CloneNow
  <2> HIDE DEF tree
  <2>4. StoreAll(object, tree) \in Store /\ Kept(tree, StoreAll(object, tree))
        /\ Exact(StoreAll(object, tree))
    BY <2>1, <2>2, StoreAllKeeps, ExactStore
  <2> QED BY <2>2, <2>3, <2>4, CopyRecords
<1>11. ASSUME NEW s \in Sessions, NEW n \in Sessions,
              \/ CloneNow(s, n)
              \/ \E c \in Ids : CloneCheckpoint(s, c, n)
              \/ \E m \in Messages : CloneMessage(s, m, n)
       PROVE  LogStep /\ CopyInv'
  BY <1>9, <1>10, <1>11 DEF CloneMessage
<1> QED BY <1>1, <1>2, <1>4, <1>5, <1>6, <1>7, <1>8, <1>11 DEF Next

-----------------------------------------------------------------------------
(* The refinement.                                                         *)

Invs == Inv /\ ContentInv /\ CopyInv

\* The mapping of PublishedLog, without what a restore does.
States == [s \in Sessions |-> StateOf(s)]

Entry(c) ==
    IF Published(c)
    THEN [session |-> snapshot[c].session,
          state |-> [history |-> snapshot[c].history,
                     tree |-> Content(object, snapshot[c].tree)]]
    ELSE NoSnapshot

Entries == [c \in Ids |-> Entry(c)]

LEMMA PublishedIsWhole ==
    ASSUME Inv, ContentInv, NEW c, Published(c)
    PROVE  c \in Ids /\ ~FreeId(c) /\ Whole(snapshot[c], object)
  BY ChainedIsWhole DEF Published

LEMMA PublishedEntry ==
    ASSUME ~HardLinks, Invs, NEW c, Published(c)
    PROVE  Entry(c) = [session |-> snapshot[c].session,
                       state |-> [history |-> snapshot[c].history, tree |-> snapshot[c].tree]]
<1>1. Whole(snapshot[c], object) /\ Exact(object)
  BY PublishedIsWhole DEF Invs, CopyInv
<1>2. Content(object, snapshot[c].tree) = snapshot[c].tree
  BY <1>1, ContentIsTree DEF Whole
<1> QED BY <1>2 DEF Entry

LEMMA SameEntry ==
    ASSUME ~HardLinks, Invs, Invs', NEW c \in Ids, snapshot'[c] = snapshot[c],
           Published(c)' <=> Published(c)
    PROVE  Entry(c)' = Entry(c)
<1>1. CASE Published(c)
  <2>1. Entry(c) = [session |-> snapshot[c].session,
                    state |-> [history |-> snapshot[c].history, tree |-> snapshot[c].tree]]
    BY <1>1, PublishedEntry
  <2>2. Content(object', snapshot'[c].tree) = snapshot'[c].tree
    <3>1. Published(c)' /\ Inv' /\ ContentInv' /\ CopyInv'
      BY <1>1 DEF Invs
    <3>2. Whole(snapshot'[c], object') /\ Exact(object')
      <4>1. Whole(snapshot[c], object)
        BY <1>1, PublishedIsWhole DEF Invs
      <4>2. ~FreeId(c)'
        BY <1>1, PublishedIsWhole DEF FreeId, Invs
      <4> QED BY <3>1, <4>2 DEF ContentInv, WholeInv, CopyInv
    <3> QED BY <3>2, ContentIsTree DEF Whole
  <2> QED BY <1>1, <2>1, <2>2 DEF Entry
<1>2. CASE ~Published(c)
  BY <1>2 DEF Entry
<1> QED BY <1>1, <1>2

LEMMA LogStepRefines ==
    ASSUME ~HardLinks, Invs, Invs', LogStep
    PROVE  PublishedLog!Next
<1>1. PICK s \in Sessions : Others(s) /\ (RecordsIts(s) \/ DeleteSession(s))
  BY DEF LogStep
<1>2. ASSUME NEW q \in Sessions \ {s} PROVE States'[q] = States[q]
  <2>1. file[q] \in Files /\ file'[q] = file[q] /\ history'[q] = history[q]
    BY <1>1 DEF Others, Invs, ContentInv
  <2>2. TreeOf(object', file'[q]) = TreeOf(object, file[q])
    BY <2>1, TreeOfCopies
  <2> QED BY <2>1, <2>2 DEF States, StateOf
<1>3. PublishedLog!Change(s)
  BY <1>2 DEF PublishedLog!Change, States
<1>4. ASSUME \A c \in Ids : snapshot'[c] = snapshot[c], \A c \in Ids : Published(c)' <=> Published(c)
      PROVE  Entries' = Entries
  BY <1>4, SameEntry DEF Entries
<1>5. CASE UNCHANGED log
  <2>1. Entries' = Entries
    BY <1>4, <1>5 DEF log, Published
  <2> QED BY <1>3, <2>1 DEF PublishedLog!Next, Entries, Entry
<1>6. ASSUME NEW c \in Ids, NEW done \in 1..3, NEW full,
             WriteSnapshot(s, chain[s], full, c, done), full.session = s,
             full.history = history'[s],
             full.tree = TreeOf(object', file'[s]), full.tree \in Tree, Kept(full.tree, object')
      PROVE  PublishedLog!Next
  <2>1. snapshot' = [snapshot EXCEPT ![c] = full] /\ FreeId(c)
    BY <1>6 DEF WriteSnapshot
  <2>2. ~Published(c) /\ snapshot'[c] = full
        /\ \A d \in Ids \ {c} : snapshot'[d] = snapshot[d]
    BY <2>1, PublishedIsWhole DEF Invs, Inv, ChainType
  <2>3. CASE UNCHANGED chain
    <3>1. \A d : Published(d)' <=> Published(d)
      BY <2>3 DEF Published
    <3>2. \A d \in Ids : Entry(d)' = Entry(d)
      BY <2>2, <3>1, SameEntry DEF Entry
    <3>3. Entries' = Entries
      BY <3>2 DEF Entries
    <3> QED BY <1>3, <3>3 DEF PublishedLog!Next, Entries, Entry
  <2>4. CASE chain' = [chain EXCEPT ![s] = Append(chain[s], c)]
    <3>1. chain[s] \in Seq(Ids) /\ chain \in [Sessions -> Seq(Ids)]
      BY DEF Invs, Inv, ChainType
    <3>2. Elems(chain'[s]) = Elems(chain[s]) \cup {c}
          /\ \A q \in Sessions \ {s} : chain'[q] = chain[q]
      <4>1. chain'[s] = Append(chain[s], c) /\ \A q \in Sessions \ {s} : chain'[q] = chain[q]
        BY <2>4, <3>1
      <4>2. Elems(Append(chain[s], c)) = Elems(chain[s]) \cup {c}
        <5> DEFINE x == chain[s]
                   n == Len(chain[s])
        <5>1. n \in Nat /\ DOMAIN x = 1..n /\ DOMAIN Append(x, c) = 1..(n + 1)
              /\ (\A i \in 1..n : Append(x, c)[i] = x[i]) /\ Append(x, c)[n + 1] = c
          BY <3>1
        <5> HIDE DEF n
        <5> QED BY <5>1 DEF Elems
      <4> QED BY <4>1, <4>2
    <3>3. \A d : Published(d)' <=> Published(d) \/ d = c
      BY <3>2 DEF Published
    <3>4. ASSUME NEW d \in Ids \ {c} PROVE Entry(d)' = Entry(d)
      BY <2>2, <3>3, SameEntry
    <3>5. Entry(c)' = [session |-> s, state |-> [history |-> full.history, tree |-> full.tree]]
      <4>1. Content(object', full.tree) = full.tree
        BY <1>6, ContentIsTree DEF LogStep
      <4> QED BY <1>6, <2>2, <3>3, <4>1 DEF Entry
    <3>6. Entry(c)' = [session |-> s, state |-> States'[s]]
      BY <1>6, <3>5 DEF States, StateOf
    <3>7. Entries' = [Entries EXCEPT ![c] = [session |-> s, state |-> States'[s]]]
      BY <3>4, <3>6 DEF Entries
    <3>8. Entries[c] = NoSnapshot
      BY <2>2 DEF Entries, Entry
    <3>9. PublishedLog!Record(s, c)
      BY <3>7, <3>8 DEF PublishedLog!Record, Entries, Entry, States
    <3> QED BY <1>3, <3>9 DEF PublishedLog!Next
  <2> QED BY <1>6, <2>3, <2>4 DEF WriteSnapshot
<1>7. CASE DeleteSession(s)
  <2>1. /\ \A q \in Sessions \ {s} : chain'[q] = chain[q]
        /\ chain'[s] = <<>>
        /\ \A c \in Ids : snapshot'[c] =
               IF snapshot[c].session = s THEN NoSnapshot ELSE snapshot[c]
    BY <1>7 DEF DeleteSession, ForgetCheckpoints, Invs, Inv, ChainType
  <2>2. \A q \in Sessions : \A c \in Elems(chain[q]) : snapshot[c].session = q
    BY DEF Invs, Inv, ChainIsWellFormed, Elems
  <2>3. ASSUME NEW c \in Ids
        PROVE  Entry(c)' = IF Entry(c) # NoSnapshot /\ Entry(c).session = s
                           THEN NoSnapshot ELSE Entry(c)
    <3>1. Published(c)' <=> \E q \in Sessions \ {s} : c \in Elems(chain[q])
      BY <2>1 DEF Published, Elems
    <3>2. CASE \E q \in Sessions \ {s} : c \in Elems(chain[q])
      <4>1. Published(c) /\ snapshot[c].session # s
        BY <2>2, <3>2 DEF Published
      <4>2. Entry(c)' = Entry(c)
        BY <2>1, <3>1, <3>2, <4>1, SameEntry
      <4>3. Entry(c).session = snapshot[c].session
        BY <4>1 DEF Entry
      <4> QED BY <4>1, <4>2, <4>3
    <3>3. CASE c \in Elems(chain[s]) /\ ~Published(c)'
      <4>1. Published(c) /\ snapshot[c].session = s
        BY <2>2, <3>3 DEF Published
      <4>2. Entry(c).session = s /\ Entry(c)' = NoSnapshot
        BY <3>3, <4>1 DEF Entry
      <4>3. Entry(c) # NoSnapshot
        BY <4>2, ConstantsAssumption DEF NoSnapshot
      <4> QED BY <4>2, <4>3
    <3>4. CASE ~Published(c)
      BY <3>1, <3>4 DEF Published, Entry
    <3> QED BY <3>1, <3>2, <3>3, <3>4 DEF Published
  <2>4. Entries' = [c \in Ids |-> IF Entries[c] # NoSnapshot /\ Entries[c].session = s
                                  THEN NoSnapshot ELSE Entries[c]]
    BY <2>3 DEF Entries
  <2>5. PublishedLog!Forget(s)
    BY <2>4 DEF PublishedLog!Forget, Entries, Entry
  <2> QED BY <1>3, <2>5 DEF PublishedLog!Next
<1> QED BY <1>1, <1>5, <1>6, <1>7 DEF RecordsIts

LEMMA CopyInit == Init => CopyInv
  BY DEF Init, CopyInv, Exact

LEMMA LogInit == Init => PublishedLog!Init
  BY DEF Init, PublishedLog!Init, Published, Elems

\* With copies and whole writes, the published checkpoints are an append-only log of the
\* states their sessions had, whatever captures were cut and whatever files change later.
THEOREM ImplementsLog ==
    ASSUME ~HardLinks, ~TornWrites, ~ReadErrors
    PROVE  Spec => LogSpec
<1>1. Init => Invs /\ PublishedLog!Init
  BY InitInv, ContentInit, CopyInit, LogInit DEF Invs
<1>2. Invs /\ [Next]_vars => Invs'
  BY InvStep, ContentStep, NextRecords DEF Invs
<1>3. Invs /\ Invs' /\ [Next]_vars => [PublishedLog!Next]_<<States, Entries>>
  <2> SUFFICES ASSUME Invs, Invs', [Next]_vars
               PROVE  [PublishedLog!Next]_<<States, Entries>>
    OBVIOUS
  <2>1. CASE UNCHANGED vars
    BY <2>1 DEF vars, live, log, States, StateOf, Entries, Entry, Published
  <2> QED BY <2>1, NextRecords, LogStepRefines DEF Invs
<1> QED BY <1>1, <1>2, <1>3, PTL
       DEF Spec, LogSpec, PublishedLog!Spec, States, Entries, Entry

-----------------------------------------------------------------------------
(* What a checkpoint restores, and what may change it.                     *)

Stays(old, new) == \A b \in Bytes : old[b] # Missing => new[b] = old[b]

\* A file that is a link is written in place, and its object with it.
WritesThroughALink ==
    \E s \in Sessions :
        \/ \E p \in Paths :
              /\ Linked(file[s][p])
              /\ BeginUpload(s, p) \/ \E b \in Contents : WriteFile(s, p, b)
        \/ \E b \in Contents : EndUpload(s, b) /\ upload.onto # Absent

LEMMA StoreAllStays ==
    ASSUME NEW store, NEW tree
    PROVE  Stays(store, StoreAll(store, tree))
  BY DEF Stays, StoreAll

LEMMA CaptureStays ==
    ASSUME NEW s, NEW t, NEW sc, NEW h, NEW files, NEW store, NEW auto,
           Capture(s, t, sc, h, files, store, auto)
    PROVE  Stays(store, object')
<1> DEFINE tree == TreeOf(store, files)
<1>1. object' \in PartlyStored(store, tree) \/ object' = StoreAll(store, tree)
  BY DEF Capture
<1> HIDE DEF tree
<1>2. CASE object' \in PartlyStored(store, tree)
  BY <1>2 DEF PartlyStored, Stays
<1>3. CASE object' = StoreAll(store, tree)
  BY <1>3, StoreAllStays
<1> QED BY <1>1, <1>2, <1>3

LEMMA CopyStays ==
    ASSUME NEW n, NEW t, NEW h, NEW tree, NEW store, CopyTo(n, t, h, tree, store)
    PROVE  Stays(store, object')
  BY StoreAllStays DEF CopyTo

LEMMA StaysIsTransitive ==
    ASSUME NEW a, NEW b, NEW c, Stays(a, b), Stays(b, c)
    PROVE  Stays(a, c)
  BY DEF Stays

\* No other step changes an object that is in the store.
LEMMA NextStays == [Next]_vars => WritesThroughALink \/ Stays(object, object')
<1> SUFFICES ASSUME [Next]_vars PROVE WritesThroughALink \/ Stays(object, object')
  OBVIOUS
<1>0. Stays(object, object)
  BY DEF Stays
<1>1. CASE UNCHANGED vars
  BY <1>0, <1>1 DEF vars
<1>2. ASSUME NEW s \in Sessions, NEW t \in Titles, NEW sc \in Scenarios,
             Create(s, t, sc) \/ Update(s, t, sc)
      PROVE  Stays(object, object')
  BY <1>2, CaptureStays DEF Create, Update
<1>3. ASSUME NEW s, NEW h, SaveHistory(s, h)
      PROVE  Stays(object, object')
  BY <1>3, CaptureStays DEF SaveHistory
<1>4. ASSUME NEW s, NEW files, CaptureFiles(s, files, object)
      PROVE  Stays(object, object')
  BY <1>4, CaptureStays DEF CaptureFiles
<1>5. ASSUME NEW s, NEW c, Rollback(s, c)
      PROVE  Stays(object, object')
  BY <1>0, <1>5, CaptureStays DEF Rollback
<1>6. ASSUME NEW s, NEW c, NEW n, CloneCheckpoint(s, c, n)
      PROVE  Stays(object, object')
  BY <1>6, CopyStays DEF CloneCheckpoint
<1>7. ASSUME NEW s \in Sessions, NEW m \in Messages,
             AppendMessage(s, m) \/ DeleteMessage(s, m) \/ RollbackToMessage(s, m)
      PROVE  Stays(object, object')
  BY <1>3, <1>5, <1>7 DEF AppendMessage, DeleteMessage, RollbackToMessage
<1>8. ASSUME NEW s \in Sessions, CompleteTurn(s) \/ TakeSnapshot(s) \/ DeleteSession(s)
      PROVE  Stays(object, object')
  BY <1>0, <1>3, <1>8, CaptureStays DEF CompleteTurn, TakeSnapshot, DeleteSession
<1>9. ASSUME NEW s \in Sessions, NEW p \in Paths,
             DeleteFile(s, p) \/ \E q \in Paths : RenameFile(s, p, q)
      PROVE  Stays(object, object')
  BY <1>4, <1>9 DEF DeleteFile, RenameFile
<1>10. ASSUME NEW s \in Sessions, NEW p \in Paths,
              BeginUpload(s, p) \/ \E b \in Contents : WriteFile(s, p, b)
       PROVE  WritesThroughALink \/ Stays(object, object')
  <2>1. CASE Linked(file[s][p])
    BY <1>10, <2>1 DEF WritesThroughALink
  <2>2. CASE ~Linked(file[s][p])
    <3>1. \A b : StoreInPlace(file[s][p], b) = object
      BY <2>2 DEF StoreInPlace
    <3>2. CASE BeginUpload(s, p)
      BY <1>0, <3>1, <3>2 DEF BeginUpload
    <3>3. CASE \E b \in Contents : WriteFile(s, p, b)
      BY <1>4, <3>1, <3>3 DEF WriteFile
    <3> QED BY <1>10, <3>2, <3>3
  <2> QED BY <2>1, <2>2
<1>11. ASSUME NEW s \in Sessions, NEW b \in Contents, EndUpload(s, b)
       PROVE  WritesThroughALink \/ Stays(object, object')
  <2>1. CASE upload.onto # Absent
    BY <1>11, <2>1 DEF WritesThroughALink
  <2>2. CASE upload.onto = Absent
    <3>1. (\E files : CaptureFiles(s, files, object)) \/ object' = object
      BY <1>11, <2>2 DEF EndUpload
    <3> QED BY <1>0, <1>4, <3>1
  <2> QED BY <2>1, <2>2
<1>12. ASSUME NEW s \in Sessions, UploadFails(s) \/ UploadStops(s)
       PROVE  Stays(object, object')
  BY <1>0, <1>12 DEF UploadFails, UploadStops
<1>13. ASSUME NEW s \in Sessions, NEW n \in Sessions,
              \/ CloneNow(s, n)
              \/ \E c \in Ids : CloneCheckpoint(s, c, n)
              \/ \E m \in Messages : CloneMessage(s, m, n)
       PROVE  Stays(object, object')
  <2>1. CASE CloneNow(s, n)
    BY <2>1, CopyStays, StoreAllStays, StaysIsTransitive DEF CloneNow
  <2>2. CASE ~CloneNow(s, n)
    BY <1>6, <1>13, <2>2 DEF CloneMessage
  <2> QED BY <2>1, <2>2
<1> QED BY <1>1, <1>2, <1>5, <1>7, <1>8, <1>9, <1>10, <1>11, <1>12, <1>13 DEF Next

\* Reading back what a restore writes, link or copy, gives what the objects hold.
LEMMA ContentIs ==
    ASSUME NEW store \in Store, NEW tree \in Tree, Kept(tree, store), NEW later,
           Stays(store, later)
    PROVE  TreeOf(later, Restored(store, tree)) =
               [p \in Paths |-> IF tree[p] = Absent THEN Absent ELSE store[tree[p]]]
<1>1. ASSUME NEW p \in Paths
      PROVE  Read(later, Materialize(store, tree[p])) =
                 IF tree[p] = Absent THEN Absent ELSE store[tree[p]]
  <2>1. CASE tree[p] = Absent
    BY <2>1 DEF Materialize, Read
  <2>2. CASE tree[p] # Absent
    <3>1. tree[p] \in Bytes /\ store[tree[p]] \in Bytes /\ later[tree[p]] = store[tree[p]]
      BY <2>2 DEF Tree, Kept, Store, Stays
    <3>2. CASE HardLinks
      <4>1. Materialize(store, tree[p]) = Link(tree[p]) /\ Link(tree[p]) # Absent
        BY <2>2, <3>1, <3>2, AbsentAssumption DEF Materialize, File
      <4> QED BY <2>2, <3>1, <4>1 DEF Read, Link
    <3>3. CASE ~HardLinks
      <4>1. /\ Materialize(store, tree[p]) = Own(store[tree[p]])
            /\ Own(store[tree[p]]) # Absent
        BY <2>2, <3>1, <3>3, AbsentAssumption DEF Materialize, File
      <4> QED BY <2>2, <4>1 DEF Read, Own
    <3> QED BY <3>2, <3>3
  <2> QED BY <2>1, <2>2
<1> QED BY <1>1 DEF TreeOf, Restored

LEMMA ContentStays ==
    ASSUME NEW store \in Store, NEW later \in Store, NEW tree \in Tree, Kept(tree, store),
           Stays(store, later)
    PROVE  Content(later, tree) = Content(store, tree)
<1>1. Kept(tree, later)
  BY DEF Kept, Stays, Tree
<1>2. Stays(store, store) /\ Stays(later, later)
  BY DEF Stays
<1>3. \A p \in Paths : tree[p] # Absent => later[tree[p]] = store[tree[p]]
  BY DEF Kept, Stays, Tree
<1> QED BY <1>1, <1>2, <1>3, ContentIs DEF Content

LEMMA PublishedStays ==
    ASSUME ~ReadErrors, Inv, ContentInv, ContentInv', [Next]_vars, NEW c \in Ids,
           Published(c), Published(c)', Stays(object, object')
    PROVE  Content(object', snapshot'[c].tree) = Content(object, snapshot[c].tree)
<1>1. ~FreeId(c) /\ Whole(snapshot[c], object)
  BY PublishedIsWhole
<1>2. snapshot'[c] = snapshot[c]
  <2>1. CASE Extends
    BY <1>1, <2>1 DEF Extends, WriteSnapshot, Inv, ChainType
  <2>2. CASE UNCHANGED log
    BY <2>2 DEF log
  <2>3. ASSUME NEW s \in Sessions, DeleteSession(s) PROVE snapshot'[c] = snapshot[c]
    <3>1. PICK q \in Sessions : c \in Elems(chain'[q])
      BY DEF Published, Elems
    <3>2. q # s /\ chain'[q] = chain[q]
      BY <2>3, <3>1, DeleteInv DEF Elems
    <3>3. PICK i \in DOMAIN chain[q] : chain[q][i] = c
      BY <3>1, <3>2 DEF Elems
    <3> QED BY <2>3, <3>2, <3>3, DeleteInv
  <2> QED BY <2>1, <2>2, <2>3, NextExtends DEF LogGrows, Inv
<1>3. object \in Store /\ object' \in Store
  BY DEF ContentInv
<1> QED BY <1>1, <1>2, <1>3, ContentStays DEF Whole

\* What a published checkpoint restores changes only when a file that is linked to one of
\* its objects is saved or uploaded in place; no capture, deletion, rename, rollback, clone
\* or crash changes it.
THEOREM OnlyLinkedWritesChangeCheckpoints ==
    ASSUME ~ReadErrors
    PROVE  Spec => [][(\E c \in Ids :
                          /\ Published(c) /\ Published(c)'
                          /\ Content(object', snapshot'[c].tree) #
                                 Content(object, snapshot[c].tree))
                      => WritesThroughALink]_vars
<1>1. Inv /\ ContentInv /\ (Inv /\ ContentInv)' /\ [Next]_vars =>
         [(\E c \in Ids :
              /\ Published(c) /\ Published(c)'
              /\ Content(object', snapshot'[c].tree) # Content(object, snapshot[c].tree))
          => WritesThroughALink]_vars
  BY NextStays, PublishedStays
<1> QED BY <1>1, ContentInvariance, PTL DEF Spec

-----------------------------------------------------------------------------
\* Where restored files are copies, no upload shares an object.
UploadAlone == upload # NoUpload => upload.onto = Absent

LEMMA UploadStaysAlone ==
    ASSUME ~HardLinks, ContentInv, UploadAlone, [Next]_vars
    PROVE  UploadAlone'
<1>1. CASE Moves
  BY <1>1 DEF Moves, UploadAlone
<1>2. CASE UNCHANGED upload
  BY <1>2 DEF UploadAlone
<1>3. CASE UNCHANGED vars
  BY <1>2, <1>3 DEF vars, live
<1>4. ASSUME NEW s \in Sessions, NEW p \in Paths,
             \/ DeleteFile(s, p) \/ BeginUpload(s, p)
             \/ \E b \in Contents : WriteFile(s, p, b)
             \/ \E q \in Paths : RenameFile(s, p, q)
      PROVE  UploadAlone'
  <2>1. CASE BeginUpload(s, p)
    <3>1. ~Linked(file[s][p])
      BY NotLinked
    <3> QED BY <2>1, <3>1 DEF BeginUpload, UploadAlone
  <2>2. CASE DeleteFile(s, p)
    BY <1>1, <2>2, UnlinkedMoves DEF DeleteFile
  <2>3. CASE \E b \in Contents : WriteFile(s, p, b)
    BY <1>2, <2>3 DEF WriteFile
  <2>4. ASSUME NEW q \in Paths, RenameFile(s, p, q)
        PROVE  UploadAlone'
    <3>1. \/ upload' = upload
          \/ upload.session = s /\ upload' = [upload EXCEPT !.at = q]
          \/ upload' = Unlinked(s, {q})
      BY <2>4 DEF RenameFile
    <3> QED BY <1>1, <1>2, <3>1, MovedIs, UnlinkedMoves
  <2> QED BY <1>4, <2>1, <2>2, <2>3, <2>4
<1>5. ASSUME NEW s \in Sessions,
             (\E b \in Contents : EndUpload(s, b)) \/ UploadFails(s) \/ UploadStops(s)
      PROVE  UploadAlone'
  BY <1>5 DEF EndUpload, UploadFails, UploadStops, UploadAlone
<1>6. ASSUME NEW s \in Sessions, NEW c, Rollback(s, c)
      PROVE  UploadAlone'
  BY <1>1, <1>6, UnlinkedMoves DEF Rollback
<1>7. ASSUME NEW s \in Sessions, NEW m \in Messages,
             AppendMessage(s, m) \/ DeleteMessage(s, m) \/ RollbackToMessage(s, m)
      PROVE  UploadAlone'
  BY <1>2, <1>6, <1>7 DEF AppendMessage, DeleteMessage, SaveHistory, RollbackToMessage
<1>8. ASSUME NEW s \in Sessions,
             \/ CompleteTurn(s) \/ TakeSnapshot(s) \/ DeleteSession(s)
             \/ \E t \in Titles, sc \in Scenarios : Create(s, t, sc) \/ Update(s, t, sc)
      PROVE  UploadAlone'
  <2>1. CASE DeleteSession(s)
    BY <1>1, <2>1, UnlinkedMoves DEF DeleteSession
  <2>2. CASE ~DeleteSession(s)
    BY <1>2, <1>8, <2>2 DEF CompleteTurn, SaveHistory, TakeSnapshot, live, Create, Update
  <2> QED BY <2>1, <2>2
<1>9. ASSUME NEW s \in Sessions, NEW n \in Sessions,
             \/ CloneNow(s, n)
             \/ \E c \in Ids : CloneCheckpoint(s, c, n)
             \/ \E m \in Messages : CloneMessage(s, m, n)
      PROVE  UploadAlone'
  BY <1>2, <1>9 DEF CloneNow, CloneCheckpoint, CloneMessage, CopyTo
<1> QED BY <1>3, <1>4, <1>5, <1>6, <1>7, <1>8, <1>9 DEF Next

\* Where restored files are copies, what a published checkpoint restores never changes,
\* torn writes or not: hard links are the only reason why it does.
THEOREM CopiesAreImmutable ==
    ASSUME ~HardLinks, ~ReadErrors
    PROVE  Spec => CheckpointsAreImmutable
<1>1. Init => UploadAlone
  BY DEF Init, UploadAlone
<1>2. ContentInv /\ UploadAlone /\ [Next]_vars => UploadAlone'
  BY UploadStaysAlone
<1>3. ContentInv /\ UploadAlone => ~WritesThroughALink
  <2> SUFFICES ASSUME ContentInv, UploadAlone PROVE ~WritesThroughALink
    OBVIOUS
  <2>1. \A s \in Sessions, p \in Paths : ~Linked(file[s][p])
    BY NotLinked
  <2>2. \A s \in Sessions, b \in Contents : EndUpload(s, b) => upload.onto = Absent
    BY ConstantsAssumption DEF EndUpload, UploadAlone, NoUpload
  <2> QED BY <2>1, <2>2 DEF WritesThroughALink
<1>4. Inv /\ ContentInv /\ UploadAlone /\ (Inv /\ ContentInv)' /\ [Next]_vars =>
         [\A c \in Ids : Published(c) /\ Published(c)' =>
             Content(object', snapshot'[c].tree) = Content(object, snapshot[c].tree)]_vars
  BY <1>3, NextStays, PublishedStays
<1> QED BY <1>1, <1>2, <1>4, ContentInvariance, PTL DEF Spec, CheckpointsAreImmutable

-----------------------------------------------------------------------------
\* What checkpoint c would restore.
Recorded(c) == [history |-> snapshot[c].history, tree |-> Content(object, snapshot[c].tree)]

\* A rollback, or a clone, that gets as far as its own checkpoint leaves the session with
\* exactly the history and the files of its target.
RestoresWhatIsRecorded ==
    [][\A s, n \in Sessions, c \in Ids : chain' # chain =>
          /\ Rollback(s, c) => StateOf(s)' = Recorded(c)
          /\ CloneCheckpoint(s, c, n) => StateOf(n)' = Recorded(c)]_vars

LEMMA RollbackRestores ==
    ASSUME Inv, ContentInv, NEW s \in Sessions, NEW c, Rollback(s, c), chain' # chain
    PROVE  StateOf(s)' = Recorded(c)
<1> DEFINE files == Restored(object, snapshot[c].tree)
<1>1. /\ file' = [file EXCEPT ![s] = files]
      /\ history' = [history EXCEPT ![s] = snapshot[c].history]
      /\ \E t, sc, h : Capture(s, t, sc, h, files, object, FALSE)
  BY DEF Rollback, log
<1>2. Whole(snapshot[c], object)
  BY ChainedIsWhole DEF Rollback
<1>3. Stays(object, object') /\ Stays(object, object)
  <2>1. Stays(object, object')
    BY <1>1, CaptureStays
  <2> QED BY <2>1 DEF Stays
<1>4. file'[s] = files /\ history'[s] = snapshot[c].history
  BY <1>1 DEF ContentInv
<1>5. object \in Store /\ snapshot[c].tree \in Tree /\ Kept(snapshot[c].tree, object)
  BY <1>2 DEF ContentInv, Whole
<1>6. TreeOf(object', files) = Content(object, snapshot[c].tree)
  BY <1>3, <1>5, ContentIs DEF Content
<1> QED BY <1>4, <1>6 DEF StateOf, Recorded

LEMMA CloneRestores ==
    ASSUME Inv, ContentInv, NEW s \in Sessions, NEW n \in Sessions, NEW c,
           CloneCheckpoint(s, c, n), chain' # chain
    PROVE  StateOf(n)' = Recorded(c)
<1> DEFINE tree == snapshot[c].tree
           read == [p \in Paths |-> IF tree[p] = Absent THEN Absent ELSE object[tree[p]]]
           again == StoreAll(object, read)
           files == Restored(again, tree)
<1>1. /\ file' = [file EXCEPT ![n] = files]
      /\ history' = [history EXCEPT ![n] = snapshot[c].history]
      /\ object' = again
  BY DEF CloneCheckpoint, CopyTo, log
<1>2. object \in Store /\ tree \in Tree /\ Kept(tree, object)
  <2>1. Whole(snapshot[c], object)
    BY ChainedIsWhole DEF CloneCheckpoint
  <2> QED BY <2>1 DEF ContentInv, Whole
<1>3. read \in Tree
  BY <1>2 DEF Tree, Store, Kept
<1>4. again \in Store /\ Stays(object, again) /\ Stays(again, again)
  <2>1. again \in Store
    BY <1>2, <1>3, StoreAllKeeps
  <2>2. Stays(object, again)
    BY StoreAllStays
  <2> QED BY <2>1, <2>2 DEF Stays
<1>5. file'[n] = files /\ history'[n] = snapshot[c].history
  BY <1>1 DEF ContentInv
<1>6. Content(again, tree) = Content(object, tree)
  BY <1>2, <1>4, ContentStays
<1> QED BY <1>1, <1>5, <1>6 DEF StateOf, Recorded, Content

\* A completed rollback or clone gives back what the checkpoint holds, links or copies, and
\* although it stores objects and takes a checkpoint itself.
THEOREM RestoresAreExact ==
    ASSUME ~ReadErrors
    PROVE  Spec => RestoresWhatIsRecorded
<1>1. Inv /\ ContentInv =>
         [\A s, n \in Sessions, c \in Ids : chain' # chain =>
             /\ Rollback(s, c) => StateOf(s)' = Recorded(c)
             /\ CloneCheckpoint(s, c, n) => StateOf(n)' = Recorded(c)]_vars
  BY RollbackRestores, CloneRestores
<1> QED BY <1>1, ContentInvariance, PTL DEF Spec, RestoresWhatIsRecorded

=============================================================================
