-------------------------- MODULE SessionStoreProofs --------------------------
(*****************************************************************************)
(* Proofs about SessionStore, for any sessions, chat requests, messages,     *)
(* titles and any bound on the stamps.                                       *)
(*                                                                           *)
(* The properties are not inductive: they rest on who may hold a copy.       *)
(*   RunInv     - a run that has not started or is over holds nothing; a run *)
(*                that may write is the registered one of its session.       *)
(*   VersionInv - the versions of a definition, on disk and in the copies,   *)
(*                are older than the next stamp, belong to a session that    *)
(*                was created, and no two of them have one stamp if one is   *)
(*                an edit of the user.                                       *)
(*   CountInv   - no list, in a file or in a run, holds a message twice.     *)
(*****************************************************************************)

EXTENDS SessionStore, TLAPS

Versions(s) == {disk[s]} \cup {run[r].copy[s] : r \in Runs}

RunOk(r) ==
    /\ run[r].pc \in {"new", "done"} => run[r] = Blank(run[r].pc)
    /\ run[r].pc \in {"accepted", "running"} =>
          /\ run[r].session \in created
          /\ run[r].copy[run[r].session] # NoFile
    /\ run[r].saved => run[r].pc = "running"
    /\ run[r].pc = "running" => registry[run[r].session] = r
    /\ \A s \in Sessions : registry[s] = r => run[r].pc = "running" /\ run[r].session = s

RunInv == \A r \in Runs : RunOk(r)

OfItsTime(s) == \A v \in Versions(s) : v # NoFile => v.stamp < now /\ s \in created

OneEditPerStamp(s) ==
    \A v, w \in Versions(s) :
        v # NoFile /\ w # NoFile /\ v.stamp = w.stamp /\ Manual(v) => v = w

VersionInv == \A s \in Sessions : OfItsTime(s) /\ OneEditPerStamp(s)

CountInv ==
    /\ ResentMessageIsRecordedOnce
    /\ \A r \in Runs, m \in Messages : run[r].list[m] <= 1

IInv == TypeOK /\ RunInv /\ VersionInv /\ CountInv /\ RunKeepsItsMessages

-----------------------------------------------------------------------------
(* Lemmas about the files.                                                 *)

\* save_session_definitions leaves in each file what was there or what it was given,
\* and what it was given only if the file is not newer.
LEMMA MergedIsOneOfTwo ==
    ASSUME NEW a \in Copy, NEW b \in Copy
    PROVE  /\ Merged(a, b) \in Copy
           /\ \A s \in Sessions : Merged(a, b)[s] \in {a[s], b[s]}
           /\ \A s \in Sessions : b[s] # NoFile => Merged(a, b)[s] # NoFile
           /\ \A s \in Sessions : a[s] # NoFile => Merged(a, b)[s] # NoFile
           /\ \A s \in Sessions : b[s] = a[s] => Merged(a, b)[s] = a[s]
           /\ \A s \in Sessions : Merged(a, b)[s] # a[s] /\ a[s] # NoFile => ~Newer(a[s], b[s])
  BY DEF Merged, Copy, Newer

\* A version with a new stamp is a definition.
LEMMA StampedIsADefinition ==
    ASSUME NEW d \in Definition, now \in Nat
    PROVE  /\ Stamped(d) \in Definition
           /\ Stamped(d) # NoFile
           /\ Stamped(d).stamp = now
           /\ Stamped(d).title = d.title
<1>1. /\ Stamped(d) \in Definition
      /\ Stamped(d).stamp = now
      /\ Stamped(d).title = d.title
  BY DEF Stamped, Definition
<1>2. NoFile \notin Definition
  BY ConstantsAssumption DEF Definition, Titles
<1> QED BY <1>1, <1>2

\* A list with one message more is a list, and holds no message twice if it did not
\* hold this one.
LEMMA WithIsAHistory ==
    ASSUME NEW h \in History, NEW m \in Messages
    PROVE  /\ With(h, m) \in History
           /\ \A k \in Messages : With(h, m)[k] >= h[k]
           /\ h[m] = 0 /\ (\A k \in Messages : h[k] <= 1)
                => \A k \in Messages : With(h, m)[k] <= 1
  BY DEF With, History

\* A step that brings at most one version of each session, stamped with `now`, while
\* `now` moves on and the session has been created, keeps the versions apart.
LEMMA VersionStep ==
    ASSUME TypeOK, VersionInv, NEW fresh,
           now' \in Nat, now' >= now, created \subseteq created',
           \A s \in Sessions : \A v \in Versions(s)' :
              \/ v = NoFile
              \/ v \in Versions(s)
              \/ v = fresh[s] /\ v.stamp = now /\ now' > now /\ s \in created'
    PROVE  VersionInv'
<1> SUFFICES ASSUME NEW s \in Sessions
             PROVE  OfItsTime(s)' /\ OneEditPerStamp(s)'
  BY DEF VersionInv
<1>0. now \in Nat
  BY DEF TypeOK
<1>1. \A v \in Versions(s) : v # NoFile => v \in Definition
  BY DEF TypeOK, Versions, Copy, Run
<1>2. \A v \in Versions(s) : v # NoFile => v.stamp \in Nat /\ v.stamp < now /\ s \in created
  BY <1>1 DEF VersionInv, OfItsTime, Definition
<1>3. OfItsTime(s)'
  <2> SUFFICES ASSUME NEW v \in Versions(s)', v # NoFile
               PROVE  v.stamp < now' /\ s \in created'
    BY DEF OfItsTime
  <2>1. CASE v \in Versions(s)
    BY <2>1, <1>0, <1>2
  <2>2. CASE v = fresh[s] /\ v.stamp = now /\ now' > now /\ s \in created'
    BY <2>2, <1>0
  <2> QED BY <2>1, <2>2
<1>4. OneEditPerStamp(s)'
  <2> SUFFICES ASSUME NEW v \in Versions(s)', NEW w \in Versions(s)',
                      v # NoFile, w # NoFile, v.stamp = w.stamp, Manual(v)
               PROVE  v = w
    BY DEF OneEditPerStamp, Manual
  <2>1. CASE v \in Versions(s) /\ w \in Versions(s)
    BY <2>1 DEF VersionInv, OneEditPerStamp
  <2>2. CASE v \in Versions(s) /\ w \notin Versions(s)
    <3>1. w.stamp = now
      BY <2>2
    <3> QED BY <2>2, <3>1, <1>2, <1>0
  <2>3. CASE v \notin Versions(s) /\ w \in Versions(s)
    <3>1. v.stamp = now
      BY <2>3
    <3>2. w.stamp < now
      BY <2>3, <1>2
    <3> QED BY <3>1, <3>2, <1>0
  <2>4. CASE v \notin Versions(s) /\ w \notin Versions(s)
    BY <2>4
  <2> QED BY <2>1, <2>2, <2>3, <2>4
<1> QED BY <1>3, <1>4

-----------------------------------------------------------------------------
(* Facts that several actions need.                                        *)

LEMMA Types ==
    ASSUME TypeOK
    PROVE  /\ now \in Nat
           /\ disk \in Copy
           /\ \A s \in Sessions : history[s] \in History
           /\ \A r \in Runs : run[r] \in Run /\ run[r].list \in History /\ run[r].copy \in Copy
           /\ \A c \in Copy, s \in Sessions : c[s] # NoFile => c[s] \in Definition
  BY ConstantsAssumption DEF TypeOK, Run, Copy

\* A Blank request is well typed and holds nothing.
LEMMA Blanks ==
    ASSUME NEW pc \in {"new", "done"}
    PROVE  /\ Blank(pc) \in Run
           /\ Blank(pc).pc = pc
           /\ Blank(pc).saved = FALSE
           /\ \A s \in Sessions : Blank(pc).copy[s] = NoFile
           /\ \A m \in Messages : Blank(pc).list[m] = 0
<1>1. NoCopy \in Copy /\ Nothing \in History
  BY DEF NoCopy, Copy, Nothing, History
<1> QED BY <1>1 DEF Blank, Run, NoCopy, Nothing

\* The files on disk are older than the next stamp if all versions are.
LEMMA DiskStamps ==
    ASSUME VersionInv
    PROVE  \A s \in Sessions : disk[s] # NoFile => disk[s].stamp < now /\ s \in created
  BY DEF VersionInv, OfItsTime, Versions

\* Two runs of one session do not both write.
LEMMA OneWriter ==
    ASSUME RunInv, NEW r \in Runs, NEW q \in Runs,
           run[r].pc = "running", run[q].pc = "running", run[q].session = run[r].session
    PROVE  q = r
  BY DEF RunInv, RunOk

\* A step that changes no request and no registration.
LEMMA SameRuns ==
    ASSUME RunInv, UNCHANGED <<run, registry>>, created \subseteq created'
    PROVE  RunInv'
<1> SUFFICES ASSUME NEW r \in Runs PROVE RunOk(r)'
  BY DEF RunInv
<1> RunOk(r)
  BY DEF RunInv
<1> QED BY DEF RunOk

\* A step that changes no version of a definition.
LEMMA SameVersions ==
    ASSUME VersionInv, UNCHANGED <<disk, run, created, now>>
    PROVE  VersionInv'
  BY DEF VersionInv, OfItsTime, OneEditPerStamp, Versions, Manual

\* Requests that end hold nothing, which no invariant minds.
LEMMA BlankRuns ==
    ASSUME IInv, UNCHANGED <<disk, history, created, now>>,
           run' \in [Runs -> Run],
           registry' \in [Sessions -> Runs \cup {NoRun}],
           \A r \in Runs :
              \/ /\ run'[r] \in {Blank("new"), Blank("done")}
                 /\ \A s \in Sessions : registry'[s] # r
              \/ /\ run'[r] = run[r]
                 /\ run[r].pc = "running" => registry'[run[r].session] = r
                 /\ \A s \in Sessions : registry'[s] = r => registry[s] = r,
           refresh' \in SUBSET Sessions, deleting' \in SUBSET Sessions
    PROVE  IInv'
<1>1. TypeOK'
  BY DEF IInv, TypeOK
<1>2. RunInv'
  <2> SUFFICES ASSUME NEW r \in Runs PROVE RunOk(r)'
    BY DEF RunInv
  <2>1. CASE /\ run'[r] \in {Blank("new"), Blank("done")}
             /\ \A s \in Sessions : registry'[s] # r
    BY <2>1, Blanks DEF RunOk
  <2>2. CASE /\ run'[r] = run[r]
             /\ run[r].pc = "running" => registry'[run[r].session] = r
             /\ \A s \in Sessions : registry'[s] = r => registry[s] = r
    <3>1. RunOk(r)
      BY DEF IInv, RunInv
    <3> QED BY <2>2, <3>1 DEF RunOk
  <2> QED BY <2>1, <2>2
<1>3. VersionInv'
  <2>1. \A s \in Sessions : \A v \in Versions(s)' : v = NoFile \/ v \in Versions(s)
    BY Blanks DEF Versions
  <2>2. now \in Nat
    BY Types DEF IInv
  <2> QED BY <2>1, <2>2, VersionStep DEF IInv
<1>4. CountInv'
  BY Blanks DEF IInv, CountInv, ResentMessageIsRecordedOnce
<1>5. RunKeepsItsMessages'
  BY Blanks DEF IInv, RunKeepsItsMessages
<1> QED BY <1>1, <1>2, <1>3, <1>4, <1>5 DEF IInv

-----------------------------------------------------------------------------
(* The actions of a run.                                                   *)

LEMMA AcceptKeepsIInv ==
    ASSUME IInv, NEW r \in Runs, NEW s \in Sessions, NEW m \in UserMessages, Accept(r, s, m)
    PROVE  IInv'
<1> DEFINE again == Recorded(s, m)
           titled == ~again /\ ~Manual(disk[s]) /\ \A u \in UserMessages : history[s][u] = 0
           list == IF again THEN history[s] ELSE With(history[s], m)
           own == IF titled THEN [disk[s] EXCEPT !.title = "first"] ELSE disk[s]
           copy == [disk EXCEPT ![s] = IF again THEN own ELSE Stamped(own)]
<1>1. /\ run[r].pc = "new"
      /\ disk[s] # NoFile
      /\ run' = [run EXCEPT ![r] = [pc |-> "accepted", session |-> s, list |-> list,
                                    copy |-> copy, saved |-> FALSE]]
      /\ history' = [history EXCEPT ![s] = list]
      /\ disk' = Merged(disk, copy)
      /\ refresh' = IF titled THEN refresh \cup {s} ELSE refresh
      /\ UNCHANGED <<created, registry, deleting>>
  BY DEF Accept
<1>2. IF again THEN now' = now ELSE now <= MaxStamps /\ now' = now + 1
  BY DEF Accept, Tick
<1>3. disk[s] \in Definition /\ s \in created /\ disk[s] \in Versions(s)
  BY <1>1, Types, DiskStamps DEF IInv, Versions
<1>4. own \in Definition /\ (again => own = disk[s])
  BY <1>3 DEF Definition, Titles
<1>5. /\ copy \in Copy
      /\ copy[s] # NoFile
      /\ copy[s] = disk[s] \/ (~again /\ copy[s].stamp = now)
      /\ \A t \in Sessions : t # s => copy[t] = disk[t]
  <2>1. Stamped(own) \in Definition /\ Stamped(own) # NoFile /\ Stamped(own).stamp = now
    BY <1>4, StampedIsADefinition, Types DEF IInv
  <2> HIDE DEF own, again
  <2> QED BY <2>1, <1>1, <1>3, <1>4, Types DEF IInv, Copy
<1>6. /\ list \in History
      /\ \A k \in Messages : list[k] >= history[s][k] /\ list[k] <= 1
  <2>1. history[s] \in History /\ m \in Messages /\ \A k \in Messages : history[s][k] <= 1
    BY Types DEF IInv, CountInv, ResentMessageIsRecordedOnce, Messages
  <2>2. \A k \in Messages : history[s][k] \in Nat
    BY <2>1 DEF History
  <2>3. CASE again
    BY <2>1, <2>2, <2>3
  <2>4. CASE ~again
    <3>1. history[s][m] = 0
      BY <2>1, <2>2, <2>4 DEF Recorded
    <3> QED BY <2>1, <2>4, <3>1, WithIsAHistory
  <2> QED BY <2>3, <2>4
<1> HIDE DEF again, titled, list, own, copy
<1>7. /\ run' \in [Runs -> Run]
      /\ run'[r] = [pc |-> "accepted", session |-> s, list |-> list, copy |-> copy, saved |-> FALSE]
      /\ \A q \in Runs : q # r => run'[q] = run[q]
  <2>1. [pc |-> "accepted", session |-> s, list |-> list, copy |-> copy, saved |-> FALSE] \in Run
    BY <1>5, <1>6 DEF Run
  <2> QED BY <2>1, <1>1 DEF IInv, TypeOK
<1>8. now' \in Nat /\ now' >= now /\ now' \in 1..(MaxStamps + 1)
  BY <1>2, ConstantsAssumption DEF IInv, TypeOK
<1>9. disk' \in Copy /\ \A t \in Sessions : disk'[t] \in {disk[t], copy[t]}
  BY <1>1, <1>5, MergedIsOneOfTwo, Types DEF IInv
<1>10. VersionInv'
  <2>1. ASSUME NEW t \in Sessions, NEW v \in Versions(t)'
        PROVE  v \in Versions(t) \/ v = copy[t]
    BY <1>7, <1>9 DEF Versions
  <2>2. \A t \in Sessions :
           \/ copy[t] \in Versions(t)
           \/ copy[t].stamp = now /\ now' > now /\ t \in created'
    <3>1. \A t \in Sessions : disk[t] \in Versions(t)
      BY DEF Versions
    <3> QED BY <3>1, <1>1, <1>2, <1>3, <1>5, Types DEF IInv
  <2>3. \A t \in Sessions : \A v \in Versions(t)' :
           \/ v = NoFile
           \/ v \in Versions(t)
           \/ v = copy[t] /\ v.stamp = now /\ now' > now /\ t \in created'
    BY <2>1, <2>2
  <2>4. TypeOK /\ VersionInv /\ created \subseteq created' /\ now' \in Nat /\ now' >= now
    BY <1>1, <1>8 DEF IInv
  <2> HIDE DEF IInv
  <2> QED BY <2>3, <2>4, VersionStep
<1>11. TypeOK'
  <2>1. history' \in [Sessions -> History]
    BY <1>1, <1>6 DEF IInv, TypeOK
  <2>2. \A t \in Sessions : disk'[t] # NoFile => disk'[t].stamp < now'
    BY <1>10 DEF VersionInv, OfItsTime, Versions
  <2>3. refresh' \in SUBSET Sessions
    BY <1>1 DEF IInv, TypeOK
  <2> QED BY <2>1, <2>2, <2>3, <1>1, <1>7, <1>8, <1>9 DEF IInv, TypeOK
<1>12. RunInv'
  <2> SUFFICES ASSUME NEW q \in Runs PROVE RunOk(q)'
    BY DEF RunInv
  <2>1. CASE q = r
    <3>1. \A t \in Sessions : registry[t] # r
      BY <1>1 DEF IInv, RunInv, RunOk
    <3> QED BY <2>1, <3>1, <1>1, <1>3, <1>5, <1>7 DEF RunOk
  <2>2. CASE q # r
    <3>1. RunOk(q)
      BY DEF IInv, RunInv
    <3> QED BY <2>2, <3>1, <1>1, <1>7 DEF RunOk
  <2> QED BY <2>1, <2>2
<1>13. CountInv'
  BY <1>1, <1>6, <1>7, Types DEF IInv, CountInv, ResentMessageIsRecordedOnce, TypeOK
<1>14. RunKeepsItsMessages'
  <2> SUFFICES ASSUME NEW q \in Runs, run'[q].saved, NEW k \in Messages
               PROVE  history'[run'[q].session][k] >= run'[q].list[k]
    BY DEF RunKeepsItsMessages
  <2>1. q # r /\ run'[q] = run[q]
    BY <1>7
  <2>2. run[q].saved /\ run[q].pc = "running"
    BY <2>1 DEF IInv, RunInv, RunOk
  <2>3. run[q].session \in created /\ created \subseteq Sessions
    BY <2>2 DEF IInv, RunInv, RunOk, TypeOK
  <2>4. history[run[q].session][k] >= run[q].list[k]
    BY <2>2 DEF IInv, RunKeepsItsMessages
  <2>5. history[run[q].session][k] \in Nat /\ run[q].list[k] \in Nat
    BY <2>3, Types DEF IInv, History
  <2>6. history'[run[q].session] = IF run[q].session = s THEN list ELSE history[run[q].session]
    BY <2>3, <1>1 DEF IInv, TypeOK
  <2>7. list[k] \in Nat /\ list[k] >= history[s][k]
    BY <1>6 DEF History
  <2> QED BY <2>1, <2>3, <2>4, <2>5, <2>6, <2>7
<1> QED BY <1>10, <1>11, <1>12, <1>13, <1>14 DEF IInv

LEMMA CancelledFacts ==
    ASSUME IInv, NEW s \in Sessions
    PROVE  /\ Cancelled(s) \in [Runs -> Run]
           /\ \A q \in Runs : q = registry[s] => Cancelled(s)[q] = Blank("done")
           /\ \A q \in Runs : q # registry[s] => Cancelled(s)[q] = run[q]
           /\ \A q \in Runs : q = registry[s] => \A t \in Sessions : t # s => registry[t] # q
           /\ \A q \in Runs : run[q].pc = "running" /\ run[q].session = s => q = registry[s]
<1>1. Cancelled(s) \in [Runs -> Run]
  BY Blanks DEF Cancelled, IInv, TypeOK
<1> QED BY <1>1 DEF Cancelled, IInv, RunInv, RunOk

LEMMA RegisterKeepsIInv ==
    ASSUME IInv, NEW r \in Runs, Register(r)
    PROVE  IInv'
<1> DEFINE s == run[r].session
<1>1. /\ run[r].pc = "accepted"
      /\ run' = [Cancelled(s) EXCEPT ![r].pc = "running"]
      /\ registry' = [registry EXCEPT ![s] = r]
      /\ UNCHANGED <<disk, history, created, refresh, deleting, now>>
  BY DEF Register
<1>2. s \in created /\ s \in Sessions /\ run[r].copy[s] # NoFile /\ ~run[r].saved
  BY <1>1 DEF IInv, RunInv, RunOk, TypeOK
<1>3. r # registry[s]
  BY <1>1, <1>2 DEF IInv, RunInv, RunOk
<1> HIDE DEF s
<1>4. /\ run' \in [Runs -> Run]
      /\ run'[r] = [run[r] EXCEPT !.pc = "running"]
      /\ run'[r].session = run[r].session /\ run'[r].copy = run[r].copy
      /\ run'[r].list = run[r].list /\ run'[r].saved = FALSE /\ run'[r].pc = "running"
  <2>1. Cancelled(s) \in [Runs -> Run] /\ Cancelled(s)[r] = run[r] /\ run[r] \in Run
    BY <1>2, <1>3, CancelledFacts, Types DEF IInv
  <2>2. run'[r] = [run[r] EXCEPT !.pc = "running"] /\ [run[r] EXCEPT !.pc = "running"] \in Run
    BY <2>1, <1>1 DEF Run
  <2>3. run' \in [Runs -> Run]
    BY <2>1, <2>2, <1>1
  <2>4. run[r].saved = FALSE
    BY <1>2, <2>1 DEF Run
  <2> QED BY <2>1, <2>2, <2>3, <2>4 DEF Run
<1>5. ASSUME NEW q \in Runs, q # r
      PROVE  \/ run'[q] = Blank("done") /\ q = registry[s]
             \/ run'[q] = run[q] /\ q # registry[s]
  <2>1. run'[q] = Cancelled(s)[q]
    BY <1>1, <1>2, <1>5, CancelledFacts
  <2> QED BY <2>1, <1>2, CancelledFacts
<1>6. TypeOK'
  BY <1>1, <1>2, <1>4 DEF IInv, TypeOK
<1>7. RunInv'
  <2> SUFFICES ASSUME NEW q \in Runs PROVE RunOk(q)'
    BY DEF RunInv
  <2>0. registry \in [Sessions -> Runs \cup {NoRun}] /\ NoRun \notin Runs
    BY ConstantsAssumption DEF IInv, TypeOK
  <2>1. CASE q = r
    <3>1. \A t \in Sessions : registry[t] = r => FALSE
      BY <1>1 DEF IInv, RunInv, RunOk
    <3>2. \A t \in Sessions : registry'[t] = r => t = s
      BY <3>1, <1>1, <1>2, <2>0
    <3>3. registry'[s] = r
      BY <1>1, <1>2, <2>0
    <3> QED BY <2>1, <3>2, <3>3, <1>1, <1>2, <1>4 DEF RunOk, s
  <2>2. CASE q # r /\ q = registry[s]
    <3>1. run'[q] = Blank("done")
      BY <2>2, <1>5
    <3>2. \A t \in Sessions : registry'[t] # q
      BY <2>2, <2>0, <1>1, <1>2, CancelledFacts
    <3> QED BY <3>1, <3>2, Blanks DEF RunOk
  <2>3. CASE q # r /\ q # registry[s]
    <3>1. run'[q] = run[q] /\ RunOk(q)
      BY <2>3, <1>5 DEF IInv, RunInv
    <3>2. \A t \in Sessions : registry'[t] = q => registry[t] = q
      BY <2>3, <2>0, <1>1, <1>2
    <3>3. run[q].pc = "running" => run[q].session \in Sessions /\ run[q].session # s
      BY <2>3, <3>1, <1>2, CancelledFacts DEF RunOk, IInv, TypeOK
    <3>4. run[q].pc = "running" => registry'[run[q].session] = q
      BY <3>1, <3>3, <2>0, <1>1, <1>2 DEF RunOk
    <3> QED BY <3>1, <3>2, <3>4, <1>1 DEF RunOk
  <2> QED BY <2>1, <2>2, <2>3
<1>8. VersionInv'
  <2>1. \A t \in Sessions : \A v \in Versions(t)' : v = NoFile \/ v \in Versions(t)
    BY <1>1, <1>4, <1>5, Blanks DEF Versions
  <2> QED BY <2>1, <1>1, VersionStep, Types DEF IInv
<1>9. CountInv'
  BY <1>1, <1>4, <1>5, Blanks DEF IInv, CountInv, ResentMessageIsRecordedOnce
<1>10. RunKeepsItsMessages'
  BY <1>1, <1>4, <1>5, Blanks DEF IInv, RunKeepsItsMessages
<1> QED BY <1>6, <1>7, <1>8, <1>9, <1>10 DEF IInv

LEMMA AppendKeepsIInv ==
    ASSUME IInv, NEW r \in Runs, NEW m \in Replies, Append(r, m)
    PROVE  IInv'
<1> DEFINE s == run[r].session
           list == With(run[r].list, m)
           copy == [run[r].copy EXCEPT ![s] = Stamped(@)]
<1>1. /\ run[r].pc = "running"
      /\ Fresh(m)
      /\ now <= MaxStamps /\ now' = now + 1
      /\ run' = [run EXCEPT ![r].list = list, ![r].copy = copy, ![r].saved = TRUE]
      /\ history' = [history EXCEPT ![s] = list]
      /\ disk' = Merged(disk, copy)
      /\ UNCHANGED <<created, registry, refresh, deleting>>
  BY DEF Append, Tick
<1>2. /\ s \in created /\ s \in Sessions /\ run[r].copy[s] # NoFile
      /\ run[r] \in Run /\ run[r].copy \in Copy /\ run[r].list \in History
  BY <1>1, Types DEF IInv, RunInv, RunOk, TypeOK
<1>3. /\ copy \in Copy
      /\ copy[s] # NoFile /\ copy[s].stamp = now
      /\ \A t \in Sessions : t # s => copy[t] = run[r].copy[t]
  <2>1. run[r].copy[s] \in Definition
    BY <1>2, Types DEF IInv
  <2>2. /\ Stamped(run[r].copy[s]) \in Definition
        /\ Stamped(run[r].copy[s]) # NoFile
        /\ Stamped(run[r].copy[s]).stamp = now
    BY <2>1, StampedIsADefinition, Types DEF IInv
  <2> QED BY <2>2, <1>2 DEF Copy
<1>4. list \in History /\ m \in Messages /\ \A k \in Messages : list[k] <= 1
  BY <1>1, <1>2, WithIsAHistory DEF IInv, CountInv, Fresh, Messages
<1> HIDE DEF s, list, copy
<1>5. /\ run' \in [Runs -> Run]
      /\ run'[r] = [run[r] EXCEPT !.list = list, !.copy = copy, !.saved = TRUE]
      /\ run'[r].pc = "running" /\ run'[r].session = s
      /\ run'[r].list = list /\ run'[r].copy = copy /\ run'[r].saved = TRUE
      /\ \A q \in Runs : q # r => run'[q] = run[q]
  <2>1. /\ run'[r] = [run[r] EXCEPT !.list = list, !.copy = copy, !.saved = TRUE]
        /\ \A q \in Runs : q # r => run'[q] = run[q]
        /\ DOMAIN run' = Runs /\ run' = [q \in Runs |-> run'[q]]
    BY <1>1, <1>2 DEF IInv, TypeOK
  <2>2. [run[r] EXCEPT !.list = list, !.copy = copy, !.saved = TRUE] \in Run
    BY <1>2, <1>3, <1>4 DEF Run
  <2>3. run' \in [Runs -> Run]
    BY <2>1, <2>2 DEF IInv, TypeOK
  <2> QED BY <2>1, <2>3, <1>1, <1>2 DEF Run, s
<1>6. now' \in Nat /\ now' > now /\ now' >= now /\ now' \in 1..(MaxStamps + 1)
  BY <1>1, ConstantsAssumption DEF IInv, TypeOK
<1>7. disk' \in Copy /\ \A t \in Sessions : disk'[t] \in {disk[t], copy[t]}
  BY <1>1, <1>3, MergedIsOneOfTwo, Types DEF IInv
<1>8. VersionInv'
  <2>1. ASSUME NEW t \in Sessions, NEW v \in Versions(t)'
        PROVE  v \in Versions(t) \/ v = copy[t]
    <3>1. disk[t] \in Versions(t) /\ \A q \in Runs : run[q].copy[t] \in Versions(t)
      BY DEF Versions
    <3>2. v = disk'[t] \/ \E q \in Runs : v = run'[q].copy[t]
      BY <2>1 DEF Versions
    <3>3. \A q \in Runs : run'[q].copy[t] = copy[t] \/ run'[q].copy[t] = run[q].copy[t]
      BY <1>5
    <3> QED BY <3>1, <3>2, <3>3, <1>7
  <2>2. \A t \in Sessions :
           \/ copy[t] \in Versions(t)
           \/ copy[t].stamp = now /\ now' > now /\ t \in created'
    <3>1. \A t \in Sessions : run[r].copy[t] \in Versions(t)
      BY DEF Versions
    <3> QED BY <3>1, <1>1, <1>2, <1>3, <1>6
  <2>3. \A t \in Sessions : \A v \in Versions(t)' :
           \/ v = NoFile
           \/ v \in Versions(t)
           \/ v = copy[t] /\ v.stamp = now /\ now' > now /\ t \in created'
    BY <2>1, <2>2
  <2>4. TypeOK /\ VersionInv /\ created \subseteq created' /\ now' \in Nat /\ now' >= now
    BY <1>1, <1>6 DEF IInv
  <2> QED BY <2>3, <2>4, VersionStep
<1>9. TypeOK'
  <2>1. history' \in [Sessions -> History]
    BY <1>1, <1>4 DEF IInv, TypeOK
  <2>2. \A t \in Sessions : disk'[t] # NoFile => disk'[t].stamp < now'
    BY <1>8 DEF VersionInv, OfItsTime, Versions
  <2> QED BY <2>1, <2>2, <1>1, <1>5, <1>6, <1>7 DEF IInv, TypeOK
<1>10. RunInv'
  <2> SUFFICES ASSUME NEW q \in Runs PROVE RunOk(q)'
    BY DEF RunInv
  <2>0. RunOk(q)
    BY DEF IInv, RunInv
  <2>1. CASE q = r
    BY <2>0, <2>1, <1>1, <1>2, <1>3, <1>5 DEF RunOk, s
  <2>2. CASE q # r
    BY <2>0, <2>2, <1>1, <1>5 DEF RunOk
  <2> QED BY <2>1, <2>2
<1>11. CountInv'
  <2>1. \A t \in Sessions : history'[t] = IF t = s THEN list ELSE history[t]
    BY <1>1, <1>2 DEF IInv, TypeOK
  <2> QED BY <2>1, <1>4, <1>5 DEF IInv, CountInv, ResentMessageIsRecordedOnce
<1>12. RunKeepsItsMessages'
  <2> SUFFICES ASSUME NEW q \in Runs, run'[q].saved, NEW k \in Messages
               PROVE  history'[run'[q].session][k] >= run'[q].list[k]
    BY DEF RunKeepsItsMessages
  <2>1. CASE q = r
    <3>1. history'[s] = list
      BY <1>1, <1>2 DEF IInv, TypeOK
    <3> QED BY <2>1, <3>1, <1>4, <1>5 DEF History
  <2>2. CASE q # r
    <3>1. run'[q] = run[q] /\ run[q].saved /\ run[q].pc = "running"
      BY <2>2, <1>5 DEF IInv, RunInv, RunOk
    <3>2. run[q].session # s
      BY <2>2, <3>1, <1>1, OneWriter DEF IInv, s
    <3>3. history'[run[q].session] = history[run[q].session]
      BY <3>2, <1>1, <1>2 DEF IInv, TypeOK
    <3> QED BY <3>1, <3>3 DEF IInv, RunKeepsItsMessages
  <2> QED BY <2>1, <2>2
<1> QED BY <1>8, <1>9, <1>10, <1>11, <1>12 DEF IInv

LEMMA SaveDefinitionsKeepsIInv ==
    ASSUME IInv, NEW r \in Runs, SaveDefinitions(r)
    PROVE  IInv'
<1>1. /\ disk' = Merged(disk, run[r].copy)
      /\ UNCHANGED <<history, created, run, registry, refresh, deleting, now>>
  BY DEF SaveDefinitions
<1>2. disk' \in Copy /\ \A t \in Sessions : disk'[t] \in {disk[t], run[r].copy[t]}
  BY <1>1, MergedIsOneOfTwo, Types DEF IInv
<1>3. VersionInv'
  <2>1. \A t \in Sessions : \A v \in Versions(t)' : v \in Versions(t)
    BY <1>1, <1>2 DEF Versions
  <2>2. TypeOK /\ VersionInv /\ now \in Nat
    BY Types DEF IInv
  <2> QED BY <2>1, <2>2, <1>1, VersionStep
<1>4. TypeOK'
  <2>1. \A t \in Sessions : disk'[t] # NoFile => disk'[t].stamp < now'
    BY <1>3 DEF VersionInv, OfItsTime, Versions
  <2> QED BY <2>1, <1>1, <1>2 DEF IInv, TypeOK
<1>5. RunInv'
  BY <1>1, SameRuns DEF IInv
<1>6. CountInv' /\ RunKeepsItsMessages'
  BY <1>1 DEF IInv, CountInv, ResentMessageIsRecordedOnce, RunKeepsItsMessages
<1> QED BY <1>3, <1>4, <1>5, <1>6 DEF IInv

LEMMA FinishKeepsIInv ==
    ASSUME IInv, NEW r \in Runs, Finish(r)
    PROVE  IInv'
<1> DEFINE s == run[r].session
<1>1. /\ run[r].pc = "running"
      /\ run' = [run EXCEPT ![r] = Blank("done")]
      /\ registry' = [registry EXCEPT ![s] = IF @ = r THEN NoRun ELSE @]
      /\ UNCHANGED <<disk, history, created, refresh, deleting, now>>
  BY DEF Finish
<1>2. s \in Sessions /\ registry[s] = r
  BY <1>1 DEF IInv, RunInv, RunOk, TypeOK
<1>3. registry' = [registry EXCEPT ![s] = NoRun]
  BY <1>1, <1>2
<1>4. run' \in [Runs -> Run]
  BY <1>1, Blanks DEF IInv, TypeOK
<1>5. registry' \in [Sessions -> Runs \cup {NoRun}] /\ registry'[s] = NoRun
  BY <1>2, <1>3 DEF IInv, TypeOK
<1>6. \A t \in Sessions : t # s => registry'[t] = registry[t]
  BY <1>3 DEF IInv, TypeOK
<1>7. ASSUME NEW q \in Runs
      PROVE  \/ /\ run'[q] \in {Blank("new"), Blank("done")}
                /\ \A t \in Sessions : registry'[t] # q
             \/ /\ run'[q] = run[q]
                /\ run[q].pc = "running" => registry'[run[q].session] = q
                /\ \A t \in Sessions : registry'[t] = q => registry[t] = q
  <2>0. NoRun \notin Runs /\ RunOk(q) /\ RunOk(r)
    BY ConstantsAssumption DEF IInv, RunInv
  <2>1. CASE q = r
    <3>1. \A t \in Sessions : registry'[t] # q
      BY <2>0, <2>1, <1>2, <1>5, <1>6 DEF RunOk
    <3>2. run'[q] = Blank("done")
      BY <2>1, <1>1 DEF IInv, TypeOK
    <3> QED BY <3>1, <3>2
  <2>2. CASE q # r
    <3>1. run'[q] = run[q]
      BY <2>2, <1>1 DEF IInv, TypeOK
    <3>2. \A t \in Sessions : registry'[t] = q => registry[t] = q
      BY <2>0, <1>5, <1>6
    <3>3. run[q].pc = "running" => registry'[run[q].session] = q
      <4>1. run[q].pc = "running" => run[q].session \in Sessions /\ run[q].session # s
        BY <2>0, <2>2, <1>2 DEF RunOk, IInv, TypeOK
      <4> QED BY <4>1, <2>0, <1>6 DEF RunOk
    <3> QED BY <3>1, <3>2, <3>3
  <2> QED BY <2>1, <2>2
<1>8. refresh' \in SUBSET Sessions /\ deleting' \in SUBSET Sessions
  BY <1>1 DEF IInv, TypeOK
<1> HIDE DEF s
<1> QED BY <1>1, <1>4, <1>5, <1>7, <1>8, BlankRuns

-----------------------------------------------------------------------------
(* The actions of the user, the title task and the process.                *)

\* What create, rename and invite have in common: one definition with a new stamp.
LEMMA EditStep ==
    ASSUME IInv, NEW s \in Sessions, NEW d \in Definition,
           d.stamp = now, now <= MaxStamps, now' = now + 1,
           disk' = Merged(disk, [disk EXCEPT ![s] = d]),
           UNCHANGED run, created \subseteq created', s \in created'
    PROVE  /\ VersionInv'
           /\ disk' \in Copy
           /\ now' \in 1..(MaxStamps + 1)
           /\ \A t \in Sessions : disk'[t] # NoFile => disk'[t].stamp < now'
<1> DEFINE copy == [disk EXCEPT ![s] = d]
<1>1. /\ copy \in Copy
      /\ \A t \in Sessions : copy[t] = IF t = s THEN d ELSE disk[t]
  BY Types DEF IInv, Copy
<1>2. disk' \in Copy /\ \A t \in Sessions : disk'[t] \in {disk[t], copy[t]}
  BY <1>1, MergedIsOneOfTwo, Types DEF IInv
<1> HIDE DEF copy
<1>3. now' \in Nat /\ now' > now /\ now' >= now /\ now' \in 1..(MaxStamps + 1)
  BY ConstantsAssumption DEF IInv, TypeOK
<1>4. \A t \in Sessions : \A v \in Versions(t)' :
         \/ v = NoFile
         \/ v \in Versions(t)
         \/ v = copy[t] /\ v.stamp = now /\ now' > now /\ t \in created'
  BY <1>1, <1>2, <1>3 DEF Versions
<1>5. TypeOK /\ VersionInv
  BY DEF IInv
<1>6. VersionInv'
  BY <1>3, <1>4, <1>5, VersionStep
<1>7. \A t \in Sessions : disk'[t] # NoFile => disk'[t].stamp < now'
  BY <1>6 DEF VersionInv, OfItsTime, Versions
<1> QED BY <1>2, <1>3, <1>6, <1>7

LEMMA CreateKeepsIInv ==
    ASSUME IInv, NEW s \in Sessions, Create(s)
    PROVE  IInv'
<1> DEFINE d == [title |-> "new", stamp |-> now]
<1>1. /\ s \notin created
      /\ now <= MaxStamps /\ now' = now + 1
      /\ created' = created \cup {s}
      /\ disk' = Merged(disk, [disk EXCEPT ![s] = d])
      /\ history' = [history EXCEPT ![s] = Nothing]
      /\ UNCHANGED <<run, registry, refresh, deleting>>
  BY DEF Create, Tick
<1>2. d \in Definition /\ d.stamp = now
  BY Types DEF IInv, Definition, Titles
<1>3. Nothing \in History /\ \A k \in Messages : Nothing[k] = 0
  BY DEF Nothing, History
<1> HIDE DEF d
<1>4. \A t \in Sessions : history'[t] = IF t = s THEN Nothing ELSE history[t]
  BY <1>1 DEF IInv, TypeOK
<1>5. VersionInv'
  BY <1>1, <1>2, EditStep
<1>6. TypeOK'
  BY <1>1, <1>2, <1>3, EditStep DEF IInv, TypeOK
<1>7. RunInv'
  BY <1>1, SameRuns DEF IInv
<1>8. CountInv'
  BY <1>1, <1>3, <1>4 DEF IInv, CountInv, ResentMessageIsRecordedOnce
<1>9. RunKeepsItsMessages'
  <2>1. \A q \in Runs : run[q].saved => run[q].session \in created
    BY DEF IInv, RunInv, RunOk
  <2> QED BY <2>1, <1>1, <1>4 DEF IInv, TypeOK, RunKeepsItsMessages
<1> QED BY <1>5, <1>6, <1>7, <1>8, <1>9 DEF IInv

LEMMA RenameKeepsIInv ==
    ASSUME IInv, NEW s \in Sessions, NEW name \in Names, Rename(s, name)
    PROVE  IInv'
<1> DEFINE d == [title |-> name, stamp |-> now]
<1>1. /\ disk[s] # NoFile
      /\ now <= MaxStamps /\ now' = now + 1
      /\ disk' = Merged(disk, [disk EXCEPT ![s] = d])
      /\ UNCHANGED <<history, created, run, registry, refresh, deleting>>
  BY DEF Rename, Tick
<1>2. d \in Definition /\ d.stamp = now /\ s \in created
  BY <1>1, Types, DiskStamps DEF IInv, Definition, Titles
<1> HIDE DEF d
<1>3. VersionInv'
  BY <1>1, <1>2, EditStep
<1>4. TypeOK'
  BY <1>1, <1>2, EditStep DEF IInv, TypeOK
<1>5. RunInv'
  BY <1>1, SameRuns DEF IInv
<1>6. CountInv' /\ RunKeepsItsMessages'
  BY <1>1 DEF IInv, CountInv, ResentMessageIsRecordedOnce, RunKeepsItsMessages
<1> QED BY <1>3, <1>4, <1>5, <1>6 DEF IInv

LEMMA InviteKeepsIInv ==
    ASSUME IInv, NEW s \in Sessions, NEW m \in Replies, Invite(s, m)
    PROVE  IInv'
<1> DEFINE d == Stamped(disk[s])
<1>1. /\ disk[s] # NoFile
      /\ Fresh(m)
      /\ now <= MaxStamps /\ now' = now + 1
      /\ history' = [history EXCEPT ![s] = With(@, m)]
      /\ disk' = Merged(disk, [disk EXCEPT ![s] = d])
      /\ UNCHANGED <<created, run, registry, refresh, deleting>>
  BY DEF Invite, Tick
<1>2. d \in Definition /\ d.stamp = now /\ s \in created
  <2>1. disk[s] \in Definition /\ now \in Nat
    BY <1>1, Types DEF IInv
  <2> QED BY <2>1, <1>1, StampedIsADefinition, DiskStamps DEF IInv
<1>3. /\ history[s] \in History /\ m \in Messages /\ history[s][m] = 0
      /\ With(history[s], m) \in History
      /\ \A k \in Messages : With(history[s], m)[k] <= 1 /\ With(history[s], m)[k] >= history[s][k]
  BY <1>1, Types, WithIsAHistory
  DEF IInv, Messages, Fresh, CountInv, ResentMessageIsRecordedOnce
<1> HIDE DEF d
<1>4. \A t \in Sessions : history'[t] = IF t = s THEN With(history[s], m) ELSE history[t]
  BY <1>1 DEF IInv, TypeOK
<1>5. VersionInv'
  BY <1>1, <1>2, EditStep
<1>6. TypeOK'
  BY <1>1, <1>2, <1>3, EditStep DEF IInv, TypeOK
<1>7. RunInv'
  BY <1>1, SameRuns DEF IInv
<1>8. CountInv'
  BY <1>1, <1>3, <1>4 DEF IInv, CountInv, ResentMessageIsRecordedOnce
<1>9. RunKeepsItsMessages'
  <2> SUFFICES ASSUME NEW q \in Runs, run[q].saved, NEW k \in Messages
               PROVE  history'[run[q].session][k] >= run[q].list[k]
    BY <1>1 DEF RunKeepsItsMessages
  <2>1. run[q].session \in Sessions
    BY DEF IInv, TypeOK, RunInv, RunOk
  <2>2. history[run[q].session][k] >= run[q].list[k]
    BY DEF IInv, RunKeepsItsMessages
  <2>3. /\ history[run[q].session][k] \in Nat /\ run[q].list[k] \in Nat
        /\ With(history[s], m)[k] \in Nat
    BY <2>1, <1>3, Types DEF IInv, History
  <2> QED BY <2>1, <2>2, <2>3, <1>3, <1>4
<1> QED BY <1>5, <1>6, <1>7, <1>8, <1>9 DEF IInv

LEMMA TitleRefreshKeepsIInv ==
    ASSUME IInv, NEW s \in Sessions, TitleRefresh(s)
    PROVE  IInv'
<1> DEFINE d == [disk[s] EXCEPT !.title = "model"]
           copy == [disk EXCEPT ![s].title = "model"]
<1>1. /\ refresh' = refresh \ {s}
      /\ UNCHANGED <<history, created, run, registry, deleting, now>>
  BY DEF TitleRefresh
<1>2. VersionInv' /\ disk' \in Copy
  <2>1. CASE UNCHANGED disk
    BY <2>1, <1>1, SameVersions, Types DEF IInv
  <2>2. CASE disk[s] # NoFile /\ ~Manual(disk[s]) /\ disk' = Merged(disk, copy)
    <3>1. disk[s] \in Definition
      BY <2>2, Types DEF IInv
    <3>2. /\ d \in Definition /\ d.stamp = disk[s].stamp /\ ~Manual(d)
      BY <3>1, ConstantsAssumption DEF Definition, Titles, Manual
    <3>3. copy \in Copy /\ \A t \in Sessions : copy[t] = IF t = s THEN d ELSE disk[t]
      BY <3>1, <3>2, Types DEF IInv, Copy
    <3>4. disk' \in Copy /\ \A t \in Sessions : disk'[t] \in {disk[t], copy[t]}
      BY <2>2, <3>3, MergedIsOneOfTwo, Types DEF IInv
    <3> HIDE DEF d, copy
    <3>5. \A t \in Sessions : \A v \in Versions(t)' : v \in Versions(t) \/ (t = s /\ v = d)
      BY <3>3, <3>4, <1>1 DEF Versions
    <3>6. disk[s] \in Versions(s)
      BY DEF Versions
    <3>7. \A t \in Sessions : OfItsTime(t)'
      BY <3>2, <3>5, <3>6, <2>2, <1>1 DEF IInv, VersionInv, OfItsTime
    <3>8. ASSUME NEW t \in Sessions, NEW v \in Versions(t)', NEW w \in Versions(t)',
                 v # NoFile, w # NoFile, v.stamp = w.stamp, Manual(v)
          PROVE  v = w
      <4>1. v \in Versions(t)
        BY <3>2, <3>5, <3>8
      <4>2. CASE w \in Versions(t)
        BY <3>8, <4>1, <4>2 DEF IInv, VersionInv, OneEditPerStamp
      <4>3. CASE t = s /\ w = d
        <5>1. v.stamp = disk[s].stamp
          BY <3>2, <3>8, <4>3
        <5>2. v = disk[s]
          BY <3>6, <3>8, <4>1, <4>3, <5>1, <2>2 DEF IInv, VersionInv, OneEditPerStamp
        <5> QED BY <5>2, <3>8, <2>2
      <4> QED BY <3>5, <4>2, <4>3
    <3>9. \A t \in Sessions : OneEditPerStamp(t)'
      BY <3>8 DEF OneEditPerStamp, Manual
    <3> QED BY <3>4, <3>7, <3>9 DEF VersionInv
  <2> QED BY <2>1, <2>2 DEF TitleRefresh
<1>3. TypeOK'
  <2>1. \A t \in Sessions : disk'[t] # NoFile => disk'[t].stamp < now'
    BY <1>2 DEF VersionInv, OfItsTime, Versions
  <2> QED BY <2>1, <1>1, <1>2 DEF IInv, TypeOK
<1>4. RunInv'
  BY <1>1, SameRuns DEF IInv
<1>5. CountInv' /\ RunKeepsItsMessages'
  BY <1>1 DEF IInv, CountInv, ResentMessageIsRecordedOnce, RunKeepsItsMessages
<1> QED BY <1>2, <1>3, <1>4, <1>5 DEF IInv

LEMMA DeleteMessageKeepsIInv ==
    ASSUME IInv, NEW s \in Sessions, NEW m \in Messages, DeleteMessage(s, m)
    PROVE  IInv'
<1> DEFINE list == [history[s] EXCEPT ![m] = 0]
<1>1. /\ registry[s] = NoRun
      /\ history' = [history EXCEPT ![s] = list]
      /\ UNCHANGED <<disk, created, run, registry, refresh, deleting, now>>
  BY DEF DeleteMessage
<1>2. history[s] \in History /\ \A k \in Messages : history[s][k] <= 1
  BY Types DEF IInv, CountInv, ResentMessageIsRecordedOnce
<1>3. list \in History /\ \A k \in Messages : list[k] <= 1
  BY <1>2 DEF History
<1> HIDE DEF list
<1>4. \A t \in Sessions : history'[t] = IF t = s THEN list ELSE history[t]
  BY <1>1 DEF IInv, TypeOK
<1>5. TypeOK'
  BY <1>1, <1>3 DEF IInv, TypeOK
<1>6. RunInv' /\ VersionInv'
  BY <1>1, SameRuns, SameVersions DEF IInv
<1>7. CountInv'
  BY <1>1, <1>3, <1>4 DEF IInv, CountInv, ResentMessageIsRecordedOnce
<1>8. RunKeepsItsMessages'
  <2>1. \A q \in Runs : run[q].saved => run[q].session \in Sessions /\ run[q].session # s
    BY <1>1, ConstantsAssumption DEF IInv, TypeOK, RunInv, RunOk
  <2> QED BY <2>1, <1>1, <1>4 DEF IInv, RunKeepsItsMessages
<1> QED BY <1>5, <1>6, <1>7, <1>8 DEF IInv

\* cancel_group_session_run, for Stop and DeleteBegin.
LEMMA CancelKeepsIInv ==
    ASSUME IInv, NEW s \in Sessions, Cancel(s),
           UNCHANGED <<disk, history, created, refresh, now>>, deleting' \in SUBSET Sessions
    PROVE  IInv'
<1>1. run' = Cancelled(s) /\ registry' = [registry EXCEPT ![s] = NoRun]
  BY DEF Cancel
<1>2. /\ run' \in [Runs -> Run]
      /\ registry' \in [Sessions -> Runs \cup {NoRun}]
      /\ registry'[s] = NoRun
      /\ \A t \in Sessions : t # s => registry'[t] = registry[t]
  BY <1>1, CancelledFacts DEF IInv, TypeOK
<1>3. ASSUME NEW q \in Runs
      PROVE  \/ /\ run'[q] \in {Blank("new"), Blank("done")}
                /\ \A t \in Sessions : registry'[t] # q
             \/ /\ run'[q] = run[q]
                /\ run[q].pc = "running" => registry'[run[q].session] = q
                /\ \A t \in Sessions : registry'[t] = q => registry[t] = q
  <2>0. NoRun \notin Runs /\ RunOk(q)
    BY ConstantsAssumption DEF IInv, RunInv
  <2>1. CASE q = registry[s]
    BY <2>0, <2>1, <1>1, <1>2, CancelledFacts
  <2>2. CASE q # registry[s]
    <3>1. run'[q] = run[q]
      BY <2>2, <1>1, CancelledFacts
    <3>2. \A t \in Sessions : registry'[t] = q => registry[t] = q
      BY <2>0, <1>2
    <3>3. run[q].pc = "running" => run[q].session \in Sessions /\ run[q].session # s
      BY <2>0, <2>2 DEF RunOk, IInv, TypeOK
    <3> QED BY <3>1, <3>2, <3>3, <2>0, <1>2 DEF RunOk
  <2> QED BY <2>1, <2>2
<1>4. refresh' \in SUBSET Sessions
  BY DEF IInv, TypeOK
<1> QED BY <1>2, <1>3, <1>4, BlankRuns

LEMMA DeleteEndKeepsIInv ==
    ASSUME IInv, NEW s \in Sessions, DeleteEnd(s)
    PROVE  IInv'
<1> DEFINE left == [disk EXCEPT ![s] = NoFile]
<1>1. deleting' = deleting \ {s} /\ UNCHANGED <<created, registry, refresh, now>>
  BY DEF DeleteEnd
<1>2. CASE disk[s] = NoFile
  <2>1. UNCHANGED <<disk, history, run>>
    BY <1>2 DEF DeleteEnd
  <2>2. RunInv' /\ VersionInv'
    BY <2>1, <1>1, SameRuns, SameVersions DEF IInv
  <2>3. TypeOK' /\ CountInv' /\ RunKeepsItsMessages'
    BY <2>1, <1>1
    DEF IInv, TypeOK, CountInv, ResentMessageIsRecordedOnce, RunKeepsItsMessages
  <2> QED BY <2>2, <2>3 DEF IInv
<1>3. CASE disk[s] # NoFile
  <2>1. /\ disk' = left
        /\ history' = [t \in Sessions |-> IF left[t] = NoFile THEN Nothing ELSE history[t]]
        /\ run' = [r \in Runs |->
                     IF run[r].session \in Sessions /\ left[run[r].session] = NoFile
                     THEN [run[r] EXCEPT !.saved = FALSE] ELSE run[r]]
    BY <1>3 DEF DeleteEnd
  <2>2. left \in Copy /\ \A t \in Sessions : left[t] \in {disk[t], NoFile}
    BY Types DEF IInv, Copy
  <2> HIDE DEF left
  <2>3. ASSUME NEW q \in Runs
        PROVE  /\ run'[q] \in Run
               /\ run'[q].pc = run[q].pc /\ run'[q].session = run[q].session
               /\ run'[q].list = run[q].list /\ run'[q].copy = run[q].copy
               /\ run'[q].saved => run[q].saved
               /\ run[q].session \in Sessions /\ run'[q].saved => left[run[q].session] # NoFile
               /\ ~run[q].saved => run'[q] = run[q]
    <3>1. run[q] \in Run
      BY Types DEF IInv
    <3>2. CASE run[q].session \in Sessions /\ left[run[q].session] = NoFile
      <4>1. run'[q] = [run[q] EXCEPT !.saved = FALSE]
        BY <2>1, <3>2
      <4> QED BY <3>1, <3>2, <4>1 DEF Run
    <3>3. CASE ~(run[q].session \in Sessions /\ left[run[q].session] = NoFile)
      <4>1. run'[q] = run[q]
        BY <2>1, <3>3
      <4> QED BY <3>1, <3>3, <4>1
    <3> QED BY <3>2, <3>3
  <2>4. Nothing \in History /\ \A k \in Messages : Nothing[k] = 0
    BY DEF Nothing, History
  <2>5. VersionInv'
    <3>1. \A t \in Sessions : \A v \in Versions(t)' : v = NoFile \/ v \in Versions(t)
      BY <2>1, <2>2, <2>3 DEF Versions
    <3>2. TypeOK /\ VersionInv /\ now \in Nat
      BY Types DEF IInv
    <3> QED BY <3>1, <3>2, <1>1, VersionStep
  <2>6. TypeOK'
    <3>1. \A t \in Sessions : disk'[t] # NoFile => disk'[t].stamp < now'
      BY <2>5 DEF VersionInv, OfItsTime, Versions
    <3>2. run' \in [Runs -> Run]
      BY <2>1, <2>3
    <3>3. history' \in [Sessions -> History]
      BY <2>1, <2>4 DEF IInv, TypeOK
    <3> QED BY <3>1, <3>2, <3>3, <1>1, <2>1, <2>2 DEF IInv, TypeOK
  <2>7. RunInv'
    <3> SUFFICES ASSUME NEW q \in Runs PROVE RunOk(q)'
      BY DEF RunInv
    <3>1. RunOk(q)
      BY DEF IInv, RunInv
    <3>2. run[q].pc \in {"new", "done"} => ~run[q].saved
      BY <3>1, Blanks DEF RunOk
    <3> QED BY <3>1, <3>2, <2>3, <1>1 DEF RunOk
  <2>8. CountInv'
    BY <2>1, <2>3, <2>4 DEF IInv, CountInv, ResentMessageIsRecordedOnce
  <2>9. RunKeepsItsMessages'
    <3> SUFFICES ASSUME NEW q \in Runs, run'[q].saved, NEW k \in Messages
                 PROVE  history'[run'[q].session][k] >= run'[q].list[k]
      BY DEF RunKeepsItsMessages
    <3>1. run[q].saved /\ run[q].session \in Sessions /\ left[run[q].session] # NoFile
      BY <2>3 DEF IInv, TypeOK, RunInv, RunOk
    <3>2. history'[run[q].session] = history[run[q].session]
      BY <3>1, <2>1
    <3> QED BY <3>1, <3>2, <2>3 DEF IInv, RunKeepsItsMessages
  <2> QED BY <2>5, <2>6, <2>7, <2>8, <2>9 DEF IInv
<1> QED BY <1>2, <1>3

LEMMA RestartKeepsIInv ==
    ASSUME IInv, Restart
    PROVE  IInv'
<1>1. /\ run' = [r \in Runs |-> Blank(IF run[r].pc = "new" THEN "new" ELSE "done")]
      /\ registry' = [s \in Sessions |-> NoRun]
      /\ refresh' = {} /\ deleting' = {}
      /\ UNCHANGED <<disk, history, created, now>>
  BY DEF Restart
<1>2. run' \in [Runs -> Run] /\ \A r \in Runs : run'[r] \in {Blank("new"), Blank("done")}
  BY <1>1, Blanks
<1>3. \A r \in Runs, s \in Sessions : registry'[s] # r
  BY <1>1, ConstantsAssumption
<1>4. registry' \in [Sessions -> Runs \cup {NoRun}]
  BY <1>1
<1> QED BY <1>1, <1>2, <1>3, <1>4, BlankRuns

-----------------------------------------------------------------------------
(* The invariant and the theorems.                                         *)

LEMMA InitIInv == Init => IInv
<1> SUFFICES ASSUME Init PROVE IInv
  OBVIOUS
<1> DEFINE d == [title |-> "new", stamp |-> 0]
<1>1. NoCopy \in Copy /\ Nothing \in History /\ d \in Definition
  BY DEF NoCopy, Copy, Nothing, History, Definition, Titles
<1>2. /\ disk \in Copy
      /\ \A s \in Sessions : disk[s] # NoFile => disk[s] = d /\ s \in created
  BY <1>1, ConstantsAssumption DEF Init, NoCopy, Copy
<1>3. d.stamp = 0 /\ now = 1 /\ ~Manual(d)
  BY ConstantsAssumption DEF Init, Manual
<1> HIDE DEF d
<1>4. \A r \in Runs : run[r] = Blank("new") /\ run[r] \in Run
  BY Blanks DEF Init
<1>5. TypeOK
  BY <1>1, <1>2, <1>3, <1>4, ConstantsAssumption DEF Init, TypeOK
<1>6. RunInv
  <2> SUFFICES ASSUME NEW r \in Runs PROVE RunOk(r)
    BY DEF RunInv
  <2>1. \A s \in Sessions : registry[s] # r
    BY ConstantsAssumption DEF Init
  <2> QED BY <2>1, <1>4, Blanks DEF RunOk
<1>7. VersionInv
  <2>1. \A s \in Sessions : \A v \in Versions(s) : v = NoFile \/ (v = d /\ s \in created)
    BY <1>2, <1>4, Blanks DEF Versions
  <2>2. \A s \in Sessions : OfItsTime(s)
    BY <2>1, <1>3 DEF OfItsTime
  <2>3. \A s \in Sessions : OneEditPerStamp(s)
    BY <2>1 DEF OneEditPerStamp
  <2> QED BY <2>2, <2>3 DEF VersionInv
<1>8. CountInv /\ RunKeepsItsMessages
  <2>1. \A r \in Runs : run[r].saved = FALSE /\ \A m \in Messages : run[r].list[m] = 0
    BY <1>4, Blanks
  <2>2. \A s \in Sessions, m \in Messages : history[s][m] = 0
    BY DEF Init, Nothing
  <2> QED BY <2>1, <2>2 DEF CountInv, ResentMessageIsRecordedOnce, RunKeepsItsMessages
<1> QED BY <1>5, <1>6, <1>7, <1>8 DEF IInv

LEMMA NextIInv == IInv /\ [Next]_vars => IInv'
<1> SUFFICES ASSUME IInv, [Next]_vars PROVE IInv'
  OBVIOUS
<1>1. CASE UNCHANGED vars
  <2>1. RunInv' /\ VersionInv'
    BY <1>1, SameRuns, SameVersions DEF IInv, vars
  <2>2. TypeOK' /\ CountInv' /\ RunKeepsItsMessages'
    BY <1>1
    DEF IInv, TypeOK, CountInv, ResentMessageIsRecordedOnce, RunKeepsItsMessages, vars
  <2> QED BY <2>1, <2>2 DEF IInv
<1>2. ASSUME NEW r \in Runs, RunStep(r) PROVE IInv'
  <2>1. CASE \E s \in Sessions, m \in UserMessages : Accept(r, s, m)
    BY <2>1, AcceptKeepsIInv
  <2>2. CASE \E m \in Replies : Append(r, m)
    BY <2>2, AppendKeepsIInv
  <2> QED BY <1>2, <2>1, <2>2, RegisterKeepsIInv, SaveDefinitionsKeepsIInv, FinishKeepsIInv
          DEF RunStep
<1>3. ASSUME NEW s \in Sessions, SessionStep(s) PROVE IInv'
  <2>1. CASE Stop(s)
    <3>1. Cancel(s) /\ UNCHANGED <<disk, history, created, refresh, deleting, now>>
      BY <2>1 DEF Stop
    <3>2. deleting' \in SUBSET Sessions
      BY <3>1 DEF IInv, TypeOK
    <3> QED BY <3>1, <3>2, CancelKeepsIInv
  <2>2. CASE DeleteBegin(s)
    <3>1. Cancel(s) /\ UNCHANGED <<disk, history, created, refresh, now>>
      BY <2>2 DEF DeleteBegin
    <3>2. deleting' \in SUBSET Sessions
      BY <2>2 DEF DeleteBegin, IInv, TypeOK
    <3> QED BY <3>1, <3>2, CancelKeepsIInv
  <2>3. CASE \E name \in Names : Rename(s, name)
    BY <2>3, RenameKeepsIInv
  <2>4. CASE \E m \in Replies : Invite(s, m)
    BY <2>4, InviteKeepsIInv
  <2>5. CASE \E m \in Messages : DeleteMessage(s, m)
    BY <2>5, DeleteMessageKeepsIInv
  <2> QED BY <1>3, <2>1, <2>2, <2>3, <2>4, <2>5, CreateKeepsIInv, TitleRefreshKeepsIInv,
             DeleteEndKeepsIInv
          DEF SessionStep
<1>4. CASE Restart
  BY <1>4, RestartKeepsIInv
<1> QED BY <1>1, <1>2, <1>3, <1>4 DEF Next

LEMMA Invariance == Spec => []IInv
  BY InitIInv, NextIInv, PTL DEF Spec

\* What a merge puts over an edit of the user: a version that is not older, so either
\* the same one, if it is one of those there are, or one that is stamped now.
LEMMA MergeOverAnEdit ==
    ASSUME IInv, NEW copy \in Copy, disk' = Merged(disk, copy), NEW s \in Sessions,
           Manual(disk[s]), disk'[s] # disk[s],
           copy[s] \in Versions(s) \/ copy[s].stamp = now
    PROVE  disk'[s].stamp > disk[s].stamp
<1>1. /\ disk'[s] = copy[s] /\ copy[s] # NoFile
      /\ disk[s] # NoFile /\ ~Newer(disk[s], copy[s])
  BY DEF Merged, Manual
<1>2. disk[s] \in Definition /\ copy[s] \in Definition
  BY <1>1, Types DEF IInv
<1>3. disk[s].stamp \in Nat /\ copy[s].stamp \in Nat /\ disk[s].stamp < now
  BY <1>1, <1>2, DiskStamps DEF IInv, Definition
<1>4. copy[s].stamp >= disk[s].stamp
  BY <1>1, <1>3 DEF Newer
<1>5. CASE copy[s].stamp = now
  BY <1>1, <1>3, <1>5
<1>6. CASE copy[s] \in Versions(s)
  <2>1. disk[s] \in Versions(s)
    BY DEF Versions
  <2>2. copy[s].stamp # disk[s].stamp
    BY <1>1, <1>6, <2>1 DEF IInv, VersionInv, OneEditPerStamp
  <2> QED BY <1>1, <1>3, <1>4, <2>2
<1> QED BY <1>5, <1>6

\* The files, the requests and the stamps are well typed, for any bound on the stamps.
THEOREM TypeCorrect == Spec => []TypeOK
<1>1. IInv => TypeOK
  BY DEF IInv
<1> QED BY <1>1, Invariance, PTL

\* Any number of chat requests, invitations, deletions and takeovers: what a run has
\* saved stays in history.json until it ends (DELETE of a message is refused meanwhile,
\* a takeover ends the run, and all other writers only add).
THEOREM RunsKeepTheirMessages == Spec => []RunKeepsItsMessages
<1>1. IInv => RunKeepsItsMessages
  BY DEF IInv
<1> QED BY <1>1, Invariance, PTL

\* However often a client repeats a message, history.json holds it at most once.
THEOREM ResentIsRecordedOnce == Spec => []ResentMessageIsRecordedOnce
<1>1. IInv => ResentMessageIsRecordedOnce
  BY DEF IInv, CountInv
<1> QED BY <1>1, Invariance, PTL

\* A step that writes session.json over an edit of the user does it with a newer stamp.
THEOREM EditsSurvive == Spec => EditsSurviveOtherTasks
<1> DEFINE Keeps == \A s \in Sessions :
             Manual(disk[s]) /\ disk'[s] \notin {disk[s], NoFile} => disk'[s].stamp > disk[s].stamp
<1>1. ASSUME IInv, [Next]_vars PROVE Keeps
  <2> SUFFICES ASSUME NEW s \in Sessions, Manual(disk[s]), disk'[s] \notin {disk[s], NoFile}
               PROVE  disk'[s].stamp > disk[s].stamp
    OBVIOUS
  <2>0. /\ disk \in Copy /\ now \in Nat
        /\ disk[s] \in Versions(s) /\ disk[s] \in Definition
    BY <1>1, Types DEF IInv, Manual, Versions
  <2>1. ASSUME NEW r \in Runs, NEW t \in Sessions, NEW m \in UserMessages, Accept(r, t, m)
        PROVE  disk'[s].stamp > disk[s].stamp
    <3> DEFINE again == Recorded(t, m)
               titled == ~again /\ ~Manual(disk[t]) /\ \A u \in UserMessages : history[t][u] = 0
               own == IF titled THEN [disk[t] EXCEPT !.title = "first"] ELSE disk[t]
               copy == [disk EXCEPT ![t] = IF again THEN own ELSE Stamped(own)]
    <3>1. disk' = Merged(disk, copy) /\ disk[t] # NoFile
      BY <2>1 DEF Accept
    <3>2. disk[t] \in Definition
      BY <1>1, <3>1, Types DEF IInv
    <3>3. own \in Definition /\ (again => own = disk[t])
      BY <3>2 DEF Definition, Titles
    <3>4. Stamped(own) \in Definition /\ Stamped(own).stamp = now
      BY <3>3, <2>0, StampedIsADefinition
    <3> HIDE DEF own, again
    <3>5. copy \in Copy
      BY <3>3, <3>4, <2>0 DEF Copy
    <3>6. copy[s] = disk[s] \/ copy[s].stamp = now
      BY <3>3, <3>4, <2>0 DEF Copy
    <3> HIDE DEF copy
    <3> QED BY <1>1, <2>0, <3>1, <3>5, <3>6, MergeOverAnEdit
  <2>2. ASSUME NEW r \in Runs, NEW m \in Replies, Append(r, m)
        PROVE  disk'[s].stamp > disk[s].stamp
    <3> DEFINE t == run[r].session
               copy == [run[r].copy EXCEPT ![t] = Stamped(@)]
    <3>1. disk' = Merged(disk, copy) /\ run[r].pc = "running"
      BY <2>2 DEF Append
    <3>2. run[r].copy \in Copy /\ t \in Sessions /\ run[r].copy[t] \in Definition
      BY <1>1, <3>1, Types DEF IInv, RunInv, RunOk, TypeOK
    <3>3. Stamped(run[r].copy[t]) \in Definition /\ Stamped(run[r].copy[t]).stamp = now
      BY <2>0, <3>2, StampedIsADefinition
    <3> HIDE DEF t
    <3>4. copy \in Copy /\ (copy[s] = run[r].copy[s] \/ copy[s].stamp = now)
      BY <3>2, <3>3 DEF Copy
    <3>5. run[r].copy[s] \in Versions(s)
      BY DEF Versions
    <3> HIDE DEF copy
    <3> QED BY <1>1, <3>1, <3>4, <3>5, MergeOverAnEdit
  <2>3. ASSUME NEW r \in Runs, SaveDefinitions(r)
        PROVE  disk'[s].stamp > disk[s].stamp
    <3>1. disk' = Merged(disk, run[r].copy)
      BY <2>3 DEF SaveDefinitions
    <3>2. run[r].copy \in Copy /\ run[r].copy[s] \in Versions(s)
      BY <1>1, Types DEF IInv, Versions
    <3> QED BY <1>1, <3>1, <3>2, MergeOverAnEdit
  <2>4. ASSUME NEW t \in Sessions, NEW d \in Definition, d.stamp = now,
               disk' = Merged(disk, [disk EXCEPT ![t] = d])
        PROVE  disk'[s].stamp > disk[s].stamp
    <3> DEFINE copy == [disk EXCEPT ![t] = d]
    <3>1. copy \in Copy /\ (copy[s] = disk[s] \/ copy[s].stamp = now)
      BY <2>0, <2>4 DEF Copy
    <3> HIDE DEF copy
    <3> QED BY <1>1, <2>0, <2>4, <3>1, MergeOverAnEdit DEF copy
  <2>5. ASSUME NEW t \in Sessions, NEW title \in Titles,
               disk' = Merged(disk, [disk EXCEPT ![t] = [title |-> title, stamp |-> now]])
        PROVE  disk'[s].stamp > disk[s].stamp
    <3>1. [title |-> title, stamp |-> now] \in Definition
      BY <2>0 DEF Definition
    <3> QED BY <2>4, <2>5, <3>1
  <2>6. ASSUME NEW t \in Sessions, NEW m \in Replies, Invite(t, m)
        PROVE  disk'[s].stamp > disk[s].stamp
    <3>1. disk[t] # NoFile /\ disk' = Merged(disk, [disk EXCEPT ![t] = Stamped(@)])
      BY <2>6 DEF Invite
    <3>2. Stamped(disk[t]) \in Definition /\ Stamped(disk[t]).stamp = now
      BY <1>1, <2>0, <3>1, Types, StampedIsADefinition DEF IInv
    <3> QED BY <2>4, <3>1, <3>2
  <2>7. ASSUME NEW t \in Sessions, TitleRefresh(t)
        PROVE  FALSE
    <3> DEFINE copy == [disk EXCEPT ![t].title = "model"]
    <3>1. disk' = Merged(disk, copy) /\ ~Manual(disk[t]) /\ disk[t] # NoFile
      BY <2>7 DEF TitleRefresh
    <3>2. t # s
      BY <3>1
    <3>3. copy[s] = disk[s]
      BY <2>0, <3>2 DEF Copy
    <3> HIDE DEF copy
    <3> QED BY <3>1, <3>3 DEF Merged
  <2>8. ASSUME NEW t \in Sessions, DeleteEnd(t)
        PROVE  FALSE
    BY <2>0, <2>8 DEF DeleteEnd, Copy
  <2>9. disk' # disk
    OBVIOUS
  <2>10. ASSUME NEW r \in Runs, RunStep(r)
         PROVE  disk'[s].stamp > disk[s].stamp
    <3>1. ~Register(r) /\ ~Finish(r)
      BY <2>9 DEF Register, Finish
    <3> QED BY <2>10, <2>1, <2>2, <2>3, <3>1 DEF RunStep
  <2>11. ASSUME NEW t \in Sessions, SessionStep(t)
         PROVE  disk'[s].stamp > disk[s].stamp
    <3>1. ~Stop(t) /\ ~DeleteBegin(t) /\ \A m \in Messages : ~DeleteMessage(t, m)
      BY <2>9 DEF Stop, DeleteBegin, DeleteMessage
    <3>2. CASE Create(t)
      BY <2>5, <3>2 DEF Create, Titles
    <3>3. ASSUME NEW name \in Names, Rename(t, name)
          PROVE  disk'[s].stamp > disk[s].stamp
      BY <2>5, <3>3 DEF Rename, Titles
    <3> QED BY <2>11, <2>6, <2>7, <2>8, <3>1, <3>2, <3>3 DEF SessionStep
  <2>12. ~Restart /\ ~UNCHANGED vars
    BY <2>9 DEF Restart, vars
  <2> QED BY <1>1, <2>10, <2>11, <2>12 DEF Next
<1> QED BY <1>1, Invariance, PTL DEF Spec, EditsSurviveOtherTasks

-----------------------------------------------------------------------------
(* The lease of each session.                                              *)

\* The runs that may append to a session, and those that can take over none any more.
Writers(s) == {r \in Runs : run[r].pc = "running" /\ run[r].session = s}
Spent == {r \in Runs : run[r].pc \in {"running", "done"}}

Lease(s) == INSTANCE RunLease WITH
    writers <- {r \in Runs : run[r].pc = "running" /\ run[r].session = s},
    spent <- {r \in Runs : run[r].pc \in {"running", "done"}}

\* A step in which nothing registers leaves the writer of a session, or ends it.
LEMMA NoTakeover ==
    ASSUME IInv, NEW s \in Sessions, Spent \subseteq Spent', Writers(s)' \subseteq Writers(s)
    PROVE  [Lease(s)!Next]_<<Writers(s), Spent>>
<1>1. Spent' = Spent \cup Spent' /\ Spent' \in SUBSET Runs
  BY DEF Spent
<1>2. Writers(s)' = {} \/ Writers(s)' = Writers(s)
  BY OneWriter DEF Writers, IInv
<1> QED BY <1>1, <1>2 DEF Lease!Next, Lease!Drop, Lease!Lose, Writers, Spent

LEMMA LeaseStep ==
    ASSUME IInv, IInv', [Next]_vars, NEW s \in Sessions
    PROVE  [Lease(s)!Next]_<<Writers(s), Spent>>
<1>1. run \in [Runs -> Run] /\ RunInv
  BY DEF IInv, TypeOK
<1>2. ASSUME NEW r \in Runs, Register(r)
      PROVE  [Lease(s)!Next]_<<Writers(s), Spent>>
  <2>1. /\ run[r].pc = "accepted"
        /\ run' = [Cancelled(run[r].session) EXCEPT ![r].pc = "running"]
    BY <1>2 DEF Register
  <2>2. \A q \in Runs : q # r => run'[q] = run[q] \/ run'[q] = Blank("done")
    BY <2>1 DEF Cancelled
  <2>3. run[r].session \in Sessions /\ registry[run[r].session] # r
    <3>1. RunOk(r)
      BY <1>1 DEF RunInv
    <3>2. run[r].session \in Sessions
      BY <2>1, <3>1 DEF RunOk, IInv, TypeOK
    <3> QED BY <2>1, <3>1, <3>2 DEF RunOk
  <2>4. run'[r].pc = "running" /\ run'[r].session = run[r].session
    <3>1. Cancelled(run[r].session)[r] = run[r]
      BY <2>3 DEF Cancelled
    <3>2. r \in DOMAIN Cancelled(run[r].session)
      BY DEF Cancelled
    <3>3. run'[r] = [run[r] EXCEPT !.pc = "running"]
      BY <2>1, <3>1, <3>2
    <3>4. run[r] \in Run
      BY <1>1
    <3> HIDE DEF IInv
    <3> QED BY <3>3, <3>4 DEF Run
  <2>5. r \notin Spent /\ Spent' = Spent \cup {r}
    <3>1. \A q \in Runs : q # r /\ run'[q] # run[q] => run[q].pc = "running"
      <4>1. \A q \in Runs : q # r /\ run'[q] # run[q] => registry[run[r].session] = q
        BY <2>1 DEF Cancelled
      <4> QED BY <1>1, <2>3, <4>1 DEF RunInv, RunOk
    <3> QED BY <2>1, <2>2, <2>4, <3>1, Blanks DEF Spent
  <2>6. CASE run[r].session = s
    <3>1. Writers(s)' = {r}
      <4>1. ASSUME NEW q \in Runs, q \in Writers(s)' PROVE q = r
        <5>1. run'[q].pc = "running" /\ run'[q].session = s /\ RunOk(q)' /\ RunOk(r)'
          BY <4>1 DEF Writers, IInv, RunInv
        <5> QED BY <2>4, <2>6, <5>1 DEF RunOk
      <4> QED BY <2>4, <2>6, <4>1 DEF Writers
    <3> QED BY <2>5, <3>1 DEF Lease!Next, Lease!Take, Writers, Spent
  <2>7. CASE run[r].session # s
    <3>1. Writers(s)' \subseteq Writers(s)
      BY <2>2, <2>4, <2>7, Blanks DEF Writers
    <3> QED BY <2>5, <3>1, NoTakeover
  <2> QED BY <2>6, <2>7
<1>3. ASSUME \A r \in Runs :
                \/ run'[r].pc = run[r].pc /\ run'[r].session = run[r].session
                \/ run'[r].pc \in {"new", "accepted", "done"} /\ run[r].pc = "new"
                \/ run'[r].pc = "done"
      PROVE  [Lease(s)!Next]_<<Writers(s), Spent>>
  <2>1. Spent \subseteq Spent' /\ Writers(s)' \subseteq Writers(s)
    BY <1>3 DEF Spent, Writers
  <2> QED BY <2>1, NoTakeover
<1>4. ASSUME NEW r \in Runs, RunStep(r)
      PROVE  [Lease(s)!Next]_<<Writers(s), Spent>>
  <2>1. CASE \E t \in Sessions, m \in UserMessages : Accept(r, t, m)
    BY <1>1, <1>3, <2>1 DEF Accept
  <2>2. ASSUME NEW m \in Replies, Append(r, m)
        PROVE  [Lease(s)!Next]_<<Writers(s), Spent>>
    BY <1>1, <1>3, <2>2 DEF Append, Run
  <2>3. CASE SaveDefinitions(r)
    BY <1>3, <2>3 DEF SaveDefinitions
  <2>4. CASE Finish(r)
    BY <1>1, <1>3, <2>4, Blanks DEF Finish
  <2> QED BY <1>2, <1>4, <2>1, <2>2, <2>3, <2>4 DEF RunStep
<1>5. ASSUME NEW t \in Sessions, SessionStep(t)
      PROVE  [Lease(s)!Next]_<<Writers(s), Spent>>
  <2>1. CASE Stop(t) \/ DeleteBegin(t)
    BY <1>3, <2>1, Blanks DEF Stop, DeleteBegin, Cancel, Cancelled
  <2>2. CASE DeleteEnd(t)
    BY <1>1, <1>3, <2>2 DEF DeleteEnd, Run
  <2>3. CASE UNCHANGED run
    BY <1>3, <2>3
  <2> QED BY <1>5, <2>1, <2>2, <2>3
          DEF SessionStep, Create, Rename, Invite, TitleRefresh, DeleteMessage
<1>6. CASE Restart
  BY <1>3, <1>6, Blanks DEF Restart
<1>7. CASE UNCHANGED vars
  BY <1>3, <1>7 DEF vars
<1> QED BY <1>4, <1>5, <1>6, <1>7 DEF Next

\* What the registry promises for one session holds of each session of the store, whatever
\* is created, deleted or restarted: the only run that saves its list over history.json is
\* the last one to take the session over, and a run that another has displaced never saves
\* again.  So the lists of two runs of a session are never saved in turn.
THEOREM ImplementsLease == \A s \in Sessions : Spec => Lease(s)!Spec
<1> SUFFICES ASSUME NEW s \in Sessions PROVE Spec => Lease(s)!Spec
  OBVIOUS
<1>1. Init => Lease(s)!Init
  BY Blanks DEF Init, Lease!Init
<1>2. IInv /\ IInv' /\ [Next]_vars =>
        [Lease(s)!Next]_<<{r \in Runs : run[r].pc = "running" /\ run[r].session = s},
                          {r \in Runs : run[r].pc \in {"running", "done"}}>>
  BY LeaseStep DEF Writers, Spent
<1> QED BY <1>1, <1>2, Invariance, PTL DEF Spec, Lease!Spec

-----------------------------------------------------------------------------
(* Who can take back a title that the user has set.                        *)

\* No session loses its definition.
NothingDeleted == [][\A s \in Sessions : disk[s] # NoFile => disk'[s] # NoFile]_vars

\* Then no copy that a run holds is newer than the file.
CopiesAreOlder ==
    \A r \in Runs, s \in Sessions : run[r].copy[s] # NoFile =>
        disk[s] # NoFile /\ run[r].copy[s].stamp <= disk[s].stamp

\* The user's title is replaced by the user's next one, or by a message of a run of that
\* session which has loaded its copy before the user's edit; by no run of another session,
\* no title task, no invitation and no new session.
TitlesAreLostToTheirRunsOnly ==
    [][\A s \in Sessions :
          Manual(disk[s]) /\ disk'[s] # NoFile /\ disk'[s].title # disk[s].title =>
              \/ \E name \in Names : Rename(s, name)
              \/ \E r \in Runs, m \in Replies :
                    /\ Append(r, m)
                    /\ run[r].session = s
                    /\ run[r].copy[s].stamp < disk[s].stamp]_vars

LEMMA MergeSteps ==
    ASSUME IInv, IInv', NEW copy, disk' = Merged(disk, copy), NEW s \in Sessions
    PROVE  /\ disk'[s] \in {disk[s], copy[s]}
           /\ disk[s] # NoFile => disk'[s] # NoFile /\ disk'[s].stamp >= disk[s].stamp
           /\ copy[s] \in Definition => disk'[s] # NoFile /\ copy[s].stamp <= disk'[s].stamp
<1>1. disk'[s] = IF copy[s] = NoFile \/ Newer(disk[s], copy[s]) THEN disk[s] ELSE copy[s]
  BY DEF Merged
<1>2. /\ disk[s] # NoFile => disk[s] \in Definition
      /\ disk'[s] # NoFile => disk'[s] \in Definition
  BY DEF IInv, TypeOK, Copy
<1>3. \A d \in Definition : d.stamp \in Nat /\ d # NoFile
  BY ConstantsAssumption DEF Definition, Titles
<1>4. disk[s] # NoFile => disk'[s] # NoFile /\ disk'[s].stamp >= disk[s].stamp
  BY <1>1, <1>2, <1>3 DEF Newer
<1>5. copy[s] \in Definition => disk'[s] # NoFile /\ copy[s].stamp <= disk'[s].stamp
  BY <1>1, <1>2, <1>3 DEF Newer
<1> QED BY <1>1, <1>4, <1>5

KeepsOrLoses(r) == \A s \in Sessions : run'[r].copy[s] \in {run[r].copy[s], NoFile}

\* The step leaves the files as they are, or merges a copy into them; a run that has a new
\* copy has that one.
MergeStep(copy) ==
    \/ disk' = disk /\ \A r \in Runs : KeepsOrLoses(r)
    \/ /\ disk' = Merged(disk, copy)
       /\ \A r \in Runs : KeepsOrLoses(r) \/ run'[r].copy = copy

\* Every step but the end of a deletion is one.
LEMMA StepsMerge ==
    ASSUME IInv, [Next]_vars, \A s \in Sessions : ~DeleteEnd(s)
    PROVE  \E copy : MergeStep(copy)
<1>1. ASSUME UNCHANGED run, disk' = disk \/ \E copy : disk' = Merged(disk, copy)
      PROVE  \E copy : MergeStep(copy)
  BY <1>1 DEF MergeStep, KeepsOrLoses
<1>2. ASSUME UNCHANGED disk, \A r \in Runs : run'[r] \in {run[r], Blank("new"), Blank("done")}
      PROVE  \E copy : MergeStep(copy)
  BY <1>2, Blanks DEF MergeStep, KeepsOrLoses
<1>3. ASSUME NEW r \in Runs, NEW copy, disk' = Merged(disk, copy), run'[r].copy = copy,
             \A q \in Runs : q # r => run'[q] = run[q]
      PROVE  \E c : MergeStep(c)
  BY <1>3 DEF MergeStep, KeepsOrLoses
<1>4. run \in [Runs -> Run]
  BY DEF IInv, TypeOK
<1>5. ASSUME NEW r \in Runs, NEW s \in Sessions, NEW m \in UserMessages, Accept(r, s, m)
      PROVE  \E copy : MergeStep(copy)
  BY <1>3, <1>4, <1>5 DEF Accept
<1>6. ASSUME NEW r \in Runs, NEW m \in Replies, Append(r, m)
      PROVE  \E copy : MergeStep(copy)
  <2> DEFINE copy == [run[r].copy EXCEPT ![run[r].session] = Stamped(@)]
             new == [run[r] EXCEPT !.list = With(run[r].list, m), !.copy = copy, !.saved = TRUE]
  <2>1. disk' = Merged(disk, copy) /\ run' = [run EXCEPT ![r] = new]
    BY <1>4, <1>6 DEF Append
  <2>2. new.copy = copy
    BY <1>4 DEF Run
  <2> HIDE DEF copy, new
  <2> QED BY <1>3, <1>4, <2>1, <2>2
<1>7. ASSUME NEW r \in Runs, SaveDefinitions(r) \/ Register(r) \/ Finish(r)
      PROVE  \E copy : MergeStep(copy)
  <2>1. CASE SaveDefinitions(r)
    BY <1>1, <2>1 DEF SaveDefinitions
  <2>2. CASE Register(r)
    <3> DEFINE runs == Cancelled(run[r].session)
               new == [runs[r] EXCEPT !.pc = "running"]
    <3>1. runs \in [Runs -> Run] /\ \A q \in Runs : runs[q] \in {run[q], Blank("done")}
      BY <1>4, Blanks DEF Cancelled
    <3>2. run' = [runs EXCEPT ![r] = new] /\ UNCHANGED disk
      BY <2>2, <3>1 DEF Register
    <3>3. new.copy = runs[r].copy
      BY <3>1 DEF Run
    <3>4. \A q \in Runs : run'[q].copy = runs[q].copy
      <4> HIDE DEF runs, new
      <4> QED BY <3>1, <3>2, <3>3
    <3>5. \A q \in Runs : KeepsOrLoses(q)
      BY <3>1, <3>4, Blanks DEF KeepsOrLoses
    <3> QED BY <3>2, <3>5 DEF MergeStep
  <2>3. CASE Finish(r)
    BY <1>2, <1>4, <2>3 DEF Finish
  <2> QED BY <1>7, <2>1, <2>2, <2>3
<1>8. ASSUME NEW s \in Sessions, SessionStep(s)
      PROVE  \E copy : MergeStep(copy)
  <2>1. CASE Stop(s) \/ DeleteBegin(s)
    BY <1>2, <2>1 DEF Stop, DeleteBegin, Cancel, Cancelled
  <2>2. CASE Create(s) \/ TitleRefresh(s)
    BY <1>1, <2>2 DEF Create, TitleRefresh
  <2>3. CASE \E name \in Names : Rename(s, name)
    BY <1>1, <2>3 DEF Rename
  <2>4. CASE \E m \in Replies : Invite(s, m)
    BY <1>1, <2>4 DEF Invite
  <2>5. CASE \E m \in Messages : DeleteMessage(s, m)
    BY <1>1, <2>5 DEF DeleteMessage
  <2> QED BY <1>8, <2>1, <2>2, <2>3, <2>4, <2>5 DEF SessionStep
<1>9. CASE Restart
  BY <1>2, <1>9 DEF Restart
<1>10. CASE UNCHANGED vars
  BY <1>1, <1>10 DEF vars
<1> QED BY <1>5, <1>6, <1>7, <1>8, <1>9, <1>10 DEF Next, RunStep

LEMMA CopiesStayOlder ==
    ASSUME IInv, IInv', CopiesAreOlder, [Next]_vars,
           \A s \in Sessions : disk[s] # NoFile => disk'[s] # NoFile
    PROVE  CopiesAreOlder'
<1> SUFFICES ASSUME NEW r \in Runs, NEW s \in Sessions, run'[r].copy[s] # NoFile
             PROVE  disk'[s] # NoFile /\ run'[r].copy[s].stamp <= disk'[s].stamp
  BY DEF CopiesAreOlder
<1>1. run'[r].copy[s] \in Definition
  BY Types DEF IInv, TypeOK, Run, Copy
<1>2. ASSUME run'[r].copy[s] = run[r].copy[s], disk'[s].stamp >= disk[s].stamp
      PROVE  disk'[s] # NoFile /\ run'[r].copy[s].stamp <= disk'[s].stamp
  <2>1. disk[s] # NoFile /\ disk'[s] # NoFile /\ run'[r].copy[s].stamp <= disk[s].stamp
    BY <1>2 DEF CopiesAreOlder
  <2>2. disk[s].stamp \in Nat /\ disk'[s].stamp \in Nat /\ run'[r].copy[s].stamp \in Nat
    BY <1>1, <2>1 DEF IInv, TypeOK, Copy, Definition
  <2> QED BY <1>2, <2>1, <2>2
<1>3. CASE \E t \in Sessions : DeleteEnd(t)
  <2>1. PICK t \in Sessions : DeleteEnd(t)
    BY <1>3
  <2>2. disk[t] = NoFile
    BY <2>1 DEF DeleteEnd, IInv, TypeOK, Copy
  <2>3. UNCHANGED <<disk, run>>
    BY <2>1, <2>2 DEF DeleteEnd
  <2> QED BY <2>3 DEF CopiesAreOlder
<1>4. CASE \A t \in Sessions : ~DeleteEnd(t)
  <2>1. PICK copy : MergeStep(copy)
    BY <1>4, StepsMerge
  <2>2. CASE run'[r].copy = copy /\ disk' = Merged(disk, copy)
    BY <1>1, <2>2, MergeSteps
  <2>3. CASE run'[r].copy[s] = run[r].copy[s]
    <3>1. disk[s] # NoFile
      BY <2>3 DEF CopiesAreOlder
    <3>2. disk'[s].stamp >= disk[s].stamp
      <4>1. CASE disk' = disk
        <5>1. disk[s].stamp \in Nat
          BY <3>1 DEF IInv, TypeOK, Copy, Definition
        <5> QED BY <4>1, <5>1
      <4>2. CASE disk' = Merged(disk, copy)
        BY <3>1, <4>2, MergeSteps
      <4> QED BY <2>1, <4>1, <4>2 DEF MergeStep
    <3> QED BY <1>2, <2>3, <3>2
  <2> QED BY <2>1, <2>2, <2>3 DEF MergeStep, KeepsOrLoses
<1> QED BY <1>3, <1>4

\* The same version with the same stamp is the same definition, if it is an edit.
LEMMA MergeTakesATitle ==
    ASSUME IInv, IInv', CopiesAreOlder, NEW r \in Runs, NEW copy, disk' = Merged(disk, copy),
           NEW s \in Sessions, Manual(disk[s]), disk'[s].title # disk[s].title,
           copy[s] = run[r].copy[s]
    PROVE  FALSE
<1>1. disk'[s] = copy[s] /\ disk[s] # NoFile
  BY MergeSteps DEF Manual
<1>2. disk'[s] # NoFile /\ disk'[s].stamp >= disk[s].stamp
  BY <1>1, MergeSteps
<1>3. copy[s].stamp <= disk[s].stamp
  BY <1>1, <1>2 DEF CopiesAreOlder
<1>4. disk[s].stamp \in Nat /\ copy[s].stamp \in Nat
  BY <1>1, <1>2 DEF IInv, TypeOK, Copy, Definition
<1>5. copy[s].stamp = disk[s].stamp
  BY <1>1, <1>2, <1>3, <1>4
<1>6. copy[s] \in Versions(s) /\ disk[s] \in Versions(s)
  BY DEF Versions
<1>7. copy[s] = disk[s]
  BY <1>1, <1>2, <1>5, <1>6 DEF IInv, VersionInv, OneEditPerStamp
<1> QED BY <1>1, <1>7

LEMMA StepsTakeTitles ==
    ASSUME IInv, IInv', CopiesAreOlder, [Next]_vars, NEW s \in Sessions,
           Manual(disk[s]), disk'[s] # NoFile, disk'[s].title # disk[s].title
    PROVE  \/ \E name \in Names : Rename(s, name)
           \/ \E r \in Runs, m \in Replies :
                 /\ Append(r, m)
                 /\ run[r].session = s
                 /\ run[r].copy[s].stamp < disk[s].stamp
<1>1. /\ disk \in Copy /\ disk' # disk /\ disk[s] # NoFile
      /\ disk[s] \in Definition /\ s \in created
  BY Types, DiskStamps DEF IInv, Manual
<1>2. ASSUME NEW copy, disk' = Merged(disk, copy), copy[s] = disk[s]
      PROVE  FALSE
  BY <1>2 DEF Merged
<1>3. ASSUME NEW t \in Sessions, t # s, NEW d, disk' = Merged(disk, [disk EXCEPT ![t] = d])
      PROVE  FALSE
  <2> DEFINE copy == [disk EXCEPT ![t] = d]
  <2>1. copy[s] = disk[s]
    BY <1>1, <1>3 DEF Copy
  <2> HIDE DEF copy
  <2> QED BY <1>2, <1>3, <2>1 DEF copy
<1>4. ASSUME NEW d, d.title = disk[s].title, disk' = Merged(disk, [disk EXCEPT ![s] = d])
      PROVE  FALSE
  <2> DEFINE copy == [disk EXCEPT ![s] = d]
  <2>1. copy[s] = d
    BY <1>1 DEF Copy
  <2> HIDE DEF copy
  <2>2. disk'[s] \in {disk[s], d}
    BY <1>4, <2>1, MergeSteps DEF copy
  <2> QED BY <1>4, <2>2
<1>5. Stamped(disk[s]).title = disk[s].title
  BY <1>1, StampedIsADefinition, Types DEF IInv
<1>6. ASSUME NEW r \in Runs, NEW t \in Sessions, NEW m \in UserMessages, Accept(r, t, m)
      PROVE  FALSE
  <2> DEFINE again == Recorded(t, m)
             titled == ~again /\ ~Manual(disk[t]) /\ \A u \in UserMessages : history[t][u] = 0
             own == IF titled THEN [disk[t] EXCEPT !.title = "first"] ELSE disk[t]
             d == IF again THEN own ELSE Stamped(own)
  <2>1. disk' = Merged(disk, [disk EXCEPT ![t] = d])
    BY <1>6 DEF Accept
  <2>2. t = s => own = disk[s]
    OBVIOUS
  <2>3. t = s => d \in {disk[s], Stamped(disk[s])}
    BY <2>2
  <2> HIDE DEF d
  <2> QED BY <1>3, <1>4, <1>5, <2>1, <2>3
<1>7. ASSUME NEW r \in Runs, NEW m \in Replies, Append(r, m)
      PROVE  run[r].session = s /\ run[r].copy[s].stamp < disk[s].stamp
  <2> DEFINE t == run[r].session
             copy == [run[r].copy EXCEPT ![t] = Stamped(@)]
  <2>1. disk' = Merged(disk, copy) /\ run[r].pc = "running"
    BY <1>7 DEF Append
  <2>2. run[r].copy \in Copy /\ t \in Sessions /\ run[r].copy[t] \in Definition
    BY <2>1, Types DEF IInv, RunInv, RunOk, TypeOK
  <2>3. CASE t # s
    <3>1. copy[s] = run[r].copy[s]
      BY <2>2, <2>3 DEF Copy
    <3> HIDE DEF copy, t
    <3> QED BY <2>1, <3>1, MergeTakesATitle
  <2>4. CASE t = s
    <3>1. copy[s] = Stamped(run[r].copy[s])
      BY <2>2, <2>4 DEF Copy
    <3>2. copy[s].title = run[r].copy[s].title
      BY <2>2, <2>4, <3>1, StampedIsADefinition, Types DEF IInv
    <3> HIDE DEF copy
    <3>3. disk'[s].title = run[r].copy[s].title
      BY <2>1, <3>2, MergeSteps
    <3>4. run[r].copy[s].stamp <= disk[s].stamp
      <4>1. run[r].copy[s] # NoFile
        BY <2>2, <2>4, ConstantsAssumption DEF Definition, Titles
      <4> QED BY <4>1 DEF CopiesAreOlder
    <3>5. run[r].copy[s].stamp # disk[s].stamp
      <4>1. run[r].copy[s] \in Versions(s) /\ disk[s] \in Versions(s) /\ run[r].copy[s] # NoFile
        BY <2>2, <2>4, ConstantsAssumption DEF Versions, Definition, Titles
      <4> QED BY <1>1, <3>3, <4>1 DEF IInv, VersionInv, OneEditPerStamp
    <3>6. run[r].copy[s].stamp \in Nat /\ disk[s].stamp \in Nat
      BY <1>1, <2>2, <2>4 DEF Definition
    <3> QED BY <2>4, <3>4, <3>5, <3>6
  <2> QED BY <2>3, <2>4
<1>8. ASSUME NEW r \in Runs, SaveDefinitions(r)
      PROVE  FALSE
  BY <1>8, MergeTakesATitle DEF SaveDefinitions
<1>9. ASSUME NEW t \in Sessions, NEW name \in Names, Rename(t, name)
      PROVE  t = s
  BY <1>3, <1>9 DEF Rename
<1>10. ASSUME NEW t \in Sessions, NEW m \in Replies, Invite(t, m)
       PROVE  FALSE
  <2>1. disk' = Merged(disk, [disk EXCEPT ![t] = Stamped(disk[t])])
    BY <1>10 DEF Invite
  <2> QED BY <1>3, <1>4, <1>5, <2>1
<1>11. ASSUME NEW t \in Sessions, Create(t)
       PROVE  FALSE
  <2>1. t # s
    BY <1>1, <1>11 DEF Create
  <2> QED BY <1>3, <1>11, <2>1 DEF Create
<1>12. ASSUME NEW t \in Sessions, TitleRefresh(t)
       PROVE  FALSE
  <2>1. t # s
    BY <1>1, <1>12 DEF TitleRefresh
  <2>2. disk' = Merged(disk, [disk EXCEPT ![t] = [disk[t] EXCEPT !.title = "model"]])
    BY <1>1, <1>12 DEF TitleRefresh
  <2> QED BY <1>3, <2>1, <2>2
<1>13. ASSUME NEW t \in Sessions, DeleteEnd(t)
       PROVE  FALSE
  BY <1>1, <1>13 DEF DeleteEnd, Copy
<1>14. ASSUME NEW r \in Runs, RunStep(r)
       PROVE  \E m \in Replies : Append(r, m)
  <2>1. ~Register(r) /\ ~Finish(r)
    BY <1>1 DEF Register, Finish
  <2> QED BY <1>6, <1>8, <1>14, <2>1 DEF RunStep
<1>15. ASSUME NEW t \in Sessions, SessionStep(t)
       PROVE  \E name \in Names : Rename(t, name)
  <2>1. ~Stop(t) /\ ~DeleteBegin(t) /\ \A m \in Messages : ~DeleteMessage(t, m)
    BY <1>1 DEF Stop, DeleteBegin, DeleteMessage
  <2> QED BY <1>10, <1>11, <1>12, <1>13, <1>15, <2>1 DEF SessionStep
<1>16. ~Restart /\ ~UNCHANGED vars
  BY <1>1 DEF Restart, vars
<1> QED BY <1>7, <1>9, <1>14, <1>15, <1>16 DEF Next

\* As long as no session loses its definition, a title that the user has set is replaced by
\* the user, or by a run of the same session that came in before the edit: that a run stamps
\* its own session is the only way in which an edit is lost.
THEOREM TitlesAreLostToTheirRuns == Spec /\ NothingDeleted => TitlesAreLostToTheirRunsOnly
<1>1. Init => CopiesAreOlder
  BY Blanks DEF Init, CopiesAreOlder
<1>2. IInv /\ IInv' /\ CopiesAreOlder /\ [Next]_vars
      /\ [\A s \in Sessions : disk[s] # NoFile => disk'[s] # NoFile]_vars => CopiesAreOlder'
  <2>1. UNCHANGED vars => (\A s \in Sessions : disk[s] # NoFile => disk'[s] # NoFile)
    BY DEF vars
  <2> QED BY <2>1, CopiesStayOlder
<1>3. IInv /\ IInv' /\ CopiesAreOlder /\ [Next]_vars =>
        [\A s \in Sessions :
            Manual(disk[s]) /\ disk'[s] # NoFile /\ disk'[s].title # disk[s].title =>
                \/ \E name \in Names : Rename(s, name)
                \/ \E r \in Runs, m \in Replies :
                      /\ Append(r, m)
                      /\ run[r].session = s
                      /\ run[r].copy[s].stamp < disk[s].stamp]_vars
  BY StepsTakeTitles
<1> QED BY <1>1, <1>2, <1>3, Invariance, PTL
       DEF Spec, NothingDeleted, TitlesAreLostToTheirRunsOnly

=============================================================================
