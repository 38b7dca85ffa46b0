-------------------------- MODULE RunRegistryProofs --------------------------
(* Proofs about RunRegistry, for any set of chat requests and of stop and  *)
(* delete requests.                                                        *)

EXTENDS RunRegistry, TLAPS

\* A request that waits has cancelled the run it waits for.
WaitsForCancelled ==
    \A q \in Requests :
        request[q].pc = "waiting" =>
            /\ request[q].target \in Runs
            /\ task[request[q].target] \in {"cancelling", "done"}

\* DELETE removes the mirror together with session.json.
NoSessionNoMirror == ~session => runtimeFile = NoRun

Inv ==
    /\ TypeOK
    /\ WaitsForCancelled
    /\ RunningIsRegistered
    /\ NoSessionNoMirror
    /\ MirrorNamesTheWriter

-----------------------------------------------------------------------------
\* Init establishes the invariant.
LEMMA InitInv == Init => Inv
<1> SUFFICES ASSUME Init PROVE Inv
  OBVIOUS
<1> USE DEF Init
<1>1. TypeOK
  <2>1. Idle \in RequestState
    BY DEF Idle, RequestState
  <2>2. task \in [Runs -> TaskState]
    BY DEF TaskState
  <2> QED BY <2>1, <2>2 DEF TypeOK
<1>2. WaitsForCancelled
  BY DEF WaitsForCancelled, Idle
<1>3. RunningIsRegistered /\ MirrorNamesTheWriter
  BY DEF RunningIsRegistered, MirrorNamesTheWriter
<1>4. NoSessionNoMirror
  BY DEF NoSessionNoMirror
<1> QED BY <1>1, <1>2, <1>3, <1>4 DEF Inv

\* The type part, alone: it is used by the others.
LEMMA TypeStep == TypeOK /\ [Next]_vars => TypeOK'
<1> SUFFICES ASSUME TypeOK, [Next]_vars PROVE TypeOK'
  OBVIOUS
<1> USE NoRunAssumption DEF TypeOK
<1>1. ASSUME NEW r \in Runs, RunStep(r) PROVE TypeOK'
  <2>1. CASE Accept(r)
    BY <2>1 DEF Accept, TaskState
  <2>7. CASE SaveDefinitions(r)
    <3>1. aged' => runtimeFile' # NoRun
      BY <2>7 DEF SaveDefinitions
    <3> QED BY <2>7, <3>1, Zenon DEF SaveDefinitions
  <2>2. CASE Register(r)
    BY <2>2 DEF Register, WriteRuntime, Cancelled, TaskState
  <2>3. CASE RegisterFails(r)
    <3>1. task' \in [Runs -> TaskState]
      BY <2>3 DEF RegisterFails, Cancelled, TaskState
    <3>2. /\ runtimeFile' \in Runs \cup {NoRun}
          /\ aged' \in BOOLEAN
          /\ aged' => runtimeFile' # NoRun
      BY <2>3 DEF RegisterFails, WriteRuntimeRaises
    <3> QED BY <2>3, <3>1, <3>2 DEF RegisterFails
  <2>4. CASE Update(r)
    BY <2>4 DEF Update, WriteRuntime
  <2>5. CASE Finish(r)
    BY <2>5 DEF Finish, PopIfOwn, WriteRuntime, TaskState
  <2>6. CASE FinishFails(r)
    <3>1. /\ runtimeFile' \in Runs \cup {NoRun}
          /\ aged' \in BOOLEAN
          /\ aged' => runtimeFile' # NoRun
      BY <2>6 DEF FinishFails, WriteRuntimeRaises
    <3> QED BY <2>6, <3>1 DEF FinishFails, TaskState
  <2> QED BY <1>1, <2>1, <2>2, <2>3, <2>4, <2>5, <2>6, <2>7 DEF RunStep
<1>2. ASSUME NEW q \in Requests, RequestStep(q) PROVE TypeOK'
  <2>1. ASSUME NEW op \in {"stop", "delete"}, CancelBegin(q, op) PROVE TypeOK'
    <3>1. request' \in [Requests -> RequestState]
      <4>1. \A pc \in {"waiting", "disposing"} :
              [pc |-> pc, op |-> op, target |-> registry] \in RequestState
        BY DEF RequestState
      <4>2. \E pc \in {"waiting", "disposing"} :
              request' = [request EXCEPT ![q] = [pc |-> pc, op |-> op, target |-> registry]]
        BY <2>1 DEF CancelBegin
      <4> QED BY <4>1, <4>2
    <3>2. task' \in [Runs -> TaskState]
      BY <2>1 DEF CancelBegin, Cancelled, TaskState
    <3>3. /\ registry' \in Runs \cup {NoRun}
          /\ runtimeFile' \in Runs \cup {NoRun}
          /\ aged' \in BOOLEAN
          /\ aged' => runtimeFile' # NoRun
          /\ session' \in BOOLEAN
      BY <2>1 DEF CancelBegin, PopIfOwn, WriteRuntime
    <3>4. elsewhere' \in BOOLEAN
      BY <2>1, Zenon DEF CancelBegin
    <3> QED BY <3>1, <3>2, <3>3, <3>4, Zenon
  <2>2. CASE CancelDone(q) \/ CancelTimeout(q)
    <3>1. AfterWait(q)
      BY <2>2 DEF CancelDone, CancelTimeout
    <3>2. request' \in [Requests -> RequestState]
      BY <3>1 DEF AfterWait, RequestState
    <3>3. /\ registry' \in Runs \cup {NoRun}
          /\ runtimeFile' \in Runs \cup {NoRun}
          /\ aged' \in BOOLEAN
          /\ aged' => runtimeFile' # NoRun
      BY <3>1 DEF AfterWait, PopIfOwn, WriteRuntime
    <3> QED BY <3>1, <3>2, <3>3 DEF AfterWait
  <2>3. CASE StopEnd(q) \/ DeleteEnd(q)
    <3>1. request' \in [Requests -> RequestState]
      <4>1. Idle \in RequestState
        BY DEF Idle, RequestState
      <4>2. request' = [request EXCEPT ![q] = Idle]
        BY <2>3 DEF StopEnd, DeleteEnd
      <4> QED BY <4>1, <4>2
    <3> QED BY <3>1, <2>3 DEF StopEnd, DeleteEnd
  <2> QED BY <1>2, <2>1, <2>2, <2>3 DEF RequestStep
<1>3. CASE Poll
  BY <1>3 DEF Poll, DropDoneEntry, DropStaleMirror, WriteRuntime
<1>4. CASE Age
  BY <1>4 DEF Age
<1>5. CASE Restart
  BY <1>5 DEF Restart, TaskState, RequestState, Idle
<1>6. CASE UNCHANGED vars
  BY <1>6 DEF vars
<1>7. CASE OthersLoad \/ OthersSave \/ OthersEnd
  <2>1. UNCHANGED <<task, registry, runtimeFile, aged, request>>
    BY <1>7 DEF OthersLoad, OthersSave, OthersEnd
  <2>2. session' \in BOOLEAN /\ elsewhere' \in BOOLEAN
    BY <1>7, Zenon DEF OthersLoad, OthersSave, OthersEnd
  <2>3. aged' => runtimeFile' # NoRun
    BY <2>1
  <2> QED BY <2>1, <2>2, <2>3, Zenon
<1> QED BY <1>1, <1>2, <1>3, <1>4, <1>5, <1>6, <1>7 DEF Next

\* Every step keeps the invariant: only a registration starts a run, and it
\* cancels the run it displaces in the same step.
LEMMA InvStep == Inv /\ [Next]_vars => Inv'
<1> SUFFICES ASSUME Inv, [Next]_vars PROVE Inv'
  OBVIOUS
<1>0. TypeOK' BY TypeStep DEF Inv
<1> USE NoRunAssumption DEF Inv, TypeOK, WaitsForCancelled, RunningIsRegistered,
     NoSessionNoMirror, MirrorNamesTheWriter
<1>1. ASSUME NEW r \in Runs, RunStep(r) PROVE Inv'
  <2>1. CASE Accept(r)
    BY <2>1, <1>0 DEF Accept
  <2>2. CASE Register(r)
    BY <2>2, <1>0 DEF Register, WriteRuntime, Cancelled
  <2>3. CASE RegisterFails(r)
    BY <2>3, <1>0 DEF RegisterFails, WriteRuntimeRaises, Cancelled
  <2>4. CASE Update(r)
    BY <2>4, <1>0 DEF Update, WriteRuntime
  <2>5. CASE SaveDefinitions(r)
    BY <2>5, <1>0 DEF SaveDefinitions
  <2>6. CASE Finish(r)
    BY <2>6, <1>0 DEF Finish, PopIfOwn, WriteRuntime
  <2>7. CASE FinishFails(r)
    BY <2>7, <1>0 DEF FinishFails, WriteRuntimeRaises
  <2> QED BY <1>1, <2>1, <2>2, <2>3, <2>4, <2>5, <2>6, <2>7 DEF RunStep
<1>2. ASSUME NEW q \in Requests, RequestStep(q) PROVE Inv'
  <2>1. ASSUME NEW op \in {"stop", "delete"}, CancelBegin(q, op) PROVE Inv'
    <3>1. CASE registry # NoRun /\ Live(registry)
      BY <2>1, <3>1, <1>0 DEF CancelBegin, Cancelled, Live
    <3>2. CASE ~(registry # NoRun /\ Live(registry))
      <4>1. /\ PopIfOwn(registry)
            /\ UNCHANGED <<task, session>>
            /\ request' = [request EXCEPT ![q] =
                              [pc |-> "disposing", op |-> op, target |-> registry]]
        BY <2>1, <3>2 DEF CancelBegin
      <4>2. WaitsForCancelled'
        BY <4>1
      <4>3. RunningIsRegistered'
        BY <4>1, <3>2 DEF PopIfOwn, Live
      <4>4. NoSessionNoMirror' /\ MirrorNamesTheWriter'
        BY <4>1, <3>2 DEF PopIfOwn, WriteRuntime, Live
      <4> QED BY <1>0, <4>2, <4>3, <4>4
    <3> QED BY <3>1, <3>2
  <2>2. CASE CancelDone(q) \/ CancelTimeout(q)
    BY <2>2, <1>0 DEF CancelDone, CancelTimeout, AfterWait, PopIfOwn, WriteRuntime, RequestState
  <2>3. CASE StopEnd(q) \/ DeleteEnd(q)
    BY <2>3, <1>0 DEF StopEnd, DeleteEnd, RequestState, Idle
  <2> QED BY <1>2, <2>1, <2>2, <2>3 DEF RequestStep
<1>3. CASE Poll
  BY <1>3, <1>0 DEF Poll, DropDoneEntry, DropStaleMirror, WriteRuntime, Live
<1>4. CASE Age
  BY <1>4, <1>0 DEF Age
<1>5. CASE Restart
  BY <1>5, <1>0 DEF Restart, Idle
<1>6. CASE UNCHANGED vars
  BY <1>6 DEF vars
<1>7. CASE OthersLoad \/ OthersSave \/ OthersEnd
  BY <1>7, <1>0 DEF OthersLoad, OthersSave, OthersEnd
<1> QED BY <1>1, <1>2, <1>3, <1>4, <1>5, <1>6, <1>7 DEF Next

\* The inductive invariant holds in every reachable state.
THEOREM Invariance == Spec => []Inv
  BY InitInv, InvStep, PTL DEF Spec

\* Type correctness of the registry, its mirror and the requests.
THEOREM TypeCorrect == Spec => []TypeOK
<1>1. Inv => TypeOK BY DEF Inv
<1> QED BY <1>1, Invariance, PTL

\* Only the registered run can write: the guard of clone, rollback and message
\* deletion, which looks at the entry alone, is sound.
THEOREM SingleWriter == Spec => []RunningIsRegistered
<1>1. Inv => RunningIsRegistered BY DEF Inv
<1> QED BY <1>1, Invariance, PTL

\* While a run generates, runtime.json never names another run.
THEOREM MirrorIsTheWriters == Spec => []MirrorNamesTheWriter
<1>1. Inv => MirrorNamesTheWriter BY DEF Inv
<1> QED BY <1>1, Invariance, PTL

-----------------------------------------------------------------------------
\* One step of the registry, seen by a stop or delete request that stops waiting.
LEMMA SuccessorStep ==
    ASSUME TypeOK, [Next]_vars, NEW q \in Requests,
           request[q].pc = "waiting", request'[q].pc = "disposing",
           registry # request[q].target
    PROVE  registry' = registry /\ runtimeFile' = runtimeFile
<1> USE DEF TypeOK
<1>1. ASSUME NEW r \in Runs, RunStep(r) PROVE FALSE
  <2>1. request' = request
    BY <1>1 DEF RunStep, Accept, Register, RegisterFails, Update, SaveDefinitions,
       Finish, FinishFails
  <2> QED BY <2>1
<1>2. ASSUME NEW p \in Requests, RequestStep(p)
      PROVE  registry' = registry /\ runtimeFile' = runtimeFile
  <2>1. ASSUME NEW op \in {"stop", "delete"}, CancelBegin(p, op) PROVE FALSE
    BY <2>1 DEF CancelBegin, Idle
  <2>2. CASE CancelDone(p) \/ CancelTimeout(p)
    <3>1. AfterWait(p)
      BY <2>2 DEF CancelDone, CancelTimeout
    <3>2. p = q
      BY <3>1 DEF AfterWait
    <3> QED BY <3>1, <3>2 DEF AfterWait, PopIfOwn
  <2>3. CASE StopEnd(p) \/ DeleteEnd(p)
    BY <2>3 DEF StopEnd, DeleteEnd, Idle
  <2> QED BY <1>2, <2>1, <2>2, <2>3 DEF RequestStep
<1>3. ASSUME OthersLoad \/ OthersSave \/ OthersEnd \/ Poll \/ Age \/ UNCHANGED vars PROVE FALSE
  <2>1. request' = request
    BY <1>3 DEF OthersLoad, OthersSave, OthersEnd, Poll, DropDoneEntry, DropStaleMirror, Age, vars
  <2> QED BY <2>1
<1>4. ASSUME Restart PROVE FALSE
  BY <1>4 DEF Restart, Idle
<1> QED BY <1>1, <1>2, <1>3, <1>4 DEF Next

\* A stop or delete that outlasts its wait never removes the entry or the mirror
\* of the run that registered in between.
THEOREM StopSparesTheNewRun == Spec => StopSparesTheSuccessor
<1>1. TypeOK /\ [Next]_vars =>
        [\A q \in Requests :
            /\ request[q].pc = "waiting"
            /\ request'[q].pc = "disposing"
            /\ registry # request[q].target
            => registry' = registry /\ runtimeFile' = runtimeFile]_vars
  BY SuccessorStep
<1> QED BY <1>1, TypeCorrect, PTL DEF Spec, StopSparesTheSuccessor

-----------------------------------------------------------------------------
\* The runs that may write, and the runs that are used up, as the lease sees them.
Writers == {r \in Runs : task[r] = "running"}
Spent == {r \in Runs : task[r] \notin {"new", "accepted"}}

\* A step that starts no run and revives none is a step of the lease, or none:
\* no more than one run was writing, so either it goes on or nobody writes.
LEMMA NoStart ==
    ASSUME Inv,
           \A r \in Runs : task'[r] = "running" => task[r] = "running",
           Spent' = Spent
    PROVE  [Lease!Next]_<<Writers, Spent>>
<1>1. CASE Writers' = {}
  <2>1. Spent' = Spent \cup {}
    OBVIOUS
  <2> QED BY <1>1, <2>1 DEF Lease!Next, Lease!Drop, Writers, Spent
<1>2. CASE Writers' # {}
  <2>1. \A r, s \in Writers : r = s
    BY DEF Writers, Inv, RunningIsRegistered
  <2>2. Writers' = Writers
    BY <1>2, <2>1 DEF Writers
  <2> QED BY <1>2, <2>2
<1> QED BY <1>1, <1>2

\* The initial states and the steps of the registry, mapped to the lease.
LEMMA LeaseInit == Init => Lease!Init
  BY DEF Init, Lease!Init

LEMMA LeaseStep == Inv /\ Inv' /\ [Next]_vars => [Lease!Next]_<<Writers, Spent>>
<1> SUFFICES ASSUME Inv, Inv', [Next]_vars PROVE [Lease!Next]_<<Writers, Spent>>
  OBVIOUS
<1>0. TypeOK /\ TypeOK'
  BY DEF Inv
<1>1. ASSUME NEW r \in Runs, Register(r) PROVE Lease!Take(r)
  <2>1. Writers' = {r}
    BY <1>1, <1>0 DEF Writers, Register, Cancelled, TypeOK, Inv, RunningIsRegistered
  <2>2. Spent' = Spent \cup {r} /\ r \notin Spent
    BY <1>1, <1>0 DEF Spent, Register, Cancelled, TypeOK
  <2> QED BY <2>1, <2>2 DEF Lease!Take, Writers, Spent
<1>2. ASSUME NEW r \in Runs, RegisterFails(r) PROVE Lease!Drop({r})
  <2>1. Writers' = {}
    BY <1>2, <1>0 DEF Writers, RegisterFails, Cancelled, TypeOK, Inv, RunningIsRegistered
  <2>2. Spent' = Spent \cup {r}
    BY <1>2, <1>0 DEF Spent, RegisterFails, Cancelled, TypeOK
  <2> QED BY <2>1, <2>2 DEF Lease!Drop, Writers, Spent
<1>3. CASE Restart
  <2>1. Writers' = {}
    BY <1>3 DEF Writers, Restart
  <2>2. Spent' = Spent \cup {r \in Runs : task[r] = "accepted"}
    BY <1>3, <1>0 DEF Spent, Restart, TypeOK
  <2> QED BY <2>1, <2>2 DEF Lease!Next, Lease!Drop, Writers, Spent
<1>4. ASSUME \A r \in Runs : task'[r] # task[r] =>
               \/ task[r] = "new" /\ task'[r] = "accepted"
               \/ task[r] \in {"running", "cancelling"} /\ task'[r] \in {"cancelling", "done"}
      PROVE  [Lease!Next]_<<Writers, Spent>>
  <2>1. \A r \in Runs : task'[r] = "running" => task[r] = "running"
    BY <1>4
  <2>2. Spent' = Spent
    BY <1>4 DEF Spent
  <2> QED BY <2>1, <2>2, NoStart
<1>5. ASSUME NEW r \in Runs, RunStep(r) PROVE [Lease!Next]_<<Writers, Spent>>
  <2>1. CASE Register(r)
    BY <2>1, <1>1 DEF Lease!Next, Writers, Spent
  <2>2. CASE RegisterFails(r)
    BY <2>2, <1>2 DEF Lease!Next, Writers, Spent
  <2>3. CASE Accept(r) \/ Update(r) \/ SaveDefinitions(r) \/ Finish(r) \/ FinishFails(r)
    BY <2>3, <1>0, <1>4
       DEF Accept, Update, SaveDefinitions, Finish, FinishFails, Live, TypeOK
  <2> QED BY <1>5, <2>1, <2>2, <2>3 DEF RunStep
<1>6. ASSUME NEW q \in Requests, RequestStep(q) PROVE [Lease!Next]_<<Writers, Spent>>
  <2>1. task' = task \/ task' = Cancelled(registry)
    BY <1>6 DEF RequestStep, CancelBegin, CancelDone, CancelTimeout, AfterWait, StopEnd, DeleteEnd
  <2> QED BY <2>1, <1>0, <1>4 DEF Cancelled, TypeOK
<1>7. CASE OthersLoad \/ OthersSave \/ OthersEnd \/ Poll \/ Age \/ UNCHANGED vars
  <2>1. task' = task
    BY <1>7 DEF OthersLoad, OthersSave, OthersEnd, Poll, DropDoneEntry, DropStaleMirror, Age, vars
  <2> QED BY <2>1, <1>4
<1> QED BY <1>3, <1>5, <1>6, <1>7 DEF Next

\* The registry implements the lease: one writer at a time, the newest chat
\* displaces the one before, and a displaced run never writes again.
THEOREM ImplementsLease == Spec => LeaseSpec
<1> USE DEF Writers, Spent
<1>1. Init => Lease!Init
  BY LeaseInit
<1>2. Inv /\ Inv' /\ [Next]_vars =>
        [Lease!Next]_<<{r \in Runs : task[r] = "running"},
                       {r \in Runs : task[r] \notin {"new", "accepted"}}>>
  BY LeaseStep
<1> QED BY <1>1, <1>2, Invariance, PTL DEF Spec, LeaseSpec, Lease!Spec

-----------------------------------------------------------------------------
(* What a stop or delete request has reached before it ends.               *)

\* A request that has read a run has stopped it; once its wait is over, answered or not,
\* the session is not occupied by that run, and never is again.
StoppedRunsStayOut ==
    \A q \in Requests :
        request[q].pc # "idle" /\ request[q].target \in Runs =>
            /\ task[request[q].target] \in {"cancelling", "done"}
            /\ request[q].pc = "disposing" => registry # request[q].target

\* Only a run that has registered has an entry.
EntriesHaveRun == registry # NoRun => task[registry] \in {"running", "cancelling", "done"}

OutInv == StoppedRunsStayOut /\ EntriesHaveRun

LEMMA OutStep ==
    ASSUME TypeOK, OutInv, [Next]_vars
    PROVE  OutInv'
<1> USE NoRunAssumption DEF TypeOK, OutInv, StoppedRunsStayOut, EntriesHaveRun
<1>1. ASSUME NEW r \in Runs, RunStep(r) PROVE OutInv'
  <2>1. CASE Accept(r)
    BY <2>1 DEF Accept
  <2>2. CASE Register(r)
    BY <2>2 DEF Register, Cancelled
  <2>3. CASE RegisterFails(r)
    BY <2>3 DEF RegisterFails, Cancelled
  <2>4. CASE Update(r) \/ SaveDefinitions(r)
    BY <2>4 DEF Update, SaveDefinitions
  <2>5. CASE Finish(r)
    BY <2>5 DEF Finish, PopIfOwn
  <2>6. CASE FinishFails(r)
    BY <2>6 DEF FinishFails
  <2> QED BY <1>1, <2>1, <2>2, <2>3, <2>4, <2>5, <2>6 DEF RunStep
<1>2. ASSUME NEW q \in Requests, RequestStep(q) PROVE OutInv'
  <2>1. ASSUME NEW op \in {"stop", "delete"}, CancelBegin(q, op) PROVE OutInv'
    <3> DEFINE new(pc) == [pc |-> pc, op |-> op, target |-> registry]
    <3>1. CASE registry # NoRun /\ Live(registry)
      <4>1. /\ task' = Cancelled(registry) /\ registry' = registry
            /\ request' = [request EXCEPT ![q] = new("waiting")]
        BY <2>1, <3>1 DEF CancelBegin
      <4>2. task'[registry] \in {"cancelling", "done"}
        BY <3>1, <4>1 DEF Cancelled, Live
      <4>3. \A r \in Runs : task[r] \in {"cancelling", "done"} => task'[r] = task[r]
        BY <4>1 DEF Cancelled
      <4>4. \A p \in Requests : p # q => request'[p] = request[p]
        BY <4>1
      <4>5. request'[q].pc = "waiting" /\ request'[q].target = registry
        BY <4>1
      <4> QED BY <4>1, <4>2, <4>3, <4>4, <4>5
    <3>2. CASE ~(registry # NoRun /\ Live(registry))
      <4>1. /\ UNCHANGED task /\ PopIfOwn(registry)
            /\ request' = [request EXCEPT ![q] = new("disposing")]
        BY <2>1, <3>2 DEF CancelBegin
      <4>2. registry' = NoRun
        BY <4>1 DEF PopIfOwn
      <4>3. registry # NoRun => task[registry] \in {"cancelling", "done"}
        BY <3>2 DEF Live
      <4>4. \A p \in Requests : p # q => request'[p] = request[p]
        BY <4>1
      <4>5. request'[q].target = registry
        BY <4>1
      <4> QED BY <4>1, <4>2, <4>3, <4>4, <4>5
    <3> QED BY <3>1, <3>2
  <2>2. CASE CancelDone(q) \/ CancelTimeout(q)
    <3>1. AfterWait(q) /\ request[q].pc = "waiting"
      BY <2>2 DEF CancelDone, CancelTimeout
    <3>2. /\ registry' = registry \/ registry' = NoRun
          /\ request[q].target \in Runs => registry' # request[q].target
          /\ task' = task
      BY <3>1 DEF AfterWait, PopIfOwn
    <3>3. request' = [request EXCEPT ![q].pc = "disposing"]
      BY <3>1 DEF AfterWait
    <3>4. \A p \in Requests :
              /\ request'[p].target = request[p].target
              /\ p # q => request'[p].pc = request[p].pc
      BY <3>3 DEF RequestState
    <3> QED BY <3>1, <3>2, <3>4
  <2>3. CASE StopEnd(q) \/ DeleteEnd(q)
    BY <2>3 DEF StopEnd, DeleteEnd, Idle
  <2> QED BY <1>2, <2>1, <2>2, <2>3 DEF RequestStep
<1>3. CASE Poll
  BY <1>3 DEF Poll, DropDoneEntry, DropStaleMirror
<1>4. CASE OthersLoad \/ OthersSave \/ OthersEnd \/ Age \/ UNCHANGED vars
  BY <1>4 DEF OthersLoad, OthersSave, OthersEnd, Age, vars
<1>5. CASE Restart
  BY <1>5 DEF Restart, Idle
<1> QED BY <1>1, <1>2, <1>3, <1>4, <1>5 DEF Next

\* When a stop or delete request goes on after its wait, the run that it found neither
\* writes nor occupies the session, also if its task has not finished unwinding; a slower
\* request for the same run, or a takeover meanwhile, does not bring it back.
THEOREM StoppedRunsAreOut == Spec => []StoppedRunsStayOut
<1>1. Init => OutInv
  BY DEF Init, OutInv, StoppedRunsStayOut, EntriesHaveRun, Idle
<1>2. TypeOK /\ OutInv /\ [Next]_vars => OutInv'
  BY OutStep
<1>3. OutInv => StoppedRunsStayOut
  BY DEF OutInv
<1> QED BY <1>1, <1>2, <1>3, TypeCorrect, PTL DEF Spec

-----------------------------------------------------------------------------
\* The session is deleted, and no chat request that loaded its definition before can
\* still write: neither one of its own, nor a run of another session.
Gone ==
    /\ ~session
    /\ ~elsewhere
    /\ \A r \in Runs : task[r] \notin {"accepted", "running"}

LEMMA GoneStep ==
    ASSUME TypeOK, Gone, [Next]_vars
    PROVE  Gone'
<1> USE DEF TypeOK, Gone
<1>1. ASSUME NEW r \in Runs, RunStep(r) PROVE Gone'
  <2>1. ~Accept(r) /\ ~Register(r) /\ ~RegisterFails(r) /\ ~Update(r) /\ ~SaveDefinitions(r)
    BY DEF Accept, Register, RegisterFails, Update, SaveDefinitions
  <2>2. CASE Finish(r) \/ FinishFails(r)
    BY <2>2 DEF Finish, FinishFails
  <2> QED BY <1>1, <2>1, <2>2 DEF RunStep
<1>2. ASSUME NEW q \in Requests, RequestStep(q) PROVE Gone'
  <2>1. ASSUME NEW op \in {"stop", "delete"}, CancelBegin(q, op) PROVE Gone'
    BY <2>1 DEF CancelBegin, Cancelled
  <2>2. CASE CancelDone(q) \/ CancelTimeout(q) \/ StopEnd(q) \/ DeleteEnd(q)
    BY <2>2 DEF CancelDone, CancelTimeout, AfterWait, StopEnd, DeleteEnd
  <2> QED BY <1>2, <2>1, <2>2 DEF RequestStep
<1>3. CASE OthersLoad \/ OthersSave \/ OthersEnd \/ Poll \/ Age \/ UNCHANGED vars
  <2>1. ~Poll /\ ~OthersLoad /\ ~OthersSave /\ ~OthersEnd
    BY DEF Poll, DropDoneEntry, DropStaleMirror, OthersLoad, OthersSave, OthersEnd
  <2>2. UNCHANGED <<task, session, elsewhere>>
    BY <1>3, <2>1 DEF Age, vars
  <2> QED BY <2>2
<1>4. CASE Restart
  BY <1>4 DEF Restart
<1> QED BY <1>1, <1>2, <1>3, <1>4 DEF Next

\* A deleted session is deleted for good once no chat request accepted before, of this
\* session or of any other, is still to register or running: what lets a session come
\* back is a copy of the definitions loaded before the delete, and nothing that is sent,
\* cancelled, polled or restarted later.
THEOREM DeletionIsFinal == Spec => [](Gone => []~session)
<1>1. TypeOK /\ Gone /\ [Next]_vars => Gone'
  BY GoneStep
<1>2. Gone => ~session
  BY DEF Gone
<1> QED BY <1>1, <1>2, TypeCorrect, PTL DEF Spec

=============================================================================
