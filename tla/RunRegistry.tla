----------------------------- MODULE RunRegistry -----------------------------
(***************************************************************************)
(* The run registry of one group-chat session: the in-process table        *)
(* ACTIVE_GROUP_RUNS, its mirror runtime.json, the asyncio task of every   *)
(* chat request, and the stop and delete requests that cancel a run.       *)
(*                                                                         *)
(* The backend is one event loop, so an action is what one task does       *)
(* between two suspensions.  ACTIVE_GROUP_RUNS_LOCK is never held across a *)
(* suspension, hence register, update and finish are single steps.  A      *)
(* cancelled task (state "cancelling") runs nothing of the chat any more:  *)
(* when it is resumed CancelledError unwinds it to the `finally` of        *)
(* run_events, which calls finish_group_run.                               *)
(***************************************************************************)

CONSTANTS Runs,      \* chat requests, each with the run id it registers
          Requests,  \* concurrent stop or delete requests
          NoRun      \* no entry, no file

ASSUME NoRunAssumption == NoRun \notin Runs

VARIABLES task,         \* the asyncio task of each chat request
          registry,     \* run_id in ACTIVE_GROUP_RUNS[session], or NoRun
          runtimeFile,  \* run_id in runtime.json (running: true), or NoRun
          aged,         \* started_at in runtime.json is older than the stale limit
          session,      \* session.json exists
          elsewhere,    \* a run of another session holds a copy of the definitions
                        \* that has this session
          request       \* the stop and delete requests in progress

vars == <<task, registry, runtimeFile, aged, session, elsewhere, request>>

\* "new": not sent; "accepted": the user message is recorded and the response
\* has been returned, but the pump task has not started to run.
TaskState == {"new", "accepted", "running", "cancelling", "done"}

Idle == [pc |-> "idle", op |-> "none", target |-> NoRun]

RequestState == [pc : {"idle", "waiting", "disposing"},
                 op : {"none", "stop", "delete"},
                 target : Runs \cup {NoRun}]

TypeOK ==
    /\ task \in [Runs -> TaskState]
    /\ registry \in Runs \cup {NoRun}
    /\ runtimeFile \in Runs \cup {NoRun}
    /\ aged \in BOOLEAN
    /\ aged => runtimeFile # NoRun
    /\ session \in BOOLEAN
    /\ elsewhere \in BOOLEAN
    /\ request \in [Requests -> RequestState]

Init ==
    /\ task = [r \in Runs |-> "new"]
    /\ registry = NoRun
    /\ runtimeFile = NoRun
    /\ aged = FALSE
    /\ session = TRUE
    /\ elsewhere = FALSE
    /\ request = [q \in Requests |-> Idle]

Live(r) == task[r] \in {"running", "cancelling"}

-----------------------------------------------------------------------------
(* write_group_runtime: nothing happens when session.json is absent.  The  *)
(* file is written in place and the session definitions are saved after    *)
(* it, so when the write raises (disk full, I/O error) runtime.json may    *)
(* hold the old state, the new one, or nothing readable.                   *)

WriteRuntime_KeepsAge(run, resetAge) ==
    IF session
    THEN runtimeFile' = run /\ aged' = (aged /\ ~resetAge)
    ELSE UNCHANGED <<runtimeFile, aged>>

WriteRuntime(run, resetAge) ==
    IF session
    THEN /\ runtimeFile' = run
         /\ aged' = IF run = NoRun \/ resetAge THEN FALSE ELSE aged
    ELSE UNCHANGED <<runtimeFile, aged>>

WriteRuntimeRaises(run) ==
    /\ session
    /\ \E left \in {runtimeFile, run, NoRun} : runtimeFile' = left
    /\ aged' = (aged /\ runtimeFile' = runtimeFile /\ runtimeFile # NoRun)

\* finish_group_run: the entry and the mirror go only if they are the run's own.
PopIfOwn_NoGuard(run) ==
    /\ registry' = NoRun
    /\ WriteRuntime(NoRun, FALSE)

PopIfOwn(run) ==
    IF registry = run /\ run # NoRun
    THEN /\ registry' = NoRun
         /\ WriteRuntime(NoRun, FALSE)
    ELSE UNCHANGED <<registry, runtimeFile, aged>>

\* The tasks after Task.cancel() on run (a no-op on a task that is not live).
Cancelled_NoEffect(run) == task
Cancelled(run) ==
    [r \in Runs |-> IF r = run /\ task[r] = "running" THEN "cancelling" ELSE task[r]]

-----------------------------------------------------------------------------
(* The chat request.                                                       *)

\* group_chat_stream up to its return: 404 without session.json; the response
\* is handed to the server, which starts the pump task in a later step.
Accept(r) ==
    /\ task[r] = "new"
    /\ session
    /\ task' = [task EXCEPT ![r] = "accepted"]
    /\ UNCHANGED <<registry, runtimeFile, aged, session, elsewhere, request>>

\* register_group_run, first step of run_events: cancel the previous task if
\* it is not done, install the entry, then write the mirror.
Register(r) ==
    /\ task[r] = "accepted"
    /\ task' = [Cancelled(registry) EXCEPT ![r] = "running"]
    /\ registry' = r
    /\ WriteRuntime(r, TRUE)
    /\ UNCHANGED <<session, elsewhere, request>>

\* The mirror write of register_group_run raises: the call stands before the
\* `try` of run_events, so the task ends and nobody removes its entry.
RegisterFails(r) ==
    /\ task[r] = "accepted"
    /\ task' = [Cancelled(registry) EXCEPT ![r] = "done"]
    /\ registry' = r
    /\ WriteRuntimeRaises(r)
    /\ UNCHANGED <<session, elsewhere, request>>

\* update_group_run: a new phase, for the owner of the entry only.
Update(r) ==
    /\ task[r] = "running"
    /\ registry = r
    /\ WriteRuntime(r, FALSE)
    /\ UNCHANGED <<task, registry, session, elsewhere, request>>

\* Every append of the run ends in save_session_definitions with the copy of
\* the definitions loaded by Accept; a session missing on disk is written again.
SaveDefinitions(r) ==
    /\ task[r] = "running"
    /\ session' = TRUE
    /\ UNCHANGED <<task, registry, runtimeFile, aged, elsewhere, request>>

\* The run ends or its cancellation reaches the `finally`: finish_group_run.
Finish(r) ==
    /\ Live(r)
    /\ task' = [task EXCEPT ![r] = "done"]
    /\ PopIfOwn(r)
    /\ UNCHANGED <<session, elsewhere, request>>

\* As Finish, but removing the mirror raises: the entry is gone, the file may stay.
FinishFails(r) ==
    /\ Live(r)
    /\ registry = r
    /\ task' = [task EXCEPT ![r] = "done"]
    /\ registry' = NoRun
    /\ WriteRuntimeRaises(NoRun)
    /\ UNCHANGED <<session, elsewhere, request>>

-----------------------------------------------------------------------------
(* POST /chat/stop and DELETE /sessions/{id}: cancel_group_session_run     *)
(* reads the entry, cancels its task and waits for it at most two seconds; *)
(* then it finishes the run it had read, and the handler disposes the      *)
(* sandbox (another suspension) before it ends.                            *)

CancelBegin(q, op) ==
    /\ request[q] = Idle
    /\ op = "stop" => session
    /\ IF registry # NoRun /\ Live(registry)
       THEN /\ task' = Cancelled(registry)
            /\ request' = [request EXCEPT ![q] = [pc |-> "waiting", op |-> op, target |-> registry]]
            /\ UNCHANGED <<registry, runtimeFile, aged>>
       ELSE /\ request' = [request EXCEPT ![q] = [pc |-> "disposing", op |-> op, target |-> registry]]
            /\ PopIfOwn(registry)
            /\ UNCHANGED task
    /\ UNCHANGED <<session, elsewhere>>

AfterWait_OnlyWhenDone(q) ==
    /\ request' = [request EXCEPT ![q].pc = "disposing"]
    /\ IF task[request[q].target] = "done"
       THEN PopIfOwn(request[q].target)
       ELSE UNCHANGED <<registry, runtimeFile, aged>>
    /\ UNCHANGED <<task, session, elsewhere>>

AfterWait(q) ==
    /\ request' = [request EXCEPT ![q].pc = "disposing"]
    /\ PopIfOwn(request[q].target)
    /\ UNCHANGED <<task, session, elsewhere>>

\* asyncio.wait returns because the task is done.
CancelDone(q) ==
    /\ request[q].pc = "waiting"
    /\ task[request[q].target] = "done"
    /\ AfterWait(q)

\* asyncio.wait returns after its timeout: the task is still unwinding.
CancelTimeout(q) ==
    /\ request[q].pc = "waiting"
    /\ task[request[q].target] # "done"
    /\ AfterWait(q)

StopEnd(q) ==
    /\ request[q].pc = "disposing"
    /\ request[q].op = "stop"
    /\ request' = [request EXCEPT ![q] = Idle]
    /\ UNCHANGED <<task, registry, runtimeFile, aged, session, elsewhere>>

\* The rest of delete_group_session: 404 if the session is already gone, else
\* session.json is removed and the session directory with it.
DeleteEnd(q) ==
    /\ request[q].pc = "disposing"
    /\ request[q].op = "delete"
    /\ request' = [request EXCEPT ![q] = Idle]
    /\ IF session
       THEN session' = FALSE /\ runtimeFile' = NoRun /\ aged' = FALSE
       ELSE UNCHANGED <<session, runtimeFile, aged>>
    /\ UNCHANGED <<task, registry, elsewhere>>

-----------------------------------------------------------------------------
(* Chats of other sessions.  The definitions of all sessions are loaded    *)
(* together when a chat is accepted, and every append of its run saves the *)
(* whole copy: a session that is missing on disk is written again, by a    *)
(* run that has nothing to do with it.                                     *)

\* group_chat_stream of another session: its copy has this session as well.
OthersLoad ==
    /\ session
    /\ elsewhere' = TRUE
    /\ UNCHANGED <<task, registry, runtimeFile, aged, session, request>>

\* save_session_definitions of such a run.
OthersSave ==
    /\ elsewhere
    /\ session' = TRUE
    /\ UNCHANGED <<task, registry, runtimeFile, aged, elsewhere, request>>

\* The last run that holds such a copy ends.
OthersEnd ==
    /\ elsewhere
    /\ elsewhere' = FALSE
    /\ UNCHANGED <<task, registry, runtimeFile, aged, session, request>>

-----------------------------------------------------------------------------
(* Readers, time and the process.                                          *)

\* runtime_for_session, called by every request that lists or shows the session.
DropDoneEntry ==
    /\ session
    /\ registry # NoRun
    /\ ~Live(registry)
    /\ registry' = NoRun
    /\ WriteRuntime(NoRun, FALSE)
    /\ UNCHANGED <<task, session, elsewhere, request>>

DropStaleMirror ==
    /\ session
    /\ registry = NoRun
    /\ runtimeFile # NoRun
    /\ aged
    /\ WriteRuntime(NoRun, FALSE)
    /\ UNCHANGED <<task, registry, session, elsewhere, request>>

Poll_DoneEntryOnly == DropDoneEntry

Poll == DropDoneEntry \/ DropStaleMirror

\* _stored_runtime_is_stale becomes true GROUP_RUNTIME_STATE_STALE_SECONDS
\* after started_at, whether the run is alive or not.
Age ==
    /\ runtimeFile # NoRun
    /\ ~aged
    /\ aged' = TRUE
    /\ UNCHANGED <<task, registry, runtimeFile, session, elsewhere, request>>

\* The process dies and starts again: tasks, table and requests are lost, the
\* files stay.
Restart ==
    /\ task' = [r \in Runs |-> IF task[r] = "new" THEN "new" ELSE "done"]
    /\ registry' = NoRun
    /\ request' = [q \in Requests |-> Idle]
    /\ elsewhere' = FALSE
    /\ UNCHANGED <<runtimeFile, aged, session>>

-----------------------------------------------------------------------------
RunStep(r) ==
    \/ Accept(r) \/ Register(r) \/ RegisterFails(r) \/ Update(r)
    \/ SaveDefinitions(r) \/ Finish(r) \/ FinishFails(r)

RequestStep(q) ==
    \/ \E op \in {"stop", "delete"} : CancelBegin(q, op)
    \/ CancelDone(q) \/ CancelTimeout(q) \/ StopEnd(q) \/ DeleteEnd(q)

Next ==
    \/ \E r \in Runs : RunStep(r)
    \/ \E q \in Requests : RequestStep(q)
    \/ OthersLoad \/ OthersSave \/ OthersEnd
    \/ Poll
    \/ Age
    \/ Restart

Spec == Init /\ [][Next]_vars

(* Fairness.  The event loop resumes a ready task: a stop or delete request  *)
(* goes on when asyncio.wait returns, at the latest by its timeout, and the  *)
(* sandbox is disposed.  The clock runs on.  Somebody keeps looking at the   *)
(* session: each listing, each detail request and each connection to the     *)
(* session event stream calls runtime_for_session (a session nobody looks at *)
(* keeps a stale file).  No run is assumed to end, and no chat to be sent.   *)
Fairness ==
    /\ \A q \in Requests :
          /\ WF_vars(CancelDone(q) \/ CancelTimeout(q))
          /\ WF_vars(StopEnd(q) \/ DeleteEnd(q))
    /\ WF_vars(Age)
    /\ WF_vars(Poll)

FairSpec == Spec /\ Fairness

-----------------------------------------------------------------------------
(* Properties.                                                             *)

\* A chat task that may still write is the one ACTIVE_GROUP_RUNS names: clone,
\* rollback and message deletion, which look only at that entry
\* (reject_group_session_mutation_if_running), never pass a run that writes.
RunningIsRegistered == \A r \in Runs : task[r] = "running" => registry = r

\* A page that reloads while a run generates never finds the mirror of another
\* run in runtime.json: after takeovers, slow cancellations and failed writes it
\* is the run's own, or absent where the session was deleted under the run.
MirrorNamesTheWriter ==
    \A r \in Runs : task[r] = "running" => runtimeFile \in {r, NoRun}

\* A stop or delete request that resumes after its wait leaves the entry and the
\* mirror of a run registered meanwhile alone: finish_group_run compares run ids.
StopSparesTheSuccessor ==
    [][\A q \in Requests :
          /\ request[q].pc = "waiting"
          /\ request'[q].pc = "disposing"
          /\ registry # request[q].target
          => registry' = registry /\ runtimeFile' = runtimeFile]_vars

\* A stop or delete request that found a run generating ends, and the session is
\* no longer occupied by that run, even if its task never finishes unwinding.
StopReleasesTheRun ==
    \A q \in Requests, r \in Runs :
        (request[q].pc = "waiting" /\ request[q].target = r)
            ~> (request[q] = Idle /\ registry # r)

\* A "running" state that outlived its run (a restart, a mirror that could not be
\* removed) is cleared by the readers once it is old, or replaced by a new run.
StaleMirrorIsCleared ==
    (runtimeFile # NoRun /\ registry = NoRun)
        ~> (runtimeFile = NoRun \/ registry # NoRun)

\* The interface document says of DELETE /sessions/{id} that later accesses find
\* no session: a deleted session does not come back, neither by a run of its own
\* that was on its way nor by a run of another session with an older copy.
DeletedStaysDeleted == [][~session => ~session']_vars

\* The registry implements the lease: the runs that may write are those whose
\* task runs and has not been cancelled.
Lease == INSTANCE RunLease WITH
    writers <- {r \in Runs : task[r] = "running"},
    spent <- {r \in Runs : task[r] \notin {"new", "accepted"}}

LeaseSpec == Lease!Spec

=============================================================================
