------------------------------- MODULE GroupTurn -------------------------------
(*****************************************************************************)
(* One chat request of a session after another: the loop of                  *)
(* _run_contract_events in which the host picks a speaker, the expert runs,  *)
(* and orchestration_state.json carries the routing from request to request. *)
(*                                                                           *)
(* The event loop runs one task at a time and yielding an SSE event does not *)
(* suspend the pump, so an action is what the run does between two awaits:   *)
(* the host's model calls (one selects the speaker, the next words the       *)
(* message to it, each with one retry when its answer breaks the protocol),  *)
(* the building of an expert, the expert's stream.                           *)
(* A configuration change, a stop, or nothing at all may come in between.    *)
(* RunRegistry shows that one run writes at a time; a run that displaces     *)
(* another is here a Stop followed by a Request.                             *)
(*                                                                           *)
(* Abstractions.  A host decision is its target; of last_expert_turn only    *)
(* what the entry route tells apart is kept; a Skill binding is the expert   *)
(* that has one; progress events and the logs are left out.  A write of      *)
(* orchestration_state.json takes effect whole or not at all; rollback is in *)
(* CheckpointStore.                                                          *)
(*****************************************************************************)

EXTENDS Naturals, FiniteSets

CONSTANTS
    Experts,
    UserMessages,  \* message ids of requests; a client may send one again
    MaxTurns,      \* MAX_EXPERT_TURNS_PER_STREAM
    MaxChanges,    \* bound: configuration changes
    Host,          \* the name under which a failure of the host is persisted
    NoOne

ASSUME ConstantsAssumption ==
    /\ MaxTurns \in Nat
    /\ MaxChanges \in Nat
    /\ Host \notin Experts
    /\ NoOne \notin Experts \cup UserMessages \cup {"user", "end"}
    /\ {"user", "end"} \cap Experts = {}

VARIABLES
    members, changes, \* agent_names in session.json; its changes are counted
    disk,             \* orchestration_state.json
    pc,               \* where the run is suspended
    request,          \* the request: its message id, its target, and the
                      \* members it loaded when it came in
    speaker, memo,    \* next_speaker; the target in the host_scheduler in memory
    suppress, turns,
    call,             \* the host's call: its attempt, and the speaker selected before it
    view,             \* the orchestration state loaded before the suspension
    routed,           \* the target of the last message sent or named by the user
    out               \* the stream: `end` sent, `error` sent, broken off

local == <<request, speaker, memo, suppress, turns, call, view, routed>>
vars == <<members, changes, disk, pc, local, out>>

Targets == Experts \cup {"user", "end"}

NoTurn == [agent |-> NoOne, user |-> NoOne, resume |-> FALSE]
Empty == [scheduler |-> NoOne, last |-> NoTurn, bound |-> {}]

NoRequest == [message |-> NoOne, named |-> NoOne, names |-> {}]

NoCall == [attempt |-> 1, selected |-> NoOne]

Silent == [ended |-> FALSE, failed |-> FALSE, cut |-> FALSE]

Turn == [agent : Experts \cup {NoOne}, user : UserMessages \cup {NoOne}, resume : BOOLEAN]
Orchestration == [scheduler : Targets \cup {NoOne}, last : Turn, bound : SUBSET Experts]

Points == {"idle", "entry", "recruiting", "deciding", "writing", "building", "executing", "done"}

TypeOK ==
    /\ members \in SUBSET Experts
    /\ changes \in 0..MaxChanges
    /\ disk \in Orchestration
    /\ pc \in Points
    /\ request \in [message : UserMessages \cup {NoOne}, named : Experts \cup {NoOne},
                    names : SUBSET Experts]
    /\ speaker \in Targets \cup {NoOne}
    /\ memo \in Targets \cup {NoOne}
    /\ suppress \in BOOLEAN
    /\ turns \in 0..MaxTurns
    /\ call \in [attempt : 1..2, selected : Targets \cup {NoOne}]
    /\ view \in Orchestration
    /\ routed \in Targets \cup {NoOne}
    /\ out \in [ended : BOOLEAN, failed : BOOLEAN, cut : BOOLEAN]

Init ==
    /\ members \in SUBSET Experts
    /\ changes = 0
    /\ disk = Empty
    /\ pc = "idle"
    /\ request = NoRequest
    /\ speaker = NoOne
    /\ memo = NoOne
    /\ suppress = FALSE
    /\ turns = 0
    /\ call = NoCall
    /\ view = Empty
    /\ routed = NoOne
    /\ out = Silent

Running == pc \notin {"idle", "done"}

\* The run is over: its locals are gone.
Over ==
    /\ pc' = "done"
    /\ request' = NoRequest
    /\ speaker' = NoOne
    /\ memo' = NoOne
    /\ suppress' = FALSE
    /\ turns' = 0
    /\ call' = NoCall
    /\ view' = Empty
    /\ routed' = NoOne

-----------------------------------------------------------------------------
(* Requests from outside the run.                                          *)

\* group_chat_stream: the request reads session.json and records its message.
Request(m, named) ==
    /\ ~Running
    /\ named \in members \cup {NoOne}
    /\ request' = [message |-> m, named |-> named, names |-> members]
    /\ pc' = "entry"
    /\ routed' = named
    /\ out' = Silent
    /\ UNCHANGED <<members, changes, disk, speaker, memo, suppress, turns, call, view>>

\* update_group_session with a new host, scenario prompt or members, at any time:
\* it clears the host decision and the last expert turn from the file.
Cleared(state) == [state EXCEPT !.scheduler = NoOne, !.last = NoTurn]

Update(next) ==
    /\ changes < MaxChanges
    /\ changes' = changes + 1
    /\ members' = next
    /\ disk' = Cleared(disk)
    /\ UNCHANGED <<pc, local, out>>

\* The run is stopped, displaced, or lost with the process, at a suspension.
Stop ==
    /\ Running
    /\ Over
    /\ out' = [out EXCEPT !.cut = TRUE]
    /\ UNCHANGED <<members, changes, disk>>

-----------------------------------------------------------------------------
(* What the actions of the run are made of.                                *)

\* The run ends after its `end` event.
Done ==
    /\ Over
    /\ out' = [out EXCEPT !.ended = TRUE]

\* A failure is persisted: history.json with its checkpoint, then the routing
\* state and the Skill binding of the expert that failed are cleared.
ClearFailed_KeepsLastTurn(state, agent) ==
    [state EXCEPT !.scheduler = NoOne, !.bound = @ \ {agent}]

ClearFailed_ForgetsOthers(state, agent) == [Cleared(state) EXCEPT !.bound = {}]

ClearFailed(state, agent) == [Cleared(state) EXCEPT !.bound = @ \ {agent}]

Persist(state, agent) == disk' = ClearFailed(state, agent)

\* An exception, the file being `state` by then.  `agent` is the expert whose handler
\* takes it, or Host for the outer handler of run_events; that one also takes what
\* persist_group_chat_failure raises in an inner handler, before or after it cleared
\* the file.  If persisting raises there too, the stream stops without `end`.
Fail(state, agent) ==
    /\ Over
    /\ \/ /\ \/ Persist(state, agent)
             \/ \E s \in {state, ClearFailed(state, agent)} : agent # Host /\ Persist(s, Host)
          /\ out' = [out EXCEPT !.ended = TRUE, !.failed = TRUE]
       \/ /\ \E s \in {state, ClearFailed(state, agent)} :
                disk' = s \/ Persist(s, Host)
          /\ out' = [out EXCEPT !.failed = TRUE, !.cut = TRUE]

\* expert_turn_budget_exceeded.
Exceeded_OneMore(n) == n > MaxTurns + 1
Exceeded(n) == n > MaxTurns

\* The head of the loop with next_speaker `to`, the host's message for `target` in
\* memory and `state` in the file, up to the next await.  `quiet`: the host's message
\* is suppressed, this once.
HostEnds(to) ==
    /\ to \in {"user", "end"}
    /\ Done

ExpertIsNext_StaysQuiet(to, target, quiet) ==
    /\ to \in request.names
    /\ IF Exceeded(turns + 1)
       THEN Done
       ELSE /\ pc' = "building"
            /\ speaker' = to
            /\ memo' = target
            /\ suppress' = quiet
            /\ turns' = turns + 1
            /\ call' = NoCall
            /\ view' = disk'
            /\ routed' = IF quiet THEN routed ELSE target
            /\ UNCHANGED <<request, out>>

ExpertIsNext_CountsHandovers(to, target, quiet) ==
    /\ to \in request.names
    /\ IF Exceeded(turns + 1)
       THEN Done
       ELSE /\ pc' = "building"
            /\ speaker' = to
            /\ memo' = target
            /\ suppress' = FALSE
            /\ turns' = IF quiet THEN turns ELSE turns + 1
            /\ call' = NoCall
            /\ view' = disk'
            /\ routed' = IF quiet THEN routed ELSE target
            /\ UNCHANGED <<request, out>>

ExpertIsNext(to, target, quiet) ==
    /\ to \in request.names
    /\ IF Exceeded(turns + 1)
       THEN Done
       ELSE /\ pc' = "building"
            /\ speaker' = to
            /\ memo' = target
            /\ suppress' = FALSE
            /\ turns' = turns + 1
            /\ call' = NoCall
            /\ view' = disk'
            /\ routed' = IF quiet THEN routed ELSE target
            /\ UNCHANGED <<request, out>>

Loop(to, target, state, quiet) ==
    /\ disk' = state
    /\ \/ HostEnds(to)
       \/ ExpertIsNext(to, target, quiet)

-----------------------------------------------------------------------------
(* The run.                                                                *)

\* resolve_group_entry_route: the expert the user named, else the expert of the host
\* decision in the file, unless the last expert turn forbids to resume.
Resumable(last) ==
    \/ last = NoTurn
    \/ last.resume /\ last.user # request.message

EntryRoute ==
    IF request.named # NoOne THEN request.named
    ELSE IF Resumable(disk.last) /\ disk.scheduler \in request.names THEN disk.scheduler
    ELSE NoOne

EnterRecruiting ==
    /\ pc = "entry"
    /\ request.names = {}
    /\ pc' = "recruiting"
    /\ UNCHANGED <<members, changes, disk, local, out>>

EnterRoute ==
    /\ pc = "entry"
    /\ EntryRoute # NoOne
    /\ Loop(EntryRoute, disk.scheduler, disk, request.named # NoOne)
    /\ UNCHANGED <<members, changes>>

EnterHost ==
    /\ pc = "entry"
    /\ request.names # {}
    /\ EntryRoute = NoOne
    /\ pc' = "deciding"
    /\ view' = disk
    /\ UNCHANGED <<members, changes, disk, request, speaker, memo, suppress, turns, call, routed, out>>

\* invoke_pydantic_llm_output: an answer that breaks the protocol is asked for again,
\* once, with the messages of the retry.
Refused ==
    /\ pc \in {"recruiting", "deciding", "writing"}
    /\ call.attempt = 1
    /\ call' = [call EXCEPT !.attempt = 2]
    /\ UNCHANGED <<members, changes, disk, pc, request, speaker, memo, suppress, turns, view,
                   routed, out>>

\* The zero-member branch: the host answers, whatever it recommends.  A second answer
\* that is refused, or none because the host has no key, is a recommendation too.
Recruit_NoEnd ==
    /\ pc = "recruiting"
    /\ Over
    /\ UNCHANGED <<members, changes, disk, out>>

Recruit ==
    /\ pc = "recruiting"
    /\ Done
    /\ UNCHANGED <<members, changes, disk>>

\* The selection may name a member that the request has loaded, the user, or the end.
Speakers == request.names \cup {"user", "end"}

Select(to) ==
    /\ pc = "deciding"
    /\ to \in Speakers
    /\ call' = [attempt |-> 1, selected |-> to]
    /\ pc' = "writing"
    /\ UNCHANGED <<members, changes, disk, request, speaker, memo, suppress, turns, view,
                   routed, out>>

\* The message has the selected target, whatever it says; an invitation of experts
\* that are no members makes it a message to the user.
Finalized(to, invites) == IF invites THEN "user" ELSE to

\* What the host's call may decide when it returns: with the message, or without one
\* because the second answer is refused too, or because the host has no key.
Decided(to) ==
    \/ /\ pc = "writing"
       /\ \E invites \in BOOLEAN :
             /\ invites => request.names # Experts
             /\ to = Finalized(call.selected, invites)
    \/ /\ pc = "writing" => call.attempt = 2
       /\ pc \in {"deciding", "writing"}
       /\ to = "user"

\* The decision is written into the state that was loaded before the calls.
AfterDecision(to) == [view EXCEPT !.scheduler = to]

Decide(to) ==
    /\ Decided(to)
    /\ Loop(to, to, AfterDecision(to), suppress)
    /\ UNCHANGED <<members, changes>>

\* build_expert_turn_runtime returns.  A binding to a Skill the expert no longer has
\* is dropped, and then the state loaded before the call is written back.  The expert
\* is blocked without a Skill: an error event, and the failure of that expert.
AfterBuild(dropped) ==
    IF dropped THEN [view EXCEPT !.bound = @ \ {speaker}] ELSE disk

Built(dropped) ==
    /\ pc = "building"
    /\ dropped => speaker \in view.bound
    /\ disk' = AfterBuild(dropped)
    /\ pc' = "executing"
    /\ view' = Empty
    /\ UNCHANGED <<members, changes, request, speaker, memo, suppress, turns, call, routed, out>>

BuildFails(dropped) ==
    /\ pc = "building"
    /\ dropped => speaker \in view.bound
    /\ Fail(AfterBuild(dropped), speaker)
    /\ UNCHANGED <<members, changes>>

\* coordinate_expert_completion and what follows it: the output, if any, is published
\* with its turn_completed checkpoint, then the Skill binding is kept or released, and
\* then the file is read again and gets the new last_expert_turn.
WithBinding(state, agent, keep) ==
    [state EXCEPT !.bound = IF keep THEN @ \cup {agent} ELSE @ \ {agent}]

Completed(agent, again, keep) ==
    [WithBinding(disk, agent, keep) EXCEPT
        !.last = [agent |-> agent, user |-> request.message, resume |-> keep /\ ~again]]

InMemory(state) == IF state.scheduler = NoOne THEN memo ELSE state.scheduler

\* agent_turn = continue: the same expert again, without a message of the host.
ContinueExpert(keep) ==
    /\ pc = "executing"
    /\ disk' = Completed(speaker, TRUE, keep)
    /\ ExpertIsNext(speaker, InMemory(disk'), TRUE)
    /\ UNCHANGED <<members, changes>>

\* respond, blocked or failed: the run ends and waits for the user.
AwaitUser(keep) ==
    /\ pc = "executing"
    /\ disk' = Completed(speaker, FALSE, keep)
    /\ Done
    /\ UNCHANGED <<members, changes>>

\* respond and succeeded: the host decides again.
ReturnToHost(keep) ==
    /\ pc = "executing"
    /\ disk' = Completed(speaker, FALSE, keep)
    /\ pc' = "deciding"
    /\ memo' = InMemory(disk')
    /\ view' = disk'
    /\ UNCHANGED <<members, changes, request, speaker, suppress, turns, call, routed, out>>

\* The expert's stream or its completion raises, or its final state is invalid.
ExpertFails ==
    /\ pc = "executing"
    /\ \E state \in {disk} \cup {WithBinding(disk, speaker, keep) : keep \in BOOLEAN} :
          \E agent \in {speaker, Host} : Fail(state, agent)
    /\ UNCHANGED <<members, changes>>

\* A model call of the host, or a save after it, raises.
HostFails ==
    /\ pc \in {"entry", "recruiting", "deciding", "writing"}
    /\ \E state \in {disk} \cup {AfterDecision(to) : to \in {t \in Targets : Decided(t)}} :
          Fail(state, Host)
    /\ UNCHANGED <<members, changes>>

-----------------------------------------------------------------------------
RunStep ==
    \/ EnterRecruiting
    \/ EnterRoute
    \/ EnterHost
    \/ Refused
    \/ Recruit
    \/ \E to \in Targets : Select(to) \/ Decide(to)
    \/ \E dropped \in BOOLEAN : Built(dropped) \/ BuildFails(dropped)
    \/ \E keep \in BOOLEAN : ContinueExpert(keep) \/ AwaitUser(keep) \/ ReturnToHost(keep)
    \/ ExpertFails
    \/ HostFails

Next ==
    \/ \E m \in UserMessages, named \in Experts \cup {NoOne} : Request(m, named)
    \/ \E next \in SUBSET Experts : Update(next)
    \/ Stop
    \/ RunStep

Spec == Init /\ [][Next]_vars

(* Fairness: what the run awaits (a model call, the tools of an expert) returns or *)
(* raises, and the event loop resumes the run.  Nobody is assumed to send, stop or *)
(* change anything, and no outcome of a model call is assumed.                     *)
FairSpec == Spec /\ WF_vars(RunStep)

-----------------------------------------------------------------------------
(* Properties.                                                             *)

\* Each expert that runs is the one named by the latest message the user or the host
\* made visible in this request: the loop's next_speaker, the suppressed host messages
\* and the decision in the file never come apart.
ExpertIsTheVisibleTarget ==
    pc \in {"building", "executing"} => speaker = routed

\* A stream has its `end` event exactly when its run is over, also when an expert, the
\* host, or the persisting of a failure raised, unless it was broken off.
StreamIsClosed == out.ended <=> (pc = "done" /\ ~out.cut)

\* A run that failed, and could say so, leaves nothing that routes: whatever broke
\* and in whichever handler, the next plain message goes to the host and not straight
\* back to the expert that failed.
FailedRunLeavesNoRoute ==
    (out.failed /\ out.ended) => (disk.scheduler = NoOne /\ disk.last = NoTurn)

\* An expert loses its Skill binding only in a turn of its own: no failure of another
\* expert or of the host, no configuration change and no write of a state that was
\* loaded before an await takes it away.
BindingsAreTheirOwners ==
    [][\A e \in disk.bound \ disk'.bound : e = speaker /\ pc \in {"building", "executing"}]_vars

\* Every request ends, however often experts continue and the host hands over.
RunEnds == Running ~> ~Running

=============================================================================
