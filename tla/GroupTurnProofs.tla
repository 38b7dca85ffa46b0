---------------------------- MODULE GroupTurnProofs ----------------------------
(***************************************************************************)
(* Proofs about GroupTurn, for every set of experts and message ids, every *)
(* turn budget and every number of configuration changes.                  *)
(*                                                                         *)
(* IInv adds to the properties what a suspended run relies on: no message  *)
(* of the host stays suppressed across an await, the routed target is the  *)
(* one the user named until the host speaks, and the state a run loaded    *)
(* before an await still has the Skill bindings of the file, because       *)
(* nothing but the run itself changes them.                                *)
(***************************************************************************)

EXTENDS GroupTurn, TLAPS

EntryInv == pc = "entry" => routed = request.named

ExpertInv ==
    pc \in {"building", "executing"} =>
        speaker = routed /\ speaker \in request.names /\ speaker \in Experts

LoopInv == suppress = FALSE

StreamInv ==
    /\ pc = "idle" => out = Silent
    /\ Running => out = Silent
    /\ StreamIsClosed

ViewInv == pc \in {"building", "deciding", "writing"} => view.bound = disk.bound

CallInv == pc = "writing" => call.selected \in Speakers

IInv ==
    /\ TypeOK
    /\ EntryInv
    /\ ExpertInv
    /\ LoopInv
    /\ StreamInv
    /\ ViewInv
    /\ CallInv
    /\ FailedRunLeavesNoRoute

-----------------------------------------------------------------------------
(* The operators on the orchestration state.                               *)

LEMMA Orchestrations ==
    ASSUME NEW state \in Orchestration
    PROVE  /\ state.scheduler \in Targets \cup {NoOne}
           /\ state.last \in Turn
           /\ state.bound \in SUBSET Experts
BY DEF Orchestration

LEMMA Constants ==
    /\ NoTurn \in Turn
    /\ Empty \in Orchestration
    /\ NoRequest \in [message : UserMessages \cup {NoOne}, named : Experts \cup {NoOne},
                      names : SUBSET Experts]
    /\ NoCall \in [attempt : 1..2, selected : Targets \cup {NoOne}]
<1>1. NoTurn \in Turn
  BY DEF NoTurn, Turn
<1>2. Empty \in Orchestration
  BY <1>1 DEF Empty, Orchestration
<1>3. NoRequest \in [message : UserMessages \cup {NoOne}, named : Experts \cup {NoOne},
                     names : SUBSET Experts]
  BY DEF NoRequest
<1>4. NoCall \in [attempt : 1..2, selected : Targets \cup {NoOne}]
  BY DEF NoCall
<1> QED BY <1>1, <1>2, <1>3, <1>4

\* What a configuration change and a failure leave of the file.
LEMMA ClearedState ==
    ASSUME NEW state \in Orchestration
    PROVE  /\ Cleared(state) \in Orchestration
           /\ Cleared(state).scheduler = NoOne
           /\ Cleared(state).last = NoTurn
           /\ Cleared(state).bound = state.bound
BY Constants, Orchestrations DEF Cleared, Orchestration

LEMMA ClearFailedState ==
    ASSUME NEW state \in Orchestration, NEW agent
    PROVE  /\ ClearFailed(state, agent) \in Orchestration
           /\ ClearFailed(state, agent).scheduler = NoOne
           /\ ClearFailed(state, agent).last = NoTurn
           /\ ClearFailed(state, agent).bound = state.bound \ {agent}
<1> DEFINE c == Cleared(state)
<1>1. /\ c \in Orchestration
      /\ c.scheduler = NoOne
      /\ c.last = NoTurn
      /\ c.bound = state.bound
  BY ClearedState
<1>2. ClearFailed(state, agent) = [c EXCEPT !.bound = @ \ {agent}]
  BY DEF ClearFailed
<1> HIDE DEF c
<1> QED BY <1>1, <1>2 DEF Orchestration

LEMMA WithBindingState ==
    ASSUME NEW state \in Orchestration, NEW agent \in Experts, NEW keep \in BOOLEAN
    PROVE  /\ WithBinding(state, agent, keep) \in Orchestration
           /\ WithBinding(state, agent, keep).scheduler = state.scheduler
           /\ \A e \in state.bound \ WithBinding(state, agent, keep).bound : e = agent
BY DEF WithBinding, Orchestration

LEMMA CompletedState ==
    ASSUME IInv, pc = "executing", NEW again \in BOOLEAN, NEW keep \in BOOLEAN
    PROVE  /\ Completed(speaker, again, keep) \in Orchestration
           /\ InMemory(Completed(speaker, again, keep)) \in Targets \cup {NoOne}
           /\ \A e \in disk.bound \ Completed(speaker, again, keep).bound : e = speaker
<1> DEFINE w == WithBinding(disk, speaker, keep)
           t == [agent |-> speaker, user |-> request.message, resume |-> keep /\ ~again]
<1>1. disk \in Orchestration /\ speaker \in Experts /\ memo \in Targets \cup {NoOne}
  BY DEF IInv, TypeOK, ExpertInv
<1>2. /\ w \in Orchestration
      /\ \A e \in disk.bound \ w.bound : e = speaker
  BY <1>1, WithBindingState
<1>3. request.message \in UserMessages \cup {NoOne}
  BY DEF IInv, TypeOK
<1>4. (keep /\ ~again) \in BOOLEAN
  OBVIOUS
<1>5. t \in Turn
  BY <1>1, <1>3, <1>4 DEF Turn
<1>6. Completed(speaker, again, keep) = [w EXCEPT !.last = t]
  BY DEF Completed
<1> HIDE DEF w, t
<1>7. /\ Completed(speaker, again, keep) \in Orchestration
      /\ Completed(speaker, again, keep).bound = w.bound
  BY <1>2, <1>5, <1>6 DEF Orchestration
<1>8. InMemory(Completed(speaker, again, keep)) \in Targets \cup {NoOne}
  BY <1>1, <1>7 DEF InMemory, Orchestration
<1> QED BY <1>2, <1>7, <1>8

-----------------------------------------------------------------------------
(* The ways a step of the run can leave it.                                *)

LEMMA OverLocals ==
    ASSUME TypeOK, Over
    PROVE  /\ pc' = "done" /\ pc' \in Points
           /\ request' \in [message : UserMessages \cup {NoOne}, named : Experts \cup {NoOne},
                            names : SUBSET Experts]
           /\ speaker' \in Targets \cup {NoOne}
           /\ memo' \in Targets \cup {NoOne}
           /\ suppress' = FALSE
           /\ turns' \in 0..MaxTurns
           /\ call' \in [attempt : 1..2, selected : Targets \cup {NoOne}]
           /\ view' \in Orchestration
           /\ routed' \in Targets \cup {NoOne}
<1>1. 0 \in 0..MaxTurns
  BY ConstantsAssumption
<1> QED BY <1>1, Constants DEF Over, Points

LEMMA EndedInv ==
    ASSUME IInv, Over,
           members' = members, changes' = changes,
           disk' \in Orchestration,
           out' \in [ended : BOOLEAN, failed : BOOLEAN, cut : BOOLEAN],
           out'.ended <=> ~out'.cut,
           (out'.failed /\ out'.ended) => (disk'.scheduler = NoOne /\ disk'.last = NoTurn)
    PROVE  IInv'
<1>1. TypeOK
  BY DEF IInv
<1>2. TypeOK'
  BY <1>1, OverLocals DEF TypeOK
<1>3. pc' = "done" /\ suppress' = FALSE
  BY <1>1, OverLocals
<1>4. EntryInv' /\ ExpertInv' /\ LoopInv' /\ ViewInv' /\ CallInv'
  BY <1>3 DEF EntryInv, ExpertInv, LoopInv, ViewInv, CallInv, Speakers
<1>5. StreamInv'
  BY <1>3 DEF StreamInv, Running, StreamIsClosed
<1>6. FailedRunLeavesNoRoute'
  BY DEF FailedRunLeavesNoRoute
<1> QED BY <1>2, <1>4, <1>5, <1>6 DEF IInv

LEMMA DoneStep ==
    ASSUME IInv, Running, Done,
           members' = members, changes' = changes,
           disk' \in Orchestration
    PROVE  IInv'
<1>1. out = Silent
  BY DEF IInv, StreamInv
<1>2. out' = [ended |-> TRUE, failed |-> FALSE, cut |-> FALSE]
  BY <1>1 DEF Done, Silent
<1>3. Over
  BY DEF Done
<1> QED BY <1>2, <1>3, EndedInv

LEMMA PersistStep ==
    ASSUME NEW state \in Orchestration, NEW agent, Persist(state, agent)
    PROVE  /\ disk' \in Orchestration
           /\ disk'.scheduler = NoOne /\ disk'.last = NoTurn
           /\ disk'.bound = state.bound \ {agent}
<1>1. disk' = ClearFailed(state, agent)
  BY DEF Persist
<1> QED BY <1>1, ClearFailedState

\* A failing run keeps the invariant, and takes no binding but the failing expert's.
LEMMA FailStep ==
    ASSUME IInv, Running, NEW state \in Orchestration,
           NEW agent, Fail(state, agent),
           members' = members, changes' = changes
    PROVE  /\ IInv'
           /\ \A e \in (state.bound \cap Experts) \ disk'.bound : e = agent
<1>1. out = Silent
  BY DEF IInv, StreamInv
<1>2. Host \notin Experts
  BY ConstantsAssumption
<1>3. Over
  BY DEF Fail
<1> DEFINE c == ClearFailed(state, agent)
<1>4. c \in Orchestration /\ c.bound = state.bound \ {agent}
  BY ClearFailedState
<1>5. CASE /\ \/ Persist(state, agent)
              \/ \E s \in {state, c} : agent # Host /\ Persist(s, Host)
           /\ out' = [out EXCEPT !.ended = TRUE, !.failed = TRUE]
  <2>1. /\ disk' \in Orchestration
        /\ disk'.scheduler = NoOne /\ disk'.last = NoTurn
        /\ \A e \in (state.bound \cap Experts) \ disk'.bound : e = agent
    <3>1. CASE Persist(state, agent)
      BY <3>1, PersistStep
    <3>2. CASE Persist(state, Host)
      BY <3>2, <1>2, PersistStep
    <3>3. CASE Persist(c, Host)
      <4>1. /\ disk' \in Orchestration
             /\ disk'.scheduler = NoOne /\ disk'.last = NoTurn
            /\ disk'.bound = c.bound \ {Host}
        BY <3>3, <1>4, PersistStep
      <4> QED BY <4>1, <1>2, <1>4
    <3> QED BY <1>5, <3>1, <3>2, <3>3
  <2>2. out' = [ended |-> TRUE, failed |-> TRUE, cut |-> FALSE]
    BY <1>1, <1>5 DEF Silent
  <2> QED BY <1>3, <2>1, <2>2, EndedInv
<1>6. CASE /\ \E s \in {state, c} :
                 \/ disk' = s
                 \/ Persist(s, Host)
           /\ out' = [out EXCEPT !.failed = TRUE, !.cut = TRUE]
  <2>1. PICK s \in {state, c} :
            \/ disk' = s
            \/ Persist(s, Host)
    BY <1>6
  <2>2. s \in Orchestration /\ \A e \in (state.bound \cap Experts) \ s.bound : e = agent
    BY <1>4
  <2>3. /\ disk' \in Orchestration
        /\ \A e \in (s.bound \cap Experts) \ disk'.bound : FALSE
    <3>1. CASE disk' = s
      BY <3>1, <2>2
    <3>2. CASE Persist(s, Host)
      <4>1. disk' \in Orchestration /\ disk'.bound = s.bound \ {Host}
        BY <3>2, <2>2, PersistStep
      <4> QED BY <4>1, <1>2
    <3> QED BY <2>1, <3>1, <3>2
  <2>4. out' = [ended |-> FALSE, failed |-> TRUE, cut |-> TRUE]
    BY <1>1, <1>6 DEF Silent
  <2>5. IInv'
    BY <1>3, <2>3, <2>4, EndedInv
  <2> QED BY <2>2, <2>3, <2>5
<1> QED BY <1>5, <1>6 DEF Fail

\* An expert's turn begins, or the budget is used up.
LEMMA ExpertStep ==
    ASSUME IInv, Running,
           NEW to, NEW target \in Targets \cup {NoOne}, NEW quiet \in BOOLEAN,
           quiet => routed = to,
           ~quiet => target = to,
           ExpertIsNext(to, target, quiet),
           members' = members, changes' = changes,
           disk' \in Orchestration
    PROVE  IInv'
<1>1. CASE Exceeded(turns + 1)
  <2>1. Done
    BY <1>1 DEF ExpertIsNext
  <2> QED BY <2>1, DoneStep
<1>2. CASE ~Exceeded(turns + 1)
  <2>1. /\ to \in request.names
        /\ pc' = "building"
        /\ speaker' = to
        /\ memo' = target
        /\ suppress' = FALSE
        /\ turns' = turns + 1
        /\ call' = NoCall
        /\ view' = disk'
        /\ routed' = IF quiet THEN routed ELSE target
        /\ UNCHANGED <<request, out>>
    BY <1>2 DEF ExpertIsNext
  <2>2. TypeOK /\ request.names \in SUBSET Experts /\ turns \in 0..MaxTurns
    BY DEF IInv, TypeOK
  <2>3. to \in Experts /\ to \in Targets \cup {NoOne}
    BY <2>1, <2>2 DEF Targets
  <2>4. turns' \in 0..MaxTurns
    BY <1>2, <2>1, <2>2, ConstantsAssumption DEF Exceeded
  <2>5. routed' = to
    BY <2>1
  <2>6. TypeOK'
    BY <2>1, <2>2, <2>3, <2>4, <2>5, Constants DEF TypeOK, Points
  <2>7. EntryInv' /\ ExpertInv' /\ LoopInv' /\ ViewInv' /\ CallInv'
    BY <2>1, <2>3, <2>5 DEF EntryInv, ExpertInv, LoopInv, ViewInv, CallInv, Speakers
  <2>8. out' = Silent
    BY <2>1 DEF IInv, StreamInv
  <2>9. StreamInv' /\ FailedRunLeavesNoRoute'
    BY <2>1, <2>8 DEF StreamInv, StreamIsClosed, Running, FailedRunLeavesNoRoute, Silent
  <2> QED BY <2>6, <2>7, <2>9 DEF IInv
<1> QED BY <1>1, <1>2

LEMMA LoopStep ==
    ASSUME IInv, Running,
           NEW to, NEW target \in Targets \cup {NoOne}, NEW quiet \in BOOLEAN,
           quiet => routed = to,
           ~quiet => target = to,
           NEW state \in Orchestration,
           Loop(to, target, state, quiet),
           members' = members, changes' = changes
    PROVE  IInv'
<1>1. disk' \in Orchestration
  BY DEF Loop
<1>2. CASE HostEnds(to)
  <2>1. Done
    BY <1>2 DEF HostEnds
  <2> QED BY <1>1, <2>1, DoneStep
<1>3. CASE ExpertIsNext(to, target, quiet)
  BY <1>1, <1>3, ExpertStep
<1> QED BY <1>2, <1>3 DEF Loop

\* The state the host's decision is written into, and what comes out of it.
LEMMA DecisionState ==
    ASSUME IInv, NEW to, Decided(to)
    PROVE  /\ AfterDecision(to) \in Orchestration
           /\ AfterDecision(to).bound = disk.bound
           /\ to \in Targets
<1>1. /\ view \in Orchestration
      /\ view.bound = disk.bound
      /\ request.names \in SUBSET Experts
  BY DEF IInv, TypeOK, ViewInv, Decided
<1>2. to \in Targets
  BY <1>1 DEF IInv, CallInv, Decided, Finalized, Speakers, Targets
<1> QED BY <1>1, <1>2 DEF AfterDecision, Orchestration

LEMMA BuiltState ==
    ASSUME IInv, pc = "building", NEW dropped \in BOOLEAN
    PROVE  /\ AfterBuild(dropped) \in Orchestration
           /\ \A e \in disk.bound \ AfterBuild(dropped).bound : e = speaker
<1>1. /\ view \in Orchestration
      /\ disk \in Orchestration
      /\ view.bound = disk.bound
  BY DEF IInv, TypeOK, ViewInv
<1> QED BY <1>1 DEF AfterBuild, Orchestration

-----------------------------------------------------------------------------
(* Every step keeps the invariant, and takes a Skill binding only from the *)
(* expert whose turn it is.                                                *)

OwnBindings == \A e \in disk.bound \ disk'.bound : e = speaker /\ pc \in {"building", "executing"}

LEMMA Initially == Init => IInv
<1> SUFFICES ASSUME Init PROVE IInv
  OBVIOUS
<1>1. 0 \in 0..MaxChanges /\ 0 \in 0..MaxTurns
  BY ConstantsAssumption
<1>2. TypeOK
  BY <1>1, Constants DEF Init, TypeOK, Points, Silent
<1>3. EntryInv /\ ExpertInv /\ LoopInv /\ ViewInv /\ CallInv
  BY DEF Init, EntryInv, ExpertInv, LoopInv, ViewInv, CallInv, Speakers
<1>4. StreamInv /\ FailedRunLeavesNoRoute
  BY DEF Init, StreamInv, StreamIsClosed, Running, FailedRunLeavesNoRoute, Silent
<1> QED BY <1>2, <1>3, <1>4 DEF IInv

LEMMA RequestStep ==
    ASSUME IInv, NEW m \in UserMessages, NEW named \in Experts \cup {NoOne}, Request(m, named)
    PROVE  IInv' /\ OwnBindings
<1>1. TypeOK /\ suppress = FALSE /\ ~Running
  BY DEF IInv, LoopInv, Request
<1>2. TypeOK'
  BY <1>1 DEF TypeOK, Request, Points, Targets, Silent
<1>3. EntryInv' /\ ExpertInv' /\ LoopInv' /\ ViewInv' /\ CallInv'
  BY <1>1 DEF Request, EntryInv, ExpertInv, LoopInv, ViewInv, CallInv, Speakers
<1>4. StreamInv' /\ FailedRunLeavesNoRoute'
  BY DEF Request, StreamInv, StreamIsClosed, Running, FailedRunLeavesNoRoute, Silent
<1>5. OwnBindings
  BY DEF OwnBindings, Request
<1> QED BY <1>2, <1>3, <1>4, <1>5 DEF IInv

LEMMA UpdateStep ==
    ASSUME IInv, NEW next \in SUBSET Experts, Update(next)
    PROVE  IInv' /\ OwnBindings
<1>1. TypeOK /\ disk \in Orchestration /\ changes \in 0..MaxChanges
  BY DEF IInv, TypeOK
<1>2. /\ disk' \in Orchestration
      /\ disk'.scheduler = NoOne /\ disk'.last = NoTurn
      /\ disk'.bound = disk.bound
  BY <1>1, ClearedState DEF Update
<1>3. changes' \in 0..MaxChanges
  BY <1>1, ConstantsAssumption DEF Update
<1>5. members' = next /\ UNCHANGED <<pc, local, out>>
  BY DEF Update
<1>6. TypeOK'
  BY <1>1, <1>2, <1>3, <1>5 DEF TypeOK, local
<1>7. EntryInv' /\ ExpertInv' /\ LoopInv' /\ StreamInv' /\ ViewInv' /\ CallInv'
  BY <1>2, <1>5 DEF IInv, local, EntryInv, ExpertInv, LoopInv, StreamInv, StreamIsClosed,
                    Running, ViewInv, CallInv, Speakers
<1>8. FailedRunLeavesNoRoute'
  BY <1>2 DEF FailedRunLeavesNoRoute
<1>9. OwnBindings
  BY <1>2 DEF OwnBindings
<1> QED BY <1>6, <1>7, <1>8, <1>9 DEF IInv

LEMMA StopStep ==
    ASSUME IInv, Stop
    PROVE  IInv' /\ OwnBindings
<1>1. TypeOK /\ out = Silent
  BY DEF IInv, StreamInv, Stop
<1>2. out' = [ended |-> FALSE, failed |-> FALSE, cut |-> TRUE]
  BY <1>1 DEF Stop, Silent
<1>3. /\ Over
      /\ members' = members /\ changes' = changes
      /\ disk' = disk
  BY DEF Stop
<1>4. disk' \in Orchestration
  BY <1>1, <1>3 DEF TypeOK
<1>5. IInv'
  BY <1>2, <1>3, <1>4, EndedInv
<1>6. OwnBindings
  BY <1>3 DEF OwnBindings
<1> QED BY <1>5, <1>6

LEMMA EntryStep ==
    ASSUME IInv, EnterRecruiting \/ EnterRoute \/ EnterHost
    PROVE  IInv' /\ OwnBindings
<1>1. /\ TypeOK /\ disk \in Orchestration /\ pc = "entry" /\ Running
      /\ routed = request.named
      /\ suppress = FALSE
      /\ out = Silent
  BY DEF IInv, TypeOK, EntryInv, LoopInv, StreamInv, EnterRecruiting, EnterRoute, EnterHost, Running
<1>2. CASE EnterRoute
  <2>1. disk.scheduler \in Targets \cup {NoOne}
    BY <1>1 DEF Orchestration
  <2>2. (request.named # NoOne) => routed = EntryRoute
    BY <1>1 DEF EntryRoute
  <2>3. ~(request.named # NoOne) => disk.scheduler = EntryRoute
    BY <1>2 DEF EnterRoute, EntryRoute
  <2>4. (request.named # NoOne) \in BOOLEAN
    OBVIOUS
  <2>5. /\ Loop(EntryRoute, disk.scheduler, disk, request.named # NoOne)
        /\ members' = members /\ changes' = changes
    BY <1>2 DEF EnterRoute
  <2>6. IInv'
    BY <1>1, <2>1, <2>2, <2>3, <2>4, <2>5, LoopStep
  <2>7. OwnBindings
    BY <2>5 DEF OwnBindings, Loop
  <2> QED BY <2>6, <2>7
<1>3. CASE EnterRecruiting
  <2>1. TypeOK'
    BY <1>1, <1>3 DEF TypeOK, EnterRecruiting, local, Points
  <2>2. pc' = "recruiting" /\ UNCHANGED <<disk, local, out>>
    BY <1>3 DEF EnterRecruiting
  <2>3. EntryInv' /\ ExpertInv' /\ LoopInv' /\ ViewInv' /\ CallInv'
    BY <1>1, <2>2 DEF EntryInv, ExpertInv, LoopInv, ViewInv, CallInv, Speakers, local
  <2>4. StreamInv' /\ FailedRunLeavesNoRoute' /\ OwnBindings
    BY <1>1, <2>2 DEF StreamInv, StreamIsClosed, Running, FailedRunLeavesNoRoute, Silent, OwnBindings
  <2> QED BY <2>1, <2>3, <2>4 DEF IInv
<1>4. CASE EnterHost
  <2>1. /\ pc' = "deciding" /\ view' = disk
        /\ UNCHANGED <<members, changes, disk, request, speaker, memo, suppress, turns, call, routed, out>>
    BY <1>4 DEF EnterHost
  <2>2. TypeOK'
    BY <1>1, <2>1 DEF TypeOK, Points
  <2>3. EntryInv' /\ ExpertInv' /\ LoopInv' /\ ViewInv' /\ CallInv'
    BY <1>1, <2>1 DEF EntryInv, ExpertInv, LoopInv, ViewInv, CallInv, Speakers
  <2>4. StreamInv' /\ FailedRunLeavesNoRoute' /\ OwnBindings
    BY <1>1, <2>1 DEF StreamInv, StreamIsClosed, Running, FailedRunLeavesNoRoute, Silent, OwnBindings
  <2> QED BY <2>2, <2>3, <2>4 DEF IInv
<1> QED BY <1>2, <1>3, <1>4

\* The run goes on to wait for the host, with nothing else changed.
LEMMA WaitingStep ==
    ASSUME IInv, TypeOK',
           pc \in {"recruiting", "deciding", "writing"},
           pc' \in {"recruiting", "deciding", "writing"},
           pc' \in {"deciding", "writing"} => pc \in {"deciding", "writing"},
           pc' = "writing" => call'.selected \in Speakers,
           UNCHANGED <<members, changes, disk, request, speaker, memo, suppress, turns, view,
                       routed, out>>
    PROVE  IInv' /\ OwnBindings
<1>1. EntryInv' /\ ExpertInv' /\ LoopInv'
  BY DEF IInv, EntryInv, ExpertInv, LoopInv
<1>2. ViewInv' /\ CallInv'
  BY DEF IInv, ViewInv, CallInv, Speakers
<1>3. StreamInv' /\ FailedRunLeavesNoRoute'
  BY DEF IInv, StreamInv, StreamIsClosed, Running, FailedRunLeavesNoRoute, Silent
<1>4. OwnBindings
  BY DEF OwnBindings
<1> QED BY <1>1, <1>2, <1>3, <1>4 DEF IInv

LEMMA HostStep ==
    ASSUME IInv, Recruit \/ (\E to \in Targets : Select(to) \/ Decide(to)) \/ Refused \/ HostFails
    PROVE  IInv' /\ OwnBindings
<1>1. TypeOK /\ disk \in Orchestration /\ suppress = FALSE /\ disk.bound \in SUBSET Experts
  BY Orchestrations DEF IInv, TypeOK, LoopInv
<1>2. CASE Recruit
  <2>1. Done /\ disk' = disk /\ members' = members /\ changes' = changes /\ Running
    BY <1>2 DEF Recruit, Running
  <2> QED BY <1>1, <2>1, DoneStep DEF OwnBindings
<1>3. CASE \E to \in Targets : Decide(to)
  <2>1. PICK to \in Targets : Decide(to)
    BY <1>3
  <2>2. /\ Decided(to) /\ Running
        /\ Loop(to, to, AfterDecision(to), suppress)
        /\ members' = members /\ changes' = changes
    BY <2>1 DEF Decide, Decided, Running
  <2>3. AfterDecision(to) \in Orchestration /\ AfterDecision(to).bound = disk.bound
    BY <2>2, DecisionState
  <2>4. IInv'
    BY <1>1, <2>2, <2>3, LoopStep
  <2>5. OwnBindings
    BY <2>2, <2>3 DEF OwnBindings, Loop
  <2> QED BY <2>4, <2>5
<1>4. CASE HostFails
  <2>1. PICK state \in {disk} \cup {AfterDecision(to) : to \in {t \in Targets : Decided(t)}} :
            Fail(state, Host)
    BY <1>4 DEF HostFails
  <2>2. Running /\ members' = members /\ changes' = changes
    BY <1>4 DEF HostFails, Running
  <2>3. state \in Orchestration /\ state.bound = disk.bound
    BY <1>1, <2>1, DecisionState
  <2>4. IInv' /\ \A e \in (state.bound \cap Experts) \ disk'.bound : e = Host
    BY <2>1, <2>2, <2>3, FailStep
  <2>5. OwnBindings
    BY <1>1, <2>3, <2>4, ConstantsAssumption DEF OwnBindings
  <2> QED BY <2>4, <2>5
<1>5. CASE \E to \in Targets : Select(to)
  <2>1. PICK to \in Targets : Select(to)
    BY <1>5
  <2>2. /\ pc = "deciding" /\ to \in Speakers
        /\ call' = [attempt |-> 1, selected |-> to] /\ pc' = "writing"
        /\ UNCHANGED <<members, changes, disk, request, speaker, memo, suppress, turns, view,
                       routed, out>>
    BY <2>1 DEF Select
  <2>3. TypeOK'
    BY <1>1, <2>2 DEF TypeOK, Points
  <2> QED BY <1>1, <2>2, <2>3, WaitingStep
<1>6. CASE Refused
  <2>1. /\ pc \in {"recruiting", "deciding", "writing"}
        /\ call' = [call EXCEPT !.attempt = 2] /\ pc' = pc
        /\ UNCHANGED <<members, changes, disk, request, speaker, memo, suppress, turns, view,
                       routed, out>>
    BY <1>6 DEF Refused
  <2>2. TypeOK' /\ call'.selected = call.selected
    BY <1>1, <2>1 DEF TypeOK
  <2> QED BY <1>1, <2>1, <2>2, WaitingStep DEF IInv, CallInv
<1> QED BY <1>2, <1>3, <1>4, <1>5, <1>6

LEMMA BuildStep ==
    ASSUME IInv, NEW dropped \in BOOLEAN, Built(dropped) \/ BuildFails(dropped)
    PROVE  IInv' /\ OwnBindings
<1>1. /\ TypeOK /\ disk \in Orchestration /\ pc = "building" /\ Running
      /\ suppress = FALSE /\ out = Silent
      /\ speaker = routed /\ speaker \in request.names /\ speaker \in Experts
      /\ disk.bound \in SUBSET Experts
  BY Orchestrations DEF IInv, TypeOK, LoopInv, StreamInv, ExpertInv, Built, BuildFails, Running
<1> DEFINE state == AfterBuild(dropped)
<1>2. state \in Orchestration /\ \A e \in disk.bound \ state.bound : e = speaker
  BY <1>1, BuiltState
<1> HIDE DEF state
<1>3. CASE Built(dropped)
  <2>1. /\ disk' = state
        /\ pc' = "executing" /\ view' = Empty
        /\ UNCHANGED <<members, changes, request, speaker, memo, suppress, turns, call, routed, out>>
    BY <1>3 DEF Built, state
  <2>2. TypeOK'
    BY <1>1, <1>2, <2>1, Constants DEF TypeOK, Points
  <2>3. EntryInv' /\ ExpertInv' /\ LoopInv' /\ ViewInv' /\ CallInv'
    BY <1>1, <2>1 DEF EntryInv, ExpertInv, LoopInv, ViewInv, CallInv, Speakers
  <2>4. StreamInv' /\ FailedRunLeavesNoRoute'
    BY <1>1, <2>1 DEF StreamInv, StreamIsClosed, Running, FailedRunLeavesNoRoute, Silent
  <2>5. OwnBindings
    BY <1>1, <1>2, <2>1 DEF OwnBindings
  <2> QED BY <2>2, <2>3, <2>4, <2>5 DEF IInv
<1>4. CASE BuildFails(dropped)
  <2>1. Fail(state, speaker) /\ members' = members /\ changes' = changes
    BY <1>4 DEF BuildFails, state
  <2>2. IInv' /\ \A e \in (state.bound \cap Experts) \ disk'.bound : e = speaker
    BY <1>1, <1>2, <2>1, FailStep
  <2>3. OwnBindings
    BY <1>1, <1>2, <2>2 DEF OwnBindings
  <2> QED BY <2>2, <2>3
<1> QED BY <1>3, <1>4

LEMMA CompletionStep ==
    ASSUME IInv, NEW keep \in BOOLEAN,
           ContinueExpert(keep) \/ AwaitUser(keep) \/ ReturnToHost(keep)
    PROVE  IInv' /\ OwnBindings
<1>1. /\ TypeOK /\ pc = "executing" /\ Running
      /\ suppress = FALSE /\ out = Silent
      /\ speaker = routed
      /\ members' = members /\ changes' = changes
  BY DEF IInv, LoopInv, StreamInv, ExpertInv, ContinueExpert, AwaitUser, ReturnToHost, Running
<1>2. PICK again \in BOOLEAN : disk' = Completed(speaker, again, keep)
  BY DEF ContinueExpert, AwaitUser, ReturnToHost
<1>3. /\ disk' \in Orchestration
      /\ InMemory(disk') \in Targets \cup {NoOne}
      /\ \A e \in disk.bound \ disk'.bound : e = speaker
  BY <1>1, <1>2, CompletedState
<1>5. OwnBindings
  BY <1>1, <1>3 DEF OwnBindings
<1>6. CASE ContinueExpert(keep)
  <2>1. ExpertIsNext(speaker, InMemory(disk'), TRUE)
    BY <1>6 DEF ContinueExpert
  <2>2. IInv'
    BY <1>1, <1>3, <2>1, ExpertStep
  <2> QED BY <1>5, <2>2
<1>7. CASE AwaitUser(keep)
  <2>1. Done
    BY <1>7 DEF AwaitUser
  <2> QED BY <1>1, <1>3, <1>5, <2>1, DoneStep
<1>8. CASE ReturnToHost(keep)
  <2>1. /\ pc' = "deciding" /\ memo' = InMemory(disk') /\ view' = disk'
        /\ UNCHANGED <<request, speaker, suppress, turns, call, routed, out>>
    BY <1>8 DEF ReturnToHost
  <2>2. TypeOK'
    BY <1>1, <1>3, <2>1 DEF TypeOK, Points
  <2>3. EntryInv' /\ ExpertInv' /\ LoopInv' /\ ViewInv' /\ CallInv'
    BY <1>1, <2>1 DEF EntryInv, ExpertInv, LoopInv, ViewInv, CallInv, Speakers
  <2>4. StreamInv' /\ FailedRunLeavesNoRoute'
    BY <1>1, <2>1 DEF StreamInv, StreamIsClosed, Running, FailedRunLeavesNoRoute, Silent
  <2> QED BY <1>5, <2>2, <2>3, <2>4 DEF IInv
<1> QED BY <1>6, <1>7, <1>8

LEMMA ExpertFailsStep ==
    ASSUME IInv, ExpertFails
    PROVE  IInv' /\ OwnBindings
<1>1. /\ disk \in Orchestration /\ pc = "executing" /\ Running
      /\ speaker \in Experts
      /\ disk.bound \in SUBSET Experts
      /\ members' = members /\ changes' = changes
  BY Orchestrations DEF IInv, TypeOK, ExpertInv, ExpertFails, Running
<1>2. PICK state \in {disk} \cup {WithBinding(disk, speaker, keep) : keep \in BOOLEAN},
           agent \in {speaker, Host} : Fail(state, agent)
  BY DEF ExpertFails
<1>3. state \in Orchestration /\ \A e \in disk.bound \ state.bound : e = speaker
  BY <1>1, <1>2, WithBindingState
<1>4. IInv' /\ \A e \in (state.bound \cap Experts) \ disk'.bound : e = agent
  BY <1>1, <1>2, <1>3, FailStep
<1>5. \A e \in disk.bound \ disk'.bound : e = speaker
  BY <1>1, <1>2, <1>3, <1>4, ConstantsAssumption
<1> QED BY <1>1, <1>4, <1>5 DEF OwnBindings

LEMMA Step ==
    ASSUME IInv, [Next]_vars
    PROVE  IInv' /\ (OwnBindings \/ UNCHANGED vars)
<1>1. CASE UNCHANGED vars
  BY <1>1 DEF vars, local, IInv, TypeOK, EntryInv, ExpertInv, LoopInv, StreamInv,
              StreamIsClosed, Running, ViewInv, CallInv, Speakers, FailedRunLeavesNoRoute
<1>2. CASE \E m \in UserMessages, named \in Experts \cup {NoOne} : Request(m, named)
  BY <1>2, RequestStep
<1>3. CASE \E next \in SUBSET Experts : Update(next)
  BY <1>3, UpdateStep
<1>4. CASE Stop
  BY <1>4, StopStep
<1>5. CASE RunStep
  <2>1. CASE EnterRecruiting \/ EnterRoute \/ EnterHost
    BY <2>1, EntryStep
  <2>2. CASE Recruit \/ (\E to \in Targets : Select(to) \/ Decide(to)) \/ Refused \/ HostFails
    BY <2>2, HostStep
  <2>3. CASE \E dropped \in BOOLEAN : Built(dropped) \/ BuildFails(dropped)
    BY <2>3, BuildStep
  <2>4. CASE \E keep \in BOOLEAN : ContinueExpert(keep) \/ AwaitUser(keep) \/ ReturnToHost(keep)
    BY <2>4, CompletionStep
  <2>5. CASE ExpertFails
    BY <2>5, ExpertFailsStep
  <2> QED BY <1>5, <2>1, <2>2, <2>3, <2>4, <2>5 DEF RunStep
<1> QED BY <1>1, <1>2, <1>3, <1>4, <1>5 DEF Next

-----------------------------------------------------------------------------
\* The inductive invariant of the run loop holds in every reachable state.
THEOREM Invariance == Spec => []IInv
<1>1. IInv /\ [Next]_vars => IInv'
  BY Step
<1> QED BY <1>1, Initially, PTL DEF Spec

\* Every reachable state of the run loop has its type: in particular no run has more
\* expert turns than the budget allows.
THEOREM TypeCorrect == Spec => []TypeOK
<1>1. IInv => TypeOK
  BY DEF IInv
<1> QED BY <1>1, Invariance, PTL

\* The expert that is built or executed is always the one the user or the host named
\* in the latest visible message of the request.
THEOREM ExpertsAreRoutedVisibly == Spec => []ExpertIsTheVisibleTarget
<1>1. IInv => ExpertIsTheVisibleTarget
  BY DEF IInv, ExpertInv, ExpertIsTheVisibleTarget
<1> QED BY <1>1, Invariance, PTL

\* The stream of a run that was not broken off has its `end` event, and none before it.
THEOREM StreamsAreClosed == Spec => []StreamIsClosed
<1>1. IInv => StreamIsClosed
  BY DEF IInv, StreamInv
<1> QED BY <1>1, Invariance, PTL

\* After a failure that could be persisted no host decision and no last expert turn is
\* left that could route the next message.
THEOREM FailuresLeaveNoRoute == Spec => []FailedRunLeavesNoRoute
<1>1. IInv => FailedRunLeavesNoRoute
  BY DEF IInv
<1> QED BY <1>1, Invariance, PTL

\* A Skill binding is only ever lost in a turn of the expert that has it, although the
\* run writes back states it loaded before an await.
THEOREM BindingsSurviveOthers == Spec => BindingsAreTheirOwners
<1>1. IInv /\ [Next]_vars =>
        [\A e \in disk.bound \ disk'.bound : e = speaker /\ pc \in {"building", "executing"}]_vars
  BY Step DEF OwnBindings
<1> QED BY <1>1, Invariance, PTL DEF Spec, BindingsAreTheirOwners

-----------------------------------------------------------------------------
(* What a run may still do: its turns, and under each turn the awaits up to  *)
(* the next one.  A host call is worth two awaits, one for each attempt.     *)

AwaitsLeft ==
    CASE pc = "building" -> 6
      [] pc \in {"entry", "executing"} -> 5
      [] pc \in {"recruiting", "deciding"} -> 5 - call.attempt
      [] pc = "writing" -> 3 - call.attempt
      [] OTHER -> 0

Left == IF Running THEN 7 * (MaxTurns - turns) + AwaitsLeft ELSE 0

\* A run uses up what it may still do: each of its own steps leaves it less, and while
\* it is running nothing else gives it more.
LeftShrinks ==
    [][(Running => Left' <= Left) /\ (RunStep => Left' < Left)]_vars

LEMMA LeftType ==
    ASSUME TypeOK
    PROVE  /\ Left \in 0..(7 * MaxTurns + 6)
           /\ Running => Left > 0
           /\ ~Running => Left = 0
<1>1. Running => AwaitsLeft \in 1..6
  BY DEF TypeOK, AwaitsLeft, Running, Points
<1> QED BY <1>1, ConstantsAssumption DEF Left, TypeOK

\* A run that ends has nothing left.
LEMMA OverLeft ==
    ASSUME IInv, IInv', Running, ~Running'
    PROVE  Left' < Left
<1>1. TypeOK /\ TypeOK'
  BY DEF IInv
<1>2. Left' = 0
  BY DEF Left
<1> QED BY <1>1, <1>2, LeftType

\* The next expert turn costs more than all the awaits of the one before it.
LEMMA TurnLeft ==
    ASSUME IInv, IInv', Running, pc' = "building", turns' = turns + 1
    PROVE  Left' < Left
<1>1. TypeOK /\ TypeOK'
  BY DEF IInv
<1>2. AwaitsLeft' = 6 /\ Running'
  BY DEF AwaitsLeft, Running
<1>3. AwaitsLeft \in 1..6
  BY <1>1 DEF TypeOK, AwaitsLeft, Running, Points
<1>4. turns \in Nat /\ MaxTurns \in Nat
  BY <1>1, ConstantsAssumption DEF TypeOK
<1> QED BY <1>2, <1>3, <1>4 DEF Left

\* A step to another await of the same turn.
LEMMA AwaitLeft ==
    ASSUME IInv, Running, Running', turns' = turns,
           AwaitsLeft \in Nat, AwaitsLeft' \in Nat, AwaitsLeft' < AwaitsLeft
    PROVE  Left' < Left
<1> DEFINE turnsLeft == 7 * (MaxTurns - turns)
<1>1. turnsLeft \in Nat
  BY ConstantsAssumption DEF IInv, TypeOK
<1>2. Left = turnsLeft + AwaitsLeft /\ Left' = turnsLeft + AwaitsLeft'
  BY DEF Left
<1>3. \A m, n, k \in Nat : n < m => k + n < k + m
  OBVIOUS
<1>4. turnsLeft + AwaitsLeft' < turnsLeft + AwaitsLeft
  BY <1>1, <1>3
<1> QED BY <1>2, <1>4

LEMMA NextExpertLeft ==
    ASSUME IInv, IInv', Running, NEW to, NEW target, NEW quiet,
           ExpertIsNext(to, target, quiet)
    PROVE  Left' < Left
<1>1. CASE Exceeded(turns + 1)
  <2>1. ~Running'
    BY <1>1 DEF ExpertIsNext, Done, Over, Running
  <2> QED BY <2>1, OverLeft
<1>2. CASE ~Exceeded(turns + 1)
  <2>1. pc' = "building" /\ turns' = turns + 1
    BY <1>2 DEF ExpertIsNext
  <2> QED BY <2>1, TurnLeft
<1> QED BY <1>1, <1>2

LEMMA LoopLeft ==
    ASSUME IInv, IInv', Running, NEW to, NEW target, NEW state, NEW quiet,
           Loop(to, target, state, quiet)
    PROVE  Left' < Left
<1>1. CASE HostEnds(to)
  <2>1. ~Running'
    BY <1>1 DEF HostEnds, Done, Over, Running
  <2> QED BY <2>1, OverLeft
<1>2. CASE ExpertIsNext(to, target, quiet)
  BY <1>2, NextExpertLeft
<1> QED BY <1>1, <1>2 DEF Loop

LEMMA RunStepLeft ==
    ASSUME IInv, IInv', RunStep
    PROVE  Running /\ Left' < Left
<1>0. call.attempt \in 1..2 /\ TypeOK
  BY DEF IInv, TypeOK
<1>1. CASE EnterRecruiting \/ EnterHost
  <2>1. Running /\ Running' /\ turns' = turns /\ AwaitsLeft = 5 /\ AwaitsLeft' = 5 - call.attempt
    BY <1>1 DEF EnterRecruiting, EnterHost, local, Running, AwaitsLeft
  <2> QED BY <1>0, <2>1, AwaitLeft
<1>2. CASE EnterRoute
  <2>1. Running
    BY <1>2 DEF EnterRoute, Running
  <2> QED BY <1>2, <2>1, LoopLeft DEF EnterRoute
<1>3. CASE Refused
  <2>1. /\ Running /\ Running' /\ turns' = turns /\ pc' = pc
        /\ call.attempt = 1 /\ call'.attempt = 2
    BY <1>0, <1>3 DEF Refused, Running, IInv, TypeOK
  <2>2. AwaitsLeft \in {4, 2} /\ AwaitsLeft' = AwaitsLeft - 1
    BY <1>3, <2>1 DEF Refused, AwaitsLeft
  <2> QED BY <2>1, <2>2, AwaitLeft
<1>4. CASE Recruit
  <2>1. Running /\ ~Running'
    BY <1>4 DEF Recruit, Done, Over, Running
  <2> QED BY <2>1, OverLeft
<1>5. ASSUME NEW to \in Targets, Select(to)  PROVE Running /\ Left' < Left
  <2>1. /\ Running /\ Running' /\ turns' = turns
        /\ AwaitsLeft = 5 - call.attempt /\ AwaitsLeft' = 2
    BY <1>5 DEF Select, Running, AwaitsLeft
  <2> QED BY <1>0, <2>1, AwaitLeft
<1>6. ASSUME NEW to \in Targets, Decide(to)  PROVE Running /\ Left' < Left
  <2>1. Running
    BY <1>6 DEF Decide, Decided, Running
  <2> QED BY <1>6, <2>1, LoopLeft DEF Decide
<1>7. ASSUME NEW dropped \in BOOLEAN, Built(dropped)  PROVE Running /\ Left' < Left
  <2>1. Running /\ Running' /\ turns' = turns /\ AwaitsLeft = 6 /\ AwaitsLeft' = 5
    BY <1>7 DEF Built, Running, AwaitsLeft
  <2> QED BY <2>1, AwaitLeft
<1>8. ASSUME NEW dropped \in BOOLEAN, BuildFails(dropped)  PROVE Running /\ Left' < Left
  <2>1. Running /\ ~Running'
    BY <1>8 DEF BuildFails, Fail, Over, Running
  <2> QED BY <2>1, OverLeft
<1>9. ASSUME NEW keep \in BOOLEAN, ContinueExpert(keep)  PROVE Running /\ Left' < Left
  <2>1. Running
    BY <1>9 DEF ContinueExpert, Running
  <2> QED BY <1>9, <2>1, NextExpertLeft DEF ContinueExpert
<1>10. ASSUME NEW keep \in BOOLEAN, AwaitUser(keep)  PROVE Running /\ Left' < Left
  <2>1. Running /\ ~Running'
    BY <1>10 DEF AwaitUser, Done, Over, Running
  <2> QED BY <2>1, OverLeft
<1>11. ASSUME NEW keep \in BOOLEAN, ReturnToHost(keep)  PROVE Running /\ Left' < Left
  <2>1. /\ Running /\ Running' /\ turns' = turns
        /\ AwaitsLeft = 5 /\ AwaitsLeft' = 5 - call.attempt
    BY <1>11 DEF ReturnToHost, Running, AwaitsLeft
  <2> QED BY <1>0, <2>1, AwaitLeft
<1>12. CASE ExpertFails \/ HostFails
  <2>1. Running /\ ~Running'
    BY <1>12 DEF ExpertFails, HostFails, Fail, Over, Running
  <2> QED BY <2>1, OverLeft
<1> QED BY <1>1, <1>2, <1>3, <1>4, <1>5, <1>6, <1>7, <1>8, <1>9, <1>10, <1>11, <1>12 DEF RunStep

\* The safety half of RunEnds: a request can take at most 7 * MaxTurns + 6 steps of its
\* own, however often experts continue, the host hands over and answers are refused.
THEOREM RunsUseUpTheirBudget ==
    Spec => LeftShrinks /\ [](Left \in 0..(7 * MaxTurns + 6))
<1>1. TypeOK => Left \in Nat
  BY LeftType, ConstantsAssumption
<1>2. (TypeOK => Left \in Nat)'
  BY <1>1, PTL
<1>3. IInv /\ [Next]_vars => [(Running => Left' <= Left) /\ (RunStep => Left' < Left)]_vars
  <2> SUFFICES ASSUME IInv, Next
               PROVE  (Running => Left' <= Left) /\ (RunStep => Left' < Left)
    OBVIOUS
  <2>1. IInv' /\ TypeOK /\ TypeOK'
    BY Step DEF IInv
  <2>2. CASE RunStep
    <3>1. Left \in Nat /\ Left' \in Nat
      BY <2>1, <1>1, <1>2
    <3> QED BY <2>1, <2>2, <3>1, RunStepLeft
  <2>3. CASE \E m \in UserMessages, named \in Experts \cup {NoOne} : Request(m, named)
    <3>1. ~Running
      BY <2>3 DEF Request
    <3> QED BY <2>1, <3>1, RunStepLeft
  <2>4. CASE (\E next \in SUBSET Experts : Update(next)) /\ ~RunStep
    <3>1. Left' = Left
      BY <2>4 DEF Update, local, Left, AwaitsLeft, Running
    <3>2. Left \in Nat
      BY <2>1, <1>1
    <3> QED BY <2>4, <3>1, <3>2
  <2>5. CASE Stop /\ ~RunStep
    <3>1. Running /\ ~Running'
      BY <2>5 DEF Stop, Over, Running
    <3>2. Left' < Left /\ Left \in Nat /\ Left' \in Nat
      BY <2>1, <3>1, <1>1, <1>2, OverLeft
    <3> QED BY <2>5, <3>2
  <2> QED BY <2>2, <2>3, <2>4, <2>5 DEF Next
<1>4. IInv => Left \in 0..(7 * MaxTurns + 6)
  BY LeftType DEF IInv
<1> QED BY <1>3, <1>4, Invariance, PTL DEF Spec, LeftShrinks

=============================================================================
