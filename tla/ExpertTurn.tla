------------------------------ MODULE ExpertTurn ------------------------------
(*****************************************************************************)
(* One turn of an expert: the tool loop of stream_simple_agent with the tool *)
(* runner of the Skill agent, and under it the tools: the script, which goes *)
(* through the tool gateway and records what it did to the workspace, and    *)
(* the others, which write the workspace on the host, call an HTTP API or an *)
(* MCP server, and keep the files that come back.                            *)
(*                                                                           *)
(* The turn is one task and an action is what it does between two awaits:    *)
(* the model's answer, an MCP server's answer, a permit of the user's        *)
(* semaphore, an attempt in the sandbox.  Workspace tools and HTTP calls run *)
(* without an await.  In between, other turns of the same user take and      *)
(* return permits, a stop cancels the turn, and an attempt that was given up *)
(* may still write files.                                                    *)
(*                                                                           *)
(* Abstractions.  A message is its role and what the loop tells apart: its   *)
(* tool calls, or what kind of text or instruction it is.  There is one      *)
(* script with one set of arguments.  A state of the workspace is the number *)
(* of writes so far, its fingerprint too.  The agent has a final output      *)
(* model, as every Skill agent has.  Ids of tool calls are their positions.  *)
(*****************************************************************************)

EXTENDS Naturals, Sequences, SequencesExt

CONSTANTS
    MaxSteps,        \* SKILL_AGENT_MAX_STEPS
    MaxCalls,        \* bound: tool calls in one answer of the model
    Continuations,   \* LLM_OUTPUT_CONTINUATION_MAX_ROUNDS
    Retries,         \* retry_count of a script call
    Permits,         \* SANDBOX_MAX_CONCURRENT_TASKS_PER_USER
    MaxWrites        \* bound: writes to the workspace

ASSUME ConstantsAssumption ==
    /\ {MaxSteps, MaxCalls, Permits} \subseteq Nat \ {0}
    /\ {Continuations, Retries, MaxWrites} \subseteq Nat

VARIABLES
    pc, step,
    messages,        \* what the next model call sees
    queue,           \* calls of the last answer that have no tool message yet
    cached,          \* the script's result is in tool_result_cache
    results,         \* some tool left a record or a raw output
    retried, continued,
    attempt,         \* attempts of the running script call, the current included
    before,          \* the fingerprint taken before the script
    others, holding, \* permits taken by other turns, and by this one
    disk, saved,     \* the workspace, and the one in the last checkpoint
    orphans,         \* attempts that were given up and may still be writing
    excuse,          \* a capture failed, or work was given up before its capture
    outcome

loop == <<step, messages, queue, cached, results, retried, continued>>
gateway == <<attempt, before, holding>>
vars == <<pc, loop, gateway, others, disk, saved, orphans, excuse, outcome>>

\* The tools of a turn: the script, another tool (workspace, MCP, HTTP API, Skill file),
\* and names the model makes up.
Names == {"script", "tool", "unknown"}

AI(text, calls) == [role |-> "ai", text |-> text, n |-> calls]
Human(text) == [role |-> "human", text |-> text, n |-> 0]
Tool(position) == [role |-> "tool", text |-> "", n |-> position]

Texts == {"", "calls", "matching", "other", "truncated", "failure", "final",
          "retry", "continue", "decide", "budget"}
Message == [role : {"ai", "human", "tool"}, text : Texts, n : 0..MaxCalls]

Points == {"model", "tools", "mcp", "acquire", "running", "sleeping", "finalizing", "done"}

Taken == others + (IF holding THEN 1 ELSE 0)

\* A permit is held just while an attempt runs or is waited for, and none is given twice:
\* whatever raises, times out or is cancelled returns it.
PermitsAreTheirs ==
    /\ holding <=> pc \in {"running", "sleeping"}
    /\ Taken <= Permits

TypeOK ==
    /\ pc \in Points
    /\ step \in 1..MaxSteps
    /\ messages \in Seq(Message)
    /\ queue \in Seq(Names) /\ Len(queue) <= MaxCalls
    /\ cached \in BOOLEAN
    /\ results \in BOOLEAN
    /\ retried \in 0..1
    /\ continued \in 0..Continuations
    /\ attempt \in 0..(Retries + 1)
    /\ before \in 0..MaxWrites
    /\ others \in 0..Permits
    /\ holding \in BOOLEAN
    /\ disk \in 0..MaxWrites
    /\ saved \in 0..MaxWrites
    /\ orphans \in BOOLEAN
    /\ excuse \in BOOLEAN
    /\ outcome \in {"none", "stream", "raised", "cancelled"}
    /\ PermitsAreTheirs

Init ==
    /\ pc = "model"
    /\ step = 1
    /\ messages = <<>>
    /\ queue = <<>>
    /\ cached = FALSE
    /\ results = FALSE
    /\ retried = 0
    /\ continued = 0
    /\ attempt = 0
    /\ before = 0
    /\ others \in 0..Permits
    /\ holding = FALSE
    /\ disk = 0
    /\ saved = 0
    /\ orphans = FALSE
    /\ excuse = FALSE
    /\ outcome = "none"

-----------------------------------------------------------------------------
(* The loop.                                                               *)

workspace == <<disk, saved, orphans, excuse>>
Outside == UNCHANGED <<gateway, others, workspace>>

LastAI(ms) == SelectLastInSeq(ms, LAMBDA m : m.role = "ai")
AsksForTools(ms) == LastAI(ms) # 0 /\ ms[LastAI(ms)].n > 0
LastIsRetry(ms) == ms # <<>> /\ Last(ms) = Human("retry")

\* After the loop: tool results without an answer are summed up by one more model call,
\* unless the last thing said is the instruction to use the tool protocol; that one gets
\* the failure message.  `found`: some tool left a record or a raw output.
AfterLoop_IgnoresResults(ms, found) ==
    /\ pc' = "done"
    /\ outcome' = "stream"
    /\ messages' = IF LastIsRetry(ms) THEN Append(ms, AI("failure", 0)) ELSE ms

AfterLoop(ms, found) ==
    IF found /\ AsksForTools(ms) /\ ~LastIsRetry(ms)
    THEN pc' = "finalizing" /\ messages' = Append(ms, Human("budget")) /\ UNCHANGED outcome
    ELSE /\ pc' = "done"
         /\ outcome' = "stream"
         /\ messages' = IF LastIsRetry(ms) THEN Append(ms, AI("failure", 0)) ELSE ms

\* `continue`: the next step, or the end of the budget.
NextStep_OneMore(ms, found) ==
    IF step <= MaxSteps
    THEN pc' = "model" /\ step' = step + 1 /\ messages' = ms /\ UNCHANGED outcome
    ELSE AfterLoop(ms, found) /\ UNCHANGED step

NextStep(ms, found) ==
    IF step < MaxSteps
    THEN pc' = "model" /\ step' = step + 1 /\ messages' = ms /\ UNCHANGED outcome
    ELSE AfterLoop(ms, found) /\ UNCHANGED step

\* Text that only looks like a tool call is not kept; the model is told once.
AnswersInText ==
    /\ pc = "model"
    /\ IF retried < 1
       THEN retried' = retried + 1 /\ NextStep(Append(messages, Human("retry")), results)
       ELSE /\ AfterLoop(Append(messages, AI("failure", 0)), results)
            /\ UNCHANGED <<retried, step>>
    /\ UNCHANGED <<queue, cached, results, continued>>
    /\ Outside

AnswersWithCalls(names) ==
    /\ pc = "model"
    /\ messages' = Append(messages, AI("calls", Len(names)))
    /\ queue' = names
    /\ pc' = "tools"
    /\ UNCHANGED <<step, cached, results, retried, continued, outcome>>
    /\ Outside

\* The final state in the protocol.
Answers ==
    /\ pc = "model"
    /\ AfterLoop(Append(messages, AI("matching", 0)), results)
    /\ UNCHANGED <<step, queue, cached, results, retried, continued>>
    /\ Outside

\* Text cut off at the output limit is continued; other text, and no text, is turned
\* into the protocol by a model call of its own.
AnswersOtherwise(text) ==
    /\ pc = "model"
    /\ LET said == Append(messages, AI(text, 0))
       IN IF text = "truncated" /\ continued < Continuations
          THEN /\ continued' = continued + 1
               /\ NextStep(Append(said, Human("continue")), results)
          ELSE /\ pc' = "finalizing"
               /\ messages' = Append(said, Human("decide"))
               /\ UNCHANGED <<step, continued, outcome>>
    /\ UNCHANGED <<queue, cached, results, retried>>
    /\ Outside

\* A finalizer validates the model's JSON and asks once more; its message ends the loop.
Finalizes ==
    /\ pc = "finalizing"
    /\ messages' = Append(messages, AI("final", 0))
    /\ pc' = "done"
    /\ outcome' = "stream"
    /\ UNCHANGED <<step, queue, cached, results, retried, continued>>
    /\ Outside

\* A model call times out or fails, or the finalizer's second answer is invalid too: the
\* exception leaves the loop.
ModelFails ==
    /\ pc \in {"model", "finalizing"}
    /\ pc' = "done"
    /\ outcome' = "raised"
    /\ UNCHANGED loop
    /\ Outside

-----------------------------------------------------------------------------
(* The tool runner.                                                        *)

\* The call at the head of the queue gets its tool message; after the last one the loop
\* goes on.  A name nobody knows leaves a record only when its kind can be told.
Position == messages[LastAI(messages)].n - Len(queue) + 1

Recorded(record) == results' = (results \/ record)

Answered_WhenRecorded(record) ==
    LET ms == IF record THEN Append(messages, Tool(Position)) ELSE messages
    IN /\ Recorded(record)
       /\ queue' = Tail(queue)
       /\ IF Len(queue) > 1
          THEN pc' = "tools" /\ messages' = ms /\ UNCHANGED <<step, outcome>>
          ELSE NextStep(ms, results \/ record)
       /\ UNCHANGED <<retried, continued>>

Answered(record) ==
    LET ms == Append(messages, Tool(Position))
    IN /\ Recorded(record)
       /\ queue' = Tail(queue)
       /\ IF Len(queue) > 1
          THEN pc' = "tools" /\ messages' = ms /\ UNCHANGED <<step, outcome>>
          ELSE NextStep(ms, results \/ record)
       /\ UNCHANGED <<retried, continued>>

\* The arguments of a call, of a script apart, are normalized by the name of their tool
\* before anything catches an exception: one raised there leaves the loop in the middle of a
\* batch.  The messages of the calls before it are lost, what they did is not.
ArgumentsFail ==
    /\ pc = "tools"
    /\ Head(queue) # "script"
    /\ pc' = "done"
    /\ outcome' = "raised"
    /\ UNCHANGED loop
    /\ Outside

CallUnknown(record) ==
    /\ pc = "tools"
    /\ Head(queue) = "unknown"
    /\ Answered(record)
    /\ UNCHANGED cached
    /\ Outside

\* The other tools answer or raise; both are a message and a record.  Some only read, or
\* refuse: a file of the workspace or of the Skill, a listing, arguments out of bounds.
Tools == pc = "tools" /\ Head(queue) = "tool"

CallReads ==
    /\ Tools
    /\ Answered(TRUE)
    /\ UNCHANGED cached
    /\ Outside

\* The workspace is written, and a checkpoint forced.  One that fails is swallowed.
Forced(writes, captured) ==
    /\ disk + writes <= MaxWrites
    /\ disk' = disk + writes
    /\ IF captured THEN saved' = disk' /\ excuse' = FALSE
       ELSE excuse' = (excuse \/ disk' # saved) /\ UNCHANGED saved
    /\ UNCHANGED <<gateway, others, orphans>>

\* A new file, or an old one written over.
CallWrites(captured) ==
    /\ Tools
    /\ Forced(1, captured)
    /\ Answered(TRUE)
    /\ UNCHANGED cached

\* Edits, renames and new directories; a directory may be there, a replacement equal.
CallChanges(writes, captured) ==
    /\ Tools
    /\ Forced(writes, captured)
    /\ Answered(TRUE)
    /\ UNCHANGED cached

\* An HTTP API answers with text, or fails, or answers with a file, which is kept.
ApiAnswers(file, captured) == IF file THEN Forced(1, captured) ELSE Outside

CallApi(file, captured) ==
    /\ Tools
    /\ ApiAnswers(file, captured)
    /\ Answered(TRUE)
    /\ UNCHANGED cached

CallMcp ==
    /\ Tools
    /\ pc' = "mcp"
    /\ UNCHANGED <<loop, outcome>>
    /\ Outside

\* The files in an MCP answer are kept one after the other, a bad one is left out; there
\* is one checkpoint at the end.
McpAnswers(files, captured) ==
    /\ pc = "mcp"
    /\ IF files = 0 THEN Outside ELSE Forced(files, captured)
    /\ Answered(TRUE)
    /\ UNCHANGED cached

\* The disk fails at one of them: those before it stay, and there is no checkpoint.
McpAnswerBreaksOff(files) ==
    /\ pc = "mcp"
    /\ Forced(files, FALSE)
    /\ Answered(TRUE)
    /\ UNCHANGED cached

McpFails ==
    /\ pc = "mcp"
    /\ Answered(TRUE)
    /\ UNCHANGED cached
    /\ Outside

\* A result that was kept is used again.
CallCached ==
    /\ pc = "tools"
    /\ Head(queue) = "script"
    /\ cached
    /\ Answered(TRUE)
    /\ UNCHANGED cached
    /\ Outside

-----------------------------------------------------------------------------
(* The script tool and the gateway.                                        *)

\* No manifest, entry, runtime or user, or arguments the manifest refuses.
CallRefused ==
    /\ pc = "tools"
    /\ Head(queue) = "script"
    /\ ~cached
    /\ Answered(TRUE)
    /\ UNCHANGED cached
    /\ Outside

\* The fingerprint is taken before the call waits for a permit.
CallScript ==
    /\ pc = "tools"
    /\ Head(queue) = "script"
    /\ ~cached
    /\ before' = disk
    /\ attempt' = 0
    /\ pc' = "acquire"
    /\ UNCHANGED <<loop, holding, others, workspace, outcome>>

Acquire ==
    /\ pc = "acquire"
    /\ Taken < Permits
    /\ holding' = TRUE
    /\ attempt' = 1
    /\ pc' = "running"
    /\ UNCHANGED <<loop, before, others, workspace, outcome>>

\* A running attempt, or one that was given up, writes a file.  Nobody watches the
\* workspace unless a script call is under way.
InCall == pc \in {"acquire", "running", "sleeping"}

Write ==
    /\ pc = "running" \/ orphans
    /\ disk < MaxWrites
    /\ disk' = disk + 1
    /\ excuse' = (excuse \/ ~InCall)
    /\ UNCHANGED <<pc, loop, gateway, others, saved, orphans, outcome>>

\* The script exits.  What changed since the fingerprint, or is declared an artifact on its
\* stdout, is captured before the exit code and the protocol are looked at; a failed
\* capture is swallowed.
Capture(artifacts, captured) ==
    IF disk = before /\ ~artifacts THEN UNCHANGED <<saved, excuse>>
    ELSE IF captured THEN saved' = disk /\ excuse' = FALSE
    ELSE excuse' = TRUE /\ UNCHANGED saved

Exits(accepted, artifacts, captured) ==
    /\ pc = "running"
    /\ holding' = FALSE
    /\ Capture(artifacts, captured)
    /\ cached' = accepted
    /\ Answered(TRUE)
    /\ UNCHANGED <<attempt, before, others, disk, orphans>>

\* The last attempt failed: the permit is returned, and nothing is captured.
GiveUp ==
    /\ holding' = FALSE
    /\ excuse' = TRUE
    /\ Answered(TRUE)
    /\ UNCHANGED <<attempt, before, cached>>

\* An attempt that times out is given up and the next one starts at once.
TimesOut_TakesItAgain ==
    /\ pc = "running"
    /\ orphans' = TRUE
    /\ IF attempt <= Retries
       THEN /\ attempt' = attempt + 1
            /\ before' = disk
            /\ UNCHANGED <<pc, loop, holding, excuse, outcome>>
       ELSE GiveUp
    /\ UNCHANGED <<others, disk, saved>>

TimesOut_Uncounted ==
    /\ pc = "running"
    /\ orphans' = TRUE
    /\ UNCHANGED <<pc, loop, gateway, excuse, outcome>>
    /\ UNCHANGED <<others, disk, saved>>

TimesOut ==
    /\ pc = "running"
    /\ orphans' = TRUE
    /\ IF attempt <= Retries
       THEN attempt' = attempt + 1 /\ UNCHANGED <<pc, loop, before, holding, excuse, outcome>>
       ELSE GiveUp
    /\ UNCHANGED <<others, disk, saved>>

\* An attempt that raises is tried again after a pause, except when the sandbox itself
\* has failed.
Raises(environment) ==
    /\ pc = "running"
    /\ orphans' \in {orphans, TRUE}
    /\ IF attempt <= Retries /\ ~environment
       THEN pc' = "sleeping" /\ UNCHANGED <<loop, gateway, excuse, outcome>>
       ELSE GiveUp
    /\ UNCHANGED <<others, disk, saved>>

Wakes ==
    /\ pc = "sleeping"
    /\ attempt' = attempt + 1
    /\ pc' = "running"
    /\ UNCHANGED <<loop, before, holding, others, workspace, outcome>>

-----------------------------------------------------------------------------
(* The surroundings.                                                       *)

\* The stop of the run, or the end of its stream, cancels the turn at its await.
Cancel ==
    /\ pc # "done"
    /\ pc' = "done"
    /\ outcome' = "cancelled"
    /\ holding' = FALSE
    /\ orphans' = (orphans \/ pc = "running")
    /\ excuse' = (excuse \/ InCall)
    /\ UNCHANGED <<loop, attempt, before, others, disk, saved>>

OrphanEnds ==
    /\ orphans
    /\ orphans' = FALSE
    /\ UNCHANGED <<pc, loop, gateway, others, disk, saved, excuse, outcome>>

\* Other turns of the user.  The semaphore serves in order of arrival: those that come
\* after this turn do not overtake it.
OtherTakes ==
    /\ pc # "acquire"
    /\ Taken < Permits
    /\ others' = others + 1
    /\ UNCHANGED <<pc, loop, gateway, workspace, outcome>>

OtherReturns ==
    /\ others > 0
    /\ others' = others - 1
    /\ UNCHANGED <<pc, loop, gateway, workspace, outcome>>

ModelAnswers ==
    \/ AnswersInText
    \/ \E names \in UNION {[1..n -> Names] : n \in 1..MaxCalls} : AnswersWithCalls(names)
    \/ Answers
    \/ \E text \in {"other", "truncated"} : AnswersOtherwise(text)
    \/ Finalizes

\* What ends without the model, a tool or a script doing anything: timeouts, the tool
\* runner's own steps, a pause.
Timely ==
    \/ ModelFails
    \/ \E record \in BOOLEAN : CallUnknown(record)
    \/ CallReads
    \/ CallMcp
    \/ McpFails
    \/ CallCached
    \/ CallScript
    \/ Acquire
    \/ TimesOut
    \/ Wakes

Next ==
    \/ ModelAnswers
    \/ Timely
    \/ ArgumentsFail
    \/ CallRefused
    \/ \E captured \in BOOLEAN :
          \/ CallWrites(captured)
          \/ \E writes \in 0..1 : CallChanges(writes, captured)
          \/ \E file \in BOOLEAN : CallApi(file, captured)
          \/ \E files \in 0..MaxWrites : McpAnswers(files, captured)
    \/ \E files \in 1..MaxWrites : McpAnswerBreaksOff(files)
    \/ Write
    \/ \E accepted, artifacts, captured \in BOOLEAN : Exits(accepted, artifacts, captured)
    \/ \E environment \in BOOLEAN : Raises(environment)
    \/ Cancel
    \/ OrphanEnds
    \/ OtherTakes
    \/ OtherReturns

Spec == Init /\ [][Next]_vars

FairSpec == Spec /\ WF_vars(Timely) /\ WF_vars(OtherReturns)

-----------------------------------------------------------------------------
(* Properties.                                                             *)

\* Whenever the model is asked, every answer of its own that asked for tools is followed
\* at once by one message for each of its calls, in their order, and no tool message
\* stands anywhere else: providers refuse any other history.
TranscriptIsWellFormed ==
    pc \in {"model", "finalizing"} =>
        \A i \in DOMAIN messages :
            /\ messages[i].role = "ai" =>
                \A k \in 1..messages[i].n :
                    i + k \in DOMAIN messages /\ messages[i + k] = Tool(k)
            /\ messages[i].role = "tool" =>
                \E j \in 1..i : messages[j].role = "ai" /\ messages[j].n >= i - j
                                /\ messages[i].n = i - j

\* A stream that comes to its end ends with a final state in the protocol, or with the
\* message that the protocol failed, whatever mix of tools, retries and continuations
\* used up the steps.  Two ends are open: a last step whose text was cut off, and steps
\* spent on tool calls none of which left a record.
EndsInTheProtocol ==
    outcome = "stream" =>
        \/ messages[LastAI(messages)].text \in {"matching", "final", "failure"}
        \/ Last(messages) = Human("continue")
        \/ AsksForTools(messages) /\ ~results

\* What a tool changed is in a checkpoint once its call is over, also when an earlier
\* attempt of a script call made the change: only a failed capture, a script call that was
\* given up or stopped, an attempt that writes after it was given up, and a disk that fails
\* between two files of an answer leave unsaved work.
UnsavedWorkIsExplained == disk # saved => InCall \/ excuse

\* Every turn ends: the steps, the retries of a script, the pauses and the waiting for a
\* permit are all bounded, whatever the model asks for.
TurnEnds == <>(pc = "done")
=============================================================================
