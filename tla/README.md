# Verification of the session backend

The repository is a multi-user group-chat application: a user opens sessions in which a
*host* (a model) hands the word to *experts* (agents with Skills and tools), which work in a
per-user sandbox and in the session's files.  The backend is one FastAPI process with one
asyncio event loop and JSON files for storage.  This directory holds TLA+ modules of the
parts of the backend whose correctness depends on what happens *between* steps: tasks that
displace one another, copies held across awaits, checkpoints cut short, locks around remote
calls, tools that outlive their timeouts, imports that wait half-way.  TLC checks them on
small instances, and TLAPS proves their safety properties for all values of the constants.

All paths below are relative to `src/backend/app/` unless they begin with `docs/`.

    tlc -workers 2 -config RunRegistry.cfg RunRegistry.tla     # a run of PROJECT.json
    tlapm RunRegistryProofs.tla                                # the proofs of a module

`PROJECT.json` lists the components, the runs with their configurations, for each property a
mutant of a mapped definition that violates it, the source lines of every definition
("map"), the findings, the hazards and the theorems.

## 1. The system and its parts

### 1.1 What is modelled

**Run registry** (`api/group_chat_state.py`, `agent/group_chat_runtime.py`,
`agent/group_session_service.py`).  *State*: `ACTIVE_GROUP_RUNS` (session to run id, task,
phase), its mirror `runtime.json`, one asyncio task per chat request, the stop and delete
requests in progress.  *Operations*: `register_group_run`, `update_group_run`,
`finish_group_run`, `cancel_group_session_run` (cancel, wait at most two seconds, finish),
`runtime_for_session` (a read that clears dead entries and stale mirrors).  *Hard*: a
cancelled task unwinds late, perhaps after its successor has registered; the registration
stands before the `try` whose `finally` removes it; a restart loses the table and keeps the
mirror.  *Correct when*: one run of a session writes at a time and it is the registered one;
a late stop or delete spares the successor; the mirror never names another writer, and a
stale one goes away; a stop frees the session whatever the task does.

**Turn orchestration** (`agent/group_chat_runtime.py`, `group_entry_router.py`,
`group_host_decision.py`, `group_chat_host_runtime.py`, `structured_llm_output.py`,
`expert_completion_coordinator.py`, `group_chat_failure.py`, `skill_session_manager.py`).
*State*: the locals of `_run_contract_events` (next speaker, the host decision in memory,
number of turns, whether the next host message is suppressed) and
`orchestration_state.json` (host decision, last expert turn, Skill bindings).
*Operations*: entry route, the host's two model calls with their second attempts, expert
build, expert completion, persisting of a failure; `update_group_session` from outside.
*Hard*: states that were loaded before a model call and are written after it; failure
handlers that may raise themselves; routing state that several turns have written and the
next request joins.  *Correct when*: the
expert that runs is the one the user sees named; a stream is closed with `end`; a failure
leaves no route; a binding is only lost by its expert; the turn budget ends the loop.

**Checkpoints, rollback, clone** (`session_state/service.py`, `session_state/store.py`,
`core/atomic_json.py`, `api/files.py`).  *State*: a content-addressed object store per user,
and per session the checkpoint files, `chain.json` and `HEAD.json`.  *Operations*:
`capture_session_checkpoint` after every change, rollback and clone by checkpoint or by
message; saving, renaming, deleting and uploading of files.  *Hard*: a capture is many
writes and may stop between any two of them; an upload waits between its chunks; restored
files may be hard links to objects; a message target has to find a checkpoint after
deletions and rollbacks.  *Correct when*: HEAD names a published checkpoint, chains are
walkable and only grow, a checkpoint is immutable and complete, and a message target never
restores a later message.

**Session definitions and histories** (`api/group_chat_state.py`,
`agent/group_chat_title_meta.py`, `agent/group_session_service.py`).  *State*:
`session.json` and `history.json` of each session, and the copies of them in each request
and run.  *Operations*: chat requests, appends, renames, invitations, deletions, creation,
the background title task; `save_session_definitions` merges by `updated_at`.  *Hard*:
copies live across awaits while others save.  *Correct when*: no old copy reverts an edit,
no message of a running conversation is dropped, and a message sent again is recorded once.

**Sandbox pool** (`agent/sandbox_service.py`, `sandbox_execution.py`, `sandbox_prewarm.py`,
`sandbox_requirements.py`, `sandbox_requirements_verifier.py`, `sandbox_handle_keys.py`,
`api/sandbox_settings.py`).  *State*: `_user_handles`, one global lock, one lock per table
key, the sandboxes of the server with their metadata.  *Operations*: lookup with check,
verification, replacement, creation, installation; use; invalidation and retry; prewarm;
clean-up of orphans at start.  *Hard*: two kinds of nested locks, the global one held across
some awaits and not across others; a cancellation or failure at each await;
`requirements.txt` that changes meanwhile.  *Correct when*: no two lookups set one sandbox
up, a tool gets a sandbox with the requirements of its time (those that the installer looks
at), a retry gets another sandbox
than the one that was not found, and no failure path forgets a running sandbox.

**Expert turn** (`agent/simple_agent_streaming.py` and the other `simple_agent*.py`,
`agent/skill_agent_runtime.py`, `tools/run_skill_script.py`, `agent/tool_gateway.py`,
`tools/skill_script_workspace_checkpoint.py`).  *State*: the messages of the turn, the step,
the counters of protocol retries and continuations, the cache of script results, the permits
of the user's semaphore, the attempts of the running script call, and the workspace against
its last checkpoint.  *Operations*: the answers of the model (calls, text that only looks
like calls, text in or out of the protocol, text cut off, none), the tool runner with known,
unknown, cached, refused and failing calls, the gateway's permits, timeouts, retries and
pauses, the capture after a script, the finalizers, stops.  *Hard*: an attempt that timed
out goes on writing while its retry runs; the budget may run out anywhere; a provider
refuses a history in which calls and results do not match.  *Correct when*: every model call
sees a well-formed history; a stream ends in the protocol that the completion expects; what
a script changed is in a checkpoint or its loss has a cause; every turn ends.

**MCP runtimes** (`mcp/manager.py`, `api/settings_mcp.py`).  *State*: the managers per user,
each with its configuration, sessions, tools and exit stack; one lock per session.
*Operations*: configuration changes that dispose of the manager, connecting, tool calls with
a timeout and one reconnection, settings requests, cleanup.  *Hard*: a cleanup meets a
connect under way, or an exit that raises in it; two calls that fail on one session reconnect each on its own; a turn that
is stopped holds a lock.  *Correct when*: nobody new gets the old configuration; what a
cleanup leaves open has one of two causes; a retry is on another connection; nobody waits for ever.

**Resource settings, bundles and presets** (`core/resource_store.py`,
`core/settings_bundle_*.py`, `core/scenario_*.py`, `core/skill_bundle_service.py`,
`api/settings_*.py`, `api/agents.py`).  *State*: one directory per tool, expert and scene,
Skill directories, and the lists that editors have loaded.  *Operations*: create, change,
rename and delete of each kind; the scene editor, which saves the whole list; imports of
bundles of each kind.  *Hard*: names that differ in case only, or share a directory; a save
removes the directories it has no row for; an import saves kind after kind, with an await of
up to ten minutes before the last.  *Correct when*: what an import has answered is on disk
until somebody writes over it; a reference that leads nowhere was reported.

### 1.2 What is not modelled, and why

| component | state and operations | why not |
|---|---|---|
| Session event stream (`api/group_chat_state.py`) | one queue of 32 events per tab | events are hints: the frontend loads the session again at each, so a lost or repeated one costs one load |
| Group memory (`agent/group_memory_store.py`) | JSON lists with upserts | part of a session's tree in `CheckpointStore`; a candidate for a module |
| LLM client, structured output | HTTP calls, parsing | pure I/O and conversion; what an answer becomes is in `ExpertTurn`, the second attempt of a structured call in `GroupTurn` |
| Prompts and messages | text construction | no state |
| Files and workspace | path rules, directories, previews | no state that a checkpoint keeps; the requests that change files are in `CheckpointStore` |
| Skills and tools | loading of Markdown, contents of requests | conversion; what each kind of tool does to a turn and to its workspace is in `ExpertTurn` |
| Model providers, environment variables (`api/settings_llm*.py`, `settings_env_vars.py`) | CRUD of rows | as the other resources, without references between them |
| Hook pipeline (`agent/hook_pipeline.py`) | hooks around a call | used by nothing |
| Accounts and authentication | a SQLite table, tokens | the database's transactions |
| Archive and export | Markdown rendering | pure |
| Application start and stop | opening and closing of services | only what a restart loses (`Restart` in `RunRegistry`, `SessionStore`, `SandboxPool`, `Resources`) |
| Frontend, deployment | Vue client, images | outside of the backend; the client is the environment of the modules |

### 1.3 How the parts meet

    chat request -> group_chat_stream: loads session.json and history.json     SessionStore.Accept
                 -> register_group_run: cancels the run before it               RunRegistry.Register
                 -> _run_contract_events: host, experts, routing                GroupTurn
                      -> appends and saves of its copies                        SessionStore.Append
                           -> capture_session_checkpoint                        CheckpointStore.Capture
                      -> expert's stream: model calls, tools                    ExpertTurn
                           -> script tool -> gateway                            ExpertTurn.CallScript
                                -> sandbox service                              SandboxPool
                           -> MCP tool -> manager                               McpRuntime.Call
    settings page -> resources -> dispose of the MCP runtime                    Resources, McpRuntime.Save
    stop, delete -> cancel_group_session_run                                    RunRegistry.CancelBegin

The modules share no variables.  What one assumes of another is stated as a property of the
other: `GroupTurn` and `SessionStore` assume that a session has one writing run at a time,
which is `RunRegistry!RunningIsRegistered` and, as an abstract specification, `RunLease`. A
run that displaces another is therefore a `Stop` followed by a `Request` in `GroupTurn`, and
one step in `SessionStore`.  The expert's stream is one await with any outcome in
`GroupTurn`, which `ExpertTurn` refines in what it may end with; an attempt of the gateway is
one call of `SandboxPool`, whose `Cancel` is the timeout or stop of `ExpertTurn`.
`McpRuntime.Save` is any request or import of `Resources` that changes a tool.
`CheckpointStore` takes each handler as one step, as nothing in it suspends except an
upload; that a handler may be cut between two writes is inside the step.

## 2. Plan

Order: the most important promise first (who may write), then what is written, then what
a turn is built on.  Steps 1 to 10 are done.

1. `RunLease`, `RunRegistry`: one writer per session; refinement; liveness of stop.
2. `SnapshotLog`, `CheckpointStore`: checkpoints as an append-only log.
3. `GroupTurn`: the run loop and its routing state; termination.
4. `SessionStore`: copies of session files across awaits.
5. `SandboxPool`: locks and failures around the sandbox server.
6. `ExpertTurn`: the tool loop, the tool runner, the gateway and the script tool.
7. `McpRuntime`: configuration changes, connections and calls of the MCP runtime.
8. `Resources`: requests and imports over names, directories and references.
9. The types of `CheckpointStore`, the safety of message targets, the refinement of
   `SnapshotLog`, and the safety properties of `ExpertTurn`, `McpRuntime` and `Resources` as
   theorems.
10. Theorems about what the runs cannot check for all bounds: the ranks under the liveness
    properties, the order of the pool's locks, and, for each finding, that it is the only way
    in which the document's statement fails.
11. Liveness of `SandboxPool`: every call ends if the server answers, under weak fairness of
    `ServerStep` and strong fairness of the lock steps (`asyncio.Lock` is FIFO).  It needs a
    smaller instance, since symmetry is unsound for liveness.
12. Group memory; a composition of `RunRegistry` with `SessionStore` (late unwinding and
    copies at once).

Abstract specifications: `RunLease` (what the registry promises, implemented by `RunRegistry`
and by each session of `SessionStore`) and `SnapshotLog` (what the checkpoints promise).  The
other modules have none: their promises are the properties named in section 4.

## 3. The modules and the code

An action is what one task does between two suspensions (`await` of something that is not
ready).  The event loop runs nothing else in between, and the modules rely on it; a lock
that is never held across a suspension does not appear.

### RunRegistry

| model | code |
|---|---|
| `registry` | the entry of the session in `ACTIVE_GROUP_RUNS`, as its run id |
| `task` | the asyncio task of each request: accepted, running, cancelled but not yet unwound, done |
| `runtimeFile`, `aged` | `runtime.json` with `running: true`, and whether `started_at` is older than the stale limit |
| `session` | `session.json` exists |
| `request` | stop and delete requests in `cancel_group_session_run` or in the handler after it |
| `Accept`, `Register`, `RegisterFails` | `group_chat_stream`; `register_group_run`, which may raise when it writes the mirror |
| `Update`, `SaveDefinitions` | `update_group_run`; the saves of a run, which write a missing session again |
| `Finish`, `FinishFails` | the `finally` of `run_events` |
| `CancelBegin`, `CancelDone`, `CancelTimeout`, `StopEnd`, `DeleteEnd` | `cancel_group_session_run` with its wait of two seconds, and the handlers |
| `elsewhere`; `OthersLoad`, `OthersSave`, `OthersEnd` | some run of another session holds a copy of the definitions that has this session; it is accepted, saves, ends |
| `Poll`, `Age`, `Restart` | `runtime_for_session`; the clock; the process |

The model follows one session.  Sessions meet in one place: a run loads the definitions of
all sessions when it is accepted and saves the whole copy at every append, so a run of
another session writes this session's `session.json` too.  `elsewhere` is all that matters
of it here; what such a save does to the fields of a definition is in `SessionStore`.

### GroupTurn

`disk` is `orchestration_state.json`; `view` the copy loaded before the current await;
`speaker`, `memo`, `suppress`, `turns`, `request` are locals of `_run_contract_events`;
`routed` is the target of the last message that the user sent or that the host was shown
with; `out` the stream.  `pc` names the await: the host's calls (`recruiting` without
members, `deciding` for the speaker, `writing` for the message to it), the expert's build
(`building`), the expert's stream (`executing`).  `call` holds the attempt of a host call and
the speaker that the first of the two has selected: `Refused` is an answer that breaks the
protocol (one more attempt, then a failure), `Select` the first answer, `Finalized` and
`Decided` what the second one makes of it.  `Loop` is the head of
the `while` loop with its budget test, which every path back passes.  `Fail` has the two
levels of handlers, the inner one of an expert and the outer one of `run_events`, each of
which may raise at its own writes.

### CheckpointStore

`file`, `title`, `scenario`, `history` are the live session; `object` the blobs; `snapshot`,
`chain`, `head` the checkpoint files, `chain.json` and `HEAD.json`.  A handler is one
action, and each ends in `Capture`, in which `done` counts the writes that took place
(checkpoint file, chain, HEAD) before the process died or a write raised.  `ChainRead` and
`HeadRead` are what `load_chain` and `load_head` return: with `ReadErrors`, also an empty
chain and no HEAD.  `DeleteSession` is the deletion of a session, whose checkpoints, chain
and HEAD go with its directory; its id stands for a new session only when no upload to it is
left (`NewSession`), as ids are never used twice.  A file either has
bytes of its own or shares an object's inode (`Link`), depending on `HardLinks`.
`CheckpointFor` is `_checkpoint_for_message`, `Without` the list that a deletion saves.
`WriteFile`, `DeleteFile`, `RenameFile` are the requests of `api/files.py` (and what tools
do).  `upload` is `upload_workspace_file` between two chunks: the name it was given, the name
its file has by now (`at`), and the object it shares (`onto`); `BeginUpload` truncates,
`EndUpload`, `UploadFails` and `UploadStops` are its three ends.

### SessionStore

`disk` and `history` are the files; `run[r]` has the list and the definitions that the run
loaded when it was accepted.  `Merged` is `save_session_definitions`; `Stamped` a new
`updated_at`; `Tick` the clock.  `DeleteEnd` has the removal of all directories that have no
definition.

### SandboxPool

| model | code |
|---|---|
| `table` | `_user_handles`; a key is the user id, or a key of its own for a `run_skill_script` session |
| `lock`, `keyLock` | `_lock`; `_user_ensure_locks` |
| `installed`, `packages` | the metadata fields about requirements; the lines that are really installed |
| `Skipped`, `Satisfies`, `Equip` | the precheck, pip and the verification of the install command, which pass over `-`, `git+` and URL lines |
| `call` | a call in `execute_sandbox_request` or `prewarm_user_sandbox`; `again` is the second attempt |
| `Start`, `Enter`, `AcquireKey` | the call; `_ensure_lock_for_key`; the `async with` of the key's lock |
| `Reuse`, `StartVerify`, `StartReplace`, `StartCreate` | the four branches of `_ensure_user_handle_locked` |
| `Verified`, `Reinstall`, `Reinstalled`, `Replaced`, `Created`, `Installed`, `Bind` | what follows each await of it |
| `ReinstallFails`, `CreateFails`, `InstallFails`, `Fail`, `Raise` | an exception there, and the classification by `execute_sandbox_request` |
| `Invalidate`, `Invalidated`, `Victims` | `_invalidate_user_handle` |
| `Cancel`, `Vanish`, `Restart`, `SetRequirements` | the gateway or a stop; the server; the process, whose clean-up of orphans `MayBeLeft` describes; the user |

`Equip` follows the install command: where every line that it looks at is there already, pip
is not run, and lines that it passes over are marked as installed without being so.
`HandedOverReady` therefore speaks of the other lines only (section 7).

`seen` and `lost` exist only for the properties: the requirements the user has had since the
call got the lock of its key, and the sandboxes that no code could still know of.

### ExpertTurn

| model | code |
|---|---|
| `messages`, `step`, `retried`, `continued` | the locals of `stream_simple_agent`; a message is its role and what the loop tells apart |
| `queue` | the calls of the last answer for which the tool runner has no message yet |
| `results` | `all_tool_results` or `all_tool_raw_outputs` has something |
| `cached` | `tool_result_cache` has the result of the script |
| `AnswersInText`, `AnswersWithCalls`, `Answers`, `AnswersOtherwise` | what the loop does with an answer; `NextStep` is its `continue`, `AfterLoop` what follows its `break` |
| `Finalizes`, `ModelFails` | `invoke_pydantic_llm_output` with its second attempt; exceptions and timeouts of `_call_model` |
| `ArgumentsFail` | `normalize_tool_args` and what follows it before the `try` of `_call_tool_impl` (`agent/skill_agent_runtime.py:338-348`): an exception there leaves the loop |
| `CallUnknown`, `CallCached`, `CallRefused`, `CallScript` | the branches of `_call_tool_impl`, and of the script tool before the gateway |
| `CallReads`, `CallWrites`, `CallChanges`, `CallApi` | the tools that run without an await: reads, `write_file` and the commands of the workspace tools with their checkpoint, HTTP calls that may save a file |
| `CallMcp`, `McpAnswers`, `McpAnswerBreaksOff`, `McpFails` | an MCP tool; the files of its result are written one by one, with one checkpoint at the end |
| `Acquire`, `TimesOut`, `Raises`, `Wakes`, `Exits`, `GiveUp` | `UnifiedToolGateway.execute` and `ToolGateway.execute`, and what the script tool does with each result |
| `Write`, `OrphanEnds`, `OtherTakes`, `OtherReturns`, `Cancel` | the script in the sandbox; other turns of the user; a stop |

`saved` is the workspace in the last checkpoint.  `excuse` exists only for
`UnsavedWorkIsExplained`: it notes a capture that failed, a call that was given up, and a
write outside of any call.

### McpRuntime

| model | code |
|---|---|
| `registered`, `manager` | `_mcp_by_user`, and every manager there has been |
| `conn` | a transport and the session on it; `held`: an exit stack that will be closed has them; `stuck`: an exit of theirs raised in the cleanup |
| `disk` | the tool resource, as the number of the save that wrote it |
| `task` | a turn or a settings request: in `connect_server`, waiting for the lock of a session, in `call_tool`, in `_reconnect_server` |
| `Save`, `Dispose`, `CleanupEnds` | the requests of `settings_mcp.py`; `dispose_mcp_runtime_for_user`; `cleanup`, in which any of the exits may raise and is only logged |
| `Begin`, `Connect`, `Entered`, `Initialized`, `ConnectFails`, `Listed`, `CooldownEnds` | `ensure_servers_loaded`, or the endpoint, and `connect_server` between its awaits |
| `Call`, `Start`, `Answered`, `CallFails`, `CallBreaks`, `Dropped` | `tool_func`, `execute_mcp_call`, `_reconnect_server` |
| `Cancel`, `Break`, `Decline` | a stop; the server or the network; the model |

### Resources

A row is its name, its references, and who wrote it.  A name is a record of its casefolded
form (`key`) and its directory (`dir`); `Clash` says when one can get in the way of another.
`Written` is `upsert_rows_by_name` with the save after it, `Mirrored` the save of a list in
which rows share a directory (the last one stays, and the order is that of a directory
listing).  `CreateTool` to `DeleteSkill` are the endpoints (`WriteSkillPart` those of
`settings_skill_parts.py`); `tab` is what the scene editor has loaded, and `SaveScenes` its
PUT.  `BeginSkillImport`, `BeginExpertImport` and `BeginSceneImport` are an import up to its
await, `EndSkillImport`, `EndExpertImport` and `EndSceneImport` the rest, with the lists as
they are then; `ImportTool` has no await.  `ImportBreaksOff` and `ImportFailsLate` are an error
before the tools are saved and one after the await, `import_session_preset_bundle`'s reading
for the answer included.  `MissingForSkill`, `MissingForExpert` and
`MissingForScene` are the three `find_missing_references_for_...`.  `touched` exists only
for the properties: what others have written since an import began.

## 4. The runs

Every property of a passing run has a mutant in `PROJECT.json`: a plausible bug in a mapped
definition (`Definition_Bug`, next to the definition in its module) for which the run fails.

| run | instance | distinct states | what it shows |
|---|---|---|---|
| `registry` | 3 chat requests, 2 stop or delete requests | 110 000 | one writer, and it is the registered one; the mirror is its own; a late stop spares the successor; the lease is implemented; a stop ends and frees the session; a stale mirror is cleared |
| `registry_deleted` | 2 requests, 1 delete | (violation) | finding 2 |
| `checkpoint` | 2 sessions, 3 messages, 1 path, 1 content and half-uploaded files, 3 ids, copies | 75 000 | HEAD is published; the published checkpoints are an append-only log (`SnapshotLog`); chains are well-formed and only grow; a message target never restores a later message |
| `checkpoint_links` | 2 sessions, 1 message, 2 contents, 3 ids, hard links | (violation) | finding 1 |
| `turn` | 2 experts, 2 messages, 2 turns, 1 configuration change | 89 000 | the visible target runs; streams are closed; failures leave no route; bindings are their owners'; requests end |
| `sessions` | 2 sessions, 2 runs, 2 user messages, 2 replies, 1 name, 4 stamps | 940 000 | edits survive other tasks; running histories lose nothing; a repeated message is recorded once |
| `session_title` | the same module, `SessionStoreTitle.cfg` | (violation) | finding 3 |
| `sandbox` | 2 calls, 2 keys, 1 policy, 2 requirements (one passed over by the installer), 2 sandboxes | 1 868 000 | setting up is exclusive; a tool gets the requirements that the installer looks at; a retry goes elsewhere; no sandbox is forgotten; locks are where they should be |
| `expert` | 3 steps, 2 calls in an answer, 1 continuation, 1 retry, 2 permits, 2 writes | 354 000 | the model sees a well-formed history; streams end in the protocol; unsaved work is explained; every turn ends |
| `mcp` | 2 tasks, 1 configuration change, 3 connections | 410 000 | the registered runtime is the current one; what a cleanup leaves open is a connection whose exit raised or a connect that was under way; a retry is on another connection; every task ends |
| `resources` | 1 import, 3 edits, 3 tool names, 2 names of experts and of scenes | 433 000 | an answered import is in force, but for a tool that gave way to one of the account that differs in case or has its directory; what leads nowhere was reported, but for such a tool |
| `resources_tool` | 1 import, 1 edit, 2 tool names that differ in case | (violation) | finding 4 |

Why the bounds are enough.

- `registry`: three requests give a takeover of a takeover while the first still unwinds;
  two stop or delete requests can race one another and a registration.  The theorems have no
  bound.
- `checkpoint`: a content and a half-uploaded file make an overwritten file, two sessions a
  clone whose objects are shared; three messages and three ids give a message target between
  two others, one of which is gone.  The constraint `Explored` bounds what is combined: a
  session alone and without files has all three messages and ids; two sessions, without
  files or without messages, have `PairBound` (2); one session with both has `MixedBound`
  (1).  The properties are checked of every step that leads out of this, too.  A checkpoint keeps messages and files side by side, and only `SameState`
  looks at both.  With one path a rename goes to the same name.  The theorems have any number
  of everything.
- `turn`: a budget of two turns has a turn that continues, one that hands back, and one that
  is refused; two messages distinguish a message sent again from a new one.
- `sessions`: two runs are a run and its successor, or one in each session; four stamps are
  two appends, an edit and a creation, in any order.  `MaxStamps` is in the guard of `Tick`.
- `sandbox`: two calls with one key compete, and with two keys meet in an invalidation.
  With one policy `StartReplace` is reached through changed requirements; two policies have
  not finished in five minutes and add no other branch.  One text has a line that pip must
  install, the other a line that is passed over.  A user without requirements (no
  installation, no verification), a text with both kinds of lines, and an image that brings
  some of them along would each double the states: they are left to the theorems, which hold
  for any policies, texts and images.
- `expert`: three steps are tool calls, a second answer and the end of the budget in any of
  the kinds of answer; two calls in an answer distinguish the first from the last; one retry
  has an attempt that is given up beside one that runs; two writes are one of each.  Two
  permits leave room for another turn beside this one, or for none.
- `mcp`: two tasks are two turns that fail on one session, a turn and a settings request, or
  a task of the old and one of the new runtime; three connections are one of each and a
  reconnection.  `opened < MaxConns` is in the guard of `Connect`: beyond it a connect is
  refused, as the code may refuse it.
- `resources`: the tool names are "Ab", "ab" and "ab.", which have every combination of
  equal and different `key` and `dir` that can occur; three edits are enough to delete and
  recreate, or to open an editor and save its list.  The exception for tools in both
  properties is what finding 4 is about.  Two imports at once have not
  finished in five minutes; what another import does to the lists is what edits do to them.

Deadlock is checked in every run in which the system goes on; a turn, the tasks of an MCP
runtime and the edits of an account come to an end (`CHECK_DEADLOCK FALSE`).  That no call
waits for ever *for another call* is a separate question in `sandbox`; the part
`LocksAreTheirs` of its type invariant answers it: who holds the global lock is awaiting the
server and waits for no lock, and who holds a key's lock waits at most for the global one;
`LocksAreOrdered` draws the conclusion for any number of calls.  Likewise
`PermitsAreTheirs` in the type invariant of `ExpertTurn`: a permit of the gateway is held
just while an attempt is under way or is to be repeated, and none is given twice.

Fairness.  Safety runs use none.

- `RunRegistry!FairSpec`: weak fairness of the resumption of a stop or delete request after
  its wait and after the disposal, since `asyncio.wait` has a timeout and the event loop
  resumes what is ready; of `Age`, as the clock runs; and of `Poll`, because every list,
  detail or event-stream request of the frontend calls `runtime_for_session`.  No run is
  assumed to end and nobody to chat.
- `ExpertTurn!FairSpec`: weak fairness of `Timely`, that is of what ends by itself: a model
  call (180 s), an attempt in the gateway, a pause, a tool that answers or raises, a permit
  that is free (the semaphore is FIFO); and of `OtherReturns`, because other turns hold
  their permits for a bounded time by the same argument.  Neither the model nor a script is
  assumed to do anything.
- `McpRuntime!FairSpec`: weak fairness of `Timely` for each task: a transport is entered or
  refused, a handshake ends within 15 seconds and a call within its timeout, `list_tools` is
  answered or refused (it has no timeout, so that is an assumption about servers), and a free
  lock is taken; and of the end of a cleanup.  No server is assumed to answer a call.
- `GroupTurn!FairSpec`: weak fairness of `RunStep` as a whole: a model call or a tool
  returns or raises (both have timeouts), and the loop resumes the run.  No outcome is
  assumed fair, so that the run ends is the work of the budget alone.

## 5. The proofs

TLAPS proves the following for all values of the constants that satisfy the assumptions of
the modules (in each, only that the markers such as `NoRun`, `None`, `Absent` are not
values, that the first session and title are among the sessions and titles, and that bounds
are natural numbers or, where one turn needs one, positive; `AbsentAssumption` says
that `Absent` is no file's record, and `Resources` that `None` is no Skill's).

| module | theorems |
|---|---|
| `RunRegistryProofs` | `TypeCorrect`, `SingleWriter`, `MirrorIsTheWriters`, `StopSparesTheNewRun`, `ImplementsLease`, `StoppedRunsAreOut`, `DeletionIsFinal` |
| `CheckpointProofs` | `TypeCorrect`, `HeadStaysPublished`, `ChainStaysWellFormed`, `OldCheckpointsStay`, `RestoresFindEveryObject`, `MessageTargetsAreNotLater`, `ImplementsLog` (for `~HardLinks` and `~TornWrites`), `OnlyLinkedWritesChangeCheckpoints`, `CopiesAreImmutable` (for `~HardLinks`), `RestoresAreExact`; all of them for `~ReadErrors` |
| `GroupTurnProofs` | `TypeCorrect`, `ExpertsAreRoutedVisibly`, `StreamsAreClosed`, `FailuresLeaveNoRoute`, `BindingsSurviveOthers`, `RunsUseUpTheirBudget` |
| `SessionStoreProofs` | `TypeCorrect`, `RunsKeepTheirMessages`, `ResentIsRecordedOnce`, `EditsSurvive`, `ImplementsLease`, `TitlesAreLostToTheirRuns` (while nothing is deleted) |
| `SandboxPoolProofs` | `TypeCorrect`, `SettingUpIsExclusive`, `ToolsGetReadySandboxes`, `RetriesAreElsewhere`, `NoneIsForgotten`, `LocksAreOrdered`, `CallsUseUpTheirBudget` |
| `ExpertTurnProofs` | `TypeCorrect`, `HistoryIsAccepted`, `StreamsEndInTheProtocol`, `WorkIsSavedOrExplained`, `TurnsUseUpTheirBudget` |
| `McpRuntimeProofs` | `TypeCorrect`, `NobodyGetsTheOldRuntime`, `WhatStaysOpenHasACause`, `RetriesGoElsewhere`, `TasksUseUpTheirBudget` |
| `ResourcesProofs` | `ImportsAreInForce`, `ReferencesAreReported`, `ToolsAreToldApart` |

Each module proves that an inductive invariant holds initially and is preserved by every
action, and derives the properties from it.

- **RunRegistry**: `TypeOK`, the two properties, `WaitsForCancelled` (the target of a
  waiting request has been cancelled, so it is no writer any more) and `NoSessionNoMirror`
  (without session.json there is no mirror: a run that registers then writes none, and must
  not find the one of another).  `SingleWriter` alone is not inductive: a request that
  resumes could remove the entry of a run that writes.  For the refinement, `LeaseStep` maps
  `Register` to `Take`, and each other step to `Drop` or a stutter.
- **CheckpointStore**: the chain and its ids are typed, HEAD is published, chains are
  well-formed, and a session that is not there has none.  Every handler but the deletion of a
  session changes the log through `WriteSnapshot` or not at all; the lemma about `Extends`
  says what that does, and the handlers only have to show that they use it.  All of it needs
  that chain.json and HEAD.json can be read (`~ReadErrors`): a capture that cannot read the
  chain starts a new one, and what was in the old one is no longer published.
- **CheckpointStore, contents**: `ContentInv` says that the object of every kept hash and of
  every linked file is in the store, and that an upload goes to a file of its own or to an
  object that is there; objects are never removed, so it is enough that a capture stores
  before it writes the checkpoint.  `RestoresFindEveryObject` follows.
- **CheckpointStore, messages**: `OrderInv` says that no two lists of messages, live or kept,
  disagree on the order of two messages.  It is inductive because every new list is an old
  one, one with a new id at its end, or one with an id taken out (`Derives`).  Then a
  checkpoint that ends with a message at or before the target cannot hold one that stands
  after it.  The greatest index that `CheckpointFor` chooses exists by well-foundedness.
- **CheckpointStore, refinement**: without links and torn writes an object is what its hash
  says and no file shares one (`CopyInv`), so a published checkpoint restores what it
  recorded; each action then maps to a `Record` of the state it has just written, to the
  `Forget` of a deletion, to a change of the state, or to a stutter.  With hard links the statement is false (finding 1).
- **GroupTurn**: at `entry` the visible target is the one the user named (`EntryInv`), at an
  expert the speaker is a member of the request and the visible target (`ExpertInv`), at the
  second host call the selected speaker is a target of the request (`CallInv`), no
  suppression outlives the message it is for (`LoopInv`), and a stream says nothing of its
  end while it runs (`StreamInv`).  The state loaded before a host call or a build has the
  bindings of the file (`ViewInv`), whatever a configuration change cleared meanwhile:
  writing it back loses none.
- **SessionStore**: `RunInv` (only the registered run of a session may write), `VersionInv`
  (versions are older than the clock, and no two versions of a session with one stamp differ
  if one is the user's edit), `CountInv`.  `EditsSurvive` rests on the last clause: a merge
  compares stamps only.  `ImplementsLease` shows that each session of the store behaves as
  `RunLease` says, as `RunRegistry` does for its one session, although the registry of this
  module is coarser (a cancelled run is gone at once): what either module adds rests on the
  same promise.
- **SandboxPool**: what a call may rely on from one await to the next: which locks it holds
  (`LockInv`), that its sandbox is in the table under its key or nowhere (`HandleInv`,
  `TableInv`), that a sandbox that was not found has left the table before the retry looks
  (`FailedInv`), and that metadata never promise more than is installed, save
  lines that are passed over (`TextInv`, `HonestInv`).  That setting up is exclusive needs all of the first three: the installation
  runs under the key's lock only, and another key's call may meanwhile dispose, but not set
  up, the same sandbox.
- **ExpertTurn**: a turn moves between its awaits with a history that is well-formed except
  for the calls still queued, which it owes a message (`HistoryInv`); so every tool pays one
  (`PaysOne`), and every path back to the model finds none owed.  The ways the loop goes on
  (`NextStep`, `AfterLoop`, a final answer) have a lemma each, which the answers of the model
  cite.  `UnsavedWorkIsExplained` alone is not inductive: during a script call the last
  checkpoint is what the fingerprint taken before it stands for, or the difference is excused
  (`CallInv`).
- **McpRuntime**: `WhatStaysOpenHasACause` says of every connection of a cleaned-up manager
  that it is closed, or that its own exit raised, or that a connect outran the cleanup: the
  failure of one exit is never that of another connection.  The registered manager is the
  newest (`MadeInv`); a connection that is
  being opened is known to its task only (`PrivateInv`); the session a task has lost is not
  registered again (`LostInv`); what is open is on the exit stack until the cleanup has ended
  (`HeldInv`); and a manager that is cleaned up begins nothing (`ClosedInv`).  `StepInv` says
  once what a step of one task must keep, and the actions show that they keep it.
- **Resources**: each clause of the properties is stated from the moment it can be relied on,
  which for most is before the await (`ImportInv`).  Every step of somebody else is noted in
  `touched` (`Watches`), and only the import itself writes the Skill in its name
  (`KeepsTheName`): so one lemma (`OtherStep`) covers all requests and all other imports, and
  only the two halves of the import itself remain.  `BundleOK` says how the parts of a bundle
  hang together.

Three more kinds of theorem say what no run checks; each was first found to hold on the
instances of the runs.

- **What a step uses up.**  A liveness property needs fairness and `ENABLED`, which are out of
  the prover's reach, but also that no execution goes round in a circle, which is not.  For
  requests (`RunsUseUpTheirBudget`), turns (`TurnsUseUpTheirBudget`), MCP tasks
  (`TasksUseUpTheirBudget`) and sandbox calls (`CallsUseUpTheirBudget`) a rank is bounded,
  falls with every step of its owner and is not raised by anybody else.  A request has
  7 steps per turn that is left; a task and a call have a second attempt at most once.  In an
  expert turn a retry, a continuation and a tool each give back what a smaller counter had
  used up, so its rank is lexicographic: steps of the loop, then messages and calls owed,
  then attempts, then the place inside an attempt.
- **Why nobody waits for ever.**  `LocksAreOrdered` defines when a sandbox call waits for a
  lock that another holds; with `LockInv` the holder of a key's lock may wait for the global
  one, whose holder waits for nothing.  `StoppedRunsAreOut` is what `StopReleasesTheRun`
  rests on: the run that a request has found cannot come back while the request waits.
- **How far a finding goes.**  Each of the statements in section 6 fails in few ways, and
  these theorems name them.
  `OnlyLinkedWritesChangeCheckpoints`: the content of a published checkpoint changes only in
  a step that writes in place a file which is linked to one of its objects, and
  `CopiesAreImmutable`: never where restored files are copies.  `DeletionIsFinal`: a deleted
  session comes back only through a copy of its definition that a chat request accepted
  before, of this session or of another, still holds.
  `TitlesAreLostToTheirRuns`: a manual title is replaced only by the user, or by a run of
  that session which came in before the edit; the theorem leaves out executions in which a
  definition is deleted, since the next definition is another session's of that name.
  `ImportsAreInForce`: a tool of an import that has answered is not in force only where
  others have overtaken it, or the account had a tool that differs in case (`GivenWay`), or,
  for a tool bundle, a third tool in the directory it moves to.
  `RestoresAreExact` and `ToolsAreToldApart` are the counterparts that hold: a restore gives
  back exactly what its checkpoint holds, and imports and requests keep every name and
  directory to one row.

Checked by TLC only: the liveness properties `StopReleasesTheRun`, `StaleMirrorIsCleared`,
`RunEnds`, `TurnEnds` and `TaskEnds`, as liveness under fairness and `ENABLED` are out of the
prover's reach (of `RunEnds`, `TurnEnds` and `TaskEnds` the ranks above are proved, of
`StopReleasesTheRun` its safety part; that an action which is due is enabled, and is taken, is
TLC's); that `LeaseSpec` and `LogSpec` hold is checked and proved (the second for
copies).  The violations are found by TLC.

## 6. Findings

1. `checkpoint_links`, `CheckpointsAreImmutable`: restored files are hard links to the
   objects of the store (`session_state/service.py:122`), and the editors and tools write
   files in place.  After a rollback, an edit of a restored file changes what every
   checkpoint with that object restores.
   `docs/contracts/data-structure-and-field-logic.md:402` calls checkpoints immutable.
2. `registry_deleted`, `DeletedStaysDeleted`: a run of another session that was accepted
   before the delete saves the definitions of all sessions as it has loaded them, and writes
   the deleted session's `session.json` again (`api/group_chat_state.py:498-511`); a request
   of the session itself that was accepted before and registers afterwards does the same.  `docs/design/interface-document.md:255` says that it is
   gone.
3. `session_title`, `ManualTitleStaysManual`: a run stamps its old definition of the session
   with every message, so it wins the merge against a rename that took place after the run
   was accepted (`api/group_chat_state.py:503`).
   `docs/contracts/runtime-interface-contract.md:178` says that a manual title is never
   taken back.
4. `resources_tool`, `ImportedToolIsInForce`: the plan of an import goes by the casefolded
   name, of which it says "Same name overwrites local content"
   (`core/settings_bundle_import.py:97`), and the answer counts the tool as overwritten; but
   the rows are merged by the exact name, behind those of the account, and `save_mcp_config`
   keeps the first of two that differ in case only (`api/settings_mcp.py:102`).  The tool of
   the bundle is on no disk, and the account's is unchanged.
   `docs/architecture/scenario-bundle-export.md:164` has a tool of the same name overwritten
   ("覆盖本地工具内容"), and lines 167 and 211 leave no third way: another name gets a new
   directory, and nothing is kept ("同名资源的正式语义是覆盖").

## 7. Observed while modelling, without a run

- A crash inside the write of an object leaves torn bytes under the hash, which later
  captures take for the object (`TornWrites`; the runs set it to FALSE).  A torn
  `history.json` is read as an empty list.
- `load_chain` returns an empty list for a `chain.json` that cannot be read
  (`session_state/store.py:68-78`), and the next capture then writes a chain of one entry: the
  older checkpoints are on disk and in no list (`ReadErrors`; the runs set it to FALSE).  The
  file is written whole, to a temporary name that replaces it, so it takes a file system that
  fails; `docs/contracts/data-structure-and-field-logic.md:401` has old checkpoints stay
  visible.
- An upload of more than one chunk may wait between two of them, and any checkpoint taken
  meanwhile holds a half-uploaded file.  A rollback, deletion or rename detaches the file
  from its name and the upload still answers that it is there (`EndUpload` with `at` absent).
- The copy of `session.json` in a checkpoint has no `scenario_prompt`
  (`session_state/service.py:82`), so a rollback empties the prompt;
  `docs/contracts/data-structure-and-field-logic.md:384` wants the complete state of one
  moment (`RestoredScenario` in `CheckpointStore`).
- The `turn_completed` checkpoint is taken with the output
  (`agent/expert_output_publisher.py:87`), before the Skill binding and `last_expert_turn`
  are written; line 380 of that document calls it the boundary of the turn.  A rollback to
  the end of a turn restores the routing of its beginning.
- The first checkpoint of a clone has the title of its source, not the "(fork)" title.
- A host decision is written into the state that was loaded before the model call, so a
  configuration change during the call is undone in that field; the next decision replaces
  it.
- Two writers of one history (a chat accepted while a run goes on, an invitation during a
  run) save lists that do not have each other's messages; the later one stays.
- An AI title is saved with the stamp the definition had, so the next save of a run that
  holds the older copy takes it away.
- Deleting one session removes every directory whose `session.json` cannot be read at that
  moment.
- Sandboxes.  `docs/operations/single-user-single-sandbox.md:7` says that a user has one
  sandbox for all sessions, and line 39 that changed requirements are reinstalled in it; a
  `run_skill_script` call has a key of its session, and a changed text makes a new sandbox.
  Lines that begin with `-` or `git+` or hold `://` are neither prechecked nor verified
  (`agent/sandbox_requirements_installer.py:62` and 129, `sandbox_requirements_verifier.py:46`):
  where the other lines are satisfied pip is not run (`sandbox_requirements_installer.py:109`),
  and the whole text is marked as installed.  `docs/user-manual/README.md:377` calls it a
  failed acceptance when the requirements do not take effect ("沙箱 requirements 不生效").
  A failed call of such a key that has no handle yet invalidates the sandbox of the user's
  other key (`Victims`).  The comment at `agent/sandbox_service.py:424` speaks of not
  holding the lock over an installation; the verification, the reinstallation and the
  creation do hold the global one, so they delay all users.  A disposal that is cancelled
  leaves a dead sandbox in the table, which the next call replaces after one failed attempt.
  A sandbox whose creation is cancelled or whose disposal raises is known to nobody until it
  ends by itself or a restart cleans up (`lost`).  Calls with different network policies on
  one key dispose one another's sandbox while a tool runs in it; the tool's call retries.
- Expert turns.  Arguments of a call that are no JSON become `{}` without a word
  (`agent/llm_client.py:296`).  Arguments are normalized outside the `try` of the tool runner
  (`agent/skill_agent_runtime.py:338`), and a normalizer may raise (`mcp/tool_arg_normalizers.py:7`
  strips an address that need not be text): the turn then ends in the middle of a batch, and
  what earlier calls of it did is in no message (`ArgumentsFail`).  The finalizers' model calls have no `wait_for` of their own.
  The idempotency store of the gateway is keyed by fresh uuids: it never answers and only
  grows.  A budget that is spent on unknown tools alone, or a text cut off at the last step,
  ends the stream without a state in the protocol (the two exceptions in
  `EndsInTheProtocol`).  What a failed script call changed in the workspace is in no
  checkpoint until something else captures it (`excuse`).
- MCP.  `cleanup` logs what the exits raise and forgets the connections all the same
  (`mcp/manager.py:928-948`).  The comment at line 931 allows that where the process shuts
  down ("进程关停场景下允许降级为警告"), for exits in another task than the entry, which raise
  "cancel scope in a different task"; but a configuration change is served by another task
  than the turn that connected, too, so `dispose_mcp_runtime_for_user` ("关闭并移除某用户的
  MCP 运行时", line 453) may leave child processes and streams of the old configuration
  (`stuck`).  A connect under way when its manager is cleaned up opens a connection that nobody
  closes, and its turn goes on with the old configuration (`outrun`).  A reconnection closes
  the session and not the transport, which stays until the cleanup; a failed handshake
  leaves its transport too.  When two calls fail on one session, the second reconnection
  closes the session that the first has just opened.  `list_tools` has no timeout and its
  errors are swallowed (`mcp/manager.py:711`), although the comment at line 905 says that
  a successful connect has loaded the tools.  A changed environment variable does not dispose
  of the runtime.
- Resources.  After finding 4 the Skill uses a spelling that no tool has, and the report does
  not say so (the exception in `UnresolvedIsReported`).  An expert in that situation is added
  beside the other.  Names that differ but share a directory go over one another at creation,
  renaming and import, where `docs/user-manual/user-guide.md:190` says that other names are
  imported as new resources ("同名资源覆盖本地内容，不同名资源作为新版本导入") and
  `docs/architecture/scenario-bundle-export.md:167` that they get a new directory
  ("不同名资源按当前命名规则创建新目录并写入").  A tool bundle may even lose its own tool so, to a
  third one in the directory that it moves to (`GivenWay`).  The scene editor drops
  scenes that were imported after it was opened.  A failure between two saves of an import
  leaves what was written before it, a Skill without its tools or experts without their scene
  (`ImportBreaksOff`, `ImportFailsLate`), where lines 144 and 154 of that contract have an
  import validated completely and then written atomically ("导入必须先完整校验，再原子写入",
  "原子替换目标资源"); an error after the last save answers 400 to an import that is in force.  A resource file that
  cannot be read is left out by the loader and deleted by the next save.

## 8. What is left out inside the modelled parts

- `RunRegistry`: one session; the phases of a run; the event stream.
- `GroupTurn`: texts, progress events, the expert's loop, traces; one session, one run at a
  time; an expert that is named as the host, `user` or `end` are, which the code does not
  refuse.
- `CheckpointStore`: directories, timestamps, `prune_empty_entries`, more than one upload at a
  time; orchestration_state.json is stored as history.json is.  Deletion of a session: an
  `rmtree` that fails half-way, and what a tool still running writes into the directory
  afterwards; a session that an old copy restores (finding 2) starts here as a new one does.
- `SessionStore`: order in a history (`CheckpointStore` has it), rollback and clone, late
  unwinding of a cancelled run (`RunRegistry` has it),
  `GROUP_CHAT_TITLE_REFRESH_EVERY_MESSAGE` (off by default), two edits of one session within
  10 ms, death inside a write.
- `SandboxPool`: session isolation (off by default) with `dispose_session`, the handles of
  workspace commands, other users (they share only the global lock), the age of a
  verification (a choice).  Sandboxes in `lost`, those whose creation was
  cancelled, whose disposal raised or that outlived a restart, are exempt from the property
  that compares the table with what runs.
- `ExpertTurn`: one script with one set of arguments; agents without a final output model
  (every Skill agent has one); the idempotency store (it never answers); the texts of
  messages; the truncation of histories before the turn.  After a first excused loss `excuse` excuses
  later ones too, until the next capture.
- `McpRuntime`: one user and one server (each has its own entry in every table, and calls of
  two servers meet in the exit stack only); a cleanup that is itself cancelled; the bootstrap functions that
  nothing calls.
- `Resources`: one Skill directory, one row of a kind in a bundle, previews (they write
  nothing), exports, the host snapshot of a scene, Python requirements, resources of other
  accounts.  The functions `import_mcp_from_bundle_bytes`, `merge_agent_instances_for_bundle`,
  `merge_mcp_servers_for_bundle` and `copy_bundle_skills_to_user` are called by nothing.
