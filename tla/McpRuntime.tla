------------------------------ MODULE McpRuntime ------------------------------
(*****************************************************************************)
(* The MCP runtime of one user: the registered MCPToolManager, the managers  *)
(* it replaced, the connections each has opened to one MCP server, and the   *)
(* tasks that use them: turns of experts and requests of the settings page.  *)
(*                                                                           *)
(* One event loop runs every task; an action is what a task does between two *)
(* awaits.  A change of the tool resources takes the manager out of the      *)
(* registry in the step that saves them, but tasks that have it go on, and   *)
(* its cleanup closes the connections over several awaits.                   *)
(*                                                                           *)
(* Abstractions.  A tool resource is the number of the save that wrote it.   *)
(* A connection is a transport (child process or HTTP stream) and the        *)
(* session on it.  Of an answer only this is kept: whether it is an error    *)
(* after which tool_func reconnects.  A server in its cooldown is a flag.    *)
(* Arguments, tool names, environment and logs are left out.                 *)
(*****************************************************************************)

EXTENDS Naturals

CONSTANTS
    Tasks,        \* turns and settings requests, one tool call each
    MaxSaves,     \* bound: changes of the tool resource
    MaxConns,     \* bound: connections opened
    None

ASSUME ConstantsAssumption ==
    /\ MaxSaves \in Nat
    /\ MaxConns \in Nat
    /\ None \notin Nat

VARIABLES
    disk,         \* tool.json: the save that wrote it, None when there is none
    saves,        \* changes so far
    registered,   \* the manager in _mcp_by_user
    created,      \* how many managers there have been
    manager, conn, task,
    opened        \* how many connections were begun

vars == <<disk, saves, registered, created, manager, conn, task, opened>>

Managers == 1..(MaxSaves + 1)
Conns == 1..MaxConns
ConnOrNone == Conns \cup {None}
Versions == 0..MaxSaves
VersionOrNone == Versions \cup {None}

\* config: the resource in server_configs, if any.  session, tools: the
\* entry of `sessions`, and the session captured by the registered ToolSpecs.
\* outrun: a connect was under way when the cleanup ended.
NewManager ==
    [state |-> "live", config |-> None, session |-> None, tools |-> None,
     cooling |-> FALSE, outrun |-> FALSE]

\* transport: the context is entered; held: an exit stack that will be closed has it;
\* stuck: an exit of its own raised in the cleanup and left something of it open.
NoConn ==
    [transport |-> FALSE, held |-> FALSE, stuck |-> FALSE, session |-> "none",
     manager |-> 1, version |-> 0]

\* conn: the connection being opened, then the one of the call; first: the one whose
\* failure made the task reconnect; version: the configuration it reconnects with.
NoTask ==
    [pc |-> "idle", turn |-> FALSE, manager |-> 1, conn |-> None, first |-> None,
     version |-> None]

Points == {"idle", "entering", "initializing", "listing", "tools", "waiting",
           "calling", "dropping", "done"}

TypeOK ==
    /\ disk \in VersionOrNone
    /\ saves \in 0..MaxSaves
    /\ registered \in Managers \cup {None}
    /\ created \in 0..(MaxSaves + 1)
    /\ manager \in [Managers ->
            [state : {"live", "closing", "closed"}, config : VersionOrNone,
             session : ConnOrNone, tools : ConnOrNone,
             cooling : BOOLEAN, outrun : BOOLEAN]]
    /\ conn \in [Conns ->
            [transport : BOOLEAN, held : BOOLEAN, stuck : BOOLEAN,
             session : {"none", "open", "broken", "closed"},
             manager : Managers, version : Versions]]
    /\ task \in [Tasks ->
            [pc : Points, turn : BOOLEAN, manager : Managers, conn : ConnOrNone,
             first : ConnOrNone, version : VersionOrNone]]
    /\ opened \in 0..MaxConns

Init ==
    /\ disk \in {0, None}
    /\ saves = 0
    /\ registered = None
    /\ created = 0
    /\ manager = [m \in Managers |-> NewManager]
    /\ conn = [c \in Conns |-> NoConn]
    /\ task = [t \in Tasks |-> NoTask]
    /\ opened = 0

-----------------------------------------------------------------------------
(* Changes of the configuration.                                           *)

\* dispose_mcp_runtime_for_user up to its await: the manager leaves the registry.
Dispose_KeepsItRegistered ==
    /\ registered' = registered
    /\ manager' = manager

Dispose ==
    /\ registered' = None
    /\ manager' = IF registered = None THEN manager
                  ELSE [manager EXCEPT ![registered].state = "closing"]

\* create, update, delete and import write the resource and dispose of the runtime
\* with no await in between.
Save(version) ==
    /\ saves < MaxSaves
    /\ saves' = saves + 1
    /\ version = saves + 1 \/ (version = None /\ disk # None)
    /\ disk' = version
    /\ Dispose
    /\ UNCHANGED <<created, conn, task, opened>>

\* The end of cleanup.  Every exit on the stack is tried; those that raise, as an exit in
\* another task than the entry may, can leave a connection as it was, which is only logged.
\* (A session closed on a transport that is not serves callers as one that breaks after.)
\* The tables are cleared all the same, and the stack is replaced by one that nobody will
\* close.  A connect between two awaits outruns it.
OnStack(m) == {c \in Conns : conn[c].manager = m /\ conn[c].held}

Underway(m) ==
    \E t \in Tasks : task[t].manager = m /\ task[t].pc \in {"entering", "dropping"}

CleanupEnds(m) ==
    /\ manager[m].state = "closing"
    /\ manager' = [manager EXCEPT ![m] =
            [NewManager EXCEPT !.state = "closed", !.outrun = Underway(m)]]
    /\ \E raised \in SUBSET OnStack(m) :
           conn' = [c \in Conns |->
               IF c \in raised THEN [conn[c] EXCEPT !.held = FALSE, !.stuck = TRUE]
               ELSE IF c \in OnStack(m)
               THEN [conn[c] EXCEPT !.transport = FALSE, !.held = FALSE, !.session = "closed"]
               ELSE conn[c]]
    /\ UNCHANGED <<disk, saves, registered, created, task, opened>>

-----------------------------------------------------------------------------
(* Connecting.                                                             *)

\* The answer, or the error, is handed over and the locals are gone.
Finished == [NoTask EXCEPT !.pc = "done"]

\* What a task does once its manager is connected, or is not: a turn takes the tools
\* that are registered then; a settings request and a retry take the session.
Proceed_RetriesOnTheOld(r, m, connected) ==
    IF r.turn /\ r.first = None
    THEN IF m.tools = None THEN Finished
         ELSE [r EXCEPT !.pc = "tools", !.conn = m.tools]
    ELSE IF connected /\ m.session # None
         THEN [r EXCEPT !.pc = "waiting", !.conn = IF r.first = None THEN m.session ELSE r.first]
         ELSE Finished

Proceed(r, m, connected) ==
    IF r.turn /\ r.first = None
    THEN IF m.tools = None THEN Finished
         ELSE [r EXCEPT !.pc = "tools", !.conn = m.tools]
    ELSE IF connected /\ m.session # None THEN [r EXCEPT !.pc = "waiting", !.conn = m.session]
         ELSE Finished

Resume(t, r, m, connected) ==
    /\ task' = [task EXCEPT ![t] = Proceed(r, m, connected)]
    /\ UNCHANGED <<conn, opened>>

\* connect_server up to its first await.  In the cooldown, with a placeholder that has
\* no value or with a transport it does not know, it returns FALSE at once.
Connect(t, r, m, version) ==
    \/ /\ ~m.cooling
       /\ opened < MaxConns
       /\ opened' = opened + 1
       /\ conn' = [conn EXCEPT ![opened + 1] =
               [NoConn EXCEPT !.manager = r.manager, !.version = version]]
       /\ task' = [task EXCEPT ![t] = [r EXCEPT !.pc = "entering", !.conn = opened + 1]]
    \/ Resume(t, r, m, FALSE)

\* ensure_user_mcp_config_loaded never suspends; then ensure_servers_loaded for a turn,
\* or the endpoint of the settings page, connects when there is no session.
Begin(t, turn) ==
    /\ task[t].pc = "idle"
    /\ LET fresh == registered = None
           id == IF fresh THEN created + 1 ELSE registered
           m == IF fresh THEN [NewManager EXCEPT !.config = disk] ELSE manager[id]
           r == [NoTask EXCEPT !.turn = turn, !.manager = id]
       IN /\ registered' = id
          /\ created' = IF fresh THEN created + 1 ELSE created
          /\ manager' = [manager EXCEPT ![id] = m]
          /\ IF m.config # None /\ m.session = None
             THEN Connect(t, r, m, m.config)
             ELSE Resume(t, r, m, TRUE)
    /\ UNCHANGED <<disk, saves>>

\* The transport is entered.  It goes on the exit stack the task looked up before it
\* waited: a cleanup that has ended since has forgotten that one.
Entered_OffTheStack(t) ==
    /\ task[t].pc = "entering"
    /\ conn' = [conn EXCEPT ![task[t].conn].transport = TRUE]
    /\ task' = [task EXCEPT ![t].pc = "initializing"]
    /\ UNCHANGED <<disk, saves, registered, created, manager, opened>>

Entered(t) ==
    /\ task[t].pc = "entering"
    /\ conn' = [conn EXCEPT
            ![task[t].conn].transport = TRUE,
            ![task[t].conn].held = manager[task[t].manager].state # "closed"]
    /\ task' = [task EXCEPT ![t].pc = "initializing"]
    /\ UNCHANGED <<disk, saves, registered, created, manager, opened>>

\* The server answers the handshake within its timeout: the session is registered
\* before its tools are listed, over a session that another task has registered since.
Initialized_NamesTheTransport(t) ==
    /\ task[t].pc = "initializing"
    /\ conn[task[t].conn].transport
    /\ conn' = [conn EXCEPT ![task[t].conn].session = "transport"]
    /\ manager' = [manager EXCEPT ![task[t].manager].session = task[t].conn]
    /\ task' = [task EXCEPT ![t].pc = "listing"]
    /\ UNCHANGED <<disk, saves, registered, created, opened>>

Initialized(t) ==
    /\ task[t].pc = "initializing"
    /\ conn[task[t].conn].transport
    /\ conn' = [conn EXCEPT ![task[t].conn].session = "open"]
    /\ manager' = [manager EXCEPT ![task[t].manager].session = task[t].conn]
    /\ task' = [task EXCEPT ![t].pc = "listing"]
    /\ UNCHANGED <<disk, saves, registered, created, opened>>

\* It cannot be reached, times out, or speaks another protocol, which begins a
\* cooldown.  The transport stays entered until the cleanup.
ConnectFails(t, mismatch) ==
    /\ task[t].pc \in {"entering", "initializing"}
    /\ LET id == task[t].manager
       IN /\ manager' = [manager EXCEPT ![id].cooling = @ \/ mismatch]
          /\ Resume(t, task[t], manager'[id], FALSE)
    /\ UNCHANGED <<disk, saves, registered, created>>

\* _load_tools_from_server swallows an error; then connect_server ends the cooldown
\* and returns TRUE.
Listed(t, listed) ==
    /\ task[t].pc = "listing"
    /\ listed => conn[task[t].conn].session = "open"
    /\ LET id == task[t].manager
       IN /\ manager' = [manager EXCEPT ![id].cooling = FALSE,
                            ![id].tools = IF listed THEN task[t].conn ELSE @]
          /\ Resume(t, task[t], manager'[id], TRUE)
    /\ UNCHANGED <<disk, saves, registered, created>>

CooldownEnds(m) ==
    /\ manager[m].cooling
    /\ manager' = [manager EXCEPT ![m].cooling = FALSE]
    /\ UNCHANGED <<disk, saves, registered, created, conn, task, opened>>

-----------------------------------------------------------------------------
(* Calls.                                                                  *)

OnlyTask == UNCHANGED <<disk, saves, registered, created, manager, conn, opened>>

\* tool_func takes the session that is registered now, else the one its ToolSpec
\* captured; the model may also leave the tool alone.
Call(t) ==
    /\ task[t].pc = "tools"
    /\ LET session == manager[task[t].manager].session
       IN task' = [task EXCEPT ![t].pc = "waiting",
                               ![t].conn = IF session = None THEN @ ELSE session]
    /\ OnlyTask

Decline(t) ==
    /\ task[t].pc = "tools"
    /\ task' = [task EXCEPT ![t] = Finished]
    /\ OnlyTask

\* execute_mcp_call gets the lock of the session.
Start(t) ==
    /\ task[t].pc = "waiting"
    /\ \A u \in Tasks : task[u].pc = "calling" => task[u].conn # task[t].conn
    /\ task' = [task EXCEPT ![t].pc = "calling"]
    /\ OnlyTask

Answered(t) ==
    /\ task[t].pc = "calling"
    /\ conn[task[t].conn].session = "open"
    /\ task' = [task EXCEPT ![t] = Finished]
    /\ OnlyTask

\* The call times out, or fails in a way that is not retried.
CallFails_NoTimeout(t) ==
    /\ task[t].pc = "calling"
    /\ conn[task[t].conn].session # "open"
    /\ task' = [task EXCEPT ![t] = Finished]
    /\ OnlyTask

CallFails(t) ==
    /\ task[t].pc = "calling"
    /\ task' = [task EXCEPT ![t] = Finished]
    /\ OnlyTask

\* The connection is reset, closed or cancelled under the call: the first time a turn
\* reconnects.  _reconnect_server takes the registered session, whichever connection
\* that is now, and leaves its context, which suspends; the tools go after that.
CallBreaks(t) ==
    /\ task[t].pc = "calling"
    /\ LET id == task[t].manager
           m == manager[id]
           r == [task[t] EXCEPT !.first = task[t].conn, !.version = m.config]
           bare == [m EXCEPT !.tools = None]
       IN IF task[t].turn /\ task[t].first = None /\ m.config # None
          THEN IF m.session = None
               THEN /\ manager' = [manager EXCEPT ![id] = bare]
                    /\ Connect(t, r, bare, m.config)
               ELSE /\ manager' = [manager EXCEPT ![id].session = None]
                    /\ task' = [task EXCEPT ![t] =
                            [r EXCEPT !.pc = "dropping", !.conn = m.session]]
                    /\ UNCHANGED <<conn, opened>>
          ELSE /\ task' = [task EXCEPT ![t] = Finished]
               /\ UNCHANGED <<manager, conn, opened>>
    /\ UNCHANGED <<disk, saves, registered, created>>

\* The old session is closed (its transport is not), the tools of the server go, and
\* connect_server begins with the configuration found before.
Dropped(t) ==
    /\ task[t].pc = "dropping"
    /\ LET id == task[t].manager
           bare == [manager[id] EXCEPT !.tools = None]
           closed == [conn EXCEPT ![task[t].conn].session = "closed"]
       IN /\ manager' = [manager EXCEPT ![id] = bare]
          /\ \/ /\ ~bare.cooling
                /\ opened < MaxConns
                /\ opened' = opened + 1
                /\ conn' = [closed EXCEPT ![opened + 1] =
                        [NoConn EXCEPT !.manager = id, !.version = task[t].version]]
                /\ task' = [task EXCEPT ![t].pc = "entering", ![t].conn = opened + 1]
             \/ /\ conn' = closed
                /\ task' = [task EXCEPT ![t] = Proceed(@, bare, FALSE)]
                /\ UNCHANGED opened
    /\ UNCHANGED <<disk, saves, registered, created>>

\* The stop of a run cancels its turn at whatever await it is.
Cancel(t) ==
    /\ task[t].turn
    /\ task[t].pc \notin {"idle", "done"}
    /\ task' = [task EXCEPT ![t] = Finished]
    /\ OnlyTask

\* The server, or the network, drops a connection.
Break(c) ==
    /\ conn[c].session = "open"
    /\ conn' = [conn EXCEPT ![c].session = "broken"]
    /\ UNCHANGED <<disk, saves, registered, created, manager, task, opened>>

\* What a task does whatever the server does: a handshake and a call end by their
\* timeouts, a transport is entered or refused, a list of tools answered or refused.
Timely(t) ==
    \/ Entered(t)
    \/ \E mismatch \in BOOLEAN : ConnectFails(t, mismatch)
    \/ \E listed \in BOOLEAN : Listed(t, listed)
    \/ Call(t)
    \/ Decline(t)
    \/ Start(t)
    \/ CallFails(t)
    \/ Dropped(t)

Next ==
    \/ \E version \in VersionOrNone : Save(version)
    \/ \E m \in Managers : CleanupEnds(m) \/ CooldownEnds(m)
    \/ \E t \in Tasks :
        \/ \E turn \in BOOLEAN : Begin(t, turn)
        \/ Timely(t)
        \/ Initialized(t)
        \/ Answered(t)
        \/ CallBreaks(t)
        \/ Cancel(t)
    \/ \E c \in Conns : Break(c)

Spec == Init /\ [][Next]_vars

FairSpec ==
    /\ Spec
    /\ \A t \in Tasks : WF_vars(Timely(t))
    /\ \A m \in Managers : WF_vars(CleanupEnds(m))

-----------------------------------------------------------------------------
(* Properties.                                                             *)

\* The manager a new task gets was configured from the resources that are on disk: no
\* change of them is ever served by an older runtime.
RegisteredIsCurrent ==
    registered # None =>
        /\ manager[registered].state = "live"
        /\ manager[registered].config = disk

\* Once a manager is cleaned up, nothing it has opened stays open, and nothing can be
\* called through it, but for two cases: a connection whose own exit raised, which the
\* cleanup only logs (the failure of one exit is not that of the others); and a connect
\* that was under way at that moment: what it opens is open for good and serves the
\* configuration that was replaced.
OpenAfterCleanupHasACause ==
    \A m \in Managers :
        manager[m].state = "closed" /\ ~manager[m].outrun =>
            \A c \in Conns : conn[c].manager = m /\ ~conn[c].stuck =>
                ~conn[c].transport /\ conn[c].session \notin {"open", "broken"}

\* The second attempt of a call never goes to the connection the first one failed on,
\* whichever task registers and drops sessions in the meantime.
RetryIsOnAnotherConnection ==
    \A t \in Tasks :
        task[t].first # None /\ task[t].pc \in {"waiting", "calling"} =>
            task[t].conn # task[t].first

\* A turn and a settings request get past the MCP runtime: the lock of a session, its
\* timeouts, and the tasks that replace it never keep one waiting for good.  (That a
\* server answers or refuses list_tools is assumed: that call has no timeout.)
TaskEnds == \A t \in Tasks : task[t].pc # "idle" ~> task[t].pc = "done"
=============================================================================
