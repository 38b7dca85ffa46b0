--------------------------- MODULE McpRuntimeProofs ---------------------------
(*****************************************************************************)
(* What McpRuntime promises for any number of tasks, saves and connections.  *)
(* The invariant says what a task may rely on between two awaits: that the   *)
(* connection it is opening is known to nobody else, that whatever a manager *)
(* has opened is on the exit stack its cleanup closes, and that the session  *)
(* it lost is registered nowhere.                                            *)
(*****************************************************************************)

EXTENDS McpRuntime, TLAPS

ManagerRecord ==
    [state : {"live", "closing", "closed"}, config : VersionOrNone,
     session : ConnOrNone, tools : ConnOrNone, cooling : BOOLEAN, outrun : BOOLEAN]

ConnRecord ==
    [transport : BOOLEAN, held : BOOLEAN, stuck : BOOLEAN,
     session : {"none", "open", "broken", "closed"}, manager : Managers, version : Versions]

TaskRecord ==
    [pc : Points, turn : BOOLEAN, manager : Managers, conn : ConnOrNone,
     first : ConnOrNone, version : VersionOrNone]

\* The registered manager is the newest, and there is room for one more after a save.
MadeInv ==
    /\ registered # None => registered <= created
    /\ created <= (IF registered = None THEN saves ELSE saves + 1)
    /\ \A m \in Managers : m > created => manager[m].state = "live"

Opening(r) == r.pc \in {"entering", "initializing"}

TaskInv ==
    \A t \in Tasks :
        /\ Opening(task[t]) \/ task[t].pc = "listing" =>
               task[t].conn # None /\ conn[task[t].conn].manager = task[t].manager
        /\ task[t].pc = "dropping" => task[t].version # None
        /\ task[t].pc = "tools" => task[t].first = None

\* Connections that were not begun are named nowhere.
Begun(c) == c # None => c <= opened

UsedInv ==
    /\ \A t \in Tasks : Begun(task[t].conn) /\ Begun(task[t].first)
    /\ \A m \in Managers : Begun(manager[m].session) /\ Begun(manager[m].tools)

\* A connection that is being opened is known to the task that opens it only.
PrivateInv ==
    \A t \in Tasks : Opening(task[t]) =>
        /\ \A m \in Managers :
               manager[m].session # task[t].conn /\ manager[m].tools # task[t].conn
        /\ \A u \in Tasks :
               task[u].first # task[t].conn /\ (u # t => task[u].conn # task[t].conn)

\* The connection a task lost is not the registered session of its manager again.
LostInv ==
    \A t \in Tasks :
        task[t].first # None => manager[task[t].manager].session # task[t].first

\* What is open is on the exit stack, unless the cleanup has ended.
HeldInv ==
    \A c \in Conns :
        conn[c].transport \/ conn[c].session \in {"open", "broken"} =>
            manager[conn[c].manager].state = "closed" \/ conn[c].held

\* A manager that is cleaned up starts nothing new.
ClosedInv ==
    \A m \in Managers : manager[m].state = "closed" =>
        /\ manager[m].config = None
        /\ ~manager[m].outrun => ~Underway(m)

IInv ==
    /\ TypeOK
    /\ MadeInv
    /\ RegisteredIsCurrent
    /\ TaskInv
    /\ UsedInv
    /\ PrivateInv
    /\ LostInv
    /\ RetryIsOnAnotherConnection
    /\ HeldInv
    /\ ClosedInv
    /\ OpenAfterCleanupHasACause

LEMMA InitIInv == Init => IInv
<1> SUFFICES ASSUME Init PROVE IInv
  OBVIOUS
<1>1. TypeOK
  BY ConstantsAssumption DEF Init, TypeOK, NewManager, NoConn, NoTask, Managers, Conns,
     ConnOrNone, Versions, VersionOrNone, Points
<1>2. MadeInv /\ RegisteredIsCurrent
  BY ConstantsAssumption DEF Init, MadeInv, RegisteredIsCurrent, NewManager, Managers
<1>3. TaskInv /\ UsedInv /\ PrivateInv /\ LostInv /\ RetryIsOnAnotherConnection
  BY DEF Init, TaskInv, UsedInv, PrivateInv, LostInv, RetryIsOnAnotherConnection, Opening,
     Begun, NewManager, NoTask
<1>4. HeldInv /\ ClosedInv /\ OpenAfterCleanupHasACause
  BY DEF Init, HeldInv, ClosedInv, OpenAfterCleanupHasACause, NoConn, NewManager, NoTask
<1> QED BY <1>1, <1>2, <1>3, <1>4 DEF IInv

-----------------------------------------------------------------------------
(* A step of one task, which becomes q.                                    *)

\* The tables afterwards: sessions only leave them, and of the tools only those that the
\* task has just listed come in.
Tables(t) ==
    /\ manager' \in [Managers -> ManagerRecord]
    /\ \A m \in Managers :
        /\ (manager'[m].state = "closed") = (manager[m].state = "closed")
        /\ manager[m].state = "closed" =>
               manager'[m].config = manager[m].config /\ manager'[m].outrun = manager[m].outrun
        /\ manager'[m].session \in {manager[m].session, None}
        /\ \/ manager'[m].tools \in {manager[m].tools, None}
           \/ task[t].pc = "listing" /\ manager'[m].tools = task[t].conn

\* A connection stays what it was, or its session is closed.
Stays(c) ==
    /\ conn'[c].transport = conn[c].transport
    /\ conn'[c].held = conn[c].held
    /\ conn'[c].stuck = conn[c].stuck
    /\ conn'[c].manager = conn[c].manager
    /\ conn'[c].session \in {conn[c].session, "closed"}

\* One more is begun.
Begins(c, id) ==
    /\ opened' = opened + 1
    /\ c = opened'
    /\ ~conn'[c].transport
    /\ conn'[c].session = "none"
    /\ conn'[c].manager = id

Connections(q) ==
    /\ conn' \in [Conns -> ConnRecord]
    /\ opened' \in {opened, opened + 1} \cap (0..MaxConns)
    /\ \A c \in Conns : Stays(c) \/ Begins(c, q.manager)

\* What the task keeps was its own, and not being opened, or registered.
Keeps(t, q) ==
    /\ \/ q.conn = None
       \/ q.conn = task[t].conn /\ ~Opening(task[t])
       \/ \E m \in Managers : q.conn \in {manager[m].session, manager[m].tools}
       \/ Begins(q.conn, q.manager)
    /\ \/ q.first \in {None, task[t].first}
       \/ q.first = task[t].conn /\ ~Opening(task[t])
    /\ q.first # None => manager'[q.manager].session # q.first

Allowed(q) ==
    /\ q.pc \notin {"initializing", "listing"}
    /\ q.pc \in {"entering", "dropping"} =>
           (manager'[q.manager].state = "closed" => manager'[q.manager].outrun)
    /\ q.pc = "entering" => q.conn \in Conns /\ Begins(q.conn, q.manager)
    /\ q.pc = "dropping" => q.version # None
    /\ q.pc = "tools" => q.first = None
    /\ q.pc \in {"waiting", "calling"} /\ q.first # None => q.conn # q.first

\* The registry and what is on disk.
Outer ==
    /\ disk \in VersionOrNone
    /\ saves \in 0..MaxSaves
    /\ registered \in Managers \cup {None}
    /\ created \in 0..(MaxSaves + 1)
    /\ MadeInv
    /\ RegisteredIsCurrent

LEMMA StepInv ==
    ASSUME IInv, NEW t \in Tasks, NEW q \in TaskRecord, task' = [task EXCEPT ![t] = q],
           Outer', Tables(t), Connections(q), Keeps(t, q), Allowed(q)
    PROVE  IInv'
<1>1. /\ task \in [Tasks -> TaskRecord] /\ task' \in [Tasks -> TaskRecord]
      /\ manager \in [Managers -> ManagerRecord] /\ manager' \in [Managers -> ManagerRecord]
      /\ conn \in [Conns -> ConnRecord] /\ conn' \in [Conns -> ConnRecord]
      /\ opened \in 0..MaxConns /\ opened' \in {opened, opened + 1} /\ opened' \in 0..MaxConns
  BY DEF IInv, TypeOK, TaskRecord, ManagerRecord, ConnRecord, Tables, Connections
<1>2. task'[t] = q /\ \A u \in Tasks \ {t} : task'[u] = task[u]
  BY <1>1
<1>3. TypeOK'
  BY <1>1 DEF TypeOK, Outer, TaskRecord, ManagerRecord, ConnRecord
<1>4. TaskInv'
  <2>1. ASSUME NEW u \in Tasks, u # t, Opening(task[u]) \/ task[u].pc = "listing"
        PROVE  task[u].conn # None /\ conn'[task[u].conn].manager = task[u].manager
    <3>1. task[u].conn # None /\ conn[task[u].conn].manager = task[u].manager
      BY <2>1 DEF IInv, TaskInv
    <3>2. task[u].conn \in Conns /\ task[u].conn <= opened
      BY <1>1, <3>1 DEF IInv, UsedInv, Begun, TaskRecord, ConnOrNone
    <3>3. Stays(task[u].conn)
      BY <1>1, <3>2 DEF Connections, Begins, Conns
    <3> QED BY <3>1, <3>3 DEF Stays
  <2>2. ASSUME Opening(q) \/ q.pc = "listing"
        PROVE  q.conn # None /\ conn'[q.conn].manager = q.manager
    BY <2>2, ConstantsAssumption DEF Allowed, Opening, Begins, Conns
  <2> QED BY <1>2, <2>1, <2>2 DEF TaskInv, IInv, Allowed, Opening
<1>5. UsedInv'
  <2>1. Begun(q.conn)' /\ Begun(q.first)'
    BY <1>1 DEF Keeps, IInv, UsedInv, Begun, Begins, ConnOrNone, Conns, TaskRecord, ManagerRecord
  <2>2. \A u \in Tasks : Begun(task[u].conn)' /\ Begun(task[u].first)'
    BY <1>1, <1>2, <2>1 DEF IInv, UsedInv, Begun, ConnOrNone, Conns, TaskRecord
  <2>3. \A m \in Managers : Begun(manager[m].session)' /\ Begun(manager[m].tools)'
    BY <1>1 DEF Tables, IInv, UsedInv, Begun, ConnOrNone, Conns, TaskRecord, ManagerRecord
  <2> QED BY <2>2, <2>3 DEF UsedInv
<1>6. PrivateInv'
  <2>1. ASSUME NEW u \in Tasks, u # t, Opening(task[u])
        PROVE  /\ task[u].conn # None /\ task[u].conn <= opened /\ task[u].conn \in Conns
               /\ \A m \in Managers :
                      manager[m].session # task[u].conn /\ manager[m].tools # task[u].conn
               /\ \A v \in Tasks :
                      task[v].first # task[u].conn /\ (v # u => task[v].conn # task[u].conn)
    <3>1. task[u].conn # None /\ task[u].conn <= opened
      BY <2>1 DEF IInv, TaskInv, UsedInv, Begun
    <3>2. task[u].conn \in Conns
      BY <1>1, <3>1 DEF TaskRecord, ConnOrNone
    <3> QED BY <2>1, <3>1, <3>2 DEF IInv, PrivateInv
  <2>2. ASSUME NEW u \in Tasks, u # t, Opening(task[u])
        PROVE  /\ \A m \in Managers :
                      manager'[m].session # task[u].conn /\ manager'[m].tools # task[u].conn
               /\ \A v \in Tasks :
                      task'[v].first # task[u].conn /\ (v # u => task'[v].conn # task[u].conn)
    <3>1. \A m \in Managers :
              manager'[m].session # task[u].conn /\ manager'[m].tools # task[u].conn
      BY <2>1, <2>2 DEF Tables
    <3>2. q.first # task[u].conn
      BY <2>1, <2>2 DEF Keeps
    <3>3. q.conn # task[u].conn
      BY <1>1, <2>1, <2>2 DEF Keeps, Begins, Conns
    <3> QED BY <1>2, <2>1, <2>2, <3>1, <3>2, <3>3
  <2>3. ASSUME Opening(q)
        PROVE  /\ \A m \in Managers : manager'[m].session # q.conn /\ manager'[m].tools # q.conn
               /\ \A v \in Tasks : task'[v].first # q.conn /\ (v # t => task'[v].conn # q.conn)
    <3>1. q.conn = opened + 1 /\ opened' = opened + 1 /\ q.conn # None
      BY <2>3, ConstantsAssumption DEF Opening, Allowed, Begins, Conns
    <3>2. \A m \in Managers : manager'[m].session # q.conn /\ manager'[m].tools # q.conn
      BY <1>1, <3>1 DEF Tables, IInv, UsedInv, Begun, ConnOrNone, Conns, TaskRecord, ManagerRecord
    <3>3. \A v \in Tasks : task[v].first # q.conn /\ task[v].conn # q.conn
      BY <1>1, <3>1 DEF IInv, UsedInv, Begun, ConnOrNone, Conns, TaskRecord
    <3>4. q.first # q.conn
      BY <3>1, <3>3 DEF Keeps
    <3> QED BY <1>2, <3>2, <3>3, <3>4
  <2> QED BY <1>2, <2>2, <2>3 DEF PrivateInv, Opening
<1>7. LostInv'
  <2>1. ASSUME NEW u \in Tasks, u # t, task[u].first # None
        PROVE  manager'[task[u].manager].session # task[u].first
    BY <1>1, <2>1 DEF Tables, IInv, LostInv, TaskRecord
  <2> QED BY <1>2, <2>1 DEF LostInv, Keeps
<1>8. RetryIsOnAnotherConnection'
  BY <1>2 DEF IInv, RetryIsOnAnotherConnection, Allowed
<1>9. HeldInv'
  <2>1. ASSUME NEW c \in Conns, conn'[c].transport \/ conn'[c].session \in {"open", "broken"}
        PROVE  manager'[conn'[c].manager].state = "closed" \/ conn'[c].held
    <3>1. Stays(c)
      BY <2>1 DEF Connections, Begins
    <3>2. manager[conn[c].manager].state = "closed" \/ conn[c].held
      BY <2>1, <3>1 DEF Stays, IInv, HeldInv
    <3> QED BY <1>1, <3>1, <3>2 DEF Stays, Tables, ConnRecord
  <2> QED BY <2>1 DEF HeldInv
<1>10. ClosedInv'
  <2>1. ASSUME NEW m \in Managers, manager'[m].state = "closed"
        PROVE  manager'[m].config = None /\ (~manager'[m].outrun => ~Underway(m)')
    <3>1. /\ manager[m].state = "closed" /\ manager'[m].config = manager[m].config
          /\ manager'[m].outrun = manager[m].outrun
      BY <2>1 DEF Tables
    <3>2. manager[m].config = None /\ (~manager[m].outrun => ~Underway(m))
      BY <2>1, <3>1 DEF IInv, ClosedInv
    <3> QED BY <1>2, <2>1, <3>1, <3>2 DEF Underway, Allowed
  <2> QED BY <2>1 DEF ClosedInv
<1>11. OpenAfterCleanupHasACause'
  <2>1. ASSUME NEW m \in Managers, manager'[m].state = "closed", ~manager'[m].outrun,
               NEW c \in Conns, conn'[c].manager = m, ~conn'[c].stuck
        PROVE  ~conn'[c].transport /\ conn'[c].session \notin {"open", "broken"}
    <3>1. manager[m].state = "closed" /\ ~manager[m].outrun
      BY <2>1 DEF Tables
    <3>2. CASE Stays(c)
      BY <2>1, <3>1, <3>2 DEF Stays, IInv, OpenAfterCleanupHasACause
    <3>3. CASE Begins(c, q.manager)
      BY <3>3 DEF Begins
    <3> QED BY <3>2, <3>3 DEF Connections
  <2> QED BY <2>1 DEF OpenAfterCleanupHasACause
<1>12. Outer'
  OBVIOUS
<1> QED BY <1>3, <1>4, <1>5, <1>6, <1>7, <1>8, <1>9, <1>10, <1>11, <1>12 DEF IInv, Outer

-----------------------------------------------------------------------------
(* Steps of a task that go on from its manager.                            *)

LEMMA Records ==
    ASSUME IInv
    PROVE  /\ task \in [Tasks -> TaskRecord]
           /\ manager \in [Managers -> ManagerRecord]
           /\ conn \in [Conns -> ConnRecord]
           /\ opened \in 0..MaxConns
  BY DEF IInv, TypeOK, TaskRecord, ManagerRecord, ConnRecord

\* The registry stays when no manager changes its state or configuration.
LEMMA OuterStays ==
    ASSUME IInv, UNCHANGED <<disk, saves, registered, created>>,
           \A m \in Managers :
               manager'[m].state = manager[m].state /\ manager'[m].config = manager[m].config
    PROVE  Outer'
  BY DEF IInv, TypeOK, Outer, MadeInv, RegisteredIsCurrent

\* A task that goes on as q, while nothing else changes.
LEMMA AloneInv ==
    ASSUME IInv, NEW t \in Tasks, NEW q \in TaskRecord, task' = [task EXCEPT ![t] = q],
           OnlyTask, Keeps(t, q), Allowed(q)
    PROVE  IInv'
<1>1. Outer'
  BY OuterStays DEF OnlyTask
<1>2. Tables(t) /\ Connections(q)
  BY Records DEF OnlyTask, Tables, Connections, Stays
<1> QED BY <1>1, <1>2, StepInv

LEMMA IdleIsATask == NoTask \in TaskRecord
<1>1. 1 \in Managers
  BY ConstantsAssumption DEF Managers
<1> QED BY <1>1 DEF NoTask, TaskRecord, Points, ConnOrNone, VersionOrNone

LEMMA FinishedIsATask == Finished \in TaskRecord
<1>1. "done" \in Points
  BY DEF Points
<1> QED BY <1>1, IdleIsATask DEF Finished, TaskRecord

LEMMA FinishedAllowed ==
    ASSUME NEW t \in Tasks
    PROVE  Keeps(t, Finished) /\ Allowed(Finished)
  BY DEF Finished, NoTask, Keeps, Allowed

\* What a task may bring along when it goes on as r.
Brings(t, r) ==
    /\ \/ r.first \in {None, task[t].first}
       \/ r.first = task[t].conn /\ ~Opening(task[t])
    /\ r.first # None => manager'[r.manager].session # r.first

LEMMA ProceedAllowed ==
    ASSUME IInv, NEW t \in Tasks, NEW r \in TaskRecord, NEW connected \in BOOLEAN,
           Tables(t), Brings(t, r)
    PROVE  LET q == Proceed(r, manager'[r.manager], connected)
           IN  q \in TaskRecord /\ Keeps(t, q) /\ Allowed(q)
<1> DEFINE m == manager'[r.manager]
           q == Proceed(r, m, connected)
<1>1. r.manager \in Managers /\ m \in ManagerRecord
  BY DEF Tables, TaskRecord
<1>2. \/ m.session = None
      \/ m.session = manager[r.manager].session
  BY <1>1 DEF Tables
<1>3. \/ m.tools \in {None, manager[r.manager].tools}
      \/ m.tools = task[t].conn /\ ~Opening(task[t])
  BY <1>1 DEF Tables, Opening
<1>4. CASE q = Finished
  BY <1>4, FinishedIsATask, FinishedAllowed
<1>5. CASE /\ r.turn /\ r.first = None /\ m.tools # None
           /\ q = [r EXCEPT !.pc = "tools", !.conn = m.tools]
  <2>1. q \in TaskRecord /\ q.pc = "tools" /\ q.first = None /\ q.conn = m.tools
    BY <1>1, <1>5 DEF TaskRecord, ManagerRecord, Points
  <2> QED BY <1>1, <1>3, <2>1 DEF Keeps, Allowed
<1>6. CASE m.session # None /\ q = [r EXCEPT !.pc = "waiting", !.conn = m.session]
  <2>1. /\ q \in TaskRecord /\ q.pc = "waiting" /\ q.first = r.first
        /\ q.manager = r.manager /\ q.conn = m.session
    BY <1>1, <1>6 DEF TaskRecord, ManagerRecord, Points
  <2> QED BY <1>1, <1>2, <1>6, <2>1 DEF Keeps, Allowed, Brings
<1> QED BY <1>4, <1>5, <1>6 DEF Proceed

LEMMA ResumeInv ==
    ASSUME IInv, NEW t \in Tasks, NEW r \in TaskRecord, NEW connected \in BOOLEAN,
           Outer', Tables(t), Brings(t, r), Resume(t, r, manager'[r.manager], connected)
    PROVE  IInv'
<1> DEFINE q == Proceed(r, manager'[r.manager], connected)
<1>1. q \in TaskRecord /\ Keeps(t, q) /\ Allowed(q)
  BY ProceedAllowed
<1>2. task' = [task EXCEPT ![t] = q] /\ Connections(q)
  BY Records DEF Resume, Connections, Stays
<1> HIDE DEF q
<1> QED BY <1>1, <1>2, StepInv

\* What a connect begins, in a state in which sessions may just have been closed.
LEMMA BeginsOne ==
    ASSUME IInv, NEW t \in Tasks, NEW q \in TaskRecord, NEW version \in Versions,
           NEW now \in [Conns -> ConnRecord],
           \A c \in Conns :
               /\ now[c].transport = conn[c].transport
               /\ now[c].held = conn[c].held
               /\ now[c].stuck = conn[c].stuck
               /\ now[c].manager = conn[c].manager
               /\ now[c].session \in {conn[c].session, "closed"},
           opened < MaxConns, opened' = opened + 1,
           conn' = [now EXCEPT ![opened + 1] =
                       [NoConn EXCEPT !.manager = q.manager, !.version = version]],
           q.pc = "entering", q.conn = opened + 1, Brings(t, q),
           manager'[q.manager].state = "closed" => manager'[q.manager].outrun
    PROVE  Connections(q) /\ Keeps(t, q) /\ Allowed(q)
<1>1. opened + 1 \in Conns /\ opened' \in 0..MaxConns /\ q.manager \in Managers
  BY Records, ConstantsAssumption DEF Conns, TaskRecord
<1>2. [NoConn EXCEPT !.manager = q.manager, !.version = version] \in ConnRecord
  BY <1>1 DEF NoConn, ConnRecord
<1>3. /\ ~conn'[opened + 1].transport /\ conn'[opened + 1].session = "none"
      /\ conn'[opened + 1].manager = q.manager
  BY <1>1, <1>2 DEF NoConn
<1>4. conn' \in [Conns -> ConnRecord] /\ \A c \in Conns \ {opened + 1} : conn'[c] = now[c]
  BY <1>1, <1>2
<1>5. Begins(q.conn, q.manager)
  BY <1>3 DEF Begins
<1>6. Connections(q)
  BY <1>1, <1>4, <1>5 DEF Connections, Stays
<1> QED BY <1>1, <1>5, <1>6 DEF Keeps, Allowed, Brings

LEMMA ConnectInv ==
    ASSUME IInv, NEW t \in Tasks, NEW r \in TaskRecord, NEW version \in Versions,
           Outer', Tables(t), Brings(t, r),
           manager'[r.manager].state = "closed" => manager'[r.manager].outrun,
           Connect(t, r, manager'[r.manager], version)
    PROVE  IInv'
<1>1. CASE Resume(t, r, manager'[r.manager], FALSE)
  BY <1>1, ResumeInv
<1>2. CASE /\ opened < MaxConns /\ opened' = opened + 1
           /\ conn' = [conn EXCEPT ![opened + 1] =
                  [NoConn EXCEPT !.manager = r.manager, !.version = version]]
           /\ task' = [task EXCEPT ![t] = [r EXCEPT !.pc = "entering", !.conn = opened + 1]]
  <2> DEFINE q == [r EXCEPT !.pc = "entering", !.conn = opened + 1]
  <2>1. /\ q \in TaskRecord /\ q.pc = "entering" /\ q.conn = opened + 1
        /\ q.manager = r.manager /\ q.first = r.first
    <3>1. opened + 1 \in ConnOrNone
      BY <1>2, Records, ConstantsAssumption DEF ConnOrNone, Conns
    <3>2. "entering" \in Points
      BY DEF Points
    <3> QED BY <3>1, <3>2 DEF TaskRecord
  <2>2. task' = [task EXCEPT ![t] = q]
    BY <1>2
  <2> HIDE DEF q
  <2>3. Brings(t, q)
    BY <2>1 DEF Brings
  <2>4. Connections(q) /\ Keeps(t, q) /\ Allowed(q)
    BY <1>2, <2>1, <2>3, BeginsOne, Records
  <2> QED BY <2>1, <2>2, <2>4, StepInv
<1> QED BY <1>1, <1>2 DEF Connect

-----------------------------------------------------------------------------
(* The steps that go on from a manager.                                    *)

LEMMA BeginInv ==
    ASSUME IInv, NEW t \in Tasks, NEW turn \in BOOLEAN, Begin(t, turn)
    PROVE  IInv'
<1> DEFINE fresh == registered = None
           id == IF fresh THEN created + 1 ELSE registered
           m == IF fresh THEN [NewManager EXCEPT !.config = disk] ELSE manager[id]
           r == [NoTask EXCEPT !.turn = turn, !.manager = id]
<1>1. /\ created \in 0..(MaxSaves + 1) /\ saves \in 0..MaxSaves
      /\ registered \in Managers \cup {None} /\ disk \in VersionOrNone
  BY DEF IInv, TypeOK
<1>2. id \in Managers /\ (fresh => created < MaxSaves + 1)
  BY <1>1, ConstantsAssumption DEF IInv, MadeInv, Managers
<1>3. m \in ManagerRecord /\ m.state = "live" /\ m.config = disk
  <2>1. CASE fresh
    BY <1>1, <2>1 DEF NewManager, ManagerRecord, ConnOrNone
  <2>2. CASE ~fresh
    BY <1>2, <2>2, Records DEF IInv, RegisteredIsCurrent
  <2> QED BY <2>1, <2>2
<1>4. /\ registered' = id /\ manager' = [manager EXCEPT ![id] = m]
      /\ created' = (IF fresh THEN created + 1 ELSE created)
      /\ UNCHANGED <<disk, saves>>
      /\ IF m.config # None /\ m.session = None
         THEN Connect(t, r, m, m.config) ELSE Resume(t, r, m, TRUE)
  BY DEF Begin
<1>5. r \in TaskRecord /\ r.manager = id /\ r.first = None
  BY <1>2, IdleIsATask DEF TaskRecord, NoTask
<1>6. fresh => manager[id].state = "live" /\ m.session = None /\ m.tools = None
  BY <1>1, <1>2 DEF IInv, MadeInv, NewManager
<1> HIDE DEF m, r
<1>7. manager'[id] = m /\ \A n \in Managers \ {id} : manager'[n] = manager[n]
  BY <1>2, <1>4, Records
<1>8. ~fresh => m = manager[id]
  BY DEF m
<1>9. Tables(t)
  <2>1. manager' \in [Managers -> ManagerRecord]
    BY <1>2, <1>3, <1>4, Records
  <2>2. manager[id].state # "closed"
    BY <1>3, <1>6, <1>8
  <2> QED BY <1>3, <1>6, <1>7, <1>8, <2>1, <2>2 DEF Tables
<1>10. Outer'
  <2>1. MadeInv'
    <3>1. id # None
      BY <1>2, ConstantsAssumption DEF Managers
    <3>2. CASE fresh
      <4>1. registered' = created + 1 /\ created' = created + 1 /\ created <= saves
        BY <1>4, <3>2 DEF IInv, MadeInv
      <4>2. \A n \in Managers : n > created + 1 => manager'[n].state = "live"
        BY <1>1, <1>7, <3>2 DEF IInv, MadeInv, Managers
      <4> QED BY <1>1, <1>4, <3>1, <3>2, <4>1, <4>2 DEF MadeInv
    <3>3. CASE ~fresh
      <4>1. manager' = manager
        BY <1>4, <1>8, <3>3, Records
      <4> QED BY <1>4, <3>1, <3>3, <4>1 DEF IInv, MadeInv
    <3> QED BY <3>2, <3>3
  <2> QED BY <1>1, <1>2, <1>3, <1>4, <1>7, <2>1, ConstantsAssumption
          DEF Outer, RegisteredIsCurrent
<1>11. Brings(t, r)
  BY <1>5 DEF Brings
<1>12. CASE Connect(t, r, m, m.config) /\ m.config # None
  <2>1. m.config \in Versions
    BY <1>3, <1>12 DEF ManagerRecord, VersionOrNone
  <2> QED BY <1>3, <1>5, <1>7, <1>9, <1>10, <1>11, <1>12, <2>1, ConnectInv
<1>13. CASE Resume(t, r, m, TRUE)
  BY <1>5, <1>7, <1>9, <1>10, <1>11, <1>13, ResumeInv
<1> QED BY <1>4, <1>12, <1>13

LEMMA ConnectFailsInv ==
    ASSUME IInv, NEW t \in Tasks, NEW mismatch \in BOOLEAN, ConnectFails(t, mismatch)
    PROVE  IInv'
<1> DEFINE id == task[t].manager
<1>1. /\ manager' = [manager EXCEPT ![id].cooling = @ \/ mismatch]
      /\ Resume(t, task[t], manager'[id], FALSE)
      /\ UNCHANGED <<disk, saves, registered, created>>
  BY DEF ConnectFails
<1>2. task[t] \in TaskRecord /\ id \in Managers
  BY Records DEF TaskRecord
<1>3. /\ manager' \in [Managers -> ManagerRecord]
      /\ \A n \in Managers :
             /\ manager'[n].state = manager[n].state /\ manager'[n].config = manager[n].config
             /\ manager'[n].session = manager[n].session /\ manager'[n].tools = manager[n].tools
             /\ manager'[n].outrun = manager[n].outrun
  BY <1>1, <1>2, Records DEF ManagerRecord
<1>4. Outer' /\ Tables(t)
  BY <1>1, <1>3, OuterStays DEF Tables
<1>5. Brings(t, task[t])
  BY <1>2, <1>3 DEF Brings, IInv, LostInv
<1> QED BY <1>1, <1>2, <1>4, <1>5, ResumeInv

LEMMA ListedInv ==
    ASSUME IInv, NEW t \in Tasks, NEW listed \in BOOLEAN, Listed(t, listed)
    PROVE  IInv'
<1> DEFINE id == task[t].manager
<1>1. /\ manager' = [manager EXCEPT ![id].cooling = FALSE,
                         ![id].tools = IF listed THEN task[t].conn ELSE @]
      /\ Resume(t, task[t], manager'[id], TRUE)
      /\ UNCHANGED <<disk, saves, registered, created>>
      /\ task[t].pc = "listing"
  BY DEF Listed
<1>2. task[t] \in TaskRecord /\ id \in Managers /\ task[t].conn \in ConnOrNone
  BY Records DEF TaskRecord
<1>3. /\ manager' \in [Managers -> ManagerRecord]
      /\ \A n \in Managers :
             /\ manager'[n].state = manager[n].state /\ manager'[n].config = manager[n].config
             /\ manager'[n].session = manager[n].session
             /\ manager'[n].tools \in {manager[n].tools, task[t].conn}
             /\ manager'[n].outrun = manager[n].outrun
  <2> DEFINE now == [manager[id] EXCEPT !.cooling = FALSE,
                         !.tools = IF listed THEN task[t].conn ELSE manager[id].tools]
  <2>1. manager[id] \in ManagerRecord
    BY <1>2, Records
  <2>2. /\ now \in ManagerRecord /\ now.state = manager[id].state
        /\ now.config = manager[id].config /\ now.session = manager[id].session
        /\ now.tools \in {manager[id].tools, task[t].conn} /\ now.outrun = manager[id].outrun
    BY <1>2, <2>1 DEF ManagerRecord
  <2>3. manager' = [manager EXCEPT ![id] = now]
    BY <1>1, <1>2, Records
  <2> HIDE DEF now
  <2> QED BY <1>2, <2>2, <2>3, Records
<1>4. Outer' /\ Tables(t)
  BY <1>1, <1>3, OuterStays DEF Tables
<1>5. Brings(t, task[t])
  BY <1>2, <1>3 DEF Brings, IInv, LostInv
<1> QED BY <1>1, <1>2, <1>4, <1>5, ResumeInv

\* What a reconnection takes out of the tables of manager id.
LEMMA Loses ==
    ASSUME IInv, NEW t \in Tasks, NEW id \in Managers, NEW m \in ManagerRecord,
           m.state = manager[id].state, m.config = manager[id].config,
           m.outrun = manager[id].outrun, m.session \in {manager[id].session, None},
           m.tools \in {manager[id].tools, None},
           manager' = [manager EXCEPT ![id] = m],
           UNCHANGED <<disk, saves, registered, created>>
    PROVE  Tables(t) /\ Outer' /\ manager'[id] = m
<1>1. manager'[id] = m /\ \A n \in Managers \ {id} : manager'[n] = manager[n]
  BY Records
<1>2. manager' \in [Managers -> ManagerRecord]
  BY Records
<1> QED BY <1>1, <1>2, OuterStays DEF Tables

LEMMA CallBreaksInv ==
    ASSUME IInv, NEW t \in Tasks, CallBreaks(t)
    PROVE  IInv'
<1> DEFINE id == task[t].manager
           m == manager[id]
           r == [task[t] EXCEPT !.first = task[t].conn, !.version = m.config]
           bare == [m EXCEPT !.tools = None]
<1>1. /\ task[t] \in TaskRecord /\ id \in Managers /\ m \in ManagerRecord
      /\ task[t].conn \in ConnOrNone /\ m.config \in VersionOrNone /\ m.session \in ConnOrNone
      /\ task[t].pc = "calling"
  BY Records DEF CallBreaks, TaskRecord, ManagerRecord
<1>2. UNCHANGED <<disk, saves, registered, created>>
  BY DEF CallBreaks
<1>3. /\ r \in TaskRecord /\ r.manager = id /\ r.first = task[t].conn /\ r.version = m.config
      /\ r.turn = task[t].turn
  BY <1>1 DEF TaskRecord
<1>4. ~Opening(task[t])
  BY <1>1 DEF Opening
<1>5. m.config # None => m.state # "closed"
  BY <1>1 DEF IInv, ClosedInv
<1>6. CASE /\ m.config # None /\ m.session = None
           /\ manager' = [manager EXCEPT ![id] = bare]
           /\ Connect(t, r, bare, m.config)
  <2>1. /\ bare \in ManagerRecord /\ bare.state = m.state /\ bare.config = m.config
        /\ bare.outrun = m.outrun /\ bare.session = None /\ bare.tools = None
    BY <1>1, <1>6 DEF ManagerRecord, ConnOrNone
  <2> HIDE DEF bare, r
  <2>2. Tables(t) /\ Outer' /\ manager'[id] = bare
    BY <1>1, <1>2, <1>6, <2>1, Loses
  <2>3. Brings(t, r)
    BY <1>3, <1>4, <2>1, <2>2 DEF Brings
  <2>4. m.config \in Versions
    BY <1>1, <1>6 DEF VersionOrNone
  <2> QED BY <1>3, <1>5, <1>6, <2>1, <2>2, <2>3, <2>4, ConnectInv
<1>7. CASE /\ m.config # None /\ m.session # None
           /\ manager' = [manager EXCEPT ![id].session = None]
           /\ task' = [task EXCEPT ![t] = [r EXCEPT !.pc = "dropping", !.conn = m.session]]
           /\ UNCHANGED <<conn, opened>>
  <2> DEFINE q == [r EXCEPT !.pc = "dropping", !.conn = m.session]
             left == [m EXCEPT !.session = None]
  <2>1. /\ q \in TaskRecord /\ q.pc = "dropping" /\ q.conn = m.session /\ q.manager = id
        /\ q.first = task[t].conn /\ q.version = m.config
    BY <1>1, <1>3 DEF TaskRecord, Points
  <2>2. /\ left \in ManagerRecord /\ left.state = m.state /\ left.config = m.config
        /\ left.outrun = m.outrun /\ left.session = None /\ left.tools = m.tools
    BY <1>1 DEF ManagerRecord, ConnOrNone
  <2>3. task' = [task EXCEPT ![t] = q] /\ manager' = [manager EXCEPT ![id] = left]
    BY <1>7
  <2> HIDE DEF q, left, r
  <2>4. Tables(t) /\ Outer' /\ manager'[id] = left
    BY <1>1, <1>2, <2>2, <2>3, Loses
  <2>5. Keeps(t, q)
    BY <1>1, <1>4, <2>1, <2>2, <2>4 DEF Keeps
  <2>6. Allowed(q)
    BY <1>5, <1>7, <2>1, <2>2, <2>4 DEF Allowed
  <2>7. Connections(q)
    BY <1>7, Records DEF Connections, Stays
  <2> QED BY <2>1, <2>3, <2>4, <2>5, <2>6, <2>7, StepInv
<1>8. CASE task' = [task EXCEPT ![t] = Finished] /\ UNCHANGED <<manager, conn, opened>>
  BY <1>2, <1>8, FinishedIsATask, FinishedAllowed, AloneInv DEF OnlyTask
<1> QED BY <1>6, <1>7, <1>8 DEF CallBreaks

LEMMA DroppedInv ==
    ASSUME IInv, NEW t \in Tasks, Dropped(t)
    PROVE  IInv'
<1> DEFINE id == task[t].manager
           bare == [manager[id] EXCEPT !.tools = None]
           closed == [conn EXCEPT ![task[t].conn].session = "closed"]
<1>1. /\ task[t] \in TaskRecord /\ id \in Managers /\ manager[id] \in ManagerRecord
      /\ task[t].version \in Versions /\ task[t].pc = "dropping"
  BY Records DEF Dropped, TaskRecord, ManagerRecord, VersionOrNone, IInv, TaskInv
<1>2. /\ bare \in ManagerRecord /\ bare.state = manager[id].state
      /\ bare.config = manager[id].config /\ bare.outrun = manager[id].outrun
      /\ bare.session = manager[id].session /\ bare.tools = None
  BY <1>1 DEF ManagerRecord, ConnOrNone
<1>3. /\ closed \in [Conns -> ConnRecord]
      /\ \A c \in Conns :
             /\ closed[c].transport = conn[c].transport /\ closed[c].held = conn[c].held
             /\ closed[c].stuck = conn[c].stuck /\ closed[c].manager = conn[c].manager
             /\ closed[c].session \in {conn[c].session, "closed"}
  BY Records DEF ConnRecord
<1>4. /\ manager' = [manager EXCEPT ![id] = bare]
      /\ UNCHANGED <<disk, saves, registered, created>>
      /\ \/ /\ opened < MaxConns /\ opened' = opened + 1
            /\ conn' = [closed EXCEPT ![opened + 1] =
                   [NoConn EXCEPT !.manager = id, !.version = task[t].version]]
            /\ task' = [task EXCEPT ![t].pc = "entering", ![t].conn = opened + 1]
         \/ /\ conn' = closed
            /\ task' = [task EXCEPT ![t] = Proceed(@, bare, FALSE)]
            /\ UNCHANGED opened
  BY DEF Dropped
<1> HIDE DEF bare, closed
<1>5. Tables(t) /\ Outer' /\ manager'[id] = bare
  BY <1>1, <1>2, <1>4, Loses
<1>6. Brings(t, task[t])
  BY <1>1, <1>2, <1>5 DEF Brings, IInv, LostInv
<1>7. bare.state = "closed" => bare.outrun
  BY <1>1, <1>2 DEF IInv, ClosedInv, Underway
<1>8. CASE /\ opened < MaxConns /\ opened' = opened + 1
           /\ conn' = [closed EXCEPT ![opened + 1] =
                  [NoConn EXCEPT !.manager = id, !.version = task[t].version]]
           /\ task' = [task EXCEPT ![t].pc = "entering", ![t].conn = opened + 1]
  <2> DEFINE q == [task[t] EXCEPT !.pc = "entering", !.conn = opened + 1]
  <2>1. opened + 1 \in ConnOrNone
    BY <1>8, Records, ConstantsAssumption DEF ConnOrNone, Conns
  <2>2. /\ q \in TaskRecord /\ q.pc = "entering" /\ q.conn = opened + 1
        /\ q.manager = id /\ q.first = task[t].first
    BY <1>1, <2>1 DEF TaskRecord, Points
  <2>3. task' = [task EXCEPT ![t] = q]
    BY <1>8, Records
  <2> HIDE DEF q
  <2>4. Brings(t, q)
    BY <1>6, <2>2 DEF Brings
  <2>5. Connections(q) /\ Keeps(t, q) /\ Allowed(q)
    BY <1>1, <1>3, <1>5, <1>7, <1>8, <2>2, <2>4, BeginsOne
  <2> QED BY <1>5, <2>2, <2>3, <2>5, StepInv
<1>9. CASE /\ conn' = closed
           /\ task' = [task EXCEPT ![t] = Proceed(@, bare, FALSE)]
           /\ UNCHANGED opened
  <2> DEFINE q == Proceed(task[t], bare, FALSE)
  <2>1. q \in TaskRecord /\ Keeps(t, q) /\ Allowed(q)
    BY <1>1, <1>5, <1>6, ProceedAllowed
  <2>2. task' = [task EXCEPT ![t] = q]
    BY <1>9
  <2> HIDE DEF q
  <2>3. Connections(q)
    BY <1>3, <1>9, Records DEF Connections, Stays
  <2> QED BY <1>5, <2>1, <2>2, <2>3, StepInv
<1> QED BY <1>4, <1>8, <1>9

-----------------------------------------------------------------------------
(* Calls.                                                                  *)

LEMMA EndsInv ==
    ASSUME IInv, NEW t \in Tasks, Decline(t) \/ Answered(t) \/ CallFails(t) \/ Cancel(t)
    PROVE  IInv'
<1>1. task' = [task EXCEPT ![t] = Finished] /\ OnlyTask
  BY DEF Decline, Answered, CallFails, Cancel
<1> QED BY <1>1, FinishedIsATask, FinishedAllowed, AloneInv

LEMMA CallInv ==
    ASSUME IInv, NEW t \in Tasks, Call(t)
    PROVE  IInv'
<1> DEFINE session == manager[task[t].manager].session
           q == [task[t] EXCEPT !.pc = "waiting", !.conn = IF session = None THEN @ ELSE session]
<1>1. /\ task[t] \in TaskRecord /\ task[t].manager \in Managers /\ session \in ConnOrNone
      /\ task[t].conn \in ConnOrNone /\ task[t].pc = "tools" /\ task[t].first = None
  BY Records DEF Call, TaskRecord, ManagerRecord, IInv, TaskInv
<1>2. /\ q \in TaskRecord /\ q.pc = "waiting" /\ q.first = None
      /\ q.conn \in {task[t].conn, session}
  BY <1>1 DEF TaskRecord, Points
<1>3. task' = [task EXCEPT ![t] = q] /\ OnlyTask
  BY <1>1, Records DEF Call
<1> HIDE DEF q
<1>4. Keeps(t, q) /\ Allowed(q)
  BY <1>1, <1>2 DEF Keeps, Allowed, Opening
<1> QED BY <1>2, <1>3, <1>4, AloneInv

LEMMA StartInv ==
    ASSUME IInv, NEW t \in Tasks, Start(t)
    PROVE  IInv'
<1> DEFINE q == [task[t] EXCEPT !.pc = "calling"]
<1>1. task[t] \in TaskRecord /\ task[t].manager \in Managers /\ task[t].pc = "waiting"
  BY Records DEF Start, TaskRecord
<1>2. /\ q \in TaskRecord /\ q.pc = "calling" /\ q.first = task[t].first
      /\ q.conn = task[t].conn /\ q.manager = task[t].manager
  BY <1>1 DEF TaskRecord, Points
<1>3. task' = [task EXCEPT ![t] = q] /\ OnlyTask
  BY <1>1, Records DEF Start
<1> HIDE DEF q
<1>4. Keeps(t, q)
  BY <1>1, <1>2, <1>3 DEF Keeps, Opening, OnlyTask, IInv, LostInv
<1>5. Allowed(q)
  BY <1>1, <1>2 DEF Allowed, IInv, RetryIsOnAnotherConnection
<1> QED BY <1>2, <1>3, <1>4, <1>5, AloneInv

-----------------------------------------------------------------------------
(* The steps of managers.                                                  *)

\* Tasks and connections stay, and of the tables only what they do not look at changes.
LEMMA ManagersInv ==
    ASSUME IInv, UNCHANGED <<conn, task, opened>>, Outer',
           manager' \in [Managers -> ManagerRecord],
           \A m \in Managers :
               /\ (manager'[m].state = "closed") = (manager[m].state = "closed")
               /\ manager'[m].session = manager[m].session
               /\ manager'[m].tools = manager[m].tools
               /\ manager'[m].config = manager[m].config
               /\ manager'[m].outrun = manager[m].outrun
    PROVE  IInv'
<1>1. TypeOK'
  BY DEF IInv, TypeOK, Outer, ManagerRecord
<1>2. TaskInv' /\ RetryIsOnAnotherConnection'
  BY DEF IInv, TaskInv, RetryIsOnAnotherConnection
<1>3. UsedInv' /\ PrivateInv'
  BY DEF IInv, UsedInv, Begun, PrivateInv
<1>4. LostInv'
  BY Records DEF IInv, LostInv, TaskRecord
<1>5. HeldInv'
  BY Records DEF IInv, HeldInv, ConnRecord
<1>6. ClosedInv' /\ OpenAfterCleanupHasACause'
  BY DEF IInv, ClosedInv, Underway, OpenAfterCleanupHasACause
<1> QED BY <1>1, <1>2, <1>3, <1>4, <1>5, <1>6 DEF IInv, Outer

LEMMA CooldownEndsInv ==
    ASSUME IInv, NEW m \in Managers, CooldownEnds(m)
    PROVE  IInv'
<1> DEFINE now == [manager[m] EXCEPT !.cooling = FALSE]
<1>1. /\ now \in ManagerRecord /\ now.state = manager[m].state /\ now.config = manager[m].config
      /\ now.session = manager[m].session /\ now.tools = manager[m].tools
      /\ now.outrun = manager[m].outrun
  BY Records DEF ManagerRecord
<1>2. /\ manager' = [manager EXCEPT ![m] = now] /\ UNCHANGED <<conn, task, opened>>
      /\ UNCHANGED <<disk, saves, registered, created>>
  BY Records DEF CooldownEnds
<1> HIDE DEF now
<1>3. manager'[m] = now /\ \A n \in Managers \ {m} : manager'[n] = manager[n]
  BY <1>2, Records
<1>4. manager' \in [Managers -> ManagerRecord]
  BY <1>1, <1>2, Records
<1>5. Outer'
  BY <1>1, <1>2, <1>3, OuterStays
<1> QED BY <1>1, <1>2, <1>3, <1>4, <1>5, ManagersInv

LEMMA SaveInv ==
    ASSUME IInv, NEW version \in VersionOrNone, Save(version)
    PROVE  IInv'
<1>1. /\ saves < MaxSaves /\ saves' = saves + 1 /\ disk' = version /\ registered' = None
      /\ UNCHANGED <<created, conn, task, opened>>
      /\ manager' = IF registered = None THEN manager
                    ELSE [manager EXCEPT ![registered].state = "closing"]
  BY DEF Save, Dispose
<1>2. /\ saves \in 0..MaxSaves /\ created \in 0..(MaxSaves + 1)
      /\ registered \in Managers \cup {None}
  BY DEF IInv, TypeOK
<1>3. /\ manager' \in [Managers -> ManagerRecord]
      /\ \A m \in Managers :
             /\ (manager'[m].state = "closed") = (manager[m].state = "closed")
             /\ m # registered => manager'[m].state = manager[m].state
             /\ manager'[m].session = manager[m].session
             /\ manager'[m].tools = manager[m].tools
             /\ manager'[m].config = manager[m].config
             /\ manager'[m].outrun = manager[m].outrun
  <2>1. CASE registered = None
    BY <1>1, <2>1, Records
  <2>2. CASE registered # None
    <3> DEFINE now == [manager[registered] EXCEPT !.state = "closing"]
    <3>1. registered \in Managers /\ manager[registered].state = "live"
      BY <1>2, <2>2 DEF IInv, RegisteredIsCurrent
    <3>2. /\ now \in ManagerRecord /\ now.state = "closing"
          /\ now.session = manager[registered].session /\ now.tools = manager[registered].tools
          /\ now.config = manager[registered].config /\ now.outrun = manager[registered].outrun
      BY <3>1, Records DEF ManagerRecord
    <3>3. manager' = [manager EXCEPT ![registered] = now]
      BY <1>1, <2>2, <3>1, Records
    <3> HIDE DEF now
    <3> QED BY <3>1, <3>2, <3>3, Records
  <2> QED BY <2>1, <2>2
<1>4. Outer'
  <2>1. saves' \in 0..MaxSaves /\ created <= saves + 1
    BY <1>1, <1>2, ConstantsAssumption DEF IInv, MadeInv
  <2>2. \A m \in Managers : m > created => manager'[m].state = "live"
    <3>1. \A m \in Managers : m > created => m # registered /\ manager[m].state = "live"
      BY <1>2, ConstantsAssumption DEF IInv, MadeInv, Managers
    <3> QED BY <1>3, <3>1
  <2> QED BY <1>1, <1>2, <2>1, <2>2 DEF Outer, MadeInv, RegisteredIsCurrent
<1> QED BY <1>1, <1>3, <1>4, ManagersInv

LEMMA CleanupEndsInv ==
    ASSUME IInv, NEW m \in Managers, CleanupEnds(m)
    PROVE  IInv'
<1> DEFINE now == [NewManager EXCEPT !.state = "closed", !.outrun = Underway(m)]
           shut(c) == [conn[c] EXCEPT !.transport = FALSE, !.held = FALSE, !.session = "closed"]
           left(c) == [conn[c] EXCEPT !.held = FALSE, !.stuck = TRUE]
<1>0. PICK raised \in SUBSET OnStack(m) :
          conn' = [c \in Conns |-> IF c \in raised THEN left(c)
                                   ELSE IF c \in OnStack(m) THEN shut(c) ELSE conn[c]]
  BY DEF CleanupEnds
<1>1. /\ manager[m].state = "closing"
      /\ manager' = [manager EXCEPT ![m] = now]
      /\ UNCHANGED <<disk, saves, registered, created, task, opened>>
  BY DEF CleanupEnds
<1>2. /\ now \in ManagerRecord /\ now.state = "closed" /\ now.config = None
      /\ now.session = None /\ now.tools = None /\ now.outrun = Underway(m)
  <2>1. Underway(m) \in BOOLEAN
    BY DEF Underway
  <2> QED BY <2>1 DEF NewManager, ManagerRecord, ConnOrNone, VersionOrNone
<1> HIDE DEF now
<1>3. /\ manager' \in [Managers -> ManagerRecord] /\ manager'[m] = now
      /\ \A n \in Managers \ {m} : manager'[n] = manager[n]
  BY <1>1, <1>2, Records
<1>4. \A c \in Conns :
          /\ shut(c) \in ConnRecord /\ ~shut(c).transport /\ ~shut(c).held
          /\ shut(c).session = "closed" /\ shut(c).manager = conn[c].manager
          /\ left(c) \in ConnRecord /\ left(c).stuck /\ left(c).manager = conn[c].manager
  BY Records DEF ConnRecord
<1>5. \A c \in Conns :
          /\ conn'[c] \in {shut(c), left(c), conn[c]}
          /\ conn[c].manager # m => conn'[c] = conn[c]
          /\ conn[c].manager = m /\ conn[c].held => conn'[c] \in {shut(c), left(c)}
  BY <1>0 DEF OnStack
<1> HIDE DEF shut, left
<1>6. conn' \in [Conns -> ConnRecord] /\ \A c \in Conns : conn'[c].manager = conn[c].manager
  <2>1. \A c \in Conns : conn'[c] \in ConnRecord /\ conn'[c].manager = conn[c].manager
    BY <1>4, <1>5, Records
  <2> QED BY <1>0, <2>1
<1>7. TypeOK'
  BY <1>1, <1>3, <1>6 DEF IInv, TypeOK, ManagerRecord, ConnRecord
<1>8. MadeInv' /\ RegisteredIsCurrent'
  <2>1. m <= created
    BY <1>1 DEF IInv, MadeInv, TypeOK, Managers
  <2>2. registered # m
    BY <1>1, ConstantsAssumption DEF IInv, RegisteredIsCurrent, Managers
  <2>3. created \in Nat
    BY DEF IInv, TypeOK
  <2> QED BY <1>1, <1>3, <2>1, <2>2, <2>3 DEF IInv, MadeInv, RegisteredIsCurrent, TypeOK, Managers
<1>9. TaskInv'
  <2>1. \A t \in Tasks : task[t].conn # None => task[t].conn \in Conns
    BY Records DEF TaskRecord, ConnOrNone
  <2> QED BY <1>1, <1>6, <2>1 DEF IInv, TaskInv
<1>10. UsedInv' /\ RetryIsOnAnotherConnection'
  BY <1>1, <1>2, <1>3 DEF IInv, UsedInv, Begun, RetryIsOnAnotherConnection
<1>11. PrivateInv'
  <2>1. \A t \in Tasks : Opening(task[t]) => task[t].conn # None
    BY DEF IInv, TaskInv
  <2> QED BY <1>1, <1>2, <1>3, <2>1 DEF IInv, PrivateInv
<1>12. LostInv'
  BY <1>1, <1>2, <1>3, Records DEF IInv, LostInv, TaskRecord
<1>13. HeldInv'
  <2>1. ASSUME NEW c \in Conns, conn'[c].transport \/ conn'[c].session \in {"open", "broken"}
        PROVE  manager'[conn'[c].manager].state = "closed" \/ conn'[c].held
    <3>1. CASE conn[c].manager = m
      BY <1>2, <1>3, <1>6, <3>1
    <3>2. CASE conn[c].manager # m
      <4>1. conn'[c] = conn[c] /\ conn[c].manager \in Managers
        BY <1>5, <3>2, Records DEF ConnRecord
      <4> QED BY <1>3, <2>1, <3>2, <4>1 DEF IInv, HeldInv
    <3> QED BY <3>1, <3>2
  <2> QED BY <2>1 DEF HeldInv
<1>14. ClosedInv'
  <2>1. \A n \in Managers : Underway(n)' = Underway(n)
    BY <1>1 DEF Underway
  <2> QED BY <1>2, <1>3, <2>1 DEF IInv, ClosedInv
<1>15. OpenAfterCleanupHasACause'
  <2>1. ASSUME NEW n \in Managers, manager'[n].state = "closed", ~manager'[n].outrun,
               NEW c \in Conns, conn'[c].manager = n, ~conn'[c].stuck
        PROVE  ~conn'[c].transport /\ conn'[c].session \notin {"open", "broken"}
    <3>1. CASE n # m
      <4>1. conn'[c] = conn[c] /\ manager'[n] = manager[n]
        BY <1>3, <1>5, <1>6, <2>1, <3>1
      <4> QED BY <2>1, <4>1 DEF IInv, OpenAfterCleanupHasACause
    <3>2. CASE n = m /\ conn[c].held
      BY <1>4, <1>5, <1>6, <2>1, <3>2
    <3>3. CASE n = m /\ ~conn[c].held
      <4>1. conn[c].manager = m /\ ~(conn[c].transport \/ conn[c].session \in {"open", "broken"})
        BY <1>1, <1>6, <2>1, <3>3 DEF IInv, HeldInv
      <4>2. conn'[c] \in {shut(c), conn[c]}
        BY <1>4, <1>5, <2>1
      <4> QED BY <1>4, <4>1, <4>2
    <3> QED BY <3>1, <3>2, <3>3
  <2> QED BY <2>1 DEF OpenAfterCleanupHasACause
<1> QED BY <1>7, <1>8, <1>9, <1>10, <1>11, <1>12, <1>13, <1>14, <1>15 DEF IInv

-----------------------------------------------------------------------------
(* The steps of a connection.                                              *)

\* Connections keep their managers, and what opens was held or is cleaned up: then a
\* connect was under way or an exit of its own raised.
LEMMA ConnsInv ==
    ASSUME IInv, UNCHANGED <<manager>>, conn' \in [Conns -> ConnRecord],
           \A c \in Conns :
               /\ conn'[c].manager = conn[c].manager
               /\ conn'[c].transport \/ conn'[c].session \in {"open", "broken"} =>
                      /\ manager[conn[c].manager].state = "closed" \/ conn'[c].held
                      /\ manager[conn[c].manager].state = "closed" =>
                             manager[conn[c].manager].outrun \/ conn'[c].stuck
    PROVE  HeldInv' /\ OpenAfterCleanupHasACause'
<1>1. HeldInv'
  BY Records DEF HeldInv, ConnRecord
<1>2. OpenAfterCleanupHasACause'
  BY DEF OpenAfterCleanupHasACause
<1> QED BY <1>1, <1>2

LEMMA BreakInv ==
    ASSUME IInv, NEW c \in Conns, Break(c)
    PROVE  IInv'
<1> DEFINE now == [conn[c] EXCEPT !.session = "broken"]
<1>1. /\ conn[c].session = "open" /\ conn' = [conn EXCEPT ![c] = now]
      /\ UNCHANGED <<disk, saves, registered, created, manager, task, opened>>
  BY Records DEF Break
<1>2. /\ now \in ConnRecord /\ now.session = "broken" /\ now.manager = conn[c].manager
      /\ now.transport = conn[c].transport /\ now.held = conn[c].held
      /\ now.stuck = conn[c].stuck
  BY Records DEF ConnRecord
<1> HIDE DEF now
<1>3. /\ conn' \in [Conns -> ConnRecord] /\ conn'[c] = now
      /\ \A d \in Conns \ {c} : conn'[d] = conn[d]
  BY <1>1, <1>2, Records
<1>4. HeldInv' /\ OpenAfterCleanupHasACause'
  <2>1. ASSUME NEW d \in Conns, conn'[d].transport \/ conn'[d].session \in {"open", "broken"}
        PROVE  /\ manager[conn[d].manager].state = "closed" \/ conn'[d].held
               /\ manager[conn[d].manager].state = "closed" =>
                      manager[conn[d].manager].outrun \/ conn'[d].stuck
    <3>1. /\ conn[d].transport \/ conn[d].session \in {"open", "broken"}
          /\ conn'[d].held = conn[d].held /\ conn'[d].stuck = conn[d].stuck
          /\ conn[d].manager \in Managers
      BY <1>1, <1>2, <1>3, <2>1, Records DEF ConnRecord
    <3> QED BY <3>1 DEF IInv, HeldInv, OpenAfterCleanupHasACause
  <2> QED BY <1>1, <1>2, <1>3, <2>1, ConnsInv
<1>5. TypeOK'
  BY <1>1, <1>3 DEF IInv, TypeOK, ConnRecord
<1>6. TaskInv'
  <2>1. \A t \in Tasks : task[t].conn # None => task[t].conn \in Conns
    BY Records DEF TaskRecord, ConnOrNone
  <2> QED BY <1>1, <1>2, <1>3, <2>1 DEF IInv, TaskInv
<1>7. UsedInv' /\ PrivateInv' /\ LostInv' /\ RetryIsOnAnotherConnection' /\ ClosedInv'
  BY <1>1 DEF IInv, UsedInv, Begun, PrivateInv, LostInv, RetryIsOnAnotherConnection,
     ClosedInv, Underway
<1>8. MadeInv' /\ RegisteredIsCurrent'
  BY <1>1 DEF IInv, MadeInv, RegisteredIsCurrent
<1> QED BY <1>4, <1>5, <1>6, <1>7, <1>8 DEF IInv

LEMMA EnteredInv ==
    ASSUME IInv, NEW t \in Tasks, Entered(t)
    PROVE  IInv'
<1> DEFINE c == task[t].conn
           id == task[t].manager
           now == [conn[c] EXCEPT !.transport = TRUE, !.held = manager[id].state # "closed"]
           q == [task[t] EXCEPT !.pc = "initializing"]
<1>1. /\ task[t].pc = "entering" /\ task[t] \in TaskRecord /\ id \in Managers
      /\ c \in Conns /\ c # None /\ conn[c] \in ConnRecord /\ conn[c].manager = id
  <2>1. task[t].pc = "entering" /\ task[t] \in TaskRecord
    BY Records DEF Entered
  <2>2. c # None /\ conn[c].manager = id
    BY <2>1 DEF IInv, TaskInv, Opening
  <2> QED BY <2>1, <2>2, Records DEF TaskRecord, ConnOrNone
<1>2. /\ conn' = [conn EXCEPT ![c] = now] /\ task' = [task EXCEPT ![t] = q]
      /\ UNCHANGED <<disk, saves, registered, created, manager, opened>>
  BY <1>1, Records DEF Entered
<1>3. /\ now \in ConnRecord /\ now.manager = id /\ now.session = conn[c].session
      /\ now.held = (manager[id].state # "closed")
  BY <1>1 DEF ConnRecord
<1>4. /\ q \in TaskRecord /\ q.pc = "initializing" /\ q.conn = c /\ q.manager = id
      /\ q.first = task[t].first /\ q.version = task[t].version
  BY <1>1 DEF TaskRecord, Points
<1> HIDE DEF now, q
<1>5. /\ conn' \in [Conns -> ConnRecord] /\ conn'[c] = now
      /\ \A d \in Conns \ {c} : conn'[d] = conn[d]
  BY <1>1, <1>2, <1>3, Records
<1>6. task'[t] = q /\ \A u \in Tasks \ {t} : task'[u] = task[u]
  BY <1>2, Records
<1>7. TypeOK'
  <2>1. task' \in [Tasks -> TaskRecord]
    BY <1>2, <1>4, Records
  <2> QED BY <1>2, <1>5, <2>1 DEF IInv, TypeOK, ConnRecord, TaskRecord
<1>8. HeldInv' /\ OpenAfterCleanupHasACause'
  <2>1. manager[id].state = "closed" => manager[id].outrun
    BY <1>1 DEF IInv, ClosedInv, Underway
  <2>2. ASSUME NEW d \in Conns, conn'[d].transport \/ conn'[d].session \in {"open", "broken"}
        PROVE  /\ conn'[d].manager = conn[d].manager
               /\ manager[conn[d].manager].state = "closed" \/ conn'[d].held
               /\ manager[conn[d].manager].state = "closed" =>
                      manager[conn[d].manager].outrun \/ conn'[d].stuck
    <3>1. CASE d = c
      BY <1>1, <1>3, <1>5, <2>1, <3>1
    <3>2. CASE d # c
      <4>1. conn'[d] = conn[d] /\ conn[d].manager \in Managers
        BY <1>5, <3>2, Records DEF ConnRecord
      <4> QED BY <2>2, <4>1 DEF IInv, HeldInv, OpenAfterCleanupHasACause
    <3> QED BY <3>1, <3>2
  <2>3. \A d \in Conns : conn'[d].manager = conn[d].manager
    BY <1>1, <1>3, <1>5
  <2> QED BY <1>2, <1>5, <2>2, <2>3, ConnsInv
<1>9. TaskInv'
  <2>1. \A u \in Tasks : task[u].conn # None => task[u].conn \in Conns
    BY Records DEF TaskRecord, ConnOrNone
  <2>2. \A d \in Conns : conn'[d].manager = conn[d].manager
    BY <1>1, <1>3, <1>5
  <2> QED BY <1>1, <1>3, <1>4, <1>5, <1>6, <2>1, <2>2 DEF IInv, TaskInv, Opening
<1>10. UsedInv'
  BY <1>2, <1>4, <1>6 DEF IInv, UsedInv, Begun
<1>11. PrivateInv'
  BY <1>1, <1>2, <1>4, <1>6 DEF IInv, PrivateInv, Opening
<1>12. LostInv'
  BY <1>2, <1>4, <1>6 DEF IInv, LostInv
<1>13. RetryIsOnAnotherConnection'
  BY <1>4, <1>6 DEF IInv, RetryIsOnAnotherConnection
<1>14. ClosedInv'
  BY <1>2, <1>4, <1>6 DEF IInv, ClosedInv, Underway
<1>15. MadeInv' /\ RegisteredIsCurrent'
  BY <1>2 DEF IInv, MadeInv, RegisteredIsCurrent
<1> QED BY <1>7, <1>8, <1>9, <1>10, <1>11, <1>12, <1>13, <1>14, <1>15 DEF IInv

LEMMA InitializedInv ==
    ASSUME IInv, NEW t \in Tasks, Initialized(t)
    PROVE  IInv'
<1> DEFINE c == task[t].conn
           id == task[t].manager
           now == [conn[c] EXCEPT !.session = "open"]
           m == [manager[id] EXCEPT !.session = c]
           q == [task[t] EXCEPT !.pc = "listing"]
<1>1. /\ task[t].pc = "initializing" /\ task[t] \in TaskRecord /\ id \in Managers
      /\ c \in Conns /\ c # None /\ conn[c] \in ConnRecord /\ conn[c].manager = id
      /\ conn[c].transport
  <2>1. task[t].pc = "initializing" /\ task[t] \in TaskRecord /\ conn[c].transport
    BY Records DEF Initialized
  <2>2. c # None /\ conn[c].manager = id
    BY <2>1 DEF IInv, TaskInv, Opening
  <2> QED BY <2>1, <2>2, Records DEF TaskRecord, ConnOrNone
<1>2. /\ conn' = [conn EXCEPT ![c] = now] /\ task' = [task EXCEPT ![t] = q]
      /\ manager' = [manager EXCEPT ![id] = m]
      /\ UNCHANGED <<disk, saves, registered, created, opened>>
  BY <1>1, Records DEF Initialized
<1>3. /\ now \in ConnRecord /\ now.manager = id /\ now.transport
      /\ now.held = conn[c].held /\ now.stuck = conn[c].stuck
  BY <1>1 DEF ConnRecord
<1>4. /\ q \in TaskRecord /\ q.pc = "listing" /\ q.conn = c /\ q.manager = id
      /\ q.first = task[t].first /\ q.version = task[t].version
  BY <1>1 DEF TaskRecord, Points
<1>5. /\ m \in ManagerRecord /\ m.session = c /\ m.tools = manager[id].tools
      /\ m.state = manager[id].state /\ m.config = manager[id].config
      /\ m.outrun = manager[id].outrun
  BY <1>1, Records DEF ManagerRecord, ConnOrNone
<1> HIDE DEF now, q, m
<1>6. /\ conn' \in [Conns -> ConnRecord] /\ conn'[c] = now
      /\ \A d \in Conns \ {c} : conn'[d] = conn[d]
  BY <1>1, <1>2, <1>3, Records
<1>7. task'[t] = q /\ \A u \in Tasks \ {t} : task'[u] = task[u]
  BY <1>2, Records
<1>8. /\ manager' \in [Managers -> ManagerRecord] /\ manager'[id] = m
      /\ \A n \in Managers \ {id} : manager'[n] = manager[n]
  BY <1>1, <1>2, <1>5, Records
<1>9. TypeOK'
  <2>1. task' \in [Tasks -> TaskRecord]
    BY <1>2, <1>4, Records
  <2> QED BY <1>2, <1>6, <1>8, <2>1 DEF IInv, TypeOK, ConnRecord, TaskRecord, ManagerRecord
<1>10. \A n \in Managers :
           /\ manager'[n].state = manager[n].state /\ manager'[n].config = manager[n].config
           /\ manager'[n].outrun = manager[n].outrun /\ manager'[n].tools = manager[n].tools
           /\ manager'[n].session \in {manager[n].session, c}
  BY <1>5, <1>8
<1>11. \A d \in Conns : conn'[d].manager = conn[d].manager
  BY <1>1, <1>3, <1>6
<1>12. HeldInv' /\ OpenAfterCleanupHasACause'
  <2>1. ASSUME NEW d \in Conns, conn'[d].transport \/ conn'[d].session \in {"open", "broken"}
        PROVE  /\ conn'[d].held = conn[d].held /\ conn'[d].stuck = conn[d].stuck
               /\ conn[d].manager \in Managers
               /\ conn[d].transport \/ conn[d].session \in {"open", "broken"}
    BY <1>1, <1>3, <1>6, <2>1, Records DEF ConnRecord
  <2>2. HeldInv'
    BY <1>10, <1>11, <2>1 DEF IInv, HeldInv
  <2>3. OpenAfterCleanupHasACause'
    BY <1>10, <1>11, <2>1 DEF IInv, OpenAfterCleanupHasACause
  <2> QED BY <2>2, <2>3
<1>13. TaskInv'
  <2>1. \A u \in Tasks : task[u].conn # None => task[u].conn \in Conns
    BY Records DEF TaskRecord, ConnOrNone
  <2> QED BY <1>1, <1>3, <1>4, <1>6, <1>7, <1>11, <2>1 DEF IInv, TaskInv, Opening
<1>14. UsedInv'
  <2>1. c <= opened
    BY <1>1 DEF IInv, UsedInv, Begun
  <2>2. \A u \in Tasks : Begun(task[u].conn)' /\ Begun(task[u].first)'
    BY <1>2, <1>4, <1>7 DEF IInv, UsedInv, Begun
  <2>3. \A n \in Managers : Begun(manager[n].session)' /\ Begun(manager[n].tools)'
    BY <1>2, <1>10, <2>1 DEF IInv, UsedInv, Begun
  <2> QED BY <2>2, <2>3 DEF UsedInv
<1>15. PrivateInv'
  <2>1. ASSUME NEW u \in Tasks, u # t, Opening(task[u])
        PROVE  /\ c # task[u].conn
               /\ \A n \in Managers :
                      manager[n].session # task[u].conn /\ manager[n].tools # task[u].conn
               /\ \A v \in Tasks :
                      task[v].first # task[u].conn /\ (v # u => task[v].conn # task[u].conn)
    BY <2>1 DEF IInv, PrivateInv
  <2> QED BY <1>4, <1>7, <1>10, <2>1 DEF PrivateInv, Opening
<1>16. LostInv'
  <2>1. \A u \in Tasks : task[u].first # c
    BY <1>1 DEF IInv, PrivateInv, Opening
  <2>2. \A u \in Tasks : task'[u].first = task[u].first /\ task'[u].manager = task[u].manager
    BY <1>4, <1>7
  <2>3. \A u \in Tasks : task[u].manager \in Managers
    BY Records DEF TaskRecord
  <2> QED BY <1>10, <2>1, <2>2, <2>3 DEF IInv, LostInv
<1>17. RetryIsOnAnotherConnection'
  BY <1>4, <1>7 DEF IInv, RetryIsOnAnotherConnection
<1>18. ClosedInv'
  BY <1>4, <1>7, <1>10 DEF IInv, ClosedInv, Underway
<1>19. MadeInv' /\ RegisteredIsCurrent'
  <2>1. registered # None => registered \in Managers
    BY DEF IInv, TypeOK
  <2> QED BY <1>2, <1>10, <2>1 DEF IInv, MadeInv, RegisteredIsCurrent
<1> QED BY <1>9, <1>12, <1>13, <1>14, <1>15, <1>16, <1>17, <1>18, <1>19 DEF IInv

-----------------------------------------------------------------------------
(* The theorems.                                                           *)

LEMMA NextInv == IInv /\ [Next]_vars => IInv'
<1> SUFFICES ASSUME IInv, [Next]_vars PROVE IInv'
  OBVIOUS
<1>1. CASE \E version \in VersionOrNone : Save(version)
  BY <1>1, SaveInv
<1>2. CASE \E m \in Managers : CleanupEnds(m)
  BY <1>2, CleanupEndsInv
<1>3. CASE \E m \in Managers : CooldownEnds(m)
  BY <1>3, CooldownEndsInv
<1>4. ASSUME NEW t \in Tasks, NEW turn \in BOOLEAN, Begin(t, turn) PROVE IInv'
  BY <1>4, BeginInv
<1>5. ASSUME NEW t \in Tasks, Timely(t) PROVE IInv'
  BY <1>5, EnteredInv, ConnectFailsInv, ListedInv, CallInv, EndsInv, StartInv, DroppedInv
     DEF Timely
<1>6. ASSUME NEW t \in Tasks, Initialized(t) PROVE IInv'
  BY <1>6, InitializedInv
<1>7. ASSUME NEW t \in Tasks, Answered(t) \/ Cancel(t) PROVE IInv'
  BY <1>7, EndsInv
<1>8. ASSUME NEW t \in Tasks, CallBreaks(t) PROVE IInv'
  BY <1>8, CallBreaksInv
<1>9. CASE \E c \in Conns : Break(c)
  BY <1>9, BreakInv
<1>10. CASE UNCHANGED vars
  BY <1>10 DEF vars, IInv, TypeOK, MadeInv, RegisteredIsCurrent, TaskInv, UsedInv, Begun,
     PrivateInv, LostInv, RetryIsOnAnotherConnection, HeldInv, ClosedInv, Underway,
     OpenAfterCleanupHasACause
<1> QED BY <1>1, <1>2, <1>3, <1>4, <1>5, <1>6, <1>7, <1>8, <1>9, <1>10 DEF Next

\* The invariant holds of the tables, connections and tasks at every await.
THEOREM Invariance == Spec => []IInv
  BY InitIInv, NextInv, PTL DEF Spec

\* The tables, connections and tasks of the MCP runtime are well typed, for any number of
\* tasks, saves and connections.
THEOREM TypeCorrect == Spec => []TypeOK
<1>1. IInv => TypeOK BY DEF IInv
<1> QED BY <1>1, Invariance, PTL

\* A task that asks for the runtime gets one that was configured from what is on disk.
THEOREM NobodyGetsTheOldRuntime == Spec => []RegisteredIsCurrent
<1>1. IInv => RegisteredIsCurrent BY DEF IInv
<1> QED BY <1>1, Invariance, PTL

\* After a cleanup that no connect has outrun, a transport or a session of its manager that
\* is open is one whose own exit raised in the cleanup.
THEOREM WhatStaysOpenHasACause == Spec => []OpenAfterCleanupHasACause
<1>1. IInv => OpenAfterCleanupHasACause BY DEF IInv
<1> QED BY <1>1, Invariance, PTL

\* However many calls lose the session and reconnect at once, none is tried again on the
\* connection it lost.
THEOREM RetriesGoElsewhere == Spec => []RetryIsOnAnotherConnection
<1>1. IInv => RetryIsOnAnotherConnection BY DEF IInv
<1> QED BY <1>1, Invariance, PTL

-----------------------------------------------------------------------------
(* What a task may still do: the points before it, and nine more while it    *)
(* may reconnect, which it does once.                                        *)

PointsLeft(point) ==
    CASE point \in {"idle", "dropping"} -> 8
      [] point = "entering" -> 7
      [] point = "initializing" -> 6
      [] point = "listing" -> 5
      [] point = "tools" -> 4
      [] point = "waiting" -> 3
      [] point = "calling" -> 2
      [] OTHER -> 0

Left(r) ==
    IF r.pc = "done" THEN 0 ELSE PointsLeft(r.pc) + (IF r.first = None THEN 9 ELSE 0)

TaskStep(t) ==
    \/ \E turn \in BOOLEAN : Begin(t, turn)
    \/ Timely(t)
    \/ Initialized(t)
    \/ Answered(t)
    \/ CallBreaks(t)
    \/ Cancel(t)

\* Every step of a task leaves it less to do, and no step of another task, of a save, of a
\* cleanup or of a server sends it back.
TasksShrink ==
    [][\A t \in Tasks :
          IF TaskStep(t) THEN Left(task'[t]) < Left(task[t]) ELSE task'[t] = task[t]]_vars

\* A task that is to call has a connection to call; one that has not begun has lost none.
CallsAConnection(r) ==
    /\ r.pc \in {"tools", "waiting", "calling"} => r.conn # None
    /\ r.pc = "idle" => r.first = None

ConnInv == \A t \in Tasks : CallsAConnection(task[t])

LEMMA LeftType ==
    ASSUME NEW r
    PROVE  Left(r) \in 0..17
<1>1. PointsLeft(r.pc) \in 0..8
  BY DEF PointsLeft
<1> QED BY <1>1 DEF Left

LEMMA LeftAt ==
    ASSUME NEW r
    PROVE  /\ r.pc = "done" => Left(r) = 0
           /\ \A n \in 2..8 : PointsLeft(r.pc) = n =>
                 /\ r.first = None => Left(r) = n + 9
                 /\ r.first # None => Left(r) = n
<1>1. r.pc = "done" => PointsLeft(r.pc) = 0
  BY DEF PointsLeft
<1> QED BY <1>1 DEF Left

Progress(t) ==
    /\ Left(task'[t]) < Left(task[t])
    /\ \A u \in Tasks : u # t => task'[u] = task[u]
    /\ ConnInv'

LEMMA Goes ==
    ASSUME IInv, ConnInv, NEW t \in Tasks, NEW q, task' = [task EXCEPT ![t] = q],
           Left(q) < Left(task[t]), CallsAConnection(q)
    PROVE  Progress(t)
<1>1. task'[t] = q /\ \A u \in Tasks : u # t => task'[u] = task[u]
  BY Records
<1> QED BY <1>1 DEF Progress, ConnInv

LEMMA Ends ==
    ASSUME IInv, ConnInv, NEW t \in Tasks, task' = [task EXCEPT ![t] = Finished],
           task[t].pc # "done"
    PROVE  Progress(t)
<1>1. Left(Finished) = 0 /\ CallsAConnection(Finished)
  BY DEF Left, CallsAConnection, Finished, NoTask
<1>2. Left(task[t]) > 0
  <2>1. task[t].pc \in Points
    BY Records DEF TaskRecord
  <2>2. PointsLeft(task[t].pc) \in 2..8
    BY <2>1 DEF PointsLeft, Points
  <2> QED BY <2>2 DEF Left
<1> QED BY <1>1, <1>2, Goes

\* What a task becomes when its connect is over, or was not needed.
LEMMA ProceedLeft ==
    ASSUME NEW r \in TaskRecord, NEW m \in ManagerRecord, NEW connected \in BOOLEAN
    PROVE  LET q == Proceed(r, m, connected)
           IN  /\ CallsAConnection(q)
               /\ r.first = None => Left(q) <= 13
               /\ r.first # None => Left(q) <= 3
<1> DEFINE q == Proceed(r, m, connected)
<1> SUFFICES /\ CallsAConnection(q)
             /\ r.first = None => Left(q) <= 13
             /\ r.first # None => Left(q) <= 3
  OBVIOUS
<1>1. CASE q = Finished
  <2>1. Left(q) = 0 /\ CallsAConnection(q)
    BY <1>1 DEF Left, CallsAConnection, Finished, NoTask
  <2> HIDE DEF q
  <2> QED BY <2>1
<1>2. CASE /\ r.first = None /\ m.tools # None
           /\ q = [r EXCEPT !.pc = "tools", !.conn = m.tools]
  <2>1. q.pc = "tools" /\ q.first = None /\ q.conn # None
    BY <1>2 DEF TaskRecord
  <2>2. PointsLeft(q.pc) = 4
    BY <2>1 DEF PointsLeft
  <2> HIDE DEF q
  <2>3. Left(q) = 13
    BY <2>1, <2>2, LeftAt
  <2> QED BY <1>2, <2>1, <2>3 DEF CallsAConnection
<1>3. CASE m.session # None /\ q = [r EXCEPT !.pc = "waiting", !.conn = m.session]
  <2>1. q.pc = "waiting" /\ q.first = r.first /\ q.conn # None
    BY <1>3 DEF TaskRecord
  <2>2. PointsLeft(q.pc) = 3
    BY <2>1 DEF PointsLeft
  <2> HIDE DEF q
  <2>3. /\ r.first = None => Left(q) = 12
        /\ r.first # None => Left(q) = 3
    BY <2>1, <2>2, LeftAt
  <2> QED BY <2>1, <2>3 DEF CallsAConnection
<1> QED BY <1>1, <1>2, <1>3 DEF Proceed

LEMMA ConnectLeft ==
    ASSUME IInv, ConnInv, NEW t \in Tasks, NEW r \in TaskRecord, NEW m \in ManagerRecord,
           NEW version, Connect(t, r, m, version),
           r.first = None => Left(task[t]) > 16,
           r.first # None => Left(task[t]) > 7
    PROVE  Progress(t)
<1> DEFINE q == [r EXCEPT !.pc = "entering", !.conn = opened + 1]
           p == Proceed(r, m, FALSE)
<1>0. Left(task[t]) \in Nat
  BY LeftType
<1>1. CASE task' = [task EXCEPT ![t] = q]
  <2>1. q.pc = "entering" /\ q.first = r.first
    BY DEF TaskRecord
  <2>2. PointsLeft(q.pc) = 7
    BY <2>1 DEF PointsLeft
  <2> HIDE DEF q
  <2>3. /\ r.first = None => Left(q) = 16
        /\ r.first # None => Left(q) = 7
    BY <2>1, <2>2, LeftAt
  <2>4. CallsAConnection(q) /\ Left(q) < Left(task[t])
    BY <2>1, <2>3 DEF CallsAConnection
  <2> QED BY <1>1, <2>4, Goes
<1>2. CASE task' = [task EXCEPT ![t] = p]
  <2>1. /\ CallsAConnection(p)
        /\ r.first = None => Left(p) <= 13
        /\ r.first # None => Left(p) <= 3
    BY ProceedLeft
  <2> HIDE DEF p
  <2>2. Left(p) \in Nat
    BY LeftType
  <2>3. Left(p) < Left(task[t])
    BY <1>0, <2>1, <2>2
  <2> QED BY <1>2, <2>1, <2>3, Goes
<1> QED BY <1>1, <1>2 DEF Connect, Resume

LEMMA ResumeLeft ==
    ASSUME IInv, ConnInv, NEW t \in Tasks, NEW r \in TaskRecord, NEW m \in ManagerRecord,
           NEW connected \in BOOLEAN, Resume(t, r, m, connected),
           r.first = None => Left(task[t]) > 13,
           r.first # None => Left(task[t]) > 3
    PROVE  Progress(t)
<1> DEFINE q == Proceed(r, m, connected)
<1>1. task' = [task EXCEPT ![t] = q]
  BY DEF Resume
<1>2. /\ CallsAConnection(q)
      /\ r.first = None => Left(q) <= 13
      /\ r.first # None => Left(q) <= 3
  BY ProceedLeft
<1> HIDE DEF q
<1>3. Left(q) \in Nat /\ Left(task[t]) \in Nat
  BY LeftType
<1>4. Left(q) < Left(task[t])
  BY <1>2, <1>3
<1> QED BY <1>1, <1>2, <1>4, Goes

\* A task that only goes to its next point.
LEMMA PointLeft ==
    ASSUME NEW r, NEW q, NEW n \in 2..8, NEW k \in 2..8, n < k,
           q.first = r.first, PointsLeft(q.pc) = n, PointsLeft(r.pc) = k
    PROVE  Left(q) < Left(r)
<1>1. CASE r.first = None
  <2>1. Left(q) = n + 9 /\ Left(r) = k + 9
    BY <1>1, LeftAt
  <2> QED BY <2>1
<1>2. CASE r.first # None
  <2>1. Left(q) = n /\ Left(r) = k
    BY <1>2, LeftAt
  <2> QED BY <2>1
<1> QED BY <1>1, <1>2

LEMMA PointsLeftAre ==
    /\ PointsLeft("idle") = 8 /\ PointsLeft("dropping") = 8 /\ PointsLeft("entering") = 7
    /\ PointsLeft("initializing") = 6 /\ PointsLeft("listing") = 5 /\ PointsLeft("tools") = 4
    /\ PointsLeft("waiting") = 3 /\ PointsLeft("calling") = 2
  BY DEF PointsLeft

LEMMA BeginLeft ==
    ASSUME IInv, ConnInv, NEW t \in Tasks, NEW turn \in BOOLEAN, Begin(t, turn)
    PROVE  Progress(t)
<1> DEFINE fresh == registered = None
           id == IF fresh THEN created + 1 ELSE registered
           m == IF fresh THEN [NewManager EXCEPT !.config = disk] ELSE manager[id]
           r == [NoTask EXCEPT !.turn = turn, !.manager = id]
<1>1. /\ task[t].pc = "idle" /\ task[t].first = None
      /\ Connect(t, r, m, m.config) \/ Resume(t, r, m, TRUE)
  BY DEF Begin, ConnInv, CallsAConnection
<1>2. id \in Managers
  BY ConstantsAssumption DEF IInv, TypeOK, MadeInv, Managers
<1>3. m \in ManagerRecord
  BY <1>2, Records DEF IInv, TypeOK, NewManager, ManagerRecord, ConnOrNone
<1> HIDE DEF id, m
<1>4. r \in TaskRecord /\ r.first = None
  BY <1>2, IdleIsATask DEF NoTask, TaskRecord
<1> HIDE DEF r
<1>5. Left(task[t]) = 17
  BY <1>1, PointsLeftAre, LeftAt
<1>6. CASE Connect(t, r, m, m.config)
  BY <1>3, <1>4, <1>5, <1>6, ConnectLeft
<1>7. CASE Resume(t, r, m, TRUE)
  <2>1. Left(task[t]) > 13 /\ TRUE \in BOOLEAN
    BY <1>5
  <2> QED BY <1>3, <1>4, <1>7, <2>1, ResumeLeft
<1> QED BY <1>1, <1>6, <1>7

LEMMA OpeningLeft ==
    ASSUME IInv, ConnInv, NEW t \in Tasks,
           \/ Entered(t)
           \/ Initialized(t)
           \/ \E mismatch \in BOOLEAN : ConnectFails(t, mismatch)
           \/ \E listed \in BOOLEAN : Listed(t, listed)
    PROVE  Progress(t)
<1>1. task[t] \in TaskRecord /\ task[t].manager \in Managers
  BY Records DEF TaskRecord
<1>2. CASE Entered(t) \/ Initialized(t)
  <2>1. PICK point \in {"initializing", "listing"} :
           /\ task' = [task EXCEPT ![t].pc = point]
           /\ point = "initializing" => task[t].pc = "entering"
           /\ point = "listing" => task[t].pc = "initializing"
    BY <1>2 DEF Entered, Initialized
  <2> DEFINE q == [task[t] EXCEPT !.pc = point]
  <2>2. /\ task' = [task EXCEPT ![t] = q] /\ q.first = task[t].first /\ q.pc = point
    BY <1>1, <2>1, Records DEF TaskRecord
  <2> HIDE DEF q
  <2>3. CallsAConnection(q)
    BY <2>2 DEF CallsAConnection
  <2>4. \/ PointsLeft(q.pc) = 6 /\ PointsLeft(task[t].pc) = 7
        \/ PointsLeft(q.pc) = 5 /\ PointsLeft(task[t].pc) = 6
    BY <2>1, <2>2, PointsLeftAre
  <2>5. Left(q) < Left(task[t])
    BY <2>2, <2>4, PointLeft
  <2> QED BY <2>2, <2>3, <2>5, Goes
<1>3. ASSUME NEW mismatch \in BOOLEAN, ConnectFails(t, mismatch)
      PROVE  Progress(t)
  <2> DEFINE id == task[t].manager
             m == [manager[id] EXCEPT !.cooling = @ \/ mismatch]
  <2>1. manager' = [manager EXCEPT ![id] = m] /\ Resume(t, task[t], manager'[id], FALSE)
    BY <1>1, <1>3, Records DEF ConnectFails
  <2>2. m \in ManagerRecord
    <3>1. manager[id].cooling \in BOOLEAN /\ manager[id] \in ManagerRecord
      BY <1>1, Records DEF ManagerRecord
    <3>2. (manager[id].cooling \/ mismatch) \in BOOLEAN
      BY <3>1
    <3> QED BY <3>1, <3>2 DEF ManagerRecord
  <2>3. Resume(t, task[t], m, FALSE)
    BY <1>1, <2>1, Records
  <2> HIDE DEF m
  <2>4. /\ task[t].first = None => Left(task[t]) > 13
        /\ task[t].first # None => Left(task[t]) > 3
    BY <1>3, PointsLeftAre, LeftAt DEF ConnectFails
  <2> QED BY <1>1, <2>2, <2>3, <2>4, ResumeLeft
<1>4. ASSUME NEW listed \in BOOLEAN, Listed(t, listed)
      PROVE  Progress(t)
  <2> DEFINE id == task[t].manager
             m == [manager[id] EXCEPT !.cooling = FALSE,
                                      !.tools = IF listed THEN task[t].conn ELSE @]
  <2>1. manager' = [manager EXCEPT ![id] = m] /\ Resume(t, task[t], manager'[id], TRUE)
    BY <1>1, <1>4, Records DEF Listed
  <2>2. m \in ManagerRecord
    <3>1. task[t].conn \in ConnOrNone /\ manager[id] \in ManagerRecord
      BY <1>1, Records DEF TaskRecord
    <3> QED BY <3>1 DEF ManagerRecord
  <2>3. Resume(t, task[t], m, TRUE)
    BY <1>1, <2>1, Records
  <2> HIDE DEF m
  <2>4. /\ task[t].first = None => Left(task[t]) > 13
        /\ task[t].first # None => Left(task[t]) > 3
    BY <1>4, PointsLeftAre, LeftAt DEF Listed
  <2> QED BY <1>1, <2>2, <2>3, <2>4, ResumeLeft
<1> QED BY <1>2, <1>3, <1>4

LEMMA CallsLeft ==
    ASSUME IInv, ConnInv, NEW t \in Tasks, Call(t) \/ Start(t)
    PROVE  Progress(t)
<1>1. task[t] \in TaskRecord /\ CallsAConnection(task[t])
  BY Records DEF ConnInv
<1>2. CASE Call(t)
  <2> DEFINE session == manager[task[t].manager].session
             q == [task[t] EXCEPT !.pc = "waiting",
                                  !.conn = IF session = None THEN @ ELSE session]
  <2>1. task[t].pc = "tools" /\ task' = [task EXCEPT ![t] = q]
    BY <1>1, <1>2, Records DEF Call
  <2>2. q.first = task[t].first /\ q.pc = "waiting" /\ q.conn \in {task[t].conn, session}
        /\ (q.conn = session => session # None \/ q.conn = task[t].conn)
    BY <1>1 DEF TaskRecord
  <2> HIDE DEF q
  <2>3. CallsAConnection(q)
    BY <1>1, <2>1, <2>2 DEF CallsAConnection
  <2>4. PointsLeft(q.pc) = 3 /\ PointsLeft(task[t].pc) = 4
    BY <2>1, <2>2, PointsLeftAre
  <2>5. Left(q) < Left(task[t])
    BY <2>2, <2>4, PointLeft
  <2> QED BY <2>1, <2>3, <2>5, Goes
<1>3. CASE Start(t)
  <2> DEFINE q == [task[t] EXCEPT !.pc = "calling"]
  <2>1. task[t].pc = "waiting" /\ task' = [task EXCEPT ![t] = q]
    BY <1>1, <1>3, Records DEF Start
  <2>2. q.first = task[t].first /\ q.pc = "calling" /\ q.conn = task[t].conn
    BY <1>1 DEF TaskRecord
  <2> HIDE DEF q
  <2>3. CallsAConnection(q)
    BY <1>1, <2>1, <2>2 DEF CallsAConnection
  <2>4. PointsLeft(q.pc) = 2 /\ PointsLeft(task[t].pc) = 3
    BY <2>1, <2>2, PointsLeftAre
  <2>5. Left(q) < Left(task[t])
    BY <2>2, <2>4, PointLeft
  <2> QED BY <2>1, <2>3, <2>5, Goes
<1> QED BY <1>2, <1>3

\* The one reconnect: what is left without it is less than the call had.
LEMMA BreaksLeft ==
    ASSUME IInv, ConnInv, NEW t \in Tasks, CallBreaks(t)
    PROVE  Progress(t)
<1> DEFINE id == task[t].manager
           m == manager[id]
           r == [task[t] EXCEPT !.first = task[t].conn, !.version = m.config]
           bare == [m EXCEPT !.tools = None]
<1>1. task[t].pc = "calling" /\ task[t] \in TaskRecord /\ task[t].conn # None
  BY Records DEF CallBreaks, ConnInv, CallsAConnection
<1>2. id \in Managers /\ m \in ManagerRecord /\ bare \in ManagerRecord
  BY <1>1, Records DEF TaskRecord, ManagerRecord, ConnOrNone
<1>3. r \in TaskRecord /\ r.first # None
  BY <1>1, <1>2 DEF TaskRecord, ManagerRecord
<1>4. \/ task[t].first = None /\ Connect(t, r, bare, m.config)
      \/ task[t].first = None /\
            task' = [task EXCEPT ![t] = [r EXCEPT !.pc = "dropping", !.conn = m.session]]
      \/ task' = [task EXCEPT ![t] = Finished]
  BY DEF CallBreaks
<1> HIDE DEF r, bare
<1>5. task[t].first = None => Left(task[t]) = 11
  BY <1>1, PointsLeftAre, LeftAt
<1>6. CASE task[t].first = None /\ Connect(t, r, bare, m.config)
  BY <1>2, <1>3, <1>5, <1>6, ConnectLeft
<1>7. CASE task[t].first = None /\
              task' = [task EXCEPT ![t] = [r EXCEPT !.pc = "dropping", !.conn = m.session]]
  <2> DEFINE q == [r EXCEPT !.pc = "dropping", !.conn = m.session]
  <2>1. q.pc = "dropping" /\ q.first # None
    BY <1>3 DEF TaskRecord
  <2> HIDE DEF q
  <2>2. Left(q) = 8 /\ CallsAConnection(q)
    BY <2>1, PointsLeftAre, LeftAt DEF CallsAConnection
  <2>3. task' = [task EXCEPT ![t] = q]
    BY <1>7 DEF q
  <2>4. Left(q) < Left(task[t])
    BY <1>5, <1>7, <2>2
  <2> QED BY <2>2, <2>3, <2>4, Goes
<1>8. CASE task' = [task EXCEPT ![t] = Finished]
  BY <1>1, <1>8, Ends
<1> QED BY <1>4, <1>6, <1>7, <1>8

LEMMA DroppedLeft ==
    ASSUME IInv, ConnInv, NEW t \in Tasks, Dropped(t)
    PROVE  Progress(t)
<1> DEFINE bare == [manager[task[t].manager] EXCEPT !.tools = None]
           q == [task[t] EXCEPT !.pc = "entering", !.conn = opened + 1]
           p == Proceed(task[t], bare, FALSE)
<1>1. task[t].pc = "dropping" /\ task[t] \in TaskRecord
  BY Records DEF Dropped
<1>2. bare \in ManagerRecord
  BY <1>1, Records DEF TaskRecord, ManagerRecord, ConnOrNone
<1>3. task' = [task EXCEPT ![t] = q] \/ task' = [task EXCEPT ![t] = p]
  BY <1>1, Records DEF Dropped
<1>4. CASE task' = [task EXCEPT ![t] = q]
  <2>1. q.pc = "entering" /\ q.first = task[t].first
    BY <1>1 DEF TaskRecord
  <2> HIDE DEF q
  <2>2. CallsAConnection(q)
    BY <2>1 DEF CallsAConnection
  <2>3. PointsLeft(q.pc) = 7 /\ PointsLeft(task[t].pc) = 8
    BY <1>1, <2>1, PointsLeftAre
  <2>4. Left(q) < Left(task[t])
    BY <2>1, <2>3, PointLeft
  <2> QED BY <1>4, <2>2, <2>4, Goes
<1>5. CASE task' = [task EXCEPT ![t] = p]
  <2>1. /\ CallsAConnection(p)
        /\ task[t].first = None => Left(p) <= 13
        /\ task[t].first # None => Left(p) <= 3
    BY <1>1, <1>2, ProceedLeft
  <2> HIDE DEF p
  <2>2. Left(p) \in Nat
    BY LeftType
  <2>3. /\ task[t].first = None => Left(task[t]) = 17
        /\ task[t].first # None => Left(task[t]) = 8
    BY <1>1, PointsLeftAre, LeftAt
  <2>4. Left(p) < Left(task[t])
    BY <2>1, <2>2, <2>3
  <2> QED BY <1>5, <2>1, <2>4, Goes
<1> QED BY <1>3, <1>4, <1>5

LEMMA StepLeft ==
    ASSUME IInv, ConnInv, NEW t \in Tasks, TaskStep(t)
    PROVE  Progress(t)
<1>1. ASSUME NEW turn \in BOOLEAN, Begin(t, turn) PROVE Progress(t)
  BY <1>1, BeginLeft
<1>2. CASE Decline(t) \/ Answered(t) \/ CallFails(t) \/ Cancel(t)
  <2>1. task' = [task EXCEPT ![t] = Finished] /\ task[t].pc # "done"
    BY <1>2 DEF Decline, Answered, CallFails, Cancel
  <2> QED BY <2>1, Ends
<1> QED BY <1>1, <1>2, OpeningLeft, CallsLeft, BreaksLeft, DroppedLeft DEF TaskStep, Timely

LEMMA NextLeft ==
    ASSUME IInv, ConnInv, [Next]_vars
    PROVE  /\ ConnInv'
           /\ (\E t \in Tasks : TaskStep(t) /\ Progress(t)) \/ task' = task
<1>1. ASSUME NEW t \in Tasks, TaskStep(t)
      PROVE  ConnInv' /\ Progress(t)
  BY <1>1, StepLeft DEF Progress
<1>2. CASE \/ \E version \in VersionOrNone : Save(version)
           \/ \E m \in Managers : CleanupEnds(m) \/ CooldownEnds(m)
           \/ \E c \in Conns : Break(c)
           \/ UNCHANGED vars
  <2>1. task' = task
    BY <1>2 DEF Save, CleanupEnds, CooldownEnds, Break, vars
  <2> QED BY <2>1 DEF ConnInv
<1> QED BY <1>1, <1>2 DEF Next, TaskStep

\* The safety half of TaskEnds: whatever servers, saves and other tasks do meanwhile, a
\* task takes at most 17 steps of its own from its begin to its end.
THEOREM TasksUseUpTheirBudget ==
    Spec => TasksShrink /\ [](\A t \in Tasks : Left(task[t]) \in 0..17)
<1>1. Init => ConnInv
  <2>1. NoTask.pc = "idle" /\ NoTask.first = None
    BY DEF NoTask
  <2>2. CallsAConnection(NoTask)
    BY <2>1 DEF CallsAConnection
  <2>3. Init => \A t \in Tasks : task[t] = NoTask
    BY DEF Init
  <2> QED BY <2>2, <2>3 DEF ConnInv
<1>2. IInv /\ ConnInv /\ [Next]_vars => ConnInv'
  BY NextLeft
<1>3. IInv /\ ConnInv /\ [Next]_vars =>
        [\A t \in Tasks :
            IF TaskStep(t) THEN Left(task'[t]) < Left(task[t]) ELSE task'[t] = task[t]]_vars
  BY StepLeft, NextLeft DEF Progress
<1>4. \A t \in Tasks : Left(task[t]) \in 0..17
  BY LeftType
<1> QED BY <1>1, <1>2, <1>3, <1>4, Invariance, PTL DEF Spec, TasksShrink

=============================================================================
