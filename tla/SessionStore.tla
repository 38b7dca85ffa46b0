----------------------------- MODULE SessionStore -----------------------------
(*****************************************************************************)
(* session.json and history.json of a user's sessions, and the copies of     *)
(* them that tasks hold across awaits.  A chat request loads every session   *)
(* definition and one history when it comes in, and each message of its run  *)
(* saves what it holds: its own list over history.json, all its definitions  *)
(* over the files, where save_session_definitions keeps a file that is newer *)
(* by updated_at.  Meanwhile the user renames, invites, deletes and creates, *)
(* and a background task sets a title.                                       *)
(*                                                                           *)
(* Nothing suspends between a load and the save of one handler, so a handler *)
(* is one step; the copies of a run live from its request to its end.        *)
(*                                                                           *)
(* Abstractions.  A definition is its title and updated_at: the title stands *)
(* for all a user edits.  A history is a bag of message ids: order is        *)
(* CheckpointStore's.  Two stamped writes never fall into the same 10 ms.    *)
(* GROUP_CHAT_TITLE_REFRESH_EVERY_MESSAGE is off, as it is by default.  A    *)
(* cancelled task writes no more, and a run's slow unwinding is in           *)
(* RunRegistry; rollback and clone are in CheckpointStore; the process does  *)
(* not die inside a write.                                                   *)
(*****************************************************************************)

EXTENDS Naturals

CONSTANTS
    Sessions, FirstSession,
    Runs, NoRun,
    UserMessages,  \* ids of user messages; a client may send one again
    Replies,       \* ids of the messages the backend makes up
    Names,         \* the titles a user gives
    NoFile, NoSession,
    MaxStamps      \* bound: the stamps given out

ASSUME ConstantsAssumption ==
    /\ FirstSession \in Sessions
    /\ NoSession \notin Sessions
    /\ NoRun \notin Runs
    /\ UserMessages \cap Replies = {}
    /\ Names \cap {"new", "first", "model"} = {}
    /\ NoFile \notin [title : {"new", "first", "model"} \cup Names, stamp : Nat]
    /\ MaxStamps \in Nat \ {0}

VARIABLES
    disk,      \* session.json of each session, or NoFile
    history,   \* history.json: how often it holds each message
    created,   \* the session ids given out
    run,       \* the chat requests and what they hold
    registry,  \* ACTIVE_GROUP_RUNS
    refresh,   \* sessions with a title refresh under way
    deleting,  \* sessions with a DELETE request that waits for the run to stop
    now        \* the next stamp

vars == <<disk, history, created, run, registry, refresh, deleting, now>>

Messages == UserMessages \cup Replies

\* "new": as created; "first": cut from the first message; "model": the model's.
Titles == {"new", "first", "model"} \cup Names

Definition == [title : Titles, stamp : Nat]

History == [Messages -> Nat]
Nothing == [m \in Messages |-> 0]

Copy == [Sessions -> Definition \cup {NoFile}]
NoCopy == [s \in Sessions |-> NoFile]

\* `saved`: the run has saved a message since it registered, and nobody has removed
\* the session's directory since.
Run == [pc : {"new", "accepted", "running", "done"}, session : Sessions \cup {NoSession},
        list : History, copy : Copy, saved : BOOLEAN]

Blank(pc) ==
    [pc |-> pc, session |-> NoSession, list |-> Nothing, copy |-> NoCopy, saved |-> FALSE]

TypeOK ==
    /\ disk \in Copy
    /\ \A s \in Sessions : disk[s] # NoFile => disk[s].stamp < now
    /\ history \in [Sessions -> History]
    /\ created \in SUBSET Sessions
    /\ run \in [Runs -> Run]
    /\ registry \in [Sessions -> Runs \cup {NoRun}]
    /\ refresh \in SUBSET Sessions
    /\ deleting \in SUBSET Sessions
    /\ now \in 1..(MaxStamps + 1)

Init ==
    /\ disk = [NoCopy EXCEPT ![FirstSession] = [title |-> "new", stamp |-> 0]]
    /\ history = [s \in Sessions |-> Nothing]
    /\ created = {FirstSession}
    /\ run = [r \in Runs |-> Blank("new")]
    /\ registry = [s \in Sessions |-> NoRun]
    /\ refresh = {}
    /\ deleting = {}
    /\ now = 1

-----------------------------------------------------------------------------
(* Files.                                                                  *)

\* title_auto_generated is false: the user has set the title.
Manual(d) == d # NoFile /\ d.title \in Names

\* save_session_definitions: each session the copy mentions is written, unless the
\* file is newer; the sessions it does not mention stay.
Merged_Overwrites(current, incoming) ==
    [s \in Sessions |-> IF incoming[s] = NoFile THEN current[s] ELSE incoming[s]]

Newer(d, e) == d # NoFile /\ e # NoFile /\ d.stamp > e.stamp

Merged(current, incoming) ==
    [s \in Sessions |->
        IF incoming[s] = NoFile \/ Newer(current[s], incoming[s]) THEN current[s] ELSE incoming[s]]

\* A new updated_at.
Stamped(d) == [d EXCEPT !.stamp = now]
Tick_SameInstant == now <= MaxStamps /\ UNCHANGED now
Tick == now <= MaxStamps /\ now' = now + 1

With(h, m) == [h EXCEPT ![m] = @ + 1]

\* A message id the backend makes up is one that nothing holds.
Fresh(m) ==
    /\ \A s \in Sessions : history[s][m] = 0
    /\ \A r \in Runs : run[r].list[m] = 0

-----------------------------------------------------------------------------
(* Chat requests and their runs.                                           *)

\* group_chat_stream up to its return: everything is loaded; the user's message is
\* recorded unless history.json has its id, the first one gives an automatic title and
\* starts a refresh of it.
Recorded_Always(s, m) == FALSE
Recorded(s, m) == history[s][m] > 0

Accept(r, s, m) ==
    LET again == Recorded(s, m)
        titled == ~again /\ ~Manual(disk[s]) /\ \A u \in UserMessages : history[s][u] = 0
        list == IF again THEN history[s] ELSE With(history[s], m)
        own == IF titled THEN [disk[s] EXCEPT !.title = "first"] ELSE disk[s]
        copy == [disk EXCEPT ![s] = IF again THEN own ELSE Stamped(own)]
    IN  /\ run[r].pc = "new"
        /\ disk[s] # NoFile
        /\ IF again THEN UNCHANGED now ELSE Tick
        /\ run' = [run EXCEPT ![r] = [pc |-> "accepted", session |-> s, list |-> list,
                                      copy |-> copy, saved |-> FALSE]]
        /\ history' = [history EXCEPT ![s] = list]
        /\ disk' = Merged(disk, copy)
        /\ refresh' = IF titled THEN refresh \cup {s} ELSE refresh
        /\ UNCHANGED <<created, registry, deleting>>

\* The runs after the registered run of s has been cancelled.
Cancelled(s) == [q \in Runs |-> IF q = registry[s] THEN Blank("done") ELSE run[q]]

Register(r) ==
    LET s == run[r].session
    IN  /\ run[r].pc = "accepted"
        /\ run' = [Cancelled(s) EXCEPT ![r].pc = "running"]
        /\ registry' = [registry EXCEPT ![s] = r]
        /\ UNCHANGED <<disk, history, created, refresh, deleting, now>>

\* A message of the host or of an expert, or of a failure: the run's list is saved and
\* then its definitions, its own session with a new stamp.
Append(r, m) ==
    LET s == run[r].session
        list == With(run[r].list, m)
        copy == [run[r].copy EXCEPT ![s] = Stamped(@)]
    IN  /\ run[r].pc = "running"
        /\ Fresh(m)
        /\ Tick
        /\ run' = [run EXCEPT ![r].list = list, ![r].copy = copy, ![r].saved = TRUE]
        /\ history' = [history EXCEPT ![s] = list]
        /\ disk' = Merged(disk, copy)
        /\ UNCHANGED <<created, registry, refresh, deleting>>

\* After a host decision the definitions are saved as they are.
SaveDefinitions(r) ==
    /\ run[r].pc = "running"
    /\ disk' = Merged(disk, run[r].copy)
    /\ UNCHANGED <<history, created, run, registry, refresh, deleting, now>>

\* finish_group_run.
Finish(r) ==
    LET s == run[r].session
    IN  /\ run[r].pc = "running"
        /\ run' = [run EXCEPT ![r] = Blank("done")]
        /\ registry' = [registry EXCEPT ![s] = IF @ = r THEN NoRun ELSE @]
        /\ UNCHANGED <<disk, history, created, refresh, deleting, now>>

-----------------------------------------------------------------------------
(* The user, the title task and the process.                               *)

\* create_session_internal.
Create(s) ==
    /\ s \notin created
    /\ Tick
    /\ created' = created \cup {s}
    /\ disk' = Merged(disk, [disk EXCEPT ![s] = [title |-> "new", stamp |-> now]])
    /\ history' = [history EXCEPT ![s] = Nothing]
    /\ UNCHANGED <<run, registry, refresh, deleting>>

\* update_group_session: an edit of the definition, at any time.
Rename(s, name) ==
    /\ disk[s] # NoFile
    /\ Tick
    /\ disk' = Merged(disk, [disk EXCEPT ![s] = [title |-> name, stamp |-> now]])
    /\ UNCHANGED <<history, created, run, registry, refresh, deleting>>

\* update_group_session with a changed membership: the host's note joins the history.
Invite(s, m) ==
    /\ disk[s] # NoFile
    /\ Fresh(m)
    /\ Tick
    /\ history' = [history EXCEPT ![s] = With(@, m)]
    /\ disk' = Merged(disk, [disk EXCEPT ![s] = Stamped(@)])
    /\ UNCHANGED <<created, run, registry, refresh, deleting>>

\* The model's title comes, if it does, after any time: loaded and saved at once, with
\* the stamp it has.
TitleRefresh_NoGuard(s) ==
    /\ s \in refresh
    /\ refresh' = refresh \ {s}
    /\ \/ UNCHANGED disk
       \/ /\ disk[s] # NoFile
          /\ disk' = Merged(disk, [disk EXCEPT ![s].title = "model"])
    /\ UNCHANGED <<history, created, run, registry, deleting, now>>

TitleRefresh(s) ==
    /\ s \in refresh
    /\ refresh' = refresh \ {s}
    /\ \/ UNCHANGED disk
       \/ /\ disk[s] # NoFile
          /\ ~Manual(disk[s])
          /\ disk' = Merged(disk, [disk EXCEPT ![s].title = "model"])
    /\ UNCHANGED <<history, created, run, registry, deleting, now>>

\* delete_group_message, refused while a run is registered.
DeleteMessage_AnyTime(s, m) ==
    /\ disk[s] # NoFile
    /\ history[s][m] > 0
    /\ history' = [history EXCEPT ![s][m] = 0]
    /\ UNCHANGED <<disk, created, run, registry, refresh, deleting, now>>

DeleteMessage(s, m) ==
    /\ registry[s] = NoRun
    /\ disk[s] # NoFile
    /\ history[s][m] > 0
    /\ history' = [history EXCEPT ![s][m] = 0]
    /\ UNCHANGED <<disk, created, run, registry, refresh, deleting, now>>

\* cancel_group_session_run, for a stop or a delete request.
Cancel(s) ==
    /\ run' = Cancelled(s)
    /\ registry' = [registry EXCEPT ![s] = NoRun]

Stop(s) ==
    /\ disk[s] # NoFile
    /\ Cancel(s)
    /\ UNCHANGED <<disk, history, created, refresh, deleting, now>>

DeleteBegin(s) ==
    /\ s \in created \ deleting
    /\ Cancel(s)
    /\ deleting' = deleting \cup {s}
    /\ UNCHANGED <<disk, history, created, refresh, now>>

\* After the waits: 404 if the session is gone, else its definition goes, and then the
\* directories of all sessions that have no definition.
DeleteEnd(s) ==
    LET left == [disk EXCEPT ![s] = NoFile]
    IN  /\ s \in deleting
        /\ deleting' = deleting \ {s}
        /\ IF disk[s] = NoFile
           THEN UNCHANGED <<disk, history, run>>
           ELSE /\ disk' = left
                /\ history' = [t \in Sessions |-> IF left[t] = NoFile THEN Nothing ELSE history[t]]
                /\ run' = [r \in Runs |->
                             IF run[r].session \in Sessions /\ left[run[r].session] = NoFile
                             THEN [run[r] EXCEPT !.saved = FALSE] ELSE run[r]]
        /\ UNCHANGED <<created, registry, refresh, now>>

Restart ==
    /\ run' = [r \in Runs |-> Blank(IF run[r].pc = "new" THEN "new" ELSE "done")]
    /\ registry' = [s \in Sessions |-> NoRun]
    /\ refresh' = {}
    /\ deleting' = {}
    /\ UNCHANGED <<disk, history, created, now>>

-----------------------------------------------------------------------------
RunStep(r) ==
    \/ \E s \in Sessions, m \in UserMessages : Accept(r, s, m)
    \/ Register(r)
    \/ \E m \in Replies : Append(r, m)
    \/ SaveDefinitions(r)
    \/ Finish(r)

SessionStep(s) ==
    \/ Create(s)
    \/ \E name \in Names : Rename(s, name)
    \/ \E m \in Replies : Invite(s, m)
    \/ TitleRefresh(s)
    \/ \E m \in Messages : DeleteMessage(s, m)
    \/ Stop(s)
    \/ DeleteBegin(s)
    \/ DeleteEnd(s)

Next ==
    \/ \E r \in Runs : RunStep(r)
    \/ \E s \in Sessions : SessionStep(s)
    \/ Restart

Spec == Init /\ [][Next]_vars

-----------------------------------------------------------------------------
(* Properties.                                                             *)

\* A definition that holds a title of the user's changes only together with its stamp:
\* neither the runs of other sessions, whose copies are old, nor the title task, which
\* sets no stamp, ever revert what the user set.
EditsSurviveOtherTasks ==
    [][\A s \in Sessions :
          Manual(disk[s]) /\ disk'[s] \notin {disk[s], NoFile} => disk'[s].stamp > disk[s].stamp]_vars

\* Once a run has saved a message, all that its experts are shown is in history.json
\* until it ends, whatever the user invites, sends or deletes meanwhile: a page that is
\* reloaded shows what the run talks about.
RunKeepsItsMessages ==
    \A r \in Runs : run[r].saved =>
        \A m \in Messages : history[run[r].session][m] >= run[r].list[m]

\* A message that a client sends again, after a timeout or a lost answer, is in
\* history.json once, however the copies of the runs have been saved over each other.
ResentMessageIsRecordedOnce ==
    \A s \in Sessions, m \in Messages : history[s][m] <= 1

\* The runtime interface contract says of title_auto_generated that it must not go back
\* after the user has renamed the session.
ManualTitleStaysManual ==
    [][\A s \in Sessions :
          Manual(disk[s]) /\ disk'[s] # NoFile => Manual(disk'[s])]_vars

=============================================================================
