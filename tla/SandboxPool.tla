----------------------------- MODULE SandboxPool -----------------------------
(*****************************************************************************)
(* The sandboxes of one user: the table _user_handles of SandboxService, its *)
(* global lock, the lock per table key, and the calls that look a sandbox    *)
(* up, check, replace, create, equip and use it.  A tool call is one attempt *)
(* of the tool gateway: the gateway may cancel it (a timeout, a stopped run) *)
(* and start another.  A prewarm makes a sandbox ready after the user has    *)
(* changed the requirements or the image.                                    *)
(*                                                                           *)
(* An action is what a call does between two awaits: of a lock, of the       *)
(* sandbox server, of a command in a sandbox.                                *)
(*                                                                           *)
(* Abstractions.  A policy is the image, mounts and network access that the  *)
(* check compares.  The three metadata fields that are set and dropped       *)
(* together (installed hash, verified hash, verifier version) are            *)
(* `installed`, the text itself.  A requirements.txt is the set of its lines *)
(* without comments, and only the service installs packages in a sandbox.    *)
(* Whether the last real verification is recent is a choice.  The workspace  *)
(* handles, which only shell commands other than mkdir and mv would create,  *)
(* and session isolation (off by default) with dispose_session are left out. *)
(*****************************************************************************)

EXTENDS FiniteSets

CONSTANTS
    Calls, NoCall,
    Keys, UserKey,    \* table keys; UserKey is the user id alone
    Policies,
    Requirements,     \* lines that a requirements.txt may have
    Skipped,          \* those that the installer and the verifier pass over: URLs, git+
                      \* and options
    Texts,            \* contents of requirements.txt
    Images,           \* what a sandbox image may bring along of them
    Sandboxes, None   \* ids that the sandbox server gives; no sandbox, no text

ASSUME ConstantsAssumption ==
    /\ NoCall \notin Calls
    /\ UserKey \in Keys
    /\ Policies # {}
    /\ Skipped \subseteq Requirements
    /\ Images \subseteq SUBSET Requirements
    /\ Texts \subseteq SUBSET Requirements
    /\ None \notin Sandboxes \cup Texts

VARIABLES
    requirements,  \* requirements.txt of the user
    table,         \* _user_handles
    keyLock, lock, \* _user_ensure_locks and _lock: who holds them
    call,          \* the tool calls and prewarms in progress
    alive,         \* the sandboxes that the server runs
    policy,        \* the policy each was created with
    installed,     \* the requirements its metadata names, or None
    packages,      \* the requirements that are really installed in it
    lost           \* sandboxes that nothing names after a dispose raised, a call
                   \* was cancelled, or the process was restarted (for the properties)

locks == <<keyLock, lock>>
sandbox == <<alive, policy, installed, packages, lost>>
vars == <<requirements, table, locks, call, sandbox>>

Points == {"idle", "entering", "queued", "checking", "verifying", "reinstalling",
           "replacing", "creating", "installing", "binding", "running",
           "invalidating", "disposing"}

\* `text`: what is being installed; `failed`: the sandbox the first attempt did not
\* find; `next`: what follows an invalidation; `seen` (for the properties): the
\* requirements the user has had since the call got the lock of its key, while it has it.
Call == [pc : Points, kind : {"tool", "prewarm"}, key : Keys, policy : Policies,
         again : BOOLEAN, handle : Sandboxes \cup {None}, text : Texts \cup {None},
         failed : Sandboxes \cup {None}, next : {"retry", "raise"}, seen : SUBSET Texts]

Idle == [pc |-> "idle", kind |-> "tool", key |-> UserKey, policy |-> CHOOSE p \in Policies : TRUE,
         again |-> FALSE, handle |-> None, text |-> None,
         failed |-> None, next |-> "raise", seen |-> {}]

\* Where a call is when it holds a lock: the global lock is inside the key's.
LocksAreTheirs ==
    /\ \A k \in Keys : keyLock[k] # NoCall =>
          /\ call[keyLock[k]].key = k
          /\ call[keyLock[k]].pc \in {"checking", "verifying", "reinstalling", "replacing",
                                      "creating", "installing", "binding"}
    /\ lock # NoCall =>
          /\ keyLock[call[lock].key] = lock
          /\ call[lock].pc \in {"verifying", "reinstalling", "replacing", "creating"}

TypeOK ==
    /\ requirements \in Texts
    /\ table \in [Keys -> Sandboxes \cup {None}]
    /\ keyLock \in [Keys -> Calls \cup {NoCall}]
    /\ lock \in Calls \cup {NoCall}
    /\ call \in [Calls -> Call]
    /\ alive \in SUBSET Sandboxes
    /\ policy \in [Sandboxes -> Policies]
    /\ installed \in [Sandboxes -> Texts \cup {None}]
    /\ packages \in [Sandboxes -> SUBSET Requirements]
    /\ lost \in SUBSET alive
    /\ LocksAreTheirs

Init ==
    /\ requirements \in Texts
    /\ table = [k \in Keys |-> None]
    /\ keyLock = [k \in Keys |-> NoCall]
    /\ lock = NoCall
    /\ call = [c \in Calls |-> Idle]
    /\ alive = {}
    /\ policy \in [Sandboxes -> {CHOOSE p \in Policies : TRUE}]
    /\ installed = [s \in Sandboxes |-> None]
    /\ packages = [s \in Sandboxes |-> {}]
    /\ lost = {}

-----------------------------------------------------------------------------
(* What the actions of a call are made of.                                 *)

Named == {table[k] : k \in Keys} \cup {call[c].handle : c \in Calls} \cup {call[c].failed : c \in Calls}

\* An id that the server may give to a new sandbox.
Unused(s) == s \notin alive /\ s \notin Named

\* The `async with` blocks that the call is in are left.
Leave_KeepsKeyLock(c) ==
    /\ lock' = IF lock = c THEN NoCall ELSE lock
    /\ UNCHANGED keyLock

Leave(c) ==
    /\ lock' = IF lock = c THEN NoCall ELSE lock
    /\ keyLock' = [k \in Keys |-> IF keyLock[k] = c THEN NoCall ELSE keyLock[k]]

End(c) == call' = [call EXCEPT ![c] = Idle]

\* _ensure_user_handle returns s: the tool runs in it.  A prewarm that has looked a
\* second time is done.
HandOver(c, s) ==
    /\ Leave(c)
    /\ IF call[c].kind = "prewarm" /\ call[c].again
       THEN End(c)
       ELSE call' = [call EXCEPT ![c] = [@ EXCEPT !.pc = "running", !.handle = s, !.text = None,
                                                  !.seen = {}]]

\* The first attempt finds no sandbox; the service invalidates the handle h that it
\* has and tries again.  A server that cannot be reached ends a tool call, after an
\* invalidation too.
Invalidating(c, h, then) ==
    call' = [call EXCEPT ![c] = [@ EXCEPT !.pc = "invalidating", !.handle = h, !.failed = h,
                                          !.text = None, !.next = then, !.seen = {}]]

\* The call ends with the exception, or its first attempt is followed by another.  A
\* prewarm has no second one as long as it has no handle: h is None until
\* _ensure_user_handle returns.
EndOrRetry(c, h) ==
    \/ End(c)
    \/ /\ ~call[c].again
       /\ call[c].kind = "tool" \/ h # None
       /\ Invalidating(c, h, "retry")

\* An exception where execute_sandbox_request (or prewarm_user_sandbox) has the handle h.
Raise(c, h) ==
    \/ EndOrRetry(c, h)
    \/ /\ call[c].kind = "tool"
       /\ Invalidating(c, h, "raise")

\* A dispose of s returns, or raises with s as it was.
Disposed(s) ==
    \/ alive' = alive \ {s} /\ lost' = lost \ {s}
    \/ alive' = alive /\ lost' = lost \cup ({s} \cap alive)

\* All of text is in s that the installer and the verifier look at.
Satisfies(s, text) == text \ Skipped \subseteq packages[s]

\* The installation of `text` in s ends well.  Where nothing is missing but lines that
\* it passes over, pip is not run at all: these are marked as installed and are not.
\* Otherwise pip installs every line, and may replace what else is there.
Equip(s, text) ==
    /\ installed' = [installed EXCEPT ![s] = text]
    /\ IF Satisfies(s, text)
       THEN UNCHANGED packages
       ELSE \E P \in SUBSET (packages[s] \cup text) :
                text \subseteq P /\ packages' = [packages EXCEPT ![s] = P]

\* It fails or is cut off before pip has installed what is looked at, before it has
\* installed the rest, or afterwards.
EquipFails(s, text) ==
    /\ \/ UNCHANGED packages
       \/ /\ ~Satisfies(s, text)
          /\ \E new \in {text, text \ Skipped} :
                packages' = [packages EXCEPT ![s] = @ \cup new]
    /\ UNCHANGED installed

-----------------------------------------------------------------------------
(* _ensure_user_handle.                                                    *)

Start(c, kind, key, p) ==
    /\ call[c] = Idle
    /\ kind = "prewarm" => key = UserKey
    /\ call' = [call EXCEPT ![c] = [Idle EXCEPT !.pc = "entering", !.kind = kind, !.key = key,
                                                !.policy = p]]
    /\ UNCHANGED <<requirements, table, locks, sandbox>>

\* _ensure_lock_for_key holds the global lock for an instant.
Enter(c) ==
    /\ call[c].pc = "entering"
    /\ lock = NoCall
    /\ call' = [call EXCEPT ![c].pc = "queued"]
    /\ UNCHANGED <<requirements, table, locks, sandbox>>

AcquireKey_NoLock(c) ==
    /\ call[c].pc = "queued"
    /\ keyLock' = [keyLock EXCEPT ![call[c].key] = c]
    /\ call' = [call EXCEPT ![c] = [@ EXCEPT !.pc = "checking", !.seen = {requirements}]]
    /\ UNCHANGED <<requirements, table, lock, sandbox>>

AcquireKey(c) ==
    /\ call[c].pc = "queued"
    /\ keyLock[call[c].key] = NoCall
    /\ keyLock' = [keyLock EXCEPT ![call[c].key] = c]
    /\ call' = [call EXCEPT ![c] = [@ EXCEPT !.pc = "checking", !.seen = {requirements}]]
    /\ UNCHANGED <<requirements, table, lock, sandbox>>

\* The cached sandbox of the key, if it is as the call and the requirements want it.
Matches(c, s) ==
    /\ s # None
    /\ installed[s] = requirements
    /\ policy[s] = call[c].policy

Checking(c) == call[c].pc = "checking" /\ lock = NoCall

\* The sandbox was verified not long ago, or there is nothing to verify.
Reuse(c) ==
    LET s == table[call[c].key]
    IN  /\ Checking(c)
        /\ Matches(c, s)
        /\ HandOver(c, s)
        /\ UNCHANGED <<requirements, table, sandbox>>

\* The rest of the check awaits with the global lock held.
Take(c, pc, s) ==
    /\ lock' = c
    /\ call' = [call EXCEPT ![c] = [@ EXCEPT !.pc = pc, !.handle = s]]
    /\ UNCHANGED <<requirements, table, keyLock, sandbox>>

StartVerify(c) ==
    LET s == table[call[c].key]
    IN  /\ Checking(c)
        /\ Matches(c, s)
        /\ requirements # {}
        /\ Take(c, "verifying", s)

StartReplace(c) ==
    LET s == table[call[c].key]
    IN  /\ Checking(c)
        /\ s # None
        /\ ~Matches(c, s)
        /\ Take(c, "replacing", s)

StartCreate(c) ==
    /\ Checking(c)
    /\ table[call[c].key] = None
    /\ Take(c, "creating", None)

Verified(c) ==
    /\ call[c].pc = "verifying"
    /\ call[c].handle \in alive
    /\ HandOver(c, call[c].handle)
    /\ UNCHANGED <<requirements, table, sandbox>>

\* Packages are missing, or the command failed: the metadata goes, and the
\* requirements of now are installed, still under the global lock.
Reinstall_Unlocked(c) ==
    LET s == call[c].handle
    IN  /\ call[c].pc = "verifying"
        /\ IF requirements = {}
           THEN /\ Equip(s, {})
                /\ HandOver(c, s)
           ELSE /\ installed' = [installed EXCEPT ![s] = None]
                /\ call' = [call EXCEPT ![c] = [@ EXCEPT !.pc = "reinstalling", !.text = requirements]]
                /\ lock' = NoCall
                /\ UNCHANGED <<packages, keyLock>>
        /\ UNCHANGED <<requirements, table, alive, policy, lost>>

Reinstall(c) ==
    LET s == call[c].handle
    IN  /\ call[c].pc = "verifying"
        /\ IF requirements = {}
           THEN /\ Equip(s, {})
                /\ HandOver(c, s)
           ELSE /\ installed' = [installed EXCEPT ![s] = None]
                /\ call' = [call EXCEPT ![c] = [@ EXCEPT !.pc = "reinstalling", !.text = requirements]]
                /\ UNCHANGED <<packages, locks>>
        /\ UNCHANGED <<requirements, table, alive, policy, lost>>

Reinstalled(c) ==
    LET s == call[c].handle
    IN  /\ call[c].pc = "reinstalling"
        /\ s \in alive
        /\ Equip(s, call[c].text)
        /\ table' = [table EXCEPT ![call[c].key] = s]
        /\ HandOver(c, s)
        /\ UNCHANGED <<requirements, alive, policy, lost>>

ReinstallFails(c) ==
    /\ call[c].pc = "reinstalling"
    /\ EquipFails(call[c].handle, call[c].text)
    /\ Leave(c)
    /\ Raise(c, None)
    /\ UNCHANGED <<requirements, table, alive, policy, lost>>

\* The old sandbox is disposed; an exception of that is logged.
Replaced(c) ==
    /\ call[c].pc = "replacing"
    /\ Disposed(call[c].handle)
    /\ table' = [table EXCEPT ![call[c].key] = None]
    /\ call' = [call EXCEPT ![c] = [@ EXCEPT !.pc = "creating", !.handle = None]]
    /\ UNCHANGED <<requirements, locks, policy, installed, packages>>

\* What is installed in a new sandbox: _maybe_install_user_requirements has nothing
\* to do when there are no requirements.
Bare == IF requirements = {} THEN {} ELSE None

NewSandbox(c, s, mark, entry) ==
    /\ call[c].pc = "creating"
    /\ Unused(s)
    /\ alive' = alive \cup {s}
    /\ policy' = [policy EXCEPT ![s] = call[c].policy]
    /\ installed' = [installed EXCEPT ![s] = mark]
    /\ \E image \in Images : packages' = [packages EXCEPT ![s] = image]
    /\ table' = [table EXCEPT ![call[c].key] = entry]
    /\ lock' = NoCall
    /\ call' = [call EXCEPT ![c] =
                   [@ EXCEPT !.pc = IF requirements = {} THEN "binding" ELSE "installing",
                             !.handle = s, !.text = requirements]]
    /\ UNCHANGED <<requirements, keyLock, lost>>

Created_Marked(c, s) == NewSandbox(c, s, requirements, s)

Created_TableAfterInstall(c, s) ==
    NewSandbox(c, s, Bare, IF requirements = {} THEN s ELSE None)

\* The new sandbox s is in the table before it has its requirements; the global lock
\* is left for the installation.
Created(c, s) == NewSandbox(c, s, Bare, s)

\* The server makes a sandbox of which the call never learns, or none.
CreatedUnseen(c) ==
    \/ UNCHANGED sandbox
    \/ \E s \in Sandboxes :
          /\ Unused(s)
          /\ alive' = alive \cup {s}
          /\ lost' = lost \cup {s}
          /\ UNCHANGED <<policy, installed, packages>>

\* A server that cannot be reached is reported as SandboxEnvironmentError at once.
CreateFails(c) ==
    /\ call[c].pc = "creating"
    /\ CreatedUnseen(c)
    /\ Leave(c)
    /\ EndOrRetry(c, None)
    /\ UNCHANGED <<requirements, table>>

Installed(c) ==
    /\ call[c].pc = "installing"
    /\ call[c].handle \in alive
    /\ Equip(call[c].handle, call[c].text)
    /\ call' = [call EXCEPT ![c].pc = "binding"]
    /\ UNCHANGED <<requirements, table, locks, alive, policy, lost>>

InstallFails(c) ==
    /\ call[c].pc = "installing"
    /\ EquipFails(call[c].handle, call[c].text)
    /\ Leave(c)
    /\ Raise(c, None)
    /\ UNCHANGED <<requirements, table, alive, policy, lost>>

\* The last block under the global lock only logs.
Bind(c) ==
    /\ call[c].pc = "binding"
    /\ lock = NoCall
    /\ HandOver(c, call[c].handle)
    /\ UNCHANGED <<requirements, table, sandbox>>

-----------------------------------------------------------------------------
(* The use of the sandbox, and invalidation.                               *)

\* The tool's command, or the `true` of a prewarm, returns.
Finish(c) ==
    /\ call[c].pc = "running"
    /\ call[c].handle \in alive
    /\ End(c)
    /\ UNCHANGED <<requirements, table, locks, sandbox>>

\* It times out, its sandbox is not found, or it fails in another way.
Fail(c) ==
    /\ call[c].pc = "running"
    /\ Raise(c, call[c].handle)
    /\ UNCHANGED <<requirements, table, locks, sandbox>>

\* _invalidate_user_handle: the entry of the handle or, without one, of the user id.
Victims_OfTheKey(c) == {k \in Keys : table[k] # None /\ k = call[c].key}

Victims(c) ==
    LET h == call[c].handle
    IN  {k \in Keys : table[k] # None /\ IF h = None THEN k = UserKey ELSE table[k] = h}

AfterInvalidation(c) ==
    IF call[c].next = "retry"
    THEN call' = [call EXCEPT ![c] = [@ EXCEPT !.pc = "entering", !.again = TRUE, !.handle = None]]
    ELSE End(c)

Invalidate(c) ==
    /\ call[c].pc = "invalidating"
    /\ lock = NoCall
    /\ \/ /\ Victims(c) = {}
          /\ AfterInvalidation(c)
          /\ UNCHANGED table
       \/ \E k \in Victims(c) :
          /\ table' = [table EXCEPT ![k] = None]
          /\ call' = [call EXCEPT ![c] = [@ EXCEPT !.pc = "disposing", !.handle = table[k]]]
    /\ UNCHANGED <<requirements, locks, sandbox>>

Invalidated(c) ==
    /\ call[c].pc = "disposing"
    /\ Disposed(call[c].handle)
    /\ AfterInvalidation(c)
    /\ UNCHANGED <<requirements, table, locks, policy, installed, packages>>

-----------------------------------------------------------------------------
(* The environment.                                                        *)

\* The gateway's timeout or a stopped run cancels the call where it is suspended.
Cancel(c) ==
    /\ call[c].pc # "idle"
    /\ Leave(c)
    /\ End(c)
    /\ CASE call[c].pc = "creating" -> CreatedUnseen(c)
         [] call[c].pc = "replacing" ->
               /\ alive' \in {alive, alive \ {call[c].handle}}
               /\ lost' = lost \cap alive'
               /\ UNCHANGED <<policy, installed, packages>>
         [] call[c].pc = "disposing" ->
               Disposed(call[c].handle) /\ UNCHANGED <<policy, installed, packages>>
         [] call[c].pc \in {"installing", "reinstalling"} ->
               EquipFails(call[c].handle, call[c].text) /\ UNCHANGED <<alive, policy, lost>>
         [] OTHER -> UNCHANGED sandbox
    /\ UNCHANGED <<requirements, table>>

\* The user, or the import of a Skill, writes requirements.txt.
SetRequirements(text) ==
    /\ requirements' = text
    /\ call' = [c \in Calls |->
                  [call[c] EXCEPT !.seen = IF @ = {} THEN {} ELSE @ \cup {text}]]
    /\ UNCHANGED <<table, locks, sandbox>>

\* A sandbox ends by itself.
Vanish(s) ==
    /\ s \in alive
    /\ alive' = alive \ {s}
    /\ lost' = lost \ {s}
    /\ UNCHANGED <<requirements, table, locks, call, policy, installed, packages>>

\* cleanup_orphan_sandboxes goes through all sandboxes of the server with no active ones
\* to spare; those that are too young, or whose disposal raises, stay.
MayBeLeft(left) == left \in SUBSET alive

\* The process is restarted, and cleans up for some time before it serves anybody.
Restart ==
    /\ call' = [c \in Calls |-> Idle]
    /\ table' = [k \in Keys |-> None]
    /\ keyLock' = [k \in Keys |-> NoCall]
    /\ lock' = NoCall
    /\ MayBeLeft(alive')
    /\ lost' = alive'
    /\ UNCHANGED <<requirements, policy, installed, packages>>

-----------------------------------------------------------------------------
\* The steps for which a call waits for a lock, and those for which it awaits the
\* server or a command.
LockStep(c) ==
    \/ Enter(c) \/ AcquireKey(c) \/ Reuse(c) \/ StartVerify(c) \/ StartReplace(c)
    \/ StartCreate(c) \/ Bind(c) \/ Invalidate(c)

ServerStep(c) ==
    \/ Verified(c) \/ Reinstall(c) \/ Reinstalled(c) \/ ReinstallFails(c) \/ Replaced(c)
    \/ \E s \in Sandboxes : Created(c, s)
    \/ CreateFails(c) \/ Installed(c) \/ InstallFails(c)
    \/ Finish(c) \/ Fail(c) \/ Invalidated(c)

Next ==
    \/ \E c \in Calls :
          \/ \E kind \in {"tool", "prewarm"}, k \in Keys, p \in Policies : Start(c, kind, k, p)
          \/ LockStep(c)
          \/ ServerStep(c)
          \/ Cancel(c)
    \/ \E text \in Texts : SetRequirements(text)
    \/ \E s \in Sandboxes : Vanish(s)
    \/ Restart

Spec == Init /\ [][Next]_vars

-----------------------------------------------------------------------------
(* Properties.                                                             *)

\* While a call installs, verifies or disposes in the course of its lookup, no other
\* lookup touches that sandbox, although the installation holds no global lock.
SetUpAlone ==
    \A c, d \in Calls :
        /\ call[c].pc \in {"verifying", "reinstalling", "replacing", "installing", "binding"}
        /\ call[d].pc \in {"verifying", "reinstalling", "replacing", "installing", "binding"}
        /\ call[c].handle = call[d].handle
        => c = d

\* A tool gets a sandbox in which every line of a requirements.txt that the installer does
\* not pass over is installed, and the user has had that file since the lookup began under
\* the lock of its key: not an older one, and none whose installation failed, was cancelled, or is still going on.
HandedOverReady ==
    [][\A c \in Calls :
          call[c].pc # "running" /\ call'[c].pc = "running"
              => \E text \in call[c].seen : text \ Skipped \subseteq packages'[call'[c].handle]]_vars

\* The second attempt of a call never gets the sandbox that the first did not find,
\* whatever other calls have put back into the table meanwhile.
RetryIsElsewhere ==
    \A c \in Calls :
        /\ call[c].again
        /\ call[c].pc \in {"verifying", "reinstalling", "replacing", "installing", "binding", "running"}
        => call[c].handle # call[c].failed

\* A sandbox that runs is in the table or about to be disposed, unless the server or a
\* cancellation took it from the call that had it: no path through the failures and
\* retries of concurrent calls forgets one.
NothingIsForgotten ==
    \A s \in alive \ lost :
        \/ \E k \in Keys : table[k] = s
        \/ \E c \in Calls : call[c].pc = "disposing" /\ call[c].handle = s

=============================================================================
