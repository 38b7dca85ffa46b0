-------------------------- MODULE SandboxPoolProofs --------------------------
(***************************************************************************)
(* Proofs about SandboxPool, for any calls, table keys, policies,          *)
(* requirements and sandboxes.                                             *)
(*                                                                         *)
(* None of the properties is inductive.  They rest on what a call may rely *)
(* on from one await to the next:                                          *)
(*   LockInv   - a call that has left "queued" holds the lock of its key   *)
(*               until it hands over, and the global one around the awaits *)
(*               of a check, a disposal and a creation.                    *)
(*   HandleInv - the sandbox that it sets up is in the table under its key *)
(*               or nowhere (another call may have invalidated it).        *)
(*   TableInv  - no sandbox is in the table under two keys.                *)
(*   FailedInv - what a first attempt could not find has left the table    *)
(*               before the second looks, and does not come back.          *)
(*   TextInv   - what a call is installing, or has checked, is a           *)
(*               requirements.txt of its time; and nothing claims that a   *)
(*               sandbox has what is still being installed in it.          *)
(*   HonestInv - a sandbox has installed what its metadata names, save the *)
(*               lines that the installer passes over.                     *)
(***************************************************************************)

EXTENDS Integers, SandboxPool, TLAPS

SettingUp == {"verifying", "reinstalling", "replacing", "installing", "binding"}

LockInv ==
    \A c \in Calls :
        /\ call[c].pc \in {"checking", "creating"} \cup SettingUp => keyLock[call[c].key] = c
        /\ call[c].pc \in {"verifying", "reinstalling", "replacing", "creating"} => lock = c

HandleInv ==
    \A c \in Calls :
        /\ call[c].pc \in SettingUp \cup {"running", "disposing"} => call[c].handle \in Sandboxes
        /\ call[c].pc = "creating" => table[call[c].key] = None
        /\ call[c].pc \in {"verifying", "reinstalling", "replacing"} =>
              table[call[c].key] = call[c].handle
        /\ call[c].pc \in SettingUp =>
              \A k \in Keys : table[k] = call[c].handle => k = call[c].key

TableInv == \A j, k \in Keys : table[j] # None /\ table[j] = table[k] => j = k

FailedInv ==
    \A c \in Calls :
        /\ call[c].pc = "invalidating" => call[c].failed = call[c].handle
        /\ \/ call[c].pc = "disposing"
           \/ call[c].again /\ call[c].pc \notin {"idle", "invalidating"}
           => \A k \in Keys : table[k] # None => table[k] # call[c].failed

TextInv ==
    \A c \in Calls :
        /\ call[c].pc \in {"checking", "creating"} \cup SettingUp =>
              requirements \in call[c].seen
        /\ call[c].pc \in {"reinstalling", "installing"} =>
              call[c].text \in call[c].seen /\ installed[call[c].handle] = None
        /\ call[c].pc \in {"verifying", "binding"} =>
              \E text \in call[c].seen : Satisfies(call[c].handle, text)

HonestInv == \A s \in Sandboxes : installed[s] # None => Satisfies(s, installed[s])

IInv == TypeOK /\ LockInv /\ HandleInv /\ TableInv /\ FailedInv /\ TextInv /\ HonestInv
          /\ SetUpAlone /\ RetryIsElsewhere /\ NothingIsForgotten

\* What HandedOverReady says of one step.
Ready ==
    \A c \in Calls :
        call[c].pc # "running" /\ call'[c].pc = "running"
            => \E text \in call[c].seen : text \ Skipped \subseteq packages'[call'[c].handle]

-----------------------------------------------------------------------------
(* What the shared parts of the actions do to the calls.                   *)

LEMMA IdleCall == Idle \in Call /\ Idle.pc = "idle"
BY ConstantsAssumption DEF Idle, Call, Points

LEMMA CallFields ==
    ASSUME TypeOK
    PROVE  \A c \in Calls :
              /\ call[c] \in Call
              /\ call[c].key \in Keys
              /\ call[c].policy \in Policies
              /\ call[c].handle \in Sandboxes \cup {None}
              /\ call[c].text \in Texts \cup {None}
              /\ call[c].failed \in Sandboxes \cup {None}
              /\ call[c].seen \in SUBSET Texts
BY DEF TypeOK, Call

\* Only call c does something.
Alone(c) ==
    /\ call' \in [Calls -> Call]
    /\ \A d \in Calls \ {c} : call'[d] = call[d]

\* It goes to pc with the handle h; what it wants, and what it has been through, stays.
GoesTo(c, pc, h) ==
    /\ Alone(c)
    /\ call'[c].pc = pc
    /\ call'[c].handle = h
    /\ call'[c].key = call[c].key
    /\ call'[c].policy = call[c].policy
    /\ call'[c].again = call[c].again
    /\ call'[c].failed = call[c].failed
    /\ call'[c].seen = CASE pc = "running" -> {}
                         [] pc = "checking" -> {requirements}
                         [] OTHER -> call[c].seen

Ends(c) == Alone(c) /\ call'[c].pc = "idle"

\* Its handle h is about to be invalidated.
GivesUp(c, h) ==
    /\ Alone(c)
    /\ call'[c].pc = "invalidating"
    /\ call'[c].handle = h
    /\ call'[c].failed = h
    /\ call'[c].key = call[c].key
    /\ call'[c].seen = {}

\* It begins its second attempt.
BeginsAgain(c) ==
    /\ Alone(c)
    /\ call'[c].pc = "entering"
    /\ call'[c].handle = None
    /\ call'[c].key = call[c].key
    /\ call'[c].failed = call[c].failed
    /\ call'[c].seen = call[c].seen

LEMMA Becoming ==
    ASSUME TypeOK, NEW c \in Calls, NEW q \in Call, call' = [call EXCEPT ![c] = q]
    PROVE  Alone(c) /\ call'[c] = q
BY DEF TypeOK, Alone

LEMMA EndEffect ==
    ASSUME TypeOK, NEW c \in Calls, End(c)
    PROVE  Ends(c)
BY IdleCall, Becoming DEF End, Ends

LEMMA Running ==
    ASSUME TypeOK, NEW c \in Calls, NEW s \in Sandboxes \cup {None},
           call' = [call EXCEPT ![c] = [@ EXCEPT !.pc = "running", !.handle = s, !.text = None,
                                                 !.seen = {}]]
    PROVE  GoesTo(c, "running", s)
<1> DEFINE q == [call[c] EXCEPT !.pc = "running", !.handle = s, !.text = None, !.seen = {}]
<1>1. q \in Call
  BY CallFields DEF Call, Points
<1>2. Alone(c) /\ call'[c] = q
  BY <1>1, Becoming
<1>3. /\ q.pc = "running" /\ q.handle = s /\ q.key = call[c].key
      /\ q.policy = call[c].policy
      /\ q.again = call[c].again /\ q.failed = call[c].failed /\ q.seen = {}
  BY CallFields DEF Call
<1> HIDE DEF q
<1> QED BY <1>2, <1>3 DEF GoesTo

LEMMA BeginningToCheck ==
    ASSUME TypeOK, NEW c \in Calls,
           call' = [call EXCEPT ![c] = [@ EXCEPT !.pc = "checking", !.seen = {requirements}]]
    PROVE  GoesTo(c, "checking", call[c].handle)
<1> DEFINE q == [call[c] EXCEPT !.pc = "checking", !.seen = {requirements}]
<1>0. call[c] \in Call /\ requirements \in Texts
  BY CallFields DEF TypeOK
<1>1. q \in Call
  BY <1>0 DEF Call, Points
<1>2. Alone(c) /\ call'[c] = q
  BY <1>1, Becoming
<1>3. /\ q.pc = "checking" /\ q.handle = call[c].handle /\ q.key = call[c].key
      /\ q.policy = call[c].policy
      /\ q.again = call[c].again /\ q.failed = call[c].failed /\ q.seen = {requirements}
  BY <1>0 DEF Call
<1> HIDE DEF q
<1> QED BY <1>2, <1>3 DEF GoesTo

\* The others keep what they have seen.
LEMMA MovingOn ==
    ASSUME TypeOK, NEW c \in Calls, NEW pc \in Points, NEW h \in Sandboxes \cup {None},
           pc \notin {"running", "checking"},
           \/ call' = [call EXCEPT ![c].pc = pc] /\ h = call[c].handle
           \/ call' = [call EXCEPT ![c] = [@ EXCEPT !.pc = pc, !.handle = h]]
    PROVE  GoesTo(c, pc, h)
<1>0. call[c] \in Call
  BY CallFields
<1>1. CASE call' = [call EXCEPT ![c].pc = pc] /\ h = call[c].handle
  <2> DEFINE q == [call[c] EXCEPT !.pc = pc]
  <2>1. q \in Call
    BY <1>0 DEF Call
  <2>2. Alone(c) /\ call'[c] = q
    BY <1>1, <2>1, Becoming
  <2> QED BY <1>0, <1>1, <2>2 DEF GoesTo, Call
<1>2. CASE call' = [call EXCEPT ![c] = [@ EXCEPT !.pc = pc, !.handle = h]]
  <2> DEFINE q == [call[c] EXCEPT !.pc = pc, !.handle = h]
  <2>1. q \in Call
    BY <1>0 DEF Call
  <2>2. Alone(c) /\ call'[c] = q
    BY <1>2, <2>1, Becoming
  <2> QED BY <1>0, <2>2 DEF GoesTo, Call
<1> QED BY <1>1, <1>2

LEMMA MovingWithText ==
    ASSUME TypeOK, NEW c \in Calls, NEW pc \in Points, NEW text \in Texts,
           pc \notin {"running", "checking"},
           call' = [call EXCEPT ![c] = [@ EXCEPT !.pc = pc, !.text = text]]
    PROVE  GoesTo(c, pc, call[c].handle) /\ call'[c].text = text
<1> DEFINE q == [call[c] EXCEPT !.pc = pc, !.text = text]
<1>0. call[c] \in Call
  BY CallFields
<1>1. q \in Call
  BY <1>0 DEF Call
<1>2. Alone(c) /\ call'[c] = q
  BY <1>1, Becoming
<1>3. /\ q.pc = pc /\ q.handle = call[c].handle /\ q.text = text /\ q.key = call[c].key
      /\ q.policy = call[c].policy /\ q.again = call[c].again /\ q.failed = call[c].failed
      /\ q.seen = call[c].seen
  BY <1>0 DEF Call
<1> HIDE DEF q
<1> QED BY <1>2, <1>3 DEF GoesTo

LEMMA HandOverEffect ==
    ASSUME TypeOK, NEW c \in Calls, NEW s \in Sandboxes, HandOver(c, s)
    PROVE  Ends(c) \/ GoesTo(c, "running", s)
BY EndEffect, Running DEF HandOver

LEMMA RaiseEffect ==
    ASSUME TypeOK, NEW c \in Calls, NEW h \in Sandboxes \cup {None},
           Raise(c, h) \/ EndOrRetry(c, h)
    PROVE  Ends(c) \/ GivesUp(c, h)
<1>1. ASSUME NEW next \in {"retry", "raise"}, Invalidating(c, h, next)
      PROVE  GivesUp(c, h)
  <2> DEFINE q == [call[c] EXCEPT !.pc = "invalidating", !.handle = h, !.failed = h,
                                  !.text = None, !.next = next, !.seen = {}]
  <2>0. call[c] \in Call
    BY CallFields
  <2>1. q \in Call
    BY <2>0 DEF Call, Points
  <2>2. Alone(c) /\ call'[c] = q
    BY <1>1, <2>1, Becoming DEF Invalidating
  <2> QED BY <2>0, <2>2 DEF GivesUp, Call
<1> QED BY <1>1, EndEffect DEF Raise, EndOrRetry

LEMMA AfterEffect ==
    ASSUME TypeOK, NEW c \in Calls, AfterInvalidation(c)
    PROVE  Ends(c) \/ BeginsAgain(c)
<1>1. CASE call' = [call EXCEPT ![c] =
                         [@ EXCEPT !.pc = "entering", !.again = TRUE, !.handle = None]]
  <2> DEFINE q == [call[c] EXCEPT !.pc = "entering", !.again = TRUE, !.handle = None]
  <2>0. call[c] \in Call
    BY CallFields
  <2>1. q \in Call
    BY <2>0 DEF Call, Points
  <2>2. Alone(c) /\ call'[c] = q
    BY <1>1, <2>1, Becoming
  <2> QED BY <2>0, <2>2 DEF BeginsAgain, Call
<1> QED BY <1>1, EndEffect DEF AfterInvalidation

\* An installation, however it ends, puts lines of requirements into a sandbox.
LEMMA PackagesType ==
    ASSUME TypeOK, NEW s \in Sandboxes, NEW text \in Texts,
           Equip(s, text) \/ EquipFails(s, text)
    PROVE  packages' \in [Sandboxes -> SUBSET Requirements]
<1>1. packages \in [Sandboxes -> SUBSET Requirements] /\ text \in SUBSET Requirements
  BY ConstantsAssumption DEF TypeOK
<1>2. ASSUME NEW P \in SUBSET Requirements, packages' = [packages EXCEPT ![s] = P]
      PROVE  packages' \in [Sandboxes -> SUBSET Requirements]
  BY <1>1, <1>2
<1>3. \A P \in SUBSET (packages[s] \cup text) : P \in SUBSET Requirements
  BY <1>1
<1>4. \A new \in {text, text \ Skipped} : packages[s] \cup new \in SUBSET Requirements
  BY <1>1
<1>5. CASE UNCHANGED packages
  BY <1>1, <1>5
<1> QED BY <1>2, <1>3, <1>4, <1>5 DEF Equip, EquipFails

-----------------------------------------------------------------------------
(* Each action preserves the invariant.                                    *)

LEMMA EnterStep ==
    ASSUME IInv, NEW c \in Calls, Enter(c)
    PROVE  IInv' /\ Ready
<1>0. TypeOK /\ \A d \in Calls : call[d].key \in Keys /\ call[d].handle \in Sandboxes \cup {None}
  BY CallFields DEF IInv
<1>1. GoesTo(c, "queued", call[c].handle)
  <2>1. "queued" \in Points /\ call[c].handle \in Sandboxes \cup {None}
    BY <1>0 DEF Points, TypeOK
  <2> QED BY <1>0, <2>1, MovingOn DEF Enter
<1> USE <1>0, <1>1, ConstantsAssumption DEF Enter, Alone, GoesTo, IInv, TypeOK, SettingUp, locks,
    sandbox
<1>2. LocksAreTheirs' BY DEF LocksAreTheirs, LockInv
<1>3. TypeOK' BY <1>2, CallFields
<1>4. LockInv' BY DEF LockInv, LocksAreTheirs
<1>5. HandleInv' BY DEF HandleInv, LockInv, SetUpAlone, TableInv
<1>6. TableInv' BY DEF TableInv, HandleInv
<1>7. FailedInv' BY DEF FailedInv, HandleInv, TableInv
<1>8. RetryIsElsewhere' BY DEF RetryIsElsewhere, FailedInv, HandleInv
<1>9. TextInv' BY DEF TextInv, HandleInv, SetUpAlone, HonestInv, Satisfies
<1>10. HonestInv' BY DEF HonestInv, TextInv, Satisfies
<1>11. SetUpAlone' BY DEF SetUpAlone, HandleInv, LockInv
<1>12. NothingIsForgotten' BY DEF NothingIsForgotten, HandleInv
<1>13. Ready BY DEF Ready, TextInv, HonestInv, Satisfies
<1> QED BY <1>3, <1>4, <1>5, <1>6, <1>7, <1>8, <1>9, <1>10, <1>11, <1>12, <1>13

LEMMA AcquireKeyStep ==
    ASSUME IInv, NEW c \in Calls, AcquireKey(c)
    PROVE  IInv' /\ Ready
<1>0. TypeOK /\ \A d \in Calls : call[d].key \in Keys /\ call[d].handle \in Sandboxes \cup {None}
  BY CallFields DEF IInv
<1>1. GoesTo(c, "checking", call[c].handle)
  BY <1>0, BeginningToCheck DEF AcquireKey
<1> USE <1>0, <1>1, ConstantsAssumption DEF AcquireKey, Alone, GoesTo, IInv, TypeOK, SettingUp,
    locks, sandbox
<1>2. LocksAreTheirs' BY DEF LocksAreTheirs, LockInv
<1>3. TypeOK' BY <1>2, CallFields
<1>4. LockInv' BY DEF LockInv, LocksAreTheirs
<1>5. HandleInv' BY DEF HandleInv, LockInv, SetUpAlone, TableInv
<1>6. TableInv' BY DEF TableInv, HandleInv
<1>7. FailedInv' BY DEF FailedInv, HandleInv, TableInv
<1>8. RetryIsElsewhere' BY DEF RetryIsElsewhere, FailedInv, HandleInv
<1>9. TextInv' BY DEF TextInv, HandleInv, SetUpAlone, HonestInv, Satisfies
<1>10. HonestInv' BY DEF HonestInv, TextInv, Satisfies
<1>11. SetUpAlone' BY DEF SetUpAlone, HandleInv, LockInv
<1>12. NothingIsForgotten' BY DEF NothingIsForgotten, HandleInv
<1>13. Ready BY DEF Ready, TextInv, HonestInv, Satisfies
<1> QED BY <1>3, <1>4, <1>5, <1>6, <1>7, <1>8, <1>9, <1>10, <1>11, <1>12, <1>13

LEMMA ReuseStep ==
    ASSUME IInv, NEW c \in Calls, Reuse(c)
    PROVE  IInv' /\ Ready
<1>0. TypeOK /\ \A d \in Calls : call[d].key \in Keys /\ call[d].handle \in Sandboxes \cup {None}
  BY CallFields DEF IInv
<1>1. /\ table[call[c].key] \in Sandboxes
      /\ \/ Leave(c) /\ Ends(c)
         \/ Leave(c) /\ GoesTo(c, "running", table[call[c].key])
  <2>1. table[call[c].key] \in Sandboxes
    BY <1>0 DEF Reuse, Checking, Matches, Leave, IInv, HandleInv, SettingUp, TypeOK
  <2> QED BY <1>0, <2>1, HandOverEffect DEF Reuse, HandOver
<1> USE <1>0, <1>1, ConstantsAssumption DEF Reuse, Checking, Matches, Leave, Alone, Ends, GoesTo,
    IInv, TypeOK, SettingUp, locks, sandbox
<1>2. LocksAreTheirs' BY DEF LocksAreTheirs, LockInv
<1>3. TypeOK' BY <1>2, CallFields
<1>4. LockInv' BY DEF LockInv, LocksAreTheirs
<1>5. HandleInv' BY DEF HandleInv, LockInv, SetUpAlone, TableInv
<1>6. TableInv' BY DEF TableInv, HandleInv
<1>7. FailedInv' BY DEF FailedInv, HandleInv, TableInv
<1>8. RetryIsElsewhere' BY DEF RetryIsElsewhere, FailedInv, HandleInv
<1>9. TextInv' BY DEF TextInv, HandleInv, SetUpAlone, HonestInv, Satisfies
<1>10. HonestInv' BY DEF HonestInv, TextInv, Satisfies
<1>11. SetUpAlone' BY DEF SetUpAlone, HandleInv, LockInv
<1>12. NothingIsForgotten' BY DEF NothingIsForgotten, HandleInv
<1>13. Ready BY DEF Ready, TextInv, HonestInv, Satisfies
<1> QED BY <1>3, <1>4, <1>5, <1>6, <1>7, <1>8, <1>9, <1>10, <1>11, <1>12, <1>13

LEMMA StartVerifyStep ==
    ASSUME IInv, NEW c \in Calls, StartVerify(c)
    PROVE  IInv' /\ Ready
<1>0. TypeOK /\ \A d \in Calls : call[d].key \in Keys /\ call[d].handle \in Sandboxes \cup {None}
  BY CallFields DEF IInv
<1>1. GoesTo(c, "verifying", table[call[c].key])
  <2>1. "verifying" \in Points /\ table[call[c].key] \in Sandboxes \cup {None}
    BY <1>0 DEF Points, TypeOK
  <2> QED BY <1>0, <2>1, MovingOn DEF StartVerify, Checking, Matches, Take
<1> USE <1>0, <1>1, ConstantsAssumption DEF StartVerify, Checking, Matches, Take, Alone, GoesTo,
    IInv, TypeOK, SettingUp, locks, sandbox
<1>2. LocksAreTheirs' BY DEF LocksAreTheirs, LockInv
<1>3. TypeOK' BY <1>2, CallFields
<1>4. LockInv' BY DEF LockInv, LocksAreTheirs
<1>5. HandleInv' BY DEF HandleInv, LockInv, SetUpAlone, TableInv
<1>6. TableInv' BY DEF TableInv, HandleInv
<1>7. FailedInv' BY DEF FailedInv, HandleInv, TableInv
<1>8. RetryIsElsewhere' BY DEF RetryIsElsewhere, FailedInv, HandleInv
<1>9. TextInv' BY DEF TextInv, HandleInv, SetUpAlone, HonestInv, Satisfies
<1>10. HonestInv' BY DEF HonestInv, TextInv, Satisfies
<1>11. SetUpAlone' BY DEF SetUpAlone, HandleInv, LockInv
<1>12. NothingIsForgotten' BY DEF NothingIsForgotten, HandleInv
<1>13. Ready BY DEF Ready, TextInv, HonestInv, Satisfies
<1> QED BY <1>3, <1>4, <1>5, <1>6, <1>7, <1>8, <1>9, <1>10, <1>11, <1>12, <1>13

LEMMA StartReplaceStep ==
    ASSUME IInv, NEW c \in Calls, StartReplace(c)
    PROVE  IInv' /\ Ready
<1>0. TypeOK /\ \A d \in Calls : call[d].key \in Keys /\ call[d].handle \in Sandboxes \cup {None}
  BY CallFields DEF IInv
<1>1. GoesTo(c, "replacing", table[call[c].key])
  <2>1. "replacing" \in Points /\ table[call[c].key] \in Sandboxes \cup {None}
    BY <1>0 DEF Points, TypeOK
  <2> QED BY <1>0, <2>1, MovingOn DEF StartReplace, Checking, Matches, Take
<1> USE <1>0, <1>1, ConstantsAssumption DEF StartReplace, Checking, Matches, Take, Alone, GoesTo,
    IInv, TypeOK, SettingUp, locks, sandbox
<1>2. LocksAreTheirs' BY DEF LocksAreTheirs, LockInv
<1>3. TypeOK' BY <1>2, CallFields
<1>4. LockInv' BY DEF LockInv, LocksAreTheirs
<1>5. HandleInv' BY DEF HandleInv, LockInv, SetUpAlone, TableInv
<1>6. TableInv' BY DEF TableInv, HandleInv
<1>7. FailedInv' BY DEF FailedInv, HandleInv, TableInv
<1>8. RetryIsElsewhere' BY DEF RetryIsElsewhere, FailedInv, HandleInv
<1>9. TextInv' BY DEF TextInv, HandleInv, SetUpAlone, HonestInv, Satisfies
<1>10. HonestInv' BY DEF HonestInv, TextInv, Satisfies
<1>11. SetUpAlone' BY DEF SetUpAlone, HandleInv, LockInv
<1>12. NothingIsForgotten' BY DEF NothingIsForgotten, HandleInv
<1>13. Ready BY DEF Ready, TextInv, HonestInv, Satisfies
<1> QED BY <1>3, <1>4, <1>5, <1>6, <1>7, <1>8, <1>9, <1>10, <1>11, <1>12, <1>13

LEMMA StartCreateStep ==
    ASSUME IInv, NEW c \in Calls, StartCreate(c)
    PROVE  IInv' /\ Ready
<1>0. TypeOK /\ \A d \in Calls : call[d].key \in Keys /\ call[d].handle \in Sandboxes \cup {None}
  BY CallFields DEF IInv
<1>1. GoesTo(c, "creating", None)
  <2>1. "creating" \in Points /\ None \in Sandboxes \cup {None}
    BY <1>0 DEF Points, TypeOK
  <2> QED BY <1>0, <2>1, MovingOn DEF StartCreate, Checking, Take
<1> USE <1>0, <1>1, ConstantsAssumption DEF StartCreate, Checking, Take, Alone, GoesTo, IInv,
    TypeOK, SettingUp, locks, sandbox
<1>2. LocksAreTheirs' BY DEF LocksAreTheirs, LockInv
<1>3. TypeOK' BY <1>2, CallFields
<1>4. LockInv' BY DEF LockInv, LocksAreTheirs
<1>5. HandleInv' BY DEF HandleInv, LockInv, SetUpAlone, TableInv
<1>6. TableInv' BY DEF TableInv, HandleInv
<1>7. FailedInv' BY DEF FailedInv, HandleInv, TableInv
<1>8. RetryIsElsewhere' BY DEF RetryIsElsewhere, FailedInv, HandleInv
<1>9. TextInv' BY DEF TextInv, HandleInv, SetUpAlone, HonestInv, Satisfies
<1>10. HonestInv' BY DEF HonestInv, TextInv, Satisfies
<1>11. SetUpAlone' BY DEF SetUpAlone, HandleInv, LockInv
<1>12. NothingIsForgotten' BY DEF NothingIsForgotten, HandleInv
<1>13. Ready BY DEF Ready, TextInv, HonestInv, Satisfies
<1> QED BY <1>3, <1>4, <1>5, <1>6, <1>7, <1>8, <1>9, <1>10, <1>11, <1>12, <1>13

LEMMA VerifiedStep ==
    ASSUME IInv, NEW c \in Calls, Verified(c)
    PROVE  IInv' /\ Ready
<1>0. TypeOK /\ \A d \in Calls : call[d].key \in Keys /\ call[d].handle \in Sandboxes \cup {None}
  BY CallFields DEF IInv
<1>1. /\ call[c].handle \in Sandboxes
      /\ \/ Leave(c) /\ Ends(c)
         \/ Leave(c) /\ GoesTo(c, "running", call[c].handle)
  <2>1. call[c].handle \in Sandboxes
    BY <1>0 DEF Verified, Leave, IInv, HandleInv, SettingUp, TypeOK
  <2> QED BY <1>0, <2>1, HandOverEffect DEF Verified, HandOver
<1> USE <1>0, <1>1, ConstantsAssumption DEF Verified, Leave, Alone, Ends, GoesTo, IInv, TypeOK,
    SettingUp, locks, sandbox
<1>2. LocksAreTheirs' BY DEF LocksAreTheirs, LockInv
<1>3. TypeOK' BY <1>2, CallFields
<1>4. LockInv' BY DEF LockInv, LocksAreTheirs
<1>5. HandleInv' BY DEF HandleInv, LockInv, SetUpAlone, TableInv
<1>6. TableInv' BY DEF TableInv, HandleInv
<1>7. FailedInv' BY DEF FailedInv, HandleInv, TableInv
<1>8. RetryIsElsewhere' BY DEF RetryIsElsewhere, FailedInv, HandleInv
<1>9. TextInv' BY DEF TextInv, HandleInv, SetUpAlone, HonestInv, Satisfies
<1>10. HonestInv' BY DEF HonestInv, TextInv, Satisfies
<1>11. SetUpAlone' BY DEF SetUpAlone, HandleInv, LockInv
<1>12. NothingIsForgotten' BY DEF NothingIsForgotten, HandleInv
<1>13. Ready BY DEF Ready, TextInv, HonestInv, Satisfies
<1> QED BY <1>3, <1>4, <1>5, <1>6, <1>7, <1>8, <1>9, <1>10, <1>11, <1>12, <1>13

LEMMA ReinstallStep ==
    ASSUME IInv, NEW c \in Calls, Reinstall(c)
    PROVE  IInv' /\ Ready
<1>0. TypeOK /\ \A d \in Calls : call[d].key \in Keys /\ call[d].handle \in Sandboxes \cup {None}
  BY CallFields DEF IInv
<1>1. /\ call[c].handle \in Sandboxes
      /\ \/ Leave(c) /\ Ends(c)
         \/ Leave(c) /\ GoesTo(c, "running", call[c].handle)
         \/ /\ requirements # {}
            /\ GoesTo(c, "reinstalling", call[c].handle)
            /\ call'[c].text = requirements
  <2>1. call[c].handle \in Sandboxes
    BY <1>0 DEF Reinstall, Leave, Equip, IInv, HandleInv, SettingUp, TypeOK
  <2>2. "reinstalling" \in Points /\ requirements \in Texts
    BY <1>0 DEF Points, TypeOK
  <2>3. CASE HandOver(c, call[c].handle)
    BY <1>0, <2>1, <2>3, HandOverEffect DEF HandOver
  <2>4. CASE /\ requirements # {}
             /\ call' = [call EXCEPT ![c] = [@ EXCEPT !.pc = "reinstalling", !.text = requirements]]
    <3>1. "reinstalling" \notin {"running", "checking"}
      OBVIOUS
    <3> QED BY <1>0, <2>1, <2>2, <2>4, <3>1, MovingWithText
  <2> QED BY <2>1, <2>3, <2>4 DEF Reinstall
<1>1a. packages' \in [Sandboxes -> SUBSET Requirements]
  <2>1. CASE requirements = {} /\ Equip(call[c].handle, {})
    <3>1. {} \in Texts
      BY <1>0, <2>1 DEF TypeOK
    <3> QED BY <1>0, <1>1, <2>1, <3>1, PackagesType
  <2>2. CASE UNCHANGED packages
    BY <1>0, <2>2 DEF TypeOK
  <2> QED BY <2>1, <2>2 DEF Reinstall
<1>1b. installed' \in [Sandboxes -> Texts \cup {None}]
  <2>1. \/ requirements = {} /\ installed' = [installed EXCEPT ![call[c].handle] = requirements]
        \/ installed' = [installed EXCEPT ![call[c].handle] = None]
    BY DEF Reinstall, Equip
  <2> QED BY <1>0, <2>1 DEF TypeOK
<1> USE <1>0, <1>1, ConstantsAssumption DEF Reinstall, Leave, Equip, Alone, Ends, GoesTo, IInv,
    TypeOK, SettingUp, locks, sandbox
<1>2. LocksAreTheirs' BY DEF LocksAreTheirs, LockInv
<1>3. TypeOK'
  <2>1. /\ call' \in [Calls -> Call] /\ lock' \in Calls \cup {NoCall}
        /\ keyLock' \in [Keys -> Calls \cup {NoCall}]
    BY CallFields
  <2> QED BY <1>1a, <1>1b, <1>2, <2>1
<1>4. LockInv' BY DEF LockInv, LocksAreTheirs
<1>5. HandleInv' BY DEF HandleInv, LockInv, SetUpAlone, TableInv
<1>6. TableInv' BY DEF TableInv, HandleInv
<1>7. FailedInv' BY DEF FailedInv, HandleInv, TableInv
<1>8. RetryIsElsewhere' BY DEF RetryIsElsewhere, FailedInv, HandleInv
<1>9. TextInv' BY DEF TextInv, HandleInv, SetUpAlone, HonestInv, Satisfies
<1>10. HonestInv' BY DEF HonestInv, TextInv, Satisfies
<1>11. SetUpAlone' BY DEF SetUpAlone, HandleInv, LockInv
<1>12. NothingIsForgotten' BY DEF NothingIsForgotten, HandleInv
<1>13. Ready BY DEF Ready, TextInv, HonestInv, Satisfies
<1> QED BY <1>3, <1>4, <1>5, <1>6, <1>7, <1>8, <1>9, <1>10, <1>11, <1>12, <1>13

LEMMA ReinstalledStep ==
    ASSUME IInv, NEW c \in Calls, Reinstalled(c)
    PROVE  IInv' /\ Ready
<1>0. TypeOK /\ \A d \in Calls : call[d].key \in Keys /\ call[d].handle \in Sandboxes \cup {None}
  BY CallFields DEF IInv
<1>1. /\ call[c].handle \in Sandboxes
      /\ \/ Leave(c) /\ Ends(c)
         \/ Leave(c) /\ GoesTo(c, "running", call[c].handle)
  <2>1. call[c].handle \in Sandboxes
    BY <1>0 DEF Reinstalled, Leave, Equip, IInv, HandleInv, SettingUp, TypeOK
  <2> QED BY <1>0, <2>1, HandOverEffect DEF Reinstalled, HandOver
<1>1a. packages' \in [Sandboxes -> SUBSET Requirements]
  <2>1. call[c].handle \in Sandboxes /\ call[c].text \in Texts
    BY <1>0, CallFields DEF Reinstalled, IInv, HandleInv, TextInv, SettingUp
  <2> QED BY <1>0, <2>1, PackagesType DEF Reinstalled
<1> USE <1>0, <1>1, ConstantsAssumption DEF Reinstalled, Leave, Equip, Alone, Ends, GoesTo, IInv,
    TypeOK, SettingUp, locks, sandbox
<1>2. LocksAreTheirs' BY DEF LocksAreTheirs, LockInv
<1>3. TypeOK' BY <1>1a, <1>2, CallFields
<1>4. LockInv' BY DEF LockInv, LocksAreTheirs
<1>5. HandleInv' BY DEF HandleInv, LockInv, SetUpAlone, TableInv
<1>6. TableInv' BY DEF TableInv, HandleInv
<1>7. FailedInv' BY DEF FailedInv, HandleInv, TableInv
<1>8. RetryIsElsewhere' BY DEF RetryIsElsewhere, FailedInv, HandleInv
<1>9. TextInv' BY DEF TextInv, HandleInv, SetUpAlone, HonestInv, Satisfies
<1>10. HonestInv' BY DEF HonestInv, TextInv, Satisfies
<1>11. SetUpAlone' BY DEF SetUpAlone, HandleInv, LockInv
<1>12. NothingIsForgotten' BY DEF NothingIsForgotten, HandleInv
<1>13. Ready BY DEF Ready, TextInv, HonestInv, Satisfies
<1> QED BY <1>3, <1>4, <1>5, <1>6, <1>7, <1>8, <1>9, <1>10, <1>11, <1>12, <1>13

LEMMA ReinstallFailsStep ==
    ASSUME IInv, NEW c \in Calls, ReinstallFails(c)
    PROVE  IInv' /\ Ready
<1>0. TypeOK /\ \A d \in Calls : call[d].key \in Keys /\ call[d].handle \in Sandboxes \cup {None}
  BY CallFields DEF IInv
<1>1. Ends(c) \/ GivesUp(c, None)
  BY <1>0, RaiseEffect DEF ReinstallFails
<1>1a. packages' \in [Sandboxes -> SUBSET Requirements]
  <2>1. call[c].handle \in Sandboxes /\ call[c].text \in Texts
    BY <1>0, CallFields DEF ReinstallFails, IInv, HandleInv, TextInv, SettingUp
  <2> QED BY <1>0, <2>1, PackagesType DEF ReinstallFails
<1> USE <1>0, <1>1, ConstantsAssumption DEF ReinstallFails, EquipFails, Leave, Alone, Ends,
    GivesUp, IInv, TypeOK, SettingUp, locks, sandbox
<1>2. LocksAreTheirs' BY DEF LocksAreTheirs, LockInv
<1>3. TypeOK' BY <1>1a, <1>2, CallFields
<1>4. LockInv' BY DEF LockInv, LocksAreTheirs
<1>5. HandleInv' BY DEF HandleInv, LockInv, SetUpAlone, TableInv
<1>6. TableInv' BY DEF TableInv, HandleInv
<1>7. FailedInv' BY DEF FailedInv, HandleInv, TableInv
<1>8. RetryIsElsewhere' BY DEF RetryIsElsewhere, FailedInv, HandleInv
<1>9. TextInv' BY DEF TextInv, HandleInv, SetUpAlone, HonestInv, Satisfies
<1>10. HonestInv' BY DEF HonestInv, TextInv, Satisfies
<1>11. SetUpAlone' BY DEF SetUpAlone, HandleInv, LockInv
<1>12. NothingIsForgotten' BY DEF NothingIsForgotten, HandleInv
<1>13. Ready BY DEF Ready, TextInv, HonestInv, Satisfies
<1> QED BY <1>3, <1>4, <1>5, <1>6, <1>7, <1>8, <1>9, <1>10, <1>11, <1>12, <1>13

LEMMA ReplacedStep ==
    ASSUME IInv, NEW c \in Calls, Replaced(c)
    PROVE  IInv' /\ Ready
<1>0. TypeOK /\ \A d \in Calls : call[d].key \in Keys /\ call[d].handle \in Sandboxes \cup {None}
  BY CallFields DEF IInv
<1>1. GoesTo(c, "creating", None)
  <2>1. "creating" \in Points /\ None \in Sandboxes \cup {None}
    BY <1>0 DEF Points, TypeOK
  <2> QED BY <1>0, <2>1, MovingOn DEF Replaced, Disposed
<1> USE <1>0, <1>1, ConstantsAssumption DEF Replaced, Disposed, Alone, GoesTo, IInv, TypeOK,
    SettingUp, locks, sandbox
<1>2. LocksAreTheirs' BY DEF LocksAreTheirs, LockInv
<1>3. TypeOK' BY <1>2, CallFields
<1>4. LockInv' BY DEF LockInv, LocksAreTheirs
<1>5. HandleInv' BY DEF HandleInv, LockInv, SetUpAlone, TableInv
<1>6. TableInv' BY DEF TableInv, HandleInv
<1>7. FailedInv' BY DEF FailedInv, HandleInv, TableInv
<1>8. RetryIsElsewhere' BY DEF RetryIsElsewhere, FailedInv, HandleInv
<1>9. TextInv' BY DEF TextInv, HandleInv, SetUpAlone, HonestInv, Satisfies
<1>10. HonestInv' BY DEF HonestInv, TextInv, Satisfies
<1>11. SetUpAlone' BY DEF SetUpAlone, HandleInv, LockInv
<1>12. NothingIsForgotten' BY DEF NothingIsForgotten, HandleInv
<1>13. Ready BY DEF Ready, TextInv, HonestInv, Satisfies
<1> QED BY <1>3, <1>4, <1>5, <1>6, <1>7, <1>8, <1>9, <1>10, <1>11, <1>12, <1>13

LEMMA CreatedStep ==
    ASSUME IInv, NEW c \in Calls, NEW s \in Sandboxes, Created(c, s)
    PROVE  IInv' /\ Ready
<1>0. TypeOK /\ \A d \in Calls : call[d].key \in Keys /\ call[d].handle \in Sandboxes \cup {None}
  BY CallFields DEF IInv
<1>1. /\ GoesTo(c, call'[c].pc, s)
      /\ call'[c].pc = IF requirements = {} THEN "binding" ELSE "installing"
      /\ call'[c].text = requirements
  <2>0. call[c] \in Call /\ requirements \in Texts
    BY <1>0, CallFields DEF TypeOK
  <2>1. ASSUME NEW pc \in {"binding", "installing"},
               call' = [call EXCEPT ![c] =
                           [@ EXCEPT !.pc = pc, !.handle = s, !.text = requirements]]
        PROVE  GoesTo(c, pc, s) /\ call'[c].text = requirements
    <3> DEFINE q == [call[c] EXCEPT !.pc = pc, !.handle = s, !.text = requirements]
    <3>1. q \in Call
      BY <2>0 DEF Call, Points
    <3>2. Alone(c) /\ call'[c] = q
      BY <1>0, <2>1, <3>1, Becoming
    <3> QED BY <2>0, <3>2 DEF GoesTo, Call
  <2>2. CASE requirements = {}
    BY <2>1, <2>2 DEF Created, NewSandbox, GoesTo
  <2>3. CASE requirements # {}
    BY <2>1, <2>3 DEF Created, NewSandbox, GoesTo
  <2> QED BY <2>2, <2>3
<1>1a. installed' \in [Sandboxes -> Texts \cup {None}]
  <2>1. Bare \in Texts \cup {None}
    BY <1>0 DEF Bare, TypeOK
  <2> QED BY <1>0, <2>1 DEF Created, NewSandbox, TypeOK
<1> USE <1>0, <1>1, ConstantsAssumption DEF Created, Unused, Named, NewSandbox, Bare, Alone,
    GoesTo, IInv, TypeOK, SettingUp, locks, sandbox
<1>2. LocksAreTheirs' BY DEF LocksAreTheirs, LockInv
<1>3. TypeOK' BY <1>1a, <1>2, CallFields
<1>4. LockInv' BY DEF LockInv, LocksAreTheirs
<1>5. HandleInv' BY DEF HandleInv, LockInv, SetUpAlone, TableInv
<1>6. TableInv' BY DEF TableInv, HandleInv
<1>7. FailedInv' BY DEF FailedInv, HandleInv, TableInv
<1>8. RetryIsElsewhere' BY DEF RetryIsElsewhere, FailedInv, HandleInv
<1>9. TextInv' BY DEF TextInv, HandleInv, SetUpAlone, HonestInv, Satisfies
<1>10. HonestInv' BY DEF HonestInv, TextInv, Satisfies
<1>11. SetUpAlone' BY DEF SetUpAlone, HandleInv, LockInv
<1>12. NothingIsForgotten' BY DEF NothingIsForgotten, HandleInv
<1>13. Ready BY DEF Ready, TextInv, HonestInv, Satisfies
<1> QED BY <1>3, <1>4, <1>5, <1>6, <1>7, <1>8, <1>9, <1>10, <1>11, <1>12, <1>13

LEMMA CreateFailsStep ==
    ASSUME IInv, NEW c \in Calls, CreateFails(c)
    PROVE  IInv' /\ Ready
<1>0. TypeOK /\ \A d \in Calls : call[d].key \in Keys /\ call[d].handle \in Sandboxes \cup {None}
  BY CallFields DEF IInv
<1>1. Ends(c) \/ GivesUp(c, None)
  BY <1>0, RaiseEffect DEF CreateFails
<1> USE <1>0, <1>1, ConstantsAssumption DEF CreateFails, CreatedUnseen, Unused, Named, Leave,
    Alone, Ends, GivesUp, IInv, TypeOK, SettingUp, locks, sandbox
<1>2. LocksAreTheirs' BY DEF LocksAreTheirs, LockInv
<1>3. TypeOK' BY <1>2, CallFields
<1>4. LockInv' BY DEF LockInv, LocksAreTheirs
<1>5. HandleInv' BY DEF HandleInv, LockInv, SetUpAlone, TableInv
<1>6. TableInv' BY DEF TableInv, HandleInv
<1>7. FailedInv' BY DEF FailedInv, HandleInv, TableInv
<1>8. RetryIsElsewhere' BY DEF RetryIsElsewhere, FailedInv, HandleInv
<1>9. TextInv' BY DEF TextInv, HandleInv, SetUpAlone, HonestInv, Satisfies
<1>10. HonestInv' BY DEF HonestInv, TextInv, Satisfies
<1>11. SetUpAlone' BY DEF SetUpAlone, HandleInv, LockInv
<1>12. NothingIsForgotten' BY DEF NothingIsForgotten, HandleInv
<1>13. Ready BY DEF Ready, TextInv, HonestInv, Satisfies
<1> QED BY <1>3, <1>4, <1>5, <1>6, <1>7, <1>8, <1>9, <1>10, <1>11, <1>12, <1>13

LEMMA InstalledStep ==
    ASSUME IInv, NEW c \in Calls, Installed(c)
    PROVE  IInv' /\ Ready
<1>0. TypeOK /\ \A d \in Calls : call[d].key \in Keys /\ call[d].handle \in Sandboxes \cup {None}
  BY CallFields DEF IInv
<1>1. GoesTo(c, "binding", call[c].handle)
  <2>1. "binding" \in Points /\ call[c].handle \in Sandboxes \cup {None}
    BY <1>0 DEF Points, TypeOK
  <2> QED BY <1>0, <2>1, MovingOn DEF Installed, Equip
<1>1a. packages' \in [Sandboxes -> SUBSET Requirements]
  <2>1. call[c].handle \in Sandboxes /\ call[c].text \in Texts
    BY <1>0, CallFields DEF Installed, IInv, HandleInv, TextInv, SettingUp
  <2> QED BY <1>0, <2>1, PackagesType DEF Installed
<1> USE <1>0, <1>1, ConstantsAssumption DEF Installed, Equip, Alone, GoesTo, IInv, TypeOK,
    SettingUp, locks, sandbox
<1>2. LocksAreTheirs' BY DEF LocksAreTheirs, LockInv
<1>3. TypeOK' BY <1>1a, <1>2, CallFields
<1>4. LockInv' BY DEF LockInv, LocksAreTheirs
<1>5. HandleInv' BY DEF HandleInv, LockInv, SetUpAlone, TableInv
<1>6. TableInv' BY DEF TableInv, HandleInv
<1>7. FailedInv' BY DEF FailedInv, HandleInv, TableInv
<1>8. RetryIsElsewhere' BY DEF RetryIsElsewhere, FailedInv, HandleInv
<1>9. TextInv' BY DEF TextInv, HandleInv, SetUpAlone, HonestInv, Satisfies
<1>10. HonestInv' BY DEF HonestInv, TextInv, Satisfies
<1>11. SetUpAlone' BY DEF SetUpAlone, HandleInv, LockInv
<1>12. NothingIsForgotten' BY DEF NothingIsForgotten, HandleInv
<1>13. Ready BY DEF Ready, TextInv, HonestInv, Satisfies
<1> QED BY <1>3, <1>4, <1>5, <1>6, <1>7, <1>8, <1>9, <1>10, <1>11, <1>12, <1>13

LEMMA InstallFailsStep ==
    ASSUME IInv, NEW c \in Calls, InstallFails(c)
    PROVE  IInv' /\ Ready
<1>0. TypeOK /\ \A d \in Calls : call[d].key \in Keys /\ call[d].handle \in Sandboxes \cup {None}
  BY CallFields DEF IInv
<1>1. Ends(c) \/ GivesUp(c, None)
  BY <1>0, RaiseEffect DEF InstallFails
<1>1a. packages' \in [Sandboxes -> SUBSET Requirements]
  <2>1. call[c].handle \in Sandboxes /\ call[c].text \in Texts
    BY <1>0, CallFields DEF InstallFails, IInv, HandleInv, TextInv, SettingUp
  <2> QED BY <1>0, <2>1, PackagesType DEF InstallFails
<1> USE <1>0, <1>1, ConstantsAssumption DEF InstallFails, EquipFails, Leave, Alone, Ends, GivesUp,
    IInv, TypeOK, SettingUp, locks, sandbox
<1>2. LocksAreTheirs' BY DEF LocksAreTheirs, LockInv
<1>3. TypeOK' BY <1>1a, <1>2, CallFields
<1>4. LockInv' BY DEF LockInv, LocksAreTheirs
<1>5. HandleInv' BY DEF HandleInv, LockInv, SetUpAlone, TableInv
<1>6. TableInv' BY DEF TableInv, HandleInv
<1>7. FailedInv' BY DEF FailedInv, HandleInv, TableInv
<1>8. RetryIsElsewhere' BY DEF RetryIsElsewhere, FailedInv, HandleInv
<1>9. TextInv' BY DEF TextInv, HandleInv, SetUpAlone, HonestInv, Satisfies
<1>10. HonestInv' BY DEF HonestInv, TextInv, Satisfies
<1>11. SetUpAlone' BY DEF SetUpAlone, HandleInv, LockInv
<1>12. NothingIsForgotten' BY DEF NothingIsForgotten, HandleInv
<1>13. Ready BY DEF Ready, TextInv, HonestInv, Satisfies
<1> QED BY <1>3, <1>4, <1>5, <1>6, <1>7, <1>8, <1>9, <1>10, <1>11, <1>12, <1>13

LEMMA BindStep ==
    ASSUME IInv, NEW c \in Calls, Bind(c)
    PROVE  IInv' /\ Ready
<1>0. TypeOK /\ \A d \in Calls : call[d].key \in Keys /\ call[d].handle \in Sandboxes \cup {None}
  BY CallFields DEF IInv
<1>1. /\ call[c].handle \in Sandboxes
      /\ \/ Leave(c) /\ Ends(c)
         \/ Leave(c) /\ GoesTo(c, "running", call[c].handle)
  <2>1. call[c].handle \in Sandboxes
    BY <1>0 DEF Bind, Leave, IInv, HandleInv, SettingUp, TypeOK
  <2> QED BY <1>0, <2>1, HandOverEffect DEF Bind, HandOver
<1> USE <1>0, <1>1, ConstantsAssumption DEF Bind, Leave, Alone, Ends, GoesTo, IInv, TypeOK,
    SettingUp, locks, sandbox
<1>2. LocksAreTheirs' BY DEF LocksAreTheirs, LockInv
<1>3. TypeOK' BY <1>2, CallFields
<1>4. LockInv' BY DEF LockInv, LocksAreTheirs
<1>5. HandleInv' BY DEF HandleInv, LockInv, SetUpAlone, TableInv
<1>6. TableInv' BY DEF TableInv, HandleInv
<1>7. FailedInv' BY DEF FailedInv, HandleInv, TableInv
<1>8. RetryIsElsewhere' BY DEF RetryIsElsewhere, FailedInv, HandleInv
<1>9. TextInv' BY DEF TextInv, HandleInv, SetUpAlone, HonestInv, Satisfies
<1>10. HonestInv' BY DEF HonestInv, TextInv, Satisfies
<1>11. SetUpAlone' BY DEF SetUpAlone, HandleInv, LockInv
<1>12. NothingIsForgotten' BY DEF NothingIsForgotten, HandleInv
<1>13. Ready BY DEF Ready, TextInv, HonestInv, Satisfies
<1> QED BY <1>3, <1>4, <1>5, <1>6, <1>7, <1>8, <1>9, <1>10, <1>11, <1>12, <1>13

LEMMA FinishStep ==
    ASSUME IInv, NEW c \in Calls, Finish(c)
    PROVE  IInv' /\ Ready
<1>0. TypeOK /\ \A d \in Calls : call[d].key \in Keys /\ call[d].handle \in Sandboxes \cup {None}
  BY CallFields DEF IInv
<1>1. Ends(c)
  BY <1>0, EndEffect DEF Finish
<1> USE <1>0, <1>1, ConstantsAssumption DEF Finish, Alone, Ends, IInv, TypeOK, SettingUp, locks,
    sandbox
<1>2. LocksAreTheirs' BY DEF LocksAreTheirs, LockInv
<1>3. TypeOK' BY <1>2, CallFields
<1>4. LockInv' BY DEF LockInv, LocksAreTheirs
<1>5. HandleInv' BY DEF HandleInv, LockInv, SetUpAlone, TableInv
<1>6. TableInv' BY DEF TableInv, HandleInv
<1>7. FailedInv' BY DEF FailedInv, HandleInv, TableInv
<1>8. RetryIsElsewhere' BY DEF RetryIsElsewhere, FailedInv, HandleInv
<1>9. TextInv' BY DEF TextInv, HandleInv, SetUpAlone, HonestInv, Satisfies
<1>10. HonestInv' BY DEF HonestInv, TextInv, Satisfies
<1>11. SetUpAlone' BY DEF SetUpAlone, HandleInv, LockInv
<1>12. NothingIsForgotten' BY DEF NothingIsForgotten, HandleInv
<1>13. Ready BY DEF Ready, TextInv, HonestInv, Satisfies
<1> QED BY <1>3, <1>4, <1>5, <1>6, <1>7, <1>8, <1>9, <1>10, <1>11, <1>12, <1>13

LEMMA FailStep ==
    ASSUME IInv, NEW c \in Calls, Fail(c)
    PROVE  IInv' /\ Ready
<1>0. TypeOK /\ \A d \in Calls : call[d].key \in Keys /\ call[d].handle \in Sandboxes \cup {None}
  BY CallFields DEF IInv
<1>1. Ends(c) \/ GivesUp(c, call[c].handle)
  BY <1>0, RaiseEffect DEF Fail
<1> USE <1>0, <1>1, ConstantsAssumption DEF Fail, Alone, Ends, GivesUp, IInv, TypeOK, SettingUp,
    locks, sandbox
<1>2. LocksAreTheirs' BY DEF LocksAreTheirs, LockInv
<1>3. TypeOK' BY <1>2, CallFields
<1>4. LockInv' BY DEF LockInv, LocksAreTheirs
<1>5. HandleInv' BY DEF HandleInv, LockInv, SetUpAlone, TableInv
<1>6. TableInv' BY DEF TableInv, HandleInv
<1>7. FailedInv' BY DEF FailedInv, HandleInv, TableInv
<1>8. RetryIsElsewhere' BY DEF RetryIsElsewhere, FailedInv, HandleInv
<1>9. TextInv' BY DEF TextInv, HandleInv, SetUpAlone, HonestInv, Satisfies
<1>10. HonestInv' BY DEF HonestInv, TextInv, Satisfies
<1>11. SetUpAlone' BY DEF SetUpAlone, HandleInv, LockInv
<1>12. NothingIsForgotten' BY DEF NothingIsForgotten, HandleInv
<1>13. Ready BY DEF Ready, TextInv, HonestInv, Satisfies
<1> QED BY <1>3, <1>4, <1>5, <1>6, <1>7, <1>8, <1>9, <1>10, <1>11, <1>12, <1>13

LEMMA InvalidateStep ==
    ASSUME IInv, NEW c \in Calls, Invalidate(c)
    PROVE  IInv' /\ Ready
<1>0. TypeOK /\ \A d \in Calls : call[d].key \in Keys /\ call[d].handle \in Sandboxes \cup {None}
  BY CallFields DEF IInv
<1>1. /\ call[c].pc = "invalidating" /\ lock = NoCall
      /\ UNCHANGED <<requirements, keyLock, lock, alive, policy, installed, packages, lost>>
  BY DEF Invalidate, locks, sandbox
<1>2. CASE Victims(c) = {} /\ AfterInvalidation(c) /\ UNCHANGED table
  <2>1. Ends(c) \/ BeginsAgain(c)
    BY <1>0, <1>2, AfterEffect
  <2>2. call[c].handle = None \/ \A k \in Keys : table[k] # call[c].handle
    BY <1>0, <1>2 DEF Victims
  <2> USE <1>0, <1>1, <1>2, <2>1, <2>2, ConstantsAssumption DEF Alone, Ends, BeginsAgain, IInv,
      TypeOK, SettingUp
  <2>3. LocksAreTheirs' BY DEF LocksAreTheirs, LockInv
  <2>4. TypeOK' BY <2>3, CallFields
  <2>5. LockInv' BY DEF LockInv, LocksAreTheirs
  <2>6. HandleInv' BY DEF HandleInv, LockInv, SetUpAlone, TableInv
  <2>7. TableInv' BY DEF TableInv, HandleInv
  <2>8. FailedInv' BY DEF FailedInv, HandleInv, TableInv
  <2>9. RetryIsElsewhere' BY DEF RetryIsElsewhere, FailedInv, HandleInv
  <2>10. TextInv' BY DEF TextInv, HandleInv, SetUpAlone, HonestInv, Satisfies
  <2>11. HonestInv' BY DEF HonestInv, TextInv, Satisfies
  <2>12. SetUpAlone' BY DEF SetUpAlone, HandleInv, LockInv
  <2>13. NothingIsForgotten' BY DEF NothingIsForgotten, HandleInv
  <2>14. Ready BY DEF Ready, TextInv, HonestInv, Satisfies
  <2> QED BY <2>4, <2>5, <2>6, <2>7, <2>8, <2>9, <2>10, <2>11, <2>12, <2>13, <2>14
<1>3. ASSUME NEW k \in Victims(c), table' = [table EXCEPT ![k] = None],
             call' = [call EXCEPT ![c] = [@ EXCEPT !.pc = "disposing", !.handle = table[k]]]
      PROVE  IInv' /\ Ready
  <2>0. /\ k \in Keys /\ table[k] \in Sandboxes /\ "disposing" \in Points
        /\ call[c].handle # None => table[k] = call[c].handle
    BY <1>0 DEF Victims, TypeOK, Points
  <2>1. GoesTo(c, "disposing", table[k])
    BY <1>0, <1>3, <2>0, MovingOn
  <2>2. /\ table' \in [Keys -> Sandboxes \cup {None}]
        /\ table'[k] = None
        /\ \A j \in Keys : j # k => table'[j] = table[j]
    BY <1>0, <1>3, <2>0 DEF TypeOK
  <2> USE <1>0, <1>1, <2>0, <2>1, <2>2, ConstantsAssumption DEF Alone, GoesTo, IInv, TypeOK,
      SettingUp
  <2>3. LocksAreTheirs' BY DEF LocksAreTheirs, LockInv
  <2>4. TypeOK' BY <2>3, CallFields
  <2>5. LockInv' BY DEF LockInv, LocksAreTheirs
  <2>6. HandleInv' BY DEF HandleInv, LockInv, SetUpAlone, TableInv
  <2>7. TableInv' BY DEF TableInv, HandleInv
  <2>8. FailedInv' BY DEF FailedInv, HandleInv, TableInv
  <2>9. RetryIsElsewhere' BY DEF RetryIsElsewhere, FailedInv, HandleInv
  <2>10. TextInv' BY DEF TextInv, HandleInv, SetUpAlone, HonestInv, Satisfies
  <2>11. HonestInv' BY DEF HonestInv, TextInv, Satisfies
  <2>12. SetUpAlone' BY DEF SetUpAlone, HandleInv, LockInv
  <2>13. NothingIsForgotten' BY DEF NothingIsForgotten, HandleInv
  <2>14. Ready BY DEF Ready, TextInv, HonestInv, Satisfies
  <2> QED BY <2>4, <2>5, <2>6, <2>7, <2>8, <2>9, <2>10, <2>11, <2>12, <2>13, <2>14
<1> QED BY <1>2, <1>3 DEF Invalidate

LEMMA InvalidatedStep ==
    ASSUME IInv, NEW c \in Calls, Invalidated(c)
    PROVE  IInv' /\ Ready
<1>0. TypeOK /\ \A d \in Calls : call[d].key \in Keys /\ call[d].handle \in Sandboxes \cup {None}
  BY CallFields DEF IInv
<1>1. Ends(c) \/ BeginsAgain(c)
  BY <1>0, AfterEffect DEF Invalidated
<1> USE <1>0, <1>1, ConstantsAssumption DEF Invalidated, Disposed, Alone, Ends, BeginsAgain, IInv,
    TypeOK, SettingUp, locks, sandbox
<1>2. LocksAreTheirs' BY DEF LocksAreTheirs, LockInv
<1>3. TypeOK' BY <1>2, CallFields
<1>4. LockInv' BY DEF LockInv, LocksAreTheirs
<1>5. HandleInv' BY DEF HandleInv, LockInv, SetUpAlone, TableInv
<1>6. TableInv' BY DEF TableInv, HandleInv
<1>7. FailedInv' BY DEF FailedInv, HandleInv, TableInv
<1>8. RetryIsElsewhere' BY DEF RetryIsElsewhere, FailedInv, HandleInv
<1>9. TextInv' BY DEF TextInv, HandleInv, SetUpAlone, HonestInv, Satisfies
<1>10. HonestInv' BY DEF HonestInv, TextInv, Satisfies
<1>11. SetUpAlone' BY DEF SetUpAlone, HandleInv, LockInv
<1>12. NothingIsForgotten' BY DEF NothingIsForgotten, HandleInv
<1>13. Ready BY DEF Ready, TextInv, HonestInv, Satisfies
<1> QED BY <1>3, <1>4, <1>5, <1>6, <1>7, <1>8, <1>9, <1>10, <1>11, <1>12, <1>13

LEMMA CancelStep ==
    ASSUME IInv, NEW c \in Calls, Cancel(c)
    PROVE  IInv' /\ Ready
<1>0. TypeOK /\ \A d \in Calls : call[d].key \in Keys /\ call[d].handle \in Sandboxes \cup {None}
  BY CallFields DEF IInv
<1>1. Ends(c)
  BY <1>0, EndEffect DEF Cancel
<1>1a. packages' \in [Sandboxes -> SUBSET Requirements]
  <2>1. CASE call[c].pc \in {"installing", "reinstalling"}
    <3>1. call[c].handle \in Sandboxes /\ call[c].text \in Texts
      BY <1>0, <2>1, CallFields DEF IInv, HandleInv, TextInv, SettingUp
    <3>2. EquipFails(call[c].handle, call[c].text)
      BY <2>1 DEF Cancel
    <3> QED BY <1>0, <3>1, <3>2, PackagesType
  <2>2. CASE call[c].pc \notin {"installing", "reinstalling"}
    <3>1. UNCHANGED packages
      BY <2>2 DEF Cancel, CreatedUnseen, sandbox
    <3> QED BY <1>0, <3>1 DEF TypeOK
  <2> QED BY <2>1, <2>2
<1> USE <1>0, <1>1, ConstantsAssumption DEF Cancel, Leave, CreatedUnseen, Unused, Named, Disposed,
    EquipFails, Alone, Ends, IInv, TypeOK, SettingUp, locks, sandbox
<1>2. LocksAreTheirs' BY DEF LocksAreTheirs, LockInv
<1>3. TypeOK' BY <1>1a, <1>2, CallFields
<1>4. LockInv' BY DEF LockInv, LocksAreTheirs
<1>5. HandleInv' BY DEF HandleInv, LockInv, SetUpAlone, TableInv
<1>6. TableInv' BY DEF TableInv, HandleInv
<1>7. FailedInv' BY DEF FailedInv, HandleInv, TableInv
<1>8. RetryIsElsewhere' BY DEF RetryIsElsewhere, FailedInv, HandleInv
<1>9. TextInv' BY DEF TextInv, HandleInv, SetUpAlone, HonestInv, Satisfies
<1>10. HonestInv' BY DEF HonestInv, TextInv, Satisfies
<1>11. SetUpAlone' BY DEF SetUpAlone, HandleInv, LockInv
<1>12. NothingIsForgotten' BY DEF NothingIsForgotten, HandleInv
<1>13. Ready BY DEF Ready, TextInv, HonestInv, Satisfies
<1> QED BY <1>3, <1>4, <1>5, <1>6, <1>7, <1>8, <1>9, <1>10, <1>11, <1>12, <1>13

LEMMA StartStep ==
    ASSUME IInv, NEW c \in Calls, NEW kind \in {"tool", "prewarm"}, NEW k \in Keys,
           NEW p \in Policies, Start(c, kind, k, p)
    PROVE  IInv' /\ Ready
<1>0. TypeOK /\ \A d \in Calls : call[d].key \in Keys /\ call[d].handle \in Sandboxes \cup {None}
  BY CallFields DEF IInv
<1>1. /\ Alone(c)
      /\ call[c].pc = "idle"
      /\ call'[c].pc = "entering" /\ call'[c].handle = None /\ ~call'[c].again
      /\ call'[c].key = k /\ call'[c].failed = None
  <2> DEFINE q == [Idle EXCEPT !.pc = "entering", !.kind = kind, !.key = k, !.policy = p]
  <2>1. q \in Call
    BY <1>0, IdleCall DEF Call, Points, TypeOK
  <2>2. Alone(c) /\ call'[c] = q
    BY <1>0, <2>1, Becoming DEF Start
  <2>3. /\ q.pc = "entering" /\ q.handle = None /\ ~q.again
        /\ q.key = k /\ q.failed = None
    BY DEF Idle
  <2> HIDE DEF q
  <2> QED BY <2>2, <2>3, IdleCall DEF Start
<1> USE <1>0, <1>1, ConstantsAssumption DEF Start, Alone, locks, sandbox, IInv, TypeOK, SettingUp
<1>2. LocksAreTheirs' BY DEF LocksAreTheirs, LockInv
<1>3. TypeOK' BY <1>2, CallFields
<1>4. LockInv' BY DEF LockInv, LocksAreTheirs
<1>5. HandleInv' BY DEF HandleInv, LockInv, SetUpAlone, TableInv
<1>6. TableInv' BY DEF TableInv, HandleInv
<1>7. FailedInv' BY DEF FailedInv, HandleInv, TableInv
<1>8. RetryIsElsewhere' BY DEF RetryIsElsewhere, FailedInv, HandleInv
<1>9. TextInv' BY DEF TextInv, HandleInv, SetUpAlone, HonestInv, Satisfies
<1>10. HonestInv' BY DEF HonestInv, TextInv, Satisfies
<1>11. SetUpAlone' BY DEF SetUpAlone, HandleInv, LockInv
<1>12. NothingIsForgotten' BY DEF NothingIsForgotten, HandleInv
<1>13. Ready BY DEF Ready, TextInv, HonestInv, Satisfies
<1> QED BY <1>3, <1>4, <1>5, <1>6, <1>7, <1>8, <1>9, <1>10, <1>11, <1>12, <1>13

LEMMA SetRequirementsStep ==
    ASSUME IInv, NEW text \in Texts, SetRequirements(text)
    PROVE  IInv' /\ Ready
<1>0. TypeOK /\ \A d \in Calls : call[d].key \in Keys /\ call[d].handle \in Sandboxes \cup {None}
  BY CallFields DEF IInv
<1>1. /\ call' \in [Calls -> Call]
      /\ \A c \in Calls :
            /\ call'[c].pc = call[c].pc /\ call'[c].handle = call[c].handle
            /\ call'[c].key = call[c].key /\ call'[c].again = call[c].again
            /\ call'[c].failed = call[c].failed /\ call'[c].text = call[c].text
            /\ call[c].seen \subseteq call'[c].seen
            /\ call[c].seen # {} => text \in call'[c].seen
  <2> DEFINE q(c) == [call[c] EXCEPT !.seen = IF @ = {} THEN {} ELSE @ \cup {text}]
  <2>1. ASSUME NEW c \in Calls
        PROVE  /\ q(c) \in Call
               /\ q(c).pc = call[c].pc /\ q(c).handle = call[c].handle /\ q(c).key = call[c].key
               /\ q(c).again = call[c].again /\ q(c).failed = call[c].failed
               /\ q(c).text = call[c].text
               /\ q(c).seen = IF call[c].seen = {} THEN {} ELSE call[c].seen \cup {text}
    <3>1. call[c] \in Call
      BY <1>0, CallFields
    <3> QED BY <3>1 DEF Call
  <2>2. call' = [c \in Calls |-> q(c)]
    BY DEF SetRequirements
  <2> HIDE DEF q
  <2>3. \A c \in Calls : call'[c] = q(c)
    BY <2>2
  <2>4. call' \in [Calls -> Call]
    BY <2>1, <2>2
  <2> QED BY <2>1, <2>3, <2>4
<1>2. /\ requirements' = text
      /\ UNCHANGED <<table, keyLock, lock, alive, policy, installed, packages, lost>>
  BY DEF SetRequirements, locks, sandbox
<1> USE <1>0, <1>1, <1>2, ConstantsAssumption DEF Alone, IInv, TypeOK, SettingUp
<1>3. LocksAreTheirs' BY DEF LocksAreTheirs, LockInv
<1>4. TypeOK' BY <1>3, CallFields
<1>5. LockInv' BY DEF LockInv, LocksAreTheirs
<1>6. HandleInv' BY DEF HandleInv, LockInv, SetUpAlone, TableInv
<1>7. TableInv' BY DEF TableInv, HandleInv
<1>8. FailedInv' BY DEF FailedInv, HandleInv, TableInv
<1>9. RetryIsElsewhere' BY DEF RetryIsElsewhere, FailedInv, HandleInv
<1>10. TextInv' BY DEF TextInv, HandleInv, SetUpAlone, HonestInv, Satisfies
<1>11. HonestInv' BY DEF HonestInv, TextInv, Satisfies
<1>12. SetUpAlone' BY DEF SetUpAlone, HandleInv, LockInv
<1>13. NothingIsForgotten' BY DEF NothingIsForgotten, HandleInv
<1>14. Ready BY DEF Ready, TextInv, HonestInv, Satisfies
<1> QED BY <1>4, <1>5, <1>6, <1>7, <1>8, <1>9, <1>10, <1>11, <1>12, <1>13, <1>14

LEMMA VanishStep ==
    ASSUME IInv, NEW s \in Sandboxes, Vanish(s)
    PROVE  IInv' /\ Ready
<1>1. /\ alive' = alive \ {s} /\ lost' = lost \ {s}
      /\ UNCHANGED <<requirements, table, keyLock, lock, call, policy, installed, packages>>
  BY DEF Vanish, locks
<1>2. TypeOK'
  BY <1>1 DEF IInv, TypeOK, LocksAreTheirs
<1>3. NothingIsForgotten'
  BY <1>1 DEF IInv, NothingIsForgotten
<1>4. (LockInv /\ HandleInv /\ TableInv /\ FailedInv)'
  BY <1>1 DEF IInv, LockInv, HandleInv, TableInv, FailedInv
<1>5. (TextInv /\ HonestInv /\ SetUpAlone /\ RetryIsElsewhere)'
  BY <1>1 DEF IInv, TextInv, HonestInv, SetUpAlone, RetryIsElsewhere, Satisfies
<1>6. Ready
  BY <1>1 DEF Ready
<1> QED BY <1>2, <1>3, <1>4, <1>5, <1>6 DEF IInv

LEMMA RestartStep ==
    ASSUME IInv, Restart
    PROVE  IInv' /\ Ready
<1>1. requirements' \in Texts
  BY DEF Restart, IInv, TypeOK
<1>2. /\ table' \in [Keys -> Sandboxes \cup {None}]
      /\ keyLock' \in [Keys -> Calls \cup {NoCall}]
      /\ lock' \in Calls \cup {NoCall}
      /\ call' \in [Calls -> Call]
      /\ LocksAreTheirs'
  <2>1. \A c \in Calls : call'[c] = Idle
    BY DEF Restart
  <2> QED BY <2>1, IdleCall, ConstantsAssumption DEF Restart, LocksAreTheirs
<1>3. \A c \in Calls : call'[c].pc = "idle"
  BY IdleCall DEF Restart
<1>4. TypeOK'
  BY <1>1, <1>2 DEF Restart, MayBeLeft, IInv, TypeOK
<1>5. (LockInv /\ HandleInv /\ TableInv /\ FailedInv /\ TextInv /\ SetUpAlone /\ RetryIsElsewhere)'
  BY <1>3 DEF Restart, LockInv, HandleInv, TableInv, FailedInv, TextInv, SettingUp, SetUpAlone,
              RetryIsElsewhere
<1>6. HonestInv'
  BY DEF Restart, IInv, HonestInv, Satisfies
<1>7. NothingIsForgotten'
  BY DEF Restart, NothingIsForgotten
<1>8. Ready
  BY <1>3 DEF Ready
<1> QED BY <1>4, <1>5, <1>6, <1>7, <1>8 DEF IInv

LEMMA Initially == Init => IInv
<1> SUFFICES ASSUME Init PROVE IInv
  OBVIOUS
<1>1. \A c \in Calls : call[c] = Idle /\ call[c].pc = "idle"
  BY IdleCall DEF Init
<1>2. call \in [Calls -> Call]
  BY IdleCall DEF Init
<1>3. policy \in [Sandboxes -> Policies]
  BY ConstantsAssumption DEF Init
<1>4. TypeOK
  BY <1>2, <1>3, ConstantsAssumption DEF Init, TypeOK, LocksAreTheirs
<1>5. LockInv /\ HandleInv /\ TableInv /\ FailedInv /\ TextInv /\ SetUpAlone /\ RetryIsElsewhere
  BY <1>1 DEF Init, LockInv, HandleInv, TableInv, FailedInv, TextInv, SettingUp, SetUpAlone,
              RetryIsElsewhere
<1>6. HonestInv /\ NothingIsForgotten
  BY DEF Init, HonestInv, NothingIsForgotten
<1> QED BY <1>4, <1>5, <1>6 DEF IInv

LEMMA Step == IInv /\ [Next]_vars => IInv' /\ Ready
<1> SUFFICES ASSUME IInv, [Next]_vars PROVE IInv' /\ Ready
  OBVIOUS
<1>1. CASE UNCHANGED vars
  <2>1. IInv'
    BY <1>1 DEF vars, locks, sandbox, IInv, TypeOK, LocksAreTheirs, LockInv, HandleInv, TableInv,
                FailedInv, TextInv, HonestInv, SetUpAlone, RetryIsElsewhere, NothingIsForgotten,
                Satisfies
  <2>2. Ready
    BY <1>1 DEF vars, Ready
  <2> QED BY <2>1, <2>2
<1>2. ASSUME NEW c \in Calls, LockStep(c)
      PROVE  IInv' /\ Ready
  BY <1>2, EnterStep, AcquireKeyStep, ReuseStep, StartVerifyStep, StartReplaceStep, StartCreateStep,
     BindStep, InvalidateStep DEF LockStep
<1>3. ASSUME NEW c \in Calls, ServerStep(c)
      PROVE  IInv' /\ Ready
  BY <1>3, VerifiedStep, ReinstallStep, ReinstalledStep, ReinstallFailsStep, ReplacedStep,
     CreatedStep, CreateFailsStep, InstalledStep, InstallFailsStep, FinishStep, FailStep,
     InvalidatedStep DEF ServerStep
<1>4. ASSUME NEW c \in Calls, NEW kind \in {"tool", "prewarm"}, NEW k \in Keys, NEW p \in Policies,
             Start(c, kind, k, p)
      PROVE  IInv' /\ Ready
  BY <1>4, StartStep
<1>5. ASSUME NEW c \in Calls, Cancel(c)
      PROVE  IInv' /\ Ready
  BY <1>5, CancelStep
<1>6. ASSUME NEW text \in Texts, SetRequirements(text)
      PROVE  IInv' /\ Ready
  BY <1>6, SetRequirementsStep
<1>7. ASSUME NEW s \in Sandboxes, Vanish(s)
      PROVE  IInv' /\ Ready
  BY <1>7, VanishStep
<1>8. CASE Restart
  BY <1>8, RestartStep
<1> QED BY <1>1, <1>2, <1>3, <1>4, <1>5, <1>6, <1>7, <1>8 DEF Next

-----------------------------------------------------------------------------
\* The inductive invariant of the sandbox pool holds in every reachable state.
THEOREM Invariance == Spec => []IInv
<1>1. IInv /\ [Next]_vars => IInv'
  BY Step
<1> QED BY <1>1, Initially, PTL DEF Spec

\* Every reachable state of the pool has its type; a lock is held by a call that is
\* inside the block of that lock, and the global lock by one that holds its key's too.
THEOREM TypeCorrect == Spec => []TypeOK
<1>1. IInv => TypeOK
  BY DEF IInv
<1> QED BY <1>1, Invariance, PTL

\* However many calls and table keys there are, no two lookups set up, check or dispose
\* one sandbox at a time, although the installation holds no global lock.
THEOREM SettingUpIsExclusive == Spec => []SetUpAlone
<1>1. IInv => SetUpAlone
  BY DEF IInv
<1> QED BY <1>1, Invariance, PTL

\* The second attempt of a call never gets the sandbox that its first did not find.
THEOREM RetriesAreElsewhere == Spec => []RetryIsElsewhere
<1>1. IInv => RetryIsElsewhere
  BY DEF IInv
<1> QED BY <1>1, Invariance, PTL

\* A running sandbox is in the table or about to be disposed, unless the server, a
\* cancellation or a restart took it from the call that had it.
THEOREM NoneIsForgotten == Spec => []NothingIsForgotten
<1>1. IInv => NothingIsForgotten
  BY DEF IInv
<1> QED BY <1>1, Invariance, PTL

\* A tool gets a sandbox in which every line of a requirements.txt of its time is installed,
\* save those that the installer passes over: never an older file, and never one that is
\* half installed.
THEOREM ToolsGetReadySandboxes == Spec => HandedOverReady
<1>1. IInv /\ [Next]_vars =>
        [\A c \in Calls :
            call[c].pc # "running" /\ call'[c].pc = "running"
                => \E text \in call[c].seen :
                      text \ Skipped \subseteq packages'[call'[c].handle]]_vars
  BY Step DEF Ready
<1> QED BY <1>1, Invariance, PTL DEF Spec, HandedOverReady

-----------------------------------------------------------------------------
(* Nobody waits for good: who waits for whom, and what a call may still do. *)

\* c waits for a lock that d holds.
Waits(c, d) ==
    \/ call[c].pc \in {"entering", "checking", "binding", "invalidating"} /\ lock = d
    \/ call[c].pc = "queued" /\ keyLock[call[c].key] = d

\* A call that waits for the global lock waits for one that waits for nobody; one that waits
\* for the lock of its key waits for one that may wait for the global lock, and no further.
NoCircularWait ==
    \A c, d \in Calls : Waits(c, d) =>
        /\ c # d
        /\ \A e \in Calls : Waits(d, e) =>
              call[c].pc = "queued" /\ \A f \in Calls : ~Waits(e, f)

\* The points before a call; twelve more before its second attempt.
PointsLeft(point) ==
    CASE point = "entering" -> 12
      [] point = "queued" -> 11
      [] point = "checking" -> 10
      [] point \in {"verifying", "replacing"} -> 9
      [] point \in {"reinstalling", "creating"} -> 8
      [] point = "installing" -> 7
      [] point = "binding" -> 6
      [] point = "running" -> 5
      [] point = "invalidating" -> 4
      [] point = "disposing" -> 3
      [] OTHER -> 0

Left(r) == IF r.pc = "idle" THEN 0 ELSE PointsLeft(r.pc) + (IF r.again THEN 0 ELSE 12)

\* Every step of a call brings it nearer to its end, and nothing that other calls, the
\* user, the server or a restart do sends it back.
CallsShrink ==
    [][\A c \in Calls :
          /\ LockStep(c) \/ ServerStep(c) \/ Cancel(c) => Left(call'[c]) < Left(call[c])
          /\ call[c].pc # "idle" => Left(call'[c]) <= Left(call[c])]_vars

\* A second attempt is followed by none.
OneRetry(r) == r.pc \in {"invalidating", "disposing"} /\ r.next = "retry" => ~r.again

RetryInv == \A c \in Calls : OneRetry(call[c])

\* If any call is under way, one of them waits for no lock.
SomebodyMoves ==
    (\E c \in Calls : call[c].pc # "idle")
        => \E c \in Calls : call[c].pc # "idle" /\ \A d \in Calls : ~Waits(c, d)

\* The locks are taken in one order: no two calls ever wait for each other, and none waits
\* in a chain of more than two locks; so there is always a call that goes on.
THEOREM LocksAreOrdered == Spec => [](NoCircularWait /\ SomebodyMoves)
<1>1. TypeOK => NoCircularWait
  <2> SUFFICES ASSUME TypeOK, NEW c \in Calls, NEW d \in Calls, Waits(c, d)
               PROVE  /\ c # d
                      /\ \A e \in Calls : Waits(d, e) =>
                            call[c].pc = "queued" /\ \A f \in Calls : ~Waits(e, f)
    BY DEF NoCircularWait
  <2>1. \A k \in Keys, e \in Calls : keyLock[k] = e =>
            call[e].pc \in {"checking", "verifying", "reinstalling", "replacing", "creating",
                            "installing", "binding"}
    BY ConstantsAssumption DEF TypeOK, LocksAreTheirs
  <2>2. \A e \in Calls : lock = e =>
            call[e].pc \in {"verifying", "reinstalling", "replacing", "creating"}
    BY ConstantsAssumption DEF TypeOK, LocksAreTheirs
  <2>3. \A e \in Calls : lock = e => \A f \in Calls : ~Waits(e, f)
    BY <2>2 DEF Waits
  <2>4. \A k \in Keys, e \in Calls : keyLock[k] = e =>
            \A f \in Calls : Waits(e, f) => lock = f
    BY <2>1 DEF Waits
  <2>5. CASE lock = d /\ call[c].pc \in {"entering", "checking", "binding", "invalidating"}
    BY <2>2, <2>3, <2>5
  <2>6. CASE call[c].pc = "queued" /\ keyLock[call[c].key] = d
    <3>1. call[c].key \in Keys
      BY CallFields
    <3> QED BY <2>1, <2>3, <2>4, <2>6, <3>1
  <2> QED BY <2>5, <2>6 DEF Waits
<1>2. TypeOK /\ NoCircularWait => SomebodyMoves
  <2> SUFFICES ASSUME TypeOK, NoCircularWait, NEW c \in Calls, call[c].pc # "idle"
               PROVE  \E e \in Calls : call[e].pc # "idle" /\ \A d \in Calls : ~Waits(e, d)
    BY DEF SomebodyMoves
  <2>1. NoCall \notin Calls /\ \A e \in Calls : call[e].key \in Keys
    BY CallFields, ConstantsAssumption
  <2>2. LocksAreTheirs
    BY DEF TypeOK
  <2>3. \A e, d \in Calls : Waits(e, d) => call[d].pc # "idle"
    BY <2>1, <2>2 DEF LocksAreTheirs, Waits
  <2> QED BY <2>3 DEF NoCircularWait
<1> QED BY <1>1, <1>2, TypeCorrect, PTL

-----------------------------------------------------------------------------
LEMMA LeftType ==
    ASSUME NEW r
    PROVE  /\ Left(r) \in 0..24
           /\ r.pc = "idle" => Left(r) = 0
           /\ \A n \in 3..12 : PointsLeft(r.pc) = n =>
                 /\ r.again => Left(r) = n
                 /\ ~r.again => Left(r) = n + 12
<1>1. PointsLeft(r.pc) \in 0..12 /\ (r.pc = "idle" => PointsLeft(r.pc) = 0)
  BY DEF PointsLeft
<1> QED BY <1>1 DEF Left

LEMMA PointsAre ==
    /\ PointsLeft("entering") = 12 /\ PointsLeft("queued") = 11 /\ PointsLeft("checking") = 10
    /\ PointsLeft("verifying") = 9 /\ PointsLeft("replacing") = 9
    /\ PointsLeft("reinstalling") = 8 /\ PointsLeft("creating") = 8
    /\ PointsLeft("installing") = 7 /\ PointsLeft("binding") = 6 /\ PointsLeft("running") = 5
    /\ PointsLeft("invalidating") = 4 /\ PointsLeft("disposing") = 3
    /\ PointsLeft("idle") = 0
  BY DEF PointsLeft

LEMMA PointsOf ==
    ASSUME NEW point \in Points \ {"idle"}
    PROVE  PointsLeft(point) \in 3..12
  BY DEF Points, PointsLeft

\* Only call c does something, and it gets nearer to its end.
Progress(c) ==
    /\ \A d \in Calls : d # c => call'[d] = call[d]
    /\ Left(call'[c]) < Left(call[c])
    /\ OneRetry(call'[c])

LEMMA EndsProgress ==
    ASSUME TypeOK, NEW c \in Calls, End(c), call[c].pc # "idle"
    PROVE  Progress(c)
<1>1. /\ \A d \in Calls : d # c => call'[d] = call[d]
      /\ call'[c].pc = "idle"
  BY EndEffect DEF Ends, Alone
<1>2. call[c].pc \in Points \ {"idle"} /\ call[c].again \in BOOLEAN
  BY CallFields DEF Call
<1>3. PointsLeft(call[c].pc) \in 3..12
  BY <1>2, PointsOf
<1>4. Left(call[c]) > 0 /\ Left(call'[c]) = 0
  BY <1>1, <1>2, <1>3 DEF Left
<1> QED BY <1>1, <1>4 DEF Progress, OneRetry

\* The same attempt, at a later point.
LEMMA AttemptProgress ==
    ASSUME TypeOK, NEW c \in Calls, NEW q, call' = [call EXCEPT ![c] = q],
           q.again = call[c].again, OneRetry(q), q.pc \in Points \ {"idle"},
           call[c].pc # "idle", PointsLeft(q.pc) < PointsLeft(call[c].pc)
    PROVE  Progress(c)
<1>1. /\ \A d \in Calls : d # c => call'[d] = call[d]
      /\ call'[c] = q
  BY DEF TypeOK
<1>2. call[c].pc \in Points \ {"idle"} /\ call[c].again \in BOOLEAN
  BY CallFields DEF Call
<1>3. PointsLeft(q.pc) \in 3..12 /\ PointsLeft(call[c].pc) \in 3..12
  BY <1>2, PointsOf
<1>4. Left(q) < Left(call[c])
  <2>1. CASE q.again
    <3>1. Left(q) = PointsLeft(q.pc) /\ Left(call[c]) = PointsLeft(call[c].pc)
      BY <1>3, <2>1, LeftType
    <3> QED BY <3>1
  <2>2. CASE ~q.again
    <3>1. Left(q) = PointsLeft(q.pc) + 12 /\ Left(call[c]) = PointsLeft(call[c].pc) + 12
      BY <1>3, <2>2, LeftType
    <3> QED BY <1>3, <3>1
  <2> QED BY <2>1, <2>2
<1> QED BY <1>1, <1>4 DEF Progress

\* Call c goes to another point of the lookup or to its command, in the same attempt.
Moves(c, pc) ==
    /\ \A d \in Calls : d # c => call'[d] = call[d]
    /\ call'[c].pc = pc
    /\ call'[c].again = call[c].again

LEMMA MovesProgress ==
    ASSUME TypeOK, NEW c \in Calls,
           NEW pc \in {"queued", "checking", "verifying", "replacing", "reinstalling", "creating",
                       "installing", "binding", "running"},
           Moves(c, pc), call[c].pc # "idle", PointsLeft(pc) < PointsLeft(call[c].pc)
    PROVE  Progress(c)
<1> DEFINE q == call'[c]
<1>1. /\ q.pc = pc /\ q.again = call[c].again
      /\ \A d \in Calls : d # c => call'[d] = call[d]
  BY DEF Moves
<1>2. pc \in Points \ {"idle"}
  BY DEF Points
<1>3. call[c].pc \in Points \ {"idle"} /\ call[c].again \in BOOLEAN
  BY CallFields DEF Call
<1>4. PointsLeft(pc) \in 3..12 /\ PointsLeft(call[c].pc) \in 3..12
  BY <1>2, <1>3, PointsOf
<1> HIDE DEF q
<1>5. Left(q) < Left(call[c])
  <2>1. CASE q.again
    <3>1. Left(q) = PointsLeft(pc) /\ Left(call[c]) = PointsLeft(call[c].pc)
      BY <1>1, <1>4, <2>1, LeftType
    <3> QED BY <3>1
  <2>2. CASE ~q.again
    <3>1. Left(q) = PointsLeft(pc) + 12 /\ Left(call[c]) = PointsLeft(call[c].pc) + 12
      BY <1>1, <1>4, <2>2, LeftType
    <3> QED BY <1>4, <3>1
  <2> QED BY <2>1, <2>2
<1>6. OneRetry(q)
  BY <1>1 DEF OneRetry
<1> QED BY <1>1, <1>5, <1>6 DEF Progress, q

LEMMA HandOverProgress ==
    ASSUME TypeOK, NEW c \in Calls, NEW s, HandOver(c, s),
           call[c].pc # "idle", PointsLeft(call[c].pc) > 5
    PROVE  Progress(c)
<1>1. CASE End(c)
  BY <1>1, EndsProgress
<1>2. CASE call' = [call EXCEPT ![c] = [@ EXCEPT !.pc = "running", !.handle = s, !.text = None,
                                                     !.seen = {}]]
  <2>1. Moves(c, "running")
    BY <1>2, CallFields DEF Call, Moves, TypeOK
  <2> QED BY <2>1, PointsAre, MovesProgress
<1> QED BY <1>1, <1>2 DEF HandOver

LEMMA RaiseProgress ==
    ASSUME TypeOK, NEW c \in Calls, NEW h, Raise(c, h) \/ EndOrRetry(c, h),
           call[c].pc # "idle", PointsLeft(call[c].pc) > 4
    PROVE  Progress(c)
<1>1. ASSUME NEW then \in {"retry", "raise"}, then = "retry" => ~call[c].again,
             Invalidating(c, h, then)
      PROVE  Progress(c)
  <2> DEFINE q == [call[c] EXCEPT !.pc = "invalidating", !.handle = h, !.failed = h,
                                  !.text = None, !.next = then, !.seen = {}]
  <2>1. q.pc = "invalidating" /\ q.again = call[c].again /\ q.next = then
    BY CallFields DEF Call
  <2>2. call' = [call EXCEPT ![c] = q]
    BY <1>1 DEF Invalidating, TypeOK
  <2> HIDE DEF q
  <2>3. OneRetry(q) /\ q.pc \in Points \ {"idle"} /\ PointsLeft(q.pc) < PointsLeft(call[c].pc)
    BY <1>1, <2>1, PointsAre DEF OneRetry, Points
  <2> QED BY <2>1, <2>2, <2>3, AttemptProgress
<1>2. CASE End(c)
  BY <1>2, EndsProgress
<1>3. CASE ~call[c].again /\ Invalidating(c, h, "retry")
  BY <1>1, <1>3
<1>4. CASE Invalidating(c, h, "raise")
  BY <1>1, <1>4
<1> QED BY <1>2, <1>3, <1>4 DEF Raise, EndOrRetry

LEMMA AfterProgress ==
    ASSUME TypeOK, NEW c \in Calls, AfterInvalidation(c), OneRetry(call[c]),
           call[c].pc \in {"invalidating", "disposing"}
    PROVE  Progress(c)
<1>1. CASE call[c].next = "retry" /\
           call' = [call EXCEPT ![c] = [@ EXCEPT !.pc = "entering", !.again = TRUE, !.handle = None]]
  <2> DEFINE q == [call[c] EXCEPT !.pc = "entering", !.again = TRUE, !.handle = None]
  <2>1. q.pc = "entering" /\ q.again
    BY CallFields DEF Call
  <2>2. call'[c] = q /\ \A d \in Calls : d # c => call'[d] = call[d]
    BY <1>1 DEF TypeOK
  <2> HIDE DEF q
  <2>3. Left(q) = 12
    BY <2>1, PointsAre, LeftType
  <2>4. Left(call[c]) \in {16, 15}
    <3>1. ~call[c].again
      BY <1>1 DEF OneRetry
    <3> QED BY <3>1, PointsAre, LeftType
  <2>5. Left(q) < Left(call[c])
    BY <2>3, <2>4
  <2> QED BY <2>1, <2>2, <2>5 DEF Progress, OneRetry
<1>2. CASE End(c)
  BY <1>2, EndsProgress
<1> QED BY <1>1, <1>2 DEF AfterInvalidation

LEMMA LockStepProgress ==
    ASSUME TypeOK, NEW c \in Calls, OneRetry(call[c]), LockStep(c)
    PROVE  Progress(c)
<1> USE PointsAre
<1>1. CASE Enter(c)
  <2>1. call[c].pc = "entering" /\ Moves(c, "queued")
    BY <1>1, CallFields DEF Enter, Call, Moves, TypeOK
  <2> QED BY <2>1, MovesProgress
<1>2. CASE AcquireKey(c)
  <2>1. call[c].pc = "queued" /\ Moves(c, "checking")
    BY <1>2, CallFields DEF AcquireKey, Call, Moves, TypeOK
  <2> QED BY <2>1, MovesProgress
<1>3. CASE Reuse(c)
  BY <1>3, HandOverProgress DEF Reuse, Checking
<1>4. CASE StartVerify(c)
  <2>1. call[c].pc = "checking" /\ Moves(c, "verifying")
    BY <1>4, CallFields DEF StartVerify, Checking, Take, Call, Moves, TypeOK
  <2> QED BY <2>1, MovesProgress
<1>5. CASE StartReplace(c)
  <2>1. call[c].pc = "checking" /\ Moves(c, "replacing")
    BY <1>5, CallFields DEF StartReplace, Checking, Take, Call, Moves, TypeOK
  <2> QED BY <2>1, MovesProgress
<1>6. CASE StartCreate(c)
  <2>1. call[c].pc = "checking" /\ Moves(c, "creating")
    BY <1>6, CallFields DEF StartCreate, Checking, Take, Call, Moves, TypeOK
  <2> QED BY <2>1, MovesProgress
<1>7. CASE Bind(c)
  BY <1>7, HandOverProgress DEF Bind
<1>8. CASE Invalidate(c)
  <2>1. call[c].pc = "invalidating"
    BY <1>8 DEF Invalidate
  <2>2. ASSUME NEW k \in Keys,
               call' = [call EXCEPT ![c] = [@ EXCEPT !.pc = "disposing", !.handle = table[k]]]
        PROVE  Progress(c)
    <3> DEFINE q == [call[c] EXCEPT !.pc = "disposing", !.handle = table[k]]
    <3>1. q.pc = "disposing" /\ q.again = call[c].again /\ q.next = call[c].next
      BY CallFields DEF Call
    <3>2. call' = [call EXCEPT ![c] = q]
      BY <2>2 DEF TypeOK
    <3> HIDE DEF q
    <3>3. OneRetry(q) /\ q.pc \in Points \ {"idle"} /\ PointsLeft(q.pc) < PointsLeft(call[c].pc)
      BY <2>1, <3>1 DEF OneRetry, Points
    <3> QED BY <2>1, <3>1, <3>2, <3>3, AttemptProgress
  <2>3. CASE AfterInvalidation(c)
    BY <2>1, <2>3, AfterProgress
  <2> QED BY <1>8, <2>2, <2>3 DEF Invalidate, Victims
<1> QED BY <1>1, <1>2, <1>3, <1>4, <1>5, <1>6, <1>7, <1>8 DEF LockStep

LEMMA ServerStepProgress ==
    ASSUME TypeOK, NEW c \in Calls, OneRetry(call[c]), ServerStep(c)
    PROVE  Progress(c)
<1> USE PointsAre
<1>1. CASE Verified(c) \/ Reinstalled(c)
  BY <1>1, HandOverProgress DEF Verified, Reinstalled
<1>2. CASE Reinstall(c)
  <2>1. call[c].pc = "verifying"
    BY <1>2 DEF Reinstall
  <2>2. CASE HandOver(c, call[c].handle)
    BY <2>1, <2>2, HandOverProgress
  <2>3. CASE call' = [call EXCEPT ![c] = [@ EXCEPT !.pc = "reinstalling", !.text = requirements]]
    <3>1. Moves(c, "reinstalling")
      BY <2>3, CallFields DEF Call, Moves, TypeOK
    <3> QED BY <2>1, <3>1, MovesProgress
  <2> QED BY <1>2, <2>2, <2>3 DEF Reinstall
<1>3. CASE ReinstallFails(c) \/ InstallFails(c)
  BY <1>3, RaiseProgress DEF ReinstallFails, InstallFails
<1>4. CASE CreateFails(c)
  BY <1>4, RaiseProgress DEF CreateFails
<1>5. CASE Fail(c)
  BY <1>5, RaiseProgress DEF Fail
<1>6. CASE Replaced(c)
  <2>1. call[c].pc = "replacing" /\ Moves(c, "creating")
    BY <1>6, CallFields DEF Replaced, Call, Moves, TypeOK
  <2> QED BY <2>1, MovesProgress
<1>7. ASSUME NEW s \in Sandboxes, Created(c, s)
      PROVE  Progress(c)
  <2>1. call[c].pc = "creating"
    BY <1>7 DEF Created, NewSandbox
  <2>2. Moves(c, "binding") \/ Moves(c, "installing")
    BY <1>7, CallFields DEF Created, NewSandbox, Call, Moves, TypeOK
  <2> QED BY <2>1, <2>2, MovesProgress
<1>8. CASE Installed(c)
  <2>1. call[c].pc = "installing" /\ Moves(c, "binding")
    BY <1>8, CallFields DEF Installed, Call, Moves, TypeOK
  <2> QED BY <2>1, MovesProgress
<1>9. CASE Finish(c)
  BY <1>9, EndsProgress DEF Finish
<1>10. CASE Invalidated(c)
  BY <1>10, AfterProgress DEF Invalidated
<1> QED BY <1>1, <1>2, <1>3, <1>4, <1>5, <1>6, <1>7, <1>8, <1>9, <1>10 DEF ServerStep

\* What the other steps do to a call: one that is idle may start; one that is not stays
\* where it is, or is idle after a restart.
LEMMA OthersProgress ==
    ASSUME TypeOK, RetryInv,
           \/ \E c \in Calls, kind \in {"tool", "prewarm"}, k \in Keys, p \in Policies :
                  Start(c, kind, k, p)
           \/ \E text \in Texts : SetRequirements(text)
           \/ \E s \in Sandboxes : Vanish(s)
           \/ Restart
           \/ UNCHANGED vars
    PROVE  /\ RetryInv'
           /\ \A c \in Calls : call[c].pc # "idle" => Left(call'[c]) <= Left(call[c])
<1>0. \A r : r.pc = "idle" => OneRetry(r) /\ Left(r) = 0
  BY DEF OneRetry, Left
<1>00. \A c \in Calls : Left(call[c]) \in Nat
  BY LeftType
<1>1. ASSUME NEW c \in Calls, NEW kind \in {"tool", "prewarm"}, NEW k \in Keys, NEW p \in Policies,
             Start(c, kind, k, p)
      PROVE  RetryInv' /\ \A d \in Calls : call[d].pc # "idle" => call'[d] = call[d]
  <2> DEFINE q == [Idle EXCEPT !.pc = "entering", !.kind = kind, !.key = k, !.policy = p]
  <2>1. q.pc = "entering"
    BY IdleCall DEF Call
  <2>2. call'[c] = q /\ (\A d \in Calls : d # c => call'[d] = call[d]) /\ call[c].pc = "idle"
    BY <1>1, IdleCall DEF Start, TypeOK
  <2> HIDE DEF q
  <2>3. OneRetry(q)
    BY <2>1 DEF OneRetry
  <2> QED BY <2>2, <2>3 DEF RetryInv
<1>2. ASSUME NEW text \in Texts, SetRequirements(text), NEW c \in Calls
      PROVE  /\ call'[c].pc = call[c].pc /\ call'[c].again = call[c].again
             /\ call'[c].next = call[c].next
  <2>1. call'[c] = [call[c] EXCEPT !.seen = IF @ = {} THEN {} ELSE @ \cup {text}]
    BY <1>2 DEF SetRequirements
  <2> QED BY <2>1, CallFields DEF Call
<1>3. CASE \E text \in Texts : SetRequirements(text)
  <2>1. \A c \in Calls : OneRetry(call'[c]) /\ Left(call'[c]) = Left(call[c])
    BY <1>2, <1>3 DEF RetryInv, OneRetry, Left
  <2> QED BY <2>1, <1>00 DEF RetryInv
<1>4. CASE Restart
  <2>1. \A c \in Calls : call'[c].pc = "idle"
    BY <1>4, IdleCall DEF Restart
  <2> QED BY <1>0, <1>00, <2>1 DEF RetryInv
<1>5. CASE (\E s \in Sandboxes : Vanish(s)) \/ UNCHANGED vars
  <2>1. call' = call
    BY <1>5 DEF Vanish, vars
  <2> QED BY <1>00, <2>1 DEF RetryInv
<1> QED BY <1>00, <1>1, <1>3, <1>4, <1>5

LEMMA NextProgress ==
    ASSUME TypeOK, RetryInv, [Next]_vars
    PROVE  /\ RetryInv'
           /\ \A c \in Calls :
                /\ LockStep(c) \/ ServerStep(c) \/ Cancel(c) => Left(call'[c]) < Left(call[c])
                /\ call[c].pc # "idle" => Left(call'[c]) <= Left(call[c])
<1>1. ASSUME NEW c \in Calls, LockStep(c) \/ ServerStep(c) \/ Cancel(c)
      PROVE  Progress(c)
  <2>1. CASE Cancel(c)
    BY <2>1, EndsProgress DEF Cancel
  <2> QED BY <1>1, <2>1, LockStepProgress, ServerStepProgress DEF RetryInv
<1>2. \A c \in Calls : Left(call[c]) \in 0..24
  BY LeftType
<1>3. ASSUME NEW c \in Calls, Progress(c)
      PROVE  RetryInv' /\ \A d \in Calls : Left(call'[d]) <= Left(call[d])
  <2>1. Left(call'[c]) \in Nat
    BY LeftType
  <2> QED BY <1>2, <1>3, <2>1 DEF RetryInv, Progress
<1> QED BY <1>1, <1>3, OthersProgress DEF Next, Progress

\* A call takes at most 24 steps of its own, both attempts at a sandbox included: whatever
\* locks it waits for, fails on the way or is invalidated by others, it looks a sandbox up
\* twice at most.
THEOREM CallsUseUpTheirBudget ==
    Spec => CallsShrink /\ [](\A c \in Calls : Left(call[c]) \in 0..24)
<1>1. Init => RetryInv
  BY IdleCall DEF Init, RetryInv, OneRetry
<1>2. TypeOK /\ RetryInv /\ [Next]_vars => RetryInv'
  BY NextProgress
<1>3. TypeOK /\ RetryInv /\ [Next]_vars =>
        [\A c \in Calls :
            /\ LockStep(c) \/ ServerStep(c) \/ Cancel(c) => Left(call'[c]) < Left(call[c])
            /\ call[c].pc # "idle" => Left(call'[c]) <= Left(call[c])]_vars
  BY NextProgress
<1>4. \A c \in Calls : Left(call[c]) \in 0..24
  BY LeftType
<1> QED BY <1>1, <1>2, <1>3, <1>4, TypeCorrect, PTL DEF Spec, CallsShrink

=============================================================================
